----------------------------- MODULE JsonBounds -----------------------------
(***************************************************************************)
(* _json_object_bounds and what append_catalog_entry splices with it.      *)
(*                                                                         *)
(* The catalog is one JSON object, too large to be parsed at once: the     *)
(* code scans its bytes with a stack of containers, has json.loads check   *)
(* one top-level member at a time, and finds where the text can be cut to  *)
(* take one more. Here the next byte is any of the classes of Bytes, and   *)
(* next to the scan runs a parser of the whole text (Feed), which is also  *)
(* what json.loads makes of a member.                                      *)
(***************************************************************************)
EXTENDS Naturals, Sequences

CONSTANTS
    MaxText,    \* bound on the length of the text
    MaxMember,  \* MAX_CATALOG_RECORD_BYTES
    NoOffset    \* Python's None, for an offset

ASSUME BoundsConstants == MaxText \in Nat /\ MaxMember \in Nat /\ NoOffset \notin Nat

(* quote is a double quote, escape a backslash, digit a number by itself and *)
(* with its like, letter one that may follow a backslash and stands for      *)
(* nothing outside strings; newline is the blank no string may contain.      *)
Blank == {"space", "newline"}
Opening == {"{", "["}
Closing == {"}", "]"}
Bytes == Blank \cup Opening \cup Closing
            \cup {",", ":", "quote", "escape", "digit", "letter"}

OpeningOf(b) == IF b = "}" THEN "{" ELSE "["

VARIABLES
    outcome,        \* "idle", "scanning", "bounds" or why it is refused
    position,
    stack,          \* open containers
    inString,
    escaped,
    rootOpen,
    rootClose,
    lastContent,
    membersSeen,
    memberStart,
    member,         \* parse of the bytes from memberStart on, between braces
    blankMember,    \* are they all blank?
    whole,          \* parse of the text up to position
    kept,           \* parse of the text up to where it would be cut
    blankCut        \* are the bytes from there to the closing brace blank?

scanner == <<stack, inString, escaped>>
offsets == <<rootOpen, rootClose, lastContent, membersSeen, memberStart>>
parses == <<member, blankMember, whole, kept, blankCut>>
boundsVars == <<outcome, position, scanner, offsets, parses>>

-----------------------------------------------------------------------------
(* JSON. want is what may come next: "root", "key" (or "first", a key or the *)
(* end of an empty object), "colon", "value" (or "element", a value or the   *)
(* end of an empty array), "after" a value, "end" of the text, or "error".   *)

Parse(s, w, l) == [stack |-> s, want |-> w, lex |-> l]

Wrong == Parse(<<>>, "error", "none")
NoText == Parse(<<>>, "root", "none")
EmptyObject == Parse(<<"{">>, "first", "none")

Top(s) == s[Len(s)]
Pop(s) == SubSeq(s, 1, Len(s) - 1)

Lexing(g, l) == Parse(g.stack, g.want, l)

StringEnded(g) ==
    Parse(g.stack, IF g.want \in {"first", "key"} THEN "colon" ELSE "after", "none")

FeedEscape(g, b) ==
    IF b \in {"quote", "escape", "letter"} THEN Lexing(g, "string") ELSE Wrong

FeedString(g, b) ==
    IF b = "quote" THEN StringEnded(g)
    ELSE IF b = "escape" THEN Lexing(g, "escape")
    ELSE IF b = "newline" THEN Wrong
    ELSE g

(* What comes behind an opening brace or bracket.                            *)
Inside(b) == IF b = "{" THEN "first" ELSE "element"

Opened(g, b) ==
    IF g.want \in {"value", "element"} \/ (g.want = "root" /\ b = "{")
    THEN Parse(Append(g.stack, b), Inside(b), "none")
    ELSE Wrong

Closed(g, b) ==
    IF /\ g.stack # <<>>
       /\ Top(g.stack) = OpeningOf(b)
       /\ g.want \in {"after", Inside(OpeningOf(b))}
    THEN Parse(Pop(g.stack), IF Len(g.stack) = 1 THEN "end" ELSE "after", "none")
    ELSE Wrong

(* What comes behind a comma.                                                *)
Another(s) == IF Top(s) = "{" THEN "key" ELSE "value"

FeedSymbol(g, b) ==
    IF b \in Opening THEN Opened(g, b)
    ELSE IF b \in Closing THEN Closed(g, b)
    ELSE IF b = "," /\ g.want = "after" THEN Parse(g.stack, Another(g.stack), "none")
    ELSE IF b = ":" /\ g.want = "colon" THEN Parse(g.stack, "value", "none")
    ELSE IF b = "quote" /\ g.want \in {"first", "key", "value", "element"}
         THEN Lexing(g, "string")
    ELSE IF b = "digit" /\ g.lex = "number" THEN g
    ELSE IF b = "digit" /\ g.want \in {"value", "element"}
         THEN Parse(g.stack, "after", "number")
    ELSE Wrong

Feed(g, b) ==
    IF g.want = "error" THEN Wrong
    ELSE IF g.lex = "escape" THEN FeedEscape(g, b)
    ELSE IF g.lex = "string" THEN FeedString(g, b)
    ELSE IF b \in Blank THEN Lexing(g, "none")
    ELSE FeedSymbol(g, b)

(* The parse after one complete member, as json.dumps writes it.             *)
FeedEntry(g) ==
    IF g.want \in {"first", "key"} THEN Parse(g.stack, "after", "none") ELSE Wrong

-----------------------------------------------------------------------------
BoundsIdle ==
    /\ outcome = "idle" /\ position = 0
    /\ stack = <<>> /\ inString = FALSE /\ escaped = FALSE
    /\ rootOpen = NoOffset /\ rootClose = NoOffset /\ lastContent = NoOffset
    /\ membersSeen = 0 /\ memberStart = NoOffset
    /\ member = EmptyObject /\ blankMember = TRUE
    /\ whole = NoText /\ kept = NoText /\ blankCut = TRUE

BoundsBegin ==
    /\ outcome = "idle"
    /\ outcome' = "scanning"
    /\ UNCHANGED <<position, scanner, offsets, parses>>

(* What every byte does.                                                     *)
Advance(b) ==
    /\ outcome = "scanning"
    /\ position < MaxText
    /\ position' = position + 1
    /\ whole' = Feed(whole, b)

InMember(b) ==
    /\ member' = Feed(member, b)
    /\ blankMember' = (blankMember /\ b \in Blank)

(* The byte is behind the cut.                                               *)
Behind(b) ==
    /\ blankCut' = (blankCut /\ b \in Blank)
    /\ UNCHANGED <<lastContent, kept>>

(* Mutant: a closing brace or bracket leaves last_content where it was.      *)
ContentOnly(b) ==
    IF b \in Closing
    THEN Behind(b)
    ELSE /\ lastContent' = position
         /\ kept' = Feed(whole, b)
         /\ blankCut' = TRUE

(* last_content = absolute: the text is cut after this byte, for now.        *)
Content(b) ==
    /\ lastContent' = position
    /\ kept' = Feed(whole, b)
    /\ blankCut' = TRUE

Refuse(why) ==
    /\ outcome' = why
    /\ UNCHANGED <<scanner, offsets, member, blankMember, kept, blankCut>>

(* Behind the closing brace.                                                 *)
AfterRoot(b) ==
    /\ rootClose # NoOffset
    /\ Advance(b)
    /\ IF b \in Blank
       THEN UNCHANGED <<outcome, scanner, offsets, member, blankMember, kept, blankCut>>
       ELSE Refuse("invalid")

InString(b) ==
    /\ rootClose = NoOffset
    /\ inString
    /\ Advance(b)
    /\ escaped' = (~escaped /\ b = "escape")
    /\ inString' = (escaped \/ b # "quote")
    /\ IF stack # <<>> THEN Content(b) ELSE Behind(b)
    /\ InMember(b)
    /\ UNCHANGED <<outcome, stack, rootOpen, rootClose, membersSeen, memberStart>>

Outside == rootClose = NoOffset /\ ~inString

BlankByte(b) ==
    /\ Outside
    /\ b \in Blank
    /\ Advance(b)
    /\ IF rootOpen = NoOffset THEN UNCHANGED <<member, blankMember>> ELSE InMember(b)
    /\ Behind(b)
    /\ UNCHANGED <<outcome, scanner, rootOpen, rootClose, membersSeen, memberStart>>

(* The fragment starts at i.                                                 *)
MemberFrom(i) ==
    /\ memberStart' = i
    /\ member' = EmptyObject
    /\ blankMember' = TRUE

OpenRoot(b) ==
    /\ Outside
    /\ b \notin Blank
    /\ rootOpen = NoOffset
    /\ Advance(b)
    /\ IF b # "{"
       THEN Refuse("invalid")
       ELSE /\ rootOpen' = position
            /\ stack' = Append(stack, b)
            /\ MemberFrom(position + 1)
            /\ UNCHANGED <<outcome, inString, escaped, rootClose, lastContent,
                           membersSeen, kept, blankCut>>

InRoot(b) == Outside /\ b \notin Blank /\ rootOpen # NoOffset

Quote(b) ==
    /\ InRoot(b)
    /\ b = "quote"
    /\ Advance(b)
    /\ inString' = TRUE
    /\ Content(b)
    /\ InMember(b)
    /\ UNCHANGED <<outcome, stack, escaped, rootOpen, rootClose, membersSeen, memberStart>>

OpenContainer(b) ==
    /\ InRoot(b)
    /\ b \in Opening
    /\ Advance(b)
    /\ stack' = Append(stack, b)
    /\ Content(b)
    /\ InMember(b)
    /\ UNCHANGED <<outcome, inString, escaped, rootOpen, rootClose, membersSeen, memberStart>>

ClosesTop(b) == stack # <<>> /\ Top(stack) = OpeningOf(b)

Unbalanced(b) ==
    /\ InRoot(b)
    /\ b \in Closing
    /\ ~ClosesTop(b)
    /\ Advance(b)
    /\ Refuse("invalid")

CloseContainer(b) ==
    /\ InRoot(b)
    /\ b \in Closing
    /\ ClosesTop(b)
    /\ Len(stack) > 1
    /\ Advance(b)
    /\ stack' = Pop(stack)
    /\ Content(b)
    /\ InMember(b)
    /\ UNCHANGED <<outcome, inString, escaped, rootOpen, rootClose, membersSeen, memberStart>>

(* _validate_member. The fragment has no comma at its top level (the scan    *)
(* ends it there), so what json.loads accepts has one key.                   *)
TooLong == position - memberStart > MaxMember
ValidMember == Feed(member, "}").want = "end"

(* Mutant: without members_seen.                                             *)
CloseRootAnyComma(b) ==
    /\ InRoot(b)
    /\ b = "}"
    /\ ClosesTop(b)
    /\ Len(stack) = 1
    /\ Advance(b)
    /\ IF TooLong THEN Refuse("large")
       ELSE IF ~blankMember /\ ~ValidMember THEN Refuse("invalid")
       ELSE /\ membersSeen' = IF blankMember THEN membersSeen ELSE membersSeen + 1
            /\ rootClose' = position
            /\ stack' = Pop(stack)
            /\ kept' = IF lastContent = NoOffset THEN whole ELSE kept
            /\ UNCHANGED <<outcome, inString, escaped, rootOpen, lastContent,
                           memberStart, member, blankMember, blankCut>>

CloseRoot(b) ==
    /\ InRoot(b)
    /\ b = "}"
    /\ ClosesTop(b)
    /\ Len(stack) = 1
    /\ Advance(b)
    /\ IF TooLong THEN Refuse("large")
       ELSE IF (blankMember /\ membersSeen # 0) \/ (~blankMember /\ ~ValidMember)
            THEN Refuse("invalid")
       ELSE /\ membersSeen' = IF blankMember THEN membersSeen ELSE membersSeen + 1
            /\ rootClose' = position
            /\ stack' = Pop(stack)
            /\ kept' = IF lastContent = NoOffset THEN whole ELSE kept
            /\ UNCHANGED <<outcome, inString, escaped, rootOpen, lastContent,
                           memberStart, member, blankMember, blankCut>>

(* A comma between members ends one and starts the next.                     *)
Comma(b) ==
    /\ InRoot(b)
    /\ b = ","
    /\ Len(stack) = 1
    /\ Advance(b)
    /\ IF TooLong THEN Refuse("large")
       ELSE IF blankMember \/ ~ValidMember THEN Refuse("invalid")
       ELSE /\ membersSeen' = membersSeen + 1
            /\ MemberFrom(position + 1)
            /\ Content(b)
            /\ UNCHANGED <<outcome, scanner, rootOpen, rootClose>>

OtherByte(b) ==
    /\ InRoot(b)
    /\ b \notin Opening \cup Closing \cup {"quote"}
    /\ b = "," => Len(stack) > 1
    /\ Advance(b)
    /\ Content(b)
    /\ InMember(b)
    /\ UNCHANGED <<outcome, scanner, rootOpen, rootClose, membersSeen, memberStart>>

(* The size is reached.                                                      *)
TextEnds ==
    /\ outcome = "scanning"
    /\ outcome' = IF rootClose = NoOffset \/ stack # <<>> \/ inString \/ escaped
                  THEN "incomplete"
                  ELSE "bounds"
    /\ UNCHANGED <<position, scanner, offsets, parses>>

(* A chunk that is not UTF-8: the text is no JSON either.                    *)
Undecodable ==
    /\ outcome = "scanning"
    /\ outcome' = "invalid"
    /\ whole' = Wrong
    /\ UNCHANGED <<position, scanner, offsets, member, blankMember, kept, blankCut>>

(* The file has become shorter than fstat said.                              *)
Shrunk ==
    /\ outcome = "scanning"
    /\ outcome' = "shrunk"
    /\ UNCHANGED <<position, scanner, offsets, parses>>

Scan(b) ==
    \/ AfterRoot(b) \/ InString(b) \/ BlankByte(b) \/ OpenRoot(b) \/ Quote(b)
    \/ OpenContainer(b) \/ Unbalanced(b) \/ CloseContainer(b) \/ CloseRoot(b)
    \/ Comma(b) \/ OtherByte(b)

BoundsNext == BoundsBegin \/ (\E b \in Bytes : Scan(b)) \/ TextEnds \/ Undecodable \/ Shrunk

BoundsSpec == BoundsIdle /\ [][BoundsNext]_boundsVars

-----------------------------------------------------------------------------
(* Properties.                                                               *)

Offset == Nat \cup {NoOffset}
Wants == {"root", "first", "key", "colon", "value", "element", "after", "end", "error"}
ParseType == [stack : Seq(Opening), want : Wants,
              lex : {"none", "string", "escape", "number"}]

(* Every local of the scan, and every parse, keeps its type.                 *)
BoundsTypeOK ==
    /\ outcome \in {"idle", "scanning", "bounds", "invalid", "incomplete", "large", "shrunk"}
    /\ position \in Nat
    /\ stack \in Seq(Opening)
    /\ inString \in BOOLEAN /\ escaped \in BOOLEAN
    /\ rootOpen \in Offset /\ rootClose \in Offset
    /\ lastContent \in Offset /\ memberStart \in Offset
    /\ membersSeen \in Nat
    /\ member \in ParseType /\ whole \in ParseType /\ kept \in ParseType
    /\ blankMember \in BOOLEAN /\ blankCut \in BOOLEAN

(* Checking member after member accepts exactly what a parser of the whole   *)
(* text does: nothing is taken for a catalog that is not a JSON object, and  *)
(* no catalog is refused but for a member that is too large.                 *)
AcceptsExactlyJson ==
    /\ outcome = "bounds" => whole.want = "end"
    /\ outcome = "invalid" => whole.want = "error"
    /\ outcome = "incomplete" => whole.want # "end"

(* append_catalog_entry: the text up to last_content (or to the closing      *)
(* brace of an empty object), a comma behind a member, the entry, the rest.  *)
Spliced ==
    LET head == IF lastContent = NoOffset THEN kept ELSE Feed(kept, ",")
        entry == FeedEntry(Feed(head, "newline"))
    IN  Feed(Feed(entry, "newline"), "}")

(* What is renamed to the catalog is again one JSON object, and nothing but  *)
(* blanks of the old one is dropped.                                         *)
SpliceIsJson ==
    outcome = "bounds" =>
        /\ Spliced.want = "end"
        /\ lastContent # NoOffset => blankCut
=============================================================================
