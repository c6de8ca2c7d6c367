-------------------------- MODULE JsonBoundsProofs --------------------------
(***************************************************************************)
(* JsonBounds, for texts of any length and any depth of nesting.           *)
(***************************************************************************)
EXTENDS JsonBounds, SequenceTheorems, TLAPS

-----------------------------------------------------------------------------
(* The inductive invariant.                                                  *)

InAString == {"string", "escape"}

(* Nothing but blanks so far.                                                *)
BeforeRoot ==
    /\ stack = <<>> /\ ~inString /\ ~escaped
    /\ rootClose = NoOffset /\ lastContent = NoOffset
    /\ membersSeen = 0
    /\ whole = NoText

(* The member is parsed as the text is, except that its first key is that of *)
(* an object of its own.                                                     *)
Alike(g, h) ==
    \/ g = h
    \/ /\ g.stack = h.stack /\ g.lex = h.lex /\ g.lex \in InAString
       /\ g.want \in {"first", "key"} /\ h.want \in {"first", "key"}

(* A member that has begun is past the place for its key.                    *)
Begun(g) == g.want \in {"first", "key"} /\ Len(g.stack) = 1 => g.lex \in InAString

(* h is g but for blanks.                                                    *)
ButBlanks(g, h) ==
    h = g \/ (g.lex \in {"none", "number"} /\ h = Lexing(g, "none"))

(* The parser is inside an object.                                           *)
Open(g) ==
    /\ g.stack # <<>>
    /\ g.stack[1] = "{"
    /\ g.want \notin {"root", "end", "error"}

(* Where the next member may start.                                          *)
Fresh == Parse(<<"{">>, IF membersSeen = 0 THEN "first" ELSE "key", "none")

(* While the text is no error, the scan knows what the parser knows.         *)
Following ==
    /\ Open(whole)
    /\ stack = whole.stack
    /\ (inString <=> whole.lex \in InAString)
    /\ (escaped <=> whole.lex = "escape")
    /\ blankMember => member = EmptyObject /\ whole = Fresh
    /\ ~blankMember => Alike(member, whole) /\ Begun(member)
    /\ lastContent = NoOffset => blankMember /\ membersSeen = 0
    /\ lastContent # NoOffset =>
          /\ blankCut
          /\ ButBlanks(kept, whole)
          /\ blankMember => membersSeen # 0

(* Between the braces. An error in the text is an error in this member.      *)
InsideRoot ==
    /\ memberStart \in Nat
    /\ rootClose = NoOffset
    /\ IF whole.want = "error" THEN ~blankMember /\ member = Wrong ELSE Following

SpliceGood == Spliced.want = "end" /\ (lastContent # NoOffset => blankCut)

BehindRoot ==
    /\ stack = <<>> /\ ~inString /\ ~escaped
    /\ whole = Parse(<<>>, "end", "none")
    /\ SpliceGood

Progress ==
    \/ rootOpen = NoOffset /\ BeforeRoot
    \/ rootOpen # NoOffset /\ rootClose = NoOffset /\ InsideRoot
    \/ rootOpen # NoOffset /\ rootClose # NoOffset /\ BehindRoot

BoundsInv ==
    /\ BoundsTypeOK
    /\ outcome \in {"idle", "scanning"} => Progress
    /\ AcceptsExactlyJson
    /\ SpliceIsJson

-----------------------------------------------------------------------------
(* The parser.                                                               *)

LEMMA ParseFields ==
    ASSUME NEW s, NEW w, NEW l
    PROVE  Parse(s, w, l).stack = s /\ Parse(s, w, l).want = w /\ Parse(s, w, l).lex = l
BY DEF Parse

LEMMA FieldsOf ==
    ASSUME NEW g, NEW s, NEW w, NEW l, g = Parse(s, w, l)
    PROVE  g.stack = s /\ g.want = w /\ g.lex = l
BY DEF Parse

LEMMA ParseTyped ==
    ASSUME NEW s \in Seq(Opening), NEW w \in Wants,
           NEW l \in {"none", "string", "escape", "number"}
    PROVE  Parse(s, w, l) \in ParseType
BY DEF Parse, ParseType

LEMMA LexFields ==
    ASSUME NEW g \in ParseType
    PROVE  g = Parse(g.stack, g.want, g.lex)
BY DEF ParseType, Parse

LEMMA WrongTyped == Wrong \in ParseType
BY DEF Wrong, Parse, ParseType, Wants

LEMMA PopTyped ==
    ASSUME NEW s \in Seq(Opening), s # <<>>
    PROVE  /\ Pop(s) \in Seq(Opening)
           /\ Len(Pop(s)) = Len(s) - 1
           /\ Len(s) # 1 => Pop(s) # <<>> /\ Pop(s)[1] = s[1]
           /\ Len(s) = 1 => Pop(s) = <<>>
           /\ Top(s) \in Opening
<1>1. Len(s) \in Nat /\ Len(s) > 0
  BY EmptySeq
<1>2. \A i \in 1 .. Len(s) - 1 : s[i] \in Opening
  BY <1>1, ElementOfSeq
<1>3. /\ Pop(s) \in Seq(Opening)
      /\ Len(Pop(s)) = Len(s) - 1
      /\ \A i \in 1 .. Len(s) - 1 : Pop(s)[i] = s[i]
  <2> DEFINE n == Len(s) - 1
  <2>1. n \in Int /\ n >= 0
    BY <1>1
  <2>2. /\ SubSeq(s, 1, n) \in Seq(Opening)
        /\ Len(SubSeq(s, 1, n)) = IF 1 <= n THEN n - 1 + 1 ELSE 0
        /\ \A i \in 1 .. n - 1 + 1 : SubSeq(s, 1, n)[i] = s[1 + i - 1]
    BY <2>1, <1>2, SubSeqProperties
  <2> HIDE DEF n
  <2>3. n = Len(s) - 1
    BY DEF n
  <2>4. (IF 1 <= n THEN n - 1 + 1 ELSE 0) = n /\ 1 .. n - 1 + 1 = 1 .. n
    BY <2>1
  <2>5. Pop(s) = SubSeq(s, 1, n)
    BY <2>3 DEF Pop
  <2>6. \A i \in 1 .. n : 1 + i - 1 = i
    BY <2>1
  <2> QED BY <2>2, <2>3, <2>4, <2>5, <2>6
<1>5. Len(s) # 1 => Pop(s) # <<>> /\ Pop(s)[1] = s[1]
  BY <1>1, <1>3, EmptySeq
<1>6. Len(s) = 1 => Pop(s) = <<>>
  BY <1>1, SubSeqEmpty DEF Pop
<1>7. Top(s) \in Opening
  BY <1>1, ElementOfSeq DEF Top
<1> QED BY <1>3, <1>5, <1>6, <1>7

LEMMA AppendTyped ==
    ASSUME NEW s \in Seq(Opening), NEW b \in Opening
    PROVE  /\ Append(s, b) \in Seq(Opening)
           /\ Append(s, b) # <<>>
           /\ Len(Append(s, b)) = Len(s) + 1
           /\ s # <<>> => Append(s, b)[1] = s[1] /\ Len(Append(s, b)) # 1
           /\ s = <<>> => Append(s, b)[1] = b
BY AppendProperties, EmptySeq

(* Whatever is fed, a parse remains a parse.                                 *)
LEMMA FeedTyped ==
    ASSUME NEW g \in ParseType, NEW b \in Bytes
    PROVE  Feed(g, b) \in ParseType
<1> USE WrongTyped, ParseTyped
<1> g.stack \in Seq(Opening) /\ g.want \in Wants
    /\ g.lex \in {"none", "string", "escape", "number"}
  BY DEF ParseType
<1>0. \A l \in {"none", "string", "escape", "number"} : Lexing(g, l) \in ParseType
  BY DEF Lexing
<1>1. FeedString(g, b) \in ParseType /\ FeedEscape(g, b) \in ParseType
  <2>1. StringEnded(g) \in ParseType
    BY DEF StringEnded, Wants
  <2> QED BY <2>1, <1>0 DEF FeedString, FeedEscape
<1>2. FeedSymbol(g, b) \in ParseType
  <2>1. Opened(g, b) \in ParseType \/ b \notin Opening
    BY AppendTyped DEF Opened, Inside, Wants
  <2>2. Closed(g, b) \in ParseType
    BY PopTyped DEF Closed, Wants
  <2>3. Parse(g.stack, Another(g.stack), "none") \in ParseType
    BY DEF Another, Wants
  <2>4. Parse(g.stack, "value", "none") \in ParseType /\ Parse(g.stack, "after", "number") \in ParseType
    BY DEF Wants
  <2> QED BY <2>1, <2>2, <2>3, <2>4, <1>0 DEF FeedSymbol
<1> QED BY <1>0, <1>1, <1>2 DEF Feed

(* Inside a string nothing but its end is of interest.                       *)
LEMMA InStringStep ==
    ASSUME NEW g \in ParseType, NEW b \in Bytes, Open(g), g.lex \in InAString,
           NEW h, h = Feed(g, b), h # Wrong
    PROVE  /\ Open(h) /\ h.stack = g.stack
           /\ h.lex \in InAString <=> (g.lex = "escape" \/ b # "quote")
           /\ h.lex = "escape" <=> (g.lex # "escape" /\ b = "escape")
           /\ h.lex \in InAString => h.want = g.want
           /\ h.lex \notin InAString => h.lex = "none" /\ h.want \in {"colon", "after"}
<1>1. CASE g.lex = "escape"
  <2>1. h = Parse(g.stack, g.want, "string")
    BY <1>1 DEF Feed, FeedEscape, Lexing
  <2>2. h.stack = g.stack /\ h.want = g.want /\ h.lex = "string"
    BY <2>1, ParseFields
  <2> QED BY <2>2, <1>1 DEF Open, InAString
<1>2. CASE g.lex = "string"
  <2>1. CASE b = "quote"
    <3>1. h = Parse(g.stack, IF g.want \in {"first", "key"} THEN "colon" ELSE "after", "none")
      BY <1>2, <2>1 DEF Feed, FeedString, StringEnded, Open
    <3>2. h.stack = g.stack /\ h.want = (IF g.want \in {"first", "key"} THEN "colon" ELSE "after") /\ h.lex = "none"
      BY <3>1, ParseFields
    <3> QED BY <3>2, <2>1, <1>2 DEF Open, InAString
  <2>2. CASE b = "escape"
    <3>1. h = Parse(g.stack, g.want, "escape")
      BY <1>2, <2>2 DEF Feed, FeedString, Lexing, Open
    <3>2. h.stack = g.stack /\ h.want = g.want /\ h.lex = "escape"
      BY <3>1, ParseFields
    <3> QED BY <3>2, <2>2, <1>2 DEF Open, InAString
  <2>3. CASE b = "newline"
    BY <1>2, <2>3 DEF Feed, FeedString
  <2>4. CASE b \notin {"quote", "escape", "newline"}
    <3>1. h = g
      BY <1>2, <2>4 DEF Feed, FeedString, Open
    <3> QED BY <3>1, <2>4, <1>2 DEF Open, InAString
  <2> QED BY <2>1, <2>2, <2>3, <2>4
<1> QED BY <1>1, <1>2 DEF InAString

(* The lemma again, for citation.                                            *)
LEMMA FeedInString ==
    ASSUME NEW g \in ParseType, NEW b \in Bytes, Open(g), g.lex \in InAString,
           Feed(g, b) # Wrong
    PROVE  /\ Open(Feed(g, b)) /\ Feed(g, b).stack = g.stack
           /\ Feed(g, b).lex \in InAString <=> (g.lex = "escape" \/ b # "quote")
           /\ Feed(g, b).lex = "escape" <=> (g.lex # "escape" /\ b = "escape")
           /\ Feed(g, b).lex \in InAString => Feed(g, b).want = g.want
           /\ Feed(g, b).lex \notin InAString =>
                  Feed(g, b).lex = "none" /\ Feed(g, b).want \in {"colon", "after"}
BY InStringStep

(* Outside strings the parser keeps the stack as the scan does.              *)
LEMMA FeedOutside ==
    ASSUME NEW g \in ParseType, NEW b \in Bytes, Open(g), g.lex \notin InAString,
           b \in Closing => Len(g.stack) # 1,
           Feed(g, b) # Wrong
    PROVE  /\ Open(Feed(g, b))
           /\ Feed(g, b).lex \in InAString <=> b = "quote"
           /\ Feed(g, b).lex # "escape"
           /\ b \in Opening => Feed(g, b).stack = Append(g.stack, b)
           /\ b \in Closing => /\ Feed(g, b).stack = Pop(g.stack)
                               /\ Top(g.stack) = OpeningOf(b)
           /\ b \notin Opening \cup Closing => Feed(g, b).stack = g.stack
           /\ Feed(g, b).want \in {"first", "key"} =>
                  b \in Opening \cup {",", "quote"}
                    \/ (Feed(g, b).want = g.want /\ Feed(g, b).stack = g.stack)
<1> DEFINE h == Feed(g, b)
<1>1. h = Feed(g, b) /\ h # Wrong
  OBVIOUS
<1> HIDE DEF h
<1> USE <1>1
<1>2. /\ Open(h)
      /\ h.lex \in InAString <=> b = "quote"
      /\ h.lex # "escape"
      /\ b \in Opening => h.stack = Append(g.stack, b)
      /\ b \in Closing => h.stack = Pop(g.stack) /\ Top(g.stack) = OpeningOf(b)
      /\ b \notin Opening \cup Closing => h.stack = g.stack
      /\ h.want \in {"first", "key"} =>
             b \in Opening \cup {",", "quote"} \/ (h.want = g.want /\ h.stack = g.stack)
  <2> g.stack \in Seq(Opening) /\ g.want \in Wants
      /\ g.lex \in {"none", "string", "escape", "number"}
    BY DEF ParseType
  <2>1. CASE b \in Blank
    <3>1. h = Parse(g.stack, g.want, "none")
      BY <2>1 DEF Feed, Open, InAString, Lexing
    <3>2. h.stack = g.stack /\ h.want = g.want /\ h.lex = "none"
      BY <3>1, ParseFields
    <3> QED BY <2>1, <3>2 DEF Open, InAString, Blank, Opening, Closing
  <2>2. CASE b \notin Blank
    <3>1. h = FeedSymbol(g, b)
      BY <2>2 DEF Feed, Open, InAString
    <3>2. CASE b \in Opening
      <4>1. h = Opened(g, b)
        BY <3>1, <3>2 DEF FeedSymbol
      <4>2. (h.stack = Append(g.stack, b) /\ h.lex = "none" /\ h.want \in {"first", "element"})
        <5> DEFINE s == Append(g.stack, b)
        <5>1. h = Parse(s, Inside(b), "none")
          BY <4>1 DEF Opened
        <5> HIDE DEF s
        <5>2. h.stack = s /\ h.lex = "none" /\ h.want = Inside(b)
          BY <5>1, ParseFields
        <5> USE DEF s
        <5> QED BY <5>2 DEF Inside
      <4> QED BY <4>2, <3>2, AppendTyped, ZenonT(60) DEF Open, InAString, Opening, Closing
    <3>3. CASE b \in Closing
      <4>1. h = Closed(g, b)
        BY <3>1, <3>3 DEF FeedSymbol, Opening, Closing
      <4>2. (h.stack = Pop(g.stack) /\ Top(g.stack) = OpeningOf(b) /\ h.lex = "none" /\ h.want = "after")
        <5>1. /\ Top(g.stack) = OpeningOf(b)
              /\ h = Parse(Pop(g.stack), IF Len(g.stack) = 1 THEN "end" ELSE "after", "none")
          BY <4>1 DEF Closed
        <5> QED BY <5>1, <3>3, ParseFields
      <4> QED BY <4>2, <3>3, PopTyped DEF Open, InAString, Opening, Closing
    <3>4. CASE b \notin Opening \cup Closing
      <4>1. /\ h.stack = g.stack
            /\ h.want \notin {"root", "end", "error"}
            /\ IF b = "quote" THEN h.lex = "string" ELSE h.lex \in {"none", "number"}
            /\ h.want \in {"first", "key"} => b \in {",", "quote"} \/ h.want = g.want
        <5>1. CASE b = "quote"
          <6>1. h = Parse(g.stack, g.want, "string")
            BY <3>1, <5>1 DEF FeedSymbol, Lexing, Opening, Closing
          <6>2. h.stack = g.stack /\ h.want = g.want /\ h.lex = "string"
            BY <6>1, ParseFields
          <6> QED BY <6>2, <5>1 DEF Open
        <5>2. CASE b = ","
          <6>1. h = Parse(g.stack, Another(g.stack), "none")
            BY <3>1, <5>2 DEF FeedSymbol, Opening, Closing
          <6>2. /\ h.stack = g.stack /\ h.lex = "none"
                /\ h.want = Another(g.stack)
            BY <6>1, ParseFields
          <6> QED BY <6>2, <5>2 DEF Another
        <5>3. CASE b = ":"
          <6>1. h = Parse(g.stack, "value", "none")
            BY <3>1, <5>3 DEF FeedSymbol, Opening, Closing
          <6>2. h.stack = g.stack /\ h.want = "value" /\ h.lex = "none"
            BY <6>1, ParseFields
          <6> QED BY <6>2, <5>3
        <5>4. CASE b = "digit"
          <6>1. h = Parse(g.stack, "after", "number") \/ (h = g /\ g.lex = "number")
            BY <3>1, <5>4 DEF FeedSymbol, Opening, Closing
          <6>2. CASE h = g /\ g.lex = "number"
            BY <6>2, <5>4 DEF Open
          <6>3. CASE h = Parse(g.stack, "after", "number")
            <7>1. h.stack = g.stack /\ h.want = "after" /\ h.lex = "number"
              BY <6>3, ParseFields
            <7> QED BY <7>1, <5>4
          <6> QED BY <6>1, <6>2, <6>3
        <5>5. CASE b \notin {"quote", ",", ":", "digit"}
          BY <3>1, <3>4, <5>5 DEF FeedSymbol
        <5> QED BY <5>1, <5>2, <5>3, <5>4, <5>5
      <4> QED BY <4>1, <3>4 DEF Open, InAString
    <3> QED BY <3>2, <3>3, <3>4
  <2> QED BY <2>1, <2>2
<1> QED BY <1>2 DEF h

-----------------------------------------------------------------------------
(* The member and the text.                                                  *)

LEMMA AlikeLexing ==
    ASSUME NEW g, NEW h, g.stack = h.stack, g.want \in {"first", "key"},
           h.want \in {"first", "key"}, NEW l \in InAString
    PROVE  Alike(Lexing(g, l), Lexing(h, l)) /\ Begun(Lexing(g, l))
<1>1. Lexing(g, l).stack = g.stack /\ Lexing(g, l).want = g.want /\ Lexing(g, l).lex = l
  BY ParseFields DEF Lexing
<1>2. Lexing(h, l).stack = h.stack /\ Lexing(h, l).want = h.want /\ Lexing(h, l).lex = l
  BY ParseFields DEF Lexing
<1> QED BY <1>1, <1>2 DEF Alike, Begun

(* What both make of one more byte of a member that has begun.               *)
LEMMA AlikeFed ==
    ASSUME NEW g \in ParseType, NEW h \in ParseType, NEW b \in Bytes,
           Alike(g, h), Begun(g), Open(h),
           h.lex \notin InAString /\ b \in Closing \cup {","} => Len(h.stack) # 1
    PROVE  Alike(Feed(g, b), Feed(h, b)) /\ Begun(Feed(g, b))
<1>w. Wrong.want = "error"
  BY DEF Wrong, Parse
<1>1. CASE g = h
  <2>0. Open(g) /\ (g.lex \notin InAString /\ b \in Closing \cup {","} => Len(g.stack) # 1)
    BY <1>1
  <2>1. Alike(Feed(g, b), Feed(h, b))
    BY <1>1 DEF Alike
  <2>2. CASE Feed(g, b) = Wrong
    BY <2>1, <2>2, <1>w DEF Begun
  <2>3. CASE Feed(g, b) # Wrong /\ g.lex \in InAString
    <3>1. Feed(g, b).lex \notin InAString => Feed(g, b).want \in {"colon", "after"}
      BY <2>0, <2>3, FeedInString
    <3> QED BY <2>1, <3>1 DEF Begun
  <2>4. CASE Feed(g, b) # Wrong /\ g.lex \notin InAString
    <3> DEFINE k == Feed(g, b)
    <3>1. /\ k.lex \in InAString <=> b = "quote"
          /\ b \in Opening => k.stack = Append(g.stack, b)
          /\ b \notin Opening \cup Closing => k.stack = g.stack
          /\ k.want \in {"first", "key"} =>
                b \in Opening \cup {",", "quote"} \/ (k.want = g.want /\ k.stack = g.stack)
      BY <2>0, <2>4, FeedOutside
    <3>2. b \in Opening => Len(Append(g.stack, b)) # 1
      <4>1. g.stack \in Seq(Opening) /\ g.stack # <<>>
        BY <2>0 DEF ParseType, Open
      <4> QED BY <4>1, AppendTyped
    <3> HIDE DEF k
    <3>3. Begun(k)
      BY <2>0, <2>4, <3>1, <3>2 DEF Begun, Opening, Closing
    <3> QED BY <2>1, <3>3 DEF k
  <2> QED BY <2>2, <2>3, <2>4
<1>2. CASE g # h
  <2>1. /\ g.stack = h.stack /\ g.lex = h.lex /\ g.lex \in InAString
        /\ g.want \in {"first", "key"} /\ h.want \in {"first", "key"}
    BY <1>2 DEF Alike
  <2>2. CASE g.lex = "escape" /\ b \in {"quote", "escape", "letter"}
    <3>1. Feed(g, b) = Lexing(g, "string") /\ Feed(h, b) = Lexing(h, "string")
      BY <2>1, <2>2 DEF Feed, FeedEscape
    <3>2. "string" \in InAString
      BY DEF InAString
    <3> QED BY <2>1, <3>1, <3>2, AlikeLexing
  <2>3. CASE g.lex = "escape" /\ b \notin {"quote", "escape", "letter"}
    <3>1. Feed(g, b) = Wrong /\ Feed(h, b) = Wrong
      BY <2>1, <2>3 DEF Feed, FeedEscape
    <3> QED BY <3>1, <1>w DEF Alike, Begun
  <2>4. CASE g.lex = "string" /\ b = "quote"
    <3>1. Feed(g, b) = Parse(g.stack, "colon", "none")
      BY <2>1, <2>4 DEF Feed, FeedString, StringEnded
    <3>1h. Feed(h, b) = Parse(h.stack, "colon", "none")
      BY <2>1, <2>4 DEF Feed, FeedString, StringEnded
    <3>2. Feed(g, b).stack = g.stack /\ Feed(g, b).want = "colon" /\ Feed(g, b).lex = "none"
      BY <3>1, FieldsOf
    <3>3. Feed(h, b).stack = h.stack /\ Feed(h, b).want = "colon" /\ Feed(h, b).lex = "none"
      BY <3>1h, FieldsOf
    <3> QED BY <3>1, <3>1h, <3>2, <3>3, <2>1 DEF Alike, Begun
  <2>5. CASE g.lex = "string" /\ b = "escape"
    <3>1. Feed(g, b) = Lexing(g, "escape") /\ Feed(h, b) = Lexing(h, "escape")
      BY <2>1, <2>5 DEF Feed, FeedString
    <3>2. "escape" \in InAString
      BY DEF InAString
    <3> QED BY <2>1, <3>1, <3>2, AlikeLexing
  <2>6. CASE g.lex = "string" /\ b = "newline"
    <3>1. Feed(g, b) = Wrong /\ Feed(h, b) = Wrong
      BY <2>1, <2>6 DEF Feed, FeedString
    <3> QED BY <3>1, <1>w DEF Alike, Begun
  <2>7. CASE g.lex = "string" /\ b \notin {"quote", "escape", "newline"}
    <3>1. Feed(g, b) = g /\ Feed(h, b) = h
      BY <2>1, <2>7 DEF Feed, FeedString
    <3> QED BY <3>1
  <2> QED BY <2>1, <2>2, <2>3, <2>4, <2>5, <2>6, <2>7 DEF InAString
<1> QED BY <1>1, <1>2

LEMMA AlikeWrong ==
    ASSUME NEW g, Alike(g, Wrong)
    PROVE  g = Wrong
<1>1. Wrong.lex = "none"
  BY ParseFields DEF Wrong
<1> QED BY <1>1 DEF Alike, InAString

LEMMA FromWrong == \A b : Feed(Wrong, b) = Wrong /\ Wrong.want = "error"
BY DEF Feed, Wrong, Parse

(* Before its first byte the member is an empty object, and the text is one   *)
(* or has a comma behind it.                                                 *)
LEMMA FirstByte ==
    ASSUME NEW w \in {"first", "key"}, NEW b \in Bytes, b \notin Closing \cup {","},
           NEW f, f = Parse(<<"{">>, w, "none")
    PROVE  /\ b \in Blank => Feed(f, b) = f
           /\ b \notin Blank => Alike(Feed(EmptyObject, b), Feed(f, b)) /\ Begun(Feed(EmptyObject, b))
<1>1. f.stack = <<"{">> /\ f.want = w /\ f.lex = "none"
  BY DEF Parse
<1>2. EmptyObject.stack = <<"{">> /\ EmptyObject.want = "first" /\ EmptyObject.lex = "none"
  BY DEF EmptyObject, Parse
<1>3. b \in Blank => Feed(f, b) = f
  <2>1. b \in Blank => Feed(f, b) = Lexing(f, "none")
    BY <1>1 DEF Feed
  <2> QED BY <2>1, <1>1 DEF Lexing
<1>4. CASE b = "quote"
  <2>1. Feed(f, b) = Lexing(f, "string") /\ Feed(EmptyObject, b) = Lexing(EmptyObject, "string")
    <3>1. "quote" \notin Blank \cup Opening \cup Closing \cup {",", ":"}
      BY DEF Blank, Opening, Closing
    <3>2. Feed(f, b) = FeedSymbol(f, b) /\ Feed(EmptyObject, b) = FeedSymbol(EmptyObject, b)
      BY <1>1, <1>2, <1>4, <3>1 DEF Feed
    <3>3. \A k : k.want = "first" \/ k.want = "key" => FeedSymbol(k, b) = Lexing(k, "string")
      BY <1>4, <3>1 DEF FeedSymbol
    <3>4. (f.want = "first" \/ f.want = "key") /\ EmptyObject.want = "first"
      BY <1>1, <1>2
    <3>5. FeedSymbol(f, b) = Lexing(f, "string")
      BY <3>3, <3>4
    <3>6. FeedSymbol(EmptyObject, b) = Lexing(EmptyObject, "string")
      BY <3>3, <3>4
    <3> QED BY <3>2, <3>5, <3>6
  <2>2. "string" \in InAString
    BY DEF InAString
  <2> QED BY <1>1, <1>2, <1>3, <1>4, <2>1, <2>2, AlikeLexing
<1>5. CASE b \notin Blank \cup {"quote"}
  <2>1. Feed(f, b) = FeedSymbol(f, b) /\ Feed(EmptyObject, b) = FeedSymbol(EmptyObject, b)
    BY <1>1, <1>2, <1>5 DEF Feed
  <2>3. \A k : k.want \in {"first", "key"} /\ k.lex = "none" => FeedSymbol(k, b) = Wrong
    BY <1>5 DEF FeedSymbol, Opened
  <2>2. Wrong.want = "error"
    BY FromWrong
  <2> QED BY <1>1, <1>2, <1>5, <2>1, <2>2, <2>3 DEF Alike, Begun
<1> QED BY <1>3, <1>4, <1>5

(* What ends a member: the closing brace of the text, or a comma.             *)
LEMMA MemberEnds ==
    ASSUME NEW g \in ParseType, Open(g), g.lex \notin InAString, Len(g.stack) = 1
    PROVE  /\ g.stack = <<"{">>
           /\ Feed(g, "}") = IF g.want \in {"after", "first"}
                             THEN Parse(<<>>, "end", "none") ELSE Wrong
           /\ Feed(g, ",") = IF g.want = "after"
                             THEN Parse(<<"{">>, "key", "none") ELSE Wrong
<1>1. g.stack \in Seq(Opening) /\ g.stack # <<>> /\ g.stack[1] = "{"
  BY DEF ParseType, Open
<1>2. g.stack = <<"{">>
  <2>1. <<"{">> \in Seq(Opening) /\ Len(<<"{">>) = 1 /\ <<"{">>[1] = "{"
    BY DEF Opening
  <2>2. Len(g.stack) = Len(<<"{">>)
    BY <2>1
  <2>3. \A i \in 1 .. Len(g.stack) : g.stack[i] = <<"{">>[i]
    <3>1. \A i \in 1 .. 1 : i = 1
      OBVIOUS
    <3>2. 1 .. Len(g.stack) = 1 .. 1
      OBVIOUS
    <3> QED BY <1>1, <2>1, <3>1, <3>2, Zenon
  <2> QED BY <1>1, <2>1, <2>2, <2>3, SeqEqual
<1>3. Top(g.stack) = "{" /\ Pop(g.stack) = <<>>
  BY <1>1, PopTyped DEF Top
<1>4. Feed(g, "}") = FeedSymbol(g, "}") /\ Feed(g, ",") = FeedSymbol(g, ",")
  BY DEF Feed, Open, InAString, Blank
<1>5. FeedSymbol(g, "}") = Closed(g, "}")
  BY DEF FeedSymbol, Opening, Closing
<1>6. FeedSymbol(g, ",") = IF g.want = "after" THEN Parse(g.stack, Another(g.stack), "none") ELSE Wrong
  BY DEF FeedSymbol, Opening, Closing
<1>7. Another(g.stack) = "key" /\ OpeningOf("}") = "{" /\ Inside("{") = "first"
  BY <1>3 DEF Another, OpeningOf, Inside
<1>8. Closed(g, "}") = IF g.want \in {"after", "first"}
                      THEN Parse(<<>>, "end", "none") ELSE Wrong
  BY <1>1, <1>3, <1>7 DEF Closed
<1> QED BY <1>2, <1>4, <1>5, <1>6, <1>7, <1>8

LEMMA OneBrace ==
    /\ <<"{">> \in Seq(Opening) /\ <<"{">> # <<>> /\ <<"{">>[1] = "{" /\ Len(<<"{">>) = 1
    /\ Another(<<"{">>) = "key"
<1>1. <<"{">> \in Seq(Opening) /\ <<"{">> # <<>> /\ <<"{">>[1] = "{" /\ Len(<<"{">>) = 1
  BY DEF Opening
<1>2. Top(<<"{">>) = "{"
  BY <1>1, Zenon DEF Top
<1> QED BY <1>1, <1>2 DEF Another

(* Behind the new member comes the closing brace.                            *)
LEMMA EntryEnds ==
    ASSUME NEW e, e = Parse(<<"{">>, "after", "none")
    PROVE  Feed(Feed(e, "newline"), "}").want = "end"
<1>1. e.stack = <<"{">> /\ e.want = "after" /\ e.lex = "none"
  BY DEF Parse
<1>2. Feed(e, "newline") = e
  <2>1. Feed(e, "newline") = Lexing(e, "none")
    BY <1>1 DEF Feed, Blank
  <2> QED BY <1>1, <2>1 DEF Lexing
<1>3. Open(e) /\ e.lex \notin InAString /\ Len(e.stack) = 1
  BY <1>1, OneBrace DEF Open, InAString
<1>4. e \in ParseType
  <2>1. "after" \in Wants /\ "none" \in {"none", "string", "escape", "number"}
    BY DEF Wants
  <2> QED BY <2>1, OneBrace, ParseTyped
<1>5. Feed(e, "}") = Parse(<<>>, "end", "none")
  BY <1>1, <1>3, <1>4, MemberEnds
<1>6. Parse(<<>>, "end", "none").want = "end"
  BY DEF Parse
<1> QED BY <1>2, <1>5, <1>6

LEMMA EntryFed ==
    ASSUME NEW w \in {"first", "key"}, NEW s, NEW g, g = Parse(s, w, "none")
    PROVE  FeedEntry(g) = Parse(s, "after", "none")
<1>1. g.stack = s /\ g.want = w
  BY FieldsOf
<1> QED BY <1>1 DEF FeedEntry

(* The text with a new member parses: behind a member, and in an empty object. *)
LEMMA SpliceBehind ==
    ASSUME NEW k, k.stack = <<"{">>, k.want = "after", k.lex \in {"none", "number"},
           NEW e, e = FeedEntry(Feed(Feed(k, ","), "newline"))
    PROVE  Feed(Feed(e, "newline"), "}").want = "end"
<1>1. Feed(k, ",") = Parse(<<"{">>, "key", "none")
  <2>1. Feed(k, ",") = FeedSymbol(k, ",")
    BY DEF Feed, Blank
  <2>2. FeedSymbol(k, ",") = Parse(k.stack, Another(k.stack), "none")
    BY DEF FeedSymbol, Opening, Closing
  <2>3. Another(k.stack) = "key"
    BY OneBrace
  <2> QED BY <2>1, <2>2, <2>3
<1>2. Feed(Feed(k, ","), "newline") = Parse(<<"{">>, "key", "none")
  <2>1. "newline" \in Bytes /\ "newline" \in Blank /\ "newline" \notin Closing \cup {","}
    BY DEF Bytes, Blank, Closing
  <2> QED BY <1>1, <2>1, FirstByte
<1>3. e = Parse(<<"{">>, "after", "none")
  BY <1>2, EntryFed
<1> QED BY <1>3, EntryEnds

LEMMA SpliceInside ==
    ASSUME NEW e, e = FeedEntry(Feed(EmptyObject, "newline"))
    PROVE  Feed(Feed(e, "newline"), "}").want = "end"
<1>1. "newline" \in Bytes /\ "newline" \in Blank /\ "newline" \notin Closing \cup {","}
  BY DEF Bytes, Blank, Closing
<1>2. Feed(EmptyObject, "newline") = EmptyObject
  BY <1>1, FirstByte DEF EmptyObject
<1>3. e = Parse(<<"{">>, "after", "none")
  BY <1>2, EntryFed DEF EmptyObject
<1> QED BY <1>3, EntryEnds

-----------------------------------------------------------------------------
(* Types.                                                                    *)

Flags == inString \in BOOLEAN /\ escaped \in BOOLEAN
            /\ blankMember \in BOOLEAN /\ blankCut \in BOOLEAN

Offsets ==
    /\ position \in Nat /\ membersSeen \in Nat
    /\ rootOpen \in Offset /\ rootClose \in Offset
    /\ lastContent \in Offset /\ memberStart \in Offset

Parses ==
    /\ outcome \in {"idle", "scanning", "bounds", "invalid", "incomplete", "large", "shrunk"}
    /\ stack \in Seq(Opening)
    /\ member \in ParseType /\ whole \in ParseType /\ kept \in ParseType

LEMMA BoundsTyped == BoundsIdle => BoundsTypeOK
<1> SUFFICES ASSUME BoundsIdle PROVE BoundsTypeOK
  OBVIOUS
<1>1. NoText \in ParseType
  <2>1. <<>> \in Seq(Opening) /\ "root" \in Wants /\ "none" \in {"none", "string", "escape", "number"}
    BY DEF Wants
  <2> QED BY <2>1, ParseTyped DEF NoText
<1>2. EmptyObject \in ParseType
  <2>1. "first" \in Wants /\ "none" \in {"none", "string", "escape", "number"}
    BY DEF Wants
  <2> QED BY <2>1, OneBrace, ParseTyped DEF EmptyObject
<1>3. <<>> \in Seq(Opening)
  OBVIOUS
<1>4. Flags
  BY Zenon DEF BoundsIdle, Flags
<1>5. Offsets
  BY DEF BoundsIdle, Offsets, Offset
<1>6. Parses
  BY <1>1, <1>2, <1>3, Zenon DEF BoundsIdle, Parses
<1> QED BY <1>4, <1>5, <1>6, Zenon DEF BoundsTypeOK, Flags, Offsets, Parses

(* A byte keeps the types.                                                   *)
LEMMA ScanTyped ==
    ASSUME BoundsTypeOK, NEW b \in Bytes, Scan(b)
    PROVE  BoundsTypeOK'
<1>0. Flags /\ Offsets /\ Parses
  BY Zenon DEF BoundsTypeOK, Flags, Offsets, Parses
<1>1. Feed(whole, b) \in ParseType /\ Feed(member, b) \in ParseType /\ EmptyObject \in ParseType
  <2>1. "first" \in Wants /\ "none" \in {"none", "string", "escape", "number"}
    BY DEF Wants
  <2> QED BY <1>0, <2>1, OneBrace, ParseTyped, FeedTyped DEF EmptyObject, Parses
<1>2. stack # <<>> => Pop(stack) \in Seq(Opening)
  BY <1>0, PopTyped DEF Parses
<1>3. b \in Opening => Append(stack, b) \in Seq(Opening)
  BY <1>0, AppendTyped DEF Parses
<1>4. position + 1 \in Nat /\ membersSeen + 1 \in Nat
  BY <1>0 DEF Offsets
<1>5. "{" \in Opening /\ \A e : (e /\ b \in Blank) \in BOOLEAN
  BY DEF Opening
<1>a. CASE AfterRoot(b)
  <2> USE <1>a DEF AfterRoot, Advance, Refuse, scanner, offsets
  <2> QED BY <1>0, <1>1, <1>4 DEF Flags, Offsets, Parses, BoundsTypeOK
<1>b. CASE InString(b)
  <2> USE <1>b DEF InString, Advance, Content, Behind, InMember
  <2>1. Flags'
    BY <1>0, Zenon DEF Flags
  <2>2. Offsets'
    BY <1>0, <1>4 DEF Offsets, Offset
  <2>3. Parses'
    BY <1>0, <1>1 DEF Parses
  <2> QED BY <2>1, <2>2, <2>3, Zenon DEF BoundsTypeOK, Flags, Offsets, Parses
<1>c. CASE BlankByte(b)
  <2> USE <1>c DEF BlankByte, Advance, Behind, InMember, scanner
  <2> QED BY <1>0, <1>1, <1>4 DEF Flags, Offsets, Parses, BoundsTypeOK
<1>d. CASE OpenRoot(b)
  <2> USE <1>d DEF OpenRoot, Advance, Refuse, MemberFrom, scanner, offsets
  <2>1. Flags'
    BY <1>0, Zenon DEF Flags
  <2>2. Offsets'
    BY <1>0, <1>4 DEF Offsets, Offset
  <2>3. Parses'
    BY <1>0, <1>1, <1>3, <1>5 DEF Parses
  <2> QED BY <2>1, <2>2, <2>3, Zenon DEF BoundsTypeOK, Flags, Offsets, Parses
<1>e. CASE Quote(b)
  <2> USE <1>e DEF Quote, Advance, Content, InMember
  <2>1. Flags'
    BY <1>0, Zenon DEF Flags
  <2>2. Offsets'
    BY <1>0, <1>4 DEF Offsets, Offset
  <2>3. Parses'
    BY <1>0, <1>1 DEF Parses
  <2> QED BY <2>1, <2>2, <2>3, Zenon DEF BoundsTypeOK, Flags, Offsets, Parses
<1>f. CASE OpenContainer(b)
  <2> USE <1>f DEF OpenContainer, Advance, Content, InMember
  <2>1. Flags'
    BY <1>0, Zenon DEF Flags
  <2>2. Offsets'
    BY <1>0, <1>4 DEF Offsets, Offset
  <2>3. Parses'
    BY <1>0, <1>1, <1>3 DEF Parses
  <2> QED BY <2>1, <2>2, <2>3, Zenon DEF BoundsTypeOK, Flags, Offsets, Parses
<1>g. CASE Unbalanced(b)
  <2> USE <1>g DEF Unbalanced, Advance, Refuse, scanner, offsets
  <2> QED BY <1>0, <1>1, <1>4 DEF Flags, Offsets, Parses, BoundsTypeOK
<1>h. CASE CloseContainer(b)
  <2> USE <1>h DEF CloseContainer, Advance, Content, InMember, ClosesTop
  <2>1. Flags'
    BY <1>0, Zenon DEF Flags
  <2>2. Offsets'
    BY <1>0, <1>4 DEF Offsets, Offset
  <2>3. Parses'
    BY <1>0, <1>1, <1>2 DEF Parses
  <2> QED BY <2>1, <2>2, <2>3, Zenon DEF BoundsTypeOK, Flags, Offsets, Parses
<1>i. CASE CloseRoot(b)
  <2> USE <1>i DEF CloseRoot, Advance, Refuse, scanner, offsets, ClosesTop
  <2>1. Flags'
    BY <1>0, Zenon DEF Flags
  <2>2. Offsets'
    BY <1>0, <1>4 DEF Offsets, Offset
  <2>3. Parses'
    BY <1>0, <1>1, <1>2 DEF Parses
  <2> QED BY <2>1, <2>2, <2>3, Zenon DEF BoundsTypeOK, Flags, Offsets, Parses
<1>j. CASE Comma(b)
  <2> USE <1>j DEF Comma, Advance, Refuse, Content, MemberFrom, scanner, offsets
  <2>1. Flags'
    BY <1>0, Zenon DEF Flags
  <2>2. Offsets'
    BY <1>0, <1>4 DEF Offsets, Offset
  <2>3. Parses'
    BY <1>0, <1>1 DEF Parses
  <2> QED BY <2>1, <2>2, <2>3, Zenon DEF BoundsTypeOK, Flags, Offsets, Parses
<1>k. CASE OtherByte(b)
  <2> USE <1>k DEF OtherByte, Advance, Content, InMember, scanner
  <2>1. Flags'
    BY <1>0, Zenon DEF Flags
  <2>2. Offsets'
    BY <1>0, <1>4 DEF Offsets, Offset
  <2>3. Parses'
    BY <1>0, <1>1 DEF Parses
  <2> QED BY <2>1, <2>2, <2>3, Zenon DEF BoundsTypeOK, Flags, Offsets, Parses
<1> QED BY <1>a, <1>b, <1>c, <1>d, <1>e, <1>f, <1>g, <1>h, <1>i, <1>j, <1>k DEF Scan

LEMMA NextTyped == BoundsTypeOK /\ [BoundsNext]_boundsVars => BoundsTypeOK'
<1> SUFFICES ASSUME BoundsTypeOK, [BoundsNext]_boundsVars PROVE BoundsTypeOK'
  OBVIOUS
<1>1. CASE \E b \in Bytes : Scan(b)
  BY <1>1, ScanTyped
<1>2. CASE BoundsBegin \/ TextEnds \/ Shrunk
  BY <1>2 DEF BoundsBegin, TextEnds, Shrunk, scanner, offsets, parses, BoundsTypeOK
<1>3. CASE Undecodable
  BY <1>3, WrongTyped DEF Undecodable, scanner, offsets, BoundsTypeOK
<1>4. CASE UNCHANGED boundsVars
  BY <1>4 DEF boundsVars, scanner, offsets, parses, BoundsTypeOK
<1> QED BY <1>1, <1>2, <1>3, <1>4 DEF BoundsNext

(* Every local of the scan, and every parse, keeps its type.                 *)
THEOREM BoundsTypeCorrect == BoundsSpec => []BoundsTypeOK
<1>1. QED BY BoundsTyped, NextTyped, PTL DEF BoundsSpec

-----------------------------------------------------------------------------
(* The bytes of a member.                                                    *)

LEMMA FreshFields ==
    ASSUME whole = Fresh
    PROVE  /\ whole.stack = <<"{">> /\ whole.lex = "none"
           /\ whole.want = IF membersSeen = 0 THEN "first" ELSE "key"
BY DEF Fresh, Parse

LEMMA MemberByte ==
    ASSUME whole \in ParseType, member \in ParseType, Following, NEW b \in Bytes,
           inString \/ b \notin Blank,
           inString \/ b \notin Closing \cup {","} \/ Len(stack) # 1
    PROVE  /\ Alike(Feed(member, b), Feed(whole, b)) /\ Begun(Feed(member, b))
           /\ ~(blankMember /\ b \in Blank)
<1>0. (inString <=> whole.lex \in InAString) /\ stack = whole.stack
  BY DEF Following
<1>1. CASE blankMember
  <2>1. member = EmptyObject /\ whole = Fresh
    BY <1>1 DEF Following
  <2>2. whole.stack = <<"{">> /\ whole.lex = "none"
    BY <2>1, FreshFields
  <2>3. ~inString
    BY <1>0, <2>2 DEF InAString
  <2>4. b \notin Closing \cup {","}
    BY <1>0, <2>2, <2>3, OneBrace
  <2>5. PICK w \in {"first", "key"} : whole = Parse(<<"{">>, w, "none")
    BY <2>1 DEF Fresh
  <2>6. b \notin Blank
    BY <2>3
  <2> QED BY <2>1, <2>4, <2>5, <2>6, FirstByte
<1>2. CASE ~blankMember
  <2>1. Alike(member, whole) /\ Begun(member) /\ Open(whole)
    BY <1>2 DEF Following
  <2>2. whole.lex \notin InAString /\ b \in Closing \cup {","} => Len(whole.stack) # 1
    BY <1>0
  <2> QED BY <1>2, <2>1, <2>2, AlikeFed
<1> QED BY <1>1, <1>2

(* A byte the text may be cut after.                                         *)
LEMMA ContentByte ==
    ASSUME BoundsTypeOK, InsideRoot, NEW b \in Bytes, Advance(b), Content(b), InMember(b),
           UNCHANGED <<rootClose, membersSeen, memberStart>>,
           inString \/ b \notin Blank,
           inString \/ b \notin Closing \cup {","} \/ Len(stack) # 1,
           whole.want # "error" /\ whole' # Wrong =>
               /\ stack' = whole'.stack
               /\ (inString' <=> whole'.lex \in InAString)
               /\ (escaped' <=> whole'.lex = "escape")
    PROVE  InsideRoot'
<1>0. whole \in ParseType /\ member \in ParseType /\ position \in Nat /\ NoOffset \notin Nat
  BY BoundsConstants DEF BoundsTypeOK
<1>1. /\ whole' = Feed(whole, b) /\ member' = Feed(member, b)
      /\ blankMember' = (blankMember /\ b \in Blank)
      /\ lastContent' = position /\ kept' = Feed(whole, b) /\ blankCut' = TRUE
  BY DEF Advance, Content, InMember
<1>2. memberStart' \in Nat /\ rootClose' = NoOffset
  BY DEF InsideRoot
<1>3. CASE whole.want = "error"
  <2>1. whole' = Wrong
    BY <1>1, <1>3 DEF Feed
  <2>2. member' = Wrong /\ ~blankMember'
    BY <1>1, <1>3, FromWrong DEF InsideRoot
  <2> QED BY <1>2, <2>1, <2>2, FromWrong DEF InsideRoot
<1>4. CASE whole.want # "error"
  <2>1. Following
    BY <1>4 DEF InsideRoot
  <2>2. Alike(member', whole') /\ Begun(member') /\ ~blankMember'
    BY <1>0, <1>1, <2>1, MemberByte
  <2>3. CASE whole' = Wrong
    <3>1. member' = Wrong
      BY <2>2, <2>3, AlikeWrong
    <3> QED BY <1>2, <2>2, <2>3, <3>1, FromWrong DEF InsideRoot
  <2>4. CASE whole' # Wrong
    <3>1. Open(whole')
      <4>1. Open(whole) /\ stack = whole.stack /\ (inString <=> whole.lex \in InAString)
        BY <2>1 DEF Following
      <4>2. CASE whole.lex \in InAString
        BY <1>0, <1>1, <2>4, <4>1, <4>2, FeedInString
      <4>3. CASE whole.lex \notin InAString
        <5>1. b \in Closing => Len(whole.stack) # 1
          BY <4>1, <4>3
        <5> QED BY <1>0, <1>1, <2>4, <4>1, <4>3, <5>1, FeedOutside
      <4> QED BY <4>2, <4>3
    <3>2. whole'.want # "error"
      BY <3>1 DEF Open
    <3>3. ButBlanks(kept', whole') /\ blankCut' /\ lastContent' # NoOffset
      BY <1>0, <1>1 DEF ButBlanks
    <3>4. /\ stack' = whole'.stack
          /\ (inString' <=> whole'.lex \in InAString)
          /\ (escaped' <=> whole'.lex = "escape")
      BY <1>4, <2>4
    <3>5. Following'
      BY <2>2, <3>1, <3>3, <3>4, Zenon DEF Following
    <3> QED BY <1>2, <3>2, <3>5 DEF InsideRoot
  <2> QED BY <2>3, <2>4
<1> QED BY <1>3, <1>4

-----------------------------------------------------------------------------
(* One lemma per kind of byte.                                               *)

(* What is to be shown of a step of the scan.                                *)
Kept ==
    \/ outcome = "scanning" /\ Progress
    \/ outcome = "invalid" /\ whole.want = "error"
    \/ outcome = "large"

LEMMA AfterRootStep ==
    ASSUME BoundsTypeOK, Progress, NEW b \in Bytes, AfterRoot(b)
    PROVE  Kept'
<1>1. BehindRoot /\ rootOpen # NoOffset
  BY DEF Progress, AfterRoot, InsideRoot, BeforeRoot
<1>2. whole.stack = <<>> /\ whole.want = "end" /\ whole.lex = "none"
  BY <1>1 DEF BehindRoot, Parse
<1>3. outcome = "scanning" /\ whole' = Feed(whole, b)
  BY DEF AfterRoot, Advance
<1>4. CASE b \in Blank
  <2>1. Feed(whole, b) = Lexing(whole, "none")
    BY <1>2, <1>4 DEF Feed
  <2>2. whole' = whole
    BY <1>1, <1>2, <1>3, <2>1 DEF Lexing, BehindRoot
  <2>3. UNCHANGED <<outcome, stack, inString, escaped, rootOpen, rootClose, lastContent,
                    membersSeen, memberStart, kept, blankCut>>
    BY <1>4 DEF AfterRoot, scanner, offsets
  <2>4. BehindRoot'
    BY <1>1, <2>2, <2>3 DEF BehindRoot, SpliceGood, Spliced
  <2> QED BY <1>1, <1>3, <2>3, <2>4 DEF Kept, Progress, AfterRoot
<1>5. CASE b \notin Blank
  <2>1. Feed(whole, b) = FeedSymbol(whole, b)
    BY <1>2, <1>5 DEF Feed
  <2>2. FeedSymbol(whole, b) = Wrong
    BY <1>2 DEF FeedSymbol, Opened, Closed, Opening, Closing, Inside
  <2>3. outcome' = "invalid"
    BY <1>5 DEF AfterRoot, Refuse
  <2> QED BY <1>3, <2>1, <2>2, <2>3, FromWrong DEF Kept
<1> QED BY <1>4, <1>5

LEMMA InsideStep ==
    ASSUME InsideRoot', outcome' = "scanning", rootOpen' # NoOffset
    PROVE  Kept'
BY DEF Kept, Progress, InsideRoot

LEMMA InStringStepInv ==
    ASSUME BoundsTypeOK, Progress, NEW b \in Bytes, InString(b)
    PROVE  Kept'
<1>1. InsideRoot /\ rootOpen # NoOffset
  BY DEF Progress, InString, BeforeRoot, BehindRoot
<1>2. Advance(b) /\ InMember(b) /\ inString /\ outcome = "scanning"
  BY DEF InString, Advance
<1>3. UNCHANGED <<outcome, stack, rootOpen, rootClose, membersSeen, memberStart>>
  BY DEF InString
<1>4. /\ inString' = (escaped \/ b # "quote")
      /\ escaped' = (~escaped /\ b = "escape")
  BY DEF InString
<1>5. CASE whole.want = "error"
  <2>1. whole' = Wrong
    BY <1>2, <1>5 DEF Feed, Advance
  <2>2. member' = Wrong /\ ~blankMember'
    BY <1>1, <1>2, <1>5, FromWrong DEF InsideRoot, InMember
  <2>3. InsideRoot'
    BY <1>1, <1>3, <2>1, <2>2, FromWrong DEF InsideRoot
  <2> QED BY <1>1, <1>2, <1>3, <2>3, InsideStep
<1>6. CASE whole.want # "error"
  <2>1. Following
    BY <1>1, <1>6 DEF InsideRoot
  <2>2. Open(whole) /\ stack = whole.stack /\ whole.lex \in InAString /\ (escaped <=> whole.lex = "escape")
    BY <1>2, <2>1 DEF Following
  <2>3. Content(b)
    BY <2>2 DEF InString, Open
  <2>4. whole' # Wrong => /\ stack' = whole'.stack
                          /\ (inString' <=> whole'.lex \in InAString)
                          /\ (escaped' <=> whole'.lex = "escape")
    <3> SUFFICES ASSUME whole' # Wrong
                 PROVE  /\ stack' = whole'.stack
                        /\ (inString' <=> whole'.lex \in InAString)
                        /\ (escaped' <=> whole'.lex = "escape")
      OBVIOUS
    <3>1. whole' = Feed(whole, b) /\ whole \in ParseType
      BY <1>2 DEF Advance, BoundsTypeOK
    <3>2. /\ whole'.stack = whole.stack
          /\ whole'.lex \in InAString <=> (whole.lex = "escape" \/ b # "quote")
          /\ whole'.lex = "escape" <=> (whole.lex # "escape" /\ b = "escape")
      BY <2>2, <3>1, FeedInString
    <3>3. (inString' <=> whole'.lex \in InAString) /\ (escaped' <=> whole'.lex = "escape")
      BY <1>4, <2>2, <3>2, Zenon
    <3> QED BY <1>3, <2>2, <3>2, <3>3, Zenon
  <2>5. InsideRoot'
    BY <1>1, <1>2, <1>3, <2>3, <2>4, ContentByte
  <2> QED BY <1>1, <1>2, <1>3, <2>5, InsideStep
<1> QED BY <1>5, <1>6

LEMMA BlankStep ==
    ASSUME BoundsTypeOK, Progress, NEW b \in Bytes, BlankByte(b)
    PROVE  Kept'
<1>1. /\ outcome = "scanning" /\ whole' = Feed(whole, b) /\ b \in Blank
      /\ rootClose = NoOffset /\ ~inString
      /\ blankCut' = (blankCut /\ b \in Blank)
      /\ UNCHANGED <<lastContent, kept, outcome, stack, inString, escaped, rootOpen,
                     rootClose, membersSeen, memberStart>>
  BY DEF BlankByte, Advance, Behind, Outside, scanner
<1>2. CASE rootOpen = NoOffset
  <2>1. BeforeRoot
    BY <1>2 DEF Progress
  <2>2. whole.stack = <<>> /\ whole.want = "root" /\ whole.lex = "none"
    BY <2>1 DEF BeforeRoot, NoText, Parse
  <2>3. whole' = Lexing(whole, "none")
    BY <1>1, <2>2 DEF Feed
  <2>4. whole' = NoText
    BY <2>2, <2>3 DEF Lexing, NoText
  <2>5. BeforeRoot'
    BY <1>1, <2>1, <2>4, Zenon DEF BeforeRoot
  <2> QED BY <1>1, <1>2, <2>5 DEF Kept, Progress
<1>3. CASE rootOpen # NoOffset
  <2>1. InsideRoot /\ member' = Feed(member, b) /\ blankMember' = (blankMember /\ b \in Blank)
    BY <1>1, <1>3 DEF Progress, BlankByte, InMember
  <2>2. CASE whole.want = "error"
    <3>1. whole' = Wrong
      BY <1>1, <2>2 DEF Feed
    <3>2. member' = Wrong /\ ~blankMember'
      BY <2>1, <2>2, FromWrong DEF InsideRoot
    <3>3. InsideRoot'
      BY <1>1, <2>1, <3>1, <3>2, FromWrong DEF InsideRoot
    <3> QED BY <1>1, <1>3, <3>3, InsideStep
  <2>3. CASE whole.want # "error"
    <3>1. Following
      BY <2>1, <2>3 DEF InsideRoot
    <3>2. whole.lex \notin InAString /\ Open(whole) /\ stack = whole.stack
      BY <1>1, <3>1 DEF Following
    <3>3. whole' = Lexing(whole, "none")
      BY <1>1, <2>3, <3>2 DEF Feed, InAString
    <3>4. /\ whole'.stack = whole.stack /\ whole'.want = whole.want /\ whole'.lex = "none"
      BY <3>3, ParseFields DEF Lexing
    <3>5. blankMember' = blankMember
      BY <1>1, <2>1, Zenon DEF BoundsTypeOK
    <3>6. blankMember => member' = EmptyObject /\ whole' = Fresh
      <4> SUFFICES ASSUME blankMember PROVE member' = EmptyObject /\ whole' = Fresh
        OBVIOUS
      <4>1. member = EmptyObject /\ whole = Fresh
        BY <3>1 DEF Following
      <4>2. b \notin Closing \cup {","}
        BY <1>1 DEF Blank, Closing
      <4>3. Feed(EmptyObject, b) = EmptyObject
        BY <1>1, <4>2, FirstByte DEF EmptyObject
      <4>4. PICK w \in {"first", "key"} : whole = Parse(<<"{">>, w, "none")
        BY <4>1 DEF Fresh
      <4>5. Feed(whole, b) = whole
        BY <1>1, <4>2, <4>4, FirstByte
      <4> QED BY <1>1, <2>1, <4>1, <4>3, <4>5
    <3>7. ~blankMember => Alike(member', whole') /\ Begun(member')
      <4> SUFFICES ASSUME ~blankMember PROVE Alike(member', whole') /\ Begun(member')
        OBVIOUS
      <4>1. Alike(member, whole) /\ Begun(member)
        BY <3>1 DEF Following
      <4>2. b \notin Closing \cup {","}
        BY <1>1 DEF Blank, Closing
      <4>3. whole \in ParseType /\ member \in ParseType
        BY DEF BoundsTypeOK
      <4> QED BY <1>1, <2>1, <3>2, <4>1, <4>2, <4>3, AlikeFed
    <3>8. lastContent # NoOffset => blankCut' /\ ButBlanks(kept', whole')
      <4> SUFFICES ASSUME lastContent # NoOffset PROVE blankCut' /\ ButBlanks(kept', whole')
        OBVIOUS
      <4>1. blankCut /\ ButBlanks(kept, whole)
        BY <3>1 DEF Following
      <4>2. CASE kept = whole
        <5>1. whole.lex \in {"none", "number"}
          BY <3>2 DEF BoundsTypeOK, ParseType, InAString
        <5> QED BY <1>1, <3>3, <4>1, <4>2, <5>1 DEF ButBlanks
      <4>3. CASE kept # whole
        <5>1. kept.lex \in {"none", "number"} /\ whole = Lexing(kept, "none")
          BY <4>1, <4>3 DEF ButBlanks
        <5>2. whole.stack = kept.stack /\ whole.want = kept.want
          BY <5>1, ParseFields DEF Lexing
        <5>3. whole' = Lexing(kept, "none")
          BY <3>3, <5>2 DEF Lexing
        <5> QED BY <1>1, <4>1, <5>1, <5>3 DEF ButBlanks
      <4> QED BY <4>2, <4>3
    <3>9. Open(whole')
      BY <3>2, <3>4 DEF Open
    <3>10. /\ stack' = whole'.stack
           /\ (inString' <=> whole'.lex \in InAString) /\ (escaped' <=> whole'.lex = "escape")
      <4>1. ~inString /\ ~escaped
        <5>1. whole.lex # "escape"
          BY <3>2 DEF InAString
        <5> QED BY <1>1, <3>1, <5>1, Zenon DEF Following, BoundsTypeOK
      <4>2. whole'.lex \notin InAString /\ whole'.lex # "escape"
        BY <3>4 DEF InAString
      <4> QED BY <1>1, <3>2, <3>4, <4>1, <4>2, Zenon
    <3>11. Following'
      <4>1. lastContent' = NoOffset => blankMember' /\ membersSeen' = 0
        BY <1>1, <3>1, <3>5, Zenon DEF Following
      <4>2. lastContent' # NoOffset =>
               blankCut' /\ ButBlanks(kept', whole') /\ (blankMember' => membersSeen' # 0)
        BY <1>1, <3>1, <3>5, <3>8, Zenon DEF Following
      <4>3. /\ blankMember' => member' = EmptyObject /\ whole' = Fresh'
            /\ ~blankMember' => Alike(member', whole') /\ Begun(member')
        <5>1. Fresh' = Fresh
          BY <1>1 DEF Fresh
        <5> QED BY <3>5, <3>6, <3>7, <5>1, Zenon
      <4> QED BY <3>9, <3>10, <4>1, <4>2, <4>3, Zenon DEF Following
    <3>12. InsideRoot'
      BY <1>1, <2>1, <3>9, <3>11 DEF InsideRoot, Open
    <3> QED BY <1>1, <1>3, <3>12, InsideStep
  <2> QED BY <2>2, <2>3
<1> QED BY <1>2, <1>3

LEMMA OpenRootStep ==
    ASSUME BoundsTypeOK, Progress, NEW b \in Bytes, OpenRoot(b)
    PROVE  Kept'
<1>1. BeforeRoot /\ whole' = Feed(whole, b) /\ outcome = "scanning" /\ b \notin Blank
  BY DEF OpenRoot, Progress, Advance
<1>2. whole.stack = <<>> /\ whole.want = "root" /\ whole.lex = "none"
  BY <1>1 DEF BeforeRoot, NoText, Parse
<1>3. whole' = FeedSymbol(whole, b)
  BY <1>1, <1>2 DEF Feed
<1>4. CASE b # "{"
  <2>1. whole' = Wrong
    BY <1>2, <1>3, <1>4 DEF FeedSymbol, Opened, Closed
  <2>2. outcome' = "invalid"
    BY <1>4 DEF OpenRoot, Refuse
  <2> QED BY <2>1, <2>2, FromWrong DEF Kept
<1>5. CASE b = "{"
  <2>1. whole' = Parse(Append(whole.stack, b), Inside(b), "none")
    BY <1>2, <1>3, <1>5 DEF FeedSymbol, Opened, Opening
  <2>2. Append(<<>>, "{") = <<"{">> /\ Inside("{") = "first"
    BY DEF Inside
  <2>3. whole' = EmptyObject /\ stack' = <<"{">>
    BY <1>1, <1>2, <1>5, <2>1, <2>2, Zenon DEF EmptyObject, OpenRoot, BeforeRoot
  <2>4. /\ member' = EmptyObject /\ blankMember' = TRUE /\ memberStart' = position + 1
        /\ rootOpen' = position
        /\ UNCHANGED <<outcome, inString, escaped, rootClose, lastContent, membersSeen>>
    BY <1>5 DEF OpenRoot, MemberFrom
  <2>5. position \in Nat /\ NoOffset \notin Nat
    BY BoundsConstants DEF BoundsTypeOK
  <2>6. rootOpen' # NoOffset /\ memberStart' \in Nat
    BY <2>4, <2>5
  <2>7. /\ whole'.stack = <<"{">> /\ whole'.want = "first" /\ whole'.lex = "none"
    BY <2>3 DEF EmptyObject, Parse
  <2>8. Open(whole')
    BY <2>7, OneBrace DEF Open
  <2>9. whole' = Fresh'
    BY <1>1, <2>3, <2>4 DEF Fresh, EmptyObject, BeforeRoot
  <2>10. (inString' <=> whole'.lex \in InAString) /\ (escaped' <=> whole'.lex = "escape")
    <3>1. whole'.lex \notin InAString /\ whole'.lex # "escape"
      BY <2>7 DEF InAString
    <3> QED BY <1>1, <2>4, <3>1, Zenon DEF BeforeRoot
  <2>11. Following'
    BY <1>1, <2>3, <2>4, <2>7, <2>8, <2>9, <2>10, Zenon DEF Following, BeforeRoot
  <2>12. InsideRoot'
    BY <1>1, <2>4, <2>6, <2>8, <2>11 DEF InsideRoot, BeforeRoot, Open
  <2> QED BY <1>1, <2>4, <2>6, <2>12, InsideStep
<1> QED BY <1>4, <1>5

LEMMA OutsideFacts ==
    ASSUME BoundsTypeOK, Progress, NEW b \in Bytes, InRoot(b), Advance(b)
    PROVE  /\ InsideRoot /\ rootOpen # NoOffset /\ outcome = "scanning"
           /\ whole' = Feed(whole, b) /\ b \notin Blank
           /\ whole \in ParseType /\ member \in ParseType
           /\ whole.want = "error" => whole' = Wrong
           /\ whole.want # "error" =>
                  /\ Following /\ Open(whole) /\ stack = whole.stack
                  /\ whole.lex \notin InAString /\ ~inString /\ ~escaped
<1>1. /\ InsideRoot /\ rootOpen # NoOffset /\ outcome = "scanning"
      /\ whole' = Feed(whole, b) /\ b \notin Blank /\ ~inString
  BY DEF Progress, InRoot, Outside, Advance
<1>2. whole \in ParseType /\ member \in ParseType
  BY DEF BoundsTypeOK
<1>3. whole.want = "error" => whole' = Wrong
  BY <1>1 DEF Feed
<1>4. whole.want # "error" => Following
  BY <1>1 DEF InsideRoot
<1>5. Following => /\ Open(whole) /\ stack = whole.stack
                   /\ whole.lex \notin InAString /\ whole.lex # "escape" /\ ~escaped
  BY <1>1 DEF Following, InAString
<1> QED BY <1>1, <1>2, <1>3, <1>4, <1>5

(* A byte of a member, outside strings.                                      *)
LEMMA MemberStep ==
    ASSUME BoundsTypeOK, Progress, NEW b \in Bytes, InRoot(b), Advance(b), Content(b), InMember(b),
           UNCHANGED <<outcome, rootOpen, rootClose, membersSeen, memberStart>>,
           b \in Closing \cup {","} => Len(stack) # 1,
           inString' <=> b = "quote", ~escaped',
           b \in Opening => stack' = Append(stack, b),
           b \in Closing => stack' = Pop(stack),
           b \notin Opening \cup Closing => stack' = stack
    PROVE  Kept'
<1> USE OutsideFacts
<1>1. whole.want # "error" /\ whole' # Wrong =>
          /\ stack' = whole'.stack
          /\ (inString' <=> whole'.lex \in InAString)
          /\ (escaped' <=> whole'.lex = "escape")
  <2> SUFFICES ASSUME whole.want # "error", Feed(whole, b) # Wrong
               PROVE  /\ stack' = Feed(whole, b).stack
                      /\ (inString' <=> Feed(whole, b).lex \in InAString)
                      /\ (escaped' <=> Feed(whole, b).lex = "escape")
    OBVIOUS
  <2>1. Open(whole) /\ stack = whole.stack /\ whole.lex \notin InAString /\ whole \in ParseType
    OBVIOUS
  <2>2. /\ Feed(whole, b).lex \in InAString <=> b = "quote"
        /\ Feed(whole, b).lex # "escape"
        /\ b \in Opening => Feed(whole, b).stack = Append(whole.stack, b)
        /\ b \in Closing => Feed(whole, b).stack = Pop(whole.stack)
        /\ b \notin Opening \cup Closing => Feed(whole, b).stack = whole.stack
    BY <2>1, FeedOutside
  <2> QED BY <2>1, <2>2
<1>2. InsideRoot'
  BY <1>1, ContentByte
<1>3. outcome' = "scanning" /\ rootOpen' # NoOffset
  OBVIOUS
<1> QED BY <1>2, <1>3, InsideStep

LEMMA Deeper == \A n \in Nat : n > 1 => n # 1
OBVIOUS

LEMMA BytesOfMember ==
    ASSUME BoundsTypeOK, Progress, NEW b \in Bytes,
           Quote(b) \/ OpenContainer(b) \/ CloseContainer(b) \/ OtherByte(b)
    PROVE  Kept'
<1>0. ~inString /\ (Kept' \/ ~escaped)
  <2>1. InRoot(b) /\ Advance(b)
    BY DEF Quote, OpenContainer, CloseContainer, OtherByte
  <2>2. ~inString
    BY <2>1 DEF InRoot, Outside
  <2>3. CASE whole.want # "error"
    BY <2>1, <2>2, <2>3, OutsideFacts
  <2>4. CASE whole.want = "error"
    <3>1. InsideRoot /\ rootOpen # NoOffset /\ outcome = "scanning" /\ whole' = Wrong
      BY <2>1, <2>4, OutsideFacts
    <3>2. InMember(b) /\ UNCHANGED <<outcome, rootOpen, rootClose, memberStart>>
      BY DEF Quote, OpenContainer, CloseContainer, OtherByte
    <3>3. member' = Wrong /\ ~blankMember'
      BY <2>4, <3>1, <3>2, FromWrong DEF InsideRoot, InMember
    <3>4. InsideRoot'
      BY <3>1, <3>2, <3>3, FromWrong DEF InsideRoot
    <3>5. outcome' = "scanning" /\ rootOpen' # NoOffset
      BY <3>1, <3>2
    <3> QED BY <2>2, <3>4, <3>5, InsideStep
  <2> QED BY <2>2, <2>3, <2>4
<1>1. CASE ~escaped /\ Quote(b)
  <2>1. /\ InRoot(b) /\ Advance(b) /\ Content(b) /\ InMember(b) /\ b = "quote"
        /\ UNCHANGED <<outcome, rootOpen, rootClose, membersSeen, memberStart>>
        /\ inString' /\ ~escaped' /\ stack' = stack
    BY <1>1, Zenon DEF Quote
  <2>2. b \notin Closing \cup {","} /\ b \notin Opening
    BY <2>1 DEF Closing, Opening
  <2> QED BY <2>1, <2>2, MemberStep
<1>2. CASE ~escaped /\ OpenContainer(b)
  <2>1. /\ InRoot(b) /\ Advance(b) /\ Content(b) /\ InMember(b) /\ b \in Opening
        /\ UNCHANGED <<outcome, rootOpen, rootClose, membersSeen, memberStart>>
        /\ ~inString' /\ ~escaped' /\ stack' = Append(stack, b)
    BY <1>0, <1>2, Zenon DEF OpenContainer
  <2>2. b \notin Closing \cup {","} /\ b # "quote"
    BY <2>1 DEF Closing, Opening
  <2> QED BY <2>1, <2>2, MemberStep
<1>3. CASE ~escaped /\ CloseContainer(b)
  <2>1. /\ InRoot(b) /\ Advance(b) /\ Content(b) /\ InMember(b) /\ b \in Closing
        /\ UNCHANGED <<outcome, rootOpen, rootClose, membersSeen, memberStart>>
        /\ ~inString' /\ ~escaped' /\ stack' = Pop(stack)
    BY <1>0, <1>3, Zenon DEF CloseContainer
  <2>2. Len(stack) # 1
    <3>1. Len(stack) \in Nat
      BY DEF BoundsTypeOK
    <3>2. Len(stack) > 1
      BY <1>3, Zenon DEF CloseContainer
    <3> QED BY <3>1, <3>2, Deeper
  <2>3. b \notin Opening /\ b # "quote"
    BY <2>1 DEF Closing, Opening
  <2> QED BY <2>1, <2>2, <2>3, MemberStep
<1>4. CASE ~escaped /\ OtherByte(b)
  <2>1. /\ InRoot(b) /\ Advance(b) /\ Content(b) /\ InMember(b)
        /\ b \notin Opening \cup Closing \cup {"quote"}
        /\ UNCHANGED <<outcome, rootOpen, rootClose, membersSeen, memberStart>>
        /\ ~inString' /\ ~escaped' /\ stack' = stack
    BY <1>0, <1>4, Zenon DEF OtherByte, scanner
  <2>2. b = "," => Len(stack) # 1
    <3>1. Len(stack) \in Nat
      BY DEF BoundsTypeOK
    <3>2. b = "," => Len(stack) > 1
      BY <1>4, Zenon DEF OtherByte
    <3> QED BY <3>1, <3>2, Deeper
  <2> QED BY <2>1, <2>2, MemberStep
<1> QED BY <1>0, <1>1, <1>2, <1>3, <1>4

LEMMA UnbalancedStep ==
    ASSUME BoundsTypeOK, Progress, NEW b \in Bytes, Unbalanced(b)
    PROVE  Kept'
<1>1. InRoot(b) /\ Advance(b) /\ b \in Closing /\ ~ClosesTop(b) /\ outcome' = "invalid"
  BY DEF Unbalanced, Refuse
<1>2. CASE whole.want = "error"
  BY <1>1, <1>2, OutsideFacts, FromWrong DEF Kept
<1>3. CASE whole.want # "error"
  <2>1. /\ whole' = Feed(whole, b) /\ b \notin Blank /\ stack = whole.stack
        /\ whole.lex \notin InAString
    BY <1>1, <1>3, OutsideFacts
  <2>2. Feed(whole, b) = FeedSymbol(whole, b)
    BY <1>3, <2>1 DEF Feed, InAString
  <2>3. FeedSymbol(whole, b) = Closed(whole, b)
    BY <1>1 DEF FeedSymbol, Opening, Closing
  <2>4. Closed(whole, b) = Wrong
    BY <1>1, <2>1 DEF Closed, ClosesTop
  <2> QED BY <1>1, <2>1, <2>2, <2>3, <2>4, FromWrong DEF Kept
<1> QED BY <1>2, <1>3

(* At a closing brace or a comma: json.loads takes the member if and only if  *)
(* the text may go on.                                                       *)
LEMMA Validated ==
    ASSUME BoundsTypeOK, Following, whole.lex \notin InAString, Len(stack) = 1, ~blankMember
    PROVE  /\ ValidMember <=> whole.want = "after"
           /\ whole.want # "first"
           /\ lastContent # NoOffset
<1>1. Alike(member, whole) /\ Begun(member) /\ stack = whole.stack /\ Open(whole)
  BY DEF Following
<1>2. member = whole
  BY <1>1 DEF Alike
<1>3. whole.want \notin {"first", "key"}
  BY <1>1, <1>2 DEF Begun
<1>4. Feed(whole, "}") = IF whole.want \in {"after", "first"}
                        THEN Parse(<<>>, "end", "none") ELSE Wrong
  BY <1>1, MemberEnds DEF BoundsTypeOK
<1>5. Parse(<<>>, "end", "none").want = "end" /\ Wrong.want = "error"
  BY FromWrong DEF Parse
<1>6. lastContent # NoOffset
  BY DEF Following
<1> QED BY <1>2, <1>3, <1>4, <1>5, <1>6 DEF ValidMember

LEMMA CommaStep ==
    ASSUME BoundsTypeOK, Progress, NEW b \in Bytes, Comma(b)
    PROVE  Kept'
<1>1. InRoot(b) /\ Advance(b) /\ b = "," /\ Len(stack) = 1
  BY DEF Comma
<1>2. CASE TooLong
  BY <1>1, <1>2 DEF Comma, Refuse, Kept
<1>3. CASE ~TooLong /\ whole.want = "error"
  <2>1. InsideRoot /\ whole' = Wrong
    BY <1>1, <1>3, OutsideFacts
  <2>2. ~blankMember /\ member = Wrong
    BY <1>3, <2>1 DEF InsideRoot
  <2>3. ~ValidMember
    BY <2>2, FromWrong DEF ValidMember
  <2>4. outcome' = "invalid"
    BY <1>1, <1>3, <2>3 DEF Comma, Refuse
  <2> QED BY <2>1, <2>4, FromWrong DEF Kept
<1>4. CASE ~TooLong /\ whole.want # "error"
  <2>1. /\ InsideRoot /\ rootOpen # NoOffset /\ outcome = "scanning"
        /\ whole' = Feed(whole, b)
        /\ Following /\ Open(whole) /\ stack = whole.stack
        /\ whole.lex \notin InAString /\ ~inString /\ ~escaped
    BY <1>1, <1>4, OutsideFacts
  <2>2. /\ whole.stack = <<"{">>
        /\ whole' = IF whole.want = "after" THEN Parse(<<"{">>, "key", "none") ELSE Wrong
    BY <1>1, <2>1, MemberEnds DEF BoundsTypeOK
  <2>3. CASE blankMember \/ ~ValidMember
    <3>1. whole.want # "after"
      <4>1. CASE blankMember
        BY <2>1, <4>1, FreshFields DEF Following
      <4>2. CASE ~blankMember
        BY <1>1, <2>1, <2>3, <4>2, Validated
      <4> QED BY <4>1, <4>2
    <3>2. outcome' = "invalid"
      BY <1>1, <1>4, <2>3 DEF Comma, Refuse
    <3> QED BY <2>2, <3>1, <3>2, FromWrong DEF Kept
  <2>4. CASE ~blankMember /\ ValidMember
    <3>1. whole.want = "after"
      BY <1>1, <2>1, <2>4, Validated
    <3>2. /\ membersSeen' = membersSeen + 1
          /\ memberStart' = position + 1 /\ member' = EmptyObject /\ blankMember' = TRUE
          /\ lastContent' = position /\ kept' = Feed(whole, b) /\ blankCut' = TRUE
          /\ UNCHANGED <<outcome, stack, inString, escaped, rootOpen, rootClose>>
      BY <1>1, <1>4, <2>4 DEF Comma, MemberFrom, Content, scanner
    <3>3. /\ position \in Nat /\ NoOffset \notin Nat /\ membersSeen \in Nat
      BY BoundsConstants DEF BoundsTypeOK
    <3>4. memberStart' \in Nat /\ lastContent' # NoOffset /\ membersSeen' # 0
      BY <3>2, <3>3
    <3>5. whole' = Parse(<<"{">>, "key", "none")
      BY <2>2, <3>1
    <3>6. whole'.stack = <<"{">> /\ whole'.want = "key" /\ whole'.lex = "none"
      BY <3>5 DEF Parse
    <3>7. Open(whole')
      BY <3>6, OneBrace DEF Open
    <3>8. whole' = Fresh'
      BY <3>4, <3>5 DEF Fresh
    <3>9. ButBlanks(kept', whole')
      BY <2>1, <3>2 DEF ButBlanks
    <3>10. whole'.lex \notin InAString /\ whole'.lex # "escape" /\ stack' = whole'.stack
      BY <2>1, <2>2, <3>2, <3>6 DEF InAString
    <3>11. Following'
      BY <2>1, <3>2, <3>4, <3>7, <3>8, <3>9, <3>10, Zenon DEF Following
    <3>12. InsideRoot'
      BY <2>1, <3>2, <3>4, <3>7, <3>11 DEF InsideRoot, Open
    <3> QED BY <2>1, <3>2, <3>12, InsideStep
  <2> QED BY <2>3, <2>4
<1> QED BY <1>2, <1>3, <1>4

LEMMA CloseRootStep ==
    ASSUME BoundsTypeOK, Progress, NEW b \in Bytes, CloseRoot(b)
    PROVE  Kept'
<1>1. InRoot(b) /\ Advance(b) /\ b = "}" /\ Len(stack) = 1
  BY DEF CloseRoot
<1>2. CASE TooLong
  BY <1>1, <1>2 DEF CloseRoot, Refuse, Kept
<1>3. CASE ~TooLong /\ whole.want = "error"
  <2>1. InsideRoot /\ whole' = Wrong
    BY <1>1, <1>3, OutsideFacts
  <2>2. ~blankMember /\ member = Wrong
    BY <1>3, <2>1 DEF InsideRoot
  <2>3. ~ValidMember
    BY <2>2, FromWrong DEF ValidMember
  <2>4. outcome' = "invalid"
    BY <1>1, <1>3, <2>2, <2>3 DEF CloseRoot, Refuse
  <2> QED BY <2>1, <2>4, FromWrong DEF Kept
<1>4. CASE ~TooLong /\ whole.want # "error"
  <2>1. /\ InsideRoot /\ rootOpen # NoOffset /\ outcome = "scanning"
        /\ whole' = Feed(whole, b)
        /\ Following /\ Open(whole) /\ stack = whole.stack
        /\ whole.lex \notin InAString /\ ~inString /\ ~escaped
    BY <1>1, <1>4, OutsideFacts
  <2>2. /\ whole.stack = <<"{">>
        /\ whole' = IF whole.want \in {"after", "first"} THEN Parse(<<>>, "end", "none") ELSE Wrong
    BY <1>1, <2>1, MemberEnds DEF BoundsTypeOK
  <2>3. CASE (blankMember /\ membersSeen # 0) \/ (~blankMember /\ ~ValidMember)
    <3>1. whole.want \notin {"after", "first"}
      <4>1. CASE blankMember
        BY <2>1, <2>3, <4>1, FreshFields DEF Following
      <4>2. CASE ~blankMember
        BY <1>1, <2>1, <2>3, <4>2, Validated
      <4> QED BY <4>1, <4>2
    <3>2. outcome' = "invalid"
      BY <1>1, <1>4, <2>3 DEF CloseRoot, Refuse
    <3> QED BY <2>2, <3>1, <3>2, FromWrong DEF Kept
  <2>4. CASE ~((blankMember /\ membersSeen # 0) \/ (~blankMember /\ ~ValidMember))
    <3>1. /\ rootClose' = position /\ stack' = Pop(stack)
          /\ kept' = IF lastContent = NoOffset THEN whole ELSE kept
          /\ UNCHANGED <<outcome, inString, escaped, rootOpen, lastContent, blankCut>>
      BY <1>1, <1>4, <2>4 DEF CloseRoot
    <3>2. position \in Nat /\ NoOffset \notin Nat
      BY BoundsConstants DEF BoundsTypeOK
    <3>3. stack' = <<>> /\ rootClose' # NoOffset
      <4>1. stack \in Seq(Opening) /\ stack # <<>>
        BY <2>1 DEF Open, BoundsTypeOK
      <4> QED BY <1>1, <3>1, <3>2, <4>1, PopTyped
    <3>4. CASE blankMember
      <4>1. whole = Fresh /\ membersSeen = 0
        BY <2>1, <2>4, <3>4 DEF Following
      <4>2. whole = EmptyObject
        BY <4>1 DEF Fresh, EmptyObject
      <4>3. whole' = Parse(<<>>, "end", "none")
        BY <2>2, <4>1, FreshFields
      <4>4. lastContent = NoOffset
        BY <2>1, <3>4, <4>1 DEF Following
      <4>5. kept' = EmptyObject /\ lastContent' = NoOffset
        BY <3>1, <4>2, <4>4
      <4>6. Spliced'.want = "end"
        <5>1. Spliced' = Feed(Feed(FeedEntry(Feed(EmptyObject, "newline")), "newline"), "}")
          BY <4>5 DEF Spliced
        <5> QED BY <5>1, SpliceInside
      <4>7. BehindRoot'
        BY <2>1, <3>1, <3>3, <4>3, <4>5, <4>6, Zenon DEF BehindRoot, SpliceGood
      <4> QED BY <2>1, <3>1, <3>3, <4>7 DEF Kept, Progress
    <3>5. CASE ~blankMember
      <4>1. whole.want = "after" /\ lastContent # NoOffset
        BY <1>1, <2>1, <2>4, <3>5, Validated
      <4>2. whole' = Parse(<<>>, "end", "none")
        BY <2>2, <4>1
      <4>3. blankCut /\ ButBlanks(kept, whole)
        BY <2>1, <4>1 DEF Following
      <4>4. kept.stack = <<"{">> /\ kept.want = "after" /\ kept.lex \in {"none", "number"}
        <5>1. CASE kept = whole
          <6>1. whole.lex \in {"none", "number"}
            BY <2>1 DEF BoundsTypeOK, ParseType, InAString
          <6> QED BY <2>2, <4>1, <5>1, <6>1
        <5>2. CASE kept # whole
          <6>1. kept.lex \in {"none", "number"} /\ whole = Lexing(kept, "none")
            BY <4>3, <5>2 DEF ButBlanks
          <6>2. whole.stack = kept.stack /\ whole.want = kept.want
            BY <6>1, ParseFields DEF Lexing
          <6> QED BY <2>2, <4>1, <6>1, <6>2
        <5> QED BY <5>1, <5>2
      <4>5. kept' = kept /\ lastContent' # NoOffset /\ blankCut'
        BY <3>1, <4>1, <4>3, Zenon
      <4>6. Spliced'.want = "end"
        <5>1. Spliced' = Feed(Feed(FeedEntry(Feed(Feed(kept, ","), "newline")), "newline"), "}")
          BY <4>5 DEF Spliced
        <5> QED BY <4>4, <5>1, SpliceBehind
      <4>7. BehindRoot'
        BY <2>1, <3>1, <3>3, <4>2, <4>5, <4>6, Zenon DEF BehindRoot, SpliceGood
      <4> QED BY <2>1, <3>1, <3>3, <4>7 DEF Kept, Progress
    <3> QED BY <3>4, <3>5
  <2> QED BY <2>3, <2>4
<1> QED BY <1>2, <1>3, <1>4

-----------------------------------------------------------------------------
(* The theorems.                                                             *)

LEMMA BoundsInvInit == BoundsIdle => BoundsInv
<1> SUFFICES ASSUME BoundsIdle PROVE BoundsInv
  OBVIOUS
<1>1. BoundsTypeOK
  BY BoundsTyped
<1>2. BeforeRoot /\ rootOpen = NoOffset /\ outcome = "idle"
  BY Zenon DEF BoundsIdle, BeforeRoot
<1> QED BY <1>1, <1>2 DEF BoundsInv, Progress, AcceptsExactlyJson, SpliceIsJson

LEMMA BoundsInvNext == BoundsInv /\ [BoundsNext]_boundsVars => BoundsInv'
<1> SUFFICES ASSUME BoundsInv, [BoundsNext]_boundsVars PROVE BoundsInv'
  OBVIOUS
<1>0. BoundsTypeOK /\ BoundsTypeOK'
  BY NextTyped DEF BoundsInv
<1>1. CASE \E b \in Bytes : Scan(b)
  <2>1. PICK b \in Bytes : Scan(b)
    BY <1>1
  <2>2. Progress
    <3>1. outcome = "scanning"
      BY <2>1 DEF Scan, AfterRoot, InString, BlankByte, OpenRoot, Quote, OpenContainer,
                  Unbalanced, CloseContainer, CloseRoot, Comma, OtherByte, Advance
    <3> QED BY <3>1 DEF BoundsInv
  <2>3. Kept'
    BY <1>0, <2>1, <2>2, AfterRootStep, InStringStepInv, BlankStep, OpenRootStep, BytesOfMember,
       UnbalancedStep, CloseRootStep, CommaStep DEF Scan
  <2> QED BY <1>0, <2>3 DEF BoundsInv, Kept, AcceptsExactlyJson, SpliceIsJson
<1>2. CASE BoundsBegin
  <2>1. outcome = "idle" /\ outcome' = "scanning"
    BY <1>2 DEF BoundsBegin
  <2>2. Progress'
    BY <1>2, <2>1 DEF BoundsInv, BoundsBegin, scanner, offsets, parses, Progress, BeforeRoot,
                      InsideRoot, Following, BehindRoot, SpliceGood, Spliced, Fresh
  <2> QED BY <1>0, <2>1, <2>2 DEF BoundsInv, AcceptsExactlyJson, SpliceIsJson
<1>3. CASE TextEnds
  <2>1. Progress
    BY <1>3 DEF BoundsInv, TextEnds
  <2>2. UNCHANGED <<whole, lastContent, kept, blankCut>>
    BY <1>3 DEF TextEnds, offsets, parses
  <2>3. CASE rootClose = NoOffset \/ stack # <<>> \/ inString \/ escaped
    <3>1. whole.want # "end"
      <4>1. BeforeRoot \/ InsideRoot
        BY <2>1, <2>3 DEF Progress, BehindRoot
      <4>2. CASE BeforeRoot
        BY <4>2 DEF BeforeRoot, NoText, Parse
      <4>3. CASE InsideRoot
        BY <4>3 DEF InsideRoot, Following, Open
      <4> QED BY <4>1, <4>2, <4>3
    <3>2. outcome' = "incomplete"
      BY <1>3, <2>3 DEF TextEnds
    <3> QED BY <1>0, <2>2, <3>1, <3>2 DEF BoundsInv, AcceptsExactlyJson, SpliceIsJson
  <2>4. CASE ~(rootClose = NoOffset \/ stack # <<>> \/ inString \/ escaped)
    <3>1. BehindRoot
      BY <2>1, <2>4 DEF Progress, BeforeRoot
    <3>2. whole.want = "end"
      BY <3>1 DEF BehindRoot, Parse
    <3>3. outcome' = "bounds"
      BY <1>3, <2>4 DEF TextEnds
    <3>4. SpliceGood'
      BY <2>2, <3>1 DEF BehindRoot, SpliceGood, Spliced
    <3> QED BY <1>0, <2>2, <3>2, <3>3, <3>4
            DEF BoundsInv, AcceptsExactlyJson, SpliceIsJson, SpliceGood
  <2> QED BY <2>3, <2>4
<1>4. CASE Undecodable
  BY <1>0, <1>4, FromWrong DEF BoundsInv, Undecodable, AcceptsExactlyJson, SpliceIsJson
<1>5. CASE Shrunk
  BY <1>0, <1>5 DEF BoundsInv, Shrunk, AcceptsExactlyJson, SpliceIsJson
<1>6. CASE UNCHANGED boundsVars
  BY <1>0, <1>6 DEF boundsVars, scanner, offsets, parses, BoundsInv, Progress, BeforeRoot,
                    InsideRoot, Following, BehindRoot, SpliceGood, Spliced, Fresh,
                    AcceptsExactlyJson, SpliceIsJson
<1> QED BY <1>1, <1>2, <1>3, <1>4, <1>5, <1>6 DEF BoundsNext

(* For a catalog of any length and nesting: the scan accepts the text if and *)
(* only if it is one JSON object, but for a member that is too large.        *)
THEOREM ScanIsExact == BoundsSpec => []AcceptsExactlyJson
<1>1. BoundsInv => AcceptsExactlyJson
  BY DEF BoundsInv
<1> QED BY <1>1, BoundsInvInit, BoundsInvNext, PTL DEF BoundsSpec

(* What append_catalog_entry puts together of an accepted catalog is again   *)
(* one JSON object, with all of the old one but blanks.                      *)
THEOREM SpliceIsCorrect == BoundsSpec => []SpliceIsJson
<1>1. BoundsInv => SpliceIsJson
  BY DEF BoundsInv
<1> QED BY <1>1, BoundsInvInit, BoundsInvNext, PTL DEF BoundsSpec
=============================================================================
