----------------------------- MODULE TokenScan ------------------------------
(***************************************************************************)
(* How refresh and _descriptor_contains_model find models in the bytes of  *)
(* the catalog: the regular expression is tried on windows, each a chunk   *)
(* behind the last bytes of what was read before. A read may return less   *)
(* than it asks for, and between two refreshes the file may grow: the next *)
(* one starts a fixed distance before the offset that is indexed, wherever *)
(* that falls. Characters are classes; a token is a pair of the offset it  *)
(* is found at and its text.                                               *)
(***************************************************************************)
EXTENDS Naturals, Sequences

CONSTANTS
    Texts,      \* texts of the catalog: sequences over Chars
    Chunk,      \* COPY_CHUNK: most a read returns
    Overlap,    \* bytes of one window that begin the next: 64
    Rewind,     \* distance a refresh goes back: 4096
    MinRun,     \* characters of a token after its prefix: 3 ...
    MaxRun      \* ... to 16

Chars == {"S", "M", "-", "alnum", "other"}

ASSUME ScanConstants ==
    /\ Texts \subseteq Seq(Chars)
    /\ {Chunk, Overlap, Rewind, MinRun, MaxRun} \subseteq Nat

(* A token is at most MaxRun + 3 characters: less than what two windows      *)
(* share (64) and than what a refresh goes back (4096). That a run has three *)
(* characters leaves no room for a token between "SM" and a hyphen.          *)
ASSUME ScanDistances ==
    /\ MinRun >= 3
    /\ Overlap >= MaxRun + 3
    /\ Rewind >= MaxRun + 3

VARIABLES
    step,       \* "idle", "read", "indexed"
    text,       \* the whole file, in the end
    size,       \* how much of it is there
    offset,     \* next byte to read
    overlap,
    found       \* external_metadata_model

scanVars == <<step, text, size, offset, overlap, found>>

-----------------------------------------------------------------------------
(* MODEL_BYTES_RE: SM, perhaps a hyphen, then a run of letters and digits,   *)
(* with neither before nor after the whole.                                  *)

Alnum == {"S", "M", "alnum"}

IsAlnum(s, i) == i \in DOMAIN s /\ s[i] \in Alnum

AfterPrefix(s, i) == IF i + 2 \in DOMAIN s /\ s[i + 2] = "-" THEN i + 3 ELSE i + 2

(* A token in s from i to j. The run cannot be cut short, since no letter or *)
(* digit may follow, so a start has at most one end.                         *)
IsToken(s, i, j) ==
    /\ j \in DOMAIN s
    /\ s[i] = "S" /\ i + 1 <= j /\ s[i + 1] = "M"
    /\ LET run == AfterPrefix(s, i) IN
          /\ j + 1 - run \in MinRun .. MaxRun
          /\ \A k \in run .. j : s[k] \in Alnum
    /\ ~IsAlnum(s, i - 1)
    /\ ~IsAlnum(s, j + 1)

(* finditer: from left to right, each behind the end of the one before. The  *)
(* tokens taken are those that begin in no other that is taken.              *)
Finditer(s) ==
    LET spans == {p \in (DOMAIN s) \X (DOMAIN s) : IsToken(s, p[1], p[2])}
    IN  CHOOSE taken \in SUBSET spans :
            \A p \in spans :
                p \in taken <=> \A q \in taken : ~(q[1] < p[1] /\ q[2] >= p[1])

(* The matches in a window that begins at the given offset of the file.      *)
Matches(window, start) ==
    {<<start + p[1] - 1, SubSeq(window, p[1], p[2])>> : p \in Finditer(window)}

-----------------------------------------------------------------------------
ScanIdle ==
    /\ step = "idle" /\ text = <<>> /\ size = 0
    /\ offset = 0 /\ overlap = <<>> /\ found = {}

(* The first refresh, or the search of append_catalog_entry: from 0.         *)
ScanInit ==
    /\ step = "read"
    /\ text \in Texts
    /\ size \in 0 .. Len(text)
    /\ offset = 0 /\ overlap = <<>> /\ found = {}

(* Mutant: one more than asked for.                                          *)
LastLonger(s, n) ==
    IF Len(s) <= n + 1 THEN s ELSE SubSeq(s, Len(s) - n, Len(s))

LastOf(s, n) == IF Len(s) <= n THEN s ELSE SubSeq(s, Len(s) - n + 1, Len(s))

(* Mutant: the overlap is taken from the chunk alone.                        *)
ReadChunkOnly ==
    /\ step = "read"
    /\ \E n \in 1 .. Chunk :
        /\ offset + n <= size
        /\ LET chunk == SubSeq(text, offset + 1, offset + n)
               window == overlap \o chunk
           IN  /\ found' = found \cup Matches(window, offset - Len(overlap))
               /\ overlap' = LastOf(chunk, Overlap)
        /\ offset' = offset + n
    /\ UNCHANGED <<step, text, size>>

(* Mutant: offsets are those of the chunk.                                   *)
ReadUnshifted ==
    /\ step = "read"
    /\ \E n \in 1 .. Chunk :
        /\ offset + n <= size
        /\ LET chunk == SubSeq(text, offset + 1, offset + n)
               window == overlap \o chunk
           IN  /\ found' = found \cup Matches(window, offset)
               /\ overlap' = LastOf(window, Overlap)
        /\ offset' = offset + n
    /\ UNCHANGED <<step, text, size>>

Read ==
    /\ step = "read"
    /\ \E n \in 1 .. Chunk :
        /\ offset + n <= size
        /\ LET chunk == SubSeq(text, offset + 1, offset + n)
               window == overlap \o chunk
           IN  /\ found' = found \cup Matches(window, offset - Len(overlap))
               /\ overlap' = LastOf(window, Overlap)
        /\ offset' = offset + n
    /\ UNCHANGED <<step, text, size>>

(* An empty read: indexed_offset is what was read.                           *)
EndOfFile ==
    /\ step = "read"
    /\ offset = size
    /\ step' = "indexed"
    /\ UNCHANGED <<text, size, offset, overlap, found>>

(* Someone appends, before or during a refresh.                              *)
Grow ==
    /\ step # "idle"
    /\ \E n \in size + 1 .. Len(text) : size' = n
    /\ UNCHANGED <<step, text, offset, overlap, found>>

(* The next refresh of a file that has grown.                                *)
Resume ==
    /\ step = "indexed"
    /\ offset < size
    /\ step' = "read"
    /\ offset' = IF offset > Rewind THEN offset - Rewind ELSE 0
    /\ overlap' = <<>>
    /\ UNCHANGED <<text, size, found>>

ScanNext == Read \/ EndOfFile \/ Grow \/ Resume

-----------------------------------------------------------------------------
(* Properties.                                                               *)

ScanTypeOK ==
    /\ step \in {"idle", "read", "indexed"}
    /\ text \in Seq(Chars)
    /\ size \in 0 .. Len(text) /\ offset \in 0 .. size
    /\ overlap \in Seq(Chars) /\ Len(overlap) <= Overlap
    /\ \A f \in found : f[1] \in Nat /\ f[2] \in Seq(Chars)

Visible == SubSeq(text, 1, offset)

(* However the reads cut the file and wherever a refresh resumed, every      *)
(* model of what is indexed was found.                                       *)
EveryModelFound == step = "indexed" => Matches(Visible, 0) \subseteq found

(* What is found stands in the file where it was found: a window never joins *)
(* bytes that are not neighbours. (It may still be cut, where a read ended   *)
(* or a refresh resumed.)                                                    *)
FoundWhereItStands ==
    \A f \in found :
        /\ f[1] + Len(f[2]) <= size
        /\ SubSeq(text, f[1] + 1, f[1] + Len(f[2])) = f[2]
=============================================================================
