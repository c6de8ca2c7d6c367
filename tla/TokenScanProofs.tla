-------------------------- MODULE TokenScanProofs ---------------------------
(* Every model of the catalog is found, and where it stands, for any text,   *)
(* any lengths of the reads and any growth, as long as a window and the next *)
(* share three characters more than a token's run.                           *)
EXTENDS TokenScan, SequenceTheorems, TLAPS

Spans(s) == {p \in (DOMAIN s) \X (DOMAIN s) : IsToken(s, p[1], p[2])}

Covers(q, p) == q[1] < p[1] /\ q[2] >= p[1]

LEMMA SpanIs ==
    ASSUME NEW s \in Seq(Chars)
    PROVE  /\ DOMAIN s = 1 .. Len(s) /\ Len(s) \in Nat
           /\ \A p \in Spans(s) : /\ p = <<p[1], p[2]>> /\ p[1] \in DOMAIN s /\ p[2] \in DOMAIN s
                                  /\ p[1] \in Int /\ p[2] \in Int
                                  /\ IsToken(s, p[1], p[2])
           /\ \A i, j \in DOMAIN s : IsToken(s, i, j) => <<i, j>> \in Spans(s)
  BY DEF Spans

(* Only "SM-SM..." holds a token in a token: the inner one begins behind the *)
(* hyphen, ends with the outer one and has no hyphen, so that the outer one  *)
(* is itself in none.                                                        *)
LEMMA Covering ==
    ASSUME NEW s \in Seq(Chars), NEW q \in Spans(s), NEW p \in Spans(s), Covers(q, p)
    PROVE  /\ p[1] = q[1] + 3 /\ p[2] = q[2]
           /\ s[q[1] + 2] = "-" /\ q[1] + 2 \in DOMAIN s
           /\ ~(p[1] + 2 \in DOMAIN s /\ s[p[1] + 2] = "-")
           /\ p[2] - p[1] + 1 <= MaxRun
<1> DEFINE i == q[1]
           j == q[2]
           a == p[1]
           b == p[2]
<1>1. /\ i \in Int /\ j \in Int /\ a \in Int /\ b \in Int
      /\ DOMAIN s = 1 .. Len(s) /\ Len(s) \in Nat
      /\ i \in DOMAIN s /\ j \in DOMAIN s /\ a \in DOMAIN s /\ b \in DOMAIN s
      /\ IsToken(s, i, j) /\ IsToken(s, a, b) /\ i < a /\ a <= j
  BY SpanIs DEF Covers
<1> HIDE DEF i, j, a, b
<1>2. MinRun \in Nat /\ MaxRun \in Nat /\ MinRun >= 3
  BY ScanConstants, ScanDistances
<1>3. /\ s[i] = "S" /\ s[i + 1] = "M" /\ i + 1 <= j
      /\ s[a] = "S" /\ s[a + 1] = "M" /\ a + 1 <= b
      /\ ~IsAlnum(s, a - 1) /\ ~IsAlnum(s, j + 1) /\ ~IsAlnum(s, b + 1)
  BY <1>1 DEF IsToken
<1>4. \A k \in AfterPrefix(s, i) .. j : s[k] \in Alnum
  BY <1>1 DEF IsToken
<1>5. \A k \in AfterPrefix(s, a) .. b : s[k] \in Alnum
  BY <1>1 DEF IsToken
<1>6. /\ j + 1 - AfterPrefix(s, i) \in MinRun .. MaxRun
      /\ b + 1 - AfterPrefix(s, a) \in MinRun .. MaxRun
  BY <1>1 DEF IsToken
<1>7. a - 1 \in DOMAIN s /\ s[a - 1] \notin Alnum
  BY <1>1, <1>3 DEF IsAlnum
<1>8. a - 1 # i /\ a - 1 # i + 1
  BY <1>3, <1>7 DEF Alnum
<1>9. AfterPrefix(s, i) = i + 3 /\ s[i + 2] = "-" /\ i + 2 \in DOMAIN s
  BY <1>1, <1>4, <1>7, <1>8 DEF AfterPrefix
<1>10. a = i + 3
  BY <1>1, <1>4, <1>7, <1>8, <1>9
<1>11. j >= i + 5
  BY <1>1, <1>2, <1>6, <1>9
<1>12. a + 2 \in DOMAIN s /\ s[a + 2] \in Alnum
  BY <1>1, <1>4, <1>9, <1>10, <1>11
<1>13. AfterPrefix(s, a) = a + 2 /\ s[a + 2] # "-"
  BY <1>12 DEF AfterPrefix, Alnum
<1>14. b = j
  <2>1. CASE b < j
    <3>1. b + 1 \in AfterPrefix(s, i) .. j /\ b + 1 \in DOMAIN s
      BY <1>1, <1>3, <1>9, <1>10, <2>1
    <3> QED
      BY <3>1, <1>3, <1>4 DEF IsAlnum
  <2>2. CASE j < b
    <3>1. j + 1 \in AfterPrefix(s, a) .. b /\ j + 1 \in DOMAIN s
      BY <1>1, <1>10, <1>11, <1>13, <2>2
    <3> QED
      BY <3>1, <1>3, <1>5 DEF IsAlnum
  <2> QED
    BY <1>1, <2>1, <2>2
<1>15. b - a + 1 <= MaxRun
  BY <1>1, <1>2, <1>6, <1>9, <1>10, <1>14
<1> QED
  BY <1>9, <1>10, <1>13, <1>14, <1>15 DEF i, j, a, b

(* finditer takes the tokens that begin in no other.                         *)
LEMMA Found ==
    ASSUME NEW s \in Seq(Chars)
    PROVE  Finditer(s) = {p \in Spans(s) : \A q \in Spans(s) : ~Covers(q, p)}
<1> DEFINE T == {p \in Spans(s) : \A q \in Spans(s) : ~Covers(q, p)}
           Takes(U) == \A p \in Spans(s) : p \in U <=> \A q \in U : ~Covers(q, p)
<1>1. ASSUME NEW q \in Spans(s), NEW p \in Spans(s), Covers(q, p) PROVE q \in T
  <2> SUFFICES ASSUME NEW o \in Spans(s), Covers(o, q) PROVE FALSE
    OBVIOUS
  <2>1. s[q[1] + 2] = "-" /\ q[1] + 2 \in DOMAIN s
    BY <1>1, Covering
  <2>2. ~(q[1] + 2 \in DOMAIN s /\ s[q[1] + 2] = "-")
    BY Covering
  <2> QED
    BY <2>1, <2>2
<1>2. T \in SUBSET Spans(s) /\ Takes(T)
  BY <1>1
<1>3. ASSUME NEW U \in SUBSET Spans(s), Takes(U) PROVE U = T
  <2>1. \A p \in T : p \in U
    BY <1>3
  <2>2. \A p \in U : p \in T
    BY <1>1, <1>3, <2>1
  <2> QED
    BY <2>1, <2>2
<1>4. Finditer(s) = CHOOSE U \in SUBSET Spans(s) : Takes(U)
  BY DEF Finditer, Spans, Covers
<1> HIDE DEF T, Takes
<1>5. Finditer(s) = T
  BY <1>2, <1>3, <1>4
<1> QED
  BY <1>5 DEF T

-----------------------------------------------------------------------------
(* A window is the piece of a text behind w, as far as e.                    *)

(* What a token of the text is, but for the characters around it.            *)
Body(s, i, j) ==
    /\ j \in DOMAIN s
    /\ s[i] = "S" /\ i + 1 <= j /\ s[i + 1] = "M"
    /\ j + 1 - AfterPrefix(s, i) \in MinRun .. MaxRun
    /\ \A k \in AfterPrefix(s, i) .. j : s[k] \in Alnum

(* The piece shows a token, and shows none that covers it.                   *)
Shows(s, w, e, i, j) ==
    /\ Body(s, i, j)
    /\ i - 1 > w => s[i - 1] \notin Alnum
    /\ j < e => s[j + 1] \notin Alnum

ShowsFirst(s, w, e, i, j) ==
    /\ Shows(s, w, e, i, j)
    /\ \A k, l \in (w + 1) .. e : k < i /\ l >= i => ~Shows(s, w, e, k, l)

LEMMA PieceIs ==
    ASSUME NEW s \in Seq(Chars), NEW w \in Nat, NEW e \in Nat, w <= e, e <= Len(s)
    PROVE  LET v == SubSeq(s, w + 1, e) IN
           /\ v \in Seq(Chars) /\ Len(v) = e - w /\ DOMAIN v = 1 .. (e - w)
           /\ \A k \in 1 .. (e - w) : v[k] = s[k + w]
  OBVIOUS

LEMMA BodyLong ==
    ASSUME NEW s \in Seq(Chars), NEW i \in DOMAIN s, NEW j \in Int, Body(s, i, j)
    PROVE  /\ j >= i + 4 /\ j <= i + MaxRun + 2 /\ j \in DOMAIN s
           /\ AfterPrefix(s, i) \in {i + 2, i + 3}
<1>1. AfterPrefix(s, i) \in {i + 2, i + 3}
  BY DEF AfterPrefix
<1>2. i \in Int /\ MinRun \in Nat /\ MaxRun \in Nat /\ MinRun >= 3
  BY ScanConstants, ScanDistances
<1>3. /\ j \in DOMAIN s
      /\ j + 1 - AfterPrefix(s, i) >= MinRun /\ j + 1 - AfterPrefix(s, i) <= MaxRun
  BY <1>1, <1>2 DEF Body
<1> QED
  BY <1>1, <1>2, <1>3

(* The tokens of a piece.                                                    *)
LEMMA PieceToken ==
    ASSUME NEW s \in Seq(Chars), NEW w \in Nat, NEW e \in Nat, w <= e, e <= Len(s),
           NEW a \in 1 .. (e - w), NEW b \in 1 .. (e - w)
    PROVE  IsToken(SubSeq(s, w + 1, e), a, b) <=> Shows(s, w, e, a + w, b + w)
<1> DEFINE v == SubSeq(s, w + 1, e)
           i == a + w
           j == b + w
<1>1. /\ v \in Seq(Chars) /\ DOMAIN v = 1 .. (e - w)
      /\ \A k \in 1 .. (e - w) : v[k] = s[k + w]
  BY PieceIs
<1>2. /\ i \in DOMAIN s /\ j \in DOMAIN s /\ i \in Int /\ j \in Int
      /\ v[a] = s[i] /\ DOMAIN s = 1 .. Len(s)
  BY <1>1
<1>3. /\ MinRun \in Nat /\ MaxRun \in Nat /\ MinRun >= 3
  BY ScanConstants, ScanDistances
<1>4. a + 2 <= b => AfterPrefix(v, a) + w = AfterPrefix(s, i)
  <2> SUFFICES ASSUME a + 2 <= b PROVE AfterPrefix(v, a) + w = AfterPrefix(s, i)
    OBVIOUS
  <2>1. a + 2 \in DOMAIN v /\ v[a + 2] = s[i + 2] /\ i + 2 \in DOMAIN s
    BY <1>1, <1>2
  <2> QED
    BY <2>1 DEF AfterPrefix
<1>5. AfterPrefix(v, a) \in {a + 2, a + 3} /\ AfterPrefix(s, i) \in {i + 2, i + 3}
  BY DEF AfterPrefix
<1> HIDE DEF v
<1>6. IsAlnum(v, a - 1) <=> i - 1 > w /\ s[i - 1] \in Alnum
  <2>1. a - 1 \in DOMAIN v <=> i - 1 > w
    BY <1>1
  <2>2. a - 1 \in DOMAIN v => v[a - 1] = s[i - 1]
    BY <1>1
  <2> QED
    BY <2>1, <2>2 DEF IsAlnum
<1>7. IsAlnum(v, b + 1) <=> j < e /\ s[j + 1] \in Alnum
  <2>1. b + 1 \in DOMAIN v <=> j < e
    BY <1>1
  <2>2. b + 1 \in DOMAIN v => v[b + 1] = s[j + 1]
    BY <1>1
  <2> QED
    BY <2>1, <2>2 DEF IsAlnum
<1>8. ASSUME a + 2 <= b
      PROVE  /\ v[a + 1] = s[i + 1]
             /\ (\A k \in AfterPrefix(v, a) .. b : v[k] \in Alnum)
                   <=> \A k \in AfterPrefix(s, i) .. j : s[k] \in Alnum
  <2>1. v[a + 1] = s[i + 1]
    BY <1>1, <1>8
  <2>2. \A k \in AfterPrefix(v, a) .. b : k \in 1 .. (e - w) /\ k + w \in AfterPrefix(s, i) .. j
    BY <1>4, <1>5, <1>8
  <2>3. \A k \in AfterPrefix(s, i) .. j : k - w \in AfterPrefix(v, a) .. b
    BY <1>4, <1>5, <1>8
  <2>4. ASSUME \A k \in AfterPrefix(v, a) .. b : v[k] \in Alnum,
               NEW k \in AfterPrefix(s, i) .. j
        PROVE  s[k] \in Alnum
    <3>1. k \in Int /\ v[k - w] \in Alnum /\ v[k - w] = s[(k - w) + w]
      BY <2>2, <2>3, <2>4, <1>1, <1>5
    <3> QED
      BY <3>1
  <2>5. ASSUME \A k \in AfterPrefix(s, i) .. j : s[k] \in Alnum,
               NEW k \in AfterPrefix(v, a) .. b
        PROVE  v[k] \in Alnum
    BY <2>2, <2>5, <1>1
  <2> QED
    BY <2>1, <2>4, <2>5
<1>9. IsToken(v, a, b) => Shows(s, w, e, i, j)
  <2> SUFFICES ASSUME IsToken(v, a, b) PROVE Shows(s, w, e, i, j)
    OBVIOUS
  <2>1. b + 1 - AfterPrefix(v, a) \in MinRun .. MaxRun
    BY DEF IsToken
  <2>2. a + 2 <= b
    BY <1>3, <1>5, <2>1
  <2>3. j + 1 - AfterPrefix(s, i) \in MinRun .. MaxRun
    BY <1>4, <1>5, <2>1, <2>2
  <2>4. /\ v[a] = "S" /\ v[a + 1] = "M" /\ ~IsAlnum(v, a - 1) /\ ~IsAlnum(v, b + 1)
        /\ \A k \in AfterPrefix(v, a) .. b : v[k] \in Alnum
    BY DEF IsToken
  <2>5. i + 1 <= j
    BY <2>2
  <2> QED
    BY <1>2, <1>6, <1>7, <1>8, <2>2, <2>3, <2>4, <2>5 DEF Shows, Body
<1>10. Shows(s, w, e, i, j) => IsToken(v, a, b)
  <2> SUFFICES ASSUME Shows(s, w, e, i, j) PROVE IsToken(v, a, b)
    OBVIOUS
  <2>1. j >= i + 4 /\ Body(s, i, j)
    BY <1>2, BodyLong DEF Shows
  <2>2. a + 2 <= b
    BY <2>1
  <2>3. b + 1 - AfterPrefix(v, a) \in MinRun .. MaxRun
    BY <1>4, <1>5, <2>1, <2>2, SMTT(30) DEF Body
  <2>4. /\ v[a] = "S" /\ v[a + 1] = "M"
        /\ \A k \in AfterPrefix(v, a) .. b : v[k] \in Alnum
    BY <1>2, <1>8, <2>1, <2>2 DEF Body
  <2>5. ~IsAlnum(v, a - 1) /\ ~IsAlnum(v, b + 1)
    BY <1>6, <1>7 DEF Shows
  <2>6. b \in DOMAIN v /\ a + 1 <= b
    BY <1>1, <2>2
  <2> QED
    BY <2>3, <2>4, <2>5, <2>6 DEF IsToken
<1> QED
  BY <1>9, <1>10 DEF v

(* What finditer takes in a piece.                                           *)
LEMMA PieceFound ==
    ASSUME NEW s \in Seq(Chars), NEW w \in Nat, NEW e \in Nat, w <= e, e <= Len(s)
    PROVE  \A p : p \in Finditer(SubSeq(s, w + 1, e)) <=>
               \E a, b \in 1 .. (e - w) : p = <<a, b>> /\ ShowsFirst(s, w, e, a + w, b + w)
<1> DEFINE v == SubSeq(s, w + 1, e)
<1>1. v \in Seq(Chars) /\ DOMAIN v = 1 .. (e - w)
  BY PieceIs
<1>2. \A a, b \in 1 .. (e - w) : IsToken(v, a, b) <=> Shows(s, w, e, a + w, b + w)
  BY PieceToken
<1> HIDE DEF v
<1>3. \A p : p \in Spans(v) <=>
          \E a, b \in 1 .. (e - w) : p = <<a, b>> /\ Shows(s, w, e, a + w, b + w)
  BY <1>1, <1>2 DEF Spans
<1>4. \A p \in Spans(v) : p[1] \in 1 .. (e - w) /\ p[2] \in 1 .. (e - w)
                          /\ Shows(s, w, e, p[1] + w, p[2] + w)
  BY <1>3
<1>5. ASSUME NEW a \in 1 .. (e - w), NEW b \in 1 .. (e - w), Shows(s, w, e, a + w, b + w)
      PROVE  (\A q \in Spans(v) : ~Covers(q, <<a, b>>))
                <=> ShowsFirst(s, w, e, a + w, b + w)
  <2>1. ASSUME \A q \in Spans(v) : ~Covers(q, <<a, b>>),
               NEW k \in (w + 1) .. e, NEW l \in (w + 1) .. e, k < a + w, l >= a + w,
               Shows(s, w, e, k, l)
        PROVE  FALSE
    <3>1. /\ k - w \in 1 .. (e - w) /\ l - w \in 1 .. (e - w)
          /\ (k - w) + w = k /\ (l - w) + w = l /\ k - w < a /\ l - w >= a
      BY <2>1
    <3>2. <<k - w, l - w>> \in Spans(v)
      BY <1>3, <2>1, <3>1
    <3>3. Covers(<<k - w, l - w>>, <<a, b>>)
      BY <3>1 DEF Covers
    <3> QED
      BY <2>1, <3>2, <3>3
  <2>2. ASSUME ShowsFirst(s, w, e, a + w, b + w), NEW q \in Spans(v), Covers(q, <<a, b>>)
        PROVE  FALSE
    <3> DEFINE k == q[1] + w
               l == q[2] + w
    <3>1. k \in (w + 1) .. e /\ l \in (w + 1) .. e /\ k < a + w /\ l >= a + w
      BY <1>4, <2>2, SMTT(30) DEF Covers
    <3>2. Shows(s, w, e, k, l)
      BY <1>4
    <3> HIDE DEF k, l
    <3> QED
      BY <2>2, <3>1, <3>2 DEF ShowsFirst
  <2> QED
    BY <1>5, <2>1, <2>2 DEF ShowsFirst
<1>6. Finditer(v) = {p \in Spans(v) : \A q \in Spans(v) : ~Covers(q, p)}
  BY <1>1, Found
<1>7. ASSUME NEW p, p \in Finditer(v)
      PROVE  \E a, b \in 1 .. (e - w) : p = <<a, b>> /\ ShowsFirst(s, w, e, a + w, b + w)
  <2>1. PICK a \in 1 .. (e - w), b \in 1 .. (e - w) :
            p = <<a, b>> /\ Shows(s, w, e, a + w, b + w)
    BY <1>3, <1>6, <1>7
  <2>2. \A q \in Spans(v) : ~Covers(q, <<a, b>>)
    BY <1>6, <1>7, <2>1
  <2> QED
    BY <1>5, <2>1, <2>2
<1>8. ASSUME NEW a \in 1 .. (e - w), NEW b \in 1 .. (e - w),
             ShowsFirst(s, w, e, a + w, b + w)
      PROVE  <<a, b>> \in Finditer(v)
  <2>1. Shows(s, w, e, a + w, b + w)
    BY <1>8 DEF ShowsFirst
  <2>2. <<a, b>> \in Spans(v)
    BY <1>3, <2>1
  <2> QED
    BY <1>5, <1>6, <1>8, <2>1, <2>2
<1> QED
  BY <1>7, <1>8 DEF v

(* A piece of a piece is one of the text.                                    *)
LEMMA PieceOfPiece ==
    ASSUME NEW s \in Seq(Chars), NEW w \in Nat, NEW e \in Nat, w <= e, e <= Len(s),
           NEW a \in 1 .. (e - w), NEW b \in 1 .. (e - w)
    PROVE  SubSeq(SubSeq(s, w + 1, e), a, b) = SubSeq(s, a + w, b + w)
<1> DEFINE v == SubSeq(s, w + 1, e)
<1>1. /\ v \in Seq(Chars) /\ Len(v) = e - w
      /\ \A k \in 1 .. (e - w) : v[k] = s[k + w]
  BY PieceIs
<1> DEFINE x == SubSeq(v, a, b)
           y == SubSeq(s, a + w, b + w)
           n == IF a <= b THEN b - a + 1 ELSE 0
<1>2. a + w \in 1 .. Len(s) /\ b + w \in 1 .. Len(s)
  OBVIOUS
<1> HIDE DEF v
<1>3. x \in Seq(Chars) /\ Len(x) = n /\ \A k \in 1 .. (b - a + 1) : x[k] = v[a + k - 1]
  <2>1. a \in Int /\ b \in Int /\ \A k \in a .. b : v[k] \in Chars
    BY <1>1
  <2>2. /\ x \in Seq(Chars)
        /\ Len(x) = IF a <= b THEN b - a + 1 ELSE 0
        /\ \A k \in 1 .. (b - a + 1) : x[k] = v[a + k - 1]
    BY <2>1, SubSeqProperties
  <2> QED
    BY <2>2, Zenon
<1>4. y \in Seq(Chars) /\ Len(y) = n
      /\ \A k \in 1 .. (b - a + 1) : y[k] = s[(a + w) + k - 1]
  <2>1. (b + w) - (a + w) + 1 = b - a + 1 /\ (a + w <= b + w <=> a <= b)
    OBVIOUS
  <2>2. /\ y \in Seq(Chars)
        /\ Len(y) = IF a + w <= b + w THEN (b + w) - (a + w) + 1 ELSE 0
        /\ \A k \in 1 .. ((b + w) - (a + w) + 1) : y[k] = s[(a + w) + k - 1]
    BY <1>2, SubSeqProperties
  <2> HIDE DEF y
  <2> QED
    BY <2>1, <2>2
<1>5. \A k \in 1 .. (b - a + 1) : v[a + k - 1] = s[(a + w) + k - 1]
  <2> TAKE k \in 1 .. (b - a + 1)
  <2>1. a + k - 1 \in 1 .. (e - w) /\ (a + k - 1) + w = (a + w) + k - 1
    OBVIOUS
  <2> QED
    BY <1>1, <2>1
<1>6. n \in Nat /\ \A k \in 1 .. n : k \in 1 .. (b - a + 1)
  OBVIOUS
<1> HIDE DEF x, y, n
<1>7. \A k \in 1 .. n : x[k] = y[k]
  BY <1>3, <1>4, <1>5, <1>6
<1>8. x = y
  BY <1>3, <1>4, <1>7, SeqEqual
<1> QED
  BY <1>8 DEF v, x, y

(* A match is the place and the text of a token of the whole text.           *)
LEMMA PieceMatches ==
    ASSUME NEW s \in Seq(Chars), NEW w \in Nat, NEW e \in Nat, w <= e, e <= Len(s)
    PROVE  \A f : f \in Matches(SubSeq(s, w + 1, e), w) <=>
               \E i, j \in (w + 1) .. e :
                   f = <<i - 1, SubSeq(s, i, j)>> /\ ShowsFirst(s, w, e, i, j)
<1> DEFINE v == SubSeq(s, w + 1, e)
<1>1. \A p : p \in Finditer(v) <=>
          \E a, b \in 1 .. (e - w) : p = <<a, b>> /\ ShowsFirst(s, w, e, a + w, b + w)
  BY PieceFound
<1>2. \A a, b \in 1 .. (e - w) : SubSeq(v, a, b) = SubSeq(s, a + w, b + w)
  BY PieceOfPiece
<1>3. ASSUME NEW f, f \in Matches(v, w)
      PROVE  \E i, j \in (w + 1) .. e :
                 f = <<i - 1, SubSeq(s, i, j)>> /\ ShowsFirst(s, w, e, i, j)
  <2> HIDE DEF v
  <2>1. PICK p \in Finditer(v) : f = <<w + p[1] - 1, SubSeq(v, p[1], p[2])>>
    BY <1>3 DEF Matches
  <2>2. PICK a \in 1 .. (e - w), b \in 1 .. (e - w) :
            p = <<a, b>> /\ ShowsFirst(s, w, e, a + w, b + w)
    BY <1>1
  <2>3. f = <<(a + w) - 1, SubSeq(s, a + w, b + w)>>
    <3>1. SubSeq(v, p[1], p[2]) = SubSeq(s, a + w, b + w)
      BY <1>2, <2>2
    <3>2. w + p[1] - 1 = (a + w) - 1
      BY <2>2
    <3> QED
      BY <2>1, <3>1, <3>2
  <2>4. a + w \in (w + 1) .. e /\ b + w \in (w + 1) .. e
    OBVIOUS
  <2> QED
    BY <2>2, <2>3, <2>4
<1>4. ASSUME NEW i \in (w + 1) .. e, NEW j \in (w + 1) .. e, ShowsFirst(s, w, e, i, j)
      PROVE  <<i - 1, SubSeq(s, i, j)>> \in Matches(v, w)
  <2> DEFINE a == i - w
             b == j - w
  <2>1. a \in 1 .. (e - w) /\ b \in 1 .. (e - w) /\ a + w = i /\ b + w = j /\ w + a - 1 = i - 1
    OBVIOUS
  <2> HIDE DEF a, b, v
  <2>2. <<a, b>> \in Finditer(v)
    BY <1>1, <1>4, <2>1
  <2>3. SubSeq(v, a, b) = SubSeq(s, i, j)
    BY <1>2, <2>1
  <2>4. <<w + <<a, b>>[1] - 1, SubSeq(v, <<a, b>>[1], <<a, b>>[2])>> \in Matches(v, w)
    BY <2>2, Zenon DEF Matches
  <2>5. <<a, b>>[1] = a /\ <<a, b>>[2] = b
    OBVIOUS
  <2>6. <<w + a - 1, SubSeq(v, a, b)>> \in Matches(v, w)
    BY <2>4, <2>5, Zenon
  <2> QED
    BY <2>1, <2>3, <2>6, Zenon
<1> QED
  BY <1>3, <1>4 DEF v

(* A token that a shown one covers ends with it, and is a run at most.       *)
LEMMA ShownTogether ==
    ASSUME NEW s \in Seq(Chars), NEW w \in Nat, NEW e \in Nat, w <= e, e <= Len(s),
           NEW i \in (w + 1) .. e, NEW j \in (w + 1) .. e,
           NEW k \in (w + 1) .. e, NEW l \in (w + 1) .. e,
           Shows(s, w, e, i, j), Shows(s, w, e, k, l), k < i, l >= i
    PROVE  l = j /\ i = k + 3 /\ j - i + 1 <= MaxRun
<1> DEFINE v == SubSeq(s, w + 1, e)
           p == <<i - w, j - w>>
           q == <<k - w, l - w>>
<1>1. v \in Seq(Chars) /\ DOMAIN v = 1 .. (e - w)
  BY PieceIs
<1>2. /\ i - w \in 1 .. (e - w) /\ j - w \in 1 .. (e - w)
      /\ k - w \in 1 .. (e - w) /\ l - w \in 1 .. (e - w)
      /\ (i - w) + w = i /\ (j - w) + w = j /\ (k - w) + w = k /\ (l - w) + w = l
  OBVIOUS
<1>3. IsToken(v, i - w, j - w) /\ IsToken(v, k - w, l - w)
  <2> HIDE DEF v
  <2>1. \A a, b \in 1 .. (e - w) : IsToken(v, a, b) <=> Shows(s, w, e, a + w, b + w)
    BY PieceToken DEF v
  <2> QED
    BY <1>2, <2>1
<1> HIDE DEF v
<1>4. p \in Spans(v) /\ q \in Spans(v)
  BY <1>1, <1>2, <1>3 DEF Spans
<1>5. Covers(q, p)
  BY DEF Covers
<1>6. p[1] = q[1] + 3 /\ p[2] = q[2] /\ p[2] - p[1] + 1 <= MaxRun
  BY <1>1, <1>4, <1>5, Covering
<1>7. MaxRun \in Nat
  BY ScanConstants
<1> QED
  BY <1>6, <1>7

(* What a prefix of the text shows, behind the end of a shorter one of which *)
(* all was found, the window that ends with it shows as well, if it begins   *)
(* a token and three characters before that end.                             *)
LEMMA WindowShows ==
    ASSUME NEW s \in Seq(Chars), NEW w \in Nat, NEW hi \in Nat, NEW e \in Nat,
           w <= e, hi <= e, e <= Len(s),
           w = 0 \/ w + MaxRun + 3 <= hi,
           NEW i \in 1 .. e, NEW j \in 1 .. e, ShowsFirst(s, 0, e, i, j)
    PROVE  \/ i <= hi /\ j <= hi /\ ShowsFirst(s, 0, hi, i, j)
           \/ i > w /\ j > w /\ ShowsFirst(s, w, e, i, j)
<1>1. /\ i \in DOMAIN s /\ j \in DOMAIN s /\ DOMAIN s = 1 .. Len(s) /\ Len(s) \in Nat
      /\ MaxRun \in Nat /\ i \in Int /\ j \in Int
  BY ScanConstants
<1>2. Shows(s, 0, e, i, j) /\ Body(s, i, j)
  BY DEF ShowsFirst, Shows
<1>3. j >= i + 4 /\ j <= i + MaxRun + 2
  <2> USE <1>1, <1>2
  <2> QED
    BY BodyLong
<1>4. \A k, l \in 1 .. e : k < i /\ l >= i => ~Shows(s, 0, e, k, l)
  BY DEF ShowsFirst
<1>5. /\ i - 1 > 0 => s[i - 1] \notin Alnum
      /\ j < e => s[j + 1] \notin Alnum
  BY <1>2 DEF Shows
<1>6. CASE j <= hi
  <2>1. i <= hi
    BY <1>1, <1>3, <1>6
  <2>2. Shows(s, 0, hi, i, j)
    BY <1>2, <1>5 DEF Shows
  <2>3. ASSUME NEW k \in 1 .. hi, NEW l \in 1 .. hi, k < i, l >= i, Shows(s, 0, hi, k, l)
        PROVE  FALSE
    <3>1. l = j
      BY <1>1, <1>2, <2>1, <2>2, <2>3, <1>6, ShownTogether
    <3>2. Shows(s, 0, e, k, l)
      BY <1>5, <2>3, <3>1 DEF Shows
    <3> QED
      BY <1>4, <2>3, <3>2
  <2> QED
    BY <1>6, <2>1, <2>2, <2>3 DEF ShowsFirst
<1>7. CASE j > hi /\ w # 0
  <2>1. i > w + 1
    BY <1>1, <1>3, <1>7
  <2>2. Shows(s, w, e, i, j)
    BY <1>1, <1>2, <1>5, <2>1 DEF Shows
  <2>3. ASSUME NEW k \in (w + 1) .. e, NEW l \in (w + 1) .. e, k < i, l >= i,
               Shows(s, w, e, k, l)
        PROVE  FALSE
    <3>1. i \in (w + 1) .. e /\ j \in (w + 1) .. e
      BY <1>1, <1>3, <2>1
    <3>2. l = j /\ i = k + 3 /\ j - i + 1 <= MaxRun
      BY <2>2, <2>3, <3>1, ShownTogether
    <3>3. k - 1 > w
      BY <1>1, <1>7, <3>2
    <3>4. Shows(s, 0, e, k, l)
      BY <2>3, <3>3 DEF Shows
    <3> QED
      BY <1>4, <2>3, <3>4
  <2> QED
    BY <1>1, <2>1, <1>3, <2>2, <2>3 DEF ShowsFirst
<1>8. CASE w = 0
  BY <1>1, <1>8
<1> QED
  BY <1>1, <1>6, <1>7, <1>8
(* Two neighbouring pieces are one.                                          *)
LEMMA PiecesJoin ==
    ASSUME NEW s \in Seq(Chars), NEW w \in Nat, NEW o \in Nat, NEW e \in Nat,
           w <= o, o <= e, e <= Len(s)
    PROVE  SubSeq(s, w + 1, o) \o SubSeq(s, o + 1, e) = SubSeq(s, w + 1, e)
<1> DEFINE x == SubSeq(s, w + 1, o)
           y == SubSeq(s, o + 1, e)
           z == SubSeq(s, w + 1, e)
<1>1. /\ x \in Seq(Chars) /\ Len(x) = o - w
      /\ \A k \in 1 .. (o - w) : x[k] = s[k + w]
  BY PieceIs
<1>2. /\ y \in Seq(Chars) /\ Len(y) = e - o
      /\ \A k \in 1 .. (e - o) : y[k] = s[k + o]
  BY PieceIs
<1>3. /\ z \in Seq(Chars) /\ Len(z) = e - w
      /\ \A k \in 1 .. (e - w) : z[k] = s[k + w]
  BY PieceIs
<1> HIDE DEF x, y, z
<1>4. /\ x \o y \in Seq(Chars) /\ Len(x \o y) = e - w
      /\ \A k \in 1 .. (e - w) : (x \o y)[k] = IF k <= o - w THEN x[k] ELSE y[k - (o - w)]
  <2>1. /\ x \o y \in Seq(Chars) /\ Len(x \o y) = Len(x) + Len(y)
        /\ \A k \in 1 .. Len(x) + Len(y) :
               (x \o y)[k] = IF k <= Len(x) THEN x[k] ELSE y[k - Len(x)]
    BY <1>1, <1>2, ConcatProperties
  <2>2. Len(x) + Len(y) = e - w
    BY <1>1, <1>2
  <2> QED
    BY <1>1, <2>1, <2>2
<1>5. ASSUME NEW k \in 1 .. (e - w) PROVE (x \o y)[k] = z[k]
  <2>1. CASE k <= o - w
    BY <1>1, <1>3, <1>4, <2>1, SMTT(30)
  <2>2. CASE ~(k <= o - w)
    <3>1. (x \o y)[k] = y[k - (o - w)] /\ k - (o - w) \in 1 .. (e - o)
      BY <1>4, <2>2
    <3>2. (k - (o - w)) + o = k + w
      OBVIOUS
    <3> QED
      BY <1>2, <1>3, <3>1, <3>2
  <2> QED
    BY <2>1, <2>2
<1>6. x \o y = z
  BY <1>3, <1>4, <1>5, SeqEqual
<1> QED
  BY <1>6 DEF x, y, z

(* What the next window begins with is the end of this one.                  *)
LEMMA LastOfPiece ==
    ASSUME NEW s \in Seq(Chars), NEW w \in Nat, NEW e \in Nat, w < e, e <= Len(s),
           NEW n \in Nat, n > 0
    PROVE  LET x == LastOf(SubSeq(s, w + 1, e), n) IN
           /\ x \in Seq(Chars) /\ Len(x) \in Nat /\ Len(x) <= n
           /\ e - Len(x) = w \/ e - Len(x) = e - n
           /\ e - Len(x) >= w
           /\ x = SubSeq(s, (e - Len(x)) + 1, e)
<1> DEFINE v == SubSeq(s, w + 1, e)
           x == LastOf(v, n)
<1>1. v \in Seq(Chars) /\ Len(v) = e - w
  BY PieceIs
<1>2. CASE e - w <= n
  <2>1. x = v
    BY <1>1, <1>2 DEF LastOf
  <2>2. x \in Seq(Chars) /\ Len(x) = e - w /\ Len(x) \in Nat
    <3> HIDE DEF v
    <3>1. e - w \in Nat
      OBVIOUS
    <3> QED
      BY <1>1, <2>1, <3>1
  <2> HIDE DEF x
  <2>3. e - Len(x) = w /\ (e - Len(x)) + 1 = w + 1 /\ Len(x) <= n
    BY <1>2, <2>2
  <2>4. x = SubSeq(s, (e - Len(x)) + 1, e)
    BY <2>1, <2>3
  <2> QED
    BY <2>2, <2>3, <2>4 DEF x
<1>3. CASE e - w > n
  <2> DEFINE a == e - w - n + 1
             u == e - n
  <2>1. x = SubSeq(v, a, e - w)
    BY <1>1, <1>3 DEF LastOf
  <2>2. a \in 1 .. ((e - w) + 1) /\ a + w = u + 1 /\ (e - w) + w = e /\ u \in Nat /\ u <= e /\ u > w
    BY <1>3
  <2>3. a \in 1 .. (e - w) /\ e - w \in 1 .. (e - w)
    BY <1>3
  <2>4. x = SubSeq(s, a + w, (e - w) + w)
    <3>1. \A c, d \in 1 .. (e - w) : SubSeq(v, c, d) = SubSeq(s, c + w, d + w)
      BY PieceOfPiece
    <3> HIDE DEF v, a
    <3> QED
      BY <2>1, <2>3, <3>1
  <2>5. x = SubSeq(s, u + 1, e)
    BY <2>2, <2>4
  <2> HIDE DEF x, a
  <2>6. x \in Seq(Chars) /\ Len(x) = e - u
    BY <2>2, <2>5, PieceIs
  <2>7. Len(x) = n /\ Len(x) \in Nat /\ e - Len(x) = u
    BY <2>6
  <2>8. (e - Len(x)) + 1 = u + 1
    BY <2>7
  <2>9. x = SubSeq(s, (e - Len(x)) + 1, e)
    BY <2>5, <2>8
  <2> QED
    BY <2>2, <2>6, <2>7, <2>9 DEF x
<1> QED
  BY <1>2, <1>3

(* A match stands where it was found, before the end of the piece.           *)
LEMMA MatchesStand ==
    ASSUME NEW s \in Seq(Chars), NEW w \in Nat, NEW e \in Nat, w <= e, e <= Len(s),
           NEW n \in Nat, e <= n
    PROVE  \A f \in Matches(SubSeq(s, w + 1, e), w) :
               /\ f[1] \in Nat /\ f[2] \in Seq(Chars)
               /\ f[1] + Len(f[2]) <= n
               /\ SubSeq(s, f[1] + 1, f[1] + Len(f[2])) = f[2]
<1> TAKE f \in Matches(SubSeq(s, w + 1, e), w)
<1>1. PICK i \in (w + 1) .. e, j \in (w + 1) .. e :
          f = <<i - 1, SubSeq(s, i, j)>> /\ ShowsFirst(s, w, e, i, j)
  BY PieceMatches
<1>2. i \in DOMAIN s /\ j \in Int /\ i \in Int /\ j <= e /\ j \in DOMAIN s
  OBVIOUS
<1>3. j >= i + 4
  <2>1. Body(s, i, j)
    BY <1>1 DEF ShowsFirst, Shows
  <2> QED
    BY <1>2, <2>1, BodyLong
<1> DEFINE t == SubSeq(s, i, j)
<1>4. t \in Seq(Chars) /\ Len(t) = j - i + 1
  BY <1>2, <1>3, SubSeqProperties
<1>5. f[1] = i - 1 /\ f[2] = t
  BY <1>1
<1>6. /\ i - 1 \in Nat /\ (i - 1) + 1 = i /\ (i - 1) + (j - i + 1) = j /\ j <= n
  BY <1>2
<1>7. SubSeq(s, (i - 1) + 1, (i - 1) + Len(t)) = t
  BY <1>4, <1>6
<1> HIDE DEF t
<1> QED
  BY <1>4, <1>5, <1>6, <1>7

(* All matches of a prefix are those of a shorter one and of the window.     *)
LEMMA WindowFinds ==
    ASSUME NEW s \in Seq(Chars), NEW w \in Nat, NEW hi \in Nat, NEW e \in Nat,
           w <= e, hi <= e, e <= Len(s),
           w = 0 \/ w + MaxRun + 3 <= hi
    PROVE  Matches(SubSeq(s, 1, e), 0)
               \subseteq Matches(SubSeq(s, 1, hi), 0) \cup Matches(SubSeq(s, w + 1, e), w)
<1> SUFFICES ASSUME NEW f, f \in Matches(SubSeq(s, 0 + 1, e), 0)
             PROVE  \/ f \in Matches(SubSeq(s, 0 + 1, hi), 0)
                    \/ f \in Matches(SubSeq(s, w + 1, e), w)
  OBVIOUS
<1>1. PICK i \in (0 + 1) .. e, j \in (0 + 1) .. e :
          f = <<i - 1, SubSeq(s, i, j)>> /\ ShowsFirst(s, 0, e, i, j)
  BY PieceMatches
<1>2. i \in 1 .. e /\ j \in 1 .. e
  OBVIOUS
<1>3. \/ i <= hi /\ j <= hi /\ ShowsFirst(s, 0, hi, i, j)
      \/ i > w /\ j > w /\ ShowsFirst(s, w, e, i, j)
  BY <1>1, <1>2, WindowShows
<1>4. CASE i <= hi /\ j <= hi /\ ShowsFirst(s, 0, hi, i, j)
  <2>1. i \in (0 + 1) .. hi /\ j \in (0 + 1) .. hi /\ hi <= Len(s)
    BY <1>2, <1>4
  <2> QED
    BY <1>1, <1>4, <2>1, PieceMatches
<1>5. CASE i > w /\ j > w /\ ShowsFirst(s, w, e, i, j)
  <2>1. i \in (w + 1) .. e /\ j \in (w + 1) .. e
    BY <1>2, <1>5
  <2> QED
    BY <1>1, <1>5, <2>1, PieceMatches
<1> QED
  BY <1>3, <1>4, <1>5

-----------------------------------------------------------------------------
(* The inductive invariant. All tokens of the text as far as some hi are     *)
(* found; hi is never before what the next window continues, and that begins *)
(* either with the text or a whole token before hi. When the end of the file *)
(* is read there is nothing behind hi.                                       *)

Begin == offset - Len(overlap)

Joined == Begin \in Nat /\ overlap = SubSeq(text, Begin + 1, offset)

SearchedTo(hi) ==
    /\ Matches(SubSeq(text, 1, hi), 0) \subseteq found
    /\ Begin = 0 \/ Begin + MaxRun + 3 <= hi
    /\ step = "indexed" => hi = offset

Searched == \E hi \in offset .. size : SearchedTo(hi)

ScanInv == ScanTypeOK /\ Joined /\ Searched /\ FoundWhereItStands

LEMMA ScanNumbers ==
    /\ Chunk \in Nat /\ Overlap \in Nat /\ Rewind \in Nat /\ MinRun \in Nat /\ MaxRun \in Nat
    /\ MinRun >= 3 /\ Overlap >= MaxRun + 3 /\ Rewind >= MaxRun + 3
  BY ScanConstants, ScanDistances

LEMMA NothingFoundYet ==
    ASSUME NEW s \in Seq(Chars)
    PROVE  Matches(SubSeq(s, 1, 0), 0) = {} /\ SubSeq(s, 1, 0) = << >>
<1>1. \A f : f \in Matches(SubSeq(s, 0 + 1, 0), 0) =>
          \E i, j \in (0 + 1) .. 0 :
              f = <<i - 1, SubSeq(s, i, j)>> /\ ShowsFirst(s, 0, 0, i, j)
  <2>1. 0 \in Nat /\ 0 <= Len(s)
    OBVIOUS
  <2> QED
    BY <2>1, PieceMatches
<1>2. SubSeq(s, 1, 0) = << >>
  BY SubSeqEmpty
<1> QED
  BY <1>1, <1>2

LEMMA ScanStarts == ScanInit \/ ScanIdle => ScanInv
<1> SUFFICES ASSUME ScanInit \/ ScanIdle PROVE ScanInv
  OBVIOUS
<1>1. /\ text \in Seq(Chars) /\ Len(text) \in Nat
      /\ offset = 0 /\ overlap = << >> /\ Len(overlap) = 0 /\ found = {}
      /\ size \in 0 .. Len(text) /\ step \in {"idle", "read"}
  <2>1. text \in Seq(Chars)
    <3>1. CASE ScanInit
      BY <3>1, ScanConstants DEF ScanInit
    <3>2. CASE ScanIdle
      BY <3>2, EmptySeq DEF ScanIdle
    <3> QED
      BY <3>1, <3>2
  <2>2. Len(text) \in Nat
    BY <2>1
  <2>3. /\ offset = 0 /\ overlap = << >> /\ found = {} /\ step \in {"idle", "read"}
    BY DEF ScanInit, ScanIdle
  <2>4. Len(overlap) = 0
    BY <2>3
  <2>5. size \in 0 .. Len(text)
    <3>1. CASE ScanInit
      BY <3>1 DEF ScanInit
    <3>2. CASE ScanIdle
      BY <2>2, <3>2 DEF ScanIdle
    <3> QED
      BY <3>1, <3>2
  <2> QED
    BY <2>1, <2>2, <2>3, <2>4, <2>5
<1>2. ScanTypeOK
  BY <1>1, ScanNumbers DEF ScanTypeOK
<1>3. Begin = 0
  <2>1. offset = 0 /\ Len(overlap) = 0
    BY <1>1
  <2> QED
    BY <2>1 DEF Begin
<1>4. Matches(SubSeq(text, 1, 0), 0) = {} /\ SubSeq(text, 1, 0) = << >>
  BY <1>1, NothingFoundYet
<1>5. Joined
  BY <1>1, <1>3, <1>4 DEF Joined
<1>6. SearchedTo(0) /\ 0 \in offset .. size
  BY <1>1, <1>3, <1>4 DEF SearchedTo
<1>7. FoundWhereItStands
  BY <1>1 DEF FoundWhereItStands
<1> QED
  BY <1>2, <1>5, <1>6, <1>7 DEF ScanInv, Searched

(* A read of n bytes.                                                        *)
LEMMA ReadKeeps == ScanInv /\ Read => ScanInv'
<1> SUFFICES ASSUME ScanInv, Read PROVE ScanInv'
  OBVIOUS
<1>1. /\ step = "read" /\ step' = step /\ text' = text /\ size' = size
  BY DEF Read
<1> DEFINE w == Begin
           piece(e) == SubSeq(text, w + 1, e)
<1>2. PICK n \in 1 .. Chunk :
          /\ offset + n <= size /\ offset' = offset + n
          /\ found' = found \cup Matches(overlap \o SubSeq(text, offset + 1, offset + n),
                                         offset - Len(overlap))
          /\ overlap' = LastOf(overlap \o SubSeq(text, offset + 1, offset + n), Overlap)
  BY DEF Read
<1>3. /\ text \in Seq(Chars) /\ Len(text) \in Nat /\ size \in 0 .. Len(text)
      /\ offset \in 0 .. size /\ overlap \in Seq(Chars) /\ Len(overlap) \in Nat
      /\ \A f \in found : f[1] \in Nat /\ f[2] \in Seq(Chars)
  BY DEF ScanInv, ScanTypeOK
<1>4. w \in Nat /\ w <= offset /\ overlap = piece(offset) /\ offset - Len(overlap) = w
  BY <1>3 DEF ScanInv, Joined, Begin
<1>5. PICK e \in Nat : e = offset + n
  BY <1>3
<1>6. e = offset + n /\ offset < e /\ e <= Len(text) /\ e <= size /\ w < e /\ offset' = e
  BY <1>5, <1>2, <1>3, <1>4
<1> HIDE DEF w
<1>7. overlap \o SubSeq(text, offset + 1, e) = piece(e)
  BY <1>3, <1>4, <1>6, PiecesJoin
<1>8. found' = found \cup Matches(piece(e), w) /\ overlap' = LastOf(piece(e), Overlap)
  <2>1. overlap \o SubSeq(text, offset + 1, offset + n) = piece(e)
    BY <1>6, <1>7
  <2> QED
    BY <1>2, <1>4, <2>1, Zenon
<1> DEFINE x == overlap'
<1>9. /\ x \in Seq(Chars) /\ Len(x) \in Nat /\ Len(x) <= Overlap
      /\ e - Len(x) = w \/ e - Len(x) = e - Overlap
      /\ e - Len(x) >= w
      /\ x = SubSeq(text, (e - Len(x)) + 1, e)
  <2>1. Overlap \in Nat /\ Overlap > 0
    BY ScanNumbers
  <2>2. LET y == LastOf(piece(e), Overlap) IN
           /\ y \in Seq(Chars) /\ Len(y) \in Nat /\ Len(y) <= Overlap
           /\ e - Len(y) = w \/ e - Len(y) = e - Overlap
           /\ e - Len(y) >= w
           /\ y = SubSeq(text, (e - Len(y)) + 1, e)
    BY <1>3, <1>4, <1>6, <2>1, LastOfPiece
  <2> QED
    BY <1>8, <2>2, Zenon
<1>10. Begin' = e - Len(x)
  BY <1>6 DEF Begin
<1>11. \A f \in Matches(piece(e), w) :
           /\ f[1] \in Nat /\ f[2] \in Seq(Chars)
           /\ f[1] + Len(f[2]) <= size
           /\ SubSeq(text, f[1] + 1, f[1] + Len(f[2])) = f[2]
  BY <1>3, <1>4, <1>6, MatchesStand
<1>12. ScanTypeOK'
  BY <1>1, <1>3, <1>6, <1>8, <1>9, <1>11 DEF ScanTypeOK
<1>13. Joined'
  <2>1. (e - Len(x)) \in Nat
    <3>1. w \in Nat /\ e \in Nat
      BY <1>4, <1>5
    <3> HIDE DEF x
    <3>2. Len(x) \in Nat /\ e - Len(x) >= w
      BY <1>9
    <3> QED
      BY <3>1, <3>2
  <2> QED
    BY <1>1, <1>6, <1>9, <1>10, <2>1 DEF Joined
<1>14. Searched'
  <2>1. PICK hi \in offset .. size : SearchedTo(hi)
    BY DEF ScanInv, Searched
  <2>2. /\ Matches(SubSeq(text, 1, hi), 0) \subseteq found
        /\ w = 0 \/ w + MaxRun + 3 <= hi
        /\ hi \in Nat /\ hi <= size /\ hi <= Len(text)
    BY <1>3, <2>1 DEF SearchedTo, w
  <2> DEFINE w1 == e - Len(x)
  <2>3. w1 = 0 \/ w1 + MaxRun + 3 <= hi \/ w1 + MaxRun + 3 <= e
    <3>1. w1 = w \/ w1 = e - Overlap
      BY <1>9
    <3> HIDE DEF w1
    <3> QED
      BY <3>1, <1>4, <1>6, <2>2, ScanNumbers
  <2>4. w1 \in Int
    BY <1>9, <1>5
  <2> HIDE DEF w1
  <2>5. CASE e <= hi
    <3>1. w1 = 0 \/ w1 + MaxRun + 3 <= hi
      BY <2>2, <2>3, <2>5, <2>4, <1>5, ScanNumbers
    <3>2. SearchedTo(hi)'
      <4>1. (Matches(SubSeq(text, 1, hi), 0) \subseteq found)'
        BY <1>1, <1>8, <2>2
      <4>2. (Begin = 0 \/ Begin + MaxRun + 3 <= hi)'
        BY <1>10, <3>1 DEF w1
      <4> QED
        BY <1>1, <4>1, <4>2 DEF SearchedTo
    <3>3. hi \in e .. size
      BY <1>6, <2>1, <2>2, <2>5
    <3> QED
      BY <1>1, <1>6, <3>2, <3>3 DEF Searched
  <2>6. CASE hi < e
    <3>1. w1 = 0 \/ w1 + MaxRun + 3 <= e
      BY <2>2, <2>3, <2>6, <2>4, <1>5, ScanNumbers
    <3>2. Matches(SubSeq(text, 1, e), 0)
              \subseteq Matches(SubSeq(text, 1, hi), 0) \cup Matches(piece(e), w)
      BY <1>3, <1>4, <1>6, <2>2, <2>6, WindowFinds
    <3>3. SearchedTo(e)'
      <4>1. (Matches(SubSeq(text, 1, e), 0) \subseteq found)'
        BY <1>1, <1>8, <2>2, <3>2
      <4>2. (Begin = 0 \/ Begin + MaxRun + 3 <= e)'
        BY <1>10, <3>1 DEF w1
      <4> QED
        BY <1>1, <4>1, <4>2 DEF SearchedTo
    <3>4. e \in e .. size
      BY <1>3, <1>6
    <3> QED
      BY <1>1, <1>6, <3>3, <3>4 DEF Searched
  <2> QED
    BY <1>6, <2>2, <2>5, <2>6
<1>15. FoundWhereItStands'
  BY <1>1, <1>8, <1>11 DEF ScanInv, FoundWhereItStands
<1> QED
  BY <1>12, <1>13, <1>14, <1>15 DEF ScanInv

LEMMA EndKeeps == ScanInv /\ EndOfFile => ScanInv'
<1> SUFFICES ASSUME ScanInv, EndOfFile PROVE ScanInv'
  OBVIOUS
<1>1. /\ step' = "indexed" /\ offset = size
      /\ text' = text /\ size' = size /\ offset' = offset /\ overlap' = overlap /\ found' = found
  BY DEF EndOfFile
<1>2. ScanTypeOK' /\ Joined' /\ FoundWhereItStands'
  BY <1>1 DEF ScanInv, ScanTypeOK, Joined, Begin, FoundWhereItStands
<1>3. Searched'
  <2>1. PICK hi \in offset .. size : SearchedTo(hi)
    BY DEF ScanInv, Searched
  <2>2. hi = offset
    BY <1>1, <2>1 DEF ScanInv, ScanTypeOK
  <2>3. SearchedTo(hi)'
    BY <1>1, <2>1, <2>2 DEF SearchedTo, Begin
  <2>4. hi \in (offset .. size)'
    BY <1>1, <2>1
  <2> QED
    BY <2>3, <2>4 DEF Searched
<1> QED
  BY <1>2, <1>3 DEF ScanInv

LEMMA GrowKeeps == ScanInv /\ Grow => ScanInv'
<1> SUFFICES ASSUME ScanInv, Grow PROVE ScanInv'
  OBVIOUS
<1>1. /\ step' = step /\ text' = text /\ offset' = offset /\ overlap' = overlap /\ found' = found
      /\ size' \in size + 1 .. Len(text)
  BY DEF Grow
<1>2. /\ text \in Seq(Chars) /\ Len(text) \in Nat
      /\ size \in 0 .. Len(text) /\ offset \in 0 .. size
  BY DEF ScanInv, ScanTypeOK
<1>3. size' \in 0 .. Len(text) /\ offset \in 0 .. size' /\ size <= size' /\ size' \in Int
  BY <1>1, <1>2
<1>4. ScanTypeOK' /\ Joined'
  BY <1>1, <1>3 DEF ScanInv, ScanTypeOK, Joined, Begin
<1>5. FoundWhereItStands'
  <2>1. ASSUME NEW f \in found PROVE f[1] + Len(f[2]) <= size'
    <3>1. f[1] \in Nat /\ Len(f[2]) \in Nat /\ f[1] + Len(f[2]) <= size
      BY DEF ScanInv, ScanTypeOK, FoundWhereItStands
    <3> QED
      BY <1>2, <1>3, <3>1
  <2> QED
    BY <1>1, <2>1 DEF ScanInv, FoundWhereItStands
<1>6. Searched'
  <2>1. PICK hi \in offset .. size : SearchedTo(hi)
    BY DEF ScanInv, Searched
  <2>2. SearchedTo(hi)'
    BY <1>1, <2>1 DEF SearchedTo, Begin
  <2>3. hi \in (offset .. size)'
    BY <1>1, <1>2, <1>3, <2>1
  <2> QED
    BY <2>2, <2>3 DEF Searched
<1> QED
  BY <1>4, <1>5, <1>6 DEF ScanInv

(* A refresh goes back by more than a token.                                 *)
LEMMA ResumeKeeps == ScanInv /\ Resume => ScanInv'
<1> SUFFICES ASSUME ScanInv, Resume PROVE ScanInv'
  OBVIOUS
<1>1. /\ step = "indexed" /\ step' = "read" /\ overlap' = << >>
      /\ text' = text /\ size' = size /\ found' = found
      /\ offset' = IF offset > Rewind THEN offset - Rewind ELSE 0
  BY DEF Resume
<1>2. /\ text \in Seq(Chars) /\ Len(text) \in Nat
      /\ size \in 0 .. Len(text) /\ offset \in 0 .. size
  BY DEF ScanInv, ScanTypeOK
<1>3. /\ offset' \in Nat /\ offset' <= offset
      /\ offset' = 0 \/ offset' + MaxRun + 3 <= offset
  BY <1>1, <1>2, ScanNumbers
<1>4. overlap' \in Seq(Chars) /\ Len(overlap') = 0
  BY <1>1
<1>5. Begin' = offset'
  <2> DEFINE o == offset'
             n == Len(overlap')
  <2>1. Begin' = o - n
    BY DEF Begin
  <2>2. o \in Nat /\ n = 0
    BY <1>3, <1>4
  <2> HIDE DEF o, n
  <2>3. o - n = o
    BY <2>2
  <2> QED
    BY <2>1, <2>3 DEF o
<1>6. ScanTypeOK'
  BY <1>1, <1>2, <1>3, <1>4, ScanNumbers DEF ScanInv, ScanTypeOK
<1>7. Joined'
  <2>1. SubSeq(text, offset' + 1, offset') = << >>
    <3>1. \A o \in Nat : SubSeq(text, o + 1, o) = << >>
      BY SubSeqEmpty
    <3> QED
      BY <1>3, <3>1
  <2> QED
    BY <1>1, <1>3, <1>5, <2>1 DEF Joined
<1>8. Searched'
  <2>1. PICK hi \in offset .. size : SearchedTo(hi)
    BY DEF ScanInv, Searched
  <2>2. hi = offset /\ Matches(SubSeq(text, 1, hi), 0) \subseteq found
    BY <1>1, <2>1 DEF SearchedTo
  <2>3. SearchedTo(hi)'
    BY <1>1, <1>3, <1>5, <2>2 DEF SearchedTo
  <2>4. hi \in (offset .. size)'
    BY <1>1, <1>2, <1>3, <2>2
  <2> QED
    BY <2>3, <2>4 DEF Searched
<1>9. FoundWhereItStands'
  BY <1>1 DEF ScanInv, FoundWhereItStands
<1> QED
  BY <1>6, <1>7, <1>8, <1>9 DEF ScanInv

LEMMA ScanSteps == ScanInv /\ [ScanNext]_scanVars => ScanInv'
<1> SUFFICES ASSUME ScanInv, [ScanNext]_scanVars PROVE ScanInv'
  OBVIOUS
<1>1. CASE Read
  BY <1>1, ReadKeeps
<1>2. CASE EndOfFile
  BY <1>2, EndKeeps
<1>3. CASE Grow
  BY <1>3, GrowKeeps
<1>4. CASE Resume
  BY <1>4, ResumeKeeps
<1>5. CASE UNCHANGED scanVars
  <2>1. /\ step' = step /\ text' = text /\ size' = size /\ offset' = offset
        /\ overlap' = overlap /\ found' = found
    BY <1>5 DEF scanVars
  <2>2. ScanTypeOK' /\ Joined' /\ FoundWhereItStands'
    BY <2>1 DEF ScanInv, ScanTypeOK, Joined, Begin, FoundWhereItStands
  <2>3. Searched'
    BY <2>1 DEF ScanInv, Searched, SearchedTo, Begin
  <2> QED
    BY <2>2, <2>3 DEF ScanInv
<1> QED
  BY <1>1, <1>2, <1>3, <1>4, <1>5 DEF ScanNext

LEMMA ScanFindsAll == ScanInv => EveryModelFound
<1> SUFFICES ASSUME ScanInv, step = "indexed" PROVE Matches(Visible, 0) \subseteq found
  BY DEF EveryModelFound
<1>1. PICK hi \in offset .. size : SearchedTo(hi)
  BY DEF ScanInv, Searched
<1> QED
  BY <1>1 DEF SearchedTo, Visible
=============================================================================
