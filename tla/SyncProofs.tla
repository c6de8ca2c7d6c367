----------------------------- MODULE SyncProofs -----------------------------
(* The safety properties of Sync, for any sources, answers, targets and      *)
(* limits, in whatever order the sources answer, whoever lists models in the *)
(* catalog meanwhile, and wherever the process is killed or an operation     *)
(* raises. First what a run leaves in the checkpoints, then the order of what*)
(* is stored, then the invariant of the commands.                            *)
EXTENDS Sync, EnumerationProofs, TLAPS

(* While a run collects and stores, its row is RUNNING, the checkpoint of a  *)
(* source says what happened to it, and a source that answered is fetched.   *)
Bookkeeping ==
    /\ run = "RUNNING"
    /\ errors \subseteq Sources
    /\ \A s \in errors : checkpoint[s] = "failed"
    /\ \A s \in Sources : fetched[s] # None /\ s \notin errors => checkpoint[s] = "ok"

RunInv ==
    /\ checkpoint \in [Sources -> {"never", "ok", "failed"}]
    /\ DOMAIN fetched = Sources
    /\ pc \in {"idle", "start"} => errors = {} /\ \A s \in Sources : fetched[s] = None
    /\ pc \in {"collect", "arrange", "store"} => Bookkeeping
    /\ pc \in {"arrange", "store"} => Pending = {}
    /\ LastRunMatchesCheckpoints

(* Init establishes it.                                                      *)
LEMMA InitRun == Init => RunInv
  BY NoneIsFresh DEF RunStatuses, Init, RunInv, LastRunMatchesCheckpoints

(* The steps of a command before its run is recorded, and after.             *)
LEMMA CollectingRun == RunInv /\ Collecting => RunInv'
<1> SUFFICES ASSUME RunInv, Collecting PROVE RunInv'
  OBVIOUS
<1>1. CASE StartRun
  BY <1>1 DEF StartRun, RunInv, Bookkeeping, LastRunMatchesCheckpoints, local, disc
<1>2. ASSUME NEW s \in Sources, NEW a \in Answers[s], Answer(s, a)
      PROVE  RunInv'
  <2>1. pc = "collect" /\ pc' = "collect" /\ Bookkeeping
    BY <1>2 DEF Answer, RunInv
  <2>2. Bookkeeping'
    BY <1>2, <2>1, NoneIsFresh DEF Answer, Bookkeeping, RunInv, Pending
  <2> QED
    BY <1>2, <2>1, <2>2 DEF Answer, RunInv, Bookkeeping, LastRunMatchesCheckpoints
<1>3. ASSUME NEW s \in Sources, SourceFails(s)
      PROVE  RunInv'
  <2>1. pc = "collect" /\ pc' = "collect" /\ Bookkeeping
    BY <1>3 DEF SourceFails, RunInv
  <2>2. Bookkeeping'
    BY <1>3, <2>1 DEF SourceFails, Bookkeeping, RunInv
  <2> QED
    BY <1>3, <2>1, <2>2 DEF SourceFails, RunInv, Bookkeeping, LastRunMatchesCheckpoints
<1>4. ASSUME NEW s \in Sources, NEW a \in Answers[s], AnswerNotRecorded(s, a)
      PROVE  RunInv'
  <2>1. pc = "collect" /\ pc' = "collect" /\ Bookkeeping
    BY <1>4 DEF AnswerNotRecorded, RunInv
  <2>2. Bookkeeping'
    BY <1>4, <2>1 DEF AnswerNotRecorded, Bookkeeping, RunInv
  <2> QED
    BY <1>4, <2>1, <2>2 DEF AnswerNotRecorded, RunInv, Bookkeeping, LastRunMatchesCheckpoints
<1>5. CASE Refresh \/ Arrange
  BY <1>5 DEF Refresh, Arrange, RunInv, Bookkeeping, Pending, LastRunMatchesCheckpoints, stored,
              local, disc
<1>6. CASE Store
  BY <1>6 DEF Store, RunInv, Bookkeeping, Pending, LastRunMatchesCheckpoints
<1>7. CASE FinishRun
  <2>1. Bookkeeping /\ Pending = {} /\ pc = "store"
    BY <1>7 DEF FinishRun, RunInv
  <2>2. run' = "SUCCESS" => \A s \in Sources : checkpoint[s] = "ok"
    BY <1>7, <2>1 DEF FinishRun, RunStatus, Bookkeeping, Pending
  <2>3. run' = "PARTIAL" => \E s \in Sources : checkpoint[s] = "failed"
    BY <1>7, <2>1 DEF FinishRun, RunStatus, Bookkeeping
  <2>4. pc' \in {"select", "exit"} /\ UNCHANGED <<checkpoint, fetched, errors>>
    BY <1>7 DEF FinishRun, End, disc
  <2> QED
    BY <2>2, <2>3, <2>4 DEF RunInv, LastRunMatchesCheckpoints
<1>8. CASE FailRun
  BY <1>8 DEF FailRun, End, RunInv, LastRunMatchesCheckpoints, disc
<1> QED
  BY <1>1, <1>2, <1>3, <1>4, <1>5, <1>6, <1>7, <1>8 DEF Collecting

(* Nothing else touches the run or the checkpoints.                          *)
OthersAct == \E m \in Others : OthersList(m)

LEMMA OtherRun ==
    RunInv /\ (BeginSome \/ Acquiring \/ Exit \/ Fault \/ Crash \/ OthersAct) => RunInv'
<1> SUFFICES ASSUME RunInv,
                    BeginSome \/ Acquiring \/ Exit \/ Fault \/ Crash \/ OthersAct
             PROVE  RunInv'
  OBVIOUS
<1>1. UNCHANGED <<run, checkpoint>>
  BY DEF BeginSome, BeginDiscovery, BeginListed, Begin, Acquiring, Select, List, Resolve,
         DoNotResolve, Resolved, EndProbe, RefuseMany, Download, DownloadFails, Extract,
         Publish, ExtractFails, EndLoop, Exit, Fault, Crash, OthersAct, OthersList, stored
<1>2. CASE BeginSome
  BY <1>1, <1>2 DEF BeginSome, BeginDiscovery, BeginListed, Begin, RunInv,
                    LastRunMatchesCheckpoints, disc
<1>3. CASE Acquiring
  <2>1. pc' \in {"probe", "loop", "extract", "publish", "exit"} /\ DOMAIN fetched' = Sources
    BY <1>3 DEF Acquiring, Select, List, Resolve, DoNotResolve, Resolved, EndProbe,
                RefuseMany, Download, DownloadFails, Extract, Publish, ExtractFails,
                EndLoop, End, RunInv, disc
  <2> QED
    BY <1>1, <2>1 DEF RunInv, LastRunMatchesCheckpoints
<1>4. CASE Exit \/ Crash
  BY <1>1, <1>4 DEF Exit, Crash, Forget, RunInv, LastRunMatchesCheckpoints
<1>5. CASE Fault
  BY <1>1, <1>5 DEF Fault, End, RunInv, LastRunMatchesCheckpoints, disc
<1>6. CASE OthersAct
  BY <1>1, <1>6 DEF OthersAct, OthersList, RunInv, Bookkeeping, Pending,
                    LastRunMatchesCheckpoints, stored, local, disc
<1> QED
  BY <1>2, <1>3, <1>4, <1>5, <1>6

(* A run that ended SUCCESS leaves every source without error, a PARTIAL one *)
(* some source with one, for any number of sources.                          *)
THEOREM LastRunTruthful == Spec => []LastRunMatchesCheckpoints
<1>1. RunInv /\ [Next]_vars => RunInv'
  <2> SUFFICES ASSUME RunInv, [Next]_vars PROVE RunInv'
    OBVIOUS
  <2>1. CASE UNCHANGED vars
    BY <2>1 DEF vars, stored, local, disc, RunInv, Bookkeeping, Pending,
                LastRunMatchesCheckpoints
  <2> QED
    BY <2>1, CollectingRun, OtherRun DEF Next, Step, OthersAct
<1>2. RunInv => LastRunMatchesCheckpoints
  BY DEF RunInv
<1> QED
  BY InitRun, <1>1, <1>2, PTL DEF Spec
-----------------------------------------------------------------------------
(* What the sources in ds said, and the order of it.                         *)
Gathered(ds) ==
    /\ ds \in Seq(Sources)
    /\ IsInjective(ds)
    /\ \A i \in DOMAIN ds : fetched[ds[i]] \in Seq(Records)

LEMMA PositionsAre ==
    ASSUME NEW ds, Gathered(ds)
    PROVE  /\ \A p \in Positions(ds) :
                  /\ p = <<p[1], p[2]>>
                  /\ p[1] \in DOMAIN ds /\ p[1] \in Nat
                  /\ p[2] \in DOMAIN fetched[ds[p[1]]] /\ p[2] \in Nat
                  /\ fetched[ds[p[1]]][p[2]] \in Records
                  /\ ItemAt(ds, p) \in Item
           /\ \A i \in DOMAIN ds : \A j \in DOMAIN fetched[ds[i]] : <<i, j>> \in Positions(ds)
<1>1. \A i \in DOMAIN ds : i \in Nat /\ ds[i] \in Sources /\ fetched[ds[i]] \in Seq(Records)
  BY DEF Gathered
<1>2. ASSUME NEW p \in Positions(ds)
      PROVE  /\ p = <<p[1], p[2]>>
             /\ p[1] \in DOMAIN ds /\ p[1] \in Nat
             /\ p[2] \in DOMAIN fetched[ds[p[1]]] /\ p[2] \in Nat
             /\ fetched[ds[p[1]]][p[2]] \in Records
             /\ ItemAt(ds, p) \in Item
  <2>1. PICK i \in DOMAIN ds : p \in {i} \X DOMAIN fetched[ds[i]]
    BY DEF Positions
  <2>2. p = <<p[1], p[2]>> /\ p[1] = i /\ p[2] \in DOMAIN fetched[ds[i]]
    BY <2>1
  <2>3. p[2] \in Nat /\ fetched[ds[i]][p[2]] \in Records
    BY <1>1, <2>2
  <2> QED
    BY <1>1, <2>2, <2>3 DEF ItemAt, Item, Records
<1>3. ASSUME NEW i \in DOMAIN ds, NEW j \in DOMAIN fetched[ds[i]]
      PROVE  <<i, j>> \in Positions(ds)
  BY DEF Positions
<1> QED
  BY <1>2, <1>3

LEMMA PositionsFinite ==
    ASSUME NEW ds, Gathered(ds)
    PROVE  IsFiniteSet(Positions(ds))
<1> DEFINE row == [i \in DOMAIN ds |-> {i} \X DOMAIN fetched[ds[i]]]
           rows == {{i} \X DOMAIN fetched[ds[i]] : i \in DOMAIN ds}
<1>1. IsFiniteSet(DOMAIN ds)
  BY FS_Interval DEF Gathered
<1>2. row \in Surjection(DOMAIN ds, rows)
  BY DEF Surjection
<1>3. IsFiniteSet(rows)
  BY <1>1, <1>2, FS_Surjection
<1>4. ASSUME NEW i \in DOMAIN ds PROVE IsFiniteSet({i} \X DOMAIN fetched[ds[i]])
  <2>1. IsFiniteSet({i})
    BY FS_Singleton
  <2>2. DOMAIN fetched[ds[i]] = 1 .. Len(fetched[ds[i]]) /\ Len(fetched[ds[i]]) \in Int
    BY DEF Gathered
  <2>3. IsFiniteSet(DOMAIN fetched[ds[i]])
    BY <2>2, FS_Interval
  <2> QED
    BY <2>1, <2>3, FS_Product
<1>5. IsFiniteSet(UNION rows)
  BY <1>3, <1>4, FS_UNION
<1> QED
  BY <1>5 DEF Positions

(* The positions of eligible records are strictly ordered.                   *)
LEMMA EligibleAges ==
    ASSUME NEW o \in Item, Eligible(o) PROVE o.age \in Nat
  BY BoundsType DEF Item, Eligible

LEMMA OrderIs ==
    ASSUME NEW ds, NEW p \in Positions(ds), NEW q \in Positions(ds)
    PROVE  <<p, q>> \in Order(ds) <=> Earlier(ds, p, q)
  BY DEF Order

LEMMA RecentOrdered ==
    ASSUME NEW ds, Gathered(ds), NEW P \in SUBSET Recent(ds)
    PROVE  Orders(Order(ds), P) /\ IsFiniteSet(P) /\ P \subseteq Positions(ds)
<1>1. P \subseteq Positions(ds) /\ IsFiniteSet(P)
  BY PositionsFinite, FS_Subset DEF Recent
<1>2. ASSUME NEW p \in P
      PROVE  /\ p \in Positions(ds) /\ p = <<p[1], p[2]>>
             /\ p[1] \in Nat /\ p[2] \in Nat
             /\ ItemAt(ds, p).age \in Nat
             /\ Rank[ItemAt(ds, p).source] \in Nat
  BY PositionsAre, EligibleAges, RankType DEF Recent, Item
<1>3. \A p, q \in P : <<p, q>> \in Order(ds) <=> Earlier(ds, p, q)
  BY <1>2, OrderIs
<1>4. \A p \in P : ~Earlier(ds, p, p)
  BY <1>2 DEF Earlier, Ahead
<1>5. \A p, q, r \in P : Earlier(ds, p, q) /\ Earlier(ds, q, r) => Earlier(ds, p, r)
  <2> TAKE p, q, r \in P
  <2> DEFINE a(x) == ItemAt(ds, x).age
             k(x) == Rank[ItemAt(ds, x).source]
  <2>1. \A x \in {p, q, r} : a(x) \in Nat /\ k(x) \in Nat /\ x[1] \in Nat /\ x[2] \in Nat
    BY <1>2
  <2>2. \A x, y \in {p, q, r} : Earlier(ds, x, y) <=>
            \/ a(x) < a(y)
            \/ a(x) = a(y) /\ k(x) < k(y)
            \/ a(x) = a(y) /\ k(x) = k(y)
                  /\ (x[1] < y[1] \/ (x[1] = y[1] /\ x[2] < y[2]))
    BY DEF Earlier, Ahead
  <2> HIDE DEF a, k
  <2> QED
    BY <2>1, <2>2
<1>6. \A p, q \in P : p # q => Earlier(ds, p, q) \/ Earlier(ds, q, p)
  <2> TAKE p, q \in P
  <2> DEFINE a(x) == ItemAt(ds, x).age
             k(x) == Rank[ItemAt(ds, x).source]
  <2>1. \A x \in {p, q} : /\ a(x) \in Nat /\ k(x) \in Nat /\ x[1] \in Nat /\ x[2] \in Nat
                          /\ x = <<x[1], x[2]>>
    BY <1>2
  <2>2. \A x, y \in {p, q} : Earlier(ds, x, y) <=>
            \/ a(x) < a(y)
            \/ a(x) = a(y) /\ k(x) < k(y)
            \/ a(x) = a(y) /\ k(x) = k(y)
                  /\ (x[1] < y[1] \/ (x[1] = y[1] /\ x[2] < y[2]))
    BY DEF Earlier, Ahead
  <2>3. p # q => p[1] # q[1] \/ p[2] # q[2]
    BY <2>1
  <2> HIDE DEF a, k
  <2> QED
    BY <2>1, <2>2, <2>3
<1> QED
  BY <1>1, <1>3, <1>4, <1>5, <1>6 DEF Orders

LEMMA RecentItems ==
    ASSUME NEW ds, Gathered(ds), NEW p \in Recent(ds)
    PROVE  /\ p \in Positions(ds)
           /\ ItemAt(ds, p) \in Item /\ Eligible(ItemAt(ds, p))
           /\ ItemAt(ds, p).age \in Nat
           /\ ItemAt(ds, p).target \in Targets
           /\ Rank[ItemAt(ds, p).source] \in Nat
  BY PositionsAre, EligibleAges, RankType DEF Recent, Item

(* What is to be stored: the items that --limit leaves, the newest first.    *)
LEMMA ToStoreIs ==
    ASSUME NEW ds, Gathered(ds), NEW n
    PROVE  LET items == ToStore(ds, n)
               left == Limited(ds, Recent(ds), n)
           IN  /\ items \in Seq(Item)
               /\ \A k \in DOMAIN items : \E p \in left : items[k] = ItemAt(ds, p)
               /\ \A p \in left : \E k \in DOMAIN items : items[k] = ItemAt(ds, p)
               /\ \A k, l \in DOMAIN items : k < l => items[k].age <= items[l].age
<1> DEFINE items == ToStore(ds, n)
           left == Limited(ds, Recent(ds), n)
           at == Enumerated(left, Order(ds))
<1>1. left \in SUBSET Recent(ds)
  BY DEF Limited
<1>2. Orders(Order(ds), left) /\ IsFiniteSet(left) /\ left \subseteq Positions(ds)
  BY <1>1, RecentOrdered
<1>3. /\ Cardinality(left) \in Nat
      /\ at \in [1 .. Cardinality(left) -> left]
      /\ \A p \in left : \E k \in DOMAIN at : at[k] = p
      /\ \A k, l \in DOMAIN at : <<at[k], at[l]>> \in Order(ds) <=> k < l
  BY <1>2, EnumeratedIs
<1>4. items = [k \in DOMAIN at |-> ItemAt(ds, at[k])]
  BY DEF ToStore, Arranged
<1>5. \A p \in left : ItemAt(ds, p) \in Item /\ ItemAt(ds, p).age \in Nat
  BY <1>1, RecentItems
<1> HIDE DEF items, left, at
<1>6. DOMAIN at = 1 .. Cardinality(left) /\ DOMAIN items = DOMAIN at
  BY <1>3, <1>4
<1>7. items \in Seq(Item)
  <2>1. items = [k \in 1 .. Cardinality(left) |-> ItemAt(ds, at[k])]
    BY <1>4, <1>6
  <2>2. \A k \in 1 .. Cardinality(left) : ItemAt(ds, at[k]) \in Item
    BY <1>3, <1>5
  <2> QED
    BY <2>1, <2>2, <1>3
<1>8. ASSUME NEW k \in DOMAIN items, NEW l \in DOMAIN items, k < l
      PROVE  items[k].age <= items[l].age
  <2>1. at[k] \in left /\ at[l] \in left /\ <<at[k], at[l]>> \in Order(ds)
    BY <1>3, <1>6, <1>8
  <2>2. Earlier(ds, at[k], at[l])
    BY <2>1, <1>2, OrderIs
  <2>3. ItemAt(ds, at[k]).age <= ItemAt(ds, at[l]).age
    BY <2>1, <2>2, <1>5 DEF Earlier
  <2> QED
    BY <2>3, <1>4, <1>6
<1>9. \A k \in DOMAIN items : \E p \in left : items[k] = ItemAt(ds, p)
  BY <1>3, <1>4, <1>6
<1>10. \A p \in left : \E k \in DOMAIN items : items[k] = ItemAt(ds, p)
  BY <1>3, <1>4, <1>6
<1> QED
  BY <1>7, <1>8, <1>9, <1>10 DEF items, left

(* The targets with a record before all records of t.                        *)
Preceding(ds, P, t) ==
    {u \in Targets : \E q \in {p \in P : ItemAt(ds, p).target = u} :
                         \A p \in {p \in P : ItemAt(ds, p).target = t} : Earlier(ds, q, p)}

LEMMA LimitedIs ==
    ASSUME NEW ds, NEW P, NEW n, NEW p \in P, ItemAt(ds, p).target \in Targets
    PROVE  p \in Limited(ds, P, n) <=>
               n = None \/ Cardinality(Preceding(ds, P, ItemAt(ds, p).target)) < n
<1> DEFINE of(t) == {q \in P : ItemAt(ds, q).target = t}
           left == {t \in Targets : n = None \/ Cardinality(Preceding(ds, P, t)) < n}
<1>1. Limited(ds, P, n) = UNION {of(t) : t \in left}
  BY DEF Limited, Preceding
<1>2. \A t : p \in of(t) <=> ItemAt(ds, p).target = t
  OBVIOUS
<1> HIDE DEF of
<1>3. p \in UNION {of(t) : t \in left} <=> ItemAt(ds, p).target \in left
  BY <1>2
<1> QED
  BY <1>1, <1>3

LEMMA PrecedingFinite ==
    ASSUME NEW ds, NEW P, IsFiniteSet(P), NEW t
    PROVE  IsFiniteSet(Preceding(ds, P, t))
<1> DEFINE of == [p \in P |-> ItemAt(ds, p).target]
           all == {ItemAt(ds, p).target : p \in P}
<1>1. of \in Surjection(P, all)
  BY DEF Surjection
<1>2. IsFiniteSet(all)
  BY <1>1, FS_Surjection
<1>3. Preceding(ds, P, t) \in SUBSET all
  BY DEF Preceding
<1> QED
  BY <1>2, <1>3, FS_Subset

(* Of a target that --limit leaves there is a record as recent as any of one *)
(* that it drops.                                                            *)
LEMMA DroppedIsOlder ==
    ASSUME NEW ds, Gathered(ds), NEW n, n = None \/ n \in Nat,
           NEW p \in Recent(ds), p \notin Limited(ds, Recent(ds), n),
           NEW q \in Limited(ds, Recent(ds), n)
    PROVE  /\ ItemAt(ds, q).target # ItemAt(ds, p).target
           /\ \E r \in Recent(ds) : /\ ItemAt(ds, r).target = ItemAt(ds, q).target
                                    /\ ItemAt(ds, r).age <= ItemAt(ds, p).age
<1> DEFINE P == Recent(ds)
           t == ItemAt(ds, q).target
           u == ItemAt(ds, p).target
<1>1. q \in P /\ t \in Targets /\ u \in Targets
  BY RecentItems DEF Limited
<1>2. /\ n # None /\ n \in Nat
      /\ Cardinality(Preceding(ds, P, t)) < n
      /\ ~(Cardinality(Preceding(ds, P, u)) < n)
  BY <1>1, LimitedIs
<1>3. IsFiniteSet(P)
  BY RecentOrdered
<1>4. /\ IsFiniteSet(Preceding(ds, P, t)) /\ Cardinality(Preceding(ds, P, t)) \in Nat
      /\ IsFiniteSet(Preceding(ds, P, u)) /\ Cardinality(Preceding(ds, P, u)) \in Nat
  BY <1>3, PrecedingFinite, FS_CardinalityType
<1>5. \E r \in P : ItemAt(ds, r).target = t /\ ItemAt(ds, r).age <= ItemAt(ds, p).age
  <2> SUFFICES ASSUME \A r \in P : ItemAt(ds, r).target = t =>
                          ~(ItemAt(ds, r).age <= ItemAt(ds, p).age)
               PROVE  FALSE
    OBVIOUS
  <2>1. ASSUME NEW w \in Preceding(ds, P, u) PROVE w \in Preceding(ds, P, t)
    <3>1. PICK x \in P : ItemAt(ds, x).target = w /\ Earlier(ds, x, p)
      BY DEF Preceding
    <3>2. ItemAt(ds, x).age <= ItemAt(ds, p).age
      BY <3>1, RecentItems DEF Earlier
    <3>3. ASSUME NEW r \in P, ItemAt(ds, r).target = t PROVE Earlier(ds, x, r)
      <4>1. ItemAt(ds, x).age < ItemAt(ds, r).age
        BY <3>2, <3>3, RecentItems
      <4> QED
        BY <4>1 DEF Earlier
    <3> QED
      BY <3>1, <3>3 DEF Preceding
  <2>2. Preceding(ds, P, u) \in SUBSET Preceding(ds, P, t)
    BY <2>1
  <2>3. Cardinality(Preceding(ds, P, u)) <= Cardinality(Preceding(ds, P, t))
    BY <2>2, <1>4, FS_Subset
  <2> QED
    BY <2>3, <1>2, <1>4
<1>6. t # u
  BY <1>2
<1> QED
  BY <1>5, <1>6

(* The same sources in another order: the item at p is at Moved(ds, es)[p].  *)
Moved(ds, es) ==
    [p \in Positions(ds) |-> <<CHOOSE i \in DOMAIN es : es[i] = ds[p[1]], p[2]>>]

SameSources(ds, es) ==
    /\ \A i \in DOMAIN ds : \E j \in DOMAIN es : es[j] = ds[i]
    /\ \A j \in DOMAIN es : \E i \in DOMAIN ds : ds[i] = es[j]

LEMMA MovedIs ==
    ASSUME NEW ds, NEW es, Gathered(ds), Gathered(es), SameSources(ds, es)
    PROVE  LET b == Moved(ds, es) IN
           /\ b \in Bijection(Positions(ds), Positions(es))
           /\ \A p \in Positions(ds) : ItemAt(es, b[p]) = ItemAt(ds, p)
           /\ \A p, q \in Positions(ds) : Earlier(es, b[p], b[q]) <=> Earlier(ds, p, q)
<1> DEFINE b == Moved(ds, es)
           m(p) == CHOOSE i \in DOMAIN es : es[i] = ds[p[1]]
<1>1. ASSUME NEW p \in Positions(ds)
      PROVE  /\ p = <<p[1], p[2]>> /\ p[1] \in DOMAIN ds /\ p[1] \in Nat /\ p[2] \in Nat
             /\ m(p) \in DOMAIN es /\ es[m(p)] = ds[p[1]] /\ m(p) \in Nat
             /\ b[p] = <<m(p), p[2]>>
             /\ b[p] \in Positions(es)
  <2>1. /\ p = <<p[1], p[2]>> /\ p[1] \in DOMAIN ds /\ p[1] \in Nat /\ p[2] \in Nat
        /\ p[2] \in DOMAIN fetched[ds[p[1]]]
    BY PositionsAre
  <2>2. m(p) \in DOMAIN es /\ es[m(p)] = ds[p[1]]
    BY <2>1 DEF SameSources
  <2>3. b[p] = <<m(p), p[2]>>
    BY DEF Moved
  <2>4. <<m(p), p[2]>> \in Positions(es)
    BY <2>1, <2>2, PositionsAre
  <2>5. m(p) \in Nat
    BY <2>2 DEF Gathered
  <2> QED
    BY <2>1, <2>2, <2>3, <2>4, <2>5
<1> HIDE DEF m
<1>2. \A i, j \in DOMAIN ds : ds[i] = ds[j] => i = j
  BY DEF Gathered, IsInjective
<1>3. \A i, j \in DOMAIN es : es[i] = es[j] => i = j
  BY DEF Gathered, IsInjective
<1>4. \A p, q \in Positions(ds) : m(p) = m(q) <=> p[1] = q[1]
  BY <1>1, <1>2, <1>3
<1>5. \A p, q \in Positions(ds) : b[p] = b[q] => p = q
  <2> SUFFICES ASSUME NEW p \in Positions(ds), NEW q \in Positions(ds), b[p] = b[q]
               PROVE  p = q
    OBVIOUS
  <2> HIDE DEF b
  <2>1. <<m(p), p[2]>> = <<m(q), q[2]>>
    BY <1>1
  <2>2. m(p) = m(q) /\ p[2] = q[2]
    BY <2>1
  <2> QED
    BY <2>2, <1>1, <1>4
<1>6. \A q \in Positions(es) : \E p \in Positions(ds) : b[p] = q
  <2> TAKE q \in Positions(es)
  <2>1. /\ q = <<q[1], q[2]>> /\ q[1] \in DOMAIN es
        /\ q[2] \in DOMAIN fetched[es[q[1]]]
    BY PositionsAre
  <2>2. PICK i \in DOMAIN ds : ds[i] = es[q[1]]
    BY <2>1 DEF SameSources
  <2>3. <<i, q[2]>> \in Positions(ds)
    BY <2>1, <2>2, PositionsAre
  <2>4. m(<<i, q[2]>>) = q[1]
    BY <1>1, <1>3, <2>1, <2>2, <2>3
  <2>5. b[<<i, q[2]>>] = q
    BY <1>1, <2>1, <2>3, <2>4
  <2> QED
    BY <2>3, <2>5
<1>7. b \in Bijection(Positions(ds), Positions(es))
  <2>1. b \in [Positions(ds) -> Positions(es)]
    BY <1>1 DEF Moved
  <2> QED
    BY <2>1, <1>5, <1>6 DEF Bijection, Injection, Surjection, IsInjective
<1>8. ASSUME NEW p \in Positions(ds) PROVE ItemAt(es, b[p]) = ItemAt(ds, p)
  <2>1. b[p][1] = m(p) /\ b[p][2] = p[2] /\ es[m(p)] = ds[p[1]]
    BY <1>1
  <2> QED
    BY <2>1 DEF ItemAt
<1>9. ASSUME NEW p \in Positions(ds), NEW q \in Positions(ds)
      PROVE  Earlier(es, b[p], b[q]) <=> Earlier(ds, p, q)
  <2> DEFINE same == Rank[ItemAt(ds, p).source] = Rank[ItemAt(ds, q).source]
  <2>1. ItemAt(ds, p).source = ds[p[1]] /\ ItemAt(ds, q).source = ds[q[1]]
    BY DEF ItemAt
  <2>2. ds[p[1]] \in Sources /\ ds[q[1]] \in Sources
    BY <1>1 DEF Gathered
  <2>3. same => p[1] = q[1]
    BY <2>1, <2>2, <1>1, <1>2, RankType DEF IsInjective
  <2>4. b[p] = <<m(p), p[2]>> /\ b[q] = <<m(q), q[2]>>
    BY <1>1
  <2>5. same => (Ahead(b[p], b[q]) <=> Ahead(p, q))
    <3> HAVE same
    <3>1. p[1] = q[1] /\ m(p) = m(q) /\ p[1] \in Nat /\ m(p) \in Nat
      BY <2>3, <1>1, <1>4
    <3>2. b[p][1] = m(p) /\ b[q][1] = m(q) /\ b[p][2] = p[2] /\ b[q][2] = q[2]
      BY <2>4
    <3> HIDE DEF b
    <3> QED
      BY <3>1, <3>2 DEF Ahead
  <2>6. ItemAt(es, b[p]) = ItemAt(ds, p) /\ ItemAt(es, b[q]) = ItemAt(ds, q)
    BY <1>8
  <2> HIDE DEF b
  <2> QED
    BY <2>5, <2>6 DEF Earlier
<1> QED
  BY <1>7, <1>8, <1>9

(* --limit leaves the same items...                                          *)
LEMMA MovedLimited ==
    ASSUME NEW ds, NEW es, Gathered(ds), Gathered(es), SameSources(ds, es), NEW n
    PROVE  LET b == Moved(ds, es)
               c == [p \in Limited(ds, Recent(ds), n) |-> b[p]]
           IN  c \in Bijection(Limited(ds, Recent(ds), n), Limited(es, Recent(es), n))
<1> DEFINE b == Moved(ds, es)
           D == Limited(ds, Recent(ds), n)
           E == Limited(es, Recent(es), n)
           c == [p \in D |-> b[p]]
<1>1. /\ b \in Bijection(Positions(ds), Positions(es))
      /\ \A p \in Positions(ds) : ItemAt(es, b[p]) = ItemAt(ds, p)
      /\ \A p, q \in Positions(ds) : Earlier(es, b[p], b[q]) <=> Earlier(ds, p, q)
  BY MovedIs
<1>2. /\ \A p \in Positions(ds) : b[p] \in Positions(es)
      /\ \A p, q \in Positions(ds) : b[p] = b[q] => p = q
      /\ \A q \in Positions(es) : \E p \in Positions(ds) : b[p] = q
  BY <1>1 DEF Bijection, Injection, Surjection, IsInjective
<1> HIDE DEF b
<1>3. \A p \in Positions(ds) : p \in Recent(ds) <=> b[p] \in Recent(es)
  BY <1>1, <1>2 DEF Recent
<1>4. Recent(ds) \subseteq Positions(ds) /\ Recent(es) \subseteq Positions(es)
  BY DEF Recent
<1>5. ASSUME NEW t
      PROVE  Preceding(es, Recent(es), t) = Preceding(ds, Recent(ds), t)
  <2>1. ASSUME NEW u \in Preceding(ds, Recent(ds), t)
        PROVE  u \in Preceding(es, Recent(es), t)
    <3>1. PICK q \in Recent(ds) :
              /\ u \in Targets /\ ItemAt(ds, q).target = u
              /\ \A p \in Recent(ds) : ItemAt(ds, p).target = t => Earlier(ds, q, p)
      BY DEF Preceding
    <3>2. b[q] \in Recent(es) /\ ItemAt(es, b[q]).target = u
      BY <1>1, <1>3, <1>4, <3>1
    <3>3. ASSUME NEW x \in Recent(es), ItemAt(es, x).target = t PROVE Earlier(es, b[q], x)
      <4>1. PICK p \in Positions(ds) : b[p] = x
        BY <1>2, <1>4
      <4>2. p \in Recent(ds) /\ ItemAt(ds, p).target = t
        BY <1>1, <1>3, <3>3, <4>1
      <4> QED
        BY <1>1, <1>4, <3>1, <4>1, <4>2
    <3> QED
      BY <3>1, <3>2, <3>3 DEF Preceding
  <2>2. ASSUME NEW u \in Preceding(es, Recent(es), t)
        PROVE  u \in Preceding(ds, Recent(ds), t)
    <3>1. PICK x \in Recent(es) :
              /\ u \in Targets /\ ItemAt(es, x).target = u
              /\ \A p \in Recent(es) : ItemAt(es, p).target = t => Earlier(es, x, p)
      BY DEF Preceding
    <3>2. PICK q \in Positions(ds) : b[q] = x
      BY <1>2, <1>4
    <3>3. q \in Recent(ds) /\ ItemAt(ds, q).target = u
      BY <1>1, <1>3, <3>1, <3>2
    <3>4. ASSUME NEW p \in Recent(ds), ItemAt(ds, p).target = t PROVE Earlier(ds, q, p)
      <4>1. b[p] \in Recent(es) /\ ItemAt(es, b[p]).target = t /\ p \in Positions(ds)
        BY <1>1, <1>3, <1>4, <3>4
      <4> QED
        BY <1>1, <3>1, <3>2, <4>1
    <3> QED
      BY <3>1, <3>3, <3>4 DEF Preceding
  <2> QED
    BY <2>1, <2>2
<1>6. \A p \in Positions(ds) : p \in D <=> b[p] \in E
  <2> TAKE p \in Positions(ds)
  <2>1. p \in D => p \in Recent(ds)
    BY DEF Limited
  <2>2. b[p] \in E => p \in Recent(ds)
    BY <1>3 DEF Limited
  <2>3. p \in Recent(ds) => (p \in D <=> b[p] \in E)
    <3> HAVE p \in Recent(ds)
    <3>1. /\ b[p] \in Recent(es) /\ ItemAt(es, b[p]) = ItemAt(ds, p)
          /\ ItemAt(ds, p).target \in Targets
      BY <1>1, <1>3, RecentItems
    <3> QED
      BY <3>1, <1>5, LimitedIs
  <2> QED
    BY <2>1, <2>2, <2>3
<1>7. D \subseteq Positions(ds) /\ E \subseteq Positions(es)
  BY DEF Limited, Recent
<1> HIDE DEF D, E
<1>8. c \in [D -> E] /\ (\A p, q \in D : c[p] = c[q] => p = q)
      /\ \A x \in E : \E p \in D : c[p] = x
  BY <1>2, <1>6, <1>7
<1> QED
  BY <1>8 DEF Bijection, Injection, Surjection, IsInjective, b, D, E

(* ...and they are stored in the same order.                                 *)
LEMMA ToStoreMoved ==
    ASSUME NEW ds, NEW es, Gathered(ds), Gathered(es), SameSources(ds, es), NEW n
    PROVE  ToStore(es, n) = ToStore(ds, n)
<1> DEFINE b == Moved(ds, es)
           D == Limited(ds, Recent(ds), n)
           E == Limited(es, Recent(es), n)
           c == [p \in D |-> b[p]]
           at == Enumerated(D, Order(ds))
           et == Enumerated(E, Order(es))
<1>1. /\ \A p \in Positions(ds) : ItemAt(es, b[p]) = ItemAt(ds, p)
      /\ \A p \in Positions(ds) : b[p] \in Positions(es)
      /\ \A p, q \in Positions(ds) : Earlier(es, b[p], b[q]) <=> Earlier(ds, p, q)
  BY MovedIs DEF Bijection, Injection
<1>2. c \in Bijection(D, E)
  BY MovedLimited
<1>3. D \in SUBSET Recent(ds) /\ E \in SUBSET Recent(es)
  BY DEF Limited
<1>4. /\ Orders(Order(ds), D) /\ IsFiniteSet(D) /\ D \subseteq Positions(ds)
      /\ Orders(Order(es), E) /\ IsFiniteSet(E) /\ E \subseteq Positions(es)
  BY <1>3, RecentOrdered
<1> HIDE DEF b, D, E
<1>5. ASSUME NEW p \in D, NEW q \in D
      PROVE  <<p, q>> \in Order(ds) <=> <<c[p], c[q]>> \in Order(es)
  BY <1>1, <1>4, OrderIs
<1>6. /\ Cardinality(E) = Cardinality(D)
      /\ \A k \in 1 .. Cardinality(D) : et[k] = c[at[k]]
  BY <1>2, <1>4, <1>5, EnumeratedRenamed
<1>7. at \in [1 .. Cardinality(D) -> D] /\ et \in [1 .. Cardinality(E) -> E]
  BY <1>4, EnumeratedIs
<1> HIDE DEF at, et
<1>8. \A k \in 1 .. Cardinality(D) : ItemAt(es, et[k]) = ItemAt(ds, at[k])
  BY <1>1, <1>4, <1>6, <1>7
<1>9. /\ ToStore(ds, n) = [k \in DOMAIN at |-> ItemAt(ds, at[k])]
      /\ ToStore(es, n) = [k \in DOMAIN et |-> ItemAt(es, et[k])]
  BY DEF ToStore, Arranged, D, E, at, et
<1> QED
  BY <1>6, <1>7, <1>8, <1>9

-----------------------------------------------------------------------------
(* The inductive invariant, part by part.                                    *)

Tables == IsFiniteSet({t \in Targets : known[t] # {}})

(* The sources in the order are those whose pages are in.                    *)
Fetching ==
    /\ DOMAIN fetched = Sources
    /\ IsInjective(order)
    /\ \A s \in Sources : fetched[s] # None <=> \E i \in DOMAIN order : order[i] = s

(* What each command has not reached yet, or has put away.                   *)
Phases ==
    /\ pc \in {"idle", "start", "collect", "arrange", "store", "fail_run", "select", "list"} =>
           chosen = <<>> /\ queue = <<>> /\ ready = <<>>
    /\ pc \in {"idle", "start", "collect", "arrange"} => todo = <<>> /\ found = <<>>
    /\ pc = "select" => todo = <<>> /\ cmd = "sync"
    /\ pc \in {"start", "collect", "arrange"} => limit \in Limits
    /\ pc \in {"start", "collect", "arrange", "store", "fail_run"} => cmd \in {"discover", "sync"}
    /\ pc = "list" => cmd \in {"probe", "download"} /\ limit \in Counts
    /\ pc = "probe" => cmd \in {"sync", "probe", "download"}
    /\ pc = "loop" => cmd = "download" \/ (cmd = "sync" /\ Automatic)
    /\ pc \in {"extract", "publish"} => cmd = "sync" /\ Automatic /\ AutoExtract

OneRegion(ts) ==
    \A i, j \in DOMAIN ts : ModelOf[ts[i]] = ModelOf[ts[j]] => i = j

(* No region of it is held, and the catalog the selection asked lacked it.   *)
Free(m) == ~ModelHeld(m) /\ m \notin asked

(* While the targets are resolved, they are of different models, all free.   *)
Probing ==
    pc = "probe" =>
        /\ OneRegion(ready) /\ OneRegion(queue)
        /\ \A i \in DOMAIN ready, j \in DOMAIN queue :
               ModelOf[ready[i]] # ModelOf[queue[j]]
        /\ \A i \in DOMAIN ready : Free(ModelOf[ready[i]])
        /\ \A i \in DOMAIN queue : Free(ModelOf[queue[i]])
        /\ chosen = <<>> => ready = <<>> /\ queue = <<>>

(* While they are downloaded: those still to come are free, the one at hand  *)
(* as far as its pc says, and the others are done.                           *)
Acquired(t) == t \in held /\ (cmd = "sync" /\ AutoExtract => t \in extracted)

Looping ==
    pc \in {"loop", "extract", "publish"} =>
        /\ OneRegion(queue)
        /\ \A i \in DOMAIN queue : i > 1 \/ pc = "loop" => Free(ModelOf[queue[i]])
        /\ pc # "loop" => queue # <<>> /\ Head(queue) \in held
        /\ pc = "publish" => Head(queue) \in extracted
        /\ \A i \in DOMAIN ready : Acquired(ready[i]) \/ \E j \in DOMAIN queue : queue[j] = ready[i]

Seen == {o \in Collected(order) : Eligible(o)}
Newest(t) == Min({o.age : o \in {x \in Seen : x.target = t}})

(* While the targets are stored, those stored and those to store are in the  *)
(* order of their most recent records, and what was seen is stored, to be    *)
(* stored, or of a target that --limit dropped for being older than both.    *)
Progress(td, fd, kn) ==
    /\ \A k \in DOMAIN td : td[k] \in Seen
    /\ \A k, l \in DOMAIN td : k < l => td[k].age <= td[l].age
    /\ \A i \in DOMAIN fd : \E o \in Seen : o.target = fd[i]
    /\ \A i, j \in DOMAIN fd : i < j => Newest(fd[i]) <= Newest(fd[j])
    /\ \A i \in DOMAIN fd, k \in DOMAIN td : Newest(fd[i]) <= td[k].age
    /\ \A o \in Seen :
           \/ \E k \in DOMAIN td : td[k] = o
           \/ /\ \E i \in DOMAIN fd : fd[i] = o.target
              /\ o.source \in kn[o.target]
           \/ /\ \A i \in DOMAIN fd : fd[i] # o.target
              /\ \A k \in DOMAIN td : td[k].target # o.target
              /\ \A i \in DOMAIN fd : Newest(fd[i]) <= o.age
              /\ \A k \in DOMAIN td : Newest(td[k].target) <= o.age

Storing == pc \in {"store", "select"} => Progress(todo, found, known)

Inv ==
    /\ TypeOK /\ Tables /\ Fetching /\ Phases /\ Probing /\ Looping
    /\ ExitZeroIsComplete /\ Storing

LEMMA OrderGathered == TypeOK /\ Fetching => Gathered(order)
<1> SUFFICES ASSUME TypeOK, Fetching PROVE Gathered(order)
  OBVIOUS
<1>1. order \in Seq(Sources) /\ IsInjective(order)
  BY DEF TypeOK, Fetching
<1>2. ASSUME NEW i \in DOMAIN order PROVE fetched[order[i]] \in Seq(Records)
  <2>1. order[i] \in Sources
    BY <1>1
  <2>2. fetched[order[i]] \in Answers[order[i]]
    BY <2>1 DEF TypeOK, Fetching
  <2> QED
    BY <2>1, <2>2, AnswersType
<1> QED
  BY <1>1, <1>2 DEF Gathered

(* The merge of the sources.                                                 *)
LEMMA MergeIndependent == TypeOK /\ Fetching => OrderIndependent
<1> SUFFICES ASSUME TypeOK, Fetching, NEW ds \in SetToSeqs(ToSet(order))
             PROVE  ToStore(ds, limit) = ToStore(order, limit)
  BY DEF OrderIndependent
<1> DEFINE S == ToSet(order)
           n == Cardinality(S)
<1>1. Gathered(order)
  BY OrderGathered
<1>2. order \in Surjection(DOMAIN order, S) /\ IsFiniteSet(DOMAIN order)
  <2>1. order \in Surjection(DOMAIN order, S)
    BY <1>1 DEF Surjection, ToSet, Gathered
  <2>2. IsFiniteSet(DOMAIN order)
    BY <1>1, FS_Interval DEF Gathered
  <2> QED
    BY <2>1, <2>2
<1>3. IsFiniteSet(S) /\ n \in Nat
  BY <1>2, FS_Surjection, FS_CardinalityType
<1>4. ds \in [1 .. n -> S] /\ \A i, j \in 1 .. n : ds[i] = ds[j] => i = j
  BY DEF SetToSeqs
<1>5. ds \in Injection(1 .. n, S)
  BY <1>4 DEF Injection, IsInjective
<1>6. Cardinality(1 .. n) = n
  BY <1>3, FS_Interval
<1>7. ds \in Surjection(1 .. n, S)
  BY <1>3, <1>5, <1>6, FS_Injection
<1>8. S = {order[i] : i \in DOMAIN order}
  BY DEF ToSet
<1> HIDE DEF S, n
<1>9. DOMAIN ds = 1 .. n /\ \A s \in S : \E i \in DOMAIN ds : ds[i] = s
  BY <1>4, <1>7 DEF Surjection
<1>10. SameSources(order, ds)
  <2>1. ASSUME NEW i \in DOMAIN order PROVE \E j \in DOMAIN ds : ds[j] = order[i]
    <3>1. order[i] \in S
      BY <1>8
    <3> QED
      BY <3>1, <1>9
  <2>2. ASSUME NEW j \in DOMAIN ds PROVE \E i \in DOMAIN order : order[i] = ds[j]
    <3>1. ds[j] \in S
      BY <1>4, <1>9
    <3> QED
      BY <3>1, <1>8
  <2> QED
    BY <2>1, <2>2 DEF SameSources
<1>11. Gathered(ds)
  <2>1. S \subseteq Sources
    BY <1>1, <1>8 DEF Gathered
  <2>2. ds \in Seq(Sources)
    BY <1>3, <1>4, <2>1
  <2>3. \A i \in DOMAIN ds : fetched[ds[i]] \in Seq(Records)
    BY <1>1, <1>4, <1>8, <1>9 DEF Gathered
  <2> QED
    BY <1>4, <1>9, <2>2, <2>3 DEF Gathered, IsInjective
<1> QED
  BY <1>1, <1>10, <1>11, ToStoreMoved

(* The selection: the first of each model, unless it is held or catalogued.  *)
LEMMA UniqueIs ==
    ASSUME NEW ts \in Seq(Targets)
    PROVE  LET sel == UniqueByModel(ts) IN
           /\ sel \in Seq(Targets) /\ OneRegion(sel)
           /\ \A k \in DOMAIN sel : Selectable(ModelOf[sel[k]])
           /\ \E at \in [DOMAIN sel -> DOMAIN ts] :
                  /\ \A k \in DOMAIN sel : sel[k] = ts[at[k]]
                  /\ \A k, l \in DOMAIN sel : k < l => at[k] < at[l]
                  /\ \A k \in DOMAIN sel : \A i \in DOMAIN ts :
                         ModelOf[ts[i]] = ModelOf[sel[k]] => at[k] <= i
           /\ \A i \in DOMAIN ts : Selectable(ModelOf[ts[i]]) =>
                  \E k \in DOMAIN sel : ModelOf[sel[k]] = ModelOf[ts[i]]
<1> DEFINE first(i) == \A j \in 1 .. (i - 1) : ModelOf[ts[j]] # ModelOf[ts[i]]
           P == {i \in DOMAIN ts : first(i) /\ Selectable(ModelOf[ts[i]])}
           sel == UniqueByModel(ts)
<1>1. sel = Part(ts, P) /\ P \in SUBSET (DOMAIN ts)
  BY DEF UniqueByModel
<1>2. \A i \in P : i \in DOMAIN ts /\ first(i) /\ Selectable(ModelOf[ts[i]])
  OBVIOUS
<1>3. \A i \in DOMAIN ts : first(i) /\ Selectable(ModelOf[ts[i]]) => i \in P
  OBVIOUS
<1> HIDE DEF P, sel
<1>4. PICK at \in [1 .. Len(sel) -> P] :
          /\ sel \in Seq(Targets)
          /\ \A k \in DOMAIN sel : sel[k] = ts[at[k]]
          /\ \A k, l \in DOMAIN sel : k < l <=> at[k] < at[l]
          /\ \A i \in P : \E k \in DOMAIN sel : at[k] = i
  BY <1>1, PartIs
<1>5. DOMAIN sel = 1 .. Len(sel) /\ DOMAIN ts = 1 .. Len(ts)
  BY <1>4
<1>6. \A k \in DOMAIN sel : \A i \in DOMAIN ts : ModelOf[ts[i]] = ModelOf[sel[k]] => at[k] <= i
  BY <1>2, <1>4, <1>5
<1>7. OneRegion(sel)
  <2> SUFFICES ASSUME NEW k \in DOMAIN sel, NEW l \in DOMAIN sel,
                      ModelOf[sel[k]] = ModelOf[sel[l]]
               PROVE  k = l
    BY DEF OneRegion
  <2>1. at[k] \in DOMAIN ts /\ at[l] \in DOMAIN ts
    BY <1>2, <1>4, <1>5
  <2>2. at[k] <= at[l] /\ at[l] <= at[k]
    BY <1>4, <1>6, <2>1
  <2>3. ~(k < l) /\ ~(l < k)
    BY <1>4, <1>5, <2>1, <2>2
  <2> QED
    BY <1>5, <2>3
<1>8. ASSUME NEW i \in DOMAIN ts, Selectable(ModelOf[ts[i]])
      PROVE  \E k \in DOMAIN sel : ModelOf[sel[k]] = ModelOf[ts[i]]
  <2> DEFINE T == {j \in DOMAIN ts : ModelOf[ts[j]] = ModelOf[ts[i]]}
  <2>1. T \subseteq Nat /\ T # {}
    BY <1>5
  <2>2. PICK j \in T : \A l \in T : j <= l
    BY <2>1, Least
  <2>3. j \in P
    BY <1>3, <1>5, <1>8, <2>2
  <2> QED
    BY <1>4, <2>2, <2>3
<1>9. at \in [DOMAIN sel -> DOMAIN ts]
  BY <1>2, <1>4, <1>5
<1>10. \A k \in DOMAIN sel : Selectable(ModelOf[sel[k]])
  BY <1>2, <1>4, <1>5
<1> QED
  BY <1>4, <1>6, <1>7, <1>8, <1>9, <1>10 DEF sel

(* What probe and download select of the listed rows.                        *)
LEMMA ListedIs ==
    ASSUME TypeOK, Tables, Phases, List
    PROVE  /\ chosen' \in Seq(Targets) /\ OneRegion(chosen')
           /\ \A i \in DOMAIN chosen' : Selectable(ModelOf[chosen'[i]])
           /\ queue' = chosen' /\ asked' = catalog
<1> DEFINE K == {t \in Targets : known[t] # {}}
<1>1. PICK ts \in SetToSeqs(K) :
          /\ chosen' = SubSeq(UniqueByModel(ts), 1,
                              IF limit < Len(UniqueByModel(ts))
                              THEN limit ELSE Len(UniqueByModel(ts)))
          /\ queue' = chosen' /\ asked' = catalog /\ pc = "list"
  BY DEF List, Choose
<1>2. Cardinality(K) \in Nat
  BY FS_CardinalityType DEF Tables
<1>3. ts \in [1 .. Cardinality(K) -> K]
  BY DEF SetToSeqs
<1>4. ts \in Seq(Targets)
  <2>1. K \subseteq Targets
    OBVIOUS
  <2> HIDE DEF K
  <2> QED
    BY <1>2, <1>3, <2>1
<1> DEFINE all == UniqueByModel(ts)
<1>5. /\ all \in Seq(Targets) /\ OneRegion(all)
      /\ \A i \in DOMAIN all : Selectable(ModelOf[all[i]])
  BY <1>4, UniqueIs
<1>6. limit \in Nat
  BY <1>1, BoundsType DEF Phases
<1> DEFINE m == IF limit < Len(all) THEN limit ELSE Len(all)
<1>7. m \in 0 .. Len(all) /\ chosen' = SubSeq(all, 1, m)
  BY <1>1, <1>5, <1>6
<1> HIDE DEF all, m
<1>8. /\ chosen' \in Seq(Targets) /\ DOMAIN chosen' = 1 .. m
      /\ \A i \in 1 .. m : chosen'[i] = all[i]
  BY <1>5, <1>7
<1>9. 1 .. m \subseteq DOMAIN all
  BY <1>5, <1>7
<1>10. OneRegion(chosen')
  BY <1>5, <1>8, <1>9 DEF OneRegion
<1>11. \A i \in DOMAIN chosen' : Selectable(ModelOf[chosen'[i]])
  BY <1>5, <1>8, <1>9
<1> QED
  BY <1>1, <1>8, <1>10, <1>11

(* The type invariant.                                                       *)
LEMMA StepTyped == Inv /\ [Next]_vars => TypeOK'
<1> SUFFICES ASSUME Inv, [Next]_vars PROVE TypeOK'
  OBVIOUS
<1> USE DEF Inv, TypeOK, PC, Commands
<1>1. CASE UNCHANGED vars
  BY <1>1 DEF vars, stored, kept, index, local, disc, chain
<1>2. CASE BeginSome
  BY <1>2 DEF BeginSome, BeginDiscovery, BeginListed, Begin, stored, kept, index, disc, chain
<1>3. CASE Exit \/ Crash
  <2>1. <<>> \in Seq(Targets) /\ IsInjective(<<>>)
    BY DEF IsInjective
  <2>2. UNCHANGED <<stored, kept>> /\ Forget
    BY <1>3 DEF Exit, Crash
  <2>3. /\ found' \in Seq(Targets) /\ IsInjective(found')
        /\ chosen' \in Seq(Targets) /\ IsInjective(chosen')
        /\ queue' \in Seq(Targets) /\ IsInjective(queue')
        /\ ready' \in Seq(Targets) /\ IsInjective(ready')
    BY <2>1, <2>2 DEF Forget
  <2>4. \A s \in Sources : fetched'[s] \in Answers[s] \cup {None}
    BY <2>2 DEF Forget
  <2> QED
    BY <2>2, <2>3, <2>4 DEF Forget, stored, kept, index
<1>4. CASE Fault
  BY <1>4 DEF Fault, End, stored, kept, index, disc, chain
<1>5. CASE StartRun
  BY <1>5 DEF StartRun, RunStatuses, kept, index, local, disc, chain
<1>6. ASSUME NEW s \in Sources, SourceFails(s) PROVE TypeOK'
  BY <1>6 DEF SourceFails, kept, index, chain
<1>7. ASSUME NEW s \in Sources, NEW a \in Answers[s], Answer(s, a) \/ AnswerNotRecorded(s, a)
      PROVE  TypeOK'
  <2>1. \A r \in Sources : fetched'[r] \in Answers[r] \cup {None}
    BY <1>7 DEF Answer, AnswerNotRecorded, Fetching
  <2>2. order' \in Seq(Sources)
    <3>1. order \in Seq(Sources) /\ order' = Append(order, s)
      BY <1>7 DEF Answer, AnswerNotRecorded
    <3> QED
      BY <3>1
  <2>4. errors' \subseteq Sources
    BY <1>7 DEF Answer, AnswerNotRecorded
  <2>3. checkpoint' \in [Sources -> {"never", "ok", "failed"}]
    BY <1>7 DEF Answer, AnswerNotRecorded
  <2> QED
    BY <1>7, <2>1, <2>2, <2>3, <2>4 DEF Answer, AnswerNotRecorded, kept, index, chain
<1>8. CASE Arrange
  <2>1. todo' = ToStore(order, limit)
    BY <1>8 DEF Arrange, ToStore
  <2>2. todo' \in Seq(Item)
    BY <2>1, OrderGathered, ToStoreIs
  <2> QED
    BY <1>8, <2>2 DEF Arrange, stored, kept, index, chain
<1>9. CASE Store
  <2>1. Head(todo) \in Item /\ Tail(todo) \in Seq(Item)
    BY <1>9 DEF Store
  <2>2. Head(todo).target \in Targets /\ Head(todo).source \in Sources
    BY <2>1 DEF Item
  <2>3. known' \in [Targets -> SUBSET Sources]
    BY <1>9, <2>2 DEF Store
  <2>4. found' \in Seq(Targets) /\ IsInjective(found')
    <3>1. found \in Seq(Targets) /\ IsInjective(found)
      OBVIOUS
    <3>2. CASE found' = found
      BY <3>1, <3>2
    <3>3. CASE /\ found' = Append(found, Head(todo).target)
               /\ ~Contains(found, Head(todo).target)
      BY <3>1, <3>3, <2>2 DEF IsInjective, Contains
    <3> QED
      BY <1>9, <3>2, <3>3 DEF Store
  <2> QED
    BY <1>9, <2>1, <2>3, <2>4 DEF Store, kept, index, chain
<1>10. CASE FinishRun
  BY <1>10 DEF FinishRun, RunStatus, RunStatuses, SourcesCode, End, kept, index, disc, chain
<1>11. CASE FailRun
  BY <1>11 DEF FailRun, RunStatuses, End, kept, index, disc, chain
<1>12. CASE Select
  <2>1. UniqueByModel(found) \in Seq(Targets) /\ OneRegion(UniqueByModel(found))
    BY UniqueIs
  <2>2. IsInjective(UniqueByModel(found))
    BY <2>1 DEF OneRegion, IsInjective
  <2> QED
    BY <1>12, <2>1, <2>2 DEF Select, Choose, stored, kept, index, IsInjective
<1>13. CASE List
  <2>1. chosen' \in Seq(Targets) /\ OneRegion(chosen') /\ queue' = chosen'
    BY <1>13, ListedIs
  <2>2. IsInjective(chosen')
    BY <2>1 DEF OneRegion, IsInjective
  <2> QED
    BY <1>13, <2>1, <2>2 DEF List, Choose, stored, kept, index, disc
<1>14. CASE Resolve \/ DoNotResolve
  <2>1. /\ queue \in Seq(Targets) /\ IsInjective(queue) /\ queue # <<>>
        /\ ready \in Seq(Targets) /\ IsInjective(ready)
        /\ queue' = Tail(queue) /\ pc = "probe"
    BY <1>14 DEF Resolve, DoNotResolve
  <2>2. queue' \in Seq(Targets) /\ IsInjective(queue')
    BY <2>1 DEF IsInjective
  <2>3. ready' = ready \/ ready' = Append(ready, Head(queue))
    BY <1>14 DEF Resolve, DoNotResolve
  <2>4. \A i \in DOMAIN ready : ready[i] # Head(queue)
    <3>1. 1 \in DOMAIN queue /\ Head(queue) = queue[1]
      BY <2>1
    <3> QED
      BY <2>1, <3>1 DEF Probing
  <2>5. ready' \in Seq(Targets) /\ IsInjective(ready')
    <3>1. Head(queue) \in Targets
      BY <2>1
    <3>2. ready \in Seq(Targets) /\ \A i, j \in DOMAIN ready : ready[i] = ready[j] => i = j
      BY <2>1 DEF IsInjective
    <3>3. CASE ready' = Append(ready, Head(queue))
      BY <2>4, <3>1, <3>2, <3>3 DEF IsInjective
    <3> QED
      BY <2>1, <2>3, <3>3
  <2> QED
    BY <1>14, <2>2, <2>5 DEF Resolve, DoNotResolve, stored, kept, index, disc
<1>15. CASE Resolved
  BY <1>15 DEF Resolved, stored, kept, index, disc
<1>16. CASE EndProbe
  BY <1>16 DEF EndProbe, End, SourcesCode, stored, kept, index, disc, chain
<1>17. CASE RefuseMany \/ ExtractFails \/ EndLoop
  BY <1>17 DEF RefuseMany, ExtractFails, EndLoop, End, SourcesCode, stored, kept, index, disc, chain
<1>18. CASE Download \/ DownloadFails \/ Extract \/ Publish
  <2>1. queue # <<>> /\ queue \in Seq(Targets) /\ IsInjective(queue)
    BY <1>18 DEF Download, DownloadFails, Extract, Publish, Looping
  <2>2. Head(queue) \in Targets /\ Tail(queue) \in Seq(Targets)
    BY <2>1
  <2>3. IsInjective(Tail(queue))
    BY <2>1 DEF IsInjective
  <2>4. ModelOf[Head(queue)] \in Models
    BY <2>2, RegionType
  <2> QED
    BY <1>18, <2>1, <2>2, <2>3, <2>4, ZenonT(60)
       DEF Download, DownloadFails, Extract, Publish, End, stored, kept, index, disc, chain
<1>19. CASE Refresh
  BY <1>19 DEF Refresh, stored, local, disc, chain
<1>20. ASSUME NEW m \in Others, OthersList(m) PROVE TypeOK'
  BY <1>20, OthersType DEF OthersList, stored, local, disc, chain
<1> QED
  BY <1>1, <1>2, <1>3, <1>4, <1>5, <1>6, <1>7, <1>8, <1>9, <1>10, <1>11, <1>12, <1>13,
     <1>14, <1>15, <1>16, <1>17, <1>18, <1>19, <1>20 DEF Next, Step, Collecting, Acquiring

(* Only finitely many targets are ever known.                                *)
LEMMA StepTables == Inv /\ [Next]_vars => Tables'
<1> SUFFICES ASSUME Inv, [Next]_vars PROVE Tables'
  OBVIOUS
<1> DEFINE K == {t \in Targets : known[t] # {}}
<1>1. IsFiniteSet(K)
  BY DEF Inv, Tables
<1>2. CASE Store
  <2> DEFINE o == Head(todo)
  <2>1. known' = [known EXCEPT ![o.target] = @ \cup {o.source}]
    BY <1>2 DEF Store
  <2>2. {t \in Targets : known'[t] # {}} \in SUBSET (K \cup {o.target})
    BY <2>1 DEF Inv, TypeOK
  <2>3. IsFiniteSet(K \cup {o.target})
    BY <1>1, FS_AddElement
  <2> QED
    BY <2>2, <2>3, FS_Subset DEF Tables
<1>3. CASE ~Store
  <2>1. known' = known
    BY <1>3 DEF Next, BeginSome, BeginDiscovery, BeginListed, Begin, Step, Collecting,
                StartRun, Answer, AnswerNotRecorded, SourceFails, Refresh, Arrange, FinishRun, FailRun,
                Acquiring, Select, List, Resolve, DoNotResolve, Resolved, EndProbe, RefuseMany,
                Download, DownloadFails, Extract, Publish, ExtractFails, EndLoop, Exit, Fault,
                Crash, OthersList, stored, vars
  <2> QED
    BY <1>1, <2>1 DEF Tables
<1> QED
  BY <1>2, <1>3

(* The order names the sources whose pages are in, each once.                *)
LEMMA StepFetching == Inv /\ [Next]_vars => Fetching'
<1> SUFFICES ASSUME Inv, [Next]_vars PROVE Fetching'
  OBVIOUS
<1>1. Fetching /\ order \in Seq(Sources)
  BY DEF Inv, TypeOK
<1>2. CASE UNCHANGED <<fetched, order>>
  BY <1>1, <1>2 DEF Fetching
<1>3. CASE Exit \/ Crash \/ Select
  <2>1. fetched' = [s \in Sources |-> None] /\ order' = <<>>
    BY <1>3 DEF Exit, Crash, Forget, Select
  <2> QED
    BY <2>1 DEF Fetching, IsInjective
<1>4. ASSUME NEW s \in Sources, NEW a \in Answers[s], Answer(s, a) \/ AnswerNotRecorded(s, a)
      PROVE  Fetching'
  <2>1. /\ fetched' = [fetched EXCEPT ![s] = a] /\ order' = Append(order, s)
        /\ fetched[s] = None
    BY <1>4 DEF Answer, AnswerNotRecorded, Pending
  <2>2. a # None
    BY NoneIsFresh
  <2>3. \A i \in DOMAIN order : order[i] # s
    BY <1>1, <2>1 DEF Fetching
  <2>4. /\ DOMAIN order' = 1 .. (Len(order) + 1) /\ order'[Len(order) + 1] = s
        /\ DOMAIN order = 1 .. Len(order) /\ Len(order) \in Nat
        /\ \A i \in DOMAIN order : order'[i] = order[i]
    BY <1>1, <2>1
  <2>5. IsInjective(order')
    BY <1>1, <2>3, <2>4 DEF Fetching, IsInjective
  <2>6. ASSUME NEW r \in Sources
        PROVE  fetched'[r] # None <=> \E i \in DOMAIN order' : order'[i] = r
    <3>1. CASE r = s
      BY <1>1, <2>1, <2>2, <2>4, <3>1 DEF Fetching
    <3>2. CASE r # s
      BY <1>1, <2>1, <2>4, <3>2 DEF Fetching
    <3> QED
      BY <3>1, <3>2
  <2>7. DOMAIN fetched' = Sources
    BY <1>1, <2>1 DEF Fetching
  <2> QED
    BY <2>5, <2>6, <2>7 DEF Fetching
<1> QED
  BY <1>2, <1>3, <1>4
     DEF Next, BeginSome, BeginDiscovery, BeginListed, Begin, Step, Collecting,
         StartRun, SourceFails, Refresh, Arrange, Store, FinishRun, FailRun,
         Acquiring, List, Resolve, DoNotResolve, Resolved, EndProbe, RefuseMany,
         Download, DownloadFails, Extract, Publish, ExtractFails, EndLoop, Fault,
         OthersList, vars, stored, local, disc, chain

(* What each command has reached.                                            *)
LEMMA StepPhases == Inv /\ [Next]_vars => Phases'
<1> SUFFICES ASSUME Inv, [Next]_vars PROVE Phases'
  OBVIOUS
<1>1. Phases /\ pc \in PC
  BY DEF Inv, TypeOK
<1>2. CASE UNCHANGED vars \/ \E m \in Others : OthersList(m)
  BY <1>1, <1>2 DEF OthersList, vars, local, disc, chain, Phases
<1>3. CASE BeginSome
  BY <1>1, <1>3 DEF BeginSome, BeginDiscovery, BeginListed, Begin, disc, chain, Phases
<1>4. CASE Exit \/ Crash
  BY <1>4 DEF Exit, Crash, Forget, Phases
<1>5. CASE Fault
  BY <1>1, <1>5 DEF Fault, End, disc, chain, Phases
<1>6. CASE Collecting
  BY <1>1, <1>6 DEF Collecting, StartRun, Answer, AnswerNotRecorded, SourceFails, Refresh,
                    Arrange, Store, FinishRun, FailRun, End, local, disc, chain, Phases
<1>7. CASE Select \/ List
  BY <1>1, <1>7 DEF Select, List, disc, Phases
<1>8. CASE Resolve \/ DoNotResolve \/ Resolved \/ EndProbe \/ RefuseMany
  BY <1>1, <1>8 DEF Resolve, DoNotResolve, Resolved, EndProbe, RefuseMany, GoesOn, End,
                    disc, chain, Phases
<1>9. CASE Download \/ DownloadFails \/ Extract \/ Publish \/ ExtractFails \/ EndLoop
  BY <1>1, <1>9 DEF Download, DownloadFails, Extract, Publish, ExtractFails, EndLoop, End,
                    disc, chain, Phases
<1> QED
  BY <1>2, <1>3, <1>4, <1>5, <1>6, <1>7, <1>8, <1>9 DEF Next, Step, Acquiring

(* The targets being resolved.                                               *)
LEMMA StepProbing == Inv /\ [Next]_vars => Probing'
<1> SUFFICES ASSUME Inv, [Next]_vars, pc' = "probe" PROVE Probing'
  BY DEF Probing
<1>1. CASE UNCHANGED vars \/ \E m \in Others : OthersList(m)
  <2>1. UNCHANGED <<held, pc, asked, chosen, queue, ready>>
    BY <1>1 DEF vars, kept, OthersList, local, chain
  <2> QED
    BY <2>1 DEF Inv, Probing, OneRegion, Free, ModelHeld
<1>2. CASE Select
  <2>1. /\ chosen' = UniqueByModel(found) /\ queue' = chosen' /\ ready' = <<>>
        /\ held' = held /\ asked' = catalog
    BY <1>2 DEF Select, Choose, Inv, Phases
  <2>2. found \in Seq(Targets)
    BY DEF Inv, TypeOK
  <2>3. OneRegion(chosen') /\ \A i \in DOMAIN chosen' : Selectable(ModelOf[chosen'[i]])
    BY <2>1, <2>2, UniqueIs
  <2>4. OneRegion(ready')
    BY <2>1 DEF OneRegion
  <2> QED
    BY <2>1, <2>3, <2>4 DEF Probing, Selectable, Free, ModelHeld
<1>3. CASE List
  <2>1. /\ OneRegion(chosen') /\ \A i \in DOMAIN chosen' : Selectable(ModelOf[chosen'[i]])
        /\ queue' = chosen' /\ asked' = catalog
    BY <1>3, ListedIs DEF Inv
  <2>2. ready' = <<>> /\ held' = held
    BY <1>3 DEF List, Inv, Phases
  <2>3. OneRegion(ready')
    BY <2>2 DEF OneRegion
  <2> QED
    BY <2>1, <2>2, <2>3 DEF Probing, Selectable, Free, ModelHeld
<1>4. CASE Resolve \/ DoNotResolve
  <2>1. /\ queue \in Seq(Targets) /\ queue # <<>> /\ ready \in Seq(Targets)
        /\ Probing /\ pc = "probe" /\ queue' = Tail(queue)
        /\ UNCHANGED <<kept, asked, chosen>>
    BY <1>4 DEF Resolve, DoNotResolve, Inv, TypeOK
  <2>2. /\ Len(queue) \in Nat \ {0} /\ DOMAIN queue = 1 .. Len(queue)
        /\ DOMAIN queue' = 1 .. (Len(queue) - 1)
        /\ \A i \in DOMAIN queue' : queue'[i] = queue[i + 1]
        /\ Head(queue) = queue[1]
    BY <2>1
  <2>3. /\ OneRegion(ready) /\ OneRegion(queue)
        /\ \A i \in DOMAIN ready, j \in DOMAIN queue : ModelOf[ready[i]] # ModelOf[queue[j]]
        /\ \A i \in DOMAIN ready : Free(ModelOf[ready[i]])
        /\ \A i \in DOMAIN queue : Free(ModelOf[queue[i]])
        /\ chosen # <<>>
    BY <2>1 DEF Probing
  <2>4. OneRegion(queue') /\ \A i \in DOMAIN queue' : Free(ModelOf[queue'[i]])
    BY <2>2, <2>3, SMTT(30) DEF OneRegion
  <2>5. CASE ready' = ready
    BY <2>1, <2>2, <2>3, <2>4, <2>5 DEF Probing, Free, ModelHeld, kept
  <2>6. CASE ready' = Append(ready, Head(queue))
    <3>1. /\ DOMAIN ready = 1 .. Len(ready) /\ Len(ready) \in Nat
          /\ DOMAIN ready' = 1 .. (Len(ready) + 1)
          /\ \A i \in DOMAIN ready : ready'[i] = ready[i]
          /\ ready'[Len(ready) + 1] = queue[1]
      BY <2>1, <2>2, <2>6
    <3>2. OneRegion(ready')
      BY <2>2, <2>3, <3>1 DEF OneRegion
    <3>3. \A i \in DOMAIN ready' : Free(ModelOf[ready'[i]])
      BY <2>2, <2>3, <3>1
    <3>4. \A i \in DOMAIN ready', j \in DOMAIN queue' : ModelOf[ready'[i]] # ModelOf[queue'[j]]
      <4> TAKE i \in DOMAIN ready', j \in DOMAIN queue'
      <4>1. queue'[j] = queue[j + 1] /\ j + 1 \in DOMAIN queue /\ 1 \in DOMAIN queue /\ j + 1 # 1
        BY <2>2
      <4> QED
        BY <2>3, <3>1, <4>1 DEF OneRegion
    <3> QED
      BY <2>1, <2>3, <2>4, <3>2, <3>3, <3>4 DEF Probing, Free, ModelHeld, kept
  <2> QED
    BY <1>4, <2>5, <2>6 DEF Resolve, DoNotResolve
<1> QED
  BY <1>1, <1>2, <1>3, <1>4
     DEF Next, BeginSome, BeginDiscovery, BeginListed, Begin, Step, Collecting, StartRun,
         Answer, AnswerNotRecorded, SourceFails, Refresh, Arrange, Store, FinishRun, FailRun, End,
         Acquiring, Resolved, EndProbe, RefuseMany, Download, DownloadFails, Extract, Publish,
         ExtractFails, EndLoop, Exit, Fault, Crash, Forget, OthersList

(* The targets being downloaded: what is done to the one at hand leaves the  *)
(* others of the queue free, their models differ.                            *)
LEMMA StepLooping == Inv /\ [Next]_vars => Looping'
<1> SUFFICES ASSUME Inv, [Next]_vars, pc' \in {"loop", "extract", "publish"} PROVE Looping'
  BY DEF Looping
<1>1. CASE UNCHANGED vars \/ \E m \in Others : OthersList(m)
  <2>1. UNCHANGED <<held, extracted, pc, cmd, asked, queue, ready>>
    BY <1>1 DEF vars, kept, OthersList, local, chain
  <2> QED
    BY <2>1 DEF Inv, Looping, OneRegion, Free, ModelHeld, Acquired
<1>2. CASE Resolved
  <2>1. /\ queue' = ready /\ ready' = ready /\ pc' = "loop"
        /\ UNCHANGED <<kept, asked>> /\ pc = "probe" /\ Probing
    BY <1>2 DEF Resolved, Inv
  <2>2. OneRegion(queue)' /\ (\A i \in DOMAIN queue : Free(ModelOf[queue[i]]))'
    BY <2>1 DEF Probing, Free, ModelHeld, kept, OneRegion
  <2> QED
    BY <2>1, <2>2 DEF Looping
<1>3. CASE Download \/ Extract \/ Publish
  <2>1. /\ queue \in Seq(Targets) /\ queue # <<>> /\ UNCHANGED <<asked, ready, cmd>>
        /\ pc \in {"loop", "extract", "publish"} /\ Looping
    BY <1>3 DEF Download, Extract, Publish, Inv, TypeOK, Looping
  <2>2. /\ Len(queue) \in Nat \ {0} /\ DOMAIN queue = 1 .. Len(queue) /\ 1 \in DOMAIN queue
        /\ Head(queue) = queue[1]
        /\ DOMAIN Tail(queue) = 1 .. (Len(queue) - 1)
        /\ \A i \in DOMAIN Tail(queue) : Tail(queue)[i] = queue[i + 1] /\ i + 1 \in DOMAIN queue
    BY <2>1
  <2>3. /\ OneRegion(queue)
        /\ \A i \in DOMAIN queue : i > 1 \/ pc = "loop" => Free(ModelOf[queue[i]])
        /\ pc # "loop" => Head(queue) \in held
        /\ \A i \in DOMAIN ready : Acquired(ready[i]) \/ \E j \in DOMAIN queue : queue[j] = ready[i]
    BY <2>1 DEF Looping
  <2>4. /\ held' \subseteq held \cup {queue[1]} /\ held \subseteq held'
        /\ extracted \subseteq extracted'
    BY <1>3, <2>2 DEF Download, Extract, Publish
  <2>5. ASSUME NEW m, m # ModelOf[queue[1]], Free(m)
      PROVE  m \notin asked' /\ \A t \in held' : ModelOf[t] # m
    BY <2>1, <2>4, <2>5 DEF Free, ModelHeld
  <2>6. ASSUME NEW t, Acquired(t) PROVE Acquired(t)'
    BY <2>1, <2>4, <2>6 DEF Acquired
  <2>7. \A i \in DOMAIN queue : i > 1 => Free(ModelOf[queue[i]]) /\ ModelOf[queue[i]] # ModelOf[queue[1]]
    BY <2>2, <2>3 DEF OneRegion
  <2>8. CASE queue' = queue /\ pc' \in {"extract", "publish"}
    <3>1. queue[1] \in held' /\ (pc' = "publish" => queue[1] \in extracted')
      BY <1>3, <2>2, <2>3, <2>8 DEF Download, Extract, Publish
    <3>2. (\A i \in DOMAIN queue : i > 1 => Free(ModelOf[queue[i]]))'
      <4> SUFFICES ASSUME NEW i \in DOMAIN queue, i > 1, NEW m, m = ModelOf[queue[i]]
                   PROVE  m \notin asked' /\ \A t \in held' : ModelOf[t] # m
        BY <2>8 DEF Free, ModelHeld
      <4> QED
        BY <2>5, <2>7
    <3>3. (\A i \in DOMAIN ready :
               Acquired(ready[i]) \/ \E j \in DOMAIN queue : queue[j] = ready[i])'
      <4> SUFFICES ASSUME NEW i \in DOMAIN ready, NEW t, t = ready[i]
                   PROVE  Acquired(t)' \/ \E j \in DOMAIN queue : queue[j] = t
        BY <2>1, <2>8 DEF Acquired
      <4> QED
        BY <2>3, <2>6
    <3>4. OneRegion(queue)'
      BY <2>3, <2>8 DEF OneRegion
    <3> QED
      BY <2>1, <2>2, <2>8, <3>1, <3>2, <3>3, <3>4 DEF Looping
  <2>9. CASE queue' = Tail(queue) /\ pc' = "loop"
    <3>1. ASSUME NEW t, t = queue[1] PROVE Acquired(t)'
      <4>1. t \in held'
        BY <1>3, <2>2, <2>3, <2>9, <3>1 DEF Download, Extract, Publish
      <4>2. CASE Download
        BY <2>1, <2>9, <4>1, <4>2 DEF Download, Acquired
      <4>3. CASE Extract
        BY <2>2, <3>1, <4>1, <4>3 DEF Extract, Acquired
      <4>4. CASE Publish
        BY <2>1, <2>2, <2>4, <3>1, <4>1, <4>4 DEF Publish, Looping, Acquired
      <4> QED
        BY <1>3, <4>2, <4>3, <4>4
    <3>2. (\A i \in DOMAIN queue : Free(ModelOf[queue[i]]))'
      <4> SUFFICES ASSUME NEW i \in DOMAIN Tail(queue), NEW m, m = ModelOf[queue[i + 1]]
                   PROVE  m \notin asked' /\ \A t \in held' : ModelOf[t] # m
        BY <2>2, <2>9 DEF Free, ModelHeld
      <4>1. i + 1 \in DOMAIN queue /\ i + 1 > 1
        BY <2>2
      <4> QED
        BY <2>5, <2>7, <4>1
    <3>3. (\A i \in DOMAIN ready :
               Acquired(ready[i]) \/ \E j \in DOMAIN queue : queue[j] = ready[i])'
      <4> SUFFICES ASSUME NEW i \in DOMAIN ready, NEW t, t = ready[i]
                   PROVE  Acquired(t)' \/ \E j \in DOMAIN Tail(queue) : Tail(queue)[j] = t
        BY <2>1, <2>9 DEF Acquired
      <4>1. CASE Acquired(t)
        BY <2>6, <4>1
      <4>2. ASSUME NEW j \in DOMAIN queue, queue[j] = t, j > 1
            PROVE  \E k \in DOMAIN Tail(queue) : Tail(queue)[k] = t
        <5>1. j - 1 \in DOMAIN Tail(queue) /\ Tail(queue)[j - 1] = queue[j]
          BY <2>2, <4>2
        <5> QED
          BY <4>2, <5>1
      <4>3. CASE queue[1] = t
        BY <3>1, <4>3
      <4> QED
        BY <2>2, <2>3, <4>1, <4>2, <4>3
    <3>4. OneRegion(queue)'
      <4> SUFFICES ASSUME NEW i \in DOMAIN Tail(queue), NEW j \in DOMAIN Tail(queue),
                          ModelOf[Tail(queue)[i]] = ModelOf[Tail(queue)[j]]
                   PROVE  i = j
        BY <2>9 DEF OneRegion
      <4>1. i + 1 = j + 1
        BY <2>2, <2>3 DEF OneRegion
      <4> QED
        BY <2>2, <4>1
    <3> QED
      BY <2>9, <3>2, <3>3, <3>4 DEF Looping
  <2> QED
    BY <1>3, <2>8, <2>9 DEF Download, Extract, Publish
<1> QED
  BY <1>1, <1>2, <1>3
     DEF Next, BeginSome, BeginDiscovery, BeginListed, Begin, Step, Collecting, StartRun,
         Answer, AnswerNotRecorded, SourceFails, Refresh, Arrange, Store, FinishRun, FailRun, End,
         Acquiring, Select, List, Resolve, DoNotResolve, EndProbe, RefuseMany, DownloadFails,
         ExtractFails, EndLoop, Exit, Fault, Crash, Forget, OthersList

(* Exit status 0.                                                            *)
LEMMA StepExitZero == Inv /\ [Next]_vars => ExitZeroIsComplete'
<1> SUFFICES ASSUME Inv, [Next]_vars PROVE ExitZeroIsComplete'
  OBVIOUS
<1> USE DEF ExitZeroIsComplete
<1>1. CASE UNCHANGED vars \/ \E m \in Others : OthersList(m)
  BY <1>1 DEF Inv, OthersList, vars, kept, local, disc, chain, ToSet
<1>2. CASE pc' # "exit"
  BY <1>2
<1>3. CASE FinishRun
  <2>1. ready = <<>> /\ cmd \in {"discover", "sync"}
    BY <1>3 DEF FinishRun, Inv, Phases
  <2>2. ToSet(ready') = {}
    BY <1>3, <2>1 DEF FinishRun, chain, ToSet
  <2>3. code' = 0 /\ pc' = "exit" => errors # Sources /\ errors' = errors /\ cmd' = cmd
    BY <1>3 DEF FinishRun, End, SourcesCode, disc
  <2> QED
    BY <2>2, <2>3
<1>4. CASE EndProbe
  <2>1. /\ cmd' = cmd /\ errors' = errors /\ ready' = ready
        /\ pc = "probe" /\ pc' = "exit" /\ cmd \in {"sync", "probe", "download"}
    BY <1>4 DEF EndProbe, End, Inv, Phases, chain, disc
  <2>2. CASE cmd = "download"
    <3>1. code' = 0 => chosen = <<>>
      BY <1>4, <2>2 DEF EndProbe, End
    <3>2. chosen = <<>> => ready' = <<>>
      BY <2>1 DEF Inv, Probing
    <3>3. code' = 0 => ToSet(ready') = {}
      BY <3>1, <3>2 DEF ToSet
    <3> QED
      BY <2>1, <2>2, <3>3
  <2>3. CASE cmd = "sync"
    <3>1. ~Automatic /\ (code' = 0 => errors # Sources)
      BY <1>4, <2>3 DEF EndProbe, End, GoesOn, NoneResolved, SourcesCode
    <3> QED
      BY <2>1, <2>3, <3>1
  <2> QED
    BY <2>1, <2>2, <2>3
<1>5. CASE EndLoop
  <2>1. /\ cmd' = cmd /\ errors' = errors /\ ready' = ready /\ UNCHANGED kept
        /\ pc = "loop" /\ queue = <<>> /\ Looping
        /\ cmd = "download" \/ (cmd = "sync" /\ Automatic)
    BY <1>5 DEF EndLoop, Inv, Phases, chain, disc
  <2>2. \A i \in DOMAIN ready : Acquired(ready[i])
    BY <2>1 DEF Looping
  <2>3. ToSet(ready') \subseteq held'
    BY <2>1, <2>2 DEF Acquired, ToSet, kept
  <2>4. cmd = "sync" /\ AutoExtract => ToSet(ready') \subseteq extracted'
    BY <2>1, <2>2 DEF Acquired, ToSet, kept
  <2>5. code' = 0 /\ cmd = "sync" => errors # Sources
    BY <1>5 DEF EndLoop, End, SourcesCode
  <2> QED
    BY <2>1, <2>3, <2>4, <2>5
<1>6. CASE RefuseMany \/ DownloadFails \/ ExtractFails \/ FailRun \/ Fault
  BY <1>6 DEF RefuseMany, DownloadFails, ExtractFails, FailRun, Fault, End
<1>7. CASE \/ BeginSome \/ StartRun \/ Refresh \/ Arrange \/ Store \/ Select \/ List \/ Resolve
           \/ DoNotResolve \/ Resolved \/ Download \/ Extract \/ Publish \/ Exit \/ Crash
           \/ \E s \in Sources : SourceFails(s)
           \/ \E s \in Sources : \E a \in Answers[s] : Answer(s, a) \/ AnswerNotRecorded(s, a)
  <2>1. pc' # "exit"
    BY <1>7 DEF BeginSome, BeginDiscovery, BeginListed, Begin, StartRun, Refresh, Arrange, Store,
                Select, List, Resolve, DoNotResolve, Resolved, Download, Extract, Publish, Exit, Crash,
                Forget, SourceFails, Answer, AnswerNotRecorded
  <2> QED
    BY <2>1
<1> QED
  BY <1>1, <1>3, <1>4, <1>5, <1>6, <1>7 DEF Next, Step, Collecting, Acquiring

(* The records of the eligible targets.                                      *)
LEMMA SeenIs ==
    ASSUME TypeOK, Fetching
    PROVE  /\ \A o \in Seen : o \in Item /\ o.age \in Nat /\ o.target \in Targets
           /\ \A o \in Seen : \E p \in Recent(order) : o = ItemAt(order, p)
           /\ \A p \in Recent(order) : ItemAt(order, p) \in Seen
<1>1. Gathered(order)
  BY OrderGathered
<1>2. \A o \in Seen : \E p \in Recent(order) : o = ItemAt(order, p)
  BY DEF Seen, Collected, Recent
<1>3. \A p \in Recent(order) : ItemAt(order, p) \in Seen
  BY DEF Seen, Collected, Recent
<1>4. \A p \in Recent(order) : /\ ItemAt(order, p) \in Item /\ ItemAt(order, p).age \in Nat
                               /\ ItemAt(order, p).target \in Targets
  BY <1>1, RecentItems
<1> QED
  BY <1>2, <1>3, <1>4

LEMMA NewestIs ==
    ASSUME TypeOK, Fetching, NEW t, \E o \in Seen : o.target = t
    PROVE  /\ Newest(t) \in Nat
           /\ \A o \in Seen : o.target = t => Newest(t) <= o.age
           /\ \E o \in Seen : o.target = t /\ o.age = Newest(t)
<1> DEFINE S == {o.age : o \in {x \in Seen : x.target = t}}
<1>1. S \subseteq Nat /\ S # {}
  BY SeenIs
<1>2. \E x \in S : \A y \in S : x <= y
  BY <1>1, Least
<1>3. Newest(t) \in S /\ \A y \in S : Newest(t) <= y
  BY <1>2 DEF Newest, Min
<1> QED
  BY <1>1, <1>3

LEMMA SeenKept ==
    ASSUME UNCHANGED <<fetched, order, listed>>, Progress(todo', found', known')
    PROVE  Storing'
<1>1. Seen' = Seen
  BY DEF Seen, Collected, Positions, ItemAt, Eligible
<1> QED
  BY <1>1 DEF Storing, Progress, Newest

(* Sorted and limited, nothing stored yet.                                   *)
LEMMA ArrangeProgress == Inv /\ Arrange => Progress(todo', found', known')
<1> SUFFICES ASSUME Inv, Arrange PROVE Progress(todo', found', known')
  OBVIOUS
<1> DEFINE left == Limited(order, Recent(order), limit)
<1>1. TypeOK /\ Fetching /\ Gathered(order)
  BY OrderGathered DEF Inv
<1>2. todo' = ToStore(order, limit) /\ found' = <<>>
  BY DEF Arrange, ToStore, Inv, Phases
<1>3. limit = None \/ limit \in Nat
  BY BoundsType DEF Arrange, Inv, Phases
<1>4. /\ \A k \in DOMAIN todo' : \E p \in left : todo'[k] = ItemAt(order, p)
      /\ \A p \in left : \E k \in DOMAIN todo' : todo'[k] = ItemAt(order, p)
      /\ \A k, l \in DOMAIN todo' : k < l => todo'[k].age <= todo'[l].age
  BY <1>1, <1>2, ToStoreIs
<1>5. left \subseteq Recent(order)
  BY DEF Limited
<1>6. ASSUME NEW o \in Seen, \A k \in DOMAIN todo' : todo'[k] # o
      PROVE  \A k \in DOMAIN todo' :
                 todo'[k].target # o.target /\ Newest(todo'[k].target) <= o.age
  <2> TAKE k \in DOMAIN todo'
  <2>1. PICK p \in Recent(order) : o = ItemAt(order, p)
    BY <1>1, SeenIs
  <2>2. PICK q \in left : todo'[k] = ItemAt(order, q)
    BY <1>4
  <2>3. p \notin left
    BY <1>4, <1>6, <2>1
  <2>4. /\ ItemAt(order, q).target # o.target
        /\ \E r \in Recent(order) : /\ ItemAt(order, r).target = ItemAt(order, q).target
                                    /\ ItemAt(order, r).age <= o.age
    BY <1>1, <1>3, <2>1, <2>2, <2>3, DroppedIsOlder
  <2>5. PICK x \in Seen : x.target = todo'[k].target /\ x.age <= o.age
    BY <1>1, <2>2, <2>4, SeenIs
  <2>6. Newest(todo'[k].target) \in Nat /\ Newest(todo'[k].target) <= x.age
    BY <1>1, <2>5, NewestIs
  <2>7. x.age \in Nat /\ o.age \in Nat
    BY <1>1, SeenIs
  <2> QED
    BY <2>2, <2>4, <2>5, <2>6, <2>7
<1>7. \A k \in DOMAIN todo' : todo'[k] \in Seen
  BY <1>1, <1>4, <1>5, SeenIs
<1> QED
  BY <1>2, <1>4, <1>6, <1>7 DEF Progress

(* One more stored: a target that is new has its most recent record here.    *)
LEMMA StoreProgress == Inv /\ Store => Progress(todo', found', known')
<1> SUFFICES ASSUME Inv, Store PROVE Progress(todo', found', known')
  OBVIOUS
<1> DEFINE h == Head(todo)
           t == h.target
<1>1. /\ TypeOK /\ Fetching /\ todo \in Seq(Item) /\ todo # <<>> /\ found \in Seq(Targets)
      /\ known \in [Targets -> SUBSET Sources] /\ Progress(todo, found, known)
  BY DEF Inv, TypeOK, Storing, Store
<1>2. /\ Len(todo) \in Nat \ {0} /\ DOMAIN todo = 1 .. Len(todo) /\ h = todo[1]
      /\ 1 \in DOMAIN todo
      /\ DOMAIN todo' = 1 .. (Len(todo) - 1)
      /\ \A k \in DOMAIN todo' : todo'[k] = todo[k + 1] /\ k + 1 \in DOMAIN todo
  BY <1>1 DEF Store
<1>3. h \in Seen /\ h \in Item /\ h.age \in Nat /\ t \in Targets /\ h.source \in Sources
  BY <1>1, <1>2, SeenIs DEF Progress, Item
<1>4. \A k \in DOMAIN todo : h.age <= todo[k].age /\ todo[k] \in Seen /\ todo[k].age \in Nat
  <2> TAKE k \in DOMAIN todo
  <2>1. todo[k] \in Seen /\ todo[k].age \in Nat
    BY <1>1, SeenIs DEF Progress
  <2>2. k = 1 \/ 1 < k
    BY <1>2
  <2> QED
    BY <1>1, <1>2, <1>3, <2>1, <2>2 DEF Progress
<1>5. \A u \in Targets : known[u] \subseteq known'[u] /\ h.source \in known'[t]
  BY <1>1, <1>3 DEF Store
<1>6. /\ \A k \in DOMAIN todo' : todo'[k] \in Seen
      /\ \A k, l \in DOMAIN todo' : k < l => todo'[k].age <= todo'[l].age
  <2>1. ASSUME NEW k \in DOMAIN todo', NEW l \in DOMAIN todo', k < l
        PROVE  todo'[k].age <= todo'[l].age
    <3>1. k + 1 \in DOMAIN todo /\ l + 1 \in DOMAIN todo /\ k + 1 < l + 1
      BY <1>2, <2>1
    <3>2. todo[k + 1].age <= todo[l + 1].age
      BY <1>1, <3>1 DEF Progress
    <3> QED
      BY <1>2, <3>2
  <2> QED
    BY <1>2, <1>4, <2>1
<1>7. CASE Contains(found, t)
  <2>1. found' = found
    BY <1>7 DEF Store
  <2>2. \E i \in DOMAIN found : found[i] = t
    BY <1>1, <1>7 DEF Contains
  <2>3. ASSUME NEW o \in Seen
        PROVE  \/ \E k \in DOMAIN todo' : todo'[k] = o
               \/ /\ \E i \in DOMAIN found : found[i] = o.target
                  /\ o.source \in known'[o.target]
               \/ /\ \A i \in DOMAIN found : found[i] # o.target
                  /\ \A k \in DOMAIN todo' : todo'[k].target # o.target
                  /\ \A i \in DOMAIN found : Newest(found[i]) <= o.age
                  /\ \A k \in DOMAIN todo' : Newest(todo'[k].target) <= o.age
    <3>1. CASE o = h
      BY <1>5, <1>3, <2>2, <3>1
    <3>2. ASSUME NEW k \in DOMAIN todo, k > 1, todo[k] = o
          PROVE  \E l \in DOMAIN todo' : todo'[l] = o
      <4>1. k - 1 \in DOMAIN todo' /\ todo'[k - 1] = todo[k]
        BY <1>2, <3>2
      <4> QED
        BY <3>2, <4>1
    <3>3. o.target \in Targets
      BY <1>1, SeenIs
    <3>4. \/ \E k \in DOMAIN todo : todo[k] = o
          \/ /\ \E i \in DOMAIN found : found[i] = o.target
             /\ o.source \in known[o.target]
          \/ /\ \A i \in DOMAIN found : found[i] # o.target
             /\ \A k \in DOMAIN todo : todo[k].target # o.target
             /\ \A i \in DOMAIN found : Newest(found[i]) <= o.age
             /\ \A k \in DOMAIN todo : Newest(todo[k].target) <= o.age
      BY <1>1 DEF Progress
    <3>5. ASSUME NEW k \in DOMAIN todo, todo[k] = o PROVE o = h \/ k > 1
      BY <1>2, <3>5
    <3>6. CASE \E k \in DOMAIN todo : todo[k] = o
      BY <3>1, <3>2, <3>5, <3>6
    <3> QED
      BY <1>2, <1>5, <3>3, <3>4, <3>6
  <2>4. \A i \in DOMAIN found, k \in DOMAIN todo' : Newest(found[i]) <= todo'[k].age
    BY <1>1, <1>2 DEF Progress
  <2> QED
    BY <1>1, <1>6, <2>1, <2>3, <2>4 DEF Progress
<1>8. CASE ~Contains(found, t)
  <2>1. /\ found' = Append(found, t)
        /\ \A i \in DOMAIN found : found[i] # t
    BY <1>1, <1>8 DEF Store, Contains
  <2>2. /\ DOMAIN found = 1 .. Len(found) /\ Len(found) \in Nat
        /\ DOMAIN found' = 1 .. (Len(found) + 1)
        /\ \A i \in DOMAIN found : found'[i] = found[i]
        /\ found'[Len(found) + 1] = t
    BY <1>1, <1>3, <2>1
  <2>3. Newest(t) = h.age
    <3>1. PICK o \in Seen : o.target = t /\ o.age = Newest(t)
      BY <1>1, <1>3, NewestIs
    <3>2. Newest(t) \in Nat /\ Newest(t) <= h.age
      BY <1>1, <1>3, NewestIs
    <3>3. \E k \in DOMAIN todo : todo[k] = o
      BY <1>1, <1>2, <2>1, <3>1 DEF Progress
    <3> QED
      BY <1>3, <1>4, <3>1, <3>2, <3>3
  <2>4. \A i \in DOMAIN found : Newest(found[i]) <= h.age /\ Newest(found[i]) \in Nat
    BY <1>1, <1>2, NewestIs DEF Progress
  <2>5. \A i \in DOMAIN found' : \E o \in Seen : o.target = found'[i]
    BY <1>1, <1>3, <2>2 DEF Progress
  <2>6. \A i, j \in DOMAIN found' : i < j => Newest(found'[i]) <= Newest(found'[j])
    <3> TAKE i, j \in DOMAIN found'
    <3>1. CASE i \in DOMAIN found /\ j \in DOMAIN found
      BY <1>1, <2>2, <3>1 DEF Progress
    <3>2. CASE i \in DOMAIN found /\ j = Len(found) + 1
      BY <2>2, <2>3, <2>4, <3>2
    <3> QED
      BY <2>2, <3>1, <3>2
  <2>7. \A i \in DOMAIN found', k \in DOMAIN todo' : Newest(found'[i]) <= todo'[k].age
    <3> TAKE i \in DOMAIN found', k \in DOMAIN todo'
    <3>1. CASE i \in DOMAIN found
      BY <1>1, <1>2, <2>2, <3>1 DEF Progress
    <3>2. CASE i = Len(found) + 1
      BY <1>2, <1>4, <2>2, <2>3, <3>2
    <3> QED
      BY <2>2, <3>1, <3>2
  <2>8. ASSUME NEW o \in Seen
        PROVE  \/ \E k \in DOMAIN todo' : todo'[k] = o
               \/ /\ \E i \in DOMAIN found' : found'[i] = o.target
                  /\ o.source \in known'[o.target]
               \/ /\ \A i \in DOMAIN found' : found'[i] # o.target
                  /\ \A k \in DOMAIN todo' : todo'[k].target # o.target
                  /\ \A i \in DOMAIN found' : Newest(found'[i]) <= o.age
                  /\ \A k \in DOMAIN todo' : Newest(todo'[k].target) <= o.age
    <3>1. CASE o = h
      BY <1>5, <1>3, <2>2, <3>1
    <3>2. ASSUME NEW k \in DOMAIN todo, k > 1, todo[k] = o
          PROVE  \E l \in DOMAIN todo' : todo'[l] = o
      <4>1. k - 1 \in DOMAIN todo' /\ todo'[k - 1] = todo[k]
        BY <1>2, <3>2
      <4> QED
        BY <3>2, <4>1
    <3>3. o.target \in Targets
      BY <1>1, SeenIs
    <3>4. CASE \E k \in DOMAIN todo : todo[k] = o
      BY <1>2, <3>1, <3>2, <3>4
    <3>5. CASE (\E i \in DOMAIN found : found[i] = o.target) /\ o.source \in known[o.target]
      BY <1>5, <2>2, <3>3, <3>5
    <3>6. CASE /\ \A i \in DOMAIN found : found[i] # o.target
               /\ \A k \in DOMAIN todo : todo[k].target # o.target
               /\ \A i \in DOMAIN found : Newest(found[i]) <= o.age
               /\ \A k \in DOMAIN todo : Newest(todo[k].target) <= o.age
      <4>1. t # o.target /\ Newest(t) <= o.age
        BY <1>2, <3>6
      <4> QED
        BY <1>2, <2>2, <3>6, <4>1, SMTT(30)
    <3> QED
      BY <1>1, <3>4, <3>5, <3>6 DEF Progress
  <2> QED
    BY <1>6, <2>5, <2>6, <2>7, <2>8 DEF Progress
<1> QED
  BY <1>7, <1>8

LEMMA StepStoring == Inv /\ [Next]_vars => Storing'
<1> SUFFICES ASSUME Inv, [Next]_vars, pc' \in {"store", "select"} PROVE Storing'
  BY DEF Storing
<1>1. CASE UNCHANGED vars \/ \E m \in Others : OthersList(m)
  <2>1. UNCHANGED <<stored, listed, pc, local>>
    BY <1>1 DEF vars, kept, index, OthersList
  <2>2. Progress(todo, found, known)
    BY <2>1 DEF Inv, Storing
  <2> QED
    BY <2>1, <2>2, SeenKept DEF stored, local, disc
<1>2. CASE Arrange
  BY <1>2, ArrangeProgress, SeenKept DEF Arrange, kept, index
<1>3. CASE Store
  BY <1>3, StoreProgress, SeenKept DEF Store, kept, index
<1>4. CASE FinishRun
  <2>1. Progress(todo, found, known)
    BY <1>4 DEF Inv, Storing, FinishRun
  <2> QED
    BY <1>4, <2>1, SeenKept DEF FinishRun, kept, index, disc
<1> QED
  BY <1>1, <1>2, <1>3, <1>4
     DEF Next, BeginSome, BeginDiscovery, BeginListed, Begin, Step, Collecting, StartRun,
         Answer, AnswerNotRecorded, SourceFails, Refresh, FailRun, End, Acquiring, Select, List,
         Resolve, DoNotResolve, Resolved, EndProbe, RefuseMany, Download, DownloadFails,
         Extract, Publish, ExtractFails, EndLoop, Exit, Fault, Crash, Forget

(* What the selection makes of it.                                           *)
LEMMA SelectsRecent == Inv => MostRecentFirst
<1> DEFINE sel == UniqueByModel(found)
<1> SUFFICES ASSUME Inv, pc = "select"
             PROVE  /\ \A i \in DOMAIN sel : \A o \in Seen :
                           ModelOf[o.target] = ModelOf[sel[i]] => Newest(sel[i]) <= o.age
                    /\ \A i, j \in DOMAIN sel : i < j => Newest(sel[i]) <= Newest(sel[j])
                    /\ \A t \in ToSet(found) : Selectable(ModelOf[t]) =>
                           \E i \in DOMAIN sel : ModelOf[sel[i]] = ModelOf[t]
                    /\ \A o \in Seen :
                           IF Contains(found, o.target)
                           THEN o.source \in known[o.target]
                           ELSE \A i \in DOMAIN found : Newest(found[i]) <= o.age
  BY DEF MostRecentFirst, Seen, Newest
<1>1. /\ TypeOK /\ Fetching /\ found \in Seq(Targets)
      /\ todo = <<>> /\ Progress(todo, found, known)
  BY DEF Inv, TypeOK, Storing, Phases
<1>2. ASSUME NEW o \in Seen
      PROVE  \/ /\ \E i \in DOMAIN found : found[i] = o.target
                /\ o.source \in known[o.target]
             \/ /\ \A i \in DOMAIN found : found[i] # o.target
                /\ \A i \in DOMAIN found : Newest(found[i]) <= o.age
  BY <1>1 DEF Progress
<1>3. DOMAIN found = 1 .. Len(found) /\ Len(found) \in Nat
  BY <1>1
<1>4. \A i \in DOMAIN found : Newest(found[i]) \in Nat
  BY <1>1, NewestIs DEF Progress
<1>5. ASSUME NEW i \in DOMAIN found, NEW j \in DOMAIN found, i <= j
      PROVE  Newest(found[i]) <= Newest(found[j])
  <2>1. CASE i < j
    BY <1>1, <2>1 DEF Progress
  <2>2. CASE i = j
    BY <1>4, <2>2
  <2> QED
    BY <1>3, <1>5, <2>1, <2>2
<1>6. PICK at \in [DOMAIN sel -> DOMAIN found] :
          /\ \A k \in DOMAIN sel : sel[k] = found[at[k]]
          /\ \A k, l \in DOMAIN sel : k < l => at[k] < at[l]
          /\ \A k \in DOMAIN sel : \A i \in DOMAIN found :
                 ModelOf[found[i]] = ModelOf[sel[k]] => at[k] <= i
  BY <1>1, UniqueIs
<1>7. \A i \in DOMAIN found : Selectable(ModelOf[found[i]]) =>
          \E k \in DOMAIN sel : ModelOf[sel[k]] = ModelOf[found[i]]
  BY <1>1, UniqueIs
<1> HIDE DEF sel
<1>8. ASSUME NEW k \in DOMAIN sel, NEW o \in Seen, ModelOf[o.target] = ModelOf[sel[k]]
      PROVE  Newest(sel[k]) <= o.age
  <2>1. at[k] \in DOMAIN found /\ sel[k] = found[at[k]]
    BY <1>6
  <2>2. CASE \A i \in DOMAIN found : Newest(found[i]) <= o.age
    BY <2>1, <2>2
  <2>3. ASSUME NEW i \in DOMAIN found, found[i] = o.target PROVE Newest(sel[k]) <= o.age
    <3>1. Newest(found[at[k]]) <= Newest(found[i])
      BY <1>5, <1>6, <1>8, <2>1, <2>3
    <3>2. Newest(found[i]) <= o.age /\ o.age \in Nat
      BY <1>1, <2>3, NewestIs, SeenIs
    <3> QED
      BY <1>4, <2>1, <3>1, <3>2
  <2> QED
    BY <1>2, <2>2, <2>3
<1>9. ASSUME NEW i \in DOMAIN sel, NEW j \in DOMAIN sel, i < j
      PROVE  Newest(sel[i]) <= Newest(sel[j])
  <2>1. at[i] \in DOMAIN found /\ at[j] \in DOMAIN found /\ at[i] < at[j]
    BY <1>6, <1>9
  <2>2. Newest(found[at[i]]) <= Newest(found[at[j]])
    BY <1>3, <1>5, <2>1
  <2> QED
    BY <1>6, <2>2
<1>10. \A t \in ToSet(found) : Selectable(ModelOf[t]) =>
           \E i \in DOMAIN sel : ModelOf[sel[i]] = ModelOf[t]
  BY <1>7 DEF ToSet
<1>11. ASSUME NEW o \in Seen
       PROVE  IF Contains(found, o.target)
              THEN o.source \in known[o.target]
              ELSE \A i \in DOMAIN found : Newest(found[i]) <= o.age
  BY <1>2, <1>3 DEF Contains
<1> QED
  BY <1>8, <1>9, <1>10, <1>11

LEMMA InitInv == Init => Inv
<1> SUFFICES ASSUME Init PROVE Inv
  OBVIOUS
<1>1. <<>> \in Seq(Targets) /\ IsInjective(<<>>)
  BY DEF IsInjective
<1>2. TypeOK
  BY <1>1 DEF Init, TypeOK, PC, Commands
<1>3. Tables
  <2>1. {t \in Targets : known[t] # {}} = {}
    BY DEF Init
  <2> QED
    BY <2>1, FS_EmptySet DEF Tables
<1>4. Fetching
  BY DEF Init, Fetching, IsInjective
<1>5. Phases /\ Probing /\ Looping /\ ExitZeroIsComplete /\ Storing
  BY DEF Init, Phases, Probing, Looping, ExitZeroIsComplete, Storing
<1> QED
  BY <1>2, <1>3, <1>4, <1>5 DEF Inv

(* The parts of the invariant keep each other.                               *)
THEOREM Invariance == Spec => []Inv
<1>1. Inv /\ [Next]_vars => Inv'
  BY StepTyped, StepTables, StepFetching, StepPhases, StepProbing, StepLooping,
     StepExitZero, StepStoring DEF Inv
<1> QED
  BY InitInv, <1>1, PTL DEF Spec

(* Tables, checkpoints and what the process holds keep their types, for any  *)
(* sources, answers and targets.                                             *)
THEOREM SyncTypeCorrect == Spec => []TypeOK
<1>1. Inv => TypeOK
  BY DEF Inv
<1> QED
  BY Invariance, <1>1, PTL

(* What discover() stores, and in which order, does not depend on the order  *)
(* in which any number of sources answer.                                    *)
THEOREM MergeIsIndependent == Spec => []OrderIndependent
<1>1. Inv => OrderIndependent
  BY MergeIndependent DEF Inv
<1> QED
  BY Invariance, <1>1, PTL

(* sync resolves of each model the region with the most recent record, the   *)
(* most recent models first, and --limit drops the oldest targets only.      *)
THEOREM SelectionIsMostRecent == Spec => []MostRecentFirst
  BY Invariance, SelectsRecent, PTL

(* When its turn comes in the loop, a model is not held by any region, and   *)
(* was not in the catalog that its selection asked, however many targets the *)
(* loop has and whatever others list in the catalog meanwhile.               *)
THEOREM WereSelectable == Spec => []DownloadsWereSelectable
<1>1. Inv => DownloadsWereSelectable
  BY DEF Inv, Looping, Free, DownloadsWereSelectable
<1> QED
  BY Invariance, <1>1, PTL

(* sync and download exit with 0 only when all that resolved is held, and    *)
(* extracted where that is automatic.                                        *)
THEOREM ZeroIsComplete == Spec => []ExitZeroIsComplete
<1>1. Inv => ExitZeroIsComplete
  BY DEF Inv
<1> QED
  BY Invariance, <1>1, PTL

(* Held are the targets of Download, the first of the queue: the invariant   *)
(* says that they are free, held or extracted as the archive asks. A model   *)
(* that others listed is not published.                                      *)
LEMMA ArchiveStep == Inv /\ [Next]_vars => [Archive!Next]_(Archive!avars)
<1> SUFFICES ASSUME Inv, [Next]_vars PROVE Archive!Next \/ UNCHANGED Archive!avars
  OBVIOUS
<1>1. CASE UNCHANGED <<held, extracted, published>>
  BY <1>1 DEF Archive!avars
<1>2. CASE Download \/ DownloadFails
  <2>1. /\ queue \in Seq(Targets) /\ queue # <<>> /\ pc = "loop"
        /\ held' \in {held, held \cup {Head(queue)}}
        /\ UNCHANGED <<extracted, published>>
    BY <1>2 DEF Download, DownloadFails, Inv, TypeOK
  <2>2. Head(queue) \in Targets /\ Head(queue) = queue[1] /\ 1 \in DOMAIN queue
    BY <2>1
  <2>3. Free(ModelOf[Head(queue)])
    BY <2>1, <2>2 DEF Inv, Looping
  <2>4. \A h \in held : ModelOf[h] # ModelOf[Head(queue)]
    BY <2>3 DEF Free, ModelHeld
  <2> QED
    BY <2>1, <2>2, <2>4 DEF Archive!Next, Archive!Hold, Archive!avars
<1>3. CASE Extract
  <2>1. /\ queue \in Seq(Targets) /\ queue # <<>> /\ Head(queue) \in held
        /\ extracted' = extracted \cup {Head(queue)} /\ UNCHANGED <<held, published>>
    BY <1>3 DEF Extract, Inv, TypeOK, Looping
  <2>2. Head(queue) \in Targets
    BY <2>1
  <2> QED
    BY <2>1, <2>2 DEF Archive!Next, Archive!Extract, Archive!avars
<1>4. CASE Publish
  <2>1. /\ queue \in Seq(Targets) /\ queue # <<>> /\ Head(queue) \in extracted
        /\ published' \in {published, published \cup {ModelOf[Head(queue)]}}
        /\ UNCHANGED <<held, extracted>>
    BY <1>4 DEF Publish, Inv, TypeOK, Looping
  <2>2. ModelOf[Head(queue)] \in Models
    BY <2>1, RegionType
  <2> QED
    BY <2>1, <2>2 DEF Archive!Next, Archive!Publish, Archive!avars
<1> QED
  BY <1>1, <1>2, <1>3, <1>4
     DEF Next, BeginSome, BeginDiscovery, BeginListed, Begin, Step, Collecting, StartRun,
         Answer, AnswerNotRecorded, SourceFails, Refresh, Arrange, Store, FinishRun, FailRun,
         Acquiring, Select, List, Resolve, DoNotResolve, Resolved, EndProbe, RefuseMany,
         ExtractFails, EndLoop, Exit, Fault, Crash, OthersList, vars, kept

(* Every step of the commands over many targets is a step of the archive, or *)
(* none: one region per model, extraction only of what is held, publication  *)
(* only of what is extracted, nothing taken back.                            *)
THEOREM SyncKeepsArchive == Spec => ImplementsArchive
<1>1. Init => Archive!Init
  BY DEF Init, Archive!Init
<1> QED
  BY Invariance, <1>1, ArchiveStep, PTL DEF Spec, ImplementsArchive, Archive!Spec
=============================================================================
