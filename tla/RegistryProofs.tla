--------------------------- MODULE RegistryProofs ---------------------------
(***************************************************************************)
(* Registry, for any processes, targets, sources, versions and scripts.    *)
(***************************************************************************)
EXTENDS Registry, SequenceTheorems, TLAPS

-----------------------------------------------------------------------------
(* The inductive invariant.                                                  *)

(* Steps of a process with the process lock.                                 *)
Inside == {"select", "d_start"} \cup Naming \cup Resolving \cup Erring
              \cup Cataloguing \cup Handling \cup Recording

(* Steps with a transaction that transaction() began...                      *)
Begun == {"m_record", "m_commit", "n_observed", "n_commit", "u_observed", "u_commit",
          "v_state", "v_commit", "d_state_commit"}

(* ... or a bare statement did...                                            *)
Pending == {"t_commit", "e_commit", "d_blob_commit", "d_artifact_commit",
            "h_failure_commit"}

(* ... and steps at which what a commit that raised left may be open still.  *)
MayPend == {"e_row", "h_state", "h_failure", "close"}

ConnInv ==
    /\ writer = None <=> tx = "none"
    /\ writer = None => seen = disk
    /\ \A p \in Procs :
        /\ pc[p] \in Begun => writer = p /\ tx = "explicit"
        /\ pc[p] \in Pending => writer = p /\ tx = "implicit"
        /\ pc[p] = "h_state_commit" => writer = p
        /\ writer = p =>
            \/ pc[p] \in Begun \cup Pending \cup {"h_state_commit"}
            \/ pc[p] \in MayPend /\ tx = "implicit"

LockInv ==
    \A p \in Procs :
        /\ pc[p] \in Inside => holder = p
        /\ holder = p => pc[p] \in Inside \cup {"close"}

ControlType ==
    /\ tx \in {"none", "implicit", "explicit"}
    /\ writer \in Procs \cup {None}
    /\ pc \in [Procs -> Locations]
    /\ script \in [Procs -> Nat]
    /\ holder \in Procs \cup {None}

ControlInv == ControlType /\ ConnInv /\ LockInv

(* What holds of the tables at the end of every statement...                 *)
Canonical(T) ==
    /\ \A i, j \in DOMAIN T.release :
          T.release[i].target = T.release[j].target
              /\ T.release[i].ap = T.release[j].ap => i = j
    /\ \A t \in Targets, v \in Versions :
          T.observed[t][v] # 0 =>
              /\ T.observed[t][v] \in DOMAIN T.release
              /\ T.release[T.observed[t][v]].target = t
              /\ T.release[T.observed[t][v]].ap = v.ap

Columns(r) ==
    /\ r.ap = r.full.ap
    /\ r.tail = r.full.tail
    /\ r.full.data # None => r.data = r.full.data

Home(T) ==
    \A t \in Targets :
        T.target[t] # None /\ T.target[t].latest # 0 =>
            /\ T.target[t].latest \in DOMAIN T.release
            /\ T.target[t].full # None
            /\ T.release[T.target[t].latest].target = t
            /\ T.release[T.target[t].latest].ap = T.target[t].full.ap
            /\ T.release[T.target[t].latest].state # "DISCOVERED"

InOrder(T) ==
    /\ \A i \in DOMAIN T.release : T.release[i].state = "DECRYPTED" => i \in Catalogued(T)
    /\ \A a \in T.artifact : a.sha256 \in T.blob

Shape(T) ==
    /\ Canonical(T)
    /\ \A i \in DOMAIN T.release : Columns(T.release[i])
    /\ Home(T)
    /\ InOrder(T)

(* ... and of every release, but for the one i an observation of v is to be  *)
(* recorded of.                                                              *)
ObservedBut(T, i, v) ==
    \A k \in DOMAIN T.release :
        \/ T.observed[T.release[k].target][T.release[k].full] = k
        \/ k = i /\ T.release[k].full = v

AllObserved(T) ==
    \A k \in DOMAIN T.release : T.observed[T.release[k].target][T.release[k].full] = k

(* U holds on to what T has.                                                 *)
Keeps(T, U) ==
    /\ \A i \in DOMAIN T.release :
          /\ i \in DOMAIN U.release
          /\ U.release[i].target = T.release[i].target
          /\ U.release[i].ap = T.release[i].ap
    /\ \A t \in Targets, v \in Versions :
          T.observed[t][v] # 0 => U.observed[t][v] = T.observed[t][v]
    /\ \A t \in Targets :
          T.target[t] # None =>
              /\ U.target[t] # None
              /\ T.target[t].latest # 0 => U.target[t].latest # 0
    /\ T.named \subseteq U.named
    /\ T.artifact \subseteq U.artifact

TablesInv ==
    /\ disk \in TableType /\ seen \in TableType
    /\ Shape(disk) /\ Shape(seen) /\ Keeps(disk, seen)
    /\ AllObserved(disk)
    /\ \/ AllObserved(seen)
       \/ \E p \in Procs :
            pc[p] = "u_observed" /\ ObservedBut(seen, job.release, job.version)

(* The rows of T and U are the same: they differ in the schema.              *)
SameRows(T, U) ==
    /\ U.target = T.target /\ U.named = T.named /\ U.release = T.release
    /\ U.observed = T.observed /\ U.blob = T.blob /\ U.artifact = T.artifact

SameSchema(T, U) == U.made = T.made /\ U.applied = T.applied

Ran(T, n) == T.made = [i \in 1 .. n |-> i]

MigrationInv ==
    /\ Ran(disk, Len(disk.made)) /\ disk.applied = 1 .. Len(disk.made)
    /\ writer = None => SameSchema(disk, seen)
    /\ \A p \in Procs :
        /\ pc[p] = "m_script" => script[p] \in Scripts /\ script[p] <= Len(disk.made) + 1
        /\ pc[p] \in {"m_record", "m_commit"} =>
            /\ script[p] \in Scripts /\ script[p] = Len(disk.made) + 1
            /\ Ran(seen, script[p])
            /\ SameRows(disk, seen)
            /\ seen.applied =
                  IF pc[p] = "m_record" THEN disk.applied ELSE disk.applied \cup {script[p]}
        /\ writer = p /\ pc[p] \notin Migrating => SameSchema(disk, seen)
        /\ pc[p] \in {"ready"} \cup Inside => disk.applied = Scripts

(* What the process inside relies on at step l, given its view T.            *)
TargetSteps == Naming \cup Resolving \cup Erring
FoundSteps == Resolving \ {"u_release"}
ObservedSteps == FoundSteps \ {"u_observed"}
ReleaseSteps == {"d_start"} \cup Cataloguing \cup Handling \cup Recording

JobFits(l, T, j) ==
    /\ j \in [target : Targets \cup {None}, version : Versions \cup {None},
              release : Nat, tried : BOOLEAN, digest : Digests \cup {None}]
    /\ l \in TargetSteps => j.target \in Targets
    /\ l \in Resolving => j.version \in Versions
    /\ l \in FoundSteps =>
          /\ j.release \in DOMAIN T.release
          /\ T.release[j.release].target = j.target
          /\ T.release[j.release].ap = j.version.ap
    /\ l = "u_observed" => T.observed[j.target][j.version] \in {0, j.release}
    /\ l \in ObservedSteps => T.observed[j.target][j.version] = j.release
    /\ l \in {"v_state", "v_commit", "t_row", "t_commit"} =>
          T.release[j.release].full = j.version
    /\ l \in {"v_commit", "t_row", "t_commit"} => T.release[j.release].state # "DISCOVERED"
    /\ l = "t_commit" => T.target[j.target] = [latest |-> j.release, full |-> j.version]
    /\ l \in {"d_blob_commit", "d_artifact", "d_artifact_commit", "d_state", "d_state_commit"} =>
          j.digest \in T.blob
    /\ l \in Cataloguing => j.digest \in Digests
    /\ l \in {"d_artifact_commit", "d_state", "d_state_commit"} => j.release \in Catalogued(T)

JobInv ==
    /\ holder = None => job = NoJob
    /\ job \in [target : Targets \cup {None}, version : Versions \cup {None},
                release : Nat, tried : BOOLEAN, digest : Digests \cup {None}]
    /\ \A p \in Procs :
        /\ pc[p] \in Inside => JobFits(pc[p], View(p), job)
        /\ pc[p] \in ReleaseSteps => job.release \in DOMAIN disk.release

DataInv == TablesInv /\ MigrationInv /\ JobInv

RegInv == ControlInv /\ DataInv

-----------------------------------------------------------------------------
(* What one statement does to the tables.                                    *)

LEMMA Fields ==
    ASSUME NEW T \in TableType
    PROVE  /\ T.made \in Seq(Scripts) /\ T.applied \subseteq Scripts
           /\ T.target \in [Targets -> TargetType \cup {None}]
           /\ T.named \subseteq Sources \X Targets
           /\ T.release \in Seq(RowType)
           /\ T.observed \in [Targets -> [Versions -> Nat]]
           /\ T.blob \subseteq Digests /\ T.artifact \subseteq [release : Nat, sha256 : Digests]
           /\ DOMAIN T = {"made", "applied", "target", "named", "release", "observed",
                          "blob", "artifact"}
  BY DEF TableType

(* The statements.                                                           *)
WithTarget(T, U, t, x) == U = [T EXCEPT !.target[t] = x]
WithRow(T, U, i, r) == U = [T EXCEPT !.release[i] = r]
WithNew(T, U, r) == U = [T EXCEPT !.release = Append(@, r)]
WithObserved(T, U, t, v, i) == U = [T EXCEPT !.observed[t][v] = IF @ = 0 THEN i ELSE @]
WithName(T, U, x) == U = [T EXCEPT !.named = @ \cup {x}]
WithBlob(T, U, g) == U = [T EXCEPT !.blob = @ \cup {g}]
WithArtifact(T, U, i, g) ==
    U = [T EXCEPT !.artifact = @ \cup {[release |-> i, sha256 |-> g]}]

(* What a statement keeps whatever it does...                                *)
Good(T, U) == U \in TableType /\ Shape(U) /\ Keeps(T, U) /\ SameSchema(T, U)

(* ... what it may be executed with, and what it leaves.                     *)
TargetFits(T, t, x) ==
    /\ T.target[t] # None => x # None /\ (T.target[t].latest # 0 => x.latest # 0)
    /\ x # None /\ x.latest # 0 =>
           /\ x.latest \in DOMAIN T.release
           /\ x.full # None
           /\ T.release[x.latest].target = t
           /\ T.release[x.latest].ap = x.full.ap
           /\ T.release[x.latest].state # "DISCOVERED"

TargetPut(T, U, t, x) ==
    /\ Good(T, U)
    /\ U.release = T.release /\ U.observed = T.observed
    /\ U.target[t] = x
    /\ U.blob = T.blob /\ U.artifact = T.artifact

RowFits(T, i, r) ==
    /\ r.target = T.release[i].target /\ r.ap = T.release[i].ap
    /\ T.release[i].state # "DISCOVERED" => r.state # "DISCOVERED"
    /\ r.state = "DECRYPTED" => i \in Catalogued(T)

RowPut(T, U, i, r) ==
    /\ Good(T, U)
    /\ DOMAIN U.release = DOMAIN T.release
    /\ U.release[i] = r
    /\ \A k \in DOMAIN T.release : k # i => U.release[k] = T.release[k]
    /\ U.observed = T.observed /\ U.target = T.target
    /\ U.blob = T.blob /\ U.artifact = T.artifact

NewFits(T, r) ==
    /\ r.state = "DISCOVERED"
    /\ \A k \in DOMAIN T.release : ~(T.release[k].target = r.target /\ T.release[k].ap = r.ap)

RowAdded(T, U, r) ==
    /\ Good(T, U)
    /\ DOMAIN U.release = DOMAIN T.release \cup {Len(T.release) + 1}
    /\ U.release[Len(T.release) + 1] = r
    /\ \A k \in DOMAIN T.release : U.release[k] = T.release[k]
    /\ U.observed = T.observed
    /\ Len(T.release) + 1 \in Nat /\ Len(T.release) + 1 \notin DOMAIN T.release

ObservedFits(T, t, v, i) ==
    /\ T.release[i].target = t /\ T.release[i].ap = v.ap
    /\ T.observed[t][v] \in {0, i}
    /\ ObservedBut(T, i, v)

ObservedPut(T, U, t, v, i) ==
    /\ Good(T, U)
    /\ U.release = T.release /\ U.observed[t][v] = i
    /\ AllObserved(U)

RowsKept(T, U) == Good(T, U) /\ U.release = T.release /\ U.observed = T.observed

BlobAdded(T, U, g) == RowsKept(T, U) /\ g \in U.blob

ArtifactAdded(T, U, i) == RowsKept(T, U) /\ U.blob = T.blob /\ i \in Catalogued(U)

(* A statement that changes firmware_target.                                 *)
LEMMA PutTarget ==
    ASSUME NEW T \in TableType, Shape(T),
           NEW t \in Targets, NEW x \in TargetType \cup {None}, TargetFits(T, t, x),
           NEW U, WithTarget(T, U, t, x)
    PROVE  TargetPut(T, U, t, x)
  <1> USE DEF TargetFits
  <1>1. /\ U.made = T.made /\ U.applied = T.applied /\ U.named = T.named
        /\ U.release = T.release /\ U.observed = T.observed
        /\ U.blob = T.blob /\ U.artifact = T.artifact
        /\ U.target = [T.target EXCEPT ![t] = x]
    BY Fields DEF WithTarget
  <1>2. U \in TableType
    BY <1>1, Fields DEF TableType, WithTarget
  <1>3. \A u \in Targets : U.target[u] = IF u = t THEN x ELSE T.target[u]
    BY <1>1, Fields
  <1>4. Home(U)
    BY <1>1, <1>3, SMTT(30) DEF Shape, Home
  <1>5. Canonical(U) /\ InOrder(U)
    BY <1>1 DEF Shape, Canonical, InOrder, Catalogued
  <1>6. Shape(U)
    BY <1>1, <1>4, <1>5 DEF Shape
  <1>7. Keeps(T, U)
    BY <1>1, <1>3 DEF Keeps
  <1> QED
    BY <1>1, <1>2, <1>3, <1>6, <1>7 DEF Good, TargetPut, SameSchema

(* A statement that changes a row of firmware_release.                       *)
LEMMA PutRow ==
    ASSUME NEW T \in TableType, Shape(T),
           NEW i \in DOMAIN T.release, NEW r \in RowType, Columns(r), RowFits(T, i, r),
           NEW U, WithRow(T, U, i, r)
    PROVE  RowPut(T, U, i, r)
  <1> USE DEF RowFits
  <1>1. /\ U.made = T.made /\ U.applied = T.applied /\ U.named = T.named
        /\ U.target = T.target /\ U.observed = T.observed
        /\ U.blob = T.blob /\ U.artifact = T.artifact
        /\ U.release = [T.release EXCEPT ![i] = r]
    BY Fields DEF WithRow
  <1>2. /\ DOMAIN U.release = DOMAIN T.release
        /\ \A k \in DOMAIN T.release : U.release[k] = IF k = i THEN r ELSE T.release[k]
    BY <1>1, Fields
  <1>3. U.release \in Seq(RowType)
    BY <1>1, Fields
  <1>4. U \in TableType
    BY <1>1, <1>3, Fields DEF TableType, WithRow
  <1>5. \A k \in DOMAIN T.release :
            U.release[k].target = T.release[k].target /\ U.release[k].ap = T.release[k].ap
    BY <1>2
  <1>6. Canonical(U)
    <2>1. ASSUME NEW j \in DOMAIN U.release, NEW k \in DOMAIN U.release,
                 U.release[j].target = U.release[k].target, U.release[j].ap = U.release[k].ap
          PROVE  j = k
      <3>1. /\ j \in DOMAIN T.release /\ k \in DOMAIN T.release
            /\ T.release[j].target = T.release[k].target /\ T.release[j].ap = T.release[k].ap
        BY <1>2, <1>5, <2>1
      <3> QED
        BY <3>1 DEF Shape, Canonical
    <2>2. ASSUME NEW t \in Targets, NEW v \in Versions, U.observed[t][v] # 0
          PROVE  /\ U.observed[t][v] \in DOMAIN U.release
                 /\ U.release[U.observed[t][v]].target = t
                 /\ U.release[U.observed[t][v]].ap = v.ap
      <3>1. PICK k : k = T.observed[t][v]
        OBVIOUS
      <3>2. k \in DOMAIN T.release /\ T.release[k].target = t /\ T.release[k].ap = v.ap
        BY <1>1, <2>2, <3>1 DEF Shape, Canonical
      <3>3. U.release[k].target = t /\ U.release[k].ap = v.ap
        BY <1>5, <3>2
      <3> QED
        BY <1>1, <1>2, <3>1, <3>2, <3>3
    <2> QED
      BY <2>1, <2>2 DEF Canonical
  <1>7. Home(U)
    <2>1. ASSUME NEW t \in Targets, T.target[t] # None, T.target[t].latest # 0
          PROVE  /\ T.target[t].latest \in DOMAIN T.release
                 /\ T.target[t].full # None
                 /\ T.release[T.target[t].latest].target = t
                 /\ T.release[T.target[t].latest].ap = T.target[t].full.ap
                 /\ T.release[T.target[t].latest].state # "DISCOVERED"
      BY <2>1 DEF Shape, Home
    <2>2. ASSUME NEW t \in Targets, U.target[t] # None, U.target[t].latest # 0
          PROVE  /\ U.target[t].latest \in DOMAIN U.release
                 /\ U.target[t].full # None
                 /\ U.release[U.target[t].latest].target = t
                 /\ U.release[U.target[t].latest].ap = U.target[t].full.ap
                 /\ U.release[U.target[t].latest].state # "DISCOVERED"
      <3>1. PICK k : k = T.target[t].latest
        OBVIOUS
      <3>2. PICK a : a = T.target[t].full.ap
        OBVIOUS
      <3>3. /\ k \in DOMAIN T.release /\ T.target[t].full # None
            /\ T.release[k].target = t /\ T.release[k].ap = a
            /\ T.release[k].state # "DISCOVERED"
        BY <1>1, <2>1, <2>2, <3>1, <3>2
      <3>4. /\ U.release[k].target = t /\ U.release[k].ap = a
            /\ U.release[k].state # "DISCOVERED"
        BY <1>2, <1>5, <3>3
      <3> QED
        BY <1>1, <1>2, <3>1, <3>2, <3>3, <3>4
    <2> QED
      BY <2>2 DEF Home
  <1>8. InOrder(U)
    BY <1>1, <1>2 DEF Shape, InOrder, Catalogued
  <1>9. \A k \in DOMAIN U.release : Columns(U.release[k])
    BY <1>2 DEF Shape
  <1>10. Keeps(T, U)
    BY <1>1, <1>2, <1>5 DEF Keeps
  <1> QED
    BY <1>1, <1>2, <1>4, <1>6, <1>7, <1>8, <1>9, <1>10 DEF Good, RowPut, Shape, SameSchema

(* A statement that inserts a release.                                       *)
LEMMA AddRow ==
    ASSUME NEW T \in TableType, Shape(T),
           NEW r \in RowType, Columns(r), NewFits(T, r),
           NEW U, WithNew(T, U, r)
    PROVE  RowAdded(T, U, r)
  <1> USE DEF NewFits
  <1>1. /\ U.made = T.made /\ U.applied = T.applied /\ U.named = T.named
        /\ U.target = T.target /\ U.observed = T.observed
        /\ U.blob = T.blob /\ U.artifact = T.artifact
        /\ U.release = Append(T.release, r)
    BY Fields DEF WithNew
  <1> DEFINE n == Len(T.release) + 1
  <1>2. /\ DOMAIN U.release = DOMAIN T.release \cup {n}
        /\ n \in Nat /\ n \notin DOMAIN T.release
        /\ U.release[n] = r
        /\ \A k \in DOMAIN T.release : U.release[k] = T.release[k]
    BY <1>1, Fields
  <1> HIDE DEF n
  <1>3. U.release \in Seq(RowType)
    BY <1>1, Fields
  <1>4. U \in TableType
    BY <1>1, <1>3, Fields DEF TableType, WithNew
  <1>5. Canonical(U)
    <2>1. Canonical(T)
      BY DEF Shape
    <2> QED
      BY <1>1, <1>2, <2>1, SMTT(60) DEF Canonical
  <1>6. Home(U)
    <2>1. Home(T)
      BY DEF Shape
    <2> QED
      BY <1>1, <1>2, <2>1 DEF Home
  <1>7. InOrder(U)
    BY <1>1, <1>2 DEF Shape, InOrder, Catalogued
  <1>8. \A k \in DOMAIN U.release : Columns(U.release[k])
    BY <1>2 DEF Shape
  <1>9. Keeps(T, U)
    BY <1>1, <1>2 DEF Keeps
  <1> QED
    BY <1>1, <1>2, <1>4, <1>5, <1>6, <1>7, <1>8, <1>9 DEF Good, RowAdded, Shape, SameSchema, n

(* The statement that records an observation.                                *)
LEMMA PutObserved ==
    ASSUME NEW T \in TableType, Shape(T),
           NEW t \in Targets, NEW v \in Versions, NEW i \in DOMAIN T.release,
           ObservedFits(T, t, v, i), NEW U, WithObserved(T, U, t, v, i)
    PROVE  ObservedPut(T, U, t, v, i)
  <1> USE DEF ObservedFits
  <1>1. i \in Nat /\ i # 0
    BY Fields
  <1>2. /\ U.made = T.made /\ U.applied = T.applied /\ U.named = T.named
        /\ U.target = T.target /\ U.release = T.release
        /\ U.blob = T.blob /\ U.artifact = T.artifact
        /\ U.observed = [T.observed EXCEPT ![t][v] = i]
    BY Fields DEF WithObserved
  <1>3. U \in TableType
    <2>1. [T.observed[t] EXCEPT ![v] = i] \in [Versions -> Nat]
      BY <1>1, Fields
    <2>2. U.observed \in [Targets -> [Versions -> Nat]]
      BY <1>2, <2>1, Fields
    <2> QED
      BY <1>2, <2>2, Fields DEF TableType, WithObserved
  <1>4. \A u \in Targets, w \in Versions :
            U.observed[u][w] = IF u = t /\ w = v THEN i ELSE T.observed[u][w]
    BY <1>2, Fields
  <1>5. Canonical(U)
    <2>1. Canonical(T)
      BY DEF Shape
    <2>2. \A j, k \in DOMAIN U.release :
              U.release[j].target = U.release[k].target
                  /\ U.release[j].ap = U.release[k].ap => j = k
      BY <1>2, <2>1 DEF Canonical
    <2>3. ASSUME NEW u \in Targets, NEW w \in Versions, U.observed[u][w] # 0
          PROVE  /\ U.observed[u][w] \in DOMAIN U.release
                 /\ U.release[U.observed[u][w]].target = u
                 /\ U.release[U.observed[u][w]].ap = w.ap
      <3>1. CASE u = t /\ w = v
        BY <1>2, <1>4, <3>1
      <3>2. CASE ~(u = t /\ w = v)
        <4>1. U.observed[u][w] = T.observed[u][w]
          BY <1>4, <3>2
        <4> QED
          BY <1>2, <2>1, <2>3, <4>1, SMTT(30) DEF Canonical
      <3> QED
        BY <3>1, <3>2
    <2> QED
      BY <2>2, <2>3 DEF Canonical
  <1>6. Home(U)
    BY <1>2 DEF Shape, Home
  <1>7. InOrder(U)
    BY <1>2 DEF Catalogued, Shape, InOrder
  <1>8. Keeps(T, U)
    BY <1>1, <1>2, <1>4 DEF Keeps
  <1>9. \A k \in DOMAIN T.release : T.release[k].target \in Targets /\ T.release[k].full \in Versions
    <2>1. \A k \in DOMAIN T.release : T.release[k] \in RowType
      BY Fields
    <2> QED
      BY <2>1 DEF RowType
  <1>10. AllObserved(U)
    <2> SUFFICES ASSUME NEW k \in DOMAIN T.release
                 PROVE  U.observed[T.release[k].target][T.release[k].full] = k
      BY <1>2 DEF AllObserved
    <2>1. CASE k = i
      <3>1. T.release[i].full = v \/ T.observed[t][T.release[i].full] = i
        BY <2>1 DEF ObservedBut
      <3> QED
        BY <2>1, <3>1, <1>4, <1>9
    <2>2. CASE k # i
      <3>1. T.observed[T.release[k].target][T.release[k].full] = k
        BY <2>2 DEF ObservedBut
      <3>2. k \in Nat /\ k # 0
        BY Fields
      <3>3. ~(T.release[k].target = t /\ T.release[k].full = v)
        BY <2>2, <3>1, <3>2
      <3> QED
        BY <3>1, <3>3, <1>4, <1>9
    <2> QED
      BY <2>1, <2>2
  <1> QED
    BY <1>1, <1>2, <1>3, <1>4, <1>5, <1>6, <1>7, <1>8, <1>10 DEF Good, ObservedPut, Shape, SameSchema

(* Statements that add to a table without columns.                           *)
LEMMA ShapeKept ==
    ASSUME NEW T, NEW U, Shape(T), InOrder(U), U.target = T.target,
           U.release = T.release, U.observed = T.observed
    PROVE  Shape(U)
  <1>1. Canonical(U)
    BY DEF Shape, Canonical
  <1>2. Home(U)
    BY DEF Shape, Home
  <1> QED
    BY <1>1, <1>2 DEF Shape

LEMMA AddName ==
    ASSUME NEW T \in TableType, Shape(T), NEW x \in Sources \X Targets,
           NEW U, WithName(T, U, x)
    PROVE  RowsKept(T, U)
  <1>1. /\ U.made = T.made /\ U.applied = T.applied /\ U.named = T.named \cup {x}
        /\ U.target = T.target /\ U.observed = T.observed /\ U.release = T.release
        /\ U.blob = T.blob /\ U.artifact = T.artifact
    BY Fields DEF WithName
  <1>2. U \in TableType
    BY <1>1, Fields DEF TableType, WithName
  <1> QED
    <2>1. InOrder(U)
      BY <1>1 DEF Shape, InOrder, Catalogued
    <2>2. Shape(U)
      BY <1>1, <2>1, ShapeKept
    <2>3. Keeps(T, U)
      BY <1>1 DEF Keeps
    <2> QED
      BY <1>1, <1>2, <2>2, <2>3 DEF Good, RowsKept, SameSchema

LEMMA AddBlob ==
    ASSUME NEW T \in TableType, Shape(T), NEW g \in Digests,
           NEW U, WithBlob(T, U, g)
    PROVE  BlobAdded(T, U, g)
  <1>1. /\ U.made = T.made /\ U.applied = T.applied /\ U.named = T.named
        /\ U.target = T.target /\ U.observed = T.observed /\ U.release = T.release
        /\ U.blob = T.blob \cup {g} /\ U.artifact = T.artifact
    BY Fields DEF WithBlob
  <1>2. U \in TableType
    BY <1>1, Fields DEF TableType, WithBlob
  <1>3. Catalogued(U) = Catalogued(T)
    BY <1>1 DEF Catalogued
  <1> QED
    <2>1. InOrder(U)
      BY <1>1, <1>3 DEF Shape, InOrder
    <2>2. Shape(U)
      BY <1>1, <2>1, ShapeKept
    <2>3. Keeps(T, U)
      BY <1>1 DEF Keeps
    <2> QED
      BY <1>1, <1>2, <2>2, <2>3 DEF BlobAdded, Good, RowsKept, SameSchema

LEMMA AddArtifact ==
    ASSUME NEW T \in TableType, Shape(T), NEW i \in DOMAIN T.release,
           NEW g \in Digests, g \in T.blob,
           NEW U, WithArtifact(T, U, i, g)
    PROVE  ArtifactAdded(T, U, i)
  <1> DEFINE a == [release |-> i, sha256 |-> g]
  <1>1. /\ U.made = T.made /\ U.applied = T.applied /\ U.named = T.named
        /\ U.target = T.target /\ U.observed = T.observed /\ U.release = T.release
        /\ U.blob = T.blob /\ U.artifact = T.artifact \cup {a}
    BY Fields DEF WithArtifact
  <1>2. a \in [release : Nat, sha256 : Digests] /\ a.release = i /\ a.sha256 = g
    BY Fields
  <1> HIDE DEF a
  <1>3. U \in TableType
    BY <1>1, <1>2, Fields DEF TableType, WithArtifact, a
  <1>4. Catalogued(U) = Catalogued(T) \cup {i}
    BY <1>1, <1>2 DEF Catalogued
  <1>5. \A x \in U.artifact : x.sha256 \in U.blob
    BY <1>1, <1>2 DEF Shape, InOrder, Catalogued
  <1> QED
    <2>1. InOrder(U)
      BY <1>1, <1>4, <1>5 DEF Shape, InOrder
    <2>2. Shape(U)
      BY <1>1, <2>1, ShapeKept
    <2>3. Keeps(T, U)
      BY <1>1 DEF Keeps
    <2> QED
      BY <1>1, <1>3, <1>4, <2>2, <2>3 DEF ArtifactAdded, Good, RowsKept, SameSchema

(* The rows of the tables as far as they do not depend on the schema.        *)
LEMMA Like ==
    ASSUME NEW T, NEW U, SameRows(T, U)
    PROVE  /\ Shape(T) => Shape(U)
           /\ AllObserved(T) => AllObserved(U)
           /\ Keeps(T, U)
           /\ \A l, j : JobFits(l, T, j) => JobFits(l, U, j)
  <1>1. /\ U.target = T.target /\ U.named = T.named /\ U.release = T.release
        /\ U.observed = T.observed /\ U.blob = T.blob /\ U.artifact = T.artifact
        /\ Catalogued(U) = Catalogued(T)
    BY DEF SameRows, Catalogued
  <1>2. Shape(T) => Shape(U)
    BY <1>1, ShapeKept DEF Shape, InOrder
  <1>3. AllObserved(T) => AllObserved(U)
    BY <1>1 DEF AllObserved
  <1>4. Keeps(T, U)
    BY <1>1 DEF Keeps
  <1>5. \A l, j : JobFits(l, T, j) => JobFits(l, U, j)
    BY <1>1 DEF JobFits
  <1> QED
    BY <1>2, <1>3, <1>4, <1>5

LEMMA KeepsOn ==
    ASSUME NEW T \in TableType, NEW U \in TableType, NEW V \in TableType, Keeps(T, U), Keeps(U, V)
    PROVE  Keeps(T, V)
  BY Fields DEF Keeps

LEMMA KeepsSelf == ASSUME NEW T PROVE Keeps(T, T)
  BY DEF Keeps

-----------------------------------------------------------------------------
(* Control: who has a transaction open, and who is inside.                   *)

LEMMA Somebody == \A q \in Procs : q # None
  BY RegistryConstants

Places == Begun \cup Pending \cup {"h_state_commit"}

LEMMA Moved ==
    ASSUME ControlType, NEW p \in Procs, NEW l \in Locations, Goto(p, l)
    PROVE  /\ pc' \in [Procs -> Locations]
           /\ pc'[p] = l
           /\ \A q \in Procs : q # p => pc'[q] = pc[q]
  BY DEF ControlType, Goto

(* The step to l leaves the process lock where it belongs.                   *)
LockKept(p, l) ==
    /\ UNCHANGED holder
    /\ IF holder = p THEN l \in Inside \cup {"close"} ELSE l \notin Inside

LEMMA LockMoves ==
    ASSUME ControlType, LockInv, NEW p \in Procs, NEW l \in Locations, Goto(p, l), LockKept(p, l)
    PROVE  LockInv'
  BY Moved DEF LockInv, LockKept

LEMMA LocalMove ==
    ASSUME ControlInv, NEW p \in Procs, NEW l \in Locations, Goto(p, l), LockKept(p, l),
           script' \in [Procs -> Nat], UNCHANGED data,
           l \notin Places,
           writer = p => l \in MayPend /\ tx = "implicit"
    PROVE  ControlInv'
  <1>1. ControlType' /\ LockInv'
    BY Moved, LockMoves DEF ControlInv, ControlType, LockKept, data
  <1>2. ConnInv'
    BY Moved DEF ControlInv, ConnInv, Places, data
  <1> QED
    BY <1>1, <1>2 DEF ControlInv

LEMMA StatementMove ==
    ASSUME ControlInv, NEW p \in Procs, NEW l \in Locations, Goto(p, l), LockKept(p, l),
           script' \in [Procs -> Nat],
           NEW k \in {"implicit", "explicit"}, NEW T, Statement(p, k, T),
           \/ l \in Begun /\ (IF writer = p THEN tx ELSE k) = "explicit"
           \/ l \in Pending /\ (IF writer = p THEN tx ELSE k) = "implicit"
           \/ l = "h_state_commit"
           \/ l \in MayPend /\ (IF writer = p THEN tx ELSE k) = "implicit"
    PROVE  ControlInv'
  <1>1. ControlType' /\ LockInv'
    BY Moved, LockMoves DEF ControlInv, ControlType, LockKept, Statement
  <1>2. /\ writer \in {None, p} /\ writer' = p /\ p # None
        /\ tx' = IF writer = p THEN tx ELSE k
        /\ writer = p => tx \in {"implicit", "explicit"}
    BY Somebody DEF Statement, ControlInv, ControlType, ConnInv
  <1>3. tx' # "none"
    BY <1>2
  <1>4. ASSUME NEW q \in Procs, q # p
        PROVE  /\ pc'[q] = pc[q] /\ writer # q /\ writer' # q
               /\ pc[q] \notin Places
    <2>1. pc'[q] = pc[q] /\ writer # q /\ writer' # q
      BY Moved, Somebody, <1>2, <1>4 DEF ControlInv
    <2>2. pc[q] \in Places => writer = q
      BY DEF ControlInv, ConnInv, Places
    <2> QED
      BY <2>1, <2>2
  <1>5. pc'[p] = l
    BY Moved DEF ControlInv
  <1>6. /\ l \in Begun => tx' = "explicit"
        /\ l \in Pending => tx' = "implicit"
        /\ l \in Places \/ (l \in MayPend /\ tx' = "implicit")
    BY <1>2 DEF Begun, Pending, MayPend, Places
  <1>7. ConnInv'
    BY <1>2, <1>3, <1>4, <1>5, <1>6 DEF ConnInv, Places
  <1> QED
    BY <1>1, <1>7 DEF ControlInv

LEMMA EndMove ==
    ASSUME ControlInv, NEW p \in Procs, NEW l \in Locations, Goto(p, l), LockKept(p, l),
           script' \in [Procs -> Nat],
           writer = p, Committed \/ RolledBack,
           l \notin Places
    PROVE  ControlInv'
  <1>1. ControlType' /\ LockInv'
    BY Moved, LockMoves DEF ControlInv, ControlType, LockKept, Committed, RolledBack
  <1>2. writer' = None /\ tx' = "none" /\ seen' = disk'
    BY DEF Committed, RolledBack
  <1>3. ASSUME NEW q \in Procs
        PROVE  pc'[q] \notin Places /\ writer' # q
    BY Moved, Somebody, <1>2 DEF ControlInv, ConnInv, Places
  <1>4. ConnInv'
    BY <1>2, <1>3 DEF ConnInv, Places
  <1> QED
    BY <1>1, <1>4 DEF ControlInv

LEMMA LeaveMove ==
    ASSUME ControlInv, NEW p \in Procs, Leave(p)
    PROVE  ControlInv'
  <1>1. p # None /\ "off" \in Locations /\ "off" \notin Inside \cup Places
    BY RegistryConstants DEF Locations, Inside, Places, Begun, Pending, Naming, Resolving, Erring,
                             Cataloguing, Handling, Recording
  <1>2. Goto(p, "off") /\ script' \in [Procs -> Nat]
    BY DEF Leave, ControlInv, ControlType
  <1>3. ControlType'
    BY Moved, <1>1, <1>2 DEF ControlInv, ControlType, Leave, RolledBack, data
  <1>4. LockInv'
    <2>1. /\ pc'[p] = "off"
          /\ \A q \in Procs : q # p => pc'[q] = pc[q]
      BY Moved, <1>1, <1>2 DEF ControlInv
    <2>2. CASE holder = p
      <3>1. holder' = None
        BY <2>2 DEF Leave
      <3>2. \A q \in Procs : pc'[q] \notin Inside
        BY <1>1, <2>1, <2>2 DEF ControlInv, LockInv
      <3> QED
        BY <3>1, <3>2, Somebody DEF LockInv
    <2>3. CASE holder # p
      <3>1. holder' = holder
        BY <2>3 DEF Leave
      <3> QED
        BY <1>1, <2>1, <2>3, <3>1 DEF ControlInv, LockInv
    <2> QED
      BY <2>2, <2>3
  <1>5. ConnInv'
    <2>1. /\ pc'[p] = "off"
          /\ \A q \in Procs : q # p => pc'[q] = pc[q]
      BY Moved, <1>1, <1>2 DEF ControlInv
    <2>2. CASE writer = p
      <3>1. writer' = None /\ tx' = "none" /\ seen' = disk'
        BY <2>2 DEF Leave, RolledBack
      <3>2. ASSUME NEW q \in Procs
            PROVE  pc'[q] \notin Places /\ writer' # q
        BY <1>1, <2>1, <2>2, <3>1, Somebody DEF ControlInv, ConnInv, Places
      <3> QED
        BY <3>1, <3>2 DEF ConnInv, Places
    <2>3. CASE writer # p
      <3>1. UNCHANGED data
        BY <2>3 DEF Leave
      <3> QED
        BY <1>1, <2>1, <2>3, <3>1 DEF ControlInv, ConnInv, data, Places
    <2> QED
      BY <2>2, <2>3
  <1> QED
    BY <1>3, <1>4, <1>5 DEF ControlInv

(* The same for a step of the process inside.                                *)
LEMMA InsideKept ==
    ASSUME ControlInv, NEW p \in Procs, NEW a \in Inside, At(p, a), UNCHANGED holder,
           NEW b \in Inside \cup {"close"}
    PROVE  LockKept(p, b)
  BY DEF ControlInv, LockInv, LockKept, At

LEMMA InsideHere == Inside \cup {"close"} \subseteq Locations
  BY DEF Inside, Locations

LEMMA InScoped ==
    ASSUME ControlInv, NEW p \in Procs, NEW a \in Inside, At(p, a), UNCHANGED <<script, holder>>,
           NEW b \in Inside, Goto(p, b), NEW T, Scoped(p, T),
           b = "h_state_commit" \/ (b \in Begun /\ a \notin Pending \cup MayPend \cup {"h_state_commit"})
    PROVE  ControlInv'
  <1>1. LockKept(p, b) /\ b \in Locations /\ script' \in [Procs -> Nat]
    BY InsideKept, InsideHere DEF ControlInv, ControlType
  <1>2. b = "h_state_commit" \/ (writer = p => tx = "explicit")
    BY DEF ControlInv, ConnInv, At, MayPend
  <1>3. Statement(p, "explicit", T)
    BY DEF Scoped
  <1> QED
    BY <1>1, <1>2, <1>3, StatementMove

LEMMA InBare ==
    ASSUME ControlInv, NEW p \in Procs, NEW a \in Inside, At(p, a), UNCHANGED <<script, holder>>,
           NEW b \in Inside, Goto(p, b), NEW T, Bare(p, T),
           b \in Pending, a \notin Begun \cup {"h_state_commit"}
    PROVE  ControlInv'
  <1>1. LockKept(p, b) /\ b \in Locations /\ script' \in [Procs -> Nat]
    BY InsideKept, InsideHere DEF ControlInv, ControlType
  <1>2. writer = p => tx = "implicit"
    BY DEF ControlInv, ConnInv, At
  <1>3. Statement(p, "implicit", T)
    BY DEF Bare
  <1> QED
    BY <1>1, <1>2, <1>3, StatementMove

LEMMA InEnd ==
    ASSUME ControlInv, NEW p \in Procs, NEW a \in Inside, At(p, a), UNCHANGED <<script, holder>>,
           NEW b \in Inside \cup {"close"}, Goto(p, b), b \notin Places,
           writer = p, Committed \/ RolledBack
    PROVE  ControlInv'
  <1>1. LockKept(p, b) /\ b \in Locations /\ script' \in [Procs -> Nat]
    BY InsideKept, InsideHere DEF ControlInv, ControlType
  <1> QED
    BY <1>1, EndMove

LEMMA InLocal ==
    ASSUME ControlInv, NEW p \in Procs, NEW a \in Inside, At(p, a), UNCHANGED <<script, holder>>,
           NEW b \in Inside \cup {"close"}, Goto(p, b), b \notin Places,
           UNCHANGED data,
           writer = p => b \in MayPend /\ tx = "implicit"
    PROVE  ControlInv'
  <1>1. LockKept(p, b) /\ b \in Locations /\ script' \in [Procs -> Nat]
    BY InsideKept, InsideHere DEF ControlInv, ControlType
  <1> QED
    BY <1>1, LocalMove

(* The end of a with-block or a commit() ends the transaction of the step.   *)
LEMMA Ends ==
    ASSUME ControlInv, NEW p \in Procs,
           \/ pc[p] \in Begun /\ EndScope(p)
           \/ pc[p] \in Pending /\ BareCommit(p)
    PROVE  writer = p /\ Committed
  BY DEF ControlInv, ConnInv, EndScope, BareCommit

(* Every statement of the process inside...                                  *)
LEMMA StatementControl ==
    ASSUME ControlInv, NEW p \in Procs,
           \/ NameTarget(p) \/ NameObserved(p) \/ UpsertRelease(p)
           \/ UpsertObserved(p) \/ SetColumns(p) \/ SetResolved(p)
           \/ SetDecrypted(p) \/ SetFailed(p) \/ TargetRow(p) \/ ErrorRow(p)
           \/ RecordBlob(p) \/ RecordArtifact(p) \/ RecordFailure(p)
    PROVE  ControlInv'
  <1>1. CASE NameTarget(p)
    <2>1. /\ At(p, "select") /\ Goto(p, "n_observed") /\ UNCHANGED <<script, holder>>
          /\ \E T : Scoped(p, T)
      BY <1>1 DEF NameTarget
    <2>2. PICK T : Scoped(p, T)
      BY <2>1
    <2>3. /\ "select" \in Inside /\ "n_observed" \in Inside
          /\ \/ "n_observed" = "h_state_commit"
             \/ "n_observed" \in Begun /\ "select" \notin Pending \cup MayPend \cup {"h_state_commit"}
      BY DEF Inside, Begun, Pending, MayPend, Places, Naming, Resolving, Erring, Cataloguing, Handling, Recording
    <2> QED
      BY <2>1, <2>2, <2>3, InScoped
  <1>2. CASE NameObserved(p)
    <2>1. /\ At(p, "n_observed") /\ Goto(p, "n_commit") /\ UNCHANGED <<script, holder>>
          /\ \E T : Scoped(p, T)
      BY <1>2 DEF NameObserved
    <2>2. PICK T : Scoped(p, T)
      BY <2>1
    <2>3. /\ "n_observed" \in Inside /\ "n_commit" \in Inside
          /\ \/ "n_commit" = "h_state_commit"
             \/ "n_commit" \in Begun /\ "n_observed" \notin Pending \cup MayPend \cup {"h_state_commit"}
      BY DEF Inside, Begun, Pending, MayPend, Places, Naming, Resolving, Erring, Cataloguing, Handling, Recording
    <2> QED
      BY <2>1, <2>2, <2>3, InScoped
  <1>3. CASE UpsertRelease(p)
    <2>1. /\ At(p, "u_release") /\ Goto(p, "u_observed") /\ UNCHANGED <<script, holder>>
          /\ \E T : Scoped(p, T)
      BY <1>3 DEF UpsertRelease
    <2>2. PICK T : Scoped(p, T)
      BY <2>1
    <2>3. /\ "u_release" \in Inside /\ "u_observed" \in Inside
          /\ \/ "u_observed" = "h_state_commit"
             \/ "u_observed" \in Begun /\ "u_release" \notin Pending \cup MayPend \cup {"h_state_commit"}
      BY DEF Inside, Begun, Pending, MayPend, Places, Naming, Resolving, Erring, Cataloguing, Handling, Recording
    <2> QED
      BY <2>1, <2>2, <2>3, InScoped
  <1>4. CASE UpsertObserved(p)
    <2>1. /\ At(p, "u_observed") /\ Goto(p, "u_commit") /\ UNCHANGED <<script, holder>>
          /\ \E T : Scoped(p, T)
      BY <1>4 DEF UpsertObserved
    <2>2. PICK T : Scoped(p, T)
      BY <2>1
    <2>3. /\ "u_observed" \in Inside /\ "u_commit" \in Inside
          /\ \/ "u_commit" = "h_state_commit"
             \/ "u_commit" \in Begun /\ "u_observed" \notin Pending \cup MayPend \cup {"h_state_commit"}
      BY DEF Inside, Begun, Pending, MayPend, Places, Naming, Resolving, Erring, Cataloguing, Handling, Recording
    <2> QED
      BY <2>1, <2>2, <2>3, InScoped
  <1>5. CASE SetColumns(p)
    <2>1. /\ At(p, "v_columns") /\ Goto(p, "v_state") /\ UNCHANGED <<script, holder>>
          /\ \E T : Scoped(p, T)
      BY <1>5 DEF SetColumns
    <2>2. PICK T : Scoped(p, T)
      BY <2>1
    <2>3. /\ "v_columns" \in Inside /\ "v_state" \in Inside
          /\ \/ "v_state" = "h_state_commit"
             \/ "v_state" \in Begun /\ "v_columns" \notin Pending \cup MayPend \cup {"h_state_commit"}
      BY DEF Inside, Begun, Pending, MayPend, Places, Naming, Resolving, Erring, Cataloguing, Handling, Recording
    <2> QED
      BY <2>1, <2>2, <2>3, InScoped
  <1>6. CASE SetResolved(p)
    <2>1. /\ At(p, "v_state") /\ Goto(p, "v_commit") /\ UNCHANGED <<script, holder>>
          /\ \E T : Scoped(p, T)
      BY <1>6 DEF SetResolved
    <2>2. PICK T : Scoped(p, T)
      BY <2>1
    <2>3. /\ "v_state" \in Inside /\ "v_commit" \in Inside
          /\ \/ "v_commit" = "h_state_commit"
             \/ "v_commit" \in Begun /\ "v_state" \notin Pending \cup MayPend \cup {"h_state_commit"}
      BY DEF Inside, Begun, Pending, MayPend, Places, Naming, Resolving, Erring, Cataloguing, Handling, Recording
    <2> QED
      BY <2>1, <2>2, <2>3, InScoped
  <1>7. CASE SetDecrypted(p)
    <2>1. /\ At(p, "d_state") /\ Goto(p, "d_state_commit") /\ UNCHANGED <<script, holder>>
          /\ \E T : Scoped(p, T)
      BY <1>7 DEF SetDecrypted
    <2>2. PICK T : Scoped(p, T)
      BY <2>1
    <2>3. /\ "d_state" \in Inside /\ "d_state_commit" \in Inside
          /\ \/ "d_state_commit" = "h_state_commit"
             \/ "d_state_commit" \in Begun /\ "d_state" \notin Pending \cup MayPend \cup {"h_state_commit"}
      BY DEF Inside, Begun, Pending, MayPend, Places, Naming, Resolving, Erring, Cataloguing, Handling, Recording
    <2> QED
      BY <2>1, <2>2, <2>3, InScoped
  <1>8. CASE SetFailed(p)
    <2>1. /\ At(p, "h_state") /\ Goto(p, "h_state_commit") /\ UNCHANGED <<script, holder>>
          /\ \E T : Scoped(p, T)
      BY <1>8 DEF SetFailed
    <2>2. PICK T : Scoped(p, T)
      BY <2>1
    <2>3. /\ "h_state" \in Inside /\ "h_state_commit" \in Inside
          /\ \/ "h_state_commit" = "h_state_commit"
             \/ "h_state_commit" \in Begun /\ "h_state" \notin Pending \cup MayPend \cup {"h_state_commit"}
      BY DEF Inside, Begun, Pending, MayPend, Places, Naming, Resolving, Erring, Cataloguing, Handling, Recording
    <2> QED
      BY <2>1, <2>2, <2>3, InScoped
  <1>9. CASE TargetRow(p)
    <2>1. /\ At(p, "t_row") /\ Goto(p, "t_commit") /\ UNCHANGED <<script, holder>>
          /\ \E T : Bare(p, T)
      BY <1>9 DEF TargetRow
    <2>2. PICK T : Bare(p, T)
      BY <2>1
    <2>3. /\ "t_row" \in Inside /\ "t_commit" \in Inside /\ "t_commit" \in Pending
          /\ "t_row" \notin Begun \cup {"h_state_commit"}
      BY DEF Inside, Begun, Pending, MayPend, Places, Naming, Resolving, Erring, Cataloguing, Handling, Recording
    <2> QED
      BY <2>1, <2>2, <2>3, InBare
  <1>10. CASE ErrorRow(p)
    <2>1. /\ At(p, "e_row") /\ Goto(p, "e_commit") /\ UNCHANGED <<script, holder>>
          /\ \E T : Bare(p, T)
      BY <1>10 DEF ErrorRow
    <2>2. PICK T : Bare(p, T)
      BY <2>1
    <2>3. /\ "e_row" \in Inside /\ "e_commit" \in Inside /\ "e_commit" \in Pending
          /\ "e_row" \notin Begun \cup {"h_state_commit"}
      BY DEF Inside, Begun, Pending, MayPend, Places, Naming, Resolving, Erring, Cataloguing, Handling, Recording
    <2> QED
      BY <2>1, <2>2, <2>3, InBare
  <1>11. CASE RecordBlob(p)
    <2>1. /\ At(p, "d_blob") /\ Goto(p, "d_blob_commit") /\ UNCHANGED <<script, holder>>
          /\ \E T : Bare(p, T)
      BY <1>11 DEF RecordBlob
    <2>2. PICK T : Bare(p, T)
      BY <2>1
    <2>3. /\ "d_blob" \in Inside /\ "d_blob_commit" \in Inside /\ "d_blob_commit" \in Pending
          /\ "d_blob" \notin Begun \cup {"h_state_commit"}
      BY DEF Inside, Begun, Pending, MayPend, Places, Naming, Resolving, Erring, Cataloguing, Handling, Recording
    <2> QED
      BY <2>1, <2>2, <2>3, InBare
  <1>12. CASE RecordArtifact(p)
    <2>1. /\ At(p, "d_artifact") /\ Goto(p, "d_artifact_commit") /\ UNCHANGED <<script, holder>>
          /\ \E T : Bare(p, T)
      BY <1>12 DEF RecordArtifact
    <2>2. PICK T : Bare(p, T)
      BY <2>1
    <2>3. /\ "d_artifact" \in Inside /\ "d_artifact_commit" \in Inside /\ "d_artifact_commit" \in Pending
          /\ "d_artifact" \notin Begun \cup {"h_state_commit"}
      BY DEF Inside, Begun, Pending, MayPend, Places, Naming, Resolving, Erring, Cataloguing, Handling, Recording
    <2> QED
      BY <2>1, <2>2, <2>3, InBare
  <1>13. CASE RecordFailure(p)
    <2>1. /\ At(p, "h_failure") /\ Goto(p, "h_failure_commit") /\ UNCHANGED <<script, holder>>
          /\ \E T : Bare(p, T)
      BY <1>13 DEF RecordFailure
    <2>2. PICK T : Bare(p, T)
      BY <2>1
    <2>3. /\ "h_failure" \in Inside /\ "h_failure_commit" \in Inside /\ "h_failure_commit" \in Pending
          /\ "h_failure" \notin Begun \cup {"h_state_commit"}
      BY DEF Inside, Begun, Pending, MayPend, Places, Naming, Resolving, Erring, Cataloguing, Handling, Recording
    <2> QED
      BY <2>1, <2>2, <2>3, InBare
  <1> QED
    BY <1>1, <1>2, <1>3, <1>4, <1>5, <1>6, <1>7, <1>8, <1>9, <1>10, <1>11, <1>12, <1>13

(* ... every commit...                                                       *)
LEMMA CommitControl ==
    ASSUME ControlInv, NEW p \in Procs,
           \/ NameCommit(p) \/ UpsertCommit(p) \/ ResolvedCommit(p)
           \/ DecryptedCommit(p) \/ TargetCommit(p) \/ ErrorCommit(p)
           \/ BlobCommit(p) \/ ArtifactCommit(p) \/ FailureCommit(p)
    PROVE  ControlInv'
  <1>1. CASE NameCommit(p)
    <2>1. /\ At(p, "n_commit") /\ EndScope(p) /\ UNCHANGED <<script, holder>>
          /\ Goto(p, "select")
      BY <1>1 DEF NameCommit
    <2>2. /\ "n_commit" \in Inside /\ "n_commit" \in Begun
          /\ "select" \in (Inside \cup {"close"}) \ Places
      BY DEF Inside, Begun, Pending, MayPend, Places, Naming, Resolving, Erring, Cataloguing, Handling, Recording
    <2>3. writer = p /\ Committed
      BY <2>1, <2>2, Ends DEF At
    <2> QED
      BY <2>1, <2>2, <2>3, InEnd
  <1>2. CASE UpsertCommit(p)
    <2>1. /\ At(p, "u_commit") /\ EndScope(p) /\ UNCHANGED <<script, holder>>
          /\ Goto(p, "v_columns")
      BY <1>2 DEF UpsertCommit
    <2>2. /\ "u_commit" \in Inside /\ "u_commit" \in Begun
          /\ "v_columns" \in (Inside \cup {"close"}) \ Places
      BY DEF Inside, Begun, Pending, MayPend, Places, Naming, Resolving, Erring, Cataloguing, Handling, Recording
    <2>3. writer = p /\ Committed
      BY <2>1, <2>2, Ends DEF At
    <2> QED
      BY <2>1, <2>2, <2>3, InEnd
  <1>3. CASE ResolvedCommit(p)
    <2>1. /\ At(p, "v_commit") /\ EndScope(p) /\ UNCHANGED <<script, holder>>
          /\ Goto(p, "t_row")
      BY <1>3 DEF ResolvedCommit
    <2>2. /\ "v_commit" \in Inside /\ "v_commit" \in Begun
          /\ "t_row" \in (Inside \cup {"close"}) \ Places
      BY DEF Inside, Begun, Pending, MayPend, Places, Naming, Resolving, Erring, Cataloguing, Handling, Recording
    <2>3. writer = p /\ Committed
      BY <2>1, <2>2, Ends DEF At
    <2> QED
      BY <2>1, <2>2, <2>3, InEnd
  <1>4. CASE DecryptedCommit(p)
    <2>1. /\ At(p, "d_state_commit") /\ EndScope(p) /\ UNCHANGED <<script, holder>>
          /\ Goto(p, "select")
      BY <1>4 DEF DecryptedCommit, Done
    <2>2. /\ "d_state_commit" \in Inside /\ "d_state_commit" \in Begun
          /\ "select" \in (Inside \cup {"close"}) \ Places
      BY DEF Inside, Begun, Pending, MayPend, Places, Naming, Resolving, Erring, Cataloguing, Handling, Recording
    <2>3. writer = p /\ Committed
      BY <2>1, <2>2, Ends DEF At
    <2> QED
      BY <2>1, <2>2, <2>3, InEnd
  <1>5. CASE TargetCommit(p)
    <2>1. /\ At(p, "t_commit") /\ BareCommit(p) /\ UNCHANGED <<script, holder>>
          /\ (Goto(p, "select") \/ Goto(p, "d_start"))
      BY <1>5 DEF TargetCommit
    <2>2. /\ "t_commit" \in Inside /\ "t_commit" \in Pending
          /\ "select" \in (Inside \cup {"close"}) \ Places
          /\ "d_start" \in (Inside \cup {"close"}) \ Places
      BY DEF Inside, Begun, Pending, MayPend, Places, Naming, Resolving, Erring, Cataloguing, Handling, Recording
    <2>3. writer = p /\ Committed
      BY <2>1, <2>2, Ends DEF At
    <2> QED
      BY <2>1, <2>2, <2>3, InEnd
  <1>6. CASE ErrorCommit(p)
    <2>1. /\ At(p, "e_commit") /\ BareCommit(p) /\ UNCHANGED <<script, holder>>
          /\ Goto(p, "select")
      BY <1>6 DEF ErrorCommit
    <2>2. /\ "e_commit" \in Inside /\ "e_commit" \in Pending
          /\ "select" \in (Inside \cup {"close"}) \ Places
      BY DEF Inside, Begun, Pending, MayPend, Places, Naming, Resolving, Erring, Cataloguing, Handling, Recording
    <2>3. writer = p /\ Committed
      BY <2>1, <2>2, Ends DEF At
    <2> QED
      BY <2>1, <2>2, <2>3, InEnd
  <1>7. CASE BlobCommit(p)
    <2>1. /\ At(p, "d_blob_commit") /\ BareCommit(p) /\ UNCHANGED <<script, holder>>
          /\ Goto(p, "d_artifact")
      BY <1>7 DEF BlobCommit
    <2>2. /\ "d_blob_commit" \in Inside /\ "d_blob_commit" \in Pending
          /\ "d_artifact" \in (Inside \cup {"close"}) \ Places
      BY DEF Inside, Begun, Pending, MayPend, Places, Naming, Resolving, Erring, Cataloguing, Handling, Recording
    <2>3. writer = p /\ Committed
      BY <2>1, <2>2, Ends DEF At
    <2> QED
      BY <2>1, <2>2, <2>3, InEnd
  <1>8. CASE ArtifactCommit(p)
    <2>1. /\ At(p, "d_artifact_commit") /\ BareCommit(p) /\ UNCHANGED <<script, holder>>
          /\ Goto(p, "d_state")
      BY <1>8 DEF ArtifactCommit
    <2>2. /\ "d_artifact_commit" \in Inside /\ "d_artifact_commit" \in Pending
          /\ "d_state" \in (Inside \cup {"close"}) \ Places
      BY DEF Inside, Begun, Pending, MayPend, Places, Naming, Resolving, Erring, Cataloguing, Handling, Recording
    <2>3. writer = p /\ Committed
      BY <2>1, <2>2, Ends DEF At
    <2> QED
      BY <2>1, <2>2, <2>3, InEnd
  <1>9. CASE FailureCommit(p)
    <2>1. /\ At(p, "h_failure_commit") /\ BareCommit(p) /\ UNCHANGED <<script, holder>>
          /\ Goto(p, "close")
      BY <1>9 DEF FailureCommit
    <2>2. /\ "h_failure_commit" \in Inside /\ "h_failure_commit" \in Pending
          /\ "close" \in (Inside \cup {"close"}) \ Places
      BY DEF Inside, Begun, Pending, MayPend, Places, Naming, Resolving, Erring, Cataloguing, Handling, Recording
    <2>3. writer = p /\ Committed
      BY <2>1, <2>2, Ends DEF At
    <2> QED
      BY <2>1, <2>2, <2>3, InEnd
  <1> QED
    BY <1>1, <1>2, <1>3, <1>4, <1>5, <1>6, <1>7, <1>8, <1>9

(* ... every step that changes no table...                                   *)
LEMMA LocalControl ==
    ASSUME ControlInv, NEW p \in Procs,
           \/ Answer(p) \/ NoAnswer(p) \/ ReturnCatalogued(p) \/ FindFinal(p)
           \/ Refused(p) \/ Deduplicate(p)
    PROVE  ControlInv'
  <1>1. CASE Answer(p)
    <2>1. /\ At(p, "select") /\ UNCHANGED data /\ UNCHANGED <<script, holder>>
          /\ Goto(p, "u_release")
      BY <1>1 DEF Answer
    <2>2. /\ "select" \in Inside /\ "select" \notin Places \cup MayPend
          /\ "u_release" \in (Inside \cup {"close"}) \ Places
      BY DEF Inside, Begun, Pending, MayPend, Places, Naming, Resolving, Erring, Cataloguing, Handling, Recording
    <2>3. writer # p
      BY <2>1, <2>2 DEF ControlInv, ConnInv, At, Places
    <2> QED
      BY <2>1, <2>2, <2>3, InLocal
  <1>2. CASE NoAnswer(p)
    <2>1. /\ At(p, "select") /\ UNCHANGED data /\ UNCHANGED <<script, holder>>
          /\ Goto(p, "e_row")
      BY <1>2 DEF NoAnswer
    <2>2. /\ "select" \in Inside /\ "select" \notin Places \cup MayPend
          /\ "e_row" \in (Inside \cup {"close"}) \ Places
      BY DEF Inside, Begun, Pending, MayPend, Places, Naming, Resolving, Erring, Cataloguing, Handling, Recording
    <2>3. writer # p
      BY <2>1, <2>2 DEF ControlInv, ConnInv, At, Places
    <2> QED
      BY <2>1, <2>2, <2>3, InLocal
  <1>3. CASE ReturnCatalogued(p)
    <2>1. /\ At(p, "d_start") /\ UNCHANGED data /\ UNCHANGED <<script, holder>>
          /\ Goto(p, "select")
      BY <1>3 DEF ReturnCatalogued, Done
    <2>2. /\ "d_start" \in Inside /\ "d_start" \notin Places \cup MayPend
          /\ "select" \in (Inside \cup {"close"}) \ Places
      BY DEF Inside, Begun, Pending, MayPend, Places, Naming, Resolving, Erring, Cataloguing, Handling, Recording
    <2>3. writer # p
      BY <2>1, <2>2 DEF ControlInv, ConnInv, At, Places
    <2> QED
      BY <2>1, <2>2, <2>3, InLocal
  <1>4. CASE FindFinal(p)
    <2>1. /\ At(p, "d_start") /\ UNCHANGED data /\ UNCHANGED <<script, holder>>
          /\ Goto(p, "d_blob")
      BY <1>4 DEF FindFinal
    <2>2. /\ "d_start" \in Inside /\ "d_start" \notin Places \cup MayPend
          /\ "d_blob" \in (Inside \cup {"close"}) \ Places
      BY DEF Inside, Begun, Pending, MayPend, Places, Naming, Resolving, Erring, Cataloguing, Handling, Recording
    <2>3. writer # p
      BY <2>1, <2>2 DEF ControlInv, ConnInv, At, Places
    <2> QED
      BY <2>1, <2>2, <2>3, InLocal
  <1>5. CASE Refused(p)
    <2>1. /\ At(p, "d_start") /\ UNCHANGED data /\ UNCHANGED <<script, holder>>
          /\ (Goto(p, "h_failure") \/ Goto(p, "close"))
      BY <1>5 DEF Refused, AfterDownload
    <2>2. /\ "d_start" \in Inside /\ "d_start" \notin Places \cup MayPend
          /\ "h_failure" \in (Inside \cup {"close"}) \ Places
          /\ "close" \in (Inside \cup {"close"}) \ Places
      BY DEF Inside, Begun, Pending, MayPend, Places, Naming, Resolving, Erring, Cataloguing, Handling, Recording
    <2>3. writer # p
      BY <2>1, <2>2 DEF ControlInv, ConnInv, At, Places
    <2> QED
      BY <2>1, <2>2, <2>3, InLocal
  <1>6. CASE Deduplicate(p)
    <2>1. /\ At(p, "d_blob") /\ UNCHANGED data /\ UNCHANGED <<script, holder>>
          /\ Goto(p, "d_artifact")
      BY <1>6 DEF Deduplicate
    <2>2. /\ "d_blob" \in Inside /\ "d_blob" \notin Places \cup MayPend
          /\ "d_artifact" \in (Inside \cup {"close"}) \ Places
      BY DEF Inside, Begun, Pending, MayPend, Places, Naming, Resolving, Erring, Cataloguing, Handling, Recording
    <2>3. writer # p
      BY <2>1, <2>2 DEF ControlInv, ConnInv, At, Places
    <2> QED
      BY <2>1, <2>2, <2>3, InLocal
  <1> QED
    BY <1>1, <1>2, <1>3, <1>4, <1>5, <1>6

(* ... the end of the handler, which may have joined a transaction...        *)
LEMMA FailedControl ==
    ASSUME ControlInv, NEW p \in Procs, FailedCommit(p)
    PROVE  ControlInv'
  <1>1. /\ At(p, "h_state_commit") /\ EndScope(p) /\ UNCHANGED <<script, holder>>
        /\ \E b \in AfterDownload : Goto(p, b)
    BY DEF FailedCommit
  <1>2. PICK b \in AfterDownload : Goto(p, b)
    BY <1>1
  <1>3. /\ "h_state_commit" \in Inside
        /\ b \in (Inside \cup {"close"}) \ Places /\ b \in MayPend
    BY DEF AfterDownload, Inside, Begun, Pending, MayPend, Places, Naming, Resolving, Erring,
           Cataloguing, Handling, Recording
  <1>4. writer = p /\ tx # "none"
    BY <1>1, Somebody DEF At, ControlInv, ConnInv
  <1>5. CASE tx = "explicit"
    <2>1. Committed
      BY <1>1, <1>5 DEF EndScope
    <2> QED
      BY <1>1, <1>2, <1>3, <1>4, <2>1, InEnd
  <1>6. CASE tx = "implicit"
    <2>1. UNCHANGED data
      BY <1>1, <1>6 DEF EndScope
    <2> QED
      BY <1>1, <1>2, <1>3, <1>6, <2>1, InLocal
  <1> QED
    BY <1>4, <1>5, <1>6 DEF ControlInv, ControlType

LEMMA FetchControl ==
    ASSUME ControlInv, NEW p \in Procs, Fetch(p)
    PROVE  ControlInv'
  <1>1. /\ At(p, "d_start") /\ Goto(p, "d_blob") /\ UNCHANGED <<tx, writer, script, holder>>
        /\ writer = None /\ seen' = disk'
    BY DEF Fetch
  <1>2. /\ "d_start" \in Inside /\ "d_blob" \in (Inside \cup {"close"}) \ Places
        /\ "d_blob" \in Locations
    BY DEF Inside, Begun, Pending, Places, Naming, Resolving, Erring,
           Cataloguing, Handling, Recording, Locations
  <1>3. LockKept(p, "d_blob")
    BY <1>1, <1>2, InsideKept
  <1>4. ControlType' /\ LockInv'
    BY <1>1, <1>2, <1>3, Moved, LockMoves DEF ControlInv, ControlType
  <1>5. ConnInv'
    BY <1>1, <1>2, Moved, Somebody DEF ControlInv, ConnInv, Places
  <1> QED
    BY <1>4, <1>5 DEF ControlInv

(* ... whoever is not inside yet...                                          *)
LEMMA OutsideKept ==
    ASSUME ControlInv, NEW p \in Procs, pc[p] \notin Inside \cup {"close"}, UNCHANGED holder,
           NEW b, b \notin Inside
    PROVE  LockKept(p, b)
  BY DEF ControlInv, LockInv, LockKept

LEMMA EntryPlaces ==
    /\ {"off", "ready", "close", "select"} \cup Migrating \subseteq Locations
    /\ ({"off", "ready", "close"} \cup Migrating) \cap Inside = {}
    /\ "select" \in Inside
    /\ {"off", "ready", "close", "select", "m_check", "m_script"} \cap Places = {}
    /\ {"m_record", "m_commit"} \subseteq Begun
    /\ {"off", "ready", "select", "m_check", "m_script"} \cap MayPend = {}
  BY DEF Locations, Inside, Begun, Pending, MayPend, Places, Migrating, Naming, Resolving, Erring,
         Cataloguing, Handling, Recording

(* A process that has no transaction open at its step.                       *)
LEMMA Unopened ==
    ASSUME ControlInv, NEW p \in Procs, pc[p] \notin Places \cup MayPend
    PROVE  writer # p
  BY DEF ControlInv, ConnInv, Places

LEMMA OpenControl ==
    ASSUME ControlInv, NEW p \in Procs, Open(p) \/ Check(p)
    PROVE  ControlInv'
  <1>1. /\ pc[p] \in {"off", "m_check"} /\ UNCHANGED data /\ UNCHANGED holder
        /\ \E b \in {"m_check", "ready", "m_script"} : Goto(p, b)
        /\ script' \in [Procs -> Nat]
    BY DEF Open, Check, At, Scripts, ControlInv, ControlType
  <1>2. PICK b \in {"m_check", "ready", "m_script"} : Goto(p, b)
    BY <1>1
  <1>3. b \in Locations \ (Inside \cup Places) /\ pc[p] \notin Inside \cup Places \cup MayPend \cup {"close"}
    BY <1>1, EntryPlaces DEF Migrating
  <1>4. LockKept(p, b) /\ writer # p
    BY <1>1, <1>3, OutsideKept, Unopened
  <1> QED
    BY <1>1, <1>2, <1>3, <1>4, LocalMove

LEMMA RunControl ==
    ASSUME ControlInv, NEW p \in Procs, RunScript(p)
    PROVE  ControlInv'
  <1>1. CASE Leave(p)
    BY <1>1, LeaveMove
  <1>2. CASE ~Leave(p)
    <2>1. /\ pc[p] = "m_script" /\ UNCHANGED <<script, holder>>
          /\ \E T : Scoped(p, T)
          /\ Goto(p, "m_record")
      BY <1>2 DEF RunScript, At
    <2>2. /\ "m_record" \in Locations \ Inside /\ "m_record" \in Begun
          /\ pc[p] \notin Inside \cup Places \cup MayPend \cup {"close"}
      BY <2>1, EntryPlaces DEF Migrating
    <2>3. /\ LockKept(p, "m_record") /\ writer # p
          /\ script' \in [Procs -> Nat]
      BY <2>1, <2>2, OutsideKept, Unopened DEF ControlInv, ControlType
    <2>4. PICK T : Statement(p, "explicit", T)
      BY <2>1 DEF Scoped
    <2> QED
      BY <2>1, <2>2, <2>3, <2>4, StatementMove
  <1> QED
    BY <1>1, <1>2

LEMMA RecordControl ==
    ASSUME ControlInv, NEW p \in Procs, RecordScript(p)
    PROVE  ControlInv'
  <1>1. /\ pc[p] = "m_record" /\ UNCHANGED <<script, holder>> /\ Goto(p, "m_commit")
        /\ \E T : Statement(p, "explicit", T)
    BY DEF RecordScript, At, Scoped
  <1>2. /\ "m_commit" \in Locations \ Inside /\ "m_commit" \in Begun
        /\ pc[p] \in Begun /\ pc[p] \notin Inside \cup {"close"}
    BY <1>1, EntryPlaces DEF Migrating
  <1>3. /\ LockKept(p, "m_commit") /\ writer = p /\ tx = "explicit"
        /\ script' \in [Procs -> Nat]
    BY <1>1, <1>2, OutsideKept DEF ControlInv, ControlType, ConnInv
  <1>4. PICK T : Statement(p, "explicit", T)
    BY <1>1
  <1> QED
    BY <1>1, <1>2, <1>3, <1>4, StatementMove

LEMMA CommitScriptControl ==
    ASSUME ControlInv, NEW p \in Procs, CommitScript(p)
    PROVE  ControlInv'
  <1>1. /\ pc[p] = "m_commit" /\ UNCHANGED holder /\ Goto(p, "m_check") /\ EndScope(p)
        /\ script' \in [Procs -> Nat]
    BY DEF CommitScript, At, ControlInv, ControlType
  <1>2. /\ "m_check" \in Locations \ (Inside \cup Places)
        /\ pc[p] \in Begun /\ pc[p] \notin Inside \cup {"close"}
    BY <1>1, EntryPlaces DEF Migrating
  <1>3. LockKept(p, "m_check") /\ writer = p /\ Committed
    BY <1>1, <1>2, OutsideKept, Ends
  <1> QED
    BY <1>1, <1>2, <1>3, EndMove

LEMMA LockControl ==
    ASSUME ControlInv, NEW p \in Procs, Lock(p)
    PROVE  ControlInv'
  <1>1. CASE Leave(p)
    BY <1>1, LeaveMove
  <1>2. CASE holder = None /\ holder' = p /\ Goto(p, "select") /\ UNCHANGED <<data, script, job>>
    <2>1. /\ pc[p] = "ready" /\ "select" \in Locations \ Places
          /\ pc[p] \notin Places \cup MayPend /\ "select" \in Inside
      BY EntryPlaces DEF Lock, At
    <2>2. writer # p
      BY <2>1, Unopened
    <2>3. /\ pc' \in [Procs -> Locations] /\ pc'[p] = "select"
          /\ \A q \in Procs : q # p => pc'[q] = pc[q]
      BY <1>2, <2>1, Moved DEF ControlInv
    <2>4. ControlType'
      BY <1>2, <2>3 DEF ControlInv, ControlType, data
    <2>5. LockInv'
      BY <1>2, <2>1, <2>3, Somebody DEF ControlInv, LockInv
    <2>6. ConnInv'
      BY <1>2, <2>1, <2>2, <2>3 DEF ControlInv, ConnInv, data, Places
    <2> QED
      BY <2>4, <2>5, <2>6 DEF ControlInv
  <1> QED
    BY <1>1, <1>2 DEF Lock

(* ... and an exception.                                                     *)
LEMMA HandlersPend ==
    ASSUME NEW p \in Procs, NEW b \in Handlers(p)
    PROVE  /\ b \in MayPend /\ b \in Locations \ Places
           /\ pc[p] \notin Migrating
           /\ b \in Inside /\ b # "close"
  <1>1. b \in {"e_row", "h_state", "h_failure"}
    BY DEF Handlers
  <1>2. pc[p] \notin Migrating
    BY DEF Handlers, Migrating, Resolving, Cataloguing, Handling
  <1>3. /\ {"e_row", "h_state", "h_failure"} \subseteq Inside \ Places
        /\ {"e_row", "h_state", "h_failure"} \subseteq MayPend
    BY DEF MayPend, Inside, Begun, Pending, Places, Naming, Resolving, Erring,
           Cataloguing, Handling, Recording
  <1> QED
    BY <1>1, <1>2, <1>3, InsideHere

LEMMA RaisesInside ==
    ASSUME NEW p \in Procs, Raise(p)
    PROVE  /\ pc[p] \in Migrating \cup Inside
           /\ pc[p] # "close" /\ pc[p] # "select" /\ pc[p] # "d_start"
  BY DEF Raise, Inside, Migrating, Naming, Resolving, Erring, Cataloguing, Handling, Recording

LEMMA RaiseControl ==
    ASSUME ControlInv, NEW p \in Procs, Raise(p)
    PROVE  ControlInv'
  <1> SUFFICES ASSUME Handle(p) PROVE ControlInv'
    BY LeaveMove DEF Raise
  <1>1. PICK b \in Handlers(p) : Goto(p, b)
    BY DEF Handle
  <1>2. /\ b \in MayPend /\ b \in Locations \ Places
        /\ pc[p] \in Inside /\ b \in Inside
    BY HandlersPend, RaisesInside
  <1>3. UNCHANGED <<script, holder>> /\ script' \in [Procs -> Nat]
    BY DEF Handle, ControlInv, ControlType
  <1>4. LockKept(p, b)
    BY <1>2, <1>3, InsideKept DEF At
  <1>5. CASE writer = p /\ RolledBack
    BY <1>1, <1>2, <1>3, <1>4, <1>5, EndMove
  <1>6. CASE UNCHANGED data /\ (writer = p => tx = "implicit")
    BY <1>1, <1>2, <1>3, <1>4, <1>6, LocalMove
  <1>7. CASE writer = None /\ Bare(p, disk)
    <2>1. Statement(p, "implicit", disk) /\ p # None
      BY <1>7, Somebody DEF Bare
    <2> QED
      BY <1>1, <1>2, <1>3, <1>4, <1>7, <2>1, StatementMove
  <1> QED
    BY <1>5, <1>6, <1>7 DEF Handle, AfterRaise

LEMMA ControlStep ==
    ASSUME ControlInv, NEW p \in Procs,
           Open(p) \/ Begin(p) \/ Step(p) \/ Raise(p) \/ Kill(p)
    PROVE  ControlInv'
  <1>1. CASE Open(p) \/ Migrate(p)
    BY <1>1, OpenControl, RunControl, RecordControl, CommitScriptControl DEF Migrate
  <1>2. CASE Begin(p) \/ NameObserved(p) \/ NameCommit(p) \/ Resolve(p)
    BY <1>2, StatementControl, CommitControl, LocalControl DEF Begin, Resolve
  <1>3. CASE Catalogue(p)
    BY <1>3, StatementControl, CommitControl, LocalControl, FailedControl, FetchControl
       DEF Catalogue
  <1>4. CASE Lock(p)
    BY <1>4, LockControl
  <1>5. CASE Close(p) \/ Kill(p)
    BY <1>5, LeaveMove DEF Close, Kill
  <1>6. CASE Raise(p)
    BY <1>6, RaiseControl
  <1> QED
    BY <1>1, <1>2, <1>3, <1>4, <1>5, <1>6 DEF Step

-----------------------------------------------------------------------------
(* Data: steps of the process inside.                                        *)

LEMMA InsideFacts ==
    ASSUME RegInv, NEW p \in Procs, pc[p] \in Inside
    PROVE  /\ holder = p /\ p # None
           /\ \A q \in Procs : pc[q] \in Inside => q = p
           /\ View(p) \in TableType /\ Shape(View(p)) /\ Keeps(disk, View(p))
           /\ SameSchema(disk, View(p))
           /\ pc[p] # "u_observed" => AllObserved(View(p)) /\ AllObserved(seen)
           /\ JobFits(pc[p], View(p), job)
           /\ pc[p] \in ReleaseSteps => job.release \in DOMAIN View(p).release
           /\ disk.applied = Scripts
  <1>1. holder = p /\ p # None /\ \A q \in Procs : pc[q] \in Inside => q = p
    BY Somebody DEF RegInv, ControlInv, LockInv
  <1>2. View(p) \in TableType /\ Shape(View(p)) /\ Keeps(disk, View(p))
    BY KeepsSelf DEF RegInv, DataInv, TablesInv, View
  <1>3. pc[p] \notin Migrating
    BY EntryPlaces
  <1>4. SameSchema(disk, View(p)) /\ disk.applied = Scripts
    BY <1>3 DEF RegInv, DataInv, MigrationInv, View, SameSchema
  <1>5. pc[p] # "u_observed" => AllObserved(seen)
    <2>1. "u_observed" \in Inside
      BY DEF Inside, Resolving
    <2> QED
      BY <1>1, <2>1 DEF RegInv, DataInv, TablesInv
  <1>6. pc[p] # "u_observed" => AllObserved(View(p))
    BY <1>5 DEF RegInv, DataInv, TablesInv, View
  <1>7. JobFits(pc[p], View(p), job)
    BY DEF RegInv, DataInv, JobInv
  <1>8. pc[p] \in ReleaseSteps => job.release \in DOMAIN View(p).release
    BY <1>2 DEF RegInv, DataInv, JobInv, Keeps
  <1> QED
    BY <1>1, <1>2, <1>4, <1>5, <1>6, <1>7, <1>8

(* What every step from inside to b, still holding the lock, has to do for   *)
(* the job.                                                                  *)
JobGoesOn(b, T) ==
    /\ job' \in [target : Targets \cup {None}, version : Versions \cup {None},
                 release : Nat, tried : BOOLEAN, digest : Digests \cup {None}]
    /\ b \in Inside => JobFits(b, T, job')

LEMMA JobKept ==
    ASSUME RegInv, NEW p \in Procs, pc[p] \in Inside, ControlInv',
           NEW b \in Inside \cup {"close"}, Goto(p, b), UNCHANGED holder,
           JobGoesOn(b, View(p)'),
           b \in ReleaseSteps => job'.release \in DOMAIN disk'.release
    PROVE  JobInv'
  <1>1. pc'[p] = b
    BY InsideHere, Moved DEF RegInv, ControlInv
  <1>2. holder' = p /\ p # None
    BY InsideFacts
  <1>3. \A q \in Procs : pc'[q] \in Inside => q = p
    BY <1>2 DEF ControlInv, LockInv
  <1>4. ReleaseSteps \subseteq Inside
    BY DEF ReleaseSteps, Inside
  <1> QED
    BY <1>1, <1>2, <1>3, <1>4 DEF JobInv, JobGoesOn

LEMMA SchemaKept ==
    ASSUME RegInv, NEW p \in Procs, pc[p] \in Inside, ControlInv',
           NEW b \in Inside \cup {"close"}, Goto(p, b), UNCHANGED script,
           \/ UNCHANGED data
           \/ /\ SameSchema(disk, disk') /\ SameSchema(disk', seen')
              /\ writer' \in {None, p}
    PROVE  MigrationInv'
  <1>1. pc'[p] = b /\ \A q \in Procs : q # p => pc'[q] = pc[q]
    BY InsideHere, Moved DEF RegInv, ControlInv
  <1>2. /\ b \notin Migrating /\ b # "ready" /\ disk.applied = Scripts
        /\ {"m_script", "m_record", "m_commit"} \subseteq Migrating
    BY EntryPlaces, InsideFacts DEF Inside, Naming, Resolving, Erring, Cataloguing, Handling,
       Recording, Migrating
  <1>3. CASE UNCHANGED data
    <2>1. disk' = disk /\ seen' = seen /\ writer' = writer
      BY <1>3 DEF data
    <2>2. SameSchema(disk, seen) \/ writer # p
      BY InsideFacts DEF View
    <2> QED
      BY <1>1, <1>2, <2>1, <2>2, ZenonT(60) DEF RegInv, DataInv, MigrationInv
  <1>4. CASE /\ SameSchema(disk, disk') /\ SameSchema(disk', seen')
             /\ writer' \in {None, p}
    <2>1. \A q \in Procs : pc'[q] \in {"m_record", "m_commit"} => q = p
      BY <1>4, EntryPlaces, Somebody DEF ControlInv, ConnInv
    <2>2. \A q \in Procs : pc'[q] \notin {"m_record", "m_commit"}
      BY <1>1, <1>2, <2>1
    <2> QED
      <3>1. disk'.made = disk.made /\ disk'.applied = disk.applied
        BY <1>4 DEF SameSchema
      <3>2. /\ Ran(disk, Len(disk.made))' /\ disk'.applied = 1 .. Len(disk'.made)
        BY <3>1 DEF RegInv, DataInv, MigrationInv, Ran
      <3>3. \A q \in Procs :
                /\ pc'[q] = "m_script" => script'[q] \in Scripts /\ script'[q] <= Len(disk'.made) + 1
                /\ pc'[q] \in {"ready"} \cup Inside => disk'.applied = Scripts
        BY <1>1, <1>2, <3>1 DEF RegInv, DataInv, MigrationInv
      <3> QED
        BY <1>4, <2>2, <3>2, <3>3 DEF MigrationInv
  <1> QED
    BY <1>3, <1>4

(* A statement.                                                              *)
LEMMA InsideWrites ==
    ASSUME RegInv, NEW p \in Procs, pc[p] \in Inside, ControlInv',
           NEW b \in Inside \cup {"close"}, Goto(p, b), UNCHANGED <<script, holder>>,
           NEW k, NEW U, Statement(p, k, U),
           U \in TableType, Shape(U), Keeps(View(p), U), SameSchema(View(p), U),
           \/ AllObserved(U)
           \/ b = "u_observed" /\ ObservedBut(U, job'.release, job'.version),
           JobGoesOn(b, U),
           b \in ReleaseSteps => job'.release \in DOMAIN disk.release
    PROVE  DataInv'
  <1>1. disk' = disk /\ seen' = U /\ writer' = p
    BY DEF Statement
  <1>2. View(p)' = U
    BY <1>1 DEF View
  <1>3. SameSchema(disk, disk') /\ SameSchema(disk', seen')
    BY <1>1, InsideFacts DEF SameSchema
  <1>4. MigrationInv'
    BY <1>1, <1>3, SchemaKept
  <1>5. JobInv'
    BY <1>1, <1>2, JobKept
  <1>6. pc'[p] = b
    BY InsideHere, Moved DEF RegInv, ControlInv
  <1>7. Keeps(disk, U)
    BY InsideFacts, KeepsOn DEF RegInv, DataInv, TablesInv
  <1>8. TablesInv'
    BY <1>1, <1>6, <1>7 DEF RegInv, DataInv, TablesInv
  <1> QED
    BY <1>4, <1>5, <1>8 DEF DataInv

(* A commit.                                                                 *)
LEMMA InsideCommits ==
    ASSUME RegInv, NEW p \in Procs, pc[p] \in Inside, pc[p] # "u_observed", ControlInv',
           NEW b \in Inside \cup {"close"}, Goto(p, b), UNCHANGED <<script, holder>>,
           writer = p, Committed,
           JobGoesOn(b, seen),
           b \in ReleaseSteps => job'.release \in DOMAIN seen.release
    PROVE  DataInv'
  <1>1. disk' = seen /\ seen' = seen /\ writer' = None
    BY DEF Committed
  <1>2. View(p)' = seen /\ View(p) = seen
    BY <1>1, InsideFacts DEF View
  <1>3. SameSchema(disk, disk') /\ SameSchema(disk', seen')
    BY <1>1, <1>2, InsideFacts DEF SameSchema
  <1>4. MigrationInv'
    BY <1>1, <1>3, SchemaKept
  <1>5. JobInv'
    BY <1>1, <1>2, JobKept
  <1>6. TablesInv'
    BY <1>1, InsideFacts, KeepsSelf DEF RegInv, DataInv, TablesInv
  <1> QED
    BY <1>4, <1>5, <1>6 DEF DataInv

(* A step that changes no table, and a rollback.                             *)
LEMMA InsideStays ==
    ASSUME RegInv, NEW p \in Procs, pc[p] \in Inside, pc[p] # "u_observed", ControlInv',
           NEW b \in Inside \cup {"close"}, Goto(p, b), UNCHANGED <<script, holder>>,
           UNCHANGED data,
           JobGoesOn(b, View(p)),
           b \in ReleaseSteps => job'.release \in DOMAIN disk.release
    PROVE  DataInv'
  <1>1. View(p)' = View(p) /\ disk' = disk /\ seen' = seen
    BY DEF View, data
  <1>2. MigrationInv'
    BY SchemaKept
  <1>3. JobInv'
    BY <1>1, JobKept
  <1>4. TablesInv'
    BY <1>1, InsideFacts DEF RegInv, DataInv, TablesInv
  <1> QED
    BY <1>2, <1>3, <1>4 DEF DataInv

LEMMA RollsBack ==
    ASSUME RegInv, RolledBack
    PROVE  TablesInv'
  BY KeepsSelf DEF RegInv, DataInv, TablesInv, RolledBack

LEMMA InsideRolls ==
    ASSUME RegInv, NEW p \in Procs, pc[p] \in Inside, ControlInv',
           NEW b \in Inside \cup {"close"}, Goto(p, b), UNCHANGED <<script, holder>>,
           writer = p, RolledBack,
           JobGoesOn(b, disk),
           b \in ReleaseSteps => job'.release \in DOMAIN disk.release
    PROVE  DataInv'
  <1>1. disk' = disk /\ seen' = disk /\ writer' = None
    BY DEF RolledBack
  <1>2. View(p)' = disk
    BY <1>1 DEF View
  <1>3. SameSchema(disk, disk') /\ SameSchema(disk', seen')
    BY <1>1 DEF SameSchema
  <1>4. MigrationInv'
    BY <1>1, <1>3, SchemaKept
  <1>5. JobInv'
    BY <1>1, <1>2, JobKept
  <1> QED
    BY <1>4, <1>5, RollsBack DEF DataInv

-----------------------------------------------------------------------------
(* Data: steps outside the lock, and leaving.                                *)

LEMMA SchemaQuiet ==
    ASSUME RegInv, NEW q \in Procs, ControlInv',
           NEW b \in Locations \ {"m_script", "m_record", "m_commit"}, Goto(q, b),
           \A p \in Procs : p # q => script'[p] = script[p],
           b \in {"ready"} \cup Inside => disk.applied = Scripts,
           SameSchema(disk, disk'),
           \/ UNCHANGED data /\ (writer = q => SameSchema(disk, seen))
           \/ SameSchema(disk', seen') /\ writer' \in {None, q}
    PROVE  MigrationInv'
  <1>1. pc'[q] = b /\ \A p \in Procs : p # q => pc'[p] = pc[p]
    BY Moved DEF RegInv, ControlInv
  <1>2. disk'.made = disk.made /\ disk'.applied = disk.applied
    BY DEF SameSchema
  <1>3. /\ Ran(disk, Len(disk.made))' /\ disk'.applied = 1 .. Len(disk'.made)
    BY <1>2 DEF RegInv, DataInv, MigrationInv, Ran
  <1>4. \A p \in Procs :
            /\ pc'[p] = "m_script" => script'[p] \in Scripts /\ script'[p] <= Len(disk'.made) + 1
            /\ pc'[p] \in {"ready"} \cup Inside => disk'.applied = Scripts
    BY <1>1, <1>2 DEF RegInv, DataInv, MigrationInv
  <1>5. CASE UNCHANGED data /\ (writer = q => SameSchema(disk, seen))
    <2>1. disk' = disk /\ seen' = seen /\ writer' = writer
      BY <1>5 DEF data
    <2> QED
      BY <1>1, <1>3, <1>4, <1>5, <2>1 DEF RegInv, DataInv, MigrationInv
  <1>6. CASE SameSchema(disk', seen') /\ writer' \in {None, q}
    <2>1. \A p \in Procs : pc'[p] \in {"m_record", "m_commit"} => p = q
      BY <1>6, EntryPlaces, Somebody DEF ControlInv, ConnInv
    <2>2. \A p \in Procs : pc'[p] \notin {"m_record", "m_commit"}
      BY <1>1, <2>1
    <2>3. \A p \in Procs : writer' = p => p = q
      BY <1>6, Somebody
    <2> QED
      BY <1>6, <2>2, <1>3, <1>4 DEF MigrationInv
  <1> QED
    BY <1>5, <1>6

LEMMA OutsideRows ==
    ASSUME RegInv, NEW q \in Procs, pc[q] \notin Inside, ControlInv',
           NEW b \in Locations \ Inside, Goto(q, b), UNCHANGED <<holder, job>>,
           \/ UNCHANGED data
           \/ /\ writer \in {None, q} /\ writer' \in {None, q}
              /\ disk' \in TableType /\ seen' \in TableType
              /\ SameRows(disk, disk') /\ SameRows(disk', seen')
    PROVE  TablesInv' /\ JobInv'
  <1>1. pc'[q] = b /\ \A p \in Procs : p # q => pc'[p] = pc[p]
    BY Moved DEF RegInv, ControlInv
  <1>2. \A p \in Procs : pc'[p] \in Inside => p # q /\ pc[p] = pc'[p]
    BY <1>1
  <1>3. "u_observed" \in Inside /\ ReleaseSteps \subseteq Inside
    BY DEF Inside, Resolving, ReleaseSteps
  <1>4. CASE UNCHANGED data
    <2>1. disk' = disk /\ seen' = seen /\ \A p \in Procs : View(p)' = View(p)
      BY <1>4 DEF data, View
    <2>2. TablesInv'
      BY <1>1, <1>3, <2>1 DEF RegInv, DataInv, TablesInv
    <2>3. JobInv'
      BY <1>2, <1>3, <2>1 DEF RegInv, DataInv, JobInv
    <2> QED
      BY <2>2, <2>3
  <1>5. CASE /\ writer \in {None, q} /\ writer' \in {None, q}
             /\ disk' \in TableType /\ seen' \in TableType
             /\ SameRows(disk, disk') /\ SameRows(disk', seen')
    <2>1. Shape(disk') /\ AllObserved(disk')
      BY <1>5, Like DEF RegInv, DataInv, TablesInv
    <2>2. Shape(seen') /\ AllObserved(seen') /\ Keeps(disk', seen')
      BY <1>5, <2>1, Like
    <2>3. TablesInv'
      BY <1>5, <2>1, <2>2 DEF TablesInv
    <2>4. \A p \in Procs : p # q => View(p) = disk /\ View(p)' = disk'
      BY <1>5, Somebody DEF View
    <2>5. \A p \in Procs : pc'[p] \in Inside => JobFits(pc'[p], View(p)', job')
      BY <1>2, <1>5, <2>4, Like DEF RegInv, DataInv, JobInv
    <2>6. disk'.release = disk.release
      BY <1>5 DEF SameRows
    <2>7. JobInv'
      BY <1>2, <1>3, <2>5, <2>6 DEF RegInv, DataInv, JobInv
    <2> QED
      BY <2>3, <2>7
  <1> QED
    BY <1>4, <1>5

LEMMA OutsideSame ==
    ASSUME NEW T
    PROVE  SameRows(T, T) /\ SameSchema(T, T)
  BY DEF SameRows, SameSchema

LEMMA OpenData ==
    ASSUME RegInv, ControlInv', NEW p \in Procs, Open(p)
    PROVE  DataInv'
  <1>1. /\ pc[p] = "off" /\ Goto(p, "m_check") /\ UNCHANGED <<data, script, holder, job>>
        /\ "m_check" \in Locations \ Inside /\ "off" \notin Inside \cup Places \cup MayPend
    BY EntryPlaces DEF Open, At, Migrating
  <1>2. writer # p
    BY <1>1, Unopened DEF RegInv
  <1>3. MigrationInv'
    BY <1>1, <1>2, SchemaQuiet, OutsideSame DEF data
  <1> QED
    BY <1>1, <1>3, OutsideRows DEF DataInv

LEMMA CheckData ==
    ASSUME RegInv, ControlInv', NEW p \in Procs, Check(p)
    PROVE  DataInv'
  <1>1. /\ pc[p] = "m_check" /\ UNCHANGED <<data, holder, job>>
        /\ {"ready", "m_script"} \subseteq Locations \ Inside
        /\ "m_check" \notin Inside \cup Places \cup MayPend
    BY EntryPlaces DEF Check, At, Migrating
  <1>2. writer # p
    BY <1>1, Unopened DEF RegInv
  <1>3. CASE Scripts \subseteq disk.applied /\ Goto(p, "ready") /\ UNCHANGED script
    <2>1. disk.applied = Scripts
      BY <1>3, Fields DEF RegInv, DataInv, TablesInv
    <2>2. MigrationInv'
      BY <1>1, <1>2, <1>3, <2>1, SchemaQuiet, OutsideSame DEF data
    <2> QED
      BY <1>1, <1>3, <2>2, OutsideRows DEF DataInv
  <1>4. ASSUME NEW i \in Scripts \ disk.applied, 1 .. i - 1 \subseteq disk.applied,
               script' = [script EXCEPT ![p] = i], Goto(p, "m_script")
        PROVE  DataInv'
    <2>1. disk' = disk /\ seen' = seen /\ writer' = writer
      BY <1>1 DEF data
    <2>2. /\ pc'[p] = "m_script" /\ script'[p] = i
          /\ \A q \in Procs : q # p => pc'[q] = pc[q] /\ script'[q] = script[q]
      BY <1>1, <1>4, Moved DEF RegInv, ControlInv, ControlType
    <2>3. i <= Len(disk.made) + 1
      <3>1. i \in Nat /\ Len(disk.made) \in Nat /\ disk.applied = 1 .. Len(disk.made)
        BY Fields DEF Scripts, RegInv, DataInv, TablesInv, MigrationInv
      <3>2. i - 1 \in 1 .. i - 1 \/ i - 1 = 0
        BY <3>1, <1>4 DEF Scripts
      <3>3. i - 1 \in 1 .. Len(disk.made) \/ i - 1 = 0
        BY <1>4, <3>1, <3>2
      <3> QED
        BY <3>1, <3>3
    <2>4. MigrationInv'
      BY <1>1, <1>2, <2>1, <2>2, <2>3, ZenonT(60) DEF RegInv, DataInv, MigrationInv
    <2> QED
      BY <1>1, <1>4, <2>4, OutsideRows DEF DataInv
  <1> QED
    BY <1>3, <1>4 DEF Check

(* A schema that is not made yet is the next one.                            *)
LEMMA NextScript ==
    ASSUME RegInv, NEW p \in Procs, pc[p] = "m_script", ~Made(disk, script[p])
    PROVE  script[p] \in Scripts /\ script[p] = Len(disk.made) + 1
  <1>1. /\ script[p] \in Scripts /\ script[p] <= Len(disk.made) + 1
        /\ disk.made = [i \in 1 .. Len(disk.made) |-> i]
        /\ disk.made \in Seq(Scripts)
    BY Fields DEF RegInv, DataInv, TablesInv, MigrationInv, Ran
  <1>2. script[p] \notin 1 .. Len(disk.made)
    BY <1>1 DEF Made
  <1> QED
    BY <1>1, <1>2 DEF Scripts

LEMMA RecordData ==
    ASSUME RegInv, ControlInv', NEW p \in Procs, RecordScript(p)
    PROVE  DataInv'
  <1>1. /\ pc[p] = "m_record" /\ UNCHANGED <<script, holder, job>> /\ Goto(p, "m_commit")
        /\ "m_commit" \in Locations \ Inside
        /\ "m_record" \notin Inside /\ "m_record" \in Begun
    BY EntryPlaces DEF RecordScript, At, Migrating
  <1>2. /\ disk' = disk /\ seen' = [seen EXCEPT !.applied = @ \cup {script[p]}]
        /\ writer' = p /\ writer = p
    BY <1>1 DEF RecordScript, Scoped, Statement, RegInv, ControlInv, ConnInv
  <1>3. /\ script[p] \in Scripts /\ script[p] = Len(disk.made) + 1
        /\ Ran(seen, script[p]) /\ SameRows(disk, seen) /\ seen.applied = disk.applied
        /\ disk \in TableType /\ seen \in TableType
    BY <1>1 DEF RegInv, DataInv, TablesInv, MigrationInv
  <1>4. /\ seen'.made = seen.made /\ seen'.applied = disk.applied \cup {script[p]}
        /\ SameRows(disk', seen')
    BY <1>2, <1>3, Fields DEF SameRows
  <1>5. seen' \in TableType
    BY <1>2, <1>3, <1>4, Fields DEF TableType
  <1>6. Ran(seen', script[p])
    BY <1>3, <1>4 DEF Ran
  <1>7. /\ pc'[p] = "m_commit" /\ \A q \in Procs : q # p => pc'[q] = pc[q]
    BY <1>1, Moved DEF RegInv, ControlInv
  <1>8. \A q \in Procs : q # p => pc'[q] \notin {"m_record", "m_commit"} /\ writer' # q
    BY <1>2, <1>7, EntryPlaces, Somebody DEF RegInv, ControlInv, ConnInv
  <1>9. MigrationInv'
    <2>1. "m_commit" \in Migrating /\ p # None /\ "m_commit" # "m_record"
      BY Somebody DEF Migrating
    <2>2. "m_commit" \notin {"ready"} \cup Inside
      BY <1>1
    <2>3. ASSUME NEW q \in Procs, q # p
          PROVE  /\ pc'[q] = "m_script" => script'[q] \in Scripts /\ script'[q] <= Len(disk'.made) + 1
                 /\ pc'[q] \in {"ready"} \cup Inside => disk'.applied = Scripts
      BY <1>1, <1>2, <1>7, <2>3 DEF RegInv, DataInv, MigrationInv
    <2>4. Ran(disk, Len(disk.made))' /\ disk'.applied = 1 .. Len(disk'.made)
      BY <1>2 DEF RegInv, DataInv, MigrationInv
    <2> QED
      BY <1>1, <1>2, <1>3, <1>4, <1>6, <1>7, <1>8, <2>1, <2>2, <2>3, <2>4 DEF MigrationInv
  <1> QED
    BY <1>1, <1>2, <1>3, <1>4, <1>5, <1>9, OutsideRows, OutsideSame DEF DataInv

LEMMA CommitScriptData ==
    ASSUME RegInv, ControlInv', NEW p \in Procs, CommitScript(p)
    PROVE  DataInv'
  <1>1. /\ pc[p] = "m_commit" /\ UNCHANGED <<holder, job>> /\ Goto(p, "m_check")
        /\ EndScope(p)
        /\ script' = [script EXCEPT ![p] = 1]
        /\ "m_check" \in Locations \ Inside
        /\ "m_commit" \notin Inside /\ "m_commit" \in Begun
    BY EntryPlaces DEF CommitScript, At, Migrating
  <1>2. disk' = seen /\ seen' = seen /\ writer' = None /\ writer = p
    BY <1>1, Ends DEF Committed, RegInv
  <1>3. /\ script[p] \in Scripts /\ script[p] = Len(disk.made) + 1
        /\ Ran(seen, script[p]) /\ SameRows(disk, seen)
        /\ seen.applied = disk.applied \cup {script[p]}
        /\ disk \in TableType /\ seen \in TableType
    BY <1>1 DEF RegInv, DataInv, TablesInv, MigrationInv
  <1>4. /\ Len(disk.made) \in Nat /\ disk.applied = 1 .. Len(disk.made)
        /\ disk.applied \subseteq Scripts
    BY <1>3, Fields DEF RegInv, DataInv, MigrationInv
  <1>5. Len(seen.made) = Len(disk.made) + 1
    BY <1>3, <1>4 DEF Ran
  <1>6. /\ Ran(disk', Len(disk'.made)) /\ disk'.applied = 1 .. Len(disk'.made)
    <2>1. disk.applied \cup {script[p]} = 1 .. Len(disk.made) + 1
      BY <1>3, <1>4
    <2> QED
      BY <1>2, <1>3, <1>5, <2>1
  <1>7. /\ pc'[p] = "m_check"
        /\ \A q \in Procs : q # p => pc'[q] = pc[q] /\ script'[q] = script[q]
    BY <1>1, Moved DEF RegInv, ControlInv, ControlType
  <1>8. \A q \in Procs : pc'[q] \notin {"m_record", "m_commit"} /\ writer' # q
    BY <1>2, EntryPlaces, Somebody DEF ControlInv, ConnInv
  <1>9. ASSUME NEW q \in Procs
        PROVE  /\ pc'[q] = "m_script" => script'[q] \in Scripts /\ script'[q] <= Len(disk'.made) + 1
               /\ pc'[q] \in {"ready"} \cup Inside => disk'.applied = Scripts
    <2>1. CASE q = p
      BY <1>1, <1>7, <2>1 DEF Migrating
    <2>2. CASE q # p
      <3>1. pc'[q] = "m_script" => script[q] \in Scripts /\ script[q] <= Len(disk.made) + 1
        BY <1>7, <2>2 DEF RegInv, DataInv, MigrationInv
      <3>2. pc'[q] \in {"ready"} \cup Inside => disk.applied = Scripts
        BY <1>7, <2>2 DEF RegInv, DataInv, MigrationInv
      <3>3. pc'[q] = "m_script" => script'[q] <= Len(disk'.made) + 1
        BY <1>2, <1>4, <1>5, <1>7, <2>2, <3>1 DEF Scripts
      <3> QED
        BY <1>2, <1>3, <1>4, <1>7, <2>2, <3>1, <3>2, <3>3
    <2> QED
      BY <2>1, <2>2
  <1>10. MigrationInv'
    BY <1>2, <1>6, <1>8, <1>9, OutsideSame DEF MigrationInv
  <1> QED
    BY <1>1, <1>2, <1>3, <1>10, OutsideRows, OutsideSame DEF DataInv

LEMMA LeaveData ==
    ASSUME RegInv, ControlInv', NEW p \in Procs, Leave(p)
    PROVE  DataInv'
  <1>1. /\ Goto(p, "off") /\ script' = [script EXCEPT ![p] = 1]
        /\ "off" \in Locations \ (Inside \cup {"ready"}) /\ "off" \notin {"m_script", "m_record", "m_commit"}
    BY EntryPlaces DEF Leave
  <1>2. \A q \in Procs : q # p => script'[q] = script[q]
    BY <1>1 DEF RegInv, ControlInv, ControlType
  <1>3. /\ pc'[p] = "off" /\ \A q \in Procs : q # p => pc'[q] = pc[q]
    BY <1>1, Moved DEF RegInv, ControlInv
  <1>4. MigrationInv'
    <2>1. CASE writer = p
      <3>1. disk' = disk /\ seen' = disk /\ writer' = None
        BY <2>1 DEF Leave, RolledBack
      <3> QED
        BY <1>1, <1>2, <3>1, SchemaQuiet, OutsideSame
    <2>2. CASE writer # p
      <3>1. UNCHANGED data /\ disk' = disk
        BY <2>2 DEF Leave, data
      <3> QED
        BY <1>1, <1>2, <2>2, <3>1, SchemaQuiet, OutsideSame
    <2> QED
      BY <2>1, <2>2
  <1>5. TablesInv'
    <2>1. CASE writer = p
      BY <2>1, RollsBack DEF Leave
    <2>2. CASE writer # p
      <3>1. disk' = disk /\ seen' = seen
        BY <2>2 DEF Leave, data
      <3>2. CASE AllObserved(seen)
        BY <3>1, <3>2 DEF RegInv, DataInv, TablesInv
      <3>3. CASE \E q \in Procs :
                    pc[q] = "u_observed" /\ ObservedBut(seen, job.release, job.version)
        <4>1. PICK q \in Procs :
                    pc[q] = "u_observed" /\ ObservedBut(seen, job.release, job.version)
          BY <3>3
        <4>2. "u_observed" \in Begun /\ "u_observed" \in Inside
          BY DEF Begun, Inside, Resolving
        <4>3. writer = q /\ holder = q /\ q # p
          BY <2>2, <4>1, <4>2 DEF RegInv, ControlInv, ConnInv, LockInv
        <4>4. job' = job
          BY <4>3 DEF Leave
        <4> QED
          BY <1>3, <3>1, <4>1, <4>3, <4>4 DEF RegInv, DataInv, TablesInv
      <3> QED
        BY <3>2, <3>3 DEF RegInv, DataInv, TablesInv
    <2> QED
      BY <2>1, <2>2
  <1>6. JobInv'
    <2>1. CASE holder = p
      <3>1. holder' = None /\ job' = NoJob
        BY <2>1 DEF Leave
      <3>2. \A q \in Procs : pc'[q] \notin Inside
        BY <3>1, Somebody DEF ControlInv, LockInv
      <3>3. ReleaseSteps \subseteq Inside
        BY DEF ReleaseSteps, Inside
      <3> QED
        BY <3>1, <3>2, <3>3 DEF JobInv, NoJob
    <2>2. CASE holder # p
      <3>1. UNCHANGED <<holder, job>> /\ pc[p] \notin Inside
        BY <2>2 DEF Leave, RegInv, ControlInv, LockInv
      <3>2. CASE writer = p
        <4>1. disk' = disk /\ seen' = disk /\ writer' = None
          BY <3>2 DEF Leave, RolledBack
        <4> QED
          BY <1>1, <3>1, <3>2, <4>1, OutsideRows, OutsideSame DEF RegInv, DataInv, TablesInv
      <3>3. CASE writer # p
        BY <1>1, <3>1, <3>3, OutsideRows DEF Leave
      <3> QED
        BY <3>2, <3>3
    <2> QED
      BY <2>1, <2>2
  <1> QED
    BY <1>4, <1>5, <1>6 DEF DataInv

LEMMA RunData ==
    ASSUME RegInv, ControlInv', NEW p \in Procs, RunScript(p)
    PROVE  DataInv'
  <1> SUFFICES ASSUME ~Leave(p) PROVE DataInv'
    BY LeaveData
  <1>1. /\ pc[p] = "m_script" /\ writer = None /\ UNCHANGED <<script, holder, job>>
        /\ "m_record" \in Locations \ Inside
        /\ "m_script" \notin Inside
    BY EntryPlaces DEF RunScript, At, Migrating
  <1>2. CASE /\ ~Made(disk, script[p]) /\ Goto(p, "m_record")
             /\ Scoped(p, [disk EXCEPT !.made = Append(@, script[p])])
    <2>1. disk' = disk /\ seen' = [disk EXCEPT !.made = Append(@, script[p])] /\ writer' = p
      BY <1>2 DEF Scoped, Statement
    <2>2. script[p] \in Scripts /\ script[p] = Len(disk.made) + 1
      BY <1>1, <1>2, NextScript
    <2>3. disk \in TableType /\ Ran(disk, Len(disk.made))
      BY DEF RegInv, DataInv, TablesInv, MigrationInv
    <2>4. /\ seen'.made = Append(disk.made, script[p]) /\ seen'.applied = disk.applied
          /\ SameRows(disk, seen')
      BY <2>1, <2>3, Fields DEF SameRows
    <2>5. seen' \in TableType
      <3>1. Append(disk.made, script[p]) \in Seq(Scripts)
        BY <2>2, <2>3, Fields
      <3> QED
        BY <2>1, <2>3, <3>1, Fields DEF TableType
    <2>6. Ran(seen', script[p])
      <3>1. disk.made \in Seq(Scripts) /\ disk.made = [i \in 1 .. Len(disk.made) |-> i]
        BY <2>3, Fields DEF Ran
      <3>2. Append(disk.made, script[p]) = [i \in 1 .. script[p] |-> i]
        BY <2>2, <3>1 DEF Scripts
      <3> QED
        BY <2>4, <3>2 DEF Ran
    <2>7. /\ pc'[p] = "m_record" /\ \A q \in Procs : q # p => pc'[q] = pc[q]
      BY <1>1, <1>2, Moved DEF RegInv, ControlInv
    <2>8. \A q \in Procs : q # p => pc'[q] \notin {"m_record", "m_commit"} /\ writer' # q
      BY <1>1, <2>1, <2>7, EntryPlaces, Somebody DEF RegInv, ControlInv, ConnInv
    <2>9. MigrationInv'
      <3>1. "m_record" \in Migrating /\ p # None
        BY Somebody DEF Migrating
      <3>2. "m_record" \notin {"ready"} \cup Inside
        BY <1>1
      <3>3. ASSUME NEW q \in Procs, q # p
            PROVE  /\ pc'[q] = "m_script" => script'[q] \in Scripts /\ script'[q] <= Len(disk'.made) + 1
                   /\ pc'[q] \in {"ready"} \cup Inside => disk'.applied = Scripts
        BY <1>1, <2>1, <2>7, <3>3 DEF RegInv, DataInv, MigrationInv
      <3>4. Ran(disk, Len(disk.made))' /\ disk'.applied = 1 .. Len(disk'.made)
        BY <2>1 DEF RegInv, DataInv, MigrationInv
      <3> QED
        BY <1>1, <2>1, <2>2, <2>4, <2>6, <2>7, <2>8, <3>1, <3>2, <3>3, <3>4 DEF MigrationInv
    <2> QED
      BY <1>1, <1>2, <2>1, <2>3, <2>4, <2>5, <2>9, OutsideRows, OutsideSame DEF DataInv
  <1> QED
    BY <1>2 DEF RunScript

LEMMA LockData ==
    ASSUME RegInv, ControlInv', NEW p \in Procs, Lock(p)
    PROVE  DataInv'
  <1>1. CASE Leave(p)
    BY <1>1, LeaveData
  <1>2. CASE holder = None /\ holder' = p /\ Goto(p, "select") /\ UNCHANGED <<data, script, job>>
    <2>1. /\ pc[p] = "ready" /\ "select" \in Locations \ Places /\ "select" \in Inside
          /\ pc[p] \notin Places \cup MayPend \cup Inside
          /\ "select" \notin {"m_script", "m_record", "m_commit"}
          /\ disk.applied = Scripts
      BY EntryPlaces DEF Lock, At, Migrating, RegInv, DataInv, MigrationInv
    <2>2. writer # p
      BY <2>1, Unopened DEF RegInv
    <2>3. /\ disk' = disk /\ seen' = seen /\ job' = job
          /\ pc'[p] = "select" /\ \A q \in Procs : q # p => pc'[q] = pc[q]
      BY <1>2, <2>1, Moved DEF RegInv, ControlInv, data
    <2>4. MigrationInv'
      BY <1>2, <2>1, <2>2, <2>3, SchemaQuiet, OutsideSame
    <2>5. \A q \in Procs : pc[q] \notin Inside
      BY <1>2, Somebody DEF RegInv, ControlInv, LockInv
    <2>6. TablesInv'
      <3>1. "u_observed" \in Inside
        BY DEF Inside, Resolving
      <3> QED
        BY <2>3, <2>5, <3>1 DEF RegInv, DataInv, TablesInv
    <2>7. job' = NoJob
      BY <1>2, <2>3 DEF RegInv, DataInv, JobInv
    <2>8. JobFits("select", View(p)', job')
      BY <2>7 DEF Cataloguing, JobFits, NoJob, TargetSteps, FoundSteps, ObservedSteps, Naming, Resolving, Erring
    <2>9. JobInv'
      <3>1. ReleaseSteps \subseteq Inside /\ "select" \notin ReleaseSteps
        BY DEF ReleaseSteps, Inside, Cataloguing, Handling, Recording
      <3> QED
        BY <1>2, <2>3, <2>5, <2>7, <2>8, <3>1, Somebody DEF JobInv, NoJob
    <2> QED
      BY <2>4, <2>6, <2>9 DEF DataInv
  <1> QED
    BY <1>1, <1>2 DEF Lock

-----------------------------------------------------------------------------
(* Data: each step of the process inside.                                    *)

LEMMA RowIn ==
    ASSUME NEW T \in TableType, Shape(T), NEW i \in DOMAIN T.release
    PROVE  /\ T.release[i] \in RowType /\ Columns(T.release[i])
           /\ i \in Nat /\ i # 0
           /\ T.release[i].full \in Versions /\ T.release[i].target \in Targets
           /\ T.release[i].state \in States
           /\ T.release[i].state = "DECRYPTED" => i \in Catalogued(T)
  <1>1. T.release[i] \in RowType /\ i \in Nat /\ i # 0
    BY Fields
  <1> QED
    BY <1>1 DEF RowType, Shape, InOrder

RowIs(r, t, ap, full, state) ==
    /\ r \in RowType /\ Columns(r)
    /\ r.target = t /\ r.ap = ap /\ r.full = full /\ r.state = state

LEMMA RowAt ==
    ASSUME NEW T \in TableType, Shape(T), NEW i \in DOMAIN T.release
    PROVE  RowIs(T.release[i], T.release[i].target, T.release[i].ap, T.release[i].full,
                 T.release[i].state)
  BY Fields DEF Shape, RowIs

(* The release keeps the version it claims, or gets one observed as its own. *)
LEMMA StillObserved ==
    ASSUME NEW T, NEW U, NEW i, NEW r, RowPut(T, U, i, r), AllObserved(T),
           T.observed[r.target][r.full] = i
    PROVE  AllObserved(U)
  BY DEF RowPut, AllObserved

FoundIs(T, t, v) ==
    /\ \A i \in Found(T, t, v) :
          /\ i \in DOMAIN T.release
          /\ T.release[i].target = t /\ T.release[i].ap = v.ap
          /\ T.observed[t][v] \in {0, i}
    /\ Found(T, t, v) = {} =>
          /\ T.observed[t][v] = 0
          /\ \A k \in DOMAIN T.release : ~(T.release[k].target = t /\ T.release[k].ap = v.ap)

LEMMA FoundRow ==
    ASSUME NEW T, Canonical(T), NEW t \in Targets, NEW v \in Versions
    PROVE  FoundIs(T, t, v)
  <1>1. CASE T.observed[t][v] # 0
    <2>1. /\ T.observed[t][v] \in DOMAIN T.release
          /\ T.release[T.observed[t][v]].target = t
          /\ T.release[T.observed[t][v]].ap = v.ap
      BY <1>1 DEF Canonical
    <2>2. Found(T, t, v) = {T.observed[t][v]}
      BY <1>1 DEF Found
    <2> QED
      BY <1>1, <2>1, <2>2 DEF FoundIs
  <1>2. CASE T.observed[t][v] = 0
    BY <1>2 DEF Found, FoundIs
  <1> QED
    BY <1>1, <1>2

LEMMA NewRow ==
    ASSUME NEW t \in Targets, NEW v \in Versions
    PROVE  RowIs(Inserted(t, v), t, v.ap, v, "DISCOVERED")
  BY DEF RowIs, Inserted, RowType, Columns, States

LEMMA MergedRow ==
    ASSUME NEW r \in RowType, Columns(r), NEW v \in Versions
    PROVE  RowIs(Merged(r, v), r.target, r.ap, r.full, r.state)
  <1>1. r.full # None /\ r.tail # None
    BY RegistryConstants DEF RowType, Columns
  <1>2. Or(r.full, v) = r.full /\ Or(r.tail, v.tail) = r.tail
    BY <1>1 DEF Or
  <1>3. Or(r.data, v.data) \in {w.data : w \in Versions} \cup {None}
    BY DEF Or, RowType
  <1>4. r.data # None => Or(r.data, v.data) = r.data
    BY DEF Or
  <1>5. Merged(r, v) = [r EXCEPT !.full = r.full, !.tail = r.tail, !.data = Or(r.data, v.data)]
    BY <1>2 DEF Merged
  <1>6. /\ Merged(r, v) \in RowType
        /\ Merged(r, v).target = r.target /\ Merged(r, v).ap = r.ap
        /\ Merged(r, v).full = r.full /\ Merged(r, v).state = r.state
        /\ Merged(r, v).tail = r.tail /\ Merged(r, v).data = Or(r.data, v.data)
    BY <1>3, <1>5 DEF RowType
  <1> QED
    BY <1>4, <1>6 DEF Columns, RowIs

LEMMA ResolvedRowIs ==
    ASSUME NEW r \in RowType, NEW v \in Versions, r.ap = v.ap
    PROVE  RowIs(ResolvedRow(r, v), r.target, r.ap, v, r.state)
  <1>1. Or(v.data, r.data) \in {w.data : w \in Versions} \cup {None}
    BY DEF Or, RowType
  <1>2. v.data # None => Or(v.data, r.data) = v.data
    BY DEF Or
  <1>3. /\ ResolvedRow(r, v) \in RowType
        /\ ResolvedRow(r, v).target = r.target /\ ResolvedRow(r, v).ap = r.ap
        /\ ResolvedRow(r, v).full = v /\ ResolvedRow(r, v).state = r.state
        /\ ResolvedRow(r, v).tail = v.tail /\ ResolvedRow(r, v).data = Or(v.data, r.data)
    BY <1>1 DEF RowType, ResolvedRow
  <1> QED
    BY <1>2, <1>3 DEF Columns, RowIs

InState(r, s) == [r EXCEPT !.state = s]

LEMMA StateRow ==
    ASSUME NEW r \in RowType, Columns(r), NEW s \in States
    PROVE  RowIs(InState(r, s), r.target, r.ap, r.full, s)
  <1>1. /\ InState(r, s) \in RowType
        /\ InState(r, s).target = r.target /\ InState(r, s).ap = r.ap
        /\ InState(r, s).full = r.full /\ InState(r, s).state = s
        /\ InState(r, s).tail = r.tail /\ InState(r, s).data = r.data
    BY DEF RowType, InState
  <1> QED
    BY <1>1 DEF Columns, RowIs

(* set_state                                                                 *)
LEMMA PutState ==
    ASSUME NEW T \in TableType, Shape(T), AllObserved(T),
           NEW i \in DOMAIN T.release, NEW s \in States, s # "DISCOVERED",
           s = "DECRYPTED" => i \in Catalogued(T),
           NEW U, WithRow(T, U, i, InState(T.release[i], s))
    PROVE  RowPut(T, U, i, InState(T.release[i], s)) /\ AllObserved(U)
  <1> DEFINE r == InState(T.release[i], s)
  <1>1. RowIs(T.release[i], T.release[i].target, T.release[i].ap, T.release[i].full,
              T.release[i].state)
    BY RowAt
  <1>2. RowIs(r, T.release[i].target, T.release[i].ap, T.release[i].full, s)
    BY <1>1, StateRow DEF RowIs
  <1>3. r \in RowType /\ Columns(r) /\ RowFits(T, i, r)
    BY <1>2 DEF RowIs, RowFits
  <1> HIDE DEF r
  <1>4. RowPut(T, U, i, r)
    BY <1>3, PutRow DEF r
  <1>5. T.observed[r.target][r.full] = i
    BY <1>2 DEF RowIs, AllObserved
  <1>6. AllObserved(U)
    BY <1>4, <1>5, StillObserved
  <1> QED
    BY <1>4, <1>6 DEF r

LEMMA TargetSame ==
    ASSUME NEW T \in TableType, Shape(T), NEW t \in Targets
    PROVE  /\ T.target[t] \in TargetType \cup {None}
           /\ TargetFits(T, t, T.target[t])
           /\ T.target[t] = None =>
                 NoTarget \in TargetType \cup {None} /\ TargetFits(T, t, NoTarget)
  <1>1. T.target[t] \in TargetType \cup {None}
    BY Fields
  <1>2. TargetFits(T, t, T.target[t])
    BY DEF TargetFits, Shape, Home
  <1>3. NoTarget \in TargetType /\ NoTarget.latest = 0 /\ NoTarget # None
    BY RegistryConstants DEF NoTarget, TargetType
  <1> QED
    BY <1>1, <1>2, <1>3 DEF TargetFits

LEMMA TargetResolved ==
    ASSUME NEW T, NEW t \in Targets, NEW i \in DOMAIN T.release, i \in Nat, NEW v \in Versions,
           T.release[i].target = t, T.release[i].ap = v.ap, T.release[i].state # "DISCOVERED",
           i # 0
    PROVE  /\ [latest |-> i, full |-> v] \in TargetType \cup {None}
           /\ TargetFits(T, t, [latest |-> i, full |-> v])
  <1>1. [latest |-> i, full |-> v] \in TargetType /\ [latest |-> i, full |-> v] # None
        /\ v # None
    BY RegistryConstants DEF TargetType
  <1> QED
    BY <1>1 DEF TargetFits

(* A statement of upsert_target_observation, probe or its handler...         *)
LEMMA EarlyWrites ==
    ASSUME RegInv, NEW p \in Procs, pc[p] \in Inside, ControlInv',
           NEW b \in TargetSteps, Goto(p, b), UNCHANGED <<script, holder>>,
           NEW k, Statement(p, k, seen'),
           Good(View(p), seen'), AllObserved(seen'), JobGoesOn(b, seen')
    PROVE  DataInv'
  <1>1. b \in Inside /\ b \notin ReleaseSteps
    BY DEF TargetSteps, ReleaseSteps, Inside, Naming, Resolving, Erring, Cataloguing, Handling,
           Recording
  <1> QED
    BY <1>1, InsideWrites DEF Good

(* ... and of download_release or the handlers after it.                     *)
LEMMA LateWrites ==
    ASSUME RegInv, NEW p \in Procs, pc[p] \in ReleaseSteps, ControlInv',
           NEW b \in ReleaseSteps, Goto(p, b), UNCHANGED <<script, holder, job>>,
           NEW k, Statement(p, k, seen'),
           Good(View(p), seen'), AllObserved(seen'), JobGoesOn(b, seen')
    PROVE  DataInv'
  <1>1. ReleaseSteps \subseteq Inside
    BY DEF ReleaseSteps, Inside
  <1>2. job'.release \in DOMAIN disk.release
    BY DEF RegInv, DataInv, JobInv
  <1> QED
    BY <1>1, <1>2, InsideWrites DEF Good

JobTyped(j) ==
    j \in [target : Targets \cup {None}, version : Versions \cup {None}, release : Nat,
           tried : BOOLEAN, digest : Digests \cup {None}]

LEMMA NameTargetData ==
    ASSUME RegInv, ControlInv', NEW p \in Procs, NameTarget(p)
    PROVE  DataInv'
  <1>1. /\ pc[p] = "select" /\ Goto(p, "n_observed") /\ UNCHANGED <<script, holder>>
        /\ "select" \in Inside /\ "n_observed" \in TargetSteps
    BY DEF NameTarget, At, Inside, TargetSteps, Naming
  <1>2. PICK t \in Targets :
            /\ Scoped(p, [View(p) EXCEPT !.target[t] = IF @ = None THEN NoTarget ELSE @])
            /\ job' = [job EXCEPT !.target = t]
    BY DEF NameTarget
  <1> DEFINE x == IF View(p).target[t] = None THEN NoTarget ELSE View(p).target[t]
  <1>3. Statement(p, "explicit", seen') /\ WithTarget(View(p), seen', t, x)
    BY <1>2 DEF Scoped, Statement, WithTarget
  <1>4. View(p) \in TableType /\ Shape(View(p)) /\ AllObserved(View(p)) /\ JobFits("select", View(p), job)
    BY <1>1, InsideFacts
  <1>5. x \in TargetType \cup {None} /\ TargetFits(View(p), t, x)
    BY <1>4, TargetSame
  <1> HIDE DEF x
  <1>6. TargetPut(View(p), seen', t, x)
    BY <1>3, <1>4, <1>5, PutTarget
  <1>7. Good(View(p), seen') /\ AllObserved(seen')
    BY <1>4, <1>6 DEF TargetPut, AllObserved
  <1>8. JobGoesOn("n_observed", seen')
    BY <1>2, <1>4 DEF Cataloguing, JobGoesOn, JobFits, TargetSteps, FoundSteps, ObservedSteps, Naming, Resolving
  <1> QED
    BY <1>1, <1>3, <1>7, <1>8, EarlyWrites

LEMMA Writing ==
    ASSUME RegInv, NEW p \in Procs, pc[p] \in Begun \cup Pending
    PROVE  writer = p /\ View(p) = seen
  BY DEF RegInv, ControlInv, ConnInv, View

(* A commit.                                                                 *)
LEMMA DataCommits ==
    ASSUME RegInv, NEW p \in Procs, pc[p] \in Inside \cap (Begun \cup Pending), pc[p] # "u_observed",
           ControlInv', NEW b \in Inside \cup {"close"}, Goto(p, b), UNCHANGED <<script, holder>>,
           \/ pc[p] \in Begun /\ EndScope(p)
           \/ pc[p] \in Pending /\ BareCommit(p),
           JobGoesOn(b, View(p)),
           \/ b \notin ReleaseSteps
           \/ pc[p] \in ReleaseSteps /\ UNCHANGED job
           \/ job'.release \in DOMAIN View(p).release
    PROVE  DataInv'
  <1>1. writer = p /\ View(p) = seen /\ Committed
    BY Writing, Ends DEF RegInv
  <1>2. b \in ReleaseSteps => job'.release \in DOMAIN View(p).release
    BY InsideFacts
  <1> QED
    BY <1>1, <1>2, InsideCommits

LEMMA NameObservedData ==
    ASSUME RegInv, ControlInv', NEW p \in Procs, NameObserved(p)
    PROVE  DataInv'
  <1>1. /\ pc[p] = "n_observed" /\ Goto(p, "n_commit") /\ UNCHANGED <<script, holder, job>>
        /\ "n_observed" \in Inside \cap Begun /\ "n_commit" \in TargetSteps
    BY DEF NameObserved, At, Inside, Begun, TargetSteps, Naming
  <1>2. PICK s \in Sources : Scoped(p, [seen EXCEPT !.named = @ \cup {<<s, job.target>>}])
    BY DEF NameObserved
  <1>3. /\ View(p) \in TableType /\ Shape(View(p)) /\ AllObserved(View(p))
        /\ JobFits("n_observed", View(p), job) /\ View(p) = seen
    BY <1>1, InsideFacts, Writing
  <1>4. job.target \in Targets /\ JobTyped(job)
    BY <1>3 DEF JobFits, TargetSteps, Naming, JobTyped
  <1>5. /\ Statement(p, "explicit", seen') /\ WithName(View(p), seen', <<s, job.target>>)
        /\ <<s, job.target>> \in Sources \X Targets
    BY <1>2, <1>3, <1>4 DEF Scoped, Statement, WithName
  <1>6. RowsKept(View(p), seen')
    BY <1>3, <1>5, AddName
  <1>7. Good(View(p), seen') /\ AllObserved(seen')
    BY <1>3, <1>6 DEF RowsKept, AllObserved
  <1>8. JobGoesOn("n_commit", seen')
    BY <1>1, <1>4 DEF Cataloguing, JobGoesOn, JobFits, TargetSteps, FoundSteps, ObservedSteps, Naming, Resolving, JobTyped
  <1> QED
    BY <1>1, <1>5, <1>7, <1>8, EarlyWrites

LEMMA NoJobFits ==
    ASSUME NEW T
    PROVE  JobFits("select", T, NoJob) /\ JobTyped(NoJob)
  BY DEF Cataloguing, JobFits, NoJob, TargetSteps, FoundSteps, ObservedSteps, Naming, Resolving, Erring, JobTyped

(* Back to the next target.                                                  *)
LEMMA GoesOnSelect ==
    ASSUME NEW T, job' = NoJob
    PROVE  JobGoesOn("select", T)
  BY NoJobFits DEF JobGoesOn, JobTyped

LEMMA NameCommitData ==
    ASSUME RegInv, ControlInv', NEW p \in Procs, NameCommit(p) \/ ErrorCommit(p)
    PROVE  DataInv'
  <1>1. /\ \/ pc[p] = "n_commit" /\ EndScope(p)
           \/ pc[p] = "e_commit" /\ BareCommit(p)
        /\ Goto(p, "select") /\ UNCHANGED <<script, holder>> /\ job' = NoJob
        /\ "n_commit" \in Inside \cap Begun /\ "e_commit" \in Inside \cap Pending
        /\ "select" \in Inside \ ReleaseSteps
    BY DEF NameCommit, ErrorCommit, At, Inside, Begun, Pending, Naming, Erring, ReleaseSteps, Cataloguing,
           Handling, Recording
  <1> QED
    BY <1>1, DataCommits, GoesOnSelect

LEMMA AnswerData ==
    ASSUME RegInv, ControlInv', NEW p \in Procs, Answer(p) \/ NoAnswer(p)
    PROVE  DataInv'
  <1>1. /\ pc[p] = "select" /\ UNCHANGED <<data, script, holder>>
        /\ "select" \in Inside
        /\ {"u_release", "e_row"} \subseteq Inside \ ReleaseSteps
    BY DEF Answer, NoAnswer, At, Inside, Resolving, Erring, ReleaseSteps, Cataloguing,
           Handling, Recording
  <1>2. CASE Answer(p)
    <2>1. PICK t \in Targets, v \in Versions : job' = [NoJob EXCEPT !.target = t, !.version = v]
      BY <1>2 DEF Answer
    <2>2. JobGoesOn("u_release", View(p))
      BY <2>1 DEF Cataloguing, JobGoesOn, JobFits, NoJob, FoundSteps, ObservedSteps
    <2> QED
      BY <1>1, <1>2, <2>2, InsideStays DEF Answer
  <1>3. CASE NoAnswer(p)
    <2>1. PICK t \in Targets : job' = [NoJob EXCEPT !.target = t]
      BY <1>3 DEF NoAnswer
    <2>2. JobGoesOn("e_row", View(p))
      BY <2>1 DEF Cataloguing, JobGoesOn, JobFits, NoJob, FoundSteps, ObservedSteps, Resolving
    <2> QED
      BY <1>1, <1>3, <2>2, InsideStays DEF NoAnswer
  <1> QED
    BY <1>2, <1>3

LEMMA UpsertReleaseData ==
    ASSUME RegInv, ControlInv', NEW p \in Procs, UpsertRelease(p)
    PROVE  DataInv'
  <1> DEFINE T == View(p)
             t == job.target
             v == job.version
  <1>1. /\ pc[p] = "u_release" /\ Goto(p, "u_observed") /\ UNCHANGED <<script, holder>>
        /\ "u_release" \in Inside /\ "u_observed" \in TargetSteps
        /\ "u_observed" \in Inside \ ReleaseSteps
    BY DEF UpsertRelease, At, Inside, TargetSteps, Resolving, ReleaseSteps, Cataloguing,
           Handling, Recording
  <1>2. /\ T \in TableType /\ Shape(T) /\ AllObserved(T) /\ Canonical(T)
        /\ JobFits("u_release", T, job)
    BY <1>1, InsideFacts DEF Shape
  <1>3. t \in Targets /\ v \in Versions /\ JobTyped(job)
    BY <1>2 DEF JobFits, TargetSteps, Resolving, JobTyped
  <1>4. FoundIs(T, t, v)
    BY <1>2, <1>3, FoundRow
  <1>5. CASE Found(T, t, v) = {}
    <2> DEFINE r == Inserted(t, v)
               n == Len(T.release) + 1
    <2>1. Statement(p, "explicit", seen') /\ WithNew(T, seen', r) /\ job' = [job EXCEPT !.release = n]
      BY <1>5 DEF UpsertRelease, Scoped, Statement, WithNew
    <2>2. RowIs(r, t, v.ap, v, "DISCOVERED")
      BY <1>3, NewRow
    <2>3. r \in RowType /\ Columns(r) /\ NewFits(T, r) /\ T.observed[t][v] = 0
      BY <1>4, <1>5, <2>2 DEF RowIs, NewFits, FoundIs
    <2> HIDE DEF r
    <2>4. RowAdded(T, seen', r)
      BY <1>2, <2>1, <2>3, AddRow
    <2>5. job'.release = n /\ job'.version = v /\ job'.target = t /\ JobTyped(job')
      BY <1>3, <2>1, <2>4 DEF JobTyped, RowAdded
    <2>6. ObservedBut(seen', job'.release, job'.version)
      BY <1>2, <2>2, <2>4, <2>5 DEF ObservedBut, RowAdded, AllObserved, RowIs
    <2>7. JobGoesOn("u_observed", seen')
      BY <1>3, <2>2, <2>3, <2>4, <2>5
         DEF Cataloguing, JobGoesOn, JobFits, RowAdded, RowIs, FoundSteps, ObservedSteps, JobTyped
    <2> QED
      BY <1>1, <2>1, <2>4, <2>6, <2>7, InsideWrites DEF RowAdded, Good
  <1>6. ASSUME NEW i \in Found(T, t, v), Scoped(p, [T EXCEPT !.release[i] = Merged(@, v)]),
               job' = [job EXCEPT !.release = i]
        PROVE  DataInv'
    <2> DEFINE r == Merged(T.release[i], v)
    <2>1. Statement(p, "explicit", seen') /\ WithRow(T, seen', i, r)
      BY <1>6 DEF Scoped, Statement, WithRow
    <2>2. /\ i \in DOMAIN T.release /\ T.release[i].target = t /\ T.release[i].ap = v.ap
          /\ T.observed[t][v] \in {0, i} /\ i \in Nat
      BY <1>2, <1>4, Fields DEF FoundIs
    <2>3. RowIs(T.release[i], t, v.ap, T.release[i].full, T.release[i].state)
      BY <1>2, <2>2, RowAt
    <2>4. RowIs(r, t, v.ap, T.release[i].full, T.release[i].state)
      BY <1>3, <2>3, MergedRow DEF RowIs
    <2> HIDE DEF r
    <2>5. r \in RowType /\ Columns(r) /\ RowFits(T, i, r) /\ T.observed[r.target][r.full] = i
      BY <1>2, <2>2, <2>3, <2>4 DEF RowIs, RowFits, Shape, InOrder, AllObserved
    <2>6. RowPut(T, seen', i, r) /\ AllObserved(seen')
      BY <1>2, <2>1, <2>2, <2>5, PutRow, StillObserved
    <2>7. job'.release = i /\ job'.version = v /\ job'.target = t /\ JobTyped(job')
      BY <1>3, <1>6, <2>2 DEF JobTyped
    <2>8. JobGoesOn("u_observed", seen')
      BY <1>3, <2>2, <2>4, <2>6, <2>7
         DEF Cataloguing, JobGoesOn, JobFits, RowPut, RowIs, FoundSteps, ObservedSteps, JobTyped
    <2> QED
      BY <1>1, <2>1, <2>6, <2>8, EarlyWrites DEF RowPut
  <1> QED
    BY <1>5, <1>6 DEF UpsertRelease

LEMMA UpsertObservedData ==
    ASSUME RegInv, ControlInv', NEW p \in Procs, UpsertObserved(p)
    PROVE  DataInv'
  <1> DEFINE T == View(p)
             t == job.target
             v == job.version
             i == job.release
  <1>1. /\ pc[p] = "u_observed" /\ Goto(p, "u_commit") /\ UNCHANGED <<script, holder, job>>
        /\ "u_observed" \in Inside \cap Begun /\ "u_commit" \in TargetSteps
    BY DEF UpsertObserved, At, Inside, Begun, TargetSteps, Resolving
  <1>2. /\ T \in TableType /\ Shape(T) /\ JobFits("u_observed", T, job) /\ T = seen
    BY <1>1, InsideFacts, Writing
  <1>3. /\ t \in Targets /\ v \in Versions /\ JobTyped(job)
        /\ i \in DOMAIN T.release /\ T.release[i].target = t /\ T.release[i].ap = v.ap
        /\ T.observed[t][v] \in {0, i}
    BY <1>2 DEF JobFits, TargetSteps, Resolving, FoundSteps, JobTyped
  <1>4. ObservedBut(T, i, v)
    <2>1. CASE AllObserved(seen)
      BY <1>2, <2>1 DEF AllObserved, ObservedBut
    <2>2. CASE \E q \in Procs : pc[q] = "u_observed" /\ ObservedBut(seen, job.release, job.version)
      BY <1>2, <2>2
    <2> QED
      BY <2>1, <2>2 DEF RegInv, DataInv, TablesInv
  <1>5. Statement(p, "explicit", seen') /\ WithObserved(T, seen', t, v, i)
    BY <1>2 DEF UpsertObserved, Scoped, Statement, WithObserved
  <1>6. ObservedFits(T, t, v, i)
    BY <1>3, <1>4 DEF ObservedFits
  <1>7. ObservedPut(T, seen', t, v, i)
    BY <1>2, <1>3, <1>5, <1>6, PutObserved
  <1>8. JobGoesOn("u_commit", seen')
    BY <1>1, <1>3, <1>7 DEF Cataloguing, JobGoesOn, JobFits, ObservedPut, JobTyped
  <1> QED
    BY <1>1, <1>5, <1>7, <1>8, EarlyWrites DEF ObservedPut

LEMMA UpsertCommitData ==
    ASSUME RegInv, ControlInv', NEW p \in Procs, UpsertCommit(p) \/ ResolvedCommit(p)
    PROVE  DataInv'
  <1>1. /\ UNCHANGED <<script, holder, job>> /\ EndScope(p)
        /\ \/ pc[p] = "u_commit" /\ Goto(p, "v_columns")
           \/ pc[p] = "v_commit" /\ Goto(p, "t_row")
        /\ {"u_commit", "v_commit"} \subseteq Inside \cap Begun
        /\ {"v_columns", "t_row"} \subseteq Inside \ ReleaseSteps
    BY DEF UpsertCommit, ResolvedCommit, At, Inside, Begun, Resolving, ReleaseSteps, Cataloguing,
           Handling, Recording
  <1>2. JobFits(pc[p], View(p), job)
    BY <1>1, InsideFacts
  <1>3. CASE pc[p] = "u_commit" /\ Goto(p, "v_columns")
    <2>1. JobGoesOn("v_columns", View(p))
      BY <1>1, <1>2, <1>3 DEF Cataloguing, JobGoesOn, JobFits, TargetSteps, FoundSteps, ObservedSteps, Resolving
    <2> QED
      BY <1>1, <1>3, <2>1, DataCommits
  <1>4. CASE pc[p] = "v_commit" /\ Goto(p, "t_row")
    <2>1. JobGoesOn("t_row", View(p))
      BY <1>1, <1>2, <1>4 DEF Cataloguing, JobGoesOn, JobFits, TargetSteps, FoundSteps, ObservedSteps, Resolving
    <2> QED
      BY <1>1, <1>4, <2>1, DataCommits
  <1> QED
    BY <1>1, <1>3, <1>4

(* The two statements of set_resolved_version.                               *)
LEMMA SetColumnsData ==
    ASSUME RegInv, ControlInv', NEW p \in Procs, SetColumns(p)
    PROVE  DataInv'
  <1> DEFINE T == View(p)
             t == job.target
             v == job.version
             i == job.release
             r == ResolvedRow(T.release[i], v)
  <1>1. /\ pc[p] = "v_columns" /\ Goto(p, "v_state") /\ UNCHANGED <<script, holder, job>>
        /\ "v_columns" \in Inside /\ "v_state" \in TargetSteps
    BY DEF SetColumns, At, Inside, TargetSteps, Resolving
  <1>2. T \in TableType /\ Shape(T) /\ AllObserved(T) /\ JobFits("v_columns", T, job)
    BY <1>1, InsideFacts
  <1>3. /\ t \in Targets /\ v \in Versions /\ JobTyped(job)
        /\ i \in DOMAIN T.release /\ T.release[i].target = t /\ T.release[i].ap = v.ap
        /\ T.observed[t][v] = i
    BY <1>2 DEF JobFits, TargetSteps, Resolving, FoundSteps, ObservedSteps, JobTyped
  <1>4. Statement(p, "explicit", seen') /\ WithRow(T, seen', i, r)
    BY DEF SetColumns, Scoped, Statement, WithRow
  <1>5. RowIs(T.release[i], t, v.ap, T.release[i].full, T.release[i].state)
    BY <1>2, <1>3, RowAt
  <1>6. RowIs(r, t, v.ap, v, T.release[i].state)
    BY <1>3, <1>5, ResolvedRowIs DEF RowIs
  <1> HIDE DEF r
  <1>7. r \in RowType /\ Columns(r) /\ RowFits(T, i, r) /\ T.observed[r.target][r.full] = i
    BY <1>2, <1>3, <1>5, <1>6 DEF RowIs, RowFits, Shape, InOrder
  <1>8. RowPut(T, seen', i, r) /\ AllObserved(seen')
    BY <1>2, <1>3, <1>4, <1>7, PutRow, StillObserved
  <1>9. JobGoesOn("v_state", seen')
    BY <1>1, <1>3, <1>6, <1>8
       DEF Cataloguing, JobGoesOn, JobFits, RowPut, RowIs, FoundSteps, ObservedSteps, JobTyped
  <1> QED
    BY <1>1, <1>4, <1>8, <1>9, EarlyWrites DEF RowPut

LEMMA SetResolvedData ==
    ASSUME RegInv, ControlInv', NEW p \in Procs, SetResolved(p)
    PROVE  DataInv'
  <1> DEFINE T == View(p)
             t == job.target
             v == job.version
             i == job.release
             s == IF T.release[i].state = "DISCOVERED" THEN "RESOLVED" ELSE T.release[i].state
             r == InState(T.release[i], s)
  <1>1. /\ pc[p] = "v_state" /\ Goto(p, "v_commit") /\ UNCHANGED <<script, holder, job>>
        /\ "v_state" \in Inside \cap Begun /\ "v_commit" \in TargetSteps
    BY DEF SetResolved, At, Inside, Begun, TargetSteps, Resolving
  <1>2. /\ T \in TableType /\ Shape(T) /\ AllObserved(T) /\ JobFits("v_state", T, job)
        /\ T = seen
    BY <1>1, InsideFacts, Writing
  <1>3. /\ t \in Targets /\ v \in Versions /\ JobTyped(job)
        /\ i \in DOMAIN T.release /\ T.release[i].target = t /\ T.release[i].ap = v.ap
        /\ T.observed[t][v] = i /\ T.release[i].full = v
    BY <1>2 DEF JobFits, TargetSteps, Resolving, FoundSteps, ObservedSteps, JobTyped
  <1>4. Statement(p, "explicit", seen') /\ WithRow(T, seen', i, r)
    BY <1>2 DEF SetResolved, Scoped, Statement, WithRow, InState
  <1>5. /\ RowIs(T.release[i], t, v.ap, v, T.release[i].state)
        /\ T.release[i].state = "DECRYPTED" => i \in Catalogued(T)
    BY <1>2, <1>3, RowAt DEF Shape, InOrder
  <1>6. s \in States /\ s # "DISCOVERED" /\ (s = "DECRYPTED" => i \in Catalogued(T))
    BY <1>5 DEF RowIs, RowType, States
  <1> HIDE DEF s
  <1>7. RowPut(T, seen', i, r) /\ AllObserved(seen')
    BY <1>2, <1>3, <1>4, <1>6, PutState
  <1>8. RowIs(r, t, v.ap, v, s)
    BY <1>5, <1>6, StateRow DEF RowIs
  <1> HIDE DEF r
  <1>9. JobGoesOn("v_commit", seen')
    BY <1>1, <1>3, <1>6, <1>7, <1>8
       DEF Cataloguing, JobGoesOn, JobFits, RowPut, RowIs, FoundSteps, ObservedSteps, JobTyped
  <1> QED
    BY <1>1, <1>4, <1>7, <1>9, EarlyWrites DEF RowPut

LEMMA TargetRowData ==
    ASSUME RegInv, ControlInv', NEW p \in Procs, TargetRow(p)
    PROVE  DataInv'
  <1> DEFINE T == View(p)
             t == job.target
             v == job.version
             i == job.release
             x == [latest |-> i, full |-> v]
  <1>1. /\ pc[p] = "t_row" /\ Goto(p, "t_commit") /\ UNCHANGED <<script, holder, job>>
        /\ "t_row" \in Inside /\ "t_commit" \in TargetSteps
    BY DEF TargetRow, At, Inside, TargetSteps, Resolving
  <1>2. T \in TableType /\ Shape(T) /\ AllObserved(T) /\ JobFits("t_row", T, job)
    BY <1>1, InsideFacts
  <1>3. /\ t \in Targets /\ v \in Versions /\ JobTyped(job)
        /\ i \in DOMAIN T.release /\ T.release[i].target = t /\ T.release[i].ap = v.ap
        /\ T.observed[t][v] = i /\ T.release[i].full = v /\ T.release[i].state # "DISCOVERED"
    BY <1>2 DEF JobFits, TargetSteps, Resolving, FoundSteps, ObservedSteps, JobTyped
  <1>4. i \in Nat /\ i # 0
    BY <1>2, <1>3, Fields
  <1>5. x \in TargetType \cup {None} /\ TargetFits(T, t, x)
    BY <1>3, <1>4, TargetResolved
  <1>6. Statement(p, "implicit", seen') /\ WithTarget(T, seen', t, x)
    BY DEF TargetRow, Bare, Statement, WithTarget
  <1> HIDE DEF x
  <1>7. TargetPut(T, seen', t, x)
    BY <1>2, <1>3, <1>5, <1>6, PutTarget
  <1>8. Good(T, seen') /\ AllObserved(seen')
    BY <1>2, <1>7 DEF TargetPut, AllObserved
  <1>9. JobGoesOn("t_commit", seen')
    BY <1>1, <1>3, <1>7 DEF Cataloguing, JobGoesOn, JobFits, TargetPut, FoundSteps, ObservedSteps, JobTyped, x
  <1> QED
    BY <1>1, <1>6, <1>8, <1>9, EarlyWrites

LEMMA TargetCommitData ==
    ASSUME RegInv, ControlInv', NEW p \in Procs, TargetCommit(p)
    PROVE  DataInv'
  <1>1. /\ pc[p] = "t_commit" /\ UNCHANGED <<script, holder>> /\ BareCommit(p)
        /\ \/ Goto(p, "select") /\ job' = NoJob
           \/ Goto(p, "d_start") /\ job' = [NoJob EXCEPT !.release = job.release]
        /\ "t_commit" \in Inside \cap Pending
        /\ "select" \in Inside \ ReleaseSteps /\ "d_start" \in Inside
    BY DEF TargetCommit, At, Inside, Pending, Resolving, ReleaseSteps, Cataloguing, Handling,
           Recording
  <1>2. JobFits("t_commit", View(p), job)
    BY <1>1, InsideFacts
  <1>3. CASE Goto(p, "select") /\ job' = NoJob
    BY <1>1, <1>3, GoesOnSelect, DataCommits
  <1>4. CASE Goto(p, "d_start") /\ job' = [NoJob EXCEPT !.release = job.release]
    <2>1. job.release \in DOMAIN View(p).release /\ JobTyped(job)
      BY <1>2 DEF JobFits, FoundSteps, Resolving, JobTyped
    <2>2. job'.release = job.release /\ JobTyped(job')
      BY <1>4, <2>1 DEF NoJob, JobTyped
    <2>3. JobGoesOn("d_start", View(p))
      BY <2>2 DEF Cataloguing, JobGoesOn, JobFits, TargetSteps, FoundSteps, ObservedSteps, Naming, Resolving,
                  Erring, JobTyped
    <2> QED
      BY <1>1, <1>4, <2>1, <2>2, <2>3, DataCommits
  <1> QED
    BY <1>1, <1>3, <1>4

LEMMA ErrorRowData ==
    ASSUME RegInv, ControlInv', NEW p \in Procs, ErrorRow(p)
    PROVE  DataInv'
  <1> DEFINE T == View(p)
             t == job.target
             x == T.target[t]
  <1>1. /\ pc[p] = "e_row" /\ Goto(p, "e_commit") /\ UNCHANGED <<script, holder, job>>
        /\ "e_row" \in Inside /\ "e_commit" \in TargetSteps
    BY DEF ErrorRow, At, Inside, TargetSteps, Erring
  <1>2. T \in TableType /\ Shape(T) /\ AllObserved(T) /\ JobFits("e_row", T, job)
    BY <1>1, InsideFacts
  <1>3. t \in Targets /\ JobTyped(job)
    BY <1>2 DEF JobFits, TargetSteps, Erring, JobTyped
  <1>4. Statement(p, "implicit", seen') /\ WithTarget(T, seen', t, x)
    BY DEF ErrorRow, KeptResolution, Bare, Statement, WithTarget
  <1>5. x \in TargetType \cup {None} /\ TargetFits(T, t, x)
    BY <1>2, <1>3, TargetSame
  <1> HIDE DEF x
  <1>6. TargetPut(T, seen', t, x)
    BY <1>2, <1>3, <1>4, <1>5, PutTarget
  <1>7. Good(T, seen') /\ AllObserved(seen')
    BY <1>2, <1>6 DEF TargetPut, AllObserved
  <1>8. JobGoesOn("e_commit", seen')
    BY <1>1, <1>3 DEF Cataloguing, JobGoesOn, JobFits, FoundSteps, ObservedSteps, Resolving, JobTyped
  <1> QED
    BY <1>1, <1>4, <1>7, <1>8, EarlyWrites

BlobSteps == {"d_blob_commit", "d_artifact", "d_artifact_commit", "d_state", "d_state_commit"}
FileSteps == {"d_artifact_commit", "d_state", "d_state_commit"}

LEMMA LatePlaces ==
    /\ ReleaseSteps \subseteq Inside
    /\ {"d_start", "d_blob", "d_blob_commit", "d_artifact", "d_artifact_commit", "d_state",
        "d_state_commit", "h_state", "h_state_commit", "h_failure", "h_failure_commit"}
           = ReleaseSteps
    /\ "select" \in Inside \ ReleaseSteps /\ "close" \notin Inside
    /\ {"d_blob_commit", "d_artifact_commit", "h_failure_commit"} \subseteq Pending
    /\ "d_state_commit" \in Begun
    /\ ReleaseSteps \cap TargetSteps = {}
    /\ "u_observed" \notin ReleaseSteps
  BY DEF ReleaseSteps, Inside, TargetSteps, Naming, Resolving, Erring, Cataloguing, Handling,
         Recording, Pending, Begun

LEMMA LateFits ==
    ASSUME NEW b \in ReleaseSteps \cup {"close"}, NEW T, JobTyped(job'),
           b \in Cataloguing => job'.digest \in Digests,
           b \in BlobSteps => job'.digest \in T.blob,
           b \in FileSteps => job'.release \in Catalogued(T)
    PROVE  JobGoesOn(b, T)
  <1>1. b \notin TargetSteps /\ b \notin Resolving
    BY LatePlaces DEF TargetSteps, Naming, Resolving, Erring
  <1> QED
    BY <1>1 DEF JobGoesOn, JobFits, JobTyped, FoundSteps, ObservedSteps, BlobSteps, FileSteps,
                Resolving

(* What a process that catalogues a release knows.                           *)
LEMMA LateFacts ==
    ASSUME RegInv, NEW p \in Procs, pc[p] \in ReleaseSteps
    PROVE  /\ View(p) \in TableType /\ Shape(View(p))
           /\ AllObserved(View(p)) /\ AllObserved(seen)
           /\ job.release \in DOMAIN View(p).release /\ job.release \in DOMAIN disk.release
           /\ JobTyped(job)
           /\ pc[p] \in Cataloguing => job.digest \in Digests
           /\ pc[p] \in BlobSteps => job.digest \in View(p).blob
           /\ pc[p] \in FileSteps => job.release \in Catalogued(View(p))
  <1>1. JobFits(pc[p], View(p), job) /\ job.release \in DOMAIN disk.release
    BY LatePlaces DEF RegInv, DataInv, JobInv
  <1> QED
    BY <1>1, LatePlaces, InsideFacts DEF JobFits, JobTyped, BlobSteps, FileSteps

LEMMA LateStays ==
    ASSUME RegInv, NEW p \in Procs, pc[p] \in ReleaseSteps, ControlInv',
           NEW b \in ReleaseSteps \cup {"close"}, Goto(p, b), UNCHANGED <<data, script, holder, job>>,
           b \notin Cataloguing
    PROVE  DataInv'
  <1>1. JobGoesOn(b, View(p))
    BY LateFacts, LateFits DEF Cataloguing, BlobSteps, FileSteps
  <1> QED
    BY <1>1, LatePlaces, LateFacts, InsideStays

LEMMA LateCommits ==
    ASSUME RegInv, NEW p \in Procs, pc[p] \in ReleaseSteps \cap (Begun \cup Pending),
           ControlInv', NEW b \in ReleaseSteps \cup {"close"}, Goto(p, b),
           UNCHANGED <<script, holder, job>>,
           \/ pc[p] \in Begun /\ EndScope(p)
           \/ pc[p] \in Pending /\ BareCommit(p),
           b \in Cataloguing => pc[p] \in Cataloguing,
           b \in BlobSteps => pc[p] \in BlobSteps,
           b \in FileSteps => pc[p] \in FileSteps
    PROVE  DataInv'
  <1>1. JobGoesOn(b, View(p))
    BY LateFacts, LateFits
  <1> QED
    BY <1>1, LatePlaces, DataCommits

LEMMA StartData ==
    ASSUME RegInv, ControlInv', NEW p \in Procs,
           ReturnCatalogued(p) \/ FindFinal(p) \/ Refused(p) \/ Deduplicate(p)
    PROVE  DataInv'
  <1>1. /\ UNCHANGED <<data, script, holder>> /\ "d_start" \in ReleaseSteps
        /\ pc[p] = "d_start" \/ Deduplicate(p)
    BY LatePlaces DEF ReturnCatalogued, FindFinal, Refused, Deduplicate, At
  <1>2. CASE ReturnCatalogued(p)
    <2>1. pc[p] = "d_start" /\ Goto(p, "select") /\ job' = NoJob
      BY <1>2 DEF ReturnCatalogued, Done, At
    <2> QED
      BY <1>1, <2>1, LatePlaces, GoesOnSelect, InsideStays
  <1>3. CASE FindFinal(p)
    <2>1. PICK g \in Digests : Goto(p, "d_blob") /\ job' = [job EXCEPT !.digest = g]
      BY <1>3 DEF FindFinal
    <2>2. JobTyped(job) /\ job.release \in DOMAIN View(p).release
          /\ job.release \in DOMAIN disk.release
      BY <1>1, <1>3, LateFacts DEF FindFinal, At
    <2>3. JobTyped(job') /\ job'.release = job.release /\ job'.digest \in Digests
      BY <2>1, <2>2 DEF JobTyped
    <2>4. JobGoesOn("d_blob", View(p))
      BY <2>3, LatePlaces, LateFits DEF BlobSteps, FileSteps
    <2> QED
      BY <1>1, <1>3, <2>1, <2>2, <2>3, <2>4, LatePlaces, InsideStays DEF FindFinal, At
  <1>4. CASE Refused(p)
    <2>1. /\ \E b \in {"h_failure", "close"} : Goto(p, b)
          /\ UNCHANGED job
      BY <1>4 DEF Refused, AfterDownload
    <2>2. PICK b \in {"h_failure", "close"} : Goto(p, b)
      BY <2>1
    <2>3. b \in ReleaseSteps \cup {"close"} /\ b \notin Cataloguing
      BY LatePlaces DEF Cataloguing
    <2> QED
      BY <1>1, <1>4, <2>1, <2>2, <2>3, LateStays DEF Refused, At
  <1>5. CASE Deduplicate(p)
    <2>1. /\ pc[p] = "d_blob" /\ "d_blob" \in ReleaseSteps /\ Goto(p, "d_artifact")
          /\ UNCHANGED <<data, script, holder, job>> /\ job.digest \in View(p).blob
      BY <1>5, LatePlaces DEF Deduplicate, At
    <2>2. /\ JobTyped(job) /\ job.digest \in Digests
          /\ job.release \in DOMAIN View(p).release /\ job.release \in DOMAIN disk.release
      BY <2>1, LateFacts DEF Cataloguing
    <2>3. JobGoesOn("d_artifact", View(p))
      BY <2>1, <2>2, LatePlaces, LateFits DEF FileSteps
    <2> QED
      BY <2>1, <2>2, <2>3, LatePlaces, InsideStays
  <1> QED
    BY <1>2, <1>3, <1>4, <1>5

LEMMA FetchRows ==
    ASSUME RegInv, NEW p \in Procs, Fetch(p)
    PROVE  /\ RowPut(disk, disk', job.release, InState(disk.release[job.release], "VERIFIED"))
           /\ AllObserved(disk')
           /\ JobTyped(job) /\ job.release \in DOMAIN disk.release
  <1> DEFINE i == job.release
             r == InState(disk.release[i], "VERIFIED")
  <1>1. pc[p] = "d_start" /\ writer = None /\ "d_start" \in ReleaseSteps
    BY LatePlaces DEF Fetch, At
  <1>2. View(p) = disk
    BY <1>1, Somebody DEF View
  <1>3. /\ disk \in TableType /\ Shape(disk) /\ AllObserved(disk) /\ i \in DOMAIN disk.release
        /\ JobTyped(job)
    BY <1>1, <1>2, LateFacts
  <1>4. WithRow(disk, disk', i, r)
    BY DEF Fetch, WithRow, InState
  <1>5. RowPut(disk, disk', i, r) /\ AllObserved(disk')
    BY <1>3, <1>4, PutState DEF States
  <1> QED
    BY <1>3, <1>5

LEMMA FetchData ==
    ASSUME RegInv, ControlInv', NEW p \in Procs, Fetch(p)
    PROVE  DataInv'
  <1> DEFINE i == job.release
             r == InState(disk.release[i], "VERIFIED")
  <1>1. /\ pc[p] = "d_start" /\ Goto(p, "d_blob") /\ UNCHANGED <<writer, script, holder>>
        /\ writer = None /\ seen' = disk'
        /\ \E g \in Digests : job' = [job EXCEPT !.tried = TRUE, !.digest = g]
        /\ "d_start" \in ReleaseSteps /\ "d_blob" \in ReleaseSteps
    BY LatePlaces DEF Fetch, At
  <1>2. /\ RowPut(disk, disk', i, r) /\ AllObserved(disk')
        /\ JobTyped(job) /\ i \in DOMAIN disk.release
    BY FetchRows
  <1> HIDE DEF r
  <1>3. Good(disk, disk') /\ DOMAIN disk'.release = DOMAIN disk.release
    BY <1>2 DEF RowPut
  <1>4. TablesInv'
    BY <1>1, <1>2, <1>3, KeepsSelf DEF TablesInv, Good
  <1>5. SameSchema(disk, disk') /\ SameSchema(disk', seen')
    BY <1>1, <1>3 DEF Good, SameSchema
  <1>6. MigrationInv'
    BY <1>1, <1>5, LatePlaces, SchemaKept
  <1>7. JobTyped(job') /\ job'.release = i /\ job'.digest \in Digests
    BY <1>1, <1>2 DEF JobTyped
  <1>8. JobGoesOn("d_blob", View(p)')
    <2>1. JobGoesOn("d_blob", disk')
      BY <1>7, LatePlaces, LateFits DEF BlobSteps, FileSteps
    <2>2. View(p)' = disk'
      BY <1>1, Somebody DEF View
    <2> QED
      BY <2>1, <2>2
  <1>9. JobInv'
    BY <1>1, <1>2, <1>3, <1>7, <1>8, LatePlaces, JobKept
  <1> QED
    BY <1>4, <1>6, <1>9 DEF DataInv

LEMMA RecordBlobData ==
    ASSUME RegInv, ControlInv', NEW p \in Procs, RecordBlob(p)
    PROVE  DataInv'
  <1> DEFINE T == View(p)
             g == job.digest
  <1>1. /\ pc[p] = "d_blob" /\ Goto(p, "d_blob_commit") /\ UNCHANGED <<script, holder, job>>
        /\ {"d_blob", "d_blob_commit"} \subseteq ReleaseSteps
    BY LatePlaces DEF RecordBlob, At
  <1>2. /\ T \in TableType /\ Shape(T) /\ AllObserved(T)
        /\ JobTyped(job) /\ g \in Digests
    BY <1>1, LateFacts DEF Cataloguing
  <1>3. Statement(p, "implicit", seen') /\ WithBlob(T, seen', g)
    BY DEF RecordBlob, Bare, Statement, WithBlob
  <1>4. BlobAdded(T, seen', g)
    BY <1>2, <1>3, AddBlob
  <1>5. Good(T, seen') /\ AllObserved(seen')
    BY <1>2, <1>4 DEF BlobAdded, RowsKept, AllObserved
  <1>6. JobGoesOn("d_blob_commit", seen')
    BY <1>1, <1>2, <1>4, LateFits DEF BlobAdded, BlobSteps, FileSteps
  <1> QED
    BY <1>1, <1>3, <1>5, <1>6, LateWrites

LEMMA RecordArtifactData ==
    ASSUME RegInv, ControlInv', NEW p \in Procs, RecordArtifact(p)
    PROVE  DataInv'
  <1> DEFINE T == View(p)
             i == job.release
             g == job.digest
  <1>1. /\ pc[p] = "d_artifact" /\ Goto(p, "d_artifact_commit") /\ UNCHANGED <<script, holder, job>>
        /\ {"d_artifact", "d_artifact_commit"} \subseteq ReleaseSteps
    BY LatePlaces DEF RecordArtifact, At
  <1>2. /\ T \in TableType /\ Shape(T) /\ AllObserved(T) /\ i \in DOMAIN T.release
        /\ JobTyped(job) /\ g \in T.blob /\ g \in Digests
    BY <1>1, LateFacts DEF BlobSteps, Cataloguing
  <1>3. Statement(p, "implicit", seen') /\ WithArtifact(T, seen', i, g)
    BY DEF RecordArtifact, Bare, Statement, WithArtifact
  <1>4. ArtifactAdded(T, seen', i)
    BY <1>2, <1>3, AddArtifact
  <1>5. Good(T, seen') /\ AllObserved(seen')
    BY <1>2, <1>4 DEF ArtifactAdded, RowsKept, AllObserved
  <1>6. JobGoesOn("d_artifact_commit", seen')
    BY <1>1, <1>2, <1>4, LateFits DEF ArtifactAdded
  <1> QED
    BY <1>1, <1>3, <1>5, <1>6, LateWrites

(* set_state(DECRYPTED), and set_state(FAILED) of the handler.               *)
LEMMA SetStateData ==
    ASSUME RegInv, ControlInv', NEW p \in Procs, SetDecrypted(p) \/ SetFailed(p)
    PROVE  DataInv'
  <1> DEFINE T == View(p)
             i == job.release
  <1>1. UNCHANGED <<script, holder, job>> /\ pc[p] \in {"d_state", "h_state"}
    BY DEF SetDecrypted, SetFailed, At
  <1>2. /\ T \in TableType /\ Shape(T) /\ AllObserved(T) /\ i \in DOMAIN T.release
        /\ JobTyped(job)
    BY <1>1, LatePlaces, LateFacts
  <1>3. ASSUME NEW s \in {"DECRYPTED", "FAILED"}, Scoped(p, [T EXCEPT !.release[i].state = s]),
               s = "DECRYPTED" => i \in Catalogued(T)
        PROVE  /\ Statement(p, "explicit", seen')
               /\ Good(T, seen') /\ AllObserved(seen')
               /\ seen'.blob = T.blob /\ Catalogued(seen') = Catalogued(T)
    <2>1. Statement(p, "explicit", seen') /\ WithRow(T, seen', i, InState(T.release[i], s))
      BY <1>3 DEF Scoped, Statement, WithRow, InState
    <2>2. RowPut(T, seen', i, InState(T.release[i], s)) /\ AllObserved(seen')
      BY <1>2, <1>3, <2>1, PutState DEF States
    <2> QED
      BY <2>1, <2>2 DEF RowPut, Catalogued
  <1>4. CASE SetDecrypted(p)
    <2>1. /\ pc[p] = "d_state" /\ Goto(p, "d_state_commit") /\ job.digest \in T.blob /\ i \in Catalogued(T)
          /\ job.digest \in Digests
          /\ {"d_state", "d_state_commit"} \subseteq ReleaseSteps
          /\ Scoped(p, [T EXCEPT !.release[i].state = "DECRYPTED"])
      BY <1>4, LatePlaces, LateFacts DEF SetDecrypted, At, BlobSteps, FileSteps, Cataloguing
    <2>2. /\ Statement(p, "explicit", seen')
          /\ Good(T, seen') /\ AllObserved(seen')
          /\ seen'.blob = T.blob /\ Catalogued(seen') = Catalogued(T)
      BY <1>3, <2>1
    <2>3. JobGoesOn("d_state_commit", seen')
      BY <1>1, <1>2, <2>1, <2>2, LateFits
    <2> QED
      BY <1>1, <2>1, <2>2, <2>3, LateWrites
  <1>5. CASE SetFailed(p)
    <2>1. /\ pc[p] = "h_state" /\ Goto(p, "h_state_commit")
          /\ {"h_state", "h_state_commit"} \subseteq ReleaseSteps
          /\ Scoped(p, [T EXCEPT !.release[i].state = "FAILED"])
      BY <1>5, LatePlaces DEF SetFailed, At
    <2>2. /\ Statement(p, "explicit", seen')
          /\ Good(T, seen') /\ AllObserved(seen')
      BY <1>3, <2>1
    <2>3. JobGoesOn("h_state_commit", seen')
      BY <1>1, <1>2, <2>1, LateFits DEF BlobSteps, FileSteps, Cataloguing
    <2> QED
      BY <1>1, <2>1, <2>2, <2>3, LateWrites
  <1> QED
    BY <1>4, <1>5

LEMMA RecordFailureData ==
    ASSUME RegInv, ControlInv', NEW p \in Procs, RecordFailure(p)
    PROVE  DataInv'
  <1>1. /\ pc[p] = "h_failure" /\ Goto(p, "h_failure_commit") /\ UNCHANGED <<script, holder, job>>
        /\ {"h_failure", "h_failure_commit"} \subseteq ReleaseSteps
    BY LatePlaces DEF RecordFailure, At
  <1>2. View(p) \in TableType /\ Shape(View(p)) /\ AllObserved(View(p)) /\ JobTyped(job)
    BY <1>1, LateFacts
  <1>3. Statement(p, "implicit", seen') /\ seen' = View(p)
    BY DEF RecordFailure, Bare, Statement
  <1>4. Good(View(p), seen') /\ AllObserved(seen')
    BY <1>2, <1>3, KeepsSelf, OutsideSame DEF Good
  <1>5. JobGoesOn("h_failure_commit", seen')
    BY <1>1, <1>2, LateFits DEF BlobSteps, FileSteps, Cataloguing
  <1> QED
    BY <1>1, <1>3, <1>4, <1>5, LateWrites

LEMMA CatalogueCommitData ==
    ASSUME RegInv, ControlInv', NEW p \in Procs,
           BlobCommit(p) \/ ArtifactCommit(p) \/ FailureCommit(p)
    PROVE  DataInv'
  <1>1. UNCHANGED <<script, holder, job>> /\ BareCommit(p)
    BY DEF BlobCommit, ArtifactCommit, FailureCommit
  <1>2. PICK b \in {"d_artifact", "d_state", "close"} :
            /\ Goto(p, b)
            /\ \/ pc[p] = "d_blob_commit" /\ b = "d_artifact"
               \/ pc[p] = "d_artifact_commit" /\ b = "d_state"
               \/ pc[p] = "h_failure_commit" /\ b = "close"
    BY DEF BlobCommit, ArtifactCommit, FailureCommit, At
  <1>3. /\ pc[p] \in ReleaseSteps \cap Pending /\ b \in ReleaseSteps \cup {"close"}
        /\ b \in Cataloguing => pc[p] \in Cataloguing
        /\ b \in BlobSteps => pc[p] \in BlobSteps
        /\ b \in FileSteps => pc[p] \in FileSteps
    BY <1>2, LatePlaces DEF BlobSteps, FileSteps, Cataloguing
  <1> QED
    BY <1>1, <1>2, <1>3, LateCommits

LEMMA DecryptedCommitData ==
    ASSUME RegInv, ControlInv', NEW p \in Procs, DecryptedCommit(p)
    PROVE  DataInv'
  <1>1. /\ pc[p] = "d_state_commit" /\ EndScope(p) /\ Goto(p, "select") /\ job' = NoJob
        /\ UNCHANGED <<script, holder>>
    BY DEF DecryptedCommit, At, Done
  <1> QED
    BY <1>1, LatePlaces, GoesOnSelect, DataCommits

LEMMA FailedCommitData ==
    ASSUME RegInv, ControlInv', NEW p \in Procs, FailedCommit(p)
    PROVE  DataInv'
  <1>1. /\ pc[p] = "h_state_commit" /\ EndScope(p) /\ UNCHANGED <<script, holder, job>>
        /\ \E b \in {"h_failure", "close"} : Goto(p, b)
    BY DEF FailedCommit, AfterDownload, At
  <1>2. PICK b \in {"h_failure", "close"} : Goto(p, b)
    BY <1>1
  <1>3. /\ pc[p] \in ReleaseSteps /\ b \in ReleaseSteps \cup {"close"}
        /\ b \notin Cataloguing
    BY <1>1, LatePlaces DEF Cataloguing
  <1>4. CASE tx = "explicit"
    <2>1. writer = p /\ Committed
      BY <1>1, <1>4 DEF EndScope, RegInv, ControlInv, ConnInv
    <2>2. View(p) = seen
      BY <2>1 DEF View
    <2>3. JobGoesOn(b, seen) /\ job'.release \in DOMAIN seen.release
      BY <1>1, <1>3, <2>2, LateFacts, LateFits DEF Cataloguing, BlobSteps, FileSteps
    <2> QED
      BY <1>1, <1>2, <1>3, <2>1, <2>3, LatePlaces, InsideCommits
  <1>5. CASE tx # "explicit"
    BY <1>1, <1>2, <1>3, <1>5, LateStays DEF EndScope
  <1> QED
    BY <1>4, <1>5

(* What a process knows at the handler an exception of its takes it to.      *)
LEMMA RaiseJob ==
    ASSUME RegInv, NEW p \in Procs, Raise(p), Handle(p), pc[p] \in Inside, NEW b \in Handlers(p)
    PROVE  /\ \A T : JobGoesOn(b, T)
           /\ b \in ReleaseSteps => job'.release \in DOMAIN disk.release
  <1>1. job' = job /\ JobTyped(job)
    BY DEF Handle, RegInv, DataInv, JobInv, JobTyped
  <1>2. CASE pc[p] \in Resolving
    <2>1. b = "e_row" /\ b \notin ReleaseSteps
      BY <1>2, LatePlaces DEF Handlers, TargetSteps, Erring, Resolving, Cataloguing, Handling
    <2>2. JobFits(pc[p], View(p), job)
      BY InsideFacts
    <2>3. job.target \in Targets
      BY <1>2, <2>2 DEF JobFits, TargetSteps
    <2> QED
      BY <1>1, <2>1, <2>3 DEF Cataloguing, JobGoesOn, JobFits, JobTyped, FoundSteps, ObservedSteps, Resolving
  <1>3. CASE pc[p] \notin Resolving
    <2>1. b \in {"h_state", "h_failure"} /\ pc[p] \in ReleaseSteps
      BY <1>3 DEF Handlers, ReleaseSteps
    <2>2. b \in ReleaseSteps \cup {"close"} /\ b \notin Cataloguing
      BY <2>1, LatePlaces DEF Cataloguing
    <2>3. \A T : JobGoesOn(b, T)
      BY <1>1, <2>2, LateFits DEF Cataloguing, BlobSteps, FileSteps
    <2>4. b \in ReleaseSteps => job.release \in DOMAIN disk.release
      BY <2>1, <2>2, LateFacts
    <2> QED
      BY <1>1, <2>3, <2>4
  <1> QED
    BY <1>2, <1>3

LEMMA RaiseData ==
    ASSUME RegInv, ControlInv', NEW p \in Procs, Raise(p)
    PROVE  DataInv'
  <1> SUFFICES ASSUME Handle(p) PROVE DataInv'
    BY LeaveData DEF Raise
  <1>1. UNCHANGED <<script, holder, job>> /\ AfterRaise(p, pc[p] \in BareStatements)
    BY DEF Handle
  <1>2. PICK b \in Handlers(p) : Goto(p, b)
    BY DEF Handle
  <1>3. /\ \/ writer = p /\ RolledBack
           \/ UNCHANGED data /\ (writer = p => tx = "implicit")
           \/ writer = None /\ Statement(p, "implicit", disk)
    BY <1>1 DEF AfterRaise, Bare
  <1>4. pc[p] \in Inside
    BY <1>2, HandlersPend, RaisesInside
  <1>5. /\ b \in Inside \cup {"close"} /\ b # "u_observed"
        /\ \A T : JobGoesOn(b, T)
        /\ b \in ReleaseSteps => job'.release \in DOMAIN disk.release
    BY <1>4, HandlersPend, RaiseJob DEF MayPend
  <1>6. CASE writer = p /\ RolledBack
    BY <1>1, <1>2, <1>4, <1>5, <1>6, InsideRolls
  <1>7. CASE UNCHANGED data /\ (writer = p => tx = "implicit")
    <2>1. pc[p] # "u_observed"
      BY <1>7 DEF RegInv, ControlInv, ConnInv, Begun
    <2> QED
      BY <1>1, <1>2, <1>4, <1>5, <1>7, <2>1, InsideStays
  <1>8. CASE writer = None /\ Statement(p, "implicit", disk)
    <2>1. View(p) = disk
      BY <1>8, Somebody DEF View
    <2>2. /\ disk \in TableType /\ Shape(disk) /\ Keeps(View(p), disk)
          /\ SameSchema(View(p), disk) /\ AllObserved(disk)
      BY <2>1, KeepsSelf, OutsideSame DEF RegInv, DataInv, TablesInv
    <2> QED
      BY <1>1, <1>2, <1>4, <1>5, <1>8, <2>2, InsideWrites
  <1> QED
    BY <1>3, <1>6, <1>7, <1>8

-----------------------------------------------------------------------------
(* The invariant.                                                            *)

LEMMA RegInit == Init => RegInv
  <1> SUFFICES ASSUME Init PROVE RegInv
    OBVIOUS
  <1> USE DEF Init
  <1>1. Empty \in TableType
    <2>1. NoTarget \in TargetType /\ None \in TargetType \cup {None}
      BY DEF NoTarget, TargetType
    <2> QED
      BY <2>1 DEF Empty, TableType
  <1>2. Shape(Empty) /\ AllObserved(Empty)
    BY DEF Empty, Shape, Canonical, Home, InOrder, AllObserved
  <1>3. TablesInv
    BY <1>1, <1>2, KeepsSelf DEF TablesInv
  <1>4. \A p \in Procs : pc[p] = "off"
    OBVIOUS
  <1>5. "off" \notin Inside \cup Places \cup MayPend \cup Migrating \cup {"ready", "close"}
    BY EntryPlaces DEF Inside, Begun, Pending, MayPend, Places, Migrating, Naming, Resolving, Erring,
                       Cataloguing, Handling, Recording
  <1>6. MigrationInv
    <2>1. Len(Empty.made) = 0 /\ Empty.made = <<>> /\ Empty.applied = {}
      BY DEF Empty
    <2>2. Ran(disk, Len(disk.made)) /\ disk.applied = 1 .. Len(disk.made)
      BY <2>1 DEF Ran
    <2> QED
      BY <1>4, <1>5, <2>2, OutsideSame DEF MigrationInv, Migrating
  <1>7. JobInv
    <2>1. ReleaseSteps \subseteq Inside
      BY LatePlaces
    <2> QED
      BY <1>4, <1>5, <2>1, NoJobFits DEF JobInv, JobTyped
  <1>8. ControlType
    BY EntryPlaces DEF ControlType
  <1>9. ConnInv
    BY <1>4, <1>5, Somebody DEF ConnInv, Places
  <1>10. LockInv
    BY <1>4, <1>5, Somebody DEF LockInv
  <1> QED
    BY <1>3, <1>6, <1>7, <1>8, <1>9, <1>10 DEF RegInv, ControlInv, DataInv

LEMMA DataStep ==
    ASSUME RegInv, ControlInv', NEW p \in Procs,
           Open(p) \/ Begin(p) \/ Step(p) \/ Raise(p) \/ Kill(p)
    PROVE  DataInv'
  <1>1. CASE Open(p) \/ Migrate(p) \/ Lock(p)
    BY <1>1, OpenData, CheckData, RunData, RecordData, CommitScriptData, LockData DEF Migrate
  <1>2. CASE Begin(p) \/ NameObserved(p) \/ NameCommit(p)
    BY <1>2, NameTargetData, AnswerData, NameObservedData, NameCommitData DEF Begin
  <1>3. CASE Resolve(p)
    BY <1>3, UpsertReleaseData, UpsertObservedData, UpsertCommitData, SetColumnsData,
       SetResolvedData, TargetRowData, TargetCommitData, ErrorRowData, NameCommitData DEF Resolve
  <1>4. CASE Catalogue(p)
    BY <1>4, StartData, FetchData, RecordBlobData, RecordArtifactData, SetStateData,
       RecordFailureData, CatalogueCommitData, DecryptedCommitData, FailedCommitData DEF Catalogue
  <1>5. CASE Close(p) \/ Kill(p)
    BY <1>5, LeaveData DEF Close, Kill
  <1>6. CASE Raise(p)
    BY <1>6, RaiseData
  <1> QED
    BY <1>1, <1>2, <1>3, <1>4, <1>5, <1>6 DEF Step

LEMMA RegStutter == RegInv /\ UNCHANGED vars => RegInv'
  <1> SUFFICES ASSUME RegInv, UNCHANGED vars PROVE RegInv'
    OBVIOUS
  <1>1. /\ disk' = disk /\ seen' = seen /\ tx' = tx /\ writer' = writer
        /\ pc' = pc /\ script' = script /\ holder' = holder /\ job' = job
    BY DEF vars, data
  <1>2. ControlInv'
    BY <1>1 DEF RegInv, ControlInv, ControlType, ConnInv, LockInv
  <1>3. TablesInv'
    BY <1>1 DEF RegInv, DataInv, TablesInv
  <1>4. MigrationInv'
    BY <1>1 DEF RegInv, DataInv, MigrationInv
  <1>5. JobInv'
    BY <1>1 DEF RegInv, DataInv, JobInv, View
  <1> QED
    BY <1>2, <1>3, <1>4, <1>5 DEF RegInv, DataInv

LEMMA RegStep == RegInv /\ [Next]_vars => RegInv'
  <1> SUFFICES ASSUME RegInv, [Next]_vars PROVE RegInv'
    OBVIOUS
  <1>1. CASE UNCHANGED vars
    BY <1>1, RegStutter
  <1>2. CASE Next
    <2>1. PICK p \in Procs : Open(p) \/ Begin(p) \/ Step(p) \/ Raise(p) \/ Kill(p)
      BY <1>2 DEF Next
    <2>2. ControlInv'
      BY <2>1, ControlStep DEF RegInv
    <2>3. DataInv'
      BY <2>1, <2>2, DataStep
    <2> QED
      BY <2>2, <2>3 DEF RegInv
  <1> QED
    BY <1>1, <1>2

THEOREM RegistryInvariant == Spec => []RegInv
  BY RegInit, RegStep, PTL DEF Spec

-----------------------------------------------------------------------------
(* The theorems.                                                             *)

(* db.py and cli.py: every table, register and lock keeps its type.          *)
THEOREM RegistryTypeCorrect == Spec => []TypeOK
  <1>1. RegInv => TypeOK
    BY DEF RegInv, ControlInv, ControlType, DataInv, TablesInv, JobInv, TypeOK
  <1> QED
    BY <1>1, RegistryInvariant, PTL

(* migrate(): any number of processes that open the registry at once, and    *)
(* are killed anywhere, run each script once and in order.                   *)
THEOREM MigrationsOnce == Spec => []MigrationsApplyOnce
  <1>1. RegInv => MigrationsApplyOnce
    BY DEF RegInv, DataInv, MigrationInv, Ran, MigrationsApplyOnce
  <1> QED
    BY <1>1, RegistryInvariant, PTL

(* No command gets past migrate() with a part of the schema missing.         *)
THEOREM FullSchema == Spec => []OpenedOnFullSchema
  <1>1. RegInv => OpenedOnFullSchema
    <2> SUFFICES ASSUME RegInv, NEW p \in Procs, pc[p] \notin {"off", "close"} \cup Migrating
                 PROVE  disk.applied = Scripts
      BY DEF OpenedOnFullSchema
    <2>1. pc[p] \in Locations
      BY DEF RegInv, ControlInv, ControlType
    <2>2. pc[p] \in {"ready"} \cup Inside
      BY <2>1 DEF Locations, Inside
    <2> QED
      BY <2>2 DEF RegInv, DataInv, MigrationInv
  <1> QED
    BY <1>1, RegistryInvariant, PTL

(* upsert_observation: one row for a model, region and AP, and no            *)
(* observation of another's release, whatever raises and whoever is killed.  *)
THEOREM CanonicalReleases == Spec => []ReleasesAreCanonical
  <1>1. RegInv => ReleasesAreCanonical
    <2>1. RegInv => Canonical(disk)
      BY DEF RegInv, DataInv, TablesInv, Shape
    <2> QED
      BY <2>1 DEF Canonical, ReleasesAreCanonical
  <1> QED
    BY <1>1, RegistryInvariant, PTL

(* upsert_observation and set_resolved_version: no release on disk claims a  *)
(* version that nobody observed of it.                                       *)
THEOREM ReleasesObserved == Spec => []EveryReleaseObserved
  <1>1. RegInv => EveryReleaseObserved
    BY DEF RegInv, DataInv, TablesInv, AllObserved, EveryReleaseObserved
  <1> QED
    BY <1>1, RegistryInvariant, PTL

(* _merge_release and set_resolved_version, in any order: the component      *)
(* columns are the parts of full_version.                                    *)
THEOREM ColumnsInAgreement == Spec => []ColumnsAgree
  <1>1. RegInv => ColumnsAgree
    <2>1. RegInv => \A i \in DOMAIN disk.release : Columns(disk.release[i])
      BY DEF RegInv, DataInv, TablesInv, Shape
    <2> QED
      BY <2>1 DEF Columns, ColumnsAgree
  <1> QED
    BY <1>1, RegistryInvariant, PTL

(* set_target_resolution: a target's latest release is a resolved one of its *)
(* own.                                                                      *)
THEOREM TargetsAtHome == Spec => []TargetsPointHome
  <1>1. RegInv => TargetsPointHome
    <2>1. RegInv => Home(disk)
      BY DEF RegInv, DataInv, TablesInv, Shape
    <2> QED
      BY <2>1 DEF Home, TargetsPointHome
  <1> QED
    BY <1>1, RegistryInvariant, PTL

(* record_blob, record_artifact, set_state: the rows of a release appear in  *)
(* this order, even if commits raise in between.                             *)
THEOREM CatalogueOrder == Spec => []CataloguedInOrder
  <1>1. RegInv => CataloguedInOrder
    <2>1. RegInv => InOrder(disk)
      BY DEF RegInv, DataInv, TablesInv, Shape
    <2> QED
      BY <2>1 DEF InOrder, CataloguedInOrder
  <1> QED
    BY <1>1, RegistryInvariant, PTL

(* A step leaves the disk alone, commits what is seen, or is the download.   *)
LEMMA DiskMoves ==
    ASSUME NEW p \in Procs, Open(p) \/ Begin(p) \/ Step(p) \/ Raise(p) \/ Kill(p)
    PROVE  disk' = disk \/ disk' = seen \/ Fetch(p)
  <1> USE DEF data, Scoped, Bare, Statement, EndScope, BareCommit, Committed, RolledBack
  <1>1. CASE Open(p) \/ Migrate(p)
    BY <1>1 DEF Open, Migrate, Check, RunScript, RecordScript, CommitScript, Leave
  <1>2. CASE Begin(p) \/ NameObserved(p) \/ NameCommit(p)
    BY <1>2 DEF Begin, NameTarget, Answer, NoAnswer, NameObserved, NameCommit
  <1>3. CASE Resolve(p)
    <2>1. CASE UpsertRelease(p)
      BY <2>1 DEF UpsertRelease
    <2>2. CASE UpsertObserved(p) \/ UpsertCommit(p) \/ SetColumns(p) \/ SetResolved(p)
      BY <2>2 DEF UpsertObserved, UpsertCommit, SetColumns, SetResolved
    <2>3. CASE \/ ResolvedCommit(p) \/ TargetRow(p) \/ TargetCommit(p)
               \/ ErrorRow(p) \/ ErrorCommit(p)
      BY <2>3 DEF ResolvedCommit, TargetRow, TargetCommit, ErrorRow, ErrorCommit
    <2> QED
      BY <1>3, <2>1, <2>2, <2>3 DEF Resolve
  <1>4. CASE Catalogue(p)
    <2>1. CASE ReturnCatalogued(p) \/ FindFinal(p) \/ Refused(p) \/ Deduplicate(p) \/ RecordBlob(p)
                  \/ BlobCommit(p)
      BY <2>1 DEF ReturnCatalogued, FindFinal, Refused, Deduplicate, RecordBlob, BlobCommit
    <2>2. CASE \/ RecordArtifact(p) \/ ArtifactCommit(p) \/ SetDecrypted(p) \/ DecryptedCommit(p)
      BY <2>2 DEF RecordArtifact, ArtifactCommit, SetDecrypted, DecryptedCommit
    <2>3. CASE \/ SetFailed(p) \/ FailedCommit(p) \/ RecordFailure(p) \/ FailureCommit(p)
      BY <2>3 DEF SetFailed, FailedCommit, RecordFailure, FailureCommit
    <2> QED
      BY <1>4, <2>1, <2>2, <2>3 DEF Catalogue
  <1>5. CASE Leave(p)
    BY <1>5 DEF Leave
  <1>6. CASE Lock(p) \/ Close(p) \/ Kill(p)
    BY <1>5, <1>6 DEF Lock, Close, Kill
  <1>7. CASE Raise(p)
    BY <1>7 DEF Raise, Handle, AfterRaise, Leave
  <1> QED
    BY <1>1, <1>2, <1>3, <1>4, <1>6, <1>7 DEF Step

(* No commit of any process takes back what is on disk.                      *)
THEOREM NothingIsForgotten == Spec => NothingForgotten
  <1>1. RegInv /\ [Next]_vars => [Keeps(disk, disk')]_vars
    <2> SUFFICES ASSUME RegInv, Next PROVE Keeps(disk, disk')
      OBVIOUS
    <2>1. PICK p \in Procs : Open(p) \/ Begin(p) \/ Step(p) \/ Raise(p) \/ Kill(p)
      BY DEF Next
    <2>2. CASE disk' = disk \/ disk' = seen
      BY <2>2, KeepsSelf DEF RegInv, DataInv, TablesInv
    <2>3. CASE Fetch(p)
      BY <2>3, FetchRows DEF RowPut, Good
    <2> QED
      BY <2>1, <2>2, <2>3, DiskMoves
  <1>2. Spec => [][Keeps(disk, disk')]_vars
    BY <1>1, RegistryInvariant, PTL DEF Spec
  <1> QED
    BY <1>2, PTL DEF NothingForgotten, Keeps

(* Every action takes its process somewhere.                                 *)
LEMMA Moves ==
    ASSUME NEW p \in Procs, Open(p) \/ Begin(p) \/ Step(p) \/ Raise(p) \/ Kill(p)
    PROVE  \E b : Goto(p, b)
  <1>1. CASE Open(p) \/ Migrate(p)
    BY <1>1 DEF Open, Migrate, Check, RunScript, RecordScript, CommitScript, Leave
  <1>2. CASE Begin(p) \/ NameObserved(p) \/ NameCommit(p)
    BY <1>2 DEF Begin, NameTarget, Answer, NoAnswer, NameObserved, NameCommit
  <1>3. CASE Resolve(p)
    BY <1>3 DEF Resolve, UpsertRelease, UpsertObserved, UpsertCommit, SetColumns, SetResolved,
                ResolvedCommit, TargetRow, TargetCommit, ErrorRow, ErrorCommit
  <1>4. CASE Catalogue(p)
    BY <1>4 DEF Catalogue, ReturnCatalogued, Fetch, FindFinal, Refused, Deduplicate, RecordBlob, BlobCommit,
           RecordArtifact, ArtifactCommit, SetDecrypted, DecryptedCommit, SetFailed,
           FailedCommit, RecordFailure, FailureCommit, Done
  <1>5. CASE Lock(p) \/ Close(p) \/ Kill(p) \/ Raise(p)
    BY <1>5 DEF Lock, Close, Kill, Leave, Raise, Handle
  <1> QED
    BY <1>1, <1>2, <1>3, <1>4, <1>5 DEF Step

(* Who is at the commit of set_target_resolution commits, raises or is       *)
(* killed.                                                                   *)
LEMMA ReportMoves ==
    ASSUME NEW p \in Procs, pc[p] = "t_commit",
           Open(p) \/ Begin(p) \/ Step(p) \/ Raise(p) \/ Kill(p)
    PROVE  TargetCommit(p) \/ Raise(p) \/ Leave(p)
  <1> USE DEF At
  <1>1. CASE Open(p) \/ Migrate(p) \/ Lock(p)
    BY <1>1 DEF Open, Migrate, Check, RunScript, RecordScript, CommitScript, Lock
  <1>2. CASE Begin(p) \/ NameObserved(p) \/ NameCommit(p)
    BY <1>2 DEF Begin, NameTarget, Answer, NoAnswer, NameObserved, NameCommit
  <1>3. CASE Resolve(p)
    BY <1>3 DEF Resolve, UpsertRelease, UpsertObserved, UpsertCommit, SetColumns, SetResolved,
                ResolvedCommit, TargetRow, ErrorRow, ErrorCommit
  <1>4. ~Catalogue(p)
    BY DEF Catalogue, ReturnCatalogued, Fetch, FindFinal, Refused, Deduplicate, RecordBlob, BlobCommit,
           RecordArtifact, ArtifactCommit, SetDecrypted, DecryptedCommit, SetFailed,
           FailedCommit, RecordFailure, FailureCommit
  <1>5. CASE Close(p) \/ Kill(p)
    BY <1>5 DEF Close, Kill
  <1> QED
    BY <1>1, <1>2, <1>3, <1>4, <1>5 DEF Step

(* probe(): when it returns a resolved result, the target, the observation   *)
(* and the release are committed, and are what it returns.                   *)
THEOREM ReportsAreStored == Spec => ReportedIsStored
  <1> DEFINE Stored(p) ==
        /\ disk'.target[job.target] = [latest |-> job.release, full |-> job.version]
        /\ disk'.observed[job.target][job.version] = job.release
        /\ disk'.release[job.release].full = job.version
        /\ disk'.release[job.release].state # "DISCOVERED"
  <1>1. RegInv /\ [Next]_vars => [\A p \in Procs : Reports(p) => Stored(p)]_vars
    <2> SUFFICES ASSUME RegInv, Next, NEW p \in Procs, Reports(p) PROVE Stored(p)
      OBVIOUS
    <2>1. PICK q \in Procs : Open(q) \/ Begin(q) \/ Step(q) \/ Raise(q) \/ Kill(q)
      BY DEF Next
    <2>2. pc[p] = "t_commit" /\ pc'[p] \in {"select", "d_start"}
      BY DEF Reports
    <2>3. \E b : Goto(q, b)
      BY <2>1, Moves
    <2>4. q = p
      BY <2>2, <2>3 DEF Goto, RegInv, ControlInv, ControlType
    <2>5. TargetCommit(p)
      <3>1. TargetCommit(p) \/ Raise(p) \/ Leave(p)
        BY <2>1, <2>2, <2>4, ReportMoves
      <3>2. ~Leave(p)
        BY <2>2 DEF Leave, Goto, RegInv, ControlInv, ControlType
      <3>3. ASSUME Raise(p) PROVE FALSE
        <4>1. PICK b \in Handlers(p) : Goto(p, b)
          BY <3>2, <3>3 DEF Raise, Handle
        <4>2. pc'[p] \in MayPend
          BY <4>1, HandlersPend DEF Goto, RegInv, ControlInv, ControlType
        <4> QED
          BY <2>2, <4>2 DEF MayPend
      <3> QED
        BY <3>1, <3>2, <3>3
    <2>6. "t_commit" \in Pending \cap Inside
      BY DEF Pending, Inside, Resolving
    <2>7. disk' = seen /\ View(p) = seen /\ JobFits("t_commit", seen, job)
      BY <2>2, <2>5, <2>6, Ends, Writing, InsideFacts DEF TargetCommit, Committed, RegInv
    <2> QED
      BY <2>7 DEF JobFits, FoundSteps, ObservedSteps, Resolving
  <1>2. Spec => [][\A p \in Procs : Reports(p) => Stored(p)]_vars
    BY <1>1, RegistryInvariant, PTL DEF Spec
  <1> QED
    BY <1>2, PTL DEF ReportedIsStored
=============================================================================
