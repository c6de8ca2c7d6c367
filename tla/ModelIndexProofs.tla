-------------------------- MODULE ModelIndexProofs --------------------------
(* Proofs about ModelIndex, for every set of installations, models, inodes   *)
(* and texts: what appending to a shared catalog never does.                 *)
EXTENDS ModelIndex, TLAPS

-----------------------------------------------------------------------------
(* The strengthening that makes TypeOK inductive: which descriptors are open *)
(* at which step.                                                            *)

FdSteps  == {"r_init", "r_read", "r_commit", "a_lock", "a_scan", "a_bounds", "a_copy",
             "a_check", "a_replace", "a_reopen", "a_mark"}
TmpSteps == {"a_check", "a_replace"}

OpTyped(i) ==
    /\ pc[i] \notin {"idle", "r_ensure"} => name # None
    /\ pc[i] \in AppendSteps => model[i] \in Models
    /\ fd[i] # None <=> pc[i] \in FdSteps
    /\ tmp[i] # None <=> pc[i] \in TmpSteps
    /\ pc[i] \in {"r_read", "r_commit", "a_mark"} => opened[i] # None

TypeInv == TypeOK /\ \A i \in Installs : OpTyped(i)

(* A step of an installation.                                                *)
Act(i) ==
    \/ BeginRefresh(i) \/ Refreshing(i)
    \/ \E m \in Models : BeginAppend(i, m)
    \/ Appending(i)
    \/ Crash(i)

Edit == \E t \in Texts : EditInPlace(t) \/ EditByRename(t)

(* Init establishes the typing invariant.                                    *)
LEMMA InitTyped == Init => TypeInv
<1> SUFFICES ASSUME Init PROVE TypeInv
  OBVIOUS
<1>1. PICK t \in Texts : body = [n \in Inodes |-> IF n = name THEN t ELSE <<>>]
  BY DEF Init
<1>2. t \in Seq(Models) /\ <<>> \in Seq(Models)
  BY TextsType
<1>3. body \in [Inodes -> Seq(Models)]
  BY <1>1, <1>2
<1>4. whole \in [Inodes -> BOOLEAN]
  BY DEF Init
<1>5. born \subseteq Inodes
  BY DEF Init
<1> QED
  BY <1>3, <1>4, <1>5 DEF Init, TypeInv, TypeOK, OpTyped, IPC, FdSteps, TmpSteps, AppendSteps

(* Writing a text keeps the types of the file system.                        *)
LEMMA WriteTyped ==
  ASSUME TypeOK, NEW n \in Inodes, NEW t \in Seq(Models), NEW b \in BOOLEAN, WriteTo(n, t, b)
  PROVE  /\ body' \in [Inodes -> Seq(Models)]
         /\ whole' \in [Inodes -> BOOLEAN]
         /\ stamp' \in [Inodes -> Nat]
         /\ born' \subseteq Inodes
<1>1. <<>> \in Seq(Models)
  OBVIOUS
<1>2. body' \in [Inodes -> Seq(Models)]
  BY <1>1 DEF WriteTo, TypeOK
<1>3. whole' \in [Inodes -> BOOLEAN]
  BY DEF WriteTo, TypeOK
<1>4. stamp' \in [Inodes -> Nat]
  BY DEF WriteTo, TypeOK
<1>5. born' \subseteq Inodes
  BY DEF WriteTo, TypeOK
<1> QED
  BY <1>2, <1>3, <1>4, <1>5

(* Ending an operation keeps the typing invariant.                           *)
LEMMA EndTyped ==
  ASSUME TypeInv, NEW i \in Installs, End(i), UNCHANGED disk,
         indexed' \in [Installs -> SUBSET Models],
         known' \in [Installs -> Fingerprint \cup {None}],
         opened' \in [Installs -> Fingerprint \cup {None}],
         \A j \in Installs \ {i} : opened'[j] = opened[j], edits' = edits
  PROVE  TypeInv'
<1>1. TypeOK'
  BY DEF TypeInv, TypeOK, End, Goto, disk, IPC
<1>2. OpTyped(i)'
  BY NoneFresh DEF TypeInv, TypeOK, End, Goto, OpTyped, FdSteps, TmpSteps, AppendSteps
<1>3. \A j \in Installs \ {i} : OpTyped(j)'
  BY DEF TypeInv, TypeOK, End, Goto, OpTyped, disk
<1> QED
  BY <1>1, <1>2, <1>3 DEF TypeInv

(* Every step of an installation keeps the typing invariant.                 *)
LEMMA ActTyped ==
  ASSUME TypeInv, NEW i \in Installs, Act(i)
  PROVE  TypeInv'
<1> USE DEF TypeInv, Goto
<1>0. TypeOK /\ \A j \in Installs : OpTyped(j)
  OBVIOUS
<1>a. ASSUME TypeOK', OpTyped(i)', \A j \in Installs \ {i} : OpTyped(j)' PROVE TypeInv'
  BY <1>a
<1>1. CASE BeginRefresh(i)
  BY <1>0, <1>1, NoneFresh DEF BeginRefresh, TypeOK, OpTyped, disk, dbs, regs, IPC, RefreshSteps,
       FdSteps, TmpSteps, AppendSteps
<1>2. CASE EnsureFile(i)
  <2>1. CASE name # None /\ UNCHANGED <<disk, flock, dbs, regs, edits>> /\ Goto(i, "r_open")
    BY <1>0, <1>2, <2>1, NoneFresh DEF EnsureFile, TypeOK, OpTyped, disk, dbs, regs, IPC,
         RefreshSteps, FdSteps, TmpSteps, AppendSteps
  <2>2. CASE End(i) /\ UNCHANGED <<disk, dbs, opened, edits>>
    BY <1>0, <2>2, EndTyped DEF TypeOK, dbs
  <2>3. CASE name = None /\ \E n \in Free : name' = n /\ Write(n, <<>>, FALSE) /\ fd' = [fd EXCEPT ![i] = n]
    <3>1. PICK n \in Free : name' = n /\ Write(n, <<>>, FALSE) /\ fd' = [fd EXCEPT ![i] = n]
      BY <2>3
    <3>2. n \in Inodes /\ n # None
      BY NoneFresh DEF Free, Unused
    <3>3. /\ Goto(i, "r_init") /\ pc[i] = "r_ensure"
          /\ UNCHANGED <<flock, dbs, model, tmp, at, seen, rebuild, opened, edits>>
      BY <1>2, <2>3, <3>1, <3>2 DEF EnsureFile, disk
    <3>4. TypeOK'
      <4>0. <<>> \in Seq(Models)
        OBVIOUS
      <4>1. WriteTo(n, <<>>, FALSE)
        BY <3>1 DEF Write
      <4>2. /\ body' \in [Inodes -> Seq(Models)] /\ whole' \in [Inodes -> BOOLEAN]
            /\ stamp' \in [Inodes -> Nat] /\ born' \subseteq Inodes
        BY <1>0, <3>2, <4>0, <4>1, WriteTyped
      <4> QED
        BY <1>0, <3>1, <3>2, <3>3, <4>2 DEF Write, TypeOK, dbs, IPC, RefreshSteps
    <3>5. OpTyped(i)'
      BY <1>0, <3>1, <3>2, <3>3 DEF TypeOK, OpTyped, FdSteps, TmpSteps, AppendSteps
    <3>6. \A j \in Installs \ {i} : OpTyped(j)'
      BY <1>0, <3>1, <3>2, <3>3 DEF TypeOK, OpTyped
    <3> QED
      BY <3>4, <3>5, <3>6
  <2> QED
    BY <1>2, <2>1, <2>2, <2>3 DEF EnsureFile
<1>3. CASE WriteBraces(i)
  <2>1. pc[i] = "r_init" /\ fd[i] \in Inodes /\ name # None
    BY <1>0, <1>3 DEF WriteBraces, OpTyped, FdSteps, TypeOK
  <2>2. TypeOK'
    <3>1. body[fd[i]] \in Seq(Models) /\ WriteTo(fd[i], body[fd[i]], TRUE)
      BY <1>0, <1>3, <2>1 DEF WriteBraces, Write, TypeOK
    <3>2. /\ body' \in [Inodes -> Seq(Models)] /\ whole' \in [Inodes -> BOOLEAN]
          /\ stamp' \in [Inodes -> Nat] /\ born' \subseteq Inodes
      BY <1>0, <2>1, <3>1, WriteTyped
    <3> QED
      BY <1>0, <1>3, <3>2 DEF WriteBraces, Write, TypeOK, dbs, IPC, RefreshSteps
  <2>3. OpTyped(i)'
    BY <1>0, <1>3, <2>1 DEF WriteBraces, TypeOK, OpTyped, FdSteps, TmpSteps, AppendSteps
  <2>4. \A j \in Installs \ {i} : OpTyped(j)'
    BY <1>0, <1>3 DEF WriteBraces, TypeOK, OpTyped
  <2> QED
    BY <2>2, <2>3, <2>4
<1>4. CASE Open(i)
  <2>1. name \in Inodes /\ name # None
    BY <1>0, <1>4 DEF Open, OpTyped, TypeOK
  <2>2. Stat(name) \in Fingerprint /\ Stat(name) # None /\ Start(i, name) \in Nat
    <3>1. Stat(name) \in Fingerprint
      BY <1>0, <2>1 DEF Stat, Fingerprint, TypeOK
    <3>2. Start(i, name) \in Nat
      BY <1>0, <2>1, BoundsType DEF Start, MustRebuild, Fingerprint, TypeOK
    <3>3. Stat(name) # None
      BY <3>1, NoneFresh
    <3> QED
      BY <3>1, <3>2, <3>3
  <2>3. MustRebuild(i, name) \in BOOLEAN
    BY DEF MustRebuild
  <2>4. TypeOK'
    BY <1>0, <1>4, <2>1, <2>2, <2>3, ZenonT(60) DEF Open, TypeOK, disk, dbs, IPC, RefreshSteps
  <2>5. OpTyped(i)'
    <3>1. CASE pc'[i] = "select" /\ UNCHANGED fd
      BY <1>0, <1>4, <2>1, <3>1 DEF Open, TypeOK, OpTyped, disk, FdSteps, TmpSteps, AppendSteps
    <3>2. CASE pc'[i] = "r_read" /\ fd' = [fd EXCEPT ![i] = name]
      BY <1>0, <1>4, <2>1, <2>2, <3>2 DEF Open, TypeOK, OpTyped, disk, FdSteps, TmpSteps, AppendSteps
    <3> QED
      BY <1>0, <1>4, <3>1, <3>2 DEF Open, TypeOK
  <2>6. \A j \in Installs \ {i} : OpTyped(j)'
    BY <1>0, <1>4 DEF Open, TypeOK, OpTyped, disk
  <2> QED
    BY <2>4, <2>5, <2>6
<1>5. CASE Read(i)
  <2>1. fd[i] \in Inodes /\ at[i] \in Nat /\ body[fd[i]] \in Seq(Models)
    BY <1>0, <1>5 DEF Read, OpTyped, FdSteps, TypeOK
  <2>2. at[i] < Len(body[fd[i]]) => body[fd[i]][at[i] + 1] \in Models
    BY <2>1
  <2>3. TypeOK'
    <3>1. seen' \in [Installs -> SUBSET Models]
      BY <1>0, <1>5, <2>2 DEF Read, TypeOK
    <3>2. at' \in [Installs -> Nat]
      <4>1. at[i] + 1 \in Nat
        BY <2>1
      <4>2. at' = at \/ at' = [at EXCEPT ![i] = at[i] + 1]
        BY <1>5 DEF Read
      <4> QED
        BY <1>0, <4>1, <4>2 DEF TypeOK
    <3>3. pc' \in [Installs -> IPC]
      <4>1. pc' = pc \/ pc' = [pc EXCEPT ![i] = "r_commit"]
        BY <1>5 DEF Read
      <4>2. "r_commit" \in IPC
        BY DEF IPC, RefreshSteps
      <4> QED
        BY <1>0, <4>1, <4>2 DEF TypeOK
    <3> QED
      BY <1>0, <1>5, <3>1, <3>2, <3>3 DEF Read, TypeOK, disk, dbs
  <2>4. OpTyped(i)'
    BY <1>0, <1>5 DEF Read, TypeOK, OpTyped, disk, FdSteps, TmpSteps, AppendSteps
  <2>5. \A j \in Installs \ {i} : OpTyped(j)'
    BY <1>0, <1>5 DEF Read, TypeOK, OpTyped, disk
  <2> QED
    BY <2>3, <2>4, <2>5
<1>6. CASE Commit(i)
  <2>1. fd[i] \in Inodes /\ opened[i] \in Fingerprint
    BY <1>0, <1>6 DEF Commit, OpTyped, FdSteps, TypeOK
  <2>2. [ino |-> opened[i].ino, stamp |-> stamp[fd[i]], offset |-> at[i]] \in Fingerprint
    BY <1>0, <2>1 DEF Fingerprint, TypeOK
  <2>3. TypeOK'
    BY <1>0, <1>6, <2>2 DEF Commit, TypeOK, disk, IPC
  <2>4. OpTyped(i)'
    BY <1>0, <1>6 DEF Commit, TypeOK, OpTyped, disk, FdSteps, TmpSteps, AppendSteps
  <2>5. \A j \in Installs \ {i} : OpTyped(j)'
    BY <1>0, <1>6 DEF Commit, TypeOK, OpTyped, disk
  <2> QED
    BY <2>3, <2>4, <2>5
<1>7. CASE Select(i)
  BY <1>0, <1>7 DEF Select, TypeOK, OpTyped, disk, dbs, IPC, AppendSteps, FdSteps, TmpSteps
<1>8. ASSUME NEW m \in Models, BeginAppend(i, m) PROVE TypeInv'
  BY <1>0, <1>8, NoneFresh DEF BeginAppend, TypeOK, OpTyped, disk, dbs, IPC, RefreshSteps,
       FdSteps, TmpSteps, AppendSteps
<1>9. CASE OpenToAppend(i)
  BY <1>0, <1>9 DEF OpenToAppend, TypeOK, OpTyped, disk, dbs, IPC, FdSteps, TmpSteps, AppendSteps
<1>10. CASE Lock(i)
  <2>1. fd[i] \in Inodes /\ Len(body[fd[i]]) \in Nat
    BY <1>0, <1>10 DEF Lock, OpTyped, FdSteps, TypeOK
  <2> QED
    BY <1>0, <1>10, <2>1 DEF Lock, TypeOK, OpTyped, disk, dbs, IPC, FdSteps, TmpSteps, AppendSteps
<1>11. CASE ScanForModel(i) \/ Bounds(i) \/ CheckInode(i) \/ Crash(i)
  <2>1. CASE End(i)
    <3>1. UNCHANGED <<disk, dbs, edits>> /\ (UNCHANGED opened \/ opened' = [opened EXCEPT ![i] = None])
      BY <1>11 DEF ScanForModel, Bounds, CheckInode, Crash
    <3> QED
      BY <1>0, <2>1, <3>1, EndTyped DEF TypeOK, dbs
  <2>2. CASE ~End(i)
    <3>1. /\ UNCHANGED <<disk, dbs, opened, edits, flock, fd, tmp, model, at, seen, rebuild>>
          /\ \/ pc[i] = "a_scan" /\ Goto(i, "a_bounds")
             \/ pc[i] = "a_bounds" /\ Goto(i, "a_copy")
             \/ pc[i] = "a_check" /\ Goto(i, "a_replace")
      BY <1>11, <2>2 DEF ScanForModel, Bounds, CheckInode, Crash
    <3> QED
      BY <1>0, <3>1, ZenonT(60) DEF TypeOK, OpTyped, disk, dbs, IPC, FdSteps, TmpSteps, AppendSteps
  <2> QED
    BY <2>1, <2>2
<1>12. CASE Copy(i)
  <2>1. CASE Len(body[fd[i]]) < at[i]
    BY <1>0, <1>12, <2>1, EndTyped DEF Copy, TypeOK, dbs
  <2>2. CASE ~(Len(body[fd[i]]) < at[i])
    <3>1. fd[i] \in Inodes /\ model[i] \in Models /\ at[i] \in Nat /\ body[fd[i]] \in Seq(Models)
      BY <1>0, <1>12 DEF Copy, OpTyped, FdSteps, AppendSteps, TypeOK
    <3>2. at[i] <= Len(body[fd[i]])
      BY <3>1, <2>2
    <3>3. SubSeq(body[fd[i]], 1, at[i]) \in Seq(Models)
      BY <3>1, <3>2
    <3>4. Append(SubSeq(body[fd[i]], 1, at[i]), model[i]) \in Seq(Models)
      BY <3>1, <3>3
    <3>5. PICK n \in Free : /\ WriteTo(n, Append(SubSeq(body[fd[i]], 1, at[i]), model[i]),
                                       Len(body[fd[i]]) = at[i])
                            /\ tmp' = [tmp EXCEPT ![i] = n]
      BY <1>12, <2>2 DEF Copy
    <3>6. n \in Inodes /\ n # None
      BY NoneFresh DEF Free, Unused
    <3>7. /\ body' \in [Inodes -> Seq(Models)] /\ whole' \in [Inodes -> BOOLEAN]
          /\ stamp' \in [Inodes -> Nat] /\ born' \subseteq Inodes
      BY <1>0, <3>4, <3>5, <3>6, WriteTyped
    <3>8. /\ pc[i] = "a_copy" /\ Goto(i, "a_check")
          /\ UNCHANGED <<name, clock, flock, fd, model, at, seen, rebuild, dbs, opened, edits>>
      BY <1>12, <2>2 DEF Copy
    <3>9. TypeOK'
      BY <1>0, <3>5, <3>6, <3>7, <3>8 DEF TypeOK, dbs, IPC, AppendSteps
    <3>10. OpTyped(i)'
      BY <1>0, <3>5, <3>6, <3>8 DEF TypeOK, OpTyped, FdSteps, TmpSteps, AppendSteps
    <3>11. \A j \in Installs \ {i} : OpTyped(j)'
      BY <1>0, <3>5, <3>8 DEF TypeOK, OpTyped
    <3> QED
      BY <3>9, <3>10, <3>11
  <2> QED
    BY <2>1, <2>2
<1>13. CASE Replace(i)
  <2>1. tmp[i] \in Inodes /\ tmp[i] # None
    BY <1>0, <1>13 DEF Replace, OpTyped, TmpSteps, TypeOK
  <2> QED
    BY <1>0, <1>13, <2>1 DEF Replace, TypeOK, OpTyped, dbs, IPC, FdSteps, TmpSteps, AppendSteps
<1>14. CASE Reopen(i)
  <2>1. name \in Inodes
    BY <1>0, <1>14 DEF Reopen, OpTyped, TypeOK
  <2>2. Stat(name) \in Fingerprint
    BY <1>0, <2>1 DEF Stat, Fingerprint, TypeOK
  <2>3. Stat(name) # None
    BY <2>2, NoneFresh
  <2> QED
    BY <1>0, <1>14, <2>2, <2>3 DEF Reopen, TypeOK, OpTyped, disk, dbs, IPC, FdSteps, TmpSteps, AppendSteps
<1>15. CASE MarkAppended(i)
  <2>1. model[i] \in Models
    BY <1>0, <1>15 DEF MarkAppended, OpTyped, AppendSteps
  <2>2. /\ indexed' \in [Installs -> SUBSET Models]
        /\ known' \in [Installs -> Fingerprint \cup {None}]
        /\ opened' \in [Installs -> Fingerprint \cup {None}]
        /\ \A j \in Installs \ {i} : opened'[j] = opened[j]
    BY <1>0, <1>15, <2>1 DEF MarkAppended, TypeOK
  <2> QED
    BY <1>15, <2>2, EndTyped DEF MarkAppended
<1> QED
  BY <1>1, <1>2, <1>3, <1>4, <1>5, <1>6, <1>7, <1>8, <1>9, <1>10, <1>11, <1>12, <1>13, <1>14, <1>15
     DEF Act, Refreshing, Appending

(* So do edits and stuttering.                                               *)
LEMMA EditTyped ==
  ASSUME TypeInv, Edit
  PROVE  TypeInv'
<1>0. TypeOK /\ \A j \in Installs : OpTyped(j)
  BY DEF TypeInv
<1>1. PICK t \in Texts : EditInPlace(t) \/ EditByRename(t)
  BY DEF Edit
<1>2. t \in Seq(Models)
  BY TextsType
<1>3. PICK n \in Inodes : /\ Write(n, t, TRUE) /\ n # None /\ name' = n /\ edits' = edits + 1
                          /\ UNCHANGED <<flock, dbs, pc, regs>>
  BY <1>0, <1>1, NoneFresh DEF EditInPlace, EditByRename, Free, Unused, TypeOK
<1>4. TypeOK'
  <2>1. /\ body' \in [Inodes -> Seq(Models)] /\ whole' \in [Inodes -> BOOLEAN]
        /\ stamp' \in [Inodes -> Nat] /\ born' \subseteq Inodes
    BY <1>0, <1>2, <1>3, WriteTyped DEF Write
  <2>2. clock' \in Nat /\ edits' \in Nat
    BY <1>0, <1>3 DEF Write, TypeOK
  <2> QED
    BY <1>0, <1>3, <2>1, <2>2 DEF TypeOK, dbs, regs
<1>5. \A j \in Installs : OpTyped(j)'
  BY <1>0, <1>3 DEF OpTyped, regs
<1> QED
  BY <1>4, <1>5 DEF TypeInv

(* Hence the typing invariant is inductive.                                  *)
LEMMA NextTyped == TypeInv /\ [Next]_ivars => TypeInv'
<1> SUFFICES ASSUME TypeInv, [Next]_ivars PROVE TypeInv'
  OBVIOUS
<1>1. CASE \E i \in Installs : Act(i)
  BY <1>1, ActTyped
<1>2. CASE Edit
  BY <1>2, EditTyped
<1>3. CASE UNCHANGED ivars
  BY <1>3 DEF TypeInv, TypeOK, OpTyped, ivars, disk, dbs, regs
<1> QED
  BY <1>1, <1>2, <1>3 DEF Next, Act, Edit

(* Type correctness of the files, the indexes and the running operations.    *)
THEOREM IndexTypeCorrect == Spec => []TypeOK
<1>1. Init => TypeInv
  BY InitTyped
<1>2. TypeInv /\ [Next]_ivars => TypeInv'
  BY NextTyped
<1>3. TypeInv => TypeOK
  BY DEF TypeInv
<1> QED
  BY <1>1, <1>2, <1>3, PTL DEF Spec

-----------------------------------------------------------------------------
(* The strengthening behind NothingSkippedWrongly and CatalogOnlyGrows, for  *)
(* as long as no editor has interfered. Open files are frozen, every file    *)
(* that is open lists no more than the catalog does, who copies the catalog  *)
(* holds the lock of the inode it copies, and a copy is private until it is  *)
(* renamed.                                                                  *)

LockedSteps == {"a_scan", "a_bounds", "a_copy", "a_check", "a_replace", "a_reopen", "a_mark"}

ListedNow == IF name = None THEN {} ELSE Listed(name)

OpLock(i) ==
    /\ pc[i] \in LockedSteps => flock[fd[i]] = i
    /\ pc[i] = "a_replace" => name = fd[i]

OpCopy(i) ==
    /\ pc[i] \in {"a_bounds", "a_copy", "a_check", "a_replace"} => model[i] \notin Listed(fd[i])
    /\ pc[i] \in {"a_scan", "a_bounds", "a_copy"} => at[i] = Len(body[fd[i]])
    /\ pc[i] \in TmpSteps =>
          /\ tmp[i] # name
          /\ whole[tmp[i]]
          /\ body[tmp[i]] = Append(body[fd[i]], model[i])
          /\ \A j \in Installs : fd[j] # tmp[i] /\ (j # i => tmp[j] # tmp[i])

OpIndex(i) ==
    /\ fd[i] # None => Listed(fd[i]) \subseteq ListedNow
    /\ pc[i] \in {"a_reopen", "a_mark"} => model[i] \in ListedNow
    /\ indexed[i] \subseteq ListedNow
    /\ seen[i] \subseteq ListedNow

Op(i) == OpLock(i) /\ OpCopy(i) /\ OpIndex(i)

Safe == \A i \in Installs : Op(i)

SafeInv == TypeInv /\ (edits = 0 => Safe)

InUse == Inodes \ Unused

(* A step of an installation writes no file that is named or open, except    *)
(* for completing one.                                                       *)
LEMMA Frozen ==
  ASSUME TypeInv, NEW j \in Installs, Act(j)
  PROVE  \A n \in InUse : body'[n] = body[n] /\ (whole[n] => whole'[n])
<1>1. ASSUME NEW n \in Free, NEW t, NEW b, WriteTo(n, t, b)
      PROVE  \A k \in InUse : body'[k] = body[k] /\ (whole[k] => whole'[k])
  BY <1>1 DEF WriteTo, InUse, Free
<1>2. CASE UNCHANGED <<body, whole>>
  BY <1>2
<1>3. CASE EnsureFile(j)
  BY <1>1, <1>2, <1>3 DEF EnsureFile, Write, disk
<1>4. CASE WriteBraces(j)
  <2>1. fd[j] \in Inodes
    BY <1>4 DEF WriteBraces, TypeInv, TypeOK, OpTyped, FdSteps
  <2> QED
    BY <1>4, <2>1 DEF WriteBraces, Write, WriteTo, InUse
<1>5. CASE Copy(j)
  BY <1>1, <1>2, <1>5 DEF Copy, disk
<1> QED
  BY <1>2, <1>3, <1>4, <1>5 DEF Act, BeginRefresh, Refreshing, BeginAppend, Appending, Crash,
       Open, Read, Commit, Select, OpenToAppend, Lock, ScanForModel, Bounds, CheckInode, Replace,
       Reopen, MarkAppended, disk

(* The path changes when the catalog is created and when a copy is renamed.  *)
LEMMA NameMoves ==
  ASSUME TypeInv, NEW j \in Installs, Act(j)
  PROVE  \/ name' = name
         \/ name = None /\ name' \in Free /\ body'[name'] = <<>>
         \/ Replace(j)
<1>1. CASE EnsureFile(j)
  BY <1>1, ZenonT(60) DEF EnsureFile, Write, WriteTo, Free, Unused, disk
<1> QED
  BY <1>1 DEF Act, BeginRefresh, Refreshing, BeginAppend, Appending, Crash,
       WriteBraces, Open, Read, Commit, Select, OpenToAppend, Lock, ScanForModel, Bounds, Copy,
       CheckInode, Reopen, MarkAppended, disk

(* An appended entry is listed.                                              *)
LEMMA ListedAppend ==
  ASSUME TypeOK, NEW n \in Inodes, NEW k \in Inodes, NEW m \in Models,
         body[k] = Append(body[n], m)
  PROVE  Listed(k) = Listed(n) \cup {m}
<1>1. body[n] \in Seq(Models)
  BY DEF TypeOK
<1>2. Len(body[k]) = Len(body[n]) + 1 /\ Len(body[n]) \in Nat
  BY <1>1
<1>3. \A x \in 1..Len(body[n]) : body[k][x] = body[n][x]
  BY <1>1
<1>4. body[k][Len(body[n]) + 1] = m
  BY <1>1
<1>5. 1..Len(body[k]) = (1..Len(body[n])) \cup {Len(body[n]) + 1}
  BY <1>2
<1> QED
  BY <1>3, <1>4, <1>5 DEF Listed

(* The catalog gains at most one model, at its end, and stays whole.         *)
Grows ==
    /\ \/ Catalog' = Catalog
       \/ \E m \in Models : m \notin Listed(name) /\ Catalog' = Append(Catalog, m)
    /\ name # None /\ whole[name] => name' # None /\ whole'[name']

(* Every step of an installation does.                                       *)
LEMMA ActGrows ==
  ASSUME TypeInv, Safe, NEW j \in Installs, Act(j)
  PROVE  Grows /\ ListedNow \subseteq ListedNow'
<1>1. CASE name' = name
  <2>1. CASE name = None
    BY <1>1, <2>1 DEF Grows, Catalog, ListedNow
  <2>2. CASE name # None
    <3>1. name \in InUse
      BY <2>2 DEF InUse, Unused, TypeInv, TypeOK
    <3>2. body'[name] = body[name] /\ (whole[name] => whole'[name])
      BY <3>1, Frozen
    <3>3. Listed(name)' = Listed(name)
      BY <1>1, <3>2 DEF Listed
    <3> QED
      BY <1>1, <2>2, <3>2, <3>3 DEF Grows, Catalog, ListedNow
  <2> QED
    BY <2>1, <2>2
<1>2. CASE name = None /\ name' \in Free /\ body'[name'] = <<>>
  <2>1. name' # None
    BY <1>2, NoneFresh DEF Free, Unused
  <2> QED
    BY <1>2, <2>1 DEF Grows, Catalog, ListedNow
<1>3. CASE Replace(j)
  <2>1. /\ pc[j] = "a_replace" /\ name' = tmp[j] /\ UNCHANGED <<body, whole>>
        /\ tmp[j] \in Inodes /\ tmp[j] # None /\ name \in Inodes /\ name # None
        /\ model[j] \in Models
    BY <1>3 DEF Replace, TypeInv, TypeOK, OpTyped, TmpSteps, AppendSteps
  <2>2. /\ name = fd[j] /\ model[j] \notin Listed(fd[j]) /\ whole[tmp[j]]
        /\ body[tmp[j]] = Append(body[fd[j]], model[j])
    BY <2>1 DEF Safe, Op, OpLock, OpCopy, TmpSteps
  <2>3. Listed(tmp[j]) = Listed(name) \cup {model[j]}
    BY <2>1, <2>2, ListedAppend DEF TypeInv
  <2>4. Listed(name)' = Listed(tmp[j])
    BY <2>1 DEF Listed
  <2>5. ListedNow \subseteq ListedNow'
    BY <2>1, <2>3, <2>4 DEF ListedNow
  <2>6. Grows
    BY <2>1, <2>2 DEF Grows, Catalog
  <2> QED
    BY <2>5, <2>6
<1> QED
  BY <1>1, <1>2, <1>3, NameMoves

(* What a step of j leaves alone of another installation, and the files it   *)
(* may open.                                                                 *)
LEMMA ActFrame ==
  ASSUME TypeInv, NEW j \in Installs, Act(j)
  PROVE  /\ \A i \in Installs \ {j} :
              /\ pc'[i] = pc[i] /\ model'[i] = model[i] /\ fd'[i] = fd[i] /\ tmp'[i] = tmp[i]
              /\ at'[i] = at[i] /\ seen'[i] = seen[i] /\ indexed'[i] = indexed[i]
              /\ \A n \in Inodes : flock[n] = i => flock'[n] = i
         /\ fd'[j] \in {fd[j], name, None} \cup Free
         /\ tmp'[j] \in {tmp[j], None} \cup Free
         /\ edits' = edits
<1> DEFINE Frame ==
         /\ \A i \in Installs \ {j} :
              /\ pc'[i] = pc[i] /\ model'[i] = model[i] /\ fd'[i] = fd[i] /\ tmp'[i] = tmp[i]
              /\ at'[i] = at[i] /\ seen'[i] = seen[i] /\ indexed'[i] = indexed[i]
              /\ \A n \in Inodes : flock[n] = i => flock'[n] = i
         /\ fd'[j] \in {fd[j], name, None} \cup Free
         /\ tmp'[j] \in {tmp[j], None} \cup Free
         /\ edits' = edits
<1>0. TypeOK
  BY DEF TypeInv
<1>1. ASSUME End(j), edits' = edits, \A i \in Installs \ {j} : indexed'[i] = indexed[i]
      PROVE  Frame
  BY <1>0, <1>1 DEF End, Goto, TypeOK
<1>2. CASE BeginRefresh(j) \/ Open(j) \/ Read(j) \/ Commit(j) \/ Select(j)
  BY <1>0, <1>2 DEF BeginRefresh, Open, Read, Commit, Select, Goto, TypeOK, dbs, regs
<1>3. CASE EnsureFile(j)
  <2>1. CASE End(j)
    BY <1>1, <1>3, <2>1 DEF EnsureFile, dbs, regs
  <2> QED
    BY <1>0, <1>3, <2>1 DEF EnsureFile, Goto, TypeOK, dbs, regs
<1>4. CASE WriteBraces(j) \/ OpenToAppend(j) \/ \E m \in Models : BeginAppend(j, m)
  BY <1>0, <1>4 DEF WriteBraces, OpenToAppend, BeginAppend, Goto, TypeOK, dbs
<1>5. CASE Lock(j)
  BY <1>0, <1>5, NoneFresh DEF Lock, Goto, TypeOK, dbs
<1>6. CASE ScanForModel(j) \/ Bounds(j) \/ CheckInode(j) \/ Crash(j)
  <2>1. CASE End(j)
    BY <1>1, <1>6, <2>1 DEF ScanForModel, Bounds, CheckInode, Crash, dbs
  <2> QED
    BY <1>0, <1>6, <2>1 DEF ScanForModel, Bounds, CheckInode, Crash, Goto, TypeOK, dbs
<1>7. CASE Copy(j)
  <2>1. CASE End(j)
    BY <1>1, <1>7, <2>1 DEF Copy, dbs
  <2> QED
    BY <1>0, <1>7, <2>1 DEF Copy, Goto, TypeOK, dbs
<1>8. CASE Replace(j) \/ Reopen(j)
  BY <1>0, <1>8 DEF Replace, Reopen, Goto, TypeOK, dbs
<1>9. CASE MarkAppended(j)
  BY <1>0, <1>1, <1>9 DEF MarkAppended, TypeOK
<1> QED
  BY <1>2, <1>3, <1>4, <1>5, <1>6, <1>7, <1>8, <1>9 DEF Act, Refreshing, Appending

(* A step of j keeps what another installation i relies on.                  *)
LEMMA ActOthers ==
  ASSUME TypeInv, Safe, NEW j \in Installs, Act(j), NEW i \in Installs, i # j
  PROVE  Op(i)'
<1>1. /\ pc'[i] = pc[i] /\ model'[i] = model[i] /\ fd'[i] = fd[i] /\ tmp'[i] = tmp[i]
      /\ at'[i] = at[i] /\ seen'[i] = seen[i] /\ indexed'[i] = indexed[i]
      /\ \A n \in Inodes : flock[n] = i => flock'[n] = i
  BY ActFrame
<1>2. Op(i) /\ OpTyped(i) /\ TypeOK
  BY DEF Safe, TypeInv
<1>3. fd[i] # None => fd[i] \in InUse
  BY <1>2 DEF TypeOK, InUse, Unused
<1>4. tmp[i] # None => tmp[i] \in InUse
  BY <1>2 DEF TypeOK, InUse, Unused
<1>5. fd[i] # None => /\ body'[fd[i]] = body[fd[i]] /\ Listed(fd[i])' = Listed(fd[i])
  BY <1>1, <1>3, Frozen DEF Listed
<1>6. OpLock(i)'
  <2>1. pc[i] \in LockedSteps => fd[i] \in Inodes /\ flock[fd[i]] = i
    BY <1>2 DEF Op, OpLock, OpTyped, TypeOK, LockedSteps, FdSteps
  <2>2. ASSUME pc[i] = "a_replace" PROVE name' = fd[i]
    <3>1. name = fd[i] /\ name # None /\ name \in Inodes
      BY <1>2, <2>2 DEF Op, OpLock, OpTyped, TypeOK
    <3>2. ~Replace(j)
      <4>1. SUFFICES ASSUME Replace(j) PROVE FALSE
        OBVIOUS
      <4>2. name = fd[j] /\ flock[fd[j]] = j
        BY <4>1 DEF Replace, Safe, Op, OpLock, LockedSteps
      <4> QED
        BY <2>1, <2>2, <3>1, <4>2 DEF LockedSteps
    <3> QED
      BY <3>1, <3>2, NameMoves
  <2> QED
    BY <1>1, <2>1, <2>2 DEF OpLock
<1>7. OpCopy(i)'
  <2>1. pc[i] \in {"a_scan", "a_bounds", "a_copy", "a_check", "a_replace"} => fd[i] # None
    BY <1>2 DEF OpTyped, FdSteps
  <2>2. ASSUME pc[i] \in TmpSteps
        PROVE  /\ tmp[i] # name'
               /\ whole'[tmp[i]]
               /\ body'[tmp[i]] = Append(body'[fd[i]], model[i])
               /\ \A k \in Installs : fd'[k] # tmp[i] /\ (k # i => tmp'[k] # tmp[i])
    <3>1. /\ tmp[i] # name /\ whole[tmp[i]] /\ body[tmp[i]] = Append(body[fd[i]], model[i])
          /\ \A k \in Installs : fd[k] # tmp[i] /\ (k # i => tmp[k] # tmp[i])
          /\ tmp[i] # None /\ fd[i] # None
      BY <1>2, <2>2, <2>1 DEF Op, OpCopy, OpTyped, TmpSteps
    <3>2. tmp[i] \notin Free
      BY DEF Free, Unused
    <3>3. tmp[i] # name'
      BY <3>1, <3>2, NameMoves DEF Replace
    <3>4. body'[tmp[i]] = body[tmp[i]] /\ whole'[tmp[i]]
      BY <1>4, <3>1, Frozen
    <3>5. \A k \in Installs : fd'[k] # tmp[i] /\ (k # i => tmp'[k] # tmp[i])
      BY <3>1, <3>2, ActFrame
    <3> QED
      BY <1>5, <3>1, <3>3, <3>4, <3>5
  <2> QED
    BY <1>1, <1>2, <1>5, <2>1, <2>2 DEF Op, OpCopy, TmpSteps
<1>8. OpIndex(i)'
  BY <1>1, <1>2, <1>5, ActGrows DEF Op, OpIndex
<1> QED
  BY <1>6, <1>7, <1>8 DEF Op

(* What i itself relies on after a step that ends its operation.             *)
LEMMA EndOwn ==
  ASSUME TypeInv, Safe, NEW i \in Installs, Act(i), End(i),
         indexed'[i] \subseteq ListedNow'
  PROVE  Op(i)'
<1>1. pc'[i] = "idle" /\ fd'[i] = None /\ seen'[i] = {}
  BY DEF End, Goto, TypeInv, TypeOK
<1> QED
  BY <1>1 DEF Op, OpLock, OpCopy, OpIndex, LockedSteps, TmpSteps

(* A step of i keeps what i itself relies on.                                *)
LEMMA ActOwn ==
  ASSUME TypeInv, Safe, NEW i \in Installs, Act(i)
  PROVE  Op(i)'
<1>0. Op(i) /\ OpTyped(i) /\ TypeOK
  BY DEF Safe, TypeInv
<1>a. ListedNow \subseteq ListedNow'
  BY ActGrows
<1>b. indexed[i] \subseteq ListedNow' /\ seen[i] \subseteq ListedNow'
  BY <1>0, <1>a DEF Op, OpIndex
<1>c. TypeOK' /\ OpTyped(i)'
  BY ActTyped DEF TypeInv
<1>d. fd[i] # None => /\ fd[i] \in Inodes /\ body'[fd[i]] = body[fd[i]]
                      /\ Listed(fd[i]) \subseteq ListedNow'
                      /\ fd'[i] = fd[i] => Listed(fd[i])' = Listed(fd[i])
  <2>1. fd[i] # None => fd[i] \in InUse /\ fd[i] \in Inodes
    BY <1>0 DEF TypeOK, InUse, Unused
  <2>2. fd[i] # None => body'[fd[i]] = body[fd[i]]
    BY <2>1, Frozen
  <2>3. fd[i] # None /\ fd'[i] = fd[i] => Listed(fd[i])' = Listed(fd[i])
    BY <2>2 DEF Listed
  <2> QED
    BY <1>0, <1>a, <2>1, <2>2, <2>3 DEF Op, OpIndex
<1> USE DEF Goto
<1>1. CASE BeginRefresh(i) \/ Select(i) \/ \E m \in Models : BeginAppend(i, m)
  <2>1. /\ pc'[i] \in {"r_ensure", "idle", "a_open"}
        /\ UNCHANGED <<fd, seen, indexed>>
    BY <1>0, <1>1 DEF BeginRefresh, Select, BeginAppend, TypeOK, regs, dbs
  <2> QED
    BY <1>b, <1>d, <2>1 DEF Op, OpLock, OpCopy, OpIndex, LockedSteps, TmpSteps
<1>2. CASE EnsureFile(i)
  <2>1. CASE End(i)
    BY <1>2, <1>b, <2>1, EndOwn DEF EnsureFile, dbs, regs
  <2>2. CASE ~End(i)
    <3>1. UNCHANGED <<seen, indexed>> /\ pc'[i] \in {"r_open", "r_init"}
      BY <1>0, <1>2, <2>2 DEF EnsureFile, dbs, regs, TypeOK
    <3>2. fd'[i] = fd[i] \/ (fd'[i] = name' /\ name' # None)
      BY <1>0, <1>2, <2>2, NoneFresh, ZenonT(60) DEF EnsureFile, regs, TypeOK, Free, Unused
    <3>3. fd'[i] # None => Listed(fd[i])' \subseteq ListedNow'
      BY <1>d, <3>2 DEF ListedNow
    <3> QED
      BY <1>b, <3>1, <3>3 DEF Op, OpLock, OpCopy, OpIndex, LockedSteps, TmpSteps
  <2> QED
    BY <2>1, <2>2
<1>3. CASE WriteBraces(i) \/ Commit(i)
  <2>1. pc'[i] \in {"r_open", "select"} /\ fd'[i] = None
    BY <1>0, <1>3, ZenonT(60) DEF WriteBraces, Commit, TypeOK
  <2>2. indexed'[i] \subseteq indexed[i] \cup seen[i] /\ seen'[i] \subseteq seen[i]
    <3>1. CASE WriteBraces(i)
      BY <3>1 DEF WriteBraces, dbs
    <3>2. CASE Commit(i)
      <4>1. indexed'[i] = (IF rebuild[i] THEN {} ELSE indexed[i]) \cup seen[i] /\ seen'[i] = {}
        BY <1>0, <3>2 DEF Commit, TypeOK
      <4> QED
        BY <4>1
    <3> QED
      BY <1>3, <3>1, <3>2
  <2> QED
    BY <1>b, <2>1, <2>2 DEF Op, OpLock, OpCopy, OpIndex, LockedSteps, TmpSteps
<1>4. CASE Open(i) \/ OpenToAppend(i)
  <2>1. /\ pc'[i] \in {"select", "r_read", "a_lock"} /\ UNCHANGED <<name, body, seen, indexed>>
        /\ fd'[i] \in {fd[i], name} /\ name # None
    BY <1>0, <1>4 DEF Open, OpenToAppend, TypeOK, OpTyped, disk, dbs, AppendSteps
  <2>2. fd'[i] # None => Listed(fd[i])' \subseteq ListedNow'
    BY <1>d, <2>1 DEF ListedNow, Listed
  <2> QED
    BY <1>b, <2>1, <2>2 DEF Op, OpLock, OpCopy, OpIndex, LockedSteps, TmpSteps
<1>5. CASE Read(i)
  <2>1. fd[i] # None /\ UNCHANGED <<fd, indexed>> /\ pc'[i] \in {"r_read", "r_commit"}
    BY <1>0, <1>5 DEF Read, OpTyped, FdSteps, TypeOK, dbs
  <2>2. seen'[i] \subseteq seen[i] \cup Listed(fd[i])
    <3>1. at[i] \in Nat /\ Len(body[fd[i]]) \in Nat
      BY <1>0, <1>d, <2>1 DEF TypeOK
    <3>2. at[i] < Len(body[fd[i]]) => at[i] + 1 \in 1..Len(body[fd[i]])
      BY <3>1
    <3> QED
      <4>1. CASE UNCHANGED seen
        BY <4>1
      <4>2. CASE at[i] < Len(body[fd[i]])
        <5>1. seen'[i] = seen[i] \cup {body[fd[i]][at[i] + 1]}
          BY <1>0, <1>5, <4>2 DEF Read, TypeOK
        <5>2. body[fd[i]][at[i] + 1] \in Listed(fd[i])
          BY <3>2, <4>2 DEF Listed
        <5> QED
          BY <5>1, <5>2
      <4> QED
        BY <1>5, <4>1, <4>2 DEF Read
  <2> QED
    BY <1>b, <1>d, <2>1, <2>2 DEF Op, OpLock, OpCopy, OpIndex, LockedSteps, TmpSteps
<1>6. CASE Lock(i)
  <2>1. /\ pc'[i] = "a_scan" /\ UNCHANGED <<fd, body, seen, indexed>> /\ fd[i] # None
        /\ fd[i] \in Inodes /\ flock'[fd[i]] = i /\ at'[i] = Len(body[fd[i]])
    BY <1>0, <1>6 DEF Lock, TypeOK, OpTyped, FdSteps, disk, dbs
  <2> QED
    BY <1>b, <1>d, <2>1 DEF Op, OpLock, OpCopy, OpIndex, LockedSteps, TmpSteps
<1>7. CASE ScanForModel(i) \/ Bounds(i) \/ CheckInode(i) \/ Crash(i)
  <2>1. CASE End(i)
    BY <1>7, <1>b, <2>1, EndOwn DEF ScanForModel, Bounds, CheckInode, Crash, dbs
  <2>2. CASE ~End(i)
    <3>1. /\ UNCHANGED <<disk, dbs, flock, fd, tmp, model, at, seen>>
          /\ \/ pc[i] = "a_scan" /\ pc'[i] = "a_bounds" /\ model[i] \notin Listed(fd[i])
             \/ pc[i] = "a_bounds" /\ pc'[i] = "a_copy"
             \/ pc[i] = "a_check" /\ pc'[i] = "a_replace" /\ name = fd[i]
      BY <1>0, <1>7, <2>2 DEF ScanForModel, Bounds, CheckInode, Crash, TypeOK
    <3>2. UNCHANGED <<name, body, whole, indexed>>
      BY <3>1 DEF disk, dbs
    <3>3. fd[i] # None
      BY <1>0, <3>1 DEF OpTyped, FdSteps
    <3>4. OpLock(i)'
      BY <1>0, <3>1, <3>2 DEF Op, OpLock, LockedSteps
    <3>5. OpCopy(i)'
      BY <1>0, <1>d, <3>1, <3>2, <3>3 DEF Op, OpCopy, TmpSteps
    <3>6. OpIndex(i)'
      BY <1>b, <1>d, <3>1, <3>2 DEF OpIndex
    <3> QED
      BY <3>4, <3>5, <3>6 DEF Op
  <2> QED
    BY <2>1, <2>2
<1>8. CASE Copy(i)
  <2>1. CASE End(i)
    BY <1>8, <1>b, <2>1, EndOwn DEF Copy, dbs
  <2>2. CASE ~End(i)
    <3>1. /\ pc[i] = "a_copy" /\ pc'[i] = "a_check"
          /\ UNCHANGED <<name, flock, fd, model, at, seen, indexed>>
      BY <1>0, <1>8, <2>2 DEF Copy, TypeOK, dbs
    <3>2. PICK n \in Free : /\ WriteTo(n, Append(SubSeq(body[fd[i]], 1, at[i]), model[i]),
                                       Len(body[fd[i]]) = at[i])
                            /\ tmp' = [tmp EXCEPT ![i] = n]
      BY <1>8, <2>2 DEF Copy
    <3>3. n \in Inodes /\ n # name /\ \A k \in Installs : fd[k] # n /\ tmp[k] # n
      BY DEF Free, Unused
    <3>4. /\ fd[i] # None /\ fd[i] \in Inodes /\ at[i] = Len(body[fd[i]])
          /\ model[i] \notin Listed(fd[i]) /\ flock[fd[i]] = i
      BY <1>0, <3>1, <1>d DEF OpTyped, FdSteps, Op, OpCopy, OpLock, LockedSteps
    <3>5. body[fd[i]] \in Seq(Models)
      BY <1>0, <3>4 DEF TypeOK
    <3>6. SubSeq(body[fd[i]], 1, at[i]) = body[fd[i]]
      BY <3>4, <3>5
    <3>7. body'[n] = Append(body[fd[i]], model[i]) /\ whole'[n]
      BY <3>2, <3>3, <3>4, <3>6 DEF WriteTo
    <3>8. tmp'[i] = n /\ \A k \in Installs : k # i => tmp'[k] # n
      BY <1>0, <3>2, <3>3 DEF TypeOK
    <3>9. OpLock(i)'
      BY <3>1, <3>4 DEF OpLock
    <3>10. OpCopy(i)'
      BY <1>d, <3>1, <3>3, <3>4, <3>7, <3>8 DEF OpCopy, TmpSteps
    <3>11. OpIndex(i)'
      BY <1>b, <1>d, <3>1 DEF OpIndex
    <3> QED
      BY <3>9, <3>10, <3>11 DEF Op
  <2> QED
    BY <2>1, <2>2
<1>9. CASE Replace(i)
  <2>1. /\ pc[i] = "a_replace" /\ pc'[i] = "a_reopen" /\ name' = tmp[i]
        /\ UNCHANGED <<body, whole, flock, fd, model, seen, indexed>>
        /\ fd[i] # None /\ fd[i] \in Inodes /\ tmp[i] # None /\ tmp[i] \in Inodes
        /\ model[i] \in Models /\ flock[fd[i]] = i
        /\ body[tmp[i]] = Append(body[fd[i]], model[i])
    BY <1>0, <1>9 DEF Replace, TypeOK, OpTyped, FdSteps, TmpSteps, AppendSteps, dbs, Op, OpCopy,
         OpLock, LockedSteps
  <2>2. model[i] \in ListedNow'
    <3>1. Listed(tmp[i]) = Listed(fd[i]) \cup {model[i]}
      BY <1>0, <2>1, ListedAppend
    <3>2. ListedNow' = Listed(tmp[i])
      BY <2>1 DEF ListedNow, Listed
    <3> QED
      BY <3>1, <3>2
  <2> QED
    BY <1>b, <1>d, <2>1, <2>2 DEF Op, OpLock, OpCopy, OpIndex, LockedSteps, TmpSteps
<1>10. CASE Reopen(i)
  <2>1. /\ pc[i] = "a_reopen" /\ pc'[i] = "a_mark"
        /\ UNCHANGED <<flock, fd, model, seen, indexed>>
        /\ fd[i] # None
    BY <1>0, <1>10 DEF Reopen, TypeOK, OpTyped, FdSteps, dbs
  <2>2. flock[fd[i]] = i /\ model[i] \in ListedNow'
    BY <1>0, <1>a, <2>1 DEF Op, OpLock, OpIndex, LockedSteps
  <2> QED
    BY <1>b, <1>d, <2>1, <2>2 DEF Op, OpLock, OpCopy, OpIndex, TmpSteps
<1>11. CASE MarkAppended(i)
  <2>1. End(i) /\ indexed'[i] = indexed[i] \cup {model[i]} /\ pc[i] = "a_mark"
    BY <1>0, <1>11 DEF MarkAppended, TypeOK
  <2>2. model[i] \in ListedNow'
    BY <1>0, <1>a, <2>1 DEF Op, OpIndex
  <2> QED
    BY <1>b, <2>1, <2>2, EndOwn
<1> QED
  BY <1>1, <1>2, <1>3, <1>4, <1>5, <1>6, <1>7, <1>8, <1>9, <1>10, <1>11
     DEF Act, Refreshing, Appending

-----------------------------------------------------------------------------
(* Init establishes the safety invariant.                                    *)
LEMMA InitSafe == Init => SafeInv
<1> SUFFICES ASSUME Init PROVE TypeInv /\ Safe
  BY DEF SafeInv
<1>1. TypeInv
  BY InitTyped
<1>2. ASSUME NEW i \in Installs PROVE Op(i)
  BY DEF Init, Op, OpLock, OpCopy, OpIndex, LockedSteps, TmpSteps
<1> QED
  BY <1>1, <1>2 DEF Safe

(* The safety invariant is inductive: edits suspend it, steps of             *)
(* installations and stuttering keep it.                                     *)
LEMMA NextSafe == SafeInv /\ [Next]_ivars => SafeInv'
<1> SUFFICES ASSUME SafeInv, [Next]_ivars PROVE SafeInv'
  OBVIOUS
<1>1. TypeInv /\ TypeInv'
  BY NextTyped DEF SafeInv
<1>2. ASSUME NEW j \in Installs, Act(j) PROVE SafeInv'
  <2>1. edits' = edits
    BY <1>1, <1>2, ActFrame
  <2>2. ASSUME edits = 0, NEW i \in Installs PROVE Op(i)'
    <3>1. Safe
      BY <2>2 DEF SafeInv
    <3>2. CASE i = j
      BY <1>1, <1>2, <3>1, <3>2, ActOwn
    <3>3. CASE i # j
      BY <1>1, <1>2, <3>1, <3>3, ActOthers
    <3> QED
      BY <3>2, <3>3
  <2> QED
    BY <1>1, <2>1, <2>2 DEF SafeInv, Safe
<1>3. CASE Edit
  <2>1. edits' = edits + 1 /\ edits \in Nat
    BY <1>1, <1>3 DEF Edit, EditInPlace, EditByRename, TypeInv, TypeOK
  <2> QED
    BY <1>1, <2>1 DEF SafeInv
<1>4. CASE UNCHANGED ivars
  <2>1. ASSUME Safe, NEW i \in Installs PROVE Op(i)'
    <3>1. Op(i)
      BY <2>1 DEF Safe
    <3>2. /\ UNCHANGED <<name, body, whole, flock, indexed, pc, model, fd>>
          /\ UNCHANGED <<tmp, at, seen>>
      BY <1>4 DEF ivars, disk, dbs, regs
    <3>3. OpLock(i)' /\ OpCopy(i)'
      BY <3>1, <3>2 DEF Op, OpLock, OpCopy, Listed
    <3>4. ListedNow' = ListedNow
      BY <3>2 DEF ListedNow, Listed
    <3>5. Listed(fd[i])' = Listed(fd[i])
      BY <3>2 DEF Listed
    <3>6. OpIndex(i)'
      BY <3>1, <3>2, <3>4, <3>5 DEF Op, OpIndex
    <3> QED
      BY <3>3, <3>6 DEF Op
  <2> QED
    BY <1>1, <1>4, <2>1 DEF SafeInv, Safe, ivars
<1> QED
  BY <1>2, <1>3, <1>4 DEF Next, Act, Edit

(* It holds in every reachable state.                                        *)
LEMMA AlwaysSafe == Spec => []SafeInv
  BY InitSafe, NextSafe, PTL DEF Spec

(* No index ever holds a model that the catalog does not list, however many  *)
(* installations append to it and wherever they are killed.                  *)
THEOREM IndexesAreTruthful == Spec => []NothingSkippedWrongly
<1>1. SafeInv => NothingSkippedWrongly
  BY DEF SafeInv, Safe, Op, OpIndex, ListedNow, NothingSkippedWrongly
<1> QED
  BY <1>1, AlwaysSafe, PTL

(* Concurrent appends, kills included, never lose, double, reorder or tear   *)
(* an entry of the catalog.                                                  *)
THEOREM NothingIsLost == Spec => CatalogOnlyGrows
<1>1. SafeInv /\ SafeInv' /\ [Next]_ivars =>
        [edits' = 0 =>
          /\ \/ Catalog' = Catalog
             \/ \E m \in Models : m \notin Listed(name) /\ Catalog' = Append(Catalog, m)
          /\ name # None /\ whole[name] => name' # None /\ whole'[name']]_ivars
  <2> SUFFICES ASSUME SafeInv, Next, edits' = 0 PROVE Grows
    BY DEF Grows
  <2>0. edits \in Nat
    BY DEF SafeInv, TypeInv, TypeOK
  <2>1. ~Edit
    <3> SUFFICES ASSUME Edit PROVE FALSE
      OBVIOUS
    <3>1. edits' = edits + 1
      BY DEF Edit, EditInPlace, EditByRename
    <3> QED
      BY <2>0, <3>1
  <2>2. PICK j \in Installs : Act(j)
    BY <2>1 DEF Next, Act, Edit
  <2>3. edits = 0
    BY <2>2, ActFrame DEF SafeInv
  <2> QED
    BY <2>2, <2>3, ActGrows DEF SafeInv
<1> QED
  BY <1>1, AlwaysSafe, PTL DEF Spec, CatalogOnlyGrows

-----------------------------------------------------------------------------
(* A catalog nobody appends to by jayspray, that editors only lengthen or    *)
(* replace, on a file system that gives no inode number twice: the only one  *)
(* whose fingerprint tells all. (The runs stale_append and empty_catalog are *)
(* about others.)                                                            *)

Steady == ~Reuse /\ Appenders = {} /\ Edits \subseteq {"grow", "replace"}

(* The inductive invariant of IndexIsExact. A file in use is known by its    *)
(* inode number, now and later; what an installation knows of it, or has     *)
(* read, is what the entries up to an offset say, and they stay.             *)

Firsts(n, k) == {body[n][j] : j \in 1 .. k}

RefreshOnly(i) ==
    /\ pc[i] \in {"idle", "select", "r_ensure", "r_open", "r_read", "r_commit"}
    /\ model[i] = None /\ tmp[i] = None
    /\ pc[i] \notin {"r_read", "r_commit"} => seen[i] = {}

Numbered == InUse \subseteq born

KnownRight(i) ==
    known[i] # None =>
        /\ known[i].ino \in born
        /\ known[i].ino \in InUse =>
              /\ known[i].offset <= Len(body[known[i].ino])
              /\ indexed[i] = Firsts(known[i].ino, known[i].offset)

ReadRight(i) ==
    pc[i] \in {"r_read", "r_commit"} =>
        /\ opened[i] # None /\ opened[i].ino = fd[i]
        /\ opened[i].offset <= Len(body[fd[i]])
        /\ at[i] <= Len(body[fd[i]])
        /\ seen[i] \subseteq Firsts(fd[i], at[i])
        /\ rebuild[i] => Firsts(fd[i], at[i]) \subseteq seen[i]
        /\ ~rebuild[i] => /\ known[i] # None /\ known[i].ino = fd[i]
                          /\ Firsts(fd[i], at[i])
                                 \subseteq seen[i] \cup Firsts(fd[i], known[i].offset)
        /\ pc[i] = "r_commit" => /\ opened[i].offset <= at[i]
                                 /\ ~rebuild[i] => known[i].offset <= at[i]

SelectRight(i) ==
    pc[i] = "select" =>
        /\ opened[i] # None /\ known[i] # None
        /\ known[i].ino = opened[i].ino /\ opened[i].offset <= known[i].offset

ExactInv ==
    /\ TypeInv /\ Numbered
    /\ \A i \in Installs : RefreshOnly(i) /\ KnownRight(i) /\ ReadRight(i) /\ SelectRight(i)

LEMMA ExactStarts ==
  ASSUME Steady, Init
  PROVE  ExactInv
<1>1. TypeInv
  BY InitTyped
<1>2. InUse = {name} \cap Inodes /\ born = {name} \cap Inodes
  BY NoneFresh DEF Init, Steady, InUse, Unused
<1>3. Numbered
  BY <1>2 DEF Numbered
<1>4. ASSUME NEW i \in Installs
      PROVE  RefreshOnly(i) /\ KnownRight(i) /\ ReadRight(i) /\ SelectRight(i)
  BY DEF Init, RefreshOnly, KnownRight, ReadRight, SelectRight
<1> QED
  BY <1>1, <1>3, <1>4 DEF ExactInv

(* An installation only reads, one step after the other, and opens nothing   *)
(* but the file that is named.                                               *)
Same(j) ==
    /\ known'[j] = known[j] /\ indexed'[j] = indexed[j] /\ pc'[j] = pc[j]
    /\ model'[j] = model[j] /\ fd'[j] = fd[j] /\ tmp'[j] = tmp[j] /\ at'[j] = at[j]
    /\ seen'[j] = seen[j] /\ rebuild'[j] = rebuild[j] /\ opened'[j] = opened[j]

LEMMA OnlyReads ==
  ASSUME Steady, ExactInv, NEW i \in Installs, Act(i)
  PROVE  /\ UNCHANGED disk
         /\ InUse' \subseteq InUse
         /\ \A j \in Installs \ {i} : Same(j)
         /\ \/ BeginRefresh(i) \/ Open(i) \/ Read(i) \/ Commit(i) \/ Select(i)
            \/ End(i) /\ UNCHANGED dbs
            \/ /\ pc[i] = "r_ensure" /\ Goto(i, "r_open")
               /\ UNCHANGED <<dbs, regs>>
<1>1. RefreshOnly(i) /\ TypeOK /\ OpTyped(i) /\ i \notin Appenders
  BY DEF ExactInv, TypeInv, Steady
<1>2. /\ ~WriteBraces(i) /\ ~Appending(i) /\ \A m \in Models : ~BeginAppend(i, m)
  <2>1. pc[i] # "r_init" /\ pc[i] \notin AppendSteps
    BY <1>1 DEF RefreshOnly, AppendSteps
  <2> QED
    BY <1>1, <2>1 DEF WriteBraces, Appending, BeginAppend, OpenToAppend, Lock, ScanForModel,
         Bounds, Copy, CheckInode, Replace, Reopen, MarkAppended, AppendSteps
<1>3. \/ BeginRefresh(i) \/ EnsureFile(i) \/ Open(i) \/ Read(i) \/ Commit(i) \/ Select(i)
      \/ Crash(i)
  BY <1>2 DEF Act, Refreshing
<1>4. /\ UNCHANGED disk
      /\ \/ BeginRefresh(i) \/ Open(i) \/ Read(i) \/ Commit(i) \/ Select(i)
         \/ End(i) /\ UNCHANGED dbs
         \/ /\ pc[i] = "r_ensure" /\ Goto(i, "r_open")
            /\ UNCHANGED <<dbs, regs>>
  <2>1. CASE EnsureFile(i)
    BY <1>1, <2>1 DEF EnsureFile
  <2>2. CASE ~EnsureFile(i)
    BY <1>3, <2>2 DEF BeginRefresh, Open, Read, Commit, Select, Crash
  <2> QED
    BY <2>1, <2>2
<1>5. UNCHANGED tmp
  BY <1>1, <1>4 DEF BeginRefresh, Open, Read, Commit, Select, End, regs, RefreshOnly, TypeOK
<1>6. \A j \in Installs : fd'[j] \in {fd[j], None, name}
  BY <1>1, <1>4 DEF BeginRefresh, Open, Read, Commit, Select, End, regs, TypeOK
<1>7. InUse' \subseteq InUse
  <2>1. name' = name
    BY <1>4 DEF disk
  <2> QED
    BY <1>5, <1>6, <2>1, NoneFresh DEF InUse, Unused
<1>8. ASSUME NEW j \in Installs \ {i} PROVE Same(j)
  <2>1. CASE BeginRefresh(i) \/ Open(i) \/ Select(i)
    BY <1>1, <2>1 DEF Same, BeginRefresh, Open, Select, Goto, dbs, regs, TypeOK
  <2>2. CASE Read(i) \/ Commit(i)
    BY <1>1, <2>2 DEF Same, Read, Commit, Goto, dbs, TypeOK
  <2>3. CASE EnsureFile(i)
    BY <1>1, <2>3 DEF Same, EnsureFile, End, Goto, dbs, regs, TypeOK
  <2>4. CASE Crash(i)
    BY <1>1, <2>4 DEF Same, Crash, End, Goto, dbs, TypeOK
  <2> QED
    BY <1>3, <2>1, <2>2, <2>3, <2>4
<1> QED
  BY <1>4, <1>7, <1>8

(* What others do leaves an installation what it has.                        *)
LEMMA OthersStay ==
  ASSUME Steady, ExactInv, NEW i \in Installs, Act(i), NEW j \in Installs \ {i}
  PROVE  (RefreshOnly(j) /\ KnownRight(j) /\ ReadRight(j) /\ SelectRight(j))'
<1>1. UNCHANGED disk /\ InUse' \subseteq InUse
  BY OnlyReads
<1>2. body' = body /\ born' = born
  BY <1>1 DEF disk
<1>3. /\ known'[j] = known[j] /\ indexed'[j] = indexed[j] /\ pc'[j] = pc[j]
      /\ model'[j] = model[j] /\ fd'[j] = fd[j] /\ tmp'[j] = tmp[j] /\ at'[j] = at[j]
      /\ seen'[j] = seen[j] /\ rebuild'[j] = rebuild[j] /\ opened'[j] = opened[j]
  BY OnlyReads DEF Same
<1>4. RefreshOnly(j) /\ KnownRight(j) /\ ReadRight(j) /\ SelectRight(j)
  BY DEF ExactInv
<1>5. RefreshOnly(j)' /\ SelectRight(j)'
  BY <1>3, <1>4 DEF RefreshOnly, SelectRight
<1>6. KnownRight(j)'
  BY <1>1, <1>2, <1>3, <1>4 DEF KnownRight, Firsts
<1>7. ReadRight(j)'
  BY <1>2, <1>3, <1>4 DEF ReadRight, Firsts
<1> QED
  BY <1>5, <1>6, <1>7

(* The descriptor is opened: an index that is complete already, or the place *)
(* to read from, with all before it in the index.                            *)
LEMMA OpenExact ==
  ASSUME TypeOK, NEW i \in Installs, OpTyped(i), RefreshOnly(i), KnownRight(i), Open(i),
         body' = body, born' = born, KnownRight(i)'
  PROVE  (RefreshOnly(i) /\ KnownRight(i) /\ ReadRight(i) /\ SelectRight(i))'
<1>1. /\ name # None /\ name \in Inodes /\ name \in InUse
  BY DEF Open, OpTyped, TypeOK, InUse, Unused
<1>2. /\ model' = model /\ tmp' = tmp /\ seen' = seen /\ known' = known
      /\ pc'[i] \in {"select", "r_read"} /\ pc[i] = "r_open"
      /\ opened'[i] = Stat(name)
  BY DEF Open, Goto, TypeOK, dbs
<1>3. RefreshOnly(i)'
  BY <1>2 DEF RefreshOnly
<1>4. /\ Stat(name).ino = name /\ Stat(name).offset = Len(body[name]) /\ Len(body[name]) \in Nat
      /\ body[name] \in Seq(Models)
  BY <1>1 DEF Stat, TypeOK
<1>5. Stat(name) # None
  BY <1>1, NoneFresh DEF Stat, Fingerprint, TypeOK
<1>6. ASSUME ~MustRebuild(i, name)
      PROVE  /\ known[i] # None /\ known[i].ino = name /\ known[i].offset \in Nat
             /\ known[i].offset <= Len(body[name])
  <2>1. known[i] # None /\ known[i].ino = name
    BY <1>6 DEF MustRebuild
  <2>2. known[i] \in Fingerprint
    BY <2>1 DEF TypeOK
  <2> QED
    BY <1>1, <2>1, <2>2 DEF KnownRight, Fingerprint
<1>7. CASE ~MustRebuild(i, name) /\ known[i].offset = Len(body[name])
  <2>1. pc'[i] = "select"
    BY <1>7 DEF Open, Goto, TypeOK
  <2>2. SelectRight(i)'
    BY <1>2, <1>4, <1>5, <1>6, <1>7, <2>1 DEF SelectRight
  <2>3. ReadRight(i)'
    BY <2>1 DEF ReadRight
  <2> QED
    BY <1>3, <2>2, <2>3
<1>8. CASE ~(~MustRebuild(i, name) /\ known[i].offset = Len(body[name]))
  <2>1. /\ pc'[i] = "r_read" /\ fd'[i] = name /\ at'[i] = Start(i, name)
        /\ rebuild'[i] = MustRebuild(i, name) /\ seen'[i] = {}
    BY <1>2, <1>8 DEF Open, Goto, TypeOK, RefreshOnly
  <2>2. SelectRight(i)'
    BY <2>1 DEF SelectRight
  <2>3. CASE MustRebuild(i, name)
    <3>1. at'[i] = 0
      BY <2>1, <2>3 DEF Start
    <3>2. Firsts(name, 0) = {}
      BY DEF Firsts
    <3>3. {body'[name][j] : j \in 1 .. 0} = {}
      OBVIOUS
    <3> QED
      BY <1>2, <1>3, <1>4, <1>5, <2>1, <2>2, <2>3, <3>1, <3>3 DEF ReadRight, Firsts
  <2>4. CASE ~MustRebuild(i, name)
    <3>1. /\ known[i] # None /\ known[i].ino = name /\ known[i].offset \in Nat
          /\ known[i].offset <= Len(body[name])
      BY <1>6, <2>4
    <3> DEFINE s == Start(i, name)
    <3>2. s \in Nat /\ s <= known[i].offset
      BY <2>4, <3>1, BoundsType DEF Start
    <3> HIDE DEF s
    <3>3. s <= Len(body[name])
      BY <1>4, <3>1, <3>2
    <3>4. 1 .. s \subseteq 1 .. known[i].offset
      BY <3>1, <3>2
    <3>5. Firsts(name, s) \subseteq Firsts(name, known[i].offset)
      BY <3>4 DEF Firsts
    <3>6. at'[i] = s /\ rebuild'[i] = FALSE
      BY <2>1, <2>4 DEF s
    <3>7. /\ Firsts(fd[i], at[i])' = Firsts(name, s)
          /\ Firsts(fd[i], known[i].offset)' = Firsts(name, known[i].offset)
      BY <1>2, <2>1, <3>6 DEF Firsts
    <3>8. ReadRight(i)'
      BY <1>2, <1>4, <1>5, <2>1, <3>1, <3>3, <3>5, <3>6, <3>7 DEF ReadRight
    <3> QED
      BY <1>3, <2>2, <3>8
  <2> QED
    BY <2>3, <2>4
<1> QED
  BY <1>7, <1>8

(* The next entry joins what is seen; at the end of the file everything is.  *)
LEMMA ReadExact ==
  ASSUME TypeOK, NEW i \in Installs, OpTyped(i), RefreshOnly(i), KnownRight(i), ReadRight(i),
         Read(i), body' = body, born' = born, KnownRight(i)'
  PROVE  (RefreshOnly(i) /\ KnownRight(i) /\ ReadRight(i) /\ SelectRight(i))'
<1> DEFINE n == fd[i]
<1>1. /\ pc[i] = "r_read" /\ model' = model /\ tmp' = tmp /\ known' = known /\ fd' = fd
      /\ opened' = opened /\ rebuild' = rebuild /\ pc'[i] \in {"r_read", "r_commit"}
  BY DEF Read, Goto, TypeOK, dbs
<1>2. /\ n \in Inodes /\ n \in InUse
  BY <1>1 DEF OpTyped, FdSteps, TypeOK, InUse, Unused
<1>3. body[n] \in Seq(Models) /\ Len(body[n]) \in Nat /\ at[i] \in Nat
  BY <1>2 DEF TypeOK
<1>4. /\ opened[i] # None /\ opened[i].ino = n /\ opened[i].offset <= Len(body[n])
      /\ at[i] <= Len(body[n]) /\ seen[i] \subseteq Firsts(n, at[i])
      /\ rebuild[i] => Firsts(n, at[i]) \subseteq seen[i]
      /\ ~rebuild[i] => /\ known[i] # None /\ known[i].ino = n
                        /\ Firsts(n, at[i]) \subseteq seen[i] \cup Firsts(n, known[i].offset)
  BY <1>1 DEF ReadRight
<1>5. RefreshOnly(i)' /\ SelectRight(i)'
  BY <1>1 DEF RefreshOnly, SelectRight
<1>6. CASE at[i] < Len(body[n])
  <2>1. /\ pc'[i] = "r_read" /\ at'[i] = at[i] + 1
        /\ seen'[i] = seen[i] \cup {body[n][at[i] + 1]}
    BY <1>1, <1>6 DEF Read, TypeOK
  <2>2. 1 .. (at[i] + 1) = (1 .. at[i]) \cup {at[i] + 1}
    BY <1>3
  <2>3. Firsts(n, at[i] + 1) = Firsts(n, at[i]) \cup {body[n][at[i] + 1]}
    BY <2>2 DEF Firsts
  <2>4. at[i] + 1 <= Len(body[n])
    BY <1>3, <1>6
  <2>5. /\ Firsts(n, at[i] + 1) = {body[n][j] : j \in 1 .. (at[i] + 1)}
        /\ Firsts(n, known[i].offset) = {body[n][j] : j \in 1 .. known[i].offset}
    BY DEF Firsts
  <2> DEFINE firsts == Firsts(n, at[i] + 1)
             before == Firsts(n, known[i].offset)
  <2>6. /\ seen'[i] \subseteq firsts
        /\ rebuild[i] => firsts \subseteq seen'[i]
        /\ ~rebuild[i] => firsts \subseteq seen'[i] \cup before
    BY <1>4, <2>1, <2>3
  <2>7. Firsts(fd[i], at[i])' = firsts /\ Firsts(fd[i], known[i].offset)' = before
    BY <1>1, <2>1 DEF Firsts
  <2> HIDE DEF firsts, before
  <2>8. ReadRight(i)'
    BY <1>1, <1>4, <2>1, <2>4, <2>6, <2>7 DEF ReadRight
  <2> QED
    BY <1>5, <2>8
<1>7. CASE ~(at[i] < Len(body[n]))
  <2>1. pc'[i] = "r_commit" /\ at' = at /\ seen' = seen
    BY <1>1, <1>7 DEF Read, Goto, TypeOK
  <2>2. at[i] = Len(body[n])
    BY <1>3, <1>4, <1>7
  <2>3. ~rebuild[i] => known[i].offset <= at[i]
    BY <1>2, <1>4, <2>2 DEF KnownRight
  <2>4. Firsts(fd[i], at[i])' = Firsts(n, at[i])
        /\ Firsts(fd[i], known[i].offset)' = Firsts(n, known[i].offset)
    BY <1>1, <2>1 DEF Firsts
  <2>5. ReadRight(i)'
    BY <1>1, <1>4, <2>1, <2>2, <2>3, <2>4 DEF ReadRight
  <2> QED
    BY <1>5, <2>5
<1> QED
  BY <1>6, <1>7

(* What is committed is what the entries up to the stored offset say.        *)
LEMMA CommitExact ==
  ASSUME TypeOK, NEW i \in Installs, OpTyped(i), RefreshOnly(i), KnownRight(i), ReadRight(i),
         Numbered, Commit(i), body' = body, born' = born
  PROVE  (RefreshOnly(i) /\ KnownRight(i) /\ ReadRight(i) /\ SelectRight(i))'
<1> DEFINE n == fd[i]
           k == at[i]
<1>1. /\ pc[i] = "r_commit" /\ pc'[i] = "select" /\ model' = model /\ tmp' = tmp
      /\ seen'[i] = {} /\ opened' = opened
      /\ known'[i] = [ino |-> opened[i].ino, stamp |-> stamp[n], offset |-> k]
      /\ indexed'[i] = (IF rebuild[i] THEN {} ELSE indexed[i]) \cup seen[i]
  BY DEF Commit, Goto, TypeOK
<1>2. n \in Inodes /\ n \in InUse /\ n \in born
  BY <1>1 DEF OpTyped, FdSteps, TypeOK, InUse, Unused, Numbered
<1>3. /\ opened[i] # None /\ opened[i].ino = n /\ k \in Nat /\ k <= Len(body[n])
      /\ opened[i].offset <= k /\ seen[i] \subseteq Firsts(n, k)
  BY <1>1 DEF ReadRight, TypeOK
<1>4. indexed'[i] = Firsts(n, k)
  <2>1. CASE rebuild[i]
    BY <1>1, <1>3, <2>1 DEF ReadRight
  <2>2. CASE ~rebuild[i]
    <3>1. /\ known[i] # None /\ known[i].ino = n /\ known[i].offset <= k
          /\ Firsts(n, k) \subseteq seen[i] \cup Firsts(n, known[i].offset)
      BY <1>1, <2>2 DEF ReadRight
    <3>2. indexed[i] = Firsts(n, known[i].offset)
      BY <1>2, <3>1 DEF KnownRight
    <3>3. known[i].offset \in Nat
      BY <3>1 DEF TypeOK, Fingerprint
    <3>4. 1 .. known[i].offset \subseteq 1 .. k
      BY <1>3, <3>1, <3>3
    <3>5. Firsts(n, known[i].offset) \subseteq Firsts(n, k)
      BY <3>4 DEF Firsts
    <3> QED
      BY <1>1, <1>3, <2>2, <3>1, <3>2, <3>5
  <2> QED
    BY <2>1, <2>2
<1>5. known'[i].ino = n /\ known'[i].offset = k /\ known'[i] # None
  <2>1. known'[i] \in Fingerprint
    BY <1>1, <1>2, <1>3 DEF Fingerprint, TypeOK
  <2> QED
    BY <1>1, <1>3, <2>1, NoneFresh
<1>6. Firsts(known[i].ino, known[i].offset)' = Firsts(n, k)
  BY <1>5 DEF Firsts
<1>7. KnownRight(i)'
  BY <1>2, <1>3, <1>4, <1>5, <1>6 DEF KnownRight
<1>8. RefreshOnly(i)' /\ ReadRight(i)'
  BY <1>1 DEF RefreshOnly, ReadRight
<1>9. SelectRight(i)'
  BY <1>1, <1>3, <1>5 DEF SelectRight
<1> QED
  BY <1>7, <1>8, <1>9

(* What an installation does keeps what it has right.                        *)
LEMMA ReadingStays ==
  ASSUME Steady, ExactInv, NEW i \in Installs, Act(i)
  PROVE  (RefreshOnly(i) /\ KnownRight(i) /\ ReadRight(i) /\ SelectRight(i))'
<1>1. /\ TypeOK /\ OpTyped(i) /\ RefreshOnly(i)
      /\ KnownRight(i) /\ ReadRight(i) /\ SelectRight(i) /\ Numbered
  BY DEF ExactInv, TypeInv
<1>2. InUse' \subseteq InUse /\ UNCHANGED disk
  BY OnlyReads
<1>3. body' = body /\ born' = born /\ name' = name /\ stamp' = stamp
  BY <1>2 DEF disk
<1>4. ASSUME known'[i] = known[i], indexed'[i] = indexed[i] PROVE KnownRight(i)'
  BY <1>1, <1>2, <1>3, <1>4 DEF KnownRight, Firsts
<1>5. CASE BeginRefresh(i) \/ Select(i)
  <2>1. /\ known' = known /\ indexed' = indexed /\ model' = model /\ tmp' = tmp /\ seen' = seen
        /\ pc'[i] \in {"idle", "r_ensure"}
    BY <1>1, <1>5 DEF BeginRefresh, Select, Goto, dbs, regs, RefreshOnly, TypeOK
  <2>2. pc[i] \notin {"r_read", "r_commit"}
    BY <1>5 DEF BeginRefresh, Select
  <2>3. RefreshOnly(i)' /\ ReadRight(i)' /\ SelectRight(i)'
    BY <1>1, <2>1, <2>2 DEF RefreshOnly, ReadRight, SelectRight
  <2> QED
    BY <1>4, <2>1, <2>3
<1>6. CASE End(i) /\ UNCHANGED dbs
  <2>1. /\ known' = known /\ indexed' = indexed /\ model'[i] = None /\ tmp'[i] = None
        /\ seen'[i] = {} /\ pc'[i] = "idle"
    BY <1>1, <1>6 DEF End, Goto, dbs, TypeOK
  <2>2. RefreshOnly(i)' /\ ReadRight(i)' /\ SelectRight(i)'
    BY <2>1 DEF RefreshOnly, ReadRight, SelectRight
  <2> QED
    BY <1>4, <2>1, <2>2
<1>7. CASE pc[i] = "r_ensure" /\ Goto(i, "r_open") /\ UNCHANGED <<dbs, regs>>
  <2>1. /\ known' = known /\ indexed' = indexed /\ model' = model /\ tmp' = tmp /\ seen' = seen
        /\ pc'[i] = "r_open"
    BY <1>1, <1>7 DEF Goto, dbs, regs, TypeOK
  <2>2. RefreshOnly(i)' /\ ReadRight(i)' /\ SelectRight(i)'
    BY <1>1, <1>7, <2>1 DEF RefreshOnly, ReadRight, SelectRight
  <2> QED
    BY <1>4, <2>1, <2>2
<1>8. CASE Open(i)
  <2>1. KnownRight(i)'
    BY <1>4, <1>8 DEF Open, dbs
  <2> QED
    BY <1>1, <1>3, <1>8, <2>1, OpenExact
<1>9. CASE Read(i)
  <2>1. KnownRight(i)'
    BY <1>4, <1>9 DEF Read, dbs
  <2> QED
    BY <1>1, <1>3, <1>9, <2>1, ReadExact
<1>10. CASE Commit(i)
  BY <1>1, <1>2, <1>3, <1>10, CommitExact
<1> QED
  BY <1>5, <1>6, <1>7, <1>8, <1>9, <1>10, OnlyReads

LEMMA PrefixIs ==
  ASSUME NEW s \in Seq(Models), NEW t \in Seq(Models), IsPrefix(s, t)
  PROVE  Len(s) <= Len(t) /\ \A x \in 1 .. Len(s) : t[x] = s[x]
<1>1. Len(s) <= Len(t) /\ SubSeq(s, 1, Len(s)) = SubSeq(t, 1, Len(s))
  BY DEF IsPrefix
<1>2. \A x \in 1 .. Len(s) : SubSeq(s, 1, Len(s))[x] = s[x] /\ SubSeq(t, 1, Len(s))[x] = t[x]
  BY <1>1
<1> QED
  BY <1>1, <1>2

(* An edit lengthens the file, or leaves it and names another.               *)
LEMMA EditLengthens ==
  ASSUME Steady, ExactInv, Edit
  PROVE  /\ UNCHANGED <<dbs, pc, regs>>
         /\ InUse' \subseteq born'
         /\ born \subseteq born'
         /\ \A n \in InUse' \cap born :
               /\ n \in InUse /\ Len(body[n]) <= Len(body'[n])
               /\ \A x \in 1 .. Len(body[n]) : body'[n][x] = body[n][x]
<1>1. PICK t \in Texts : EditInPlace(t) \/ EditByRename(t)
  BY DEF Edit
<1>2. /\ TypeOK /\ name # None /\ name \in Inodes /\ name \in InUse /\ Numbered /\ ~Reuse
      /\ body \in [Inodes -> Seq(Models)]
  BY <1>1 DEF EditInPlace, EditByRename, ExactInv, TypeInv, TypeOK, InUse, Unused, Steady
<1>3. UNCHANGED <<dbs, pc, regs>> /\ fd' = fd /\ tmp' = tmp
  BY <1>1 DEF EditInPlace, EditByRename, regs
<1>4. CASE EditInPlace(t)
  <2>1. /\ name' = name /\ WriteTo(name, t, TRUE) /\ IsPrefix(body[name], t)
    <3>1. KindOfEdit(body[name], t) \in {"grow", "replace"}
      BY <1>4 DEF EditInPlace, Steady
    <3> QED
      BY <1>4, <3>1 DEF EditInPlace, Write, KindOfEdit
  <2>2. InUse' = InUse
    BY <1>3, <2>1 DEF InUse, Unused
  <2>3. born' = born \cup {name}
    BY <1>2, <2>1 DEF WriteTo
  <2>4. \A n \in InUse : n \in Inodes /\ body'[n] = IF n = name THEN t ELSE body[n]
    BY <2>1 DEF WriteTo, InUse
  <2>5. Len(body[name]) <= Len(t) /\ \A x \in 1 .. Len(body[name]) : t[x] = body[name][x]
    BY <1>1, <1>2, <2>1, TextsType, PrefixIs
  <2>6. \A n \in Inodes : Len(body[n]) \in Nat
    BY <1>2
  <2> QED
    BY <1>2, <1>3, <2>2, <2>3, <2>4, <2>5, <2>6 DEF Numbered
<1>5. CASE EditByRename(t)
  <2>1. PICK m \in Free : name' = m /\ WriteTo(m, t, TRUE)
    BY <1>5 DEF EditByRename, Write
  <2>2. m \notin born /\ m \in Inodes
    BY <1>2, <2>1 DEF Free, Unused
  <2>3. InUse' \subseteq InUse \cup {m}
    BY <1>3, <2>1 DEF InUse, Unused
  <2>4. born' = born \cup {m}
    BY <1>2, <2>1 DEF WriteTo
  <2>5. \A n \in InUse : n # m => body'[n] = body[n]
    BY <2>1 DEF WriteTo, InUse
  <2>6. \A n \in InUse : Len(body[n]) \in Nat
    BY <1>2 DEF InUse
  <2> QED
    BY <1>2, <1>3, <2>2, <2>3, <2>4, <2>5, <2>6 DEF Numbered
<1> QED
  BY <1>1, <1>4, <1>5

(* So what an index holds, and what a scan has read, is still there.         *)
LEMMA EditStays ==
  ASSUME Steady, ExactInv, Edit, NEW i \in Installs
  PROVE  (RefreshOnly(i) /\ KnownRight(i) /\ ReadRight(i) /\ SelectRight(i))'
<1>1. /\ TypeOK /\ OpTyped(i) /\ RefreshOnly(i) /\ Numbered
      /\ KnownRight(i) /\ ReadRight(i) /\ SelectRight(i)
  BY DEF ExactInv, TypeInv
<1>2. /\ known' = known /\ indexed' = indexed /\ pc' = pc /\ model' = model /\ fd' = fd
      /\ tmp' = tmp /\ at' = at /\ seen' = seen /\ rebuild' = rebuild /\ opened' = opened
  BY EditLengthens DEF dbs, regs
<1>3. \A n \in InUse' \cap born :
         /\ n \in InUse /\ n \in Inodes /\ Len(body[n]) <= Len(body'[n])
         /\ \A x \in 1 .. Len(body[n]) : body'[n][x] = body[n][x]
  BY EditLengthens DEF InUse
<1>4. /\ \A n \in Inodes : Len(body[n]) \in Nat
      /\ TypeOK'
  <2>1. TypeInv'
    BY EditTyped DEF ExactInv
  <2> QED
    BY <1>1, <2>1, SMTT(30) DEF TypeInv, TypeOK
<1>5. ASSUME NEW n \in InUse' \cap born, NEW k \in Nat, k <= Len(body[n])
      PROVE  /\ {body'[n][j] : j \in 1 .. k} = Firsts(n, k)
             /\ k <= Len(body'[n])
  <2>1. Len(body[n]) \in Nat /\ Len(body'[n]) \in Nat
    BY <1>3, <1>4 DEF TypeOK
  <2>2. \A j \in 1 .. k : j \in 1 .. Len(body[n])
    BY <1>5, <2>1
  <2>3. \A j \in 1 .. k : body'[n][j] = body[n][j]
    BY <1>3, <2>2
  <2> QED
    BY <1>3, <1>5, <2>1, <2>3 DEF Firsts
<1>6. RefreshOnly(i)' /\ SelectRight(i)'
  BY <1>1, <1>2 DEF RefreshOnly, SelectRight
<1>7. KnownRight(i)'
  <2> SUFFICES ASSUME known[i] # None PROVE KnownRight(i)'
    BY <1>2 DEF KnownRight
  <2> DEFINE n == known[i].ino
             k == known[i].offset
  <2>1. n \in born /\ n \in born' /\ k \in Nat
    BY <1>1, EditLengthens DEF KnownRight, TypeOK, Fingerprint
  <2>2. ASSUME n \in InUse'
        PROVE  /\ k <= Len(body'[n])
               /\ indexed[i] = {body'[n][j] : j \in 1 .. k}
    <3>1. n \in InUse' \cap born /\ n \in InUse
      BY <1>3, <2>1, <2>2
    <3>2. k <= Len(body[n]) /\ indexed[i] = Firsts(n, k)
      BY <1>1, <3>1 DEF KnownRight
    <3> HIDE DEF n, k
    <3> QED
      BY <1>5, <2>1, <3>1, <3>2
  <2> QED
    BY <1>2, <2>1, <2>2 DEF KnownRight, Firsts
<1>8. ReadRight(i)'
  <2> SUFFICES ASSUME pc[i] \in {"r_read", "r_commit"} PROVE ReadRight(i)'
    BY <1>2 DEF ReadRight
  <2> DEFINE n == fd[i]
             k == at[i]
             o == opened[i].offset
             p == known[i].offset
  <2>1. n \in Inodes /\ n \in InUse /\ n \in InUse' \cap born
    BY <1>1, <1>2 DEF OpTyped, FdSteps, TypeOK, InUse, Unused, Numbered
  <2>2. /\ opened[i] # None /\ opened[i].ino = n /\ o <= Len(body[n]) /\ k <= Len(body[n])
        /\ k \in Nat /\ o \in Nat
    BY <1>1 DEF ReadRight, TypeOK, Fingerprint
  <2>3. ~rebuild[i] => /\ known[i] # None /\ known[i].ino = n /\ p \in Nat
                       /\ p <= Len(body[n])
    BY <1>1, <2>1 DEF ReadRight, KnownRight, TypeOK, Fingerprint
  <2> DEFINE now(x) == {body'[n][j] : j \in 1 .. x}
  <2>4. now(k) = Firsts(n, k) /\ k <= Len(body'[n])
    BY <1>5, <2>1, <2>2
  <2>5. o <= Len(body'[n])
    BY <1>5, <2>1, <2>2
  <2>6. ~rebuild[i] => now(p) = Firsts(n, p)
    BY <1>5, <2>1, <2>3
  <2>7. Firsts(fd[i], at[i])' = now(k) /\ Firsts(fd[i], known[i].offset)' = now(p)
    BY <1>2 DEF Firsts
  <2> HIDE DEF now
  <2> QED
    BY <1>1, <1>2, <2>2, <2>3, <2>4, <2>5, <2>6, <2>7 DEF ReadRight
<1> QED
  BY <1>6, <1>7, <1>8

LEMMA ExactNext ==
  ASSUME Steady
  PROVE  ExactInv /\ [Next]_ivars => ExactInv'
<1> SUFFICES ASSUME ExactInv, [Next]_ivars PROVE ExactInv'
  OBVIOUS
<1>1. TypeInv'
  BY NextTyped DEF ExactInv
<1>2. CASE \E i \in Installs : Act(i)
  <2>1. PICK i \in Installs : Act(i)
    BY <1>2
  <2>2. Numbered'
    BY <2>1, OnlyReads DEF ExactInv, Numbered, disk
  <2>3. \A j \in Installs :
            (RefreshOnly(j) /\ KnownRight(j) /\ ReadRight(j) /\ SelectRight(j))'
    BY <2>1, ReadingStays, OthersStay
  <2> QED
    BY <1>1, <2>2, <2>3 DEF ExactInv
<1>3. CASE Edit
  <2>1. Numbered'
    BY <1>3, EditLengthens DEF Numbered
  <2> QED
    BY <1>1, <1>3, <2>1, EditStays DEF ExactInv
<1>4. CASE UNCHANGED ivars
  <2>1. InUse' = InUse /\ born' = born /\ body' = body
    BY <1>4 DEF ivars, disk, regs, InUse, Unused
  <2>2. ASSUME NEW i \in Installs
        PROVE  (RefreshOnly(i) /\ KnownRight(i) /\ ReadRight(i) /\ SelectRight(i))'
    BY <1>4, <2>1 DEF ExactInv, ivars, dbs, regs, RefreshOnly, KnownRight, ReadRight,
         SelectRight, Firsts
  <2> QED
    BY <1>1, <2>1, <2>2 DEF ExactInv, Numbered
<1> QED
  BY <1>2, <1>3, <1>4 DEF Next, Act, Edit

(* After a refresh of such a catalog, by any number of installations, the    *)
(* index holds exactly the models of the file as refresh last saw it.        *)
THEOREM RefreshIsExact ==
  ASSUME Steady
  PROVE  Spec => []IndexIsExact
<1>1. ExactInv => IndexIsExact
  <2> SUFFICES ASSUME ExactInv, NEW i \in Installs, pc[i] = "select", Unwritten(i)
               PROVE  indexed[i] = Listed(name)
    BY DEF IndexIsExact
  <2>1. TypeOK /\ KnownRight(i) /\ SelectRight(i)
    BY DEF ExactInv, TypeInv
  <2>2. name \in Inodes /\ name \in InUse /\ opened[i] = Stat(name)
    BY <2>1 DEF Unwritten, TypeOK, InUse, Unused
  <2>3. /\ known[i] # None /\ known[i].ino = name /\ known[i].offset \in Nat
        /\ Len(body[name]) <= known[i].offset /\ Len(body[name]) \in Nat
    BY <2>1, <2>2 DEF SelectRight, Stat, TypeOK, Fingerprint
  <2>4. known[i].offset <= Len(body[name]) /\ indexed[i] = Firsts(name, known[i].offset)
    BY <2>1, <2>2, <2>3 DEF KnownRight
  <2>5. known[i].offset = Len(body[name])
    BY <2>3, <2>4
  <2> QED
    BY <2>4, <2>5 DEF Firsts, Listed
<1> QED
  BY <1>1, ExactStarts, ExactNext, PTL DEF Spec

-----------------------------------------------------------------------------
(* A catalog that one installation alone appends to and that nobody edits,   *)
(* read by any number of others, killed wherever, on any file system: also   *)
(* one that gives an inode number again. (The run stale_append is about an   *)
(* appender and an editor, for which it is false.)                           *)

Lone == Edits = {} /\ \A i, j \in Appenders : i = j

(* Then every open file is a beginning of the catalog, every index holds a   *)
(* beginning of it, and the appender is the only one to move its end: it     *)
(* reads and copies the catalog itself, and knows where it ends.             *)

Upto(k) == {Catalog[x] : x \in 1 .. k}

FilesAgree(i) ==
    fd[i] # None =>
        /\ Len(body[fd[i]]) <= Len(Catalog)
        /\ \A x \in 1 .. Len(body[fd[i]]) : body[fd[i]][x] = Catalog[x]

IndexAgrees(i) ==
    known[i] # None =>
        known[i].offset <= Len(Catalog) /\ indexed[i] = Upto(known[i].offset)

ScanAgrees(i) ==
    /\ pc[i] \notin {"r_read", "r_commit"} => seen[i] = {}
    /\ pc[i] \in {"r_read", "r_commit"} =>
          /\ opened[i] # None /\ opened[i].offset <= Len(body[fd[i]])
          /\ at[i] <= Len(body[fd[i]])
          /\ seen[i] \subseteq Upto(at[i])
          /\ rebuild[i] => Upto(at[i]) \subseteq seen[i]
          /\ ~rebuild[i] => /\ known[i] # None /\ known[i].offset <= Len(body[fd[i]])
                            /\ Upto(at[i]) \subseteq seen[i] \cup Upto(known[i].offset)
          /\ pc[i] = "r_commit" => at[i] = Len(body[fd[i]])
    /\ pc[i] = "select" =>
          /\ opened[i] # None /\ known[i] # None
          /\ opened[i].offset <= known[i].offset

Moved == {"a_reopen", "a_mark"}

AppendAgrees(i) ==
    /\ pc[i] \in AppendSteps \cup {"r_init"} \/ model[i] # None => i \in Appenders
    /\ i \in Appenders =>
          /\ fd[i] # None /\ pc[i] \notin Moved => fd[i] = name
          /\ pc[i] \in (AppendSteps \ Moved) \cup {"select"} =>
                known[i] # None /\ known[i].offset = Len(Catalog)
          /\ pc[i] \in Moved =>
                /\ known[i] # None /\ Len(Catalog) = known[i].offset + 1
                /\ Catalog[Len(Catalog)] = model[i]
          /\ pc[i] = "a_mark" => opened[i].offset = Len(Catalog)

Agrees(i) == FilesAgree(i) /\ IndexAgrees(i) /\ ScanAgrees(i) /\ AppendAgrees(i)

LoneInv == SafeInv /\ edits = 0 /\ \A i \in Installs : Agrees(i)

LEMMA LoneStarts == Init => LoneInv
<1> SUFFICES ASSUME Init PROVE LoneInv
  OBVIOUS
<1>1. SafeInv /\ edits = 0
  BY InitSafe DEF Init
<1>2. ASSUME NEW i \in Installs PROVE Agrees(i)
  BY DEF Init, Agrees, FilesAgree, IndexAgrees, ScanAgrees, AppendAgrees, AppendSteps, Moved
<1> QED
  BY <1>1, <1>2 DEF LoneInv

LEMMA CatalogTyped ==
  ASSUME TypeOK
  PROVE  Catalog \in Seq(Models) /\ Len(Catalog) \in Nat
  BY DEF TypeOK, Catalog

(* What the catalog lists stays where it is.                                 *)
Grown ==
    /\ Len(Catalog) <= Len(Catalog')
    /\ \A x \in 1 .. Len(Catalog) : Catalog'[x] = Catalog[x]

LEMMA GrowsGrown ==
  ASSUME TypeInv, Safe, NEW j \in Installs, Act(j)
  PROVE  Grown
<1>1. Catalog \in Seq(Models) /\ Len(Catalog) \in Nat
  BY CatalogTyped DEF TypeInv
<1>2. Catalog' = Catalog \/ \E m \in Models : Catalog' = Append(Catalog, m)
  BY ActGrows DEF Grows
<1>3. CASE Catalog' = Catalog
  BY <1>1, <1>3 DEF Grown
<1>4. ASSUME NEW m \in Models, Catalog' = Append(Catalog, m) PROVE Grown
  <2>1. /\ Len(Append(Catalog, m)) = Len(Catalog) + 1
        /\ \A x \in 1 .. Len(Catalog) : Append(Catalog, m)[x] = Catalog[x]
    BY <1>1
  <2> QED
    BY <1>1, <1>4, <2>1 DEF Grown
<1> QED
  BY <1>2, <1>3, <1>4

(* So the beginnings of the catalog stay.                                    *)
LEMMA UptoStays ==
  ASSUME TypeOK, Grown
  PROVE  \A k \in Nat : k <= Len(Catalog) =>
             {Catalog'[x] : x \in 1 .. k} = {Catalog[x] : x \in 1 .. k}
<1> SUFFICES ASSUME NEW k \in Nat, k <= Len(Catalog)
             PROVE  {Catalog'[x] : x \in 1 .. k} = {Catalog[x] : x \in 1 .. k}
  OBVIOUS
<1>1. \A x \in 1 .. k : x \in 1 .. Len(Catalog)
  BY CatalogTyped
<1>2. \A x \in 1 .. k : Catalog'[x] = Catalog[x]
  BY <1>1 DEF Grown
<1> QED
  BY <1>2

(* A step that leaves the path alone leaves the catalog alone.               *)
LEMMA CatalogStays ==
  ASSUME TypeInv, NEW j \in Installs, Act(j), name' = name
  PROVE  Catalog' = Catalog
<1>1. name # None => name \in InUse
  BY DEF InUse, Unused, TypeInv, TypeOK
<1> QED
  BY <1>1, Frozen DEF Catalog

(* Only an appender moves the path.                                          *)
LEMMA ReadersStay ==
  ASSUME TypeInv, NEW j \in Installs, Act(j), AppendAgrees(j), j \notin Appenders
  PROVE  name' = name /\ Catalog' = Catalog
<1>1. pc[j] # "a_replace"
  BY DEF AppendAgrees, AppendSteps
<1>2. name' = name
  <2>1. ~Replace(j)
    BY <1>1 DEF Replace
  <2>2. CASE EnsureFile(j)
    BY <2>2 DEF EnsureFile, disk
  <2> QED
    BY <2>1, <2>2 DEF Act, BeginRefresh, Refreshing, BeginAppend, Appending, Crash,
         WriteBraces, Open, Read, Commit, Select, OpenToAppend, Lock, ScanForModel, Bounds,
         Copy, CheckInode, Reopen, MarkAppended, disk
<1> QED
  BY <1>2, CatalogStays

(* What else a step of j leaves alone of another installation.               *)
LEMMA LoneFrame ==
  ASSUME TypeOK, NEW j \in Installs, Act(j), NEW i \in Installs \ {j}
  PROVE  known'[i] = known[i] /\ rebuild'[i] = rebuild[i] /\ opened'[i] = opened[i]
<1>1. ASSUME End(j) PROVE rebuild'[i] = rebuild[i]
  BY <1>1 DEF End, TypeOK
<1>2. CASE BeginRefresh(j) \/ Open(j) \/ Read(j) \/ Commit(j) \/ Select(j)
  BY <1>2 DEF BeginRefresh, Open, Read, Commit, Select, TypeOK, dbs, regs
<1>3. CASE EnsureFile(j) \/ WriteBraces(j) \/ Crash(j)
  BY <1>1, <1>3 DEF EnsureFile, WriteBraces, Crash, TypeOK, dbs, regs
<1>4. CASE OpenToAppend(j) \/ Lock(j) \/ ScanForModel(j) \/ Bounds(j) \/ Copy(j)
           \/ \E m \in Models : BeginAppend(j, m)
  BY <1>1, <1>4 DEF OpenToAppend, Lock, ScanForModel, Bounds, Copy, BeginAppend, TypeOK, dbs
<1>5. CASE CheckInode(j) \/ Replace(j) \/ Reopen(j) \/ MarkAppended(j)
  BY <1>1, <1>5 DEF CheckInode, Replace, Reopen, MarkAppended, TypeOK, dbs
<1> QED
  BY <1>2, <1>3, <1>4, <1>5 DEF Act, Refreshing, Appending

(* What an index holds stays a beginning of the catalog.                     *)
LEMMA IndexStays ==
  ASSUME TypeOK, Grown, NEW i \in Installs, IndexAgrees(i),
         known'[i] = known[i], indexed'[i] = indexed[i], TypeOK'
  PROVE  IndexAgrees(i)'
<1> SUFFICES ASSUME known[i] # None PROVE IndexAgrees(i)'
  BY DEF IndexAgrees
<1> DEFINE k == known[i].offset
<1>1. k \in Nat
  BY DEF TypeOK, Fingerprint
<1>2. k <= Len(Catalog) /\ indexed[i] = {Catalog[x] : x \in 1 .. k}
  BY DEF IndexAgrees, Upto
<1>3. k <= Len(Catalog')
  <2>1. Len(Catalog) \in Nat /\ Len(Catalog') \in Nat
    BY DEF TypeOK, Catalog
  <2> HIDE DEF k
  <2> QED
    BY <1>1, <1>2, <2>1 DEF Grown
<1>4. indexed'[i] = {Catalog'[x] : x \in 1 .. k}
  BY <1>1, <1>2, UptoStays
<1> QED
  BY <1>3, <1>4 DEF IndexAgrees, Upto

(* An open file stays a beginning of it.                                     *)
LEMMA FileStays ==
  ASSUME TypeOK, TypeOK', Grown, NEW i \in Installs, FilesAgree(i),
         fd'[i] = fd[i], fd[i] # None => body'[fd[i]] = body[fd[i]]
  PROVE  FilesAgree(i)'
<1> SUFFICES ASSUME fd[i] # None PROVE FilesAgree(i)'
  BY DEF FilesAgree
<1> DEFINE b == body[fd[i]]
<1>1. Len(Catalog) \in Nat /\ Len(Catalog') \in Nat /\ Len(b) \in Nat
  BY DEF TypeOK, Catalog
<1>2. Len(b) <= Len(Catalog) /\ \A x \in 1 .. Len(b) : b[x] = Catalog[x]
  BY DEF FilesAgree
<1>3. \A x \in 1 .. Len(b) : x \in 1 .. Len(Catalog)
  BY <1>1, <1>2
<1>4. Len(b) <= Len(Catalog') /\ \A x \in 1 .. Len(b) : b[x] = Catalog'[x]
  BY <1>1, <1>2, <1>3 DEF Grown
<1>5. body'[fd'[i]] = b
  OBVIOUS
<1> HIDE DEF b
<1> QED
  BY <1>4, <1>5 DEF FilesAgree

(* And what was read of it stays right.                                      *)
LEMMA ScanStays ==
  ASSUME TypeOK, TypeOK', Grown, NEW i \in Installs, OpTyped(i), FilesAgree(i), ScanAgrees(i),
         pc'[i] = pc[i], fd'[i] = fd[i], at'[i] = at[i], seen'[i] = seen[i],
         rebuild'[i] = rebuild[i], opened'[i] = opened[i], known'[i] = known[i],
         fd[i] # None => body'[fd[i]] = body[fd[i]]
  PROVE  ScanAgrees(i)'
<1>1. CASE pc[i] \notin {"r_read", "r_commit"}
  BY <1>1 DEF ScanAgrees
<1>2. CASE pc[i] \in {"r_read", "r_commit"}
  <2> DEFINE k == at[i]
             p == known[i].offset
             l == Len(body[fd[i]])
  <2>1. fd[i] # None /\ fd[i] \in Inodes /\ l \in Nat /\ k \in Nat /\ Len(Catalog) \in Nat
    BY <1>2, CatalogTyped DEF OpTyped, FdSteps, TypeOK
  <2>2. l <= Len(Catalog)
    BY <2>1 DEF FilesAgree
  <2>3. k <= l /\ (~rebuild[i] => known[i] # None /\ p <= l /\ p \in Nat)
    BY <1>2 DEF ScanAgrees, TypeOK, Fingerprint
  <2> HIDE DEF k, p, l
  <2>4. /\ k <= Len(Catalog)
        /\ ~rebuild[i] => p <= Len(Catalog)
    BY <2>1, <2>2, <2>3
  <2>5. {Catalog'[x] : x \in 1 .. k} = Upto(k)
    BY <2>1, <2>4, UptoStays DEF Upto
  <2>6. ~rebuild[i] => {Catalog'[x] : x \in 1 .. p} = Upto(p)
    BY <2>3, <2>4, UptoStays DEF Upto
  <2>7. Upto(at[i])' = {Catalog'[x] : x \in 1 .. k} /\ Upto(known[i].offset)' = {Catalog'[x] : x \in 1 .. p}
    BY DEF Upto, k, p
  <2>8. Upto(at[i])' = Upto(at[i]) /\ (~rebuild[i] => Upto(known[i].offset)' = Upto(known[i].offset))
    BY <2>5, <2>6, <2>7 DEF k, p
  <2> QED
    BY <1>2, <2>1, <2>8 DEF ScanAgrees
<1> QED
  BY <1>1, <1>2

(* A step of j leaves another installation what it relies on.                *)
LEMMA LoneOthers ==
  ASSUME Lone, TypeInv, TypeInv', Safe, NEW j \in Installs, Act(j), Agrees(j),
         NEW i \in Installs \ {j}, Agrees(i)
  PROVE  Agrees(i)'
<1>1. /\ pc'[i] = pc[i] /\ model'[i] = model[i] /\ fd'[i] = fd[i] /\ at'[i] = at[i]
      /\ seen'[i] = seen[i] /\ indexed'[i] = indexed[i]
  BY ActFrame
<1>2. known'[i] = known[i] /\ rebuild'[i] = rebuild[i] /\ opened'[i] = opened[i]
  BY LoneFrame DEF TypeInv
<1>3. Grown /\ TypeOK /\ TypeOK' /\ OpTyped(i)
  BY GrowsGrown DEF TypeInv
<1>4. fd[i] # None => body'[fd[i]] = body[fd[i]]
  <2>1. fd[i] # None => fd[i] \in InUse
    BY <1>3 DEF TypeOK, InUse, Unused
  <2> QED
    BY <2>1, Frozen
<1>5. FilesAgree(i)' /\ IndexAgrees(i)' /\ ScanAgrees(i)'
  BY <1>1, <1>2, <1>3, <1>4, FileStays, IndexStays, ScanStays DEF Agrees
<1>6. AppendAgrees(i)'
  <2>1. i \in Appenders => name' = name /\ Catalog' = Catalog
    BY ReadersStay DEF Lone, Agrees
  <2>2. AppendAgrees(i)
    BY DEF Agrees
  <2> QED
    BY <1>1, <1>2, <2>1, <2>2 DEF AppendAgrees
<1> QED
  BY <1>5, <1>6 DEF Agrees

(* The file that the path names is the catalog.                              *)
LEMMA NamedAgrees ==
  ASSUME TypeOK', NEW i \in Installs, fd'[i] # None => fd'[i] = name'
  PROVE  FilesAgree(i)'
<1> SUFFICES ASSUME fd'[i] # None, fd'[i] = name' PROVE FilesAgree(i)'
  BY DEF FilesAgree
<1>1. Catalog' = body'[name'] /\ Len(Catalog') \in Nat
  BY DEF Catalog, TypeOK
<1> QED
  BY <1>1 DEF FilesAgree

(* The end of an operation.                                                  *)
LEMMA EndAgrees ==
  ASSUME TypeOK, TypeOK', NEW i \in Installs, End(i), IndexAgrees(i)'
  PROVE  Agrees(i)'
<1>1. pc'[i] = "idle" /\ fd'[i] = None /\ model'[i] = None /\ seen'[i] = {}
  BY DEF End, Goto, TypeOK
<1> QED
  BY <1>1 DEF Agrees, FilesAgree, ScanAgrees, AppendAgrees, AppendSteps, Moved

(* The steps that leave the index and the scan alone.                        *)
LEMMA RestAgrees ==
  ASSUME TypeOK, TypeOK', Grown, NEW i \in Installs, Agrees(i),
         known'[i] = known[i], indexed'[i] = indexed[i], seen'[i] = seen[i],
         pc[i] \notin {"r_read", "r_commit"},
         pc'[i] \notin {"r_read", "r_commit", "select"},
         fd'[i] \in {None, name'} \/ (fd'[i] = fd[i] /\ body'[fd[i]] = body[fd[i]]),
         AppendAgrees(i)'
  PROVE  Agrees(i)'
<1>1. IndexAgrees(i)'
  BY IndexStays DEF Agrees
<1>2. FilesAgree(i)'
  <2>1. CASE fd'[i] \in {None, name'}
    BY <2>1, NamedAgrees
  <2>2. CASE fd'[i] = fd[i] /\ body'[fd[i]] = body[fd[i]]
    BY <2>2, FileStays DEF Agrees
  <2> QED
    BY <2>1, <2>2
<1>3. ScanAgrees(i)'
  BY DEF Agrees, ScanAgrees
<1> QED
  BY <1>1, <1>2, <1>3 DEF Agrees

(* Opening the descriptor of a scan.                                         *)
LEMMA OpenAgrees ==
  ASSUME TypeInv, TypeOK', NEW i \in Installs, Agrees(i), Open(i), Catalog' = Catalog, Grown
  PROVE  Agrees(i)'
<1>1. /\ pc[i] = "r_open" /\ pc'[i] \in {"select", "r_read"} /\ opened'[i] = Stat(name)
      /\ UNCHANGED <<name, body, stamp, known, indexed, model, seen>>
      /\ name # None /\ name \in Inodes /\ TypeOK /\ fd[i] = None
  <2>1. TypeOK /\ OpTyped(i) /\ pc[i] = "r_open"
    BY DEF Open, TypeInv
  <2>2. name # None /\ name \in Inodes /\ fd[i] = None
    BY <2>1 DEF TypeOK, OpTyped, FdSteps
  <2>3. /\ pc'[i] \in {"select", "r_read"} /\ opened'[i] = Stat(name)
        /\ UNCHANGED <<name, body, stamp, known, indexed, model, seen>>
    BY <2>1 DEF Open, Goto, TypeOK, disk, dbs
  <2> QED
    BY <2>1, <2>2, <2>3
<1>2. /\ Catalog = body[name] /\ Len(Catalog) \in Nat
      /\ Stat(name).offset = Len(Catalog) /\ Stat(name) # None
  BY <1>1, NoneFresh DEF Catalog, Stat, TypeOK, Fingerprint
<1>3. IndexAgrees(i)'
  BY <1>1, IndexStays DEF Agrees
<1>4. seen[i] = {}
  BY <1>1 DEF Agrees, ScanAgrees
<1>5. ASSUME known[i] # None
      PROVE  known[i].offset \in Nat /\ known[i].offset <= Len(Catalog)
  BY <1>1, <1>5 DEF Agrees, IndexAgrees, TypeOK, Fingerprint
<1>6. ASSUME ~MustRebuild(i, name) PROVE known[i] # None
  BY <1>6 DEF MustRebuild
<1>7. CASE ~MustRebuild(i, name) /\ known[i].offset = Len(body[name])
  <2>1. pc'[i] = "select" /\ fd'[i] = None
    BY <1>1, <1>7 DEF Open, Goto, TypeInv, TypeOK
  <2>2. ScanAgrees(i)'
    BY <1>1, <1>2, <1>4, <1>6, <1>7, <2>1 DEF ScanAgrees
  <2>3. AppendAgrees(i)'
    BY <1>1, <1>2, <1>6, <1>7, <2>1 DEF Agrees, AppendAgrees, AppendSteps, Moved
  <2>4. FilesAgree(i)'
    BY <2>1, NamedAgrees
  <2> QED
    BY <1>3, <2>2, <2>3, <2>4 DEF Agrees
<1>8. CASE ~(~MustRebuild(i, name) /\ known[i].offset = Len(body[name]))
  <2> DEFINE s == Start(i, name)
  <2>1. /\ pc'[i] = "r_read" /\ fd'[i] = name /\ at'[i] = s
        /\ rebuild'[i] = MustRebuild(i, name) /\ seen'[i] = {}
    BY <1>1, <1>4, <1>8 DEF Open, Goto, TypeInv, TypeOK
  <2>2. AppendAgrees(i)'
    BY <1>1, <2>1 DEF Agrees, AppendAgrees, AppendSteps, Moved
  <2>3. FilesAgree(i)'
    BY <1>1, <2>1, NamedAgrees
  <2>4. MustRebuild(i, name) => s = 0
    BY DEF Start
  <2>5. ~MustRebuild(i, name) => s \in Nat /\ s <= known[i].offset
    BY <1>5, <1>6, BoundsType DEF Start
  <2> HIDE DEF s
  <2>6. s \in Nat /\ s <= Len(Catalog)
    BY <1>2, <1>5, <1>6, <2>4, <2>5
  <2>7. MustRebuild(i, name) => Upto(s) = {}
    BY <2>4 DEF Upto
  <2>8. ~MustRebuild(i, name) => Upto(s) \subseteq Upto(known[i].offset)
    <3> SUFFICES ASSUME ~MustRebuild(i, name) PROVE Upto(s) \subseteq Upto(known[i].offset)
      OBVIOUS
    <3>1. 1 .. s \subseteq 1 .. known[i].offset
      BY <1>5, <1>6, <2>5
    <3> QED
      BY <3>1 DEF Upto
  <2>9. Upto(at[i])' = Upto(s) /\ Upto(known[i].offset)' = Upto(known[i].offset)
    BY <1>1, <2>1 DEF Upto
  <2>10. ScanAgrees(i)'
    BY <1>1, <1>2, <1>5, <1>6, <2>1, <2>6, <2>7, <2>8, <2>9 DEF ScanAgrees
  <2> QED
    BY <1>3, <2>2, <2>3, <2>10 DEF Agrees
<1> QED
  BY <1>7, <1>8

(* The next entry of the file is the next of the catalog.                    *)
LEMMA ReadAgrees ==
  ASSUME TypeInv, TypeOK', NEW i \in Installs, Agrees(i), Read(i), Catalog' = Catalog, Grown
  PROVE  Agrees(i)'
<1> DEFINE n == fd[i]
           l == Len(body[n])
<1>1. /\ pc[i] = "r_read" /\ pc'[i] \in {"r_read", "r_commit"}
      /\ UNCHANGED <<name, body, known, indexed, model, fd, rebuild, opened>>
      /\ TypeOK /\ n # None /\ n \in Inodes /\ at[i] \in Nat /\ l \in Nat
  BY DEF Read, Goto, TypeInv, TypeOK, OpTyped, FdSteps, disk, dbs
<1>2. IndexAgrees(i)' /\ FilesAgree(i)'
  BY <1>1, IndexStays, FileStays DEF Agrees
<1>3. AppendAgrees(i)'
  BY <1>1 DEF Agrees, AppendAgrees, AppendSteps, Moved
<1>4. /\ opened[i] # None /\ opened[i].offset <= l /\ at[i] <= l
      /\ seen[i] \subseteq Upto(at[i])
      /\ rebuild[i] => Upto(at[i]) \subseteq seen[i]
      /\ ~rebuild[i] => /\ known[i] # None /\ known[i].offset <= l
                        /\ Upto(at[i]) \subseteq seen[i] \cup Upto(known[i].offset)
  BY <1>1 DEF Agrees, ScanAgrees
<1>5. Upto(known[i].offset)' = Upto(known[i].offset)
  BY <1>1 DEF Upto
<1>6. CASE at[i] < l
  <2>1. /\ pc'[i] = "r_read" /\ at'[i] = at[i] + 1
        /\ seen'[i] = seen[i] \cup {body[n][at[i] + 1]}
    BY <1>1, <1>6 DEF Read, TypeOK
  <2>2. at[i] + 1 \in 1 .. l
    BY <1>1, <1>6
  <2>3. body[n][at[i] + 1] = Catalog[at[i] + 1]
    BY <1>1, <2>2 DEF Agrees, FilesAgree
  <2>4. 1 .. (at[i] + 1) = (1 .. at[i]) \cup {at[i] + 1}
    BY <1>1
  <2>5. Upto(at[i])' = Upto(at[i]) \cup {Catalog[at[i] + 1]}
    BY <2>1, <2>4 DEF Upto
  <2>6. ScanAgrees(i)'
    BY <1>1, <1>4, <1>5, <2>1, <2>2, <2>3, <2>5 DEF ScanAgrees
  <2> QED
    BY <1>2, <1>3, <2>6 DEF Agrees
<1>7. CASE ~(at[i] < l)
  <2>1. pc'[i] = "r_commit" /\ at'[i] = at[i] /\ seen'[i] = seen[i]
    BY <1>1, <1>7 DEF Read, Goto, TypeOK
  <2>2. at[i] = l
    BY <1>1, <1>4, <1>7
  <2>3. Upto(at[i])' = Upto(at[i])
    BY <2>1 DEF Upto
  <2>4. ScanAgrees(i)'
    BY <1>1, <1>4, <1>5, <2>1, <2>2, <2>3 DEF ScanAgrees
  <2> QED
    BY <1>2, <1>3, <2>4 DEF Agrees
<1> QED
  BY <1>6, <1>7

(* What is committed is the beginning of the catalog that was read.          *)
LEMMA CommitAgrees ==
  ASSUME TypeInv, TypeOK', NEW i \in Installs, Agrees(i), Commit(i), Catalog' = Catalog
  PROVE  Agrees(i)'
<1> DEFINE n == fd[i]
           k == at[i]
<1>1. /\ pc[i] = "r_commit" /\ TypeOK /\ n # None /\ n \in Inodes /\ k \in Nat
      /\ opened[i] \in Fingerprint
  BY DEF Commit, TypeInv, TypeOK, OpTyped, FdSteps
<1>2. /\ pc'[i] = "select" /\ fd'[i] = None /\ seen'[i] = {}
      /\ UNCHANGED <<name, body, model, opened>>
      /\ known'[i] = [ino |-> opened[i].ino, stamp |-> stamp[n], offset |-> k]
      /\ indexed'[i] = (IF rebuild[i] THEN {} ELSE indexed[i]) \cup seen[i]
  BY <1>1 DEF Commit, Goto, TypeOK, disk
<1>3. /\ opened[i] # None /\ opened[i].offset <= k /\ k = Len(body[n])
      /\ seen[i] \subseteq Upto(k)
      /\ rebuild[i] => Upto(k) \subseteq seen[i]
      /\ ~rebuild[i] => /\ known[i] # None /\ known[i].offset <= k
                        /\ Upto(k) \subseteq seen[i] \cup Upto(known[i].offset)
  BY <1>1 DEF Agrees, ScanAgrees
<1>4. k <= Len(Catalog)
  BY <1>1, <1>3 DEF Agrees, FilesAgree
<1>5. known'[i] # None /\ known'[i].offset = k
  <2>1. known'[i] \in Fingerprint
    BY <1>1, <1>2 DEF Fingerprint, TypeOK
  <2> QED
    BY <1>2, <2>1, NoneFresh
<1>6. indexed'[i] = Upto(k)
  <2>1. CASE rebuild[i]
    BY <1>2, <1>3, <2>1
  <2>2. CASE ~rebuild[i]
    <3>1. indexed[i] = Upto(known[i].offset)
      BY <1>3, <2>2 DEF Agrees, IndexAgrees
    <3>2. known[i].offset \in Nat
      BY <1>1, <1>3, <2>2 DEF TypeOK, Fingerprint
    <3>3. 1 .. known[i].offset \subseteq 1 .. k
      BY <1>1, <1>3, <2>2, <3>2
    <3>4. Upto(known[i].offset) \subseteq Upto(k)
      BY <3>3 DEF Upto
    <3> QED
      BY <1>2, <1>3, <2>2, <3>1, <3>4
  <2> QED
    BY <2>1, <2>2
<1>7. IndexAgrees(i)'
  <2>1. Upto(known[i].offset)' = Upto(k)
    BY <1>5 DEF Upto
  <2> QED
    BY <1>4, <1>5, <1>6, <2>1 DEF IndexAgrees
<1>8. i \in Appenders => k = Len(Catalog)
  BY <1>1, <1>3 DEF Agrees, AppendAgrees, Moved, Catalog
<1>9. AppendAgrees(i)'
  BY <1>1, <1>2, <1>5, <1>8 DEF Agrees, AppendAgrees, AppendSteps, Moved
<1>10. FilesAgree(i)' /\ ScanAgrees(i)'
  BY <1>2, <1>3, <1>5 DEF FilesAgree, ScanAgrees
<1> QED
  BY <1>7, <1>9, <1>10 DEF Agrees

(* The copy, with the new model at its end, becomes the catalog.             *)
LEMMA ReplaceAgrees ==
  ASSUME TypeInv, TypeOK', Safe, NEW i \in Installs, Agrees(i), Replace(i), Grown
  PROVE  Agrees(i)'
<1>1. /\ TypeOK /\ pc[i] = "a_replace" /\ pc'[i] = "a_reopen" /\ i \in Appenders
      /\ name # None /\ name \in Inodes /\ tmp[i] # None /\ tmp[i] \in Inodes
      /\ model[i] \in Models /\ known[i] # None /\ known[i].offset = Len(Catalog)
  <2>1. TypeOK /\ OpTyped(i) /\ pc[i] = "a_replace" /\ pc'[i] = "a_reopen"
    BY DEF Replace, Goto, TypeInv, TypeOK
  <2>2. AppendAgrees(i)
    BY DEF Agrees
  <2> QED
    BY <2>1, <2>2 DEF TypeOK, OpTyped, TmpSteps, AppendAgrees, AppendSteps, Moved
<1>2. /\ name' = tmp[i] /\ UNCHANGED <<body, known, indexed, model, fd, seen>>
  BY DEF Replace, dbs
<1>3. name = fd[i] /\ body[tmp[i]] = Append(body[fd[i]], model[i])
  BY <1>1 DEF Safe, Op, OpLock, OpCopy, TmpSteps
<1>4. Catalog' = Append(Catalog, model[i])
  BY <1>1, <1>2, <1>3 DEF Catalog
<1>5. Len(Catalog') = Len(Catalog) + 1 /\ Catalog'[Len(Catalog) + 1] = model[i]
  BY <1>1, <1>4, CatalogTyped
<1>6. AppendAgrees(i)'
  BY <1>1, <1>2, <1>5 DEF AppendAgrees, AppendSteps, Moved
<1> QED
  BY <1>1, <1>2, <1>6, RestAgrees

(* The append is marked: the index gains the one model it lacked.            *)
LEMMA MarkAgrees ==
  ASSUME TypeInv, TypeOK', NEW i \in Installs, Agrees(i), MarkAppended(i), Catalog' = Catalog
  PROVE  Agrees(i)'
<1>1. /\ TypeOK /\ pc[i] = "a_mark" /\ i \in Appenders /\ opened[i] \in Fingerprint
      /\ opened[i] # None /\ opened[i].offset = Len(Catalog)
      /\ known[i] # None /\ known[i].offset \in Nat /\ Len(Catalog) = known[i].offset + 1
      /\ Catalog[Len(Catalog)] = model[i]
  <2>1. TypeOK /\ OpTyped(i) /\ pc[i] = "a_mark"
    BY DEF MarkAppended, TypeInv
  <2>2. AppendAgrees(i)
    BY DEF Agrees
  <2> QED
    BY <2>1, <2>2 DEF TypeOK, OpTyped, AppendAgrees, AppendSteps, Moved, Fingerprint
<1>2. /\ indexed'[i] = indexed[i] \cup {model[i]} /\ known'[i] = opened[i] /\ End(i)
  BY <1>1 DEF MarkAppended, TypeOK
<1>3. indexed[i] = Upto(known[i].offset)
  BY <1>1 DEF Agrees, IndexAgrees
<1>4. 1 .. Len(Catalog) = (1 .. known[i].offset) \cup {Len(Catalog)}
  BY <1>1
<1>5. Upto(Len(Catalog)) = Upto(known[i].offset) \cup {model[i]}
  BY <1>1, <1>4 DEF Upto
<1>6. Upto(known[i].offset)' = Upto(Len(Catalog))
  BY <1>1, <1>2 DEF Upto
<1>7. Len(Catalog) \in Nat
  BY <1>1, CatalogTyped
<1>8. IndexAgrees(i)'
  BY <1>1, <1>2, <1>3, <1>5, <1>6, <1>7 DEF IndexAgrees
<1> QED
  BY <1>1, <1>2, <1>8, EndAgrees

(* A step of i keeps what i itself relies on.                                *)
LEMMA LoneOwn ==
  ASSUME TypeInv, TypeInv', Safe, NEW i \in Installs, Act(i), Agrees(i)
  PROVE  Agrees(i)'
<1>1. TypeOK /\ TypeOK' /\ OpTyped(i) /\ Grown /\ AppendAgrees(i)
  BY GrowsGrown DEF TypeInv, Agrees
<1>2. fd[i] # None => body'[fd[i]] = body[fd[i]]
  <2>1. fd[i] # None => fd[i] \in InUse
    BY <1>1 DEF TypeOK, InUse, Unused
  <2> QED
    BY <2>1, Frozen
<1>3. name' = name => Catalog' = Catalog
  BY CatalogStays
<1>4. ASSUME End(i), UNCHANGED dbs PROVE Agrees(i)'
  <2>1. IndexAgrees(i)'
    BY <1>1, <1>4, IndexStays DEF Agrees, dbs
  <2> QED
    BY <1>1, <1>4, <2>1, EndAgrees
<1>5. CASE BeginRefresh(i) \/ Select(i) \/ \E m \in Models : BeginAppend(i, m)
  <2>1. /\ UNCHANGED <<name, known, indexed, seen>> /\ fd'[i] = None
        /\ pc[i] \in {"idle", "select"}
        /\ \/ pc'[i] \in {"r_ensure", "idle"} /\ (model'[i] # None => i \in Appenders)
           \/ pc'[i] = "a_open" /\ pc[i] = "select" /\ i \in Appenders
    BY <1>1, <1>5 DEF BeginRefresh, Select, BeginAppend, Goto, TypeOK, OpTyped, FdSteps,
         AppendAgrees, disk, dbs, regs
  <2>2. AppendAgrees(i)'
    BY <1>1, <1>3, <2>1 DEF AppendAgrees, AppendSteps, Moved
  <2> QED
    BY <1>1, <2>1, <2>2, RestAgrees
<1>6. CASE EnsureFile(i) \/ WriteBraces(i)
  <2>1. CASE End(i) /\ UNCHANGED dbs
    BY <1>4, <2>1
  <2>2. CASE ~(End(i) /\ UNCHANGED dbs)
    <3>1. /\ UNCHANGED <<known, indexed, seen, model>>
          /\ fd'[i] = None \/ (fd'[i] = name' /\ i \in Appenders)
          /\ pc[i] \in {"r_ensure", "r_init"}
          /\ pc'[i] = "r_open" \/ (pc'[i] = "r_init" /\ i \in Appenders)
      BY <1>1, <1>6, <2>2 DEF EnsureFile, WriteBraces, Goto, TypeOK, OpTyped, FdSteps, dbs, regs
    <3>2. AppendAgrees(i)'
      BY <1>1, <3>1 DEF AppendAgrees, AppendSteps, Moved
    <3> QED
      BY <1>1, <3>1, <3>2, RestAgrees
  <2> QED
    BY <2>1, <2>2
<1>7. CASE OpenToAppend(i) \/ Lock(i) \/ ScanForModel(i) \/ Bounds(i) \/ Copy(i) \/ CheckInode(i)
  <2>1. CASE End(i) /\ UNCHANGED dbs
    BY <1>4, <2>1
  <2>2. CASE ~(End(i) /\ UNCHANGED dbs)
    <3>1. /\ UNCHANGED <<name, known, indexed, seen, model>>
          /\ fd'[i] = fd[i] \/ fd'[i] = name
          /\ pc[i] \in AppendSteps \ Moved /\ pc'[i] \in AppendSteps \ Moved
      <4>1. CASE OpenToAppend(i) \/ Lock(i)
        BY <1>1, <4>1 DEF OpenToAppend, Lock, Goto, TypeOK, AppendSteps, Moved, disk, dbs
      <4>2. CASE ScanForModel(i) \/ Bounds(i) \/ CheckInode(i)
        BY <1>1, <2>2, <4>2 DEF ScanForModel, Bounds, CheckInode, Goto, TypeOK, AppendSteps,
             Moved, disk, dbs, regs
      <4>3. CASE Copy(i)
        BY <1>1, <2>2, <4>3 DEF Copy, Goto, TypeOK, AppendSteps, Moved, disk, dbs
      <4> QED
        BY <1>7, <4>1, <4>2, <4>3
    <3>2. AppendAgrees(i)'
      BY <1>1, <1>3, <3>1 DEF AppendAgrees, AppendSteps, Moved
    <3>3. fd'[i] \in {None, name'} \/ (fd'[i] = fd[i] /\ body'[fd[i]] = body[fd[i]])
      BY <1>2, <3>1
    <3>4. /\ pc[i] \notin {"r_read", "r_commit"}
          /\ pc'[i] \notin {"r_read", "r_commit", "select"}
      BY <3>1 DEF AppendSteps
    <3> QED
      BY <1>1, <3>1, <3>2, <3>3, <3>4, RestAgrees
  <2> QED
    BY <2>1, <2>2
<1>8. CASE Reopen(i)
  <2>1. /\ UNCHANGED <<name, body, known, indexed, seen, model, fd>>
        /\ pc[i] = "a_reopen" /\ pc'[i] = "a_mark" /\ opened'[i] = Stat(name)
        /\ name # None /\ i \in Appenders
    BY <1>1, <1>8 DEF Reopen, Goto, TypeOK, OpTyped, AppendAgrees, AppendSteps, disk, dbs
  <2>2. Stat(name).offset = Len(Catalog)
    BY <2>1 DEF Stat, Catalog
  <2>3. AppendAgrees(i)'
    BY <1>1, <1>3, <2>1, <2>2 DEF AppendAgrees, AppendSteps, Moved
  <2> QED
    BY <1>1, <2>1, <2>3, RestAgrees
<1>9. CASE Open(i) \/ Read(i) \/ Commit(i)
  <2>1. Catalog' = Catalog
    BY <1>3, <1>9 DEF Open, Read, Commit, disk
  <2> QED
    BY <1>1, <1>9, <2>1, OpenAgrees, ReadAgrees, CommitAgrees
<1>10. CASE Replace(i)
  BY <1>1, <1>10, ReplaceAgrees
<1>11. CASE MarkAppended(i)
  <2>1. Catalog' = Catalog
    BY <1>3, <1>11 DEF MarkAppended, disk
  <2> QED
    BY <1>1, <1>11, <2>1, MarkAgrees
<1>12. CASE Crash(i)
  BY <1>4, <1>12 DEF Crash
<1> QED
  BY <1>5, <1>6, <1>7, <1>8, <1>9, <1>10, <1>11, <1>12 DEF Act, Refreshing, Appending

LEMMA LoneNext ==
  ASSUME Lone
  PROVE  LoneInv /\ [Next]_ivars => LoneInv'
<1> SUFFICES ASSUME LoneInv, [Next]_ivars PROVE LoneInv'
  OBVIOUS
<1>1. SafeInv' /\ TypeInv /\ TypeInv' /\ Safe
  BY NextSafe DEF LoneInv, SafeInv
<1>2. ~Edit
  BY DEF Lone, Edit, EditInPlace, EditByRename
<1>3. CASE \E j \in Installs : Act(j)
  <2>1. PICK j \in Installs : Act(j)
    BY <1>3
  <2>2. edits' = edits
    BY <1>1, <2>1, ActFrame
  <2>3. \A i \in Installs : Agrees(i)'
    BY <1>1, <2>1, LoneOwn, LoneOthers DEF LoneInv
  <2> QED
    BY <1>1, <2>2, <2>3 DEF LoneInv
<1>4. CASE UNCHANGED ivars
  <2>1. Catalog' = Catalog
    BY <1>4 DEF ivars, disk, Catalog
  <2>2. ASSUME NEW i \in Installs PROVE Agrees(i)'
    <3>1. /\ UNCHANGED <<name, body, indexed, known, pc, model, fd>>
          /\ UNCHANGED <<at, seen, rebuild, opened>>
      BY <1>4 DEF ivars, disk, dbs, regs
    <3>2. Agrees(i)
      BY DEF LoneInv
    <3>3. FilesAgree(i)' /\ AppendAgrees(i)'
      BY <2>1, <3>1, <3>2 DEF Agrees, FilesAgree, AppendAgrees
    <3>4. IndexAgrees(i)' /\ ScanAgrees(i)'
      BY <2>1, <3>1, <3>2 DEF Agrees, IndexAgrees, ScanAgrees, Upto
    <3> QED
      BY <3>3, <3>4 DEF Agrees
  <2> QED
    BY <1>1, <1>4, <2>2 DEF LoneInv, ivars
<1> QED
  BY <1>2, <1>3, <1>4 DEF Next, Act, Edit

(* A refresh of a catalog that one installation alone appends to leaves an   *)
(* index of exactly its models: the appender's own, that marks what it       *)
(* appended without reading it back, and that of every reader.               *)
THEOREM LoneAppenderIsExact ==
  ASSUME Lone
  PROVE  Spec => []IndexIsExact
<1>1. LoneInv => IndexIsExact
  <2> SUFFICES ASSUME LoneInv, NEW i \in Installs, pc[i] = "select", Unwritten(i)
               PROVE  indexed[i] = Listed(name)
    BY DEF IndexIsExact
  <2>1. TypeOK /\ IndexAgrees(i) /\ ScanAgrees(i)
    BY DEF LoneInv, SafeInv, TypeInv, Agrees
  <2>2. Catalog = body[name] /\ opened[i].offset = Len(Catalog) /\ Len(Catalog) \in Nat
    BY <2>1, CatalogTyped DEF Unwritten, Stat, Catalog
  <2>3. /\ known[i] # None /\ known[i].offset \in Nat
        /\ Len(Catalog) <= known[i].offset /\ known[i].offset <= Len(Catalog)
        /\ indexed[i] = Upto(known[i].offset)
    BY <2>1, <2>2 DEF ScanAgrees, IndexAgrees, TypeOK, Fingerprint
  <2>4. known[i].offset = Len(Catalog)
    BY <2>2, <2>3
  <2> QED
    BY <2>2, <2>3, <2>4 DEF Upto, Listed
<1> QED
  BY <1>1, LoneStarts, LoneNext, PTL DEF Spec

=============================================================================
