--------------------------- MODULE SaveLockProofs ---------------------------
(***************************************************************************)
(* What SaveLock promises for any number of attempts, on every system and  *)
(* whatever remove_file does there to a file that is open: two guards for  *)
(* one save exist together only if the drop of a third took the name from  *)
(* the file of one of them, and not at all where open files keep names.    *)
(***************************************************************************)
EXTENDS SaveLock, TLAPS

(* What closing a handle leaves true of all the others: if the file goes   *)
(* with it, nobody else had it open.                                       *)
LEMMA CloseKeeps ==
    ASSUME IInv, NEW p \in Procs, NEW stage \in {"done", "closed"},
           Close(p), pc' = [pc EXCEPT ![p] = stage], UNCHANGED system
    PROVE  IInv'
<1> USE LockAssumption DEF IInv, TypeOK, Close, files
<1>1. TypeOK'
  OBVIOUS
<1>2. ASSUME NEW q \in (Procs \ overtaken)', fd'[q] # NoInode, pc'[q] # "unlinked"
      PROVE  fd'[q] = entry'
  <2>1. q # p /\ fd'[q] = fd[q] /\ pc'[q] = pc[q]
    BY <1>2
  <2>2. fd[q] = entry
    BY <1>2, <2>1 DEF OpenFilesAreNamed
  <2>3. QED BY <2>1, <2>2
<1>3. LocksAreOwned'
  BY DEF LocksAreOwned
<1>4. QED BY <1>1, <1>2, <1>3 DEF OpenFilesAreNamed

(* What remove_file leaves true, called by a guard that is being dropped:  *)
(* who loses the name of his file is noted.                                *)
LEMMA RemoveKeeps ==
    ASSUME IInv, NEW p \in Procs, RemoveName(p), UNCHANGED <<system, fd, owner>>,
           \/ pc[p] = "held" /\ pc' = [pc EXCEPT ![p] = "unlinked"]
           \/ pc[p] = "closed" /\ pc' = [pc EXCEPT ![p] = "done"]
    PROVE  IInv'
<1> USE LockAssumption DEF IInv, TypeOK
<1>1. TypeOK'
  BY DEF RemoveName
<1>2. ASSUME NEW q \in (Procs \ overtaken)', fd'[q] # NoInode, pc'[q] # "unlinked"
      PROVE  fd'[q] = entry'
  <2>1. q # p /\ q \notin overtaken /\ fd[q] # NoInode /\ pc[q] # "unlinked"
    BY <1>2 DEF RemoveName, LocksAreOwned
  <2>2. fd[q] = entry
    BY <2>1 DEF OpenFilesAreNamed
  <2>3. QED BY <1>2, <2>1, <2>2 DEF RemoveName
<1>3. LocksAreOwned'
  BY DEF LocksAreOwned
<1>4. system \in {"pends", "keeps"} => overtaken' = {}
  BY DEF RemoveName, InUse
<1>5. QED BY <1>1, <1>2, <1>3, <1>4 DEF OpenFilesAreNamed

(* A file that is open and has not lost its name is the named one, and     *)
(* every lock taken is owned, after any sequence of steps of the attempts  *)
(* of lock.rs; where open files keep their names, none has lost it.        *)
THEOREM Inductive == Spec => []IInv
<1> USE LockAssumption
<1>1. Init => IInv
  BY DEF Init, IInv, TypeOK, OpenFilesAreNamed, LocksAreOwned
<1>2. IInv /\ [Next]_vars => IInv'
  <2> SUFFICES ASSUME IInv, [Next]_vars, system' = system
               PROVE  IInv'
    BY DEF Next, vars
  <2> USE DEF files
  <2>1. ASSUME NEW p \in Procs, OpenLockFile(p)
        PROVE  IInv'
    <3>1. entry' \in Inodes
      BY <2>1 DEF OpenLockFile, Unused, IInv, TypeOK
    <3>2. \A q \in Procs \ overtaken :
              fd[q] # NoInode /\ pc[q] # "unlinked" => fd[q] = entry'
      BY <2>1 DEF OpenLockFile, Unused, IInv, OpenFilesAreNamed
    <3>3. QED
      BY <2>1, <3>1, <3>2
      DEF OpenLockFile, IInv, TypeOK, OpenFilesAreNamed, LocksAreOwned
  <2>2. ASSUME NEW p \in Procs, OpenFails(p) \/ WritePid(p)
        PROVE  IInv'
    BY <2>2 DEF OpenFails, WritePid, IInv, TypeOK, OpenFilesAreNamed, LocksAreOwned
  <2>3. ASSUME NEW p \in Procs, TryLock(p)
        PROVE  IInv'
    BY <2>3 DEF TryLock, IInv, TypeOK, OpenFilesAreNamed, LocksAreOwned
  <2>4. ASSUME NEW p \in Procs,
               \/ Refused(p) \/ WritePidFails(p) \/ DropCloseLast(p)
               \/ DropClose(p) \/ Crash(p)
        PROVE  IInv'
    BY <2>4, CloseKeeps
    DEF Refused, WritePidFails, DropCloseLast, DropClose, Crash
  <2>5. ASSUME NEW p \in Procs, DropRemove(p)
        PROVE  IInv'
    BY <2>5, RemoveKeeps DEF DropRemove
  <2>6. ASSUME NEW p \in Procs, DropRemoveLast(p)
        PROVE  IInv'
    BY <2>6, RemoveKeeps DEF DropRemoveLast
  <2>7. CASE UNCHANGED vars
    BY <2>7 DEF vars, IInv, TypeOK, OpenFilesAreNamed, LocksAreOwned
  <2>8. QED
    BY <2>1, <2>2, <2>3, <2>4, <2>5, <2>6, <2>7 DEF Next
<1>3. QED BY <1>1, <1>2, PTL DEF Spec

(* Of "one update may write a given save at a time" (lock.rs:1): two       *)
(* guards need a third attempt that drops its own while one of the two has *)
(* the file open, on any system, and there are never two where remove_file *)
(* leaves the name of an open file alone.                                  *)
THEOREM Exclusive == Spec => []ExclusiveUnlessOvertaken
<1>1. IInv => ExclusiveUnlessOvertaken
  BY LockAssumption
  DEF IInv, TypeOK, OpenFilesAreNamed, LocksAreOwned,
      ExclusiveUnlessOvertaken, MutualExclusion, Holders
<1>2. QED BY <1>1, Inductive, PTL
=============================================================================
