------------------------------ MODULE SaveLock ------------------------------
(***************************************************************************)
(* The per-save lock of crates/fl-engine/src/lock.rs: an advisory lock on  *)
(* a hidden sibling file that is created on demand and removed when the    *)
(* guard is dropped.  A file name (entry) and the file it names (an inode) *)
(* are separate things here, because a process can hold open, and lock, a  *)
(* file whose name is already gone.                                        *)
(*                                                                         *)
(* The operating system's part is external: try_lock never waits, closing *)
(* the handle or dying releases the lock.  What remove_file does to a file *)
(* that is open differs, also outside Unix: the files are opened with      *)
(* std's default sharing, which lets others delete them.                   *)
(***************************************************************************)
EXTENDS Naturals, FiniteSets

CONSTANTS
    Procs,              \* attempts to update one save, each of which takes
                        \* the lock once; a process that retries is several
    Inodes,             \* identities of lock files, one per creation
    NoInode, NoProc,    \* "nothing"
    Systems             \* the systems considered, see remove_file below

ASSUME LockAssumption ==
    /\ NoInode \notin Inodes
    /\ NoProc \notin Procs
    /\ Systems \subseteq {"unix", "unlinks", "pends", "keeps"}

VARIABLES
    system, \* what this program was compiled for and runs on; never changes
    pc,     \* where each attempt is in acquire, in its run, or in drop
    entry,  \* the file the name .<save>.lock refers to
    fd,     \* the lock file each process has open
    owner,  \* the process that holds the advisory lock of a file
    doomed, \* the named file is to be deleted when its last handle closes
    overtaken \* history: attempts that have a file open whose name is gone
              \* because another attempt dropped its guard meanwhile

files == <<entry, doomed>>
vars == <<system, pc, files, fd, owner, overtaken>>

-----------------------------------------------------------------------------
Init ==
    /\ system \in Systems
    /\ pc = [p \in Procs |-> "idle"]
    /\ entry = NoInode
    /\ fd = [p \in Procs |-> NoInode]
    /\ owner = [i \in Inodes |-> NoProc]
    /\ doomed = FALSE
    /\ overtaken = {}

(* Closing the handle, or dying, gives up the lock it carries, and the     *)
(* file with it if this was the last handle of one that is to be deleted.  *)
Close(p) ==
    /\ fd' = [fd EXCEPT ![p] = NoInode]
    /\ owner' = [i \in Inodes |-> IF owner[i] = p THEN NoProc ELSE owner[i]]
    /\ overtaken' = overtaken \ {p}
    /\ IF doomed /\ \A q \in Procs \ {p} : fd[q] # entry
       THEN entry' = NoInode /\ doomed' = FALSE
       ELSE UNCHANGED files

Unused == {i \in Inodes : \A p \in Procs : fd[p] # i} \ {entry}

(* OpenOptions::create(true): the named file, or a new one.                *)
OpenLockFile(p) ==
    /\ pc[p] = "idle"
    /\ ~doomed
    /\ entry' \in IF entry = NoInode THEN Unused ELSE {entry}
    /\ fd' = [fd EXCEPT ![p] = entry']
    /\ pc' = [pc EXCEPT ![p] = "opened"]
    /\ UNCHANGED <<owner, doomed, overtaken>>

(* The directory or the file cannot be opened, as always with one that is  *)
(* to be deleted: LockError::Io.                                           *)
OpenFails(p) ==
    /\ pc[p] = "idle"
    /\ pc' = [pc EXCEPT ![p] = "done"]
    /\ UNCHANGED <<files, fd, owner, overtaken>>

TryLock(p) ==
    /\ pc[p] = "opened"
    /\ owner[fd[p]] = NoProc
    /\ owner' = [owner EXCEPT ![fd[p]] = p]
    /\ pc' = [pc EXCEPT ![p] = "locked"]
    /\ UNCHANGED <<files, fd, overtaken>>

(* Mutant: the guard is there before try_lock has answered, and is dropped *)
(* when it is refused.                                                     *)
RefusedDrops(p) ==
    /\ pc[p] = "opened"
    /\ owner[fd[p]] # NoProc
    /\ fd' = [fd EXCEPT ![p] = NoInode]
    /\ entry' = NoInode
    /\ pc' = [pc EXCEPT ![p] = "done"]
    /\ UNCHANGED <<owner, doomed, overtaken>>

(* WouldBlock: LockError::Held; the handle is closed, the file stays. *)
Refused(p) ==
    /\ pc[p] = "opened"
    /\ owner[fd[p]] # NoProc
    /\ Close(p)
    /\ pc' = [pc EXCEPT ![p] = "done"]

(* The pid is written into the file and the guard is returned. *)
WritePid(p) ==
    /\ pc[p] = "locked"
    /\ pc' = [pc EXCEPT ![p] = "held"]
    /\ UNCHANGED <<files, fd, owner, overtaken>>

(* set_len, write or flush fails: LockError::Io, only the handle goes. *)
WritePidFails(p) ==
    /\ pc[p] = "locked"
    /\ Close(p)
    /\ pc' = [pc EXCEPT ![p] = "done"]

InUse == entry # NoInode /\ \E q \in Procs : fd[q] = entry

(* remove_file(path): removes the name, whichever file it refers to now.   *)
(* If that is open, Unix and current Windows ("unlinks") take the name at  *)
(* once, an older Windows marks the file ("pends"), and others refuse      *)
(* ("keeps").  The error is ignored.                                       *)
RemoveName(p) ==
    /\ entry' = IF InUse /\ system \in {"pends", "keeps"} THEN entry ELSE NoInode
    /\ doomed' = (InUse /\ system = "pends")
    /\ overtaken' = overtaken \cup
           (IF entry' = entry THEN {} ELSE {q \in Procs \ {p} : fd[q] = entry})

DropRemove(p) ==
    /\ system = "unix"
    /\ pc[p] = "held"
    /\ RemoveName(p)
    /\ pc' = [pc EXCEPT ![p] = "unlinked"]
    /\ UNCHANGED <<fd, owner>>

DropCloseLast(p) ==
    /\ pc[p] = "unlinked"
    /\ Close(p)
    /\ pc' = [pc EXCEPT ![p] = "done"]

DropClose(p) ==
    /\ system # "unix"
    /\ pc[p] = "held"
    /\ Close(p)
    /\ pc' = [pc EXCEPT ![p] = "closed"]

DropRemoveLast(p) ==
    /\ pc[p] = "closed"
    /\ RemoveName(p)
    /\ pc' = [pc EXCEPT ![p] = "done"]
    /\ UNCHANGED <<fd, owner>>

(* The process dies anywhere; the file it created stays behind. *)
Crash(p) ==
    /\ pc[p] \notin {"idle", "done"}
    /\ Close(p)
    /\ pc' = [pc EXCEPT ![p] = "done"]

Next ==
    /\ UNCHANGED system
    /\ \E p \in Procs :
        \/ OpenLockFile(p) \/ OpenFails(p) \/ TryLock(p) \/ Refused(p)
        \/ WritePid(p) \/ WritePidFails(p)
        \/ DropRemove(p) \/ DropCloseLast(p)
        \/ DropClose(p) \/ DropRemoveLast(p)
        \/ Crash(p)

Spec == Init /\ [][Next]_vars

-----------------------------------------------------------------------------
TypeOK ==
    /\ system \in Systems
    /\ pc \in [Procs -> {"idle", "opened", "locked", "held",
                         "unlinked", "closed", "done"}]
    /\ entry \in Inodes \cup {NoInode}
    /\ fd \in [Procs -> Inodes \cup {NoInode}]
    /\ owner \in [Inodes -> Procs \cup {NoProc}]
    /\ doomed \in BOOLEAN
    /\ overtaken \subseteq Procs

Holders == {p \in Procs : pc[p] = "held"}

(* "One update may write a given save at a time" (lock.rs:1): two guards   *)
(* for one save never exist together, whatever the order in which other    *)
(* attempts open, lock, close and remove the file, or die.                 *)
MutualExclusion == \A p, q \in Holders : p = q

(* What is left of it: of two guards for one save, the file of one has     *)
(* lost its name under it to the drop of a third, so that no crash, no     *)
(* failure and no refused attempt breaks the lock, and only attempts that  *)
(* meet a drop half-way do.  Where an open file keeps its name, as         *)
(* lock.rs:75 says, not even those: there the lock is exclusive.           *)
ExclusiveUnlessOvertaken ==
    /\ \A p, q \in Holders \ overtaken : p = q
    /\ system \in {"pends", "keeps"} => MutualExclusion

(* Why: every handle but those that have been overtaken, and so every      *)
(* lock that is held through one, is on the file the name refers to, the   *)
(* one a newcomer will open.                                               *)
OpenFilesAreNamed ==
    \A p \in Procs \ overtaken :
        fd[p] # NoInode /\ pc[p] # "unlinked" => fd[p] = entry

LocksAreOwned ==
    /\ \A p \in Procs : pc[p] \in {"idle", "closed"} => fd[p] = NoInode
    /\ \A p \in Procs : pc[p] \in {"opened", "locked", "held"} => fd[p] \in Inodes
    /\ \A p \in Procs : pc[p] \in {"locked", "held"} => owner[fd[p]] = p

(* The type invariant, and the strengthening the proof uses.               *)
IInv ==
    /\ TypeOK
    /\ OpenFilesAreNamed
    /\ LocksAreOwned
    /\ system \in {"pends", "keeps"} => overtaken = {}
=============================================================================
