------------------------------ MODULE ExeSwap ------------------------------
(***************************************************************************)
(* The swap of the running executable for a downloaded one                 *)
(* (crates/fl-update/src/replace.rs), seen as the three names next to each *)
(* other that it renames and removes: the executable itself, .old and      *)
(* .new.  Several instances of the app may run at once; each runs the      *)
(* launch-time clean-up on a thread of its own beside its installer, and   *)
(* each may be closed, or die, between any two steps: the window only      *)
(* waits for a save update, never for the self-update                      *)
(* (crates/fl-app/src/gui/mod.rs:496-512).                                 *)
(*                                                                         *)
(* External: the file system of the shipped target, Windows.  A file that  *)
(* is executing may be renamed but neither removed nor replaced            *)
(* (replace.rs:3-5 and 165); a file being written is opened exclusively;   *)
(* a rename replaces a target that is not executing; a file cut short does *)
(* not start.  Any operation may also fail for a reason of its own.        *)
(***************************************************************************)
EXTENDS Naturals

CONSTANTS
    Procs,      \* instances of the app
    None,       \* no file, no process image
    MaxCopies   \* bound: copies of a downloaded executable ever started

ASSUME SwapAssumption ==
    /\ MaxCopies \in Nat
    /\ None \notin Nat

VARIABLES
    cur, old, new,  \* the file under each name; 0 is the first executable
    made,           \* number of copies started; copy n is file n
    whole,          \* the files that are complete
    image,          \* the file each instance executes
    pc,             \* the step of replace_current_exe its installer is at
    copy,           \* the copy that installer made last
    clean           \* the step its launch-time clean-up is at

files == <<cur, old, new>>
swapVars == <<cur, old, new, made, whole, image, pc, copy, clean>>

Files == 0 .. MaxCopies

SwapSteps == {"off", "idle", "removeOld", "removeNew", "copy", "copying", "flush",
          "aside", "install", "rollback", "undo", "installed", "restarting"}

SwapTypeOK ==
    /\ {cur, old, new} \subseteq Files \cup {None}
    /\ made \in Files
    /\ whole \subseteq Files
    /\ image \in [Procs -> Files \cup {None}]
    /\ pc \in [Procs -> SwapSteps]
    /\ copy \in [Procs -> Files]
    /\ clean \in [Procs -> {"old", "new", "done"}]

-----------------------------------------------------------------------------
(* The file system.                                                        *)

Running(f) == f # None /\ \E p \in Procs : image[p] = f

Open(f) == f # None /\ \E p \in Procs : pc[p] = "copying" /\ copy[p] = f

Held(f) == Running(f) \/ Open(f)

(* What a remove_file may leave under a name that refers to f. *)
Removed(f) == IF Held(f) THEN {f} ELSE {f, None}

Goto(p, step) == pc' = [pc EXCEPT ![p] = step]

-----------------------------------------------------------------------------
SwapInit ==
    /\ cur = 0 /\ old = None /\ new = None
    /\ made = 0
    /\ whole = {0}
    /\ image = [p \in Procs |-> None]
    /\ pc = [p \in Procs |-> "off"]
    /\ copy = [p \in Procs |-> 0]
    /\ clean = [p \in Procs |-> "done"]

(* Started from the executable's own path, by the user or by restart. *)
Launched(p, image0) ==
    /\ pc[p] = "off"
    /\ cur \in whole
    /\ image' = [image0 EXCEPT ![p] = cur]
    /\ clean' = [clean EXCEPT ![p] = "old"]

Launch(p) ==
    /\ Launched(p, image)
    /\ Goto(p, "idle")
    /\ UNCHANGED <<files, made, whole, copy>>

(* cleanup_after_update: every error is ignored. *)
CleanOld(p) ==
    /\ pc[p] # "off" /\ clean[p] = "old"
    /\ old' \in Removed(old)
    /\ clean' = [clean EXCEPT ![p] = "new"]
    /\ UNCHANGED <<cur, new, made, whole, image, pc, copy>>

CleanNew(p) ==
    /\ pc[p] # "off" /\ clean[p] = "new"
    /\ new' \in Removed(new)
    /\ clean' = [clean EXCEPT ![p] = "done"]
    /\ UNCHANGED <<cur, old, made, whole, image, pc, copy>>

(* The user installs an offered version: fs::metadata needs the file. *)
Begin(p) ==
    /\ pc[p] = "idle"
    /\ cur # None
    /\ Goto(p, "removeOld")
    /\ UNCHANGED <<files, made, whole, image, copy, clean>>

RemoveOld(p) ==
    /\ pc[p] = "removeOld"
    /\ old' \in Removed(old)
    /\ Goto(p, IF old' = None THEN "removeNew" ELSE "idle")
    /\ UNCHANGED <<cur, new, made, whole, image, copy, clean>>

RemoveNew(p) ==
    /\ pc[p] = "removeNew"
    /\ new' \in Removed(new)
    /\ Goto(p, IF new' = None THEN "copy" ELSE "idle")
    /\ UNCHANGED <<cur, old, made, whole, image, copy, clean>>

(* fs::copy truncates a file another instance has finished meanwhile. *)
StartCopy(p) ==
    /\ pc[p] = "copy"
    /\ ~Held(new)
    /\ made < MaxCopies
    /\ made' = made + 1
    /\ new' = made'
    /\ copy' = [copy EXCEPT ![p] = made']
    /\ Goto(p, "copying")
    /\ UNCHANGED <<cur, old, whole, image, clean>>

EndCopy(p) ==
    /\ pc[p] = "copying"
    /\ whole' = whole \cup {copy[p]}
    /\ Goto(p, "flush")
    /\ UNCHANGED <<files, made, image, copy, clean>>

(* set_permissions and sync_all go by the name, whatever it refers to. *)
Flush(p) ==
    /\ pc[p] = "flush"
    /\ new # None
    /\ Goto(p, "aside")
    /\ UNCHANGED <<files, made, whole, image, copy, clean>>

PrepareFails(p) ==
    /\ pc[p] \in {"copy", "copying", "flush"}
    /\ Goto(p, "undo")
    /\ UNCHANGED <<files, made, whole, image, copy, clean>>

(* Mutant: the executable is copied to .old instead of moved there.        *)
AsideCopies(p) ==
    /\ pc[p] = "aside"
    /\ cur # None /\ ~Held(old)
    /\ old' = cur
    /\ Goto(p, "install")
    /\ UNCHANGED <<cur, new, made, whole, image, copy, clean>>

(* rename(current_exe, .old) *)
Aside(p) ==
    /\ pc[p] = "aside"
    /\ \/ /\ cur # None /\ ~Held(old)
          /\ old' = cur
          /\ cur' = None
          /\ Goto(p, "install")
       \/ /\ Goto(p, "undo")
          /\ UNCHANGED <<cur, old>>
    /\ UNCHANGED <<new, made, whole, image, copy, clean>>

(* rename(.new, current_exe) *)
Install(p) ==
    /\ pc[p] = "install"
    /\ \/ /\ new # None /\ ~Held(new) /\ ~Held(cur)
          /\ cur' = new
          /\ new' = None
          /\ Goto(p, "installed")
       \/ /\ Goto(p, "rollback")
          /\ UNCHANGED <<cur, new>>
    /\ UNCHANGED <<old, made, whole, image, copy, clean>>

(* Mutant: the roll-back moves .old to the wrong name.                     *)
RollbackToNew(p) ==
    /\ pc[p] = "rollback"
    /\ old # None /\ ~Held(new)
    /\ new' = old
    /\ old' = None
    /\ Goto(p, "undo")
    /\ UNCHANGED <<cur, made, whole, image, copy, clean>>

(* Mutant: the roll-back retries .new instead of restoring .old.           *)
RollbackRetries(p) ==
    /\ pc[p] = "rollback"
    /\ new # None /\ ~Held(new) /\ ~Held(cur)
    /\ cur' = new
    /\ new' = None
    /\ Goto(p, "undo")
    /\ UNCHANGED <<old, made, whole, image, copy, clean>>

(* rename(.old, current_exe); its own failure is only reported. *)
Rollback(p) ==
    /\ pc[p] = "rollback"
    /\ \/ /\ old # None /\ ~Held(cur)
          /\ cur' = old
          /\ old' = None
       \/ UNCHANGED <<cur, old>>
    /\ Goto(p, "undo")
    /\ UNCHANGED <<new, made, whole, image, copy, clean>>

(* The failure paths remove .new and return the error. *)
Undo(p) ==
    /\ pc[p] = "undo"
    /\ new' \in Removed(new)
    /\ Goto(p, "idle")
    /\ UNCHANGED <<cur, old, made, whole, image, copy, clean>>

(* restart: a new instance, or the error of a file that does not start. *)
Restart(p, q) ==
    /\ pc[p] = "installed"
    /\ Launched(q, image)
    /\ pc' = [pc EXCEPT ![p] = "restarting", ![q] = "idle"]
    /\ UNCHANGED <<files, made, whole, copy>>

RestartFails(p) ==
    /\ pc[p] = "installed"
    /\ Goto(p, "idle")
    /\ UNCHANGED <<files, made, whole, image, copy, clean>>

(* The window is closed, or the process dies; its threads die with it. *)
Exit(p) ==
    /\ pc[p] # "off"
    /\ image' = [image EXCEPT ![p] = None]
    /\ clean' = [clean EXCEPT ![p] = "done"]
    /\ Goto(p, "off")
    /\ UNCHANGED <<files, made, whole, copy>>

SwapNext == \E p \in Procs :
    \/ Launch(p) \/ CleanOld(p) \/ CleanNew(p)
    \/ Begin(p) \/ RemoveOld(p) \/ RemoveNew(p)
    \/ StartCopy(p) \/ EndCopy(p) \/ Flush(p) \/ PrepareFails(p)
    \/ Aside(p) \/ Install(p) \/ Rollback(p) \/ Undo(p)
    \/ \E q \in Procs : Restart(p, q)
    \/ RestartFails(p) \/ Exit(p)

SwapSpec == SwapInit /\ [][SwapNext]_swapVars

-----------------------------------------------------------------------------
(* Every instance executes a complete file that is still under one of the  *)
(* two names a user can start or restore it from (replace.rs:79-86).       *)
ImagesKept == \A p \in Procs :
    IF pc[p] = "off" THEN image[p] = None
    ELSE image[p] # None /\ image[p] \in whole \cap {cur, old}

(* Whatever instances install, clean up, fail, or die between two steps, a *)
(* complete executable stays at its path or at .old: the two renames, the  *)
(* roll-back and the clean-up never lose the last one.                     *)
RecoverableExe == whole \cap {cur, old} # {}

(* The strengthening that is inductive. *)
SwapInv == SwapTypeOK /\ ImagesKept /\ RecoverableExe

(* While an instance is between the two renames no other instance is, and  *)
(* its own executable waits under .old: the roll-back (replace.rs:87) has  *)
(* something to roll back to, even if others start an install meanwhile.   *)
Between == {p \in Procs : pc[p] \in {"install", "rollback"}}

SwapAlone == \A p \in Between :
    /\ cur = None
    /\ old = image[p]
    /\ Between = {p}

(* "On failure `current_exe` is left exactly as it was" (replace.rs:47):   *)
(* a roll-back that puts anything back puts back the executable that is    *)
(* running, not one of another instance.                                   *)
RollbackRestores == [][\A p \in Procs :
    pc[p] = "rollback" /\ pc'[p] = "undo" /\ cur' # None =>
        cur' = image[p]]_swapVars

(* "Replace `current_exe` with the staged executable" (replace.rs:44-45):  *)
(* after a replacement reported as done, the file at the path is whole.    *)
(* Violated: .new is shared by all instances and is not looked at again    *)
(* between its flush and its rename.                                       *)
InstalledIsWhole == \A p \in Procs : pc[p] = "installed" => cur \in whole
=============================================================================
