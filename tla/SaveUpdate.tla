---------------------------- MODULE SaveUpdate ------------------------------
(***************************************************************************)
(* What an update run promises about the save files, with nothing of how   *)
(* it does it: a run replaces the file it was asked to write at most once  *)
(* and as a whole, never after it accepted a cancel request, never when it *)
(* is a preview, and it never changes another file.                        *)
(***************************************************************************)
CONSTANTS Runs, Paths, Foreign, Absent, Requests

VARIABLES
    req,     \* what each run was asked to do
    disk,    \* the save files
    status   \* open, cancelled, published or ended, per run

vars == <<req, disk, status>>

Init ==
    /\ req \in [Runs -> Requests]
    /\ disk \in [Paths -> Foreign \cup {Absent}]
    /\ status = [r \in Runs |-> "open"]

AcceptCancel(r) ==
    /\ status[r] = "open"
    /\ status' = [status EXCEPT ![r] = "cancelled"]
    /\ UNCHANGED <<req, disk>>

Publish(r) ==
    /\ status[r] = "open"
    /\ ~req[r].dry
    /\ disk' = [disk EXCEPT ![req[r].target] = r]
    /\ status' = [status EXCEPT ![r] = "published"]
    /\ UNCHANGED req

Stop(r) ==
    /\ status[r] \in {"open", "cancelled"}
    /\ status' = [status EXCEPT ![r] = "ended"]
    /\ UNCHANGED <<req, disk>>

OthersWrite(p) ==
    /\ \E c \in Foreign \cup {Absent} : disk' = [disk EXCEPT ![p] = c]
    /\ UNCHANGED <<req, status>>

Next ==
    \/ \E r \in Runs : AcceptCancel(r) \/ Publish(r) \/ Stop(r)
    \/ \E p \in Paths : OthersWrite(p)

Spec == Init /\ [][Next]_vars
=============================================================================
