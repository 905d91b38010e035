--------------------------- MODULE MCWindowHistory --------------------------
(* WindowHistory with two events.                                          *)
EXTENDS WindowHistory, TLC

Asked(window, club, transfers, inPlace) ==
    [window |-> window, club |-> club, transfers |-> transfers, inPlace |-> inPlace]

(* The automatic run, to the file itself and to another, and without       *)
(* transfers; a run on one club; a first day, and a window that is over.   *)
SomeRequests ==
    {Asked([kind |-> "auto"], FALSE, TRUE, TRUE),
     Asked([kind |-> "auto"], FALSE, TRUE, FALSE),
     Asked([kind |-> "auto"], FALSE, FALSE, TRUE),
     Asked([kind |-> "auto"], TRUE, TRUE, TRUE),
     Asked([kind |-> "since", from |-> LastDay - 1], FALSE, TRUE, TRUE),
     Asked([kind |-> "named", from |-> FirstDay, to |-> FirstDay + 1], FALSE, TRUE, TRUE)}

(* Once the rows of a run are lost, neither property says anything more.   *)
Reported == "unreported" \notin gaps

Symmetry == Permutations(Events)
=============================================================================
