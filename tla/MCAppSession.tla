---------------------------- MODULE MCAppSession ----------------------------
(* One save that can be used and one that cannot, one game folder that fits *)
(* the save; the settings hold nothing or a save that is gone.             *)
EXTENDS AppSession

CONSTANTS good, bad, game
MCFitting == {<<good, game>>}
MCRemembered == {[save |-> Nothing, game |-> game], [save |-> bad, game |-> Nothing]}
\* A version with two digits, then one of an older line that comes out late.
MCPlanned == << <<1, 10, 0>>, <<1, 8, 5>> >>
MCCurrent == <<1, 9, 0>>
MCFound == {[save |-> good, game |-> game], [save |-> Nothing, game |-> Nothing]}
=============================================================================
