------------------------------- MODULE Setup -------------------------------
(***************************************************************************)
(* The choices on the setup screen (crates/fl-app/src/gui/setup.rs and the *)
(* half of gui/mod.rs that checks them): a save and a game folder, checked *)
(* by a probe on a thread of its own each time one changes, while another  *)
(* thread looks for saves and a game folder on this PC. Their answers wait *)
(* in one channel. A probe's answer counts when its generation is the one  *)
(* of the setup; a run can start once both choices are checked.            *)
(*                                                                         *)
(* A path stands for what a probe finds there: files do not change under   *)
(* the app, and the typed text, the parts and the settings are left out.   *)
(***************************************************************************)
EXTENDS Naturals, Sequences, SequencesExt

CONSTANTS
    Saves, Games,    \* paths the user may choose
    Nothing,         \* no path
    Readable,        \* saves that resolve, decrypt and pass the check
    Installed,       \* folders with game archives
    Fitting,         \* pairs where the game knows the save's players
    Remembered,      \* what settings.json may hold: [save, game]
    Found,           \* what the detection may find: [save, game]
    MaxChoices       \* bound: checks up to which the user changes a choice

PathPairs == [save : Saves \cup {Nothing}, game : Games \cup {Nothing}]

ASSUME SetupAssumption ==
    /\ Readable \subseteq Saves /\ Installed \subseteq Games /\ Fitting \subseteq Saves \X Games
    /\ Nothing \notin Saves \cup Games /\ MaxChoices \in Nat \ {0}
    /\ Remembered \subseteq PathPairs /\ Found \subseteq PathPairs

VARIABLES
    choice,      \* save_path and game_path
    verdict,     \* their statuses
    generation,
    probes,      \* probe threads at work: [generation, choice]
    detecting,   \* the detection thread is at work
    mailbox      \* App::background

setup == <<choice, verdict, generation, probes, detecting, mailbox>>

\* What a probe says of a pair of paths; a save that is ready comes with its
\* resolved path.
Verdict(c) ==
    LET ready == c.save \in Readable
        usable == c.game \in Installed
    IN  [save |-> IF c.save = Nothing THEN "empty" ELSE IF ready THEN "ready" ELSE "invalid",
         path |-> IF ready THEN c.save ELSE Nothing,
         game |-> IF c.game = Nothing THEN "empty"
                  ELSE IF ~usable THEN "unusable"
                  ELSE IF ready /\ <<c.save, c.game>> \notin Fitting THEN "mismatch" ELSE "usable"]

Checking(c) ==
    [save |-> IF c.save = Nothing THEN "empty" ELSE "checking", path |-> Nothing,
     game |-> IF c.game = Nothing THEN "empty" ELSE "checking"]

-----------------------------------------------------------------------------
\* The setup as the UI thread changes it, one call after the other.
State == [choice |-> choice, verdict |-> verdict, generation |-> generation, probes |-> probes]

\* Mutant: the thread is given the generation of the probe before.
ProbedLate(s, c) ==
    [choice |-> c, verdict |-> Checking(c), generation |-> s.generation + 1,
     probes |-> s.probes \cup {[generation |-> s.generation, choice |-> c]}]

\* App::probe, after the choice became c.
Probed(s, c) ==
    [choice |-> c, verdict |-> Checking(c), generation |-> s.generation + 1,
     probes |-> s.probes \cup {[generation |-> s.generation + 1, choice |-> c]}]

\* App::detected: the first save found fills an empty choice, or replaces one
\* whose check has failed by now; a game folder fills an empty choice.
Detected(s, found) ==
    LET takesSave == found.save # Nothing /\ (s.choice.save = Nothing \/ s.verdict.save = "invalid")
        takesGame == found.game # Nothing /\ s.choice.game = Nothing
    IN  IF ~takesSave /\ ~takesGame THEN s
        ELSE Probed(s, [save |-> IF takesSave THEN found.save ELSE s.choice.save,
                        game |-> IF takesGame THEN found.game ELSE s.choice.game])

\* Mutant: the answer of an older probe counts as well.
WantedAny(s, message) == TRUE
Wanted(s, message) == message.generation = s.generation

\* One message of App::poll.
Received(s, message) ==
    IF message.kind = "detected" THEN Detected(s, message.found)
    ELSE IF Wanted(s, message) THEN [s EXCEPT !.verdict = message.verdict] ELSE s

Becomes(s) ==
    /\ choice' = s.choice /\ verdict' = s.verdict
    /\ generation' = s.generation /\ probes' = s.probes

\* SetupState::ready: no blockers.
Ready(s) == s.verdict.save = "ready" /\ s.verdict.game = "usable"

\* SetupState::request: the save as the probe resolved it, the folder as chosen.
Request(s) == [save |-> s.verdict.path, game |-> s.choice.game]

-----------------------------------------------------------------------------
\* The first frame probes what the settings hold and starts the detection.
SetupInit ==
    /\ choice \in Remembered
    /\ verdict = Checking(choice)
    /\ generation = 1
    /\ probes = {[generation |-> 1, choice |-> choice]}
    /\ detecting = TRUE
    /\ mailbox = <<>>

\* A session whose checks are done.
SettledInit ==
    /\ choice \in {c \in PathPairs : <<c.save, c.game>> \in Fitting}
    /\ verdict = Verdict(choice)
    /\ generation = 1
    /\ probes = {} /\ detecting = FALSE /\ mailbox = <<>>

\* App::poll takes everything out of the channel.
TakeAnswers ==
    /\ Becomes(FoldLeft(Received, State, mailbox))
    /\ mailbox' = <<>>
    /\ UNCHANGED detecting

\* SaveChosen, SaveCleared, GameChosen and GameCleared.
Choose ==
    /\ generation < MaxChoices
    /\ \E c \in PathPairs :
          /\ c # choice /\ (c.save = choice.save \/ c.game = choice.game)
          /\ Becomes(Probed(State, c))
    /\ UNCHANGED <<detecting, mailbox>>

\* BackToSetup checks the same choices again.
CheckAgain ==
    /\ Becomes(Probed(State, choice))
    /\ UNCHANGED <<detecting, mailbox>>

\* ChooseGameFolderAfterFailure: back, and a folder chosen in the same call.
ChooseAnotherGame ==
    /\ \E game \in Games :
          Becomes(Probed(Probed(State, choice), [choice EXCEPT !.game = game]))
    /\ UNCHANGED <<detecting, mailbox>>

ProbeAnswers(p) ==
    /\ p \in probes
    /\ probes' = probes \ {p}
    /\ mailbox' = Append(mailbox, [kind |-> "probed", generation |-> p.generation,
                                   verdict |-> Verdict(p.choice)])
    /\ UNCHANGED <<choice, verdict, generation, detecting>>

DetectionAnswers ==
    /\ detecting
    /\ detecting' = FALSE
    /\ \E found \in Found : mailbox' = Append(mailbox, [kind |-> "detected", found |-> found])
    /\ UNCHANGED <<choice, verdict, generation, probes>>

-----------------------------------------------------------------------------
Probe == [generation : Nat, choice : PathPairs]

Answer ==
    [kind : {"probed"}, generation : Nat, verdict : {Verdict(c) : c \in PathPairs}]
        \cup [kind : {"detected"}, found : Found]

(* A probe, or its answer, is about the choice there is now if it has the  *)
(* generation of the setup; otherwise it is an older one.                  *)
CurrentProbe(s, p) ==
    /\ p.generation <= s.generation
    /\ p.generation = s.generation => p.choice = s.choice

CurrentAnswer(s, a) ==
    a.kind = "probed" =>
        /\ a.generation <= s.generation
        /\ a.generation = s.generation => a.verdict = Verdict(s.choice)

(* What is said of the choice is that it is being checked, or its verdict. *)
SoundSetup(s) ==
    /\ s.choice \in PathPairs /\ s.generation \in Nat
    /\ s.verdict \in {Checking(s.choice), Verdict(s.choice)}
    /\ s.probes \subseteq Probe /\ \A p \in s.probes : CurrentProbe(s, p)

(* The detection answers once.                                             *)
DetectedAt(i) == mailbox[i].kind = "detected"

MailboxFacts ==
    /\ mailbox \in Seq(Answer)
    /\ \A i \in DOMAIN mailbox :
          /\ CurrentAnswer(State, mailbox[i])
          /\ DetectedAt(i) => ~detecting /\ \A j \in DOMAIN mailbox : DetectedAt(j) => j = i

(* A detection at work or on its way may still change the choice.          *)
Undetected == detecting \/ \E i \in DOMAIN mailbox : DetectedAt(i)

SetupFacts == SoundSetup(State) /\ MailboxFacts
=============================================================================
