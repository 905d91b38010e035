----------------------------- MODULE AppSession -----------------------------
(***************************************************************************)
(* The window of the app (crates/fl-app/src/gui/mod.rs) with its kinds of  *)
(* background work: one save update (session.rs), the app's own update     *)
(* (selfupdate.rs), and the checks of the setup screen (Setup).  The UI    *)
(* thread only acts in frames; a worker puts its answer in a channel and   *)
(* then wakes the UI.  The questions are what a close request does to all  *)
(* that, as every worker dies with the window, and what a run is started   *)
(* on.                                                                     *)
(*                                                                         *)
(* A frame is three steps: Logic answers the close button, Poll takes what *)
(* the workers sent, Act draws and carries out one click.  Workers run     *)
(* between any two of them.                                                *)
(*                                                                         *)
(* External: egui and eframe.  request_repaint is worth two frames (egui   *)
(* lets things settle), request_repaint_after one; a Close command comes   *)
(* back as the close request of the next frame; a frame with a close       *)
(* request ends the program unless it said CancelClose; a widget can be    *)
(* clicked once a frame has drawn it.                                      *)
(***************************************************************************)
EXTENDS Setup, AppUpdate

CONSTANTS
    Users,      \* bound: what the user of a session does, see Init
    MaxRuns,    \* bound: save updates the user starts in one session
    MaxWakes    \* bound: workers that have sent but not yet woken the UI

ASSUME SessionAssumption ==
    Users \subseteq {"leaves", "chooses", "updates"} /\ MaxRuns \in Nat /\ MaxWakes \in Nat \ {0}

VARIABLES
    user,           \* the kind of user of this session
    window,         \* "open", or "closed" with every thread gone
    phase,          \* next step of the UI thread: "logic", "poll", "act"
    leaving,        \* this frame had a close request nobody cancelled
    closeEvent,     \* the next frame sees a close request
    closeWhenIdle,  \* App::close_when_idle
    run,            \* App::run is some
    token,          \* state of that run's CancelToken
    engine,         \* what its worker thread is doing
    finished,       \* RunEvent::Finished is in the run's channel
    update,         \* SelfUpdate::state
    updater,        \* the worker of the self-update
    answer,         \* its event in the channel
    repaints,       \* frames egui owes us
    timer,          \* a repaint_after is pending
    screen,         \* App::screen: "setup", "running" or "result"
    drawn,          \* the screen the last frame drew
    request,        \* of the run, or of the result on the screen
    wakes,          \* workers that sent their answer but did not yet wake us
    runs            \* save updates started so far

closing == <<leaving, closeEvent, closeWhenIdle>>
saving == <<run, token, engine, finished>>
updating == <<update, updater, answer, release>>
painting == <<repaints, timer>>
pages == <<screen, drawn, request, user>>
vars == <<setup, window, phase, closing, saving, updating, painting, pages,
          wakes, runs>>

Busy(state) == state \in {"checking", "downloading", "restarting"}

(* "notNewer" is also the answer of a check that failed. *)
Answers == {"newer", "notNewer", "installed", "installFailed"}

TypeOK ==
    /\ window \in {"open", "closed"}
    /\ phase \in {"logic", "poll", "act"}
    /\ {leaving, closeEvent, closeWhenIdle, run, finished, timer}
           \subseteq BOOLEAN
    /\ user \in Users
    /\ screen \in {"setup", "running", "result"}
    /\ drawn \in {"setup", "running", "result", "none"}
    /\ choice \in PathPairs /\ generation \in 1 .. MaxChoices + 1 + 2 * MaxRuns
    /\ token \in {"idle", "requested", "committing"}
    /\ engine \in {"none", "working", "committing"}
    /\ update \in {"quiet", "available", "checking", "downloading", "restarting"}
    /\ updater \in {"none", "checking", "installing"}
    /\ answer \in Answers \cup {"nothing"}
    /\ repaints \in 0 .. 2
    /\ wakes \in 0 .. MaxWakes
    /\ runs \in 0 .. MaxRuns

-----------------------------------------------------------------------------
NoRequest == [save |-> Nothing, game |-> Nothing, dry |-> FALSE]

(* The user who leaves finds his choices checked, previews and updates, and *)
(* may close the window or update the app at any time; the one who chooses *)
(* starts with the first frame, which probes and detects, changes his mind *)
(* and comes back from the result.  To let one user do all of it only      *)
(* multiplies the states.                                                  *)
(* The first frame starts the silent check when the app is told to         *)
(* (App::poll, 212-218). The third only checks for updates of the app and  *)
(* installs them, step by step.                                            *)
Init ==
    /\ user \in Users
    /\ IF user = "chooses" THEN SetupInit ELSE SettledInit
    /\ update = IF user = "chooses" THEN "quiet" ELSE "checking"
    /\ updater = IF user = "chooses" THEN "none" ELSE "checking"
    /\ ReleaseInit /\ job = IF user = "updates" THEN CheckJob ELSE NoJob
    /\ window = "open" /\ phase = "logic"
    /\ leaving = FALSE /\ closeEvent = FALSE /\ closeWhenIdle = FALSE
    /\ run = FALSE /\ token = "idle" /\ engine = "none" /\ finished = FALSE
    /\ answer = "nothing"
    /\ repaints = 2 /\ timer = TRUE
    /\ screen = "setup" /\ drawn = "none" /\ request = NoRequest
    /\ wakes = 0
    /\ runs = 0

(* CancelToken::request: refused once the commit has begun.                *)
Requested(t) == IF t = "idle" THEN "requested" ELSE t

(* Mutant: a run that is not writing yet does not hold the window.         *)
HoldsIfWriting == run /\ token = "committing"

HoldsWindow == run

(* handle_close_request, at the start of a frame.                          *)
Logic ==
    /\ window = "open" /\ phase = "logic"
    /\ repaints > 0 \/ timer \/ closeEvent
    /\ LET held == closeEvent /\ HoldsWindow
           closes == (closeWhenIdle \/ held) /\ ~run
       IN  /\ closeWhenIdle' = (closeWhenIdle \/ held)
           /\ token' = IF held THEN Requested(token) ELSE token
           /\ leaving' = (closeEvent /\ ~held)
           /\ closeEvent' = closes
           /\ repaints' = IF held \/ closes THEN 2
                          ELSE IF repaints > 0 THEN repaints - 1 ELSE 0
    /\ timer' = FALSE
    /\ phase' = "poll"
    /\ UNCHANGED <<setup, window, run, engine, finished, updating, pages, wakes, runs>>

(* SelfUpdate::poll: the state the worker's answer leads to.               *)
Answered ==
    CASE answer = "nothing" -> update
      [] answer = "newer" -> "available"
      [] answer = "installed" -> "restarting"
      [] OTHER -> "quiet"

(* App::poll and poll_run; show asks for a repaint while work is going on. *)
Poll ==
    /\ phase = "poll"
    /\ TakeAnswers
    /\ run' = (run /\ ~finished)
    /\ screen' = IF run /\ finished THEN "result" ELSE screen
    /\ finished' = FALSE
    /\ update' = Answered
    /\ answer' = "nothing"
    /\ closeWhenIdle' = (closeWhenIdle \/ update' = "restarting")
    /\ timer' = (run' \/ Busy(update'))
    /\ phase' = "act"
    /\ UNCHANGED <<window, leaving, closeEvent, token, engine, updater, release,
                   repaints, drawn, request, user, wakes, runs>>

(* The end of a frame: eframe leaves, or waits for the next one.           *)
EndFrame ==
    /\ phase = "act"
    /\ phase' = "logic"
    /\ window' = IF leaving THEN "closed" ELSE "open"
    /\ drawn' = screen
    /\ UNCHANGED <<leaving, closeEvent, closeWhenIdle, timer, wakes>>

(* A widget can be clicked once the screen it is on has been drawn.        *)
Shows(page) == screen = page /\ drawn = page

(* A frame in which nothing is clicked. *)
ActNothing ==
    /\ EndFrame
    /\ UNCHANGED <<setup, saving, updating, screen, request, user, repaints, runs>>

(* begin: a run and its worker, on the running screen. *)
BeginRun(what) ==
    /\ runs < MaxRuns
    /\ runs' = runs + 1
    /\ run' = TRUE
    /\ token' = "idle"
    /\ engine' = "working"
    /\ repaints' = 2
    /\ screen' = "running"
    /\ request' = what
    /\ UNCHANGED <<setup, finished, updating, user>>

(* Preview and Update.  A choice made in the same frame comes first and    *)
(* leaves the request without an answer, so that nothing is started.       *)
ActStart ==
    /\ EndFrame
    /\ Shows("setup") /\ Ready(State) /\ user # "updates"
    /\ \E dry \in {FALSE, user = "leaves"} :
          BeginRun([save |-> Request(State).save, game |-> Request(State).game, dry |-> dry])

(* Update after a preview: the request of the preview once more.           *)
ActAfterPreview ==
    /\ EndFrame
    /\ Shows("result") /\ request.dry
    /\ BeginRun([request EXCEPT !.dry = FALSE])

ActChoose ==
    /\ EndFrame
    /\ Shows("setup") /\ user = "chooses"
    /\ Choose
    /\ repaints' = 2
    /\ UNCHANGED <<saving, updating, screen, request, user, runs>>

(* Back, or another game folder after a run that could not use this one.   *)
ActBack ==
    /\ EndFrame
    /\ Shows("result") /\ user = "chooses"
    /\ runs < MaxRuns       \* bound: no way back after the last run
    /\ CheckAgain \/ ChooseAnotherGame
    /\ screen' = "setup" /\ request' = NoRequest
    /\ repaints' = 2
    /\ UNCHANGED <<saving, updating, user, runs>>

ActCancel ==
    /\ EndFrame
    /\ run /\ Shows("running")
    /\ token' = Requested(token)
    /\ repaints' = 2
    /\ UNCHANGED <<setup, run, engine, finished, updating, screen, request, user, runs>>

(* Mutant: check does not ask whether a worker is busy already.            *)
CanCheckAlways == ~run

CanCheck == ~run /\ ~Busy(update)

(* The buttons at the foot of both idle screens. *)
FootShown == ~run /\ drawn \in {"setup", "result"} /\ user # "chooses"

ActCheck ==
    /\ EndFrame
    /\ CanCheck /\ FootShown
    /\ update' = "checking"
    /\ updater' = "checking"
    /\ job' = IF user = "updates" THEN CheckJob ELSE NoJob
    /\ offer' = <<>>
    /\ repaints' = 2
    /\ UNCHANGED <<setup, saving, answer, releasing, staging, installed, screen, request, user, runs>>

ActInstall ==
    /\ EndFrame
    /\ FootShown
    /\ update = "available"
    /\ update' = "downloading"
    /\ updater' = "installing"
    /\ job' = IF user = "updates" THEN InstallJob ELSE NoJob
    /\ repaints' = 2
    /\ UNCHANGED <<setup, saving, answer, releasing, offer, staging, installed, screen, request, user, runs>>

Act ==
    \/ ActNothing \/ ActStart \/ ActAfterPreview \/ ActChoose \/ ActBack
    \/ ActCancel \/ ActCheck \/ ActInstall

-----------------------------------------------------------------------------
(* The user: any input makes a frame; the close button makes a request.    *)

Input ==
    /\ window = "open"
    /\ repaints' = 2
    /\ UNCHANGED <<setup, window, phase, closing, saving, updating, timer, pages,
                   wakes, runs>>

CloseButton ==
    /\ window = "open" /\ user # "chooses"
    /\ closeEvent' = TRUE
    /\ UNCHANGED <<setup, window, phase, leaving, closeWhenIdle, saving, updating,
                   painting, pages, wakes, runs>>

-----------------------------------------------------------------------------
(* The workers.                                                            *)

(* CancelToken::begin_commit, by the engine.                               *)
BeginCommit ==
    /\ window = "open"
    /\ engine = "working" /\ token = "idle"
    /\ token' = "committing"
    /\ engine' = "committing"
    /\ UNCHANGED <<setup, window, phase, closing, run, finished, updating, painting,
                   pages, wakes, runs>>

(* Mutant: the worker wakes the UI only before its answer is in the        *)
(* channel, which the UI has long forgotten.                               *)
EndRunUnannounced ==
    /\ window = "open"
    /\ engine # "none"
    /\ engine' = "none"
    /\ finished' = TRUE
    /\ UNCHANGED <<setup, window, phase, closing, run, token, updating, painting,
                   pages, wakes, runs>>

(* Mutant: a panic of the engine ends the thread without an answer.        *)
EndRunSilently ==
    /\ window = "open"
    /\ engine # "none"
    /\ wakes < MaxWakes
    /\ engine' = "none"
    /\ finished' \in BOOLEAN
    /\ wakes' = wakes + 1
    /\ UNCHANGED <<setup, window, phase, closing, run, token, updating, painting,
                   pages, runs>>

(* The engine returns, or panics and is caught: Finished is sent.          *)
EndRun ==
    /\ window = "open"
    /\ engine # "none"
    /\ wakes < MaxWakes
    /\ engine' = "none"
    /\ finished' = TRUE
    /\ wakes' = wakes + 1
    /\ UNCHANGED <<setup, window, phase, closing, run, token, updating, painting,
                   pages, runs>>

(* A step of the self-update's worker, with releases coming out meanwhile: *)
(* in the session of the user who only updates.                            *)
UpdateGoesOn ==
    /\ window = "open" /\ user = "updates"
    /\ (updater # "none" /\ Work("nothing")) \/ BuildRelease \/ PublishRelease
    /\ UNCHANGED <<setup, window, phase, closing, saving, update, updater, answer,
                   painting, pages, wakes, runs>>

(* Checked or Installed, whatever the outcome. *)
EndUpdate ==
    /\ window = "open"
    /\ updater # "none"
    /\ wakes < MaxWakes
    /\ IF user = "updates" THEN Work(answer') /\ answer' # "nothing"
       ELSE /\ answer' \in IF updater = "checking" THEN {"newer", "notNewer"}
                           ELSE {"installed", "installFailed"}
            /\ UNCHANGED release
    /\ updater' = "none"
    /\ wakes' = wakes + 1
    /\ UNCHANGED <<setup, window, phase, closing, saving, update, painting, pages,
                   runs>>

(* A probe or the detection of the setup screen. *)
EndCheck ==
    /\ window = "open"
    /\ wakes < MaxWakes
    /\ DetectionAnswers \/ \E p \in probes : ProbeAnswers(p)
    /\ wakes' = wakes + 1
    /\ UNCHANGED <<window, phase, closing, saving, updating, painting, pages, runs>>

(* wake(): request_repaint. *)
Wake ==
    /\ window = "open"
    /\ wakes > 0
    /\ wakes' = wakes - 1
    /\ repaints' = 2
    /\ UNCHANGED <<setup, window, phase, closing, saving, updating, timer, pages,
                   runs>>

Frame == Logic \/ Poll \/ Act

Next ==
    \/ Frame
    \/ Input \/ CloseButton
    \/ BeginCommit \/ EndRun \/ UpdateGoesOn \/ EndUpdate \/ EndCheck \/ Wake

(* The event loop runs the frames it owes, and workers go on: every engine *)
(* run and every download ends, its requests being bounded by time-outs,   *)
(* and a check reads files.  EndCheck is strongly fair because MaxWakes,   *)
(* a bound of the model, holds it back whenever others have just answered. *)
(* Nothing is assumed of the user.                                         *)
Fairness ==
    /\ WF_vars(Frame)
    /\ WF_vars(EndRun)
    /\ WF_vars(EndUpdate)
    /\ SF_vars(EndCheck)
    /\ WF_vars(Wake)

Spec == Init /\ [][Next]_vars /\ Fairness

-----------------------------------------------------------------------------
(* "The run is writing the save, so the window must stay open" (183): the  *)
(* process never goes away under a commit, although the token is looked at *)
(* frames before the window closes.                                        *)
CommitOutlivesNoWindow == window = "closed" => engine # "committing"

(* One save update at a time: the app has a run exactly while its worker   *)
(* is at work or its answer waits (begin, 474; poll_run, 314-333).         *)
RunInStep ==
    /\ run <=> engine # "none" \/ finished
    /\ ~(engine # "none" /\ finished)
    /\ run <=> screen = "running"

(* The self-update has one worker at a time, and an answer always reaches  *)
(* the state that asked for it: a check cannot land in a download.         *)
UpdateInStep ==
    /\ updater = "none" \/ answer = "nothing"
    /\ update = "checking" <=>
         updater = "checking" \/ answer \in {"newer", "notNewer"}
    /\ update = "downloading" <=>
         updater = "installing" \/ answer \in {"installed", "installFailed"}

(* Where the worker of the self-update is when the UI waits for it.  What  *)
(* the window offers to install has been found.                            *)
JobInStep ==
    /\ updater = "none" => job.step \in {"none", "answer"}
    /\ user = "updates" /\ updater = "checking" => job.step \in {"manifest", "signature"}
    /\ user = "updates" /\ updater = "installing" => job.step \in {"request", "body", "swap"}
    /\ user # "updates" => job = NoJob
    /\ user = "updates" /\ (update = "available" \/ answer = "newer") => offer # <<>>

(* The UI thread leaves only when it has no run to wait for, and a choice  *)
(* is checked once for the settings, once for the detection, each time the *)
(* user changes it and at most twice on the way back from a result.        *)
FrameInStep ==
    /\ window = "closed" => phase = "logic"
    /\ phase # "logic" /\ leaving => ~run
    /\ screen # "setup" => runs > 0
    /\ generation + (IF Undetected THEN 1 ELSE 0)
           <= MaxChoices + 1 + 2 * (IF screen = "setup" THEN runs ELSE runs - 1)

(* The conversations between the UI and its workers are in step; and what  *)
(* makes them so at the next step.                                         *)
InStep ==
    /\ TypeOK /\ RunInStep /\ UpdateInStep
    /\ FrameInStep /\ SetupFacts /\ JobFacts /\ JobInStep

(* "Either way the window closes by itself afterwards" (494-495), and so   *)
(* it does once a new version has been started (235-237): no further input *)
(* is needed, as the user starts finitely many runs.                       *)
ClosesByItself == closeWhenIdle ~> window = "closed"

(* Every run ends on the result screen, or with the window: its answer is  *)
(* never left in the channel of a window that has stopped painting.        *)
RunsAreReported == run ~> (~run \/ window = "closed")

(* What the setup screen says of a choice is what a check of that choice   *)
(* said, however late older checks and the detection answer; so a run      *)
(* only starts on a save and a game folder that were checked together.     *)
ChecksAreCurrent ==
    /\ verdict = Checking(choice) \/ verdict = Verdict(choice)
    /\ request # NoRequest => request.save \in Readable /\ <<request.save, request.game>> \in Fitting

(* "Checking your choices" ends by itself: the answer of the newest check  *)
(* is on its way whenever the screen waits for it.                         *)
ChecksEnd ==
    "checking" \in {verdict.save, verdict.game}
        ~> ("checking" \notin {verdict.save, verdict.game} \/ window = "closed")
=============================================================================
