---------------------------- MODULE WindowHistory ---------------------------
(***************************************************************************)
(* From where an update run looks for transfers: the history of one save   *)
(* (crates/fl-engine/src/pipeline/window.rs, the transfer log, the         *)
(* skipped-transfer file) over many runs and many days.  The question is   *)
(* whether a transfer that no run has dealt with can fall behind the       *)
(* window of the next automatic run.                                       *)
(*                                                                         *)
(* A day is a number.  An event is a transfer that touches the save; it    *)
(* has the day it takes effect and the day a provider first lists it.      *)
(* Matching, planning and applying are UpdateRun's and the planner's: here *)
(* a run decides freely what becomes of each event it is shown.            *)
(***************************************************************************)
EXTENDS Integers, FiniteSetsExt

CONSTANTS
    Events,      \* transfers that touch the save
    Margin,      \* SINCE_SAFETY_MARGIN_DAYS, 7 in the source
    Season,      \* days from one transfer window's opening to the next one's
    FirstDay, LastDay,  \* bounds of the clock
    MaxSlip,     \* bound: the days a run can take from fetch to log
    Requests,    \* what a run can be asked for
    Never,       \* no such record
    Torn         \* a line of the log that no reader makes sense of

Days == FirstDay .. LastDay

(* The automatic window (or none), a first day (--since) or a closed one   *)
(* (--window).                                                             *)
Windows ==
    [kind : {"auto", "all"}] \cup [kind : {"since"}, from : Days]
    \cup [kind : {"named"}, from : Days, to : Days]

(* One club only (--club), transfers or not (--only), in place or not: a   *)
(* run to another file does not ask the history where to begin.            *)
AllRequests ==
    [window : Windows, club : BOOLEAN, transfers : BOOLEAN, inPlace : BOOLEAN]

ASSUME WindowAssumption ==
    /\ Margin \in Nat /\ Season \in Nat \ {0} /\ MaxSlip \in Nat
    /\ FirstDay \in Int /\ LastDay \in Int
    /\ Never \notin Int /\ Torn \notin Int /\ Torn # Never
    /\ Requests \subseteq AllRequests

VARIABLES
    date,       \* the day each event takes effect; never changes
    published,  \* the day each event is first listed; never changes
    today,
    log,        \* the day of the latest record of the transfer log that is
                \* not neutral, which is all that the window reads of it,
                \* among the lines that have their end
    tail,       \* the line at the end of the log that lacks its end: the day
                \* of its record, Torn, or Never if there is no such line
    skipped,    \* the events of the skipped-transfer file worth a retry
    run,        \* the run that holds the save's lock, or Idle
    dealt,      \* history: events applied to the save or ruled out for good
    owed,       \* history: what the previous run left to be tried again
    hidden,     \* history: listed events that the last run to look for them
                \* was not shown, because their source did not answer
    slip,       \* history: the longest time from a fetch to its log record
    gaps        \* history: runs that looked at less than their turn, or
                \* whose rows were lost or are about another file

world == <<date, published>>
seen == <<dealt, owed, hidden, slip, gaps>>
vars == <<world, today, log, tail, skipped, run, seen>>

Idle == [stage |-> "idle"]

Init ==
    /\ date \in [Events -> Days]
    /\ published \in [Events -> Days]
    /\ \A e \in Events : published[e] - date[e] \in -1 .. Margin
    /\ today = FirstDay
    /\ log = Never /\ tail = Never
    /\ skipped = {}
    /\ run = Idle
    /\ dealt = {} /\ owed = {} /\ hidden = {} /\ slip = 0 /\ gaps = {}

-----------------------------------------------------------------------------
(* dates::previous_window_start: the opening of the transfer window before *)
(* the latest one to open.                                                 *)
PreviousWindowStart(day) == (day \div Season - 1) * Season

(* window::applied_times, the latest of them.  TransferLog::read splits at *)
(* the ends of lines, so that a whole record without its end counts.       *)
AppliedTimes == {log, tail} \ {Never, Torn}

(* Mutant: the rows of the previous run are not looked at.                 *)
NoPendingDates == {}

(* The dates of the rows that are worth another try.                       *)
PendingDates == {date[e] : e \in skipped}

(* window::save_since_date.                                                *)
SaveSince ==
    LET floor == PreviousWindowStart(today) IN
    IF AppliedTimes = {}
    THEN floor
    ELSE Max({Min({Max(AppliedTimes) - Margin} \cup PendingDates), floor})

(* window::resolve_scope, and the bounds providers make of it: none of     *)
(* them shows an event before its day.                                     *)
InScope(day, r) ==
    /\ day <= today
    /\ CASE r.window.kind = "since" -> day >= r.window.from
         [] r.window.kind = "named" -> day \in r.window.from .. r.window.to
         [] r.window.kind = "auto" /\ ~r.club ->
                day >= IF r.inPlace THEN SaveSince ELSE PreviousWindowStart(today)
         [] OTHER -> TRUE

(* A run of the automatic window, or of none, looks at all that is due.    *)
Narrow(r) == r.club \/ r.window.kind \in {"since", "named"}

(* scrape::optional: a supplemental source that does not answer is a       *)
(* warning and an empty batch, and the run goes on without the events that *)
(* only this source lists.  (One of another club, or one that is listed    *)
(* later that day, is not shown either.)                                   *)
Unanswered(missed) == {e \in missed : published[e] < today}

-----------------------------------------------------------------------------
(* What comes of the other parts and of the events together: no change,    *)
(* changes that are never itemised (tactics, lineups), or records.         *)
Outcomes == {"nothing", "unlisted", "records"}

(* The rows of a run: what it was shown and there is still a need to try.  *)
Left(events, done) == events \ done

(* What the file that a run reads has dealt with: the save itself has what *)
(* its runs did to it, another file anything that was listed by now.       *)
Known(r) ==
    IF r.inPlace THEN {dealt}
    ELSE SUBSET {e \in Events : published[e] <= today /\ date[e] <= today}

(* A run that does not look at all that its save is due: a narrow one, and *)
(* one on another file that checks no transfer, or that leaves the save as *)
(* it is and only rewrites its rows.                                       *)
Partial(r, outcome) ==
    \/ r.transfers /\ Narrow(r)
    \/ ~r.inPlace /\ (~r.transfers \/ outcome = "nothing")

(* History: what stays hidden after a run that misses some events and is   *)
(* shown others.  Nobody asks any more once a run was partial.             *)
Hidden(r, outcome, missed, shown) ==
    IF gaps # {} \/ Partial(r, outcome) THEN {}
    ELSE IF r.transfers THEN (hidden \cup Unanswered(missed)) \ shown
    ELSE hidden

(* A run decides on some of what its window shows, applying an event or    *)
(* ruling it out (it matches nobody, is outdated, ...), and leaves the     *)
(* rest for another try, the events of the future (not_yet_effective) too. *)
(* Any event may be missed: which ones, is up to the sources.              *)
Begin(r) ==
    /\ run = Idle
    /\ \E missed \in SUBSET Events :
        LET events == {e \in Events \ missed : published[e] <= today}
            due == {e \in events : InScope(date[e], r)}
            future == {e \in events : date[e] > today} IN
        \E known \in Known(r), outcome \in Outcomes :
          \E decided \in SUBSET (due \ known) :
            /\ r.transfers \/ decided = {}
            /\ run' = [stage |-> IF outcome = "nothing" THEN "report" ELSE "publish",
                       outcome |-> outcome, day |-> today,
                       transfers |-> r.transfers,
                       partial |-> Partial(r, outcome),
                       done |-> IF outcome = "nothing" /\ ~r.inPlace
                                THEN dealt ELSE known \cup decided,
                       left |-> IF r.transfers
                                THEN Left(due \cup future, known \cup decided)
                                ELSE {},
                       hidden |-> Hidden(r, outcome, missed, due \cup future)]
    /\ UNCHANGED <<world, today, log, tail, skipped, seen>>

(* The run is cancelled, fails or dies before it has written anything.     *)
Stops ==
    /\ run # Idle /\ run.stage = "publish"
    /\ run' = Idle
    /\ UNCHANGED <<world, today, log, tail, skipped, seen>>

(* The history of what a run that stands has done.                         *)
Stands ==
    /\ owed' = IF run.transfers THEN run.left ELSE owed
    /\ hidden' = run.hidden
    /\ gaps' = gaps \cup (IF run.partial THEN {"partial"} ELSE {})

(* commit::write_save: the file is replaced.  What the run decided and how *)
(* much it looked at is now part of the history.                           *)
Publish ==
    /\ run # Idle /\ run.stage = "publish"
    /\ run' = [run EXCEPT !.stage = "log", !.done = {}, !.hidden = {}, !.partial = FALSE]
    /\ dealt' = run.done
    /\ Stands
    /\ UNCHANGED <<world, today, log, tail, skipped, slip>>

(* Mutant: records of partial runs are not marked.                         *)
NeutralNever == FALSE

(* window_neutral: the mark of the records of a run without transfers.     *)
Neutral == ~run.transfers

(* Whether a whole record of an append has a line of its own: the first    *)
(* one continues the line that lacks its end, and neither can be read.     *)
Reaches(whole) == whole > (IF tail = Never THEN 0 ELSE 1)

(* TransferLog::append, of which `whole` lines reach the file and then a   *)
(* part of another, or all of it but its end.  A neutral record counts for *)
(* nothing, but what follows it on its line is lost all the same.          *)
Append(whole, end) ==
    /\ tail' = CASE whole = 0 /\ end = Never -> tail
                 [] whole = 0 /\ tail # Never -> Torn
                 [] OTHER -> IF end = Never \/ ~Neutral THEN end ELSE Torn
    /\ log' = IF Reaches(whole) /\ ~Neutral THEN today ELSE log
    /\ slip' = IF {log', tail'} = {log, tail} THEN slip ELSE Max({slip, today - run.day})

(* commit::publish_records: the log, if there are records, with the time   *)
(* it is by now.                                                           *)
AppendLog ==
    /\ run # Idle /\ run.stage = "log"
    /\ run' = [run EXCEPT !.stage = "report"]
    /\ IF run.outcome = "records"
       THEN \E records \in 1 .. 2 : Append(records, Never)
       ELSE UNCHANGED <<log, tail, slip>>
    /\ UNCHANGED <<world, today, skipped, dealt, owed, hidden, gaps>>

(* The log cannot be written, or not to the end: that is a warning.        *)
LogFails ==
    /\ run # Idle /\ run.stage = "log" /\ run.outcome = "records"
    /\ run' = [run EXCEPT !.stage = "report"]
    /\ \E whole \in 0 .. 1, end \in {Never, Torn, today} : Append(whole, end)
    /\ UNCHANGED <<world, today, skipped, dealt, owed, hidden, gaps>>

(* A run on another save appends to the same log, also in part: it may at  *)
(* any time, and does where this save's log is about to be used.           *)
AnotherSave ==
    /\ run # Idle => run.stage = "log"
    /\ tail' \in {Never, Torn} \ {tail}
    /\ UNCHANGED <<world, today, log, skipped, run, seen>>

(* Mutant: every run rewrites the rows.                                    *)
RewritesRowsAlways == TRUE

RewritesRows == run.transfers

(* commit::write_reports, after the log or of a run without changes.       *)
WriteReports ==
    /\ run # Idle /\ run.stage = "report"
    /\ run' = Idle
    /\ skipped' = IF RewritesRows THEN run.left ELSE skipped
    /\ IF run.outcome = "nothing"
       THEN Stands /\ dealt' = run.done
       ELSE UNCHANGED <<dealt, owed, hidden, gaps>>
    /\ UNCHANGED <<world, today, log, tail, slip>>

(* The reports cannot be written, or the process dies before they are.     *)
ReportsLost ==
    /\ run # Idle /\ run.stage \in {"log", "report"} /\ run.outcome # "nothing"
    /\ run' = Idle
    /\ gaps' = gaps \cup (IF run.transfers THEN {"unreported"} ELSE {})
    /\ UNCHANGED <<world, today, log, tail, skipped, dealt, owed, hidden, slip>>

(* A run without changes whose reports are lost has done nothing.          *)
NothingLost ==
    /\ run # Idle /\ run.stage = "report" /\ run.outcome = "nothing"
    /\ run' = Idle
    /\ UNCHANGED <<world, today, log, tail, skipped, seen>>

Tick ==
    /\ today < LastDay
    /\ run # Idle => today - run.day < MaxSlip
    /\ today' = today + 1
    /\ UNCHANGED <<world, log, tail, skipped, run, seen>>

Next ==
    \/ \E r \in Requests : Begin(r)
    \/ Stops \/ Publish \/ AppendLog \/ LogFails
    \/ WriteReports \/ ReportsLost \/ NothingLost
    \/ AnotherSave \/ Tick

Spec == Init /\ [][Next]_vars

-----------------------------------------------------------------------------
InTime(e) == published[e] - date[e] + slip <= Margin

(* "Each run picks up where the last one stopped" (README.md:66), for the  *)
(* events that the sources have shown when they were looked for: between   *)
(* runs, one that is due, that was listed no later than the safety margin  *)
(* allows and that no run has applied or ruled out is still inside the     *)
(* window of the next automatic run, unless it is older than the previous  *)
(* transfer window, or a run on part of the events or one that lost its    *)
(* rows came in between.  An event that was hidden by a source that did    *)
(* not answer is safe again once a later run has seen it, whatever the log *)
(* and the rows say of others; until then it may fall behind.              *)
PicksUpWhereItStopped ==
    run = Idle /\ gaps = {} =>
        \A e \in Events \ (dealt \cup hidden) :
            /\ published[e] <= today /\ date[e] <= today
            /\ InTime(e)
            /\ date[e] >= PreviousWindowStart(today)
            => date[e] >= SaveSince

(* "Never later than the oldest event still retryable from the previous    *)
(* run" (window.rs:52): the window the next run will open includes every   *)
(* event the last run left for another try, if there was such a run.       *)
NeverLaterThanRetryable ==
    run = Idle => \A e \in owed :
        date[e] >= PreviousWindowStart(today) => date[e] >= SaveSince

(* So it is as long as every run that wrote its log also wrote its rows.   *)
NeverLaterIfReported == "unreported" \notin gaps => NeverLaterThanRetryable
=============================================================================
