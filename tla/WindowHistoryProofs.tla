------------------------- MODULE WindowHistoryProofs -------------------------
(***************************************************************************)
(* Where the next run begins, for any number of events, days, requests and *)
(* runs: that it includes what the last run left for another try, and that *)
(* no event falls behind it that no run has dealt with.                    *)
(*                                                                         *)
(* A run in progress has the history in two halves: before its decisions   *)
(* stand, the rows and the log still speak of the run before; after that,  *)
(* its own rows, which are not written yet, and the day it has begun, from *)
(* which the record it appends may be `slip` days away.                    *)
(***************************************************************************)
EXTENDS WindowHistory, WellFoundedInduction, TLAPS

(* Every non-empty set of naturals has a least element.                    *)
LEMMA LeastDay ==
    ASSUME NEW T, T \subseteq Nat, T # {}
    PROVE  \E m \in T : \A n \in T : m <= n
<1>1. PICK m \in T : \A n \in T : <<n, m>> \notin OpToRel(<, Nat)
  BY NatLessThanWellFounded, WFMin
<1>2. \A n \in T : ~(n < m)
  BY <1>1 DEF OpToRel
<1>3. QED BY <1>2

(* The minimum of a set of days that has a lower bound.                    *)
LEMMA MinOfDays ==
    ASSUME NEW S, S \subseteq Int, S # {}, NEW b \in Int, \A x \in S : b <= x
    PROVE  Min(S) \in S /\ \A x \in S : Min(S) <= x
<1> DEFINE T == {x - b : x \in S}
<1>1. T \subseteq Nat /\ T # {}
  <2>1. \A x \in S : x - b \in Nat
    OBVIOUS
  <2>2. QED BY <2>1
<1>2. PICK m \in T : \A n \in T : m <= n
  BY <1>1, LeastDay
<1>3. PICK y \in S : m = y - b
  BY <1>2
<1>4. \A x \in S : y <= x
  <2>1. \A x \in S : y - b <= x - b
    BY <1>2, <1>3
  <2>2. QED BY <2>1
<1>5. QED BY <1>3, <1>4 DEF Min

LEMMA MaxOfTwo ==
    ASSUME NEW a \in Int, NEW b \in Int
    PROVE  Max({a, b}) \in {a, b} /\ a <= Max({a, b}) /\ b <= Max({a, b})
<1>1. CASE a <= b
  <2>1. \E x \in {a, b} : \A y \in {a, b} : x >= y
    BY <1>1
  <2>2. QED BY <2>1 DEF Max
<1>2. CASE b <= a
  <2>1. \E x \in {a, b} : \A y \in {a, b} : x >= y
    BY <1>2
  <2>2. QED BY <2>1 DEF Max
<1>3. QED BY <1>1, <1>2

LEMMA WindowsAdvance ==
    ASSUME NEW d \in Int, NEW t \in Int, d <= t
    PROVE  /\ PreviousWindowStart(d) \in Int
           /\ PreviousWindowStart(d) <= PreviousWindowStart(t)
<1>1. Season \in Int /\ Season > 0
  BY WindowAssumption
<1>2. d \div Season \in Int /\ t \div Season \in Int /\ d \div Season <= t \div Season
  BY <1>1
<1>3. \A x, y \in Int : x <= y => (x - 1) * Season <= (y - 1) * Season
  BY <1>1
<1>4. QED BY <1>1, <1>2, <1>3 DEF PreviousWindowStart

-----------------------------------------------------------------------------
Run == [stage : {"publish", "log", "report"}, outcome : Outcomes, day : Int,
        transfers : BOOLEAN, partial : BOOLEAN,
        done : SUBSET Events, left : SUBSET Events, hidden : SUBSET Events]

HistoryTypes ==
    /\ date \in [Events -> Days] /\ published \in [Events -> Days]
    /\ today \in Int /\ slip \in Nat
    /\ log \in Int \cup {Never} /\ tail \in Int \cup {Never, Torn}
    /\ skipped \in SUBSET Events /\ owed \in SUBSET Events /\ dealt \in SUBSET Events
    /\ hidden \in SUBSET Events
    /\ run # Idle => run \in Run

(* No record is from the future, and none is further than `slip` days from *)
(* the day the run in progress has begun: its own record is that late, the *)
(* others were there before it.                                            *)
RecordsInTime ==
    /\ \A t \in AppliedTimes : t <= today
    /\ run # Idle =>
         /\ run.day <= today
         /\ \A t \in AppliedTimes : t <= run.day + slip
         /\ run.stage \in {"publish", "log"} => run.outcome # "nothing"

(* The run in progress has published what it decided.                      *)
Standing == run # Idle /\ run.outcome # "nothing" /\ run.stage # "publish"

OwedInRows ==
    "unreported" \notin gaps =>
        owed \subseteq (IF Standing /\ run.transfers THEN run.left ELSE skipped)

(* An event the automatic window still has to show.                        *)
DueBy(e, day, longest) ==
    published[e] - date[e] + longest <= Margin /\ date[e] >= PreviousWindowStart(day)
Due(e) == DueBy(e, today, slip)

(* It is in the window of the next run, as long as the rows and the log    *)
(* stay; or in the next rows of this run, unless it was not listed yet.    *)
(* This leaves out the events that a source hid and no run has seen since. *)
Covered(e) ==
    \/ \E r \in skipped : date[r] <= date[e]
    \/ \A t \in AppliedTimes : t - Margin <= date[e]
TakenUp(e) == e \in run.left \/ run.day <= published[e]

NothingBehind ==
    gaps = {} =>
        /\ ~(Standing /\ run.transfers) =>
             \A e \in Events \ (dealt \cup hidden) : Due(e) => Covered(e)
        /\ Standing /\ run.transfers =>
             \A e \in Events \ (dealt \cup hidden) : Due(e) => TakenUp(e)
        /\ run # Idle /\ ~Standing /\ ~run.partial =>
             \A e \in Events \ (run.done \cup run.hidden) :
                Due(e) => IF run.transfers THEN TakenUp(e) ELSE Covered(e)

HistoryInv == HistoryTypes /\ RecordsInTime /\ OwedInRows /\ NothingBehind

-----------------------------------------------------------------------------
LEMMA AppliedDays ==
    ASSUME HistoryTypes
    PROVE  AppliedTimes \subseteq Int /\ AppliedTimes \subseteq {log, tail}
BY DEF AppliedTimes, HistoryTypes

(* A day the rows or every record reach back to is in the next window,     *)
(* unless the window before the last had not opened by then.               *)
LEMMA SinceReaches ==
    ASSUME HistoryTypes, NEW e \in Events, Covered(e),
           date[e] >= PreviousWindowStart(today)
    PROVE  date[e] >= SaveSince
<1> DEFINE floor == PreviousWindowStart(today)
           latest == Max(AppliedTimes) - Margin
           days == {latest} \cup PendingDates
<1>1. floor \in Int /\ date[e] \in Int /\ Margin \in Int
  BY WindowsAdvance, WindowAssumption DEF HistoryTypes, Days
<1>2. CASE AppliedTimes = {}
  BY <1>2 DEF SaveSince
<1>3. CASE AppliedTimes # {}
  <2>1. Max(AppliedTimes) \in AppliedTimes
    <3>1. PICK a \in Int, b \in Int : AppliedTimes = {a, b}
      <4>1. AppliedTimes \subseteq Int /\ AppliedTimes \subseteq {log, tail}
        BY AppliedDays
      <4>2. CASE log \in AppliedTimes /\ tail \in AppliedTimes
        BY <4>1, <4>2
      <4>3. CASE log \notin AppliedTimes
        BY <1>3, <4>1, <4>3, ZenonT(60)
      <4>4. CASE tail \notin AppliedTimes
        <5>1. AppliedTimes = {log, log} /\ log \in Int
          BY <1>3, <4>1, <4>4
        <5>2. QED BY <5>1
      <4>5. QED BY <4>2, <4>3, <4>4
    <3>2. QED BY <3>1, MaxOfTwo
  <2>2. latest \in Int
    BY <1>1, <2>1, AppliedDays
  <2>3. /\ PendingDates \subseteq Int /\ \A p \in PendingDates : FirstDay <= p
        /\ FirstDay \in Int
    <3>1. PendingDates \subseteq Days
      BY DEF PendingDates, HistoryTypes
    <3>2. QED BY <3>1, WindowAssumption DEF Days
  <2>4. Min(days) \in days /\ \A x \in days : Min(days) <= x
    <3>1. PICK b \in Int : b <= latest /\ b <= FirstDay
      <4>1. CASE latest <= FirstDay
        BY <2>2, <4>1
      <4>2. CASE FirstDay <= latest
        BY <4>2, WindowAssumption
      <4>3. QED BY <2>2, <4>1, <4>2, WindowAssumption
    <3>2. days \subseteq Int /\ days # {} /\ \A x \in days : b <= x
      <4> HIDE DEF latest
      <4>1. \A x \in PendingDates : x \in Int /\ b <= x
        BY <2>3, <3>1
      <4>2. QED BY <2>2, <2>3, <3>1, <4>1
    <3> HIDE DEF days
    <3>3. QED BY <3>2, MinOfDays
  <2>5. Min(days) <= date[e]
    <3>1. CASE \E r \in skipped : date[r] <= date[e]
      <4>1. PICK r \in skipped : date[r] <= date[e]
        BY <3>1
      <4>2. date[r] \in days /\ date[r] \in Int
        BY <2>3 DEF PendingDates
      <4>3. Min(days) <= date[r] /\ Min(days) \in Int
        BY <2>2, <2>3, <2>4, <4>2
      <4>4. QED BY <1>1, <4>1, <4>2, <4>3
    <3>2. CASE \A t \in AppliedTimes : t - Margin <= date[e]
      <4>1. latest <= date[e] /\ latest \in days
        BY <2>1, <3>2
      <4>2. Min(days) <= latest /\ Min(days) \in Int
        BY <2>2, <2>3, <2>4, <4>1
      <4> HIDE DEF latest, days
      <4>3. QED BY <1>1, <2>2, <4>1, <4>2
    <3>3. QED BY <3>1, <3>2 DEF Covered
  <2>6. Min(days) \in Int
    BY <2>2, <2>3, <2>4
  <2>7. Max({Min(days), floor}) \in {Min(days), floor}
    BY <1>1, <2>6, MaxOfTwo
  <2>8. SaveSince = Max({Min(days), floor})
    BY <1>3 DEF SaveSince
  <2>9. QED BY <2>5, <2>7, <2>8
<1>4. QED BY <1>2, <1>3
(* Time only takes events out of what is due: windows close behind them,   *)
(* and a record may turn out later than the margin allowed for.            *)
LEMMA DueBefore ==
    ASSUME HistoryTypes, NEW e \in Events, NEW day \in Int, today <= day,
           NEW longest \in Int, slip <= longest, DueBy(e, day, longest)
    PROVE  Due(e)
<1>1. published[e] \in Int /\ date[e] \in Int
  BY WindowAssumption DEF HistoryTypes, Days
<1>2. /\ PreviousWindowStart(today) \in Int /\ PreviousWindowStart(day) \in Int
      /\ PreviousWindowStart(today) <= PreviousWindowStart(day)
  BY WindowsAdvance DEF HistoryTypes
<1>3. published[e] - date[e] + slip <= Margin
  BY <1>1, WindowAssumption DEF DueBy, HistoryTypes
<1>4. QED BY <1>1, <1>2, <1>3 DEF Due, DueBy

(* An event that the run in progress could not see was listed so late that *)
(* every record there is, its own included, reaches back to it.            *)
LEMMA UnseenIsCovered ==
    ASSUME HistoryTypes, RecordsInTime, run # Idle, NEW e \in Events, Due(e),
           run.day <= published[e]
    PROVE  \A t \in AppliedTimes : t - Margin <= date[e]
<1>1. published[e] \in Int /\ date[e] \in Int /\ slip \in Int /\ Margin \in Int
  BY WindowAssumption DEF HistoryTypes, Days
<1>2. run.day \in Int
  BY DEF HistoryTypes, Run
<1>3. published[e] - date[e] + slip <= Margin
  BY DEF Due, DueBy
<1>4. SUFFICES ASSUME NEW t \in AppliedTimes PROVE t - Margin <= date[e]
  OBVIOUS
<1>5. t \in Int /\ t <= run.day + slip
  BY AppliedDays DEF RecordsInTime
<1>6. QED BY <1>1, <1>2, <1>3, <1>5

(* A run as it begins, by what it is shown, what its file has dealt with,  *)
(* what comes of the other parts and what it decides.                      *)
Listed(missed) == {x \in Events \ missed : published[x] <= today}
Shown(r, missed) == {x \in Listed(missed) : InScope(date[x], r)}
Future(missed) == {x \in Listed(missed) : date[x] > today}
Planned(r, missed, known, outcome, decided) ==
    [stage |-> IF outcome = "nothing" THEN "report" ELSE "publish",
     outcome |-> outcome, day |-> today, transfers |-> r.transfers,
     partial |-> Partial(r, outcome),
     done |-> IF outcome = "nothing" /\ ~r.inPlace THEN dealt ELSE known \cup decided,
     left |-> IF r.transfers
              THEN Left(Shown(r, missed) \cup Future(missed), known \cup decided)
              ELSE {},
     hidden |-> Hidden(r, outcome, missed, Shown(r, missed) \cup Future(missed))]

LEMMA BeginPlans ==
    ASSUME NEW r \in Requests, Begin(r)
    PROVE  \E missed \in SUBSET Events, known \in Known(r), outcome \in Outcomes :
              \E decided \in SUBSET (Shown(r, missed) \ known) :
                 /\ r.transfers \/ decided = {}
                 /\ run' = Planned(r, missed, known, outcome, decided)
BY DEF Begin, Listed, Shown, Future, Planned

(* What a run that looks at all its save is due has before it: an event it *)
(* does not decide and does not keep in its rows was not listed yet.       *)
LEMMA BeginLooksAtAll ==
    ASSUME HistoryInv, NEW r \in Requests, Begin(r), gaps = {}, ~run'.partial,
           NEW e \in Events \ (run'.done \cup run'.hidden), Due(e)
    PROVE  IF r.transfers THEN e \in run'.left \/ today <= published[e] ELSE Covered(e)
<1>1. /\ HistoryTypes /\ run = Idle
      /\ \A x \in Events \ (dealt \cup hidden) : Due(x) => Covered(x)
  BY DEF HistoryInv, NothingBehind, Begin, Standing
<1>2. PICK missed \in SUBSET Events, known \in Known(r), outcome \in Outcomes :
        \E decided \in SUBSET (Shown(r, missed) \ known) :
           /\ r.transfers \/ decided = {}
           /\ run' = Planned(r, missed, known, outcome, decided)
  BY BeginPlans
<1>3. PICK decided \in SUBSET (Shown(r, missed) \ known) :
        /\ r.transfers \/ decided = {}
        /\ run' = Planned(r, missed, known, outcome, decided)
  BY <1>2
<1> DEFINE partial == Partial(r, outcome)
           done == IF outcome = "nothing" /\ ~r.inPlace THEN dealt ELSE known \cup decided
           left == IF r.transfers
                   THEN Left(Shown(r, missed) \cup Future(missed), known \cup decided)
                   ELSE {}
           shown == Shown(r, missed) \cup Future(missed)
           unseen == Hidden(r, outcome, missed, shown)
<1>4. /\ (r.transfers \/ decided = {}) /\ ~partial
      /\ run'.done = done /\ run'.left = left /\ run'.hidden = unseen
  <2>1. run' = [stage |-> IF outcome = "nothing" THEN "report" ELSE "publish",
                outcome |-> outcome, day |-> today, transfers |-> r.transfers,
                partial |-> partial, done |-> done, left |-> left, hidden |-> unseen]
    BY <1>3 DEF Planned
  <2> HIDE DEF partial, done, left, unseen
  <2>2. /\ run'.partial = partial /\ run'.done = done /\ run'.left = left
        /\ run'.hidden = unseen
    BY <2>1
  <2>3. QED BY <1>3, <2>2
<1>5. /\ r.transfers => ~Narrow(r)
      /\ ~r.inPlace => r.transfers /\ outcome # "nothing"
  BY <1>4 DEF Partial
<1>6. e \notin known \cup decided /\ (r.inPlace => e \notin dealt)
  BY <1>4, <1>5 DEF Known
<1>7. unseen = IF r.transfers THEN (hidden \cup Unanswered(missed)) \ shown ELSE hidden
  BY <1>4 DEF Hidden
<1>8. CASE ~r.transfers
  BY <1>1, <1>4, <1>5, <1>6, <1>8, <1>7
<1>9. CASE r.transfers
  <2>1. date[e] \in Int /\ published[e] \in Int /\ today \in Int
    BY <1>1, WindowAssumption DEF HistoryTypes, Days
  <2>2. SUFFICES ASSUME published[e] < today PROVE e \in run'.left
    BY <1>9, <2>1
  <2>3. SUFFICES ASSUME e \notin shown PROVE FALSE
    BY <1>4, <1>6, <1>9, <2>3 DEF Left
  <2>4. e \notin hidden /\ e \notin missed
    BY <1>4, <1>9, <1>7, <2>2, <2>3 DEF Unanswered
  <2>5. e \in Listed(missed)
    BY <2>1, <2>2, <2>4 DEF Listed
  <2>6. SUFFICES ASSUME date[e] <= today PROVE InScope(date[e], r)
    BY <2>1, <2>5, <2>3 DEF Shown, Future
  <2>7. date[e] >= PreviousWindowStart(today)
    BY DEF Due, DueBy
  <2>8. r.inPlace => date[e] >= SaveSince
    BY <1>1, <1>6, <2>7, <2>4, SinceReaches
  <2>9. QED BY <1>5, <1>9, <2>6, <2>7, <2>8 DEF InScope, Narrow
<1>10. QED BY <1>8, <1>9

-----------------------------------------------------------------------------
(* Each step in turn.                                                      *)

(* The steps before a run has written anything.                            *)
LEMMA BeginKeeps ==
    ASSUME HistoryInv, NEW r \in Requests, Begin(r)
    PROVE  HistoryInv'
<1>1. /\ HistoryTypes /\ RecordsInTime /\ OwedInRows /\ NothingBehind
      /\ run = Idle /\ UNCHANGED <<world, today, log, tail, skipped, seen>>
  BY DEF HistoryInv, Begin
<1>2. /\ run' \in Run /\ run'.day = today /\ run'.transfers = r.transfers
      /\ run' # Idle /\ run'.stage = IF run'.outcome = "nothing" THEN "report" ELSE "publish"
  <2>1. r \in AllRequests /\ r.transfers \in BOOLEAN
    BY WindowAssumption DEF AllRequests
  <2>2. PICK missed \in SUBSET Events, known \in Known(r), outcome \in Outcomes :
          \E decided \in SUBSET (Shown(r, missed) \ known) :
             /\ r.transfers \/ decided = {}
             /\ run' = Planned(r, missed, known, outcome, decided)
    BY BeginPlans
  <2>3. PICK decided \in SUBSET (Shown(r, missed) \ known) :
          run' = Planned(r, missed, known, outcome, decided)
    BY <2>2
  <2>4. /\ known \subseteq Events /\ decided \subseteq Events /\ dealt \subseteq Events
        /\ Shown(r, missed) \subseteq Events /\ Future(missed) \subseteq Events
    BY <1>1 DEF Known, HistoryTypes, Shown, Future, Listed
  <2>5. Partial(r, outcome) \in BOOLEAN
    BY DEF Partial
  <2> DEFINE left == IF r.transfers
                     THEN Left(Shown(r, missed) \cup Future(missed), known \cup decided)
                     ELSE {}
             done == IF outcome = "nothing" /\ ~r.inPlace THEN dealt ELSE known \cup decided
             stage == IF outcome = "nothing" THEN "report" ELSE "publish"
             partial == Partial(r, outcome)
             unseen == Hidden(r, outcome, missed, Shown(r, missed) \cup Future(missed))
  <2>6. left \in SUBSET Events /\ done \in SUBSET Events /\ unseen \in SUBSET Events
    BY <1>1, <2>4 DEF Left, Hidden, Unanswered, HistoryTypes
  <2>7. stage \in {"publish", "log", "report"} /\ today \in Int
    BY <1>1 DEF HistoryTypes
  <2>8. run' = [stage |-> stage, outcome |-> outcome, day |-> today, transfers |-> r.transfers,
                partial |-> partial, done |-> done, left |-> left, hidden |-> unseen]
    BY <2>3 DEF Planned
  <2>9. partial \in BOOLEAN
    BY <2>5
  <2>10. run'.stage = stage /\ run'.outcome = outcome /\ run'.stage # "idle"
    BY <2>8
  <2> HIDE DEF left, done, partial, unseen
  <2>11. run' \in Run
    BY <2>1, <2>6, <2>7, <2>8, <2>9 DEF Run
  <2>12. QED BY <2>8, <2>10, <2>11 DEF Idle
<1>3. HistoryTypes'
  BY <1>1, <1>2 DEF HistoryTypes, world, seen
<1>4. AppliedTimes' = AppliedTimes /\ \A x \in Events : Due(x)' <=> Due(x)
  BY <1>1 DEF AppliedTimes, Due, DueBy, world, seen
<1>5. \A x \in Events : Covered(x)' <=> Covered(x)
  BY <1>1, <1>4 DEF Covered, world
<1>6. RecordsInTime'
  <2>1. today \in Int /\ slip \in Nat /\ \A t \in AppliedTimes : t \in Int /\ t <= today
    BY <1>1, AppliedDays DEF HistoryTypes, RecordsInTime
  <2>2. \A t \in AppliedTimes : t <= today + slip
    BY <2>1
  <2>3. QED BY <1>1, <1>2, <1>4, <2>1, <2>2 DEF RecordsInTime, seen
<1>7. ~Standing /\ ~Standing'
  BY <1>1, <1>2 DEF Standing
<1>8. OwedInRows'
  BY <1>1, <1>7 DEF OwedInRows, seen
<1>9. NothingBehind'
  <2>1. ASSUME gaps = {}, ~run'.partial,
               NEW e \in Events \ (run'.done \cup run'.hidden), Due(e)
        PROVE  (IF run.transfers THEN TakenUp(e) ELSE Covered(e))'
    <3>1. IF r.transfers THEN e \in run'.left \/ today <= published[e] ELSE Covered(e)
      BY <2>1, BeginLooksAtAll
    <3>2. QED BY <1>1, <1>2, <1>5, <3>1 DEF TakenUp, world
  <2>2. gaps' = gaps /\ dealt' = dealt /\ hidden' = hidden
    BY <1>1 DEF seen
  <2>3. QED BY <1>1, <1>4, <1>5, <1>7, <2>1, <2>2 DEF NothingBehind
<1>10. QED BY <1>3, <1>6, <1>8, <1>9 DEF HistoryInv

(* The run ends and has written nothing.                                   *)
LEMMA StopKeeps ==
    ASSUME HistoryInv, Stops \/ NothingLost
    PROVE  HistoryInv'
<1>1. /\ HistoryTypes /\ RecordsInTime /\ OwedInRows /\ NothingBehind
      /\ run # Idle /\ run' = Idle /\ UNCHANGED <<world, today, log, tail, skipped, seen>>
  BY DEF HistoryInv, Stops, NothingLost
<1>2. ~Standing /\ ~Standing'
  BY <1>1 DEF Stops, NothingLost, Standing
<1>3. AppliedTimes' = AppliedTimes /\ \A x \in Events : Due(x)' <=> Due(x)
  BY <1>1 DEF AppliedTimes, Due, DueBy, world, seen
<1>4. \A x \in Events : Covered(x)' <=> Covered(x)
  BY <1>1, <1>3 DEF Covered, world
<1>5. HistoryTypes'
  BY <1>1 DEF HistoryTypes, world, seen
<1>6. RecordsInTime' /\ OwedInRows'
  BY <1>1, <1>2, <1>3 DEF RecordsInTime, OwedInRows, seen
<1>7. NothingBehind'
  BY <1>1, <1>2, <1>3, <1>4 DEF NothingBehind, seen
<1>8. QED BY <1>5, <1>6, <1>7 DEF HistoryInv

(* The save is replaced: what the run decided is dealt with, and its rows  *)
(* are owed.                                                               *)
LEMMA PublishKeeps ==
    ASSUME HistoryInv, Publish
    PROVE  HistoryInv'
<1>1. /\ HistoryTypes /\ RecordsInTime /\ OwedInRows /\ NothingBehind
      /\ run # Idle /\ run.stage = "publish" /\ run \in Run /\ run.outcome # "nothing"
      /\ dealt' = run.done /\ Stands
      /\ run' = [run EXCEPT !.stage = "log", !.done = {}, !.hidden = {},
                            !.partial = FALSE]
      /\ UNCHANGED <<world, today, log, tail, skipped, slip>>
  BY DEF HistoryInv, Publish, HistoryTypes, RecordsInTime
<1>2. /\ run' \in Run /\ run' # Idle /\ run'.stage = "log" /\ run'.outcome = run.outcome
      /\ run'.day = run.day /\ run'.transfers = run.transfers /\ run'.left = run.left
  BY <1>1 DEF Run, Idle
<1>3. /\ ~Standing /\ Standing'
      /\ owed' = (IF run.transfers THEN run.left ELSE owed) /\ hidden' = run.hidden
      /\ gaps \subseteq gaps' /\ (gaps' = {} => ~run.partial)
      /\ ("unreported" \notin gaps' => "unreported" \notin gaps)
  BY <1>1, <1>2 DEF Standing, Stands
<1>4. AppliedTimes' = AppliedTimes /\ \A x \in Events : Due(x)' <=> Due(x)
  BY <1>1 DEF AppliedTimes, Due, DueBy, world
<1>5. \A x \in Events : (Covered(x)' <=> Covered(x)) /\ (TakenUp(x)' <=> TakenUp(x))
  BY <1>1, <1>2, <1>4 DEF Covered, TakenUp, world
<1>6. HistoryTypes'
  BY <1>1, <1>2, <1>3 DEF HistoryTypes, world, Run
<1>7. RecordsInTime' /\ OwedInRows'
  BY <1>1, <1>2, <1>3, <1>4 DEF RecordsInTime, OwedInRows
<1>8. NothingBehind'
  BY <1>1, <1>2, <1>3, <1>4, <1>5 DEF NothingBehind
<1>9. QED BY <1>6, <1>7, <1>8 DEF HistoryInv

(* What an append leaves of the log: records there were, and one of today  *)
(* if the run is about transfers, which counts for `slip`.                 *)
LEMMA AppendedRecords ==
    ASSUME HistoryInv, run \in Run, NEW whole \in Nat,
           NEW end \in {Never, Torn, today}, Append(whole, end)
    PROVE  /\ slip' \in Nat /\ slip <= slip'
           /\ log' \in Int \cup {Never} /\ tail' \in Int \cup {Never, Torn}
           /\ \A t \in AppliedTimes' :
                 t \in AppliedTimes \/ (run.transfers /\ t = today /\ today - run.day <= slip')
<1>1. /\ HistoryTypes /\ today \in Int /\ slip \in Nat /\ run.day \in Int
      /\ log \in Int \cup {Never} /\ tail \in Int \cup {Never, Torn} /\ run.day <= today
  BY DEF HistoryInv, HistoryTypes, Run, RecordsInTime, Idle
<1>2. /\ log' \in {log, today} /\ tail' \in {tail, Never, Torn, today}
      /\ ~run.transfers => log' = log /\ tail' \in {tail, Never, Torn}
  BY DEF Append, Neutral
<1>3. log' \in Int \cup {Never} /\ tail' \in Int \cup {Never, Torn}
  BY <1>1, <1>2
<1> DEFINE late == today - run.day
<1>4. late \in Nat
  BY <1>1
<1> HIDE DEF late
<1>5. /\ slip' \in Nat /\ slip <= slip'
      /\ {log', tail'} # {log, tail} => late <= slip'
  <2>1. slip' = IF {log', tail'} = {log, tail} THEN slip ELSE Max({slip, late})
    BY DEF Append, late
  <2>2. Max({slip, late}) \in {slip, late} /\ slip <= Max({slip, late}) /\ late <= Max({slip, late})
    <3>1. slip \in Int /\ late \in Int
      BY <1>1, <1>4
    <3>2. QED BY <3>1, MaxOfTwo
  <2>3. CASE {log', tail'} = {log, tail}
    BY <1>1, <2>1, <2>3
  <2>4. CASE {log', tail'} # {log, tail}
    BY <1>1, <1>4, <2>1, <2>2, <2>4
  <2>5. QED BY <2>3, <2>4
<1>6. \A t \in AppliedTimes' : t \in {log', tail'} /\ t \notin {Never, Torn}
  BY DEF AppliedTimes
<1>7. \A t \in {log, tail} : t \notin {Never, Torn} => t \in AppliedTimes
  BY DEF AppliedTimes
<1>8. QED BY <1>2, <1>3, <1>5, <1>6, <1>7 DEF late

LEMMA LogKeeps ==
    ASSUME HistoryInv, AppendLog \/ LogFails
    PROVE  HistoryInv'
<1>1. /\ HistoryTypes /\ RecordsInTime /\ OwedInRows /\ NothingBehind
      /\ run # Idle /\ run.stage = "log" /\ run \in Run /\ run.outcome # "nothing"
      /\ run' = [run EXCEPT !.stage = "report"]
      /\ UNCHANGED <<world, today, skipped, dealt, owed, hidden, gaps>>
  BY DEF HistoryInv, AppendLog, LogFails, HistoryTypes, RecordsInTime
<1>2. /\ run' \in Run /\ run' # Idle /\ run'.stage = "report" /\ run'.outcome = run.outcome
      /\ run'.day = run.day /\ run'.transfers = run.transfers /\ run'.left = run.left
  BY <1>1 DEF Run, Idle
<1>3. Standing /\ Standing'
  BY <1>1, <1>2 DEF Standing
<1>4. /\ slip' \in Nat /\ slip <= slip'
      /\ log' \in Int \cup {Never} /\ tail' \in Int \cup {Never, Torn}
      /\ \A t \in AppliedTimes' :
            t \in AppliedTimes \/ (run.transfers /\ t = today /\ today - run.day <= slip')
  <2>1. CASE UNCHANGED <<log, tail, slip>>
    BY <1>1, <2>1 DEF HistoryTypes, AppliedTimes
  <2>2. CASE \E whole \in 0 .. 2, end \in {Never, Torn, today} : Append(whole, end)
    <3>1. PICK whole \in 0 .. 2, end \in {Never, Torn, today} : Append(whole, end)
      BY <2>2
    <3>2. QED BY <1>1, <3>1, AppendedRecords
  <2>3. QED BY <2>1, <2>2 DEF AppendLog, LogFails
<1> DEFINE longest == slip'
<1>5. longest \in Nat /\ slip <= longest
  BY <1>4
<1>6. ASSUME NEW e \in Events, Due(e)' PROVE Due(e)
  <2>1. DueBy(e, today, longest) /\ today \in Int
    BY <1>1, <1>6 DEF Due, DueBy, world, HistoryTypes
  <2> HIDE DEF longest
  <2>2. today <= today /\ longest \in Int
    BY <1>5, <2>1
  <2>3. QED BY <1>1, <1>5, <2>1, <2>2, DueBefore
<1>7. \A e \in Events : TakenUp(e)' <=> TakenUp(e)
  BY <1>1, <1>2 DEF TakenUp, world
<1>8. ASSUME ~run.transfers, NEW e \in Events, Covered(e) PROVE Covered(e)'
  BY <1>1, <1>4, <1>8 DEF Covered, world
<1>9. HistoryTypes'
  BY <1>1, <1>2, <1>4 DEF HistoryTypes, world
<1>10. RecordsInTime'
  <2>1. /\ today \in Int /\ run.day \in Int /\ run.day <= today /\ slip \in Nat
        /\ \A t \in AppliedTimes : t \in Int /\ t <= today /\ t <= run.day + slip
    BY <1>1, AppliedDays DEF HistoryTypes, Run, RecordsInTime
  <2> DEFINE applied == AppliedTimes'
  <2>2. \A t \in applied : t \in AppliedTimes \/ (t = today /\ today - run.day <= longest)
    BY <1>4
  <2> HIDE DEF longest, applied
  <2>3. \A t \in applied : t <= today /\ t <= run.day + longest
    BY <1>5, <2>1, <2>2
  <2> USE DEF longest, applied
  <2>4. QED BY <1>1, <1>2, <2>1, <2>3 DEF RecordsInTime
<1>11. OwedInRows'
  BY <1>1, <1>2, <1>3 DEF OwedInRows
<1>12. NothingBehind'
  BY <1>1, <1>2, <1>3, <1>6, <1>7, <1>8 DEF NothingBehind
<1>13. QED BY <1>9, <1>10, <1>11, <1>12 DEF HistoryInv

(* The run writes its rows, which speak of every event its record could    *)
(* leave behind.                                                           *)
LEMMA ReportKeeps ==
    ASSUME HistoryInv, WriteReports
    PROVE  HistoryInv'
<1>1. /\ HistoryTypes /\ RecordsInTime /\ OwedInRows /\ NothingBehind
      /\ run # Idle /\ run.stage = "report" /\ run \in Run
      /\ run' = Idle /\ skipped' = (IF run.transfers THEN run.left ELSE skipped)
      /\ UNCHANGED <<world, today, log, tail, slip>>
  BY DEF HistoryInv, WriteReports, HistoryTypes, RewritesRows
<1>2. \/ run.outcome = "nothing" /\ Stands /\ dealt' = run.done
      \/ run.outcome # "nothing" /\ UNCHANGED <<dealt, owed, hidden, gaps>>
  BY DEF WriteReports
<1>3. AppliedTimes' = AppliedTimes /\ \A x \in Events : Due(x)' <=> Due(x)
  BY <1>1 DEF AppliedTimes, Due, DueBy, world
<1>4. /\ gaps \subseteq gaps' /\ ("unreported" \notin gaps' => "unreported" \notin gaps)
      /\ run.outcome = "nothing" => (gaps' = {} => ~run.partial)
  BY <1>2 DEF Stands
<1>5. /\ run.left \in SUBSET Events /\ run.done \in SUBSET Events
      /\ run.hidden \in SUBSET Events
  BY <1>1 DEF Run
<1>6. HistoryTypes'
  BY <1>1, <1>2, <1>5 DEF HistoryTypes, world, Stands
<1>7. RecordsInTime'
  BY <1>1, <1>3 DEF RecordsInTime
<1>8. ~Standing' /\ (Standing <=> run.outcome # "nothing")
  BY <1>1 DEF Standing
<1>9. OwedInRows'
  BY <1>1, <1>2, <1>4, <1>8 DEF OwedInRows, Stands
<1>10. ASSUME gaps' = {}, NEW e \in Events \ (dealt' \cup hidden'), Due(e)
       PROVE  Covered(e)'
  <2>1. gaps = {}
    BY <1>4, <1>10
  <2>2. CASE run.transfers
    <3>1. TakenUp(e)
      BY <1>1, <1>2, <1>4, <1>8, <1>10, <2>1, <2>2 DEF NothingBehind, Stands
    <3>2. CASE e \in run.left
      <4>1. e \in skipped' /\ date'[e] = date[e] /\ date[e] \in Int
        BY <1>1, <2>2, <3>2, WindowAssumption DEF world, HistoryTypes, Days
      <4>2. date'[e] <= date'[e]
        BY <4>1
      <4>3. QED BY <4>1, <4>2 DEF Covered
    <3>3. CASE run.day <= published[e]
      <4>1. \A t \in AppliedTimes : t - Margin <= date[e]
        BY <1>1, <1>10, <3>3, UnseenIsCovered
      <4>2. QED BY <1>1, <1>3, <4>1 DEF Covered, world
    <3>4. QED BY <3>1, <3>2, <3>3 DEF TakenUp
  <2>3. CASE ~run.transfers
    <3>1. Covered(e)
      BY <1>1, <1>2, <1>4, <1>8, <1>10, <2>1, <2>3 DEF NothingBehind, Stands
    <3>2. QED BY <1>1, <1>3, <2>3, <3>1 DEF Covered, world
  <2>4. QED BY <2>2, <2>3
<1>11. NothingBehind'
  BY <1>1, <1>3, <1>8, <1>10 DEF NothingBehind
<1>12. QED BY <1>6, <1>7, <1>9, <1>11 DEF HistoryInv

LEMMA LossKeeps ==
    ASSUME HistoryInv, ReportsLost
    PROVE  HistoryInv'
<1>1. /\ HistoryTypes /\ RecordsInTime /\ OwedInRows /\ NothingBehind
      /\ run # Idle /\ run.stage \in {"log", "report"} /\ run.outcome # "nothing"
      /\ run' = Idle /\ gaps' = gaps \cup (IF run.transfers THEN {"unreported"} ELSE {})
      /\ UNCHANGED <<world, today, log, tail, skipped, dealt, owed, hidden, slip>>
  BY DEF HistoryInv, ReportsLost
<1>2. Standing /\ ~Standing'
  BY <1>1 DEF Standing
<1>3. AppliedTimes' = AppliedTimes /\ \A x \in Events : Due(x)' <=> Due(x)
  BY <1>1 DEF AppliedTimes, Due, DueBy, world
<1>4. \A x \in Events : Covered(x)' <=> Covered(x)
  BY <1>1, <1>3 DEF Covered, world
<1>5. HistoryTypes'
  BY <1>1 DEF HistoryTypes, world
<1>6. RecordsInTime' /\ OwedInRows'
  BY <1>1, <1>2, <1>3 DEF RecordsInTime, OwedInRows
<1>7. NothingBehind'
  BY <1>1, <1>2, <1>3, <1>4 DEF NothingBehind
<1>8. QED BY <1>5, <1>6, <1>7 DEF HistoryInv

LEMMA OthersKeep ==
    ASSUME HistoryInv, AnotherSave
    PROVE  HistoryInv'
<1>1. /\ HistoryTypes /\ RecordsInTime /\ OwedInRows /\ NothingBehind
      /\ tail' \in {Never, Torn} /\ UNCHANGED <<world, today, log, skipped, run, seen>>
  BY DEF HistoryInv, AnotherSave
<1>2. AppliedTimes' \subseteq AppliedTimes
  BY <1>1 DEF AppliedTimes
<1>3. \A x \in Events : (Due(x)' <=> Due(x)) /\ (TakenUp(x)' <=> TakenUp(x))
  BY <1>1 DEF Due, DueBy, TakenUp, world, seen
<1>4. \A x \in Events : Covered(x) => Covered(x)'
  BY <1>1, <1>2 DEF Covered, world
<1>5. Standing' = Standing
  BY <1>1 DEF Standing
<1>6. HistoryTypes'
  BY <1>1 DEF HistoryTypes, world, seen
<1>7. RecordsInTime' /\ OwedInRows'
  BY <1>1, <1>2, <1>5 DEF RecordsInTime, OwedInRows, seen
<1>8. NothingBehind'
  BY <1>1, <1>3, <1>4, <1>5 DEF NothingBehind, seen
<1>9. QED BY <1>6, <1>7, <1>8 DEF HistoryInv

LEMMA TickKeeps ==
    ASSUME HistoryInv, Tick
    PROVE  HistoryInv'
<1>1. /\ HistoryTypes /\ RecordsInTime /\ OwedInRows /\ NothingBehind
      /\ today' = today + 1 /\ UNCHANGED <<world, log, tail, skipped, run, seen>>
  BY DEF HistoryInv, Tick
<1> DEFINE day == today + 1
<1>2. day \in Int /\ today \in Int /\ today <= day /\ today' = day
  BY <1>1 DEF HistoryTypes
<1>3. AppliedTimes' = AppliedTimes /\ Standing' = Standing
  BY <1>1 DEF AppliedTimes, Standing
<1>4. ASSUME NEW e \in Events, Due(e)' PROVE Due(e)
  <2>1. DueBy(e, day, slip) /\ slip \in Int /\ slip <= slip
    BY <1>1, <1>2, <1>4 DEF Due, DueBy, world, seen, HistoryTypes
  <2> HIDE DEF day
  <2>2. QED BY <1>1, <1>2, <2>1, DueBefore
<1>5. \A x \in Events : (Covered(x)' <=> Covered(x)) /\ (TakenUp(x)' <=> TakenUp(x))
  BY <1>1, <1>3 DEF Covered, TakenUp, world
<1>6. HistoryTypes'
  BY <1>1, <1>2 DEF HistoryTypes, world, seen
<1>7. RecordsInTime'
  <2>1. \A t \in AppliedTimes : t \in Int /\ t <= today
    BY <1>1, AppliedDays DEF RecordsInTime
  <2>2. \A t \in AppliedTimes : t <= day
    BY <1>2, <2>1
  <2>3. run # Idle => run.day \in Int /\ run.day <= day
    BY <1>1, <1>2 DEF RecordsInTime, HistoryTypes, Run
  <2> HIDE DEF day
  <2>4. QED BY <1>1, <1>2, <1>3, <2>2, <2>3 DEF RecordsInTime, seen
<1>8. OwedInRows'
  BY <1>1, <1>3 DEF OwedInRows, seen
<1>9. NothingBehind'
  BY <1>1, <1>3, <1>4, <1>5 DEF NothingBehind, seen
<1>10. QED BY <1>6, <1>7, <1>8, <1>9 DEF HistoryInv

LEMMA StillKeeps ==
    ASSUME HistoryInv, UNCHANGED vars
    PROVE  HistoryInv'
<1>1. HistoryTypes /\ RecordsInTime /\ OwedInRows /\ NothingBehind
  BY DEF HistoryInv
<1>2. /\ AppliedTimes' = AppliedTimes /\ Standing' = Standing
      /\ \A x \in Events : (Due(x)' <=> Due(x)) /\ (TakenUp(x)' <=> TakenUp(x))
  BY DEF AppliedTimes, Standing, Due, DueBy, TakenUp, vars, world, seen
<1>3. \A x \in Events : Covered(x)' <=> Covered(x)
  BY <1>2 DEF Covered, vars, world
<1>4. HistoryTypes' /\ RecordsInTime' /\ OwedInRows'
  BY <1>1, <1>2 DEF HistoryTypes, RecordsInTime, OwedInRows, vars, world, seen
<1>5. NothingBehind'
  BY <1>1, <1>2, <1>3 DEF NothingBehind, vars, seen
<1>6. QED BY <1>4, <1>5 DEF HistoryInv

LEMMA HistoryStarts == Init => HistoryInv
<1> SUFFICES ASSUME Init PROVE HistoryInv
  OBVIOUS
<1>1. AppliedTimes = {} /\ ~Standing
  BY DEF Init, AppliedTimes, Standing
<1>2. HistoryTypes
  BY WindowAssumption DEF Init, HistoryTypes
<1>3. RecordsInTime /\ OwedInRows
  BY <1>1 DEF Init, RecordsInTime, OwedInRows
<1>4. NothingBehind
  BY <1>1 DEF Init, NothingBehind, Covered
<1>5. QED BY <1>2, <1>3, <1>4 DEF HistoryInv

LEMMA HistoryAlways == Spec => []HistoryInv
<1>1. HistoryInv /\ [Next]_vars => HistoryInv'
  BY BeginKeeps, StopKeeps, PublishKeeps, LogKeeps, ReportKeeps, LossKeeps, OthersKeep,
     TickKeeps, StillKeeps DEF Next
<1>2. QED BY <1>1, HistoryStarts, PTL DEF Spec

-----------------------------------------------------------------------------
(* "Never later than the oldest event still retryable from the previous    *)
(* run" (window.rs:52), as long as every run that wrote its log also wrote *)
(* its rows: what a run owes is in the rows, and the rows hold the window. *)
THEOREM RowsHoldTheWindow == Spec => []NeverLaterIfReported
<1>1. HistoryInv => NeverLaterIfReported
  <2> SUFFICES ASSUME HistoryInv, "unreported" \notin gaps, run = Idle, NEW e \in owed,
                      date[e] >= PreviousWindowStart(today)
               PROVE  date[e] >= SaveSince
    BY DEF NeverLaterIfReported, NeverLaterThanRetryable
  <2>1. HistoryTypes /\ e \in skipped /\ e \in Events
    BY DEF HistoryInv, OwedInRows, Standing, HistoryTypes
  <2>2. date[e] \in Int
    BY <2>1, WindowAssumption DEF HistoryTypes, Days
  <2>3. date[e] <= date[e]
    BY <2>2
  <2>4. Covered(e)
    BY <2>1, <2>3 DEF Covered
  <2>5. QED BY <2>1, <2>4, SinceReaches
<1>2. QED BY <1>1, HistoryAlways, PTL

(* "Each run picks up where the last one stopped" (README.md:66): between  *)
(* runs that look at all their save is due and write their rows, no event  *)
(* that was listed in time falls behind before some run has dealt with it, *)
(* unless a source that did not answer hid it from the last run to look.   *)
THEOREM NothingFallsBehind == Spec => []PicksUpWhereItStopped
<1>1. HistoryInv => PicksUpWhereItStopped
  <2> SUFFICES ASSUME HistoryInv, run = Idle, gaps = {}, NEW e \in Events \ (dealt \cup hidden),
                      InTime(e), date[e] >= PreviousWindowStart(today)
               PROVE  date[e] >= SaveSince
    BY DEF PicksUpWhereItStopped
  <2>1. HistoryTypes /\ Due(e) /\ ~Standing
    BY DEF HistoryInv, InTime, Due, DueBy, Standing
  <2>2. Covered(e)
    BY <2>1 DEF HistoryInv, NothingBehind
  <2>3. QED BY <2>1, <2>2, SinceReaches
<1>2. QED BY <1>1, HistoryAlways, PTL

=============================================================================
