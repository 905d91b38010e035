------------------------------- MODULE Round -------------------------------
(***************************************************************************)
(* The rounds of an update (fl-engine/src/pipeline): plan against the save *)
(* and the log, apply the plan step by step, repair the game plans, set    *)
(* the captains, and start over on what came out until a round changes     *)
(* nothing; then the integrity check accepts the result or takes all of it *)
(* back. Matching, Planner and Roster hold what a round computes.          *)
(***************************************************************************)
EXTENDS Planner

CONSTANTS
    InitialSaves,  \* saves a run may start from
    Feeds,         \* sets of events a scrape may bring
    SquadSets,     \* live squads it may bring: of a team, its name and members
    Logs,          \* what earlier runs may have logged
    PartSets,      \* the parts of the save a run may be asked to update
    Shape,         \* the formation the live data of a club names
    Marker,        \* the provider's player it names captain, or NoFid
    NoShape,
    MaxShirt,      \* MAX_SHIRT_NUMBER (999)
    MaxRounds      \* MAX_ROUNDS

\* UpdateParts, without tactics and leagues, which no rule here looks at.
AllParts == {"transfers", "shirt numbers", "captains", "formations", "lineups"}

ASSUME RoundAssumption ==
    MaxRounds \in Nat \ {0} /\ MaxShirt \in Nat /\ PartSets \subseteq SUBSET AllParts

VARIABLES
    before,     \* the save as it was read
    save,       \* the save as this run has changed it
    parts,      \* what this run was asked to update
    feed, squads,
    log,        \* entries of earlier runs and of the rounds so far
    round, phase,
    plan,       \* the steps of this round still to apply
    identified,      \* who the provider's players are, by the plan of this round
    joined,     \* players moved or signed in this session
    reshaped,   \* clubs this round wrote a formation for
    touched,    \* clubs whose roster it changed
    effective,  \* whether this round changed anything so far
    refusal     \* the first step the save refused this run: "no" or why

given == <<before, parts, feed, squads>>
vars == <<given, save, log, round, phase, plan, identified, joined, reshaped, touched, effective, refusal>>

\* What the fetch stage hands on of a feed: disabled parts are not fetched.
Fetched(events) ==
    {e \in events : IF IsShirt(e) THEN "shirt numbers" \in parts ELSE "transfers" \in parts}

NobodyKnown ==
    LET nobody == [f \in Fids |-> Nobody]
    IN  [live |-> [player |-> nobody, squad |-> [k \in Clubs |-> {}]], book |-> nobody]

Init ==
    /\ before \in InitialSaves /\ save = before /\ parts \in PartSets
    /\ feed \in Feeds /\ feed = Fetched(feed)
    /\ squads \in {SquadsOf(scraped) : scraped \in SquadSets} /\ log \in Logs
    /\ round = 1 /\ phase = "plan"
    /\ plan = <<>> /\ identified = NobodyKnown /\ joined = {} /\ reshaped = {} /\ touched = {}
    /\ effective = FALSE /\ refusal = "no"

\* The clubs whose squad came under the team they are bound to.
Indexed == {k \in Clubs : squads[k] # NoSquad /\ TeamOf[k] # NoTeam}

\* Formations are written before the roster changes.
Shaped(k) ==
    IF "formations" \in parts /\ k \in Indexed /\ Shape[k] # NoShape
    THEN Shape[k] ELSE save[k].form

\* What set_team_formation makes of the save.
Reshaped == [k \in Clubs |-> [save[k] EXCEPT !.form = Shaped(k)]]

RostersOf(s) == [k \in Clubs |-> Members(s[k])]
ShirtsOf(s) == [k \in Clubs |-> [p \in Members(s[k]) |-> ShirtOf(s[k], p)]]

\* What a plan changes: safety skips and what is current already are counted.
Steps(actions) == SelectSeq(actions, LAMBDA a : a.act \notin {"skip", "noop"})

\* A round starts without a session, like a fresh run would; the plan is made
\* against the save, the log and the records of the rounds so far.
PlanRound ==
    /\ phase = "plan"
    /\ LET matched == Matches(SetToSeq(feed), squads, RostersOf(save), ShirtsOf(save), log,
                              "transfers" \in parts)
       IN  /\ plan' = Steps(RosterPlan(matched.items, matched.live, save, log, TRUE))
           /\ identified' = [live |-> matched.live, book |-> matched.book]
    /\ save' = Reshaped
    /\ reshaped' = {k \in Clubs : Reshaped[k] # save[k]}
    /\ effective' = (reshaped' # {})
    /\ joined' = {} /\ touched' = {}
    /\ phase' = "apply"
    /\ UNCHANGED <<given, log, round, refusal>>

Applied(a, new) ==
    /\ save' = new
    /\ joined' = IF a.act = "release" THEN joined ELSE joined \cup {a.item.player}
    /\ touched' = touched \cup ({a.current, a.item.from, a.item.to} \cap Clubs)
    /\ log' = Append(log, a.item)
    /\ effective' = TRUE
    /\ UNCHANGED refusal

\* A refusal because the save no longer matches the plan skips the step.
Skipped(a) ==
    /\ refusal' = IF refusal # "no" THEN refusal
                  ELSE IF a.current # Nobody /\ IsLastKeeper(save[a.current], a.item.player)
                  THEN "keeper" ELSE "mismatch"
    /\ UNCHANGED <<save, joined, touched, log, effective>>

\* The shirt an event asks for.
Number(a) == IF "shirt numbers" \in parts THEN a.item.number ELSE 0

\* What the event says of the position. Unknown stands for a source that has none
\* and for a label that names none; the planner treats the two alike, a signing
\* does not.
LabelsOf(a) == IF a.item.position = Unknown THEN {Unknown, NoLabel} ELSE {a.item.position}

\* Mutant: the move starts where the event says.
StatedOrigin(a) == a.item.from

\* The move starts at the club that held the player when it was planned.
Origin(a) == a.current

ApplyMove ==
    /\ phase = "apply" /\ plan # <<>> /\ Head(plan).act = "move"
    /\ LET a == Head(plan)
           p == a.item.player
       IN  IF Origin(a) \in Clubs /\ CanMove(save, joined, p, Origin(a), a.item.to, a.casualty, TRUE)
           THEN \E label \in LabelsOf(a) :
                   Applied(a, Moved(save, joined, p, Origin(a), a.item.to, a.casualty,
                                    Number(a), label))
           ELSE Skipped(a)
    /\ plan' = Tail(plan)
    /\ UNCHANGED <<given, identified, round, phase, reshaped>>

ApplyAdd ==
    /\ phase = "apply" /\ plan # <<>> /\ Head(plan).act = "add"
    /\ LET a == Head(plan)
           p == a.item.player
       IN  IF CanAdd(save, joined, p, a.item.to, a.casualty, TRUE, {})
           THEN \E label \in LabelsOf(a) :
                   Applied(a, Added(save, joined, p, a.item.to, a.casualty, Number(a),
                                    label, {}))
           ELSE Skipped(a)
    /\ plan' = Tail(plan)
    /\ UNCHANGED <<given, identified, round, phase, reshaped>>

ApplyRelease ==
    /\ phase = "apply" /\ plan # <<>> /\ Head(plan).act = "release"
    /\ LET a == Head(plan)
       IN  IF CanRelease(save, a.item.player, a.item.from)
           THEN Applied(a, Released(save, a.item.player, a.item.from))
           ELSE Skipped(a)
    /\ plan' = Tail(plan)
    /\ UNCHANGED <<given, identified, round, phase, reshaped>>

\* The largest set of requests whose numbers are free or worn by someone of
\* the set, so that swaps go through and chains do not end in a clash.
Unblocked(c, asked) ==
    LET closed(S) == \A r \in S : \A q \in Members(c) \ {r.player} :
                        ShirtOf(c, q) = r.number => \E other \in S : other.player = q
    IN  UNION {S \in SUBSET asked : closed(S)}

ClearRequests(c, items) ==
    LET asked == {i \in items : /\ i.player \in Members(c)
                                /\ i.number \in 1 .. MaxShirt /\ ShirtOf(c, i.player) # i.number}
    IN  Unblocked(c, {r \in asked : \A o \in asked \ {r} : o.number # r.number})

\* The plan's steps on the shirts of club k, and those that may be made.
ShirtSteps(k) == SelectSeq(plan, LAMBDA a : a.act = "shirt" /\ a.item.to = k)
ShirtBatch(k) ==
    LET mine == ShirtSteps(k)
    IN  ClearRequests(save[k], {mine[n].item : n \in DOMAIN mine})

\* The shirts of a club change together, when its first request is reached; a
\* batch the save refuses fails the run.
ApplyShirts ==
    /\ phase = "apply" /\ plan # <<>> /\ Head(plan).act = "shirt"
    /\ LET k == Head(plan).item.to
           requests == SetToSeq(ShirtBatch(k))
           updates == [n \in DOMAIN requests |-> <<requests[n].player, requests[n].number>>]
       IN  /\ plan' = SelectSeq(plan, LAMBDA a : a \notin ToSet(ShirtSteps(k)))
           /\ IF CanRenumber(save[k], updates)
              THEN /\ save' = [save EXCEPT ![k] = Renumbered(@, updates)]
                   /\ log' = log \o requests
                   /\ effective' = (effective \/ requests # <<>>)
                   /\ UNCHANGED phase
              ELSE /\ save' = before
                   /\ phase' = "failed"
                   /\ UNCHANGED <<log, effective>>
    /\ UNCHANGED <<given, identified, round, joined, reshaped, touched, refusal>>

CaptainConfidence == 90   \* CAPTAIN_NAME_CONFIDENCE
CaptainOf(c) == IF c.captain = NoSlot THEN Nobody ELSE c.ids[c.captain]

\* The plan's identity when the club has him, else the name in the roster.
NamedCaptain(k, roster) ==
    LET identity == identified.book[Marker[k]]
        q == [Profile[Marker[k]] EXCEPT !.position = Unknown]
    IN  IF identity \in roster THEN identity
        ELSE MatchPlayer(q, CaptainConfidence, IF roster = {} THEN <<>> ELSE <<roster>>).player

Marked(c, k) ==
    LET p == IF k \in Indexed /\ Marker[k] # NoFid THEN NamedCaptain(k, Members(c)) ELSE Nobody
    IN  IF p \in Members(c) /\ CaptainOf(c) # p THEN [c EXCEPT !.captain = SlotOf(c, p)] ELSE c
CaptainEntry(c, k) ==
    [player |-> CaptainOf(c), fid |-> Marker[k], from |-> k, to |-> k, kind |-> "captain",
     date |-> 0, number |-> 0, position |-> Unknown, sure |-> 100]

\* Mutant: the XI is picked again whatever the run was asked for.
PlansAlignedAlways(k) == GamePlanRepaired(save[k], joined, k \in Indexed \cup touched, TRUE)

\* align_game_plans: every game plan is repaired and the clubs with a live squad
\* or a roster change get a new XI; without lineups, only the clubs of this run
\* are repaired, as far as their integrity needs.
PlansAligned(k) ==
    LET all == "lineups" \in parts
    IN  IF all \/ k \in reshaped \cup touched
        THEN GamePlanRepaired(save[k], joined, all /\ k \in Indexed \cup touched, TRUE)
        ELSE {save[k]}

\* The captains follow the repairs.
Captained(repaired) ==
    IF "captains" \in parts THEN [k \in Clubs |-> Marked(repaired[k], k)] ELSE repaired

\* Whether the round changed the save, with what its end makes of it.
IsEffective(new) == effective \/ new # save

\* A round that changed nothing is the last.
FinishRound ==
    /\ phase = "apply" /\ plan = <<>>
    /\ \E plans \in {[k \in Clubs |-> PlansAligned(k)]} :
       \E repaired \in [Clubs -> UNION Range(plans)] :
          LET new == Captained(repaired)
              named == SetToSeq({k \in Clubs : new[k] # repaired[k]})
          IN  /\ \A k \in Clubs : repaired[k] \in plans[k]
              /\ save' = new
              /\ log' = log \o [n \in DOMAIN named |-> CaptainEntry(new[named[n]], named[n])]
              /\ effective' = IsEffective(new)
              /\ IF IsEffective(new) /\ round < MaxRounds
                 THEN phase' = "plan" /\ round' = round + 1
                 ELSE phase' = "verify" /\ UNCHANGED round
    /\ UNCHANGED <<given, identified, plan, joined, reshaped, touched, refusal>>

(***************************************************************************)
(* validate_integrity: what is wrong with a save                           *)
(***************************************************************************)
RosterErrors(c, k) ==
    LET worn == {s \in Active(c.ids) : c.shirts[s] # 0}
    IN  {e \in {<<"holes", k>>} : Active(c.ids) # 1 .. Count(c)}
        \cup {e \in {<<"twice", k>>} : Cardinality(Members(c)) # Count(c)}
        \cup {e \in {<<"shirts", k>>} : \E s, t \in worn : s # t /\ c.shirts[s] = c.shirts[t]}
        \cup {e \in {<<"undersized", k>>} : Count(c) < MinRoster}

GamePlanErrors(c, k) ==
    LET n == Count(c)
        starter(r) == c.ids[c.lineup[r]]
        placed == {r \in 1 .. StarterCount(c) : c.lineup[r] \in Active(c.ids)
                                                /\ PosOf[starter(r)] # Unknown}
    IN  {e \in {<<"prefix", k>>} : {c.lineup[r] : r \in 1 .. n} # Active(c.ids)}
        \cup {e \in {<<"starters", k>>} :
                ~ /\ {c.lineup[r] : r \in 1 .. StarterCount(c)} \subseteq Active(c.ids)
                  /\ Cardinality({c.lineup[r] : r \in 1 .. StarterCount(c)}) = StarterCount(c)}
        \cup {e \in {<<"codes", k>>} : Cardinality({r \in 1 .. Starters : c.form[r] = Gk}) # 1}
        \cup {<<"keeper", k, starter(r)>> : r \in {q \in placed : PosOf[starter(q)] = Gk /\ c.form[q] # Gk}}
        \cup {<<"outfield", k, starter(r)>> : r \in {q \in placed : PosOf[starter(q)] # Gk /\ c.form[q] = Gk}}
        \cup {e \in {<<"captain", k>>} : c.captain # NoSlot /\ c.captain \notin Active(c.ids)}

IntegrityErrors(s) ==
    UNION {RosterErrors(s[k], k) \cup (IF Count(s[k]) = 0 THEN {} ELSE GamePlanErrors(s[k], k)) :
             k \in Clubs}
    \cup {<<"clubs", p>> : p \in {q \in Players : Cardinality(ClubsHolding(s, q)) > 1}}

\* Only errors the save did not have before count.
Verify ==
    /\ phase = "verify"
    /\ IF IntegrityErrors(save) \subseteq IntegrityErrors(before)
       THEN phase' = "done" /\ UNCHANGED save
       ELSE phase' = "rejected" /\ save' = before
    /\ UNCHANGED <<given, identified, log, round, plan, joined, reshaped, touched, effective, refusal>>

Next == PlanRound \/ ApplyMove \/ ApplyAdd \/ ApplyRelease \/ ApplyShirts \/ FinishRound \/ Verify

Spec == Init /\ [][Next]_vars

-----------------------------------------------------------------------------
\* What the planner lets through the save takes: the roster minimum, room at
\* the destination, one club per player and unique shirt numbers hold at the
\* end of any number of rounds, and neither the integrity check nor a batch of
\* shirt numbers fails the run. The exception is a run in which the save
\* refused to give away a club's last goalkeeper: the plan does not know that
\* rule, counted on the move, and may have let others go.
AcceptedAsMade == phase \in {"rejected", "failed"} => refusal = "keeper"

\* The rounds come to rest before the last one they are allowed
\* (pipeline/mod.rs: "Settling here makes a rerun a no-op"), although events,
\* live squads and logged moves contradict each other.
Settles == phase \in {"verify", "done", "rejected"} => round < MaxRounds \/ ~effective

\* Each step finds the save as the planner simulated it: players where it saw
\* them, room where it made some, casualties that may still be released.
PlanHolds == refusal # "mismatch"

\* Events of the feed that tell of p under a name that is not his.
Contested(p) ==
    \E e \in feed : e.fid # NoFid /\ identified.live.player[e.fid] = p /\ e.name # Profile[e.fid].name

\* Over all rounds and with the log of earlier runs, no dated event is applied
\* twice and a player's newer move is not followed by an older one. The order
\* is not claimed for a player whom an event calls by another one's name: such
\* an event binds him or nobody from round to round.
EventsInOrder ==
    \A m, n \in DOMAIN log :
        /\ m < n /\ log[m].player = log[n].player /\ log[m].date # 0 /\ log[n].date # 0
        => /\ <<log[m].date, log[m].from, log[m].to>> # <<log[n].date, log[n].from, log[n].to>>
           /\ Contested(log[m].player) \/ log[m].date <= log[n].date

\* Events that may be about p: by the provider's id or a name like one of his.
About(p, live) ==
    {e \in feed : \/ e.fid # NoFid /\ live.player[e.fid] = p
                  \/ \E own \in NamesOf[p] : Similar(e.name, own).words >= Threshold - BonusMax}

\* A player no event is about, whom his club's live squad lists, is still at
\* that club after the run: neither an overflow nor a release from a squad nor
\* another squad's registration takes him away.
LiveSquadStays ==
    phase = "done" =>
        \A live \in {Live(squads, RostersOf(before), ShirtsOf(before))} :
            \A k \in Indexed : \A p \in live.squad[k] \cap Members(before[k]) :
                About(p, live) # {} \/ p \in Members(save[k])

\* What a run records about a provider's player is about the save player the
\* live squads bind him to, whatever the names in the feed say, and although
\* every round looks for the members again, in the rosters it has made. Not so
\* for a name of one word: once this run signs another player who has exactly
\* that name, the next round takes him for the member.
IdentityAgrees ==
    \A n \in DOMAIN log :
        /\ log[n].fid \in Fids /\ identified.live.player[log[n].fid] # Nobody
        /\ Profile[log[n].fid].name \notin OneWord
        => log[n].player = identified.live.player[log[n].fid]

\* Whom the log, of this run or earlier ones, sends from or to club k.
Transferred(k) ==
    {log[n].player : n \in {m \in DOMAIN log : /\ k \in {log[m].from, log[m].to}
                                               /\ log[m].kind \notin {"shirt", "captain"}}}

\* The players of the XI, by role.
Xi(c) == [r \in 1 .. Starters |-> IF c.lineup[r] \in Slots THEN c.ids[c.lineup[r]] ELSE Nobody]

\* "Disabled parts are neither fetched, planned nor written" (api.rs:46): over
\* all rounds, what other parts, overflows and repairs do to a club leaves alone
\* what the run was not asked to update.
OnlyThePartsAsked ==
    \A k \in Clubs :
        LET old == before[k]
            new == save[k]
            stayed == (Members(old) \cap Members(new)) \ Transferred(k)
            settled == Members(old) = Members(new) /\ stayed = Members(old)
        IN  /\ "transfers" \notin parts => old.ids = new.ids
            /\ "shirt numbers" \notin parts =>
                  \A p \in stayed : ShirtOf(old, p) = ShirtOf(new, p)
            /\ "captains" \notin parts /\ CaptainOf(old) \in stayed
               => CaptainOf(new) = CaptainOf(old)
            /\ "formations" \notin parts => old.form = new.form
            /\ "lineups" \notin parts /\ settled => Xi(old) = Xi(new)
=============================================================================
