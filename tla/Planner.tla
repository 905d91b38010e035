------------------------------ MODULE Planner ------------------------------
(***************************************************************************)
(* The roster actions of a planning pass                                   *)
(* (fl-engine/src/planning/roster_actions.rs): each matched item, in       *)
(* order, is decided and simulated on slots whose holes stay where players *)
(* left, so that the overflow ranking still reads the file's lineups.      *)
(*                                                                         *)
(* An action is [item, act, current, casualty]: what to do, the club that  *)
(* held the player when it was decided (Nobody for none) and the player a  *)
(* full destination releases.                                              *)
(***************************************************************************)
EXTENDS Matching

CONSTANT MinRoster   \* MIN_CLUB_ROSTER_SIZE

ASSUME PlannerAssumption == MinRoster \in Nat

(***************************************************************************)
(* Evidence around an item                                                 *)
(***************************************************************************)
PriorLoans(items, log) ==
    {[player |-> h.player, parent |-> h.from, club |-> h.to, when |-> When(h)] :
        h \in {l \in ToSet(log) : IsLoan(l) /\ l.from \in Clubs}}
    \cup {[player |-> i.player, parent |-> i.from, club |-> i.to, when |-> i.date] :
        i \in {j \in ToSet(items) : IsLoan(j) /\ j.player # Nobody /\ j.from \in Clubs
                                    /\ j.to # Unresolved /\ j.date # 0}}

\* Clubs a feed-omitted loan return left the player at: only a strictly
\* earlier loan from the same parent counts.
SupersededSources(i, loans) ==
    LET earlier == {l \in loans : l.player = i.player /\ l.when < i.date}
    IN  IF i.player = Nobody \/ i.to \notin Clubs \/ i.date = 0 THEN {}
        ELSE IF i.from = Outside
        THEN {l.parent : l \in {x \in earlier : x.club = Outside /\ x.parent # i.to}}
        ELSE IF i.from \in Clubs
        THEN {l.club : l \in {x \in earlier : x.parent = i.from /\ x.club \in Clubs \ {i.to}}}
        ELSE {}

\* Mutant: every item counts as new.
NeverApplied(i, log) == FALSE

\* The log holds the identical dated event.
AlreadyApplied(i, log) ==
    /\ FullyMatched(i) /\ ~IsShirt(i) /\ i.date # 0
    /\ \E h \in ToSet(log) :
          h.player = i.player /\ h.from = i.from /\ h.to = i.to /\ h.date = i.date

LastOf(S) == CHOOSE i \in S : \A j \in S : j <= i

\* Players whose last matched event of the feed brings them to club k.
FeedMembers(items, k) ==
    LET of(p) == {i \in DOMAIN items : items[i].player = p /\ FullyMatched(items[i])
                                       /\ ~IsShirt(items[i])}
    IN  {p \in {i.player : i \in ToSet(items)} : of(p) # {} /\ items[LastOf(of(p))].to = k}

\* The live squad of the destination, or a later event from it or shirt
\* observation at it, says the player went there.
DestinationEvidence(items, live, n) ==
    LET i == items[n]
    IN  /\ i.to \in Clubs
        /\ \/ i.player \in live.squad[i.to]
           \/ \E m \in n + 1 .. Len(items) :
                 /\ items[m].player = i.player /\ FullyMatched(items[m])
                 /\ i.to = IF IsShirt(items[m]) THEN items[m].to ELSE items[m].from

\* decide_roster_action: current is the club that holds the player, or Nobody.
Decided(current, i, reconcilable) ==
    IF IsShirt(i) THEN IF current = i.to THEN "shirt" ELSE "skip"
    ELSE IF i.to \in Clubs
    THEN IF current = i.to THEN "noop"
         ELSE IF current = i.from \/ current \in reconcilable THEN "move"
         ELSE IF current = Nobody THEN "add" ELSE "skip"
    ELSE IF i.from \notin Clubs THEN "skip"
    ELSE IF current = i.from THEN "release"
    ELSE IF current = Nobody THEN "noop" ELSE "skip"

(***************************************************************************)
(* The simulated rosters                                                   *)
(***************************************************************************)
Values(ids) == {ids[s] : s \in Active(ids)}
Hole(ids) == CHOOSE s \in Slots \ Active(ids) : \A t \in Slots \ Active(ids) : s <= t
Vacated(slots, k, p) == [slots EXCEPT ![k] = [s \in Slots |-> IF @[s] = p THEN Nobody ELSE @[s]]]
Filled(slots, k, p) == [slots EXCEPT ![k] = [@ EXCEPT ![Hole(@)] = p]]

\* Mutant: the live squad of the club does not protect.
GuardedByFeedOnly(d, t, k) == t.joined \cup (FeedMembers(d.items, k) \cap Values(t.slots[k]))

\* Whom an overflow never releases: players of this plan, the club's live
\* squad and those the feed puts there.
Guarded(d, t, k) ==
    t.joined \cup ((FeedMembers(d.items, k) \cup d.live.squad[k]) \cap Values(t.slots[k]))

\* A full club drops a player the plan releases later before one it keeps.
PlannedCasualty(d, t, k, incoming) ==
    LET ids == t.slots[k]
        guarded == Guarded(d, t, k)
        leaving == {p \in (t.pending[k] \cap Values(ids)) \ (guarded \cup {incoming}) :
                      {j \in Clubs : p \in Values(t.slots[j])} = {k}}
        choice(kept) == OverflowCandidate(d.save[k], ids, incoming, kept, {})
        first == IF leaving = {} THEN Nobody ELSE choice(guarded \cup (Values(ids) \ leaving))
    IN  IF first \in leaving THEN first ELSE choice(guarded)

(***************************************************************************)
(* One item                                                                *)
(***************************************************************************)
\* d: items, the live squads' players, save, log and whether overflow releases
\* are allowed.
\* t: slots, joined (the players this plan moved in), pending (releases still
\* to come) and the actions so far.
Choice(d, t, n) ==
    LET i == d.items[n]
        clubs == {k \in Clubs : i.player \in Values(t.slots[k])}
        current == Only(clubs)
        reconcilable == SupersededSources(i, PriorLoans(d.items, d.log))
            \cup IF current \notin {Nobody, i.from, i.to} /\ ~IsShirt(i)
                    /\ DestinationEvidence(d.items, d.live, n)
                 THEN {current} ELSE {}
        applied == {m \in DOMAIN d.items : /\ d.items[m].player = i.player
                                           /\ AlreadyApplied(d.items[m], d.log)}
        before == n \in applied \/ (~IsShirt(i) /\ \E m \in applied : m > n)
    IN  [item |-> i, current |-> current, casualty |-> Nobody,
         act |-> IF ~FullyMatched(i) \/ Cardinality(clubs) > 1 THEN "skip"
                 ELSE IF before THEN "noop" ELSE Decided(current, i, reconcilable)]

\* Mutant: the minimum counts the player who leaves.
AtMinimumLate(t, a) ==
    a.act \in {"move", "release"} /\ Cardinality(Active(t.slots[a.current])) < MinRoster

\* A departure that would leave its club below the minimum waits.
AtMinimum(t, a) ==
    a.act \in {"move", "release"} /\ Cardinality(Active(t.slots[a.current])) <= MinRoster

Refused(a) == [a EXCEPT !.act = "skip"]

WithCasualty(d, t, a) ==
    LET to == a.item.to
        casualty == PlannedCasualty(d, t, to, a.item.player)
    IN  IF a.act \notin {"move", "add"} \/ Active(t.slots[to]) # Slots THEN a
        ELSE IF ~d.overflow \/ casualty = Nobody THEN Refused(a)
        ELSE [a EXCEPT !.casualty = casualty]

Simulated(t, a) ==
    LET p == a.item.player
        to == a.item.to
        room == IF a.casualty = Nobody THEN t.slots ELSE Vacated(t.slots, to, a.casualty)
        left == IF a.act \in {"move", "release"} THEN Vacated(room, a.current, p) ELSE room
        signs == a.act \in {"move", "add"}
    IN  [t EXCEPT !.slots = IF signs THEN Filled(left, to, p) ELSE left,
                  !.joined = IF signs THEN @ \cup {p} ELSE @,
                  !.actions = Append(@, a)]

PlanItem(d, t, n) ==
    LET a == Choice(d, t, n)
    IN  Simulated(t, WithCasualty(d, t, IF AtMinimum(t, a) THEN Refused(a) ELSE a))

(***************************************************************************)
(* The plan                                                                *)
(***************************************************************************)
\* One pass over the indices: an item at the minimum waits, and so do the
\* later items of its player.
Pass(d, t, indices) ==
    FoldLeft(
      LAMBDA r, n :
        LET i == d.items[n]
            reached == IF IsRelease(i) THEN [r.t EXCEPT !.pending[i.from] = @ \ {i.player}] ELSE r.t
        IN  IF i.player \in r.blocked \/ AtMinimum(reached, Choice(d, reached, n))
            THEN [r EXCEPT !.t = reached, !.waiting = Append(@, n),
                           !.blocked = @ \cup {i.player}]
            ELSE [r EXCEPT !.t = PlanItem(d, reached, n)],
      [t |-> t, waiting |-> <<>>, blocked |-> {}], indices)

\* Passes over what waits until one makes no progress; the rest is refused.
Settled(d, r) ==
    LET again == FoldLeft(
                   LAMBDA q, step :
                     LET next == Pass(d, q.t, q.waiting)
                     IN  IF Len(next.waiting) = Len(q.waiting) THEN q ELSE next,
                   r, r.waiting)
    IN  FoldLeft(LAMBDA t, n : PlanItem(d, t, n), again.t, again.waiting)

RosterPlan(items, live, save, log, overflow) ==
    LET d == [items |-> items, live |-> live, save |-> save, log |-> log,
              overflow |-> overflow]
        pending == [k \in Clubs |-> {i.player : i \in {j \in ToSet(items) : IsRelease(j) /\ j.from = k}}]
        start == [slots |-> [k \in Clubs |-> save[k].ids], joined |-> {}, pending |-> pending,
                  actions |-> <<>>]
    IN  Settled(d, Pass(d, start, [n \in DOMAIN items |-> n])).actions
=============================================================================
