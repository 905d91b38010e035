----------------------------- MODULE Matching -----------------------------
(***************************************************************************)
(* The matching stage of a planning pass (fl-engine/src/planning): the     *)
(* events of a scrape and the live squads are bound to save players and    *)
(* clubs while a copy of the rosters follows them.                         *)
(*                                                                         *)
(* An event is a record                                                    *)
(*   fid     the provider's player, NoFid when the source has no ids       *)
(*   name, position, nation, age   what the source says of the player      *)
(*   from,to what the source says of the clubs, resolved first: a club of  *)
(*           the save, Outside it, or Unresolved                           *)
(*   kind    "transfer", "loan", "end of loan", "registration", "release"  *)
(*           or "shirt"                                                    *)
(*   date    0 when undated                                                *)
(*   number  shirt number, 0 when none                                     *)
(*   infer   "no", or for a destination-only signal "proven" or "weak"     *)
(* A matched item has the player and the confidence of the match (sure) in *)
(* place of his name, nation and age.                                      *)
(***************************************************************************)
EXTENDS LiveSquads

CONSTANTS
    NoFid,
    MinSquad,    \* MIN_COMPLETE_SQUAD_MEMBERS
    Gap,         \* SHIRT_CONFIDENCE_GAP
    Today        \* latest date; the time of a log entry without a date

ASSUME MatchingAssumption ==
    /\ NoFid \notin Fids
    /\ Today \in Nat \ {0} /\ MinSquad \in Nat /\ Gap \in Nat

IsShirt(i) == i.kind = "shirt"
IsLoan(i) == i.kind = "loan"
IsRelease(i) == i.player # Nobody /\ i.from \in Clubs /\ i.to = Outside
FullyMatched(i) ==
    /\ i.player # Nobody
    /\ \/ i.from \in Clubs /\ i.to \in Clubs \cup {Outside}
       \/ i.from = Outside /\ i.to \in Clubs
       \/ IsShirt(i) /\ i.to \in Clubs

\* Dated events chronologically, then undated ones, then shirt observations;
\* ties keep their order.
OrderKey(e) == IF IsShirt(e) THEN Today + 2 ELSE IF e.date = 0 THEN Today + 1 ELSE e.date
SortedBy(seq, key(_), last) ==
    FlattenSeq([d \in 1 .. last |-> SelectSeq(seq, LAMBDA e : key(e) = d)])
Ordered(events) == SortedBy(events, OrderKey, Today + 2)

ClubsOf(held, p) == {k \in Clubs : p \in held[k]}

(***************************************************************************)
(* The log, replayed                                                       *)
(***************************************************************************)
When(h) == IF h.date = 0 THEN Today ELSE h.date

\* A loan marks the player as lent by its source; every other event clears the
\* source's marker, and a returning loan the parent's too.
LentAfter(lent, i) ==
    IF IsLoan(i) THEN lent \cup {<<i.from, i.player>>}
    ELSE lent \ ({<<i.from, i.player>>}
                 \cup IF i.kind = "end of loan" /\ i.to \in Clubs THEN {<<i.to, i.player>>} ELSE {})

Route(i, when) == [player |-> i.player, source |-> i.from, dest |-> i.to, when |-> when]

\* What the log says: loans still open, permanent moves, and the save players
\* it ties a provider's player to.
Replayed(log) ==
    FoldLeft(
      LAMBDA h, i :
        IF i.from \notin Clubs THEN h
        ELSE [h EXCEPT
               !.lent = LentAfter(@, i),
               !.routes = IF IsLoan(i) \/ i.to \notin Clubs \/ i.kind \in {"end of loan", "shirt"}
                          THEN @ ELSE @ \cup {Route(i, When(i))}],
      [lent |-> {}, routes |-> {}], SortedBy(log, When, Today))

LoggedIdentity(log, fid) == {log[i].player : i \in {j \in DOMAIN log : log[j].fid = fid}}

(***************************************************************************)
(* Matching                                                                *)
(***************************************************************************)
\* The live squad's identity of a provider's player, over the log's only one.
Book(log, live) ==
    [f \in Fids |-> IF live.player[f] # Nobody THEN live.player[f] ELSE Only(LoggedIdentity(log, f))]

Who(p, sure) == [player |-> p, sure |-> sure, learn |-> FALSE]

\* Mutant: the name search wins over the provider's id.
NameWins(m, e, named, context) == [Who(named.player, named.sure) EXCEPT !.learn = TRUE]

\* Who an event is about when the name search and the provider's id disagree:
\* the live squad decides, then whose identity the event's clubs register; a
\* conflict nobody decides leaves the event without a player.
Arbitrated(m, e, named, context) ==
    LET known == m.book[e.fid]
        route == UNION {context[k] : k \in {e.from, e.to} \cap Clubs}
    IN  IF m.live.player[e.fid] = known THEN Who(known, 100)
        ELSE IF named.player \in route /\ known \notin route
        THEN [Who(named.player, named.sure) EXCEPT !.learn = TRUE]
        ELSE IF known \in route /\ named.player \notin route THEN Who(known, 100)
        ELSE Who(Nobody, 0)

Identity(m, e, named, context) ==
    LET known == IF e.fid = NoFid THEN Nobody ELSE m.book[e.fid]
        seen == IF e.fid = NoFid THEN Nobody ELSE m.live.player[e.fid]
    IN  IF IsShirt(e) /\ seen # Nobody THEN Who(seen, 100)
        ELSE IF known \in {Nobody, named.player} THEN Who(named.player, named.sure)
        ELSE IF named.player # Nobody THEN Arbitrated(m, e, named, context)
        ELSE IF e.infer # "no" \/ ~Fits(known, e) THEN Who(Nobody, 0)
        ELSE Who(known, 100)

\* The source of a destination-only signal is the player's only club.
Inferred(e, who, current) ==
    IF e.infer = "proven" /\ who.sure = 100 /\ e.to \in Clubs /\ current \in Clubs
    THEN current ELSE Unresolved

\* A loan from a club he has left for good starts where he went.
Rebased(m, e, p, from, current) ==
    IF /\ IsLoan(e) /\ e.date # 0
       /\ from \in Clubs /\ e.to \in Clubs /\ current \in Clubs \ {from, e.to}
       /\ \E r \in m.routes : /\ r.player = p /\ r.source = from /\ r.dest = current
                              /\ r.when <= e.date
    THEN current ELSE from

\* The rosters as the later events see them.
HeldAfter(m, i, current) ==
    LET clubs == ClubsOf(m.held, i.player)
        live == i.to \in Clubs /\ i.player \in m.live.squad[i.to]
        lent(k) == <<k, i.player>> \in m.lent
        transfer == [m.held EXCEPT ![current] = @ \ {i.player}, ![i.to] = @ \cup {i.player}]
        elsewhere == current \in Clubs \ {i.to}
    IN  IF i.to \in Clubs /\ clubs = {} THEN [m.held EXCEPT ![i.to] = @ \cup {i.player}]
        ELSE IF i.to \in Clubs /\ elsewhere
                /\ (live \/ IF i.from \in Clubs THEN current = i.from \/ lent(i.from)
                            ELSE lent(current))
        THEN transfer
        ELSE IF i.to = Outside /\ i.from \in Clubs /\ current = i.from
        THEN [m.held EXCEPT ![i.from] = @ \ {i.player}]
        ELSE m.held

\* The later events follow a bound item; current is the club that held the
\* player when it was bound.
Followed(m, i, current) ==
    IF i.player = Nobody \/ Unresolved \in {i.from, i.to} \/ IsShirt(i) THEN m
    ELSE [m EXCEPT
            !.held = HeldAfter(m, i, current),
            !.routes = IF /\ i.from \in Clubs /\ i.to \in Clubs /\ i.date # 0
                          /\ current = i.from /\ i.kind \notin {"loan", "end of loan"}
                       THEN @ \cup {Route(i, i.date)} ELSE @,
            !.lent = IF i.from \in Clubs THEN LentAfter(@, i) ELSE @]

Bound(m, e, who, from) ==
    LET p == who.player
        item == [player |-> p, fid |-> e.fid, from |-> from, to |-> e.to, kind |-> e.kind,
                 date |-> e.date, number |-> e.number, position |-> e.position, sure |-> who.sure]
        learnt == e.fid # NoFid /\ p # Nobody /\ (who.learn \/ m.book[e.fid] = Nobody)
    IN  Followed([m EXCEPT !.items = Append(@, item),
                           !.book = IF learnt THEN [@ EXCEPT ![e.fid] = p] ELSE @],
                 item, Only(ClubsOf(m.held, p)))

Sourced(m, e, who, current) ==
    LET stated == IF e.from = Outside /\ e.infer # "no" THEN Inferred(e, who, current) ELSE e.from
    IN  Bound(m, e, who, IF who.player = Nobody THEN stated
                         ELSE Rebased(m, e, who.player, stated, current))

Placed(m, e, who) == Sourced(m, e, who, Only(ClubsOf(m.held, who.player)))

WithClubs(e) == [e EXCEPT !.from = SideClub(@), !.to = SideClub(@)]

\* One event. m: the rosters, loans, routes and identities so far, and the
\* items bound. A club's players on loan count as its own when it is the source.
MatchEvent(m, e) ==
    LET lentBy(k) == {p \in Players : <<k, p>> \in m.lent}
        context == [k \in Clubs |-> m.held[k] \cup IF k = e.from THEN lentBy(k) ELSE {}]
        of(k) == IF k \in Clubs THEN context[k] ELSE {}
        named == MatchPlayer(e, Threshold, SelectSeq(<<of(e.from), of(e.to)>>, LAMBDA r : r # {}))
    IN  Placed(m, e, Identity(m, e, named, context))

(***************************************************************************)
(* Moves and releases from the live squads                                 *)
(***************************************************************************)
Covered(squads, k) == squads[k] # NoSquad /\ Cardinality(squads[k]) >= MinSquad

\* Players of the saved roster the squad lists, by the identities known by now
\* or by their names.
Confirmed(m, squads, k) ==
    LET unknown == {f \in squads[k] : m.book[f] \notin m.saved[k]}
        found == {MatchMember(Profile[f], k, m.saved, m.shirtOf) : f \in unknown}
    IN  m.saved[k] \cap ({m.book[f] : f \in squads[k]}
                         \cup {r.player : r \in {x \in found : x.sure >= ContextConfidence}})

\* A squad releases nobody and moves nobody in unless it confirms the roster.
Healthy(m, confirmed, k) ==
    /\ m.saved[k] # {}
    /\ Cardinality(confirmed[k]) >= MinSquad
    /\ 4 * Cardinality(confirmed[k]) >= 3 * Cardinality(m.saved[k])

BeforeShirts(items, new) ==
    LET first == {i \in DOMAIN items : IsShirt(items[i])}
        at == IF first = {} THEN Len(items) ELSE (CHOOSE i \in first : \A j \in first : i <= j) - 1
    IN  SubSeq(items, 1, at) \o new \o SubSeq(items, at + 1, Len(items))

SquadItem(kind, p, fid, from, to) ==
    [player |-> p, fid |-> fid, from |-> from, to |-> to, kind |-> kind, date |-> 0,
     number |-> IF fid = NoFid THEN 0 ELSE Profile[fid].number,
     position |-> IF fid = NoFid THEN Unknown ELSE Profile[fid].position, sure |-> 100]

\* confirmed: of every covered club; coverage is judged against the rosters of
\* the save, which the events have not touched.
SquadMove(m, fid, confirmed, squads) ==
    LET p == m.live.player[fid]
        covered == DOMAIN confirmed
        to == Only({k \in Clubs : squads[k] # NoSquad /\ fid \in squads[k]})
        from == IF ClubsOf(m.held, p) = {} THEN Outside ELSE Only(ClubsOf(m.held, p))
        safe == /\ to \in covered
                /\ \/ from = Outside
                   \/ from \in Clubs /\ Healthy(m, confirmed, to)
                   \/ from \in covered /\ m.saved[to] = {}
    IN  IF p = Nobody \/ to = Nobody \/ ClubsOf(m.held, p) = {to} \/ ~safe THEN m
        ELSE [m EXCEPT
                !.items = BeforeShirts(@, <<SquadItem("registration", p, fid, from, to)>>),
                !.held = [k \in Clubs |-> IF k = to THEN @[k] \cup {p} ELSE @[k] \ {p}]]

\* Whom a healthy squad releases: neither listed, nor released already, nor
\* brought by an event of this feed.
Leaving(m, confirmed, k) ==
    LET items == ToSet(m.items)
        released == {i.player : i \in {j \in items : IsRelease(j) /\ j.from = k}}
        brought == {i.player : i \in {j \in items : ~IsShirt(j) /\ j.to = k}}
    IN  m.held[k] \ (confirmed[k] \cup released \cup brought)

SquadReleases(m, confirmed) ==
    LET releases(k) == SetToSeq({SquadItem("release", p, NoFid, k, Outside) :
                                    p \in Leaving(m, confirmed, k)})
        clubs == SetToSeq({k \in DOMAIN confirmed : Healthy(m, confirmed, k)})
    IN  BeforeShirts(m.items, FlattenSeq([i \in DOMAIN clubs |-> releases(clubs[i])]))

(***************************************************************************)
(* Shirt observations: one per player and club                             *)
(***************************************************************************)
\* The winner is the surest; the group goes when a close one disagrees.
ShirtWinner(group) ==
    LET best == CHOOSE i \in group : \A j \in group : i.sure >= j.sure
    IN  IF \E j \in group : j.number # best.number /\ best.sure - j.sure < Gap THEN {} ELSE {best}

Deduped(items) ==
    LET grouped(i) == IsShirt(i) /\ i.player # Nobody /\ i.to # Outside
        shirts == SelectSeq(items, grouped)
        group(i) == {j \in ToSet(shirts) : j.player = i.player /\ j.to = i.to}
    IN  FoldLeft(LAMBDA kept, i : IF i \in ShirtWinner(group(i)) \ ToSet(kept)
                                  THEN Append(kept, i) ELSE kept,
                 SelectSeq(items, LAMBDA i : ~grouped(i)), shirts)

\* The squads' moves and releases after the events.
SquadsApplied(m, confirmed, squads) ==
    SquadReleases(FoldSet(LAMBDA f, n : SquadMove(n, f, confirmed, squads), m, SquadFids(squads)),
                  confirmed)
Reconciled(m, squads, moves) ==
    [items |-> Deduped(IF ~moves THEN m.items ELSE SquadsApplied(
                  m, [k \in {j \in Clubs : Covered(squads, j)} |-> Confirmed(m, squads, k)], squads)),
     live |-> m.live, book |-> m.book]

\* match_transfers_statefully, then the shirt dedupe; moves: whether the squads
\* may move and release players.
Matches(feed, squads, saved, shirtOf, log, moves) ==
    LET start(history, live) ==
            [held |-> saved, saved |-> saved, shirtOf |-> shirtOf,
             lent |-> history.lent, routes |-> history.routes,
             live |-> live, book |-> Book(log, live), items |-> <<>>]
    IN  Reconciled(FoldLeft(LAMBDA m, e : MatchEvent(m, WithClubs(e)),
                            start(Replayed(log), Live(squads, saved, shirtOf)), Ordered(feed)),
                   squads, moves)
=============================================================================
