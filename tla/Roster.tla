------------------------------- MODULE Roster -------------------------------
(***************************************************************************)
(* A club as the save holds it, and what the roster operations of          *)
(* fl-save/src/roster make of it: signing, leaving, overflow, shirt        *)
(* numbers, and the game plan that follows the roster slots.               *)
(*                                                                         *)
(* A club is a record:                                                     *)
(*   ids     the player of every roster slot, Nobody when it is empty      *)
(*   shirts  the shirt number of every slot, 0 when it is empty            *)
(*   lineup  the roster slot behind every role; roles after the roster's   *)
(*           size are the tail, whose entries mean nothing                 *)
(*   captain the slot the captain byte names, NoSlot for none; it stands   *)
(*           for the set-piece and attack-player bytes, which are kept the *)
(*           same way                                                      *)
(*   form    the position code of every starter role; one array stands for *)
(*           the equal arrays of every preset and phase                    *)
(* Slots and roles count from 1 here and from 0 in the code, so the        *)
(* code's "role zero", the goalkeeper's, is role 1.                        *)
(***************************************************************************)
EXTENDS Integers, Sequences, FiniteSets, SequencesExt

CONSTANTS
    Players,     \* every player of the game
    Nobody,      \* the id of an empty slot
    Size,        \* slots of a roster (40)
    Starters,    \* roles of the first team (11)
    Matchday,    \* roles of the matchday squad (18)
    MinKeepers,  \* goalkeepers the overflow keeps (MIN_GOALKEEPERS)
    MaxNumber,   \* highest shirt number a signing is given (99)
    PosOf,       \* registered position code of a player, or Unknown
    Native,      \* players whose native record names it; others have the catalog's
    Rated,       \* players with native abilities
    Rating,      \* rating of a player at a position code
    Playable,    \* <<player, code>>: native playable grade above 0
    Overall,     \* native overall
    Usage,       \* how much a player is used, -1 when unknown
    Foot,        \* strong foot: "left", "right" or "none"
    Caps,        \* captain profile: caps, age and value as one number
    Reserved,    \* players with a high, reserved id
    Protected,   \* players the release policy protects
    Priority     \* shirt numbers to try first, by position code

Unknown == 13                      \* no known position: one past the last code
NoLabel == 14                      \* a feed that says nothing of the position
Gk == 0
Cb == 1
Codes == 0 .. 12
Slots == 1 .. Size
Roles == 1 .. Size
NoSlot == 0

Least(a, b) == IF a < b THEN a ELSE b

ASSUME RosterAssumption ==
    /\ Nobody \notin Players
    /\ Size \in Nat /\ Starters \in Nat /\ Matchday \in Nat
    /\ 1 <= Starters /\ Starters < Matchday /\ Matchday <= Size
    /\ MaxNumber \in Nat /\ MaxNumber >= Size
    /\ PosOf \in [Players -> Codes \cup {Unknown}]
    /\ Native \subseteq {p \in Players : PosOf[p] # Unknown}
    /\ Rated \subseteq Players
    /\ Rating \in [Players -> [Codes -> Int]]
    /\ Overall \in [Players -> Int] /\ Usage \in [Players -> Int]
    /\ Priority \in [Codes \cup {Unknown} -> Seq(Nat)]

(***************************************************************************)
(* Rosters                                                                 *)
(***************************************************************************)
Active(ids) == {s \in Slots : ids[s] # Nobody}
Count(c) == Cardinality(Active(c.ids))
Members(c) == {c.ids[s] : s \in Active(c.ids)}
IsFull(c) == Active(c.ids) = Slots
SlotOf(c, p) == CHOOSE s \in Slots : c.ids[s] = p
ShirtOf(c, p) == c.shirts[SlotOf(c, p)]
LastActive(c) == CHOOSE s \in Active(c.ids) : \A t \in Active(c.ids) : t <= s
FirstEmpty(c) == CHOOSE s \in Slots \ Active(c.ids) : \A t \in Slots \ Active(c.ids) : s <= t
StarterCount(c) == Least(Starters, Count(c))
WithoutAt(s, i) == SubSeq(s, 1, i - 1) \o SubSeq(s, i + 1, Len(s))

\* A finite set as a sequence, by an order in which no two are equal; the n-th
\* has n - 1 before it. (SetToSortSeq, in a form that can be reasoned about.)
InOrder(S, before(_, _)) ==
    [n \in 1 .. Cardinality(S) |->
        CHOOSE s \in S : Cardinality({t \in S : before(t, s)}) = n - 1]
Ascending(S) == InOrder(S, <)

\* The items of a sequence that are in S, in the order they had.
Kept(items, S) ==
    LET places == Ascending({i \in DOMAIN items : items[i] \in S})
    IN  [n \in DOMAIN places |-> items[places[n]]]

\* Position of the player in a slot; over, when it names the player, replaces
\* the registered one (the label a signing comes with).
NoOver == [player |-> Nobody, pos |-> Unknown]
PosAt(c, s, over) ==
    IF s \notin Slots \/ c.ids[s] = Nobody THEN Unknown
    ELSE IF c.ids[s] = over.player THEN over.pos ELSE PosOf[c.ids[s]]

AllRated(c, slots) == \A s \in slots : c.ids[s] # Nobody => c.ids[s] \in Rated

Line(code) == CASE code = Gk -> "goalkeeper"
                [] code \in 1 .. 3 -> "defense"
                [] code \in 4 .. 8 -> "midfield"
                [] code \in 9 .. 12 -> "forward"
                [] OTHER -> "none"

\* Keys are compared as Rust compares tuples; the smallest key wins.
LexLess(a, b) == \E i \in DOMAIN a : a[i] < b[i] /\ \A j \in 1 .. (i - 1) : a[j] = b[j]
FirstBy(S, key(_)) == CHOOSE x \in S : \A y \in S \ {x} : LexLess(key(x), key(y))
LastBy(S, key(_)) == CHOOSE x \in S : \A y \in S \ {x} : LexLess(key(y), key(x))

(***************************************************************************)
(* The goalkeeper invariants                                               *)
(***************************************************************************)
KeeperAt(c, lineup, r, over) == PosAt(c, lineup[r], over) = Gk

Swap(f, i, j) == [f EXCEPT ![i] = f[j], ![j] = f[i]]

\* The i-th role of `out` trades places with the i-th of `in`, while both last.
SwapPair(lineup, roles) == Swap(lineup, roles[1], roles[2])
SwapPairs(lineup, out, in) ==
    FoldLeft(SwapPair, lineup,
             [i \in 1 .. Least(Len(out), Len(in)) |-> <<out[i], in[i]>>])

\* The goalkeeper code belongs to role 1 alone.
FormRepaired(c, lineup, over) ==
    LET code(r) == IF r > StarterCount(c) THEN Unknown ELSE PosAt(c, lineup[r], over)
    IN  IF code(1) # Gk THEN c.form
        ELSE [r \in 1 .. Starters |->
                IF r = 1 THEN Gk
                ELSE IF c.form[r] # Gk THEN c.form[r]
                ELSE IF code(r) \in Codes \ {Gk} THEN code(r) ELSE Cb]

\* Mutant: keepers on the bench are not looked for.
StarterKeeperRoles(c, over) == {r \in 1 .. StarterCount(c) : KeeperAt(c, c.lineup, r, over)}

\* Roles that may give the goalkeeper: an unknown player in role 1 keeps it
\* before any keeper of the bench.
GoalkeeperRoles(c, over) ==
    LET first == c.lineup[1]
        unknownIncumbent == /\ first \in Slots /\ c.ids[first] # Nobody
                            /\ PosAt(c, first, over) = Unknown
                            /\ c.form[1] = Gk
        bench == {r \in StarterCount(c) + 1 .. Count(c) : KeeperAt(c, c.lineup, r, over)}
    IN  IF Count(c) > 0 /\ unknownIncumbent /\ bench # {} THEN {1}
        ELSE bench \cup {r \in 1 .. StarterCount(c) : KeeperAt(c, c.lineup, r, over)}

KeeperRepaired(c, over, preserve) ==
    LET n == Count(c)
        k == StarterCount(c)
        gks == GoalkeeperRoles(c, over)
        primary == IF preserve /\ 1 \in gks THEN 1
                   ELSE FirstBy(gks, LAMBDA r : <<c.lineup[r], r>>)
        swapped == Swap(c.lineup, 1, primary)
        extra == {r \in 2 .. k : KeeperAt(c, swapped, r, over)}
        bench == {r \in k + 1 .. n : ~KeeperAt(c, swapped, r, over)}
        lineup == SwapPairs(swapped, Ascending(extra), Ascending(bench))
    IN  IF gks = {} THEN c
        ELSE [c EXCEPT !.lineup = lineup, !.form = FormRepaired(c, lineup, over)]

(***************************************************************************)
(* A player leaves                                                         *)
(***************************************************************************)
\* Which of the bench players `pool` (slot |-> place on the bench) takes the
\* vacated role; Nobody's slot when none legally can.
Promoted(c, pool, role, removedPos, slotZeroIsNative) ==
    LET target == IF role = 1 \/ c.form[role] # Gk THEN c.form[role] ELSE removedPos
        wantsGk == target = Gk
        tier(s) == LET code == PosAt(c, s, NoOver)
                       native == s = 1 /\ slotZeroIsNative
                   IN  IF wantsGk
                       THEN CASE code = Gk -> 0
                              [] code = Unknown /\ native -> 1
                              [] code = Unknown /\ ~native -> 2
                              [] OTHER -> -1
                       ELSE CASE code = Gk -> -1
                              [] code # Gk /\ code = target /\ target # Unknown -> 0
                              [] code # target /\ code # Gk /\ Line(target) # "none"
                                               /\ Line(code) = Line(target) -> 1
                              [] code = Unknown /\ native -> 3
                              [] OTHER -> 2
        able == {s \in DOMAIN pool : tier(s) # -1}
        rated == AllRated(c, DOMAIN pool) /\ target \in Codes
        rating(s) == IF rated THEN Rating[c.ids[s]][target] ELSE 0
        used(s) == IF Usage[c.ids[s]] = -1 THEN 0 ELSE Usage[c.ids[s]]
    IN  IF able = {} THEN NoSlot
        ELSE FirstBy(able, LAMBDA s : <<tier(s), -rating(s), -used(s), pool[s]>>)

\* Mutant: the roles behind the vacated one move up.
ShiftedUp(roles, role, from) == WithoutAt(roles, role)

\* The player of role `from` takes the vacated role; no other role shifts.
Backfilled(roles, role, from) ==
    WithoutAt([r \in DOMAIN roles |-> IF r = role THEN roles[from] ELSE roles[r]], from)

\* Mutant: the slot that was vacated, although the last player fills it.
RemovedSlot(removed, last) == removed

\* The slot that is empty now; it ends the tail of the lineup.
StaleSlot(removed, last) == last

\* c is the club after its roster was compacted: `last` was copied into
\* `removed` (the same slot when the last player himself left).
LineupCompacted(c, removed, last, removedPos) ==
    LET new == Active(c.ids)
        old == new \cup {last}
        m == Cardinality(old)
        order == SubSeq(c.lineup, 1, m)
        standard == ToSet(order) = old /\ removed \in old
        moved(s) == IF s = last THEN removed ELSE s
        role == CHOOSE r \in 1 .. m : order[r] = removed
        roles == [r \in 1 .. m |-> IF r = role THEN NoSlot ELSE moved(order[r])]
        pool == [s \in {roles[r] : r \in Starters + 1 .. m} |->
                    CHOOSE r \in Starters + 1 .. m : roles[r] = s]
        pick == IF role <= Starters /\ m > Starters
                THEN Promoted(c, pool, role, removedPos, ~(removed = 1 /\ last # 1))
                ELSE NoSlot
        from == IF pick # NoSlot THEN pool[pick]
                ELSE IF role <= Starters THEN m ELSE role
    IN  IF ~standard THEN c
        ELSE KeeperRepaired(
               [c EXCEPT !.lineup = Backfilled(roles, role, from)
                                    \o SubSeq(c.lineup, m + 1, Size)
                                    \o <<StaleSlot(removed, last)>>],
               NoOver, TRUE)

\* Mutant: the byte does not follow the player who fills the hole.
CaptainUnmapped(captain, removed, last) == IF captain = removed THEN NoSlot ELSE captain

CaptainRemapped(captain, removed, last) ==
    IF captain = removed THEN NoSlot
    ELSE IF captain = last THEN removed ELSE captain

\* remove_roster_player: the last active player fills the hole, and the game
\* plan follows.
Left(c, p) ==
    LET removed == SlotOf(c, p)
        last == LastActive(c)
    IN  LineupCompacted(
          [c EXCEPT !.ids = [[@ EXCEPT ![removed] = c.ids[last]] EXCEPT ![last] = Nobody],
                    !.shirts = [[@ EXCEPT ![removed] = c.shirts[last]] EXCEPT ![last] = 0],
                    !.captain = CaptainRemapped(@, removed, last)],
          removed, last, PosOf[p])

\* The save keeps someone who can stand in role 1.
CanKeepGoal(p) == PosOf[p] \in {Gk, Unknown}
IsLastKeeper(c, p) ==
    PosOf[p] = Gk /\ \A q \in Members(c) \ {p} : ~CanKeepGoal(q)

(***************************************************************************)
(* A player joins                                                          *)
(***************************************************************************)
\* Mutant: the numbers worn at the club are not looked at.
AllNumbers(c) == 1 .. MaxNumber

FreeNumbers(c) == 1 .. MaxNumber \ {c.shirts[s] : s \in Active(c.ids)}

FreeShirt(c, preferred, pos) ==
    LET free == FreeNumbers(c)
        listed == {i \in DOMAIN Priority[pos] : Priority[pos][i] \in free}
    IN  IF preferred \in free THEN preferred
        ELSE IF listed # {} THEN Priority[pos][CHOOSE i \in listed : \A j \in listed : i <= j]
        ELSE IF free # {} THEN CHOOSE n \in free : \A k \in free : n <= k
        ELSE MaxNumber

\* The position a signing goes by until the operation ends: the native one, then
\* the feed's label, even one that names no position (Unknown) or another than the
\* catalog's, and the catalog's when the feed says nothing.
Effective(p, label) == IF p \in Native \/ label = NoLabel THEN PosOf[p] ELSE label

\* The tail of a lineup once `slot` is in use: without it, or without its first
\* entry when it does not name the slot.
TailWithout(tail, slot) ==
    LET at == {i \in DOMAIN tail : tail[i] = slot}
    IN  WithoutAt(tail, IF at = {} THEN 1 ELSE CHOOSE i \in at : \A j \in at : i <= j)

\* insert_after_addition: the signing is the first substitute.
LineupExtended(c, slot, over) ==
    LET old == Active(c.ids) \ {slot}
        n == Cardinality(old)
        prefix == SubSeq(c.lineup, 1, n)
        rest == TailWithout(SubSeq(c.lineup, n + 1, Size), slot)
        k == Least(n, Starters)
    IN  IF ToSet(prefix) # old THEN c
        ELSE KeeperRepaired(
               [c EXCEPT !.lineup = SubSeq(prefix, 1, k) \o <<slot>>
                                    \o SubSeq(prefix, k + 1, n) \o rest],
               over, TRUE)

Joined(c, p, preferred, label) ==
    LET slot == FirstEmpty(c)
        pos == Effective(p, label)
    IN  LineupExtended(
          [c EXCEPT !.ids[slot] = p, !.shirts[slot] = FreeShirt(c, preferred, pos)],
          slot, [player |-> p, pos |-> pos])

(***************************************************************************)
(* A full roster releases someone                                          *)
(***************************************************************************)
\* Roles of the slots of the roster `ids`, by the club's lineup when its head
\* is a permutation of the occupied slots of `ids`.
OverflowRoles(c, ids) ==
    LET n == Cardinality(Active(ids))
        ordered == {c.lineup[r] : r \in 1 .. n} = Active(ids)
    IN  [s \in Slots |-> IF ordered /\ s \in Active(ids)
                         THEN CHOOSE r \in 1 .. n : c.lineup[r] = s ELSE s]

OverflowTier(c, ids, s, keepers) ==
    LET role == OverflowRoles(c, ids)[s]
    IN  IF role <= Starters THEN 3
        ELSE IF role <= Matchday \/ (s \in keepers /\ Cardinality(keepers) <= MinKeepers) THEN 2
        ELSE IF ids[s] \in Reserved THEN 1 ELSE 0

\* find_overflow_release_candidate on the roster `ids` of club c; Nobody when
\* no player may go. transferred: the players of this session.
OverflowCandidate(c, ids, incoming, guarded, transferred) ==
    LET all == {s \in Active(ids) : ids[s] # incoming /\ ids[s] \notin Protected \cup guarded}
        older == {s \in all : ids[s] \notin transferred}
        pool == IF older # {} THEN older ELSE all
        keepers == {s \in pool : s = 1 \/ PosOf[ids[s]] = Gk}
        key(s) == LET p == ids[s]
                  IN  << OverflowTier(c, ids, s, keepers),
                         IF p \in Rated THEN 0 ELSE 1,
                         IF p \in Rated THEN Overall[p] ELSE 0,
                         IF Usage[p] = -1 THEN 1 ELSE 0, Usage[p],
                         -OverflowRoles(c, ids)[s], -s >>
    IN  IF pool = {} THEN Nobody ELSE ids[FirstBy(pool, key)]

(***************************************************************************)
(* The operations on a save: a function from clubs to club records, and    *)
(* the players moved or signed in this session. A refused operation leaves *)
(* both as they are.                                                       *)
(***************************************************************************)
ClubsHolding(s, p) == {k \in DOMAIN s : p \in Members(s[k])}

\* resolve_overflow: the player a destination releases, Nobody when it has
\* room; the refusal is OverflowRefused. planned is Nobody for none.
OverflowRefused(c, p, planned, mayOverflow, guarded, transferred) ==
    /\ IsFull(c)
    /\ \/ ~mayOverflow
       \/ planned # Nobody /\ (planned = p \/ planned \notin Members(c))
       \/ planned = Nobody /\ OverflowCandidate(c, c.ids, p, guarded, transferred) = Nobody

Casualty(c, p, planned, guarded, transferred) ==
    IF ~IsFull(c) THEN Nobody
    ELSE IF planned # Nobody THEN planned
    ELSE OverflowCandidate(c, c.ids, p, guarded, transferred)

Signed(c, p, preferred, label, casualty) ==
    Joined(IF casualty = Nobody THEN c ELSE Left(c, casualty), p, preferred, label)

CanMove(s, transferred, p, from, to, planned, mayOverflow) ==
    /\ from # to
    /\ p \in Members(s[from]) /\ p \notin Members(s[to])
    /\ ~IsLastKeeper(s[from], p)
    /\ ClubsHolding(s, p) = {from}
    /\ ~OverflowRefused(s[to], p, planned, mayOverflow, {}, transferred)

Moved(s, transferred, p, from, to, planned, preferred, label) ==
    LET number == IF preferred # 0 THEN preferred ELSE ShirtOf(s[from], p)
        casualty == Casualty(s[to], p, planned, {}, transferred)
    IN  [s EXCEPT ![from] = Left(@, p), ![to] = Signed(@, p, number, label, casualty)]

CanAdd(s, transferred, p, to, planned, mayOverflow, guarded) ==
    /\ ClubsHolding(s, p) = {}
    /\ ~OverflowRefused(s[to], p, planned, mayOverflow, guarded, transferred)

Added(s, transferred, p, to, planned, preferred, label, guarded) ==
    [s EXCEPT ![to] = Signed(@, p, preferred, label, Casualty(@, p, planned, guarded, transferred))]

CanRelease(s, p, from) == p \in Members(s[from]) /\ ~IsLastKeeper(s[from], p)
Released(s, p, from) == [s EXCEPT ![from] = Left(@, p)]

\* update_player_shirt_numbers: updates is a sequence of <<player, number>>.
CanRenumber(c, updates) ==
    LET named == {updates[i][1] : i \in DOMAIN updates}
    IN  /\ named \subseteq Members(c)
        /\ \A i, j \in DOMAIN updates :
              (updates[i][1] = updates[j][1]) <=> (updates[i][2] = updates[j][2])
        /\ \A i \in DOMAIN updates : \A q \in Members(c) \ named :
              ShirtOf(c, q) # updates[i][2]

WithNumber(c, u) == [c EXCEPT !.shirts[SlotOf(c, u[1])] = u[2]]
Renumbered(c, updates) == FoldLeft(WithNumber, c, updates)

(***************************************************************************)
(* The XI                                                                  *)
(***************************************************************************)
LineFits(code, target) ==
    \/ target \in 1 .. 3 /\ code \in 1 .. 3
    \/ target \in 4 .. 8 /\ code \in 4 .. 8
    \/ target \in 11 .. 12 /\ code \in 9 .. 12

\* The side a centre back's role prefers: the first of two renders right, the
\* second of three.
CbSide(form, r) ==
    LET cbs == Ascending({q \in DOMAIN form : form[q] = Cb})
        n == Len(cbs)
        right == IF n = 2 THEN 1 ELSE 2
    IN  CASE n >= 2 /\ r = cbs[right] -> "right"
          [] n >= 2 /\ r = cbs[n] /\ n # right -> "left"
          [] OTHER -> "any"

CurrentRole(c, s) ==
    LET at == {r \in 1 .. StarterCount(c) : c.lineup[r] = s}
    IN  IF at = {} THEN 0 ELSE CHOOSE r \in at : TRUE

UsesRatings(c) == AllRated(c, Active(c.ids))

\* 0 when the player in slot s may not take role r.
Compatibility(c, r, s) ==
    LET code == PosAt(c, s, NoOver)
        target == c.form[r]
        fit == IF code = target THEN 100 ELSE IF LineFits(code, target) THEN 55 ELSE 0
    IN  IF code = Unknown THEN 0
        ELSE IF fit # 0 \/ ~UsesRatings(c) \/ code = Gk THEN fit
        ELSE IF target # Gk /\ <<c.ids[s], target>> \in Playable THEN 55
        ELSE IF CurrentRole(c, s) = r THEN 30 ELSE 0

Score(c, r, s, foot) ==
    LET current == CurrentRole(c, s)
        base == IF UsesRatings(c) THEN 3 * Rating[c.ids[s]][c.form[r]]
                ELSE Compatibility(c, r, s) + (IF current # 0 THEN 8 ELSE 0)
                                            + (IF current = r THEN 12 ELSE 0)
    IN  base + IF foot /\ PosAt(c, s, NoOver) = Cb /\ CbSide(c.form, r) = Foot[c.ids[s]]
               THEN 40 ELSE 0

\* A point of score outweighs every tie-break of a whole XI together.
Weight(c, r, s, foot) ==
    LET current == CurrentRole(c, s)
        moved == IF current = r THEN 0 ELSE 1
        place == IF current = 0 THEN Size ELSE current - 1
    IN  Score(c, r, s, foot) * 100000 - ((moved * (Size + 1) + place) * (Size + 1) + s - 1)

Weights(c, open, slots, foot) ==
    [rs \in {rs \in open \X slots : Compatibility(c, rs[1], rs[2]) # 0} |->
        Weight(c, rs[1], rs[2], foot)]

Total(weights, f) == FoldSet(LAMBDA r, sum : sum + weights[<<r, f[r]>>], 0, DOMAIN f)
Totals(weights, open, slots) ==
    [f \in {f \in [open -> slots] : IsInjective(f) /\ \A r \in open : <<r, f[r]>> \in DOMAIN weights} |->
        Total(weights, f)]

Heaviest(totals) == {f \in DOMAIN totals : \A g \in DOMAIN totals : totals[g] <= totals[f]}

\* Every assignment of the roles in `open` to distinct slots that
\* max_weight_assignment may return: the heaviest ones.
BestAssignments(c, open, slots, foot) ==
    Heaviest(Totals(Weights(c, open, slots, foot), open, slots))

PrimarySlot(c) ==
    LET incumbent == c.lineup[1]
        keepers == {s \in Active(c.ids) : PosAt(c, s, NoOver) = Gk}
        key(s) == << IF UsesRatings(c) THEN Rating[c.ids[s]][Gk] ELSE 0,
                     IF s = incumbent THEN 1 ELSE 0, -s >>
    IN  IF PosAt(c, incumbent, NoOver) = Unknown \/ keepers = {} THEN incumbent
        ELSE LastBy(keepers, key)

\* Slots that may start: the XI, then everyone when all are rated, otherwise
\* the players of an exact formation role and, while those are too few, others.
StarterCandidates(c) ==
    LET k == StarterCount(c)
        xi == {c.lineup[r] : r \in 1 .. k}
        exact == {s \in Active(c.ids) :
                    \E r \in 1 .. k : PosAt(c, s, NoOver) = c.form[r]}
    IN  IF UsesRatings(c) THEN Active(c.ids) ELSE xi \cup exact

\* Roles behind the goalkeeper's that nobody may take: their players stay.
KeptRoles(c, primary, candidates) ==
    {r \in 2 .. StarterCount(c) : /\ c.lineup[r] # primary
                                  /\ \A s \in candidates : Compatibility(c, r, s) = 0}

\* The club with the XI xi, everyone else behind it in the order he had.
WithXI(c, xi) ==
    LET n == Count(c)
        head == SubSeq(c.lineup, 1, n)
        rest == Kept(head, ToSet(head) \ ToSet(xi))
    IN  [c EXCEPT !.lineup = xi \o rest \o SubSeq(@, n + 1, Size)]

\* Rated players are chosen first and then placed, with a view to their feet.
Assignments(c, open, free) ==
    IF ~UsesRatings(c) THEN BestAssignments(c, open, free, TRUE)
    ELSE UNION {BestAssignments(c, open, ToSet(f), TRUE) :
                   f \in BestAssignments(c, open, free, FALSE)}

Aligned(c, primary, candidates, kept) ==
    LET k == StarterCount(c)
        keeps == {c.lineup[r] : r \in kept}
        xi(f) == [r \in 1 .. k |-> IF r = 1 THEN primary ELSE IF r \in kept THEN c.lineup[r] ELSE f[r]]
    IN  {WithXI(c, xi(f)) : f \in Assignments(c, (2 .. k) \ kept, candidates \ ({primary} \cup keeps))}

KeptOr(clubs, c) == IF clubs = {} THEN {c} ELSE clubs

\* repair_starter_assignments: the clubs it may leave behind.
StartersAligned(c) ==
    LET primary == PrimarySlot(c)
        candidates == StarterCandidates(c)
    IN  IF StarterCount(c) = 0 THEN {c}
        ELSE KeptOr(Aligned(c, primary, candidates, KeptRoles(c, primary, candidates)), c)

PlaceIn(others, s) == CHOOSE i \in DOMAIN others : others[i] = s

\* Mutant: the sort turns equals round.
BenchedBeforeUnstable(c, others, s, t) ==
    \/ Overall[c.ids[s]] > Overall[c.ids[t]]
    \/ Overall[c.ids[s]] = Overall[c.ids[t]] /\ PlaceIn(others, s) > PlaceIn(others, t)

BenchedBefore(c, others, s, t) ==
    \/ Overall[c.ids[s]] > Overall[c.ids[t]]
    \/ Overall[c.ids[s]] = Overall[c.ids[t]] /\ PlaceIn(others, s) < PlaceIn(others, t)

\* order_bench: signings first, then by overall when all the rest are rated;
\* a second goalkeeper is brought inside the matchday squad.
BenchOrdered(c, transferred) ==
    LET n == Count(c)
        bench == SubSeq(c.lineup, Starters + 1, n)
        signings == Ascending({s \in ToSet(bench) : c.ids[s] \in transferred})
        others == Kept(bench, ToSet(bench) \ ToSet(signings))
        before(s, t) == BenchedBefore(c, others, s, t)
        ranked == IF AllRated(c, ToSet(others)) THEN InOrder(ToSet(others), before) ELSE others
        ordered == signings \o ranked
        covered == Least(Matchday - Starters, Len(ordered))
        isGk(i) == PosAt(c, ordered[i], NoOver) = Gk
        late == {i \in covered + 1 .. Len(ordered) : isGk(i)}
        at == CHOOSE i \in late : \A j \in late : i <= j
        final == IF late = {} \/ \E i \in 1 .. covered : isGk(i) THEN ordered
                 ELSE SubSeq(ordered, 1, covered - 1) \o <<ordered[at]>>
                      \o WithoutAt(SubSeq(ordered, covered, Len(ordered)), at - covered + 1)
    IN  IF n <= Starters THEN c
        ELSE [c EXCEPT !.lineup = SubSeq(@, 1, Starters) \o final \o SubSeq(@, n + 1, Size)]

\* A captain byte that names no occupied slot is cleared; an empty one goes to
\* the starter with the most caps, if any starter has a profile.
CaptainFilled(c) ==
    LET kept == IF c.captain \in Active(c.ids) THEN c.captain ELSE NoSlot
        able == {r \in 1 .. StarterCount(c) : c.lineup[r] \in Active(c.ids)
                                              /\ Caps[c.ids[c.lineup[r]]] # 0}
        best == LastBy(able, LAMBDA r : <<Caps[c.ids[c.lineup[r]]], -r>>)
    IN  [c EXCEPT !.captain = IF kept # NoSlot \/ able = {} THEN kept ELSE c.lineup[best]]

\* Valid references keep their order, missing slots follow.
ReferencesRepaired(c) ==
    LET n == Count(c)
        first(i) == \A j \in 1 .. (i - 1) : c.lineup[j] # c.lineup[i]
        valid == Ascending({i \in Roles : c.lineup[i] \in Active(c.ids) /\ first(i)})
        preserved == [i \in DOMAIN valid |-> c.lineup[valid[i]]]
        missing == Ascending(Active(c.ids) \ ToSet(preserved))
    IN  [c EXCEPT !.lineup = preserved \o missing \o SubSeq(@, n + 1, Size)]

\* The bench is ordered with the XI, or when someone joined in this session.
BenchSettled(c, transferred, align) ==
    IF align \/ Members(c) \cap transferred # {} THEN BenchOrdered(c, transferred) ELSE c

\* repair_game_plans for one club: the clubs it may leave behind.
GamePlanRepaired(c, transferred, align, preserve) ==
    LET referenced == {ReferencesRepaired(c)}
        aligned == IF align THEN UNION {StartersAligned(d) : d \in referenced} ELSE referenced
        guarded == {KeeperRepaired(d, NoOver, preserve) : d \in aligned}
        settled == {BenchSettled(d, transferred, align) : d \in guarded}
    IN  IF Active(c.ids) = {} THEN {c} ELSE {CaptainFilled(d) : d \in settled}
=============================================================================
