--------------------------- MODULE RosterOpsProofs ---------------------------
(***************************************************************************)
(* That no sequence of roster operations puts a player at two clubs or     *)
(* twice at one, leaves a gap, or lets two players wear one number; and    *)
(* that none of them breaks a lineup or takes the goalkeeper out of goal.  *)
(*                                                                         *)
(* First the operators of Roster, one club at a time: what leaves, joins,  *)
(* overflows or is renumbered, whatever becomes of the game plan.  Then    *)
(* the operations of RosterOps on the rosters.  Then the lineups: how the  *)
(* sorts, splices and swaps of the code keep a lineup a permutation, what  *)
(* a departure, a signing and a repair make of it, and the operations.     *)
(* Last, that captains and starters stay what they were when others come   *)
(* and go.                                                                 *)
(***************************************************************************)
EXTENDS RosterOps, FiniteSetTheorems, SequenceTheorems, TLAPS

Renumbering == INSTANCE FoldInduction
               WITH Op <- LAMBDA e, s, x : WithNumber(s, x), Inv <- LAMBDA e, i, c : HasRoster(c)

-----------------------------------------------------------------------------
(* A non-empty finite set that is ordered has a first element.             *)
Ordered(S, R) ==
    /\ IsFiniteSet(S) /\ S # {}
    /\ \A x, y \in S : x # y => <<x, y>> \in R \/ <<y, x>> \in R
    /\ \A x, y, z \in S : <<x, y>> \in R /\ <<y, z>> \in R => <<x, z>> \in R
First(S, R, x) == x \in S /\ \A y \in S \ {x} : <<x, y>> \in R

LEMMA FirstExists ==
    ASSUME NEW S, NEW R, Ordered(S, R)
    PROVE  \E x \in S : First(S, R, x)
<1> USE DEF Ordered
<1> DEFINE HasFirst(T) == \E x \in T : \A y \in T \ {x} : <<x, y>> \in R
           Bad == {n \in Nat : \E T \in SUBSET S :
                      T # {} /\ Cardinality(T) = n /\ ~HasFirst(T)}
<1>1. ASSUME Bad # {} PROVE FALSE
  <2>1. Bad \subseteq Nat
    OBVIOUS
  <2>2. PICK n \in Bad : \A m \in Bad : n <= m
    BY <1>1, <2>1, Renumbering!LeastNatural
  <2>3. PICK T \in SUBSET S : T # {} /\ Cardinality(T) = n /\ ~HasFirst(T)
    BY <2>2
  <2>4. PICK x \in T : TRUE
    BY <2>3
  <2>5. /\ IsFiniteSet(T) /\ IsFiniteSet(T \ {x})
        /\ Cardinality(T \ {x}) \in Nat /\ Cardinality(T \ {x}) < n
    BY <2>2, <2>3, <2>4, FS_Subset, FS_RemoveElement, FS_CardinalityType
  <2>6. Cardinality(T \ {x}) \notin Bad
    BY <2>2, <2>5
  <2>7. CASE T = {x}
    BY <2>3, <2>7
  <2>8. CASE T \ {x} # {}
    <3>1. HasFirst(T \ {x})
      BY <2>5, <2>6, <2>8
    <3>2. PICK m \in T \ {x} : \A y \in (T \ {x}) \ {m} : <<m, y>> \in R
      BY <3>1
    <3>3. m \in S /\ x \in S
      BY <2>4, <3>2
    <3>4. CASE <<m, x>> \in R
      BY <2>3, <3>2, <3>4
    <3>5. CASE <<x, m>> \in R
      <4>1. \A y \in T \ {x} : <<x, y>> \in R
        BY <3>2, <3>3, <3>5
      <4>2. QED BY <2>3, <2>4, <4>1
    <3>6. QED BY <3>2, <3>3, <3>4, <3>5
  <2>9. QED BY <2>4, <2>7, <2>8
<1>2. HasFirst(S)
  BY <1>1, FS_CardinalityType
<1>3. QED BY <1>2 DEF First

(* Keys of one length are ordered by LexLess.                              *)
LEMMA LexOrders ==
    ASSUME NEW n \in Nat, NEW a \in [1 .. n -> Int], NEW b \in [1 .. n -> Int]
    PROVE  /\ a # b => LexLess(a, b) \/ LexLess(b, a)
           /\ \A d \in [1 .. n -> Int] :
                 LexLess(a, b) /\ LexLess(b, d) => LexLess(a, d)
<1>1. ASSUME a # b PROVE LexLess(a, b) \/ LexLess(b, a)
  <2> DEFINE T == {i \in 1 .. n : a[i] # b[i]}
  <2>1. T \subseteq Nat /\ T # {}
    BY <1>1
  <2>2. PICK i \in T : \A j \in T : i <= j
    BY <2>1, Renumbering!LeastNatural
  <2>3. \A j \in 1 .. (i - 1) : a[j] = b[j]
    BY <2>2
  <2>4. a[i] < b[i] \/ b[i] < a[i]
    BY <2>2
  <2>5. QED BY <2>2, <2>3, <2>4 DEF LexLess
<1>2. ASSUME NEW d \in [1 .. n -> Int], LexLess(a, b), LexLess(b, d)
      PROVE  LexLess(a, d)
  <2>1. PICK i \in 1 .. n : a[i] < b[i] /\ \A j \in 1 .. (i - 1) : a[j] = b[j]
    BY <1>2 DEF LexLess
  <2>2. PICK k \in 1 .. n : b[k] < d[k] /\ \A j \in 1 .. (k - 1) : b[j] = d[j]
    BY <1>2 DEF LexLess
  <2>3. CASE i <= k
    <3>1. a[i] < d[i]
      BY <2>1, <2>2, <2>3
    <3>2. \A j \in 1 .. (i - 1) : a[j] = d[j]
      BY <2>1, <2>2, <2>3
    <3>3. QED BY <3>1, <3>2 DEF LexLess
  <2>4. CASE k < i
    <3>1. a[k] < d[k]
      BY <2>1, <2>2, <2>4
    <3>2. \A j \in 1 .. (k - 1) : a[j] = d[j]
      BY <2>1, <2>2, <2>4
    <3>3. QED BY <3>1, <3>2 DEF LexLess
  <2>5. QED BY <2>3, <2>4
<1>3. QED BY <1>1, <1>2

-----------------------------------------------------------------------------
(* A roster without gaps counts as many players as it has slots in use.    *)
LEMMA CountOf ==
    ASSUME NEW c, NEW n \in 0 .. Size, Active(c.ids) = 1 .. n
    PROVE  Count(c) = n
BY RosterAssumption, FS_Interval DEF Count

(* A sound roster fills the slots 1 .. Count, and no more than it has.     *)
LEMMA RosterBounds ==
    ASSUME NEW c, RosterSound(c)
    PROVE  Count(c) \in 0 .. Size /\ Active(c.ids) = 1 .. Count(c)
<1>1. Active(c.ids) \subseteq 1 .. Size
  BY DEF Active, Slots
<1>2. IsFiniteSet(1 .. Size) /\ Cardinality(1 .. Size) = Size /\ Size \in Nat
  BY RosterAssumption, FS_Interval
<1>3. QED BY <1>1, <1>2, FS_Subset, FS_CardinalityType DEF RosterSound, Count

(* find_overflow_release_candidate names one of the roster, or nobody.      *)
LEMMA OverflowChosen ==
    ASSUME NEW c, HasRoster(c), NEW p, NEW guarded, NEW signed,
           OverflowCandidate(c, c.ids, p, guarded, signed) # Nobody
    PROVE  OverflowCandidate(c, c.ids, p, guarded, signed) \in Members(c)
<1> DEFINE ids == c.ids
           all == {s \in Active(ids) :
                      ids[s] # p /\ ids[s] \notin Protected \cup guarded}
           older == {s \in all : ids[s] \notin signed}
           pool == IF older # {} THEN older ELSE all
           keepers == {s \in pool : s = 1 \/ PosOf[ids[s]] = Gk}
           key(s) == << OverflowTier(c, ids, s, keepers),
                        IF ids[s] \in Rated THEN 0 ELSE 1,
                        IF ids[s] \in Rated THEN Overall[ids[s]] ELSE 0,
                        IF Usage[ids[s]] = -1 THEN 1 ELSE 0, Usage[ids[s]],
                        -OverflowRoles(c, ids)[s], -s >>
           R == {xy \in pool \X pool : LexLess(key(xy[1]), key(xy[2]))}
           first == CHOOSE x \in pool :
                       \A y \in pool \ {x} : LexLess(key(x), key(y))
<1>1. /\ pool # {}
      /\ OverflowCandidate(c, c.ids, p, guarded, signed) = ids[first]
  BY DEF OverflowCandidate, FirstBy
<1>2. pool \subseteq Active(ids) /\ Active(ids) \subseteq 1 .. Size /\ Size \in Nat
  BY RosterAssumption DEF Active, Slots
<1>3. IsFiniteSet(pool) /\ Cardinality(Active(ids)) \in Nat
  <2>1. /\ IsFiniteSet(1 .. Size)
        /\ pool \in SUBSET (1 .. Size) /\ Active(ids) \in SUBSET (1 .. Size)
    BY <1>2, FS_Interval
  <2> HIDE DEF pool, ids
  <2>2. QED BY <2>1, FS_Subset, FS_CardinalityType
<1>4. ASSUME NEW s \in pool PROVE key(s) \in [1 .. 7 -> Int]
  <2>1. s \in Int /\ s \in Slots /\ ids[s] \in Players
    BY <1>2 DEF HasRoster, Active, Slots
  <2>2. OverflowRoles(c, ids)[s] \in Int
    <3> DEFINE n == Cardinality(Active(ids))
    <3>1. n \in Nat
      BY <1>3
    <3>2. CASE {c.lineup[r] : r \in 1 .. n} = Active(ids)
      <4>1. PICK r \in 1 .. n : c.lineup[r] = s
        BY <1>2, <3>2
      <4>2. (CHOOSE q \in 1 .. n : c.lineup[q] = s) \in 1 .. n
        BY <4>1
      <4>3. OverflowRoles(c, ids)[s] = CHOOSE q \in 1 .. n : c.lineup[q] = s
        BY <1>2, <2>1, <3>2 DEF OverflowRoles
      <4>4. QED BY <3>1, <4>2, <4>3
    <3>3. CASE {c.lineup[r] : r \in 1 .. n} # Active(ids)
      BY <2>1, <3>3 DEF OverflowRoles
    <3>4. QED BY <3>2, <3>3
  <2>3. OverflowTier(c, ids, s, keepers) \in Int
    BY DEF OverflowTier
  <2>4. Overall[ids[s]] \in Int /\ Usage[ids[s]] \in Int
    BY <2>1, RosterAssumption
  <2>5. QED BY <2>1, <2>2, <2>3, <2>4
<1>5. \A x, y \in pool : x # y => key(x) # key(y)
  <2>1. ASSUME NEW x \in pool, NEW y \in pool, key(x) = key(y) PROVE x = y
    <3>1. key(x)[7] = -x /\ key(y)[7] = -y
      OBVIOUS
    <3>2. x \in Int /\ y \in Int
      BY <1>2
    <3>3. QED BY <2>1, <3>1, <3>2
  <2>2. QED BY <2>1
<1> HIDE DEF key
<1>6. \A x, y \in pool : x # y => <<x, y>> \in R \/ <<y, x>> \in R
  BY <1>4, <1>5, LexOrders
<1>7. \A x, y, z \in pool : <<x, y>> \in R /\ <<y, z>> \in R => <<x, z>> \in R
  BY <1>4, LexOrders
<1>8. \E x \in pool : \A y \in pool \ {x} : <<x, y>> \in R
  <2>1. pool # {} /\ IsFiniteSet(pool)
    BY <1>1, <1>3
  <2> HIDE DEF pool, R, first
  <2>2. Ordered(pool, R)
    BY <2>1, <1>6, <1>7 DEF Ordered
  <2>3. QED BY <2>2, FirstExists DEF First
<1>9. first \in pool
  BY <1>8
<1>10. QED BY <1>1, <1>2, <1>9 DEF Members

(* assign_smart_shirt_number finds a number nobody wears while a slot is   *)
(* free: there are more numbers than slots.                                *)
LEMMA ShirtIsFree ==
    ASSUME NEW c, HasRoster(c), RosterSound(c), ~IsFull(c),
           NEW preferred, NEW pos \in Codes \cup {Unknown}
    PROVE  FreeShirt(c, preferred, pos) \in FreeNumbers(c)
<1> DEFINE worn == {c.shirts[s] : s \in Active(c.ids)}
           free == FreeNumbers(c)
           listed == {i \in DOMAIN Priority[pos] : Priority[pos][i] \in free}
<1>1. /\ Count(c) \in 0 .. Size /\ Active(c.ids) = 1 .. Count(c)
      /\ Count(c) < Size /\ Size \in Nat /\ MaxNumber \in Nat /\ MaxNumber >= Size
  BY RosterBounds, RosterAssumption DEF IsFull, Slots
<1>2. IsFiniteSet(worn) /\ Cardinality(worn) <= Count(c) /\ Cardinality(worn) \in Nat
  <2> DEFINE f == [s \in 1 .. Count(c) |-> c.shirts[s]]
  <2>1. f \in Surjection(1 .. Count(c), worn)
    BY <1>1 DEF Surjection
  <2>2. IsFiniteSet(1 .. Count(c)) /\ Cardinality(1 .. Count(c)) = Count(c)
    BY <1>1, FS_Interval
  <2> HIDE DEF f, worn
  <2>3. QED BY <2>1, <2>2, FS_Surjection, FS_CardinalityType
<1>3. free # {}
  <2>1. ASSUME free = {} PROVE FALSE
    <3>1. 1 .. MaxNumber \in SUBSET worn
      BY <2>1 DEF FreeNumbers
    <3>2. Cardinality(1 .. MaxNumber) = MaxNumber
      BY <1>1, FS_Interval
    <3>3. Cardinality(1 .. MaxNumber) <= Cardinality(worn)
      BY <1>2, <3>1, FS_Subset
    <3>4. QED BY <1>1, <1>2, <3>2, <3>3
  <2>2. QED BY <2>1
<1>4. free \subseteq Nat
  BY DEF FreeNumbers
<1>5. \E n \in free : \A k \in free : n <= k
  BY <1>3, <1>4, Renumbering!LeastNatural
<1>6. ASSUME listed # {}
      PROVE  Priority[pos][CHOOSE i \in listed : \A j \in listed : i <= j] \in free
  <2>1. listed \subseteq Nat
    BY RosterAssumption
  <2>2. \E i \in listed : \A j \in listed : i <= j
    BY <1>6, <2>1, Renumbering!LeastNatural
  <2>3. QED BY <2>2
<1>7. QED BY <1>3, <1>5, <1>6 DEF FreeShirt

-----------------------------------------------------------------------------
(* What happens to a game plan leaves the roster alone.                    *)
SameRoster(c, d) == HasRoster(d) /\ d.ids = c.ids /\ d.shirts = c.shirts

(* The game plan is no part of the roster.                                 *)
LEMMA PlanFields ==
    ASSUME NEW c, HasRoster(c), NEW x
    PROVE  /\ SameRoster(c, c)
           /\ SameRoster(c, [c EXCEPT !.lineup = x])
           /\ SameRoster(c, [c EXCEPT !.captain = x])
           /\ SameRoster(c, [c EXCEPT !.form = x])
BY DEF SameRoster, HasRoster

(* To have the same roster is transitive.                                  *)
LEMMA SameRosterChains ==
    ASSUME NEW c, NEW d, NEW e, SameRoster(c, d), SameRoster(d, e)
    PROVE  SameRoster(c, e)
BY DEF SameRoster

(* A club with a sound roster's slots and numbers is as sound as it.       *)
LEMMA SameRosterSound ==
    ASSUME NEW c, NEW d, SameRoster(c, d)
    PROVE  /\ RosterSound(c) => RosterSound(d)
           /\ Members(d) = Members(c) /\ Count(d) = Count(c)
           /\ Active(d.ids) = Active(c.ids)
BY DEF SameRoster, RosterSound, Members, Count, Active

(* Putting the goalkeeper in goal leaves the roster alone (lineup.rs       *)
(* 40-125).                                                                *)
LEMMA KeeperRoster ==
    ASSUME NEW c, HasRoster(c), NEW over, NEW preserve
    PROVE  SameRoster(c, KeeperRepaired(c, over, preserve))
<1>1. \/ KeeperRepaired(c, over, preserve) = c
      \/ \E l, f : KeeperRepaired(c, over, preserve)
                   = [c EXCEPT !.lineup = l, !.form = f]
  BY DEF KeeperRepaired, FirstBy
<1>2. ASSUME NEW l, NEW f,
             KeeperRepaired(c, over, preserve) = [c EXCEPT !.lineup = l, !.form = f]
      PROVE  SameRoster(c, KeeperRepaired(c, over, preserve))
  BY <1>2 DEF SameRoster, HasRoster
<1>3. SameRoster(c, c)
  BY PlanFields
<1>4. QED BY <1>1, <1>2, <1>3

(* So does the lineup that follows a departure (lineup.rs 197-298).        *)
LEMMA CompactedRoster ==
    ASSUME NEW c, HasRoster(c), NEW removed, NEW last, NEW removedPos
    PROVE  SameRoster(c, LineupCompacted(c, removed, last, removedPos))
<1>1. \/ LineupCompacted(c, removed, last, removedPos) = c
      \/ \E l : LineupCompacted(c, removed, last, removedPos)
                = KeeperRepaired([c EXCEPT !.lineup = l], NoOver, TRUE)
  BY DEF LineupCompacted
<1>2. \A l : SameRoster(c, KeeperRepaired([c EXCEPT !.lineup = l], NoOver, TRUE))
  <2>1. SUFFICES ASSUME NEW l
                 PROVE  SameRoster(c, KeeperRepaired([c EXCEPT !.lineup = l], NoOver, TRUE))
    OBVIOUS
  <2> DEFINE d == [c EXCEPT !.lineup = l]
  <2>2. SameRoster(c, d) /\ HasRoster(d)
    BY PlanFields DEF SameRoster
  <2>3. SameRoster(d, KeeperRepaired(d, NoOver, TRUE))
    BY <2>2, KeeperRoster
  <2> HIDE DEF d
  <2>4. SameRoster(c, KeeperRepaired(d, NoOver, TRUE))
    BY <2>2, <2>3, SameRosterChains
  <2>5. QED BY <2>4 DEF d
<1>3. QED BY <1>1, <1>2, PlanFields

(* So does the lineup that follows a signing (lineup.rs 418-467).          *)
LEMMA ExtendedRoster ==
    ASSUME NEW c, HasRoster(c), NEW slot, NEW over
    PROVE  SameRoster(c, LineupExtended(c, slot, over))
<1>1. \/ LineupExtended(c, slot, over) = c
      \/ \E l : LineupExtended(c, slot, over)
                = KeeperRepaired([c EXCEPT !.lineup = l], over, TRUE)
  BY DEF LineupExtended
<1>2. \A l : SameRoster(c, KeeperRepaired([c EXCEPT !.lineup = l], over, TRUE))
  <2>1. SUFFICES ASSUME NEW l
                 PROVE  SameRoster(c, KeeperRepaired([c EXCEPT !.lineup = l], over, TRUE))
    OBVIOUS
  <2> DEFINE d == [c EXCEPT !.lineup = l]
  <2>2. SameRoster(c, d) /\ HasRoster(d)
    BY PlanFields DEF SameRoster
  <2>3. SameRoster(d, KeeperRepaired(d, over, TRUE))
    BY <2>2, KeeperRoster
  <2> HIDE DEF d
  <2>4. SameRoster(c, KeeperRepaired(d, over, TRUE))
    BY <2>2, <2>3, SameRosterChains
  <2>5. QED BY <2>4 DEF d
<1>3. QED BY <1>1, <1>2, PlanFields

(* repair_game_plans, with or without a new XI.                            *)
LEMMA RepairedRoster ==
    ASSUME NEW c, HasRoster(c), NEW signed, NEW align, NEW preserve,
           NEW d \in GamePlanRepaired(c, signed, align, preserve)
    PROVE  SameRoster(c, d)
<1> DEFINE referenced == ReferencesRepaired(c)
<1>1. SameRoster(c, referenced) /\ HasRoster(referenced)
  <2>1. \E l : ReferencesRepaired(c) = [c EXCEPT !.lineup = l]
    BY DEF ReferencesRepaired
  <2>2. PICK l : referenced = [c EXCEPT !.lineup = l]
    BY <2>1
  <2> HIDE DEF referenced
  <2>3. QED BY <2>2, PlanFields DEF SameRoster
<1>2. \A e \in StartersAligned(referenced) : SameRoster(referenced, e)
  <2>1. ASSUME NEW e \in StartersAligned(referenced)
        PROVE  e = referenced \/ \E l : e = [referenced EXCEPT !.lineup = l]
    <3> HIDE DEF referenced
    <3>1. \A xi : \E l : WithXI(referenced, xi) = [referenced EXCEPT !.lineup = l]
      BY DEF WithXI
    <3>2. \A primary, candidates, kept : \A f \in Aligned(referenced, primary, candidates, kept) :
             \E xi : f = WithXI(referenced, xi)
      BY DEF Aligned
    <3>3. QED BY <2>1, <3>1, <3>2 DEF StartersAligned, KeptOr
  <2> HIDE DEF referenced
  <2>2. SUFFICES ASSUME NEW e \in StartersAligned(referenced)
                 PROVE  SameRoster(referenced, e)
    OBVIOUS
  <2>3. CASE \E l : e = [referenced EXCEPT !.lineup = l]
    <3>1. PICK l : e = [referenced EXCEPT !.lineup = l]
      BY <2>3
    <3>2. QED BY <1>1, <3>1, PlanFields
  <2>4. QED BY <1>1, <2>1, <2>3, PlanFields
<1>3. \A e : HasRoster(e) => SameRoster(e, CaptainFilled(e))
  <2>1. SUFFICES ASSUME NEW e, HasRoster(e) PROVE SameRoster(e, CaptainFilled(e))
    OBVIOUS
  <2>2. PICK x : CaptainFilled(e) = [e EXCEPT !.captain = x]
    BY DEF CaptainFilled, LastBy
  <2>3. QED BY <2>1, <2>2, PlanFields, ZenonT(60)
<1>4. \A e : HasRoster(e) => SameRoster(e, BenchSettled(e, signed, align))
  <2>1. SUFFICES ASSUME NEW e, HasRoster(e)
                 PROVE  SameRoster(e, BenchSettled(e, signed, align))
    OBVIOUS
  <2>2. BenchOrdered(e, signed) = e \/ \E l : BenchOrdered(e, signed) = [e EXCEPT !.lineup = l]
    BY DEF BenchOrdered
  <2>3. CASE \E l : BenchOrdered(e, signed) = [e EXCEPT !.lineup = l]
    <3>1. PICK l : BenchOrdered(e, signed) = [e EXCEPT !.lineup = l]
      BY <2>3
    <3>2. SameRoster(e, BenchOrdered(e, signed)) /\ SameRoster(e, e)
      BY <2>1, <3>1, PlanFields, ZenonT(60)
    <3>3. QED BY <3>2 DEF BenchSettled
  <2>4. QED BY <2>1, <2>2, <2>3, PlanFields DEF BenchSettled
<1> HIDE DEF referenced
<1>5. \A e : HasRoster(e) =>
         SameRoster(e, CaptainFilled(BenchSettled(KeeperRepaired(e, NoOver, preserve), signed, align)))
  BY <1>3, <1>4, KeeperRoster, SameRosterChains DEF SameRoster
<1>6. CASE Active(c.ids) = {}
  BY <1>6, PlanFields DEF GamePlanRepaired
<1>7. CASE Active(c.ids) # {}
  <2>1. PICK e \in IF align THEN StartersAligned(referenced) ELSE {referenced} :
           d = CaptainFilled(BenchSettled(KeeperRepaired(e, NoOver, preserve), signed, align))
    BY <1>7 DEF GamePlanRepaired, referenced
  <2>2. SameRoster(c, e) /\ HasRoster(e)
    BY <1>1, <1>2, SameRosterChains DEF SameRoster
  <2>3. QED BY <1>5, <2>1, <2>2, SameRosterChains
<1>8. QED BY <1>6, <1>7

-----------------------------------------------------------------------------
(* The slot of a player, the last slot in use and the first empty one are  *)
(* what their names say.                                                   *)
LEMMA SlotFound ==
    ASSUME NEW c, NEW p \in Members(c)
    PROVE  SlotOf(c, p) \in Active(c.ids) /\ c.ids[SlotOf(c, p)] = p
<1>1. PICK s \in Slots : c.ids[s] = p /\ p # Nobody
  BY DEF Members, Active
<1>2. SlotOf(c, p) \in Slots /\ c.ids[SlotOf(c, p)] = p
  BY <1>1 DEF SlotOf
<1>3. QED BY <1>1, <1>2 DEF Active

(* The last slot in use of a sound roster is the Count-th.                 *)
LEMMA LastFound ==
    ASSUME NEW c, RosterSound(c), Count(c) # 0
    PROVE  LastActive(c) = Count(c) /\ Count(c) \in 1 .. Size
<1>1. Count(c) \in 1 .. Size /\ Active(c.ids) = 1 .. Count(c)
  BY RosterBounds, RosterAssumption
<1>2. Count(c) \in Active(c.ids) /\ \A t \in Active(c.ids) : t <= Count(c)
  BY <1>1
<1>3. LastActive(c) \in Active(c.ids) /\ \A t \in Active(c.ids) : t <= LastActive(c)
  BY <1>2 DEF LastActive
<1>4. QED BY <1>1, <1>2, <1>3

(* The first empty slot of a sound roster follows the last in use.         *)
LEMMA EmptyFound ==
    ASSUME NEW c, RosterSound(c), ~IsFull(c)
    PROVE  FirstEmpty(c) = Count(c) + 1 /\ Count(c) + 1 \in Slots
<1>1. Count(c) \in 0 .. Size /\ Active(c.ids) = 1 .. Count(c) /\ Size \in Nat
  BY RosterBounds, RosterAssumption
<1>2. Count(c) # Size
  BY <1>1 DEF IsFull, Slots
<1> DEFINE n == Count(c)
           e == Slots \ Active(c.ids)
<1>3. n + 1 \in e /\ \A t \in e : n + 1 <= t
  BY <1>1, <1>2 DEF Slots
<1>4. FirstEmpty(c) \in e /\ \A t \in e : FirstEmpty(c) <= t
  BY <1>3 DEF FirstEmpty
<1>5. QED BY <1>1, <1>3, <1>4 DEF Slots

(* remove_roster_player: the last player fills the hole.                   *)
LEMMA LeftRoster ==
    ASSUME NEW c, HasRoster(c), RosterSound(c), NEW p \in Members(c)
    PROVE  /\ HasRoster(Left(c, p)) /\ RosterSound(Left(c, p))
           /\ Members(Left(c, p)) = Members(c) \ {p}
           /\ ~IsFull(Left(c, p)) /\ Count(Left(c, p)) = Count(c) - 1
<1> DEFINE removed == SlotOf(c, p)
           last == LastActive(c)
           n == Count(c)
           ids == [[c.ids EXCEPT ![removed] = c.ids[last]] EXCEPT ![last] = Nobody]
           shirts == [[c.shirts EXCEPT ![removed] = c.shirts[last]] EXCEPT ![last] = 0]
           captain == CaptainRemapped(c.captain, removed, last)
           d == [c EXCEPT !.ids = ids, !.shirts = shirts, !.captain = captain]
<1>1. removed \in Active(c.ids) /\ c.ids[removed] = p
  BY SlotFound
<1>2. /\ last = n /\ n \in 1 .. Size /\ Active(c.ids) = 1 .. n
      /\ n \in Nat /\ removed \in 1 .. n /\ Size \in Nat
  BY <1>1, LastFound, RosterBounds, RosterAssumption
<1>3. Left(c, p) = LineupCompacted(d, removed, last, PosOf[p])
  BY DEF Left
<1> HIDE DEF captain
<1>4. /\ c.ids \in [1 .. Size -> Players \cup {Nobody}] /\ c.shirts \in [1 .. Size -> Nat]
      /\ \A s \in 1 .. Size : s \in 1 .. n <=> c.ids[s] # Nobody
  BY <1>2 DEF HasRoster, Slots, Active
<1> HIDE DEF n, removed, last
<1>5. /\ ids \in [1 .. Size -> Players \cup {Nobody}] /\ shirts \in [1 .. Size -> Nat]
      /\ \A s \in 1 .. Size :
            /\ ids[s] = IF s = n THEN Nobody ELSE IF s = removed THEN c.ids[n] ELSE c.ids[s]
            /\ shirts[s] = IF s = n THEN 0 ELSE IF s = removed THEN c.shirts[n] ELSE c.shirts[s]
  BY <1>2, <1>4
<1>6. d.ids = ids /\ d.shirts = shirts /\ HasRoster(d)
  <2>1. DOMAIN c = {"ids", "shirts", "lineup", "captain", "form"}
    BY DEF HasRoster
  <2> HIDE DEF ids, shirts
  <2>2. d.ids = ids /\ d.shirts = shirts /\ DOMAIN d = DOMAIN c
    BY <2>1
  <2> HIDE DEF d
  <2>3. QED BY <1>5, <2>1, <2>2 DEF HasRoster, Slots
<1> HIDE DEF d, ids, shirts
<1>7. Active(ids) = 1 .. n - 1
  <2>1. ASSUME NEW s \in 1 .. Size PROVE ids[s] # Nobody <=> s <= n - 1
    <3>1. ids[s] = IF s = n THEN Nobody ELSE IF s = removed THEN c.ids[n] ELSE c.ids[s]
      BY <1>5
    <3>2. n \in 1 .. Size /\ c.ids[n] # Nobody /\ (c.ids[s] # Nobody <=> s <= n)
      BY <1>2, <1>4
    <3>3. removed <= n
      BY <1>2
    <3>4. QED BY <1>2, <3>1, <3>2, <3>3
  <2>2. QED BY <1>2, <2>1 DEF Active, Slots
<1>8. \A s, t \in 1 .. n : s # t =>
         c.ids[s] # c.ids[t] /\ (c.shirts[s] = 0 \/ c.shirts[s] # c.shirts[t])
  BY <1>2 DEF RosterSound
<1>9. \A s, t \in 1 .. n - 1 : s # t =>
         ids[s] # ids[t] /\ (shirts[s] = 0 \/ shirts[s] # shirts[t])
  <2>1. SUFFICES ASSUME NEW s \in 1 .. n - 1, NEW t \in 1 .. n - 1, s # t
                 PROVE  ids[s] # ids[t] /\ (shirts[s] = 0 \/ shirts[s] # shirts[t])
    OBVIOUS
  <2>2. /\ s \in 1 .. n /\ t \in 1 .. n /\ n \in 1 .. n /\ s # n /\ t # n
        /\ s \in 1 .. Size /\ t \in 1 .. Size
    BY <1>2, <2>1
  <2>3. QED BY <1>5, <1>8, <2>1, <2>2
<1>10. Count(d) = n - 1
  BY <1>2, <1>6, <1>7, CountOf
<1>11. RosterSound(d)
  BY <1>6, <1>7, <1>9, <1>10 DEF RosterSound
<1>12. Members(d) = Members(c) \ {p}
  <2>1. Members(d) = {ids[s] : s \in 1 .. n - 1} /\ Members(c) = {c.ids[s] : s \in 1 .. n}
    BY <1>2, <1>6, <1>7 DEF Members
  <2>2. ASSUME NEW s \in 1 .. n - 1 PROVE ids[s] \in {c.ids[t] : t \in 1 .. n} \ {p}
    <3>1. s \in 1 .. n /\ n \in 1 .. n /\ s # n /\ s \in 1 .. Size
      BY <1>2
    <3>2. CASE s = removed
      BY <1>1, <1>2, <1>5, <1>8, <3>1, <3>2
    <3>3. CASE s # removed
      BY <1>1, <1>2, <1>5, <1>8, <3>1, <3>3
    <3>4. QED BY <3>2, <3>3
  <2>3. ASSUME NEW s \in 1 .. n, c.ids[s] # p
        PROVE  \E t \in 1 .. n - 1 : ids[t] = c.ids[s]
    <3>1. s # removed
      BY <1>1, <2>3 DEF removed
    <3>2. CASE s = n
      <4>1. removed \in 1 .. n - 1 /\ removed \in 1 .. Size /\ removed # n
        BY <1>2, <3>1, <3>2
      <4>2. QED BY <1>5, <3>2, <4>1
    <3>3. CASE s # n
      <4>1. s \in 1 .. n - 1 /\ s \in 1 .. Size
        BY <1>2, <3>3
      <4>2. QED BY <1>5, <3>1, <3>3, <4>1
    <3>4. QED BY <3>2, <3>3
  <2>4. QED BY <2>1, <2>2, <2>3
<1>13. ~IsFull(d)
  BY <1>2, <1>6, <1>7 DEF IsFull, Slots
<1>14. SameRoster(d, Left(c, p))
  BY <1>3, <1>6, CompactedRoster
<1>15. /\ HasRoster(Left(c, p)) /\ RosterSound(Left(c, p))
       /\ Members(Left(c, p)) = Members(d) /\ Active(Left(c, p).ids) = Active(d.ids)
       /\ Count(Left(c, p)) = Count(d)
  BY <1>11, <1>14, SameRosterSound DEF SameRoster
<1>16. QED BY <1>10, <1>12, <1>13, <1>15 DEF IsFull, n

(* insert_after_addition's caller: the signing takes the first empty slot  *)
(* and a number nobody wears.                                              *)
LEMMA JoinedRoster ==
    ASSUME NEW c, HasRoster(c), RosterSound(c), ~IsFull(c),
           NEW p \in Players \ Members(c), NEW preferred,
           NEW label \in Codes \cup {Unknown, NoLabel}
    PROVE  /\ HasRoster(Joined(c, p, preferred, label))
           /\ RosterSound(Joined(c, p, preferred, label))
           /\ Members(Joined(c, p, preferred, label)) = Members(c) \cup {p}
           /\ Count(Joined(c, p, preferred, label)) = Count(c) + 1
<1> DEFINE slot == FirstEmpty(c)
           pos == Effective(p, label)
           number == FreeShirt(c, preferred, pos)
           n == Count(c)
           ids == [c.ids EXCEPT ![slot] = p]
           shirts == [c.shirts EXCEPT ![slot] = number]
           d == [c EXCEPT !.ids[slot] = p, !.shirts[slot] = number]
<1>1. /\ slot = n + 1 /\ n + 1 \in 1 .. Size /\ n \in 0 .. Size
      /\ Active(c.ids) = 1 .. n /\ Size \in Nat
  BY EmptyFound, RosterBounds, RosterAssumption DEF Slots
<1>2. pos \in Codes \cup {Unknown}
  BY RosterAssumption DEF Effective
<1>3. /\ number \in Nat /\ number # 0
      /\ \A s \in 1 .. n : c.shirts[s] # number
  <2>1. number \in FreeNumbers(c)
    BY <1>2, ShirtIsFree
  <2>2. QED BY <1>1, <2>1 DEF FreeNumbers
<1>4. /\ c.ids \in [1 .. Size -> Players \cup {Nobody}] /\ c.shirts \in [1 .. Size -> Nat]
      /\ \A s \in 1 .. Size : s \in 1 .. n <=> c.ids[s] # Nobody
  BY <1>1 DEF HasRoster, Slots, Active
<1>5. p \in Players /\ p # Nobody /\ \A s \in 1 .. n : c.ids[s] # p
  BY <1>1, RosterAssumption DEF Members
<1>6. SameRoster(d, Joined(c, p, preferred, label)) \/ ~HasRoster(d)
  BY ExtendedRoster DEF Joined
<1> HIDE DEF slot, number, n
<1>7. d.ids = ids /\ d.shirts = shirts /\ DOMAIN d = DOMAIN c
  <2>1. DOMAIN c = {"ids", "shirts", "lineup", "captain", "form"}
    BY DEF HasRoster
  <2>2. QED BY <2>1
<1> HIDE DEF d
<1>8. /\ ids \in [1 .. Size -> Players \cup {Nobody}] /\ shirts \in [1 .. Size -> Nat]
      /\ \A s \in 1 .. Size :
            /\ ids[s] = IF s = n + 1 THEN p ELSE c.ids[s]
            /\ shirts[s] = IF s = n + 1 THEN number ELSE c.shirts[s]
  BY <1>1, <1>3, <1>4, <1>5
<1> HIDE DEF ids, shirts
<1>9. HasRoster(d)
  BY <1>7, <1>8 DEF HasRoster, Slots
<1>10. Active(ids) = 1 .. n + 1
  <2>1. ASSUME NEW s \in 1 .. Size PROVE ids[s] # Nobody <=> s <= n + 1
    <3>1. ids[s] = IF s = n + 1 THEN p ELSE c.ids[s]
      BY <1>8
    <3>2. c.ids[s] # Nobody <=> s <= n
      BY <1>1, <1>4
    <3>3. QED BY <1>1, <1>5, <3>1, <3>2
  <2>2. QED BY <1>1, <2>1 DEF Active, Slots
<1>11. \A s, t \in 1 .. n : s # t =>
         c.ids[s] # c.ids[t] /\ (c.shirts[s] = 0 \/ c.shirts[s] # c.shirts[t])
  BY <1>1 DEF RosterSound
<1>12. \A s, t \in 1 .. n + 1 : s # t =>
         ids[s] # ids[t] /\ (shirts[s] = 0 \/ shirts[s] # shirts[t])
  <2>1. SUFFICES ASSUME NEW s \in 1 .. n + 1, NEW t \in 1 .. n + 1, s # t
                 PROVE  ids[s] # ids[t] /\ (shirts[s] = 0 \/ shirts[s] # shirts[t])
    OBVIOUS
  <2>2. /\ s \in 1 .. Size /\ t \in 1 .. Size
        /\ s # n + 1 => s \in 1 .. n
        /\ t # n + 1 => t \in 1 .. n
    BY <1>1, <2>1
  <2>3. QED BY <1>3, <1>5, <1>8, <1>11, <2>1, <2>2
<1>13. Count(d) = n + 1
  BY <1>1, <1>7, <1>10, CountOf
<1>14. RosterSound(d)
  BY <1>7, <1>10, <1>12, <1>13 DEF RosterSound
<1>15. Members(d) = Members(c) \cup {p}
  <2>1. Members(d) = {ids[s] : s \in 1 .. n + 1} /\ Members(c) = {c.ids[s] : s \in 1 .. n}
    BY <1>1, <1>7, <1>10 DEF Members
  <2>2. /\ \A s \in 1 .. n : s \in 1 .. n + 1 /\ s # n + 1 /\ s \in 1 .. Size
        /\ \A s \in 1 .. n + 1 : s \in 1 .. n \/ s = n + 1
        /\ n + 1 \in 1 .. n + 1
    BY <1>1
  <2>3. QED BY <1>1, <1>8, <2>1, <2>2
<1>16. QED BY <1>6, <1>9, <1>13, <1>14, <1>15, SameRosterSound DEF SameRoster, n

(* A destination that is full releases one of its own first.               *)
HasRoom(c, p, planned, guarded, signed) ==
    ~OverflowRefused(c, p, planned, TRUE, guarded, signed)

(* Signing, with the release a full roster makes first (ops.rs,            *)
(* overflow.rs): the club stays sound, has the player, and has no one else *)
(* new.                                                                    *)
LEMMA SignedRoster ==
    ASSUME NEW c, HasRoster(c), RosterSound(c), NEW p \in Players \ Members(c),
           NEW planned, NEW guarded, NEW signed,
           HasRoom(c, p, planned, guarded, signed),
           NEW preferred, NEW label \in Codes \cup {Unknown, NoLabel},
           NEW d, d = Signed(c, p, preferred, label, Casualty(c, p, planned, guarded, signed))
    PROVE  /\ HasRoster(d) /\ RosterSound(d)
           /\ p \in Members(d) /\ Members(d) \subseteq Members(c) \cup {p}
<1> DEFINE gone == Casualty(c, p, planned, guarded, signed)
<1>1. CASE gone = Nobody
  <2>1. ~IsFull(c)
    BY <1>1, OverflowChosen DEF HasRoom, OverflowRefused, Casualty
  <2>2. d = Joined(c, p, preferred, label)
    BY <1>1 DEF Signed
  <2>3. QED BY <2>1, <2>2, JoinedRoster
<1>2. CASE gone # Nobody
  <2>1. gone \in Members(c)
    BY <1>2, OverflowChosen DEF HasRoom, OverflowRefused, Casualty
  <2> HIDE DEF gone
  <2> DEFINE e == Left(c, gone)
  <2>2. /\ HasRoster(e) /\ RosterSound(e) /\ ~IsFull(e)
        /\ Members(e) = Members(c) \ {gone}
    BY <2>1, LeftRoster
  <2>3. d = Joined(e, p, preferred, label) /\ p \in Players \ Members(e)
    BY <1>2, <2>2 DEF Signed, gone
  <2> HIDE DEF e
  <2>4. /\ HasRoster(d) /\ RosterSound(d) /\ Members(d) = Members(e) \cup {p}
    BY <2>2, <2>3, JoinedRoster
  <2>5. QED BY <2>2, <2>4
<1>3. QED BY <1>1, <1>2

(* update_player_shirt_numbers writes the numbers one after the other, so  *)
(* that for a while two players may wear one; in the end none do.          *)
LEMMA RenumberedRoster ==
    ASSUME NEW c, HasRoster(c), RosterSound(c), NEW updates, NEW n \in Nat,
           DOMAIN updates = 1 .. n, \A i \in 1 .. n : updates[i][2] \in Nat,
           CanRenumber(c, updates)
    PROVE  /\ HasRoster(Renumbered(c, updates)) /\ RosterSound(Renumbered(c, updates))
           /\ Members(Renumbered(c, updates)) = Members(c)
           /\ Renumbered(c, updates).ids = c.ids
           /\ Renumbered(c, updates).lineup = c.lineup
           /\ Renumbered(c, updates).form = c.form
<1>1. PICK h : Renumbering!States(0, c, updates, n, h)
  BY Renumbering!FoldLeftStates
<1>2. /\ h[0] = c
      /\ \A i \in 1 .. n : h[i] = WithNumber(h[i - 1], updates[i])
      /\ Renumbered(c, updates) = h[n]
  <2>1. Renumbering!Fold(0, c, updates) = Renumbered(c, updates)
    BY DEF Renumbering!Fold, Renumbered, FoldLeft, Renumbering!FoldLeft,
           MapThenFoldSet, Renumbering!MapThenFoldSet, Max, Renumbering!Max
  <2>2. QED BY <1>1, <2>1 DEF Renumbering!States
<1> DEFINE named == {updates[i][1] : i \in DOMAIN updates}
           Given(i, s) ==
               \/ \E j \in 1 .. i : /\ updates[j][1] = c.ids[s]
                                   /\ h[i].shirts[s] = updates[j][2]
               \/ /\ \A j \in 1 .. i : updates[j][1] # c.ids[s]
                  /\ h[i].shirts[s] = c.shirts[s]
           Good(i) == /\ HasRoster(h[i]) /\ h[i].ids = c.ids
                      /\ h[i].lineup = c.lineup /\ h[i].form = c.form
                      /\ \A s \in Active(c.ids) : Given(i, s)
           Bad == {i \in 0 .. n : ~Good(i)}
<1>3. Good(0)
  BY <1>2
<1>4. ASSUME NEW i \in 1 .. n, Good(i - 1) PROVE Good(i)
  <2> DEFINE d == h[i - 1]
             x == SlotOf(d, updates[i][1])
  <2>1. /\ HasRoster(d) /\ d.ids = c.ids /\ d.lineup = c.lineup /\ d.form = c.form
        /\ h[i] = [d EXCEPT !.shirts[x] = updates[i][2]]
        /\ updates[i][2] \in Nat
    BY <1>2, <1>4 DEF WithNumber
  <2>2. updates[i][1] \in Members(c)
    BY DEF CanRenumber
  <2>3. x \in Active(c.ids) /\ c.ids[x] = updates[i][1]
    <3>1. Members(d) = Members(c)
      BY <2>1 DEF Members
    <3>2. QED BY <2>1, <2>2, <3>1, SlotFound
  <2> HIDE DEF x
  <2>4. /\ HasRoster(h[i]) /\ h[i].ids = c.ids
        /\ h[i].lineup = c.lineup /\ h[i].form = c.form
        /\ \A s \in Slots : h[i].shirts[s] = IF s = x THEN updates[i][2] ELSE d.shirts[s]
    <3> DEFINE sh == [d.shirts EXCEPT ![x] = updates[i][2]]
    <3>1. DOMAIN d = {"ids", "shirts", "lineup", "captain", "form"}
      BY <2>1 DEF HasRoster
    <3>2. /\ h[i].ids = d.ids /\ h[i].shirts = sh /\ DOMAIN h[i] = DOMAIN d
          /\ h[i].lineup = d.lineup /\ h[i].form = d.form
      BY <2>1, <3>1
    <3>3. /\ d.shirts \in [Slots -> Nat] /\ sh \in [Slots -> Nat]
          /\ \A s \in Slots : sh[s] = IF s = x THEN updates[i][2] ELSE d.shirts[s]
      BY <2>1 DEF HasRoster
    <3> HIDE DEF sh, d
    <3>4. QED BY <2>1, <3>1, <3>2, <3>3 DEF HasRoster
  <2>5. ASSUME NEW s \in Active(c.ids) PROVE Given(i, s)
    <3>1. s \in Slots
      BY DEF Active
    <3>2. CASE s = x
      BY <2>3, <2>4, <3>1, <3>2
    <3>3. CASE s # x
      <4>1. c.ids[s] # updates[i][1]
        BY <2>3, <3>3 DEF RosterSound
      <4>2. h[i].shirts[s] = d.shirts[s]
        BY <2>4, <3>1, <3>3
      <4>3. \A j \in 1 .. i : j = i \/ j \in 1 .. i - 1
        OBVIOUS
      <4>4. \A j \in 1 .. i - 1 : j \in 1 .. i
        OBVIOUS
      <4>5. Given(i - 1, s)
        BY <1>4
      <4>6. QED BY <4>1, <4>2, <4>3, <4>4, <4>5
    <3>4. QED BY <3>2, <3>3
  <2>6. QED BY <2>4, <2>5
<1> HIDE DEF Good
<1>5. Good(n)
  <2>1. ASSUME Bad # {} PROVE FALSE
    <3>1. Bad \subseteq Nat
      OBVIOUS
    <3>2. PICK m \in Bad : \A k \in Bad : m <= k
      BY <2>1, <3>1, Renumbering!LeastNatural
    <3>3. m # 0
      BY <1>3, <3>2
    <3>4. m \in 1 .. n /\ m - 1 \in 0 .. n /\ m - 1 \notin Bad
      BY <3>2, <3>3
    <3>5. QED BY <1>4, <3>2, <3>4
  <2>2. QED BY <2>1
<1>6. /\ HasRoster(h[n]) /\ h[n].ids = c.ids
      /\ h[n].lineup = c.lineup /\ h[n].form = c.form
      /\ \A s \in Active(c.ids) : Given(n, s)
  BY <1>5 DEF Good
<1>7. ASSUME NEW s \in Active(c.ids), NEW t \in Active(c.ids), s # t
      PROVE  h[n].shirts[s] = 0 \/ h[n].shirts[s] # h[n].shirts[t]
  <2>1. c.ids[s] # c.ids[t] /\ (c.shirts[s] = 0 \/ c.shirts[s] # c.shirts[t])
    BY <1>7 DEF RosterSound
  <2>2. ASSUME NEW a \in Active(c.ids), \A j \in 1 .. n : updates[j][1] # c.ids[a],
               NEW j \in 1 .. n
        PROVE  c.shirts[a] # updates[j][2]
    <3>1. c.ids[a] \in Members(c) \ named
      BY <2>2 DEF Members
    <3>2. SlotOf(c, c.ids[a]) = a
      BY <3>1, SlotFound DEF RosterSound
    <3>3. QED BY <3>1, <3>2 DEF CanRenumber, ShirtOf
  <2>3. \A j, k \in 1 .. n : updates[j][1] # updates[k][1] => updates[j][2] # updates[k][2]
    BY DEF CanRenumber
  <2>4. Given(n, s) /\ Given(n, t)
    BY <1>6
  <2>5. QED BY <2>1, <2>2, <2>3, <2>4
<1>8. RosterSound(h[n])
  BY <1>6, <1>7 DEF RosterSound, Count
<1>9. QED BY <1>2, <1>6, <1>8 DEF Members

-----------------------------------------------------------------------------
(* A step changes the clubs of a save one by one; what each club keeps and *)
(* whom it takes in decide whether the save stays in order.                *)
LEMMA OneClubChanges ==
    ASSUME RosterFacts, NEW k \in Clubs, NEW d, HasRoster(d), RosterSound(d),
           save' = [save EXCEPT ![k] = d],
           \A q \in Members(d) \ Members(save[k]) :
              \A j \in Clubs \ {k} : q \notin Members(save[j])
    PROVE  RosterFacts'
<1>1. /\ DOMAIN save' = Clubs /\ save'[k] = d
      /\ \A j \in Clubs \ {k} : save'[j] = save[j]
  BY DEF RosterFacts
<1>2. \A j \in Clubs : HasRoster(save'[j]) /\ RosterSound(save'[j])
  BY <1>1 DEF RosterFacts, RostersSound
<1>3. OneClubEach(save')
  <2>1. ASSUME NEW i \in Clubs, NEW j \in Clubs, i # j,
               NEW q \in Members(save'[i]) \cap Members(save'[j])
        PROVE  FALSE
    <3>1. \A a, b \in Clubs : a # b => Members(save[a]) \cap Members(save[b]) = {}
      BY DEF RosterFacts, RostersSound, OneClubEach
    <3>2. CASE i = k
      BY <1>1, <2>1, <3>1, <3>2
    <3>3. CASE j = k
      BY <1>1, <2>1, <3>1, <3>3
    <3>4. CASE i # k /\ j # k
      BY <1>1, <2>1, <3>1, <3>4
    <3>5. QED BY <3>2, <3>3, <3>4
  <2>2. QED BY <2>1 DEF OneClubEach
<1>4. QED BY <1>1, <1>2, <1>3 DEF RosterFacts, RostersSound

(* An operation on game plans alone keeps the rosters' facts.              *)
LEMMA PlansChange ==
    ASSUME RosterFacts, DOMAIN save' = Clubs,
           \A k \in Clubs : SameRoster(save[k], save'[k])
    PROVE  RosterFacts'
<1>1. \A k \in Clubs : /\ HasRoster(save'[k]) /\ RosterSound(save'[k])
                       /\ Members(save'[k]) = Members(save[k])
  BY SameRosterSound DEF RosterFacts, RostersSound, SameRoster
<1>2. OneClubEach(save')
  BY <1>1 DEF RosterFacts, RostersSound, OneClubEach
<1>3. QED BY <1>1, <1>2 DEF RosterFacts, RostersSound

(* Moving a player keeps the facts (ops.rs, move_player).                  *)
LEMMA MoveKeeps ==
    ASSUME RosterFacts, MovePlayer
    PROVE  RosterFacts'
<1>1. PICK from, to \in Clubs, p \in Players :
         \E label \in Labels(p), planned \in Plans(save[to], p) :
            /\ CanMove(save, transferred, p, from, to, planned, TRUE)
            /\ save' = Moved(save, transferred, p, from, to, planned, 0, label)
  BY DEF MovePlayer
<1>2. PICK label \in Labels(p), planned \in Plans(save[to], p) :
            /\ CanMove(save, transferred, p, from, to, planned, TRUE)
            /\ save' = Moved(save, transferred, p, from, to, planned, 0, label)
  BY <1>1
<1> DEFINE number == ShirtOf(save[from], p)
           d == Left(save[from], p)
           e == Signed(save[to], p, number, label,
                       Casualty(save[to], p, planned, {}, transferred))
<1>3. /\ from # to /\ p \in Members(save[from]) /\ p \notin Members(save[to])
      /\ ~OverflowRefused(save[to], p, planned, TRUE, {}, transferred)
  BY <1>2 DEF CanMove
<1>4. /\ DOMAIN save = Clubs
      /\ \A k \in Clubs : HasRoster(save[k]) /\ RosterSound(save[k])
      /\ \A j, k \in Clubs : j # k => Members(save[j]) \cap Members(save[k]) = {}
  BY DEF RosterFacts, RostersSound, OneClubEach
<1>5. save' = [[save EXCEPT ![from] = d] EXCEPT ![to] = e]
  BY <1>2, <1>3, <1>4 DEF Moved
<1>6. label \in Codes \cup {Unknown, NoLabel}
  BY SavesAssumption DEF Labels
<1>7. /\ HasRoster(d) /\ RosterSound(d) /\ Members(d) = Members(save[from]) \ {p}
  BY <1>3, <1>4, LeftRoster
<1>8. /\ HasRoster(e) /\ RosterSound(e) /\ Members(e) \subseteq Members(save[to]) \cup {p}
  <2>1. /\ HasRoster(save[to]) /\ RosterSound(save[to])
        /\ p \in Players \ Members(save[to])
        /\ HasRoom(save[to], p, planned, {}, transferred)
    BY <1>3, <1>4 DEF HasRoom
  <2>2. e = Signed(save[to], p, number, label,
                   Casualty(save[to], p, planned, {}, transferred))
    OBVIOUS
  <2> HIDE DEF e, number
  <2>3. QED BY <1>3, <1>6, <2>1, <2>2, SignedRoster
<1> HIDE DEF d, e
<1>9. /\ DOMAIN save' = Clubs /\ save'[from] = d /\ save'[to] = e
      /\ \A k \in Clubs \ {from, to} : save'[k] = save[k]
  BY <1>3, <1>4, <1>5
<1>10. \A k \in Clubs : HasRoster(save'[k]) /\ RosterSound(save'[k])
  BY <1>4, <1>7, <1>8, <1>9
<1>11. OneClubEach(save')
  <2>1. \A k \in Clubs \ {to} : Members(save'[k]) \subseteq Members(save[k]) \ {p}
    BY <1>3, <1>4, <1>7, <1>9
  <2>2. Members(save'[to]) \subseteq Members(save[to]) \cup {p}
    BY <1>8, <1>9
  <2>3. ASSUME NEW i \in Clubs, NEW j \in Clubs, i # j,
               NEW q \in Members(save'[i]) \cap Members(save'[j])
        PROVE  FALSE
    <3>1. CASE i = to
      BY <1>4, <2>1, <2>2, <2>3, <3>1
    <3>2. CASE j = to
      BY <1>4, <2>1, <2>2, <2>3, <3>2
    <3>3. CASE i # to /\ j # to
      BY <1>4, <2>1, <2>3, <3>3
    <3>4. QED BY <3>1, <3>2, <3>3
  <2>4. QED BY <2>3 DEF OneClubEach
<1>12. QED BY <1>9, <1>10, <1>11 DEF RosterFacts, RostersSound

(* Signing a free player keeps the facts (ops.rs, add_player).             *)
LEMMA AddKeeps ==
    ASSUME RosterFacts, AddPlayer
    PROVE  RosterFacts'
<1>1. PICK to \in Clubs, p \in Players, number \in Numbers :
         \E label \in Labels(p) :
            /\ CanAdd(save, transferred, p, to, Nobody, TRUE, {})
            /\ save' = Added(save, transferred, p, to, Nobody, number, label, {})
  BY DEF AddPlayer
<1>2. PICK label \in Labels(p) :
            /\ CanAdd(save, transferred, p, to, Nobody, TRUE, {})
            /\ save' = Added(save, transferred, p, to, Nobody, number, label, {})
  BY <1>1
<1> DEFINE d == Signed(save[to], p, number, label,
                       Casualty(save[to], p, Nobody, {}, transferred))
<1>3. /\ DOMAIN save = Clubs /\ HasRoster(save[to]) /\ RosterSound(save[to])
  BY DEF RosterFacts, RostersSound
<1>4. /\ \A k \in Clubs : p \notin Members(save[k])
      /\ ~OverflowRefused(save[to], p, Nobody, TRUE, {}, transferred)
  BY <1>2, <1>3 DEF CanAdd, ClubsHolding
<1>5. label \in Codes \cup {Unknown, NoLabel}
  BY SavesAssumption DEF Labels
<1>6. save' = [save EXCEPT ![to] = d]
  BY <1>2, <1>3 DEF Added
<1>7. /\ HasRoster(d) /\ RosterSound(d) /\ Members(d) \subseteq Members(save[to]) \cup {p}
  <2>1. p \in Players \ Members(save[to]) /\ HasRoom(save[to], p, Nobody, {}, transferred)
    BY <1>4 DEF HasRoom
  <2>2. d = Signed(save[to], p, number, label,
                   Casualty(save[to], p, Nobody, {}, transferred))
    OBVIOUS
  <2> HIDE DEF d
  <2>3. QED BY <1>3, <1>4, <1>5, <2>1, <2>2, SignedRoster
<1> HIDE DEF d
<1>8. QED BY <1>4, <1>6, <1>7, OneClubChanges

(* Releasing a player keeps the facts (ops.rs, release_player).            *)
LEMMA ReleaseKeeps ==
    ASSUME RosterFacts, ReleasePlayer
    PROVE  RosterFacts'
<1>1. PICK from \in Clubs, p \in Players :
         CanRelease(save, p, from) /\ save' = Released(save, p, from)
  BY DEF ReleasePlayer
<1> DEFINE d == Left(save[from], p)
<1>2. /\ DOMAIN save = Clubs /\ HasRoster(save[from]) /\ RosterSound(save[from])
      /\ p \in Members(save[from]) /\ save' = [save EXCEPT ![from] = d]
  BY <1>1 DEF RosterFacts, RostersSound, CanRelease, Released
<1>3. HasRoster(d) /\ RosterSound(d) /\ Members(d) \subseteq Members(save[from])
  BY <1>2, LeftRoster
<1> HIDE DEF d
<1>4. QED BY <1>2, <1>3, OneClubChanges

(* Changing numbers, one or two at a time, keeps the facts (ops.rs).       *)
LEMMA ShirtsKeep ==
    ASSUME RosterFacts, UpdateShirts
    PROVE  RosterFacts'
<1>1. PICK k \in Clubs, m \in Numbers, n \in Numbers : \E p, q \in Members(save[k]) :
         LET updates == <<<<p, m>>, <<q, n>>>>
         IN  /\ CanRenumber(save[k], updates)
             /\ save' = [save EXCEPT ![k] = Renumbered(@, updates)]
  BY DEF UpdateShirts
<1>2. PICK p \in Members(save[k]), q \in Members(save[k]) :
         LET updates == <<<<p, m>>, <<q, n>>>>
         IN  /\ CanRenumber(save[k], updates)
             /\ save' = [save EXCEPT ![k] = Renumbered(@, updates)]
  BY <1>1
<1> DEFINE updates == <<<<p, m>>, <<q, n>>>>
           d == Renumbered(save[k], updates)
<1>3. /\ DOMAIN save = Clubs /\ HasRoster(save[k]) /\ RosterSound(save[k])
      /\ CanRenumber(save[k], updates) /\ save' = [save EXCEPT ![k] = d]
  BY <1>2 DEF RosterFacts, RostersSound
<1>4. DOMAIN updates = 1 .. 2 /\ \A i \in 1 .. 2 : updates[i][2] \in Nat
  BY SavesAssumption
<1> HIDE DEF updates
<1>5. HasRoster(d) /\ RosterSound(d) /\ Members(d) = Members(save[k])
  BY <1>3, <1>4, RenumberedRoster
<1> HIDE DEF d
<1>6. QED BY <1>3, <1>5, OneClubChanges

(* Captains, formations and repairs keep the facts (repair.rs).            *)
LEMMA PartsKeep ==
    ASSUME RosterFacts, SetCaptain \/ SetFormation \/ RepairGamePlans
    PROVE  RosterFacts'
<1>1. DOMAIN save = Clubs /\ \A k \in Clubs : HasRoster(save[k])
  BY DEF RosterFacts
<1>2. CASE SetCaptain
  <2>1. PICK k \in Clubs : \E p \in Members(save[k]) :
           save' = [save EXCEPT ![k].captain = SlotOf(save[k], p)]
    BY <1>2 DEF SetCaptain
  <2>2. PICK x : save' = [save EXCEPT ![k] = [save[k] EXCEPT !.captain = x]]
    BY <1>1, <2>1
  <2>3. \A j \in Clubs : SameRoster(save[j], save'[j])
    BY <1>1, <2>2, PlanFields
  <2>4. QED BY <1>1, <2>2, <2>3, PlansChange
<1>3. CASE SetFormation
  <2>1. PICK k \in Clubs, form \in Forms : save' = [save EXCEPT ![k].form = form]
    BY <1>3 DEF SetFormation
  <2>2. save' = [save EXCEPT ![k] = [save[k] EXCEPT !.form = form]]
    BY <1>1, <2>1
  <2>3. \A j \in Clubs : SameRoster(save[j], save'[j])
    BY <1>1, <2>2, PlanFields
  <2>4. QED BY <1>1, <2>2, <2>3, PlansChange
<1>4. CASE RepairGamePlans
  <2>1. PICK aligned \in SUBSET Clubs, preserve \in BOOLEAN :
           /\ DOMAIN save' = Clubs
           /\ \A k \in Clubs :
                 save'[k] \in GamePlanRepaired(save[k], transferred, k \in aligned, preserve)
    BY <1>4 DEF RepairGamePlans
  <2>2. \A k \in Clubs : SameRoster(save[k], save'[k])
    BY <1>1, <2>1, RepairedRoster
  <2>3. QED BY <2>1, <2>2, PlansChange
<1>5. QED BY <1>2, <1>3, <1>4

(* The invariant that is inductive: every club is a club and the rosters   *)
(* are in order.                                                           *)
LEMMA RosterFactsAlways == Spec => []RosterFacts
<1>1. Init => RosterFacts
  <2>1. \A c \in SavedClub : HasRoster(c)
    BY DEF SavedClub, HasRoster
  <2>2. QED BY <2>1, SavesAssumption DEF Init, RosterFacts, RostersSound
<1>2. RosterFacts /\ [Next]_vars => RosterFacts'
  <2>1. SUFFICES ASSUME RosterFacts, [Next]_vars PROVE RosterFacts'
    OBVIOUS
  <2>2. CASE MovePlayer
    BY <2>1, <2>2, MoveKeeps
  <2>3. CASE AddPlayer
    BY <2>1, <2>3, AddKeeps
  <2>4. CASE ReleasePlayer
    BY <2>1, <2>4, ReleaseKeeps
  <2>5. CASE UpdateShirts
    BY <2>1, <2>5, ShirtsKeep
  <2>6. CASE SetCaptain \/ SetFormation \/ RepairGamePlans
    BY <2>1, <2>6, PartsKeep
  <2>7. CASE ResetSession \/ UNCHANGED vars
    <3>1. save' = save
      BY <2>7 DEF ResetSession, vars
    <3>2. QED BY <2>1, <3>1 DEF RosterFacts, RostersSound, OneClubEach
  <2>8. QED BY <2>1, <2>2, <2>3, <2>4, <2>5, <2>6, <2>7 DEF Next
<1>3. QED BY <1>1, <1>2, PTL DEF Spec

(* Whatever a session moves, signs, releases, renumbers and repairs, with  *)
(* any number of clubs, slots and players and for any ratings: nobody is   *)
(* at two clubs or twice at one, no roster has a gap, and no number is     *)
(* worn twice (ops.rs, overflow.rs, shirt.rs, lineup.rs and repair.rs).    *)
THEOREM RostersStaySound == Spec => []RostersSound
<1>1. RosterFacts => RostersSound
  BY DEF RosterFacts
<1>2. QED BY <1>1, RosterFactsAlways, PTL

-----------------------------------------------------------------------------
(* A sequence that names every element of a finite set once.               *)
Enumerates(e, S) ==
    /\ IsFiniteSet(S) /\ Cardinality(S) \in Nat
    /\ e \in [1 .. Cardinality(S) -> S]
    /\ \A i, j \in 1 .. Cardinality(S) : e[i] = e[j] => i = j
    /\ \A s \in S : \E i \in 1 .. Cardinality(S) : e[i] = s

(* The n-th of a finite ordered set is the one with n - 1 before it.       *)
LEMMA RanksEnumerate ==
    ASSUME NEW S, IsFiniteSet(S), NEW Below \in [S -> SUBSET S],
           \A s \in S : s \notin Below[s],
           \A s, t \in S : s # t => s \in Below[t] \/ t \in Below[s],
           \A s, t \in S : s \in Below[t] => Below[s] \subseteq Below[t]
    PROVE  /\ \A n \in 1 .. Cardinality(S) : \E s \in S : Cardinality(Below[s]) = n - 1
           /\ \A e : /\ e \in [1 .. Cardinality(S) -> S]
                     /\ \A n \in 1 .. Cardinality(S) : Cardinality(Below[e[n]]) = n - 1
                     => Enumerates(e, S)
<1> DEFINE N == Cardinality(S)
           rank == [s \in S |-> Cardinality(Below[s]) + 1]
<1>1. N \in Nat
  BY FS_CardinalityType
<1>2. \A s \in S : IsFiniteSet(Below[s]) /\ Cardinality(Below[s]) \in 0 .. N - 1
  <2>1. SUFFICES ASSUME NEW s \in S
                 PROVE  IsFiniteSet(Below[s]) /\ Cardinality(Below[s]) \in 0 .. N - 1
    OBVIOUS
  <2>2. Below[s] \in SUBSET S /\ Below[s] # S
    OBVIOUS
  <2>3. IsFiniteSet(Below[s]) /\ Cardinality(Below[s]) <= N /\ Cardinality(Below[s]) # N
    BY <2>2, FS_Subset
  <2>4. QED BY <1>1, <2>3, FS_CardinalityType
<1>3. \A s, t \in S : s # t => Cardinality(Below[s]) # Cardinality(Below[t])
  <2>1. ASSUME NEW s \in S, NEW t \in S, s \in Below[t]
        PROVE  Cardinality(Below[s]) # Cardinality(Below[t])
    <3>1. Below[s] \in SUBSET Below[t] /\ Below[s] # Below[t] /\ IsFiniteSet(Below[t])
      BY <1>2, <2>1
    <3>2. QED BY <3>1, FS_Subset
  <2>2. QED BY <2>1
<1>4. rank \in Injection(S, 1 .. N)
  <2>1. \A s \in S : Cardinality(Below[s]) + 1 \in 1 .. N
    BY <1>1, <1>2
  <2>2. rank \in [S -> 1 .. N]
    BY <2>1
  <2>3. \A s, t \in S : rank[s] = rank[t] => s = t
    BY <1>1, <1>2, <1>3
  <2> HIDE DEF rank
  <2>4. QED BY <2>2, <2>3 DEF Injection, IsInjective
<1>5. rank \in Surjection(S, 1 .. N)
  <2>1. IsFiniteSet(1 .. N) /\ Cardinality(1 .. N) = N
    BY <1>1, FS_Interval
  <2>2. Cardinality(S) = Cardinality(1 .. N)
    BY <2>1
  <2> HIDE DEF rank, N
  <2>3. QED BY <1>4, <2>1, <2>2, FS_Injection
<1>6. ASSUME NEW n \in 1 .. N PROVE \E s \in S : Cardinality(Below[s]) = n - 1
  <2>1. \E s \in S : rank[s] = n
    <3> HIDE DEF rank, N
    <3>1. QED BY <1>5 DEF Surjection
  <2>2. QED BY <1>1, <1>2, <2>1
<1>7. ASSUME NEW e \in [1 .. N -> S], \A n \in 1 .. N : Cardinality(Below[e[n]]) = n - 1
      PROVE  Enumerates(e, S)
  <2>1. \A i, j \in 1 .. N : e[i] = e[j] => i = j
    <3>1. SUFFICES ASSUME NEW i \in 1 .. N, NEW j \in 1 .. N, e[i] = e[j] PROVE i = j
      OBVIOUS
    <3>2. i - 1 = j - 1
      BY <1>7, <3>1
    <3>3. QED BY <1>1, <3>2
  <2>2. \A s \in S : \E i \in 1 .. N : e[i] = s
    <3>1. SUFFICES ASSUME NEW s \in S PROVE \E i \in 1 .. N : e[i] = s
      OBVIOUS
    <3> DEFINE i == Cardinality(Below[s]) + 1
    <3>2. i \in 1 .. N /\ Cardinality(Below[s]) = i - 1
      BY <1>1, <1>2
    <3> HIDE DEF i
    <3>3. e[i] \in S /\ Cardinality(Below[e[i]]) = Cardinality(Below[s])
      BY <1>7, <3>2
    <3>4. e[i] = s
      BY <1>3, <3>3
    <3>5. QED BY <3>2, <3>4
  <2>3. QED BY <1>1, <1>7, <2>1, <2>2 DEF Enumerates
<1>8. QED BY <1>6, <1>7

(* Ascending names every element of a finite set of integers once.         *)
LEMMA AscendingEnumerates ==
    ASSUME NEW S \in SUBSET Int, IsFiniteSet(S)
    PROVE  Enumerates(Ascending(S), S)
<1> DEFINE N == Cardinality(S)
           Below == [s \in S |-> {t \in S : t < s}]
<1>1. /\ Below \in [S -> SUBSET S]
      /\ \A s \in S : s \notin Below[s]
      /\ \A s, t \in S : s # t => s \in Below[t] \/ t \in Below[s]
      /\ \A s, t \in S : s \in Below[t] => Below[s] \subseteq Below[t]
  <2>1. Below \in [S -> SUBSET S]
    OBVIOUS
  <2>2. \A s, t \in S : (s \in Below[t]) <=> s < t
    OBVIOUS
  <2>3. S \subseteq Int
    OBVIOUS
  <2> HIDE DEF Below
  <2>4. \A s, t \in S : s \in Below[t] => Below[s] \subseteq Below[t]
    <3>1. SUFFICES ASSUME NEW s \in S, NEW t \in S, s \in Below[t], NEW u \in Below[s]
                   PROVE  u \in Below[t]
      OBVIOUS
    <3>2. u \in S /\ u < s /\ s < t
      BY <2>1, <2>2, <3>1
    <3>3. u \in Int /\ s \in Int /\ t \in Int
      BY <2>3, <3>2
    <3>4. u < t
      BY <3>2, <3>3
    <3>5. QED BY <2>2, <3>2, <3>4
  <2>5. QED BY <2>1, <2>2, <2>3, <2>4
<1>2. /\ \A n \in 1 .. N : \E s \in S : Cardinality(Below[s]) = n - 1
      /\ \A e : /\ e \in [1 .. N -> S]
                /\ \A n \in 1 .. N : Cardinality(Below[e[n]]) = n - 1
                => Enumerates(e, S)
  <2> HIDE DEF Below
  <2>1. QED BY <1>1, RanksEnumerate
<1>3. \A n \in 1 .. N : \E s \in S : Cardinality({t \in S : t < s}) = n - 1
  BY <1>2
<1>4. \A n \in 1 .. N : /\ Ascending(S)[n] \in S
                        /\ Cardinality({t \in S : t < Ascending(S)[n]}) = n - 1
  BY <1>3 DEF Ascending, InOrder
<1>5. Ascending(S) \in [1 .. N -> S]
  BY <1>4 DEF Ascending, InOrder
<1>6. \A n \in 1 .. N : Cardinality(Below[Ascending(S)[n]]) = n - 1
  BY <1>4
<1>7. QED BY <1>2, <1>5, <1>6

(* An enumeration is a sequence, and its values are the set.               *)
LEMMA EnumerationSeq ==
    ASSUME NEW S, NEW e, Enumerates(e, S)
    PROVE  /\ e \in Seq(S) /\ Len(e) = Cardinality(S) /\ DOMAIN e = 1 .. Len(e)
           /\ Len(e) \in Nat /\ ToSet(e) = S
BY DEF Enumerates, ToSet

(* What a filter keeps, of a sequence that names nothing twice.            *)
LEMMA KeptEnumerates ==
    ASSUME NEW n \in Nat, NEW items, DOMAIN items = 1 .. n,
           \A i, j \in 1 .. n : items[i] = items[j] => i = j, NEW S
    PROVE  Enumerates(Kept(items, S), {items[i] : i \in 1 .. n} \cap S)
<1> DEFINE I == {i \in DOMAIN items : items[i] \in S}
           T == {items[i] : i \in 1 .. n} \cap S
           a == Ascending(I)
           f == [i \in I |-> items[i]]
           e == [m \in DOMAIN a |-> items[a[m]]]
<1>1. I \in SUBSET (1 .. n) /\ IsFiniteSet(1 .. n)
  BY FS_Interval
<1>2. I \in SUBSET Int /\ IsFiniteSet(I)
  <2> HIDE DEF I
  <2>1. IsFiniteSet(I)
    BY <1>1, FS_Subset
  <2>2. QED BY <1>1, <2>1
<1>3. Enumerates(a, I)
  <2> HIDE DEF I
  <2>1. QED BY <1>2, AscendingEnumerates
<1>4. f \in Bijection(I, T)
  <2>1. f \in [I -> T]
    OBVIOUS
  <2>2. \A i, j \in I : f[i] = f[j] => i = j
    BY <1>1
  <2>3. \A t \in T : \E i \in I : f[i] = t
    OBVIOUS
  <2> HIDE DEF f, I, T
  <2>4. QED BY <2>1, <2>2, <2>3 DEF Bijection, Injection, Surjection, IsInjective
<1>5. IsFiniteSet(T) /\ Cardinality(T) = Cardinality(I)
  <2>1. ExistsBijection(I, T)
    <3> HIDE DEF f, I, T
    <3>1. QED BY <1>4 DEF ExistsBijection
  <2> HIDE DEF f, I, T
  <2>2. QED BY <1>2, <2>1, FS_Bijection
<1>6. DOMAIN a = 1 .. Cardinality(T)
  <2> HIDE DEF a, I, T
  <2>1. QED BY <1>3, <1>5 DEF Enumerates
<1>7. \A m \in 1 .. Cardinality(T) : a[m] \in I
  <2> HIDE DEF a, I, T
  <2>1. QED BY <1>3, <1>5 DEF Enumerates
<1>8. Enumerates(e, T)
  <2>1. e \in [1 .. Cardinality(T) -> T]
    <3>1. \A m \in 1 .. Cardinality(T) : items[a[m]] \in T
      <4> HIDE DEF a
      <4>1. QED BY <1>7
    <3> HIDE DEF a, I, T
    <3>2. QED BY <1>6, <3>1
  <2>2. \A i, j \in 1 .. Cardinality(T) : e[i] = e[j] => i = j
    <3>1. SUFFICES ASSUME NEW i \in 1 .. Cardinality(T), NEW j \in 1 .. Cardinality(T),
                          e[i] = e[j]
                   PROVE  i = j
      OBVIOUS
    <3>2. items[a[i]] = items[a[j]]
      BY <1>6, <3>1
    <3>3. a[i] \in 1 .. n /\ a[j] \in 1 .. n
      <4> HIDE DEF a, T, I
      <4>1. QED BY <1>1, <1>7
    <3>4. a[i] = a[j]
      BY <3>2, <3>3
    <3> HIDE DEF a, I, T, e
    <3>5. QED BY <1>3, <1>5, <3>4 DEF Enumerates
  <2>3. \A t \in T : \E m \in 1 .. Cardinality(T) : e[m] = t
    <3>1. SUFFICES ASSUME NEW t \in T PROVE \E m \in 1 .. Cardinality(T) : e[m] = t
      OBVIOUS
    <3>2. PICK i \in I : items[i] = t
      OBVIOUS
    <3>3. PICK m \in 1 .. Cardinality(T) : a[m] = i
      <4> HIDE DEF a, I, T
      <4>1. QED BY <1>3, <1>5 DEF Enumerates
    <3>4. e[m] = t
      <4> HIDE DEF a, I, T
      <4>1. QED BY <1>6, <3>2, <3>3
    <3>5. QED BY <3>4
  <2>4. Cardinality(T) \in Nat
    <3> HIDE DEF T
    <3>1. QED BY <1>5, FS_CardinalityType
  <2> HIDE DEF e, T
  <2>5. QED BY <1>5, <2>1, <2>2, <2>3, <2>4 DEF Enumerates
<1>9. QED BY <1>8 DEF Kept

(* Enumerations of two sets apart, one after the other.                    *)
LEMMA ConcatEnumerates ==
    ASSUME NEW S, NEW T, S \cap T = {}, NEW a, NEW b, Enumerates(a, S), Enumerates(b, T)
    PROVE  Enumerates(a \o b, S \cup T) /\ Cardinality(S \cup T) = Cardinality(S) + Cardinality(T)
<1> DEFINE U == S \cup T
           m == Cardinality(S)
           n == Cardinality(T)
           e == a \o b
<1>1. m \in Nat /\ n \in Nat /\ IsFiniteSet(S) /\ IsFiniteSet(T)
  BY DEF Enumerates
<1>2. Cardinality({}) = 0
  BY FS_EmptySet
<1>3. IsFiniteSet(U) /\ Cardinality(U) = m + n
  <2>1. IsFiniteSet(U) /\ Cardinality(U) = m + n - Cardinality(S \cap T)
    BY <1>1, FS_Union
  <2>2. m + n - Cardinality(S \cap T) = m + n
    <3> HIDE DEF m, n
    <3>1. QED BY <1>1, <1>2
  <2>3. QED BY <2>1, <2>2
<1>4. a \in Seq(U) /\ b \in Seq(U) /\ Len(a) = m /\ Len(b) = n
  BY DEF Enumerates
<1>5. /\ e \in Seq(U) /\ Len(e) = m + n
      /\ \A i \in 1 .. m + n : e[i] = IF i <= m THEN a[i] ELSE b[i - m]
  <2> HIDE DEF U, m, n, e
  <2>1. QED BY <1>4, ConcatProperties DEF e
<1> HIDE DEF e
<1>6. e \in [1 .. m + n -> U]
  <2> HIDE DEF U, m, n
  <2>1. QED BY <1>5, LenProperties
<1>7. \A i \in 1 .. m : e[i] = a[i]
  <2> HIDE DEF U, m, n
  <2>1. QED BY <1>1, <1>5
<1>8. \A i \in 1 .. n : e[m + i] = b[i]
  <2> HIDE DEF U, m, n
  <2>1. QED BY <1>1, <1>5
<1>9. \A k \in 1 .. m + n : k \in 1 .. m \/ \E i \in 1 .. n : k = m + i
  <2>1. ASSUME NEW k \in 1 .. m + n, ~(k \in 1 .. m) PROVE \E i \in 1 .. n : k = m + i
    <3> HIDE DEF m, n
    <3>1. k - m \in 1 .. n /\ k = m + (k - m)
      BY <1>1, <2>1
    <3>2. QED BY <3>1
  <2>2. QED BY <2>1
<1>10. \A i, j \in 1 .. m + n : e[i] = e[j] => i = j
  <2>1. SUFFICES ASSUME NEW i \in 1 .. m + n, NEW j \in 1 .. m + n, e[i] = e[j] PROVE i = j
    OBVIOUS
  <2>2. \A k \in 1 .. m : a[k] \in S
    BY DEF Enumerates
  <2>3. \A k \in 1 .. n : b[k] \in T
    BY DEF Enumerates
  <2>4. CASE i \in 1 .. m /\ j \in 1 .. m
    BY <1>7, <2>1, <2>4 DEF Enumerates
  <2>5. CASE i \in 1 .. m /\ j \notin 1 .. m
    BY <1>7, <1>8, <1>9, <2>1, <2>2, <2>3, <2>5
  <2>6. CASE i \notin 1 .. m /\ j \in 1 .. m
    BY <1>7, <1>8, <1>9, <2>1, <2>2, <2>3, <2>6
  <2>7. CASE i \notin 1 .. m /\ j \notin 1 .. m
    <3>1. PICK k \in 1 .. n : i = m + k
      BY <1>9, <2>7
    <3>2. PICK l \in 1 .. n : j = m + l
      BY <1>9, <2>7
    <3>3. b[k] = b[l]
      BY <1>8, <2>1, <3>1, <3>2
    <3>4. k = l
      BY <3>3 DEF Enumerates
    <3>5. QED BY <3>1, <3>2, <3>4
  <2>8. QED BY <2>4, <2>5, <2>6, <2>7
<1>11. \A s \in U : \E i \in 1 .. m + n : e[i] = s
  <2>1. ASSUME NEW s \in S PROVE \E i \in 1 .. m + n : e[i] = s
    <3>1. PICK i \in 1 .. m : a[i] = s
      BY DEF Enumerates
    <3>2. i \in 1 .. m + n
      <4> HIDE DEF m, n
      <4>1. QED BY <1>1
    <3>3. QED BY <1>7, <3>1, <3>2
  <2>2. ASSUME NEW s \in T PROVE \E i \in 1 .. m + n : e[i] = s
    <3>1. PICK i \in 1 .. n : b[i] = s
      BY DEF Enumerates
    <3>2. m + i \in 1 .. m + n
      <4> HIDE DEF m, n
      <4>1. QED BY <1>1
    <3>3. QED BY <1>8, <3>1, <3>2
  <2>3. QED BY <2>1, <2>2
<1>12. Enumerates(e, U)
  <2> HIDE DEF U, m, n
  <2>1. m + n \in Nat
    BY <1>1
  <2>2. QED BY <1>3, <1>6, <1>10, <1>11, <2>1 DEF Enumerates
<1>13. QED BY <1>3, <1>12 DEF e

-----------------------------------------------------------------------------
Swapping == INSTANCE FoldInduction
            WITH Op <- LAMBDA e, s, x : SwapPair(s, x), Inv <- LAMBDA e, i, l : l \in [Roles -> Nat]

(* The lineup m is l with its first n roles exchanged.                     *)
IsLineup(l) == l \in [Roles -> Nat]
HeadOf(l, n) == {l[r] : r \in 1 .. n}
Permutes(m, l, n) ==
    /\ IsLineup(m) /\ HeadOf(m, n) = HeadOf(l, n)
    /\ \A r \in n + 1 .. Size : m[r] = l[r]

(* Exchanging twice is exchanging.                                         *)
LEMMA PermutesChain ==
    ASSUME NEW l, NEW m, NEW k, NEW n, Permutes(k, m, n), Permutes(m, l, n)
    PROVE  Permutes(k, l, n)
BY DEF Permutes

(* Exchanging two of the first n roles, and no others.                     *)
LEMMA SwapPermutes ==
    ASSUME NEW n \in 0 .. Size, NEW l, IsLineup(l), NEW i \in 1 .. n, NEW j \in 1 .. n
    PROVE  /\ Permutes(Swap(l, i, j), l, n)
           /\ Swap(l, i, j)[i] = l[j]
           /\ \A r \in Roles \ {i, j} : Swap(l, i, j)[r] = l[r]
<1>0. Size \in Nat /\ n \in Nat
  BY RosterAssumption
<1>1. i \in Roles /\ j \in Roles /\ \A r \in 1 .. n : r \in Roles
  BY <1>0 DEF Roles
<1> DEFINE m == Swap(l, i, j)
<1>2. /\ IsLineup(m) /\ m[i] = l[j] /\ m[j] = l[i]
      /\ \A r \in Roles \ {i, j} : m[r] = l[r]
  BY <1>1 DEF IsLineup, Swap
<1> HIDE DEF m
<1>3. HeadOf(m, n) = HeadOf(l, n)
  <2>1. ASSUME NEW r \in 1 .. n PROVE l[r] \in HeadOf(m, n) /\ m[r] \in HeadOf(l, n)
    <3>1. CASE r = i
      BY <1>2, <3>1 DEF HeadOf
    <3>2. CASE r = j
      BY <1>2, <3>2 DEF HeadOf
    <3>3. CASE r \notin {i, j}
      BY <1>1, <1>2, <3>3 DEF HeadOf
    <3>4. QED BY <3>1, <3>2, <3>3
  <2>2. QED BY <2>1 DEF HeadOf
<1>4. \A r \in n + 1 .. Size : m[r] = l[r]
  BY <1>0, <1>2 DEF Roles
<1>5. QED BY <1>2, <1>3, <1>4 DEF Permutes, m

(* Trading roles of the first n pair by pair exchanges them and leaves     *)
(* role 1, the goalkeeper's, alone (lineup.rs 110-118).                    *)
LEMMA SwapPairsPermutes ==
    ASSUME NEW n \in 0 .. Size, NEW l, IsLineup(l),
           NEW S \in SUBSET (2 .. n), NEW T \in SUBSET (2 .. n)
    PROVE  /\ Permutes(SwapPairs(l, Ascending(S), Ascending(T)), l, n)
           /\ SwapPairs(l, Ascending(S), Ascending(T))[1] = l[1]
           /\ \A r \in Roles \ (S \cup T) :
                 SwapPairs(l, Ascending(S), Ascending(T))[r] = l[r]
<1> DEFINE out == Ascending(S)
           in == Ascending(T)
           m == Least(Len(out), Len(in))
           pairs == [i \in 1 .. m |-> <<out[i], in[i]>>]
<1>0. Size \in Nat /\ n \in Nat /\ 1 \in Roles
  BY RosterAssumption DEF Roles
<1>1. /\ Len(out) \in Nat /\ Len(in) \in Nat
      /\ \A i \in 1 .. Len(out) : out[i] \in S
      /\ \A i \in 1 .. Len(in) : in[i] \in T
  <2>1. /\ S \in SUBSET Int /\ IsFiniteSet(S)
        /\ T \in SUBSET Int /\ IsFiniteSet(T)
    <3>1. IsFiniteSet(2 .. n)
      BY <1>0, FS_Interval
    <3>2. IsFiniteSet(S) /\ IsFiniteSet(T)
      BY <3>1, FS_Subset
    <3>3. QED BY <3>2
  <2>2. Enumerates(out, S) /\ Enumerates(in, T)
    BY <2>1, AscendingEnumerates
  <2> HIDE DEF out, in
  <2>3. QED BY <2>2, EnumerationSeq DEF Enumerates
<1> HIDE DEF out, in
<1>2. m \in Nat /\ \A i \in 1 .. m : i \in 1 .. Len(out) /\ i \in 1 .. Len(in)
  BY <1>1 DEF Least
<1>3. SwapPairs(l, out, in) = Swapping!Fold(0, l, pairs)
  BY DEF SwapPairs, Swapping!Fold, FoldLeft, Swapping!FoldLeft,
         MapThenFoldSet, Swapping!MapThenFoldSet, Max, Swapping!Max
<1> HIDE DEF m
<1>4. DOMAIN pairs = 1 .. m
  OBVIOUS
<1>5. \A i \in 1 .. m : /\ pairs[i][1] \in 1 .. n /\ pairs[i][2] \in 1 .. n
                        /\ 1 \notin {pairs[i][1], pairs[i][2]}
                        /\ pairs[i][1] \in S /\ pairs[i][2] \in T
  <2>1. SUFFICES ASSUME NEW i \in 1 .. m
                 PROVE  /\ pairs[i][1] \in 1 .. n /\ pairs[i][2] \in 1 .. n
                        /\ 1 \notin {pairs[i][1], pairs[i][2]}
                        /\ pairs[i][1] \in S /\ pairs[i][2] \in T
    OBVIOUS
  <2>2. out[i] \in S /\ in[i] \in T /\ out[i] \in 2 .. n /\ in[i] \in 2 .. n
    BY <1>1, <1>2
  <2>3. pairs[i][1] = out[i] /\ pairs[i][2] = in[i]
    OBVIOUS
  <2> HIDE DEF pairs
  <2>4. /\ pairs[i][1] \in S /\ pairs[i][2] \in T
        /\ pairs[i][1] \in 2 .. n /\ pairs[i][2] \in 2 .. n
    BY <2>2, <2>3
  <2>5. QED BY <1>0, <2>4
<1> HIDE DEF pairs
<1>6. PICK h : Swapping!States(0, l, pairs, m, h)
  BY <1>2, <1>4, Swapping!FoldLeftStates
<1> DEFINE Same(g) == g[1] = l[1] /\ \A r \in Roles \ (S \cup T) : g[r] = l[r]
           Kept1(i) == Permutes(h[i], l, n) /\ Same(h[i])
           Bad == {i \in 0 .. m : ~Kept1(i)}
<1>7. Kept1(0)
  BY <1>6 DEF Swapping!States, Permutes
<1>8. ASSUME NEW i \in 1 .. m, Kept1(i - 1) PROVE Kept1(i)
  <2>1. h[i] = Swap(h[i - 1], pairs[i][1], pairs[i][2])
    BY <1>6 DEF Swapping!States, SwapPair
  <2>2. IsLineup(h[i - 1])
    BY <1>8 DEF Permutes
  <2>3. Permutes(h[i], h[i - 1], n) /\ Same(h[i])
    <3> DEFINE g == h[i - 1]
               x == pairs[i][1]
               y == pairs[i][2]
    <3>1. /\ x \in 1 .. n /\ y \in 1 .. n /\ 1 \in Roles \ {x, y}
          /\ x \in S /\ y \in T /\ IsLineup(g) /\ Same(g)
      BY <1>0, <1>5, <1>8, <2>2
    <3> HIDE DEF g, x, y
    <3>2. /\ Permutes(Swap(g, x, y), g, n)
          /\ \A r \in Roles \ {x, y} : Swap(g, x, y)[r] = g[r]
      BY <3>1, SwapPermutes
    <3>3. Same(Swap(g, x, y))
      BY <3>1, <3>2
    <3>4. QED BY <2>1, <3>2, <3>3 DEF g, x, y
  <2>4. QED BY <1>8, <2>3, PermutesChain
<1> HIDE DEF Kept1
<1>9. Bad = {}
  <2>1. ASSUME Bad # {} PROVE FALSE
    <3>1. Bad \subseteq Nat
      BY <1>2
    <3>2. PICK i \in Bad : \A j \in Bad : i <= j
      BY <2>1, <3>1, Swapping!LeastNatural
    <3>3. i # 0
      BY <1>7, <3>2
    <3>4. i \in 1 .. m /\ i - 1 \in 0 .. m /\ i - 1 \notin Bad
      BY <1>2, <3>2, <3>3
    <3>5. QED BY <1>8, <3>2, <3>4
  <2>2. QED BY <2>1
<1>10. Kept1(m) /\ Swapping!Fold(0, l, pairs) = h[m]
  <2>1. m \in 0 .. m
    BY <1>2
  <2>2. QED BY <1>6, <1>9, <2>1 DEF Swapping!States
<1>11. QED BY <1>3, <1>10 DEF out, in, Kept1

(* The smallest of finitely many keys of one length belongs to an element. *)
LEMMA FirstByKey ==
    ASSUME NEW S, IsFiniteSet(S), S # {}, NEW n \in Nat, NEW key \in [S -> [1 .. n -> Int]],
           \A x, y \in S : key[x] = key[y] => x = y
    PROVE  \E x \in S : \A y \in S \ {x} : LexLess(key[x], key[y])
<1> DEFINE R == {xy \in S \X S : LexLess(key[xy[1]], key[xy[2]])}
<1>1. \A x, y \in S : <<x, y>> \in R <=> LexLess(key[x], key[y])
  OBVIOUS
<1>2. \A x, y \in S : x # y => <<x, y>> \in R \/ <<y, x>> \in R
  BY <1>1, LexOrders, ZenonT(60)
<1>3. \A x, y, z \in S : <<x, y>> \in R /\ <<y, z>> \in R => <<x, z>> \in R
  <2>1. SUFFICES ASSUME NEW x \in S, NEW y \in S, NEW z \in S, <<x, y>> \in R, <<y, z>> \in R
                 PROVE  <<x, z>> \in R
    OBVIOUS
  <2>2. LexLess(key[x], key[y]) /\ LexLess(key[y], key[z])
    BY <1>1, <2>1
  <2>3. key[x] \in [1 .. n -> Int] /\ key[y] \in [1 .. n -> Int] /\ key[z] \in [1 .. n -> Int]
    OBVIOUS
  <2>4. LexLess(key[x], key[z])
    BY <2>2, <2>3, LexOrders
  <2>5. QED BY <1>1, <2>4
<1> HIDE DEF R
<1>4. Ordered(S, R)
  BY <1>2, <1>3 DEF Ordered
<1>5. PICK x \in S : First(S, R, x)
  BY <1>4, FirstExists
<1>6. QED BY <1>1, <1>5 DEF First

(* Who has a position by what a signing goes by, in a roster.              *)
LEMMA SamePositions ==
    ASSUME NEW c, NEW d, d.ids = c.ids, NEW over
    PROVE  Active(d.ids) = Active(c.ids) /\ \A s : PosAt(d, s, over) = PosAt(c, s, over)
BY DEF PosAt

(* It is the registered one of everybody else.                             *)
LEMMA SigningElsewhere ==
    ASSUME NEW c, NEW over, over.player \notin Members(c)
    PROVE  KeeperInGoal(c, over) <=> KeeperInGoal(c, NoOver)
<1>1. ASSUME NEW s PROVE PosAt(c, s, over) = PosAt(c, s, NoOver)
  <2>1. CASE s \in Active(c.ids)
    <3>1. s \in Slots /\ c.ids[s] # Nobody /\ c.ids[s] # over.player
      BY <2>1 DEF Active, Members
    <3>2. NoOver.player = Nobody
      BY DEF NoOver
    <3>3. QED BY <3>1, <3>2 DEF PosAt
  <2>2. CASE s \notin Active(c.ids)
    BY <2>2 DEF PosAt, Active
  <2>3. QED BY <2>1, <2>2
<1>2. QED BY <1>1 DEF KeeperInGoal

(* Putting the goalkeeper in goal exchanges roles in use, and puts one in  *)
(* goal when the club has one (lineup.rs 40-125).                          *)
LEMMA KeeperPermutes ==
    ASSUME NEW c, HasRoster(c), IsLineup(c.lineup), Count(c) \in 0 .. Size,
           NEW over, NEW preserve
    PROVE  /\ Permutes(KeeperRepaired(c, over, preserve).lineup, c.lineup, Count(c))
           /\ HeadOf(c.lineup, Count(c)) = Active(c.ids)
              => KeeperInGoal(KeeperRepaired(c, over, preserve), over)
           /\ \A r \in 2 .. StarterCount(c) : PosAt(c, c.lineup[r], over) # Gk
              => KeeperRepaired(c, over, preserve).lineup[r] = c.lineup[r]
<1> DEFINE n == Count(c)
           k == StarterCount(c)
           l == c.lineup
           gks == GoalkeeperRoles(c, over)
           d == KeeperRepaired(c, over, preserve)
<1>1. /\ n \in Nat /\ Size \in Nat /\ n <= Size /\ k \in 0 .. n /\ Starters \in Nat
      /\ 1 <= Starters /\ k <= Starters /\ (n > 0 => k > 0)
  BY RosterAssumption DEF StarterCount, Least
<1>2. /\ gks \in SUBSET (1 .. n)
      /\ gks = {1} \/ \A r \in gks : PosAt(c, l[r], over) = Gk
      /\ gks = {} => \A r \in 1 .. n : PosAt(c, l[r], over) # Gk
      /\ \A r \in gks : \/ PosAt(c, l[r], over) = Gk
                        \/ r = 1 /\ gks = {1} /\ PosAt(c, l[1], over) = Unknown /\ c.form[1] = Gk
  <2> DEFINE benched == {r \in k + 1 .. n : KeeperAt(c, l, r, over)}
             first == {r \in 1 .. k : KeeperAt(c, l, r, over)}
             unknown == /\ l[1] \in Slots /\ c.ids[l[1]] # Nobody
                        /\ PosAt(c, l[1], over) = Unknown
                        /\ c.form[1] = Gk
  <2>1. gks = IF n > 0 /\ unknown /\ benched # {} THEN {1} ELSE benched \cup first
    BY DEF GoalkeeperRoles
  <2>2. benched \in SUBSET (1 .. n) /\ first \in SUBSET (1 .. n)
    BY <1>1
  <2>3. \A r \in 1 .. n : r \in k + 1 .. n \/ r \in 1 .. k
    BY <1>1
  <2>4. \A r \in benched \cup first : PosAt(c, l[r], over) = Gk
    BY DEF KeeperAt
  <2>5. \A r \in 1 .. n : PosAt(c, l[r], over) = Gk => r \in benched \cup first
    BY <2>3 DEF KeeperAt
  <2>6. n > 0 => 1 \in 1 .. n
    BY <1>1
  <2> HIDE DEF benched, first, n, gks
  <2>7. QED BY <2>1, <2>2, <2>4, <2>5, <2>6
<1>3. CASE gks = {}
  <2>1. d = c
    BY <1>3 DEF KeeperRepaired
  <2>2. HeadOf(l, n) = Active(c.ids) => \A s \in Active(c.ids) : PosAt(c, s, over) # Gk
    <3>1. SUFFICES ASSUME HeadOf(l, n) = Active(c.ids), NEW s \in Active(c.ids)
                   PROVE  PosAt(c, s, over) # Gk
      OBVIOUS
    <3>2. PICK r \in 1 .. n : s = l[r]
      BY <3>1 DEF HeadOf
    <3>3. QED BY <1>2, <1>3, <3>2
  <2> HIDE DEF d
  <2>3. QED BY <2>1, <2>2 DEF KeeperInGoal, Permutes, d
<1>4. CASE gks # {}
  <2>0. 1 \in 1 .. n /\ 1 \in Roles /\ n > 0
    BY <1>1, <1>2, <1>4 DEF Roles
  <2> DEFINE best == CHOOSE x \in gks : \A y \in gks \ {x} : LexLess(<<l[x], x>>, <<l[y], y>>)
             primary == IF preserve /\ 1 \in gks THEN 1 ELSE best
             swapped == Swap(l, 1, primary)
             extra == {r \in 2 .. k : KeeperAt(c, swapped, r, over)}
             bench == {r \in k + 1 .. n : ~KeeperAt(c, swapped, r, over)}
             m == SwapPairs(swapped, Ascending(extra), Ascending(bench))
  <2>1. d = [c EXCEPT !.lineup = m, !.form = FormRepaired(c, m, over)]
    BY <1>4 DEF KeeperRepaired, FirstBy
  <2>2. primary \in gks
    <3> DEFINE key == [r \in gks |-> <<l[r], r>>]
    <3>1. gks \in SUBSET Roles /\ IsFiniteSet(gks) /\ gks \in SUBSET Int
      <4>1. IsFiniteSet(1 .. n)
        BY <1>1, FS_Interval
      <4>2. IsFiniteSet(gks)
        BY <1>2, <4>1, FS_Subset
      <4>3. QED BY <1>1, <1>2, <4>2 DEF Roles
    <3>2. key \in [gks -> [1 .. 2 -> Int]]
      <4>1. \A r \in gks : <<l[r], r>> \in [1 .. 2 -> Int]
        <5>1. SUFFICES ASSUME NEW r \in gks PROVE <<l[r], r>> \in [1 .. 2 -> Int]
          OBVIOUS
        <5>2. l[r] \in Int /\ r \in Int
          BY <3>1 DEF IsLineup
        <5>3. QED BY <5>2
      <4>2. QED BY <4>1
    <3>3. \A x, y \in gks : key[x] = key[y] => x = y
      OBVIOUS
    <3>4. \E x \in gks : \A y \in gks \ {x} : LexLess(key[x], key[y])
      <4> HIDE DEF key, gks
      <4>1. QED BY <1>4, <3>1, <3>2, <3>3, FirstByKey
    <3>5. \E x \in gks : \A y \in gks \ {x} : LexLess(<<l[x], x>>, <<l[y], y>>)
      BY <3>4
    <3> HIDE DEF gks
    <3>6. best \in gks
      BY <3>5
    <3>7. QED BY <3>6
  <2> HIDE DEF primary
  <2>3. /\ Permutes(swapped, l, n) /\ swapped[1] = l[primary]
        /\ \A r \in Roles \ {1, primary} : swapped[r] = l[r]
    BY <1>2, <2>0, <2>2, SwapPermutes
  <2>4. /\ Permutes(m, swapped, n) /\ m[1] = swapped[1]
        /\ \A r \in Roles \ (extra \cup bench) : m[r] = swapped[r]
    <3>1. extra \in SUBSET (2 .. n) /\ bench \in SUBSET (2 .. n)
      BY <1>1, <2>0
    <3>2. IsLineup(swapped)
      BY <2>3 DEF Permutes
    <3>3. n \in 0 .. Size
      BY <1>1
    <3> HIDE DEF extra, bench, swapped, n
    <3>4. QED BY <3>1, <3>2, <3>3, SwapPairsPermutes
  <2>9. ASSUME NEW r \in 2 .. k, PosAt(c, l[r], over) # Gk PROVE m[r] = l[r]
    <3>1. r \in Roles /\ r # 1 /\ r \notin k + 1 .. n
      BY <1>1 DEF Roles
    <3>2. r # primary
      BY <1>2, <2>2, <2>9, <3>1
    <3>3. swapped[r] = l[r]
      BY <2>3, <3>1, <3>2
    <3> HIDE DEF m, swapped
    <3>4. r \notin extra /\ r \notin bench
      BY <2>9, <3>1, <3>3 DEF KeeperAt
    <3>5. QED BY <2>4, <3>1, <3>3, <3>4
  <2> HIDE DEF m, swapped
  <2>5. Permutes(m, l, n) /\ m[1] = l[primary]
    BY <2>3, <2>4, PermutesChain
  <2>6. d.lineup = m /\ d.form = FormRepaired(c, m, over) /\ d.ids = c.ids
    BY <2>1 DEF HasRoster
  <2>7. ASSUME HeadOf(l, n) = Active(c.ids) PROVE KeeperInGoal(d, over)
    <3>1. l[primary] \in Active(c.ids)
      BY <1>2, <2>2, <2>7 DEF HeadOf
    <3>2. FormRepaired(c, m, over) =
             IF PosAt(c, m[1], over) # Gk THEN c.form
             ELSE [r \in 1 .. Starters |->
                     IF r = 1 THEN Gk
                     ELSE FormRepaired(c, m, over)[r]]
      <4>1. ~(1 > k)
        BY <1>1, <2>0
      <4>2. QED BY <4>1 DEF FormRepaired
    <3>3. PosAt(d, d.lineup[1], over) \in {Gk, Unknown}
      BY <1>2, <2>2, <2>5, <2>6, SamePositions
    <3>4. FormRepaired(c, m, over)[1] = Gk
      <4>1. CASE PosAt(c, m[1], over) = Gk
        <5>1. 1 \in 1 .. Starters
          BY <1>1
        <5>2. QED BY <3>2, <4>1, <5>1
      <4>2. CASE PosAt(c, m[1], over) # Gk
        BY <1>2, <2>2, <2>5, <3>2, <4>2
      <4>3. QED BY <4>1, <4>2
    <3>5. QED BY <2>6, <3>3, <3>4 DEF KeeperInGoal
  <2>8. QED BY <2>5, <2>6, <2>7, <2>9
<1>5. QED BY <1>3, <1>4

-----------------------------------------------------------------------------
(* The values of a concatenation.                                          *)
LEMMA ConcatValues ==
    ASSUME NEW a \in Seq(Nat), NEW b \in Seq(Nat)
    PROVE  /\ a \o b \in Seq(Nat) /\ Len(a \o b) = Len(a) + Len(b)
           /\ \A i \in 1 .. Len(a) : (a \o b)[i] = a[i]
           /\ \A i \in 1 .. Len(b) : (a \o b)[Len(a) + i] = b[i]
           /\ ToSet(a \o b) = ToSet(a) \cup ToSet(b)
<1> DEFINE e == a \o b
           m == Len(a)
           n == Len(b)
<1>0. m \in Nat /\ n \in Nat /\ DOMAIN a = 1 .. m /\ DOMAIN b = 1 .. n
  BY LenProperties
<1>1. /\ e \in Seq(Nat) /\ Len(e) = m + n
      /\ \A i \in 1 .. m + n : e[i] = IF i <= m THEN a[i] ELSE b[i - m]
  BY ConcatProperties
<1> HIDE DEF e
<1>2. DOMAIN e = 1 .. m + n
  <2>1. DOMAIN e = 1 .. Len(e)
    BY <1>1, LenProperties
  <2>2. QED BY <1>1, <2>1
<1> HIDE DEF m, n
<1>3. \A i \in 1 .. m : i \in 1 .. m + n /\ e[i] = a[i]
  BY <1>0, <1>1
<1>4. \A i \in 1 .. n : m + i \in 1 .. m + n /\ e[m + i] = b[i]
  BY <1>0, <1>1
<1>5. \A k \in 1 .. m + n : k \in 1 .. m \/ (k - m \in 1 .. n /\ k = m + (k - m))
  BY <1>0
<1>6. ToSet(e) = ToSet(a) \cup ToSet(b)
  <2>1. ToSet(e) \subseteq ToSet(a) \cup ToSet(b)
    BY <1>0, <1>2, <1>3, <1>4, <1>5, ZenonT(60) DEF ToSet
  <2>2. ToSet(a) \subseteq ToSet(e) /\ ToSet(b) \subseteq ToSet(e)
    BY <1>0, <1>2, <1>3, <1>4 DEF ToSet
  <2>3. QED BY <2>1, <2>2
<1>7. QED BY <1>1, <1>3, <1>4, <1>6 DEF e, m, n

(* The values of a part of a sequence.                                     *)
LEMMA SubSeqValues ==
    ASSUME NEW s \in Seq(Nat), NEW i \in 1 .. Len(s) + 1, NEW j \in i - 1 .. Len(s)
    PROVE  /\ SubSeq(s, i, j) \in Seq(Nat) /\ Len(SubSeq(s, i, j)) = j - i + 1
           /\ \A k \in 1 .. j - i + 1 : SubSeq(s, i, j)[k] = s[i + k - 1]
           /\ ToSet(SubSeq(s, i, j)) = {s[k] : k \in i .. j}
<1> DEFINE e == SubSeq(s, i, j)
           n == Len(s)
<1>0. n \in Nat /\ i \in Nat /\ j \in Nat /\ i >= 1 /\ i <= j + 1 /\ j <= n
  BY LenProperties
<1>1. \A k \in i .. j : s[k] \in Nat
  <2>1. \A k \in i .. j : k \in 1 .. Len(s)
    BY <1>0
  <2>2. QED BY <2>1, ElementOfSeq
<1>2. /\ e \in Seq(Nat) /\ Len(e) = IF i <= j THEN j - i + 1 ELSE 0
      /\ \A k \in 1 .. j - i + 1 : e[k] = s[i + k - 1]
  BY <1>0, <1>1, SubSeqProperties
<1> HIDE DEF e
<1>3. Len(e) = j - i + 1
  BY <1>0, <1>2
<1>4. DOMAIN e = 1 .. j - i + 1
  BY <1>2, <1>3, LenProperties
<1>5. \A k \in i .. j : k - i + 1 \in 1 .. j - i + 1 /\ i + (k - i + 1) - 1 = k
  BY <1>0
<1>6. \A k \in 1 .. j - i + 1 : i + k - 1 \in i .. j
  BY <1>0
<1>7. ToSet(e) = {s[k] : k \in i .. j}
  <2>1. \A k \in i .. j : s[k] \in ToSet(e)
    <3>1. SUFFICES ASSUME NEW k \in i .. j PROVE s[k] \in ToSet(e)
      OBVIOUS
    <3>2. e[k - i + 1] = s[k]
      BY <1>2, <1>5
    <3>3. QED BY <1>4, <1>5, <3>2 DEF ToSet
  <2>2. \A k \in DOMAIN e : e[k] \in {s[x] : x \in i .. j}
    BY <1>2, <1>4, <1>6
  <2>3. QED BY <2>1, <2>2 DEF ToSet
<1>8. QED BY <1>2, <1>3, <1>7 DEF e

(* The values of a sequence of one.                                        *)
LEMMA SingleValue ==
    ASSUME NEW x \in Nat
    PROVE  <<x>> \in Seq(Nat) /\ Len(<<x>>) = 1 /\ ToSet(<<x>>) = {x}
<1>1. <<x>> \in Seq(Nat) /\ Len(<<x>>) = 1 /\ DOMAIN <<x>> = {1} /\ <<x>>[1] = x
  OBVIOUS
<1>2. QED BY <1>1 DEF ToSet

(* The values of a sequence that loses one.                                *)
LEMMA WithoutAtValues ==
    ASSUME NEW s \in Seq(Nat), NEW i \in 1 .. Len(s)
    PROVE  /\ WithoutAt(s, i) \in Seq(Nat) /\ Len(WithoutAt(s, i)) = Len(s) - 1
           /\ ToSet(WithoutAt(s, i)) = {s[k] : k \in (1 .. Len(s)) \ {i}}
           /\ \A k \in 1 .. i - 1 : WithoutAt(s, i)[k] = s[k]
<1> DEFINE a == SubSeq(s, 1, i - 1)
           b == SubSeq(s, i + 1, Len(s))
<1>0. Len(s) \in Nat /\ i \in Nat /\ i <= Len(s) /\ i >= 1
  BY LenProperties
<1>1. /\ a \in Seq(Nat) /\ Len(a) = i - 1 /\ ToSet(a) = {s[k] : k \in 1 .. i - 1}
      /\ \A k \in 1 .. i - 1 : a[k] = s[k]
  <2>1. 1 \in 1 .. Len(s) + 1 /\ i - 1 \in 1 - 1 .. Len(s) /\ (i - 1) - 1 + 1 = i - 1
    BY <1>0
  <2>2. \A k \in 1 .. i - 1 : 1 + k - 1 = k
    BY <1>0
  <2>3. /\ a \in Seq(Nat) /\ Len(a) = (i - 1) - 1 + 1
        /\ ToSet(a) = {s[k] : k \in 1 .. i - 1}
        /\ \A k \in 1 .. (i - 1) - 1 + 1 : a[k] = s[1 + k - 1]
    BY <2>1, SubSeqValues
  <2> HIDE DEF a
  <2>4. QED BY <2>1, <2>2, <2>3
<1>2. /\ b \in Seq(Nat) /\ Len(b) = Len(s) - i /\ ToSet(b) = {s[k] : k \in i + 1 .. Len(s)}
  <2>1. i + 1 \in 1 .. Len(s) + 1 /\ Len(s) \in (i + 1) - 1 .. Len(s)
        /\ Len(s) - (i + 1) + 1 = Len(s) - i
    BY <1>0
  <2>2. QED BY <2>1, SubSeqValues
<1>3. WithoutAt(s, i) = a \o b
  BY DEF WithoutAt
<1> HIDE DEF a, b
<1>4. /\ a \o b \in Seq(Nat) /\ Len(a \o b) = Len(a) + Len(b)
      /\ ToSet(a \o b) = ToSet(a) \cup ToSet(b)
      /\ \A k \in 1 .. Len(a) : (a \o b)[k] = a[k]
  BY <1>1, <1>2, ConcatValues
<1>5. (1 .. Len(s)) \ {i} = (1 .. i - 1) \cup (i + 1 .. Len(s))
  BY <1>0
<1>6. ToSet(a \o b) = {s[k] : k \in (1 .. Len(s)) \ {i}}
  BY <1>1, <1>2, <1>4, <1>5
<1>7. Len(a \o b) = Len(s) - 1
  BY <1>0, <1>1, <1>2, <1>4
<1>8. \A k \in 1 .. i - 1 : (a \o b)[k] = s[k]
  BY <1>1, <1>4
<1>9. QED BY <1>3, <1>4, <1>6, <1>7, <1>8

(* A lineup as a sequence, and a sequence of its length as a lineup.       *)
LEMMA LineupSeq ==
    ASSUME NEW l, IsLineup(l)
    PROVE  l \in Seq(Nat) /\ Len(l) = Size /\ ToSet(l) = HeadOf(l, Size)
<1>1. Size \in Nat /\ l \in [1 .. Size -> Nat]
  BY RosterAssumption DEF IsLineup, Roles
<1>2. QED BY <1>1 DEF ToSet, HeadOf

(* A head and a tail that fill the roles together are a lineup.            *)
LEMMA HeadAndTail ==
    ASSUME NEW h \in Seq(Nat), NEW t \in Seq(Nat), Len(h) + Len(t) = Size
    PROVE  /\ IsLineup(h \o t) /\ HeadOf(h \o t, Len(h)) = ToSet(h)
           /\ HeadOf(h \o t, Size) = ToSet(h) \cup ToSet(t)
           /\ \A r \in 1 .. Len(h) : (h \o t)[r] = h[r]
           /\ \A r \in Len(h) + 1 .. Size : (h \o t)[r] = t[r - Len(h)]
<1> DEFINE m == h \o t
<1>0. Len(h) \in Nat /\ Len(t) \in Nat /\ DOMAIN h = 1 .. Len(h)
  BY LenProperties
<1>1. /\ m \in Seq(Nat) /\ Len(m) = Size /\ ToSet(m) = ToSet(h) \cup ToSet(t)
      /\ \A i \in 1 .. Len(h) : m[i] = h[i]
      /\ \A i \in 1 .. Len(t) : m[Len(h) + i] = t[i]
  BY ConcatValues
<1> HIDE DEF m
<1>2. m \in [1 .. Size -> Nat]
  BY <1>1, LenProperties
<1>3. HeadOf(m, Len(h)) = ToSet(h)
  BY <1>0, <1>1 DEF HeadOf, ToSet
<1>4. HeadOf(m, Size) = ToSet(h) \cup ToSet(t)
  BY <1>1, <1>2 DEF HeadOf, ToSet
<1>5. \A r \in Len(h) + 1 .. Size : m[r] = t[r - Len(h)]
  <2>1. \A r \in Len(h) + 1 .. Size : r - Len(h) \in 1 .. Len(t) /\ Len(h) + (r - Len(h)) = r
    BY <1>0
  <2>2. QED BY <1>1, <2>1
<1>6. QED BY <1>1, <1>2, <1>3, <1>4, <1>5 DEF m, IsLineup, Roles

(* The first n roles are given anew.                                       *)
LEMMA NewHead ==
    ASSUME NEW l, IsLineup(l), NEW h \in Seq(Nat), Len(h) <= Size
    PROVE  LET m == h \o SubSeq(l, Len(h) + 1, Size)
           IN  /\ IsLineup(m) /\ HeadOf(m, Len(h)) = ToSet(h)
               /\ \A r \in 1 .. Len(h) : m[r] = h[r]
               /\ \A r \in Len(h) + 1 .. Size : m[r] = l[r]
<1> DEFINE n == Len(h)
           t == SubSeq(l, n + 1, Size)
           m == h \o t
<1>0. n \in Nat /\ Size \in Nat /\ n <= Size /\ l \in Seq(Nat) /\ Len(l) = Size
  BY RosterAssumption, LenProperties, LineupSeq
<1>1. /\ t \in Seq(Nat) /\ Len(t) = Size - n
      /\ \A k \in 1 .. Size - n : t[k] = l[(n + 1) + k - 1]
  <2>1. n + 1 \in 1 .. Len(l) + 1 /\ Size \in (n + 1) - 1 .. Len(l) /\ Size - (n + 1) + 1 = Size - n
    BY <1>0
  <2> HIDE DEF n
  <2>2. QED BY <1>0, <2>1, SubSeqValues
<1> HIDE DEF t
<1>2. Len(h) + Len(t) = Size
  BY <1>0, <1>1
<1>3. /\ IsLineup(m) /\ HeadOf(m, n) = ToSet(h)
      /\ \A r \in 1 .. n : m[r] = h[r]
      /\ \A r \in n + 1 .. Size : m[r] = t[r - n]
  BY <1>1, <1>2, HeadAndTail
<1>4. \A r \in n + 1 .. Size : t[r - n] = l[r]
  <2>1. \A r \in n + 1 .. Size : r - n \in 1 .. Size - n /\ (n + 1) + (r - n) - 1 = r
    BY <1>0
  <2>2. QED BY <1>1, <2>1
<1>5. QED BY <1>3, <1>4 DEF t

(* With the slots 1 .. n in use: a lineup whose head is a permutation of   *)
(* them and whose tail is one of the others.                               *)
Orders(l, n) == IsLineup(l) /\ HeadOf(l, n) = 1 .. n /\ HeadOf(l, Size) = 1 .. Size

(* What names 1 .. n in n places names each of them once.                  *)
LEMMA OntoIsOnce ==
    ASSUME NEW n \in Nat, NEW f, {f[r] : r \in 1 .. n} = 1 .. n
    PROVE  \A i, j \in 1 .. n : f[i] = f[j] => i = j
<1> DEFINE g == [r \in 1 .. n |-> f[r]]
<1>1. g \in Surjection(1 .. n, 1 .. n)
  BY DEF Surjection
<1>2. IsFiniteSet(1 .. n)
  BY FS_Interval
<1> HIDE DEF g
<1>3. g \in Injection(1 .. n, 1 .. n)
  BY <1>1, <1>2, FS_SurjSameCardinalityImpliesInj
<1>4. \A i, j \in 1 .. n : g[i] = g[j] => i = j
  BY <1>3 DEF Injection, IsInjective
<1>5. QED BY <1>4 DEF g

(* The head and the tail of an ordered lineup share no slot.               *)
LEMMA OrderApart ==
    ASSUME NEW n \in 0 .. Size, NEW l, Orders(l, n)
    PROVE  /\ \A i, j \in Roles : l[i] = l[j] => i = j
           /\ \A r \in 1 .. n : l[r] \in 1 .. n
           /\ \A r \in n + 1 .. Size : l[r] \in n + 1 .. Size
           /\ {l[r] : r \in n + 1 .. Size} = n + 1 .. Size
<1>0. Size \in Nat /\ n \in Nat /\ n <= Size
  BY RosterAssumption
<1>1. \A i, j \in 1 .. Size : l[i] = l[j] => i = j
  BY <1>0, OntoIsOnce DEF Orders, HeadOf
<1>2. \A r \in 1 .. n : l[r] \in 1 .. n
  BY DEF Orders, HeadOf
<1>3. \A s \in 1 .. n : \E r \in 1 .. n : l[r] = s
  BY DEF Orders, HeadOf
<1>4. \A s \in 1 .. Size : \E r \in 1 .. Size : l[r] = s
  BY DEF Orders, HeadOf
<1>5. \A r \in 1 .. Size : l[r] \in 1 .. Size
  BY DEF Orders, HeadOf
<1>6. \A r \in n + 1 .. Size : r \in 1 .. Size /\ r \notin 1 .. n
  BY <1>0
<1>7. \A r \in 1 .. n : r \in 1 .. Size
  BY <1>0
<1>8. \A r \in n + 1 .. Size : l[r] \notin 1 .. n
  BY <1>1, <1>3, <1>6, <1>7
<1>9. \A r \in n + 1 .. Size : l[r] \in n + 1 .. Size
  <2>1. SUFFICES ASSUME NEW r \in n + 1 .. Size PROVE l[r] \in n + 1 .. Size
    OBVIOUS
  <2>2. l[r] \in 1 .. Size /\ l[r] \notin 1 .. n
    BY <1>5, <1>6, <1>8
  <2>3. QED BY <1>0, <2>2
<1>10. ASSUME NEW s \in n + 1 .. Size PROVE \E r \in n + 1 .. Size : l[r] = s
  <2>1. s \in 1 .. Size /\ s \notin 1 .. n
    BY <1>0
  <2>2. PICK r \in 1 .. Size : l[r] = s
    BY <1>4, <2>1
  <2>3. r \notin 1 .. n
    BY <1>2, <2>1, <2>2
  <2>4. r \in n + 1 .. Size
    BY <1>0, <2>3
  <2>5. QED BY <2>2, <2>4
<1>11. QED BY <1>1, <1>2, <1>9, <1>10 DEF Roles

(* A head and a tail that are permutations make an ordered lineup.         *)
LEMMA OrderJoined ==
    ASSUME NEW n \in 0 .. Size, NEW l, IsLineup(l), HeadOf(l, n) = 1 .. n,
           {l[r] : r \in n + 1 .. Size} = n + 1 .. Size
    PROVE  Orders(l, n)
<1>0. Size \in Nat /\ n \in Nat /\ n <= Size
  BY RosterAssumption
<1>1. \A k \in 1 .. Size : k \in 1 .. n \/ k \in n + 1 .. Size
  BY <1>0
<1>2. \A k \in 1 .. n : k \in 1 .. Size
  BY <1>0
<1>3. \A k \in n + 1 .. Size : k \in 1 .. Size
  BY <1>0
<1>4. \A r \in 1 .. Size : l[r] \in 1 .. Size
  BY <1>1, <1>2, <1>3 DEF HeadOf
<1>5. ASSUME NEW s \in 1 .. Size PROVE \E r \in 1 .. Size : l[r] = s
  <2>1. CASE s \in 1 .. n
    BY <1>2, <2>1 DEF HeadOf
  <2>2. CASE s \in n + 1 .. Size
    BY <1>3, <2>2
  <2>3. QED BY <1>1, <2>1, <2>2
<1>6. QED BY <1>4, <1>5 DEF Orders, HeadOf

(* Exchanging roles in use keeps a lineup ordered.                         *)
LEMMA OrderPermuted ==
    ASSUME NEW n \in 0 .. Size, NEW l, Orders(l, n), NEW m, Permutes(m, l, n)
    PROVE  Orders(m, n)
<1>1. {m[r] : r \in n + 1 .. Size} = {l[r] : r \in n + 1 .. Size}
  BY DEF Permutes
<1>2. {m[r] : r \in n + 1 .. Size} = n + 1 .. Size
  BY <1>1, OrderApart
<1>3. QED BY <1>2, OrderJoined DEF Permutes, Orders

(* What the operations make of a lineup in order.                          *)
LEMMA StandardOrders ==
    ASSUME NEW c, RosterSound(c), IsLineup(c.lineup)
    PROVE  Standard(c) <=> Orders(c.lineup, Count(c))
<1>1. Active(c.ids) = 1 .. Count(c)
  BY DEF RosterSound
<1>2. QED BY <1>1 DEF Standard, Orders, HeadOf, Roles, Slots

(* The tail of the lineup loses the slot that is now in use.               *)
LEMMA TailShortened ==
    ASSUME NEW n \in 0 .. Size - 1, NEW l, IsLineup(l)
    PROVE  LET t == TailWithout(SubSeq(l, n + 1, Size), n + 1)
           IN  /\ t \in Seq(Nat) /\ Len(t) = Size - (n + 1)
               /\ Orders(l, n) => ToSet(t) = n + 2 .. Size
<1> DEFINE s == SubSeq(l, n + 1, Size)
           at == {i \in DOMAIN s : s[i] = n + 1}
           i == IF at = {} THEN 1 ELSE CHOOSE j \in at : \A k \in at : j <= k
           t == WithoutAt(s, i)
<1>0. n \in Nat /\ Size \in Nat /\ n < Size /\ l \in Seq(Nat) /\ Len(l) = Size
  BY RosterAssumption, LineupSeq
<1>1. /\ s \in Seq(Nat) /\ Len(s) = Size - n
      /\ \A k \in 1 .. Size - n : s[k] = l[n + k]
      /\ ToSet(s) = {l[k] : k \in n + 1 .. Size}
  <2>1. n + 1 \in 1 .. Len(l) + 1 /\ Size \in (n + 1) - 1 .. Len(l) /\ Size - (n + 1) + 1 = Size - n
    BY <1>0
  <2>2. \A k \in 1 .. Size - n : (n + 1) + k - 1 = n + k
    BY <1>0
  <2>3. QED BY <1>0, <2>1, <2>2, SubSeqValues
<1> HIDE DEF s
<1>2. DOMAIN s = 1 .. Size - n
  BY <1>1, LenProperties
<1>3. i \in 1 .. Size - n /\ (at # {} => i \in at)
  <2>1. CASE at = {}
    BY <1>0, <2>1
  <2>2. CASE at # {}
    <3>1. at \subseteq Nat
      BY <1>2
    <3>2. \E j \in at : \A k \in at : j <= k
      <4> HIDE DEF at
      <4>1. QED BY <2>2, <3>1, Renumbering!LeastNatural
    <3>3. (CHOOSE j \in at : \A k \in at : j <= k) \in at
      BY <3>2
    <3>4. i \in at
      BY <2>2, <3>3
    <3>5. QED BY <1>2, <3>4
  <2>3. QED BY <2>1, <2>2
<1> HIDE DEF i
<1>4. /\ t \in Seq(Nat) /\ Len(t) = Size - n - 1
      /\ ToSet(t) = {s[k] : k \in (1 .. Size - n) \ {i}}
  BY <1>1, <1>3, WithoutAtValues
<1> HIDE DEF t
<1>5. ASSUME Orders(l, n) PROVE ToSet(t) = n + 2 .. Size
  <2>0. n \in 0 .. Size
    BY <1>0
  <2>1. /\ \A a, b \in Roles : l[a] = l[b] => a = b
        /\ {l[r] : r \in n + 1 .. Size} = n + 1 .. Size
    BY <1>5, <2>0, OrderApart
  <2>2. \A k \in 1 .. Size - n : n + k \in Roles /\ n + k \in n + 1 .. Size
    BY <1>0 DEF Roles
  <2>3. \A a, b \in 1 .. Size - n : s[a] = s[b] => a = b
    <3>1. SUFFICES ASSUME NEW a \in 1 .. Size - n, NEW b \in 1 .. Size - n, s[a] = s[b]
                   PROVE  a = b
      OBVIOUS
    <3>2. n + a = n + b
      BY <1>1, <2>1, <2>2, <3>1
    <3>3. QED BY <1>0, <3>2
  <2>4. ToSet(s) = n + 1 .. Size
    BY <1>1, <2>1
  <2>5. at # {}
    <3>1. n + 1 \in n + 1 .. Size
      BY <1>0
    <3>2. QED BY <2>4, <3>1 DEF ToSet
  <2>6. s[i] = n + 1
    BY <1>3, <2>5
  <2>7. \A x : x \in ToSet(t) <=> x \in ToSet(s) /\ x # n + 1
    <3>1. ToSet(s) = {s[k] : k \in 1 .. Size - n}
      BY <1>2 DEF ToSet
    <3>2. QED BY <1>3, <1>4, <2>3, <2>6, <3>1
  <2>8. \A x : x \in n + 2 .. Size <=> x \in n + 1 .. Size /\ x # n + 1
    BY <1>0
  <2>9. QED BY <2>4, <2>7, <2>8
<1>6. TailWithout(SubSeq(l, n + 1, Size), n + 1) = t
  BY DEF TailWithout, t, i, s
<1>7. Size - n - 1 = Size - (n + 1)
  BY <1>0
<1>8. QED BY <1>4, <1>5, <1>6, <1>7

(* insert_after_addition: slot n + 1 has just come into use.               *)
LEMMA ExtendedOrders ==
    ASSUME NEW c, HasRoster(c), IsLineup(c.lineup), NEW n \in 0 .. Size - 1,
           Active(c.ids) = 1 .. n + 1, NEW over
    PROVE  LET d == LineupExtended(c, n + 1, over)
           IN  /\ IsLineup(d.lineup)
               /\ Orders(c.lineup, n) => Orders(d.lineup, n + 1) /\ KeeperInGoal(d, over)
               /\ Orders(c.lineup, n) => \A r \in 2 .. n :
                     r <= Starters /\ PosAt(c, c.lineup[r], over) # Gk
                     => d.lineup[r] = c.lineup[r]
<1> DEFINE l == c.lineup
           slot == n + 1
           k == Least(n, Starters)
           prefix == SubSeq(l, 1, n)
           rest == TailWithout(SubSeq(l, n + 1, Size), slot)
           front == SubSeq(prefix, 1, k) \o <<slot>>
           back == SubSeq(prefix, k + 1, n)
           head == front \o back
           m == head \o rest
           e == [c EXCEPT !.lineup = m]
           d == LineupExtended(c, slot, over)
<1>0. /\ n \in Nat /\ Size \in Nat /\ n < Size /\ l \in Seq(Nat) /\ Len(l) = Size
      /\ k \in 0 .. n /\ slot \in Nat
  BY RosterAssumption, LineupSeq DEF Least
<1>1. Active(c.ids) \ {slot} = 1 .. n
  BY <1>0
<1>2. Cardinality(1 .. n) = n
  BY <1>0, FS_Interval
<1>3. /\ prefix \in Seq(Nat) /\ Len(prefix) = n
      /\ ToSet(prefix) = {l[r] : r \in 1 .. n}
      /\ \A r \in 1 .. n : prefix[r] = l[r]
  <2>1. 1 \in 1 .. Len(l) + 1 /\ n \in 1 - 1 .. Len(l) /\ n - 1 + 1 = n
    BY <1>0
  <2>2. \A r \in 1 .. n : 1 + r - 1 = r
    BY <1>0
  <2>3. /\ prefix \in Seq(Nat) /\ Len(prefix) = n - 1 + 1
        /\ \A r \in 1 .. n - 1 + 1 : prefix[r] = l[1 + r - 1]
        /\ ToSet(prefix) = {l[r] : r \in 1 .. n}
    BY <1>0, <2>1, SubSeqValues
  <2> HIDE DEF prefix
  <2>4. QED BY <2>1, <2>2, <2>3
<1>4. rest \in Seq(Nat) /\ Len(rest) = Size - (n + 1)
  BY <1>0, TailShortened
<1>5. d = IF ToSet(prefix) # 1 .. n THEN c ELSE KeeperRepaired(e, over, TRUE)
  <2>1. LineupExtended(c, slot, over) =
           LET n2 == Cardinality(Active(c.ids) \ {slot})
               k2 == Least(n2, Starters)
               prefix2 == SubSeq(l, 1, n2)
               rest2 == TailWithout(SubSeq(l, n2 + 1, Size), slot)
           IN  IF ToSet(prefix2) # Active(c.ids) \ {slot} THEN c
               ELSE KeeperRepaired([c EXCEPT !.lineup = SubSeq(prefix2, 1, k2) \o <<slot>>
                                    \o SubSeq(prefix2, k2 + 1, n2) \o rest2], over, TRUE)
    BY DEF LineupExtended
  <2>2. QED BY <1>1, <1>2, <2>1
<1> HIDE DEF prefix, rest
<1>6. /\ head \in Seq(Nat) /\ Len(head) = n + 1 /\ ToSet(head) = ToSet(prefix) \cup {slot}
      /\ \A r \in 1 .. k : head[r] = l[r]
  <2>1. /\ SubSeq(prefix, 1, k) \in Seq(Nat) /\ Len(SubSeq(prefix, 1, k)) = k
        /\ ToSet(SubSeq(prefix, 1, k)) = {prefix[r] : r \in 1 .. k}
        /\ \A r \in 1 .. k : SubSeq(prefix, 1, k)[r] = prefix[r]
    <3>1. 1 \in 1 .. Len(prefix) + 1 /\ k \in 1 - 1 .. Len(prefix) /\ k - 1 + 1 = k
      BY <1>0, <1>3
    <3>2. \A r \in 1 .. k : 1 + r - 1 = r
      BY <1>0
    <3> DEFINE f == SubSeq(prefix, 1, k)
    <3> HIDE DEF k
    <3>3. /\ f \in Seq(Nat) /\ Len(f) = k - 1 + 1
          /\ ToSet(f) = {prefix[r] : r \in 1 .. k}
          /\ \A r \in 1 .. k - 1 + 1 : f[r] = prefix[1 + r - 1]
      BY <1>3, <3>1, SubSeqValues
    <3> HIDE DEF f
    <3>4. QED BY <3>1, <3>2, <3>3 DEF f
  <2>2. /\ back \in Seq(Nat) /\ Len(back) = n - k
        /\ ToSet(back) = {prefix[r] : r \in k + 1 .. n}
    <3>1. k + 1 \in 1 .. Len(prefix) + 1 /\ n \in (k + 1) - 1 .. Len(prefix) /\ n - (k + 1) + 1 = n - k
      BY <1>0, <1>3
    <3> HIDE DEF k
    <3>2. QED BY <1>3, <3>1, SubSeqValues
  <2>3. <<slot>> \in Seq(Nat) /\ Len(<<slot>>) = 1 /\ ToSet(<<slot>>) = {slot}
    <3> HIDE DEF slot
    <3>1. QED BY <1>0, SingleValue
  <2> HIDE DEF k, back, slot
  <2>4. /\ front \in Seq(Nat) /\ Len(front) = k + 1
        /\ ToSet(front) = {prefix[r] : r \in 1 .. k} \cup {slot}
        /\ \A r \in 1 .. k : front[r] = prefix[r]
    <3> DEFINE first == SubSeq(prefix, 1, k)
               one == <<slot>>
    <3>1. front = first \o one
      OBVIOUS
    <3>2. /\ first \in Seq(Nat) /\ Len(first) = k /\ ToSet(first) = {prefix[r] : r \in 1 .. k}
          /\ \A r \in 1 .. k : first[r] = prefix[r]
          /\ one \in Seq(Nat) /\ Len(one) = 1 /\ ToSet(one) = {slot}
      BY <2>1, <2>3
    <3> HIDE DEF first, one, front
    <3>3. /\ first \o one \in Seq(Nat) /\ Len(first \o one) = Len(first) + Len(one)
          /\ ToSet(first \o one) = ToSet(first) \cup ToSet(one)
          /\ \A r \in 1 .. Len(first) : (first \o one)[r] = first[r]
      BY <3>2, ConcatValues
    <3>4. QED BY <3>1, <3>2, <3>3
  <2> HIDE DEF front
  <2>5. /\ head \in Seq(Nat) /\ Len(head) = (k + 1) + (n - k)
        /\ ToSet(head) = {prefix[r] : r \in 1 .. k} \cup {slot} \cup {prefix[r] : r \in k + 1 .. n}
        /\ \A r \in 1 .. Len(front) : head[r] = front[r]
    BY <2>2, <2>4, ConcatValues, ZenonT(60)
  <2>6. (k + 1) + (n - k) = n + 1
    BY <1>0
  <2>7. ToSet(prefix) = {prefix[r] : r \in 1 .. n}
    BY <1>3
  <2>8. \A r : r \in 1 .. n <=> r \in 1 .. k \/ r \in k + 1 .. n
    BY <1>0
  <2>9. \A r \in 1 .. k : r \in 1 .. k + 1 /\ r \in 1 .. n
    BY <1>0 DEF k
  <2>10. \A r \in 1 .. k : head[r] = l[r]
    BY <1>3, <2>4, <2>5, <2>9
  <2>11. QED BY <2>5, <2>6, <2>7, <2>8, <2>10
<1> HIDE DEF head
<1>7. /\ IsLineup(m) /\ HeadOf(m, n + 1) = ToSet(prefix) \cup {slot}
      /\ \A r \in n + 2 .. Size : m[r] = rest[r - (n + 1)]
      /\ \A r \in 1 .. n + 1 : m[r] = head[r]
  <2>1. Len(head) + Len(rest) = Size /\ (n + 1) + 1 = n + 2 /\ Len(head) = n + 1
    BY <1>0, <1>4, <1>6
  <2>2. /\ IsLineup(m) /\ HeadOf(m, Len(head)) = ToSet(head)
        /\ \A r \in Len(head) + 1 .. Size : m[r] = rest[r - Len(head)]
        /\ \A r \in 1 .. Len(head) : m[r] = head[r]
    BY <1>4, <1>6, <2>1, HeadAndTail
  <2> HIDE DEF m
  <2>3. QED BY <1>6, <2>1, <2>2
<1> HIDE DEF m
<1>8. e.lineup = m /\ e.ids = c.ids /\ HasRoster(e) /\ Count(e) = n + 1 /\ Active(e.ids) = 1 .. n + 1
  <2>1. e.lineup = m /\ e.ids = c.ids /\ HasRoster(e)
    BY DEF HasRoster
  <2>2. n + 1 \in 0 .. Size
    BY <1>0
  <2> HIDE DEF e
  <2>3. Active(e.ids) = 1 .. n + 1
    BY <2>1
  <2>4. Count(e) = n + 1
    BY <2>2, <2>3, CountOf
  <2>5. QED BY <2>1, <2>3, <2>4
<1> HIDE DEF e
<1>9. /\ Permutes(KeeperRepaired(e, over, TRUE).lineup, m, n + 1)
      /\ HeadOf(m, n + 1) = 1 .. n + 1 => KeeperInGoal(KeeperRepaired(e, over, TRUE), over)
      /\ \A r \in 2 .. Least(Starters, n + 1) : PosAt(e, m[r], over) # Gk
         => KeeperRepaired(e, over, TRUE).lineup[r] = m[r]
  <2>1. n + 1 \in 0 .. Size
    BY <1>0
  <2>2. HasRoster(e) /\ IsLineup(e.lineup) /\ Count(e) \in 0 .. Size
    BY <1>7, <1>8, <2>1
  <2>3. /\ Permutes(KeeperRepaired(e, over, TRUE).lineup, e.lineup, Count(e))
        /\ HeadOf(e.lineup, Count(e)) = Active(e.ids) => KeeperInGoal(KeeperRepaired(e, over, TRUE), over)
        /\ \A r \in 2 .. StarterCount(e) : PosAt(e, e.lineup[r], over) # Gk
           => KeeperRepaired(e, over, TRUE).lineup[r] = e.lineup[r]
    <3>1. \A preserve :
             /\ Permutes(KeeperRepaired(e, over, preserve).lineup, e.lineup, Count(e))
             /\ HeadOf(e.lineup, Count(e)) = Active(e.ids)
                => KeeperInGoal(KeeperRepaired(e, over, preserve), over)
             /\ \A r \in 2 .. StarterCount(e) : PosAt(e, e.lineup[r], over) # Gk
                => KeeperRepaired(e, over, preserve).lineup[r] = e.lineup[r]
      BY <2>2, KeeperPermutes
    <3>2. QED BY <3>1
  <2>4. QED BY <1>8, <2>3 DEF StarterCount
<1>10. IsLineup(d.lineup)
  <2> HIDE DEF d
  <2>1. QED BY <1>5, <1>9 DEF Permutes
<1>11. ASSUME Orders(l, n) PROVE Orders(d.lineup, n + 1) /\ KeeperInGoal(d, over)
  <2>1. ToSet(prefix) = 1 .. n
    BY <1>3, <1>11 DEF Orders, HeadOf
  <2>2. d = KeeperRepaired(e, over, TRUE)
    BY <1>5, <2>1
  <2>3. HeadOf(m, n + 1) = 1 .. n + 1
    <3>1. (1 .. n) \cup {n + 1} = 1 .. n + 1
      BY <1>0
    <3>2. QED BY <1>7, <2>1, <3>1
  <2>4. {m[r] : r \in n + 2 .. Size} = n + 2 .. Size
    <3>1. ToSet(rest) = n + 2 .. Size
      BY <1>0, <1>11, TailShortened DEF rest
    <3>2. ToSet(rest) = {rest[i] : i \in 1 .. Size - (n + 1)}
      <4>1. DOMAIN rest = 1 .. Size - (n + 1)
        BY <1>4, LenProperties
      <4>2. QED BY <4>1 DEF ToSet
    <3>3. \A r \in n + 2 .. Size : r - (n + 1) \in 1 .. Size - (n + 1)
      BY <1>0
    <3>4. \A i \in 1 .. Size - (n + 1) : i + (n + 1) \in n + 2 .. Size /\ (i + (n + 1)) - (n + 1) = i
      BY <1>0
    <3>5. \A i \in 1 .. Size - (n + 1) : m[i + (n + 1)] = rest[i]
      BY <1>7, <3>4
    <3>6. QED BY <1>7, <3>1, <3>2, <3>3, <3>4, <3>5
  <2>5. Orders(m, n + 1)
    <3>1. n + 1 \in 0 .. Size /\ (n + 1) + 1 = n + 2
      BY <1>0
    <3>2. QED BY <1>7, <2>3, <2>4, <3>1, OrderJoined
  <2>6. Orders(KeeperRepaired(e, over, TRUE).lineup, n + 1)
    <3>1. n + 1 \in 0 .. Size
      BY <1>0
    <3>2. QED BY <1>9, <2>5, <3>1, OrderPermuted
  <2> HIDE DEF d
  <2>7. QED BY <1>9, <2>2, <2>3, <2>6
<1>12. ASSUME Orders(l, n), NEW r \in 2 .. n, r <= Starters, PosAt(c, l[r], over) # Gk
       PROVE  d.lineup[r] = l[r]
  <2>1. d = KeeperRepaired(e, over, TRUE)
    <3>1. ToSet(prefix) = 1 .. n
      BY <1>3, <1>12 DEF Orders, HeadOf
    <3>2. QED BY <1>5, <3>1
  <2>2. r \in 1 .. k /\ r \in 1 .. n + 1 /\ r \in 2 .. Least(Starters, n + 1)
    BY <1>0, <1>12, RosterAssumption DEF Least
  <2>3. m[r] = l[r]
    BY <1>6, <1>7, <2>2
  <2>4. PosAt(e, m[r], over) # Gk
    BY <1>8, <1>12, <2>3 DEF PosAt
  <2> HIDE DEF d
  <2>5. QED BY <1>9, <2>1, <2>2, <2>3, <2>4
<1>13. QED BY <1>10, <1>11, <1>12

(* A promotion picks a player of the bench, or nobody.                     *)
LEMMA PromotedFound ==
    ASSUME NEW c, HasRoster(c), NEW S \in SUBSET Active(c.ids), IsFiniteSet(S),
           NEW pool \in [S -> Nat], \A s, t \in S : pool[s] = pool[t] => s = t,
           NEW role, NEW removedPos, NEW native
    PROVE  Promoted(c, pool, role, removedPos, native) \in S \cup {NoSlot}
<1> DEFINE target == IF role = 1 \/ c.form[role] # Gk THEN c.form[role] ELSE removedPos
           wantsGk == target = Gk
           tier(s) == LET code == PosAt(c, s, NoOver)
                          zero == s = 1 /\ native
                      IN  IF wantsGk
                          THEN CASE code = Gk -> 0
                                 [] code = Unknown /\ zero -> 1
                                 [] code = Unknown /\ ~zero -> 2
                                 [] OTHER -> -1
                          ELSE CASE code = Gk -> -1
                                 [] code # Gk /\ code = target /\ target # Unknown -> 0
                                 [] code # target /\ code # Gk /\ Line(target) # "none"
                                                  /\ Line(code) = Line(target) -> 1
                                 [] code = Unknown /\ zero -> 3
                                 [] OTHER -> 2
           able == {s \in S : tier(s) # -1}
           rated == AllRated(c, S) /\ target \in Codes
           rating(s) == IF rated THEN Rating[c.ids[s]][target] ELSE 0
           used(s) == IF Usage[c.ids[s]] = -1 THEN 0 ELSE Usage[c.ids[s]]
           key(s) == <<tier(s), -rating(s), -used(s), pool[s]>>
           first == CHOOSE x \in able : \A y \in able \ {x} : LexLess(key(x), key(y))
<1>1. Promoted(c, pool, role, removedPos, native) = IF able = {} THEN NoSlot ELSE first
  <2>1. DOMAIN pool = S
    OBVIOUS
  <2>2. QED BY <2>1 DEF Promoted, FirstBy
<1>2. able \in SUBSET S /\ IsFiniteSet(able)
  <2>1. able \in SUBSET S
    OBVIOUS
  <2> HIDE DEF able
  <2>2. QED BY <2>1, FS_Subset
<1>3. ASSUME NEW s \in S PROVE tier(s) \in Int /\ rating(s) \in Int /\ used(s) \in Int
  <2>1. c.ids[s] \in Players /\ c.ids[s] # Nobody
    BY DEF HasRoster, Active, Slots
  <2>2. tier(s) \in Int
    <3> DEFINE code == PosAt(c, s, NoOver)
               zero == s = 1 /\ native
    <3>1. CASE wantsGk
      <4>1. tier(s) = CASE code = Gk -> 0
                        [] code = Unknown /\ zero -> 1
                        [] code = Unknown /\ ~zero -> 2
                        [] OTHER -> -1
        BY <3>1
      <4> HIDE DEF tier, code, zero
      <4>2. QED BY <4>1
    <3>2. CASE ~wantsGk
      <4>1. tier(s) = CASE code = Gk -> -1
                        [] code # Gk /\ code = target /\ target # Unknown -> 0
                        [] code # target /\ code # Gk /\ Line(target) # "none"
                                         /\ Line(code) = Line(target) -> 1
                        [] code = Unknown /\ zero -> 3
                        [] OTHER -> 2
        BY <3>2
      <4> HIDE DEF tier, code, zero, target
      <4>2. QED BY <4>1
    <3>3. QED BY <3>1, <3>2
  <2>3. rating(s) \in Int
    <3>1. rated => c.ids[s] \in Players /\ target \in Codes
      BY <2>1
    <3> HIDE DEF target, rated
    <3>2. rated => Rating[c.ids[s]][target] \in Int
      BY <3>1, RosterAssumption
    <3>3. QED BY <3>2
  <2>4. used(s) \in Int
    BY <2>1, RosterAssumption
  <2>5. QED BY <2>2, <2>3, <2>4
<1> HIDE DEF tier, rating, used
<1>4. ASSUME able # {} PROVE first \in able
  <2> DEFINE keys == [s \in able |-> key(s)]
  <2>1. keys \in [able -> [1 .. 4 -> Int]]
    <3>1. SUFFICES ASSUME NEW s \in able PROVE key(s) \in [1 .. 4 -> Int]
      OBVIOUS
    <3>2. -rating(s) \in Int /\ -used(s) \in Int /\ tier(s) \in Int /\ pool[s] \in Int
      BY <1>3
    <3>3. QED BY <3>2
  <2>2. \A x, y \in able : keys[x] = keys[y] => x = y
    <3>1. SUFFICES ASSUME NEW x \in able, NEW y \in able, key(x) = key(y) PROVE x = y
      OBVIOUS
    <3>2. key(x)[4] = pool[x] /\ key(y)[4] = pool[y]
      OBVIOUS
    <3>3. QED BY <3>1, <3>2
  <2>3. \E x \in able : \A y \in able \ {x} : LexLess(keys[x], keys[y])
    <3>1. IsFiniteSet(able) /\ able # {} /\ 4 \in Nat
      BY <1>2, <1>4
    <3> HIDE DEF keys, able
    <3>2. QED BY <2>1, <2>2, <3>1, FirstByKey, ZenonT(60)
  <2> HIDE DEF key
  <2>4. \E x \in able : \A y \in able \ {x} : LexLess(key(x), key(y))
    BY <2>3
  <2> HIDE DEF able
  <2>5. QED BY <2>4
<1>5. QED BY <1>1, <1>2, <1>4

(* The vacated role is filled, or closed up.                               *)
LEMMA BackfilledValues ==
    ASSUME NEW n \in Nat, NEW roles \in [1 .. n -> Nat], NEW role \in 1 .. n, NEW from \in 1 .. n
    PROVE  /\ Backfilled(roles, role, from) \in Seq(Nat)
           /\ Len(Backfilled(roles, role, from)) = n - 1
           /\ ToSet(Backfilled(roles, role, from)) = {roles[r] : r \in (1 .. n) \ {role}}
           /\ \A r \in 1 .. n : r < from /\ r # role
              => Backfilled(roles, role, from)[r] = roles[r]
<1> DEFINE g == [r \in 1 .. n |-> IF r = role THEN roles[from] ELSE roles[r]]
<1>1. g \in Seq(Nat) /\ Len(g) = n
  <2>1. g \in [1 .. n -> Nat]
    OBVIOUS
  <2> HIDE DEF g
  <2>2. QED BY <2>1, LenProperties
<1>2. /\ WithoutAt(g, from) \in Seq(Nat) /\ Len(WithoutAt(g, from)) = n - 1
      /\ ToSet(WithoutAt(g, from)) = {g[k] : k \in (1 .. n) \ {from}}
      /\ \A k \in 1 .. from - 1 : WithoutAt(g, from)[k] = g[k]
  <2> HIDE DEF g
  <2>1. QED BY <1>1, WithoutAtValues
<1>3. {g[k] : k \in (1 .. n) \ {from}} = {roles[r] : r \in (1 .. n) \ {role}}
  <2>1. ASSUME NEW k \in (1 .. n) \ {from} PROVE \E r \in (1 .. n) \ {role} : g[k] = roles[r]
    <3>1. CASE k = role
      BY <3>1
    <3>2. CASE k # role
      BY <3>2
    <3>3. QED BY <3>1, <3>2
  <2>2. ASSUME NEW r \in (1 .. n) \ {role} PROVE \E k \in (1 .. n) \ {from} : g[k] = roles[r]
    <3>1. CASE r = from
      BY <3>1
    <3>2. CASE r # from
      BY <3>2
    <3>3. QED BY <3>1, <3>2
  <2> HIDE DEF g
  <2> DEFINE A == {g[k] : k \in (1 .. n) \ {from}}
             B == {roles[r] : r \in (1 .. n) \ {role}}
  <2>3. \A x \in A : x \in B
    BY <2>1
  <2>4. \A x \in B : x \in A
    BY <2>2
  <2> HIDE DEF A, B
  <2>5. A = B
    BY <2>3, <2>4
  <2>6. QED BY <2>5 DEF A, B
<1>4. Backfilled(roles, role, from) = WithoutAt(g, from)
  <2>1. DOMAIN roles = 1 .. n
    OBVIOUS
  <2>2. QED BY <2>1 DEF Backfilled
<1>5. \A r \in 1 .. n : r < from /\ r # role => WithoutAt(g, from)[r] = roles[r]
  <2>1. SUFFICES ASSUME NEW r \in 1 .. n, r < from, r # role
                 PROVE  WithoutAt(g, from)[r] = roles[r]
    OBVIOUS
  <2>2. g[r] = roles[r]
    BY <2>1
  <2>3. r \in 1 .. from - 1
    BY <2>1
  <2> HIDE DEF g
  <2>4. QED BY <1>2, <2>2, <2>3
<1>6. QED BY <1>2, <1>3, <1>4, <1>5

(* A lineup put together from its head, the rest of its tail and one more  *)
(* slot.                                                                   *)
LEMMA HeadTailLast ==
    ASSUME NEW h \in Seq(Nat), NEW t \in Seq(Nat), NEW x \in Nat, Len(h) + Len(t) + 1 = Size
    PROVE  LET m == h \o t \o <<x>>
           IN  /\ IsLineup(m) /\ HeadOf(m, Len(h)) = ToSet(h)
               /\ {m[r] : r \in Len(h) + 1 .. Size} = ToSet(t) \cup {x}
               /\ \A r \in 1 .. Len(h) : m[r] = h[r]
<1> DEFINE one == <<x>>
           u == t \o one
           m == h \o u
<1>0. Len(h) \in Nat /\ Len(t) \in Nat
  BY LenProperties
<1>1. one \in Seq(Nat) /\ Len(one) = 1 /\ ToSet(one) = {x}
  BY SingleValue
<1> HIDE DEF one
<1>2. (h \o t) \o one = h \o (t \o one)
  <2>1. \A a, b, d \in Seq(Nat) : (a \o b) \o d = a \o (b \o d)
    BY ConcatAssociative, SMTT(30)
  <2>2. QED BY <1>1, <2>1
<1>3. u \in Seq(Nat) /\ Len(u) = Len(t) + 1 /\ ToSet(u) = ToSet(t) \cup {x}
  <2>1. u \in Seq(Nat) /\ Len(u) = Len(t) + Len(one) /\ ToSet(u) = ToSet(t) \cup ToSet(one)
    BY <1>1, ConcatValues
  <2> HIDE DEF u
  <2>2. QED BY <1>0, <1>1, <2>1
<1> HIDE DEF u
<1>4. Len(h) + Len(u) = Size
  BY <1>0, <1>3
<1>5. /\ IsLineup(m) /\ HeadOf(m, Len(h)) = ToSet(h)
      /\ \A r \in 1 .. Len(h) : m[r] = h[r]
      /\ \A r \in Len(h) + 1 .. Size : m[r] = u[r - Len(h)]
  BY <1>3, <1>4, HeadAndTail
<1> HIDE DEF m
<1>6. {m[r] : r \in Len(h) + 1 .. Size} = ToSet(u)
  <2>1. DOMAIN u = 1 .. Len(u) /\ Len(u) \in Nat
    BY <1>3, LenProperties
  <2>2. \A r \in Len(h) + 1 .. Size : r - Len(h) \in 1 .. Len(u)
    BY <1>0, <1>4, <2>1
  <2>3. \A i \in 1 .. Len(u) : i + Len(h) \in Len(h) + 1 .. Size /\ (i + Len(h)) - Len(h) = i
    BY <1>0, <1>4, <2>1
  <2>4. \A i \in 1 .. Len(u) : m[i + Len(h)] = u[i]
    BY <1>5, <2>3
  <2> DEFINE A == {m[r] : r \in Len(h) + 1 .. Size}
  <2>5. \A y \in A : y \in ToSet(u)
    <3>1. \A i \in 1 .. Len(u) : u[i] \in ToSet(u)
      BY <2>1 DEF ToSet
    <3>2. \A r \in Len(h) + 1 .. Size : m[r] \in ToSet(u)
      BY <1>5, <2>2, <3>1
    <3>3. QED BY <3>2
  <2>6. \A y \in ToSet(u) : y \in A
    <3>1. \A y \in ToSet(u) : \E i \in 1 .. Len(u) : y = u[i]
      BY <2>1 DEF ToSet
    <3>2. \A r \in Len(h) + 1 .. Size : m[r] \in A
      OBVIOUS
    <3> HIDE DEF A
    <3>3. \A i \in 1 .. Len(u) : u[i] \in A
      BY <2>3, <2>4, <3>2
    <3>4. QED BY <3>1, <3>3
  <2> HIDE DEF A
  <2>7. A = ToSet(u)
    BY <2>5, <2>6
  <2>8. QED BY <2>7 DEF A
<1>7. h \o t \o <<x>> = m
  BY <1>2 DEF m, u, one
<1>8. QED BY <1>3, <1>5, <1>6, <1>7, ZenonT(60)

(* update_after_removal: slot n went out of use, its player took the place *)
(* of the one who left.                                                    *)
LEMMA CompactedOrders ==
    ASSUME NEW c, HasRoster(c), IsLineup(c.lineup), NEW n \in 1 .. Size,
           Active(c.ids) = 1 .. n - 1, NEW removed \in 1 .. n, NEW removedPos
    PROVE  LET d == LineupCompacted(c, removed, n, removedPos)
           IN  /\ IsLineup(d.lineup)
               /\ Orders(c.lineup, n) => Orders(d.lineup, n - 1) /\ KeeperInGoal(d, NoOver)
               /\ Orders(c.lineup, n) => \A r \in 2 .. n - 1 :
                     \A s \in {IF c.lineup[r] = n THEN removed ELSE c.lineup[r]} :
                        r <= Starters /\ c.lineup[r] # removed /\ PosAt(c, s, NoOver) # Gk
                        => d.lineup[r] = s
<1> DEFINE l == c.lineup
           order == SubSeq(l, 1, n)
           standard == ToSet(order) = 1 .. n
           moved(s) == IF s = n THEN removed ELSE s
           role == CHOOSE r \in 1 .. n : order[r] = removed
           roles == [r \in 1 .. n |-> IF r = role THEN NoSlot ELSE moved(order[r])]
           pool == [s \in {roles[r] : r \in Starters + 1 .. n} |->
                      CHOOSE r \in Starters + 1 .. n : roles[r] = s]
           native == ~(removed = 1 /\ n # 1)
           pick == IF role <= Starters /\ n > Starters
                   THEN Promoted(c, pool, role, removedPos, native) ELSE NoSlot
           from == IF pick # NoSlot THEN pool[pick]
                   ELSE IF role <= Starters THEN n ELSE role
           head == Backfilled(roles, role, from)
           rest == SubSeq(l, n + 1, Size)
           m == head \o rest \o <<n>>
           e == [c EXCEPT !.lineup = m]
           d == LineupCompacted(c, removed, n, removedPos)
<1>0. /\ n \in Nat /\ Size \in Nat /\ 1 <= n /\ n <= Size /\ l \in Seq(Nat) /\ Len(l) = Size
      /\ Starters \in Nat /\ 1 <= Starters /\ removed \in Nat
  BY RosterAssumption, LineupSeq
<1>1. Active(c.ids) \cup {n} = 1 .. n
  BY <1>0
<1>2. Cardinality(1 .. n) = n
  BY <1>0, FS_Interval
<1>3. /\ order \in Seq(Nat) /\ ToSet(order) = HeadOf(l, n)
      /\ \A r \in 1 .. n : order[r] = l[r]
  <2>1. 1 \in 1 .. Len(l) + 1 /\ n \in 1 - 1 .. Len(l) /\ n - 1 + 1 = n
    BY <1>0
  <2>2. \A r \in 1 .. n : 1 + r - 1 = r
    BY <1>0
  <2>3. /\ order \in Seq(Nat) /\ \A r \in 1 .. n - 1 + 1 : order[r] = l[1 + r - 1]
        /\ ToSet(order) = {l[r] : r \in 1 .. n}
    BY <1>0, <2>1, SubSeqValues
  <2> HIDE DEF order
  <2>4. QED BY <2>1, <2>2, <2>3 DEF HeadOf
<1>4. d = IF ~standard THEN c ELSE KeeperRepaired(e, NoOver, TRUE)
  <2> DEFINE Body(old, k) ==
        LET order2 == SubSeq(l, 1, k)
            standard2 == ToSet(order2) = old /\ removed \in old
            moved2(s) == IF s = n THEN removed ELSE s
            role2 == CHOOSE r \in 1 .. k : order2[r] = removed
            roles2 == [r \in 1 .. k |-> IF r = role2 THEN NoSlot ELSE moved2(order2[r])]
            pool2 == [s \in {roles2[r] : r \in Starters + 1 .. k} |->
                        CHOOSE r \in Starters + 1 .. k : roles2[r] = s]
            pick2 == IF role2 <= Starters /\ k > Starters
                     THEN Promoted(c, pool2, role2, removedPos, ~(removed = 1 /\ n # 1))
                     ELSE NoSlot
            from2 == IF pick2 # NoSlot THEN pool2[pick2]
                     ELSE IF role2 <= Starters THEN k ELSE role2
        IN  IF ~standard2 THEN c
            ELSE KeeperRepaired(
                   [c EXCEPT !.lineup = Backfilled(roles2, role2, from2)
                                        \o SubSeq(l, k + 1, Size)
                                        \o <<n>>],
                   NoOver, TRUE)
  <2>1. d = Body(Active(c.ids) \cup {n}, Cardinality(Active(c.ids) \cup {n}))
    BY DEF LineupCompacted, StaleSlot
  <2>2. Body(1 .. n, n) = IF ~(standard /\ removed \in 1 .. n) THEN c ELSE KeeperRepaired(e, NoOver, TRUE)
    OBVIOUS
  <2> HIDE DEF Body, d, e, standard
  <2>3. QED BY <1>1, <1>2, <2>1, <2>2
<1> HIDE DEF order, d
<1>5. CASE ~standard
  <2>1. ~Orders(l, n)
    BY <1>3, <1>5 DEF Orders
  <2>2. d = c
    BY <1>4, <1>5
  <2>3. QED BY <2>1, <2>2 DEF d
<1>6. CASE standard
  <2>1. /\ \A r \in 1 .. n : order[r] \in 1 .. n
        /\ \A s \in 1 .. n : \E r \in 1 .. n : order[r] = s
        /\ \A i, j \in 1 .. n : order[i] = order[j] => i = j
    <3>1. {order[r] : r \in 1 .. n} = 1 .. n
      BY <1>3, <1>6 DEF HeadOf
    <3>2. \A i, j \in 1 .. n : order[i] = order[j] => i = j
      BY <1>0, <3>1, OntoIsOnce
    <3>3. QED BY <3>1, <3>2
  <2>2. role \in 1 .. n /\ order[role] = removed
    BY <2>1
  <2> HIDE DEF role
  <2>3. /\ roles \in [1 .. n -> Nat]
        /\ \A r \in (1 .. n) \ {role} : roles[r] = moved(order[r])
        /\ roles[role] = NoSlot
    <3>1. \A r \in 1 .. n : moved(order[r]) \in Nat
      BY <1>0, <2>1, SMTT(30)
    <3>2. QED BY <2>2, <3>1 DEF NoSlot
  <2>4. /\ \A r \in (1 .. n) \ {role} : roles[r] \in 1 .. n - 1
        /\ \A s \in 1 .. n - 1 : \E r \in (1 .. n) \ {role} : roles[r] = s
    <3>1. ASSUME NEW r \in (1 .. n) \ {role} PROVE moved(order[r]) \in 1 .. n - 1
      <4>1. order[r] \in 1 .. n /\ order[r] # removed
        BY <2>1, <2>2
      <4>2. QED BY <1>0, <4>1
    <3>2. ASSUME NEW s \in 1 .. n - 1
          PROVE  \E r \in (1 .. n) \ {role} : moved(order[r]) = s
      <4>1. s \in 1 .. n /\ n \in 1 .. n /\ s # n
        BY <1>0
      <4>2. CASE s # removed
        <5>1. PICK r \in 1 .. n : order[r] = s
          BY <2>1, <4>1
        <5>2. r # role /\ moved(order[r]) = s
          BY <2>2, <4>1, <4>2, <5>1
        <5>3. QED BY <5>2
      <4>3. CASE s = removed
        <5>1. PICK r \in 1 .. n : order[r] = n
          BY <2>1, <4>1
        <5>2. r # role /\ moved(order[r]) = s
          BY <2>2, <4>1, <4>3, <5>1
        <5>3. QED BY <5>2
      <4>4. QED BY <4>2, <4>3
    <3> HIDE DEF roles, moved
    <3>3. QED BY <2>3, <3>1, <3>2
  <2> HIDE DEF roles
  <2>5. from \in 1 .. n /\ \A r \in 1 .. n - 1 : r <= Starters => r < from
    <3> DEFINE S == {roles[r] : r \in Starters + 1 .. n}
    <3>0. \A r \in Starters + 1 .. n : r \in 1 .. n
      BY <1>0
    <3>1. /\ pool \in [S -> Nat]
          /\ \A s \in S : pool[s] \in Starters + 1 .. n /\ roles[pool[s]] = s
      <4>1. \A s \in S : /\ pool[s] \in Starters + 1 .. n /\ roles[pool[s]] = s
        OBVIOUS
      <4>2. \A s \in S : pool[s] \in Nat
        BY <1>0, <4>1
      <4>3. pool = [s \in S |-> pool[s]]
        OBVIOUS
      <4> HIDE DEF pool, S
      <4>4. QED BY <4>1, <4>2, <4>3
    <3> HIDE DEF pool, native
    <3>2. CASE role <= Starters /\ n > Starters
      <4>1. S \in SUBSET Active(c.ids) /\ S \in SUBSET (1 .. n)
        <5>1. \A r \in Starters + 1 .. n : r \in (1 .. n) \ {role}
          BY <1>0, <2>2, <3>2
        <5>2. \A r \in Starters + 1 .. n : roles[r] \in 1 .. n - 1
          BY <2>4, <5>1
        <5>3. \A s \in 1 .. n - 1 : s \in 1 .. n
          BY <1>0
        <5>4. QED BY <5>2, <5>3
      <4>2. IsFiniteSet(S)
        <5>1. IsFiniteSet(1 .. n)
          BY <1>0, FS_Interval
        <5> HIDE DEF S
        <5>2. QED BY <4>1, <5>1, FS_Subset
      <4>3. \A s, t \in S : pool[s] = pool[t] => s = t
        BY <3>1
      <4> HIDE DEF S
      <4>4. Promoted(c, pool, role, removedPos, native) \in S \cup {NoSlot}
        BY <3>1, <4>1, <4>2, <4>3, PromotedFound
      <4>5. pick \in S \cup {NoSlot}
        BY <3>2, <4>4
      <4> HIDE DEF pick
      <4>6. CASE pick # NoSlot
        <5>1. from \in Starters + 1 .. n
          BY <3>1, <4>5, <4>6
        <5> HIDE DEF from
        <5>2. QED BY <1>0, <5>1
      <4>7. CASE pick = NoSlot
        BY <1>0, <2>2, <4>7
      <4>8. QED BY <4>6, <4>7
    <3>3. CASE ~(role <= Starters /\ n > Starters)
      <4>1. pick = NoSlot
        BY <3>3
      <4> HIDE DEF pick
      <4>2. QED BY <1>0, <2>2, <4>1
    <3>4. QED BY <3>2, <3>3
  <2> HIDE DEF from
  <2>6. /\ head \in Seq(Nat) /\ Len(head) = n - 1
        /\ ToSet(head) = 1 .. n - 1
        /\ \A r \in 1 .. n : r < from /\ r # role => head[r] = roles[r]
    <3>1. /\ head \in Seq(Nat) /\ Len(head) = n - 1
          /\ ToSet(head) = {roles[r] : r \in (1 .. n) \ {role}}
          /\ \A r \in 1 .. n : r < from /\ r # role => head[r] = roles[r]
      <4>1. n \in Nat /\ roles \in [1 .. n -> Nat] /\ role \in 1 .. n /\ from \in 1 .. n
        BY <1>0, <2>2, <2>3, <2>5
      <4>2. QED BY <4>1, BackfilledValues
    <3> HIDE DEF head
    <3>2. QED BY <2>4, <3>1
  <2> HIDE DEF head
  <2>7. /\ rest \in Seq(Nat) /\ Len(rest) = Size - n
        /\ ToSet(rest) = {l[r] : r \in n + 1 .. Size}
    <3>1. n + 1 \in 1 .. Len(l) + 1 /\ Size \in (n + 1) - 1 .. Len(l) /\ Size - (n + 1) + 1 = Size - n
      BY <1>0
    <3>2. /\ rest \in Seq(Nat) /\ Len(rest) = Size - (n + 1) + 1
          /\ ToSet(rest) = {l[r] : r \in n + 1 .. Size}
      BY <1>0, <3>1, SubSeqValues
    <3> HIDE DEF rest
    <3>3. QED BY <3>1, <3>2
  <2> HIDE DEF rest
  <2>8. /\ IsLineup(m) /\ HeadOf(m, n - 1) = 1 .. n - 1
        /\ {m[r] : r \in n .. Size} = ToSet(rest) \cup {n}
        /\ \A r \in 1 .. n - 1 : m[r] = head[r]
    <3>1. Len(head) + Len(rest) + 1 = Size /\ (n - 1) + 1 = n
      BY <1>0, <2>6, <2>7
    <3>2. /\ IsLineup(m) /\ HeadOf(m, Len(head)) = ToSet(head)
          /\ {m[r] : r \in Len(head) + 1 .. Size} = ToSet(rest) \cup {n}
          /\ \A r \in 1 .. Len(head) : m[r] = head[r]
      <4>1. head \in Seq(Nat) /\ rest \in Seq(Nat) /\ n \in Nat /\ Len(head) + Len(rest) + 1 = Size
        BY <1>0, <2>6, <2>7, <3>1
      <4>2. QED BY <4>1, HeadTailLast
    <3> HIDE DEF m
    <3>3. QED BY <2>6, <3>1, <3>2
  <2> HIDE DEF m
  <2>9. d = KeeperRepaired(e, NoOver, TRUE)
    BY <1>4, <1>6
  <2>10. e.lineup = m /\ e.ids = c.ids /\ HasRoster(e) /\ Count(e) = n - 1 /\ Active(e.ids) = 1 .. n - 1
    <3>1. e.lineup = m /\ e.ids = c.ids /\ HasRoster(e)
      BY DEF HasRoster
    <3>2. n - 1 \in 0 .. Size
      BY <1>0
    <3> HIDE DEF e
    <3>3. Active(e.ids) = 1 .. n - 1
      BY <3>1
    <3>4. Count(e) = n - 1
      BY <3>2, <3>3, CountOf
    <3>5. QED BY <3>1, <3>3, <3>4
  <2> HIDE DEF e
  <2>11. /\ Permutes(d.lineup, m, n - 1) /\ KeeperInGoal(d, NoOver)
         /\ \A r \in 2 .. Least(Starters, n - 1) :
               PosAt(e, m[r], NoOver) # Gk => d.lineup[r] = m[r]
    <3>1. n - 1 \in 0 .. Size
      BY <1>0
    <3>2. HasRoster(e) /\ IsLineup(e.lineup) /\ Count(e) \in 0 .. Size
      BY <2>8, <2>10, <3>1
    <3> DEFINE f == KeeperRepaired(e, NoOver, TRUE)
    <3>4. /\ Permutes(f.lineup, e.lineup, Count(e))
          /\ HeadOf(e.lineup, Count(e)) = Active(e.ids) => KeeperInGoal(f, NoOver)
          /\ \A r \in 2 .. StarterCount(e) :
                PosAt(e, e.lineup[r], NoOver) # Gk => f.lineup[r] = e.lineup[r]
      <4>1. \A preserve :
               /\ Permutes(KeeperRepaired(e, NoOver, preserve).lineup, e.lineup, Count(e))
               /\ HeadOf(e.lineup, Count(e)) = Active(e.ids)
                  => KeeperInGoal(KeeperRepaired(e, NoOver, preserve), NoOver)
               /\ \A r \in 2 .. StarterCount(e) : PosAt(e, e.lineup[r], NoOver) # Gk
                  => KeeperRepaired(e, NoOver, preserve).lineup[r] = e.lineup[r]
        BY <3>2, KeeperPermutes
      <4>2. QED BY <4>1
    <3> HIDE DEF f
    <3>5. QED BY <2>8, <2>9, <2>10, <3>4 DEF f, StarterCount
  <2>12. ASSUME Orders(l, n) PROVE Orders(d.lineup, n - 1)
    <3>1. n \in 0 .. Size /\ n - 1 \in 0 .. Size /\ (n - 1) + 1 = n
      BY <1>0
    <3>2. {l[r] : r \in n + 1 .. Size} = n + 1 .. Size
      BY <2>12, <3>1, OrderApart
    <3>3. (n + 1 .. Size) \cup {n} = n .. Size
      BY <1>0
    <3>4. {m[r] : r \in n .. Size} = n .. Size
      BY <2>7, <2>8, <3>2, <3>3
    <3>5. Orders(m, n - 1)
      BY <2>8, <3>1, <3>4, OrderJoined
    <3>6. QED BY <2>11, <3>1, <3>5, OrderPermuted
  <2>13. ASSUME NEW r \in 2 .. n - 1, NEW s \in {moved(l[r])}, r <= Starters,
                l[r] # removed, PosAt(c, s, NoOver) # Gk
         PROVE  d.lineup[r] = s
    <3>1. /\ r \in 1 .. n /\ r \in 1 .. n - 1 /\ r < from
          /\ r \in 2 .. Least(Starters, n - 1)
      BY <1>0, <2>5, <2>13 DEF Least
    <3>2. r # role
      BY <1>3, <2>2, <2>13, <3>1
    <3>3. m[r] = s
      BY <1>3, <2>3, <2>6, <2>8, <2>13, <3>1, <3>2
    <3>4. PosAt(e, m[r], NoOver) # Gk
      BY <2>10, <2>13, <3>3 DEF PosAt
    <3>5. QED BY <2>11, <3>1, <3>3, <3>4
  <2>14. QED BY <2>11, <2>12, <2>13 DEF Permutes, d
<1>7. QED BY <1>5, <1>6

(* The player of a role, and whether he is known to play outfield.         *)
Plays(c, r) == c.ids[c.lineup[r]]
Outfield(c, r) == PosOf[Plays(c, r)] \notin {Gk, Unknown}

(* The position a signing goes by.                                         *)
SignedAs(p, label) == [player |-> p, pos |-> Effective(p, label)]

(* A lineup stays one, and in order if it was, with a goalkeeper in goal.  *)
PlanKept(c, d, over) ==
    /\ IsLineup(d.lineup)
    /\ Standard(c) => Standard(d) /\ KeeperInGoal(d, over)

(* An operation that keeps the game plan after another one that does.      *)
LEMMA PlanKeptChains ==
    ASSUME NEW c, NEW d, NEW e, NEW x, NEW y, PlanKept(c, d, x), PlanKept(d, e, y)
    PROVE  PlanKept(c, e, y)
BY DEF PlanKept

(* A departure keeps the game plan, and the starters but the last player   *)
(* of a small squad (ops.rs, remove_roster_player).                        *)
LEMMA LeftPlan ==
    ASSUME NEW c, HasRoster(c), RosterSound(c), IsLineup(c.lineup), NEW p \in Members(c)
    PROVE  /\ PlanKept(c, Left(c, p), NoOver)
           /\ Standard(c) => \A r \in 2 .. Count(c) - 1 :
                 r <= Starters /\ Plays(c, r) # p /\ Outfield(c, r)
                 => Plays(Left(c, p), r) = Plays(c, r)
<1> DEFINE removed == SlotOf(c, p)
           last == LastActive(c)
           n == Count(c)
           ids == [[c.ids EXCEPT ![removed] = c.ids[last]] EXCEPT ![last] = Nobody]
           shirts == [[c.shirts EXCEPT ![removed] = c.shirts[last]] EXCEPT ![last] = 0]
           captain == CaptainRemapped(c.captain, removed, last)
           e == [c EXCEPT !.ids = ids, !.shirts = shirts, !.captain = captain]
           d == Left(c, p)
<1>1. /\ last = n /\ n \in 1 .. Size /\ Active(c.ids) = 1 .. n
      /\ n \in Nat /\ removed \in 1 .. n /\ Size \in Nat
  BY SlotFound, LastFound, RosterBounds, RosterAssumption
<1>2. d = LineupCompacted(e, removed, n, PosOf[p])
  BY <1>1 DEF Left
<1>3. /\ HasRoster(e) /\ e.ids = ids /\ e.lineup = c.lineup
      /\ \A s \in Slots :
            ids[s] = IF s = n THEN Nobody ELSE IF s = removed THEN c.ids[n] ELSE c.ids[s]
  <2>1. DOMAIN c = {"ids", "shirts", "lineup", "captain", "form"}
    BY DEF HasRoster
  <2>2. /\ DOMAIN e = DOMAIN c /\ e.ids = ids /\ e.shirts = shirts /\ e.lineup = c.lineup
    BY <2>1
  <2>3. /\ ids \in [Slots -> Players \cup {Nobody}] /\ shirts \in [Slots -> Nat]
        /\ \A s \in Slots :
              ids[s] = IF s = n THEN Nobody ELSE IF s = removed THEN c.ids[n] ELSE c.ids[s]
    <3>1. c.ids \in [Slots -> Players \cup {Nobody}] /\ c.shirts \in [Slots -> Nat] /\ last \in Slots
      BY <1>1 DEF HasRoster, Slots
    <3> HIDE DEF n, removed, last
    <3>2. QED BY <1>1, <3>1
  <2> HIDE DEF e, ids, shirts
  <2>4. QED BY <2>1, <2>2, <2>3 DEF HasRoster
<1>3a. c.ids[removed] = p
  BY SlotFound
<1> HIDE DEF e, ids, removed
<1>4. SameRoster(e, d)
  BY <1>2, <1>3, CompactedRoster
<1>5. /\ HasRoster(d) /\ RosterSound(d) /\ Count(d) = n - 1
  BY LeftRoster
<1> HIDE DEF d
<1>6. Active(e.ids) = 1 .. n - 1
  BY <1>4, <1>5 DEF SameRoster, RosterSound
<1> DEFINE filled(r) == IF c.lineup[r] = n THEN removed ELSE c.lineup[r]
<1>7. /\ IsLineup(d.lineup)
      /\ Orders(e.lineup, n) => Orders(d.lineup, n - 1) /\ KeeperInGoal(d, NoOver)
      /\ Orders(e.lineup, n) => \A r \in 2 .. n - 1 : \A s \in {filled(r)} :
            r <= Starters /\ e.lineup[r] # removed /\ PosAt(e, s, NoOver) # Gk
            => d.lineup[r] = s
  <2>1. HasRoster(e) /\ IsLineup(e.lineup) /\ n \in 1 .. Size /\ removed \in 1 .. n
    BY <1>1, <1>3
  <2> DEFINE f == LineupCompacted(e, removed, n, PosOf[p])
  <2>2. /\ IsLineup(f.lineup)
        /\ Orders(e.lineup, n) => Orders(f.lineup, n - 1) /\ KeeperInGoal(f, NoOver)
        /\ Orders(e.lineup, n) => \A r \in 2 .. n - 1 :
              \A s \in {IF e.lineup[r] = n THEN removed ELSE e.lineup[r]} :
                 r <= Starters /\ e.lineup[r] # removed /\ PosAt(e, s, NoOver) # Gk
                 => f.lineup[r] = s
    <3> HIDE DEF n
    <3>1. QED BY <1>6, <2>1, CompactedOrders
  <2>3. d = f /\ e.lineup = c.lineup
    BY <1>2, <1>3
  <2> HIDE DEF f
  <2>4. QED BY <2>2, <2>3
<1>8. /\ Standard(c) <=> Orders(c.lineup, Count(c))
      /\ Standard(d) <=> Orders(d.lineup, Count(d))
  BY <1>5, <1>7, StandardOrders
<1>9. PlanKept(c, d, NoOver)
  BY <1>3, <1>5, <1>7, <1>8 DEF PlanKept
<1>10. ASSUME Standard(c), NEW r \in 2 .. n - 1, r <= Starters, Plays(c, r) # p, Outfield(c, r)
       PROVE  Plays(d, r) = Plays(c, r)
  <2>1. Orders(c.lineup, n) /\ r \in 1 .. n
    BY <1>1, <1>8, <1>10
  <2>2. c.lineup[r] \in 1 .. n /\ c.lineup[r] # removed
    BY <1>1, <1>10, <1>3a, <2>1, OrderApart DEF Plays
  <2>3. filled(r) \in 1 .. n - 1 /\ filled(r) \in Slots /\ c.lineup[r] \in Slots
    <3> HIDE DEF n
    <3>1. QED BY <1>1, <2>2 DEF Slots
  <2>4. ids[filled(r)] = Plays(c, r)
    <3>1. filled(r) # n
      BY <1>1, <2>3
    <3>2. CASE c.lineup[r] = n
      <4>1. filled(r) = removed
        BY <3>2
      <4>2. QED BY <1>3, <2>3, <3>1, <3>2, <4>1 DEF Plays
    <3>3. CASE c.lineup[r] # n
      <4>1. filled(r) = c.lineup[r]
        BY <3>3
      <4>2. QED BY <1>3, <2>2, <2>3, <3>3, <4>1 DEF Plays
    <3>4. QED BY <3>2, <3>3
  <2>5. Plays(c, r) # Nobody
    BY <1>1, <2>2, <2>3 DEF Plays, Active
  <2> DEFINE s == filled(r)
  <2>6. s \in Slots /\ e.ids[s] = Plays(c, r)
    BY <1>3, <2>3, <2>4
  <2>7. s \in {filled(r)} /\ e.lineup[r] # removed
    BY <1>3, <2>2
  <2> HIDE DEF s, filled
  <2>8. PosAt(e, s, NoOver) # Gk
    BY <1>10, <2>5, <2>6 DEF PosAt, NoOver, Outfield
  <2>9. d.lineup[r] = s
    BY <1>3, <1>7, <1>10, <2>1, <2>7, <2>8
  <2>10. QED BY <1>4, <2>6, <2>9 DEF Plays, SameRoster
<1>11. QED BY <1>9, <1>10 DEF d, n

(* A signing keeps the game plan and every starter (ops.rs, place_player). *)
LEMMA JoinedPlan ==
    ASSUME NEW c, HasRoster(c), RosterSound(c), IsLineup(c.lineup), ~IsFull(c),
           NEW p \in Players \ Members(c), NEW preferred,
           NEW label \in Codes \cup {Unknown, NoLabel}
    PROVE  /\ PlanKept(c, Joined(c, p, preferred, label), SignedAs(p, label))
           /\ Standard(c) => \A r \in 2 .. Count(c) :
                 r <= Starters /\ Outfield(c, r)
                 => Plays(Joined(c, p, preferred, label), r) = Plays(c, r)
<1> DEFINE n == Count(c)
           pos == Effective(p, label)
           number == FreeShirt(c, preferred, pos)
           ids == [c.ids EXCEPT ![n + 1] = p]
           shirts == [c.shirts EXCEPT ![n + 1] = number]
           over == SignedAs(p, label)
           e == [c EXCEPT !.ids[n + 1] = p, !.shirts[n + 1] = number]
           d == Joined(c, p, preferred, label)
<1>1. /\ FirstEmpty(c) = n + 1 /\ n + 1 \in 1 .. Size /\ n \in 0 .. Size
      /\ Active(c.ids) = 1 .. n /\ Size \in Nat /\ n \in 0 .. Size - 1
  <2>1. /\ FirstEmpty(c) = n + 1 /\ n + 1 \in 1 .. Size /\ n \in 0 .. Size
        /\ Active(c.ids) = 1 .. n /\ Size \in Nat
    BY EmptyFound, RosterBounds, RosterAssumption DEF Slots
  <2> HIDE DEF n
  <2>2. QED BY <2>1
<1>2. pos \in Codes \cup {Unknown}
  BY RosterAssumption DEF Effective
<1>3. d = LineupExtended(e, n + 1, over)
  BY <1>1 DEF Joined, SignedAs
<1>4. over.player = p
  BY DEF SignedAs
<1> HIDE DEF over
<1>5. /\ HasRoster(e) /\ e.lineup = c.lineup
      /\ \A s \in Slots : e.ids[s] = IF s = n + 1 THEN p ELSE c.ids[s]
  <2>1. DOMAIN c = {"ids", "shirts", "lineup", "captain", "form"}
    BY DEF HasRoster
  <2>2. /\ DOMAIN e = DOMAIN c /\ e.ids = ids /\ e.shirts = shirts /\ e.lineup = c.lineup
    BY <2>1
  <2>3. ids \in [Slots -> Players \cup {Nobody}] /\ shirts \in [Slots -> Nat]
    <3>1. /\ c.ids \in [Slots -> Players \cup {Nobody}] /\ c.shirts \in [Slots -> Nat]
      BY DEF HasRoster
    <3>2. number \in Nat
      BY <1>2, ShirtIsFree DEF FreeNumbers
    <3> HIDE DEF n, number
    <3>3. QED BY <3>1, <3>2
  <2>4. \A s \in Slots : ids[s] = IF s = n + 1 THEN p ELSE c.ids[s]
    <3>1. c.ids \in [Slots -> Players \cup {Nobody}]
      BY DEF HasRoster
    <3> HIDE DEF n
    <3>2. QED BY <3>1
  <2> HIDE DEF e, ids, shirts
  <2>5. QED BY <2>1, <2>2, <2>3, <2>4 DEF HasRoster
<1> HIDE DEF e
<1>6. SameRoster(e, d)
  BY <1>3, <1>5, ExtendedRoster
<1>7. /\ HasRoster(d) /\ RosterSound(d) /\ Count(d) = n + 1
  BY JoinedRoster
<1> HIDE DEF d
<1>8. Active(e.ids) = 1 .. n + 1
  BY <1>6, <1>7 DEF SameRoster, RosterSound
<1>9. /\ IsLineup(d.lineup)
      /\ Orders(e.lineup, n) => Orders(d.lineup, n + 1) /\ KeeperInGoal(d, over)
      /\ Orders(e.lineup, n) => \A r \in 2 .. n :
            r <= Starters /\ PosAt(e, e.lineup[r], over) # Gk
            => d.lineup[r] = e.lineup[r]
  <2>1. HasRoster(e) /\ IsLineup(e.lineup) /\ n \in 0 .. Size - 1
    BY <1>1, <1>5
  <2> DEFINE f == LineupExtended(e, n + 1, over)
  <2>2. /\ IsLineup(f.lineup)
        /\ Orders(e.lineup, n) => Orders(f.lineup, n + 1) /\ KeeperInGoal(f, over)
        /\ Orders(e.lineup, n) => \A r \in 2 .. n :
              r <= Starters /\ PosAt(e, e.lineup[r], over) # Gk
              => f.lineup[r] = e.lineup[r]
    <3> HIDE DEF n
    <3>1. QED BY <1>8, <2>1, ExtendedOrders
  <2>3. d = f
    BY <1>3
  <2> HIDE DEF f
  <2>4. QED BY <2>2, <2>3
<1>10. /\ Standard(c) <=> Orders(c.lineup, Count(c))
       /\ Standard(d) <=> Orders(d.lineup, Count(d))
  BY <1>7, <1>9, StandardOrders
<1>11. PlanKept(c, d, over)
  BY <1>5, <1>7, <1>9, <1>10 DEF PlanKept
<1>12. ASSUME Standard(c), NEW r \in 2 .. n, r <= Starters, Outfield(c, r)
       PROVE  Plays(d, r) = Plays(c, r)
  <2>1. Orders(c.lineup, n) /\ r \in 1 .. n
    BY <1>1, <1>10, <1>12
  <2>2. c.lineup[r] \in 1 .. n
    BY <1>1, <2>1, OrderApart
  <2> HIDE DEF n
  <2>3. c.lineup[r] \in Slots /\ c.lineup[r] # n + 1
    BY <1>1, <2>2 DEF Slots
  <2>4. e.ids[c.lineup[r]] = Plays(c, r)
    BY <1>5, <2>3 DEF Plays
  <2>5. Plays(c, r) # Nobody /\ Plays(c, r) # p
    BY <1>1, <2>2, <2>3 DEF Plays, Active, Members
  <2>6. PosAt(e, c.lineup[r], over) # Gk
    BY <1>12, <1>4, <2>3, <2>4, <2>5 DEF PosAt, Outfield
  <2>7. d.lineup[r] = c.lineup[r]
    BY <1>5, <1>9, <1>12, <2>1, <2>6
  <2>8. QED BY <1>6, <2>4, <2>7 DEF Plays, SameRoster
<1>13. QED BY <1>11, <1>12 DEF d, n, over

(* So does a signing that makes a full roster release someone first.       *)
LEMMA SignedPlan ==
    ASSUME NEW c, HasRoster(c), RosterSound(c), IsLineup(c.lineup),
           NEW p \in Players \ Members(c),
           NEW planned, NEW guarded, NEW signed,
           HasRoom(c, p, planned, guarded, signed),
           NEW preferred, NEW label \in Codes \cup {Unknown, NoLabel},
           NEW d, d = Signed(c, p, preferred, label, Casualty(c, p, planned, guarded, signed))
    PROVE  PlanKept(c, d, SignedAs(p, label))
<1> DEFINE gone == Casualty(c, p, planned, guarded, signed)
<1>1. CASE gone = Nobody
  <2>1. ~IsFull(c)
    BY <1>1, OverflowChosen DEF HasRoom, OverflowRefused, Casualty
  <2>2. d = Joined(c, p, preferred, label)
    BY <1>1 DEF Signed
  <2>3. QED BY <2>1, <2>2, JoinedPlan
<1>2. CASE gone # Nobody
  <2>1. gone \in Members(c)
    BY <1>2, OverflowChosen DEF HasRoom, OverflowRefused, Casualty
  <2> HIDE DEF gone
  <2> DEFINE e == Left(c, gone)
  <2>2. /\ HasRoster(e) /\ RosterSound(e) /\ ~IsFull(e)
        /\ Members(e) = Members(c) \ {gone}
    BY <2>1, LeftRoster
  <2>3. PlanKept(c, e, NoOver)
    BY <2>1, LeftPlan
  <2>4. d = Joined(e, p, preferred, label) /\ p \in Players \ Members(e)
    BY <1>2, <2>2 DEF Signed, gone
  <2> HIDE DEF e
  <2>5. PlanKept(e, d, SignedAs(p, label))
    BY <2>2, <2>3, <2>4, JoinedPlan DEF PlanKept
  <2>6. QED BY <2>3, <2>5, PlanKeptChains
<1>3. QED BY <1>1, <1>2

(* A list without repetition, and what one makes of the elements of        *)
(* another.                                                                *)
LEMMA ListEnumerates ==
    ASSUME NEW k \in Nat, NEW f, f = [r \in 1 .. k |-> f[r]],
           \A i, j \in 1 .. k : f[i] = f[j] => i = j
    PROVE  Enumerates(f, {f[r] : r \in 1 .. k}) /\ Cardinality({f[r] : r \in 1 .. k}) = k
<1> DEFINE X == {f[r] : r \in 1 .. k}
<1>1. f \in [1 .. k -> X]
  OBVIOUS
<1>2. \A x \in X : \E r \in 1 .. k : f[r] = x
  OBVIOUS
<1> HIDE DEF X
<1>3. f \in Bijection(1 .. k, X)
  BY <1>1, <1>2 DEF Bijection, Injection, Surjection, IsInjective
<1>4. IsFiniteSet(1 .. k) /\ Cardinality(1 .. k) = k
  <2>1. \A i \in Nat : IsFiniteSet(1 .. i) /\ Cardinality(1 .. i) = i
    BY FS_Interval
  <2>2. QED BY <2>1
<1>5. IsFiniteSet(X) /\ Cardinality(X) = k
  <2>1. ExistsBijection(1 .. k, X)
    BY <1>3 DEF ExistsBijection
  <2>2. QED BY <1>4, <2>1, FS_Bijection
<1>6. Enumerates(f, X)
  BY <1>1, <1>2, <1>5 DEF Enumerates
<1>7. QED BY <1>5, <1>6 DEF X

(* An enumeration of indices is one of what they stand for.                *)
LEMMA MappedEnumerates ==
    ASSUME NEW I, NEW a, Enumerates(a, I), NEW f, \A i, j \in I : f[i] = f[j] => i = j
    PROVE  Enumerates([m \in DOMAIN a |-> f[a[m]]], {f[i] : i \in I})
<1> DEFINE k == Cardinality(I)
           e == [m \in DOMAIN a |-> f[a[m]]]
           X == {e[m] : m \in 1 .. k}
           Y == {f[i] : i \in I}
<1>1. /\ k \in Nat /\ DOMAIN a = 1 .. k /\ \A m \in 1 .. k : a[m] \in I
      /\ \A i, j \in 1 .. k : a[i] = a[j] => i = j
      /\ \A s \in I : \E m \in 1 .. k : a[m] = s
  BY DEF Enumerates
<1>2. e = [m \in 1 .. k |-> e[m]] /\ \A m \in 1 .. k : e[m] = f[a[m]]
  <2> HIDE DEF k
  <2>1. QED BY <1>1
<1> HIDE DEF e, k
<1>3. \A i, j \in 1 .. k : e[i] = e[j] => i = j
  BY <1>1, <1>2
<1>4. Enumerates(e, X)
  BY <1>1, <1>2, <1>3, ListEnumerates
<1>5. X = Y
  <2>1. \A x \in X : x \in Y
    BY <1>1, <1>2
  <2>2. \A y \in Y : y \in X
    BY <1>1, <1>2
  <2> HIDE DEF X, Y
  <2>3. QED BY <2>1, <2>2
<1>6. QED BY <1>4, <1>5 DEF e

(* The largest of finitely many keys of one length.                        *)
LEMMA LastByKey ==
    ASSUME NEW S, IsFiniteSet(S), S # {}, NEW n \in Nat, NEW key \in [S -> [1 .. n -> Int]],
           \A x, y \in S : key[x] = key[y] => x = y
    PROVE  \E x \in S : \A y \in S \ {x} : LexLess(key[y], key[x])
<1> DEFINE R == {xy \in S \X S : LexLess(key[xy[2]], key[xy[1]])}
<1>1. \A x, y \in S : <<x, y>> \in R <=> LexLess(key[y], key[x])
  OBVIOUS
<1>2. \A x, y \in S : x # y => <<x, y>> \in R \/ <<y, x>> \in R
  BY <1>1, LexOrders
<1>3. \A x, y, z \in S : <<x, y>> \in R /\ <<y, z>> \in R => <<x, z>> \in R
  <2>1. SUFFICES ASSUME NEW x \in S, NEW y \in S, NEW z \in S, <<x, y>> \in R, <<y, z>> \in R
                 PROVE  <<x, z>> \in R
    OBVIOUS
  <2>2. LexLess(key[y], key[x]) /\ LexLess(key[z], key[y])
    BY <1>1, <2>1
  <2>3. key[x] \in [1 .. n -> Int] /\ key[y] \in [1 .. n -> Int] /\ key[z] \in [1 .. n -> Int]
    OBVIOUS
  <2>4. LexLess(key[z], key[x])
    BY <2>2, <2>3, LexOrders
  <2>5. QED BY <1>1, <2>4
<1> HIDE DEF R
<1>4. Ordered(S, R)
  BY <1>2, <1>3 DEF Ordered
<1>5. PICK x \in S : First(S, R, x)
  BY <1>4, FirstExists
<1>6. QED BY <1>1, <1>5 DEF First

(* A lineup whose first n roles are given anew, to the slots in use.       *)
Reheads(m, l, n) ==
    /\ IsLineup(m) /\ HeadOf(m, n) = 1 .. n
    /\ \A r \in n + 1 .. Size : m[r] = l[r]

(* A lineup whose head is put anew in order is ordered again.              *)
LEMMA ReheadedOrders ==
    ASSUME NEW n \in 0 .. Size, NEW l, Orders(l, n), NEW m, Reheads(m, l, n)
    PROVE  Orders(m, n)
<1>1. Permutes(m, l, n)
  BY DEF Permutes, Reheads, Orders
<1>2. QED BY <1>1, OrderPermuted

(* A head that names the slots in use once, before the old tail.           *)
LEMMA HeadGiven ==
    ASSUME NEW n \in 0 .. Size, NEW l, IsLineup(l), NEW h, Enumerates(h, 1 .. n)
    PROVE  /\ Reheads(h \o SubSeq(l, n + 1, Size), l, n)
           /\ \A r \in 1 .. n : (h \o SubSeq(l, n + 1, Size))[r] = h[r]
<1>1. n \in Nat /\ Size \in Nat /\ n <= Size /\ Cardinality(1 .. n) = n
  BY RosterAssumption, FS_Interval
<1>2. h \in Seq(1 .. n) /\ Len(h) = n /\ ToSet(h) = 1 .. n
  BY <1>1, EnumerationSeq
<1>3. h \in Seq(Nat) /\ Len(h) <= Size
  <2>1. h \in [1 .. n -> Nat]
    BY <1>1, <1>2, LenProperties
  <2>2. QED BY <1>1, <1>2, <2>1
<1> DEFINE m == h \o SubSeq(l, Len(h) + 1, Size)
<1>4. /\ IsLineup(m) /\ HeadOf(m, Len(h)) = ToSet(h)
      /\ \A r \in 1 .. Len(h) : m[r] = h[r]
      /\ \A r \in Len(h) + 1 .. Size : m[r] = l[r]
  BY <1>3, NewHead
<1>5. m = h \o SubSeq(l, n + 1, Size)
  BY <1>2
<1> HIDE DEF m
<1>6. Reheads(m, l, n) /\ \A r \in 1 .. n : m[r] = h[r]
  BY <1>2, <1>4 DEF Reheads
<1>7. QED BY <1>5, <1>6

(* repair_references: valid references keep their order, missing ones      *)
(* follow, and all slots in use are then named, whatever the lineup was.   *)
LEMMA ReferencesHead ==
    ASSUME NEW c, HasRoster(c), IsLineup(c.lineup),
           NEW n \in 0 .. Size, Active(c.ids) = 1 .. n
    PROVE  /\ Reheads(ReferencesRepaired(c).lineup, c.lineup, n)
           /\ ReferencesRepaired(c).form = c.form
<1> DEFINE l == c.lineup
           first(i) == \A j \in 1 .. (i - 1) : l[j] # l[i]
           I == {i \in Roles : l[i] \in 1 .. n /\ first(i)}
           valid == Ascending(I)
           preserved == [i \in DOMAIN valid |-> l[valid[i]]]
           P == {l[i] : i \in I}
           missing == Ascending((1 .. n) \ ToSet(preserved))
           m == preserved \o missing \o SubSeq(l, n + 1, Size)
<1>0. n \in Nat /\ Size \in Nat /\ n <= Size /\ Count(c) = n
  BY RosterAssumption, CountOf
<1>1. ReferencesRepaired(c) = [c EXCEPT !.lineup = m]
  BY <1>0 DEF ReferencesRepaired
<1>2. I \in SUBSET Int /\ IsFiniteSet(I)
  <2>1. IsFiniteSet(Roles) /\ I \in SUBSET Roles /\ Roles \in SUBSET Int
    BY <1>0, FS_Interval DEF Roles
  <2> HIDE DEF I
  <2>2. QED BY <2>1, FS_Subset
<1>3. Enumerates(valid, I)
  <2> HIDE DEF I
  <2>1. QED BY <1>2, AscendingEnumerates
<1>4. \A i, j \in I : l[i] = l[j] => i = j
  <2>1. SUFFICES ASSUME NEW i \in I, NEW j \in I, l[i] = l[j] PROVE i = j
    OBVIOUS
  <2>2. i \in Int /\ j \in Int /\ i >= 1 /\ j >= 1
    BY <1>0 DEF Roles
  <2>3. first(i) /\ first(j)
    OBVIOUS
  <2>4. CASE i < j
    <3>1. i \in 1 .. (j - 1)
      BY <2>2, <2>4
    <3>2. QED BY <2>1, <2>3, <3>1
  <2>5. CASE j < i
    <3>1. j \in 1 .. (i - 1)
      BY <2>2, <2>5
    <3>2. QED BY <2>1, <2>3, <3>1
  <2>6. QED BY <2>2, <2>4, <2>5
<1>5. P \in SUBSET (1 .. n)
  OBVIOUS
<1> HIDE DEF I, valid
<1>6. Enumerates(preserved, P)
  BY <1>3, <1>4, MappedEnumerates
<1> HIDE DEF preserved, P
<1>7. ToSet(preserved) = P
  BY <1>6, EnumerationSeq
<1>8. Enumerates(missing, (1 .. n) \ P)
  <2> DEFINE M == (1 .. n) \ P
  <2>1. M \in SUBSET (1 .. n) /\ M \in SUBSET Int /\ IsFiniteSet(1 .. n)
    BY <1>0, FS_Interval
  <2>2. missing = Ascending(M)
    BY <1>7
  <2> HIDE DEF M, missing
  <2>3. IsFiniteSet(M)
    BY <2>1, FS_Subset
  <2>4. Enumerates(missing, M)
    BY <2>1, <2>2, <2>3, AscendingEnumerates
  <2>5. QED BY <2>4 DEF M
<1> HIDE DEF missing
<1>9. Enumerates(preserved \o missing, 1 .. n)
  <2>1. P \cap ((1 .. n) \ P) = {} /\ P \cup ((1 .. n) \ P) = 1 .. n
    BY <1>5
  <2> DEFINE M == (1 .. n) \ P
  <2>2. P \cap M = {} /\ P \cup M = 1 .. n /\ Enumerates(missing, M)
    BY <1>8, <2>1
  <2> HIDE DEF M
  <2>3. Enumerates(preserved \o missing, P \cup M)
    BY <1>6, <2>2, ConcatEnumerates
  <2>4. QED BY <2>2, <2>3
<1>10. Reheads(m, l, n)
  BY <1>9, HeadGiven
<1> HIDE DEF m
<1>11. QED BY <1>1, <1>10 DEF HasRoster

(* The XI first, then everyone else.                                       *)
LEMMA WithXIHead ==
    ASSUME NEW c, HasRoster(c), IsLineup(c.lineup), NEW n \in 0 .. Size,
           Count(c) = n, HeadOf(c.lineup, n) = 1 .. n,
           NEW X \in SUBSET (1 .. n), NEW xi, Enumerates(xi, X)
    PROVE  Reheads(WithXI(c, xi).lineup, c.lineup, n) /\ WithXI(c, xi).form = c.form
<1> DEFINE l == c.lineup
           head == SubSeq(l, 1, n)
           rest == Kept(head, ToSet(head) \ ToSet(xi))
           m == xi \o rest \o SubSeq(l, n + 1, Size)
<1>0. n \in Nat /\ Size \in Nat /\ n <= Size /\ l \in Seq(Nat) /\ Len(l) = Size
  BY RosterAssumption, LineupSeq
<1>1. WithXI(c, xi) = [c EXCEPT !.lineup = m]
  BY DEF WithXI
<1>2. /\ DOMAIN head = 1 .. n /\ ToSet(head) = 1 .. n
      /\ {head[r] : r \in 1 .. n} = 1 .. n
  <2>1. 1 \in 1 .. Len(l) + 1 /\ n \in 1 - 1 .. Len(l) /\ n - 1 + 1 = n
    BY <1>0
  <2>2. /\ head \in Seq(Nat) /\ Len(head) = n - 1 + 1
        /\ ToSet(head) = {l[r] : r \in 1 .. n}
    BY <1>0, <2>1, SubSeqValues
  <2> HIDE DEF head
  <2>3. DOMAIN head = 1 .. n /\ ToSet(head) = 1 .. n
    BY <2>1, <2>2, LenProperties DEF HeadOf
  <2>4. QED BY <2>3 DEF ToSet
<1> HIDE DEF head
<1>3. ToSet(xi) = X
  BY EnumerationSeq
<1>4. Enumerates(rest, (1 .. n) \ X)
  <2>1. \A i, j \in 1 .. n : head[i] = head[j] => i = j
    BY <1>0, <1>2, OntoIsOnce
  <2> DEFINE Y == (1 .. n) \ X
  <2>2. rest = Kept(head, Y)
    BY <1>2, <1>3
  <2> HIDE DEF Y, rest
  <2>3. Enumerates(rest, {head[i] : i \in 1 .. n} \cap Y)
    BY <1>0, <1>2, <2>1, <2>2, KeptEnumerates, SMTT(30)
  <2>4. (1 .. n) \cap Y = Y
    BY DEF Y
  <2>5. QED BY <1>2, <2>3, <2>4 DEF Y
<1> HIDE DEF rest
<1>5. Enumerates(xi \o rest, 1 .. n)
  <2> DEFINE Y == (1 .. n) \ X
  <2>1. X \cap Y = {} /\ X \cup Y = 1 .. n /\ Enumerates(rest, Y)
    BY <1>4
  <2> HIDE DEF Y
  <2>2. Enumerates(xi \o rest, X \cup Y)
    BY <2>1, ConcatEnumerates
  <2>3. QED BY <2>1, <2>2
<1>6. Reheads(m, l, n)
  BY <1>5, HeadGiven
<1> HIDE DEF m
<1>7. QED BY <1>1, <1>6 DEF HasRoster

(* The goalkeeper of a new XI is in the roster.                            *)
LEMMA PrimaryFound ==
    ASSUME NEW c, HasRoster(c), NEW n \in 1 .. Size, Active(c.ids) = 1 .. n,
           c.lineup[1] \in 1 .. n
    PROVE  PrimarySlot(c) \in 1 .. n
<1> DEFINE incumbent == c.lineup[1]
           rated == UsesRatings(c)
           keepers == {s \in Active(c.ids) : PosAt(c, s, NoOver) = Gk}
           key(s) == << IF rated THEN Rating[c.ids[s]][Gk] ELSE 0,
                        IF s = incumbent THEN 1 ELSE 0, -s >>
           keys == [s \in keepers |-> key(s)]
           last == CHOOSE x \in keepers : \A y \in keepers \ {x} : LexLess(key(y), key(x))
<1>1. PrimarySlot(c) = IF PosAt(c, incumbent, NoOver) = Unknown \/ keepers = {}
                       THEN incumbent ELSE last
  BY DEF PrimarySlot, LastBy
<1>2. ASSUME keepers # {} PROVE last \in keepers
  <2>1. keepers \in SUBSET (1 .. n) /\ IsFiniteSet(keepers)
    <3>1. keepers \in SUBSET (1 .. n) /\ IsFiniteSet(1 .. n)
      BY RosterAssumption, FS_Interval
    <3> HIDE DEF keepers
    <3>2. QED BY <3>1, FS_Subset
  <2>2. keys \in [keepers -> [1 .. 3 -> Int]]
    <3>1. SUFFICES ASSUME NEW s \in keepers PROVE key(s) \in [1 .. 3 -> Int]
      OBVIOUS
    <3>2. s \in Active(c.ids) /\ s \in Slots /\ c.ids[s] \in Players /\ c.ids[s] # Nobody
      BY DEF HasRoster, Active
    <3>3. rated => Rating[c.ids[s]][Gk] \in Int
      <4>1. Gk \in Codes
        BY DEF Gk, Codes
      <4>2. QED BY <3>2, <4>1, RosterAssumption
    <3>4. -s \in Int
      BY <3>2, RosterAssumption DEF Slots
    <3> HIDE DEF rated
    <3>5. QED BY <3>3, <3>4
  <2>3. \A x, y \in keepers : keys[x] = keys[y] => x = y
    <3>1. SUFFICES ASSUME NEW x \in keepers, NEW y \in keepers, key(x) = key(y) PROVE x = y
      OBVIOUS
    <3>2. key(x)[3] = -x /\ key(y)[3] = -y /\ x \in Int /\ y \in Int
      BY <2>1
    <3> HIDE DEF key
    <3>3. QED BY <3>1, <3>2
  <2> HIDE DEF key
  <2>4. \E x \in keepers : \A y \in keepers \ {x} : LexLess(keys[y], keys[x])
    <3>1. keepers # {} /\ 3 \in Nat
      BY <1>2
    <3> HIDE DEF keys, keepers
    <3>2. QED BY <2>1, <2>2, <2>3, <3>1, LastByKey
  <2>5. \E x \in keepers : \A y \in keepers \ {x} : LexLess(key(y), key(x))
    BY <2>4
  <2> HIDE DEF keepers
  <2>6. QED BY <2>5
<1> HIDE DEF last
<1>3. QED BY <1>1, <1>2

(* An assignment gives the open roles slots of their own.                  *)
LEMMA AssignmentApart ==
    ASSUME NEW c, NEW open, NEW free, NEW f \in Assignments(c, open, free)
    PROVE  f \in [open -> free] /\ \A i, j \in open : f[i] = f[j] => i = j
<1>1. \A slots, foot : \A g \in BestAssignments(c, open, slots, foot) :
         g \in [open -> slots] /\ IsInjective(g)
  BY DEF BestAssignments, Heaviest, Totals
<1>2. f \in [open -> free] /\ IsInjective(f)
  <2>1. CASE ~UsesRatings(c)
    BY <1>1, <2>1 DEF Assignments
  <2>2. CASE UsesRatings(c)
    <3>1. PICK g \in BestAssignments(c, open, free, FALSE) :
             f \in BestAssignments(c, open, ToSet(g), TRUE)
      BY <2>2 DEF Assignments
    <3>2. g \in [open -> free] /\ f \in [open -> ToSet(g)] /\ IsInjective(f)
      BY <1>1, <3>1
    <3>3. ToSet(g) \subseteq free
      BY <3>2 DEF ToSet
    <3>4. QED BY <3>2, <3>3
  <2>3. QED BY <2>1, <2>2
<1>3. QED BY <1>2 DEF IsInjective

(* repair_starter_assignments only exchanges roles.                        *)
LEMMA AlignedHead ==
    ASSUME NEW c, HasRoster(c), IsLineup(c.lineup), NEW n \in 0 .. Size,
           Active(c.ids) = 1 .. n, HeadOf(c.lineup, n) = 1 .. n,
           NEW d \in StartersAligned(c)
    PROVE  Reheads(d.lineup, c.lineup, n) /\ d.form = c.form
<1> DEFINE l == c.lineup
           k == StarterCount(c)
           primary == PrimarySlot(c)
           candidates == StarterCandidates(c)
           kept == KeptRoles(c, primary, candidates)
           keeps == {l[r] : r \in kept}
           open == (2 .. k) \ kept
           free == candidates \ ({primary} \cup keeps)
           xi(f) == [r \in 1 .. k |-> IF r = 1 THEN primary ELSE IF r \in kept THEN l[r] ELSE f[r]]
<1>0. n \in Nat /\ Size \in Nat /\ n <= Size /\ Count(c) = n
  BY RosterAssumption, CountOf
<1>1. k \in Nat /\ k <= n /\ (k # 0 => n \in 1 .. Size /\ 1 \in 1 .. n)
  BY <1>0, RosterAssumption DEF StarterCount, Least
<1>2. /\ \A r \in 1 .. n : l[r] \in 1 .. n
      /\ \A i, j \in 1 .. n : l[i] = l[j] => i = j
  <2>1. {l[r] : r \in 1 .. n} = 1 .. n
    BY DEF HeadOf
  <2>2. QED BY <1>0, <2>1, OntoIsOnce
<1>3. CASE d = c
  BY <1>3 DEF Reheads
<1>4. ASSUME NEW f \in Assignments(c, open, free), d = WithXI(c, xi(f)), k # 0
      PROVE  Reheads(d.lineup, l, n) /\ d.form = c.form
  <2>1. primary \in 1 .. n
    BY <1>1, <1>2, <1>4, PrimaryFound
  <2>2. candidates \subseteq 1 .. n
    <3>1. \A r \in 1 .. k : r \in 1 .. n
      BY <1>0, <1>1
    <3>2. QED BY <1>2, <3>1 DEF StarterCandidates
  <2>3. kept \subseteq 2 .. k /\ \A r \in kept : l[r] # primary
    BY DEF KeptRoles
  <2> HIDE DEF primary, candidates, kept
  <2>4. f \in [open -> free] /\ \A i, j \in open : f[i] = f[j] => i = j
    BY <1>4, AssignmentApart
  <2> DEFINE x == xi(f)
  <2>5. /\ x = [r \in 1 .. k |-> x[r]]
        /\ \A r \in 1 .. k : x[r] = IF r = 1 THEN primary ELSE IF r \in kept THEN l[r] ELSE f[r]
    OBVIOUS
  <2> HIDE DEF x
  <2>6. \A r \in 1 .. k : r = 1 \/ r \in kept \/ r \in open
    BY <1>1
  <2>7. /\ 1 \notin kept /\ 1 \notin open /\ kept \cap open = {}
        /\ \A r \in kept : r \in 1 .. n /\ l[r] \in keeps /\ r # 1
        /\ \A r \in open : r # 1
    BY <1>0, <1>1, <2>3
  <2>8. \A r \in open : f[r] \in 1 .. n /\ f[r] # primary /\ f[r] \notin keeps
    BY <2>2, <2>4
  <2>9. \A r \in 1 .. k : x[r] \in 1 .. n
    BY <1>2, <2>1, <2>5, <2>6, <2>7, <2>8
  <2>10. \A i, j \in 1 .. k : x[i] = x[j] => i = j
    <3>1. SUFFICES ASSUME NEW i \in 1 .. k, NEW j \in 1 .. k, x[i] = x[j] PROVE i = j
      OBVIOUS
    <3> HIDE DEF keeps, open
    <3>2. CASE i = 1
      BY <2>3, <2>5, <2>6, <2>7, <2>8, <3>1, <3>2
    <3>3. CASE j = 1
      BY <2>3, <2>5, <2>6, <2>7, <2>8, <3>1, <3>3
    <3>4. CASE i \in kept
      BY <1>2, <2>3, <2>5, <2>6, <2>7, <2>8, <3>1, <3>4
    <3>5. CASE i \in open /\ j \in open
      BY <2>4, <2>5, <2>7, <3>1, <3>5
    <3>6. CASE i \in open /\ j \in kept
      BY <2>5, <2>7, <2>8, <3>1, <3>6
    <3>7. QED BY <2>6, <3>2, <3>3, <3>4, <3>5, <3>6
  <2> DEFINE X == {x[r] : r \in 1 .. k}
  <2>11. Enumerates(x, X)
    BY <1>1, <2>5, <2>10, ListEnumerates
  <2>12. X \in SUBSET (1 .. n)
    BY <2>9
  <2> HIDE DEF X
  <2>13. Reheads(WithXI(c, x).lineup, l, n) /\ WithXI(c, x).form = c.form
    BY <1>0, <2>11, <2>12, WithXIHead
  <2>14. QED BY <1>4, <2>13 DEF x
<1>5. d = c \/ (k # 0 /\ \E f \in Assignments(c, open, free) : d = WithXI(c, xi(f)))
  <2>1. CASE k = 0
    BY <2>1 DEF StartersAligned
  <2>2. CASE k # 0
    <3>1. d \in KeptOr(Aligned(c, primary, candidates, kept), c)
      BY <2>2 DEF StartersAligned
    <3>2. Aligned(c, primary, candidates, kept) = {WithXI(c, xi(f)) : f \in Assignments(c, open, free)}
      BY DEF Aligned
    <3> HIDE DEF primary, candidates, kept, open, free
    <3>3. QED BY <2>2, <3>1, <3>2 DEF KeptOr
  <2>3. QED BY <2>1, <2>2
<1>6. QED BY <1>3, <1>4, <1>5

(* order_bench's sort: a higher overall first, and equals in the order     *)
(* they had.                                                               *)
Ranking(c, others, O) == InOrder(O, LAMBDA s, t : BenchedBefore(c, others, s, t))

(* The bench's sort key tells any two substitutes apart and is transitive, *)
(* so sorting by it loses and repeats nobody (lineup.rs 475-527).          *)
LEMMA BenchRanked ==
    ASSUME NEW c, NEW O, NEW others, Enumerates(others, O),
           \A s \in O : Overall[c.ids[s]] \in Int
    PROVE  Enumerates(Ranking(c, others, O), O)
<1> DEFINE N == Cardinality(O)
           v(s) == Overall[c.ids[s]]
           at(s) == PlaceIn(others, s)
           Below == [s \in O |-> {t \in O : BenchedBefore(c, others, t, s)}]
           before(s, t) == BenchedBefore(c, others, s, t)
           e == InOrder(O, before)
<1>1. /\ IsFiniteSet(O) /\ N \in Nat /\ DOMAIN others = 1 .. N
      /\ \A s \in O : \E i \in 1 .. N : others[i] = s
  BY DEF Enumerates
<1>2. \A s \in O : at(s) \in 1 .. N /\ others[at(s)] = s
  BY <1>1 DEF PlaceIn
<1>3. \A s \in O : v(s) \in Int /\ at(s) \in Int
  BY <1>1, <1>2
<1>4. \A s, t \in O : BenchedBefore(c, others, s, t)
                          <=> (v(s) > v(t) \/ (v(s) = v(t) /\ at(s) < at(t)))
  BY DEF BenchedBefore
<1>5. \A s, t \in O : s # t => at(s) # at(t)
  BY <1>2
<1> HIDE DEF v, at, N
<1>6. /\ \A s \in O : ~BenchedBefore(c, others, s, s)
      /\ \A s, t \in O : s # t => BenchedBefore(c, others, s, t) \/ BenchedBefore(c, others, t, s)
      /\ \A s, t, u \in O : BenchedBefore(c, others, u, s) /\ BenchedBefore(c, others, s, t)
                            => BenchedBefore(c, others, u, t)
  BY <1>3, <1>4, <1>5
<1>7. /\ Below \in [O -> SUBSET O]
      /\ \A s \in O : s \notin Below[s]
      /\ \A s, t \in O : s # t => s \in Below[t] \/ t \in Below[s]
      /\ \A s, t \in O : s \in Below[t] => Below[s] \subseteq Below[t]
  BY <1>6
<1>8. /\ \A i \in 1 .. N : \E s \in O : Cardinality(Below[s]) = i - 1
      /\ \A f : /\ f \in [1 .. N -> O]
                /\ \A i \in 1 .. N : Cardinality(Below[f[i]]) = i - 1
                => Enumerates(f, O)
  <2>1. IsFiniteSet(O)
    BY <1>1
  <2> HIDE DEF Below
  <2>2. /\ \A i \in 1 .. Cardinality(O) : \E s \in O : Cardinality(Below[s]) = i - 1
        /\ \A f : /\ f \in [1 .. Cardinality(O) -> O]
                  /\ \A i \in 1 .. Cardinality(O) : Cardinality(Below[f[i]]) = i - 1
                  => Enumerates(f, O)
    BY <1>7, <2>1, RanksEnumerate
  <2>3. QED BY <2>2 DEF N
<1>9. \A i \in 1 .. N : \E s \in O : Cardinality({t \in O : before(t, s)}) = i - 1
  BY <1>8
<1>10. /\ DOMAIN e = 1 .. N
       /\ \A i \in 1 .. N : e[i] = CHOOSE s \in O : Cardinality({t \in O : before(t, s)}) = i - 1
       /\ e = [i \in 1 .. N |-> e[i]]
  <2> HIDE DEF before
  <2>1. e = [i \in 1 .. N |-> CHOOSE s \in O : Cardinality({t \in O : before(t, s)}) = i - 1]
    BY DEF InOrder, N
  <2>2. DOMAIN e = 1 .. N /\ e = [i \in 1 .. N |-> e[i]]
    <3> DEFINE pick(i) == CHOOSE s \in O : Cardinality({t \in O : before(t, s)}) = i - 1
    <3>1. e = [i \in 1 .. N |-> pick(i)]
      BY <2>1
    <3> HIDE DEF e, pick
    <3>2. QED BY <3>1
  <2>3. ASSUME NEW i \in 1 .. N
        PROVE  e[i] = CHOOSE s \in O : Cardinality({t \in O : before(t, s)}) = i - 1
    BY <2>1
  <2>4. QED BY <2>2, <2>3
<1>11. \A i \in 1 .. N : e[i] \in O /\ Cardinality({t \in O : before(t, e[i])}) = i - 1
  <2> HIDE DEF e, before
  <2>1. QED BY <1>9, <1>10
<1>12. e \in [1 .. N -> O] /\ \A i \in 1 .. N : Cardinality(Below[e[i]]) = i - 1
  <2>1. \A i \in 1 .. N : Below[e[i]] = {t \in O : before(t, e[i])}
    <3> HIDE DEF e
    <3>1. QED BY <1>11
  <2>2. e \in [1 .. N -> O]
    <3> HIDE DEF e, before
    <3>1. QED BY <1>10, <1>11
  <2> HIDE DEF e, Below, before
  <2>3. QED BY <1>11, <2>1, <2>2
<1>13. Enumerates(e, O)
  <2> HIDE DEF e, Below
  <2>1. QED BY <1>8, <1>12
<1>14. QED BY <1>13 DEF Ranking

(* A second goalkeeper is brought forward: the list names whom it named.   *)
LEMMA BroughtForward ==
    ASSUME NEW s \in Seq(Nat), NEW i \in 1 .. Len(s), NEW at \in i + 1 .. Len(s)
    PROVE  LET t == SubSeq(s, 1, i - 1) \o <<s[at]>>
                    \o WithoutAt(SubSeq(s, i, Len(s)), at - i + 1)
           IN  t \in Seq(Nat) /\ Len(t) = Len(s) /\ ToSet(t) = ToSet(s)
<1> DEFINE n == Len(s)
           first == SubSeq(s, 1, i - 1)
           one == <<s[at]>>
           rest == SubSeq(s, i, n)
           j == at - i + 1
           last == WithoutAt(rest, j)
           front == first \o one
           t == front \o last
<1>0. /\ n \in Nat /\ i \in Nat /\ at \in Nat /\ 1 <= i /\ i < at /\ at <= n
      /\ at \in 1 .. n /\ s[at] \in Nat /\ DOMAIN s = 1 .. n
  <2>1. /\ n \in Nat /\ i \in Nat /\ at \in Nat /\ 1 <= i /\ i < at /\ at <= n /\ DOMAIN s = 1 .. n
    BY LenProperties
  <2>2. at \in 1 .. n
    BY <2>1
  <2>3. QED BY <2>1, <2>2, ElementOfSeq
<1>1. first \in Seq(Nat) /\ Len(first) = i - 1 /\ ToSet(first) = {s[k] : k \in 1 .. i - 1}
  <2>1. 1 \in 1 .. Len(s) + 1 /\ i - 1 \in 1 - 1 .. Len(s) /\ (i - 1) - 1 + 1 = i - 1
    BY <1>0
  <2>2. QED BY <2>1, SubSeqValues
<1>2. /\ rest \in Seq(Nat) /\ Len(rest) = n - i + 1
      /\ \A k \in 1 .. n - i + 1 : rest[k] = s[i + k - 1]
  <2>1. i \in 1 .. Len(s) + 1 /\ n \in i - 1 .. Len(s)
    BY <1>0
  <2>2. QED BY <2>1, SubSeqValues
<1>3. one \in Seq(Nat) /\ Len(one) = 1 /\ ToSet(one) = {s[at]}
  BY <1>0, SingleValue
<1> HIDE DEF first, one, rest
<1>4. j \in 1 .. n - i + 1
  BY <1>0
<1>5. /\ last \in Seq(Nat) /\ Len(last) = n - i
      /\ ToSet(last) = {rest[k] : k \in (1 .. n - i + 1) \ {j}}
  <2> HIDE DEF j
  <2>1. /\ last \in Seq(Nat) /\ Len(last) = Len(rest) - 1
        /\ ToSet(last) = {rest[k] : k \in (1 .. Len(rest)) \ {j}}
    BY <1>2, <1>4, WithoutAtValues
  <2>2. (n - i + 1) - 1 = n - i
    BY <1>0
  <2> HIDE DEF last, n
  <2>3. QED BY <1>2, <2>1, <2>2
<1> HIDE DEF last
<1>6. front \in Seq(Nat) /\ Len(front) = i /\ ToSet(front) = ToSet(first) \cup ToSet(one)
  <2>1. /\ front \in Seq(Nat) /\ Len(front) = Len(first) + Len(one)
        /\ ToSet(front) = ToSet(first) \cup ToSet(one)
    BY <1>1, <1>3, ConcatValues
  <2>2. (i - 1) + 1 = i
    BY <1>0
  <2> HIDE DEF front
  <2>3. QED BY <1>1, <1>3, <2>1, <2>2
<1> HIDE DEF front
<1>7. t \in Seq(Nat) /\ Len(t) = n /\ ToSet(t) = ToSet(front) \cup ToSet(last)
  <2>1. /\ t \in Seq(Nat) /\ Len(t) = Len(front) + Len(last)
        /\ ToSet(t) = ToSet(front) \cup ToSet(last)
    BY <1>5, <1>6, ConcatValues
  <2>2. i + (n - i) = n
    BY <1>0
  <2> HIDE DEF t, n
  <2>3. QED BY <1>5, <1>6, <2>1, <2>2
<1>8. ToSet(t) = ToSet(s)
  <2>1. ToSet(s) = {s[k] : k \in 1 .. n}
    BY <1>0 DEF ToSet
  <2>2. \A k \in (1 .. n - i + 1) \ {j} : rest[k] \in ToSet(s)
    <3>1. SUFFICES ASSUME NEW k \in (1 .. n - i + 1) \ {j} PROVE rest[k] \in ToSet(s)
      OBVIOUS
    <3>2. rest[k] = s[i + k - 1]
      BY <1>2
    <3>3. i + k - 1 \in 1 .. n
      BY <1>0
    <3>4. QED BY <2>1, <3>2, <3>3
  <2>3. \A x \in ToSet(t) : x \in ToSet(s)
    <3>1. \A k \in 1 .. i - 1 : k \in 1 .. n
      BY <1>0
    <3>2. QED BY <1>0, <1>1, <1>3, <1>5, <1>6, <1>7, <2>1, <2>2, <3>1
  <2>4. \A k \in 1 .. n : s[k] \in ToSet(t)
    <3>1. SUFFICES ASSUME NEW k \in 1 .. n PROVE s[k] \in ToSet(t)
      OBVIOUS
    <3>2. CASE k \in 1 .. i - 1
      BY <1>1, <1>6, <1>7, <3>2
    <3>3. CASE k = at
      BY <1>3, <1>6, <1>7, <3>3
    <3>4. CASE k \notin 1 .. i - 1 /\ k # at
      <4>1. k - i + 1 \in (1 .. n - i + 1) \ {j} /\ i + (k - i + 1) - 1 = k
        BY <1>0, <3>4
      <4>2. rest[k - i + 1] = s[k]
        BY <1>2, <4>1
      <4>3. QED BY <1>5, <1>7, <4>1, <4>2
    <3>5. QED BY <3>2, <3>3, <3>4
  <2>5. QED BY <2>1, <2>3, <2>4
<1>9. SubSeq(s, 1, i - 1) \o <<s[at]>> \o WithoutAt(SubSeq(s, i, Len(s)), at - i + 1) = t
  BY DEF t, front, first, one, last, rest
<1>10. QED BY <1>7, <1>8, <1>9

(* order_bench leaves the XI alone and drops nobody.                       *)
LEMMA BenchHead ==
    ASSUME NEW c, HasRoster(c), IsLineup(c.lineup), NEW n \in 0 .. Size,
           Active(c.ids) = 1 .. n, HeadOf(c.lineup, n) = 1 .. n, NEW signed
    PROVE  LET d == BenchOrdered(c, signed)
           IN  /\ Reheads(d.lineup, c.lineup, n)
               /\ d.lineup[1] = c.lineup[1] /\ d.form = c.form
<1> DEFINE l == c.lineup
           bench == SubSeq(l, Starters + 1, n)
           B == ToSet(bench)
           S == {s \in B : c.ids[s] \in signed}
           signings == Ascending(S)
           others == Kept(bench, B \ ToSet(signings))
           O == B \ S
           before(s, t) == BenchedBefore(c, others, s, t)
           ranked == IF AllRated(c, ToSet(others)) THEN InOrder(ToSet(others), before) ELSE others
           ordered == signings \o ranked
           covered == Least(Matchday - Starters, Len(ordered))
           isGk(i) == PosAt(c, ordered[i], NoOver) = Gk
           late == {i \in covered + 1 .. Len(ordered) : isGk(i)}
           at == CHOOSE i \in late : \A j \in late : i <= j
           final == IF late = {} \/ \E i \in 1 .. covered : isGk(i) THEN ordered
                    ELSE SubSeq(ordered, 1, covered - 1) \o <<ordered[at]>>
                         \o WithoutAt(SubSeq(ordered, covered, Len(ordered)), at - covered + 1)
           xi == SubSeq(l, 1, Starters)
           tail == SubSeq(l, n + 1, Size)
           d == BenchOrdered(c, signed)
<1>0. /\ n \in Nat /\ Size \in Nat /\ n <= Size /\ l \in Seq(Nat) /\ Len(l) = Size
      /\ Count(c) = n /\ Starters \in Nat /\ 1 <= Starters /\ Matchday \in Nat
      /\ Starters < Matchday
  BY RosterAssumption, LineupSeq, CountOf
<1>1. d = IF n <= Starters THEN c ELSE [c EXCEPT !.lineup = xi \o final \o tail]
  BY <1>0 DEF BenchOrdered
<1>2. CASE n <= Starters
  BY <1>1, <1>2 DEF Reheads
<1>3. CASE Starters < n
  <2>1. /\ bench \in Seq(Nat) /\ Len(bench) = n - Starters
        /\ \A k \in 1 .. n - Starters : bench[k] = l[Starters + k]
        /\ B = {l[r] : r \in Starters + 1 .. n}
    <3>1. /\ Starters + 1 \in 1 .. Len(l) + 1 /\ n \in (Starters + 1) - 1 .. Len(l)
          /\ n - (Starters + 1) + 1 = n - Starters
          /\ \A k \in 1 .. n - Starters : (Starters + 1) + k - 1 = Starters + k
      BY <1>0, <1>3
    <3>2. /\ bench \in Seq(Nat) /\ Len(bench) = n - (Starters + 1) + 1
          /\ \A k \in 1 .. n - (Starters + 1) + 1 : bench[k] = l[(Starters + 1) + k - 1]
          /\ B = {l[r] : r \in Starters + 1 .. n}
      BY <1>0, <3>1, SubSeqValues
    <3> HIDE DEF bench, B
    <3>3. QED BY <3>1, <3>2
  <2>2. /\ \A r \in 1 .. n : l[r] \in 1 .. n
        /\ \A i, j \in 1 .. n : l[i] = l[j] => i = j
    <3>1. {l[r] : r \in 1 .. n} = 1 .. n
      BY DEF HeadOf
    <3>2. QED BY <1>0, <3>1, OntoIsOnce
  <2>3. B \subseteq 1 .. n /\ \A s \in B : Overall[c.ids[s]] \in Int
    <3>1. \A r \in Starters + 1 .. n : r \in 1 .. n
      BY <1>0, <1>3
    <3>2. B \subseteq 1 .. n
      BY <2>1, <2>2, <3>1
    <3>3. \A s \in 1 .. n : c.ids[s] \in Players
      <4>1. \A s \in 1 .. n : s \in Active(c.ids)
        OBVIOUS
      <4>2. QED BY <4>1 DEF HasRoster, Active
    <3>4. QED BY <3>2, <3>3, RosterAssumption
  <2>4. DOMAIN bench = 1 .. n - Starters
    BY <2>1, LenProperties
  <2>5. /\ \A i, j \in 1 .. n - Starters : bench[i] = bench[j] => i = j
        /\ {bench[i] : i \in 1 .. n - Starters} = B
    <3>1. \A i, j \in 1 .. n - Starters : bench[i] = bench[j] => i = j
      <4>1. SUFFICES ASSUME NEW i \in 1 .. n - Starters, NEW j \in 1 .. n - Starters,
                            bench[i] = bench[j]
                     PROVE  i = j
        OBVIOUS
      <4>2. Starters + i \in 1 .. n /\ Starters + j \in 1 .. n /\ i \in Int /\ j \in Int
        BY <1>0, <1>3
      <4>3. Starters + i = Starters + j
        BY <2>1, <2>2, <4>1, <4>2
      <4>4. QED BY <1>0, <4>2, <4>3
    <3>2. {bench[i] : i \in 1 .. n - Starters} = B
      BY <2>4 DEF ToSet
    <3>3. QED BY <3>1, <3>2
  <2> HIDE DEF bench, B
  <2>6. Enumerates(signings, S) /\ ToSet(signings) = S
    <3>0. IsFiniteSet(1 .. n)
      BY <1>0, FS_Interval
    <3>1. S \in SUBSET (1 .. n) /\ S \in SUBSET Int
      <4>1. \A s \in 1 .. n : s \in Int
        BY <1>0
      <4>2. \A s \in S : s \in 1 .. n
        BY <2>3
      <4> HIDE DEF S
      <4>3. QED BY <4>1, <4>2
    <3> HIDE DEF S
    <3>2. IsFiniteSet(S)
      BY <3>0, <3>1, FS_Subset
    <3>3. Enumerates(signings, S)
      BY <3>1, <3>2, AscendingEnumerates
    <3> HIDE DEF signings
    <3>4. QED BY <3>3, EnumerationSeq
  <2> HIDE DEF signings
  <2>7. Enumerates(others, O) /\ ToSet(others) = O
    <3>1. others = Kept(bench, O)
      BY <2>6
    <3>2. n - Starters \in Nat
      BY <1>0, <1>3
    <3> HIDE DEF O, others
    <3>3. Enumerates(others, {bench[i] : i \in 1 .. n - Starters} \cap O)
      BY <2>4, <2>5, <3>1, <3>2, KeptEnumerates
    <3>4. B \cap O = O
      BY DEF O
    <3>5. Enumerates(others, O)
      BY <2>5, <3>3, <3>4
    <3>6. QED BY <3>5, EnumerationSeq
  <2>8. Enumerates(ranked, O)
    <3>1. \A s \in O : Overall[c.ids[s]] \in Int
      BY <2>3
    <3> HIDE DEF O, others
    <3>2. Enumerates(Ranking(c, others, O), O)
      BY <2>7, <3>1, BenchRanked
    <3>3. ranked = Ranking(c, others, ToSet(others)) \/ ranked = others
      BY DEF Ranking
    <3> HIDE DEF ranked
    <3>4. QED BY <2>7, <3>2, <3>3
  <2> HIDE DEF ranked
  <2>9. Enumerates(ordered, B)
    <3>1. S \cap O = {} /\ S \cup O = B
      OBVIOUS
    <3> HIDE DEF S, O
    <3>2. Enumerates(ordered, S \cup O)
      BY <2>6, <2>8, <3>1, ConcatEnumerates
    <3>3. QED BY <3>1, <3>2
  <2> HIDE DEF ordered
  <2>10. Cardinality(B) = n - Starters
    <3> DEFINE X == {bench[i] : i \in 1 .. n - Starters}
    <3>1. n - Starters \in Nat
      BY <1>0, <1>3
    <3>2. bench = [r \in 1 .. n - Starters |-> bench[r]]
      BY <2>1, <2>4
    <3> DEFINE k == n - Starters
    <3>3. Cardinality(X) = k
      <4>1. k \in Nat /\ bench = [r \in 1 .. k |-> bench[r]]
        BY <3>1, <3>2
      <4>2. \A i, j \in 1 .. k : bench[i] = bench[j] => i = j
        BY <2>5
      <4>3. X = {bench[r] : r \in 1 .. k}
        OBVIOUS
      <4> HIDE DEF k, X
      <4>4. /\ Enumerates(bench, {bench[r] : r \in 1 .. k})
            /\ Cardinality({bench[r] : r \in 1 .. k}) = k
        BY <4>1, <4>2, ListEnumerates, SMTT(30)
      <4>5. QED BY <4>3, <4>4
    <3>4. QED BY <2>5, <3>3
  <2>11. /\ ordered \in Seq(Nat) /\ Len(ordered) = n - Starters /\ ToSet(ordered) = B
    <3>1. ordered \in Seq(B) /\ Len(ordered) = Cardinality(B) /\ ToSet(ordered) = B
      BY <2>9, EnumerationSeq
    <3>2. ordered \in [1 .. Len(ordered) -> Nat]
      <4>1. B \subseteq Nat
        BY <1>0, <2>3
      <4>2. ordered \in [1 .. Len(ordered) -> B]
        BY <3>1, LenProperties
      <4>3. QED BY <4>1, <4>2
    <3>3. Len(ordered) \in Nat
      BY <3>1, LenProperties
    <3>4. QED BY <2>10, <3>1, <3>2, <3>3
  <2>12. /\ final \in Seq(Nat) /\ Len(final) = n - Starters /\ ToSet(final) = B
    <3>1. CASE late = {} \/ \E i \in 1 .. covered : isGk(i)
      <4>1. final = ordered
        BY <3>1
      <4> HIDE DEF final
      <4>2. QED BY <2>11, <4>1
    <3>2. CASE ~(late = {} \/ \E i \in 1 .. covered : isGk(i))
      <4>1. covered \in 1 .. Len(ordered)
        BY <1>0, <1>3, <2>11 DEF Least
      <4>2. at \in covered + 1 .. Len(ordered)
        <5>1. late \subseteq Nat /\ late # {} /\ late \subseteq covered + 1 .. Len(ordered)
          BY <1>0, <3>2, <4>1
        <5> HIDE DEF late
        <5>2. \E i \in late : \A j \in late : i <= j
          BY <5>1, Renumbering!LeastNatural
        <5>3. at \in late
          BY <5>2
        <5> HIDE DEF at
        <5>4. QED BY <5>1, <5>3
      <4> DEFINE moved == SubSeq(ordered, 1, covered - 1) \o <<ordered[at]>>
                          \o WithoutAt(SubSeq(ordered, covered, Len(ordered)), at - covered + 1)
      <4>3. final = moved
        BY <3>2
      <4>4. moved \in Seq(Nat) /\ Len(moved) = Len(ordered) /\ ToSet(moved) = ToSet(ordered)
        <5> HIDE DEF covered, at
        <5>1. QED BY <2>11, <4>1, <4>2, BroughtForward
      <4> HIDE DEF moved, final
      <4>5. QED BY <2>11, <4>3, <4>4
    <3>3. QED BY <3>1, <3>2
  <2> HIDE DEF final
  <2>13. /\ xi \in Seq(Nat) /\ Len(xi) = Starters /\ ToSet(xi) = {l[r] : r \in 1 .. Starters}
         /\ xi[1] = l[1]
    <3>1. 1 \in 1 .. Len(l) + 1 /\ Starters \in 1 - 1 .. Len(l) /\ Starters - 1 + 1 = Starters
          /\ 1 \in 1 .. Starters /\ 1 + 1 - 1 = 1
      BY <1>0, <1>3
    <3>2. /\ xi \in Seq(Nat) /\ Len(xi) = Starters - 1 + 1
          /\ \A k \in 1 .. Starters - 1 + 1 : xi[k] = l[1 + k - 1]
          /\ ToSet(xi) = {l[r] : r \in 1 .. Starters}
      BY <1>0, <3>1, SubSeqValues
    <3> HIDE DEF xi
    <3>3. QED BY <3>1, <3>2
  <2> HIDE DEF xi
  <2> DEFINE h == xi \o final
             m == h \o tail
  <2>14. /\ h \in Seq(Nat) /\ Len(h) = n /\ ToSet(h) = 1 .. n /\ h[1] = l[1]
    <3>1. /\ h \in Seq(Nat) /\ Len(h) = Len(xi) + Len(final)
          /\ \A i \in 1 .. Len(xi) : h[i] = xi[i]
          /\ ToSet(h) = ToSet(xi) \cup ToSet(final)
      BY <2>12, <2>13, ConcatValues
    <3> HIDE DEF h
    <3>2. Len(h) = n
      BY <1>0, <1>3, <2>12, <2>13, <3>1
    <3>3. h[1] = l[1]
      BY <1>0, <2>13, <3>1
    <3>4. ToSet(h) = 1 .. n
      <4>1. \A r : r \in 1 .. n <=> (r \in 1 .. Starters \/ r \in Starters + 1 .. n)
        BY <1>0, <1>3
      <4>2. {l[r] : r \in 1 .. n} = 1 .. n
        BY DEF HeadOf
      <4>3. QED BY <2>1, <2>12, <2>13, <3>1, <4>1, <4>2
    <3>5. QED BY <3>1, <3>2, <3>3, <3>4
  <2> HIDE DEF h
  <2>15. Reheads(m, l, n) /\ m[1] = l[1]
    <3>1. Len(h) <= Size /\ tail = SubSeq(l, Len(h) + 1, Size)
      BY <1>0, <2>14
    <3> HIDE DEF tail
    <3>2. /\ IsLineup(m) /\ HeadOf(m, Len(h)) = ToSet(h)
          /\ \A r \in 1 .. Len(h) : m[r] = h[r]
          /\ \A r \in Len(h) + 1 .. Size : m[r] = l[r]
      BY <2>14, <3>1, NewHead
    <3>3. 1 \in 1 .. n
      BY <1>0, <1>3
    <3> HIDE DEF m
    <3>4. QED BY <2>14, <3>2, <3>3 DEF Reheads
  <2>16. d = [c EXCEPT !.lineup = m]
    <3>1. ~(n <= Starters)
      BY <1>0, <1>3
    <3>2. QED BY <1>1, <3>1 DEF h
  <2> HIDE DEF m
  <2>17. d.lineup = m /\ d.form = c.form
    <3> HIDE DEF d
    <3>1. QED BY <2>16 DEF HasRoster
  <2>18. QED BY <2>15, <2>17
<1>4. QED BY <1>0, <1>2, <1>3

(* What repairing the game plans makes of a club, whatever its lineup was. *)
PlanRepaired(c, d) ==
    /\ SameRoster(c, d) /\ Reheads(d.lineup, c.lineup, Count(c))
    /\ KeeperInGoal(d, NoOver)

(* A repair of the game plan, with or without the starters aligned: every  *)
(* slot in use has a role, the tail is as it was, and a goalkeeper is in   *)
(* goal if the club has one.                                               *)
LEMMA RepairedPlan ==
    ASSUME NEW c, HasRoster(c), RosterSound(c), IsLineup(c.lineup),
           NEW signed, NEW align, NEW preserve,
           NEW d \in GamePlanRepaired(c, signed, align, preserve)
    PROVE  PlanRepaired(c, d)
<1> DEFINE n == Count(c)
           l == c.lineup
           InPlan(e) == SameRoster(c, e) /\ Reheads(e.lineup, l, n)
<1>0. /\ n \in 0 .. Size /\ n \in Nat /\ Active(c.ids) = 1 .. n
  BY RosterBounds, RosterAssumption
<1>1. SameRoster(c, d)
  BY RepairedRoster
<1>2. CASE Active(c.ids) = {}
  <2>1. d = c
    BY <1>2 DEF GamePlanRepaired
  <2>2. KeeperInGoal(c, NoOver)
    BY <1>2 DEF KeeperInGoal
  <2>3. HeadOf(l, n) = {} /\ 1 .. n = {}
    BY <1>0, <1>2 DEF HeadOf
  <2> HIDE DEF n
  <2>4. Reheads(l, l, n)
    BY <2>3 DEF Reheads
  <2>5. QED BY <1>1, <2>1, <2>2, <2>4 DEF PlanRepaired, n
<1>3. CASE Active(c.ids) # {}
  <2>0. 1 \in 1 .. n
    BY <1>0, <1>3
  <2>1. PICK e \in IF align THEN StartersAligned(ReferencesRepaired(c)) ELSE {ReferencesRepaired(c)} :
           d = CaptainFilled(BenchSettled(KeeperRepaired(e, NoOver, preserve), signed, align))
    BY <1>3 DEF GamePlanRepaired
  <2> DEFINE b == ReferencesRepaired(c)
             f == KeeperRepaired(e, NoOver, preserve)
             g == BenchSettled(f, signed, align)
  <2>2. InPlan(b)
    <3>1. SameRoster(c, b)
      <4>1. \E x : ReferencesRepaired(c) = [c EXCEPT !.lineup = x]
        BY DEF ReferencesRepaired
      <4>2. PICK x : b = [c EXCEPT !.lineup = x]
        BY <4>1
      <4> HIDE DEF b
      <4>3. QED BY <4>2, PlanFields
    <3>2. Reheads(b.lineup, l, n)
      BY <1>0, ReferencesHead
    <3>3. QED BY <3>1, <3>2
  <2>3. \A x : InPlan(x) => /\ HasRoster(x) /\ IsLineup(x.lineup) /\ HeadOf(x.lineup, n) = 1 .. n
                            /\ Active(x.ids) = 1 .. n /\ Count(x) = n
    BY <1>0, SameRosterSound DEF SameRoster, Reheads
  <2>4. \A x, y : InPlan(x) /\ SameRoster(x, y) /\ Reheads(y.lineup, x.lineup, n) => InPlan(y)
    BY SameRosterChains DEF Reheads
  <2> HIDE DEF n, b
  <2>5. InPlan(e)
    <3>1. CASE e = b
      BY <2>2, <3>1
    <3>2. CASE e \in StartersAligned(b)
      <4>1. Reheads(e.lineup, b.lineup, n)
        BY <1>0, <2>2, <2>3, <3>2, AlignedHead
      <4>2. SameRoster(b, e)
        <5>1. \A xi : \E x : WithXI(b, xi) = [b EXCEPT !.lineup = x]
          BY DEF WithXI
        <5>2. \A primary, candidates, kept : \A y \in Aligned(b, primary, candidates, kept) :
                 \E xi : y = WithXI(b, xi)
          BY DEF Aligned
        <5>3. e = b \/ \E x : e = [b EXCEPT !.lineup = x]
          BY <3>2, <5>1, <5>2 DEF StartersAligned, KeptOr
        <5>4. HasRoster(b)
          BY <2>2 DEF SameRoster
        <5>5. SameRoster(b, b) /\ \A x : SameRoster(b, [b EXCEPT !.lineup = x])
          BY <5>4, PlanFields
        <5>6. QED BY <5>3, <5>5
      <4>3. QED BY <2>2, <2>4, <4>1, <4>2
    <3>3. QED BY <2>1, <3>1, <3>2 DEF b
  <2>6. InPlan(f) /\ KeeperInGoal(f, NoOver)
    <3>1. HasRoster(e) /\ IsLineup(e.lineup) /\ Count(e) = n /\ HeadOf(e.lineup, n) = Active(e.ids)
      BY <1>0, <2>3, <2>5
    <3>3. Permutes(f.lineup, e.lineup, Count(e)) /\ KeeperInGoal(f, NoOver)
      BY <1>0, <3>1, KeeperPermutes
    <3>4. SameRoster(e, f)
      BY <3>1, KeeperRoster
    <3> HIDE DEF f
    <3>5. Reheads(f.lineup, e.lineup, n)
      BY <2>3, <2>5, <3>1, <3>3 DEF Permutes, Reheads
    <3>6. QED BY <2>4, <2>5, <3>3, <3>4, <3>5
  <2> HIDE DEF f
  <2>7. InPlan(g) /\ KeeperInGoal(g, NoOver)
    <3> DEFINE o == BenchOrdered(f, signed)
    <3>1. /\ HasRoster(f) /\ IsLineup(f.lineup) /\ Active(f.ids) = 1 .. n
          /\ HeadOf(f.lineup, n) = 1 .. n /\ Count(f) = n
      BY <2>3, <2>6
    <3>2. Reheads(o.lineup, f.lineup, n) /\ o.lineup[1] = f.lineup[1] /\ o.form = f.form
      BY <1>0, <3>1, BenchHead
    <3>3. SameRoster(f, o)
      <4>1. o = f \/ \E x : o = [f EXCEPT !.lineup = x]
        BY DEF BenchOrdered
      <4>2. SameRoster(f, f) /\ \A x : SameRoster(f, [f EXCEPT !.lineup = x])
        BY <3>1, PlanFields
      <4> HIDE DEF o
      <4>3. QED BY <4>1, <4>2
    <3> HIDE DEF o
    <3>4. InPlan(o)
      BY <2>4, <2>6, <3>2, <3>3
    <3>5. KeeperInGoal(o, NoOver)
      BY <2>6, <3>2, <3>3, SamePositions DEF KeeperInGoal, SameRoster
    <3>6. g = o \/ g = f
      BY DEF BenchSettled, o
    <3> HIDE DEF g
    <3>7. QED BY <2>6, <3>4, <3>5, <3>6
  <2> HIDE DEF g
  <2>8. \E x : d = [g EXCEPT !.captain = x]
    BY <2>1 DEF CaptainFilled, LastBy, g, f
  <2>9. PICK x : d = [g EXCEPT !.captain = x]
    BY <2>8
  <2>10. d.lineup = g.lineup /\ d.form = g.form /\ SameRoster(g, d)
    <3>1. HasRoster(g)
      BY <2>7 DEF SameRoster
    <3>2. QED BY <2>9, <3>1, PlanFields DEF HasRoster
  <2>11. KeeperInGoal(d, NoOver)
    BY <2>7, <2>10, SamePositions DEF KeeperInGoal, SameRoster
  <2>12. Reheads(d.lineup, l, n)
    BY <2>7, <2>10
  <2>13. QED BY <1>1, <2>11, <2>12 DEF PlanRepaired, n
<1>4. QED BY <1>2, <1>3

(* A repaired game plan is a lineup in order, if it was one.               *)
LEMMA RepairKeepsPlan ==
    ASSUME NEW c, HasRoster(c), RosterSound(c), IsLineup(c.lineup),
           NEW d, PlanRepaired(c, d)
    PROVE  PlanKept(c, d, NoOver)
<1>1. /\ RosterSound(d) /\ IsLineup(d.lineup) /\ Count(d) = Count(c) /\ Count(c) \in 0 .. Size
      /\ Reheads(d.lineup, c.lineup, Count(c)) /\ KeeperInGoal(d, NoOver)
  BY RosterBounds, SameRosterSound DEF PlanRepaired, Reheads
<1>2. Orders(c.lineup, Count(c)) => Orders(d.lineup, Count(c))
  BY <1>1, ReheadedOrders
<1>3. QED BY <1>1, <1>2, StandardOrders DEF PlanKept

(* A club before and after an operation.                                   *)
StepSound(c, d, over) == IsLineup(d.lineup) /\ LineupSound(c, d, over)

(* What keeps the game plan is a step the property allows.                 *)
LEMMA KeptIsSound ==
    ASSUME NEW c, NEW d, NEW over, PlanKept(c, d, over)
    PROVE  StepSound(c, d, over)
BY DEF PlanKept, StepSound, LineupSound

(* So is what changes numbers, the captain or the formation only, at a     *)
(* club that nobody is signed for.                                         *)
LEMMA SameIsSound ==
    ASSUME NEW c, IsLineup(c.lineup), NEW d, d.ids = c.ids, d.lineup = c.lineup,
           d.form = c.form \/ d.form[1] = Gk,
           NEW over, over.player \notin Members(c)
    PROVE  StepSound(c, d, over)
<1>1. /\ Active(d.ids) = Active(c.ids) /\ Members(d) = Members(c) /\ Count(d) = Count(c)
  BY DEF Active, Members, Count
<1>2. Standard(c) => Standard(d)
  BY <1>1 DEF Standard
<1>3. KeeperInGoal(c, NoOver) => KeeperInGoal(d, over)
  <2>1. KeeperInGoal(c, NoOver) => KeeperInGoal(d, NoOver)
    BY <1>1, SamePositions DEF KeeperInGoal
  <2>2. QED BY <1>1, <2>1, SigningElsewhere
<1>4. QED BY <1>2, <1>3 DEF StepSound, LineupSound

(* An operation that signs nobody signs nobody of a club.                  *)
LEMMA NobodySigned == \A c : NoOver.player \notin Members(c)
BY DEF NoOver, Members, Active

(* Every club's lineup is one.                                             *)
LineupFacts == RosterFacts /\ \A k \in Clubs : IsLineup(save[k].lineup)

(* An operation on one club is sound for all when it is for that one.      *)
LEMMA OneClubSound ==
    ASSUME LineupFacts, NEW k \in Clubs, NEW d, NEW over, StepSound(save[k], d, over),
           \A j \in Clubs \ {k} : over.player \notin Members(save[j]),
           save' = [save EXCEPT ![k] = d]
    PROVE  \A j \in Clubs : StepSound(save[j], save'[j], over)
<1>1. save'[k] = d /\ \A j \in Clubs \ {k} : save'[j] = save[j]
  BY DEF LineupFacts, RosterFacts
<1>2. \A j \in Clubs : IsLineup(save[j].lineup)
  BY DEF LineupFacts
<1>3. ASSUME NEW j \in Clubs, j # k PROVE StepSound(save[j], save'[j], over)
  <2>1. save'[j] = save[j]
    BY <1>1, <1>3
  <2>2. StepSound(save[j], save[j], over)
    BY <1>2, <1>3, SameIsSound
  <2>3. QED BY <2>1, <2>2
<1>4. QED BY <1>1, <1>3

(* Moving a player (ops.rs, move_player).                                  *)
LEMMA MoveLineups ==
    ASSUME LineupFacts, MovePlayer
    PROVE  \A k \in Clubs : StepSound(save[k], save'[k], signing')
<1>1. PICK from, to \in Clubs, p \in Players :
         \E label \in Labels(p), planned \in Plans(save[to], p) :
            /\ CanMove(save, transferred, p, from, to, planned, TRUE)
            /\ save' = Moved(save, transferred, p, from, to, planned, 0, label)
            /\ signing' = SignedAs(p, label)
  BY DEF MovePlayer, SignedAs
<1>2. PICK label \in Labels(p), planned \in Plans(save[to], p) :
            /\ CanMove(save, transferred, p, from, to, planned, TRUE)
            /\ save' = Moved(save, transferred, p, from, to, planned, 0, label)
            /\ signing' = SignedAs(p, label)
  BY <1>1
<1> DEFINE number == ShirtOf(save[from], p)
           d == Left(save[from], p)
           e == Signed(save[to], p, number, label,
                       Casualty(save[to], p, planned, {}, transferred))
           over == SignedAs(p, label)
<1>3. /\ from # to /\ p \in Members(save[from]) /\ p \notin Members(save[to])
      /\ ~OverflowRefused(save[to], p, planned, TRUE, {}, transferred)
  BY <1>2 DEF CanMove
<1>4. /\ DOMAIN save = Clubs
      /\ \A k \in Clubs : HasRoster(save[k]) /\ RosterSound(save[k]) /\ IsLineup(save[k].lineup)
  BY DEF LineupFacts, RosterFacts, RostersSound
<1>4a. over.player = p /\ signing' = over /\ \A k \in Clubs \ {from} : p \notin Members(save[k])
  BY <1>2, <1>4 DEF SignedAs, CanMove, ClubsHolding
<1> HIDE DEF over
<1>5. save' = [[save EXCEPT ![from] = d] EXCEPT ![to] = e]
  BY <1>2, <1>3, <1>4 DEF Moved
<1>6. label \in Codes \cup {Unknown, NoLabel}
  BY SavesAssumption DEF Labels
<1>7. PlanKept(save[from], d, over)
  <2>1. PlanKept(save[from], d, NoOver) /\ p \notin Members(d)
    BY <1>3, <1>4, LeftPlan, LeftRoster
  <2> HIDE DEF d
  <2>2. QED BY <1>4a, <2>1, SigningElsewhere DEF PlanKept
<1>8. PlanKept(save[to], e, over)
  <2>1. /\ HasRoster(save[to]) /\ RosterSound(save[to]) /\ IsLineup(save[to].lineup)
        /\ p \in Players \ Members(save[to])
        /\ HasRoom(save[to], p, planned, {}, transferred)
    BY <1>3, <1>4 DEF HasRoom
  <2>2. e = Signed(save[to], p, number, label,
                   Casualty(save[to], p, planned, {}, transferred))
    OBVIOUS
  <2> HIDE DEF e, number
  <2>3. QED BY <1>6, <2>1, <2>2, SignedPlan DEF over
<1> HIDE DEF d, e
<1>9. /\ save'[from] = d /\ save'[to] = e
      /\ \A k \in Clubs \ {from, to} : save'[k] = save[k]
  BY <1>3, <1>4, <1>5
<1>10. ASSUME NEW k \in Clubs PROVE StepSound(save[k], save'[k], over)
  <2>1. CASE k \in {from, to}
    BY <1>7, <1>8, <1>9, <2>1, KeptIsSound
  <2>2. CASE k \notin {from, to}
    <3>1. save'[k] = save[k]
      BY <1>9, <2>2
    <3>2. StepSound(save[k], save[k], over)
      BY <1>4, <1>4a, <2>2, SameIsSound
    <3>3. QED BY <3>1, <3>2
  <2>3. QED BY <2>1, <2>2
<1>11. QED BY <1>4a, <1>10

(* Signing a free player (ops.rs, add_player).                             *)
LEMMA AddLineups ==
    ASSUME LineupFacts, AddPlayer
    PROVE  \A k \in Clubs : StepSound(save[k], save'[k], signing')
<1>1. PICK to \in Clubs, p \in Players, number \in Numbers :
         \E label \in Labels(p) :
            /\ CanAdd(save, transferred, p, to, Nobody, TRUE, {})
            /\ save' = Added(save, transferred, p, to, Nobody, number, label, {})
            /\ signing' = SignedAs(p, label)
  BY DEF AddPlayer, SignedAs
<1>2. PICK label \in Labels(p) :
            /\ CanAdd(save, transferred, p, to, Nobody, TRUE, {})
            /\ save' = Added(save, transferred, p, to, Nobody, number, label, {})
            /\ signing' = SignedAs(p, label)
  BY <1>1
<1> DEFINE d == Signed(save[to], p, number, label,
                       Casualty(save[to], p, Nobody, {}, transferred))
<1>3. /\ DOMAIN save = Clubs /\ HasRoster(save[to]) /\ RosterSound(save[to])
      /\ IsLineup(save[to].lineup)
  BY DEF LineupFacts, RosterFacts, RostersSound
<1>4. /\ \A k \in Clubs : p \notin Members(save[k])
      /\ ~OverflowRefused(save[to], p, Nobody, TRUE, {}, transferred)
  BY <1>2, <1>3 DEF CanAdd, ClubsHolding
<1>5. label \in Codes \cup {Unknown, NoLabel}
  BY SavesAssumption DEF Labels
<1>6. save' = [save EXCEPT ![to] = d]
  BY <1>2, <1>3 DEF Added
<1>7. PlanKept(save[to], d, SignedAs(p, label))
  <2>1. p \in Players \ Members(save[to]) /\ HasRoom(save[to], p, Nobody, {}, transferred)
    BY <1>4 DEF HasRoom
  <2>2. d = Signed(save[to], p, number, label,
                   Casualty(save[to], p, Nobody, {}, transferred))
    OBVIOUS
  <2> HIDE DEF d
  <2>3. QED BY <1>3, <1>5, <2>1, <2>2, SignedPlan
<1> HIDE DEF d
<1>8. SignedAs(p, label).player = p
  BY DEF SignedAs
<1>9. QED BY <1>2, <1>4, <1>6, <1>7, <1>8, KeptIsSound, OneClubSound

(* Releasing a player (ops.rs, release_player).                            *)
LEMMA ReleaseLineups ==
    ASSUME LineupFacts, ReleasePlayer
    PROVE  \A k \in Clubs : StepSound(save[k], save'[k], signing')
<1>1. PICK from \in Clubs, p \in Players :
         CanRelease(save, p, from) /\ save' = Released(save, p, from) /\ signing' = NoOver
  BY DEF ReleasePlayer
<1> DEFINE d == Left(save[from], p)
<1>2. /\ DOMAIN save = Clubs /\ HasRoster(save[from]) /\ RosterSound(save[from])
      /\ IsLineup(save[from].lineup)
      /\ p \in Members(save[from]) /\ save' = [save EXCEPT ![from] = d]
  BY <1>1 DEF LineupFacts, RosterFacts, RostersSound, CanRelease, Released
<1>3. PlanKept(save[from], d, NoOver)
  BY <1>2, LeftPlan
<1> HIDE DEF d
<1>4. QED BY <1>1, <1>2, <1>3, KeptIsSound, OneClubSound, NobodySigned

(* Changing numbers (ops.rs, update_player_shirt_numbers).                 *)
LEMMA ShirtLineups ==
    ASSUME LineupFacts, UpdateShirts
    PROVE  \A k \in Clubs : StepSound(save[k], save'[k], signing')
<1>1. PICK k \in Clubs, m \in Numbers, n \in Numbers : \E p, q \in Members(save[k]) :
         LET updates == <<<<p, m>>, <<q, n>>>>
         IN  /\ CanRenumber(save[k], updates)
             /\ save' = [save EXCEPT ![k] = Renumbered(@, updates)]
  BY DEF UpdateShirts
<1>2. PICK p \in Members(save[k]), q \in Members(save[k]) :
         LET updates == <<<<p, m>>, <<q, n>>>>
         IN  /\ CanRenumber(save[k], updates)
             /\ save' = [save EXCEPT ![k] = Renumbered(@, updates)]
  BY <1>1
<1> DEFINE updates == <<<<p, m>>, <<q, n>>>>
           d == Renumbered(save[k], updates)
<1>3. /\ DOMAIN save = Clubs /\ HasRoster(save[k]) /\ RosterSound(save[k])
      /\ IsLineup(save[k].lineup)
      /\ CanRenumber(save[k], updates) /\ save' = [save EXCEPT ![k] = d]
  BY <1>2 DEF LineupFacts, RosterFacts, RostersSound
<1>4. DOMAIN updates = 1 .. 2 /\ \A i \in 1 .. 2 : updates[i][2] \in Nat
  BY SavesAssumption
<1> HIDE DEF updates
<1>5. d.ids = save[k].ids /\ d.lineup = save[k].lineup /\ d.form = save[k].form
  BY <1>3, <1>4, RenumberedRoster
<1> HIDE DEF d
<1>6. StepSound(save[k], d, NoOver) /\ signing' = NoOver
  BY <1>3, <1>5, SameIsSound, NobodySigned DEF UpdateShirts
<1>7. QED BY <1>3, <1>6, OneClubSound, NobodySigned

(* Setting captains and formations, and repairing (repair.rs).             *)
LEMMA PartLineups ==
    ASSUME LineupFacts, SetCaptain \/ SetFormation \/ RepairGamePlans
    PROVE  \A k \in Clubs : StepSound(save[k], save'[k], signing')
<1>1. /\ DOMAIN save = Clubs
      /\ \A k \in Clubs : HasRoster(save[k]) /\ RosterSound(save[k]) /\ IsLineup(save[k].lineup)
  BY DEF LineupFacts, RosterFacts, RostersSound
<1>1a. signing' = NoOver
  BY DEF SetCaptain, SetFormation, RepairGamePlans
<1>2. CASE SetCaptain
  <2>1. PICK k \in Clubs : \E p \in Members(save[k]) :
           save' = [save EXCEPT ![k].captain = SlotOf(save[k], p)]
    BY <1>2 DEF SetCaptain
  <2>2. PICK x : save' = [save EXCEPT ![k] = [save[k] EXCEPT !.captain = x]]
    BY <1>1, <2>1
  <2> DEFINE d == [save[k] EXCEPT !.captain = x]
  <2>3. d.ids = save[k].ids /\ d.lineup = save[k].lineup /\ d.form = save[k].form
    BY <1>1 DEF HasRoster
  <2>4. save' = [save EXCEPT ![k] = d]
    BY <2>2
  <2> HIDE DEF d
  <2>5. StepSound(save[k], d, NoOver)
    BY <1>1, <2>3, SameIsSound, NobodySigned
  <2>6. QED BY <1>1a, <2>4, <2>5, OneClubSound, NobodySigned
<1>3. CASE SetFormation
  <2>1. PICK k \in Clubs, form \in Forms : save' = [save EXCEPT ![k].form = form]
    BY <1>3 DEF SetFormation
  <2> DEFINE d == [save[k] EXCEPT !.form = form]
  <2>2. save' = [save EXCEPT ![k] = d]
    BY <1>1, <2>1
  <2>3. d.ids = save[k].ids /\ d.lineup = save[k].lineup /\ d.form = form
    BY <1>1 DEF HasRoster
  <2>4. form[1] = Gk
    <3>1. 1 \in 1 .. Starters
      BY RosterAssumption
    <3>2. QED BY <3>1, SavesAssumption
  <2> HIDE DEF d
  <2>5. StepSound(save[k], d, NoOver)
    BY <1>1, <2>3, <2>4, SameIsSound, NobodySigned
  <2>6. QED BY <1>1a, <2>2, <2>5, OneClubSound, NobodySigned
<1>4. CASE RepairGamePlans
  <2>1. PICK aligned \in SUBSET Clubs, preserve \in BOOLEAN :
           /\ DOMAIN save' = Clubs
           /\ \A k \in Clubs :
                 save'[k] \in GamePlanRepaired(save[k], transferred, k \in aligned, preserve)
    BY <1>4 DEF RepairGamePlans
  <2>2. ASSUME NEW k \in Clubs PROVE StepSound(save[k], save'[k], NoOver)
    <3> DEFINE c == save[k]
               d == save'[k]
               signed == transferred
               align == k \in aligned
    <3>1. HasRoster(c) /\ RosterSound(c) /\ IsLineup(c.lineup)
      BY <1>1
    <3>2. d \in GamePlanRepaired(c, signed, align, preserve)
      BY <2>1
    <3> HIDE DEF c, d, signed, align
    <3>3. PlanRepaired(c, d)
      BY <3>1, <3>2, RepairedPlan
    <3>4. StepSound(c, d, NoOver)
      BY <3>1, <3>3, RepairKeepsPlan, KeptIsSound
    <3>5. QED BY <3>4 DEF c, d
  <2>3. QED BY <1>1a, <2>2
<1>5. QED BY <1>2, <1>3, <1>4

(* Every operation is a sound step of every club.                          *)
LEMMA StepsSound ==
    ASSUME LineupFacts, Next
    PROVE  \A k \in Clubs : StepSound(save[k], save'[k], signing')
<1>1. CASE MovePlayer
  BY <1>1, MoveLineups
<1>2. CASE AddPlayer
  BY <1>2, AddLineups
<1>3. CASE ReleasePlayer
  BY <1>3, ReleaseLineups
<1>4. CASE UpdateShirts
  BY <1>4, ShirtLineups
<1>5. CASE SetCaptain \/ SetFormation \/ RepairGamePlans
  BY <1>5, PartLineups
<1>6. CASE ResetSession
  <2>1. save' = save /\ signing' = NoOver
    BY <1>6 DEF ResetSession
  <2>2. \A k \in Clubs : IsLineup(save[k].lineup)
    BY DEF LineupFacts
  <2>3. \A k \in Clubs : StepSound(save[k], save[k], NoOver)
    BY <2>2, SameIsSound, NobodySigned
  <2>4. QED BY <2>1, <2>3
<1>7. QED BY <1>1, <1>2, <1>3, <1>4, <1>5, <1>6 DEF Next

(* Every lineup has a slot for every role, at every step.                  *)
LEMMA LineupFactsAlways == Spec => []LineupFacts
<1>1. Init => \A k \in Clubs : IsLineup(save[k].lineup)
  <2>1. \A c \in SavedClub : IsLineup(c.lineup)
    BY DEF SavedClub, IsLineup
  <2>2. QED BY <2>1, SavesAssumption DEF Init
<1>2. LineupFacts /\ [Next]_vars => (\A k \in Clubs : IsLineup(save[k].lineup))'
  <2>1. CASE Next
    BY <2>1, StepsSound DEF StepSound
  <2>2. CASE UNCHANGED vars
    BY <2>2 DEF vars, LineupFacts
  <2>3. QED BY <2>1, <2>2
<1>3. QED BY <1>1, <1>2, RosterFactsAlways, PTL DEF Spec, LineupFacts

(* For any clubs, rosters, ratings and formations and whatever a session   *)
(* does: an operation turns a lineup whose head is a permutation of the    *)
(* slots in use into one that is a permutation of those then in use, and   *)
(* takes no goalkeeper out of goal while the club keeps one, by the native *)
(* position or the feed's label of whom it signs and the registered one of *)
(* the others (lineup.rs 40-298 and 418-527, repair.rs 69-170, ops.rs      *)
(* 437-461 and 620-637).                                                   *)
THEOREM LineupsKeepSound == Spec => LineupsStaySound
<1>1. LineupFacts /\ [Next]_vars => [\A k \in Clubs : LineupSound(save[k], save'[k], signing')]_vars
  BY StepsSound DEF StepSound
<1>2. QED BY <1>1, LineupFactsAlways, PTL DEF Spec, LineupsStaySound

(* A repair mends any lineup at any time of a session, however it was      *)
(* damaged: afterwards the roles in use name each slot in use once and a   *)
(* goalkeeper of the club is in goal (repair.rs 69-170, lineup.rs 40-125). *)
THEOREM RepairsMend ==
    Spec => [](\A k \in Clubs, align \in BOOLEAN, preserve \in BOOLEAN :
                  \A d \in GamePlanRepaired(save[k], transferred, align, preserve) :
                     {d.lineup[r] : r \in 1 .. Count(d)} = Active(d.ids) /\ KeeperInGoal(d, NoOver))
<1>1. ASSUME LineupFacts, NEW k \in Clubs, NEW align \in BOOLEAN, NEW preserve \in BOOLEAN,
             NEW d \in GamePlanRepaired(save[k], transferred, align, preserve)
      PROVE  {d.lineup[r] : r \in 1 .. Count(d)} = Active(d.ids) /\ KeeperInGoal(d, NoOver)
  <2> DEFINE c == save[k]
             signed == transferred
  <2>1. HasRoster(c) /\ RosterSound(c) /\ IsLineup(c.lineup) /\ d \in GamePlanRepaired(c, signed, align, preserve)
    BY <1>1 DEF LineupFacts, RosterFacts, RostersSound
  <2> HIDE DEF c, signed
  <2>2. PlanRepaired(c, d)
    BY <2>1, RepairedPlan
  <2>3. Count(d) = Count(c) /\ Active(d.ids) = 1 .. Count(c)
    BY <2>1, <2>2, SameRosterSound DEF PlanRepaired, RosterSound
  <2>4. HeadOf(d.lineup, Count(c)) = 1 .. Count(c)
    BY <2>2 DEF PlanRepaired, Reheads
  <2>5. QED BY <2>2, <2>3, <2>4 DEF PlanRepaired, HeadOf
<1>2. LineupFacts => \A k \in Clubs, align \in BOOLEAN, preserve \in BOOLEAN :
         \A d \in GamePlanRepaired(save[k], transferred, align, preserve) :
            {d.lineup[r] : r \in 1 .. Count(d)} = Active(d.ids) /\ KeeperInGoal(d, NoOver)
  BY <1>1
<1>3. QED BY <1>2, LineupFactsAlways, PTL

-----------------------------------------------------------------------------
(* The starters and the captain. A starter who stays and whose role stays  *)
(* in use has his role.                                                    *)
StartersKept(c, d) ==
    \A r \in 2 .. Count(c) :
       r <= Starters /\ Outfield(c, r) /\ Plays(c, r) \in Members(d)
       => r <= Count(d) /\ Plays(d, r) = Plays(c, r)

(* The role of a player, and the starters that a step puts elsewhere.      *)
RoleOf(c, p) == CHOOSE r \in Roles : c.lineup[r] = SlotOf(c, p)
Displaced(c, d) ==
    {p \in Members(c) \cap Members(d) :
       /\ PosOf[p] \notin {Gk, Unknown}
       /\ RoleOf(c, p) <= Starters /\ RoleOf(c, p) # 1
       /\ RoleOf(d, p) # RoleOf(c, p)}

(* The club is one with a lineup.                                          *)
HasLineup(c) == HasRoster(c) /\ RosterSound(c) /\ IsLineup(c.lineup)

(* In a standard lineup every player has one role.                         *)
LEMMA RoleFound ==
    ASSUME NEW c, HasLineup(c), Standard(c), NEW p \in Members(c)
    PROVE  /\ RoleOf(c, p) \in 1 .. Count(c) /\ Plays(c, RoleOf(c, p)) = p
           /\ \A r \in 1 .. Count(c) : Plays(c, r) = p => r = RoleOf(c, p)
<1> DEFINE n == Count(c)
           l == c.lineup
           s == SlotOf(c, p)
<1>1. /\ n \in 0 .. Size /\ Active(c.ids) = 1 .. n /\ Size \in Nat
      /\ Orders(l, n) /\ s \in 1 .. n /\ c.ids[s] = p
  BY RosterBounds, StandardOrders, SlotFound, RosterAssumption DEF HasLineup
<1>2. /\ \A i, j \in Roles : l[i] = l[j] => i = j
      /\ \A r \in 1 .. n : l[r] \in 1 .. n
  BY <1>1, OrderApart
<1>3. PICK q \in 1 .. n : l[q] = s
  BY <1>1 DEF Orders, HeadOf
<1>4. \A r \in 1 .. n : r \in Roles
  BY <1>1 DEF Roles
<1>5. RoleOf(c, p) = q
  BY <1>2, <1>3, <1>4 DEF RoleOf
<1>6. \A t \in 1 .. n : c.ids[t] = p => t = s
  BY <1>1 DEF HasLineup, RosterSound
<1>7. ASSUME NEW r \in 1 .. n, Plays(c, r) = p PROVE r = q
  BY <1>2, <1>3, <1>4, <1>6, <1>7 DEF Plays
<1>8. Plays(c, q) = p
  BY <1>1, <1>3 DEF Plays
<1>9. QED BY <1>3, <1>5, <1>7, <1>8

(* Where the starters are kept nobody is displaced.                        *)
LEMMA KeptInPlace ==
    ASSUME NEW c, HasLineup(c), Standard(c), NEW d, HasLineup(d), Standard(d),
           NEW p \in Displaced(c, d)
    PROVE  /\ RoleOf(c, p) \in 2 .. Count(c) /\ RoleOf(c, p) <= Starters
           /\ Plays(c, RoleOf(c, p)) = p /\ Outfield(c, RoleOf(c, p)) /\ p \in Members(d)
           /\ ~ (RoleOf(c, p) <= Count(d) /\ Plays(d, RoleOf(c, p)) = p)
<1> DEFINE r == RoleOf(c, p)
<1>1. /\ p \in Members(c) /\ p \in Members(d) /\ PosOf[p] \notin {Gk, Unknown}
      /\ r <= Starters /\ r # 1 /\ RoleOf(d, p) # r
  BY DEF Displaced
<1>2. r \in 1 .. Count(c) /\ Plays(c, r) = p /\ Count(c) \in Nat
  BY <1>1, RoleFound, RosterBounds, RosterAssumption DEF HasLineup
<1>3. \A q \in 1 .. Count(d) : Plays(d, q) = p => q = RoleOf(d, p)
  BY <1>1, RoleFound
<1>4. Count(d) \in Nat
  BY RosterBounds, RosterAssumption DEF HasLineup
<1> HIDE DEF r
<1>5. r \in 2 .. Count(c)
  BY <1>1, <1>2
<1>6. r <= Count(d) => r \in 1 .. Count(d)
  BY <1>2, <1>4
<1>7. QED BY <1>1, <1>2, <1>3, <1>5, <1>6 DEF Outfield, r

(* Nor does the property say otherwise.                                    *)
LEMMA KeptStartersStay ==
    ASSUME NEW c, HasLineup(c), NEW d, HasLineup(d), Standard(c) => Standard(d),
           Standard(c) => StartersKept(c, d)
    PROVE  StartersStay(c, d)
<1>1. ASSUME Standard(c) PROVE Displaced(c, d) = {}
  BY <1>1, KeptInPlace DEF StartersKept
<1>2. QED BY <1>1 DEF StartersStay, Displaced, RoleOf

(* A departure: the last of a squad without a bench may fill the role.     *)
LEMMA LeftStarters ==
    ASSUME NEW c, HasLineup(c), NEW p \in Members(c)
    PROVE  StartersStay(c, Left(c, p))
<1> DEFINE d == Left(c, p)
           n == Count(c)
<1>1. /\ HasLineup(d) /\ Members(d) = Members(c) \ {p} /\ Count(d) = n - 1
      /\ Standard(c) => Standard(d)
  BY LeftRoster, LeftPlan DEF HasLineup, PlanKept
<1>2. ASSUME Standard(c), NEW q \in Displaced(c, d)
      PROVE  n <= Starters /\ q = Plays(c, n)
  <2> DEFINE r == RoleOf(c, q)
  <2>1. /\ r \in 2 .. n /\ r <= Starters /\ Plays(c, r) = q /\ Outfield(c, r) /\ q \in Members(d)
        /\ ~ (r <= n - 1 /\ Plays(d, r) = q)
    BY <1>1, <1>2, KeptInPlace
  <2>2. Plays(c, r) # p
    BY <1>1, <2>1
  <2>3. r \in 2 .. n - 1 => Plays(d, r) = Plays(c, r)
    BY <1>2, <2>1, <2>2, LeftPlan DEF HasLineup
  <2>4. n \in Nat
    BY RosterBounds, RosterAssumption DEF HasLineup
  <2> HIDE DEF n, r, d
  <2>5. r = n
    BY <2>1, <2>3, <2>4
  <2>6. QED BY <2>1, <2>5
<1>3. n \in Nat /\ Starters \in Nat
  BY RosterBounds, RosterAssumption DEF HasLineup
<1>4. p \in Members(c) \ Members(d)
  BY <1>1
<1> HIDE DEF d, n
<1>5. ASSUME Standard(c), Displaced(c, d) # {}
      PROVE  Cardinality(Displaced(c, d)) = 1 /\ n <= Starters + 1
  <2>1. Displaced(c, d) = {Plays(c, n)}
    BY <1>2, <1>5
  <2>2. n <= Starters
    BY <1>2, <1>5
  <2>3. n <= Starters + 1
    BY <1>3, <2>2
  <2>4. Cardinality({Plays(c, n)}) = 1
    BY FS_Singleton
  <2>5. QED BY <2>1, <2>3, <2>4
<1>6. QED BY <1>4, <1>5 DEF StartersStay, Displaced, RoleOf, d, n

(* A signing keeps every starter, also when a full roster releases someone *)
(* first (below): a full roster has a bench.                               *)
LEMMA JoinedStarters ==
    ASSUME NEW c, HasLineup(c), ~IsFull(c), NEW p \in Players \ Members(c),
           NEW preferred, NEW label \in Codes \cup {Unknown, NoLabel}
    PROVE  Standard(c) => StartersKept(c, Joined(c, p, preferred, label))
<1> DEFINE d == Joined(c, p, preferred, label)
<1>1. Count(d) = Count(c) + 1 /\ Count(c) \in Nat
  BY JoinedRoster, RosterBounds, RosterAssumption DEF HasLineup
<1>2. Standard(c) => \A r \in 2 .. Count(c) :
         r <= Starters /\ Outfield(c, r) => Plays(d, r) = Plays(c, r)
  BY JoinedPlan DEF HasLineup
<1> HIDE DEF d
<1>3. \A r \in 2 .. Count(c) : r <= Count(d)
  BY <1>1
<1>4. QED BY <1>2, <1>3 DEF StartersKept, d

(* The signing and the release before it.                                  *)
LEMMA SignedStarters ==
    ASSUME NEW c, HasLineup(c), NEW p \in Players \ Members(c),
           NEW planned, NEW guarded, NEW signed,
           HasRoom(c, p, planned, guarded, signed),
           NEW preferred, NEW label \in Codes \cup {Unknown, NoLabel},
           NEW d, d = Signed(c, p, preferred, label, Casualty(c, p, planned, guarded, signed))
    PROVE  StartersStay(c, d)
<1> DEFINE gone == Casualty(c, p, planned, guarded, signed)
<1>1. HasLineup(d) /\ (Standard(c) => Standard(d))
  BY SignedRoster, SignedPlan DEF HasLineup, PlanKept
<1>2. CASE gone = Nobody
  <2>1. ~IsFull(c)
    BY <1>2, OverflowChosen DEF HasRoom, OverflowRefused, Casualty, HasLineup
  <2>2. d = Joined(c, p, preferred, label)
    BY <1>2 DEF Signed
  <2>3. QED BY <1>1, <2>1, <2>2, JoinedStarters, KeptStartersStay
<1>3. CASE gone # Nobody
  <2>1. gone \in Members(c) /\ IsFull(c)
    BY <1>3, OverflowChosen DEF HasRoom, OverflowRefused, Casualty, HasLineup
  <2>2. Count(c) = Size /\ Starters <= Size - 1 /\ Size \in Nat /\ Starters \in Nat
    <3>1. Active(c.ids) = 1 .. Size /\ Size \in Nat /\ Size \in 0 .. Size
      BY <2>1, RosterAssumption DEF IsFull, Slots
    <3>2. QED BY <3>1, CountOf, RosterAssumption
  <2> HIDE DEF gone
  <2> DEFINE e == Left(c, gone)
  <2>3. /\ HasLineup(e) /\ ~IsFull(e) /\ Count(e) = Count(c) - 1
        /\ Members(e) = Members(c) \ {gone} /\ (Standard(c) => Standard(e))
    BY <2>1, LeftRoster, LeftPlan DEF HasLineup, PlanKept
  <2>4. d = Joined(e, p, preferred, label) /\ p \in Players \ Members(e)
    BY <1>3, <2>3 DEF Signed, gone
  <2>5. Standard(c) => \A r \in 2 .. Count(c) - 1 :
           r <= Starters /\ Plays(c, r) # gone /\ Outfield(c, r) => Plays(e, r) = Plays(c, r)
    BY <2>1, LeftPlan DEF HasLineup
  <2> HIDE DEF e
  <2>6. Standard(c) => StartersKept(e, d)
    BY <2>3, <2>4, JoinedStarters
  <2>7. Members(d) = Members(e) \cup {p}
    BY <2>3, <2>4, JoinedRoster DEF HasLineup
  <2>8. ASSUME Standard(c), NEW r \in 2 .. Count(c), r <= Starters, Outfield(c, r),
               Plays(c, r) \in Members(d)
        PROVE  r <= Count(d) /\ Plays(d, r) = Plays(c, r)
    <3>1. r \in 2 .. Count(c) - 1 /\ r \in 2 .. Count(e) /\ r \in 1 .. Count(c)
      BY <2>2, <2>3, <2>8
    <3>2. Plays(c, r) # p /\ Plays(c, r) # gone
      <4>1. Plays(c, r) \in Members(c)
        <5>1. Orders(c.lineup, Count(c)) /\ Active(c.ids) = 1 .. Count(c) /\ Count(c) \in 0 .. Size
          BY <2>8, StandardOrders, RosterBounds DEF HasLineup
        <5>2. c.lineup[r] \in Active(c.ids)
          BY <3>1, <5>1, OrderApart
        <5>3. QED BY <5>2 DEF Plays, Members
      <4>2. QED BY <2>3, <2>7, <2>8, <4>1
    <3>3. Plays(e, r) = Plays(c, r)
      BY <2>5, <2>8, <3>1, <3>2
    <3>4. Outfield(e, r)
      BY <2>8, <3>3 DEF Outfield
    <3>5. QED BY <2>6, <2>8, <3>1, <3>3, <3>4 DEF StartersKept
  <2>9. QED BY <1>1, <2>8, KeptStartersStay DEF StartersKept
<1>4. QED BY <1>2, <1>3

(* The captain byte names a player or nobody; after the step it names the  *)
(* same player or, if he left, nobody.                                     *)
HasCaptain(c) == c.captain \in Active(c.ids) \cup {NoSlot}
CaptainKept(c, d) ==
    HasCaptain(c) =>
       /\ HasCaptain(d)
       /\ \/ CaptainOf(d) = CaptainOf(c)
          \/ CaptainOf(d) = Nobody /\ CaptainOf(c) \notin Members(d)

(* The lineup's repairs leave the captain alone.                           *)
LEMMA PlanCaptain ==
    ASSUME NEW c, HasRoster(c)
    PROVE  /\ \A over : \A preserve : KeeperRepaired(c, over, preserve).captain = c.captain
           /\ \A removed, last, removedPos :
                 LineupCompacted(c, removed, last, removedPos).captain = c.captain
           /\ \A slot, over : LineupExtended(c, slot, over).captain = c.captain
<1>1. \A e : HasRoster(e) => \A over : \A preserve :
         KeeperRepaired(e, over, preserve).captain = e.captain
  <2>1. SUFFICES ASSUME NEW e, HasRoster(e), NEW over, NEW preserve
                 PROVE  KeeperRepaired(e, over, preserve).captain = e.captain
    OBVIOUS
  <2>2. \/ KeeperRepaired(e, over, preserve) = e
        \/ \E l, f : KeeperRepaired(e, over, preserve) = [e EXCEPT !.lineup = l, !.form = f]
    BY DEF KeeperRepaired, FirstBy
  <2>3. QED BY <2>1, <2>2 DEF HasRoster
<1>2. \A l : HasRoster([c EXCEPT !.lineup = l]) /\ [c EXCEPT !.lineup = l].captain = c.captain
  <2>1. SUFFICES ASSUME NEW l
                 PROVE  HasRoster([c EXCEPT !.lineup = l]) /\ [c EXCEPT !.lineup = l].captain = c.captain
    OBVIOUS
  <2>2. HasRoster([c EXCEPT !.lineup = l])
    BY PlanFields DEF SameRoster
  <2>3. QED BY <2>2 DEF HasRoster
<1>3. ASSUME NEW removed, NEW last, NEW removedPos
      PROVE  LineupCompacted(c, removed, last, removedPos).captain = c.captain
  <2>1. \/ LineupCompacted(c, removed, last, removedPos) = c
        \/ \E l : LineupCompacted(c, removed, last, removedPos)
                  = KeeperRepaired([c EXCEPT !.lineup = l], NoOver, TRUE)
    BY DEF LineupCompacted
  <2>2. CASE \E l : LineupCompacted(c, removed, last, removedPos)
                    = KeeperRepaired([c EXCEPT !.lineup = l], NoOver, TRUE)
    <3>1. PICK l : LineupCompacted(c, removed, last, removedPos)
                   = KeeperRepaired([c EXCEPT !.lineup = l], NoOver, TRUE)
      BY <2>2
    <3> DEFINE e == [c EXCEPT !.lineup = l]
    <3>2. HasRoster(e) /\ e.captain = c.captain
      BY <1>2
    <3> HIDE DEF e
    <3>3. KeeperRepaired(e, NoOver, TRUE).captain = c.captain
      BY <1>1, <3>2
    <3>4. QED BY <3>1, <3>3 DEF e
  <2>3. QED BY <2>1, <2>2
<1>4. ASSUME NEW slot, NEW over
      PROVE  LineupExtended(c, slot, over).captain = c.captain
  <2>1. \/ LineupExtended(c, slot, over) = c
        \/ \E l : LineupExtended(c, slot, over)
                  = KeeperRepaired([c EXCEPT !.lineup = l], over, TRUE)
    BY DEF LineupExtended
  <2>2. CASE \E l : LineupExtended(c, slot, over)
                    = KeeperRepaired([c EXCEPT !.lineup = l], over, TRUE)
    <3>1. PICK l : LineupExtended(c, slot, over)
                   = KeeperRepaired([c EXCEPT !.lineup = l], over, TRUE)
      BY <2>2
    <3> DEFINE e == [c EXCEPT !.lineup = l]
    <3>2. HasRoster(e) /\ e.captain = c.captain
      BY <1>2
    <3> HIDE DEF e
    <3>3. KeeperRepaired(e, over, TRUE).captain = c.captain
      BY <1>1, <3>2
    <3>4. QED BY <3>1, <3>3 DEF e
  <2>3. QED BY <2>1, <2>2
<1>5. QED BY <1>1, <1>3, <1>4

(* A departure: the byte follows the player who fills the hole (ops.rs,    *)
(* 561-615).                                                               *)
LEMMA LeftCaptain ==
    ASSUME NEW c, HasRoster(c), RosterSound(c), NEW p \in Members(c)
    PROVE  CaptainKept(c, Left(c, p))
<1> DEFINE removed == SlotOf(c, p)
           last == LastActive(c)
           n == Count(c)
           ids == [[c.ids EXCEPT ![removed] = c.ids[last]] EXCEPT ![last] = Nobody]
           shirts == [[c.shirts EXCEPT ![removed] = c.shirts[last]] EXCEPT ![last] = 0]
           captain == CaptainRemapped(c.captain, removed, last)
           e == [c EXCEPT !.ids = ids, !.shirts = shirts, !.captain = captain]
           d == Left(c, p)
<1>1. /\ last = n /\ n \in 1 .. Size /\ Active(c.ids) = 1 .. n
      /\ n \in Nat /\ removed \in 1 .. n /\ Size \in Nat /\ c.ids[removed] = p
  BY SlotFound, LastFound, RosterBounds, RosterAssumption
<1>2. d = LineupCompacted(e, removed, n, PosOf[p])
  BY <1>1 DEF Left
<1>3. \A s \in 1 .. Size :
         ids[s] = IF s = n THEN Nobody ELSE IF s = removed THEN c.ids[n] ELSE c.ids[s]
  <2>1. c.ids \in [1 .. Size -> Players \cup {Nobody}]
    BY DEF HasRoster, Slots
  <2> HIDE DEF n, removed, last
  <2>2. QED BY <1>1, <2>1
<1>4. HasRoster(e) /\ e.ids = ids /\ e.captain = captain
  <2>1. DOMAIN c = {"ids", "shirts", "lineup", "captain", "form"}
    BY DEF HasRoster
  <2>2. DOMAIN e = DOMAIN c /\ e.ids = ids /\ e.shirts = shirts /\ e.captain = captain
    BY <2>1
  <2>3. ids \in [Slots -> Players \cup {Nobody}] /\ shirts \in [Slots -> Nat]
    <3>1. c.ids \in [Slots -> Players \cup {Nobody}] /\ c.shirts \in [Slots -> Nat] /\ last \in Slots
      BY <1>1 DEF HasRoster, Slots
    <3> HIDE DEF removed, last
    <3>2. QED BY <3>1
  <2> HIDE DEF e, ids, shirts, captain
  <2>4. QED BY <2>1, <2>2, <2>3 DEF HasRoster
<1> HIDE DEF e, ids
<1>5. d.ids = ids /\ d.captain = captain
  BY <1>2, <1>4, CompactedRoster, PlanCaptain DEF SameRoster
<1>6. /\ HasRoster(d) /\ RosterSound(d) /\ Count(d) = n - 1
      /\ Members(d) = Members(c) \ {p}
  BY LeftRoster
<1>7. Active(d.ids) = 1 .. n - 1 /\ Nobody \notin Members(d)
  BY <1>6 DEF RosterSound, Members, Active
<1> HIDE DEF d, n, removed, last
<1>8. ASSUME HasCaptain(c)
      PROVE  /\ HasCaptain(d)
             /\ \/ CaptainOf(d) = CaptainOf(c)
                \/ CaptainOf(d) = Nobody /\ CaptainOf(c) \notin Members(d)
  <2> DEFINE x == c.captain
  <2>1. x = NoSlot \/ x \in 1 .. n
    BY <1>1, <1>8 DEF HasCaptain
  <2>2. captain = IF x = removed THEN NoSlot ELSE IF x = n THEN removed ELSE x
    BY <1>1 DEF CaptainRemapped
  <2> HIDE DEF x, captain
  <2>3. CASE x = NoSlot
    <3>1. captain = NoSlot
      BY <1>1, <2>2, <2>3 DEF NoSlot
    <3>2. QED BY <1>5, <2>3, <3>1 DEF HasCaptain, CaptainOf, x
  <2>4. CASE x = removed
    <3>1. captain = NoSlot /\ x # NoSlot
      BY <1>1, <2>2, <2>4 DEF NoSlot
    <3>2. CaptainOf(c) = p /\ CaptainOf(d) = Nobody
      BY <1>1, <1>5, <2>4, <3>1 DEF CaptainOf, x
    <3>3. QED BY <1>5, <1>6, <3>1, <3>2 DEF HasCaptain
  <2>5. CASE x # NoSlot /\ x # removed
    <3>1. captain \in 1 .. n - 1 /\ captain # NoSlot /\ captain \in 1 .. Size
      <4>1. x \in 1 .. n
        BY <2>1, <2>5
      <4>2. CASE x = n
        <5>1. captain = removed /\ removed # n
          BY <1>1, <2>2, <2>5, <4>2
        <5>2. QED BY <1>1, <5>1 DEF NoSlot
      <4>3. CASE x # n
        <5>1. captain = x
          BY <2>2, <2>5, <4>3
        <5>2. QED BY <1>1, <4>1, <4>3, <5>1 DEF NoSlot
      <4>4. QED BY <4>2, <4>3
    <3>2. ids[captain] = c.ids[x]
      <4>1. captain # n
        BY <1>1, <3>1
      <4>2. QED BY <1>3, <2>2, <2>5, <3>1, <4>1
    <3>3. CaptainOf(d) = CaptainOf(c)
      BY <1>5, <2>5, <3>1, <3>2 DEF CaptainOf, x
    <3>4. QED BY <1>5, <1>7, <3>1, <3>3 DEF HasCaptain
  <2>6. QED BY <2>3, <2>4, <2>5
<1>9. QED BY <1>8 DEF CaptainKept, d

(* A signing: the byte names an occupied slot, and he takes an empty one.  *)
LEMMA JoinedCaptain ==
    ASSUME NEW c, HasRoster(c), RosterSound(c), ~IsFull(c),
           NEW p \in Players \ Members(c), NEW preferred,
           NEW label \in Codes \cup {Unknown, NoLabel}
    PROVE  HasCaptain(c) => /\ HasCaptain(Joined(c, p, preferred, label))
                            /\ CaptainOf(Joined(c, p, preferred, label)) = CaptainOf(c)
<1> DEFINE n == Count(c)
           pos == Effective(p, label)
           number == FreeShirt(c, preferred, pos)
           ids == [c.ids EXCEPT ![n + 1] = p]
           shirts == [c.shirts EXCEPT ![n + 1] = number]
           over == [player |-> p, pos |-> pos]
           e == [c EXCEPT !.ids[n + 1] = p, !.shirts[n + 1] = number]
           d == Joined(c, p, preferred, label)
<1>1. /\ FirstEmpty(c) = n + 1 /\ n + 1 \in 1 .. Size
      /\ Active(c.ids) = 1 .. n /\ Size \in Nat /\ n \in Nat
  BY EmptyFound, RosterBounds, RosterAssumption DEF Slots
<1>2. pos \in Codes \cup {Unknown}
  BY RosterAssumption DEF Effective
<1>3. d = LineupExtended(e, n + 1, over)
  BY <1>1 DEF Joined
<1> HIDE DEF over
<1>4. /\ HasRoster(e) /\ e.ids = ids /\ e.captain = c.captain
      /\ \A s \in 1 .. n : ids[s] = c.ids[s]
  <2>1. DOMAIN c = {"ids", "shirts", "lineup", "captain", "form"}
    BY DEF HasRoster
  <2>2. DOMAIN e = DOMAIN c /\ e.ids = ids /\ e.shirts = shirts /\ e.captain = c.captain
    BY <2>1
  <2>3. /\ ids \in [Slots -> Players \cup {Nobody}] /\ shirts \in [Slots -> Nat]
        /\ \A s \in 1 .. n : ids[s] = c.ids[s]
    <3>1. /\ c.ids \in [Slots -> Players \cup {Nobody}] /\ c.shirts \in [Slots -> Nat]
      BY DEF HasRoster
    <3>2. number \in Nat
      BY <1>2, ShirtIsFree DEF FreeNumbers
    <3>3. \A s \in 1 .. n : s # n + 1 /\ s \in Slots
      BY <1>1 DEF Slots
    <3> HIDE DEF n, number
    <3>4. QED BY <3>1, <3>2, <3>3
  <2> HIDE DEF e, ids, shirts
  <2>4. QED BY <2>1, <2>2, <2>3 DEF HasRoster
<1> HIDE DEF e, ids
<1>5. d.ids = ids /\ d.captain = c.captain
  BY <1>3, <1>4, ExtendedRoster, PlanCaptain DEF SameRoster
<1>6. Active(d.ids) = 1 .. n + 1
  <2>1. RosterSound(d) /\ Count(d) = n + 1
    BY JoinedRoster
  <2> HIDE DEF d, n
  <2>2. QED BY <2>1 DEF RosterSound
<1> HIDE DEF d, n
<1>7. \A s \in 1 .. n : s \in 1 .. n + 1
  BY <1>1
<1>8. ASSUME HasCaptain(c) PROVE HasCaptain(d) /\ CaptainOf(d) = CaptainOf(c)
  BY <1>1, <1>4, <1>5, <1>6, <1>7, <1>8 DEF HasCaptain, CaptainOf
<1>9. QED BY <1>8 DEF d

(* A signing, with the release a full roster makes first.                  *)
LEMMA SignedCaptain ==
    ASSUME NEW c, HasRoster(c), RosterSound(c), NEW p \in Players \ Members(c),
           NEW planned, NEW guarded, NEW signed,
           HasRoom(c, p, planned, guarded, signed),
           NEW preferred, NEW label \in Codes \cup {Unknown, NoLabel},
           NEW d, d = Signed(c, p, preferred, label, Casualty(c, p, planned, guarded, signed))
    PROVE  CaptainKept(c, d)
<1> DEFINE gone == Casualty(c, p, planned, guarded, signed)
<1>1. CASE gone = Nobody
  <2>1. ~IsFull(c)
    BY <1>1, OverflowChosen DEF HasRoom, OverflowRefused, Casualty
  <2>2. d = Joined(c, p, preferred, label)
    BY <1>1 DEF Signed
  <2>3. QED BY <2>1, <2>2, JoinedCaptain DEF CaptainKept
<1>2. CASE gone # Nobody
  <2>1. gone \in Members(c)
    BY <1>2, OverflowChosen DEF HasRoom, OverflowRefused, Casualty
  <2> HIDE DEF gone
  <2> DEFINE e == Left(c, gone)
  <2>2. /\ HasRoster(e) /\ RosterSound(e) /\ ~IsFull(e)
        /\ Members(e) = Members(c) \ {gone} /\ CaptainKept(c, e)
    BY <2>1, LeftRoster, LeftCaptain
  <2>3. d = Joined(e, p, preferred, label) /\ p \in Players \ Members(e)
    BY <1>2, <2>2 DEF Signed, gone
  <2> HIDE DEF e
  <2>4. /\ HasCaptain(e) => HasCaptain(d) /\ CaptainOf(d) = CaptainOf(e)
        /\ Members(d) = Members(e) \cup {p}
    BY <2>2, <2>3, JoinedCaptain, JoinedRoster
  <2>5. HasCaptain(c) => CaptainOf(c) \in Members(c) \cup {Nobody}
    BY DEF HasCaptain, CaptainOf, Members
  <2>6. p # Nobody /\ p \notin Members(c)
    BY RosterAssumption
  <2>7. QED BY <2>2, <2>4, <2>5, <2>6 DEF CaptainKept
<1>3. QED BY <1>1, <1>2

-----------------------------------------------------------------------------
(* Players keep their part when the others come and go.                    *)
PartsKept(c, d) == CaptainFollows(c, d) /\ StartersStay(c, d)

(* Whom nobody joins and nobody leaves loses no part.                      *)
LEMMA SamePlayersKept ==
    ASSUME NEW c, NEW d, Members(d) = Members(c)
    PROVE  PartsKept(c, d)
BY DEF PartsKept, CaptainFollows, StartersStay

(* A club that loses one player, and one that gains one.                   *)
LEMMA LeftParts ==
    ASSUME NEW c, HasLineup(c), NEW p \in Members(c)
    PROVE  PartsKept(c, Left(c, p))
<1>1. CaptainKept(c, Left(c, p))
  BY LeftCaptain DEF HasLineup
<1>2. QED BY <1>1, LeftStarters DEF PartsKept, CaptainFollows, CaptainKept, HasCaptain

LEMMA SignedParts ==
    ASSUME NEW c, HasLineup(c), NEW p \in Players \ Members(c),
           NEW planned, NEW guarded, NEW signed,
           HasRoom(c, p, planned, guarded, signed),
           NEW preferred, NEW label \in Codes \cup {Unknown, NoLabel},
           NEW d, d = Signed(c, p, preferred, label, Casualty(c, p, planned, guarded, signed))
    PROVE  PartsKept(c, d)
<1>1. CaptainKept(c, d)
  BY SignedCaptain DEF HasLineup
<1>2. StartersStay(c, d)
  BY SignedStarters
<1>3. QED BY <1>1, <1>2 DEF PartsKept, CaptainFollows, CaptainKept, HasCaptain

(* Every club of the save is one with a lineup.                            *)
LEMMA ClubsHaveLineups ==
    ASSUME LineupFacts
    PROVE  DOMAIN save = Clubs /\ \A k \in Clubs : HasLineup(save[k])
BY DEF LineupFacts, RosterFacts, RostersSound, HasLineup

(* Moving a player (ops.rs, move_player).                                  *)
LEMMA MoveParts ==
    ASSUME LineupFacts, MovePlayer
    PROVE  \A k \in Clubs : PartsKept(save[k], save'[k])
<1>1. PICK from, to \in Clubs, p \in Players :
         \E label \in Labels(p), planned \in Plans(save[to], p) :
            /\ CanMove(save, transferred, p, from, to, planned, TRUE)
            /\ save' = Moved(save, transferred, p, from, to, planned, 0, label)
  BY DEF MovePlayer
<1>2. PICK label \in Labels(p), planned \in Plans(save[to], p) :
            /\ CanMove(save, transferred, p, from, to, planned, TRUE)
            /\ save' = Moved(save, transferred, p, from, to, planned, 0, label)
  BY <1>1
<1> DEFINE number == ShirtOf(save[from], p)
           d == Left(save[from], p)
           e == Signed(save[to], p, number, label,
                       Casualty(save[to], p, planned, {}, transferred))
<1>3. /\ from # to /\ p \in Members(save[from]) /\ p \notin Members(save[to])
      /\ ~OverflowRefused(save[to], p, planned, TRUE, {}, transferred)
  BY <1>2 DEF CanMove
<1>4. DOMAIN save = Clubs /\ \A k \in Clubs : HasLineup(save[k])
  BY ClubsHaveLineups
<1>5. save' = [[save EXCEPT ![from] = d] EXCEPT ![to] = e]
  BY <1>2, <1>3, <1>4 DEF Moved
<1>6. label \in Codes \cup {Unknown, NoLabel}
  BY SavesAssumption DEF Labels
<1>7. PartsKept(save[from], d)
  BY <1>3, <1>4, LeftParts
<1>8. PartsKept(save[to], e)
  <2>1. /\ HasLineup(save[to]) /\ p \in Players \ Members(save[to])
        /\ HasRoom(save[to], p, planned, {}, transferred)
    BY <1>3, <1>4 DEF HasRoom
  <2>2. e = Signed(save[to], p, number, label,
                   Casualty(save[to], p, planned, {}, transferred))
    OBVIOUS
  <2> HIDE DEF e, number
  <2>3. QED BY <1>6, <2>1, <2>2, SignedParts
<1> HIDE DEF d, e
<1>9. /\ save'[from] = d /\ save'[to] = e
      /\ \A k \in Clubs \ {from, to} : save'[k] = save[k]
  BY <1>3, <1>4, <1>5
<1>10. \A k \in Clubs \ {from, to} : PartsKept(save[k], save'[k])
  BY <1>9, SamePlayersKept
<1>11. QED BY <1>7, <1>8, <1>9, <1>10

(* Signing a free player, and releasing one (ops.rs, add_player and        *)
(* release_player).                                                        *)
LEMMA AddParts ==
    ASSUME LineupFacts, AddPlayer
    PROVE  \A k \in Clubs : PartsKept(save[k], save'[k])
<1>1. PICK to \in Clubs, p \in Players, number \in Numbers :
         \E label \in Labels(p) :
            /\ CanAdd(save, transferred, p, to, Nobody, TRUE, {})
            /\ save' = Added(save, transferred, p, to, Nobody, number, label, {})
  BY DEF AddPlayer
<1>2. PICK label \in Labels(p) :
            /\ CanAdd(save, transferred, p, to, Nobody, TRUE, {})
            /\ save' = Added(save, transferred, p, to, Nobody, number, label, {})
  BY <1>1
<1> DEFINE d == Signed(save[to], p, number, label,
                       Casualty(save[to], p, Nobody, {}, transferred))
<1>3. DOMAIN save = Clubs /\ HasLineup(save[to])
  BY ClubsHaveLineups
<1>4. /\ p \notin Members(save[to])
      /\ ~OverflowRefused(save[to], p, Nobody, TRUE, {}, transferred)
  BY <1>2, <1>3 DEF CanAdd, ClubsHolding
<1>5. label \in Codes \cup {Unknown, NoLabel}
  BY SavesAssumption DEF Labels
<1>6. save' = [save EXCEPT ![to] = d]
  BY <1>2, <1>3 DEF Added
<1>7. PartsKept(save[to], d)
  <2>1. p \in Players \ Members(save[to]) /\ HasRoom(save[to], p, Nobody, {}, transferred)
    BY <1>4 DEF HasRoom
  <2>2. d = Signed(save[to], p, number, label,
                   Casualty(save[to], p, Nobody, {}, transferred))
    OBVIOUS
  <2> HIDE DEF d
  <2>3. QED BY <1>3, <1>5, <2>1, <2>2, SignedParts
<1> HIDE DEF d
<1>8. save'[to] = d /\ \A k \in Clubs \ {to} : save'[k] = save[k]
  BY <1>3, <1>6
<1>9. \A k \in Clubs \ {to} : PartsKept(save[k], save'[k])
  BY <1>8, SamePlayersKept
<1>10. QED BY <1>7, <1>8, <1>9

LEMMA ReleaseParts ==
    ASSUME LineupFacts, ReleasePlayer
    PROVE  \A k \in Clubs : PartsKept(save[k], save'[k])
<1>1. PICK from \in Clubs, p \in Players :
         CanRelease(save, p, from) /\ save' = Released(save, p, from)
  BY DEF ReleasePlayer
<1> DEFINE d == Left(save[from], p)
<1>2. /\ DOMAIN save = Clubs /\ HasLineup(save[from])
      /\ p \in Members(save[from]) /\ save' = [save EXCEPT ![from] = d]
  BY <1>1, ClubsHaveLineups DEF CanRelease, Released
<1>3. PartsKept(save[from], d)
  BY <1>2, LeftParts
<1> HIDE DEF d
<1>4. save'[from] = d /\ \A k \in Clubs \ {from} : save'[k] = save[k]
  BY <1>2
<1>5. \A k \in Clubs \ {from} : PartsKept(save[k], save'[k])
  BY <1>4, SamePlayersKept
<1>6. QED BY <1>3, <1>4, <1>5

(* The operations that move nobody keep the players of every club.         *)
LEMMA OthersParts ==
    ASSUME LineupFacts, UpdateShirts \/ SetCaptain \/ SetFormation \/ RepairGamePlans
    PROVE  \A k \in Clubs : PartsKept(save[k], save'[k])
<1>1. DOMAIN save = Clubs /\ \A k \in Clubs : HasRoster(save[k]) /\ RosterSound(save[k])
  BY DEF LineupFacts, RosterFacts, RostersSound
<1>2. CASE UpdateShirts
  <2>1. PICK k \in Clubs, m \in Numbers, n \in Numbers : \E p, q \in Members(save[k]) :
           LET updates == <<<<p, m>>, <<q, n>>>>
           IN  /\ CanRenumber(save[k], updates)
               /\ save' = [save EXCEPT ![k] = Renumbered(@, updates)]
    BY <1>2 DEF UpdateShirts
  <2>2. PICK p \in Members(save[k]), q \in Members(save[k]) :
           LET updates == <<<<p, m>>, <<q, n>>>>
           IN  /\ CanRenumber(save[k], updates)
               /\ save' = [save EXCEPT ![k] = Renumbered(@, updates)]
    BY <2>1
  <2> DEFINE updates == <<<<p, m>>, <<q, n>>>>
             d == Renumbered(save[k], updates)
  <2>3. CanRenumber(save[k], updates) /\ save' = [save EXCEPT ![k] = d]
    BY <1>1, <2>2
  <2>4. DOMAIN updates = 1 .. 2 /\ \A i \in 1 .. 2 : updates[i][2] \in Nat
    BY SavesAssumption
  <2> HIDE DEF updates
  <2>5. Members(d) = Members(save[k])
    BY <1>1, <2>3, <2>4, RenumberedRoster
  <2> HIDE DEF d
  <2>6. \A j \in Clubs : Members(save'[j]) = Members(save[j])
    BY <1>1, <2>3, <2>5
  <2>7. QED BY <2>6, SamePlayersKept
<1>3. CASE SetCaptain
  <2>1. PICK k \in Clubs : \E p \in Members(save[k]) :
           save' = [save EXCEPT ![k].captain = SlotOf(save[k], p)]
    BY <1>3 DEF SetCaptain
  <2>2. PICK x : save' = [save EXCEPT ![k] = [save[k] EXCEPT !.captain = x]]
    BY <1>1, <2>1
  <2>3. \A j \in Clubs : SameRoster(save[j], save'[j])
    BY <1>1, <2>2, PlanFields
  <2>4. QED BY <2>3, SameRosterSound, SamePlayersKept
<1>4. CASE SetFormation
  <2>1. PICK k \in Clubs, form \in Forms : save' = [save EXCEPT ![k].form = form]
    BY <1>4 DEF SetFormation
  <2>2. save' = [save EXCEPT ![k] = [save[k] EXCEPT !.form = form]]
    BY <1>1, <2>1
  <2>3. \A j \in Clubs : SameRoster(save[j], save'[j])
    BY <1>1, <2>2, PlanFields
  <2>4. QED BY <2>3, SameRosterSound, SamePlayersKept
<1>5. CASE RepairGamePlans
  <2>1. PICK aligned \in SUBSET Clubs, preserve \in BOOLEAN :
           /\ DOMAIN save' = Clubs
           /\ \A k \in Clubs :
                 save'[k] \in GamePlanRepaired(save[k], transferred, k \in aligned, preserve)
    BY <1>5 DEF RepairGamePlans
  <2>2. \A k \in Clubs : SameRoster(save[k], save'[k])
    BY <1>1, <2>1, RepairedRoster
  <2>3. QED BY <2>2, SameRosterSound, SamePlayersKept
<1>6. QED BY <1>2, <1>3, <1>4, <1>5

(* Every operation leaves the players who stay their parts.                *)
LEMMA StepsKeepParts ==
    ASSUME LineupFacts, [Next]_vars
    PROVE  \A k \in Clubs : PartsKept(save[k], save'[k])
<1>1. CASE MovePlayer
  BY <1>1, MoveParts
<1>2. CASE AddPlayer
  BY <1>2, AddParts
<1>3. CASE ReleasePlayer
  BY <1>3, ReleaseParts
<1>4. CASE UpdateShirts \/ SetCaptain \/ SetFormation \/ RepairGamePlans
  BY <1>4, OthersParts
<1>5. CASE ResetSession \/ UNCHANGED vars
  <2>1. save' = save
    BY <1>5 DEF ResetSession, vars
  <2>2. QED BY <2>1, SamePlayersKept
<1>6. QED BY <1>1, <1>2, <1>3, <1>4, <1>5 DEF Next

(* For any clubs, rosters and lineups in order: whoever comes or goes, the *)
(* captain remains captain as long as he stays, and every known outfield   *)
(* starter keeps his role, except the last player of a squad without a     *)
(* bench, who may fill the role that fell vacant (ops.rs 561-615,          *)
(* lineup.rs 197-316).                                                     *)
THEOREM PartsKeepPlayers == Spec => PartsFollowPlayers
<1>1. LineupFacts /\ [Next]_vars =>
         [\A k \in Clubs : CaptainFollows(save[k], save'[k]) /\ StartersStay(save[k], save'[k])]_vars
  BY StepsKeepParts DEF PartsKept
<1>2. QED BY <1>1, LineupFactsAlways, PTL DEF Spec, PartsFollowPlayers
=============================================================================
