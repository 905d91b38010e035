--------------------------- MODULE LeaguesProofs ---------------------------
(***************************************************************************)
(* What holds of Leagues for any divisions, leagues, clubs and faults: a   *)
(* run moves a club only to the division of its league, and the teams it   *)
(* has seen stay bound to their clubs.                                     *)
(***************************************************************************)
EXTENDS Leagues, FiniteSetTheorems, SequenceTheorems, TLAPS

(* The lists once the swaps of T are made: a division loses the clubs that *)
(* a swap takes from it and gains those it brings.                         *)
Gone(T, d) == {s.down : s \in {s \in T : s.upper = d}} \cup {s.up : s \in {s \in T : s.upper + 1 = d}}
Come(T, d) == {s.up : s \in {s \in T : s.upper = d}} \cup {s.down : s \in {s \in T : s.upper + 1 = d}}

ListsTyped(lists) ==
    /\ DOMAIN lists = Divisions
    /\ \A d \in Divisions : lists[d] \in Seq(ClubsOf(Lists))

Placed(old, T, new) ==
    /\ ListsTyped(new)
    /\ \A d \in Divisions : Range(new[d]) = (Range(old[d]) \ Gone(T, d)) \cup Come(T, d)

Shaped(old, T, new) == ListsTyped(new)

Shaping == INSTANCE FoldInduction WITH Op <- LAMBDA e, s, x : Swapped(s, x), Inv <- Shaped
Swapping == INSTANCE FoldInduction WITH Op <- LAMBDA e, s, x : Swapped(s, x), Inv <- Placed

-----------------------------------------------------------------------------
(* The league lists: each division's clubs, none twice.                    *)
ListsOk(lists) == ListsTyped(lists) /\ NoClubTwice(lists)

LEMMA DivisionsAreNumbers == Divisions \subseteq Nat /\ IsFiniteSet(Divisions)
<1>1. Len(Lists) \in Nat /\ Divisions = 1 .. Len(Lists)
  BY ListsAssumption, LenProperties DEF Divisions
<1>2. QED BY <1>1, FS_Interval

LEMMA ListIsFinite ==
    ASSUME NEW X, NEW list \in Seq(X)
    PROVE  IsFiniteSet(Range(list)) /\ Range(list) \subseteq X
<1>1. Len(list) \in Nat /\ DOMAIN list = 1 .. Len(list) /\ IsFiniteSet(DOMAIN list)
  BY LenProperties, FS_Interval
<1>2. list \in Surjection(DOMAIN list, Range(list))
  BY DEF Surjection, Range
<1>3. Range(list) \subseteq X
  BY <1>1, ElementOfSeq DEF Range
<1>4. QED BY <1>1, <1>2, <1>3, FS_Surjection

LEMMA ClubsAreFinite == IsFiniteSet(ClubsOf(Lists))
<1>1. \A d \in Divisions : Lists[d] \in Seq(ClubsOf(Lists))
  BY ListsAssumption, ElementOfSeq, LenProperties DEF Divisions
<1> DEFINE S == {Range(Lists[d]) : d \in Divisions}
           f == [d \in Divisions |-> Range(Lists[d])]
<1>2. f \in Surjection(Divisions, S)
  BY DEF Surjection
<1>3. IsFiniteSet(S)
  BY <1>2, DivisionsAreNumbers, FS_Surjection
<1>4. \A T \in S : IsFiniteSet(T)
  BY <1>1, ListIsFinite
<1>5. IsFiniteSet(UNION S)
  BY <1>3, <1>4, FS_UNION
<1>6. QED BY <1>5 DEF ClubsOf

LEMMA ListsAreOk == ListsOk(Lists)
BY ListsAssumption, ElementOfSeq, LenProperties DEF ListsOk, ListsTyped, Divisions

-----------------------------------------------------------------------------
(* The league a division is found to be.                                   *)

(* Two leagues that most clubs of a division play in are one.              *)
LEMMA ResolvedRight ==
    ASSUME ListsOk(divisions), Recognisable, NEW f, NEW d \in Divisions,
           NEW l \in Resolved(f, d)
    PROVE  l = LeagueOf(d)
<1> DEFINE B == Bound(d)
           P == B \cap Teams(l)
           Q == {c \in B : League(c) = LeagueOf(d)}
<1>1. IsFiniteSet(B)
  <2>1. IsFiniteSet(Range(divisions[d]))
    BY ListIsFinite DEF ListsOk, ListsTyped
  <2>2. QED BY <2>1, FS_Intersection DEF Bound
<1>2. Cardinality(B) >= MinBound /\ Agree(Cardinality(P), Cardinality(B))
  BY DEF Resolved, Confirms
<1>3. Agree(Cardinality(Q), Cardinality(B))
  BY DEF Recognisable
<1>4. /\ P \subseteq B /\ Q \subseteq B
      /\ Cardinality(B) \in Nat /\ Cardinality(P) \in Nat /\ Cardinality(Q) \in Nat
  BY <1>1, FS_Subset, FS_CardinalityType
<1>5. Cardinality(P) + Cardinality(Q) > Cardinality(B)
  <2>1. MinBound \in Nat \ {0}
    BY LeaguesAssumption
  <2> HIDE DEF B, P, Q
  <2>2. QED BY <1>2, <1>3, <1>4, <2>1 DEF Agree
<1>6. PICK c \in P : c \in Q
  BY <1>1, <1>4, <1>5, FS_MajoritiesIntersect
<1>7. QED BY <1>6 DEF Teams

-----------------------------------------------------------------------------
(* The swaps that are planned.                                             *)

(* Of two clubs of a list one is above the other, and has fewer above it.  *)
LEMMA AboveTells ==
    ASSUME ListsOk(divisions), NEW d \in Divisions,
           NEW S, S \subseteq Range(divisions[d]), NEW b \in S, NEW c \in S, b # c
    PROVE  Above(d, S, b) # Above(d, S, c)
<1> DEFINE list == divisions[d]
           Before(x, y) == \E i, j \in DOMAIN list : i < j /\ list[i] = x /\ list[j] = y
           Over(y) == {x \in S : Before(x, y)}
<1>1. /\ list \in Seq(ClubsOf(Lists)) /\ DOMAIN list = 1 .. Len(list) /\ Len(list) \in Nat
      /\ \A i, j \in DOMAIN list : list[i] = list[j] => i = j
  <2>1. list \in Seq(ClubsOf(Lists))
    BY DEF ListsOk, ListsTyped
  <2>2. \A i, j \in DOMAIN list : list[i] = list[j] => i = j
    BY DEF ListsOk, NoClubTwice
  <2>3. QED BY <2>1, <2>2, LenProperties
<1>2. IsFiniteSet(S)
  BY <1>1, ListIsFinite, FS_Subset
<1>3. \A y \in S : Above(d, S, y) = Cardinality(Over(y))
  BY DEF Above
<1>4. ASSUME NEW x \in S, NEW y \in S, Before(x, y)
      PROVE  Cardinality(Over(x)) # Cardinality(Over(y))
  <2>1. x \in Over(y) /\ x \notin Over(x) /\ Over(x) \subseteq Over(y)
    BY <1>1, <1>4
  <2>2. IsFiniteSet(Over(y))
    BY <1>2, FS_Subset
  <2>3. Over(x) # Over(y)
    BY <2>1
  <2> HIDE DEF Over
  <2>4. QED BY <2>1, <2>2, <2>3, FS_Subset
<1>5. Before(b, c) \/ Before(c, b)
  <2>1. PICK i \in DOMAIN list, j \in DOMAIN list : list[i] = b /\ list[j] = c
    BY DEF Range
  <2>2. i < j \/ j < i
    BY <1>1, <2>1
  <2>3. QED BY <2>1, <2>2
<1>6. QED BY <1>3, <1>4, <1>5

(* A swap is of clubs that play in each other's league.                    *)
IsSwap(s) ==
    /\ s = [upper |-> s.upper, up |-> s.up, down |-> s.down]
    /\ s.upper \in Divisions /\ s.upper + 1 \in Divisions
    /\ s.up \in Range(divisions[s.upper + 1]) /\ s.down \in Range(divisions[s.upper])
    /\ {s.up, s.down} \subseteq DOMAIN index.held
    /\ League(s.up) = LeagueOf(s.upper) /\ League(s.down) = LeagueOf(s.upper + 1)
    /\ s \in Pairs(s.upper, Leaving(s.upper + 1, LeagueOf(s.upper + 1), LeagueOf(s.upper)),
                            Leaving(s.upper, LeagueOf(s.upper), LeagueOf(s.upper + 1)))

LEMMA SwapsAreRight ==
    ASSUME ListsOk(divisions), Recognisable, NEW f, NEW s \in PlanSwaps(f)
    PROVE  IsSwap(s)
<1>1. PICK d \in Divisions : /\ d + 1 \in Divisions
                             /\ \E high \in Resolved(f, d), low \in Resolved(f, d + 1) :
                                   s \in SwapsBetween(d, high, low)
  BY DEF PlanSwaps
<1>2. s \in SwapsBetween(d, LeagueOf(d), LeagueOf(d + 1))
  BY <1>1, ResolvedRight
<1> DEFINE up == Leaving(d + 1, LeagueOf(d + 1), LeagueOf(d))
           down == Leaving(d, LeagueOf(d), LeagueOf(d + 1))
<1>3. s \in Pairs(d, up, down)
  BY <1>2 DEF SwapsBetween
<1>4. /\ s = [upper |-> s.upper, up |-> s.up, down |-> s.down]
      /\ s.upper = d /\ s.up \in up /\ s.down \in down
  BY <1>3 DEF Pairs
<1>5. /\ s.up \in Range(divisions[d + 1]) /\ s.down \in Range(divisions[d])
      /\ s.up \in Teams(LeagueOf(d)) /\ s.down \in Teams(LeagueOf(d + 1))
  BY <1>4 DEF Leaving
<1>6. QED BY <1>1, <1>3, <1>4, <1>5 DEF IsSwap, Teams

(* A club takes part in one swap.                                          *)
LEMMA SwapsAreApart ==
    ASSUME ListsOk(divisions), NEW s, IsSwap(s), NEW t, IsSwap(t), s # t
    PROVE  {s.up, s.down} \cap {t.up, t.down} = {}
<1>1. ASSUME NEW d \in Divisions, NEW e \in Divisions, NEW c,
             c \in Range(divisions[d]), c \in Range(divisions[e])
      PROVE  d = e
  BY <1>1 DEF ListsOk, NoClubTwice, Range
<1>2. s.upper \in Nat /\ t.upper \in Nat
  BY DivisionsAreNumbers DEF IsSwap
<1>3. ASSUME s.upper = t.upper PROVE s.up # t.up /\ s.down # t.down
  <2> DEFINE d == s.upper
             up == Leaving(d + 1, LeagueOf(d + 1), LeagueOf(d))
             down == Leaving(d, LeagueOf(d), LeagueOf(d + 1))
  <2>1. /\ {s.up, t.up} \subseteq up /\ {s.down, t.down} \subseteq down
        /\ Above(d + 1, up, s.up) = Above(d, down, s.down)
        /\ Above(d + 1, up, t.up) = Above(d, down, t.down)
    BY <1>3 DEF IsSwap, Pairs
  <2>2. up \subseteq Range(divisions[d + 1]) /\ down \subseteq Range(divisions[d])
    BY DEF Leaving
  <2>3. d \in Divisions /\ d + 1 \in Divisions
    BY DEF IsSwap
  <2>4. s.up # t.up \/ s.down # t.down
    BY <1>3 DEF IsSwap
  <2> HIDE DEF d, up, down
  <2>5. s.up = t.up => s.down = t.down
    BY <2>1, <2>2, <2>3, AboveTells
  <2>6. s.down = t.down => s.up = t.up
    BY <2>1, <2>2, <2>3, AboveTells
  <2>7. QED BY <2>4, <2>5, <2>6
<1>4. s.up # t.up
  <2>1. ASSUME s.up = t.up PROVE s.upper + 1 = t.upper + 1
    BY <1>1, <2>1 DEF IsSwap
  <2>2. QED BY <1>2, <1>3, <2>1
<1>5. s.down # t.down
  BY <1>1, <1>3 DEF IsSwap
<1>6. ASSUME NEW x, IsSwap(x), NEW y, IsSwap(y) PROVE x.up # y.down
  <2>0. x.upper \in Nat /\ y.upper \in Nat
    BY <1>6, DivisionsAreNumbers DEF IsSwap
  <2>1. ASSUME x.up = y.down PROVE FALSE
    <3>1. x.upper + 1 = y.upper
      BY <1>1, <1>6, <2>1 DEF IsSwap
    <3>2. LeagueOf(x.upper) = LeagueOf(y.upper + 1)
      BY <1>6, <2>1 DEF IsSwap
    <3>3. x.upper \in Divisions /\ y.upper + 1 \in Divisions /\ x.upper # y.upper + 1
      BY <1>6, <2>0, <3>1 DEF IsSwap
    <3>4. QED BY <3>2, <3>3, ListsAssumption
  <2>2. QED BY <2>1
<1>7. QED BY <1>4, <1>5, <1>6

-----------------------------------------------------------------------------
(* What the swaps do to the lists.                                         *)

SwapSet == [upper : Divisions, up : ClubsOf(Lists), down : ClubsOf(Lists)]

LEMMA SwapSetIsFinite == IsFiniteSet(SwapSet)
<1> DEFINE C == ClubsOf(Lists)
           P == Divisions \X (C \X C)
           f == [p \in P |-> [upper |-> p[1], up |-> p[2][1], down |-> p[2][2]]]
<1>1. IsFiniteSet(C \X C)
  BY ClubsAreFinite, FS_Product
<1>2. IsFiniteSet(P)
  BY <1>1, DivisionsAreNumbers, FS_Product
<1>3. f \in Surjection(P, SwapSet)
  <2>1. \A p \in P : f[p] \in SwapSet
    BY DEF SwapSet
  <2>2. ASSUME NEW s \in SwapSet PROVE \E p \in P : f[p] = s
    <3>1. <<s.upper, <<s.up, s.down>>>> \in P
      BY DEF SwapSet
    <3>2. f[<<s.upper, <<s.up, s.down>>>>] = s
      BY <3>1 DEF SwapSet
    <3>3. QED BY <3>1, <3>2
  <2> HIDE DEF P
  <2>3. QED BY <2>1, <2>2 DEF Surjection
<1>4. QED BY <1>2, <1>3, FS_Surjection

LEMMA PlanShape ==
    ASSUME ListsTyped(divisions), NEW f, NEW s \in PlanSwaps(f)
    PROVE  s \in SwapSet /\ s.upper + 1 \in Divisions
<1>1. PICK d \in Divisions : /\ d + 1 \in Divisions
                             /\ \E high \in Resolved(f, d), low \in Resolved(f, d + 1) :
                                   s \in SwapsBetween(d, high, low)
  BY DEF PlanSwaps
<1>2. PICK high, low : s \in Pairs(d, Leaving(d + 1, low, high), Leaving(d, high, low))
  BY <1>1 DEF SwapsBetween
<1>3. /\ Leaving(d + 1, low, high) \subseteq ClubsOf(Lists)
      /\ Leaving(d, high, low) \subseteq ClubsOf(Lists)
  BY <1>1, ListIsFinite DEF ListsTyped, Leaving
<1>4. QED BY <1>1, <1>2, <1>3 DEF Pairs, SwapSet

LEMMA PlanIsFinite ==
    ASSUME ListsTyped(divisions), NEW f
    PROVE  IsFiniteSet(PlanSwaps(f))
<1>1. PlanSwaps(f) \subseteq SwapSet
  BY PlanShape
<1>2. QED BY <1>1, SwapSetIsFinite, FS_Subset

LEMMA PutOne ==
    ASSUME NEW X, NEW list \in Seq(X), NEW new \in X, NEW old \in Range(list)
    PROVE  /\ Put(list, old, new) \in Seq(X)
           /\ Range(Put(list, old, new)) = (Range(list) \ {old}) \cup {new}
<1>1. Len(list) \in Nat /\ DOMAIN list = 1 .. Len(list) /\ \A i \in DOMAIN list : list[i] \in X
  BY LenProperties, ElementOfSeq
<1>2. DOMAIN Put(list, old, new) = 1 .. Len(list)
  BY <1>1 DEF Put
<1>3. \A i \in 1 .. Len(list) : Put(list, old, new)[i] \in X
  BY <1>1 DEF Put
<1>4. Put(list, old, new) = [i \in 1 .. Len(list) |-> Put(list, old, new)[i]]
  BY <1>1 DEF Put
<1>5. Put(list, old, new) \in Seq(X)
  BY <1>1, <1>3, <1>4, IsASeq
<1>6. QED BY <1>5 DEF Put, Range

(* The two divisions of a swap exchange its clubs, when they have them.    *)
LEMMA SwapOne ==
    ASSUME NEW L, ListsTyped(L), NEW s \in SwapSet, s.upper + 1 \in Divisions,
           s.up \in Range(L[s.upper + 1]), s.down \in Range(L[s.upper])
    PROVE  /\ ListsTyped(Swapped(L, s))
           /\ Range(Swapped(L, s)[s.upper]) = (Range(L[s.upper]) \ {s.down}) \cup {s.up}
           /\ Range(Swapped(L, s)[s.upper + 1]) = (Range(L[s.upper + 1]) \ {s.up}) \cup {s.down}
           /\ \A d \in Divisions \ {s.upper, s.upper + 1} : Swapped(L, s)[d] = L[d]
<1> DEFINE u == s.upper
           M == Swapped(L, s)
<1>1. u \in Divisions /\ u \in Nat /\ u # u + 1 /\ {s.up, s.down} \subseteq ClubsOf(Lists)
  <2>1. u \in Divisions /\ s.up \in ClubsOf(Lists) /\ s.down \in ClubsOf(Lists)
    BY DEF SwapSet
  <2>2. u \in Nat
    BY <2>1, DivisionsAreNumbers
  <2>3. QED BY <2>1, <2>2
<1>2. DOMAIN L = Divisions /\ \A d \in Divisions : L[d] \in Seq(ClubsOf(Lists))
  BY DEF ListsTyped
<1>3. M = [L EXCEPT ![u] = Put(L[u], s.down, s.up), ![u + 1] = Put(L[u + 1], s.up, s.down)]
  BY <1>1, <1>2 DEF Swapped
<1>4. /\ DOMAIN M = Divisions
      /\ M[u] = Put(L[u], s.down, s.up)
      /\ M[u + 1] = Put(L[u + 1], s.up, s.down)
      /\ \A d \in Divisions \ {u, u + 1} : M[d] = L[d]
  BY <1>1, <1>2, <1>3
<1>5. /\ M[u] \in Seq(ClubsOf(Lists))
      /\ Range(M[u]) = (Range(L[u]) \ {s.down}) \cup {s.up}
  BY <1>1, <1>2, <1>4, PutOne
<1>6. /\ M[u + 1] \in Seq(ClubsOf(Lists))
      /\ Range(M[u + 1]) = (Range(L[u + 1]) \ {s.up}) \cup {s.down}
  BY <1>1, <1>2, <1>4, PutOne
<1>7. ListsTyped(M)
  BY <1>2, <1>4, <1>5, <1>6 DEF ListsTyped
<1>8. QED BY <1>4, <1>5, <1>6, <1>7

LEMMA SwapsKeepShape ==
    ASSUME ListsTyped(divisions), NEW S, IsFiniteSet(S),
           \A s \in S : s \in SwapSet /\ s.upper + 1 \in Divisions
    PROVE  ListsTyped(FoldSet(LAMBDA s, lists : Swapped(lists, s), divisions, S))
<1>1. ASSUME NEW L, ListsTyped(L), NEW s \in S PROVE ListsTyped(Swapped(L, s))
  BY <1>1, SwapOne DEF Swapped
<1>2. ListsTyped(Shaping!SetFold(divisions, divisions, S))
  <2>1. Shaped(divisions, {}, divisions)
    BY DEF Shaped
  <2>2. \A T \in SUBSET S : \A s \in S \ T : \A L :
           Shaped(divisions, T, L) => Shaped(divisions, T \cup {s}, Swapped(L, s))
    BY <1>1 DEF Shaped
  <2>3. Shaped(divisions, S, Shaping!SetFold(divisions, divisions, S))
    BY <2>1, <2>2, Shaping!SetFoldInvariant DEF IsFiniteSet, Shaping!IsFiniteSet
  <2>4. QED BY <2>3 DEF Shaped
<1>3. QED BY <1>2 DEF Shaping!SetFold, FoldSet, Shaping!FoldSet, MapThenFoldSet, Shaping!MapThenFoldSet

(* Swaps of which no two share a club, of lists that have their clubs.     *)
LEMMA SwapsPlace ==
    ASSUME ListsTyped(divisions), NEW S, IsFiniteSet(S),
           \A s \in S : /\ s \in SwapSet /\ s.upper + 1 \in Divisions
                        /\ s.up \in Range(divisions[s.upper + 1])
                        /\ s.down \in Range(divisions[s.upper]),
           \A s, t \in S : s # t => {s.up, s.down} \cap {t.up, t.down} = {}
    PROVE  Placed(divisions, S, FoldSet(LAMBDA s, lists : Swapped(lists, s), divisions, S))
<1>1. ASSUME NEW T \in SUBSET S, NEW s \in S \ T, NEW L, Placed(divisions, T, L)
      PROVE  Placed(divisions, T \cup {s}, Swapped(L, s))
  <2> DEFINE u == s.upper
             M == Swapped(L, s)
  <2>1. u \in Divisions /\ u + 1 \in Divisions /\ u \in Nat /\ s \in SwapSet
    BY DivisionsAreNumbers DEF SwapSet
  <2>2. \A t \in T : {s.up, s.down} \cap {t.up, t.down} = {}
    OBVIOUS
  <2>3. \A d \in Divisions : /\ s.up \notin Gone(T, d) /\ s.down \notin Gone(T, d)
                              /\ s.up \notin Come(T, d) /\ s.down \notin Come(T, d)
    BY <2>2 DEF Gone, Come
  <2>4. s.up \in Range(L[u + 1]) /\ s.down \in Range(L[u])
    BY <1>1, <2>1, <2>3 DEF Placed
  <2>5. /\ ListsTyped(M)
        /\ Range(M[u]) = (Range(L[u]) \ {s.down}) \cup {s.up}
        /\ Range(M[u + 1]) = (Range(L[u + 1]) \ {s.up}) \cup {s.down}
        /\ \A d \in Divisions \ {u, u + 1} : M[d] = L[d]
    BY <1>1, <2>1, <2>4, SwapOne DEF Placed
  <2>6. ASSUME NEW d \in Divisions
        PROVE  Range(M[d]) = (Range(divisions[d]) \ Gone(T \cup {s}, d)) \cup Come(T \cup {s}, d)
    <3>0. Range(L[d]) = (Range(divisions[d]) \ Gone(T, d)) \cup Come(T, d)
      BY <1>1 DEF Placed
    <3>1. CASE d = u
      <4>1. u # u + 1
        BY <2>1
      <4>2. Gone(T \cup {s}, d) = Gone(T, d) \cup {s.down} /\ Come(T \cup {s}, d) = Come(T, d) \cup {s.up}
        BY <3>1, <4>1 DEF Gone, Come
      <4>3. Range(M[d]) = (Range(L[d]) \ {s.down}) \cup {s.up} /\ s.down \notin Come(T, d)
        BY <2>3, <2>5, <3>1
      <4>4. QED BY <3>0, <4>2, <4>3
    <3>2. CASE d = u + 1
      <4>1. u # u + 1
        BY <2>1
      <4>2. Gone(T \cup {s}, d) = Gone(T, d) \cup {s.up} /\ Come(T \cup {s}, d) = Come(T, d) \cup {s.down}
        BY <3>2, <4>1 DEF Gone, Come
      <4>3. Range(M[d]) = (Range(L[d]) \ {s.up}) \cup {s.down} /\ s.up \notin Come(T, d)
        BY <2>3, <2>5, <3>2
      <4>4. QED BY <3>0, <4>2, <4>3
    <3>3. CASE d # u /\ d # u + 1
      <4>1. Gone(T \cup {s}, d) = Gone(T, d) /\ Come(T \cup {s}, d) = Come(T, d)
        BY <3>3 DEF Gone, Come
      <4>2. QED BY <2>5, <3>0, <3>3, <4>1
    <3>4. QED BY <3>1, <3>2, <3>3
  <2>7. QED BY <2>5, <2>6 DEF Placed
<1>2. Placed(divisions, {}, divisions)
  BY DEF Placed, Gone, Come
<1>3. Placed(divisions, S, Swapping!SetFold(divisions, divisions, S))
  <2>1. \A T \in SUBSET S : \A s \in S \ T : \A L :
           Placed(divisions, T, L) => Placed(divisions, T \cup {s}, Swapped(L, s))
    BY <1>1
  <2>2. QED BY <1>2, <2>1, Swapping!SetFoldInvariant DEF IsFiniteSet, Swapping!IsFiniteSet
<1>4. QED BY <1>3 DEF Swapping!SetFold, FoldSet, Swapping!FoldSet, MapThenFoldSet, Swapping!MapThenFoldSet

-----------------------------------------------------------------------------
(* A run's moves.                                                          *)

MovesInv == ListsOk(divisions) /\ (stage # "idle" => moves = {})

LEMMA DivisionFound ==
    ASSUME NEW L, ListsOk(L), NEW d \in Divisions, NEW c \in Range(L[d])
    PROVE  DivisionOf(L, c) = d
<1>1. ASSUME NEW e \in Divisions, c \in Range(L[e]) PROVE e = d
  BY <1>1 DEF ListsOk, ListsTyped, NoClubTwice, Range
<1>2. QED BY <1>1 DEF DivisionOf

(* The lists that a run proposes.                                          *)
Updated(plan) == FoldSet(LAMBDA s, lists : Swapped(lists, s), divisions, plan)

LEMMA PlanMoves ==
    ASSUME ListsOk(divisions), Recognisable, NEW f, NEW plan \in {{}, PlanSwaps(f)},
           ListsOk(Updated(plan)),
           NEW moved, moved = {c \in ClubsOf(divisions) :
                                 DivisionOf(Updated(plan), c) # DivisionOf(divisions, c)}
    PROVE  /\ \A c \in moved : League(c) = LeagueOf(DivisionOf(Updated(plan), c))
           /\ UNION {{<<s.up, s.upper>>, <<s.down, s.upper + 1>>} : s \in plan}
                = {<<c, DivisionOf(Updated(plan), c)>> : c \in moved}
<1> DEFINE new == Updated(plan)
<1>1. \A s \in plan : IsSwap(s) /\ s \in SwapSet
  BY SwapsAreRight, PlanShape DEF ListsOk
<1>2. IsFiniteSet(plan)
  BY PlanIsFinite, FS_EmptySet DEF ListsOk
<1>3. Placed(divisions, plan, new)
  BY <1>1, <1>2, SwapsAreApart, SwapsPlace DEF IsSwap, ListsOk, Updated
<1> HIDE DEF new
<1>4. ASSUME NEW s \in plan
      PROVE  /\ DivisionOf(new, s.up) = s.upper /\ DivisionOf(divisions, s.up) = s.upper + 1
             /\ DivisionOf(new, s.down) = s.upper + 1 /\ DivisionOf(divisions, s.down) = s.upper
             /\ s.upper \in Nat /\ {s.up, s.down} \subseteq ClubsOf(divisions)
             /\ League(s.up) = LeagueOf(s.upper) /\ League(s.down) = LeagueOf(s.upper + 1)
  <2>1. /\ s.upper \in Divisions /\ s.upper + 1 \in Divisions
        /\ s.up \in Range(divisions[s.upper + 1]) /\ s.down \in Range(divisions[s.upper])
        /\ League(s.up) = LeagueOf(s.upper) /\ League(s.down) = LeagueOf(s.upper + 1)
    BY <1>1 DEF IsSwap
  <2>2. s.up \in Come(plan, s.upper) /\ s.down \in Come(plan, s.upper + 1)
    BY DEF Come
  <2>3. s.up \in Range(new[s.upper]) /\ s.down \in Range(new[s.upper + 1])
    BY <1>3, <2>1, <2>2 DEF Placed
  <2>4. ListsOk(new)
    BY DEF new
  <2>5. {s.up, s.down} \subseteq ClubsOf(divisions)
    BY <2>1 DEF ClubsOf
  <2>6. QED BY <2>1, <2>3, <2>4, <2>5, DivisionFound, DivisionsAreNumbers
<1>5. ASSUME NEW c \in moved PROVE \E s \in plan : c \in {s.up, s.down}
  <2>1. PICK d \in Divisions : c \in Range(divisions[d])
    BY DEF ClubsOf
  <2>2. c \notin Range(new[d])
    BY <2>1, DivisionFound DEF new
  <2>3. c \in Gone(plan, d)
    BY <1>3, <2>1, <2>2 DEF Placed
  <2>4. QED BY <2>3 DEF Gone
<1>6. moved = UNION {{s.up, s.down} : s \in plan}
  <2>1. ASSUME NEW s \in plan PROVE {s.up, s.down} \subseteq moved
    <3>1. s.upper # s.upper + 1
      BY <1>4
    <3>2. QED BY <1>4, <3>1 DEF new
  <2>2. QED BY <1>5, <2>1
<1>7. \A c \in moved : League(c) = LeagueOf(DivisionOf(new, c))
  BY <1>4, <1>5
<1>8. UNION {{<<s.up, s.upper>>, <<s.down, s.upper + 1>>} : s \in plan}
        = {<<c, DivisionOf(new, c)>> : c \in moved}
  BY <1>4, <1>6
<1>9. QED BY <1>7, <1>8 DEF new

(* The swaps a run makes are none or those it planned, and it reports them *)
(* when the save takes them.                                               *)
LEMMA UpdateSplits ==
    ASSUME NEW f, UpdateLeagues(f)
    PROVE  /\ stage = "leagues" /\ stage' = "idle"
           /\ \/ divisions' = divisions /\ moves' = {}
              \/ \E plan \in {{}, PlanSwaps(f)} :
                    /\ divisions' = Updated(plan) /\ NoClubTwice(Updated(plan))
                    /\ moves' = UNION {{<<s.up, s.upper>>, <<s.down, s.upper + 1>>} : s \in plan}
<1> DEFINE plan == IF 2 * Cardinality(ToAsk \ f.silent) < Cardinality(ToAsk)
                   THEN {} ELSE PlanSwaps(f)
<1>1. plan \in {{}, PlanSwaps(f)}
  OBVIOUS
<1>2. /\ stage = "leagues" /\ stage' = "idle"
      /\ IF CheckMembership(divisions, Updated(plan))
         THEN /\ divisions' = Updated(plan)
              /\ moves' = UNION {{<<s.up, s.upper>>, <<s.down, s.upper + 1>>} : s \in plan}
         ELSE moves' = {} /\ UNCHANGED divisions
  BY DEF UpdateLeagues, Updated
<1> HIDE DEF plan
<1>3. QED BY <1>1, <1>2 DEF CheckMembership

LEMMA UpdateKeepsLists ==
    ASSUME ListsOk(divisions), NEW f, NEW plan \in {{}, PlanSwaps(f)}, NoClubTwice(Updated(plan))
    PROVE  ListsOk(Updated(plan))
<1>1. ListsTyped(divisions)
  BY DEF ListsOk
<1>2. IsFiniteSet(plan)
  BY <1>1, PlanIsFinite, FS_EmptySet
<1>3. \A s \in plan : s \in SwapSet /\ s.upper + 1 \in Divisions
  BY <1>1, PlanShape
<1>4. ListsTyped(Updated(plan))
  BY <1>1, <1>2, <1>3, SwapsKeepShape DEF Updated
<1>5. QED BY <1>4 DEF ListsOk

LEMMA OthersMoveNothing ==
    ASSUME Next, ~ \E f \in Faults : UpdateLeagues(f)
    PROVE  divisions' = divisions /\ (stage = "leagues" => moves' = moves)
                                 /\ (moves' # moves => moves' = {})
                                 /\ (stage = "idle" => stage' = "idle" \/ moves' = {})
BY DEF Next, Open, SaveIndex, Stop, OtherRun, Damage, NewSeason, Learn, leagueVars, identityVars

LEMMA MovesInvInit == Init => MovesInv
BY ListsAreOk DEF Init, MovesInv

LEMMA MovesInvNext == MovesInv /\ [Next]_vars => MovesInv'
<1> SUFFICES ASSUME MovesInv, [Next]_vars PROVE MovesInv'
  OBVIOUS
<1>1. CASE \E f \in Faults : UpdateLeagues(f)
  <2>1. PICK f \in Faults : UpdateLeagues(f)
    BY <1>1
  <2>2. CASE divisions' = divisions
    BY <2>1, <2>2, UpdateSplits DEF MovesInv, ListsOk, ListsTyped, NoClubTwice
  <2>3. CASE \E plan \in {{}, PlanSwaps(f)} : divisions' = Updated(plan) /\ NoClubTwice(Updated(plan))
    <3>1. PICK plan \in {{}, PlanSwaps(f)} : divisions' = Updated(plan) /\ NoClubTwice(Updated(plan))
      BY <2>3
    <3>2. ListsOk(Updated(plan))
      BY <3>1, UpdateKeepsLists DEF MovesInv
    <3>3. ListsOk(divisions')
      BY <3>1, <3>2
    <3>4. QED BY <2>1, <3>3, UpdateSplits DEF MovesInv
  <2>4. QED BY <2>1, <2>2, <2>3, UpdateSplits
<1>2. CASE Next /\ ~ \E f \in Faults : UpdateLeagues(f)
  <2>1. divisions' = divisions /\ (stage' # "idle" => moves' = {})
    BY <1>2, OthersMoveNothing DEF MovesInv
  <2>2. QED BY <2>1 DEF MovesInv, ListsOk, ListsTyped, NoClubTwice
<1>3. CASE UNCHANGED vars
  BY <1>3 DEF MovesInv, ListsOk, ListsTyped, NoClubTwice, vars, leagueVars, identityVars
<1>4. QED BY <1>1, <1>2, <1>3

(* The step that MovesAreRight is about.                                   *)
MoveRight ==
    LET moved == {c \in ClubsOf(divisions) : DivisionOf(divisions', c) # DivisionOf(divisions, c)}
    IN  stage = "leagues" /\ Recognisable =>
          /\ \A c \in moved : League(c) = LeagueOf(DivisionOf(divisions', c))
          /\ moves' = {<<c, DivisionOf(divisions', c)>> : c \in moved}

LEMMA MovesInvMoves == MovesInv /\ [Next]_vars => [MoveRight]_vars
<1> SUFFICES ASSUME MovesInv, Next, stage = "leagues", Recognisable PROVE MoveRight
  BY DEF MoveRight
<1> DEFINE moved == {c \in ClubsOf(divisions) : DivisionOf(divisions', c) # DivisionOf(divisions, c)}
<1>1. CASE divisions' = divisions /\ moves' = {}
  BY <1>1 DEF MoveRight
<1>2. CASE ~ \E f \in Faults : UpdateLeagues(f)
  BY <1>1, <1>2, OthersMoveNothing DEF MovesInv
<1>3. ASSUME NEW f \in Faults, UpdateLeagues(f),
             NEW plan \in {{}, PlanSwaps(f)},
             divisions' = Updated(plan), NoClubTwice(Updated(plan)),
             moves' = UNION {{<<s.up, s.upper>>, <<s.down, s.upper + 1>>} : s \in plan}
      PROVE  MoveRight
  <2>1. ListsOk(divisions) /\ ListsOk(Updated(plan))
    BY <1>3, UpdateKeepsLists DEF MovesInv
  <2>2. moved = {c \in ClubsOf(divisions) : DivisionOf(Updated(plan), c) # DivisionOf(divisions, c)}
    BY <1>3
  <2> HIDE DEF moved
  <2>3. /\ \A c \in moved : League(c) = LeagueOf(DivisionOf(Updated(plan), c))
        /\ UNION {{<<s.up, s.upper>>, <<s.down, s.upper + 1>>} : s \in plan}
             = {<<c, DivisionOf(Updated(plan), c)>> : c \in moved}
    BY <2>1, <2>2, PlanMoves
  <2>4. QED BY <1>3, <2>3 DEF MoveRight, moved
<1>4. QED BY <1>1, <1>2, <1>3, UpdateSplits

(* While the divisions can be recognised, a run moves a club only to the   *)
(* division of the league it plays in, whatever answers are missing or     *)
(* misleading, and reports the moves it made (leagues.rs, plan_swaps and   *)
(* run).                                                                   *)
THEOREM MovesStayRight == Spec => MovesAreRight
<1>1. MovesInv /\ [Next]_vars => [MoveRight]_vars
  BY MovesInvMoves
<1>2. QED BY <1>1, MovesInvInit, MovesInvNext, PTL DEF Spec, MovesAreRight, MoveRight

-----------------------------------------------------------------------------
(* What a run knows of teams and clubs.                                    *)

Told == {s.team : s \in Telling}

(* Bindings of teams whose squads tell.                                    *)
Bindings(m) == DOMAIN m \subseteq Told /\ \A t \in DOMAIN m : m[t] = Is[t]

(* An index binds both ways, and what it learned it holds.                 *)
TwoWay(ix) ==
    /\ \A c \in DOMAIN ix.held : ix.held[c] \in DOMAIN ix.of /\ ix.of[ix.held[c]] = c
    /\ \A t \in DOMAIN ix.of : ix.of[t] \in DOMAIN ix.held /\ ix.held[ix.of[t]] = t

IndexOk(ix) ==
    /\ TwoWay(ix)
    /\ Bindings(ix.learned)
    /\ \A t \in DOMAIN ix.learned : t \in DOMAIN ix.of /\ ix.of[t] = Is[t]

CacheOk(c) == DOMAIN c = Saves /\ Bindings(c["this"])

(* A team that is known is in what the index learned, while the save has   *)
(* its club.                                                               *)
KnownIn(k, ix) == \A t \in DOMAIN k : Is[t] \in ix.clubs => t \in DOMAIN ix.learned

IdentityInv ==
    /\ IndexOk(index) /\ Bindings(known) /\ KnownIn(known, index)
    /\ stage = "open" => index.clubs \in {Clubs \ gone : gone \in {{}, Abroad}}
    /\ cache = Unreadable \/ CacheOk(cache)
    /\ DOMAIN copies = Saves
    /\ copies["other"] = NotRead \/ CacheOk(copies["other"])
    /\ stage = "saving" => CacheOk(copies["this"])

LEMMA BindKeeps ==
    ASSUME NEW ix, TwoWay(ix), NEW t, NEW c
    PROVE  /\ TwoWay(Bind(ix, t, c))
           /\ t \in DOMAIN Bind(ix, t, c).of /\ Bind(ix, t, c).of[t] = c
           /\ \A u \in DOMAIN ix.of \ {t} : ix.of[u] # c =>
                 u \in DOMAIN Bind(ix, t, c).of /\ Bind(ix, t, c).of[u] = ix.of[u]
           /\ Bind(ix, t, c).clubs = ix.clubs
           /\ DOMAIN Bind(ix, t, c).learned \subseteq DOMAIN ix.learned
           /\ \A u \in DOMAIN Bind(ix, t, c).learned : Bind(ix, t, c).learned[u] = ix.learned[u]
           /\ \A u \in DOMAIN ix.learned :
                 (c \in DOMAIN ix.held => u # ix.held[c]) => u \in DOMAIN Bind(ix, t, c).learned
<1> DEFINE held == Restrict(ix.held, DOMAIN ix.held \ At(ix.of, t))
           of == Without(ix.of, t)
           formers == At(held, c)
           heldNew == With(held, c, t)
           ofNew == With(Restrict(of, DOMAIN of \ formers), t, c)
           learned == Restrict(ix.learned, DOMAIN ix.learned \ formers)
<1>1. Bind(ix, t, c) = [clubs |-> ix.clubs, held |-> heldNew, of |-> ofNew, learned |-> learned]
  BY DEF Bind
<1>2. /\ DOMAIN held = {x \in DOMAIN ix.held : ~(t \in DOMAIN ix.of /\ x = ix.of[t])}
      /\ \A x \in DOMAIN held : held[x] = ix.held[x]
  BY DEF At, Restrict
<1>3. /\ DOMAIN of = DOMAIN ix.of \ {t}
      /\ \A u \in DOMAIN of : of[u] = ix.of[u]
  BY DEF Without, Restrict
<1>4. \A u : u \in formers <=> c \in DOMAIN held /\ u = held[c]
  BY DEF At
<1> HIDE DEF held, of, formers
<1>5. /\ DOMAIN heldNew = DOMAIN held \cup {c}
      /\ heldNew[c] = t /\ \A x \in DOMAIN held \ {c} : heldNew[x] = held[x]
  BY DEF With
<1>6. /\ DOMAIN ofNew = (DOMAIN of \ formers) \cup {t}
      /\ ofNew[t] = c /\ \A u \in (DOMAIN of \ formers) \ {t} : ofNew[u] = of[u]
  BY DEF With, Restrict
<1>7. /\ DOMAIN learned = DOMAIN ix.learned \ formers
      /\ \A u \in DOMAIN learned : learned[u] = ix.learned[u]
  BY DEF Restrict
<1> HIDE DEF heldNew, ofNew, learned
<1>8. ASSUME NEW x \in DOMAIN heldNew PROVE heldNew[x] \in DOMAIN ofNew /\ ofNew[heldNew[x]] = x
  <2>1. CASE x = c
    BY <1>5, <1>6, <2>1
  <2>2. CASE x # c
    <3>1. x \in DOMAIN held /\ heldNew[x] = ix.held[x] /\ x \in DOMAIN ix.held
      BY <1>2, <1>5, <2>2
    <3>2. ix.held[x] \in DOMAIN ix.of /\ ix.of[ix.held[x]] = x
      BY <3>1 DEF TwoWay
    <3>3. ix.held[x] # t
      BY <1>2, <3>1, <3>2
    <3>4. ix.held[x] \notin formers
      BY <1>2, <1>4, <2>2, <3>2 DEF TwoWay
    <3>5. QED BY <1>3, <1>6, <3>1, <3>2, <3>3, <3>4
  <2>3. QED BY <2>1, <2>2
<1>9. ASSUME NEW u \in DOMAIN ofNew PROVE ofNew[u] \in DOMAIN heldNew /\ heldNew[ofNew[u]] = u
  <2>1. CASE u = t
    BY <1>5, <1>6, <2>1
  <2>2. CASE u # t
    <3>1. u \in DOMAIN ix.of /\ u \notin formers /\ ofNew[u] = ix.of[u]
      BY <1>3, <1>6, <2>2
    <3>2. ix.of[u] \in DOMAIN ix.held /\ ix.held[ix.of[u]] = u
      BY <3>1 DEF TwoWay
    <3>3. ix.of[u] \in DOMAIN held
      BY <1>2, <2>2, <3>2 DEF TwoWay
    <3>4. ix.of[u] # c
      BY <1>2, <1>4, <3>1, <3>2, <3>3
    <3>5. QED BY <1>2, <1>5, <3>1, <3>2, <3>3, <3>4
  <2>3. QED BY <2>1, <2>2
<1>10. TwoWay([clubs |-> ix.clubs, held |-> heldNew, of |-> ofNew, learned |-> learned])
  BY <1>8, <1>9 DEF TwoWay
<1>11. ASSUME NEW u \in DOMAIN ix.of \ {t}, ix.of[u] # c
       PROVE  u \in DOMAIN ofNew /\ ofNew[u] = ix.of[u]
  <2>1. u \notin formers
    BY <1>2, <1>4, <1>11 DEF TwoWay
  <2>2. QED BY <1>3, <1>6, <2>1
<1>12. ASSUME NEW u \in DOMAIN ix.learned, c \in DOMAIN ix.held => u # ix.held[c]
       PROVE  u \in DOMAIN learned
  BY <1>2, <1>4, <1>7, <1>12
<1>13. t \in DOMAIN ofNew /\ ofNew[t] = c
  BY <1>6
<1>14. QED BY <1>1, <1>7, <1>10, <1>11, <1>12, <1>13

(* What one team teaches takes nothing of what was learned away.           *)
LEMMA LearnKeeps ==
    ASSUME NEW ix, IndexOk(ix), NEW t \in Told
    PROVE  /\ IndexOk(ApplyLearned(ix, t, Is[t]))
           /\ ApplyLearned(ix, t, Is[t]).clubs = ix.clubs
           /\ DOMAIN ApplyLearned(ix, t, Is[t]).learned = DOMAIN ix.learned \cup {t}
<1> DEFINE b == Bind(ix, t, Is[t])
           a == ApplyLearned(ix, t, Is[t])
<1>0. Told \subseteq DOMAIN Is /\ \A u, v \in DOMAIN Is : Is[u] = Is[v] => u = v
  BY SquadsAssumption DEF Told
<1>1. TwoWay(ix) /\ Bindings(ix.learned)
      /\ \A u \in DOMAIN ix.learned : u \in DOMAIN ix.of /\ ix.of[u] = Is[u]
  BY DEF IndexOk
<1>2. /\ TwoWay(b) /\ t \in DOMAIN b.of /\ b.of[t] = Is[t]
      /\ \A u \in DOMAIN ix.of \ {t} : ix.of[u] # Is[t] => u \in DOMAIN b.of /\ b.of[u] = ix.of[u]
      /\ b.clubs = ix.clubs
      /\ DOMAIN b.learned \subseteq DOMAIN ix.learned
      /\ \A u \in DOMAIN b.learned : b.learned[u] = ix.learned[u]
      /\ \A u \in DOMAIN ix.learned :
            (Is[t] \in DOMAIN ix.held => u # ix.held[Is[t]]) => u \in DOMAIN b.learned
  BY <1>1, BindKeeps
<1>3. /\ a.clubs = b.clubs /\ a.held = b.held /\ a.of = b.of
      /\ a.learned = With(b.learned, t, Is[t])
  BY DEF ApplyLearned, Bind
<1> HIDE DEF a, b
<1>4. /\ DOMAIN a.learned = DOMAIN b.learned \cup {t}
      /\ \A u \in DOMAIN a.learned : a.learned[u] = IF u = t THEN Is[t] ELSE b.learned[u]
  BY <1>3 DEF With
<1>5. ASSUME NEW u \in DOMAIN ix.learned, u # t
      PROVE  /\ u \in DOMAIN b.learned /\ b.learned[u] = Is[u]
             /\ u \in DOMAIN b.of /\ b.of[u] = Is[u]
  <2>1. u \in Told /\ ix.learned[u] = Is[u] /\ u \in DOMAIN ix.of /\ ix.of[u] = Is[u]
    BY <1>1 DEF Bindings
  <2>2. Is[u] # Is[t]
    BY <1>0, <1>5, <2>1
  <2>3. Is[t] \in DOMAIN ix.held => u # ix.held[Is[t]]
    BY <1>1, <2>1, <2>2 DEF TwoWay
  <2>4. QED BY <1>2, <1>5, <2>1, <2>2, <2>3
<1>6. DOMAIN a.learned = DOMAIN ix.learned \cup {t}
  BY <1>2, <1>4, <1>5
<1>7. Bindings(a.learned)
  BY <1>1, <1>4, <1>5, <1>6 DEF Bindings
<1>8. TwoWay(a)
  BY <1>2, <1>3 DEF TwoWay
<1>9. \A u \in DOMAIN a.learned : u \in DOMAIN a.of /\ a.of[u] = Is[u]
  BY <1>2, <1>3, <1>5, <1>6
<1>10. QED BY <1>2, <1>3, <1>6, <1>7, <1>8, <1>9 DEF IndexOk, a

(* An index that names made, and one that squads are recalled in.          *)
NamedSo(clubs, T, ix) == TwoWay(ix) /\ DOMAIN ix.learned = {} /\ ix.clubs = clubs
RecalledSo(clubs, T, ix) == IndexOk(ix) /\ DOMAIN ix.learned = {b[1] : b \in T} /\ ix.clubs = clubs

Naming == INSTANCE FoldInduction WITH Op <- LAMBDA e, s, x : Named(s, x), Inv <- NamedSo
Recalling == INSTANCE FoldInduction WITH Op <- LAMBDA e, s, x : Recalled(s, x), Inv <- RecalledSo

LEMMA NamesAreFinite ==
    ASSUME NEW clubs \in SUBSET Clubs
    PROVE  IsFiniteSet(NameBindings(clubs))
<1> DEFINE pairs(c) == {<<t, c>> : t \in Proposal(c)}
           S == {pairs(c) : c \in clubs}
<1>1. IsFiniteSet(Clubs)
  BY ClubsAreFinite, NamesAssumption, FS_Union DEF Clubs
<1>2. IsFiniteSet(clubs)
  BY <1>1, FS_Subset
<1>3. ASSUME NEW c \in clubs PROVE IsFiniteSet(pairs(c))
  <2>1. Proposal(c) \subseteq DOMAIN Alike[c]
    BY DEF Proposal, Rivals, Candidate
  <2>2. IsFiniteSet(Proposal(c))
    BY <2>1, NamesAssumption, FS_Subset
  <2> DEFINE g == [t \in Proposal(c) |-> <<t, c>>]
  <2>3. g \in Surjection(Proposal(c), pairs(c))
    BY DEF Surjection
  <2>4. QED BY <2>2, <2>3, FS_Surjection
<1>4. IsFiniteSet(S)
  <2> DEFINE f == [c \in clubs |-> pairs(c)]
  <2> HIDE DEF pairs
  <2>1. f \in Surjection(clubs, S)
    BY DEF Surjection
  <2>2. QED BY <1>2, <2>1, FS_Surjection
<1>5. IsFiniteSet(UNION S)
  <2>1. \A T \in S : IsFiniteSet(T)
    BY <1>3
  <2>2. QED BY <1>4, <2>1, FS_UNION
<1>6. NameBindings(clubs) \subseteq UNION S
  BY DEF NameBindings
<1>7. QED BY <1>5, <1>6, FS_Subset

LEMMA ToldIsFinite == IsFiniteSet(Told)
<1>1. IsFiniteSet(Telling)
  BY SquadsAssumption, FS_Subset
<1> DEFINE f == [s \in Telling |-> s.team]
<1>2. f \in Surjection(Telling, Told)
  BY DEF Surjection, Told
<1>3. QED BY <1>1, <1>2, FS_Surjection

(* A run starts from an index that has what the cache says of its clubs.   *)
LEMMA BuiltOk ==
    ASSUME NEW clubs \in SUBSET Clubs, NEW cached, Bindings(cached)
    PROVE  /\ IndexOk(BuildIndex(clubs, cached)) /\ BuildIndex(clubs, cached).clubs = clubs
           /\ KnownIn(cached, BuildIndex(clubs, cached))
<1> DEFINE old == {<<t, cached[t]>> : t \in {x \in DOMAIN cached : cached[x] \in clubs}}
           named == FoldSet(LAMBDA b, ix : Named(ix, b), EmptyIndex(clubs), NameBindings(clubs))
           built == FoldSet(LAMBDA b, ix : Recalled(ix, b), named, old)
<1>1. NamedSo(clubs, NameBindings(clubs), named)
  <2>1. NamedSo(clubs, {}, EmptyIndex(clubs))
    BY DEF NamedSo, EmptyIndex, TwoWay
  <2>2. \A T \in SUBSET NameBindings(clubs) : \A b \in NameBindings(clubs) \ T : \A ix :
           NamedSo(clubs, T, ix) => NamedSo(clubs, T \cup {b}, Named(ix, b))
    BY BindKeeps DEF NamedSo, Named
  <2>3. IsFiniteSet(NameBindings(clubs))
    BY NamesAreFinite
  <2>4. NamedSo(clubs, NameBindings(clubs), Naming!SetFold(clubs, EmptyIndex(clubs), NameBindings(clubs)))
    BY <2>1, <2>2, <2>3, Naming!SetFoldInvariant DEF IsFiniteSet, Naming!IsFiniteSet
  <2>5. QED BY <2>4 DEF Naming!SetFold, FoldSet, Naming!FoldSet, MapThenFoldSet, Naming!MapThenFoldSet
<1> HIDE DEF named
<1>2. IsFiniteSet(old)
  <2> DEFINE here == {x \in DOMAIN cached : cached[x] \in clubs}
             f == [t \in here |-> <<t, cached[t]>>]
  <2>1. IsFiniteSet(here)
    BY ToldIsFinite, FS_Subset DEF Bindings
  <2>2. f \in Surjection(here, old)
    BY DEF Surjection
  <2>3. QED BY <2>1, <2>2, FS_Surjection
<1>3. \A b \in old : b[1] \in Told /\ b[2] = Is[b[1]]
  BY DEF Bindings
<1>4. \A t \in DOMAIN cached : Is[t] \in clubs => t \in {b[1] : b \in old}
  <2>1. ASSUME NEW t \in DOMAIN cached, Is[t] \in clubs PROVE \E b \in old : t = b[1]
    <3>1. <<t, cached[t]>> \in old /\ t = <<t, cached[t]>>[1]
      BY <2>1 DEF Bindings
    <3> HIDE DEF old
    <3>2. QED BY <3>1
  <2> HIDE DEF old
  <2>2. QED BY <2>1
<1>5. built = Recalling!SetFold(clubs, named, old)
  BY DEF Recalling!SetFold, FoldSet, Recalling!FoldSet, MapThenFoldSet, Recalling!MapThenFoldSet
<1>6. BuildIndex(clubs, cached) = built
  BY DEF BuildIndex, named
<1> HIDE DEF old, built
<1>7. RecalledSo(clubs, {}, named)
  BY <1>1 DEF NamedSo, RecalledSo, IndexOk, Bindings
<1>8. ASSUME NEW T \in SUBSET old, NEW b \in old \ T, NEW ix, RecalledSo(clubs, T, ix)
      PROVE  RecalledSo(clubs, T \cup {b}, Recalled(ix, b))
  <2>1. b[1] \in Told /\ Recalled(ix, b) = ApplyLearned(ix, b[1], Is[b[1]])
    BY <1>3 DEF Recalled
  <2>2. {x[1] : x \in T \cup {b}} = {x[1] : x \in T} \cup {b[1]}
    OBVIOUS
  <2>3. QED BY <1>8, <2>1, <2>2, LearnKeeps, SMTT(30) DEF RecalledSo
<1>9. RecalledSo(clubs, old, Recalling!SetFold(clubs, named, old))
  <2>1. \A T \in SUBSET old : \A b \in old \ T : \A ix :
           RecalledSo(clubs, T, ix) => RecalledSo(clubs, T \cup {b}, Recalled(ix, b))
    BY <1>8
  <2>2. QED BY <1>2, <1>7, <2>1, Recalling!SetFoldInvariant DEF IsFiniteSet, Recalling!IsFiniteSet
<1>10. QED BY <1>4, <1>5, <1>6, <1>9 DEF RecalledSo, KnownIn

(* The squads a run gets, one after the other.                             *)
LearnedSo(env, i, ix) ==
    /\ IndexOk(ix) /\ ix.clubs = env.start.clubs
    /\ DOMAIN env.start.learned \subseteq DOMAIN ix.learned
    /\ \A k \in 1 .. i : env.squads[k] \in Telling /\ Is[env.squads[k].team] \in ix.clubs
                           => env.squads[k].team \in DOMAIN ix.learned

Learning == INSTANCE FoldInduction WITH Op <- LAMBDA e, s, x : LearnFromSnapshot(s, x), Inv <- LearnedSo

LEMMA SquadTurn ==
    ASSUME NEW ix, IndexOk(ix), ix.clubs \in {Clubs \ gone : gone \in {{}, Abroad}},
           NEW s \in Squads
    PROVE  /\ IndexOk(LearnFromSnapshot(ix, s))
           /\ LearnFromSnapshot(ix, s).clubs = ix.clubs
           /\ DOMAIN ix.learned \subseteq DOMAIN LearnFromSnapshot(ix, s).learned
           /\ s \in Telling /\ Is[s.team] \in ix.clubs
                => s.team \in DOMAIN LearnFromSnapshot(ix, s).learned
<1> DEFINE best == Recognised(s, ix.clubs)
<1>1. best = IF s \in Telling THEN {Is[s.team]} \cap ix.clubs ELSE {}
  BY SquadsAssumption
<1>2. LearnFromSnapshot(ix, s) =
        IF best = {} THEN ix ELSE ApplyLearned(ix, s.team, CHOOSE c \in best : TRUE)
  BY DEF LearnFromSnapshot
<1> HIDE DEF best
<1>3. CASE best = {}
  BY <1>1, <1>2, <1>3
<1>4. CASE best # {}
  <2>1. s \in Telling /\ s.team \in Told /\ LearnFromSnapshot(ix, s) = ApplyLearned(ix, s.team, Is[s.team])
    BY <1>1, <1>2, <1>4 DEF Told
  <2>2. QED BY <2>1, LearnKeeps
<1>5. QED BY <1>3, <1>4

LEMMA LearntOk ==
    ASSUME NEW start, IndexOk(start), start.clubs \in {Clubs \ gone : gone \in {{}, Abroad}},
           NEW n \in Nat, NEW squads \in [1 .. n -> Squads]
    PROVE  LearnedSo([start |-> start, squads |-> squads], n, FoldLeft(LearnFromSnapshot, start, squads))
<1> DEFINE env == [start |-> start, squads |-> squads]
<1>1. LearnedSo(env, 0, start)
  BY DEF LearnedSo
<1>2. ASSUME NEW i \in 1 .. n, NEW ix, LearnedSo(env, i - 1, ix)
      PROVE  LearnedSo(env, i, LearnFromSnapshot(ix, squads[i]))
  <2> DEFINE next == LearnFromSnapshot(ix, squads[i])
  <2>1. /\ IndexOk(ix) /\ ix.clubs = start.clubs
        /\ DOMAIN start.learned \subseteq DOMAIN ix.learned
        /\ \A k \in 1 .. i - 1 : squads[k] \in Telling /\ Is[squads[k].team] \in ix.clubs
                                  => squads[k].team \in DOMAIN ix.learned
    BY <1>2 DEF LearnedSo
  <2>2. /\ IndexOk(next) /\ next.clubs = ix.clubs
        /\ DOMAIN ix.learned \subseteq DOMAIN next.learned
        /\ squads[i] \in Telling /\ Is[squads[i].team] \in ix.clubs
             => squads[i].team \in DOMAIN next.learned
    BY <2>1, SquadTurn
  <2> HIDE DEF next
  <2>3. \A k \in 1 .. i : squads[k] \in Telling /\ Is[squads[k].team] \in next.clubs
                          => squads[k].team \in DOMAIN next.learned
    <3>1. \A k \in 1 .. i : k = i \/ k \in 1 .. i - 1
      OBVIOUS
    <3>2. QED BY <2>1, <2>2, <3>1
  <2>4. LearnedSo(env, i, next)
    BY <2>1, <2>2, <2>3 DEF LearnedSo
  <2>5. QED BY <2>4 DEF next
<1> HIDE DEF env
<1>3. \A i \in 1 .. n : \A ix : LearnedSo(env, i - 1, ix) => LearnedSo(env, i, LearnFromSnapshot(ix, squads[i]))
  BY <1>2
<1>4. LearnedSo(env, n, Learning!Fold(env, start, squads))
  BY <1>1, <1>3, Learning!FoldInvariant
<1>5. QED BY <1>4 DEF env, Learning!Fold, FoldLeft, Learning!FoldLeft, MapThenFoldSet, Learning!MapThenFoldSet,
                      Max, Learning!Max

LEMMA AsSequence ==
    ASSUME NEW squads \in SUBSET Squads
    PROVE  \E n \in Nat : /\ SetToSeq(squads) \in [1 .. n -> Squads]
                          /\ \A s \in squads : \E k \in 1 .. n : SetToSeq(squads)[k] = s
                          /\ Range(SetToSeq(squads)) = squads
<1> DEFINE n == Cardinality(squads)
           sq == SetToSeq(squads)
<1>1. IsFiniteSet(squads) /\ n \in Nat
  BY SquadsAssumption, FS_Subset, FS_CardinalityType
<1>2. ExistsBijection(1 .. n, squads)
  BY <1>1, FS_Interval, FS_SameCardinalityBij
<1>3. \E f \in [1 .. n -> squads] : IsInjective(f)
  BY <1>2 DEF ExistsBijection, Bijection, Injection
<1>4. sq \in [1 .. n -> squads] /\ IsInjective(sq)
  BY <1>3 DEF SetToSeq
<1> HIDE DEF sq, n
<1>5. sq \in Injection(1 .. n, squads)
  BY <1>4 DEF Injection
<1>6. IsFiniteSet(1 .. n) /\ Cardinality(1 .. n) = Cardinality(squads)
  BY <1>1, FS_Interval DEF n
<1>7. sq \in Surjection(1 .. n, squads)
  BY <1>1, <1>5, <1>6, FS_Injection
<1>8. \A s \in squads : \E k \in 1 .. n : sq[k] = s
  BY <1>7 DEF Surjection
<1>9. Range(sq) = squads
  BY <1>4, <1>8 DEF Range
<1>10. sq \in [1 .. n -> Squads]
  BY <1>4
<1>11. QED BY <1>1, <1>8, <1>9, <1>10 DEF sq

LEMMA LearnOk ==
    ASSUME IdentityInv, NEW squads \in SUBSET Squads, Learn(SetToSeq(squads))
    PROVE  IndexOk(index') /\ Bindings(known') /\ KnownIn(known', index')
<1> DEFINE sq == SetToSeq(squads)
           old == index
           new == FoldLeft(LearnFromSnapshot, index, sq)
<1>1. PICK n \in Nat : /\ sq \in [1 .. n -> Squads]
                       /\ \A s \in squads : \E k \in 1 .. n : sq[k] = s
                       /\ Range(sq) = squads
  BY AsSequence
<1>2. /\ stage = "open" /\ index' = new
      /\ known' = [t \in DOMAIN known \cup {s.team : s \in Range(sq) \cap Telling} |-> Is[t]]
  BY DEF Learn
<1>3. /\ IndexOk(old) /\ old.clubs \in {Clubs \ gone : gone \in {{}, Abroad}}
      /\ Bindings(known) /\ KnownIn(known, old)
  BY <1>2 DEF IdentityInv
<1> HIDE DEF sq
<1>4. LearnedSo([start |-> old, squads |-> sq], n, new)
  BY <1>1, <1>3, LearntOk
<1> HIDE DEF new, old
<1>5. /\ IndexOk(new) /\ new.clubs = old.clubs /\ DOMAIN old.learned \subseteq DOMAIN new.learned
      /\ \A k \in 1 .. n : sq[k] \in Telling /\ Is[sq[k].team] \in new.clubs
                           => sq[k].team \in DOMAIN new.learned
  BY <1>4 DEF LearnedSo
<1>6. Bindings(known')
  BY <1>2, <1>3 DEF Bindings, Told
<1>7. ASSUME NEW t \in DOMAIN known', Is[t] \in new.clubs PROVE t \in DOMAIN new.learned
  <2>1. CASE t \in DOMAIN known
    BY <1>3, <1>5, <1>7, <2>1 DEF KnownIn
  <2>2. CASE \E s \in squads \cap Telling : t = s.team
    <3>1. PICK s \in squads \cap Telling : t = s.team
      BY <2>2
    <3>2. PICK k \in 1 .. n : sq[k] = s
      BY <1>1
    <3>3. QED BY <1>5, <1>7, <3>1, <3>2
  <2>3. t \in DOMAIN known \cup {s.team : s \in squads \cap Telling}
    BY <1>1, <1>2
  <2>4. QED BY <2>1, <2>2, <2>3
<1>8. QED BY <1>2, <1>5, <1>6, <1>7 DEF KnownIn

LEMMA EmptyOk ==
    IndexOk(EmptyIndex({})) /\ Bindings(<<>>) /\ KnownIn(<<>>, EmptyIndex({})) /\ CacheOk(NoCache)
BY DEF IndexOk, EmptyIndex, TwoWay, Bindings, KnownIn, CacheOk, NoCache, Saves

(* A cache that is written has what the run learned and what it read.      *)
LEMMA CacheWritten ==
    ASSUME NEW c, CacheOk(c), NEW m, Bindings(m)
    PROVE  CacheOk([c EXCEPT !["this"] = m]) /\ \A x : CacheOk([c EXCEPT !["other"] = x])
BY DEF CacheOk, Saves

LEMMA IdentityInvInit == Init => IdentityInv
<1> SUFFICES ASSUME Init PROVE IdentityInv
  OBVIOUS
<1>1. index = EmptyIndex({}) /\ known = <<>> /\ cache = NoCache /\ stage = "idle"
      /\ DOMAIN copies = Saves /\ copies["other"] = NotRead
  BY DEF Init, Saves
<1>2. QED BY <1>1, EmptyOk DEF IdentityInv

LEMMA IdentityInvNext == IdentityInv /\ [Next]_vars => IdentityInv'
<1> SUFFICES ASSUME IdentityInv, [Next]_vars PROVE IdentityInv'
  OBVIOUS
<1>0. /\ IndexOk(index) /\ Bindings(known) /\ KnownIn(known, index)
      /\ stage = "open" => index.clubs \in {Clubs \ gone : gone \in {{}, Abroad}}
      /\ cache = Unreadable \/ CacheOk(cache)
      /\ DOMAIN copies = Saves
      /\ copies["other"] = NotRead \/ CacheOk(copies["other"])
      /\ stage = "saving" => CacheOk(copies["this"])
  BY DEF IdentityInv
<1>1. CASE Open
  <2>1. PICK gone \in {{}, Abroad} : index' = BuildIndex(Clubs \ gone, Cached("this"))
    BY <1>1 DEF Open
  <2>2. Bindings(Cached("this"))
    BY <1>0, EmptyOk DEF Cached, CacheOk
  <2>3. /\ IndexOk(index') /\ index'.clubs = Clubs \ gone /\ KnownIn(Cached("this"), index')
    <3>1. Clubs \ gone \in SUBSET Clubs
      OBVIOUS
    <3>2. QED BY <2>1, <2>2, <3>1, BuiltOk
  <2>4. stage' = "open" /\ known' = Cached("this") /\ cache' = cache /\ copies' = copies
    BY <1>1 DEF Open
  <2>5. QED BY <1>0, <2>2, <2>3, <2>4 DEF IdentityInv
<1>2. ASSUME NEW squads \in SUBSET Squads, Learn(SetToSeq(squads)) PROVE IdentityInv'
  <2>1. IndexOk(index') /\ Bindings(known') /\ KnownIn(known', index')
    BY <1>2, LearnOk
  <2>2. /\ stage' = "saving" /\ cache' = cache
        /\ copies' = [copies EXCEPT !["this"] = IF cache = Unreadable THEN NoCache ELSE cache]
    BY <1>2 DEF Learn, ReadCache
  <2>3. CacheOk(copies'["this"]) /\ DOMAIN copies' = Saves /\ copies'["other"] = copies["other"]
    BY <1>0, <2>2, EmptyOk DEF Saves
  <2>4. QED BY <1>0, <2>1, <2>2, <2>3 DEF IdentityInv
<1>3. CASE SaveIndex
  <2>1. /\ stage = "saving" /\ stage' = "leagues" /\ index' = index /\ known' = known
        /\ cache' = [copies["this"] EXCEPT !["this"] = index.learned]
        /\ copies' = [copies EXCEPT !["this"] = NotRead]
    BY <1>3 DEF SaveIndex, WriteCache
  <2>2. CacheOk(cache')
    BY <1>0, <2>1, CacheWritten DEF IndexOk
  <2>3. DOMAIN copies' = Saves /\ copies'["other"] = copies["other"]
    BY <1>0, <2>1 DEF Saves
  <2>4. QED BY <1>0, <2>1, <2>2, <2>3 DEF IdentityInv
<1>4. CASE Stop
  <2>1. /\ stage' = "idle" /\ index' = EmptyIndex({}) /\ known' = <<>> /\ cache' = cache
        /\ copies' = [copies EXCEPT !["this"] = NotRead]
    BY <1>4 DEF Stop
  <2>2. DOMAIN copies' = Saves /\ copies'["other"] = copies["other"]
    BY <1>0, <2>1 DEF Saves
  <2>3. QED BY <1>0, <2>1, <2>2, EmptyOk DEF IdentityInv
<1>5. CASE OtherRun
  <2>0. stage' = stage /\ index' = index /\ known' = known
    BY <1>5 DEF OtherRun
  <2>1. CASE ReadCache("other") /\ cache' = cache
    <3>1. copies' = [copies EXCEPT !["other"] = IF cache = Unreadable THEN NoCache ELSE cache]
      BY <2>1 DEF ReadCache
    <3>2. DOMAIN copies' = Saves /\ copies'["this"] = copies["this"] /\ CacheOk(copies'["other"])
      BY <1>0, <3>1, EmptyOk DEF Saves
    <3>3. QED BY <1>0, <2>0, <2>1, <3>2 DEF IdentityInv
  <2>2. CASE copies["other"] # NotRead /\ WriteCache("other", Other)
    <3>1. /\ cache' = [copies["other"] EXCEPT !["other"] = Other]
          /\ copies' = [copies EXCEPT !["other"] = NotRead]
      BY <2>2 DEF WriteCache
    <3>2. CacheOk(cache')
      BY <1>0, <2>2, <3>1, CacheWritten, EmptyOk
    <3>3. DOMAIN copies' = Saves /\ copies'["this"] = copies["this"] /\ copies'["other"] = NotRead
      BY <1>0, <3>1 DEF Saves
    <3>4. QED BY <1>0, <2>0, <3>2, <3>3 DEF IdentityInv
  <2>3. QED BY <1>5, <2>1, <2>2 DEF OtherRun
<1>6. CASE Damage
  BY <1>0, <1>6 DEF Damage, IdentityInv, leagueVars
<1>7. CASE NewSeason
  BY <1>0, <1>7 DEF NewSeason, IdentityInv, identityVars
<1>8. ASSUME NEW f \in Faults, UpdateLeagues(f) PROVE IdentityInv'
  <2>1. /\ stage' = "idle" /\ index' = EmptyIndex({}) /\ known' = <<>>
        /\ cache' = cache /\ copies' = copies
    BY <1>8 DEF UpdateLeagues
  <2>2. QED BY <1>0, <2>1, EmptyOk DEF IdentityInv
<1>9. CASE UNCHANGED vars
  BY <1>0, <1>9 DEF IdentityInv, vars, leagueVars, identityVars
<1>10. QED BY <1>1, <1>2, <1>3, <1>4, <1>5, <1>6, <1>7, <1>8, <1>9 DEF Next

LEMMA IdentityInvBinds == IdentityInv => BoundAsSeen
<1> SUFFICES ASSUME IdentityInv, NEW t \in DOMAIN known, known[t] \in index.clubs
             PROVE  /\ known[t] = Is[t] /\ At(index.of, t) = {Is[t]} /\ At(index.held, Is[t]) = {t}
                    /\ \A c \in DOMAIN index.held \ {Is[t]} : index.held[c] # t
  BY DEF BoundAsSeen
<1>1. IndexOk(index) /\ Bindings(known) /\ KnownIn(known, index)
  BY DEF IdentityInv
<1>2. known[t] = Is[t] /\ t \in DOMAIN index.learned
  BY <1>1 DEF Bindings, KnownIn
<1>3. t \in DOMAIN index.of /\ index.of[t] = Is[t]
  BY <1>1, <1>2 DEF IndexOk
<1>4. Is[t] \in DOMAIN index.held /\ index.held[Is[t]] = t
  BY <1>1, <1>3 DEF IndexOk, TwoWay
<1>5. \A c \in DOMAIN index.held \ {Is[t]} : index.held[c] # t
  BY <1>1, <1>3 DEF IndexOk, TwoWay
<1>6. QED BY <1>2, <1>3, <1>4, <1>5 DEF At

(* A team whose squad a run has seen, or an earlier run of the save whose  *)
(* cache was kept, stays bound to the club that squad is of, and nothing   *)
(* else is bound to either (club_identity.rs, bind, apply_learned and      *)
(* learn_from_snapshot).                                                   *)
THEOREM BoundStaysAsSeen == Spec => []BoundAsSeen
BY IdentityInvInit, IdentityInvNext, IdentityInvBinds, PTL DEF Spec
=============================================================================
