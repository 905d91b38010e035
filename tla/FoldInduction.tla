--------------------------- MODULE FoldInduction ----------------------------
(***************************************************************************)
(* Induction for the loops of the program, which the modules write with    *)
(* FoldLeft: a loop that starts from base and takes the items of sq one    *)
(* after the other by Op keeps Inv(env, i, s), where i counts the items    *)
(* taken, s is what they made of base and env is anything the loop leaves  *)
(* alone and may go by.  Modules of proofs instantiate the two constants   *)
(* with the loop they are about.                                           *)
(*                                                                         *)
(* FoldLeft is a recursive function over the subsets of DOMAIN sq, chosen  *)
(* by its recursion; so what is shown first is that some function has it.  *)
(***************************************************************************)
EXTENDS Naturals, SequencesExt, FiniteSetsExt, FiniteSetTheorems,
        WellFoundedInduction, TLAPS

CONSTANTS
    Op(_, _, _), \* one turn of the loop, given what does not change
    Inv(_, _, _) \* what holds, given what does not change, after so many turns

(* Every non-empty set of naturals has a least element.                    *)
LEMMA LeastNatural ==
    ASSUME NEW T, T \subseteq Nat, T # {}
    PROVE  \E m \in T : \A n \in T : m <= n
<1>1. PICK m \in T : \A n \in T : <<n, m>> \notin OpToRel(<, Nat)
  BY NatLessThanWellFounded, WFMin
<1>2. \A n \in T : ~(n < m)
  BY <1>1 DEF OpToRel
<1>3. QED BY <1>2

-----------------------------------------------------------------------------
Fold(env, base, sq) == FoldLeft(LAMBDA s, x : Op(env, s, x), base, sq)

Items(sq) == SUBSET DOMAIN sq

(* The fold of the items below k that are in a set, for every set.         *)
NoItem(base, sq) == [s \in Items(sq) |-> base]
NextItem(env, sq, f, k) ==
    [s \in Items(sq) |-> IF k \in s THEN Op(env, f[s], sq[k]) ELSE f[s]]

FoldsUpTo(env, base, sq, g, n) ==
    g = [k \in 0 .. n |-> IF k = 0 THEN NoItem(base, sq)
                                   ELSE NextItem(env, sq, g[k - 1], k)]

LEMMA FoldsUpToAny ==
    ASSUME NEW env, NEW base, NEW sq
    PROVE  \A n \in Nat : \E g : FoldsUpTo(env, base, sq, g, n)
<1> DEFINE T == {n \in Nat : ~ \E g : FoldsUpTo(env, base, sq, g, n)}
<1> SUFFICES ASSUME T # {} PROVE FALSE
  OBVIOUS
<1>1. PICK m \in T : \A n \in T : m <= n
  BY LeastNatural
<1>2. CASE m = 0
  <2>1. FoldsUpTo(env, base, sq, [k \in 0 .. 0 |-> NoItem(base, sq)], 0)
    BY DEF FoldsUpTo
  <2>2. QED BY <1>1, <1>2, <2>1
<1>3. CASE m # 0
  <2>1. m \in Nat /\ m - 1 \in Nat /\ m - 1 \notin T
    BY <1>1, <1>3
  <2>2. PICK g : FoldsUpTo(env, base, sq, g, m - 1)
    BY <2>1
  <2> DEFINE h == [k \in 0 .. m |-> IF k = m THEN NextItem(env, sq, g[m - 1], m)
                                             ELSE g[k]]
  <2>3. \A k \in 0 .. m : h[k] = IF k = 0 THEN NoItem(base, sq)
                                       ELSE NextItem(env, sq, h[k - 1], k)
    BY <2>1, <2>2, <1>3 DEF FoldsUpTo
  <2>4. FoldsUpTo(env, base, sq, h, m)
    BY <2>3 DEF FoldsUpTo
  <2>5. QED BY <2>4
<1>4. QED BY <1>2, <1>3

(* The recursion of MapThenFoldSet, of which FoldLeft is an instance.      *)
Folds(env, base, sq, f) ==
    f = [s \in Items(sq) |-> IF s = {} THEN base
                             ELSE Op(env, f[s \ {Max(s)}], sq[Max(s)])]

LEMMA MaxOf ==
    ASSUME NEW n \in Nat, NEW s \in SUBSET (1 .. n), s # {}
    PROVE  Max(s) \in s /\ \A k \in s : k <= Max(s)
<1> DEFINE T == {n - k : k \in s}
<1>1. T \subseteq Nat /\ T # {}
  <2>1. \A k \in s : n - k \in Nat
    OBVIOUS
  <2>2. QED BY <2>1
<1>2. PICK d \in T : \A e \in T : d <= e
  BY <1>1, LeastNatural
<1>3. \E x \in s : \A y \in s : x >= y
  BY <1>2
<1>4. QED BY <1>3 DEF Max

LEMMA FoldExists ==
    ASSUME NEW env, NEW base, NEW sq, NEW n \in Nat, DOMAIN sq = 1 .. n
    PROVE  \E f : Folds(env, base, sq, f)
<1>1. PICK g : FoldsUpTo(env, base, sq, g, n)
  BY FoldsUpToAny
<1>2. /\ g[0] = NoItem(base, sq)
      /\ \A k \in 1 .. n : g[k] = NextItem(env, sq, g[k - 1], k)
  BY <1>1 DEF FoldsUpTo
<1>3. ASSUME NEW s \in Items(sq), NEW x \in 0 .. n, \A k \in s : k <= x
      PROVE  \A k \in x .. n : g[k][s] = g[x][s]
  <2> DEFINE T == {k \in x .. n : g[k][s] # g[x][s]}
  <2> SUFFICES ASSUME T # {} PROVE FALSE
    OBVIOUS
  <2>1. T \subseteq Nat
    OBVIOUS
  <2>2. PICK m \in T : \A k \in T : m <= k
    BY <2>1, LeastNatural
  <2>3. m # x /\ m - 1 \in x .. n /\ m - 1 \notin T /\ m \in 1 .. n
    BY <2>2
  <2>4. m \notin s
    BY <1>3, <2>3
  <2>5. g[m] = NextItem(env, sq, g[m - 1], m)
    BY <1>2, <2>3
  <2>6. NextItem(env, sq, g[m - 1], m)[s] = g[m - 1][s]
    BY <2>4 DEF NextItem
  <2>7. QED BY <2>2, <2>3, <2>5, <2>6
<1>4. ASSUME NEW s \in Items(sq), NEW t \in Items(sq), NEW x \in 0 .. n,
             \A k \in 1 .. x : k \in s <=> k \in t
      PROVE  \A k \in 0 .. x : g[k][s] = g[k][t]
  <2> DEFINE T == {k \in 0 .. x : g[k][s] # g[k][t]}
  <2> SUFFICES ASSUME T # {} PROVE FALSE
    OBVIOUS
  <2>1. T \subseteq Nat
    OBVIOUS
  <2>2. PICK m \in T : \A k \in T : m <= k
    BY <2>1, LeastNatural
  <2>3. m # 0
    BY <1>2, <2>2 DEF NoItem
  <2>4. m - 1 \in 0 .. x /\ m - 1 \notin T /\ m \in 1 .. x /\ m \in 1 .. n
    BY <2>2, <2>3
  <2>5. g[m] = NextItem(env, sq, g[m - 1], m) /\ g[m - 1][s] = g[m - 1][t]
    BY <1>2, <2>4
  <2>6. m \in s <=> m \in t
    BY <1>4, <2>4
  <2>7. NextItem(env, sq, g[m - 1], m)[s] = NextItem(env, sq, g[m - 1], m)[t]
    BY <2>5, <2>6 DEF NextItem
  <2>8. QED BY <2>2, <2>5, <2>7
<1> DEFINE f == [s \in Items(sq) |-> g[n][s]]
<1>5. ASSUME NEW s \in Items(sq)
      PROVE  f[s] = IF s = {} THEN base ELSE Op(env, f[s \ {Max(s)}], sq[Max(s)])
  <2>1. CASE s = {}
    <3>1. g[n][s] = g[0][s]
      BY <1>3, <2>1
    <3>2. QED BY <1>2, <2>1, <3>1 DEF NoItem
  <2>2. CASE s # {}
    <3> DEFINE x == Max(s)
               t == s \ {x}
    <3>0. s \in SUBSET (1 .. n)
      BY DEF Items
    <3>1. x \in s /\ x \in 1 .. n /\ \A k \in s : k <= x
      BY <2>2, <3>0, MaxOf
    <3> HIDE DEF x
    <3>2. t \in Items(sq) /\ x - 1 \in 0 .. n /\ \A k \in t : k <= x - 1
      BY <3>1 DEF Items
    <3>3. g[n][s] = g[x][s]
      <4>1. x \in 0 .. n /\ n \in x .. n
        BY <3>1
      <4>2. QED BY <1>3, <3>1, <4>1
    <3>4. g[x][s] = Op(env, g[x - 1][s], sq[x])
      BY <1>2, <3>1 DEF NextItem
    <3>5. g[x - 1][s] = g[x - 1][t]
      BY <1>4, <3>1, <3>2
    <3>6. g[n][t] = g[x - 1][t]
      <4>1. n \in x - 1 .. n
        BY <3>1
      <4>2. QED BY <1>3, <3>2, <4>1
    <3>7. f[s] = Op(env, f[t], sq[x])
      BY <3>2, <3>3, <3>4, <3>5, <3>6
    <3>8. QED BY <2>2, <3>7 DEF x
  <2>3. QED BY <2>1, <2>2
<1>6. Folds(env, base, sq, f)
  <2> DEFINE V(s) == IF s = {} THEN base ELSE Op(env, f[s \ {Max(s)}], sq[Max(s)])
  <2>1. \A s \in Items(sq) : f[s] = V(s)
    BY <1>5
  <2> HIDE DEF V
  <2>2. f = [s \in Items(sq) |-> V(s)]
    BY <2>1
  <2>3. QED BY <2>2 DEF Folds, V
<1>7. QED BY <1>6

(* FoldLeft takes the items in their order: h has the state after each.    *)
States(env, base, sq, n, h) ==
    /\ h[0] = base
    /\ \A i \in 1 .. n : h[i] = Op(env, h[i - 1], sq[i])
    /\ Fold(env, base, sq) = h[n]

LEMMA FoldLeftStates ==
    ASSUME NEW env, NEW base, NEW sq, NEW n \in Nat, DOMAIN sq = 1 .. n
    PROVE  \E h : States(env, base, sq, n, h)
<1> DEFINE f == CHOOSE f : Folds(env, base, sq, f)
           h == [i \in 0 .. n |-> f[1 .. i]]
<1>1. Folds(env, base, sq, f)
  BY FoldExists
<1>2. Fold(env, base, sq) = f[DOMAIN sq]
  BY DEF Fold, FoldLeft, MapThenFoldSet, Folds, Items
<1> HIDE DEF f
<1>3. f[{}] = base
  BY <1>1 DEF Folds, Items
<1>4. ASSUME NEW i \in 1 .. n
      PROVE  f[1 .. i] = Op(env, f[1 .. i - 1], sq[i])
  <2>1. 1 .. i \in Items(sq) /\ 1 .. i # {} /\ i \in 1 .. i
    BY DEF Items
  <2>2. Max(1 .. i) = i
    <3>0. 1 .. i \in SUBSET (1 .. n)
      OBVIOUS
    <3>1. Max(1 .. i) \in 1 .. i /\ \A k \in 1 .. i : k <= Max(1 .. i)
      BY <2>1, <3>0, MaxOf
    <3>2. QED BY <2>1, <3>1
  <2>3. (1 .. i) \ {i} = 1 .. i - 1
    OBVIOUS
  <2>4. QED BY <1>1, <2>1, <2>2, <2>3 DEF Folds
<1>5. 1 .. 0 = {}
  OBVIOUS
<1>6. h[0] = base /\ h[n] = Fold(env, base, sq)
  BY <1>2, <1>3, <1>5
<1>7. \A i \in 1 .. n : h[i] = Op(env, h[i - 1], sq[i])
  BY <1>4
<1>8. QED BY <1>6, <1>7 DEF States

(* A loop keeps what each of its turns keeps.                              *)
THEOREM FoldInvariant ==
    ASSUME NEW env, NEW base, NEW sq, NEW n \in Nat, DOMAIN sq = 1 .. n,
           Inv(env, 0, base),
           \A i \in 1 .. n : \A s : Inv(env, i - 1, s) => Inv(env, i, Op(env, s, sq[i]))
    PROVE  Inv(env, n, Fold(env, base, sq))
<1>1. PICK h : States(env, base, sq, n, h)
  BY FoldLeftStates
<1> DEFINE T == {i \in 0 .. n : ~ Inv(env, i, h[i])}
<1>2. ASSUME T # {} PROVE FALSE
  <2>1. T \subseteq Nat
    OBVIOUS
  <2>2. PICK m \in T : \A k \in T : m <= k
    BY <1>2, <2>1, LeastNatural
  <2>3. m # 0
    BY <1>1, <2>2 DEF States
  <2>4. m \in 1 .. n /\ m - 1 \in 0 .. n /\ m - 1 \notin T
    BY <2>2, <2>3
  <2>5. Inv(env, m, h[m])
    BY <1>1, <2>4 DEF States
  <2>6. QED BY <2>2, <2>5
<1>3. QED BY <1>1, <1>2 DEF States

-----------------------------------------------------------------------------
(* The same for the loops over what has no order, which the modules write  *)
(* with FoldSet: Inv(env, T, s) says of s what is made of base once the    *)
(* members of T have been taken, whichever comes next.                     *)
SetFold(env, base, S) == FoldSet(LAMBDA x, s : Op(env, s, x), base, S)

Pick(T) == CHOOSE x \in T : TRUE
TurnOf(env, base, f, T) == IF T = {} THEN base ELSE Op(env, f[T \ {Pick(T)}], Pick(T))
SetFolds(env, base, S, f) == f = [T \in SUBSET S |-> TurnOf(env, base, f, T)]

(* One more turn for every set, n times.                                   *)
TurnsUpTo(env, base, S, g, n) ==
    g = [k \in 0 .. n |-> IF k = 0 THEN [T \in SUBSET S |-> base]
                                   ELSE [T \in SUBSET S |-> TurnOf(env, base, g[k - 1], T)]]

LEMMA TurnsUpToAny ==
    ASSUME NEW env, NEW base, NEW S
    PROVE  \A n \in Nat : \E g : TurnsUpTo(env, base, S, g, n)
<1> DEFINE T == {n \in Nat : ~ \E g : TurnsUpTo(env, base, S, g, n)}
<1> SUFFICES ASSUME T # {} PROVE FALSE
  OBVIOUS
<1>1. PICK m \in T : \A n \in T : m <= n
  BY LeastNatural
<1>2. CASE m = 0
  <2>1. TurnsUpTo(env, base, S, [k \in 0 .. 0 |-> [s \in SUBSET S |-> base]], 0)
    BY DEF TurnsUpTo
  <2>2. QED BY <1>1, <1>2, <2>1
<1>3. CASE m # 0
  <2>1. m \in Nat /\ m - 1 \in Nat /\ m - 1 \notin T
    BY <1>1, <1>3
  <2>2. PICK g : TurnsUpTo(env, base, S, g, m - 1)
    BY <2>1
  <2> DEFINE next(f) == [s \in SUBSET S |-> TurnOf(env, base, f, s)]
             h == [k \in 0 .. m |-> IF k = m THEN next(g[m - 1]) ELSE g[k]]
  <2>3. \A k \in 0 .. m : h[k] = IF k = 0 THEN [s \in SUBSET S |-> base]
                                       ELSE next(h[k - 1])
    <3> HIDE DEF next
    <3>1. g = [k \in 0 .. m - 1 |-> IF k = 0 THEN [s \in SUBSET S |-> base] ELSE next(g[k - 1])]
      BY <2>2 DEF TurnsUpTo, next
    <3>2. QED BY <2>1, <3>1, <1>3, SMTT(30)
  <2>4. TurnsUpTo(env, base, S, h, m)
    BY <2>3 DEF TurnsUpTo
  <2>5. QED BY <2>4
<1>4. QED BY <1>2, <1>3

LEMMA SetFoldExists ==
    ASSUME NEW env, NEW base, NEW S, IsFiniteSet(S)
    PROVE  \E f : SetFolds(env, base, S, f)
<1> DEFINE N == Cardinality(S)
<1>0. N \in Nat
  BY FS_CardinalityType
<1>1. PICK g : TurnsUpTo(env, base, S, g, N)
  BY <1>0, TurnsUpToAny
<1>2. /\ g[0] = [T \in SUBSET S |-> base]
      /\ \A k \in 1 .. N : g[k] = [T \in SUBSET S |-> TurnOf(env, base, g[k - 1], T)]
  <2> DEFINE next(h) == [T \in SUBSET S |-> TurnOf(env, base, h, T)]
             none == [T \in SUBSET S |-> base]
  <2>1. g = [k \in 0 .. N |-> IF k = 0 THEN none ELSE next(g[k - 1])]
    BY <1>1 DEF TurnsUpTo
  <2> HIDE DEF next, none, N
  <2>2. g[0] = none /\ \A k \in 1 .. N : g[k] = next(g[k - 1])
    BY <1>0, <2>1
  <2>3. QED BY <2>2 DEF next, none
<1> DEFINE f == [T \in SUBSET S |-> g[Cardinality(T)][T]]
<1>3. ASSUME NEW T \in SUBSET S PROVE f[T] = TurnOf(env, base, f, T)
  <2>1. CASE T = {}
    BY <1>2, <2>1, FS_EmptySet DEF TurnOf
  <2>2. CASE T # {}
    <3> DEFINE x == Pick(T)
               U == T \ {x}
               k == Cardinality(T)
    <3>1. x \in T
      BY <2>2 DEF Pick
    <3> HIDE DEF x
    <3>2. /\ IsFiniteSet(T) /\ k \in Nat /\ k <= N
          /\ Cardinality(U) = k - 1 /\ k - 1 \in Nat /\ k \in 1 .. N
      BY <1>0, <3>1, FS_Subset, FS_RemoveElement, FS_CardinalityType
    <3>3. f[T] = TurnOf(env, base, g[k - 1], T)
      BY <1>2, <3>2
    <3>4. f[U] = g[k - 1][U]
      BY <3>2
    <3>5. QED BY <2>2, <3>3, <3>4 DEF TurnOf, x
  <2>3. QED BY <2>1, <2>2
<1>4. SetFolds(env, base, S, f)
  <2> DEFINE V(T) == TurnOf(env, base, f, T)
  <2>1. \A T \in SUBSET S : f[T] = V(T)
    BY <1>3
  <2> HIDE DEF V
  <2>2. f = [T \in SUBSET S |-> V(T)]
    BY <2>1
  <2>3. QED BY <2>2 DEF SetFolds, V
<1>5. QED BY <1>4

THEOREM SetFoldInvariant ==
    ASSUME NEW env, NEW base, NEW S, IsFiniteSet(S),
           Inv(env, {}, base),
           \A T \in SUBSET S : \A x \in S \ T : \A s :
               Inv(env, T, s) => Inv(env, T \cup {x}, Op(env, s, x))
    PROVE  Inv(env, S, SetFold(env, base, S))
<1> DEFINE f == CHOOSE f : SetFolds(env, base, S, f)
<1>1. SetFolds(env, base, S, f)
  BY SetFoldExists
<1>2. SetFold(env, base, S) = f[S]
  BY DEF SetFold, FoldSet, MapThenFoldSet, SetFolds, TurnOf, Pick
<1> HIDE DEF f
<1>3. \A T \in SUBSET S : f[T] = TurnOf(env, base, f, T)
  BY <1>1 DEF SetFolds
<1> DEFINE Bad == {n \in Nat : \E T \in SUBSET S : Cardinality(T) = n /\ ~Inv(env, T, f[T])}
<1>4. ASSUME Bad # {} PROVE FALSE
  <2>1. Bad \subseteq Nat
    OBVIOUS
  <2>2. PICK m \in Bad : \A n \in Bad : m <= n
    BY <1>4, <2>1, LeastNatural
  <2>3. PICK T \in SUBSET S : Cardinality(T) = m /\ ~Inv(env, T, f[T])
    BY <2>2
  <2>4. T # {}
    BY <1>3, <2>3 DEF TurnOf
  <2> DEFINE x == Pick(T)
             U == T \ {x}
  <2>5. x \in T /\ U \in SUBSET S /\ x \in S \ U /\ U \cup {x} = T
    BY <2>4 DEF Pick
  <2>6. f[T] = Op(env, f[U], x)
    BY <1>3, <2>4 DEF TurnOf
  <2> HIDE DEF x
  <2>7. Cardinality(U) \in Nat /\ Cardinality(U) < m
    BY <2>3, <2>5, FS_Subset, FS_RemoveElement, FS_CardinalityType
  <2>8. Inv(env, U, f[U])
    BY <2>2, <2>5, <2>7
  <2>9. Inv(env, U \cup {x}, Op(env, f[U], x))
    BY <2>5, <2>8
  <2>10. QED BY <2>3, <2>5, <2>6, <2>9
<1>5. Inv(env, S, f[S])
  BY <1>4, FS_CardinalityType
<1>6. QED BY <1>2, <1>5
=============================================================================
