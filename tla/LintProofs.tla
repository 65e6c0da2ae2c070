----------------------------- MODULE LintProofs -----------------------------
(***************************************************************************)
(* Proofs about cpplint.py.  First Lint, for any files, directories,       *)
(* configuration files and command lines: type correctness,                *)
(* VerdictsAreLocal and ExitCodeTells.  The loops of the code are folds    *)
(* there, so it begins with showing that what the folds compute exists and *)
(* follows the loops step by step.  Then an invariant for each of the      *)
(* parts of Cpplint but NestingState, and at the end their theorems.       *)
(***************************************************************************)
EXTENDS Cpplint, FiniteSetTheorems, SequenceTheorems, WellFoundedInduction, TLAPS

-----------------------------------------------------------------------------
(***************************************************************************)
(* Recursion on a set D in which p leads from every element to r, which is *)
(* not in D: there is a function f with f[r] = base and f[d] what h makes  *)
(* of d and f[p[d]].                                                       *)
(***************************************************************************)
LeadsTo(D, p, r) ==
    /\ r \notin D
    /\ p \in [D -> D \cup {r}]
    /\ \A S \in SUBSET D : S # {} => \E d \in S : p[d] \notin S

Closed(C, p, r) == \A d \in C : p[d] \in C \cup {r}

Solves(f, C, p, r, T, base, h) ==
    /\ f \in [C \cup {r} -> T]
    /\ f[r] = base
    /\ \A d \in C : f[d] = h[<<d, f[p[d]]>>]

\* Two solutions agree where both are defined.
LEMMA SolutionsAgree ==
    ASSUME NEW D, NEW p, NEW r, LeadsTo(D, p, r), NEW T, NEW base, NEW h
    PROVE  \A C1, C2 \in SUBSET D : \A f1, f2 :
              /\ Closed(C1, p, r) /\ Solves(f1, C1, p, r, T, base, h)
              /\ Closed(C2, p, r) /\ Solves(f2, C2, p, r, T, base, h)
              => \A d \in C1 \cap C2 : f1[d] = f2[d]
<1> SUFFICES ASSUME NEW C1 \in SUBSET D, NEW C2 \in SUBSET D, NEW f1, NEW f2,
                    Closed(C1, p, r), Solves(f1, C1, p, r, T, base, h),
                    Closed(C2, p, r), Solves(f2, C2, p, r, T, base, h)
             PROVE  \A d \in C1 \cap C2 : f1[d] = f2[d]
  OBVIOUS
<1> DEFINE S == {d \in C1 \cap C2 : f1[d] # f2[d]}
<1> SUFFICES ASSUME S # {} PROVE FALSE
  OBVIOUS
<1>1. PICK d \in S : p[d] \notin S
  BY DEF LeadsTo
<1>2. p[d] \in (C1 \cap C2) \cup {r}
  BY <1>1 DEF Closed
<1>3. f1[p[d]] = f2[p[d]]
  BY <1>1, <1>2 DEF Solves
<1>4. f1[d] = h[<<d, f1[p[d]]>>] /\ f2[d] = h[<<d, f2[p[d]]>>]
  BY <1>1 DEF Solves
<1> QED
  BY <1>1, <1>3, <1>4

LEMMA Recursion ==
    ASSUME NEW D, NEW p, NEW r, LeadsTo(D, p, r),
           NEW T, NEW base \in T, NEW h \in [D \X T -> T]
    PROVE  \E f : Solves(f, D, p, r, T, base, h)
<1> DEFINE Good(C) == C \in SUBSET D /\ Closed(C, p, r) /\ \E f : Solves(f, C, p, r, T, base, h)
           U == UNION {C \in SUBSET D : Good(C)}
           Value(d, v) == \E C \in SUBSET D : \E f :
                             /\ Closed(C, p, r) /\ Solves(f, C, p, r, T, base, h)
                             /\ d \in C /\ f[d] = v
           F == [d \in U \cup {r} |-> IF d = r THEN base ELSE CHOOSE v : Value(d, v)]
<1>0. \A C1, C2 \in SUBSET D : \A f1, f2 :
          /\ Closed(C1, p, r) /\ Solves(f1, C1, p, r, T, base, h)
          /\ Closed(C2, p, r) /\ Solves(f2, C2, p, r, T, base, h)
          => \A d \in C1 \cap C2 : f1[d] = f2[d]
  <2> HIDE DEF F, U, Value
  <2> QED
    BY SolutionsAgree
<1>1. U \in SUBSET D
  OBVIOUS
<1>2. Closed(U, p, r)
  BY DEF Closed
<1>3. ASSUME NEW C \in SUBSET D, Closed(C, p, r),
             NEW f, Solves(f, C, p, r, T, base, h), NEW d \in C
      PROVE  F[d] = f[d] /\ d \in U
  <2>1. d \in U /\ d # r
    BY <1>3 DEF LeadsTo
  <2>2. Value(d, f[d])
    BY <1>3
  <2>3. Value(d, CHOOSE v : Value(d, v))
    <3> HIDE DEF Value
    <3> QED
      BY <2>2
  <2>4. \A v : Value(d, v) => v = f[d]
    <3> SUFFICES ASSUME NEW v, Value(d, v) PROVE v = f[d]
      OBVIOUS
    <3>1. PICK C2 \in SUBSET D : \E g : /\ Closed(C2, p, r) /\ Solves(g, C2, p, r, T, base, h)
                                       /\ d \in C2 /\ g[d] = v
      OBVIOUS
    <3>2. PICK g : /\ Closed(C2, p, r) /\ Solves(g, C2, p, r, T, base, h)
                   /\ d \in C2 /\ g[d] = v
      BY <3>1
    <3>3. \A x \in C \cap C2 : f[x] = g[x]
      <4> HIDE DEF F, U, Value
      <4>1. Closed(C, p, r) /\ Solves(f, C, p, r, T, base, h)
        BY <1>3
      <4> QED
        BY <1>0, <4>1, <3>2
    <3> QED
      BY <1>3, <3>2, <3>3
  <2>5. F[d] = CHOOSE v : Value(d, v)
    <3> HIDE DEF Value, U
    <3> QED
      BY <2>1
  <2> HIDE DEF F, Value, U
  <2> QED
    BY <2>1, <2>3, <2>4, <2>5
<1>4. Solves(F, U, p, r, T, base, h)
  <2>1. F[r] = base
    <3> HIDE DEF U, Value
    <3> QED
      OBVIOUS
  <2>2. ASSUME NEW d \in U
        PROVE  F[d] \in T /\ F[d] = h[<<d, F[p[d]]>>]
    <3>1. PICK C \in SUBSET D : Good(C) /\ d \in C
      OBVIOUS
    <3>2. PICK f : Solves(f, C, p, r, T, base, h)
      BY <3>1
    <3> HIDE DEF F, U
    <3>3. F[d] = f[d]
      BY <1>3, <3>1, <3>2
    <3>4. p[d] \in C \cup {r}
      BY <3>1 DEF Closed
    <3>5. F[p[d]] = f[p[d]]
      <4>1. CASE p[d] = r
        BY <4>1, <2>1, <3>2 DEF Solves
      <4>2. CASE p[d] \in C
        BY <4>2, <1>3, <3>1, <3>2
      <4> QED
        BY <3>4, <4>1, <4>2
    <3>6. f[d] \in T /\ f[d] = h[<<d, f[p[d]]>>]
      BY <3>1, <3>2 DEF Solves
    <3> QED
      BY <3>3, <3>5, <3>6
  <2>3. F = [d \in U \cup {r} |-> F[d]]
    <3> HIDE DEF U, Value
    <3> QED
      OBVIOUS
  <2>4. \A d \in U \cup {r} : F[d] \in T
    BY <2>1, <2>2
  <2> HIDE DEF F, U
  <2> QED
    BY <2>1, <2>2, <2>3, <2>4 DEF Solves
<1>5. U = D
  <2> SUFFICES ASSUME D \ U # {} PROVE FALSE
    BY <1>1
  <2>1. PICK d \in D \ U : p[d] \notin D \ U
    BY DEF LeadsTo
  <2>2. p[d] \in U \cup {r} /\ d # r
    BY <2>1 DEF LeadsTo
  <2> DEFINE C == U \cup {d}
             new == h[<<d, F[p[d]]>>]
             f == [x \in C \cup {r} |-> IF x = d THEN new ELSE F[x]]
  <2>3. C \in SUBSET D /\ Closed(C, p, r)
    BY <1>1, <1>2, <2>1, <2>2 DEF Closed
  <2>4. new \in T
    <3> HIDE DEF F, U
    <3>1. F[p[d]] \in T
      BY <2>2, <1>4 DEF Solves
    <3> QED
      BY <3>1, <2>1
  <2>5. Solves(f, C, p, r, T, base, h)
    <3> HIDE DEF F, U, new
    <3>1. f \in [C \cup {r} -> T]
      BY <1>4, <2>4 DEF Solves
    <3>2. f[r] = base
      BY <1>4, <2>2 DEF Solves
    <3>3. \A x \in U : x # d /\ p[x] \in U \cup {r} /\ p[x] # d
      BY <1>2, <2>1, <2>2 DEF Closed
    <3>4. \A x \in U : f[x] = h[<<x, f[p[x]]>>]
      <4> TAKE x \in U
      <4>1. f[x] = F[x] /\ f[p[x]] = F[p[x]]
        BY <3>3
      <4> QED
        BY <4>1, <1>4 DEF Solves
    <3>5. f[d] = h[<<d, f[p[d]]>>]
      <4>1. p[d] # d /\ f[p[d]] = F[p[d]]
        BY <2>1, <2>2
      <4> QED
        BY <4>1 DEF new
    <3> QED
      BY <3>1, <3>2, <3>4, <3>5 DEF Solves
  <2>6. Good(C)
    BY <2>3, <2>5
  <2> QED
    BY <2>1, <2>3, <2>6
<1> HIDE DEF F, U
<1> QED
  BY <1>4, <1>5

-----------------------------------------------------------------------------
(***************************************************************************)
(* Naturals: least and greatest members, and induction in terms of sets.   *)
(***************************************************************************)
NatLess == {p \in Nat \X Nat : p[1] < p[2]}

LEMMA LeastNatural ==
    ASSUME NEW S \in SUBSET Nat, S # {}
    PROVE  \E m \in S : \A k \in S : m <= k
<1>1. IsWellFoundedOn(NatLess, Nat)
  BY NatLessThanWellFounded, Zenon DEF OpToRel, NatLess
<1>2. PICK m \in S : \A k \in S : <<k, m>> \notin NatLess
  BY <1>1, WFMin
<1>3. \A k \in S : m <= k
  <2> TAKE k \in S
  <2>1. ~(k < m)
    BY <1>2 DEF NatLess
  <2> QED
    BY <2>1
<1> QED
  BY <1>3

LEMMA MinIs ==
    ASSUME NEW S \in SUBSET Nat, S # {}
    PROVE  Min(S) \in S /\ \A k \in S : Min(S) <= k
BY LeastNatural DEF Min

LEMMA MaxIs ==
    ASSUME NEW n \in Nat, NEW S \in SUBSET (1 .. n), S # {}
    PROVE  Max(S) \in S /\ \A k \in S : k <= Max(S)
<1> DEFINE B == {m \in Nat : \A k \in S : k <= m}
<1>1. n \in B
  OBVIOUS
<1>2. PICK m \in B : \A k \in B : m <= k
  <2> HIDE DEF B
  <2>1. B \in SUBSET Nat
    BY DEF B
  <2> QED
    BY <1>1, <2>1, LeastNatural
<1>3. m \in S
  <2> SUFFICES ASSUME m \notin S PROVE FALSE
    OBVIOUS
  <2>0. PICK j \in S : TRUE
    OBVIOUS
  <2>1. m >= 1
    BY <2>0
  <2>2. m - 1 \in Nat /\ \A k \in S : k <= m - 1
    BY <2>1
  <2> QED
    BY <1>2, <2>2
<1>4. \E x \in S : \A y \in S : x >= y
  BY <1>2, <1>3
<1>5. Max(S) \in S /\ \A k \in S : Max(S) >= k
  BY <1>4, Zenon DEF Max
<1> QED
  BY <1>5

\* A set of naturals with 0 and the successors of its members below n has all up to n.
LEMMA UpTo ==
    ASSUME NEW n \in Nat, NEW S, 0 \in S, \A i \in 0 .. n - 1 : i \in S => i + 1 \in S
    PROVE  \A i \in 0 .. n : i \in S
<1> DEFINE T == {i \in 0 .. n : i \notin S}
<1> SUFFICES ASSUME T # {} PROVE FALSE
  OBVIOUS
<1>1. PICK m \in T : \A k \in T : m <= k
  <2>1. T \in SUBSET Nat
    OBVIOUS
  <2> HIDE DEF T
  <2> QED
    BY <2>1, LeastNatural
<1>2. m # 0 /\ m - 1 \in 0 .. n - 1
  OBVIOUS
<1>3. m - 1 \in S
  BY <1>1, <1>2
<1>4. (m - 1) + 1 = m
  BY <1>2
<1> QED
  BY <1>2, <1>3, <1>4

-----------------------------------------------------------------------------
(***************************************************************************)
(* Folds: MapThenFoldSet goes through the subsets of 1 .. n, taking away   *)
(* the greatest member.                                                    *)
(***************************************************************************)
LEMMA SubsetsShrink ==
    ASSUME NEW n \in Nat
    PROVE  LET D == (SUBSET (1 .. n)) \ {{}}
           IN  LeadsTo(D, [S \in D |-> S \ {Max(S)}], {})
<1> DEFINE D == (SUBSET (1 .. n)) \ {{}}
           p == [S \in D |-> S \ {Max(S)}]
<1>1. p \in [D -> D \cup {{}}]
  OBVIOUS
<1>2. ASSUME NEW C \in SUBSET D, C # {} PROVE \E S \in C : p[S] \notin C
  <2> DEFINE B == {m \in Nat : \E S \in C : S \subseteq 1 .. m}
  <2>1. n \in B
    BY <1>2
  <2>2. PICK m \in B : \A k \in B : m <= k
    <3>1. B \in SUBSET Nat
      OBVIOUS
    <3> HIDE DEF B
    <3> QED
      BY <2>1, <3>1, LeastNatural
  <2>3. PICK S \in C : S \subseteq 1 .. m
    OBVIOUS
  <2>4. S \in D /\ S # {} /\ m \in Nat
    OBVIOUS
  <2>5. Max(S) \in S /\ \A k \in S : k <= Max(S)
    BY <2>4, MaxIs
  <2>6. m >= 1 /\ m - 1 \in Nat
    BY <2>3, <2>5
  <2>7. S \ {Max(S)} \subseteq 1 .. m - 1
    <3> SUFFICES ASSUME NEW k \in S, k # Max(S) PROVE k \in 1 .. m - 1
      OBVIOUS
    <3>1. k \in 1 .. m /\ Max(S) \in 1 .. m /\ k <= Max(S)
      BY <2>3, <2>5
    <3> QED
      BY <3>1, <2>6
  <2>8. m - 1 \notin B
    <3>1. m - 1 \in B => m <= m - 1
      BY <2>2
    <3> HIDE DEF B
    <3> QED
      BY <3>1, <2>4, <2>6
  <2>9. S \ {Max(S)} \notin C
    BY <2>6, <2>7, <2>8
  <2> QED
    BY <2>4, <2>9
<1> HIDE DEF p
<1>3. {} \notin D
  OBVIOUS
<1> HIDE DEF D
<1>4. LeadsTo(D, p, {})
  BY <1>1, <1>2, <1>3 DEF LeadsTo
<1> QED
  BY <1>4 DEF D, p

FoldsTo(f, n, T, base, h) ==
    /\ f \in [SUBSET (1 .. n) -> T]
    /\ f[{}] = base
    /\ \A S \in SUBSET (1 .. n) :
          S # {} => /\ Max(S) \in 1 .. n /\ f[S \ {Max(S)}] \in T
                    /\ f[S] = h[<<Max(S), f[S \ {Max(S)}]>>]

LEMMA FoldExists ==
    ASSUME NEW n \in Nat, NEW T, NEW base \in T, NEW h \in [(1 .. n) \X T -> T]
    PROVE  \E f : FoldsTo(f, n, T, base, h)
<1> DEFINE D == (SUBSET (1 .. n)) \ {{}}
           p == [S \in D |-> S \ {Max(S)}]
           g == [q \in D \X T |-> h[<<Max(q[1]), q[2]>>]]
<1>1. LeadsTo(D, p, {})
  BY SubsetsShrink
<1>2. \A S \in D : Max(S) \in 1 .. n
  BY MaxIs
<1>3. g \in [D \X T -> T]
  BY <1>2
<1>4. PICK f : Solves(f, D, p, {}, T, base, g)
  <2> HIDE DEF D, p, g
  <2> QED
    BY <1>1, <1>3, Recursion
<1>5. D \cup {{}} = SUBSET (1 .. n)
  OBVIOUS
<1>6. f \in [SUBSET (1 .. n) -> T] /\ f[{}] = base
  BY <1>4, <1>5 DEF Solves
<1>7. ASSUME NEW S \in D
      PROVE  f[S \ {Max(S)}] \in T /\ f[S] = h[<<Max(S), f[S \ {Max(S)}]>>]
  <2>1. p[S] = S \ {Max(S)}
    OBVIOUS
  <2>2. f[S] = g[<<S, f[p[S]]>>]
    BY <1>4 DEF Solves
  <2>3. f[p[S]] \in T
    BY <2>1, <1>6
  <2>4. g[<<S, f[p[S]]>>] = h[<<Max(S), f[p[S]]>>]
    <3> HIDE DEF p, D
    <3> QED
      BY <2>3
  <2> HIDE DEF p, D, g
  <2> QED
    BY <2>1, <2>2, <2>3, <2>4
<1> QED
  BY <1>2, <1>6, <1>7 DEF FoldsTo

LEMMA MaxOfInterval ==
    ASSUME NEW n \in Nat, NEW i \in 1 .. n
    PROVE  /\ 1 .. i \in SUBSET (1 .. n) /\ 1 .. i # {}
           /\ Max(1 .. i) = i /\ (1 .. i) \ {i} = 1 .. i - 1
<1>1. 1 .. i \in SUBSET (1 .. n) /\ 1 .. i # {} /\ i \in 1 .. i
  OBVIOUS
<1>2. Max(1 .. i) \in 1 .. i /\ \A k \in 1 .. i : k <= Max(1 .. i)
  BY <1>1, MaxIs
<1>3. Max(1 .. i) = i
  BY <1>1, <1>2
<1> QED
  BY <1>1, <1>3

\* What MapThenFoldSet chooses follows h as long as what it has is in T.
Follows(it, n, T, base, h) ==
    /\ it[{}] = base
    /\ \A S \in SUBSET (1 .. n) :
          S # {} /\ it[S \ {Max(S)}] \in T => it[S] = h[<<Max(S), it[S \ {Max(S)}]>>]

\* f[i] is what the loop has after i members.
LoopsTo(f, n, T, base, h, it) ==
    /\ f \in [0 .. n -> T]
    /\ f[0] = base /\ f[n] = it[1 .. n]
    /\ \A i \in 1 .. n : f[i - 1] \in T /\ f[i] = h[<<i, f[i - 1]>>]

LEMMA LoopOfFold ==
    ASSUME NEW n \in Nat, NEW T, NEW base \in T, NEW h \in [(1 .. n) \X T -> T], NEW it,
           Follows(it, n, T, base, h)
    PROVE  \E f : LoopsTo(f, n, T, base, h, it)
<1>1. it[1 .. 0] = base
  <2>1. 1 .. 0 = {}
    OBVIOUS
  <2> QED
    BY <2>1 DEF Follows
<1>2. \A i \in 1 .. n : it[1 .. i - 1] \in T => it[1 .. i] = h[<<i, it[1 .. i - 1]>>]
  <2> TAKE i \in 1 .. n
  <2>1. /\ 1 .. i \in SUBSET (1 .. n) /\ 1 .. i # {}
        /\ Max(1 .. i) = i /\ (1 .. i) \ {i} = 1 .. i - 1
    BY MaxOfInterval
  <2> QED
    BY <2>1 DEF Follows
<1>3. \A i \in 0 .. n : it[1 .. i] \in T
  <2> DEFINE B == {i \in 0 .. n : it[1 .. i] \in T}
  <2>1. 0 \in B
    BY <1>1
  <2>2. \A i \in 0 .. n - 1 : i \in B => i + 1 \in B
    <3> SUFFICES ASSUME NEW i \in 0 .. n - 1, it[1 .. i] \in T
                 PROVE  it[1 .. i + 1] \in T
      OBVIOUS
    <3>1. i + 1 \in 1 .. n /\ (i + 1) - 1 = i
      OBVIOUS
    <3>2. it[1 .. i + 1] = h[<<i + 1, it[1 .. i]>>]
      BY <1>2, <3>1
    <3> QED
      BY <3>1, <3>2
  <2>3. \A i \in 0 .. n : i \in B
    <3> HIDE DEF B
    <3> QED
      BY <2>1, <2>2, UpTo
  <2> QED
    BY <2>3
<1> DEFINE f == [i \in 0 .. n |-> it[1 .. i]]
<1>4. f \in [0 .. n -> T] /\ f[n] = it[1 .. n] /\ f[0] = base
  BY <1>1, <1>3
<1>5. \A i \in 1 .. n : f[i - 1] \in T /\ f[i] = h[<<i, f[i - 1]>>]
  BY <1>2, <1>3
<1> QED
  BY <1>4, <1>5 DEF LoopsTo

-----------------------------------------------------------------------------
(***************************************************************************)
(* The folds of Lint.  f[i] is what the loop has after i members.          *)
(***************************************************************************)
LastSoFar(f, list, c) ==
    /\ f[0] = FALSE
    /\ \A i \in DOMAIN list :
          f[i] = IF Matches(list[i], c) THEN list[i].sign = "-" ELSE f[i - 1]

\* _ShouldPrintError goes through the filters from the first to the last.
LEMMA IsFilteredIs ==
    ASSUME NEW c, filters \in Seq(Filters)
    PROVE  \E f \in [0 .. Len(filters) -> BOOLEAN] :
              LastSoFar(f, filters, c) /\ IsFiltered(c) = f[Len(filters)]
<1>0. PICK list \in Seq(Filters) : list = filters
  OBVIOUS
<1> DEFINE n == Len(list)
           T == BOOLEAN
           base == FALSE
           op(x, i) == IF Matches(list[i], c) THEN list[i].sign = "-" ELSE x
           h == [q \in (1 .. n) \X T |-> op(q[2], q[1])]
           Fold(g) == g = [S \in SUBSET (1 .. n) |-> IF S = {} THEN base
                                                ELSE op(g[S \ {Max(S)}], Max(S))]
           it == CHOOSE g : Fold(g)
<1>1. n \in Nat /\ DOMAIN list = 1 .. n
  OBVIOUS
<1>2. h \in [(1 .. n) \X T -> T] /\ base \in T
  OBVIOUS
<1>3. IsFiltered(c) = it[1 .. n]
  BY <1>0, <1>1 DEF IsFiltered, FoldLeft, MapThenFoldSet
<1>4. \A i \in 1 .. n : \A x \in T : h[<<i, x>>] = op(x, i)
  OBVIOUS
<1> HIDE DEF n, T, base, op, h, it
<1>5. PICK g : FoldsTo(g, n, T, base, h)
  BY <1>1, <1>2, FoldExists
<1>6. Fold(g)
  <2>1. g = [S \in SUBSET (1 .. n) |-> g[S]]
    BY <1>5 DEF FoldsTo
  <2> QED
    BY <1>4, <1>5, <2>1 DEF FoldsTo
<1>7. Fold(it)
  <2> HIDE DEF Fold
  <2> QED
    BY <1>6 DEF it
<1>8. \A S \in SUBSET (1 .. n) :
        S # {} /\ it[S \ {Max(S)}] \in T => it[S] = h[<<Max(S), it[S \ {Max(S)}]>>]
  <2> TAKE S \in SUBSET (1 .. n)
  <2> HAVE S # {} /\ it[S \ {Max(S)}] \in T
  <2>1. Max(S) \in 1 .. n
    BY <1>1, MaxIs
  <2> QED
    BY <1>4, <1>7, <2>1
<1>9. Follows(it, n, T, base, h)
  BY <1>7, <1>8 DEF Follows
<1>10. PICK f : LoopsTo(f, n, T, base, h, it)
  <2> HIDE DEF Fold
  <2> QED
    BY <1>1, <1>2, <1>9, LoopOfFold
<1>11. LastSoFar(f, list, c)
  <2>1. f[0] = FALSE
    BY <1>10 DEF LoopsTo, base
  <2>2. ASSUME NEW i \in 1 .. n
        PROVE  f[i] = IF Matches(list[i], c) THEN list[i].sign = "-" ELSE f[i - 1]
    <3>1. f[i - 1] \in T /\ f[i] = h[<<i, f[i - 1]>>]
      BY <1>10 DEF LoopsTo
    <3>2. f[i] = op(f[i - 1], i)
      BY <1>4, <3>1
    <3> QED
      BY <3>2, Zenon DEF op
  <2> QED
    BY <1>1, <2>1, <2>2, Zenon DEF LastSoFar
<1> QED
  BY <1>0, <1>3, <1>10, <1>11 DEF LoopsTo, n, T

\* What _FilterExcludedFiles leaves are names of files still.
LEMMA WithoutExcludedIs ==
    ASSUME NEW list \in Seq(Files)
    PROVE  WithoutExcluded(list) \in Seq(Files)
<1> DEFINE n == Len(list)
           T == Seq(Files)
           base == <<>>
           op(x, i) == IF list[i] \in flags.exclude THEN x ELSE Append(x, list[i])
           h == [q \in (1 .. n) \X T |-> op(q[2], q[1])]
           Fold(g) == g = [S \in SUBSET (1 .. n) |-> IF S = {} THEN base
                                                ELSE op(g[S \ {Max(S)}], Max(S))]
           it == CHOOSE g : Fold(g)
<1>1. n \in Nat /\ DOMAIN list = 1 .. n
  OBVIOUS
<1>2. h \in [(1 .. n) \X T -> T] /\ base \in T
  <2>1. \A i \in 1 .. n : \A x \in T : op(x, i) \in T
    OBVIOUS
  <2> HIDE DEF op, T, n
  <2>2. h \in [(1 .. n) \X T -> T]
    BY <2>1
  <2> QED
    BY <2>2 DEF T
<1>3. WithoutExcluded(list) = it[1 .. n]
  BY <1>1 DEF WithoutExcluded, FoldLeft, MapThenFoldSet
<1>4. \A i \in 1 .. n : \A x \in T : h[<<i, x>>] = op(x, i)
  <2> HIDE DEF op, T, n
  <2> QED
    OBVIOUS
<1> HIDE DEF n, T, base, op, h, it
<1>5. PICK g : FoldsTo(g, n, T, base, h)
  BY <1>1, <1>2, FoldExists
<1>6. Fold(g)
  <2>1. g = [S \in SUBSET (1 .. n) |-> g[S]]
    BY <1>5 DEF FoldsTo
  <2> QED
    BY <1>4, <1>5, <2>1 DEF FoldsTo
<1>7. Fold(it)
  <2> HIDE DEF Fold
  <2> QED
    BY <1>6 DEF it
<1>8. \A S \in SUBSET (1 .. n) :
        S # {} /\ it[S \ {Max(S)}] \in T => it[S] = h[<<Max(S), it[S \ {Max(S)}]>>]
  <2> TAKE S \in SUBSET (1 .. n)
  <2> HAVE S # {} /\ it[S \ {Max(S)}] \in T
  <2>1. Max(S) \in 1 .. n
    BY <1>1, MaxIs
  <2> QED
    BY <1>4, <1>7, <2>1
<1>9. Follows(it, n, T, base, h)
  BY <1>7, <1>8 DEF Follows
<1>10. PICK f : LoopsTo(f, n, T, base, h, it)
  <2> HIDE DEF Fold
  <2> QED
    BY <1>1, <1>2, <1>9, LoopOfFold
<1>11. it[1 .. n] \in T
  BY <1>1, <1>10 DEF LoopsTo
<1> QED
  BY <1>3, <1>11 DEF T

\* The lists of filters of a CPPLINT.cfg, one after the other.
Gathers(f, lines, lists) ==
    /\ f \in [0 .. Len(lines) -> Seq(Seq(Filters))]
    /\ f[0] = <<>> /\ f[Len(lines)] = lists
    /\ \A i \in 1 .. Len(lines) :
          f[i] = IF lines[i].name = "filter" THEN Append(f[i - 1], lines[i].val) ELSE f[i - 1]

AreLines(lines) ==
    /\ lines \in Seq(ToSet(lines))
    /\ \A k \in DOMAIN lines : lines[k].name = "filter" => lines[k].val \in Seq(Filters)

LEMMA ListsIs ==
    ASSUME NEW d \in Dirs, config[d] \notin {NoConfig, Unreadable}, AreLines(config[d])
    PROVE  \E f : Gathers(f, config[d], Lists(d))
<1>0. PICK lines : lines = config[d] /\ lines \in Seq(ToSet(lines)) /\ AreLines(lines)
  BY DEF AreLines
<1> DEFINE n == Len(lines)
           T == Seq(Seq(Filters))
           base == <<>>
           op(x, i) == IF lines[i].name = "filter" THEN Append(x, lines[i].val) ELSE x
           h == [q \in (1 .. n) \X T |-> op(q[2], q[1])]
           Fold(g) == g = [S \in SUBSET (1 .. n) |-> IF S = {} THEN base
                                                ELSE op(g[S \ {Max(S)}], Max(S))]
           it == CHOOSE g : Fold(g)
<1>1. n \in Nat /\ DOMAIN lines = 1 .. n
  BY <1>0
<1>2. h \in [(1 .. n) \X T -> T] /\ base \in T
  <2>1. ASSUME NEW i \in 1 .. n, NEW x \in T PROVE op(x, i) \in T
    <3>1. lines[i].name = "filter" => lines[i].val \in Seq(Filters)
      BY <1>0, <1>1 DEF AreLines
    <3>2. \A v \in Seq(Filters) : Append(x, v) \in T
      BY AppendProperties
    <3> QED
      BY <3>1, <3>2
  <2> HIDE DEF op, T, n
  <2>2. h \in [(1 .. n) \X T -> T]
    BY <2>1
  <2> QED
    BY <2>2 DEF T
<1>3. Lists(d) = it[1 .. n]
  BY <1>0, <1>1 DEF Lists, FoldLeft, MapThenFoldSet
<1>4. \A i \in 1 .. n : \A x \in T : h[<<i, x>>] = op(x, i)
  <2> HIDE DEF op, T, n
  <2> QED
    OBVIOUS
<1> HIDE DEF n, T, base, op, h, it
<1>5. PICK g : FoldsTo(g, n, T, base, h)
  BY <1>1, <1>2, FoldExists
<1>6. Fold(g)
  <2>1. g = [S \in SUBSET (1 .. n) |-> g[S]]
    BY <1>5 DEF FoldsTo
  <2> QED
    BY <1>4, <1>5, <2>1 DEF FoldsTo
<1>7. Fold(it)
  <2> HIDE DEF Fold
  <2> QED
    BY <1>6 DEF it
<1>8. \A S \in SUBSET (1 .. n) :
        S # {} /\ it[S \ {Max(S)}] \in T => it[S] = h[<<Max(S), it[S \ {Max(S)}]>>]
  <2> TAKE S \in SUBSET (1 .. n)
  <2> HAVE S # {} /\ it[S \ {Max(S)}] \in T
  <2>1. Max(S) \in 1 .. n
    BY <1>1, MaxIs
  <2> QED
    BY <1>4, <1>7, <2>1
<1>9. Follows(it, n, T, base, h)
  BY <1>7, <1>8 DEF Follows
<1>10. PICK f : LoopsTo(f, n, T, base, h, it)
  <2> HIDE DEF Fold
  <2> QED
    BY <1>1, <1>2, <1>9, LoopOfFold
<1>11. \A i \in 1 .. n : f[i] = op(f[i - 1], i)
  BY <1>4, <1>10 DEF LoopsTo
<1>12. Gathers(f, lines, Lists(d))
  BY <1>3, <1>10, <1>11 DEF Gathers, LoopsTo, n, T, base, op
<1> QED
  BY <1>0, <1>12

\* What ProcessConfigOverrides knows while it reads a CPPLINT.cfg.
States(values) ==
    [cfg_filters : Seq(Seq(Filters)), line_length : values,
     keep_looking : BOOLEAN, excluded : BOOLEAN]

AtFirst ==
    [cfg_filters |-> cfg_filters, line_length |-> line_length,
     keep_looking |-> TRUE, excluded |-> FALSE]

Obeys(f, lines, after) ==
    /\ \E values : f \in [0 .. Len(lines) -> States(values)]
    /\ f[0] = AtFirst /\ f[Len(lines)] = after
    /\ \A i \in 1 .. Len(lines) : f[i] = AfterLine(f[i - 1], lines[i])

LEMMA AfterConfigIs ==
    ASSUME NEW lines, AreLines(lines), cfg_filters \in Seq(Seq(Filters))
    PROVE  \E f : Obeys(f, lines, AfterConfig(lines))
<1>0. lines \in Seq(ToSet(lines))
  BY DEF AreLines
<1> DEFINE n == Len(lines)
           values == {line_length} \cup {lines[k].val : k \in 1 .. n}
           T == States(values)
           base == AtFirst
           op(x, i) == AfterLine(x, lines[i])
           h == [q \in (1 .. n) \X T |-> op(q[2], q[1])]
           Fold(g) == g = [S \in SUBSET (1 .. n) |-> IF S = {} THEN base
                                                ELSE op(g[S \ {Max(S)}], Max(S))]
           it == CHOOSE g : Fold(g)
<1>1. n \in Nat /\ DOMAIN lines = 1 .. n
  BY <1>0
<1>2. h \in [(1 .. n) \X T -> T] /\ base \in T
  <2>1. ASSUME NEW i \in 1 .. n, NEW x \in T PROVE op(x, i) \in T
    <3>1. lines[i].name = "filter" => lines[i].val \in Seq(Filters)
      BY <1>1 DEF AreLines
    <3>2. lines[i].name = "filter" => Append(x.cfg_filters, lines[i].val) \in Seq(Seq(Filters))
      BY <3>1, AppendProperties DEF States
    <3>3. lines[i].val \in values
      OBVIOUS
    <3> HIDE DEF values
    <3> QED
      BY <3>2, <3>3 DEF AfterLine, States
  <2>2. base \in T
    BY DEF AtFirst, States
  <2> HIDE DEF op, T, n, base
  <2>3. h \in [(1 .. n) \X T -> T]
    BY <2>1
  <2> QED
    BY <2>2, <2>3
<1>3. AfterConfig(lines) = it[1 .. n]
  BY <1>0, <1>1 DEF AfterConfig, FoldLeft, MapThenFoldSet, AtFirst
<1>4. \A i \in 1 .. n : \A x \in T : h[<<i, x>>] = op(x, i)
  <2> HIDE DEF op, T, n
  <2> QED
    OBVIOUS
<1> HIDE DEF n, T, base, op, h, it, values
<1>5. PICK g : FoldsTo(g, n, T, base, h)
  BY <1>1, <1>2, FoldExists
<1>6. Fold(g)
  <2>1. g = [S \in SUBSET (1 .. n) |-> g[S]]
    BY <1>5 DEF FoldsTo
  <2> QED
    BY <1>4, <1>5, <2>1 DEF FoldsTo
<1>7. Fold(it)
  <2> HIDE DEF Fold
  <2> QED
    BY <1>6 DEF it
<1>8. \A S \in SUBSET (1 .. n) :
        S # {} /\ it[S \ {Max(S)}] \in T => it[S] = h[<<Max(S), it[S \ {Max(S)}]>>]
  <2> TAKE S \in SUBSET (1 .. n)
  <2> HAVE S # {} /\ it[S \ {Max(S)}] \in T
  <2>1. Max(S) \in 1 .. n
    BY <1>1, MaxIs
  <2> QED
    BY <1>4, <1>7, <2>1
<1>9. Follows(it, n, T, base, h)
  BY <1>7, <1>8 DEF Follows
<1>10. PICK f : LoopsTo(f, n, T, base, h, it)
  <2> HIDE DEF Fold
  <2> QED
    BY <1>1, <1>2, <1>9, LoopOfFold
<1>11. \A i \in 1 .. n : f[i] = op(f[i - 1], i)
  BY <1>4, <1>10 DEF LoopsTo
<1>12. f \in [0 .. n -> T] /\ f[0] = base /\ f[n] = it[1 .. n]
  BY <1>10 DEF LoopsTo
<1>13. Obeys(f, lines, AfterConfig(lines))
  <2>1. \E w : f \in [0 .. n -> States(w)]
    BY <1>12 DEF T
  <2> QED
    BY <1>3, <1>11, <1>12, <2>1 DEF Obeys, n, base, op
<1> QED
  BY <1>13

LEMMA AppendList ==
    ASSUME NEW s \in Seq(Seq(Filters)), NEW t \in Seq(Seq(Filters)), NEW v \in Seq(Filters)
    PROVE  Append(s \o t, v) = s \o Append(t, v)
<1> DEFINE S == Seq(Filters)
<1>0. s \in Seq(S) /\ t \in Seq(S) /\ v \in S
  OBVIOUS
<1> HIDE DEF S
<1>1. <<v>> \in Seq(S) /\ s \o t \in Seq(S)
  BY <1>0
<1>2. Append(s \o t, v) = (s \o t) \o <<v>>
  BY <1>0, <1>1, AppendIsConcat
<1>3. Append(t, v) = t \o <<v>>
  BY <1>0, AppendIsConcat
<1>4. (s \o t) \o <<v>> = s \o (t \o <<v>>)
  BY <1>0, <1>1, ConcatAssociative
<1> QED
  BY <1>2, <1>3, <1>4

\* One CPPLINT.cfg adds its lists to those gathered before, unless it excludes the file.
LEMMA AfterConfigGathers ==
    ASSUME NEW d \in Dirs, config[d] \notin {NoConfig, Unreadable}, AreLines(config[d]),
           cfg_filters \in Seq(Seq(Filters))
    PROVE  LET after == AfterConfig(config[d])
           IN  /\ after.cfg_filters \in Seq(Seq(Filters))
               /\ after.excluded \in BOOLEAN
               /\ ~after.excluded => /\ after.cfg_filters = cfg_filters \o Lists(d)
                                     /\ after.keep_looking <=> ~Stops(d)
<1>0. PICK lines : lines = config[d] /\ AreLines(lines)
  OBVIOUS
<1> DEFINE n == Len(lines)
           after == AfterConfig(config[d])
<1>1. n \in Nat
  BY <1>0 DEF AreLines
<1>a. DOMAIN lines = 1 .. n
  BY <1>0 DEF AreLines
<1>2. PICK f : Obeys(f, lines, after)
  BY <1>0, AfterConfigIs
<1>3. PICK g : Gathers(g, lines, Lists(d))
  BY <1>0, ListsIs
<1>4. PICK values : f \in [0 .. n -> States(values)]
  BY <1>2 DEF Obeys
<1>5. /\ f[0] = AtFirst /\ f[n] = after
      /\ \A i \in 1 .. n : f[i] = AfterLine(f[i - 1], lines[i])
  BY <1>2 DEF Obeys
<1>6. /\ g \in [0 .. n -> Seq(Seq(Filters))] /\ g[0] = <<>> /\ g[n] = Lists(d)
      /\ \A i \in 1 .. n :
            g[i] = IF lines[i].name = "filter" THEN Append(g[i - 1], lines[i].val) ELSE g[i - 1]
  BY <1>3 DEF Gathers
<1> HIDE DEF n, after
<1> DEFINE Good(i) ==
             ~f[i].excluded =>
               /\ f[i].cfg_filters = cfg_filters \o g[i]
               /\ f[i].keep_looking <=> ~\E k \in 1 .. i : lines[k].name = "set noparent"
           B == {i \in 0 .. n : Good(i)}
<1>7. 0 \in B
  <2>1. cfg_filters \o <<>> = cfg_filters
    BY ConcatEmptySeq
  <2>2. f[0].excluded = FALSE /\ f[0].cfg_filters = cfg_filters /\ f[0].keep_looking = TRUE
    BY <1>5 DEF AtFirst
  <2>3. ~\E k \in 1 .. 0 : lines[k].name = "set noparent"
    OBVIOUS
  <2>4. Good(0)
    BY <1>6, <2>1, <2>2, <2>3
  <2> HIDE DEF Good
  <2> QED
    BY <1>1, <2>4
<1>8. \A i \in 0 .. n - 1 : i \in B => i + 1 \in B
  <2> HIDE DEF Good
  <2> SUFFICES ASSUME NEW i \in 0 .. n - 1, Good(i) PROVE Good(i + 1)
    BY <1>1
  <2> DEFINE line == lines[i + 1]
  <2>1. /\ i + 1 \in 1 .. n /\ (i + 1) - 1 = i /\ i \in 0 .. n
        /\ 1 .. i + 1 = (1 .. i) \cup {i + 1}
    BY <1>1
  <2>2. f[i + 1] = AfterLine(f[i], line)
    BY <1>5, <2>1
  <2>3. f[i] \in States(values)
    BY <1>4, <2>1
  <2>4. g[i + 1] = IF line.name = "filter" THEN Append(g[i], line.val) ELSE g[i]
    BY <1>6, <2>1
  <2>5. CASE f[i].excluded
    BY <2>2, <2>5 DEF AfterLine, Good
  <2>6. CASE ~f[i].excluded
    <3>1. /\ f[i + 1].cfg_filters = IF line.name = "filter" THEN Append(f[i].cfg_filters, line.val)
                                    ELSE f[i].cfg_filters
          /\ f[i + 1].keep_looking = (f[i].keep_looking /\ line.name # "set noparent")
      BY <2>2, <2>3, <2>6 DEF AfterLine, States
    <3>2. /\ f[i].cfg_filters = cfg_filters \o g[i]
          /\ f[i].keep_looking <=> ~\E k \in 1 .. i : lines[k].name = "set noparent"
      BY <2>6 DEF Good
    <3>3. line.name = "filter" => line.val \in Seq(Filters)
      BY <1>0, <1>a, <2>1 DEF AreLines
    <3>4. ASSUME line.name = "filter"
          PROVE  Append(cfg_filters \o g[i], line.val) = cfg_filters \o Append(g[i], line.val)
      <4>1. g[i] \in Seq(Seq(Filters)) /\ line.val \in Seq(Filters)
        BY <1>6, <2>1, <3>3, <3>4
      <4> HIDE DEF line
      <4> QED
        BY <4>1, AppendList, Zenon
    <3>5. f[i + 1].cfg_filters = cfg_filters \o g[i + 1]
      BY <2>4, <3>1, <3>2, <3>4
    <3>6. f[i + 1].keep_looking <=> ~\E k \in 1 .. i + 1 : lines[k].name = "set noparent"
      BY <3>1, <3>2, <2>1, Zenon
    <3> QED
      BY <3>5, <3>6 DEF Good
  <2> QED
    BY <2>5, <2>6
<1>9. \A i \in 0 .. n : i \in B
  <2> HIDE DEF B
  <2> QED
    BY <1>1, <1>7, <1>8, UpTo
<1>10. Good(n)
  <2> HIDE DEF Good
  <2> QED
    BY <1>1, <1>9
<1>11. after \in States(values)
  BY <1>1, <1>4, <1>5
<1>12. Stops(d) <=> \E k \in 1 .. n : lines[k].name = "set noparent"
  BY <1>0, <1>a DEF Stops
<1>13. after.cfg_filters \in Seq(Seq(Filters)) /\ after.excluded \in BOOLEAN
  BY <1>11 DEF States
<1> QED
  BY <1>5, <1>6, <1>10, <1>12, <1>13 DEF after

-----------------------------------------------------------------------------
(***************************************************************************)
(* What filters decide of a category: nothing, or by the last filter that  *)
(* matches; and lists of them: by the first list that decides.             *)
(***************************************************************************)
Silent(list, c) == \A k \in DOMAIN list : ~Matches(list[k], c)

Minus(list, c) ==
    \E k \in DOMAIN list :
       /\ Matches(list[k], c) /\ list[k].sign = "-"
       /\ \A j \in DOMAIN list : j > k => ~Matches(list[j], c)

AllSilent(lists, c) == \A k \in DOMAIN lists : Silent(lists[k], c)

FirstMinus(lists, c) ==
    \E k \in DOMAIN lists :
       /\ Minus(lists[k], c)
       /\ \A j \in DOMAIN lists : j < k => Silent(lists[j], c)

\* The loop of _ShouldPrintError finds what the last filter that matches says.
LEMMA IsFilteredByLast ==
    ASSUME NEW c, filters \in Seq(Filters)
    PROVE  IsFiltered(c) <=> Minus(filters, c)
<1>0. PICK list \in Seq(Filters) : list = filters
  OBVIOUS
<1> DEFINE n == Len(list)
<1>1. n \in Nat
  OBVIOUS
<1>a. DOMAIN list = 1 .. n
  OBVIOUS
<1>2. PICK f \in [0 .. n -> BOOLEAN] : LastSoFar(f, list, c) /\ IsFiltered(c) = f[n]
  BY <1>0, IsFilteredIs
<1> HIDE DEF n
<1>3. f[0] = FALSE
  BY <1>2 DEF LastSoFar
<1>4. \A i \in 1 .. n :
         f[i] = IF Matches(list[i], c) THEN list[i].sign = "-" ELSE f[i - 1]
  BY <1>2, <1>a DEF LastSoFar
<1> DEFINE Found(i) == \E k \in 1 .. i :
                          /\ Matches(list[k], c) /\ list[k].sign = "-"
                          /\ \A j \in 1 .. i : j > k => ~Matches(list[j], c)
           B == {i \in 0 .. n : f[i] <=> Found(i)}
<1>5. 0 \in B
  <2>1. ~Found(0)
    OBVIOUS
  <2> HIDE DEF Found
  <2> QED
    BY <1>1, <1>3, <2>1
<1>6. \A i \in 0 .. n - 1 : i \in B => i + 1 \in B
  <2> SUFFICES ASSUME NEW i \in 0 .. n - 1, f[i] <=> Found(i) PROVE f[i + 1] <=> Found(i + 1)
    <3> HIDE DEF Found
    <3> QED
      BY <1>1
  <2>1. /\ i + 1 \in 1 .. n /\ (i + 1) - 1 = i
        /\ 1 .. i + 1 = (1 .. i) \cup {i + 1}
        /\ \A j \in 1 .. i : j < i + 1 /\ ~(j > i + 1)
        /\ ~(i + 1 > i + 1) /\ \A j \in 1 .. i : i + 1 > j
    BY <1>1
  <2>2. f[i + 1] = IF Matches(list[i + 1], c) THEN list[i + 1].sign = "-" ELSE f[i]
    BY <1>4, <2>1
  <2>3. CASE Matches(list[i + 1], c)
    <3>1. Found(i + 1) => list[i + 1].sign = "-"
      <4> SUFFICES ASSUME NEW k \in 1 .. i + 1,
                          Matches(list[k], c), list[k].sign = "-",
                          \A j \in 1 .. i + 1 : j > k => ~Matches(list[j], c)
                   PROVE  k = i + 1
        OBVIOUS
      <4>1. ~(i + 1 > k)
        BY <2>1, <2>3
      <4> QED
        BY <1>1, <4>1
    <3>2. list[i + 1].sign = "-" => Found(i + 1)
      BY <2>1, <2>3
    <3> HIDE DEF Found
    <3> QED
      BY <2>2, <2>3, <3>1, <3>2
  <2>4. CASE ~Matches(list[i + 1], c)
    <3>1. Found(i) => Found(i + 1)
      BY <2>1, <2>4
    <3>2. Found(i + 1) => Found(i)
      BY <2>1, <2>4
    <3> HIDE DEF Found
    <3> QED
      BY <2>2, <2>4, <3>1, <3>2
  <2> HIDE DEF Found
  <2> QED
    BY <2>3, <2>4
<1>7. \A i \in 0 .. n : i \in B
  <2> HIDE DEF B
  <2> QED
    BY <1>1, <1>5, <1>6, UpTo
<1>8. f[n] <=> Found(n)
  <2> HIDE DEF Found
  <2> QED
    BY <1>1, <1>7
<1>9. Found(n) <=> Minus(list, c)
  BY <1>a DEF Minus
<1> HIDE DEF Found
<1> QED
  BY <1>0, <1>2, <1>8, <1>9

\* Min and Max in FilteredFor find what the first list that mentions the category says.
LEMMA FilteredForByFirst ==
    ASSUME NEW f, NEW c, Sources(f) \in Seq(Seq(Filters))
    PROVE  FilteredFor(f, c) <=> FirstMinus(Sources(f), c)
<1>0. PICK L \in Seq(Seq(Filters)) : L = Sources(f)
  OBVIOUS
<1> DEFINE found == {k \in DOMAIN L : Mentions(L[k], c) # {}}
           list == L[Min(found)]
           last == Max(Mentions(list, c))
<1>1. FilteredFor(f, c) <=> found # {} /\ list[last].sign = "-"
  BY <1>0 DEF FilteredFor
<1>2. DOMAIN L \in SUBSET Nat /\ \A k \in DOMAIN L : L[k] \in Seq(Filters)
  OBVIOUS
<1>3. \A k \in DOMAIN L : Silent(L[k], c) <=> k \notin found
  BY DEF Silent, Mentions
<1>4. ASSUME NEW k \in DOMAIN L
      PROVE  Minus(L[k], c) <=> k \in found /\ L[k][Max(Mentions(L[k], c))].sign = "-"
  <2> DEFINE M == Mentions(L[k], c)
             n == Len(L[k])
  <2>1. n \in Nat /\ DOMAIN L[k] = 1 .. n
    BY <1>2
  <2>2. M \in SUBSET (1 .. n) /\ \A j \in 1 .. n : j \in M <=> Matches(L[k][j], c)
    BY <2>1 DEF Mentions
  <2>3. k \in found <=> M # {}
    OBVIOUS
  <2> HIDE DEF M, n, found
  <2>4. M # {} => Max(M) \in M /\ \A j \in M : j <= Max(M)
    BY <2>1, <2>2, MaxIs
  <2>5. ASSUME M # {}, L[k][Max(M)].sign = "-" PROVE Minus(L[k], c)
    <3>1. Max(M) \in 1 .. n /\ Matches(L[k][Max(M)], c)
      BY <2>2, <2>4, <2>5
    <3>2. \A j \in 1 .. n : j > Max(M) => ~Matches(L[k][j], c)
      <4> TAKE j \in 1 .. n
      <4> HAVE j > Max(M)
      <4>1. ~(j <= Max(M))
        BY <3>1
      <4> QED
        BY <2>2, <2>4, <2>5, <4>1
    <3> HIDE DEF M
    <3> QED
      BY <2>1, <2>5, <3>1, <3>2 DEF Minus
  <2>6. ASSUME Minus(L[k], c) PROVE M # {} /\ L[k][Max(M)].sign = "-"
    <3>1. PICK i \in 1 .. n : /\ Matches(L[k][i], c) /\ L[k][i].sign = "-"
                              /\ \A j \in 1 .. n : j > i => ~Matches(L[k][j], c)
      BY <2>1, <2>6 DEF Minus
    <3>2. i \in M
      BY <2>2, <3>1
    <3>3. Max(M) \in M /\ i <= Max(M)
      BY <2>4, <3>2
    <3>4. Max(M) \in 1 .. n /\ ~(Max(M) > i)
      BY <2>2, <3>1, <3>3
    <3>5. Max(M) = i
      BY <2>1, <3>3, <3>4
    <3> QED
      BY <3>1, <3>2, <3>5
  <2> QED
    BY <2>3, <2>5, <2>6 DEF M
<1>5. found \in SUBSET Nat /\ found \subseteq DOMAIN L
  BY <1>2
<1> HIDE DEF found
<1>6. found # {} => Min(found) \in found /\ \A k \in found : Min(found) <= k
  BY <1>5, MinIs
<1>7. ASSUME found # {}, list[last].sign = "-" PROVE FirstMinus(L, c)
  <2>1. Min(found) \in DOMAIN L /\ Min(found) \in found
    BY <1>5, <1>6, <1>7
  <2>2. Minus(L[Min(found)], c)
    BY <1>4, <1>7, <2>1
  <2>3. \A j \in DOMAIN L : j < Min(found) => Silent(L[j], c)
    BY <1>2, <1>3, <1>6, <1>7, <2>1
  <2> QED
    BY <2>1, <2>2, <2>3 DEF FirstMinus
<1>8. ASSUME FirstMinus(L, c) PROVE found # {} /\ list[last].sign = "-"
  <2>1. PICK k \in DOMAIN L : /\ Minus(L[k], c)
                              /\ \A j \in DOMAIN L : j < k => Silent(L[j], c)
    BY <1>8 DEF FirstMinus
  <2>2. k \in found /\ L[k][Max(Mentions(L[k], c))].sign = "-"
    BY <1>4, <2>1
  <2>3. Min(found) \in found /\ Min(found) <= k
    BY <1>6, <2>2
  <2>4. ~(Min(found) < k)
    BY <1>3, <1>5, <2>1, <2>3
  <2>5. Min(found) \in Nat /\ k \in Nat
    BY <1>2, <1>5, <2>1, <2>3
  <2>6. Min(found) = k
    BY <2>3, <2>4, <2>5
  <2> QED
    BY <2>2, <2>6
<1> QED
  BY <1>0, <1>1, <1>7, <1>8

\* Of two sequences of filters the second decides if it can.
LEMMA ConcatVerdict ==
    ASSUME NEW c, NEW s \in Seq(Filters), NEW t \in Seq(Filters)
    PROVE  /\ s \o t \in Seq(Filters)
           /\ Silent(s \o t, c) <=> Silent(s, c) /\ Silent(t, c)
           /\ Minus(s \o t, c) <=> Minus(t, c) \/ (Silent(t, c) /\ Minus(s, c))
<1> DEFINE m == Len(s)
           n == Len(t)
           u == s \o t
<1>1. m \in Nat /\ n \in Nat
  OBVIOUS
<1>2. DOMAIN s = 1 .. m /\ DOMAIN t = 1 .. n /\ DOMAIN u = 1 .. m + n /\ u \in Seq(Filters)
  OBVIOUS
<1>3. /\ \A k \in 1 .. m : u[k] = s[k]
      /\ \A k \in 1 .. n : u[m + k] = t[k]
  OBVIOUS
<1> HIDE DEF m, n, u
<1>4. \A k \in 1 .. m + n : k \in 1 .. m \/ (k - m \in 1 .. n /\ m + (k - m) = k)
  BY <1>1
<1>5. (1 .. m) \subseteq 1 .. m + n /\ \A k \in 1 .. n : m + k \in 1 .. m + n
  BY <1>1
<1>6. Silent(u, c) => Silent(s, c) /\ Silent(t, c)
  BY <1>2, <1>3, <1>5 DEF Silent
<1>7. Silent(s, c) /\ Silent(t, c) => Silent(u, c)
  <2> SUFFICES ASSUME Silent(s, c), Silent(t, c), NEW k \in 1 .. m + n
               PROVE  ~Matches(u[k], c)
    BY <1>2 DEF Silent
  <2>1. CASE k \in 1 .. m
    BY <2>1, <1>2, <1>3 DEF Silent
  <2>2. CASE k - m \in 1 .. n /\ m + (k - m) = k
    BY <2>2, <1>2, <1>3 DEF Silent
  <2> QED
    BY <1>4, <2>1, <2>2
<1>8. Minus(t, c) => Minus(u, c)
  <2> SUFFICES ASSUME Minus(t, c) PROVE Minus(u, c)
    OBVIOUS
  <2>1. PICK k \in 1 .. n : /\ Matches(t[k], c) /\ t[k].sign = "-"
                            /\ \A j \in 1 .. n : j > k => ~Matches(t[j], c)
    BY <1>2 DEF Minus
  <2>2. m + k \in 1 .. m + n /\ u[m + k] = t[k]
    BY <1>3, <1>5
  <2>3. \A j \in 1 .. m + n : j > m + k => ~Matches(u[j], c)
    <3> TAKE j \in 1 .. m + n
    <3> HAVE j > m + k
    <3>1. j - m \in 1 .. n /\ m + (j - m) = j /\ j - m > k
      BY <1>1
    <3> QED
      BY <1>3, <2>1, <3>1
  <2> QED
    BY <1>2, <2>1, <2>2, <2>3 DEF Minus
<1>9. Silent(t, c) /\ Minus(s, c) => Minus(u, c)
  <2> SUFFICES ASSUME Silent(t, c), Minus(s, c) PROVE Minus(u, c)
    OBVIOUS
  <2>1. PICK k \in 1 .. m : /\ Matches(s[k], c) /\ s[k].sign = "-"
                            /\ \A j \in 1 .. m : j > k => ~Matches(s[j], c)
    BY <1>2 DEF Minus
  <2>2. k \in 1 .. m + n /\ u[k] = s[k]
    BY <1>3, <1>5
  <2>3. \A j \in 1 .. m + n : j > k => ~Matches(u[j], c)
    <3> TAKE j \in 1 .. m + n
    <3> HAVE j > k
    <3>1. CASE j \in 1 .. m
      BY <3>1, <1>3, <2>1
    <3>2. CASE j - m \in 1 .. n /\ m + (j - m) = j
      BY <3>2, <1>2, <1>3 DEF Silent
    <3> QED
      BY <1>4, <3>1, <3>2
  <2> QED
    BY <1>2, <2>1, <2>2, <2>3 DEF Minus
<1>10. Minus(u, c) => Minus(t, c) \/ (Silent(t, c) /\ Minus(s, c))
  <2> SUFFICES ASSUME Minus(u, c) PROVE Minus(t, c) \/ (Silent(t, c) /\ Minus(s, c))
    OBVIOUS
  <2>1. PICK k \in 1 .. m + n : /\ Matches(u[k], c) /\ u[k].sign = "-"
                                /\ \A j \in 1 .. m + n : j > k => ~Matches(u[j], c)
    BY <1>2 DEF Minus
  <2>2. CASE k \in 1 .. m
    <3>1. \A j \in 1 .. n : ~Matches(t[j], c)
      <4> TAKE j \in 1 .. n
      <4>1. m + j \in 1 .. m + n /\ m + j > k
        BY <1>1, <2>2
      <4> QED
        BY <1>3, <2>1, <4>1
    <3>2. \A j \in 1 .. m : j > k => ~Matches(s[j], c)
      BY <1>3, <1>5, <2>1
    <3>3. Matches(s[k], c) /\ s[k].sign = "-"
      BY <1>3, <2>1, <2>2
    <3> QED
      BY <1>2, <2>2, <3>1, <3>2, <3>3 DEF Minus, Silent
  <2>3. CASE k - m \in 1 .. n /\ m + (k - m) = k
    <3>1. Matches(t[k - m], c) /\ t[k - m].sign = "-"
      BY <1>3, <2>1, <2>3
    <3>2. \A j \in 1 .. n : j > k - m => ~Matches(t[j], c)
      <4> TAKE j \in 1 .. n
      <4> HAVE j > k - m
      <4>1. m + j \in 1 .. m + n /\ m + j > k
        BY <1>1, <2>3
      <4> QED
        BY <1>3, <2>1, <4>1
    <3> QED
      BY <1>2, <2>3, <3>1, <3>2 DEF Minus
  <2> QED
    BY <1>4, <2>2, <2>3
<1> QED
  BY <1>2, <1>6, <1>7, <1>8, <1>9, <1>10 DEF u

LEMMA TwoMore == ASSUME NEW m \in Nat PROVE 1 .. m + 2 = (1 .. m) \cup {m + 1, m + 2}
OBVIOUS

\* Below the lists of the directories come those of the flags and of the program.
LEMMA SourcesVerdict ==
    ASSUME NEW c, NEW L \in Seq(Seq(Filters)), NEW s \in Seq(Filters), NEW t \in Seq(Filters)
    PROVE  /\ L \o <<s, t>> \in Seq(Seq(Filters))
           /\ FirstMinus(L \o <<s, t>>, c) <=>
                \/ FirstMinus(L, c)
                \/ AllSilent(L, c) /\ (Minus(s, c) \/ (Silent(s, c) /\ Minus(t, c)))
<1> DEFINE m == Len(L)
           u == L \o <<s, t>>
<1>1. m \in Nat
  OBVIOUS
<1>2. DOMAIN L = 1 .. m /\ DOMAIN u = 1 .. m + 2 /\ u \in Seq(Seq(Filters))
  OBVIOUS
<1>3. (\A k \in 1 .. m : u[k] = L[k]) /\ u[m + 1] = s /\ u[m + 2] = t
  OBVIOUS
<1> HIDE DEF m, u
<1>4. 1 .. m + 2 = (1 .. m) \cup {m + 1, m + 2}
  BY <1>1, TwoMore
<1>5. FirstMinus(L, c) => FirstMinus(u, c)
  <2> SUFFICES ASSUME FirstMinus(L, c) PROVE FirstMinus(u, c)
    OBVIOUS
  <2>1. PICK k \in 1 .. m : /\ Minus(L[k], c)
                            /\ \A j \in 1 .. m : j < k => Silent(L[j], c)
    BY <1>2 DEF FirstMinus
  <2>2. \A j \in 1 .. m + 2 : j < k => j \in 1 .. m
    BY <1>1
  <2>3. \A j \in 1 .. m + 2 : j < k => Silent(u[j], c)
    BY <1>3, <2>1, <2>2
  <2>4. k \in 1 .. m + 2 /\ Minus(u[k], c)
    BY <1>3, <1>4, <2>1
  <2> QED
    BY <1>2, <2>3, <2>4 DEF FirstMinus
<1>6. AllSilent(L, c) /\ Minus(s, c) => FirstMinus(u, c)
  <2> SUFFICES ASSUME AllSilent(L, c), Minus(s, c) PROVE FirstMinus(u, c)
    OBVIOUS
  <2>1. \A j \in 1 .. m + 2 : j < m + 1 => j \in 1 .. m
    BY <1>1
  <2>2. \A j \in 1 .. m + 2 : j < m + 1 => Silent(u[j], c)
    BY <1>2, <1>3, <2>1 DEF AllSilent
  <2>3. m + 1 \in 1 .. m + 2 /\ Minus(u[m + 1], c)
    BY <1>3, <1>4
  <2> QED
    BY <1>2, <2>2, <2>3 DEF FirstMinus
<1>7. AllSilent(L, c) /\ Silent(s, c) /\ Minus(t, c) => FirstMinus(u, c)
  <2> SUFFICES ASSUME AllSilent(L, c), Silent(s, c), Minus(t, c) PROVE FirstMinus(u, c)
    OBVIOUS
  <2>1. \A j \in 1 .. m + 2 : j < m + 2 => j \in 1 .. m \/ j = m + 1
    BY <1>1
  <2>2. \A j \in 1 .. m + 2 : j < m + 2 => Silent(u[j], c)
    BY <1>2, <1>3, <2>1 DEF AllSilent
  <2>3. m + 2 \in 1 .. m + 2 /\ Minus(u[m + 2], c)
    BY <1>3, <1>4
  <2> QED
    BY <1>2, <2>2, <2>3 DEF FirstMinus
<1>8. FirstMinus(u, c) =>
         \/ FirstMinus(L, c)
         \/ AllSilent(L, c) /\ (Minus(s, c) \/ (Silent(s, c) /\ Minus(t, c)))
  <2> SUFFICES ASSUME FirstMinus(u, c)
               PROVE  \/ FirstMinus(L, c)
                      \/ AllSilent(L, c) /\ (Minus(s, c) \/ (Silent(s, c) /\ Minus(t, c)))
    OBVIOUS
  <2>1. PICK k \in 1 .. m + 2 : /\ Minus(u[k], c)
                                /\ \A j \in 1 .. m + 2 : j < k => Silent(u[j], c)
    BY <1>2 DEF FirstMinus
  <2>2. CASE k \in 1 .. m
    BY <1>2, <1>3, <1>4, <2>1, <2>2 DEF FirstMinus
  <2>3. CASE k = m + 1
    <3>1. \A j \in 1 .. m : j < k /\ j \in 1 .. m + 2
      BY <1>1, <2>3
    <3> QED
      BY <1>2, <1>3, <2>1, <2>3, <3>1 DEF AllSilent
  <2>4. CASE k = m + 2
    <3>1. (\A j \in 1 .. m : j < k /\ j \in 1 .. m + 2) /\ m + 1 < k /\ m + 1 \in 1 .. m + 2
      BY <1>1, <2>4
    <3>2. AllSilent(L, c)
      BY <1>2, <1>3, <2>1, <3>1 DEF AllSilent
    <3> QED
      BY <1>3, <2>1, <2>4, <3>1, <3>2
  <2> QED
    BY <1>4, <2>2, <2>3, <2>4
<1> QED
  BY <1>2, <1>5, <1>6, <1>7, <1>8 DEF u

LEMMA PredecessorLeads ==
    ASSUME NEW n \in Nat
    PROVE  LeadsTo(1 .. n, [i \in 1 .. n |-> i - 1], 0)
<1> DEFINE p == [i \in 1 .. n |-> i - 1]
<1>1. p \in [1 .. n -> (1 .. n) \cup {0}] /\ 0 \notin 1 .. n
  OBVIOUS
<1>2. ASSUME NEW S \in SUBSET (1 .. n), S # {} PROVE \E d \in S : p[d] \notin S
  <2>1. PICK d \in S : \A k \in S : d <= k
    BY <1>2, LeastNatural
  <2>2. p[d] = d - 1 /\ ~(d <= d - 1)
    OBVIOUS
  <2> QED
    BY <2>1, <2>2
<1> HIDE DEF p
<1> QED
  BY <1>1, <1>2 DEF LeadsTo, p

\* f[i] is the concatenation of the first i lists.
Flattens(f, lists, result) ==
    /\ f[Len(lists)] = result
    /\ \A i \in 1 .. Len(lists) : f[i] = IF i = 1 THEN lists[i] ELSE f[i - 1] \o lists[i]

LEMMA FlattenSeqIs ==
    ASSUME NEW lists \in Seq(Seq(Filters)), Len(lists) # 0
    PROVE  \E f : Flattens(f, lists, FlattenSeq(lists))
<1> DEFINE n == Len(lists)
           T == Seq(Filters)
           base == <<>>
           p == [i \in 1 .. n |-> i - 1]
           op(x, i) == IF i = 1 THEN lists[i] ELSE x \o lists[i]
           h == [q \in (1 .. n) \X T |-> op(q[2], q[1])]
           Fold(g) == g = [i \in 1 .. n |-> op(g[i - 1], i)]
           it == CHOOSE g : Fold(g)
<1>1. n \in Nat /\ n # 0
  OBVIOUS
<1>2. h \in [(1 .. n) \X T -> T] /\ base \in T
  <2>1. ASSUME NEW i \in 1 .. n, NEW x \in T PROVE op(x, i) \in T
    <3>1. lists[i] \in T
      OBVIOUS
    <3> HIDE DEF n
    <3> QED
      BY <3>1, ConcatProperties
  <2> HIDE DEF op, T, n
  <2>2. h \in [(1 .. n) \X T -> T]
    BY <2>1
  <2> QED
    BY <2>2 DEF T
<1>3. FlattenSeq(lists) = it[n]
  BY <1>1 DEF FlattenSeq
<1>4. \A i \in 1 .. n : \A x \in T : h[<<i, x>>] = op(x, i)
  <2> HIDE DEF op, T, n
  <2> QED
    OBVIOUS
<1>5. LeadsTo(1 .. n, p, 0)
  <2> HIDE DEF n
  <2> QED
    BY <1>1, PredecessorLeads
<1>6. \A i \in 1 .. n : p[i] = i - 1
  OBVIOUS
<1> HIDE DEF n, T, base, h, p, it
<1>7. PICK f : Solves(f, 1 .. n, p, 0, T, base, h)
  BY <1>2, <1>5, Recursion
<1>8. Fold([i \in 1 .. n |-> f[i]])
  <2>1. \A i \in 1 .. n : f[i] = op(f[i - 1], i)
    <3> HIDE DEF op
    <3>1. \A i \in 1 .. n : f[i] = h[<<i, f[i - 1]>>]
      BY <1>6, <1>7 DEF Solves
    <3>2. \A i \in 1 .. n : i - 1 \in (1 .. n) \cup {0}
      BY <1>1
    <3>3. \A i \in 1 .. n : f[i - 1] \in T
      BY <1>7, <3>2 DEF Solves
    <3> QED
      BY <1>4, <3>1, <3>3
  <2>2. \A i \in 1 .. n : i # 1 => i - 1 \in 1 .. n
    BY <1>1
  <2> QED
    BY <2>1, <2>2
<1>9. Fold(it)
  <2> HIDE DEF Fold
  <2> QED
    BY <1>8 DEF it
<1>10. \A i \in 1 .. n : it[i] = IF i = 1 THEN lists[i] ELSE it[i - 1] \o lists[i]
  BY <1>9
<1> HIDE DEF Fold
<1> QED
  BY <1>3, <1>10 DEF Flattens, n

\* Lists that are put one after the other from the last to the first, as
\* ProcessConfigOverrides does, decide as the first of them that can.
LEMMA ReversedVerdict ==
    ASSUME NEW c, NEW L \in Seq(Seq(Filters))
    PROVE  LET flat == FlattenSeq(OutermostFirst(L))
           IN  /\ flat \in Seq(Filters)
               /\ Silent(flat, c) <=> AllSilent(L, c)
               /\ Minus(flat, c) <=> FirstMinus(L, c)
<1> DEFINE n == Len(L)
           R == OutermostFirst(L)
<1>1. n \in Nat
  OBVIOUS
<1>2. R \in Seq(Seq(Filters)) /\ Len(R) = n /\ \A i \in 1 .. n : R[i] = L[n - i + 1]
  BY DEF OutermostFirst, Reverse
<1>3. DOMAIN L = 1 .. n /\ \A i \in 1 .. n : R[i] \in Seq(Filters)
  BY <1>2
<1>4. CASE n = 0
  <2>1. L = <<>> /\ FlattenSeq(R) = <<>>
    <3>1. L = <<>>
      BY <1>4
    <3>2. R = <<>>
      BY <1>2, <1>4
    <3> QED
      BY <1>2, <1>4, <3>1, <3>2 DEF FlattenSeq
  <2>2. /\ <<>> \in Seq(Filters) /\ Silent(<<>>, c) /\ AllSilent(<<>>, c)
        /\ ~Minus(<<>>, c) /\ ~FirstMinus(<<>>, c)
    BY DEF Silent, AllSilent, Minus, FirstMinus
  <2> QED
    BY <2>1, <2>2
<1>5. CASE n # 0
  <2>1. PICK f : Flattens(f, R, FlattenSeq(R))
    BY <1>2, <1>5, FlattenSeqIs
  <2>2. /\ f[n] = FlattenSeq(R)
        /\ \A i \in 1 .. n : f[i] = IF i = 1 THEN R[i] ELSE f[i - 1] \o R[i]
    BY <1>2, <2>1 DEF Flattens
  <2> HIDE DEF n, R
  <2> DEFINE Quiet(i) == \A j \in 1 .. i : Silent(R[j], c)
             Takes(i) == \E k \in 1 .. i :
                            /\ Minus(R[k], c)
                            /\ \A j \in 1 .. i : j > k => Silent(R[j], c)
             Good(i) == /\ f[i] \in Seq(Filters)
                        /\ Silent(f[i], c) <=> Quiet(i)
                        /\ Minus(f[i], c) <=> Takes(i)
             B == {i \in 0 .. n : i # 0 => Good(i)}
  <2>3. 0 \in B
    BY <1>1
  <2>4. \A i \in 0 .. n - 1 : i \in B => i + 1 \in B
    <3> SUFFICES ASSUME NEW i \in 0 .. n - 1, i # 0 => Good(i) PROVE Good(i + 1)
      <4> HIDE DEF Good
      <4>1. \A i \in 0 .. n - 1 : i + 1 \in 0 .. n /\ i \in 0 .. n
        BY <1>1
      <4> QED
        BY <4>1
    <3>1. /\ i + 1 \in 1 .. n /\ (i + 1) - 1 = i
          /\ 1 .. i + 1 = (1 .. i) \cup {i + 1}
          /\ ~(i + 1 > i + 1)
          /\ \A j \in 1 .. i : i + 1 > j /\ ~(j > i + 1)
      BY <1>1
    <3>2. Quiet(i + 1) <=> Quiet(i) /\ Silent(R[i + 1], c)
      BY <3>1
    <3>3. Takes(i + 1) <=> Minus(R[i + 1], c) \/ (Silent(R[i + 1], c) /\ Takes(i))
      <4>1. Minus(R[i + 1], c) => Takes(i + 1)
        BY <3>1
      <4>2. Silent(R[i + 1], c) /\ Takes(i) => Takes(i + 1)
        BY <3>1
      <4>3. Takes(i + 1) => Minus(R[i + 1], c) \/ (Silent(R[i + 1], c) /\ Takes(i))
        BY <3>1
      <4> HIDE DEF Takes
      <4> QED
        BY <4>1, <4>2, <4>3
    <3>4. R[i + 1] \in Seq(Filters)
      BY <1>3, <3>1
    <3>5. CASE i = 0
      <4>1. f[i + 1] = R[i + 1]
        BY <2>2, <3>1, <3>5
      <4>2. Quiet(i) /\ ~Takes(i)
        BY <3>5
      <4> HIDE DEF Quiet, Takes
      <4> QED
        BY <3>2, <3>3, <3>4, <4>1, <4>2
    <3>6. CASE i # 0
      <4>1. f[i + 1] = f[i] \o R[i + 1]
        <5>1. i + 1 # 1
          BY <3>6
        <5> HIDE DEF Good
        <5> QED
          BY <2>2, <3>1, <5>1
      <4>2. f[i] \in Seq(Filters)
        BY <3>6
      <4> HIDE DEF Quiet, Takes
      <4>3. /\ f[i] \o R[i + 1] \in Seq(Filters)
            /\ Silent(f[i] \o R[i + 1], c) <=> Silent(f[i], c) /\ Silent(R[i + 1], c)
            /\ Minus(f[i] \o R[i + 1], c) <=>
                 Minus(R[i + 1], c) \/ (Silent(R[i + 1], c) /\ Minus(f[i], c))
        BY <3>4, <4>2, ConcatVerdict
      <4> QED
        BY <3>2, <3>3, <3>6, <4>1, <4>3
    <3> HIDE DEF Good
    <3> QED
      BY <3>5, <3>6
  <2>5. \A i \in 0 .. n : i \in B
    <3> HIDE DEF B
    <3> QED
      BY <1>1, <2>3, <2>4, UpTo
  <2>6. Good(n)
    <3> HIDE DEF Good
    <3> QED
      BY <1>1, <1>5, <2>5
  <2>7. \A i \in 1 .. n : n - i + 1 \in 1 .. n /\ n - (n - i + 1) + 1 = i
    BY <1>1
  <2>8. Quiet(n) <=> AllSilent(L, c)
    <3>1. DOMAIN L = 1 .. n
      BY <1>3
    <3>2. ASSUME Quiet(n), NEW i \in 1 .. n PROVE Silent(L[i], c)
      <4>1. n - i + 1 \in 1 .. n /\ R[n - i + 1] = L[i]
        BY <1>2, <2>7
      <4>2. \A j \in 1 .. n : Silent(R[j], c)
        BY <3>2
      <4> QED
        BY <4>1, <4>2, Zenon
    <3>3. ASSUME AllSilent(L, c), NEW j \in 1 .. n PROVE Silent(R[j], c)
      <4>1. n - j + 1 \in 1 .. n /\ R[j] = L[n - j + 1]
        BY <1>2, <2>7
      <4>2. \A i \in 1 .. n : Silent(L[i], c)
        BY <3>1, <3>3, Zenon DEF AllSilent
      <4> QED
        BY <4>1, <4>2, Zenon
    <3>4. Quiet(n) <=> \A j \in 1 .. n : Silent(R[j], c)
      OBVIOUS
    <3> HIDE DEF Quiet
    <3> QED
      BY <3>1, <3>2, <3>3, <3>4, Zenon DEF AllSilent
  <2>9. Takes(n) => FirstMinus(L, c)
    <3> SUFFICES ASSUME Takes(n) PROVE FirstMinus(L, c)
      OBVIOUS
    <3>1. PICK k \in 1 .. n : /\ Minus(R[k], c)
                              /\ \A j \in 1 .. n : j > k => Silent(R[j], c)
      OBVIOUS
    <3>2. \A j \in 1 .. n : j < n - k + 1 => n - j + 1 > k
      BY <1>1
    <3>3. ASSUME NEW j \in 1 .. n, j < n - k + 1 PROVE Silent(L[j], c)
      <4>1. n - j + 1 \in 1 .. n /\ n - (n - j + 1) + 1 = j /\ n - j + 1 > k
        BY <2>7, <3>2, <3>3
      <4>2. Silent(R[n - j + 1], c)
        BY <3>1, <4>1
      <4>3. R[n - j + 1] = L[n - (n - j + 1) + 1]
        BY <1>2, <4>1
      <4> QED
        BY <4>1, <4>2, <4>3
    <3>4. n - k + 1 \in 1 .. n /\ Minus(L[n - k + 1], c)
      BY <1>2, <2>7, <3>1
    <3> QED
      BY <1>3, <3>3, <3>4 DEF FirstMinus
  <2>10. FirstMinus(L, c) => Takes(n)
    <3> SUFFICES ASSUME FirstMinus(L, c) PROVE Takes(n)
      OBVIOUS
    <3>1. PICK k \in 1 .. n : /\ Minus(L[k], c)
                              /\ \A j \in 1 .. n : j < k => Silent(L[j], c)
      BY <1>3 DEF FirstMinus
    <3>2. \A j \in 1 .. n : j > n - k + 1 => n - j + 1 < k
      BY <1>1
    <3>3. \A j \in 1 .. n : j > n - k + 1 => Silent(R[j], c)
      BY <1>2, <2>7, <3>1, <3>2
    <3>4. n - k + 1 \in 1 .. n /\ Minus(R[n - k + 1], c)
      BY <1>2, <2>7, <3>1
    <3> QED
      BY <3>3, <3>4
  <2> HIDE DEF Quiet, Takes
  <2> QED
    BY <2>2, <2>6, <2>8, <2>9, <2>10 DEF R
<1> HIDE DEF n, R
<1> QED
  BY <1>4, <1>5 DEF R

\* The filters _AddFilters leaves decide as the places they come from.
LEMMA FiltersDecide ==
    ASSUME NEW c, NEW L \in Seq(Seq(Filters)), NEW s \in Seq(Filters), NEW t \in Seq(Filters)
    PROVE  /\ (t \o s) \o FlattenSeq(OutermostFirst(L)) \in Seq(Filters)
           /\ Minus((t \o s) \o FlattenSeq(OutermostFirst(L)), c)
                <=> FirstMinus(L \o <<s, t>>, c)
<1> DEFINE flat == FlattenSeq(OutermostFirst(L))
<1>1. /\ flat \in Seq(Filters)
      /\ Silent(flat, c) <=> AllSilent(L, c)
      /\ Minus(flat, c) <=> FirstMinus(L, c)
  BY ReversedVerdict
<1>2. /\ t \o s \in Seq(Filters)
      /\ Minus(t \o s, c) <=> Minus(s, c) \/ (Silent(s, c) /\ Minus(t, c))
  BY ConcatVerdict
<1> HIDE DEF flat
<1>3. /\ (t \o s) \o flat \in Seq(Filters)
      /\ Minus((t \o s) \o flat, c) <=> Minus(flat, c) \/ (Silent(flat, c) /\ Minus(t \o s, c))
  <2> DEFINE u == t \o s
  <2>1. u \in Seq(Filters)
    BY <1>2
  <2> HIDE DEF u
  <2>2. /\ u \o flat \in Seq(Filters)
        /\ Minus(u \o flat, c) <=> Minus(flat, c) \/ (Silent(flat, c) /\ Minus(u, c))
    BY <1>1, <2>1, ConcatVerdict
  <2> QED
    BY <2>2 DEF u
<1>4. FirstMinus(L \o <<s, t>>, c) <=>
         \/ FirstMinus(L, c)
         \/ AllSilent(L, c) /\ (Minus(s, c) \/ (Silent(s, c) /\ Minus(t, c)))
  BY SourcesVerdict
<1> QED
  BY <1>1, <1>2, <1>3, <1>4 DEF flat

-----------------------------------------------------------------------------
(***************************************************************************)
(* The configuration files above a directory.                              *)
(***************************************************************************)
ConfigOK == config \in [Dirs -> Configs]

LEMMA ConfigsAreLines ==
    ASSUME ConfigOK, NEW d \in Dirs, config[d] \notin {NoConfig, Unreadable}
    PROVE  AreLines(config[d])
BY LintAssumption DEF ConfigOK, AreLines

\* What the search for configuration files above each directory finds.
StopsAt(lines) ==
    \/ lines = Unreadable
    \/ /\ lines # NoConfig
       /\ \E k \in DOMAIN lines : lines[k].name = "set noparent"

GathersAll(here, above, configs) ==
    /\ \A d \in Dirs :
          IF configs[d] \in {NoConfig, Unreadable} THEN here[d] = <<>>
          ELSE \E f : Gathers(f, configs[d], here[d])
    /\ above = [d \in Dirs \cup {Root} |-> above[d]]
    /\ above[Root] = <<>>
    /\ \A d \in Dirs :
          above[d] = here[d] \o (IF StopsAt(configs[d]) THEN <<>> ELSE above[Above[d]])

LEMMA DirsLead == LeadsTo(Dirs, [d \in Dirs |-> Above[d]], Root)
<1> DEFINE p == [d \in Dirs |-> Above[d]]
<1>1. p \in [Dirs -> Dirs \cup {Root}] /\ Root \notin Dirs
  BY LintAssumption
<1>2. ASSUME NEW S \in SUBSET Dirs, S # {} PROVE \E d \in S : p[d] \notin S
  BY <1>2, LintAssumption
<1> HIDE DEF p
<1> QED
  BY <1>1, <1>2 DEF LeadsTo, p

LEMMA ListsTyped ==
    ASSUME ConfigOK, NEW d \in Dirs
    PROVE  Lists(d) \in Seq(Seq(Filters))
<1>1. CASE config[d] \in {NoConfig, Unreadable}
  <2>1. Lists(d) = <<>>
    BY <1>1, Zenon DEF Lists
  <2> QED
    BY <2>1
<1>2. CASE config[d] \notin {NoConfig, Unreadable}
  <2>1. AreLines(config[d])
    BY <1>2, ConfigsAreLines
  <2>2. PICK f : Gathers(f, config[d], Lists(d))
    BY <1>2, <2>1, ListsIs
  <2>3. Len(config[d]) \in Nat
    BY <2>1 DEF AreLines
  <2> QED
    BY <2>2, <2>3 DEF Gathers
<1> QED
  BY <1>1, <1>2

LEMMA ListsAboveIs ==
    ConfigOK => /\ ListsAbove \in [Dirs \cup {Root} -> Seq(Seq(Filters))]
                /\ ListsAbove[Root] = <<>>
                /\ \A d \in Dirs :
                      ListsAbove[d] = Lists(d) \o (IF Stops(d) THEN <<>> ELSE ListsAbove[Above[d]])
<1> SUFFICES ASSUME ConfigOK
             PROVE  /\ ListsAbove \in [Dirs \cup {Root} -> Seq(Seq(Filters))]
                    /\ ListsAbove[Root] = <<>>
                    /\ \A d \in Dirs :
                          ListsAbove[d] = Lists(d) \o (IF Stops(d) THEN <<>>
                                                       ELSE ListsAbove[Above[d]])
  OBVIOUS
<1> DEFINE T == Seq(Seq(Filters))
           base == <<>>
           p == [d \in Dirs |-> Above[d]]
           op(x, d) == Lists(d) \o (IF Stops(d) THEN <<>> ELSE x)
           h == [q \in Dirs \X T |-> op(q[2], q[1])]
           Fold(g) == g = [d \in Dirs \cup {Root} |-> IF d = Root THEN <<>>
                                                      ELSE op(g[Above[d]], d)]
<1>1. h \in [Dirs \X T -> T] /\ base \in T
  <2>1. ASSUME NEW d \in Dirs, NEW x \in T PROVE op(x, d) \in T
    <3>1. Lists(d) \in T /\ (IF Stops(d) THEN <<>> ELSE x) \in T
      BY ListsTyped
    <3> QED
      BY <3>1, ConcatProperties
  <2> HIDE DEF op, T
  <2>2. h \in [Dirs \X T -> T]
    BY <2>1
  <2> QED
    BY <2>2 DEF T
<1>2. \A d \in Dirs : \A x \in T : h[<<d, x>>] = op(x, d)
  <2> HIDE DEF op, T
  <2> QED
    OBVIOUS
<1>3. LeadsTo(Dirs, p, Root)
  BY DirsLead
<1>4. \A d \in Dirs : p[d] = Above[d] /\ Above[d] \in Dirs \cup {Root} /\ d # Root
  BY LintAssumption
<1> HIDE DEF T, base, h, p, op
<1>5. PICK f : Solves(f, Dirs, p, Root, T, base, h)
  BY <1>1, <1>3, Recursion
<1>6. ASSUME NEW g, Solves(g, Dirs, p, Root, T, base, h)
      PROVE  Fold(g)
  <2>1. g \in [Dirs \cup {Root} -> T] /\ g[Root] = <<>>
    BY <1>6 DEF Solves, base
  <2>2. \A d \in Dirs : g[d] = op(g[Above[d]], d)
    BY <1>2, <1>4, <1>6, <2>1 DEF Solves
  <2>3. g = [d \in Dirs \cup {Root} |-> g[d]]
    BY <2>1
  <2> QED
    BY <1>4, <2>1, <2>2, <2>3
<1>7. Fold(ListsAbove)
  <2>1. Fold(f)
    BY <1>5, <1>6
  <2>2. ListsAbove = CHOOSE g : Fold(g)
    BY DEF ListsAbove, op
  <2>3. Fold(CHOOSE g : Fold(g))
    <3> HIDE DEF Fold
    <3> QED
      BY <2>1
  <2> HIDE DEF Fold
  <2> QED
    BY <2>2, <2>3
<1>8. ListsAbove[Root] = <<>> /\ \A d \in Dirs : ListsAbove[d] = op(ListsAbove[Above[d]], d)
  BY <1>4, <1>7
<1>9. \A d \in Dirs \cup {Root} : ListsAbove[d] \in T
  <2> DEFINE S == {d \in Dirs : ListsAbove[d] \notin T}
  <2>1. ListsAbove[Root] \in T
    BY <1>1, <1>8 DEF base
  <2>2. S = {}
    <3> SUFFICES ASSUME S # {} PROVE FALSE
      OBVIOUS
    <3>1. PICK d \in S : p[d] \notin S
      <4> HIDE DEF Fold
      <4> QED
        BY <1>3 DEF LeadsTo
    <3>2. ListsAbove[Above[d]] \in T
      <4> HIDE DEF Fold
      <4> QED
        BY <1>4, <2>1, <3>1
    <3>3. op(ListsAbove[Above[d]], d) \in T
      <4>1. h[<<d, ListsAbove[Above[d]]>>] \in T
        BY <1>1, <3>2
      <4> QED
        BY <1>2, <3>2, <4>1
    <3> HIDE DEF Fold
    <3> QED
      BY <1>8, <3>3
  <2> QED
    BY <2>1, <2>2
<1>10. ListsAbove = [d \in Dirs \cup {Root} |-> ListsAbove[d]]
  BY <1>7
<1>11. ListsAbove \in [Dirs \cup {Root} -> T]
  <2> HIDE DEF Fold
  <2> QED
    BY <1>9, <1>10
<1> HIDE DEF Fold
<1> QED
  BY <1>8, <1>11 DEF op, T

LEMMA GathersAllHere ==
    ConfigOK => GathersAll([d \in Dirs |-> Lists(d)], ListsAbove, config)
<1> SUFFICES ASSUME ConfigOK
             PROVE  GathersAll([d \in Dirs |-> Lists(d)], ListsAbove, config)
  OBVIOUS
<1> DEFINE here == [d \in Dirs |-> Lists(d)]
<1>1. \A d \in Dirs : here[d] = Lists(d)
  OBVIOUS
<1>2. /\ ListsAbove \in [Dirs \cup {Root} -> Seq(Seq(Filters))]
      /\ ListsAbove[Root] = <<>>
      /\ \A d \in Dirs :
            ListsAbove[d] = Lists(d) \o (IF Stops(d) THEN <<>> ELSE ListsAbove[Above[d]])
  BY ListsAboveIs
<1> HIDE DEF here
<1>3. ASSUME NEW d \in Dirs
      PROVE  IF config[d] \in {NoConfig, Unreadable} THEN here[d] = <<>>
             ELSE \E f : Gathers(f, config[d], here[d])
  <2>1. CASE config[d] \in {NoConfig, Unreadable}
    <3>1. Lists(d) = <<>>
      BY <2>1, Zenon DEF Lists
    <3> QED
      BY <1>1, <2>1, <3>1
  <2>2. CASE config[d] \notin {NoConfig, Unreadable}
    <3>1. AreLines(config[d])
      BY <2>2, ConfigsAreLines
    <3>2. \E f : Gathers(f, config[d], Lists(d))
      BY <2>2, <3>1, ListsIs
    <3> QED
      BY <1>1, <2>2, <3>2
  <2> QED
    BY <2>1, <2>2
<1>4. ASSUME NEW d \in Dirs
      PROVE  ListsAbove[d] = here[d] \o (IF StopsAt(config[d]) THEN <<>> ELSE ListsAbove[Above[d]])
  <2>1. Stops(d) <=> StopsAt(config[d])
    BY DEF Stops, StopsAt
  <2>2. ListsAbove[d] = Lists(d) \o (IF Stops(d) THEN <<>> ELSE ListsAbove[Above[d]])
    BY <1>2
  <2> QED
    BY <1>1, <2>1, <2>2, Zenon
<1>5. ListsAbove = [d \in Dirs \cup {Root} |-> ListsAbove[d]]
  BY <1>2
<1>6. GathersAll(here, ListsAbove, config)
  BY <1>2, <1>3, <1>4, <1>5, Zenon DEF GathersAll
<1> QED
  BY <1>6 DEF here

LEMMA GathersUnique ==
    ASSUME NEW lines, Len(lines) \in Nat,
           NEW f, NEW a, Gathers(f, lines, a), NEW g, NEW b, Gathers(g, lines, b)
    PROVE  a = b
<1> DEFINE n == Len(lines)
           B == {i \in 0 .. n : f[i] = g[i]}
<1>1. n \in Nat
  OBVIOUS
<1>2. f[0] = g[0] /\ f[n] = a /\ g[n] = b
  BY DEF Gathers
<1>3. \A i \in 1 .. n : f[i - 1] = g[i - 1] => f[i] = g[i]
  BY DEF Gathers
<1> HIDE DEF n
<1>4. 0 \in B
  BY <1>1, <1>2
<1>5. \A i \in 0 .. n - 1 : i \in B => i + 1 \in B
  <2>1. \A i \in 0 .. n - 1 : i + 1 \in 1 .. n /\ (i + 1) - 1 = i /\ i + 1 \in 0 .. n
    BY <1>1
  <2> QED
    BY <1>3, <2>1
<1>6. \A i \in 0 .. n : i \in B
  <2> HIDE DEF B
  <2> QED
    BY <1>1, <1>4, <1>5, UpTo
<1> QED
  BY <1>1, <1>2, <1>6

LEMMA GathersAllUnique ==
    ASSUME NEW configs \in [Dirs -> Configs],
           NEW here1, NEW above1, GathersAll(here1, above1, configs),
           NEW here2, NEW above2, GathersAll(here2, above2, configs)
    PROVE  above1 = above2
<1>1. ASSUME NEW d \in Dirs PROVE here1[d] = here2[d]
  <2>1. CASE configs[d] \in {NoConfig, Unreadable}
    BY <2>1, Zenon DEF GathersAll
  <2>2. CASE configs[d] \notin {NoConfig, Unreadable}
    <3>1. Len(configs[d]) \in Nat
      BY <2>2, LintAssumption
    <3>2. PICK f : Gathers(f, configs[d], here1[d])
      BY <2>2, Zenon DEF GathersAll
    <3>3. PICK g : Gathers(g, configs[d], here2[d])
      BY <2>2, Zenon DEF GathersAll
    <3> QED
      BY <3>1, <3>2, <3>3, GathersUnique
  <2> QED
    BY <2>1, <2>2
<1> DEFINE S == {d \in Dirs : above1[d] # above2[d]}
<1>2. S = {}
  <2> SUFFICES ASSUME S # {} PROVE FALSE
    OBVIOUS
  <2>1. PICK d \in S : Above[d] \notin S
    BY LintAssumption
  <2>2. d \in Dirs /\ Above[d] \in Dirs \cup {Root}
    BY LintAssumption
  <2>3. above1[Above[d]] = above2[Above[d]]
    BY <2>1, <2>2 DEF GathersAll
  <2>4. /\ above1[d] = here1[d] \o (IF StopsAt(configs[d]) THEN <<>> ELSE above1[Above[d]])
        /\ above2[d] = here2[d] \o (IF StopsAt(configs[d]) THEN <<>> ELSE above2[Above[d]])
    BY <2>2, Zenon DEF GathersAll
  <2>5. above1[d] = above2[d]
    BY <1>1, <2>2, <2>3, <2>4, Zenon
  <2> QED
    BY <2>1, <2>5
<1>3. \A d \in Dirs \cup {Root} : above1[d] = above2[d]
  BY <1>2 DEF GathersAll
<1>4. /\ above1 = [d \in Dirs \cup {Root} |-> above1[d]]
      /\ above2 = [d \in Dirs \cup {Root} |-> above2[d]]
  BY DEF GathersAll
<1> QED
  BY <1>3, <1>4

LEMMA GathersAllNext ==
    (ConfigOK => GathersAll([d \in Dirs |-> Lists(d)], ListsAbove, config))'
<1>1. ConfigOK => GathersAll([d \in Dirs |-> Lists(d)], ListsAbove, config)
  BY GathersAllHere
<1> QED
  BY <1>1, PTL

\* What the configuration files say stays as long as they do.
LEMMA ListsAboveStays ==
    ASSUME ConfigOK, ConfigOK', config' = config
    PROVE  ListsAbove' = ListsAbove
<1>1. ConfigOK => GathersAll([d \in Dirs |-> Lists(d)], ListsAbove, config)
  BY GathersAllHere
<1>2. (ConfigOK => GathersAll([d \in Dirs |-> Lists(d)], ListsAbove, config))'
  BY GathersAllNext
<1>3. GathersAll([d \in Dirs |-> Lists(d)], ListsAbove, config)
  BY <1>1
<1>4. GathersAll([d \in Dirs |-> Lists(d)]', ListsAbove', config)
  BY <1>2
<1>5. config \in [Dirs -> Configs]
  BY DEF ConfigOK
<1> QED
  BY <1>3, <1>4, <1>5, GathersAllUnique

-----------------------------------------------------------------------------
(***************************************************************************)
(* The inductive invariant.                                                *)
(***************************************************************************)
InputOK ==
    /\ flags \in Flags
    /\ config \in [Dirs -> Configs]
    /\ text \in [Files -> Texts]

TypeInv ==
    /\ phase \in {"start", "file", "config", "open", "lint", "exited"}
    /\ batch \in Seq(Files) /\ file \in Files
    /\ dir \in Dirs \cup {Root}
    /\ cfg_filters \in Seq(Seq(Filters))
    /\ error_count \in Nat
    /\ exit_code \in 0 .. 1

\* What the filters are between two files.
Base == DefaultFilters \o flags.filters

\* What they are while file is linted.
Lists4File == ListsAbove[Above[file]]

\* What filters is made of: between files of Base, which is kept in filters_backup, and
\* for a file of what the search for configuration files found, dir being what is left.
FilterInv ==
    /\ phase = "start" => filters = DefaultFilters
    /\ phase \in {"file", "config", "open", "lint"} => AllSigned(Base)
    /\ phase \in {"file", "config"} => filters = Base
    /\ phase \in {"config", "open", "lint"} => filters_backup = Base
    /\ phase = "config" => Lists4File = cfg_filters \o ListsAbove[dir]
    /\ phase \in {"open", "lint"} =>
          filters = Base \o FlattenSeq(OutermostFirst(Lists4File)) /\ AllSigned(filters)

\* The suppressions are those of the comments that were parsed in the file, among them
\* those of the lines up to at, and of no other file.
SuppressionInv ==
    phase = "lint" =>
       /\ at \in 0 .. Len(text[file].lines)
       /\ parsed \subseteq 1 .. Len(text[file].lines)
       /\ 1 .. at \subseteq parsed
       /\ suppressions = FreshSuppressions \cup SuppressedBy(text[file], parsed)

ResultInv ==
    /\ \A r \in reported : r.file \in Files /\ r.parsed \subseteq 1 .. Len(text[r.file].lines)
    /\ printed \subseteq reported
    /\ error_count > 0 <=> printed # {}
    /\ VerdictsAreLocal
    /\ ExitCodeTells

LintInv == InputOK /\ TypeInv /\ FilterInv /\ SuppressionInv /\ ResultInv

-----------------------------------------------------------------------------
(***************************************************************************)
(* What the invariant says of the operators.                               *)
(***************************************************************************)
LEMMA InputTyped ==
    ASSUME InputOK
    PROVE  /\ flags.filters \in Seq(Filters) /\ flags.names \in Seq(Files)
           /\ DefaultFilters \in Seq(Filters) /\ Base \in Seq(Filters)
           /\ \A f \in Files : Len(text[f].lines) \in Nat
           /\ \A f \in Files : /\ ListsAbove[Above[f]] \in Seq(Seq(Filters))
                               /\ Sources(f) \in Seq(Seq(Filters))
<1>1. flags.filters \in Seq(Filters) /\ flags.names \in Seq(Files)
  BY LintAssumption DEF InputOK
<1>2. DefaultFilters \in Seq(Filters)
  BY LintAssumption
<1>3. Base \in Seq(Filters)
  BY <1>1, <1>2, ConcatProperties DEF Base
<1>4. ASSUME NEW f \in Files PROVE Len(text[f].lines) \in Nat
  <2>1. text[f].lines \in Seq(ToSet(text[f].lines))
    BY LintAssumption DEF InputOK
  <2> QED
    BY <2>1
<1>5. ASSUME NEW f \in Files
      PROVE  ListsAbove[Above[f]] \in Seq(Seq(Filters)) /\ Sources(f) \in Seq(Seq(Filters))
  <2>1. ListsAbove \in [Dirs \cup {Root} -> Seq(Seq(Filters))]
    BY ListsAboveIs DEF InputOK, ConfigOK
  <2>2. Above[f] \in Dirs \cup {Root}
    BY LintAssumption
  <2>3. ListsAbove[Above[f]] \in Seq(Seq(Filters))
    BY <2>1, <2>2
  <2>4. <<flags.filters, DefaultFilters>> \in Seq(Seq(Filters))
    BY <1>1, <1>2
  <2>5. Sources(f) \in Seq(Seq(Filters))
    BY <2>3, <2>4, ConcatProperties DEF Sources
  <2> QED
    BY <2>3, <2>5
<1> QED
  BY <1>1, <1>2, <1>3, <1>4, <1>5

\* The filters in force decide as the reference does.
LEMMA FiltersAreThose ==
    ASSUME InputOK, TypeInv, FilterInv, phase = "lint", NEW c
    PROVE  IsFiltered(c) <=> FilteredFor(file, c)
<1> DEFINE L == ListsAbove[Above[file]]
           s == flags.filters
           t == DefaultFilters
<1>1. file \in Files /\ filters = (t \o s) \o FlattenSeq(OutermostFirst(L))
  BY DEF TypeInv, FilterInv, Base, Lists4File
<1>2. L \in Seq(Seq(Filters)) /\ s \in Seq(Filters) /\ t \in Seq(Filters)
  BY <1>1, InputTyped
<1>3. Sources(file) = L \o <<s, t>> /\ Sources(file) \in Seq(Seq(Filters))
  BY <1>1, InputTyped DEF Sources
<1> HIDE DEF L, s, t
<1>4. /\ filters \in Seq(Filters)
      /\ Minus(filters, c) <=> FirstMinus(Sources(file), c)
  BY <1>1, <1>2, <1>3, FiltersDecide
<1>5. IsFiltered(c) <=> Minus(filters, c)
  BY <1>4, IsFilteredByLast
<1>6. FilteredFor(file, c) <=> FirstMinus(Sources(file), c)
  BY <1>3, FilteredForByFirst
<1> QED
  BY <1>4, <1>5, <1>6

\* What is reported of an error once the comments on the lines n were parsed.
Record(e, n) == [file |-> file, error |-> e, at |-> at, parsed |-> n]

\* An error is suppressed by the comments of the file that were parsed before it.
LEMMA SuppressedByNolint ==
    ASSUME InputOK, TypeInv, NEW n, n \subseteq 1 .. Len(text[file].lines),
           NEW active, active = FreshSuppressions \cup SuppressedBy(text[file], n),
           NEW e, e.category \notin {<<"none">>, <<"unknown">>}
    PROVE  IsSuppressed(e, active) <=> NolintFor(Record(e, n))
<1> DEFINE t == text[file]
           G == Globally(t)
           all == <<"*">>
           Line(k) == IF t.lines[k].next THEN k + 1 ELSE k
<1>1. all \notin G /\ all \notin {<<"none">>, <<"unknown">>}
  <2>1. t.marks \subseteq {"c", "kernel"}
    BY LintAssumption DEF InputOK, TypeInv
  <2> QED
    BY <2>1 DEF Globally, Marks
<1>2. \A k \in n : Line(k) # 0
  <2>1. Len(text[file].lines) \in Nat
    BY InputTyped DEF TypeInv
  <2> QED
    BY <2>1
<1>3. NolintFor(Record(e, n)) <=>
         \/ e.category \in G
         \/ \E k \in n : t.lines[k].category \in {all, e.category} /\ e.line = Line(k)
  BY DEF NolintFor, Record
<1>4. \A c, l : <<c, l>> \in FreshSuppressions <=> c \in G /\ l = 0
  BY DEF FreshSuppressions
<1>5. \A c, l : <<c, l>> \in SuppressedBy(t, n) <=>
         \E k \in n : /\ t.lines[k].category \notin {<<"none">>, <<"unknown">>}
                      /\ c = t.lines[k].category /\ l = Line(k)
  BY DEF SuppressedBy
<1>6. IsSuppressed(e, active) <=> \/ <<e.category, 0>> \in active
                                  \/ <<e.category, e.line>> \in active
                                  \/ <<all, e.line>> \in active
  BY DEF IsSuppressed
<1>7. active = FreshSuppressions \cup SuppressedBy(t, n)
  OBVIOUS
<1> HIDE DEF t, G, all, Line
<1>8. <<e.category, 0>> \in active <=> e.category \in G
  BY <1>2, <1>4, <1>5, <1>7
<1>9. <<e.category, e.line>> \in active <=>
         \/ e.category \in G /\ e.line = 0
         \/ \E k \in n : t.lines[k].category = e.category /\ e.line = Line(k)
  BY <1>4, <1>5, <1>7
<1>10. <<all, e.line>> \in active <=>
          \E k \in n : t.lines[k].category = all /\ e.line = Line(k)
  BY <1>1, <1>4, <1>5, <1>7
<1> QED
  BY <1>3, <1>6, <1>8, <1>9, <1>10

Verdict(r) ==
    /\ r.error.confidence >= flags.verbose
    /\ ~FilteredFor(r.file, r.error.category)
    /\ ~NolintFor(r)

LEMMA ShouldPrintIsVerdict ==
    ASSUME InputOK, TypeInv, FilterInv, phase = "lint",
           NEW n, n \subseteq 1 .. Len(text[file].lines),
           NEW active, active = FreshSuppressions \cup SuppressedBy(text[file], n),
           NEW e, e.category \notin {<<"none">>, <<"unknown">>}
    PROVE  ShouldPrintError(e, active) <=> Verdict(Record(e, n))
<1> DEFINE r == Record(e, n)
<1>1. IsSuppressed(e, active) <=> NolintFor(r)
  BY SuppressedByNolint
<1>2. IsFiltered(e.category) <=> FilteredFor(file, e.category)
  BY FiltersAreThose
<1>3. r.file = file /\ r.error = e
  BY DEF Record
<1> HIDE DEF r
<1>4. ShouldPrintError(e, active) <=> Verdict(r)
  BY <1>1, <1>2, <1>3, Zenon DEF ShouldPrintError, Verdict
<1> QED
  BY <1>4 DEF r

-----------------------------------------------------------------------------
(***************************************************************************)
(* The verdict of an error does not change while the process runs: it is   *)
(* about flags and files only.                                             *)
(***************************************************************************)
LEMMA FilteredForNext ==
    (\A f : \A c : Sources(f) \in Seq(Seq(Filters)) =>
                      (FilteredFor(f, c) <=> FirstMinus(Sources(f), c)))'
<1>1. \A f : \A c : Sources(f) \in Seq(Seq(Filters)) =>
                      (FilteredFor(f, c) <=> FirstMinus(Sources(f), c))
  BY FilteredForByFirst
<1> QED
  BY <1>1, PTL

LEMMA VerdictStays ==
    ASSUME InputOK, InputOK', UNCHANGED input, NEW r, r.file \in Files
    PROVE  Verdict(r)' <=> Verdict(r)
<1>1. flags' = flags /\ config' = config /\ text' = text
  BY DEF input
<1>2. ListsAbove' = ListsAbove
  BY <1>1, ListsAboveStays DEF InputOK, ConfigOK
<1>3. Sources(r.file)' = Sources(r.file)
  BY <1>1, <1>2 DEF Sources
<1>4. Sources(r.file) \in Seq(Seq(Filters))
  BY InputTyped
<1>5. FilteredFor(r.file, r.error.category)' <=> FilteredFor(r.file, r.error.category)
  <2> DEFINE c == r.error.category
             f == r.file
  <2>1. FilteredFor(f, c) <=> FirstMinus(Sources(f), c)
    BY <1>4, FilteredForByFirst
  <2>2. (FilteredFor(f, c))' <=> FirstMinus(Sources(f), c)'
    BY <1>3, <1>4, FilteredForNext
  <2>3. FirstMinus(Sources(f), c)' <=> FirstMinus(Sources(f), c)
    BY <1>3 DEF FirstMinus, Minus, Silent
  <2> QED
    BY <2>1, <2>2, <2>3
<1>6. NolintFor(r)' <=> NolintFor(r)
  BY <1>1 DEF NolintFor, Globally
<1> QED
  BY <1>1, <1>5, <1>6 DEF Verdict

\* What Error does for some errors, once the comments that matter for them were parsed.
LEMMA ReportKeeps ==
    ASSUME LintInv, InputOK', UNCHANGED <<input, file>>, phase = "lint",
           parsed' \subseteq 1 .. Len(text[file].lines),
           suppressions' = FreshSuppressions \cup SuppressedBy(text[file], parsed'),
           NEW errors, IsFiniteSet(errors), Report(errors),
           \A e \in errors : /\ e.category \notin {<<"none">>, <<"unknown">>}
                             /\ Counting(Record(e, parsed')) \subseteq parsed'
    PROVE  /\ \A r \in reported' : r.file \in Files /\ r.parsed \subseteq 1 .. Len(text'[r.file].lines)
           /\ printed' \subseteq reported'
           /\ error_count' \in Nat /\ (error_count' > 0 <=> printed' # {})
           /\ VerdictsAreLocal'
<1> DEFINE records == {Record(e, parsed') : e \in errors}
           shown == {r \in records : ShouldPrintError(r.error, suppressions')}
<1>1. /\ reported' = reported \cup records
      /\ printed' = printed \cup shown
      /\ error_count' = error_count + Cardinality(shown)
  BY DEF Report, Record
<1>2. /\ InputOK /\ TypeInv /\ FilterInv /\ ResultInv
      /\ text' = text /\ file \in Files
  BY DEF LintInv, input, TypeInv
<1>3. ASSUME NEW r \in records
      PROVE  /\ r.file = file /\ r.parsed = parsed'
             /\ Counting(r) \subseteq r.parsed
             /\ r \in shown <=> Verdict(r)
  <2>1. PICK e \in errors : r = Record(e, parsed')
    OBVIOUS
  <2>2. ShouldPrintError(e, suppressions') <=> Verdict(r)
    BY <1>2, <2>1, ShouldPrintIsVerdict
  <2>3. r.error = e /\ r.file = file /\ r.parsed = parsed'
    BY <2>1 DEF Record
  <2> QED
    BY <2>1, <2>2, <2>3
<1>4. IsFiniteSet(records)
  <2> DEFINE f == [e \in errors |-> Record(e, parsed')]
  <2>1. f \in Surjection(errors, records)
    BY DEF Surjection
  <2> HIDE DEF f, records
  <2> QED
    BY <2>1, FS_Surjection
<1>5. shown \subseteq records
  OBVIOUS
<1> HIDE DEF shown, records
<1>6. Cardinality(shown) \in Nat /\ (Cardinality(shown) > 0 <=> shown # {})
  <2>1. IsFiniteSet(shown)
    BY <1>4, <1>5, FS_Subset
  <2> QED
    BY <2>1, FS_CardinalityType, FS_EmptySet
<1>7. /\ \A r \in reported : r.file \in Files /\ r.parsed \subseteq 1 .. Len(text[r.file].lines)
      /\ printed \subseteq reported
      /\ error_count > 0 <=> printed # {}
      /\ error_count \in Nat
  BY <1>2 DEF ResultInv, TypeInv
<1>8. \A r \in reported' : r.file \in Files /\ r.parsed \subseteq 1 .. Len(text'[r.file].lines)
  BY <1>1, <1>2, <1>3, <1>7
<1>9. printed' \subseteq reported'
  BY <1>1, <1>5, <1>7
<1>10. error_count' \in Nat /\ (error_count' > 0 <=> printed' # {})
  <2>1. error_count' > 0 <=> error_count > 0 \/ Cardinality(shown) > 0
    BY <1>1, <1>6, <1>7
  <2>2. printed' # {} <=> printed # {} \/ shown # {}
    BY <1>1
  <2> QED
    BY <1>1, <1>6, <1>7, <2>1, <2>2
<1>11. ASSUME NEW r \in reported'
       PROVE  Counting(r)' \subseteq r.parsed /\ (r \in printed' <=> Verdict(r)')
  <2>1. r \in reported => Counting(r) \subseteq r.parsed /\ (r \in printed <=> Verdict(r))
    BY <1>2, Zenon DEF ResultInv, VerdictsAreLocal, Verdict
  <2>2. Verdict(r)' <=> Verdict(r)
    BY <1>2, <1>8, VerdictStays
  <2>3. Counting(r)' = Counting(r)
    BY <1>2 DEF Counting
  <2>4. r \in printed => r \in reported
    BY <1>7
  <2>5. r \in shown => r \in records
    BY <1>5
  <2> QED
    BY <1>1, <1>3, <2>1, <2>2, <2>3, <2>4, <2>5
<1>12. VerdictsAreLocal'
  BY <1>11, Zenon DEF VerdictsAreLocal, Verdict
<1> QED
  BY <1>8, <1>9, <1>10, <1>12

\* The comments on some lines are parsed, and then errors are reported.
LEMMA ParseKeeps ==
    ASSUME LintInv, InputOK', UNCHANGED <<input, file>>, phase = "lint",
           NEW lines, lines \subseteq 1 .. Len(text[file].lines),
           NEW errors, IsFiniteSet(errors), ParseNolintSuppressions(lines, errors),
           \A e \in errors : /\ e.category \notin {<<"none">>, <<"unknown">>}
                             /\ Counting(Record(e, parsed \cup lines)) \subseteq parsed \cup lines
    PROVE  /\ parsed' = parsed \cup lines
           /\ parsed' \subseteq 1 .. Len(text[file].lines)
           /\ suppressions' = (FreshSuppressions \cup SuppressedBy(text[file], parsed))'
           /\ \A r \in reported' : r.file \in Files /\ r.parsed \subseteq 1 .. Len(text'[r.file].lines)
           /\ printed' \subseteq reported'
           /\ error_count' \in Nat /\ (error_count' > 0 <=> printed' # {})
           /\ VerdictsAreLocal'
<1> DEFINE t == text[file]
           new == Unknown(t, lines)
<1>1. /\ suppressions' = suppressions \cup SuppressedBy(t, lines)
      /\ parsed' = parsed \cup lines
      /\ Report(new \cup errors)
  BY DEF ParseNolintSuppressions
<1>2. /\ InputOK /\ TypeInv /\ SuppressionInv /\ text' = text /\ file' = file
      /\ Len(t.lines) \in Nat
  BY InputTyped DEF LintInv, input, TypeInv
<1>3. /\ at \in 0 .. Len(t.lines) /\ parsed \subseteq 1 .. Len(t.lines)
      /\ 1 .. at \subseteq parsed
      /\ suppressions = FreshSuppressions \cup SuppressedBy(t, parsed)
  BY <1>2 DEF SuppressionInv
<1>4. SuppressedBy(t, parsed \cup lines) = SuppressedBy(t, parsed) \cup SuppressedBy(t, lines)
  BY DEF SuppressedBy
<1>5. /\ suppressions' = FreshSuppressions \cup SuppressedBy(t, parsed')
      /\ parsed' \subseteq 1 .. Len(t.lines)
  BY <1>1, <1>3, <1>4
<1>6. suppressions' = (FreshSuppressions \cup SuppressedBy(text[file], parsed))'
  BY <1>2, <1>5 DEF FreshSuppressions, SuppressedBy, Globally
<1>7. IsFiniteSet(new \cup errors)
  <2> DEFINE S == {j \in lines : t.lines[j].category = <<"unknown">>}
           f == [k \in S |-> UnknownCategory(k)]
  <2>1. S \subseteq 1 .. Len(t.lines)
    OBVIOUS
  <2>2. f \in Surjection(S, new)
    BY DEF Unknown, Surjection
  <2> HIDE DEF S, f, new
  <2>3. IsFiniteSet(S)
    <3> DEFINE n == Len(t.lines)
    <3>1. n \in Nat /\ S \subseteq 1 .. n
      BY <1>2, <2>1
    <3> HIDE DEF n
    <3>2. IsFiniteSet(1 .. n)
      BY <3>1, FS_Interval
    <3> QED
      BY <3>1, <3>2, FS_Subset
  <2>4. IsFiniteSet(new)
    BY <2>2, <2>3, FS_Surjection
  <2> QED
    BY <2>4, FS_Union
<1>8. ASSUME NEW e \in new
      PROVE  /\ e.category \notin {<<"none">>, <<"unknown">>}
             /\ Counting(Record(e, parsed')) \subseteq parsed'
  <2>1. e.category = <<"readability", "nolint">> /\ e.ahead = FALSE
    BY DEF Unknown, UnknownCategory
  <2>2. Counting(Record(e, parsed')) \subseteq 1 .. at
    BY <2>1 DEF Counting, Record
  <2>3. <<"readability", "nolint">> \notin {<<"none">>, <<"unknown">>}
    OBVIOUS
  <2> QED
    BY <1>1, <1>3, <2>1, <2>2, <2>3
<1> HIDE DEF new
<1>9. \A e \in new \cup errors : /\ e.category \notin {<<"none">>, <<"unknown">>}
                                  /\ Counting(Record(e, parsed')) \subseteq parsed'
  BY <1>1, <1>8
<1>10. /\ \A r \in reported' : r.file \in Files /\ r.parsed \subseteq 1 .. Len(text'[r.file].lines)
       /\ printed' \subseteq reported'
       /\ error_count' \in Nat /\ (error_count' > 0 <=> printed' # {})
       /\ VerdictsAreLocal'
  BY <1>1, <1>5, <1>7, <1>9, ReportKeeps
<1> QED
  BY <1>1, <1>5, <1>6, <1>10

\* What the steps that print nothing keep.
LEMMA ResultsStay ==
    ASSUME LintInv, InputOK', UNCHANGED input, reported' = reported, printed' = printed
    PROVE  /\ \A r \in reported' : r.file \in Files /\ r.parsed \subseteq 1 .. Len(text'[r.file].lines)
           /\ printed' \subseteq reported'
           /\ VerdictsAreLocal'
<1>1. InputOK /\ ResultInv /\ text' = text
  BY DEF LintInv, input
<1>2. /\ \A r \in reported' : r.file \in Files /\ r.parsed \subseteq 1 .. Len(text'[r.file].lines)
      /\ printed' \subseteq reported'
  BY <1>1 DEF ResultInv
<1>3. ASSUME NEW r \in reported'
      PROVE  Counting(r)' \subseteq r.parsed /\ (r \in printed' <=> Verdict(r)')
  <2>1. Counting(r) \subseteq r.parsed /\ (r \in printed <=> Verdict(r))
    BY <1>1, Zenon DEF ResultInv, VerdictsAreLocal, Verdict
  <2>2. Verdict(r)' <=> Verdict(r)
    BY <1>1, <1>2, VerdictStays
  <2>3. Counting(r)' = Counting(r)
    BY <1>1 DEF Counting
  <2> QED
    BY <2>1, <2>2, <2>3
<1>4. VerdictsAreLocal'
  BY <1>3, Zenon DEF VerdictsAreLocal, Verdict
<1> QED
  BY <1>2, <1>4

\* Also with --recursive the files are files of the command line.
LEMMA OrdersTyped ==
    ASSUME NEW names \in Seq(Files), NEW recursive, NEW order \in Orders(names, recursive)
    PROVE  order \in Seq(Files)
<1> DEFINE S == {f \in ToSet(names) : text[f].extension}
<1>1. CASE ~recursive
  BY <1>1 DEF Orders
<1>2. CASE recursive
  <2>1. IsFiniteSet(ToSet(names))
    <3>1. IsFiniteSet(1 .. Len(names))
      BY FS_Interval
    <3>2. names \in Surjection(1 .. Len(names), ToSet(names))
      BY DEF Surjection, ToSet
    <3> QED
      BY <3>1, <3>2, FS_Surjection DEF ExistsSurjection
  <2>2. IsFiniteSet(S) /\ Cardinality(S) \in Nat
    BY <2>1, FS_Subset, FS_CardinalityType
  <2>3. S \subseteq Files
    BY DEF ToSet
  <2>4. order \in SetToSeqs(S)
    BY <1>2 DEF Orders
  <2> HIDE DEF S
  <2>5. order \in [1 .. Cardinality(S) -> S]
    BY <2>4 DEF SetToSeqs
  <2> QED
    BY <2>2, <2>3, <2>5
<1> QED
  BY <1>1, <1>2

-----------------------------------------------------------------------------
(***************************************************************************)
(* Every step keeps the invariant, action by action.                       *)
(***************************************************************************)
LEMMA InputStays ==
    ASSUME InputOK, UNCHANGED input
    PROVE  InputOK' /\ Base' = Base /\ ListsAbove' = ListsAbove
<1>1. flags' = flags /\ config' = config /\ text' = text
  BY DEF input
<1>2. InputOK' /\ Base' = Base
  BY <1>1 DEF InputOK, Base
<1>3. ListsAbove' = ListsAbove
  BY <1>1, <1>2, ListsAboveStays DEF InputOK, ConfigOK
<1> QED
  BY <1>2, <1>3

LEMMA LintInvInit == Init => LintInv
<1> SUFFICES ASSUME Init PROVE LintInv
  OBVIOUS
<1>1. InputOK
  BY DEF Init, InputOK
<1>2. TypeInv
  BY LintAssumption DEF Init, TypeInv
<1>3. FilterInv
  BY DEF Init, FilterInv
<1>4. SuppressionInv
  BY DEF Init, SuppressionInv
<1>5. ResultInv
  BY DEF Init, ResultInv, VerdictsAreLocal, ExitCodeTells
<1> QED
  BY <1>1, <1>2, <1>3, <1>4, <1>5 DEF LintInv

LEMMA ParseArgumentsKeeps ==
    ASSUME LintInv, ParseArguments
    PROVE  LintInv'
<1>1. /\ InputOK /\ TypeInv /\ FilterInv /\ ResultInv
      /\ UNCHANGED input /\ filters' = Base
      /\ UNCHANGED <<file, filters_backup, dir, cfg_filters>>
      /\ UNCHANGED <<error_count, reported, printed>>
  BY Zenon DEF LintInv, ParseArguments, search, results, Base
<1>2. \/ phase' = "exited" /\ exit_code' = 1 /\ batch' = batch
      \/ /\ phase' = "file" /\ exit_code' = exit_code /\ AllSigned(Base)
         /\ \E order \in Orders(flags.names, flags.recursive) : batch' = WithoutExcluded(order)
  BY <1>1 DEF ParseArguments, Dies
<1>3. InputOK' /\ Base' = Base
  BY <1>1, InputStays
<1>4. batch' \in Seq(Files)
  <2>1. CASE batch' = batch
    BY <1>1, <2>1 DEF TypeInv
  <2>2. CASE \E order \in Orders(flags.names, flags.recursive) : batch' = WithoutExcluded(order)
    <3>1. PICK order \in Orders(flags.names, flags.recursive) : batch' = WithoutExcluded(order)
      BY <2>2
    <3>2. flags.names \in Seq(Files)
      BY <1>1, InputTyped
    <3>3. order \in Seq(Files)
      BY <3>2, OrdersTyped
    <3> QED
      BY <3>1, <3>3, WithoutExcludedIs
  <2> QED
    BY <1>2, <2>1, <2>2
<1>5. TypeInv'
  BY <1>1, <1>2, <1>4 DEF TypeInv
<1>6. FilterInv'
  <2>1. AllSigned(Base)' <=> AllSigned(Base)
    BY <1>3 DEF AllSigned
  <2> QED
    BY <1>1, <1>2, <1>3, <2>1 DEF FilterInv
<1>7. SuppressionInv'
  BY <1>2 DEF SuppressionInv
<1>8. ResultInv'
  <2>1. /\ \A r \in reported' : r.file \in Files /\ r.parsed \subseteq 1 .. Len(text'[r.file].lines)
        /\ printed' \subseteq reported'
        /\ VerdictsAreLocal'
    BY <1>1, <1>3, ResultsStay
  <2>2. ExitCodeTells' /\ (error_count' > 0 <=> printed' # {})
    BY <1>1, <1>2 DEF ExitCodeTells, ResultInv
  <2> QED
    BY <2>1, <2>2 DEF ResultInv
<1> QED
  BY <1>3, <1>5, <1>6, <1>7, <1>8 DEF LintInv

LEMMA BeginFileKeeps ==
    ASSUME LintInv, BeginFile
    PROVE  LintInv'
<1>1. /\ InputOK /\ TypeInv /\ FilterInv /\ ResultInv
      /\ UNCHANGED input /\ phase = "file" /\ batch # <<>>
      /\ file' = Head(batch) /\ batch' = Tail(batch)
      /\ filters' = filters /\ filters_backup' = filters
      /\ dir' = Above[file'] /\ cfg_filters' = <<>> /\ phase' = "config"
      /\ error_count' = error_count
      /\ UNCHANGED <<reported, printed, exit_code>>
  BY Zenon DEF LintInv, BeginFile, CountSoFar
<1>2. InputOK' /\ Base' = Base /\ ListsAbove' = ListsAbove
  BY <1>1, InputStays
<1>3. batch \in Seq(Files) /\ file' \in Files /\ batch' \in Seq(Files)
  BY <1>1, HeadTailProperties DEF TypeInv
<1>4. dir' \in Dirs \cup {Root}
  BY <1>1, <1>3, LintAssumption
<1>5. TypeInv'
  BY <1>1, <1>3, <1>4 DEF TypeInv
<1>6. FilterInv'
  <2>1. AllSigned(Base)' <=> AllSigned(Base)
    BY <1>2 DEF AllSigned
  <2>2. ListsAbove[dir'] \in Seq(Seq(Filters))
    BY <1>1, <1>3, InputTyped
  <2>3. <<>> \o ListsAbove[dir'] = ListsAbove[dir']
    BY <2>2, ConcatEmptySeq
  <2>4. Lists4File' = cfg_filters' \o (ListsAbove[dir])'
    BY <1>1, <1>2, <2>3 DEF Lists4File
  <2> QED
    BY <1>1, <1>2, <2>1, <2>4 DEF FilterInv
<1>7. SuppressionInv'
  BY <1>1 DEF SuppressionInv
<1>8. ResultInv'
  <2>1. /\ \A r \in reported' : r.file \in Files /\ r.parsed \subseteq 1 .. Len(text'[r.file].lines)
        /\ printed' \subseteq reported'
        /\ VerdictsAreLocal'
    BY <1>1, <1>2, ResultsStay
  <2>2. ExitCodeTells' /\ (error_count' > 0 <=> printed' # {})
    BY <1>1 DEF ExitCodeTells, ResultInv
  <2> QED
    BY <2>1, <2>2 DEF ResultInv
<1> QED
  BY <1>2, <1>5, <1>6, <1>7, <1>8 DEF LintInv

LEMMA ExitKeeps ==
    ASSUME LintInv, Exit
    PROVE  LintInv'
<1>1. /\ InputOK /\ TypeInv /\ ResultInv
      /\ UNCHANGED input /\ phase' = "exited"
      /\ exit_code' = IF error_count > 0 THEN 1 ELSE 0
      /\ UNCHANGED <<batch, file, dir, cfg_filters, error_count, reported, printed>>
  BY Zenon DEF LintInv, Exit, search, results
<1>2. InputOK'
  BY <1>1, InputStays
<1>3. TypeInv' /\ FilterInv' /\ SuppressionInv'
  BY <1>1 DEF TypeInv, FilterInv, SuppressionInv
<1>4. ResultInv'
  <2>1. /\ \A r \in reported' : r.file \in Files /\ r.parsed \subseteq 1 .. Len(text'[r.file].lines)
        /\ printed' \subseteq reported'
        /\ VerdictsAreLocal'
    BY <1>1, <1>2, ResultsStay
  <2>2. ExitCodeTells' /\ (error_count' > 0 <=> printed' # {})
    BY <1>1 DEF ExitCodeTells, ResultInv
  <2> QED
    BY <2>1, <2>2 DEF ResultInv
<1> QED
  BY <1>2, <1>3, <1>4 DEF LintInv

LEMMA ReadConfigKeeps ==
    ASSUME LintInv, ReadConfig
    PROVE  LintInv'
<1> DEFINE after == AfterConfig(config[dir])
<1>1. /\ InputOK /\ TypeInv /\ FilterInv /\ ResultInv
      /\ UNCHANGED input /\ phase = "config" /\ dir \in Dirs
      /\ UNCHANGED <<batch, file, error_count, reported, printed, exit_code>>
  BY Zenon DEF LintInv, ReadConfig, results, TypeInv
<1>2. InputOK' /\ Base' = Base /\ ListsAbove' = ListsAbove
  BY <1>1, InputStays
<1>3. /\ filters = Base /\ filters_backup = Base /\ AllSigned(Base)
      /\ Lists4File = cfg_filters \o ListsAbove[dir]
  BY <1>1 DEF FilterInv
<1>4. AllSigned(Base)' /\ Lists4File' = Lists4File
  BY <1>1, <1>2, <1>3 DEF AllSigned, Lists4File
<1>5. /\ ListsAbove \in [Dirs \cup {Root} -> Seq(Seq(Filters))] /\ ListsAbove[Root] = <<>>
      /\ ListsAbove[dir] = Lists(dir) \o (IF Stops(dir) THEN <<>> ELSE ListsAbove[Above[dir]])
  BY <1>1, ListsAboveIs DEF InputOK, ConfigOK
<1>6. Above[dir] \in Dirs \cup {Root}
  BY <1>1, LintAssumption
<1>7. ASSUME config[dir] \in {NoConfig, Unreadable}
      PROVE  TypeInv' /\ FilterInv' /\ SuppressionInv' /\ ExitCodeTells'
  <2>1. /\ dir' = IF config[dir] = NoConfig THEN Above[dir] ELSE Root
        /\ UNCHANGED <<phase, filters, filters_backup, line_length, cfg_filters>>
    BY <1>7, Zenon DEF ReadConfig, settings
  <2>2. Lists(dir) = <<>>
    BY <1>7, Zenon DEF Lists
  <2>3. Stops(dir) <=> config[dir] # NoConfig
    BY <1>7, LintAssumption DEF Stops
  <2>4. dir' \in Dirs \cup {Root}
    BY <1>6, <2>1
  <2>5. ListsAbove[dir] = <<>> \o ListsAbove[dir']
    BY <1>5, <2>1, <2>2, <2>3
  <2>6. ListsAbove[dir'] \in Seq(Seq(Filters))
    BY <1>5, <2>4
  <2>7. ListsAbove[dir] = ListsAbove[dir']
    BY <2>5, <2>6, ConcatEmptySeq
  <2>8. TypeInv'
    BY <1>1, <2>1, <2>4 DEF TypeInv
  <2>9. Lists4File' = cfg_filters' \o ListsAbove[dir']
    BY <1>3, <1>4, <2>1, <2>7
  <2>10. FilterInv' /\ SuppressionInv' /\ ExitCodeTells'
    BY <1>1, <1>2, <1>3, <1>4, <2>1, <2>9 DEF FilterInv, SuppressionInv, ExitCodeTells
  <2> QED
    BY <2>8, <2>10
<1>8. ASSUME config[dir] \notin {NoConfig, Unreadable}
      PROVE  TypeInv' /\ FilterInv' /\ SuppressionInv' /\ ExitCodeTells'
  <2>1. /\ dir' = IF after.keep_looking THEN Above[dir] ELSE Root
        /\ cfg_filters' = after.cfg_filters
        /\ phase' = IF after.excluded THEN "file" ELSE "config"
        /\ filters' = IF after.excluded THEN filters_backup ELSE filters
        /\ filters_backup' = filters_backup
    BY <1>8, Zenon DEF ReadConfig, RestoreFilters
  <2>2. AreLines(config[dir])
    BY <1>1, <1>8, ConfigsAreLines DEF InputOK, ConfigOK
  <2>3. /\ after.cfg_filters \in Seq(Seq(Filters))
        /\ ~after.excluded => /\ after.cfg_filters = cfg_filters \o Lists(dir)
                              /\ after.keep_looking <=> ~Stops(dir)
    BY <1>1, <1>8, <2>2, AfterConfigGathers DEF TypeInv
  <2>4. Lists(dir) \in Seq(Seq(Filters)) /\ cfg_filters \in Seq(Seq(Filters))
    BY <1>1, ListsTyped DEF InputOK, ConfigOK, TypeInv
  <2> HIDE DEF after
  <2>5. dir' \in Dirs \cup {Root}
    BY <1>6, <2>1
  <2>6. TypeInv'
    BY <1>1, <2>1, <2>3, <2>5 DEF TypeInv
  <2>7. filters' = Base /\ filters_backup' = Base
    BY <1>3, <2>1
  <2>8. CASE after.excluded
    BY <1>1, <1>2, <1>4, <2>1, <2>6, <2>7, <2>8 DEF FilterInv, SuppressionInv, ExitCodeTells
  <2>9. CASE ~after.excluded
    <3>1. phase' = "config" /\ cfg_filters' = cfg_filters \o Lists(dir)
      BY <2>1, <2>3, <2>9
    <3>2. ListsAbove[dir] = Lists(dir) \o ListsAbove[dir']
      BY <1>5, <2>1, <2>3, <2>9
    <3>3. ListsAbove[dir'] \in Seq(Seq(Filters))
      BY <1>5, <2>5
    <3>4. cfg_filters \o (Lists(dir) \o ListsAbove[dir']) = (cfg_filters \o Lists(dir)) \o ListsAbove[dir']
      <4> DEFINE L == Lists(dir)
                 M == ListsAbove[dir']
                 T == Seq(Filters)
      <4>1. L \in Seq(T) /\ M \in Seq(T) /\ cfg_filters \in Seq(T)
        BY <2>4, <3>3
      <4> HIDE DEF L, M, T
      <4>2. cfg_filters \o (L \o M) = (cfg_filters \o L) \o M
        BY <4>1, ConcatAssociative
      <4> QED
        BY <4>2 DEF L, M
    <3>5. Lists4File' = cfg_filters' \o ListsAbove[dir']
      BY <1>3, <1>4, <3>1, <3>2, <3>4
    <3>6. FilterInv' /\ SuppressionInv' /\ ExitCodeTells'
      BY <1>2, <1>4, <2>7, <3>1, <3>5 DEF FilterInv, SuppressionInv, ExitCodeTells
    <3> QED
      BY <2>6, <3>6
  <2> QED
    BY <2>8, <2>9
<1>9. TypeInv' /\ FilterInv' /\ SuppressionInv' /\ ExitCodeTells'
  BY <1>7, <1>8
<1>10. ResultInv'
  <2>1. /\ \A r \in reported' : r.file \in Files /\ r.parsed \subseteq 1 .. Len(text'[r.file].lines)
        /\ printed' \subseteq reported'
        /\ VerdictsAreLocal'
    BY <1>1, <1>2, ResultsStay
  <2>2. error_count' > 0 <=> printed' # {}
    BY <1>1 DEF ResultInv
  <2> QED
    BY <1>9, <2>1, <2>2 DEF ResultInv
<1> QED
  BY <1>2, <1>9, <1>10 DEF LintInv

LEMMA AddFiltersKeeps ==
    ASSUME LintInv, AddFilters
    PROVE  LintInv'
<1>1. /\ InputOK /\ TypeInv /\ FilterInv /\ ResultInv
      /\ UNCHANGED input /\ phase = "config" /\ dir = Root
      /\ filters' = filters \o FlattenSeq(OutermostFirst(cfg_filters))
      /\ UNCHANGED <<batch, file, filters_backup, dir, cfg_filters, error_count, reported, printed>>
  BY Zenon DEF LintInv, AddFilters, results, search
<1>2. \/ AllSigned(filters') /\ phase' = "open" /\ exit_code' = exit_code
      \/ phase' = "exited" /\ exit_code' = 1
  BY DEF AddFilters, Dies
<1>3. InputOK' /\ Base' = Base /\ ListsAbove' = ListsAbove
  BY <1>1, InputStays
<1>4. Lists4File = cfg_filters
  <2>1. Lists4File = cfg_filters \o <<>>
    BY <1>1, ListsAboveIs DEF FilterInv, InputOK, ConfigOK
  <2>2. cfg_filters \in Seq(Seq(Filters))
    BY <1>1 DEF TypeInv
  <2> QED
    BY <2>1, <2>2, ConcatEmptySeq
<1>5. Lists4File' = Lists4File
  BY <1>1, <1>3 DEF Lists4File
<1>6. TypeInv'
  BY <1>1, <1>2 DEF TypeInv
<1>7. FilterInv'
  <2>1. AllSigned(Base)' /\ filters_backup' = Base /\ filters = Base
    BY <1>1, <1>3 DEF FilterInv, AllSigned
  <2>2. filters' = Base \o FlattenSeq(OutermostFirst(Lists4File))
    BY <1>1, <1>4, <2>1
  <2>3. OutermostFirst(Lists4File)' = OutermostFirst(Lists4File)
    BY <1>5 DEF OutermostFirst
  <2>4. (Base \o FlattenSeq(OutermostFirst(Lists4File)))' = Base \o FlattenSeq(OutermostFirst(Lists4File))
    BY <1>3, <2>3
  <2>5. AllSigned(filters') => AllSigned(filters)'
    BY DEF AllSigned
  <2> QED
    BY <1>1, <1>2, <1>3, <2>1, <2>2, <2>4, <2>5 DEF FilterInv
<1>8. SuppressionInv'
  BY <1>2 DEF SuppressionInv
<1>9. ResultInv'
  <2>1. /\ \A r \in reported' : r.file \in Files /\ r.parsed \subseteq 1 .. Len(text'[r.file].lines)
        /\ printed' \subseteq reported'
        /\ VerdictsAreLocal'
    BY <1>1, <1>3, ResultsStay
  <2>2. ExitCodeTells' /\ (error_count' > 0 <=> printed' # {})
    BY <1>1, <1>2 DEF ExitCodeTells, ResultInv
  <2> QED
    BY <2>1, <2>2 DEF ResultInv
<1> QED
  BY <1>3, <1>6, <1>7, <1>8, <1>9 DEF LintInv

LEMMA OpenKeeps ==
    ASSUME LintInv, Open
    PROVE  LintInv'
<1>1. /\ InputOK /\ TypeInv /\ FilterInv /\ ResultInv
      /\ UNCHANGED input /\ phase = "open"
      /\ UNCHANGED <<batch, file, dir, cfg_filters>>
      /\ UNCHANGED <<error_count, reported, printed, exit_code>>
  BY Zenon DEF LintInv, Open, results, search
<1>2. \/ /\ suppressions' = FreshSuppressions /\ at' = 0 /\ parsed' = {} /\ phase' = "lint"
         /\ filters' = filters /\ filters_backup' = filters_backup
      \/ phase' = "file" /\ filters' = filters_backup /\ filters_backup' = filters_backup
  BY Zenon DEF Open, RestoreFilters, settings
<1>3. InputOK' /\ Base' = Base /\ ListsAbove' = ListsAbove /\ text' = text
  BY <1>1, InputStays DEF input
<1>4. TypeInv'
  BY <1>1, <1>2 DEF TypeInv
<1>5. FilterInv'
  <2>1. /\ AllSigned(Base)' /\ filters_backup = Base
        /\ filters = Base \o FlattenSeq(OutermostFirst(Lists4File)) /\ AllSigned(filters)
    BY <1>1, <1>3 DEF FilterInv, AllSigned
  <2>2. filters' = filters => AllSigned(filters)'
    BY <2>1 DEF AllSigned
  <2>3. Lists4File' = Lists4File
    BY <1>1, <1>3 DEF Lists4File
  <2>4. OutermostFirst(Lists4File)' = OutermostFirst(Lists4File)
    BY <2>3 DEF OutermostFirst
  <2>5. (Base \o FlattenSeq(OutermostFirst(Lists4File)))' = Base \o FlattenSeq(OutermostFirst(Lists4File))
    BY <1>3, <2>4
  <2> QED
    BY <1>2, <1>3, <2>1, <2>2, <2>5 DEF FilterInv
<1>6. SuppressionInv'
  <2>1. CASE phase' = "lint"
    <3>1. suppressions' = FreshSuppressions /\ at' = 0 /\ parsed' = {}
      BY <1>2, <2>1
    <3>2. FreshSuppressions' = FreshSuppressions
      BY <1>1, <1>3 DEF FreshSuppressions, Globally
    <3>3. SuppressedBy(text[file], parsed)' = {}
      BY <3>1 DEF SuppressedBy
    <3>4. Len(text[file].lines) \in Nat
      BY <1>1, InputTyped DEF TypeInv
    <3>5. at' \in 0 .. Len(text'[file'].lines)
      BY <1>1, <1>3, <3>1, <3>4
    <3>6. (1 .. at)' = {}
      BY <3>1
    <3> QED
      BY <3>1, <3>2, <3>3, <3>5, <3>6 DEF SuppressionInv
  <2> QED
    BY <2>1 DEF SuppressionInv
<1>7. ResultInv'
  <2>1. /\ \A r \in reported' : r.file \in Files /\ r.parsed \subseteq 1 .. Len(text'[r.file].lines)
        /\ printed' \subseteq reported'
        /\ VerdictsAreLocal'
    BY <1>1, <1>3, ResultsStay
  <2>2. ExitCodeTells' /\ (error_count' > 0 <=> printed' # {})
    BY <1>1, <1>2 DEF ExitCodeTells, ResultInv
  <2> QED
    BY <2>1, <2>2 DEF ResultInv
<1> QED
  BY <1>3, <1>4, <1>5, <1>6, <1>7 DEF LintInv

\* While a file is linted neither the filters nor the search for them changes.
LEMMA FiltersStay ==
    ASSUME FilterInv, phase = "lint", phase' = "lint", UNCHANGED <<input, file, settings>>,
           Base' = Base, ListsAbove' = ListsAbove
    PROVE  FilterInv'
<1>1. /\ AllSigned(Base) /\ filters_backup = Base
      /\ filters = Base \o FlattenSeq(OutermostFirst(Lists4File)) /\ AllSigned(filters)
      /\ filters' = filters /\ filters_backup' = filters_backup
  BY DEF FilterInv, settings
<1>2. AllSigned(Base)' /\ AllSigned(filters)'
  BY <1>1 DEF AllSigned
<1>3. Lists4File' = Lists4File
  BY DEF Lists4File
<1>4. OutermostFirst(Lists4File)' = OutermostFirst(Lists4File)
  BY <1>3 DEF OutermostFirst
<1>5. (Base \o FlattenSeq(OutermostFirst(Lists4File)))' = Base \o FlattenSeq(OutermostFirst(Lists4File))
  BY <1>4
<1> QED
  BY <1>1, <1>2, <1>5 DEF FilterInv

LEMMA CheckKeeps ==
    ASSUME LintInv, NEW error \in Errors, Check(error)
    PROVE  LintInv'
<1> DEFINE t == text[file]
<1>1. /\ InputOK /\ TypeInv /\ FilterInv /\ SuppressionInv /\ phase = "lint" /\ phase' = "lint"
      /\ UNCHANGED <<input, file, settings>>
      /\ UNCHANGED <<batch, dir, cfg_filters, exit_code>>
      /\ at' = at
      /\ ParseNolintSuppressions(Ahead(error), {error})
  BY Zenon DEF LintInv, Check, search
<1>2. InputOK' /\ Base' = Base /\ ListsAbove' = ListsAbove /\ text' = text
  BY <1>1, InputStays DEF input
<1>3. Len(t.lines) \in Nat /\ t.lines \in Seq(ToSet(t.lines)) /\ t.guard \subseteq DOMAIN t.lines
  BY <1>1, InputTyped, LintAssumption DEF TypeInv, InputOK
<1>4. at \in 0 .. Len(t.lines) /\ 1 .. at \subseteq parsed
  BY <1>1 DEF SuppressionInv
<1>5. Ahead(error) \subseteq 1 .. Len(t.lines)
  BY <1>3 DEF Ahead
<1>6. IsFiniteSet({error}) /\ \A e \in {error} :
         /\ e.category \notin {<<"none">>, <<"unknown">>}
         /\ Counting(Record(e, parsed \cup Ahead(error))) \subseteq parsed \cup Ahead(error)
  <2>1. Counting(Record(error, parsed \cup Ahead(error))) \subseteq 1 .. at \cup Ahead(error)
    BY DEF Counting, Record, Ahead
  <2>2. IsFiniteSet({error})
    BY FS_Singleton
  <2> QED
    BY <1>4, <2>1, <2>2, LintAssumption
<1>7. /\ parsed' = parsed \cup Ahead(error)
      /\ parsed' \subseteq 1 .. Len(t.lines)
      /\ suppressions' = (FreshSuppressions \cup SuppressedBy(text[file], parsed))'
      /\ \A r \in reported' : r.file \in Files /\ r.parsed \subseteq 1 .. Len(text'[r.file].lines)
      /\ printed' \subseteq reported'
      /\ error_count' \in Nat /\ (error_count' > 0 <=> printed' # {})
      /\ VerdictsAreLocal'
  BY <1>1, <1>2, <1>5, <1>6, ParseKeeps
<1>8. TypeInv'
  BY <1>1, <1>7 DEF TypeInv
<1>9. FilterInv'
  BY <1>1, <1>2, FiltersStay
<1>10. SuppressionInv'
  <2>1. at' \in 0 .. Len(text'[file'].lines) /\ parsed' \subseteq 1 .. Len(text'[file'].lines)
    BY <1>1, <1>2, <1>4, <1>7
  <2>2. (1 .. at \subseteq parsed)'
    BY <1>1, <1>4, <1>7
  <2> QED
    BY <1>7, <2>1, <2>2 DEF SuppressionInv
<1>11. ResultInv'
  BY <1>1, <1>7 DEF ResultInv, ExitCodeTells
<1> QED
  BY <1>2, <1>8, <1>9, <1>10, <1>11 DEF LintInv

LEMMA CheckForHeaderGuardKeeps ==
    ASSUME LintInv, CheckForHeaderGuard
    PROVE  LintInv'
<1> DEFINE t == text[file]
<1>1. /\ InputOK /\ TypeInv /\ FilterInv /\ SuppressionInv /\ phase = "lint" /\ phase' = "lint"
      /\ UNCHANGED <<input, file, settings>>
      /\ UNCHANGED <<batch, dir, cfg_filters, exit_code>>
      /\ at' = at
      /\ ParseNolintSuppressions(text[file].guard, {})
  BY Zenon DEF LintInv, CheckForHeaderGuard, search
<1>2. InputOK' /\ Base' = Base /\ ListsAbove' = ListsAbove /\ text' = text
  BY <1>1, InputStays DEF input
<1>3. Len(t.lines) \in Nat /\ t.lines \in Seq(ToSet(t.lines)) /\ t.guard \subseteq DOMAIN t.lines
  BY <1>1, InputTyped, LintAssumption DEF TypeInv, InputOK
<1>4. at \in 0 .. Len(t.lines) /\ 1 .. at \subseteq parsed
  BY <1>1 DEF SuppressionInv
<1>5. text[file].guard \subseteq 1 .. Len(t.lines)
  BY <1>3
<1>6. IsFiniteSet({}) /\ \A e \in {} :
         /\ e.category \notin {<<"none">>, <<"unknown">>}
         /\ Counting(Record(e, parsed \cup text[file].guard)) \subseteq parsed \cup text[file].guard
  BY FS_EmptySet
<1>7. /\ parsed' = parsed \cup text[file].guard
      /\ parsed' \subseteq 1 .. Len(t.lines)
      /\ suppressions' = (FreshSuppressions \cup SuppressedBy(text[file], parsed))'
      /\ \A r \in reported' : r.file \in Files /\ r.parsed \subseteq 1 .. Len(text'[r.file].lines)
      /\ printed' \subseteq reported'
      /\ error_count' \in Nat /\ (error_count' > 0 <=> printed' # {})
      /\ VerdictsAreLocal'
  BY <1>1, <1>2, <1>5, <1>6, ParseKeeps
<1>8. TypeInv'
  BY <1>1, <1>7 DEF TypeInv
<1>9. FilterInv'
  BY <1>1, <1>2, FiltersStay
<1>10. SuppressionInv'
  <2>1. at' \in 0 .. Len(text'[file'].lines) /\ parsed' \subseteq 1 .. Len(text'[file'].lines)
    BY <1>1, <1>2, <1>4, <1>7
  <2>2. (1 .. at \subseteq parsed)'
    BY <1>1, <1>4, <1>7
  <2> QED
    BY <1>7, <2>1, <2>2 DEF SuppressionInv
<1>11. ResultInv'
  BY <1>1, <1>7 DEF ResultInv, ExitCodeTells
<1> QED
  BY <1>2, <1>8, <1>9, <1>10, <1>11 DEF LintInv

LEMMA ProcessLineKeeps ==
    ASSUME LintInv, ProcessLine
    PROVE  LintInv'
<1> DEFINE t == text[file]
<1>1. /\ InputOK /\ TypeInv /\ FilterInv /\ SuppressionInv /\ phase = "lint" /\ phase' = "lint"
      /\ UNCHANGED <<input, file, settings>>
      /\ UNCHANGED <<batch, dir, cfg_filters, exit_code>>
      /\ at < Len(t.lines) /\ at' = at + 1
      /\ ParseNolintSuppressions({at + 1}, {})
  BY Zenon DEF LintInv, ProcessLine, search
<1>2. InputOK' /\ Base' = Base /\ ListsAbove' = ListsAbove /\ text' = text
  BY <1>1, InputStays DEF input
<1>3. Len(t.lines) \in Nat /\ t.lines \in Seq(ToSet(t.lines)) /\ t.guard \subseteq DOMAIN t.lines
  BY <1>1, InputTyped, LintAssumption DEF TypeInv, InputOK
<1>4. at \in 0 .. Len(t.lines) /\ 1 .. at \subseteq parsed
  BY <1>1 DEF SuppressionInv
<1>5. {at + 1} \subseteq 1 .. Len(t.lines)
  BY <1>1, <1>3, <1>4
<1>6. IsFiniteSet({}) /\ \A e \in {} :
         /\ e.category \notin {<<"none">>, <<"unknown">>}
         /\ Counting(Record(e, parsed \cup {at + 1})) \subseteq parsed \cup {at + 1}
  BY FS_EmptySet
<1>7. /\ parsed' = parsed \cup {at + 1}
      /\ parsed' \subseteq 1 .. Len(t.lines)
      /\ suppressions' = (FreshSuppressions \cup SuppressedBy(text[file], parsed))'
      /\ \A r \in reported' : r.file \in Files /\ r.parsed \subseteq 1 .. Len(text'[r.file].lines)
      /\ printed' \subseteq reported'
      /\ error_count' \in Nat /\ (error_count' > 0 <=> printed' # {})
      /\ VerdictsAreLocal'
  BY <1>1, <1>2, <1>5, <1>6, ParseKeeps
<1>8. TypeInv'
  BY <1>1, <1>7 DEF TypeInv
<1>9. FilterInv'
  BY <1>1, <1>2, FiltersStay
<1>10. SuppressionInv'
  <2>1. at' \in 0 .. Len(text'[file'].lines) /\ parsed' \subseteq 1 .. Len(text'[file'].lines)
    BY <1>1, <1>2, <1>3, <1>4, <1>7
  <2>2. 1 .. at + 1 = (1 .. at) \cup {at + 1}
    BY <1>4
  <2>3. (1 .. at \subseteq parsed)'
    BY <1>1, <1>4, <1>7, <2>2
  <2> QED
    BY <1>7, <2>1, <2>3 DEF SuppressionInv
<1>11. ResultInv'
  BY <1>1, <1>7 DEF ResultInv, ExitCodeTells
<1> QED
  BY <1>2, <1>8, <1>9, <1>10, <1>11 DEF LintInv

LEMMA EndFileKeeps ==
    ASSUME LintInv, EndFile
    PROVE  LintInv'
<1>1. /\ InputOK /\ TypeInv /\ FilterInv /\ ResultInv
      /\ UNCHANGED input /\ phase = "lint" /\ phase' = "file"
      /\ filters' = filters_backup
      /\ UNCHANGED <<batch, file, dir, cfg_filters>>
      /\ UNCHANGED <<error_count, reported, printed, exit_code>>
  BY Zenon DEF LintInv, EndFile, RestoreFilters, results, search
<1>2. InputOK' /\ Base' = Base /\ ListsAbove' = ListsAbove
  BY <1>1, InputStays
<1>3. TypeInv' /\ SuppressionInv'
  BY <1>1 DEF TypeInv, SuppressionInv
<1>4. FilterInv'
  BY <1>1, <1>2 DEF FilterInv, AllSigned
<1>5. ResultInv'
  <2>1. /\ \A r \in reported' : r.file \in Files /\ r.parsed \subseteq 1 .. Len(text'[r.file].lines)
        /\ printed' \subseteq reported'
        /\ VerdictsAreLocal'
    BY <1>1, <1>2, ResultsStay
  <2>2. ExitCodeTells' /\ (error_count' > 0 <=> printed' # {})
    BY <1>1 DEF ExitCodeTells, ResultInv
  <2> QED
    BY <2>1, <2>2 DEF ResultInv
<1> QED
  BY <1>2, <1>3, <1>4, <1>5 DEF LintInv

LEMMA LintInvStep ==
    ASSUME LintInv, [Next]_vars
    PROVE  LintInv'
<1>1. CASE Next
  BY <1>1, ParseArgumentsKeeps, BeginFileKeeps, ExitKeeps, ReadConfigKeeps, AddFiltersKeeps,
     OpenKeeps, CheckForHeaderGuardKeeps, ProcessLineKeeps, EndFileKeeps, CheckKeeps, Zenon DEF Next
<1>2. CASE UNCHANGED vars
  <2>1. /\ InputOK /\ TypeInv /\ FilterInv /\ SuppressionInv /\ ResultInv
        /\ UNCHANGED input
        /\ UNCHANGED <<phase, batch, file, filters, filters_backup, dir, cfg_filters>>
        /\ UNCHANGED <<suppressions, at, parsed, error_count, reported, printed, exit_code>>
    BY <1>2, Zenon DEF LintInv, vars, settings, search, comments, results
  <2>2. InputOK' /\ Base' = Base /\ ListsAbove' = ListsAbove /\ text' = text
    BY <2>1, InputStays DEF input
  <2>3. TypeInv'
    BY <2>1 DEF TypeInv
  <2>4. FilterInv'
    <3>1. Lists4File' = Lists4File
      BY <2>1, <2>2 DEF Lists4File
    <3>2. (AllSigned(Base)' <=> AllSigned(Base)) /\ (AllSigned(filters)' <=> AllSigned(filters))
      BY <2>1, <2>2 DEF AllSigned
    <3>3. OutermostFirst(Lists4File)' = OutermostFirst(Lists4File)
      BY <3>1 DEF OutermostFirst
    <3> QED
      BY <2>1, <2>2, <3>1, <3>2, <3>3 DEF FilterInv
  <2>5. SuppressionInv'
    BY <2>1, <2>2 DEF SuppressionInv, FreshSuppressions, SuppressedBy, Globally
  <2>6. ResultInv'
    <3>1. /\ \A r \in reported' : r.file \in Files /\ r.parsed \subseteq 1 .. Len(text'[r.file].lines)
          /\ printed' \subseteq reported'
          /\ VerdictsAreLocal'
      BY <2>1, <2>2, ResultsStay
    <3>2. ExitCodeTells' /\ (error_count' > 0 <=> printed' # {})
      BY <2>1 DEF ExitCodeTells, ResultInv
    <3> QED
      BY <3>1, <3>2 DEF ResultInv
  <2> QED
    BY <2>2, <2>3, <2>4, <2>5, <2>6 DEF LintInv
<1> QED
  BY <1>1, <1>2

LEMMA LintInvTypes == LintInv => TypeOK
<1> SUFFICES ASSUME LintInv PROVE TypeOK
  OBVIOUS
<1>1. InputOK /\ TypeInv /\ FilterInv /\ ResultInv
  BY DEF LintInv
<1>2. ToSet(batch) \cup {file} \subseteq Files
  BY <1>1 DEF TypeInv, ToSet
<1>3. ASSUME phase # "exited", NEW k \in DOMAIN filters PROVE filters[k].sign \in {"+", "-"}
  <2>1. CASE phase = "start"
    BY <1>1, <1>3, <2>1, LintAssumption DEF FilterInv
  <2>2. CASE phase \in {"file", "config"}
    BY <1>1, <1>3, <2>2 DEF FilterInv, AllSigned
  <2>3. CASE phase \in {"open", "lint"}
    BY <1>1, <1>3, <2>3 DEF FilterInv, AllSigned
  <2> QED
    BY <1>1, <1>3, <2>1, <2>2, <2>3 DEF TypeInv
<1> QED
  BY <1>1, <1>2, <1>3 DEF TypeOK, TypeInv, ResultInv

-----------------------------------------------------------------------------
(***************************************************************************)
(* The theorems.                                                           *)
(***************************************************************************)

\* For every command line, tree of configuration files and set of sources the process
\* stays within its types; above all, no filter without a sign is ever in force.
THEOREM LintTypes == Spec => []TypeOK
<1>1. LintInv /\ [Next]_vars => LintInv'
  BY LintInvStep
<1> QED
  BY LintInvInit, <1>1, LintInvTypes, PTL DEF Spec

\* Which errors are printed for a file depends on the flags, the CPPLINT.cfg files above
\* it and those of its own NOLINT comments that were parsed when the error was reported,
\* never on a file linted before it: ProcessConfigOverrides and the end of ProcessFile leave
\* no filter behind and ResetNolintSuppressions no suppression, excluded and unreadable
\* files included. Which of the comments are parsed by then - the lines up to the error,
\* and those CheckTrailingSemicolon and CheckForHeaderGuard parse ahead of it - is part of
\* what VerdictsAreLocal says.
THEOREM OtherFilesDoNotMatter == Spec => []VerdictsAreLocal
<1>1. LintInv /\ [Next]_vars => LintInv'
  BY LintInvStep
<1>2. LintInv => VerdictsAreLocal
  BY DEF LintInv, ResultInv
<1> QED
  BY LintInvInit, <1>1, <1>2, PTL DEF Spec

\* main exits with 0 only if nothing was printed for any of the files.
THEOREM ExitCodeIsHonest == Spec => []ExitCodeTells
<1>1. LintInv /\ [Next]_vars => LintInv'
  BY LintInvStep
<1>2. LintInv => ExitCodeTells
  BY DEF LintInv, ResultInv
<1> QED
  BY LintInvInit, <1>1, <1>2, PTL DEF Spec

-----------------------------------------------------------------------------
(***************************************************************************)
(* Expression.  Of the stack s, n is what is left without the angle        *)
(* brackets a: p says where the brackets of n are in it.                   *)
(***************************************************************************)
Embeds(p, s, n, a) ==
    /\ p \in [1 .. Len(n) -> 1 .. Len(s)]
    /\ \A i, j \in 1 .. Len(n) : i < j => p[i] < p[j]
    /\ \A i \in 1 .. Len(n) : s[p[i]] = n[i]
    /\ \A k \in 1 .. Len(s) : s[k] = a \/ \E i \in 1 .. Len(n) : p[i] = k

Agrees(s, n, a) ==
    /\ s # <<>> /\ s[1] # a
    /\ \A i \in 1 .. Len(n) : n[i] # a
    /\ \E p : Embeds(p, s, n, a)

LEMMA OneOrMore == \A k \in Nat : k >= 1 => k = 1 \/ k > 1
OBVIOUS

LEMMA AgreesNotEmpty ==
    ASSUME NEW T, NEW s \in Seq(T), NEW n \in Seq(T), NEW a, Agrees(s, n, a)
    PROVE  Len(n) >= 1 /\ Len(s) >= 1
<1>1. PICK p : Embeds(p, s, n, a)
  BY DEF Agrees
<1>2. Len(s) >= 1
  BY DEF Agrees
<1>3. \E i \in 1 .. Len(n) : p[i] = 1
  BY <1>1, <1>2 DEF Embeds, Agrees
<1> QED
  BY <1>2, <1>3

LEMMA AgreesOne ==
    ASSUME NEW T, NEW c \in T, NEW a, c # a
    PROVE  Agrees(<<c>>, <<c>>, a)
<1> DEFINE p == [i \in 1 .. 1 |-> 1]
<1>1. Embeds(p, <<c>>, <<c>>, a)
  BY DEF Embeds
<1> HIDE DEF p
<1> QED
  BY <1>1 DEF Agrees

LEMMA AgreesAppend ==
    ASSUME NEW T, NEW s \in Seq(T), NEW n \in Seq(T), NEW a, NEW c \in T, Agrees(s, n, a)
    PROVE  /\ c # a => Agrees(Append(s, c), Append(n, c), a)
           /\ c = a => Agrees(Append(s, c), n, a)
<1>1. PICK p : Embeds(p, s, n, a)
  BY DEF Agrees
<1>2. Len(s) \in Nat /\ Len(n) \in Nat /\ Len(s) >= 1
  BY AgreesNotEmpty
<1>3. /\ Append(s, c) \in Seq(T) /\ Len(Append(s, c)) = Len(s) + 1
      /\ \A k \in 1 .. Len(s) : Append(s, c)[k] = s[k]
      /\ Append(s, c)[Len(s) + 1] = c
  OBVIOUS
<1>4. /\ Append(n, c) \in Seq(T) /\ Len(Append(n, c)) = Len(n) + 1
      /\ \A k \in 1 .. Len(n) : Append(n, c)[k] = n[k]
      /\ Append(n, c)[Len(n) + 1] = c
  OBVIOUS
<1>5. Append(s, c) # <<>> /\ Append(s, c)[1] # a
  BY <1>2, <1>3 DEF Agrees
<1>6. CASE c # a
  <2> DEFINE q == [i \in 1 .. Len(n) + 1 |-> IF i = Len(n) + 1 THEN Len(s) + 1 ELSE p[i]]
  <2>1. /\ q[Len(n) + 1] = Len(s) + 1
        /\ \A i \in 1 .. Len(n) : q[i] = p[i] /\ p[i] \in 1 .. Len(s)
        /\ DOMAIN q = 1 .. Len(n) + 1
    BY <1>1, <1>2 DEF Embeds
  <2>2. q \in [1 .. Len(n) + 1 -> 1 .. Len(s) + 1]
    BY <1>1, <1>2 DEF Embeds
  <2> HIDE DEF q
  <2>3. ASSUME NEW i \in 1 .. Len(n) + 1, NEW j \in 1 .. Len(n) + 1, i < j
        PROVE  q[i] < q[j]
    <3>1. i \in 1 .. Len(n) /\ q[i] = p[i] /\ p[i] \in 1 .. Len(s)
      BY <1>2, <2>1, <2>3
    <3>2. CASE j = Len(n) + 1
      BY <3>1, <3>2, <2>1, <1>2
    <3>3. CASE j \in 1 .. Len(n)
      <4>1. p[i] < p[j] /\ q[j] = p[j]
        BY <3>1, <3>3, <2>1, <2>3, <1>1 DEF Embeds
      <4> QED
        BY <3>1, <4>1
    <3> QED
      BY <3>2, <3>3, <1>2
  <2>4. \A i \in 1 .. Len(n) + 1 : Append(s, c)[q[i]] = Append(n, c)[i]
    BY <1>1, <1>2, <1>3, <1>4, <2>1 DEF Embeds
  <2>5. \A k \in 1 .. Len(s) + 1 :
           Append(s, c)[k] = a \/ \E i \in 1 .. Len(n) + 1 : q[i] = k
    <3> SUFFICES ASSUME NEW k \in 1 .. Len(s) + 1, Append(s, c)[k] # a
                 PROVE  \E i \in 1 .. Len(n) + 1 : q[i] = k
      OBVIOUS
    <3>1. CASE k = Len(s) + 1
      BY <3>1, <2>1, <1>2
    <3>2. CASE k \in 1 .. Len(s)
      <4>1. PICK i \in 1 .. Len(n) : p[i] = k
        BY <3>2, <1>1, <1>3 DEF Embeds
      <4> QED
        BY <4>1, <2>1, <1>2
    <3> QED
      BY <3>1, <3>2, <1>2
  <2>6. Embeds(q, Append(s, c), Append(n, c), a)
    BY <1>3, <1>4, <2>2, <2>3, <2>4, <2>5 DEF Embeds
  <2>7. \A i \in 1 .. Len(Append(n, c)) : Append(n, c)[i] # a
    BY <1>2, <1>4, <1>6 DEF Agrees
  <2> QED
    BY <1>5, <1>6, <2>6, <2>7 DEF Agrees
<1>7. CASE c = a
  <2>1. Embeds(p, Append(s, c), n, a)
    <3>1. p \in [1 .. Len(n) -> 1 .. Len(s) + 1]
      BY <1>1, <1>2 DEF Embeds
    <3>2. \A i \in 1 .. Len(n) : Append(s, c)[p[i]] = n[i]
      BY <1>1, <1>3 DEF Embeds
    <3>3. \A k \in 1 .. Len(s) + 1 : Append(s, c)[k] = a \/ \E i \in 1 .. Len(n) : p[i] = k
      BY <1>1, <1>2, <1>3, <1>7 DEF Embeds
    <3> QED
      BY <1>1, <1>3, <3>1, <3>2, <3>3 DEF Embeds
  <2> QED
    BY <1>5, <1>7, <2>1 DEF Agrees
<1> QED
  BY <1>6, <1>7

\* What is above the last bracket of n is angle brackets.
LEMMA AgreesTop ==
    ASSUME NEW T, NEW s \in Seq(T), NEW n \in Seq(T), NEW a, NEW p, Embeds(p, s, n, a),
           Agrees(s, n, a)
    PROVE  /\ p[Len(n)] \in 1 .. Len(s)
           /\ s[p[Len(n)]] # a /\ s[p[Len(n)]] = n[Len(n)]
           /\ \A k \in 1 .. Len(s) : s[k] # a => k <= p[Len(n)]
           /\ p[Len(n)] = 1 <=> Len(n) = 1
<1>1. Len(n) \in Nat /\ Len(n) >= 1 /\ Len(s) \in Nat
  BY AgreesNotEmpty
<1>2. p[Len(n)] \in 1 .. Len(s) /\ s[p[Len(n)]] = n[Len(n)] /\ n[Len(n)] # a
  BY <1>1 DEF Embeds, Agrees
<1>3. ASSUME NEW k \in 1 .. Len(s), s[k] # a PROVE k <= p[Len(n)]
  <2>1. PICK i \in 1 .. Len(n) : p[i] = k
    BY <1>3 DEF Embeds
  <2>2. i = Len(n) \/ i < Len(n)
    BY <1>1
  <2>3. i < Len(n) => p[i] < p[Len(n)]
    BY <1>1 DEF Embeds
  <2> QED
    BY <1>2, <2>1, <2>2, <2>3
<1>5. Len(n) > 1 => p[1] < p[Len(n)]
  BY <1>1 DEF Embeds
<1>6. p[1] \in 1 .. Len(s)
  BY <1>1 DEF Embeds
<1>7. p[Len(n)] = 1 => Len(n) = 1
  <2>1. Len(n) = 1 \/ Len(n) > 1
    BY <1>1, OneOrMore
  <2>2. Len(n) > 1 => p[Len(n)] > 1
    BY <1>2, <1>5, <1>6
  <2> QED
    BY <2>1, <2>2
<1>4. PICK i \in 1 .. Len(n) : p[i] = 1
  BY <1>1, AgreesNotEmpty DEF Embeds, Agrees
<1>8. Len(n) = 1 => p[Len(n)] = 1
  BY <1>4
<1> QED
  BY <1>2, <1>3, <1>7, <1>8

\* Popping.
LEMMA AgreesCut ==
    ASSUME NEW T, NEW s \in Seq(T), NEW n \in Seq(T), NEW a, NEW p, Embeds(p, s, n, a),
           Agrees(s, n, a), NEW m \in p[Len(n)] .. Len(s)
    PROVE  /\ SubSeq(s, 1, m) \in Seq(T) /\ Len(SubSeq(s, 1, m)) = m
           /\ \A k \in 1 .. m : SubSeq(s, 1, m)[k] = s[k]
           /\ Agrees(SubSeq(s, 1, m), n, a)
           /\ Embeds(p, SubSeq(s, 1, m), n, a)
<1>1. Len(n) \in Nat /\ Len(n) >= 1 /\ Len(s) \in Nat
  BY AgreesNotEmpty
<1>2. p[Len(n)] \in 1 .. Len(s)
  BY AgreesTop
<1>3. m \in 1 .. Len(s)
  BY <1>1, <1>2
<1>4. /\ SubSeq(s, 1, m) \in Seq(T) /\ Len(SubSeq(s, 1, m)) = m
      /\ \A k \in 1 .. m : SubSeq(s, 1, m)[k] = s[k]
  BY <1>1, <1>3
<1>5. ASSUME NEW i \in 1 .. Len(n) PROVE p[i] \in 1 .. m
  <2>1. p[i] \in 1 .. Len(s) /\ (i < Len(n) => p[i] < p[Len(n)])
    BY <1>1, <1>5 DEF Embeds
  <2> QED
    BY <2>1, <1>1, <1>2, <1>5
<1>6. p \in [1 .. Len(n) -> 1 .. m]
  BY <1>5 DEF Embeds
<1>7. Embeds(p, SubSeq(s, 1, m), n, a)
  <2>1. \A i \in 1 .. Len(n) : SubSeq(s, 1, m)[p[i]] = n[i]
    BY <1>4, <1>5 DEF Embeds
  <2>2. \A k \in 1 .. m : SubSeq(s, 1, m)[k] = a \/ \E i \in 1 .. Len(n) : p[i] = k
    BY <1>1, <1>3, <1>4 DEF Embeds
  <2> QED
    BY <1>4, <1>6, <2>1, <2>2 DEF Embeds
<1>8. SubSeq(s, 1, m) # <<>> /\ SubSeq(s, 1, m)[1] # a
  BY <1>3, <1>4 DEF Agrees
<1> QED
  BY <1>4, <1>7, <1>8 DEF Agrees

LEMMA AgreesFront ==
    ASSUME NEW T, NEW s \in Seq(T), NEW n \in Seq(T), NEW a, NEW p, Embeds(p, s, n, a),
           Agrees(s, n, a), p[Len(n)] = Len(s), Len(n) > 1
    PROVE  Agrees(Front(s), Front(n), a)
<1>1. Len(n) \in Nat /\ Len(s) \in Nat /\ Len(s) > 1
  BY AgreesNotEmpty, AgreesTop
<1>2. /\ Front(s) \in Seq(T) /\ Len(Front(s)) = Len(s) - 1
      /\ \A k \in 1 .. Len(s) - 1 : Front(s)[k] = s[k]
  BY <1>1 DEF Front
<1>3. /\ Front(n) \in Seq(T) /\ Len(Front(n)) = Len(n) - 1
      /\ \A k \in 1 .. Len(n) - 1 : Front(n)[k] = n[k]
  BY <1>1 DEF Front
<1> DEFINE q == [i \in 1 .. Len(n) - 1 |-> p[i]]
<1>4. ASSUME NEW i \in 1 .. Len(n) - 1 PROVE p[i] \in 1 .. Len(s) - 1 /\ q[i] = p[i]
  <2>1. p[i] \in 1 .. Len(s) /\ p[i] < p[Len(n)]
    BY <1>1, <1>4 DEF Embeds
  <2> QED
    BY <2>1, <1>1
<1>5. q \in [1 .. Len(n) - 1 -> 1 .. Len(s) - 1]
  BY <1>4
<1> HIDE DEF q
<1>6. \A i, j \in 1 .. Len(n) - 1 : i < j => q[i] < q[j]
  BY <1>1, <1>4 DEF Embeds
<1>7. \A i \in 1 .. Len(n) - 1 : Front(s)[q[i]] = Front(n)[i]
  <2> SUFFICES ASSUME NEW i \in 1 .. Len(n) - 1 PROVE Front(s)[q[i]] = Front(n)[i]
    OBVIOUS
  <2>1. s[p[i]] = n[i]
    BY <1>1 DEF Embeds
  <2>2. Front(s)[p[i]] = s[p[i]] /\ Front(n)[i] = n[i]
    BY <1>2, <1>3, <1>4
  <2> QED
    BY <2>1, <2>2, <1>4
<1>8. ASSUME NEW k \in 1 .. Len(s) - 1, Front(s)[k] # a
      PROVE  \E i \in 1 .. Len(n) - 1 : q[i] = k
  <2>1. PICK i \in 1 .. Len(n) : p[i] = k
    BY <1>1, <1>2, <1>8 DEF Embeds
  <2>2. i # Len(n)
    BY <2>1, <1>1
  <2> QED
    BY <2>1, <2>2, <1>1, <1>4
<1>9. Embeds(q, Front(s), Front(n), a)
  BY <1>2, <1>3, <1>5, <1>6, <1>7, <1>8 DEF Embeds
<1>10. Front(s) # <<>> /\ Front(s)[1] # a
  BY <1>1, <1>2 DEF Agrees
<1>11. \A i \in 1 .. Len(Front(n)) : Front(n)[i] # a
  BY <1>1, <1>3 DEF Agrees
<1> QED
  BY <1>9, <1>10, <1>11 DEF Agrees

Brackets == Expr!Opens \cup {Expr!Angle}
WayOK == way \in {"forward", "backward"}
Characters == IF way = "forward" THEN Expr!Forward ELSE Expr!Backward

LEMMA Letters ==
    ASSUME WayOK
    PROVE  /\ Expr!Angle \notin Expr!Opens /\ Expr!Angle \notin Expr!Closes
           /\ "bad" \notin Brackets
           /\ \A c \in Expr!Closes : Expr!Other(c) \in Expr!Opens /\ c \notin Brackets
           /\ Expr!Other(Expr!Other(Expr!Angle)) = Expr!Angle
           /\ Expr!Other(Expr!Angle) \notin Brackets \cup Expr!Closes
<1>1. CASE way = "forward"
  BY <1>1 DEF Brackets, Expr!Angle, Expr!Opens, Expr!Closes, Expr!Opening, Expr!Closing,
     Expr!Other
<1>2. CASE way = "backward"
  BY <1>2 DEF Brackets, Expr!Angle, Expr!Opens, Expr!Closes, Expr!Opening, Expr!Closing,
     Expr!Other
<1> QED
  BY <1>1, <1>2 DEF WayOK

LEMMA ExprLibrary ==
    /\ \A s : Expr!Last(s) = Last(s) /\ Expr!Front(s) = Front(s)
    /\ \A S : Expr!Max(S) = Max(S)
BY DEF Expr!Last, Last, Expr!Front, Front, Expr!Max, Max

LEMMA FrontIs ==
    ASSUME NEW T, NEW s \in Seq(T), Len(s) >= 1
    PROVE  /\ Front(s) \in Seq(T) /\ Len(Front(s)) = Len(s) - 1
           /\ \A k \in 1 .. Len(s) - 1 : Front(s)[k] = s[k]
           /\ Front(s) = SubSeq(s, 1, Len(s) - 1)
<1>1. Len(s) - 1 \in Nat /\ Len(s) - 1 <= Len(s) /\ Len(s) \in Nat
  OBVIOUS
<1> DEFINE l == Len(s) - 1
<1>2. l \in Nat /\ l <= Len(s)
  BY <1>1
<1> HIDE DEF l
<1>3. /\ SubSeq(s, 1, l) \in Seq(T) /\ Len(SubSeq(s, 1, l)) = l
      /\ \A k \in 1 .. l : SubSeq(s, 1, l)[k] = s[k]
  BY <1>2
<1> QED
  BY <1>3 DEF Front, l

LEMMA WithoutAnglesTyped ==
    ASSUME NEW T, NEW s \in Seq(T)
    PROVE  /\ Expr!WithoutAngles(s) \in Seq(T)
           /\ Len(Expr!WithoutAngles(s)) \in 0 .. Len(s)
<1> DEFINE K == {k \in DOMAIN s : s[k] # Expr!Angle}
           m == IF K = {} THEN 0 ELSE Max(K)
<1>1. Len(s) \in Nat /\ DOMAIN s = 1 .. Len(s)
  OBVIOUS
<1>2. K \in SUBSET (1 .. Len(s))
  BY <1>1
<1>3. m \in 0 .. Len(s)
  <2> HIDE DEF K
  <2>1. K # {} => Max(K) \in 1 .. Len(s)
    BY <1>1, <1>2, MaxIs
  <2> QED
    BY <1>1, <2>1
<1>4. Expr!WithoutAngles(s) = SubSeq(s, 1, m)
  BY ExprLibrary DEF Expr!WithoutAngles
<1> HIDE DEF m
<1> QED
  BY <1>1, <1>3, <1>4

LEMMA WithoutAnglesIs ==
    ASSUME NEW T, NEW s \in Seq(T), NEW n \in Seq(T), NEW p, Embeds(p, s, n, Expr!Angle),
           Agrees(s, n, Expr!Angle)
    PROVE  Expr!WithoutAngles(s) = SubSeq(s, 1, p[Len(n)])
<1> DEFINE K == {k \in DOMAIN s : s[k] # Expr!Angle}
<1>1. Len(s) \in Nat /\ DOMAIN s = 1 .. Len(s)
  OBVIOUS
<1>2. K \in SUBSET (1 .. Len(s))
  BY <1>1
<1>3. /\ p[Len(n)] \in 1 .. Len(s) /\ s[p[Len(n)]] # Expr!Angle
      /\ \A k \in 1 .. Len(s) : s[k] # Expr!Angle => k <= p[Len(n)]
  BY AgreesTop
<1>4. p[Len(n)] \in K /\ \A k \in K : k <= p[Len(n)]
  BY <1>1, <1>3
<1>5. Max(K) = p[Len(n)] /\ K # {}
  <2> HIDE DEF K
  <2>1. Max(K) \in K /\ \A k \in K : k <= Max(K)
    BY <1>1, <1>2, <1>4, MaxIs
  <2>2. Max(K) <= p[Len(n)] /\ p[Len(n)] <= Max(K)
    BY <2>1, <1>4
  <2>3. Max(K) \in 1 .. Len(s) /\ p[Len(n)] \in 1 .. Len(s)
    BY <2>1, <1>2, <1>3
  <2> QED
    BY <2>2, <2>3, <1>4
<1> QED
  BY <1>5, ExprLibrary DEF Expr!WithoutAngles

\* What a step leaves, of the brackets of all kinds and of those without angle brackets.
Result(r, n) ==
    \/ r.found = "no" /\ n \in Seq(Expr!Opens) /\ Agrees(r.stack, n, Expr!Angle)
    \/ r.found = "here" /\ r.stack = <<>> /\ n = <<>>
    \/ r.found = "never" /\ r.stack = <<>> /\ n = <<"bad">>

LEMMA StripKeeps ==
    ASSUME WayOK, NEW s \in Seq(Brackets), NEW n \in Seq(Expr!Opens),
           Agrees(s, n, Expr!Angle)
    PROVE  LET rest == Expr!WithoutAngles(s) IN
           /\ rest \in Seq(Brackets) /\ rest # <<>> /\ Len(rest) >= 1 /\ Len(n) >= 1
           /\ Agrees(rest, n, Expr!Angle)
           /\ Last(rest) = Last(n)
           /\ Len(rest) = 1 <=> Len(n) = 1
           /\ Len(n) > 1 => Agrees(Front(rest), Front(n), Expr!Angle)
<1> DEFINE rest == Expr!WithoutAngles(s)
<1>0. n \in Seq(Brackets)
  BY DEF Brackets
<1>1. PICK p : Embeds(p, s, n, Expr!Angle)
  BY DEF Agrees
<1>2. Len(n) \in Nat /\ Len(n) >= 1 /\ Len(s) \in Nat
  BY <1>0, AgreesNotEmpty
<1>3. /\ p[Len(n)] \in 1 .. Len(s) /\ s[p[Len(n)]] = n[Len(n)]
      /\ p[Len(n)] = 1 <=> Len(n) = 1
  BY <1>0, <1>1, AgreesTop
<1>4. rest = SubSeq(s, 1, p[Len(n)])
  BY <1>0, <1>1, WithoutAnglesIs
<1>5. p[Len(n)] \in p[Len(n)] .. Len(s)
  BY <1>2, <1>3
<1>6. /\ rest \in Seq(Brackets) /\ Len(rest) = p[Len(n)]
      /\ \A k \in 1 .. p[Len(n)] : rest[k] = s[k]
      /\ Agrees(rest, n, Expr!Angle) /\ Embeds(p, rest, n, Expr!Angle)
  BY <1>0, <1>1, <1>4, <1>5, AgreesCut
<1> HIDE DEF rest
<1>7. Last(rest) = Last(n)
  BY <1>3, <1>6 DEF Last
<1>8. Len(n) > 1 => Agrees(Front(rest), Front(n), Expr!Angle)
  BY <1>0, <1>6, AgreesFront
<1>9. rest # <<>> /\ Len(rest) >= 1
  BY <1>3, <1>6
<1>10. /\ rest \in Seq(Brackets) /\ rest # <<>> /\ Len(rest) >= 1 /\ Len(n) >= 1
       /\ Agrees(rest, n, Expr!Angle)
       /\ Last(rest) = Last(n)
       /\ Len(rest) = 1 <=> Len(n) = 1
       /\ Len(n) > 1 => Agrees(Front(rest), Front(n), Expr!Angle)
  BY <1>2, <1>3, <1>6, <1>7, <1>8, <1>9
<1> QED
  BY <1>10, Zenon DEF rest

LEMMA NotBad ==
    ASSUME WayOK, NEW n \in Seq(Expr!Opens)
    PROVE  n # <<"bad">>
<1>1. n = <<"bad">> => Len(n) = 1 /\ n[1] = "bad"
  OBVIOUS
<1>2. Len(n) = 1 => n[1] \in Expr!Opens
  OBVIOUS
<1>3. "bad" \notin Expr!Opens
  BY Letters DEF Brackets
<1> QED
  BY <1>1, <1>2, <1>3

LEMMA ClosedMatches ==
    ASSUME WayOK, NEW s \in Seq(Brackets), NEW n \in Seq(Expr!Opens),
           Agrees(s, n, Expr!Angle), NEW c \in Expr!Closes
    PROVE  Result(Expr!Closed(s, c), Expr!Nest(n, c))
<1> DEFINE rest == Expr!WithoutAngles(s)
<1>1. /\ rest \in Seq(Brackets) /\ rest # <<>> /\ Len(rest) >= 1 /\ Len(n) >= 1
      /\ Last(rest) = Last(n)
      /\ Len(rest) = 1 <=> Len(n) = 1
      /\ Len(n) > 1 => Agrees(Front(rest), Front(n), Expr!Angle)
  BY StripKeeps
<1>2. c \notin Expr!Opens /\ n # <<"bad">> /\ n # <<>>
  BY Letters, NotBad, <1>1 DEF Brackets
<1>3. CASE Last(n) # Expr!Other(c)
  <2>1. Expr!Closed(s, c) = Expr!Fails
    BY <1>1, <1>3, ExprLibrary DEF Expr!Closed
  <2>2. Expr!Nest(n, c) = <<"bad">>
    BY <1>2, <1>3, ExprLibrary DEF Expr!Nest
  <2> QED
    BY <2>1, <2>2 DEF Result, Expr!Fails
<1>4. CASE Last(n) = Expr!Other(c)
  <2>1. Expr!Closed(s, c) = Expr!Pops(rest, "here")
    BY <1>1, <1>4, ExprLibrary DEF Expr!Closed
  <2>2. Expr!Nest(n, c) = Front(n)
    BY <1>2, <1>4, ExprLibrary DEF Expr!Nest
  <2> HIDE DEF rest
  <2>3. Len(n) \in Nat /\ Len(rest) \in Nat
    BY <1>1
  <2>6. Len(rest) = 1 \/ Len(rest) > 1
    BY <2>3, <1>1, OneOrMore
  <2>4. CASE Len(n) > 1
    <3>1. Len(rest) > 1
      BY <2>3, <2>4, <2>6, <1>1
    <3>2. Expr!Closed(s, c) = Expr!Goes(Front(rest))
      BY <2>1, <3>1, ExprLibrary DEF Expr!Pops
    <3>3. Front(n) \in Seq(Expr!Opens)
      BY <1>1, FrontIs
    <3> QED
      BY <2>2, <2>4, <3>2, <3>3, <1>1 DEF Result, Expr!Goes
  <2>5. CASE Len(n) = 1
    <3>1. Expr!Closed(s, c) = [stack |-> <<>>, found |-> "here"]
      <4>0. Len(rest) = 1
        BY <2>5, <1>1
      <4>1. ~(Len(rest) > 1)
        BY <4>0
      <4> QED
        BY <2>1, <4>1 DEF Expr!Pops
    <3>2. Front(n) \in Seq(Expr!Opens) /\ Len(Front(n)) = 0
      BY <1>1, <2>5, FrontIs
    <3>3. Front(n) = <<>>
      BY <3>2
    <3> QED
      BY <2>2, <3>1, <3>3 DEF Result
  <2> QED
    BY <2>3, <2>4, <2>5, <1>1, OneOrMore
<1> QED
  BY <1>3, <1>4

LEMMA SemicolonMatches ==
    ASSUME WayOK, NEW s \in Seq(Brackets), NEW n \in Seq(Expr!Opens),
           Agrees(s, n, Expr!Angle)
    PROVE  Result(Expr!Semicolon(s), n)
<1>1. /\ Expr!WithoutAngles(s) # <<>>
      /\ Agrees(Expr!WithoutAngles(s), n, Expr!Angle)
  BY StripKeeps
<1> QED
  BY <1>1 DEF Expr!Semicolon, Result, Expr!Goes

LEMMA TopAnglePopped ==
    ASSUME WayOK, NEW s \in Seq(Brackets), NEW n \in Seq(Expr!Opens),
           Agrees(s, n, Expr!Angle), Expr!TopIsAngle(s), NEW e
    PROVE  Result(Expr!Pops(s, e), n)
<1>0. n \in Seq(Brackets)
  BY DEF Brackets
<1>1. PICK p : Embeds(p, s, n, Expr!Angle)
  BY DEF Agrees
<1>2. Len(n) \in Nat /\ Len(s) \in Nat /\ Len(s) >= 1
  BY <1>0, AgreesNotEmpty
<1>3. p[Len(n)] \in 1 .. Len(s) /\ s[p[Len(n)]] # Expr!Angle
  BY <1>0, <1>1, AgreesTop
<1>4. s[Len(s)] = Expr!Angle
  BY ExprLibrary DEF Expr!TopIsAngle, Last
<1>5. Len(s) > 1 /\ Len(s) - 1 \in p[Len(n)] .. Len(s)
  BY <1>2, <1>3, <1>4
<1>6. Agrees(SubSeq(s, 1, Len(s) - 1), n, Expr!Angle)
  BY <1>0, <1>1, <1>5, AgreesCut
<1>7. Front(s) = SubSeq(s, 1, Len(s) - 1)
  BY <1>2, FrontIs
<1>8. Expr!Pops(s, e) = Expr!Goes(Front(s))
  BY <1>5, ExprLibrary DEF Expr!Pops
<1> QED
  BY <1>6, <1>7, <1>8 DEF Result, Expr!Goes

LEMMA StayMatches ==
    ASSUME NEW s, NEW n \in Seq(Expr!Opens), Agrees(s, n, Expr!Angle)
    PROVE  Result(Expr!Goes(s), n)
BY DEF Result, Expr!Goes

LEMMA PushMatches ==
    ASSUME WayOK, NEW s \in Seq(Brackets), NEW n \in Seq(Expr!Opens),
           Agrees(s, n, Expr!Angle)
    PROVE  /\ Result(Expr!Goes(Append(s, Expr!Angle)), n)
           /\ \A c \in Expr!Opens : Result(Expr!Goes(Append(s, c)), Append(n, c))
<1>0. n \in Seq(Brackets) /\ Expr!Angle \in Brackets
  BY DEF Brackets
<1>1. Agrees(Append(s, Expr!Angle), n, Expr!Angle)
  BY <1>0, AgreesAppend
<1>2. ASSUME NEW c \in Expr!Opens
      PROVE  Result(Expr!Goes(Append(s, c)), Append(n, c))
  <2>1. c # Expr!Angle /\ c \in Brackets
    BY Letters DEF Brackets
  <2>2. Agrees(Append(s, c), Append(n, c), Expr!Angle)
    BY <1>0, <2>1, AgreesAppend
  <2>3. Append(n, c) \in Seq(Expr!Opens)
    OBVIOUS
  <2> QED
    BY <2>2, <2>3, StayMatches
<1> QED
  BY <1>1, <1>2, StayMatches

LEMMA StepMatches ==
    ASSUME WayOK, NEW s \in Seq(Brackets), NEW n \in Seq(Expr!Opens),
           Agrees(s, n, Expr!Angle), NEW c \in Characters
    PROVE  Result(Expr!Step(s, c), Expr!Nest(n, c))
<1>0. n # <<"bad">>
  BY NotBad
<1>1. c \in Expr!Opens => Expr!Nest(n, c) = Append(n, c)
  BY <1>0 DEF Expr!Nest
<1>2. c \notin Expr!Opens \cup Expr!Closes => Expr!Nest(n, c) = n
  BY <1>0 DEF Expr!Nest
<1>3. CASE way = "forward"
  <2>1. Expr!Step(s, c) = Expr!EndStep(s, c, before, word, word1)
    BY <1>3 DEF Expr!Step
  <2>2. Expr!Opens = Expr!Opening /\ Expr!Closes = Expr!Closing /\ Expr!Angle = "<"
    BY <1>3 DEF Expr!Opens, Expr!Closes, Expr!Angle
  <2>3. CASE c \in Expr!Opening
    <3>1. Expr!Step(s, c) = Expr!Goes(Append(s, c))
      BY <2>1, <2>3 DEF Expr!EndStep, Expr!Opening, Expr!Closing
    <3> QED
      BY <3>1, <2>2, <2>3, <1>1, PushMatches
  <2>4. CASE c \in Expr!Closing
    <3>1. Expr!Step(s, c) = Expr!Closed(s, c)
      BY <2>1, <2>4 DEF Expr!EndStep, Expr!Opening, Expr!Closing
    <3> QED
      BY <3>1, <2>2, <2>4, ClosedMatches
  <2>5. CASE c = "<"
    <3>1. Expr!Step(s, c) \in {Expr!Goes(s), Expr!Goes(Append(s, c))}
          \/ (Expr!TopIsAngle(s) /\ Expr!Step(s, c) = Expr!Pops(s, "never"))
      BY <2>1, <2>5 DEF Expr!EndStep, Expr!Opening, Expr!Closing
    <3>2. Expr!Nest(n, c) = n
      BY <1>2, <2>5, <2>2 DEF Expr!Opening, Expr!Closing
    <3> QED
      BY <3>1, <3>2, <2>2, <2>5, StayMatches, PushMatches, TopAnglePopped
  <2>6. CASE c = ">"
    <3>1. Expr!Step(s, c) = Expr!Goes(s)
          \/ (Expr!TopIsAngle(s) /\ Expr!Step(s, c) = Expr!Pops(s, "here"))
      BY <2>1, <2>6 DEF Expr!EndStep, Expr!Opening, Expr!Closing
    <3>2. Expr!Nest(n, c) = n
      BY <1>2, <2>6, <2>2 DEF Expr!Opening, Expr!Closing
    <3> QED
      BY <3>1, <3>2, StayMatches, TopAnglePopped
  <2>7. CASE c = ";"
    <3>1. Expr!Step(s, c) = Expr!Semicolon(s)
      BY <2>1, <2>7 DEF Expr!EndStep, Expr!Opening, Expr!Closing
    <3>2. Expr!Nest(n, c) = n
      BY <1>2, <2>7, <2>2 DEF Expr!Opening, Expr!Closing
    <3> QED
      BY <3>1, <3>2, SemicolonMatches
  <2>8. CASE c \notin Expr!Opening \cup Expr!Closing \cup {"<", ">", ";"}
    <3>1. Expr!Step(s, c) = Expr!Goes(s)
      BY <2>1, <2>8 DEF Expr!EndStep
    <3>2. Expr!Nest(n, c) = n
      BY <1>2, <2>8, <2>2
    <3> QED
      BY <3>1, <3>2, StayMatches
  <2> QED
    BY <2>3, <2>4, <2>5, <2>6, <2>7, <2>8
<1>4. CASE way = "backward"
  <2>1. Expr!Step(s, c) = Expr!StartStep(s, c)
    BY <1>4 DEF Expr!Step
  <2>2. Expr!Opens = Expr!Closing /\ Expr!Closes = Expr!Opening /\ Expr!Angle = ">"
    BY <1>4 DEF Expr!Opens, Expr!Closes, Expr!Angle
  <2>3. CASE c \in Expr!Closing
    <3>1. Expr!Step(s, c) = Expr!Goes(Append(s, c))
      BY <2>1, <2>3 DEF Expr!StartStep, Expr!Opening, Expr!Closing
    <3> QED
      BY <3>1, <2>2, <2>3, <1>1, PushMatches
  <2>4. CASE c \in Expr!Opening
    <3>1. Expr!Step(s, c) = Expr!Closed(s, c)
      BY <2>1, <2>4 DEF Expr!StartStep, Expr!Opening, Expr!Closing
    <3> QED
      BY <3>1, <2>2, <2>4, ClosedMatches
  <2>5. CASE c = "<"
    <3>1. Expr!Step(s, c) = Expr!Goes(s)
          \/ (Expr!TopIsAngle(s) /\ Expr!Step(s, c) = Expr!Pops(s, "here"))
      BY <2>1, <2>5 DEF Expr!StartStep, Expr!Opening, Expr!Closing
    <3>2. Expr!Nest(n, c) = n
      BY <1>2, <2>5, <2>2 DEF Expr!Opening, Expr!Closing
    <3> QED
      BY <3>1, <3>2, StayMatches, TopAnglePopped
  <2>6. CASE c = ">"
    <3>1. Expr!Step(s, c) = Expr!Goes(Append(s, c))
      BY <2>1, <2>6 DEF Expr!StartStep, Expr!Opening, Expr!Closing
    <3>2. Expr!Nest(n, c) = n
      BY <1>2, <2>6, <2>2 DEF Expr!Opening, Expr!Closing
    <3> QED
      BY <3>1, <3>2, <2>2, <2>6, PushMatches
  <2>7. CASE c = ";"
    <3>1. Expr!Step(s, c) = Expr!Semicolon(s)
      BY <2>1, <2>7 DEF Expr!StartStep, Expr!Opening, Expr!Closing
    <3>2. Expr!Nest(n, c) = n
      BY <1>2, <2>7, <2>2 DEF Expr!Opening, Expr!Closing
    <3> QED
      BY <3>1, <3>2, SemicolonMatches
  <2>8. CASE c \notin Expr!Opening \cup Expr!Closing \cup {"<", ">", ";"}
    <3>1. Expr!Step(s, c) = Expr!Goes(s)
      BY <2>1, <2>8 DEF Expr!StartStep
    <3>2. Expr!Nest(n, c) = n
      BY <1>2, <2>8, <2>2
    <3> QED
      BY <3>1, <3>2, StayMatches
  <2> QED
    BY <2>3, <2>4, <2>5, <2>6, <2>7, <2>8
<1> QED
  BY <1>3, <1>4 DEF WayOK

StepOK(r) == r.stack \in Seq(Brackets) /\ r.found \in {"no", "here", "never"}

LEMMA PopsTyped ==
    ASSUME NEW s \in Seq(Brackets), NEW e \in {"here", "never"}
    PROVE  StepOK(Expr!Pops(s, e))
<1>1. CASE Len(s) > 1
  <2>1. Front(s) \in Seq(Brackets)
    BY <1>1, FrontIs
  <2> QED
    BY <1>1, <2>1, ExprLibrary DEF Expr!Pops, Expr!Goes, StepOK
<1>2. CASE ~(Len(s) > 1)
  BY <1>2 DEF Expr!Pops, StepOK
<1> QED
  BY <1>1, <1>2

LEMMA StepTyped ==
    ASSUME WayOK, NEW s \in Seq(Brackets), NEW c \in Characters
    PROVE  StepOK(Expr!Step(s, c))
<1>1. StepOK(Expr!Goes(s)) /\ StepOK(Expr!Fails)
  BY DEF StepOK, Expr!Goes, Expr!Fails
<1>2. \A d \in Brackets : StepOK(Expr!Goes(Append(s, d)))
  BY DEF StepOK, Expr!Goes
<1>3. Expr!WithoutAngles(s) \in Seq(Brackets)
  BY WithoutAnglesTyped
<1>4. StepOK(Expr!Closed(s, c)) /\ StepOK(Expr!Semicolon(s))
  <2>1. StepOK(Expr!Pops(Expr!WithoutAngles(s), "here"))
    BY <1>3, PopsTyped
  <2>2. StepOK(Expr!Goes(Expr!WithoutAngles(s)))
    BY <1>3 DEF StepOK, Expr!Goes
  <2>3. Expr!Closed(s, c) \in {Expr!Fails, Expr!Pops(Expr!WithoutAngles(s), "here")}
    BY DEF Expr!Closed
  <2>4. Expr!Semicolon(s) \in {Expr!Fails, Expr!Goes(Expr!WithoutAngles(s))}
    BY DEF Expr!Semicolon
  <2> QED
    BY <1>1, <2>1, <2>2, <2>3, <2>4
<1>5. StepOK(Expr!Pops(s, "here")) /\ StepOK(Expr!Pops(s, "never"))
  BY PopsTyped
<1>6. CASE way = "forward"
  <2>1. Brackets = Expr!Opening \cup {"<"}
    BY <1>6 DEF Brackets, Expr!Opens, Expr!Angle
  <2>2. Expr!EndStep(s, c, before, word, word1) \in
          {Expr!Goes(s), Expr!Closed(s, c), Expr!Semicolon(s), Expr!Pops(s, "here"),
           Expr!Pops(s, "never")}
          \cup {Expr!Goes(Append(s, d)) : d \in Brackets}
    BY <2>1 DEF Expr!EndStep
  <2> QED
    BY <1>1, <1>2, <1>4, <1>5, <1>6, <2>2 DEF Expr!Step
<1>7. CASE way = "backward"
  <2>1. Brackets = Expr!Closing \cup {">"}
    BY <1>7 DEF Brackets, Expr!Opens, Expr!Angle
  <2>2. Expr!StartStep(s, c) \in
          {Expr!Goes(s), Expr!Closed(s, c), Expr!Semicolon(s), Expr!Pops(s, "here")}
          \cup {Expr!Goes(Append(s, d)) : d \in Brackets}
    BY <2>1 DEF Expr!StartStep
  <2> QED
    BY <1>1, <1>2, <1>4, <1>5, <1>7, <2>2 DEF Expr!Step
<1> QED
  BY <1>6, <1>7 DEF WayOK

\* What is open after c in text of nested brackets.
NextAll(s, c) ==
    IF c \in Brackets THEN Append(s, c) ELSE IF c = "x" THEN s ELSE Front(s)

NestedResult(r, s) ==
    \/ r.found = "no" /\ r.stack = s /\ s # <<>>
    \/ r.found = "here" /\ s = <<>>

LEMMA PopsNested ==
    ASSUME NEW s \in Seq(Brackets), s # <<>>
    PROVE  NestedResult(Expr!Pops(s, "here"), Front(s))
<1>1. Len(s) \in Nat /\ Len(s) >= 1
  OBVIOUS
<1>2. /\ Front(s) \in Seq(Brackets) /\ Len(Front(s)) = Len(s) - 1
  BY <1>1, FrontIs
<1>3. CASE Len(s) > 1
  <2>1. Front(s) # <<>>
    <3>1. Len(Front(s)) > 0
      BY <1>1, <1>2, <1>3
    <3> QED
      BY <3>1
  <2> QED
    BY <1>3, <2>1, ExprLibrary DEF Expr!Pops, Expr!Goes, NestedResult
<1>4. CASE Len(s) = 1
  <2>1. Front(s) = <<>>
    <3>1. Len(Front(s)) = 0
      BY <1>2, <1>4
    <3> QED
      BY <1>2, <3>1
  <2>2. ~(Len(s) > 1)
    BY <1>4
  <2> QED
    BY <2>1, <2>2 DEF Expr!Pops, NestedResult
<1> QED
  BY <1>1, <1>3, <1>4, OneOrMore

LEMMA TopBracketStays ==
    ASSUME WayOK, NEW s \in Seq(Brackets), s # <<>>, Last(s) # Expr!Angle
    PROVE  Expr!WithoutAngles(s) = s
<1> DEFINE K == {k \in DOMAIN s : s[k] # Expr!Angle}
<1>1. Len(s) \in Nat /\ Len(s) >= 1 /\ DOMAIN s = 1 .. Len(s)
  OBVIOUS
<1>2. K \in SUBSET (1 .. Len(s)) /\ Len(s) \in K
  BY <1>1 DEF Last
<1>3. Max(K) = Len(s) /\ K # {}
  <2> HIDE DEF K
  <2>1. Max(K) \in K /\ Len(s) <= Max(K)
    BY <1>1, <1>2, MaxIs
  <2>2. Max(K) \in 1 .. Len(s)
    BY <2>1, <1>2
  <2>3. Max(K) = Len(s)
    BY <2>1, <2>2, <1>1
  <2> QED
    BY <2>3, <1>2
<1>4. SubSeq(s, 1, Len(s)) = s
  OBVIOUS
<1> QED
  BY <1>3, <1>4, ExprLibrary DEF Expr!WithoutAngles

LEMMA PlainStep ==
    ASSUME WayOK, open \in Seq(Brackets), open # <<>>, nested_in = open,
           ~word, ~word1, before # "-", NEW c \in Characters, Expr!StaysPlain(c)
    PROVE  NestedResult(Expr!Step(open, c), NextAll(open, c))
<1>1. /\ Expr!Angle \notin Expr!Opens \cup Expr!Closes
      /\ \A d \in Expr!Closes : Expr!Other(d) \in Expr!Opens /\ d \notin Brackets
      /\ Expr!Other(Expr!Other(Expr!Angle)) = Expr!Angle
      /\ Expr!Other(Expr!Angle) \notin Brackets \cup Expr!Closes
  BY Letters
<1>2. \A d \in Brackets : Append(open, d) # <<>>
  <2> SUFFICES ASSUME NEW d \in Brackets PROVE Append(open, d) # <<>>
    OBVIOUS
  <2>1. Len(Append(open, d)) = Len(open) + 1 /\ Len(open) \in Nat
    OBVIOUS
  <2>2. Len(Append(open, d)) # 0
    BY <2>1
  <2> QED
    BY <2>2
<1>3. CASE c = "x"
  <2>1. "x" \notin Brackets
    BY DEF Brackets, Expr!Opens, Expr!Angle, Expr!Opening, Expr!Closing
  <2>2. Expr!Step(open, c) = Expr!Goes(open)
    BY <1>3 DEF Expr!Step, Expr!EndStep, Expr!StartStep, Expr!Opening, Expr!Closing
  <2>3. NextAll(open, c) = open
    BY <1>3, <2>1 DEF NextAll
  <2> QED
    BY <2>2, <2>3 DEF NestedResult, Expr!Goes
<1>4. CASE c \in Brackets /\ (way = "forward" => before # "<")
  <2>1. Expr!Step(open, c) = Expr!Goes(Append(open, c))
    BY <1>4 DEF Expr!Step, Expr!EndStep, Expr!StartStep, Expr!Opening, Expr!Closing, Brackets,
       Expr!Opens, Expr!Angle, WayOK
  <2>2. NextAll(open, c) = Append(open, c)
    BY <1>4 DEF NextAll
  <2> QED
    BY <1>2, <1>4, <2>1, <2>2 DEF NestedResult, Expr!Goes
<1>5. CASE c \in Expr!Opens
  <2>1. Expr!Step(open, c) = Expr!Goes(Append(open, c))
    BY <1>5 DEF Expr!Step, Expr!EndStep, Expr!StartStep, Expr!Opening, Expr!Closing, Expr!Opens,
       WayOK
  <2>2. NextAll(open, c) = Append(open, c) /\ c \in Brackets
    BY <1>5 DEF NextAll, Brackets
  <2> QED
    BY <1>2, <2>1, <2>2 DEF NestedResult, Expr!Goes
<1>6. ASSUME c \in Expr!Closes \cup {Expr!Other(Expr!Angle)}, Last(open) = Expr!Other(c)
      PROVE  NestedResult(Expr!Step(open, c), NextAll(open, c))
  <2>1. c \notin Brackets
    BY <1>1, <1>6
  <2>2. NextAll(open, c) = Front(open)
    <3>1. c # "x"
      BY <1>6 DEF Expr!Closes, Expr!Other, Expr!Angle, Expr!Opening, Expr!Closing
    <3> QED
      BY <2>1, <3>1 DEF NextAll
  <2>3. CASE c \in Expr!Closes
    <3>1. Last(open) # Expr!Angle
      BY <1>1, <1>6, <2>3
    <3>2. Expr!WithoutAngles(open) = open
      BY <3>1, TopBracketStays
    <3>3. Expr!Closed(open, c) = Expr!Pops(open, "here")
      BY <1>6, <3>2, ExprLibrary DEF Expr!Closed
    <3>4. Expr!Step(open, c) = Expr!Closed(open, c)
      BY <2>3 DEF Expr!Step, Expr!EndStep, Expr!StartStep, Expr!Opening, Expr!Closing,
         Expr!Closes, WayOK
    <3> QED
      BY <2>2, <3>3, <3>4, PopsNested
  <2>4. CASE c = Expr!Other(Expr!Angle)
    <3>1. Expr!TopIsAngle(open)
      BY <1>1, <1>6, <2>4, ExprLibrary DEF Expr!TopIsAngle
    <3>2. Expr!Step(open, c) = Expr!Pops(open, "here")
      BY <2>4, <3>1 DEF Expr!Step, Expr!EndStep, Expr!StartStep, Expr!Opening, Expr!Closing,
         Expr!Other, Expr!Angle, WayOK
    <3> QED
      BY <2>2, <3>2, PopsNested
  <2> QED
    BY <1>6, <2>3, <2>4
<1>7. c = Expr!Angle => c \in Brackets
  BY DEF Brackets
<1> QED
  BY <1>3, <1>4, <1>5, <1>6, <1>7, ExprLibrary DEF Expr!StaysPlain

-----------------------------------------------------------------------------
MatchInv ==
    first \in Expr!Opens => Result([stack |-> open, found |-> outcome], nest)

TemplateInv ==
    first = Expr!Angle /\ proper =>
        /\ ~word /\ ~word1 /\ before # "-"
        /\ NestedResult([stack |-> open, found |-> outcome], nested_in)

ExprTypes ==
    /\ WayOK
    /\ open \in Seq(Brackets) /\ outcome \in {"no", "here", "never"}
    /\ proper \in BOOLEAN

ExprInv == ExprTypes /\ MatchInv /\ TemplateInv

LEMMA ExprInit == Expr!Init => ExprInv
<1> SUFFICES ASSUME Expr!Init PROVE ExprInv
  OBVIOUS
<1>1. WayOK /\ proper \in BOOLEAN /\ outcome = "no" /\ before = first /\ ~word
  BY DEF Expr!Init, Expr!InitForward, Expr!InitBackward, WayOK
<1>0. Expr!Goes(Append(<<>>, first)).stack = <<first>> /\ Expr!Goes(<<>>).stack = <<>>
  BY DEF Expr!Goes
<1>2. /\ open = <<>> \/ open = <<first>>
      /\ open = <<first>> => first \in Brackets
      /\ first \in Expr!Opens => open = <<first>>
      /\ first = Expr!Angle /\ open = <<first>> => ~word1
  <2>1. CASE Expr!InitForward
    <3>1. PICK char \in IF word1 THEN {" ", "operator"} ELSE {"<", "x"} :
             open = Expr!EndStep(<<>>, first, char, word1, FALSE).stack
      BY <2>1 DEF Expr!InitForward
    <3>2. /\ way = "forward" /\ first \in Expr!Opening \cup {"<"} /\ word1 \in BOOLEAN
      BY <2>1 DEF Expr!InitForward
    <3>6. ~Expr!TopIsAngle(<<>>)
      BY Zenon DEF Expr!TopIsAngle
    <3>4. CASE first \in Expr!Opening
      <4>0. Expr!EndStep(<<>>, first, char, word1, FALSE) = Expr!Goes(Append(<<>>, first))
        BY <3>4 DEF Expr!EndStep, Expr!Opening, Expr!Closing
      <4>1. open = <<first>>
        BY <1>0, <3>1, <4>0, Zenon
      <4> QED
        BY <3>2, <3>4, <4>1 DEF Brackets, Expr!Opens, Expr!Angle, Expr!Opening
    <3>5. CASE first = "<"
      <4>0. Expr!EndStep(<<>>, first, char, word1, FALSE) =
              IF char = "<" \/ word1 THEN Expr!Goes(<<>>) ELSE Expr!Goes(Append(<<>>, first))
        BY <3>5, <3>6 DEF Expr!EndStep, Expr!Opening, Expr!Closing
      <4>1. open = IF char = "<" \/ word1 THEN <<>> ELSE <<first>>
        BY <1>0, <3>1, <4>0, Zenon
      <4> QED
        BY <3>2, <3>5, <4>1 DEF Brackets, Expr!Opens, Expr!Angle, Expr!Opening
    <3> QED
      BY <3>2, <3>4, <3>5
  <2>2. CASE Expr!InitBackward
    <3>2. /\ way = "backward" /\ first \in Expr!Closing \cup {">", "->", ">=", "operator>"}
          /\ ~word1 /\ open = Expr!StartStep(<<>>, first).stack
      BY <2>2 DEF Expr!InitBackward
    <3>4. CASE first \in Expr!Closing \cup {">"}
      <4>0. Expr!StartStep(<<>>, first) = Expr!Goes(Append(<<>>, first))
        BY <3>4 DEF Expr!StartStep, Expr!Opening, Expr!Closing
      <4>1. open = <<first>>
        BY <1>0, <3>2, <4>0, Zenon
      <4> QED
        BY <3>2, <3>4, <4>1 DEF Brackets, Expr!Opens, Expr!Angle
    <3>5. CASE first \in {"->", ">=", "operator>"}
      <4>1. open = <<>>
        BY <3>2, <3>5 DEF Expr!StartStep, Expr!Goes, Expr!Opening, Expr!Closing
      <4>2. first \notin Expr!Opens
        BY <3>2, <3>5 DEF Expr!Opens, Expr!Closing
      <4> QED
        BY <4>1, <4>2
    <3> QED
      BY <3>2, <3>4, <3>5
  <2> QED
    BY <2>1, <2>2 DEF Expr!Init
<1>3. open \in Seq(Brackets)
  <2>1. first \in Brackets => <<first>> \in Seq(Brackets)
    OBVIOUS
  <2>2. <<>> \in Seq(Brackets)
    OBVIOUS
  <2> QED
    BY <1>2, <2>1, <2>2, Zenon
<1>4. MatchInv
  <2> SUFFICES ASSUME first \in Expr!Opens
               PROVE  Result([stack |-> open, found |-> outcome], nest)
    BY DEF MatchInv
  <2>1. nest = <<first>>
    BY DEF Expr!Init
  <2>2. first # Expr!Angle
    BY <1>1, Letters
  <2>3. Agrees(<<first>>, <<first>>, Expr!Angle)
    BY <2>2, AgreesOne
  <2> QED
    BY <1>1, <1>2, <2>1, <2>3 DEF Result
<1>5. TemplateInv
  <2> SUFFICES ASSUME first = Expr!Angle, proper
               PROVE  /\ ~word /\ ~word1 /\ before # "-"
                      /\ NestedResult([stack |-> open, found |-> outcome], nested_in)
    BY DEF TemplateInv
  <2>1. open = <<first>> /\ nested_in = open
    BY DEF Expr!Init
  <2>2. first # "-"
    BY DEF Expr!Angle
  <2> QED
    BY <1>1, <1>2, <2>1, <2>2 DEF NestedResult
<1> QED
  BY <1>1, <1>3, <1>4, <1>5 DEF ExprInv, ExprTypes

LEMMA ExprNext == ASSUME ExprInv, Expr!Next PROVE ExprInv'
<1>1. CASE Expr!ReadNext
  <2>1. /\ WayOK /\ open \in Seq(Brackets) /\ outcome = "no"
    BY <1>1 DEF ExprInv, ExprTypes, Expr!ReadNext
  <2>2. PICK c \in Characters : Expr!Read(c)
    BY <1>1 DEF Expr!ReadNext, Characters
  <2>3. /\ open' = Expr!Step(open, c).stack /\ outcome' = Expr!Step(open, c).found
        /\ nest' = Expr!Nest(nest, c)
        /\ proper' = (proper /\ Expr!StaysPlain(c))
        /\ nested_in' = IF ~proper' THEN <<>>
                        ELSE IF c \in Brackets THEN Append(nested_in, c)
                        ELSE IF c = "x" THEN nested_in ELSE Front(nested_in)
        /\ before' = c
        /\ word' = (c = "operator" \/ (c = " " /\ word))
        /\ word1' = (word /\ c # "operator")
        /\ way' = way /\ first' = first
    BY <2>2, ExprLibrary DEF Expr!Read, Brackets
  <2>4. /\ Brackets' = Brackets /\ Expr!Opens' = Expr!Opens /\ Expr!Angle' = Expr!Angle
        /\ WayOK'
    BY <2>1, <2>3 DEF Brackets, Expr!Opens, Expr!Angle, WayOK
  <2>5. ExprTypes'
    <3>1. StepOK(Expr!Step(open, c))
      BY <2>1, StepTyped
    <3> QED
      BY <2>3, <2>4, <3>1 DEF ExprTypes, StepOK
  <2>6. MatchInv'
    <3> SUFFICES ASSUME first' \in Expr!Opens'
                 PROVE  Result([stack |-> open, found |-> outcome], nest)'
      BY DEF MatchInv
    <3>1. Result([stack |-> open, found |-> outcome], nest)
      BY <2>3, <2>4 DEF ExprInv, MatchInv
    <3>2. nest \in Seq(Expr!Opens) /\ Agrees(open, nest, Expr!Angle)
      BY <2>1, <3>1 DEF Result
    <3>3. Result(Expr!Step(open, c), Expr!Nest(nest, c))
      BY <2>1, <3>2, StepMatches
    <3> QED
      BY <2>3, <2>4, <3>3 DEF Result
  <2>7. TemplateInv'
    <3> SUFFICES ASSUME first' = Expr!Angle', proper'
                 PROVE  /\ ~word' /\ ~word1' /\ before' # "-"
                        /\ NestedResult([stack |-> open, found |-> outcome], nested_in)'
      BY DEF TemplateInv
    <3>1. proper /\ Expr!StaysPlain(c) /\ first = Expr!Angle
      BY <2>3, <2>4
    <3>2. /\ ~word /\ ~word1 /\ before # "-"
          /\ open = nested_in /\ open # <<>>
      BY <2>1, <3>1 DEF ExprInv, TemplateInv, NestedResult
    <3>3. NestedResult(Expr!Step(open, c), NextAll(open, c))
      BY <2>1, <3>1, <3>2, PlainStep
    <3>4. nested_in' = NextAll(open, c)
      BY <2>3, <3>2 DEF NextAll
    <3>5. c # "operator" /\ c # "-"
      BY <2>1, <3>1 DEF Expr!StaysPlain, Expr!Opens, Expr!Closes, Expr!Angle, Expr!Opening,
         Expr!Closing, Expr!Other, WayOK
    <3> QED
      BY <2>3, <3>2, <3>3, <3>4, <3>5 DEF NestedResult
  <2> QED
    BY <2>5, <2>6, <2>7 DEF ExprInv
<1>2. CASE Expr!NextLine
  <2>1. /\ UNCHANGED <<way, open, outcome, first, nest, proper, nested_in>>
        /\ before' = "" /\ word' = FALSE /\ word1' = FALSE
    BY <1>2 DEF Expr!NextLine
  <2>2. /\ Brackets' = Brackets /\ Expr!Opens' = Expr!Opens /\ Expr!Angle' = Expr!Angle
        /\ (WayOK' <=> WayOK)
    BY <2>1 DEF Brackets, Expr!Opens, Expr!Angle, WayOK
  <2>3. Result([stack |-> open, found |-> outcome], nest)'
        <=> Result([stack |-> open, found |-> outcome], nest)
    BY <2>1, <2>2 DEF Result
  <2>4. NestedResult([stack |-> open, found |-> outcome], nested_in)'
        <=> NestedResult([stack |-> open, found |-> outcome], nested_in)
    BY <2>1 DEF NestedResult
  <2> QED
    BY <2>1, <2>2, <2>3, <2>4 DEF ExprInv, ExprTypes, MatchInv, TemplateInv
<1> QED
  BY <1>1, <1>2 DEF Expr!Next

LEMMA ExprStays == ASSUME ExprInv, UNCHANGED exprVars PROVE ExprInv'
<1>1. UNCHANGED <<way, open, outcome, before, word, word1, first, nest, proper, nested_in>>
  BY DEF exprVars
<1>2. /\ Brackets' = Brackets /\ Expr!Opens' = Expr!Opens /\ Expr!Angle' = Expr!Angle
      /\ (WayOK' <=> WayOK)
  BY <1>1 DEF Brackets, Expr!Opens, Expr!Angle, WayOK
<1>3. Result([stack |-> open, found |-> outcome], nest)'
      <=> Result([stack |-> open, found |-> outcome], nest)
  BY <1>1, <1>2 DEF Result
<1>4. NestedResult([stack |-> open, found |-> outcome], nested_in)'
      <=> NestedResult([stack |-> open, found |-> outcome], nested_in)
  BY <1>1 DEF NestedResult
<1> QED
  BY <1>1, <1>2, <1>3, <1>4 DEF ExprInv, ExprTypes, MatchInv, TemplateInv

LEMMA ExprInvImplies ==
    ASSUME ExprInv
    PROVE  BracketsFound /\ Expr!TypeOK
<1>1. /\ WayOK /\ open \in Seq(Brackets) /\ outcome \in {"no", "here", "never"}
  BY DEF ExprInv, ExprTypes
<1>2. ASSUME first \in Expr!Opens
      PROVE  /\ outcome = "here" <=> nest = <<>>
             /\ outcome = "never" <=> nest = <<"bad">>
             /\ outcome = "no" <=> open # <<>>
  <2>1. Result([stack |-> open, found |-> outcome], nest)
    BY <1>2 DEF ExprInv, MatchInv
  <2>2. CASE outcome = "no" /\ nest \in Seq(Expr!Opens) /\ Agrees(open, nest, Expr!Angle)
    <3>1. nest # <<"bad">>
      BY <1>1, <2>2, NotBad
    <3>2. Len(nest) >= 1
      <4>1. nest \in Seq(Brackets)
        BY <2>2 DEF Brackets
      <4> QED
        BY <1>1, <2>2, <4>1, AgreesNotEmpty
    <3>3. open # <<>>
      BY <2>2 DEF Agrees
    <3>4. nest # <<>>
      BY <3>2
    <3> QED
      BY <2>2, <3>1, <3>3, <3>4
  <2>3. CASE outcome = "here" /\ open = <<>> /\ nest = <<>>
    BY <2>3
  <2>4. CASE outcome = "never" /\ open = <<>> /\ nest = <<"bad">>
    BY <2>4
  <2> QED
    BY <2>1, <2>2, <2>3, <2>4 DEF Result
<1>3. ASSUME first = Expr!Angle, proper
      PROVE  (outcome = "here" <=> nested_in = <<>>) /\ outcome # "never"
  BY <1>3 DEF ExprInv, TemplateInv, NestedResult
<1>4. Expr!MatchFound /\ Expr!TemplateFound
  BY <1>2, <1>3 DEF Expr!MatchFound, Expr!TemplateFound
<1>5. Expr!TypeOK
  BY <1>1, <1>2 DEF Expr!TypeOK, WayOK, Brackets
<1> QED
  BY <1>4, <1>5 DEF BracketsFound

-----------------------------------------------------------------------------
(***************************************************************************)
(* FunctionState.                                                          *)
(***************************************************************************)
LEMMA Powers ==
    /\ Function!Power(0) = 1 /\ Function!Power(1) = 2 /\ Function!Power(2) = 4
    /\ Function!Power(3) = 8 /\ Function!Power(4) = 16 /\ Function!Power(5) = 32
BY DEF Function!Power

\* The limits for the verbosities grow.
LEMMA LimitsGrow ==
    ASSUME NEW b \in Nat \ {0}
    PROVE  /\ \A i \in 0 .. 5 : b * Function!Power(i) \in Nat
           /\ \A i, j \in 0 .. 5 : i <= j => b * Function!Power(i) <= b * Function!Power(j)
           /\ b <= b * Function!Power(0)
<1> DEFINE B(i) == b * Function!Power(i)
<1>1. /\ B(0) = b /\ B(1) = 2 * b /\ B(2) = 4 * b /\ B(3) = 8 * b /\ B(4) = 16 * b
      /\ B(5) = 32 * b
  BY Powers
<1> HIDE DEF B
<1>2. \A i \in 0 .. 5 : i = 0 \/ i = 1 \/ i = 2 \/ i = 3 \/ i = 4 \/ i = 5
  OBVIOUS
<1>3. \A i \in 0 .. 5 : B(i) \in Nat
  BY <1>1, <1>2
<1>4. B(0) <= B(1) /\ B(1) <= B(2) /\ B(2) <= B(3) /\ B(3) <= B(4) /\ B(4) <= B(5)
  BY <1>1
<1>5. ASSUME NEW i \in 0 .. 5, NEW j \in 0 .. 5, i <= j PROVE B(i) <= B(j)
  BY <1>1, <1>2, <1>5
<1>6. b <= B(0)
  BY <1>1
<1> QED
  BY <1>3, <1>5, <1>6 DEF B

\* The confidence is that of the verbosities whose limit is exceeded.
LEMMA ErrorLevelIs ==
    ASSUME NEW b \in Nat \ {0}, Function!base_trigger = b, NEW v \in 0 .. 5, verbose = v,
           lines_in_function \in Nat, Function!TooLong
    PROVE  Function!error_level \in 0 .. 5 /\ Function!error_level >= v
<1> DEFINE B(i) == b * Function!Power(i)
           Level(n) == /\ B(n) <= lines_in_function
                       /\ n = 5 \/ lines_in_function < B(n + 1)
<1>1. /\ \A i \in 0 .. 5 : B(i) \in Nat
      /\ \A i, j \in 0 .. 5 : i <= j => B(i) <= B(j)
  BY LimitsGrow
<1>2. B(v) < lines_in_function
  BY DEF Function!TooLong, Function!trigger
<1>3. Function!error_level = CHOOSE n \in 0 .. 5 : Level(n)
  BY DEF Function!error_level
<1> HIDE DEF B
<1>4. \E n \in 0 .. 5 : Level(n)
  <2>1. B(0) <= lines_in_function
    BY <1>1, <1>2
  <2>2. /\ B(0) \in Nat /\ B(1) \in Nat /\ B(2) \in Nat /\ B(3) \in Nat /\ B(4) \in Nat
        /\ B(5) \in Nat
    BY <1>1
  <2>3. CASE B(5) <= lines_in_function
    BY <2>3
  <2>4. CASE lines_in_function < B(1)
    BY <2>1, <2>4
  <2>5. CASE B(1) <= lines_in_function /\ lines_in_function < B(2)
    BY <2>5
  <2>6. CASE B(2) <= lines_in_function /\ lines_in_function < B(3)
    BY <2>6
  <2>7. CASE B(3) <= lines_in_function /\ lines_in_function < B(4)
    BY <2>7
  <2>8. CASE B(4) <= lines_in_function /\ lines_in_function < B(5)
    BY <2>8
  <2> HIDE DEF Level
  <2> QED
    BY <2>2, <2>3, <2>4, <2>5, <2>6, <2>7, <2>8
<1> DEFINE l == Function!error_level
<1>5. l \in 0 .. 5 /\ Level(l)
  <2> HIDE DEF Level
  <2> QED
    BY <1>3, <1>4
<1> HIDE DEF l
<1>6. l >= v
  <2> SUFFICES ASSUME l < v PROVE FALSE
    BY <1>5
  <2>1. l # 5 /\ l + 1 \in 0 .. 5 /\ l + 1 <= v
    BY <1>5
  <2>2. lines_in_function < B(l + 1)
    BY <1>5, <2>1
  <2>3. B(l + 1) <= B(v)
    BY <1>1, <2>1
  <2>4. B(l + 1) \in Nat /\ B(v) \in Nat
    BY <1>1, <2>1
  <2> QED
    BY <1>2, <2>2, <2>3, <2>4
<1> QED
  BY <1>5, <1>6 DEF l

\* Of a function without what looks like others inside it no line is counted that it
\* does not have.
Counted == body # -1 /\ simple = TRUE => in_a_function = TRUE /\ lines_in_function <= body

FuncNumbers ==
    /\ verbose \in VerboseLevels
    /\ lines_in_function \in 0 .. MaxBody /\ body \in -1 .. MaxBody
    /\ report \in -1 .. 5

FuncFlags ==
    /\ in_a_function \in BOOLEAN /\ is_test \in BOOLEAN /\ simple \in BOOLEAN
    /\ awaited \in {"", "brace", "stop", "nothing"}

FuncInv == FuncNumbers /\ FuncFlags /\ Counted

LEMMA BaseIs ==
    Function!base_trigger \in Nat \ {0} /\ VerboseLevels \subseteq 0 .. 5 /\ MaxBody \in Nat
BY FunctionAssumption DEF Function!FunctionAssumption, Function!base_trigger

LEMMA FuncTyped == FuncInv => Function!TypeOK
BY Zenon DEF FuncInv, FuncNumbers, FuncFlags, Function!TypeOK

LEMMA FuncInit == Function!Init => FuncInv
<1> SUFFICES ASSUME Function!Init PROVE FuncInv
  OBVIOUS
<1>1. FuncNumbers
  <2>1. /\ verbose \in VerboseLevels /\ lines_in_function = 0 /\ body = -1 /\ report = -1
    BY DEF Function!Init
  <2> QED
    BY <2>1, BaseIs DEF FuncNumbers
<1>2. FuncFlags
  BY Zenon DEF Function!Init, FuncFlags
<1>3. Counted
  BY DEF Function!Init, Counted
<1> QED
  BY <1>1, <1>2, <1>3 DEF FuncInv

LEMMA ReportedAtEnd ==
    ASSUME FuncNumbers, Function!EndLine
    PROVE  /\ report' \in -1 .. 5
           /\ report' # -1 => Function!TooLong /\ report' >= verbose
           /\ in_a_function = TRUE /\ Function!TooLong => report' >= verbose
<1>1. verbose \in 0 .. 5 /\ lines_in_function \in Nat
  BY BaseIs DEF FuncNumbers
<1>2. Function!TooLong => Function!error_level \in 0 .. 5 /\ Function!error_level >= verbose
  BY <1>1, BaseIs, ErrorLevelIs
<1> DEFINE long == Function!TooLong
           level == Function!error_level
<1>3. report' = IF in_a_function /\ long THEN level ELSE -1
  BY DEF Function!EndLine
<1> HIDE DEF long, level
<1>4. long => level \in 0 .. 5 /\ level >= verbose
  BY <1>2 DEF long, level
<1>5. CASE in_a_function /\ long
  BY <1>1, <1>3, <1>4, <1>5 DEF long
<1>6. CASE ~(in_a_function /\ long)
  BY <1>1, <1>3, <1>6 DEF long
<1> QED
  BY <1>5, <1>6

\* What the lines do to the numbers.
LEMMA NumbersStay ==
    ASSUME FuncNumbers, Function!ReadLine,
           lines_in_function' \in {lines_in_function, lines_in_function + 1, 0},
           body' \in {body, body + 1, 0, -1},
           report' \in -1 .. 5
    PROVE  FuncNumbers'
<1>1. lines_in_function' <= MaxBody /\ body' <= MaxBody /\ verbose' = verbose
  BY DEF Function!ReadLine
<1>2. MaxBody \in Nat /\ lines_in_function \in 0 .. MaxBody /\ body \in -1 .. MaxBody
  BY BaseIs DEF FuncNumbers
<1>3. verbose' \in VerboseLevels
  BY <1>1 DEF FuncNumbers
<1>4. lines_in_function' \in 0 .. MaxBody
  BY <1>1, <1>2
<1>5. body' \in -1 .. MaxBody
  BY <1>1, <1>2
<1> QED
  BY <1>3, <1>4, <1>5, Zenon DEF FuncNumbers

LEMMA FuncNext == ASSUME FuncInv, Function!ReadLine PROVE FuncInv'
<1>0. FuncNumbers /\ FuncFlags /\ Counted
  BY DEF FuncInv
<1>2. lines_in_function \in Nat /\ body \in -1 .. MaxBody /\ MaxBody \in Nat
  BY <1>0, BaseIs DEF FuncNumbers
<1>3. ASSUME NEW seen \in {"brace", "stop", "nothing"}, Function!Starts(seen),
             awaited' \in {"", "brace", "stop", "nothing"}
      PROVE  FuncInv'
  <2>1. report' = IF seen = "nothing" THEN 5 ELSE -1
    BY <1>3, Zenon DEF Function!Starts
  <2>2. report' \in -1 .. 5
    BY <2>1
  <2>3. CASE seen = "brace"
    <3>1. lines_in_function' = 0 /\ body' = 0
      BY <1>3, <2>3, Zenon DEF Function!Starts, Function!Begin
    <3>2. in_a_function' = TRUE /\ is_test' \in BOOLEAN /\ simple' = (body = -1)
      BY <1>3, <2>3, Zenon DEF Function!Starts
    <3>3. simple' \in BOOLEAN
      BY <3>2
    <3>4. FuncNumbers'
      BY <1>0, <2>2, <3>1, NumbersStay
    <3>5. FuncFlags'
      BY <1>3, <3>2, <3>3, Zenon DEF FuncFlags
    <3>6. Counted'
      BY <3>1, <3>2 DEF Counted
    <3> QED
      BY <3>4, <3>5, <3>6, Zenon DEF FuncInv
  <2>4. CASE seen # "brace"
    <3>1. UNCHANGED <<in_a_function, lines_in_function, is_test, simple>>
      BY <1>3, <2>4, Zenon DEF Function!Starts
    <3>2. body' = IF body = -1 THEN -1 ELSE body + 1
      BY <1>3, <2>4, Zenon DEF Function!Starts
    <3>3. /\ body' \in {body, body + 1}
          /\ body = -1 => body' = body
          /\ body # -1 => body' = body + 1
      BY <3>2
    <3>4. lines_in_function' = lines_in_function
      BY <3>1
    <3>5. FuncNumbers'
      BY <1>0, <1>2, <2>2, <3>3, <3>4, NumbersStay
    <3>6. FuncFlags'
      BY <1>0, <1>3, <3>1, Zenon DEF FuncFlags
    <3>7. body' # -1 => body # -1 /\ body' = body + 1
      BY <1>2, <3>3
    <3>8. Counted'
      <4>1. SUFFICES ASSUME body' # -1, simple' = TRUE
                     PROVE  in_a_function' = TRUE /\ lines_in_function' <= body'
        BY DEF Counted
      <4>2. in_a_function = TRUE /\ lines_in_function <= body
        BY <1>0, <3>1, <3>7, <4>1, Zenon DEF Counted
      <4>3. lines_in_function <= body /\ body \in Int /\ body' = body + 1
        BY <1>2, <3>7, <4>1, <4>2
      <4>4. lines_in_function' <= body'
        BY <1>2, <3>4, <4>3
      <4> QED
        BY <3>1, <4>2, <4>4, Zenon
    <3> QED
      BY <3>5, <3>6, <3>8, Zenon DEF FuncInv
  <2> QED
    BY <2>3, <2>4
<1>4. CASE Function!HeadLine
  BY <1>3, <1>4 DEF Function!HeadLine
<1>5. CASE Function!OpenLine
  BY <1>3, <1>5 DEF Function!OpenLine
<1>6. CASE Function!CallLine
  BY <1>3, <1>6 DEF Function!CallLine
<1>7. CASE Function!EndLine
  <2>1. report' \in -1 .. 5
    BY <1>0, <1>7, ReportedAtEnd
  <2>2. awaited' = "" /\ in_a_function' = FALSE /\ UNCHANGED <<is_test, simple>>
    BY <1>7, Zenon DEF Function!EndLine
  <2>3. body' = -1 /\ lines_in_function' = lines_in_function
    BY <1>7, Zenon DEF Function!EndLine
  <2>4. FuncNumbers'
    BY <1>0, <1>2, <2>1, <2>3, NumbersStay
  <2>5. FuncFlags'
    BY <1>0, <2>2, Zenon DEF FuncFlags
  <2>6. Counted'
    BY <2>3 DEF Counted
  <2> QED
    BY <2>4, <2>5, <2>6, Zenon DEF FuncInv
<1>8. ASSUME NEW line \in {"brace", "stop", "text", "blank"}, Function!OtherLine(line)
      PROVE  FuncInv'
  <2>1. /\ awaited' = IF Function!Found(line) THEN "" ELSE awaited
        /\ UNCHANGED <<in_a_function, is_test, simple>>
    BY <1>8, Zenon DEF Function!OtherLine
  <2> DEFINE blank == line = "blank"
  <2>2. /\ lines_in_function' = IF in_a_function /\ ~blank THEN lines_in_function + 1
                                ELSE lines_in_function
        /\ body' = IF body = -1 \/ blank THEN body ELSE body + 1
    BY <1>8, Zenon DEF Function!OtherLine
  <2> HIDE DEF blank
  <2>3. /\ body' \in {body, body + 1}
        /\ body = -1 \/ blank => body' = body
        /\ ~(body = -1 \/ blank) => body' = body + 1
    BY <2>2, Zenon
  <2>4. /\ lines_in_function' \in {lines_in_function, lines_in_function + 1}
        /\ blank => lines_in_function' = lines_in_function
    BY <2>2, Zenon
  <2>5. report' \in -1 .. 5
    <3>1. report' = -1
      BY <1>8, Zenon DEF Function!OtherLine
    <3> QED
      BY <3>1
  <2>6. FuncNumbers'
    BY <1>0, <1>2, <2>3, <2>4, <2>5, NumbersStay
  <2>7. FuncFlags'
    <3>1. awaited' \in {"", awaited}
      BY <2>1, Zenon
    <3> QED
      BY <1>0, <2>1, <3>1, Zenon DEF FuncFlags
  <2>8. body' # -1 => body # -1
    BY <2>3
  <2>9. lines_in_function <= body => body = -1 \/ lines_in_function' <= body'
    BY <1>2, <2>3, <2>4
  <2>10. Counted'
    BY <1>0, <2>1, <2>8, <2>9, Zenon DEF Counted
  <2> QED
    BY <2>6, <2>7, <2>10, Zenon DEF FuncInv
<1> QED
  BY <1>4, <1>5, <1>6, <1>7, <1>8 DEF Function!ReadLine

LEMMA FuncStays == ASSUME FuncInv, UNCHANGED funcVars PROVE FuncInv'
BY Zenon DEF FuncInv, FuncNumbers, FuncFlags, Counted, funcVars

LEMMA LongOnesShow ==
    ASSUME FuncInv, Function!EndLine, body # -1, simple
    PROVE  /\ report' # -1 => body > Function!trigger /\ report' >= verbose
           /\ body > Function!trigger /\ body = lines_in_function => report' >= verbose
<1>0. FuncNumbers /\ simple = TRUE /\ Counted
  BY Zenon DEF FuncInv, FuncFlags
<1>1. in_a_function = TRUE /\ lines_in_function <= body
  BY <1>0 DEF Counted
<1>2. body \in Int /\ lines_in_function \in Int /\ verbose \in 0 .. 5
  BY <1>0, BaseIs DEF FuncNumbers
<1>3. Function!trigger \in Nat
  BY <1>2, BaseIs, LimitsGrow DEF Function!trigger
<1>4. Function!TooLong <=> lines_in_function > Function!trigger
  BY DEF Function!TooLong
<1>5. /\ report' # -1 => Function!TooLong /\ report' >= verbose
      /\ Function!TooLong => report' >= verbose
  BY <1>0, <1>1, ReportedAtEnd
<1> QED
  BY <1>1, <1>2, <1>3, <1>4, <1>5

-----------------------------------------------------------------------------
(***************************************************************************)
(* HeaderGuard: the name, then the lines.                                  *)
(***************************************************************************)
LEMMA GuardLibrary ==
    /\ \A s : Guard!Front(s) = Front(s)
    /\ \A s, t : Guard!IsPrefix(s, t) <=> IsPrefix(s, t)
BY DEF Guard!Front, Front, Guard!IsPrefix, IsPrefix

LEMMA ConcatIs ==
    ASSUME NEW T, NEW s \in Seq(T), NEW t \in Seq(T)
    PROVE  /\ s \o t \in Seq(T) /\ Len(s \o t) = Len(s) + Len(t)
           /\ \A k \in 1 .. Len(s) : (s \o t)[k] = s[k]
           /\ \A k \in 1 .. Len(t) : (s \o t)[Len(s) + k] = t[k]
           /\ Len(s) \in Nat /\ Len(t) \in Nat
OBVIOUS

LEMMA ConcatOfNames ==
    \A s, t \in Seq(STRING) :
        /\ s \o t \in Seq(STRING) /\ Len(s \o t) = Len(s) + Len(t)
        /\ \A k \in 1 .. Len(s) : (s \o t)[k] = s[k]
        /\ \A k \in 1 .. Len(t) : (s \o t)[Len(s) + k] = t[k]
<1> TAKE s \in Seq(STRING), t \in Seq(STRING)
<1> QED
  BY ConcatIs

LEMMA SubSeqOf ==
    ASSUME NEW T, NEW s \in Seq(T), NEW m \in Nat, NEW n \in Nat, 1 <= m, n <= Len(s),
           m <= n + 1
    PROVE  /\ SubSeq(s, m, n) \in Seq(T) /\ Len(SubSeq(s, m, n)) = n - m + 1
           /\ \A k \in 1 .. n - m + 1 : SubSeq(s, m, n)[k] = s[m + k - 1]
OBVIOUS

\* What is below a directory is what follows it.
LEMMA BelowIs ==
    ASSUME NEW T, NEW d \in Seq(T), NEW h \in Seq(T)
    PROVE  Guard!Below(d, d \o h) = h
<1> DEFINE f == d \o h
           b == SubSeq(f, Len(d) + 1, Len(f))
<1>1. /\ f \in Seq(T) /\ Len(f) = Len(d) + Len(h) /\ Len(d) \in Nat /\ Len(h) \in Nat
      /\ \A k \in 1 .. Len(h) : f[Len(d) + k] = h[k]
  BY ConcatIs
<1> HIDE DEF f
<1>2. /\ b \in Seq(T) /\ Len(b) = Len(h)
      /\ \A k \in 1 .. Len(h) : b[k] = f[Len(d) + k]
  <2> DEFINE m == Len(d) + 1
             n == Len(f)
  <2>1. m \in Nat /\ n \in Nat /\ 1 <= m /\ n <= Len(f) /\ m <= n + 1 /\ n - m + 1 = Len(h)
    BY <1>1
  <2>2. \A k \in 1 .. Len(h) : m + k - 1 = Len(d) + k
    BY <1>1
  <2> HIDE DEF m, n
  <2>3. /\ SubSeq(f, m, n) \in Seq(T) /\ Len(SubSeq(f, m, n)) = n - m + 1
        /\ \A k \in 1 .. n - m + 1 : SubSeq(f, m, n)[k] = f[m + k - 1]
    BY <1>1, <2>1, SubSeqOf
  <2> QED
    BY <2>1, <2>2, <2>3 DEF m, n
<1>3. \A k \in 1 .. Len(h) : b[k] = h[k]
  BY <1>1, <1>2
<1> HIDE DEF b
<1>4. b = h
  BY <1>2, <1>3, SeqEqual
<1> QED
  BY <1>4 DEF Guard!Below, b, f

\* A path begins with a directory in a repository as the path in it does.
LEMMA PrefixBelow ==
    ASSUME NEW T, NEW p \in Seq(T), NEW r \in Seq(T), NEW h \in Seq(T)
    PROVE  IsPrefix(p \o r, p \o h) <=> IsPrefix(r, h)
<1>1. \A s, t \in Seq(T) :
        IsPrefix(s, t) <=> Len(s) <= Len(t) /\ \A k \in 1 .. Len(s) : s[k] = t[k]
  <2> SUFFICES ASSUME NEW s \in Seq(T), NEW t \in Seq(T), Len(s) <= Len(t)
               PROVE  SubSeq(s, 1, Len(s)) = SubSeq(t, 1, Len(s)) <=>
                        \A k \in 1 .. Len(s) : s[k] = t[k]
    BY DEF IsPrefix
  <2> DEFINE n == Len(s)
  <2>1. n \in Nat /\ n <= Len(t)
    OBVIOUS
  <2>2. SubSeq(s, 1, n) = s
    OBVIOUS
  <2> DEFINE u == SubSeq(t, 1, n)
  <2>3. u \in Seq(T) /\ Len(u) = n /\ \A k \in 1 .. n : u[k] = t[k]
    BY <2>1
  <2> HIDE DEF u
  <2>4. s = u <=> \A k \in 1 .. n : s[k] = u[k]
    BY <2>3, SeqEqual
  <2> QED
    BY <2>2, <2>3, <2>4 DEF u
<1> DEFINE a == p \o r
           b == p \o h
<1>2. /\ a \in Seq(T) /\ b \in Seq(T)
      /\ Len(a) = Len(p) + Len(r) /\ Len(b) = Len(p) + Len(h)
      /\ Len(p) \in Nat /\ Len(r) \in Nat /\ Len(h) \in Nat
  BY ConcatIs
<1>3. /\ \A k \in 1 .. Len(p) : a[k] = p[k] /\ b[k] = p[k]
      /\ \A k \in 1 .. Len(r) : a[Len(p) + k] = r[k]
      /\ \A k \in 1 .. Len(h) : b[Len(p) + k] = h[k]
  BY ConcatIs
<1> HIDE DEF a, b
<1>4. ASSUME Len(r) <= Len(h), \A k \in 1 .. Len(r) : r[k] = h[k]
      PROVE  \A k \in 1 .. Len(a) : a[k] = b[k]
  <2> SUFFICES ASSUME NEW k \in 1 .. Len(a) PROVE a[k] = b[k]
    OBVIOUS
  <2>1. CASE k <= Len(p)
    BY <1>2, <1>3, <2>1
  <2>2. CASE k > Len(p)
    <3> DEFINE j == k - Len(p)
    <3>1. j \in 1 .. Len(r) /\ j \in 1 .. Len(h) /\ k = Len(p) + j
      BY <1>2, <1>4, <2>2
    <3> HIDE DEF j
    <3> QED
      BY <1>3, <1>4, <3>1
  <2> QED
    BY <1>2, <2>1, <2>2
<1>5. ASSUME Len(a) <= Len(b), \A k \in 1 .. Len(a) : a[k] = b[k]
      PROVE  Len(r) <= Len(h) /\ \A k \in 1 .. Len(r) : r[k] = h[k]
  <2>1. Len(r) <= Len(h)
    BY <1>2, <1>5
  <2>2. ASSUME NEW k \in 1 .. Len(r) PROVE r[k] = h[k]
    <3>1. Len(p) + k \in 1 .. Len(a) /\ k \in 1 .. Len(h)
      BY <1>2, <2>1
    <3> QED
      BY <1>3, <1>5, <3>1
  <2> QED
    BY <2>1, <2>2
<1>6. Len(a) <= Len(b) <=> Len(r) <= Len(h)
  BY <1>2
<1>7. IsPrefix(a, b) <=> IsPrefix(r, h)
  BY <1>1, <1>2, <1>4, <1>5, <1>6
<1> QED
  BY <1>7 DEF a, b

GuardTree ==
    /\ place \in Places /\ control \in Control /\ root \in Roots
    /\ repository \in BOOLEAN

GuardWorld ==
    /\ Header \in Seq(STRING) /\ Len(Header) \in Nat /\ Len(Header) >= 1
    /\ place \in Seq(STRING) /\ Len(place) \in Nat /\ Len(place) >= 1
    /\ root \in Seq(STRING) /\ control.dirs \subseteq Seq(STRING)

LEMMA GuardWorldIs == GuardTree => GuardWorld
<1> SUFFICES ASSUME GuardTree PROVE GuardWorld
  OBVIOUS
<1>1. /\ Header \in Seq(STRING) /\ Header # <<>> /\ place \in Seq(STRING) /\ place # <<>>
      /\ root \in Seq(STRING) /\ control.dirs \subseteq Seq(STRING)
  BY GuardAssumption DEF GuardTree, Guard!GuardAssumption
<1>2. \A s \in Seq(STRING) : s # <<>> => Len(s) \in Nat /\ Len(s) >= 1
  OBVIOUS
<1> QED
  BY <1>1, <1>2 DEF GuardWorld

\* The directory of the file is below the one of the repository, with the same prefixes.
LEMMA ProjectDir ==
    ASSUME GuardWorld
    PROVE  /\ Guard!project_dir \in Seq(STRING)
           /\ Len(Guard!project_dir) = Len(place) + Len(Header) - 1
           /\ \A n \in 0 .. Len(Header) - 1 :
                SubSeq(Guard!project_dir, 1, Len(place) + n) = place \o SubSeq(Header, 1, n)
<1> DEFINE l == Len(Header) - 1
           f == place \o Header
           d == SubSeq(f, 1, Len(place) + l)
<1>0. l \in Nat /\ Len(place) \in Nat /\ Header \in Seq(STRING) /\ place \in Seq(STRING)
      /\ Len(Header) = l + 1
  BY DEF GuardWorld
<1> HIDE DEF l
<1>1. /\ f \in Seq(STRING) /\ Len(f) = Len(place) + l + 1
      /\ \A k \in 1 .. Len(place) : f[k] = place[k]
      /\ \A k \in 1 .. l + 1 : f[Len(place) + k] = Header[k]
  <2>1. /\ f \in Seq(STRING) /\ Len(f) = Len(place) + Len(Header)
        /\ \A k \in 1 .. Len(place) : f[k] = place[k]
        /\ \A k \in 1 .. Len(Header) : f[Len(place) + k] = Header[k]
    BY <1>0, ConcatOfNames, Zenon
  <2> HIDE DEF f
  <2> QED
    BY <1>0, <2>1
<1>2. Guard!project_dir = d
  <2>1. Len(f) - 1 = Len(place) + l
    BY <1>0, <1>1
  <2> HIDE DEF f
  <2>2. Front(f) = d
    BY <2>1 DEF Front
  <2> QED
    BY <2>2, GuardLibrary DEF f, Guard!project_dir, Guard!FullName
<1> HIDE DEF f
<1>3. /\ d \in Seq(STRING) /\ Len(d) = Len(place) + l
      /\ \A k \in 1 .. Len(place) + l : d[k] = f[k]
  <2> DEFINE n == Len(place) + l
  <2>1. n \in Nat /\ n <= Len(f)
    BY <1>0, <1>1
  <2> HIDE DEF n
  <2>2. /\ SubSeq(f, 1, n) \in Seq(STRING) /\ Len(SubSeq(f, 1, n)) = n
        /\ \A k \in 1 .. n : SubSeq(f, 1, n)[k] = f[k]
    BY <1>1, <2>1
  <2> QED
    BY <2>2 DEF n
<1> HIDE DEF d
<1>4. ASSUME NEW n \in 0 .. l
      PROVE  SubSeq(d, 1, Len(place) + n) = place \o SubSeq(Header, 1, n)
  <2> DEFINE m == Len(place) + n
             u == SubSeq(d, 1, m)
             h == SubSeq(Header, 1, n)
             v == place \o h
  <2>1. m \in Nat /\ m <= Len(d) /\ n \in Nat /\ n <= Len(Header)
    BY <1>0, <1>3
  <2>2. u \in Seq(STRING) /\ Len(u) = m /\ \A k \in 1 .. m : u[k] = d[k]
    <3> HIDE DEF m
    <3> QED
      BY <1>3, <2>1
  <2>3. h \in Seq(STRING) /\ Len(h) = n /\ \A k \in 1 .. n : h[k] = Header[k]
    BY <1>0, <2>1
  <2> HIDE DEF u, h
  <2>4. /\ v \in Seq(STRING) /\ Len(v) = m
        /\ \A k \in 1 .. Len(place) : v[k] = place[k]
        /\ \A k \in 1 .. n : v[Len(place) + k] = h[k]
    <3>1. /\ v \in Seq(STRING) /\ Len(v) = Len(place) + Len(h)
          /\ \A k \in 1 .. Len(place) : v[k] = place[k]
          /\ \A k \in 1 .. Len(h) : v[Len(place) + k] = h[k]
      BY <1>0, <2>3, ConcatOfNames, Zenon
    <3> HIDE DEF v
    <3> QED
      BY <2>3, <3>1
  <2> HIDE DEF v
  <2>5. \A k \in 1 .. m : u[k] = v[k]
    <3> SUFFICES ASSUME NEW k \in 1 .. m PROVE u[k] = v[k]
      OBVIOUS
    <3>1. u[k] = f[k]
      <4>1. k \in 1 .. Len(place) + l
        BY <1>0, <2>1
      <4> QED
        BY <1>3, <2>2, <4>1
    <3>2. CASE k <= Len(place)
      <4>1. k \in 1 .. Len(place)
        BY <1>0, <2>1, <3>2
      <4> QED
        BY <1>1, <2>4, <3>1, <4>1
    <3>3. CASE k > Len(place)
      <4> DEFINE j == k - Len(place)
      <4>1. j \in 1 .. n /\ j \in 1 .. l + 1 /\ k = Len(place) + j
        BY <1>0, <2>1, <3>3
      <4> HIDE DEF j
      <4> QED
        BY <1>1, <2>3, <2>4, <3>1, <4>1
    <3> QED
      BY <1>0, <2>1, <3>2, <3>3
  <2>6. u = v
    BY <2>2, <2>4, <2>5, SeqEqual
  <2> QED
    BY <2>6 DEF u, v, h
<1> QED
  BY <1>0, <1>2, <1>3, <1>4 DEF l

\* In a repository that can be recognised the header has its path in it, wherever that is.
LEMMA RepositoryNameIs ==
    ASSUME GuardTree, repository = TRUE \/ <<>> \in control.dirs
    PROVE  Guard!RepositoryName = Header
<1>0. GuardWorld
  BY GuardWorldIs
<1>1. Guard!Below(place, Guard!FullName) = Header
  BY <1>0, BelowIs DEF Guard!FullName, GuardWorld
<1> DEFINE below == Guard!project_dir
           l == Len(Header) - 1
<1>2. /\ below \in Seq(STRING) /\ Len(below) = Len(place) + l
      /\ l \in Nat /\ Len(place) \in Nat /\ Len(place) >= 1
      /\ \A n \in 0 .. l :
           SubSeq(below, 1, Len(place) + n) = place \o SubSeq(Header, 1, n)
  BY <1>0, ProjectDir DEF GuardWorld
<1> HIDE DEF below
<1>3. SubSeq(below, 1, Len(place)) = place /\ place \o <<>> = place
  <2>1. place \o <<>> = place
    BY <1>0 DEF GuardWorld
  <2>2. SubSeq(Header, 1, 0) = <<>>
    BY <1>0 DEF GuardWorld
  <2>3. 0 \in 0 .. l /\ Len(place) + 0 = Len(place)
    BY <1>2
  <2> QED
    BY <1>2, <2>1, <2>2, <2>3
<1>4. \A d : Guard!Controlled(d) => Len(d) >= Len(place)
  <2> SUFFICES ASSUME NEW c \in control.dirs PROVE Len(place \o c) >= Len(place)
    BY DEF Guard!Controlled
  <2>1. c \in Seq(STRING) /\ place \in Seq(STRING)
    BY <1>0 DEF GuardWorld
  <2>2. Len(place \o c) = Len(place) + Len(c) /\ Len(c) \in Nat
    BY <2>1, ConcatIs, Zenon
  <2> HIDE DEF GuardWorld
  <2> QED
    BY <1>2, <2>2
<1>5. ASSUME NEW D, place \in D, D \subseteq Guard!Upwards(below), \A d \in D : Guard!Controlled(d)
      PROVE  Guard!Outermost(D) = place
  <2> DEFINE o == Guard!Outermost(D)
  <2>1. \A e \in D : Len(place) <= Len(e)
    BY <1>4, <1>5
  <2>2. o \in D /\ \A e \in D : Len(o) <= Len(e)
    BY <1>5, <2>1 DEF Guard!Outermost
  <2> HIDE DEF o
  <2>3. PICK n \in 1 .. Len(below) : o = SubSeq(below, 1, n)
    BY <1>5, <2>2 DEF Guard!Upwards
  <2>4. Len(o) = n /\ n \in Nat
    BY <1>2, <2>3
  <2>5. n = Len(place)
    BY <1>2, <1>5, <2>1, <2>2, <2>4
  <2> QED
    BY <1>3, <2>3, <2>5 DEF o
<1>6. place \in Guard!Upwards(below)
  <2>1. Len(place) \in 1 .. Len(below)
    BY <1>2
  <2> QED
    BY <1>3, <2>1 DEF Guard!Upwards
<1>7. CASE repository = TRUE
  BY <1>1, <1>7 DEF Guard!RepositoryName
<1>8. CASE repository # TRUE
  <2>0. repository = FALSE /\ <<>> \in control.dirs
    BY <1>8 DEF GuardTree
  <2>1. Guard!Controlled(place)
    BY <1>3, <2>0 DEF Guard!Controlled
  <2> DEFINE D == {d \in Guard!Upwards(below) : Guard!Controlled(d)}
             E == {d \in Guard!Upwards(below) :
                     \A n \in Len(d) .. Len(below) : Guard!Controlled(SubSeq(below, 1, n))}
  <2>2. D # {} /\ Guard!Outermost(D) = place
    <3>1. /\ place \in D /\ D \subseteq Guard!Upwards(below)
          /\ \A d \in D : Guard!Controlled(d)
      BY <1>6, <2>1
    <3> HIDE DEF D
    <3> QED
      BY <1>5, <3>1
  <2>3. CASE control.svn /\ Guard!Controlled(below)
    <3>1. Front(Header) \in control.dirs
      <4>1. PICK c \in control.dirs : below = place \o c
        BY <2>3 DEF Guard!Controlled
      <4>2. c \in Seq(STRING) /\ place \in Seq(STRING) /\ Header \in Seq(STRING)
        BY <1>0 DEF GuardWorld
      <4>3. SubSeq(below, 1, Len(place) + l) = below
        BY <1>2
      <4>4. l \in 0 .. l
        BY <1>2
      <4> DEFINE h == SubSeq(Header, 1, l)
      <4>5. below = place \o h
        BY <1>2, <4>3, <4>4
      <4>6. h \in Seq(STRING)
        BY <1>2, <4>2
      <4> HIDE DEF h
      <4>7. Guard!Below(place, place \o h) = h /\ Guard!Below(place, place \o c) = c
        BY <4>2, <4>6, BelowIs, Zenon
      <4>8. h = c
        BY <4>1, <4>5, <4>7
      <4> QED
        BY <4>8 DEF h, Front
    <3>2. \A n \in 0 .. l : SubSeq(Header, 1, n) \in control.dirs
      BY <2>3, <3>1, GuardAssumption, GuardLibrary DEF Guard!GuardAssumption, GuardTree
    <3>3. \A n \in Len(place) .. Len(below) : Guard!Controlled(SubSeq(below, 1, n))
      <4> SUFFICES ASSUME NEW n \in Len(place) .. Len(below)
                   PROVE  Guard!Controlled(SubSeq(below, 1, n))
        OBVIOUS
      <4> DEFINE i == n - Len(place)
      <4>1. i \in 0 .. l /\ n = Len(place) + i
        BY <1>2
      <4> HIDE DEF i
      <4>2. SubSeq(below, 1, n) = place \o SubSeq(Header, 1, i)
        BY <1>2, <4>1
      <4> QED
        BY <3>2, <4>1, <4>2 DEF Guard!Controlled
    <3>4. place \in E
      BY <1>6, <3>3
    <3>5. \A d \in E : Guard!Controlled(d)
      <4> SUFFICES ASSUME NEW d \in E PROVE Guard!Controlled(d)
        OBVIOUS
      <4>1. PICK n \in 1 .. Len(below) : d = SubSeq(below, 1, n)
        BY DEF Guard!Upwards
      <4>2. Len(d) = n /\ n \in Len(d) .. Len(below)
        BY <1>2, <4>1
      <4> QED
        BY <4>1, <4>2
    <3>6. E \subseteq Guard!Upwards(below)
      OBVIOUS
    <3>7. Guard!SvnTop = Guard!Outermost(E)
      BY DEF Guard!SvnTop, below
    <3> HIDE DEF E
    <3>8. Guard!SvnTop = place
      BY <1>5, <3>4, <3>5, <3>6, <3>7
    <3>9. Guard!RepositoryName = Guard!Below(Guard!SvnTop, Guard!FullName)
      BY <2>0, <2>3 DEF Guard!RepositoryName, below
    <3> QED
      BY <1>1, <3>8, <3>9
  <2>4. CASE ~(control.svn /\ Guard!Controlled(below))
    <3>1. Guard!RepositoryName = Guard!Below(Guard!Outermost(D), Guard!FullName)
      BY <2>0, <2>2, <2>4 DEF Guard!RepositoryName, below
    <3> HIDE DEF D
    <3> QED
      BY <1>1, <2>2, <3>1
  <2> QED
    BY <2>3, <2>4
<1> QED
  BY <1>7, <1>8

LEMMA NamesArePortable == GuardTree => Guard!GuardIsPortable
<1> SUFFICES ASSUME GuardTree, repository = TRUE \/ <<>> \in control.dirs, root # <<"..">>
             PROVE  Guard!cppvar.path = IF Guard!IsPrefix(root, Header)
                                        THEN Guard!Below(root, Header) ELSE Header
  BY DEF Guard!GuardIsPortable, GuardTree
<1>1. Guard!RepositoryName = Header
  BY RepositoryNameIs
<1>2. Guard!cppvar.path = Guard!FixupPathFromRoot
  BY DEF Guard!cppvar
<1>3. Guard!IsPrefix(place \o root, Guard!FullName) <=> Guard!IsPrefix(root, Header)
  BY GuardWorldIs, GuardLibrary, PrefixBelow DEF GuardWorld, Guard!FullName
<1> QED
  BY <1>1, <1>2, <1>3 DEF Guard!FixupPathFromRoot

\* What was found of the guard is what a preprocessor finds, as long as all directives
\* are within it; after the check, its result is that of what was found.
GuardShape ==
    /\ shape = "before" => ifndef = Guard!None /\ define = Guard!None /\ depth = 0
    /\ shape = "opened" =>
         ifndef = guard /\ guard \in Guard!Names /\ define = Guard!None /\ depth = 1
    /\ shape = "inside" =>
         ifndef = guard /\ guard \in Guard!Names /\ define = guard /\ depth >= 1
    /\ shape = "closed" =>
         ifndef = guard /\ guard \in Guard!Names /\ define = guard /\ depth = 0 /\ endif = closing

GuardVerdict ==
    checked => verdict = IF excused THEN {}
                         ELSE IF ifndef = Guard!None \/ define # ifndef THEN {5}
                         ELSE Guard!NameReport \cup Guard!EndifReport

GuardInv == GuardTree /\ Guard!TypeOK /\ GuardShape /\ GuardVerdict

LEMMA NoneIsNoName == Guard!None \notin Guard!Names
<1>1. Header # <<>> /\ Alien # <<>>
  BY GuardAssumption DEF Guard!GuardAssumption
<1> QED
  BY <1>1 DEF Guard!None, Guard!Names

LEMMA ReportsStay ==
    ASSUME UNCHANGED <<place, control, repository, root>>,
           UNCHANGED <<ifndef, define, endif, single>>
    PROVE  Guard!NameReport' = Guard!NameReport /\ Guard!EndifReport' = Guard!EndifReport
<1>1. Guard!project_dir' = Guard!project_dir /\ Guard!FullName' = Guard!FullName
  BY DEF Guard!project_dir, Guard!FullName
<1>2. \A d : Guard!Controlled(d)' <=> Guard!Controlled(d)
  BY DEF Guard!Controlled
<1>3. Guard!SvnTop' = Guard!SvnTop
  BY <1>1, <1>2 DEF Guard!SvnTop
<1>4. Guard!RepositoryName' = Guard!RepositoryName
  BY <1>1, <1>2, <1>3 DEF Guard!RepositoryName
<1>5. Guard!FixupPathFromRoot' = Guard!FixupPathFromRoot
  BY <1>1, <1>4 DEF Guard!FixupPathFromRoot
<1>6. Guard!cppvar' = Guard!cppvar
  BY <1>5 DEF Guard!cppvar
<1>7. /\ Guard!IsCppvar(ifndef)' <=> Guard!IsCppvar(ifndef)
      /\ Guard!IsCppvar(endif.name)' <=> Guard!IsCppvar(endif.name)
  BY <1>6 DEF Guard!IsCppvar
<1> QED
  BY <1>7 DEF Guard!NameReport, Guard!EndifReport

LEMMA GuardInit == Guard!Init => GuardInv
<1> SUFFICES ASSUME Guard!Init PROVE GuardInv
  OBVIOUS
<1>1. GuardTree
  BY Zenon DEF Guard!Init, GuardTree
<1>2. Guard!TypeOK
  BY DEF Guard!Init, Guard!TypeOK, Guard!Comments
<1>3. GuardShape
  BY DEF Guard!Init, GuardShape
<1>4. GuardVerdict
  BY Zenon DEF Guard!Init, GuardVerdict
<1> QED
  BY <1>1, <1>2, <1>3, <1>4, Zenon DEF GuardInv

LEMMA GuardNext == ASSUME GuardInv, Guard!Next PROVE GuardInv'
<1>0. GuardTree /\ Guard!TypeOK /\ GuardShape /\ GuardVerdict
  BY Zenon DEF GuardInv
<1>1. UNCHANGED <<place, control, repository, root>>
  BY Zenon DEF Guard!Next, Guard!Ifndef, Guard!Define, Guard!If, Guard!Endif, Guard!Comment,
     Guard!Reading, Guard!CheckForHeaderGuard, Guard!tree
<1>2. GuardTree'
  BY <1>0, <1>1, Zenon DEF GuardTree
<1>3. ASSUME Guard!Reading
      PROVE  verdict' = {} /\ ~checked' /\ GuardVerdict'
  <2>1. ~checked' /\ verdict' = verdict /\ ~checked
    BY <1>3, Zenon DEF Guard!Reading
  <2>2. verdict = {}
    BY <1>0, <2>1, Zenon DEF Guard!TypeOK
  <2> QED
    BY <2>1, <2>2, Zenon DEF GuardVerdict
<1>4. /\ depth \in Nat /\ shape \in {"before", "opened", "inside", "closed", "other"}
      /\ ifndef \in Guard!Names \cup {Guard!None} /\ define \in Guard!Names \cup {Guard!None}
      /\ guard \in Guard!Names \cup {Guard!None}
      /\ endif \in Guard!Comments /\ closing \in Guard!Comments
  BY <1>0, Zenon DEF Guard!TypeOK
<1>5. verdict \subseteq {0, 5}
  BY <1>0 DEF Guard!TypeOK
<1>6. Guard!None \notin Guard!Names
  BY NoneIsNoName
<1> DEFINE Typed ==
      /\ depth' \in Nat /\ shape' \in {"before", "opened", "inside", "closed", "other"}
      /\ ifndef' \in Guard!Names \cup {Guard!None} /\ define' \in Guard!Names \cup {Guard!None}
      /\ guard' \in Guard!Names \cup {Guard!None}
      /\ endif' \in Guard!Comments /\ closing' \in Guard!Comments
<1>7. ASSUME Guard!Reading, Typed, GuardShape' PROVE GuardInv'
  <2>1. Guard!TypeOK'
    BY <1>3, <1>5, <1>7 DEF Guard!TypeOK
  <2> QED
    BY <1>2, <1>3, <1>7, <2>1, Zenon DEF GuardInv
<1>8. ASSUME NEW name \in Guard!Names, Guard!Ifndef(name) PROVE GuardInv'
  <2>1. /\ ifndef' = IF ifndef = Guard!None THEN name ELSE ifndef
        /\ depth' = depth + 1
        /\ shape' = CASE shape = "before" -> "opened"
                      [] shape = "inside" -> "inside"
                      [] OTHER -> "other"
        /\ guard' = IF shape = "before" THEN name ELSE guard
        /\ UNCHANGED <<define, endif, closing>>
    BY <1>8 DEF Guard!Ifndef
  <2>2. Typed
    BY <1>4, <2>1
  <2>3. GuardShape'
    BY <1>0, <1>4, <1>6, <2>1 DEF GuardShape
  <2> QED
    BY <1>7, <1>8, <2>2, <2>3 DEF Guard!Ifndef
<1>9. ASSUME NEW name \in Guard!Names, Guard!Define(name) PROVE GuardInv'
  <2>1. /\ define' = IF define = Guard!None THEN name ELSE define
        /\ shape' = CASE shape = "inside" -> "inside"
                      [] shape = "opened" /\ name = guard -> "inside"
                      [] OTHER -> "other"
        /\ UNCHANGED <<ifndef, endif, depth, guard, closing>>
    BY <1>9 DEF Guard!Define
  <2>2. Typed
    BY <1>4, <2>1
  <2>3. GuardShape'
    BY <1>0, <1>4, <1>6, <2>1 DEF GuardShape
  <2> QED
    BY <1>7, <1>9, <2>2, <2>3 DEF Guard!Define
<1>10. ASSUME Guard!If PROVE GuardInv'
  <2>1. /\ depth' = depth + 1
        /\ shape' = IF shape = "inside" THEN "inside" ELSE "other"
        /\ UNCHANGED <<ifndef, define, endif, guard, closing>>
    BY <1>10 DEF Guard!If, Guard!found
  <2>2. Typed
    BY <1>4, <2>1
  <2>3. GuardShape'
    BY <1>0, <1>4, <2>1 DEF GuardShape
  <2> QED
    BY <1>7, <1>10, <2>2, <2>3 DEF Guard!If
<1>11. ASSUME NEW comment \in Guard!Comments, Guard!Endif(comment) PROVE GuardInv'
  <2>1. /\ depth > 0 /\ depth' = depth - 1
        /\ endif' = comment
        /\ shape' = CASE shape = "inside" /\ depth = 1 -> "closed"
                      [] shape = "inside" /\ depth # 1 -> "inside"
                      [] OTHER -> "other"
        /\ closing' = IF shape' = "closed" THEN comment ELSE closing
        /\ UNCHANGED <<ifndef, define, guard>>
    BY <1>11 DEF Guard!Endif, Guard!LastEndif
  <2>2. Typed
    BY <1>4, <2>1
  <2>3. GuardShape'
    <3>1. CASE shape = "inside" /\ depth = 1
      <4>1. shape' = "closed" /\ depth' = 0
        BY <2>1, <3>1
      <4>2. closing' = endif'
        BY <2>1, <4>1
      <4>3. ifndef = guard /\ guard \in Guard!Names /\ define = guard
        BY <1>0, <3>1, Zenon DEF GuardShape
      <4>4. ifndef' = guard' /\ guard' \in Guard!Names /\ define' = guard'
        BY <2>1, <4>3
      <4> QED
        BY <4>1, <4>2, <4>4 DEF GuardShape
    <3>2. CASE shape = "inside" /\ depth # 1
      BY <1>0, <1>4, <2>1, <3>2 DEF GuardShape
    <3>3. CASE shape # "inside"
      <4>1. shape' = "other"
        BY <2>1, <3>3
      <4> QED
        BY <4>1 DEF GuardShape
    <3> QED
      BY <3>1, <3>2, <3>3
  <2> QED
    BY <1>7, <1>11, <2>2, <2>3 DEF Guard!Endif
<1>12. ASSUME NEW excuse \in BOOLEAN, Guard!Comment(excuse) PROVE GuardInv'
  <2>1. UNCHANGED <<ifndef, define, endif, shape, depth, guard, closing>>
    BY <1>12, Zenon DEF Guard!Comment
  <2>2. Typed
    BY <1>4, <2>1, Zenon
  <2>3. GuardShape'
    BY <1>0, <2>1 DEF GuardShape
  <2> QED
    BY <1>7, <1>12, <2>2, <2>3, Zenon DEF Guard!Comment
<1>13. CASE Guard!CheckForHeaderGuard
  <2>1. /\ checked' = TRUE /\ UNCHANGED <<ifndef, define, endif, excused, single>>
        /\ UNCHANGED <<shape, depth, guard, closing>>
        /\ verdict' = IF excused THEN {}
                      ELSE IF ifndef = Guard!None \/ define # ifndef THEN {5}
                      ELSE Guard!NameReport \cup Guard!EndifReport
    BY <1>13, Zenon DEF Guard!CheckForHeaderGuard, Guard!found, Guard!history
  <2>2. GuardShape' /\ Typed
    BY <1>0, <1>4, <2>1, Zenon DEF GuardShape
  <2>3. Guard!NameReport \subseteq {0, 5} /\ Guard!EndifReport \subseteq {0, 5}
    BY DEF Guard!NameReport, Guard!EndifReport
  <2>4. verdict' \subseteq {0, 5}
    <3> DEFINE N == Guard!NameReport
               E == Guard!EndifReport
    <3>1. verdict' \in {{}, {5}, N \cup E}
      BY <2>1, Zenon
    <3> HIDE DEF N, E
    <3>2. N \subseteq {0, 5} /\ E \subseteq {0, 5}
      BY <2>3 DEF N, E
    <3> QED
      BY <3>1, <3>2
  <2>5. Guard!TypeOK'
    BY <2>1, <2>2, <2>4 DEF Guard!TypeOK
  <2>6. GuardVerdict'
    <3>1. Guard!NameReport' = Guard!NameReport /\ Guard!EndifReport' = Guard!EndifReport
      BY <1>1, <2>1, ReportsStay
    <3> QED
      BY <2>1, <3>1, Zenon DEF GuardVerdict
  <2> QED
    BY <1>2, <2>2, <2>5, <2>6, Zenon DEF GuardInv
<1> QED
  BY <1>8, <1>9, <1>10, <1>11, <1>12, <1>13, Zenon DEF Guard!Next

LEMMA GuardStays == ASSUME GuardInv, UNCHANGED guardVars PROVE GuardInv'
<1>0. GuardTree /\ Guard!TypeOK /\ GuardShape /\ GuardVerdict
  BY Zenon DEF GuardInv
<1>1. GuardTree' /\ Guard!TypeOK' /\ GuardShape'
  BY <1>0, Zenon DEF guardVars, GuardTree, Guard!TypeOK, GuardShape
<1>2. GuardVerdict'
  <2>1. UNCHANGED <<place, control, repository, root>> /\ UNCHANGED <<ifndef, define, endif, single>>
    BY Zenon DEF guardVars
  <2>2. UNCHANGED <<checked, verdict, excused>>
    BY Zenon DEF guardVars
  <2>3. Guard!NameReport' = Guard!NameReport /\ Guard!EndifReport' = Guard!EndifReport
    BY <2>1, ReportsStay
  <2> QED
    BY <1>0, <2>1, <2>2, <2>3, Zenon DEF GuardVerdict
<1> QED
  BY <1>1, <1>2, Zenon DEF GuardInv

LEMMA GuardInvImplies == GuardInv => GuardIsSound /\ Guard!TypeOK
<1> SUFFICES ASSUME GuardInv PROVE Guard!GuardIsPortable /\ Guard!GuardFound /\ Guard!TypeOK
  BY DEF GuardIsSound
<1>0. GuardTree /\ Guard!TypeOK /\ GuardShape /\ GuardVerdict
  BY Zenon DEF GuardInv
<1>1. Guard!GuardIsPortable
  BY <1>0, NamesArePortable
<1>2. Guard!GuardFound
  <2> SUFFICES ASSUME checked, shape = "closed", ~excused
               PROVE  5 \notin verdict <=>
                        /\ Guard!IsCppvar(guard) /\ Guard!IsCppvar(closing.name)
                        /\ closing.style = "//" \/ (closing.style = "/*" /\ ~single)
    BY Zenon DEF Guard!GuardFound
  <2>1. ifndef = guard /\ guard # Guard!None /\ define = guard /\ endif = closing
    BY <1>0, NoneIsNoName, Zenon DEF GuardShape
  <2>2. verdict = Guard!NameReport \cup Guard!EndifReport
    BY <1>0, <2>1, Zenon DEF GuardVerdict
  <2>3. 5 \notin Guard!NameReport <=> Guard!IsCppvar(guard)
    BY <2>1 DEF Guard!NameReport
  <2>4. 5 \notin Guard!EndifReport <=>
          /\ Guard!IsCppvar(closing.name)
          /\ closing.style = "//" \/ (closing.style = "/*" /\ ~single)
    BY <2>1 DEF Guard!EndifReport
  <2> QED
    BY <2>2, <2>3, <2>4, Zenon
<1> QED
  BY <1>0, <1>1, <1>2

-----------------------------------------------------------------------------
(***************************************************************************)
(* IncludeState.  First, what is done to the lists.                        *)
(***************************************************************************)
LEMMA AppendRange ==
    ASSUME NEW T, NEW s \in Seq(T), NEW p \in T
    PROVE  Append(s, p) \in Seq(T) /\ Includes!Range(Append(s, p)) = Includes!Range(s) \cup {p}
<1> DEFINE a == Append(s, p)
<1>1. /\ a \in Seq(T) /\ DOMAIN a = 1 .. Len(s) + 1 /\ DOMAIN s = 1 .. Len(s)
      /\ Len(s) \in Nat /\ a[Len(s) + 1] = p /\ \A k \in 1 .. Len(s) : a[k] = s[k]
  OBVIOUS
<1> HIDE DEF a
<1>2. ASSUME NEW x PROVE (\E k \in DOMAIN a : a[k] = x) <=> (\E k \in DOMAIN s : s[k] = x) \/ x = p
  <2>1. ASSUME NEW k \in DOMAIN s PROVE k \in DOMAIN a /\ a[k] = s[k]
    BY <1>1
  <2>2. Len(s) + 1 \in DOMAIN a
    BY <1>1
  <2>3. ASSUME NEW k \in DOMAIN a PROVE k = Len(s) + 1 \/ k \in DOMAIN s
    BY <1>1
  <2> QED
    BY <1>1, <2>1, <2>2, <2>3
<1>3. Includes!Range(a) = Includes!Range(s) \cup {p}
  BY <1>2 DEF Includes!Range
<1> QED
  BY <1>1, <1>3 DEF a

LEMMA LastList ==
    ASSUME NEW T, NEW lists \in Seq(T), Len(lists) >= 1, NEW l \in T
    PROVE  LET new == [lists EXCEPT ![Len(lists)] = l] IN
           /\ new \in Seq(T) /\ Len(new) = Len(lists) /\ DOMAIN new = 1 .. Len(lists)
           /\ new[Len(lists)] = l /\ \A k \in 1 .. Len(lists) : k # Len(lists) => new[k] = lists[k]
OBVIOUS

\* Kinds of headers and their sections.
LEMMA SectionsAre ==
    /\ Includes!Sections["c"] = 2 /\ Includes!Sections["cpp"] = 3
    /\ Includes!Sections["likely"] = 1 /\ Includes!Sections["possible"] = 1
    /\ Includes!Sections["other"] = 4
BY DEF Includes!Sections

LEMMA KindsAre == \A p, s : Includes!ClassifyInclude(p, s) \in Includes!Kinds
BY DEF Includes!ClassifyInclude, Includes!Kinds

Later == {"c", "cpp", "other"}
Blocks == Seq(Includes!Kinds \cup {"unnoted"})

LEMMA PlaceIs ==
    ASSUME NEW b \in Blocks, NEW k \in 1 .. Len(b)
    PROVE  /\ Includes!Place(b, k) \in 0 .. 4
           /\ b[k] \in Later => Includes!Place(b, k) = Includes!Sections[b[k]]
                                /\ Includes!Place(b, k) >= 2
           /\ b[k] \in {"likely", "possible"} =>
                Includes!Place(b, k) = IF \E j \in 1 .. k - 1 : b[j] \in Later THEN 4 ELSE 1
           /\ b[k] = "unnoted" => Includes!Place(b, k) = 0
<1>1. b[k] \in Later \cup {"likely", "possible", "unnoted"}
  BY DEF Blocks, Later, Includes!Kinds
<1>2. CASE b[k] \in Later
  BY <1>2, SectionsAre DEF Includes!Place, Later
<1>3. CASE b[k] \in {"likely", "possible"}
  BY <1>3 DEF Includes!Place, Later
<1>4. CASE b[k] = "unnoted"
  BY <1>4 DEF Includes!Place, Later
<1> QED
  BY <1>1, <1>2, <1>3, <1>4

LEMMA PlaceStays ==
    ASSUME NEW b \in Blocks, NEW kind \in Includes!Kinds \cup {"unnoted"}
    PROVE  LET a == Append(b, kind) IN
           /\ a \in Blocks /\ Len(a) = Len(b) + 1 /\ Len(b) \in Nat
           /\ \A k \in 1 .. Len(b) : Includes!Place(a, k) = Includes!Place(b, k)
           /\ a[Len(b) + 1] = kind
           /\ (\E j \in 1 .. Len(b) : a[j] \in Later) <=> (\E j \in 1 .. Len(b) : b[j] \in Later)
<1> DEFINE a == Append(b, kind)
<1>1. /\ a \in Blocks /\ Len(a) = Len(b) + 1 /\ Len(b) \in Nat
      /\ \A k \in 1 .. Len(b) : a[k] = b[k]
      /\ a[Len(b) + 1] = kind
  BY DEF Blocks
<1> HIDE DEF a
<1>2. ASSUME NEW k \in 1 .. Len(b) PROVE Includes!Place(a, k) = Includes!Place(b, k)
  <2>1. \A j \in 1 .. k - 1 : j \in 1 .. Len(b)
    BY <1>1
  <2>2. \A j \in 1 .. k - 1 : a[j] = b[j]
    BY <1>1, <2>1
  <2>3. a[k] = b[k]
    BY <1>1
  <2> QED
    BY <2>2, <2>3 DEF Includes!Place
<1> QED
  BY <1>1, <1>2 DEF a

\* The section is that of the furthest include since the last conditional.
Furthest(b, s) ==
    /\ \A j \in 1 .. Len(b) : Includes!Place(b, j) <= s
    /\ s = 0 \/ \E j \in 1 .. Len(b) : Includes!Place(b, j) = s

LEMMA FurthestLater ==
    ASSUME NEW b \in Blocks, NEW s \in 0 .. 4, Furthest(b, s)
    PROVE  (\E j \in 1 .. Len(b) : b[j] \in Later) <=> s > 1
<1>1. ASSUME NEW j \in 1 .. Len(b), b[j] \in Later PROVE s > 1
  <2>1. Includes!Place(b, j) \in 0 .. 4 /\ Includes!Place(b, j) >= 2 /\ Includes!Place(b, j) <= s
    BY <1>1, PlaceIs DEF Furthest
  <2> QED
    BY <2>1
<1>2. ASSUME s > 1 PROVE \E j \in 1 .. Len(b) : b[j] \in Later
  <2>1. PICK j \in 1 .. Len(b) : Includes!Place(b, j) = s
    BY <1>2 DEF Furthest
  <2>2. Len(b) \in Nat
    BY DEF Blocks
  <2>3. CASE b[j] \in {"likely", "possible"}
    <3>1. Includes!Place(b, j) # 1
      BY <1>2, <2>1
    <3>2. PICK i \in 1 .. j - 1 : b[i] \in Later
      BY <2>3, <3>1, PlaceIs
    <3>3. i \in 1 .. Len(b)
      BY <2>2
    <3> QED
      BY <3>2, <3>3
  <2>4. CASE b[j] = "unnoted"
    BY <1>2, <2>1, <2>4, PlaceIs
  <2>5. b[j] \in Later \cup {"likely", "possible", "unnoted"}
    BY DEF Blocks, Later, Includes!Kinds
  <2> QED
    BY <2>3, <2>4, <2>5
<1> QED
  BY <1>1, <1>2

\* An include that is noted: the section it leads to, and whether it is in order.
LEMMA SectionFollows ==
    ASSUME NEW b \in Blocks, section \in 0 .. 4, Furthest(b, section), NEW kind \in Includes!Kinds
    PROVE  LET a == Append(b, kind) IN
           /\ Includes!NextSection(kind) \in 0 .. 4
           /\ Furthest(a, Includes!NextSection(kind))
           /\ ~Includes!InOrder(kind) <=>
                /\ kind \in {"c", "cpp"}
                /\ \E j \in 1 .. Len(b) : Includes!Place(a, j) > Includes!Place(a, Len(b) + 1)
<1> DEFINE a == Append(b, kind)
           next == Includes!NextSection(kind)
           place0(j) == Includes!Place(b, j)
           there == Includes!Place(a, Len(b) + 1)
<1>1. /\ a \in Blocks /\ Len(a) = Len(b) + 1 /\ Len(b) \in Nat
      /\ \A k \in 1 .. Len(b) : Includes!Place(a, k) = place0(k)
      /\ a[Len(b) + 1] = kind
      /\ (\E j \in 1 .. Len(b) : a[j] \in Later) <=> (\E j \in 1 .. Len(b) : b[j] \in Later)
  BY PlaceStays
<1>2. (\E j \in 1 .. Len(b) : b[j] \in Later) <=> section > 1
  BY FurthestLater
<1> HIDE DEF a
<1>3. Len(b) + 1 \in 1 .. Len(a) /\ (Len(b) + 1) - 1 = Len(b)
  BY <1>1
<1>4. /\ kind \in Later => there = Includes!Sections[kind]
      /\ kind \in {"likely", "possible"} =>
           there = IF \E j \in 1 .. Len(b) : a[j] \in Later THEN 4 ELSE 1
  BY <1>1, <1>3, PlaceIs
<1>5. /\ kind \in {"likely", "possible"} => there = IF section > 1 THEN 4 ELSE 1
      /\ kind = "c" => there = 2
      /\ kind = "cpp" => there = 3
      /\ kind = "other" => there = 4
  BY <1>1, <1>2, <1>4, SectionsAre DEF Later
<1>6. /\ kind \in {"likely", "possible"} =>
           Includes!InOrder(kind) /\ next = IF section <= 1 THEN 1 ELSE 4
      /\ kind = "c" => /\ Includes!InOrder(kind) <=> section <= 2
                       /\ next = IF section <= 2 THEN 2 ELSE section
      /\ kind = "cpp" => /\ Includes!InOrder(kind) <=> section <= 3
                         /\ next = IF section <= 3 THEN 3 ELSE section
      /\ kind = "other" => Includes!InOrder(kind) /\ next = 4
  <2>1. CASE kind \in {"likely", "possible"}
    BY <2>1, SectionsAre DEF Includes!NextSection, Includes!InOrder
  <2>2. CASE kind = "c"
    BY <2>2, SectionsAre DEF Includes!NextSection, Includes!InOrder
  <2>3. CASE kind = "cpp"
    BY <2>3, SectionsAre DEF Includes!NextSection, Includes!InOrder
  <2>4. CASE kind = "other"
    BY <2>4, SectionsAre DEF Includes!NextSection, Includes!InOrder
  <2> QED
    BY <2>1, <2>2, <2>3, <2>4
<1>7. kind \in {"likely", "possible", "c", "cpp", "other"}
  BY DEF Includes!Kinds
<1> HIDE DEF next, there
<1>8. /\ next \in 0 .. 4 /\ section <= next /\ there <= next
      /\ next = section \/ next = there
      /\ there \in 0 .. 4
  BY <1>5, <1>6, <1>7
<1>9. ~Includes!InOrder(kind) <=> kind \in {"c", "cpp"} /\ section > there
  BY <1>5, <1>6, <1>7
<1>10. /\ \A j \in 1 .. Len(b) : place0(j) \in 0 .. 4 /\ place0(j) <= section
       /\ section = 0 \/ \E j \in 1 .. Len(b) : place0(j) = section
  BY PlaceIs DEF Furthest
<1> HIDE DEF place0
<1>11. Furthest(a, next)
  <2>1. ASSUME NEW j \in 1 .. Len(a) PROVE Includes!Place(a, j) <= next
    <3>1. CASE j = Len(b) + 1
      BY <1>8, <3>1 DEF there
    <3>2. CASE j # Len(b) + 1
      <4>1. j \in 1 .. Len(b)
        BY <1>1, <3>2
      <4> QED
        BY <1>1, <1>8, <1>10, <4>1
    <3> QED
      BY <3>1, <3>2
  <2>2. CASE next = there
    BY <1>3, <2>1, <2>2 DEF Furthest, there
  <2>3. CASE next = section /\ section # 0
    <3>1. PICK j \in 1 .. Len(b) : place0(j) = section
      BY <1>10, <2>3
    <3>2. j \in 1 .. Len(a) /\ Includes!Place(a, j) = next
      BY <1>1, <2>3, <3>1
    <3> QED
      BY <2>1, <3>2 DEF Furthest
  <2>4. CASE next = section /\ section = 0
    BY <2>1, <2>4 DEF Furthest
  <2> QED
    BY <1>8, <2>2, <2>3, <2>4
<1>12. section > there <=> \E j \in 1 .. Len(b) : Includes!Place(a, j) > there
  <2>1. ASSUME NEW j \in 1 .. Len(b), Includes!Place(a, j) > there PROVE section > there
    BY <1>1, <1>5, <1>7, <1>10, <2>1
  <2>2. ASSUME section > there PROVE \E j \in 1 .. Len(b) : Includes!Place(a, j) > there
    BY <1>1, <1>5, <1>7, <1>10, <2>2
  <2> QED
    BY <2>1, <2>2
<1> QED
  BY <1>8, <1>9, <1>11, <1>12 DEF a, next, there

\* What the lines say, and how the lists go with the conditionals, which are not nested.
InclTyped ==
    /\ include_list \in Seq(Seq(Paths)) /\ Len(include_list) >= 1
    /\ section \in 0 .. 4 /\ last_header \in Nat
    /\ block \in Blocks
    /\ required \subseteq Standard /\ missing \subseteq Paths \cup {Target}
    /\ said \subseteq Includes!Categories
    /\ ifs \in Nat

InclFlags == adjacent \in BOOLEAN /\ done \in BOOLEAN /\ (~done => missing = {})

Listed(p, k) == p \in Includes!Range(include_list[k])

\* The line is in the branch that the last list is of.
InLast(i) == \E m : i[2] = << <<ifs, m>> >>

Branching ==
    /\ Len(include_list) = ifs + 1
    /\ branches = <<>> \/ \E m : branches = << <<ifs, m>> >>

\* A path is in a list because of a line of that branch, or of none.
ListsAreOfLines ==
    \A k \in 1 .. Len(include_list), p \in Paths : Listed(p, k) =>
        \E i \in inside :
            /\ i[1] = p
            /\ i[2] = <<>> \/ \E m : i[2] = << <<k - 1, m>> >>
            /\ k = Len(include_list) /\ branches # <<>> => i[2] = branches

\* The path of a line is in a list, unless an #else has cleared it.
Kept(i) ==
    /\ Includes!Counts(i[1]) /\ ~Includes!FromOtherPackage(i[1])
    /\ \A j \in DOMAIN i[2] : i[2][j][1] \notin dropped

LinesAreListed ==
    \A i \in inside : Kept(i) =>
        \E k \in 1 .. Len(include_list) :
            /\ Listed(i[1], k)
            /\ k = Len(include_list) /\ branches # <<>> => InLast(i)

InclInv ==
    /\ InclTyped /\ InclFlags
    /\ Furthest(block, section) /\ Includes!OrderIsRelative
    /\ ~nested => Branching /\ ListsAreOfLines /\ LinesAreListed
    /\ Includes!DuplicatesAreReal /\ (done => Includes!MissingIsMissing)
    /\ \A i \in inside : i[1] \in Paths

LEMMA SeenIs ==
    ASSUME InclTyped
    PROVE  \A p : p \in Includes!Seen <=> \E k \in 1 .. Len(include_list) : Listed(p, k)
<1>1. DOMAIN include_list = 1 .. Len(include_list)
  BY DEF InclTyped
<1> QED
  BY <1>1, Zenon DEF Includes!Seen, Listed

LEMMA InclInit == Includes!Init => InclInv
<1> SUFFICES ASSUME Includes!Init PROVE InclInv
  OBVIOUS
<1>1. /\ include_list = << <<>> >> /\ section = 0 /\ last_header = 0 /\ block = <<>>
      /\ required = {} /\ missing = {} /\ said = {} /\ ifs = 0 /\ inside = {} /\ branches = <<>>
  BY DEF Includes!Init
<1>2. adjacent = FALSE /\ done = FALSE /\ nested = FALSE
  BY DEF Includes!Init
<1>3. InclTyped
  <2>1. include_list \in Seq(Seq(Paths)) /\ Len(include_list) = 1
    BY <1>1
  <2>2. block \in Blocks
    BY <1>1 DEF Blocks
  <2> QED
    BY <1>1, <2>1, <2>2 DEF InclTyped
<1>4. InclFlags
  BY <1>1, <1>2, Zenon DEF InclFlags
<1>5. Furthest(block, section)
  BY <1>1 DEF Furthest
<1>6. Includes!OrderIsRelative /\ Includes!DuplicatesAreReal
  BY <1>1, <1>2 DEF Includes!OrderIsRelative, Includes!DuplicatesAreReal
<1>7. Branching
  BY <1>1 DEF Branching
<1>8. ListsAreOfLines
  <2>1. \A k \in 1 .. Len(include_list) : include_list[k] = <<>>
    BY <1>1
  <2> QED
    BY <2>1 DEF ListsAreOfLines, Listed, Includes!Range
<1>9. LinesAreListed
  BY <1>1 DEF LinesAreListed
<1> QED
  BY <1>1, <1>2, <1>3, <1>4, <1>5, <1>6, <1>7, <1>8, <1>9 DEF InclInv

\* A line that is not an #include and no conditional leaves the lists alone.
LEMMA InclSame ==
    ASSUME InclInv, InclTyped', InclFlags',
           UNCHANGED <<include_list, section, block, branches, inside, again, ifs, nested,
                       dropped>>,
           (adjacent' = FALSE /\ said' = {}) \/ UNCHANGED <<adjacent, said>>,
           done' => Includes!MissingIsMissing'
    PROVE  InclInv'
<1>0. /\ Furthest(block, section) /\ Includes!OrderIsRelative
      /\ ~nested => Branching /\ ListsAreOfLines /\ LinesAreListed
      /\ Includes!DuplicatesAreReal /\ \A i \in inside : i[1] \in Paths
  BY Zenon DEF InclInv
<1>1. Furthest(block, section)'
  BY <1>0 DEF Furthest, Includes!Place
<1>2. Includes!OrderIsRelative'
  BY <1>0 DEF Includes!OrderIsRelative, Includes!Place
<1>3. Includes!DuplicatesAreReal'
  BY <1>0 DEF Includes!DuplicatesAreReal
<1>4. ~nested => Branching' /\ ListsAreOfLines' /\ LinesAreListed'
  <2>1. Branching' <=> Branching
    BY Zenon DEF Branching
  <2>2. ListsAreOfLines => ListsAreOfLines'
    BY ZenonT(60) DEF ListsAreOfLines, Listed
  <2>3. LinesAreListed' <=> LinesAreListed
    <3>1. \A i : Kept(i)' <=> Kept(i)
      BY Zenon DEF Kept
    <3> QED
      BY <3>1, Zenon DEF LinesAreListed, Listed, InLast
  <2> QED
    BY <1>0, <2>1, <2>2, <2>3, Zenon
<1> QED
  BY <1>0, <1>1, <1>2, <1>3, <1>4, Zenon DEF InclInv

LEMMA EndIsSound ==
    ASSUME InclInv, Includes!EndOfFile
    PROVE  InclTyped' /\ Includes!MissingIsMissing'
<1>0. /\ InclTyped /\ \A i \in inside : i[1] \in Paths
      /\ ~nested => LinesAreListed
  BY Zenon DEF InclInv
<1>1. UNCHANGED <<include_list, section, last_header, block, required, said, inside, ifs, nested,
                  dropped>>
  BY DEF Includes!EndOfFile, Includes!history
<1>2. PICK looked \in SUBSET (Includes!Existing \ Includes!Included) :
         missing' = Includes!NotIncluded \cup
                      IF Includes!HeaderMissing /\ looked # {} THEN {Target} ELSE {}
  BY DEF Includes!EndOfFile
<1>3. /\ Includes!NotIncluded \subseteq required
      /\ \A p \in Includes!NotIncluded : p \notin Includes!Seen
  BY DEF Includes!NotIncluded, Includes!Available
<1>4. Standard \subseteq Paths /\ Target \notin Standard
  BY IncludeAssumption DEF Includes!IncludeAssumption
<1>5. InclTyped'
  <2>1. missing' \subseteq Paths \cup {Target}
    BY <1>0, <1>2, <1>3, <1>4 DEF InclTyped
  <2> QED
    BY <1>0, <1>1, <2>1, Zenon DEF InclTyped
<1>6. ASSUME NEW i \in inside, ~nested, Kept(i) PROVE i[1] \in Includes!Seen
  BY <1>0, <1>6, SeenIs DEF LinesAreListed
<1>7. ASSUME NEW i \in inside, i[1] \in missing' \ {Target}
      PROVE  ~Includes!Counts(i[1]) \/ Includes!FromOtherPackage(i[1])
             \/ nested \/ \E k \in DOMAIN i[2] : i[2][k][1] \in dropped
  <2>1. i[1] \notin Includes!Seen
    BY <1>2, <1>3, <1>7
  <2> QED
    BY <1>6, <2>1 DEF Kept
<1>8. ASSUME NEW i \in inside, Target \in missing',
             \A ext \in Includes!Existing : Includes!NamesHeader(i[1], ext),
             ~nested, ~Includes!FromOtherPackage(i[1]),
             \A k \in DOMAIN i[2] : i[2][k][1] \notin dropped
      PROVE  FALSE
  <2>1. Target \notin Includes!NotIncluded
    BY <1>0, <1>3, <1>4 DEF InclTyped
  <2>2. PICK ext \in looked : TRUE
    BY <1>2, <1>8, <2>1
  <2>3. /\ ext \in Includes!Existing /\ ext \notin Includes!Included
        /\ ext \in HeaderExtensions
    BY <2>2 DEF Includes!Existing
  <2>4. Kept(i)
    BY <1>8, <2>3, Zenon DEF Kept, Includes!Counts
  <2>5. i[1] \in Includes!Seen
    BY <1>6, <1>8, <2>4
  <2> QED
    BY <1>8, <2>3, <2>5 DEF Includes!Included
<1>9. Includes!MissingIsMissing'
  <2>1. UNCHANGED <<inside, nested, dropped>>
    BY <1>1
  <2>2. Includes!Existing' = Includes!Existing
    BY DEF Includes!Existing
  <2> QED
    BY <1>7, <1>8, <2>1, <2>2 DEF Includes!MissingIsMissing
<1> QED
  BY <1>5, <1>9

\* An #include line and the lists, in a file without nested conditionals.
LEMMA NewLine ==
    ASSUME InclTyped, Branching, ListsAreOfLines, LinesAreListed,
           NEW p \in Paths, inside' = inside \cup {<<p, branches>>},
           UNCHANGED <<branches, ifs, dropped>>, Len(include_list') = Len(include_list),
           NEW added \in BOOLEAN,
           \A k \in 1 .. Len(include_list) : \A q :
               Listed(q, k)' <=> Listed(q, k) \/ (q = p /\ k = Len(include_list) /\ added),
           Kept(<<p, branches>>) => p \in Includes!Seen \/ added
    PROVE  Branching' /\ ListsAreOfLines' /\ LinesAreListed'
<1> DEFINE line == <<p, branches>>
           n == Len(include_list)
<1>1. n \in Nat /\ n >= 1 /\ n = ifs + 1 /\ n - 1 = ifs /\ ifs \in Nat /\ n \in 1 .. n
  BY DEF InclTyped, Branching
<1>2. line[1] = p /\ line[2] = branches /\ line \in inside' /\ inside \subseteq inside'
  OBVIOUS
<1>3. branches = <<>> \/ \E m : branches = << <<ifs, m>> >>
  BY DEF Branching
<1>4. Len(include_list') = n /\ ifs' = ifs /\ branches' = branches /\ dropped' = dropped
  OBVIOUS
<1>5. \A q : \A k \in 1 .. n : Listed(q, k)' <=> Listed(q, k) \/ (q = p /\ k = n /\ added)
  OBVIOUS
<1>6. \A i \in inside' : i \in inside \/ i = line
  OBVIOUS
<1> HIDE DEF n, line
<1>7. Branching'
  BY <1>4 DEF Branching, n
<1>8. ListsAreOfLines'
  <2>1. ASSUME NEW k \in 1 .. Len(include_list'), NEW q \in Paths, Listed(q, k)'
        PROVE  \E i \in inside' : /\ i[1] = q
                                  /\ i[2] = <<>> \/ \E m : i[2] = << <<k - 1, m>> >>
                                  /\ k = Len(include_list') /\ branches' # <<>> =>
                                       i[2] = branches'
    <3>0. k \in 1 .. n
      BY <1>4
    <3>1. CASE Listed(q, k)
      <4>1. \E i \in inside : /\ i[1] = q
                              /\ i[2] = <<>> \/ \E m : i[2] = << <<k - 1, m>> >>
                              /\ k = n /\ branches # <<>> => i[2] = branches
        BY <3>0, <3>1, Zenon DEF ListsAreOfLines, n
      <4> QED
        BY <1>2, <1>4, <4>1, Zenon
    <3>2. CASE q = p /\ k = n /\ added
      <4>1. p \in Paths /\ line[1] = q /\ branches' = branches /\ line[2] = branches
        BY <1>2, <1>4, <3>2
      <4>2. line[2] = <<>> \/ \E m : line[2] = << <<k - 1, m>> >>
        BY <1>1, <1>3, <3>2, <4>1
      <4> QED
        BY <1>2, <4>1, <4>2, Zenon
    <3> QED
      BY <1>5, <2>1, <3>0, <3>1, <3>2
  <2> QED
    BY <2>1, Zenon DEF ListsAreOfLines
<1>9. LinesAreListed'
  <2> SUFFICES ASSUME NEW i \in inside', Kept(i)
               PROVE  \E k \in 1 .. n : /\ Listed(i[1], k)'
                                        /\ k = n /\ branches # <<>> => InLast(i)
    BY <1>4, Zenon DEF LinesAreListed, Kept, InLast
  <2>1. CASE i \in inside
    <3>1. PICK k \in 1 .. n : /\ Listed(i[1], k)
                              /\ k = n /\ branches # <<>> => InLast(i)
      BY <2>1, Zenon DEF LinesAreListed, n
    <3> QED
      BY <1>5, <3>1, Zenon
  <2>2. CASE i = line
    <3>1. branches # <<>> => InLast(line)
      BY <1>2, <1>3, Zenon DEF InLast
    <3>2. PICK k \in 1 .. n : Listed(p, k)'
      <4>1. CASE p \in Includes!Seen
        BY <1>5, <4>1, SeenIs DEF n
      <4>2. CASE added
        BY <1>1, <1>5, <4>2
      <4> QED
        BY <2>2, <4>1, <4>2 DEF line
    <3> QED
      BY <1>2, <2>2, <3>1, <3>2, Zenon
  <2> QED
    BY <1>6, <2>1, <2>2
<1> QED
  BY <1>7, <1>8, <1>9

\* A header named before in lines that are compiled together.
LEMMA SeenTogether ==
    ASSUME InclTyped, Branching, ListsAreOfLines, NEW p \in Paths, p \in Includes!Seen
    PROVE  \E i \in inside : i[1] = p /\ Includes!Together(i[2], branches)
<1>1. PICK k \in 1 .. Len(include_list) : Listed(p, k)
  BY SeenIs
<1>2. PICK i \in inside : /\ i[1] = p
                          /\ i[2] = <<>> \/ \E m : i[2] = << <<k - 1, m>> >>
                          /\ k = Len(include_list) /\ branches # <<>> => i[2] = branches
  BY <1>1 DEF ListsAreOfLines
<1>3. Len(include_list) = ifs + 1 /\ ifs \in Nat /\ k \in Nat
  BY DEF Branching, InclTyped
<1>4. ASSUME branches = <<>> \/ i[2] = <<>> PROVE Includes!Together(i[2], branches)
  <2>1. DOMAIN i[2] \cap DOMAIN branches = {}
    <3>1. \A s : s = <<>> => DOMAIN s = {}
      OBVIOUS
    <3> QED
      BY <1>4, <3>1
  <2> QED
    BY <2>1 DEF Includes!Together
<1>5. ASSUME k = Len(include_list) /\ branches # <<>> PROVE Includes!Together(i[2], branches)
  <2>1. i[2] = branches
    BY <1>2, <1>5
  <2> QED
    BY <2>1, Zenon DEF Includes!Together
<1>6. ASSUME k # Len(include_list) /\ branches # <<>> /\ i[2] # <<>>
      PROVE  Includes!Together(i[2], branches)
  <2>1. PICK m : i[2] = << <<k - 1, m>> >>
    BY <1>2, <1>6
  <2>2. PICK b : branches = << <<ifs, b>> >>
    BY <1>6 DEF Branching
  <2>3. k - 1 # ifs
    BY <1>3, <1>6
  <2>4. DOMAIN branches = {1} /\ branches[1][1] = ifs
    BY <2>2
  <2>5. i[2][1][1] = k - 1
    BY <2>1
  <2> QED
    BY <2>3, <2>4, <2>5 DEF Includes!Together
<1> QED
  BY <1>2, <1>4, <1>5, <1>6

LEMMA InclIncludeLine == ASSUME InclInv, Includes!IncludeLine PROVE InclInv'
<1>0. /\ InclTyped /\ InclFlags
      /\ Furthest(block, section)
      /\ ~nested => Branching /\ ListsAreOfLines /\ LinesAreListed
      /\ \A i \in inside : i[1] \in Paths
  BY Zenon DEF InclInv
<1>1. PICK p \in Paths, is_system \in BOOLEAN :
        /\ \/ Includes!Refused(p, is_system) \/ Includes!Skipped(p, is_system)
           \/ Includes!Noted(p, is_system)
        /\ inside' = inside \cup {<<p, branches>>}
        /\ again' = \E i \in inside : i[1] = p /\ Includes!Together(i[2], branches)
  BY DEF Includes!IncludeLine
<1>2. adjacent' = TRUE /\ ~done /\ done' = done /\ missing' = missing
  BY DEF Includes!IncludeLine, Includes!ReadLine
<1>3. UNCHANGED <<required, branches, ifs, nested, dropped>>
  BY DEF Includes!IncludeLine
<1>4. InclFlags'
  BY <1>0, <1>2, Zenon DEF InclFlags
<1>5. \A i \in inside' : i[1] \in Paths
  BY <1>0, <1>1
<1> DEFINE here == Includes!Subdir(p, is_system)
<1>7. here \subseteq {"include_subdir"}
  BY DEF Includes!Subdir
<1> HIDE DEF here
<1>8. ASSUME Includes!Refused(p, is_system) \/ Includes!Skipped(p, is_system) PROVE InclInv'
  <2>1. UNCHANGED <<include_list, section, last_header>> /\ block' = Append(block, "unnoted")
    BY <1>8 DEF Includes!Refused, Includes!Skipped
  <2>2. /\ said' \subseteq {"include_subdir", "duplicate", "package"}
        /\ "duplicate" \in said' => p \in Includes!Seen
        /\ p \in Includes!Seen \/ Includes!FromOtherPackage(p) \/ ~Includes!Counts(p)
    <3>1. CASE Includes!Refused(p, is_system)
      <4>1. said' = here \cup {IF p \in Includes!Seen THEN "duplicate" ELSE "package"}
        BY <3>1, Zenon DEF Includes!Refused, here
      <4>2. p \in Includes!Seen \/ Includes!FromOtherPackage(p)
        BY <3>1, Zenon DEF Includes!Refused
      <4> QED
        BY <1>7, <4>1, <4>2
    <3>2. CASE Includes!Skipped(p, is_system)
      <4>1. said' = here /\ ~Includes!Counts(p)
        BY <3>2, Zenon DEF Includes!Skipped, here
      <4> QED
        BY <1>7, <4>1
    <3> QED
      BY <1>8, <3>1, <3>2
  <2> DEFINE a == Append(block, "unnoted")
  <2>3. /\ a \in Blocks /\ Len(a) = Len(block) + 1 /\ Len(block) \in Nat
        /\ \A k \in 1 .. Len(block) : Includes!Place(a, k) = Includes!Place(block, k)
        /\ a[Len(block) + 1] = "unnoted"
    BY <1>0, PlaceStays DEF InclTyped
  <2>4. block' = a
    BY <2>1
  <2> HIDE DEF a
  <2>5. InclTyped'
    BY <1>0, <1>2, <1>3, <2>1, <2>2, <2>3, <2>4 DEF InclTyped, Includes!Categories
  <2>6. Furthest(block, section)'
    <3>1. section \in 0 .. 4
      BY <1>0 DEF InclTyped
    <3>2. Includes!Place(a, Len(block) + 1) = 0
      BY <2>3, PlaceIs
    <3>3. Furthest(a, section)
      <4>1. ASSUME NEW j \in 1 .. Len(a) PROVE Includes!Place(a, j) <= section
        <5>1. CASE j = Len(block) + 1
          BY <3>1, <3>2, <5>1
        <5>2. CASE j # Len(block) + 1
          BY <1>0, <2>3, <5>2 DEF Furthest
        <5> QED
          BY <5>1, <5>2
      <4>2. section = 0 \/ \E j \in 1 .. Len(a) : Includes!Place(a, j) = section
        BY <1>0, <2>3 DEF Furthest
      <4> QED
        BY <4>1, <4>2 DEF Furthest
    <3>4. section' = section
      BY <2>1
    <3> QED
      BY <2>4, <3>3, <3>4 DEF Furthest, Includes!Place
  <2>7. Includes!OrderIsRelative'
    <3>1. block'[Len(block')] = "unnoted" /\ "include_order" \notin said'
      BY <2>2, <2>3, <2>4
    <3> QED
      BY <3>1 DEF Includes!OrderIsRelative
  <2>8. Includes!DuplicatesAreReal'
    BY <1>0, <1>1, <1>3, <2>2, SeenTogether DEF Includes!DuplicatesAreReal
  <2>9. ~nested => Branching' /\ ListsAreOfLines' /\ LinesAreListed'
    <3> SUFFICES ASSUME ~nested PROVE Branching' /\ ListsAreOfLines' /\ LinesAreListed'
      OBVIOUS
    <3>1. \A k \in 1 .. Len(include_list) : \A q : Listed(q, k)' <=> Listed(q, k)
      BY <2>1 DEF Listed
    <3>2. Kept(<<p, branches>>) => p \in Includes!Seen
      BY <2>2 DEF Kept
    <3>3. Len(include_list') = Len(include_list)
      BY <2>1
    <3> QED
      BY <1>0, <1>1, <1>3, <3>1, <3>2, <3>3, NewLine
  <2> QED
    BY <1>2, <1>3, <1>4, <1>5, <2>5, <2>6, <2>7, <2>8, <2>9, Zenon DEF InclInv
<1>9. ASSUME Includes!Noted(p, is_system) PROVE InclInv'
  <2> DEFINE kind == Includes!ClassifyInclude(p, is_system)
             next == Includes!NextSection(kind)
             a == Append(block, kind)
             l == Append(include_list[Len(include_list)], p)
             new == [include_list EXCEPT ![Len(include_list)] = l]
  <2>1. /\ include_list' = new /\ section' = next /\ last_header' = Rank[p] /\ block' = a
    BY <1>9 DEF Includes!Noted
  <2>2. said' = here \cup (IF Includes!InOrder(kind) THEN {} ELSE {"include_order"})
                     \cup (IF Includes!Alphabetical(p, kind) THEN {} ELSE {"include_alpha"})
    BY <1>9, Zenon DEF Includes!Noted, here
  <2>3. kind \in Includes!Kinds
    BY KindsAre
  <2> HIDE DEF kind
  <2>4. /\ next \in 0 .. 4 /\ Furthest(a, next)
        /\ ~Includes!InOrder(kind) <=>
             /\ kind \in {"c", "cpp"}
             /\ \E j \in 1 .. Len(block) : Includes!Place(a, j) > Includes!Place(a, Len(block) + 1)
    BY <1>0, <2>3, SectionFollows DEF InclTyped
  <2>5. /\ a \in Blocks /\ Len(a) = Len(block) + 1 /\ Len(block) \in Nat
        /\ a[Len(block) + 1] = kind
    BY <1>0, <2>3, PlaceStays DEF InclTyped
  <2> HIDE DEF next, a
  <2>6. said' \subseteq {"include_subdir", "include_order", "include_alpha"}
    BY <1>7, <2>2
  <2>7. "include_order" \in said' <=> ~Includes!InOrder(kind)
    BY <1>7, <2>2
  <2>8. /\ l \in Seq(Paths)
        /\ Includes!Range(l) = Includes!Range(include_list[Len(include_list)]) \cup {p}
    <3>1. include_list[Len(include_list)] \in Seq(Paths)
      BY <1>0 DEF InclTyped
    <3> QED
      BY <3>1, AppendRange
  <2> HIDE DEF l
  <2>9. /\ new \in Seq(Seq(Paths)) /\ Len(new) = Len(include_list)
        /\ new[Len(include_list)] = l
        /\ \A k \in 1 .. Len(include_list) : k # Len(include_list) => new[k] = include_list[k]
    BY <1>0, <2>8, LastList DEF InclTyped
  <2> HIDE DEF new
  <2>10. InclTyped'
    <3>1. Rank[p] \in Nat
      BY IncludeAssumption DEF Includes!IncludeAssumption
    <3>2. said' \subseteq Includes!Categories
      BY <2>6 DEF Includes!Categories
    <3>3. include_list' \in Seq(Seq(Paths)) /\ Len(include_list') >= 1
      BY <1>0, <2>1, <2>9 DEF InclTyped
    <3> QED
      BY <1>0, <1>2, <1>3, <2>1, <2>4, <2>5, <3>1, <3>2, <3>3 DEF InclTyped
  <2>11. Furthest(block, section)'
    BY <2>1, <2>4 DEF Furthest, Includes!Place
  <2>12. Includes!OrderIsRelative'
    <3>1. Len(block') = Len(block) + 1 /\ block'[Len(block')] = kind /\ Len(block') - 1 = Len(block)
      BY <2>1, <2>5
    <3>2. "include_order" \in said' <=>
            /\ kind \in {"c", "cpp"}
            /\ \E j \in 1 .. Len(block') - 1 : Includes!Place(block', j) > Includes!Place(block', Len(block'))
      BY <2>1, <2>4, <2>7, <3>1
    <3> QED
      BY <3>1, <3>2 DEF Includes!OrderIsRelative, Includes!Place
  <2>13. Includes!DuplicatesAreReal'
    BY <2>6 DEF Includes!DuplicatesAreReal
  <2>14. ~nested => Branching' /\ ListsAreOfLines' /\ LinesAreListed'
    <3> SUFFICES ASSUME ~nested PROVE Branching' /\ ListsAreOfLines' /\ LinesAreListed'
      OBVIOUS
    <3>1. \A k \in 1 .. Len(include_list) : \A q :
            Listed(q, k)' <=> Listed(q, k) \/ (q = p /\ k = Len(include_list) /\ TRUE)
      BY <2>1, <2>8, <2>9 DEF Listed
    <3>2. Len(include_list') = Len(include_list)
      BY <2>1, <2>9
    <3> QED
      BY <1>0, <1>1, <1>3, <3>1, <3>2, NewLine
  <2> QED
    BY <1>2, <1>3, <1>4, <1>5, <2>10, <2>11, <2>12, <2>13, <2>14, Zenon DEF InclInv
<1> QED
  BY <1>1, <1>8, <1>9

\* The conditionals, in a file where they are not nested.
LEMMA IfKeeps ==
    ASSUME InclTyped, Branching, ListsAreOfLines, LinesAreListed, branches = <<>>,
           include_list' = Append(include_list, <<>>), ifs' = ifs + 1,
           branches' = Append(branches, <<ifs + 1, 1>>), UNCHANGED <<inside, dropped>>
    PROVE  Branching' /\ ListsAreOfLines' /\ LinesAreListed'
<1> DEFINE n == Len(include_list)
           new == Append(include_list, <<>>)
<1>1. /\ n \in Nat /\ n = ifs + 1 /\ Len(new) = n + 1 /\ new[n + 1] = <<>>
      /\ \A k \in 1 .. n : new[k] = include_list[k]
  BY DEF InclTyped, Branching
<1>2. include_list' = new /\ inside' = inside /\ dropped' = dropped /\ ifs' = ifs + 1
  OBVIOUS
<1> HIDE DEF new
<1>3. branches' = << <<ifs + 1, 1>> >>
  OBVIOUS
<1>4. \A q : \A k \in 1 .. n + 1 : Listed(q, k)' => k \in 1 .. n /\ Listed(q, k)
  <2>1. ASSUME NEW q, NEW k \in 1 .. n + 1, Listed(q, k)' PROVE k \in 1 .. n /\ Listed(q, k)
    <3>1. q \in Includes!Range(new[k])
      BY <1>2, <2>1, Zenon DEF Listed
    <3>2. k # n + 1
      BY <1>1, <3>1 DEF Includes!Range
    <3>3. k \in 1 .. n
      BY <1>1, <3>2
    <3> QED
      BY <1>1, <3>1, <3>3 DEF Listed
  <2> QED
    BY <2>1
<1>5. \A q : \A k \in 1 .. n : Listed(q, k) => Listed(q, k)'
  BY <1>1, <1>2 DEF Listed
<1>6. Len(include_list') = n + 1
  BY <1>1, <1>2
<1> HIDE DEF n
<1>7. Branching'
  BY <1>1, <1>2, <1>3, <1>6 DEF Branching
<1>8. ListsAreOfLines'
  <2>1. ASSUME NEW k \in 1 .. Len(include_list'), NEW q \in Paths, Listed(q, k)'
        PROVE  \E i \in inside' : /\ i[1] = q
                                  /\ i[2] = <<>> \/ \E m : i[2] = << <<k - 1, m>> >>
                                  /\ k = Len(include_list') /\ branches' # <<>> =>
                                       i[2] = branches'
    <3>1. k \in 1 .. n /\ Listed(q, k)
      BY <1>4, <1>6, <2>1
    <3>2. \E i \in inside : i[1] = q /\ (i[2] = <<>> \/ \E m : i[2] = << <<k - 1, m>> >>)
      BY <3>1, Zenon DEF ListsAreOfLines, n
    <3>3. k # Len(include_list')
      BY <1>1, <1>6, <3>1
    <3> QED
      BY <1>2, <3>2, <3>3, Zenon
  <2> QED
    BY <2>1, Zenon DEF ListsAreOfLines
<1>9. LinesAreListed'
  <2>1. ASSUME NEW i \in inside', Kept(i)'
        PROVE  \E k \in 1 .. Len(include_list') :
                 /\ Listed(i[1], k)'
                 /\ k = Len(include_list') /\ branches' # <<>> => InLast(i)'
    <3>1. Kept(i) /\ i \in inside
      BY <1>2, <2>1, Zenon DEF Kept
    <3>2. PICK k \in 1 .. n : Listed(i[1], k)
      BY <3>1, Zenon DEF LinesAreListed, n
    <3>3. k \in 1 .. Len(include_list') /\ k # Len(include_list')
      BY <1>1, <1>6
    <3> QED
      BY <1>5, <3>2, <3>3, Zenon
  <2> QED
    BY <2>1, Zenon DEF LinesAreListed
<1> QED
  BY <1>7, <1>8, <1>9

LEMMA ElseKeeps ==
    ASSUME InclTyped, Branching, ListsAreOfLines, LinesAreListed, branches # <<>>,
           include_list' = [include_list EXCEPT ![Len(include_list)] = <<>>], ifs' = ifs,
           branches' = [branches EXCEPT ![Len(branches)][2] = @ + 1],
           dropped' = dropped \cup {branches[Len(branches)][1]}, inside' = inside
    PROVE  Branching' /\ ListsAreOfLines' /\ LinesAreListed'
<1> DEFINE n == Len(include_list)
           new == [include_list EXCEPT ![n] = <<>>]
<1>1. /\ n \in Nat /\ n >= 1 /\ n = ifs + 1
  BY DEF InclTyped, Branching
<1>2. Len(new) = n /\ new[n] = <<>> /\ \A k \in 1 .. n : k # n => new[k] = include_list[k]
  BY LastList DEF InclTyped
<1>3. include_list' = new /\ inside' = inside /\ ifs' = ifs
  OBVIOUS
<1>4. PICK b : branches = << <<ifs, b>> >>
  BY DEF Branching
<1>5. branches' = << <<ifs, b + 1>> >> /\ dropped' = dropped \cup {ifs}
  <2> DEFINE one == <<ifs, b>>
             it == <<one>>
  <2>1. branches = it /\ Len(it) = 1 /\ it[1] = one /\ one[1] = ifs /\ one[2] = b
    BY <1>4
  <2>2. [it EXCEPT ![1][2] = @ + 1] = << <<ifs, b + 1>> >>
    OBVIOUS
  <2> HIDE DEF it, one
  <2>3. branches' = [it EXCEPT ![1][2] = @ + 1]
    BY <2>1
  <2> QED
    BY <2>1, <2>2, <2>3
<1>6. Len(include_list') = n
  BY <1>2, <1>3
<1> HIDE DEF new
<1>7. \A q : \A k \in 1 .. n : Listed(q, k)' <=> k # n /\ Listed(q, k)
  <2>1. ASSUME NEW q, NEW k \in 1 .. n PROVE Listed(q, k)' <=> k # n /\ Listed(q, k)
    <3>1. Listed(q, k)' <=> q \in Includes!Range(new[k])
      BY <1>3, Zenon DEF Listed
    <3>2. CASE k = n
      BY <1>2, <3>1, <3>2 DEF Includes!Range
    <3>3. CASE k # n
      BY <1>2, <3>1, <3>3 DEF Listed
    <3> QED
      BY <3>2, <3>3
  <2> QED
    BY <2>1
<1> HIDE DEF n
<1>8. Branching'
  BY <1>1, <1>3, <1>5, <1>6, Zenon DEF Branching
<1>9. ListsAreOfLines'
  <2>1. ASSUME NEW k \in 1 .. Len(include_list'), NEW q \in Paths, Listed(q, k)'
        PROVE  \E i \in inside' : /\ i[1] = q
                                  /\ i[2] = <<>> \/ \E m : i[2] = << <<k - 1, m>> >>
                                  /\ k = Len(include_list') /\ branches' # <<>> =>
                                       i[2] = branches'
    <3>1. k \in 1 .. n /\ k # n /\ Listed(q, k)
      BY <1>6, <1>7, <2>1
    <3>2. \E i \in inside : i[1] = q /\ (i[2] = <<>> \/ \E m : i[2] = << <<k - 1, m>> >>)
      BY <3>1, Zenon DEF ListsAreOfLines, n
    <3> QED
      BY <1>3, <1>6, <3>1, <3>2, Zenon
  <2> QED
    BY <2>1, Zenon DEF ListsAreOfLines
<1>10. LinesAreListed'
  <2>1. ASSUME NEW i \in inside', Kept(i)'
        PROVE  \E k \in 1 .. Len(include_list') :
                 /\ Listed(i[1], k)'
                 /\ k = Len(include_list') /\ branches' # <<>> => InLast(i)'
    <3>1. Kept(i) /\ i \in inside /\ \A j \in DOMAIN i[2] : i[2][j][1] # ifs
      BY <1>3, <1>5, <2>1 DEF Kept
    <3>2. ~InLast(i)
      <4> SUFFICES ASSUME NEW m, i[2] = << <<ifs, m>> >> PROVE FALSE
        BY DEF InLast
      <4>1. 1 \in DOMAIN i[2] /\ i[2][1][1] = ifs
        OBVIOUS
      <4> QED
        BY <3>1, <4>1
    <3>3. PICK k \in 1 .. n : Listed(i[1], k) /\ (k = n /\ branches # <<>> => InLast(i))
      BY <3>1, Zenon DEF LinesAreListed, n
    <3>4. k # n
      BY <3>2, <3>3
    <3> QED
      BY <1>6, <1>7, <3>3, <3>4, Zenon
  <2> QED
    BY <2>1, Zenon DEF LinesAreListed
<1> QED
  BY <1>8, <1>9, <1>10

LEMMA EndifKeeps ==
    ASSUME InclTyped, Branching, ListsAreOfLines, LinesAreListed, branches # <<>>,
           branches' = Includes!Front(branches),
           UNCHANGED <<include_list, ifs, inside, dropped>>
    PROVE  Branching' /\ ListsAreOfLines' /\ LinesAreListed'
<1>1. PICK b : branches = << <<ifs, b>> >>
  BY DEF Branching
<1>2. branches' = <<>>
  <2> DEFINE one == <<ifs, b>>
  <2> HIDE DEF one
  <2>1. Includes!Front(<<one>>) = <<>>
    BY DEF Includes!Front
  <2> QED
    BY <1>1, <2>1 DEF one
<1>3. Branching'
  BY <1>2 DEF Branching
<1>4. ListsAreOfLines'
  <2>1. ASSUME NEW k \in 1 .. Len(include_list), NEW q \in Paths, Listed(q, k)
        PROVE  \E i \in inside : i[1] = q /\ (i[2] = <<>> \/ \E m : i[2] = << <<k - 1, m>> >>)
    BY <2>1, Zenon DEF ListsAreOfLines
  <2> QED
    BY <1>2, <2>1, Zenon DEF ListsAreOfLines, Listed
<1>5. LinesAreListed'
  <2>1. ASSUME NEW i \in inside, Kept(i) PROVE \E k \in 1 .. Len(include_list) : Listed(i[1], k)
    BY <2>1, Zenon DEF LinesAreListed
  <2> QED
    BY <1>2, <2>1, Zenon DEF LinesAreListed, Listed, Kept
<1> QED
  BY <1>3, <1>4, <1>5

LEMMA InclConditional == ASSUME InclInv, Includes!Conditional PROVE InclInv'
<1>0. /\ InclTyped /\ InclFlags
      /\ ~nested => Branching /\ ListsAreOfLines /\ LinesAreListed
      /\ \A i \in inside : i[1] \in Paths
  BY Zenon DEF InclInv
<1>1. PICK directive \in {"if", "else", "endif"} :
         /\ directive # "if" => branches # <<>>
         /\ include_list' = Includes!Lists(directive)
         /\ ifs' = IF directive = "if" THEN ifs + 1 ELSE ifs
         /\ branches' =
              CASE directive = "if" -> Append(branches, <<ifs + 1, 1>>)
                [] directive = "else" -> [branches EXCEPT ![Len(branches)][2] = @ + 1]
                [] directive = "endif" -> Includes!Front(branches)
         /\ nested' = (nested \/ (directive = "if" /\ branches # <<>>))
         /\ dropped' = IF directive = "else" THEN dropped \cup {Includes!Last(branches)[1]}
                       ELSE dropped
  BY DEF Includes!Conditional
<1>2. /\ section' = 0 /\ last_header' = 0 /\ said' = {} /\ block' = <<>>
      /\ UNCHANGED <<required, inside, missing>>
  BY DEF Includes!Conditional, Includes!ReadLine
<1>3. adjacent' = FALSE /\ done' = done /\ ~done /\ again' = again
  BY DEF Includes!Conditional, Includes!ReadLine
<1>4. nested' = (nested \/ (directive = "if" /\ branches # <<>>))
  BY <1>1
<1>5. InclFlags'
  BY <1>0, <1>2, <1>3, Zenon DEF InclFlags
<1>6. InclTyped'
  <2>1. include_list' \in Seq(Seq(Paths)) /\ Len(include_list') >= 1
    <3>0. include_list \in Seq(Seq(Paths)) /\ Len(include_list) >= 1 /\ <<>> \in Seq(Paths)
      BY <1>0 DEF InclTyped
    <3>1. CASE directive = "if"
      <4>1. include_list' = Append(include_list, <<>>)
        BY <1>1, <3>1 DEF Includes!Lists
      <4> QED
        BY <3>0, <4>1
    <3>2. CASE directive = "else"
      <4>1. include_list' = [include_list EXCEPT ![Len(include_list)] = <<>>]
        BY <1>1, <3>2 DEF Includes!Lists
      <4> QED
        BY <3>0, <4>1, LastList
    <3>3. CASE directive = "endif"
      <4>1. include_list' = include_list
        BY <1>1, <3>3 DEF Includes!Lists
      <4> QED
        BY <3>0, <4>1
    <3> QED
      BY <3>1, <3>2, <3>3
  <2>2. ifs' \in Nat
    BY <1>0, <1>1 DEF InclTyped
  <2>3. block' \in Blocks
    BY <1>2 DEF Blocks
  <2> QED
    BY <1>0, <1>2, <2>1, <2>2, <2>3 DEF InclTyped
<1>7. Furthest(block, section)'
  <2>1. \A j : j \in 1 .. Len(block') => FALSE
    BY <1>2
  <2> QED
    BY <1>2, <2>1 DEF Furthest
<1>8. Includes!OrderIsRelative' /\ Includes!DuplicatesAreReal'
  BY <1>2 DEF Includes!OrderIsRelative, Includes!DuplicatesAreReal
<1>9. ~nested' => Branching' /\ ListsAreOfLines' /\ LinesAreListed'
  <2> SUFFICES ASSUME ~nested' PROVE Branching' /\ ListsAreOfLines' /\ LinesAreListed'
    OBVIOUS
  <2>0. /\ ~nested /\ (directive = "if" => branches = <<>>)
        /\ Branching /\ ListsAreOfLines /\ LinesAreListed
    BY <1>0, <1>4, Zenon
  <2>1. CASE directive = "if"
    <3>1. /\ include_list' = Append(include_list, <<>>) /\ ifs' = ifs + 1
          /\ branches' = Append(branches, <<ifs + 1, 1>>) /\ dropped' = dropped
      BY <1>1, <2>1 DEF Includes!Lists
    <3> QED
      BY <1>0, <1>2, <2>0, <2>1, <3>1, IfKeeps
  <2>2. CASE directive = "else"
    <3>1. /\ include_list' = [include_list EXCEPT ![Len(include_list)] = <<>>] /\ ifs' = ifs
          /\ branches' = [branches EXCEPT ![Len(branches)][2] = @ + 1]
          /\ dropped' = dropped \cup {branches[Len(branches)][1]} /\ branches # <<>>
      BY <1>1, <2>2 DEF Includes!Lists, Includes!Last
    <3> QED
      BY <1>0, <1>2, <2>0, <3>1, ElseKeeps
  <2>3. CASE directive = "endif"
    <3>1. /\ include_list' = include_list /\ ifs' = ifs /\ branches' = Includes!Front(branches)
          /\ dropped' = dropped /\ branches # <<>>
      BY <1>1, <2>3 DEF Includes!Lists
    <3> QED
      BY <1>0, <1>2, <2>0, <3>1, EndifKeeps
  <2> QED
    BY <2>1, <2>2, <2>3
<1> QED
  BY <1>0, <1>2, <1>3, <1>5, <1>6, <1>7, <1>8, <1>9, Zenon DEF InclInv

LEMMA InclNext == ASSUME InclInv, Includes!Next PROVE InclInv'
<1>0. InclTyped /\ InclFlags
  BY Zenon DEF InclInv
<1>1. CASE Includes!IncludeLine
  BY <1>1, InclIncludeLine
<1>2. CASE Includes!Conditional
  BY <1>2, InclConditional
<1>3. CASE Includes!CodeLine
  <2>1. /\ UNCHANGED <<include_list, section, last_header, missing>>
        /\ UNCHANGED <<block, branches, inside, again, ifs, nested, dropped>>
        /\ said' = {}
    BY <1>3 DEF Includes!CodeLine, Includes!ReadLine, Includes!history
  <2>2. adjacent' = FALSE /\ ~done /\ done' = done
    BY <1>3 DEF Includes!CodeLine, Includes!ReadLine
  <2>3. PICK use \in Uses : required' \in {required, required \cup {use.header}}
    BY <1>3 DEF Includes!CodeLine
  <2>4. required' \subseteq Standard
    BY <1>0, <2>3, IncludeAssumption DEF Includes!IncludeAssumption, InclTyped
  <2>5. InclTyped'
    BY <1>0, <2>1, <2>4 DEF InclTyped
  <2>6. InclFlags'
    BY <1>0, <2>1, <2>2, Zenon DEF InclFlags
  <2> QED
    BY <2>1, <2>2, <2>5, <2>6, InclSame
<1>4. CASE Includes!EndOfFile
  <2>1. /\ UNCHANGED <<include_list, section, adjacent, said>>
        /\ UNCHANGED <<block, branches, inside, again, ifs, nested, dropped>>
    BY <1>4 DEF Includes!EndOfFile, Includes!history
  <2>2. done' = TRUE
    BY <1>4 DEF Includes!EndOfFile
  <2>3. InclTyped' /\ Includes!MissingIsMissing'
    BY <1>4, EndIsSound
  <2>4. InclFlags'
    BY <1>0, <2>1, <2>2, Zenon DEF InclFlags
  <2> QED
    BY <2>1, <2>3, <2>4, InclSame
<1> QED
  BY <1>1, <1>2, <1>3, <1>4 DEF Includes!Next

LEMMA InclStays == ASSUME InclInv, UNCHANGED inclVars PROVE InclInv'
<1>0. InclTyped /\ InclFlags /\ (done => Includes!MissingIsMissing)
  BY Zenon DEF InclInv
<1>1. /\ UNCHANGED <<include_list, section, last_header, adjacent, required, said, missing, done>>
      /\ UNCHANGED <<block, branches, inside, again, ifs, nested, dropped>>
  BY Zenon DEF inclVars
<1>2. InclTyped'
  BY <1>0, <1>1, Zenon DEF InclTyped
<1>3. InclFlags'
  BY <1>0, <1>1, Zenon DEF InclFlags
<1>4. done' => Includes!MissingIsMissing'
  <2>1. Includes!Existing' = Includes!Existing
    BY DEF Includes!Existing
  <2> QED
    BY <1>0, <1>1, <2>1 DEF Includes!MissingIsMissing
<1> QED
  BY <1>1, <1>2, <1>3, <1>4, InclSame

LEMMA InclInvImplies == InclInv => IncludesAreSound /\ Includes!TypeOK
<1> SUFFICES ASSUME InclInv PROVE IncludesAreSound /\ Includes!TypeOK
  OBVIOUS
<1>0. /\ InclTyped /\ InclFlags /\ Includes!OrderIsRelative /\ Includes!DuplicatesAreReal
      /\ (done => Includes!MissingIsMissing)
  BY Zenon DEF InclInv
<1>1. Includes!MissingIsMissing
  <2>1. CASE ~done
    <3>1. missing = {}
      BY <1>0, <2>1, Zenon DEF InclFlags
    <3> QED
      BY <3>1 DEF Includes!MissingIsMissing
  <2> QED
    BY <1>0, <2>1
<1>2. Includes!TypeOK
  <2>1. Standard \subseteq Paths
    BY IncludeAssumption DEF Includes!IncludeAssumption
  <2>2. \A k \in DOMAIN include_list : Includes!Range(include_list[k]) \subseteq Paths
    BY <1>0 DEF InclTyped, Includes!Range
  <2>3. \A k \in DOMAIN block : block[k] \in Includes!Kinds \cup {"unnoted"}
    BY <1>0 DEF InclTyped, Blocks
  <2>4. include_list # <<>>
    BY <1>0 DEF InclTyped
  <2>5. /\ section \in 0 .. 4 /\ last_header \in Nat
        /\ required \subseteq Paths /\ missing \subseteq Paths \cup {Target}
        /\ said \subseteq Includes!Categories
    BY <1>0, <2>1 DEF InclTyped
  <2> QED
    BY <1>0, <2>2, <2>3, <2>4, <2>5, Zenon DEF InclFlags, Includes!TypeOK
<1> QED
  BY <1>0, <1>1, <1>2, Zenon DEF IncludesAreSound

-----------------------------------------------------------------------------
(***************************************************************************)
(* CleansedLines: its types.                                               *)
(***************************************************************************)
\* What the text and the code consist of.
Signs == STRING \cup {"\"", "'", "(", ")", "R"}

TextInv ==
    /\ mode \in Cleansed!Modes /\ usual \in BOOLEAN /\ plain \in BOOLEAN
    /\ source \in Seq(Seq(Signs)) /\ code \in Seq(Seq(Signs))
    /\ Len(code) = Len(source) /\ Len(source) >= 1
    /\ count \in 0 .. MaxTokens

LEMMA WiderSeq == ASSUME NEW S, NEW T, S \subseteq T PROVE Seq(S) \subseteq Seq(T)
OBVIOUS

LEMMA LongerBy ==
    ASSUME NEW T, NEW s \in Seq(T), NEW a \in T
    PROVE  Append(s, a) \in Seq(T) /\ Len(Append(s, a)) = Len(s) + 1
OBVIOUS

LEMMA TextWorld == Tokens \subseteq Seq(Signs) /\ MaxTokens \in Nat
<1> DEFINE strings == STRING
<1>1. strings \subseteq Signs
  BY Zenon DEF Signs
<1>2. Tokens \subseteq Seq(strings) /\ MaxTokens \in Nat
  BY CleansedAssumption, Zenon DEF Cleansed!CleansedAssumption
<1> HIDE DEF Signs, strings
<1>3. Seq(strings) \subseteq Seq(Signs)
  BY <1>1, WiderSeq
<1> QED
  BY <1>2, <1>3, Zenon

LEMMA ShortSeqs ==
    ASSUME NEW T, NEW a \in T, NEW b \in T, NEW c \in T
    PROVE  <<>> \in Seq(T) /\ <<a>> \in Seq(T) /\ <<a, b>> \in Seq(T) /\ <<a, b, c>> \in Seq(T)
OBVIOUS

LEMMA ShortTexts ==
    /\ <<>> \in Seq(Signs) /\ <<"\"", "\"">> \in Seq(Signs)
    /\ <<"'", "'">> \in Seq(Signs) /\ <<"(">> \in Seq(Signs)
    /\ <<")", "\"", "\"">> \in Seq(Signs) /\ <<"R", "\"", "\"">> \in Seq(Signs)
<1> DEFINE q == "\""
           p == "'"
           o == "("
           c == ")"
           r == "R"
<1>1. /\ q \in Signs /\ p \in Signs /\ o \in Signs /\ c \in Signs
      /\ r \in Signs
  BY Zenon DEF Signs
<1> HIDE DEF q, p, o, c, r
<1>2. /\ <<>> \in Seq(Signs) /\ <<q, q>> \in Seq(Signs)
      /\ <<p, p>> \in Seq(Signs) /\ <<o>> \in Seq(Signs)
      /\ <<c, q, q>> \in Seq(Signs) /\ <<r, q, q>> \in Seq(Signs)
  BY <1>1, ShortSeqs
<1> QED
  BY <1>2, Zenon DEF q, p, o, c, r

LEMMA ReadsTyped ==
    ASSUME mode \in Cleansed!Modes, NEW t \in Seq(Signs)
    PROVE  /\ Cleansed!Reads(t).mode \in Cleansed!Modes
           /\ Cleansed!Reads(t).code \in Seq(Signs)
<1> DEFINE Typed(r) == r.mode \in Cleansed!Modes /\ r.code \in Seq(Signs)
<1>1. ASSUME NEW m \in Cleansed!Modes, NEW c \in Seq(Signs) PROVE Typed(Cleansed!R(m, c))
  BY DEF Cleansed!R
<1>2. Typed(Cleansed!Illegal)
  BY DEF Cleansed!Illegal, Cleansed!Modes
<1>3. {"code", "string", "char", "digit", "line", "block", "raw"} = Cleansed!Modes
  BY DEF Cleansed!Modes
<1>4. /\ <<>> \in Seq(Signs) /\ <<"\"", "\"">> \in Seq(Signs) /\ <<"'", "'">> \in Seq(Signs)
      /\ <<")", "\"", "\"">> \in Seq(Signs) /\ <<"R", "\"", "\"">> \in Seq(Signs)
      /\ <<"(">> \in Seq(Signs)
  BY ShortTexts
<1> HIDE DEF Typed
<1>5. CASE mode = "code"
  <2>1. Typed(Cleansed!InCode(t))
    BY <1>1, <1>2, <1>3, <1>4 DEF Cleansed!InCode
  <2> QED
    BY <1>5, <2>1 DEF Cleansed!Reads, Typed
<1>6. CASE mode = "string"
  <2>1. Typed(Cleansed!InString(t))
    BY <1>1, <1>2, <1>3, <1>4 DEF Cleansed!InString
  <2> QED
    BY <1>6, <2>1 DEF Cleansed!Reads, Typed
<1>7. CASE mode = "char"
  <2>1. Typed(Cleansed!InChar(t))
    BY <1>1, <1>2, <1>3, <1>4 DEF Cleansed!InChar
  <2> QED
    BY <1>7, <2>1 DEF Cleansed!Reads, Typed
<1>8. CASE mode = "digit"
  <2>1. Typed(Cleansed!InDigit(t))
    BY <1>1, <1>2, <1>3, <1>4 DEF Cleansed!InDigit
  <2> QED
    BY <1>8, <2>1 DEF Cleansed!Reads, Typed
<1>9. CASE mode = "line"
  <2>1. Typed(Cleansed!R("line", <<>>))
    BY <1>1, <1>3, <1>4
  <2> QED
    BY <1>9, <2>1 DEF Cleansed!Reads, Typed
<1>10. CASE mode = "block"
  <2>1. Typed(Cleansed!InBlock(t))
    BY <1>1, <1>2, <1>3, <1>4 DEF Cleansed!InBlock
  <2> QED
    BY <1>10, <2>1 DEF Cleansed!Reads, Typed
<1>11. CASE mode = "raw"
  <2>1. Typed(Cleansed!InRaw(t))
    BY <1>1, <1>2, <1>3, <1>4 DEF Cleansed!InRaw
  <2> QED
    BY <1>11, <2>1 DEF Cleansed!Reads, Typed
<1> QED
  BY <1>3, <1>5, <1>6, <1>7, <1>8, <1>9, <1>10, <1>11

LEMMA TextInit == Cleansed!Init => TextInv
<1> SUFFICES ASSUME Cleansed!Init PROVE TextInv
  OBVIOUS
<1>1. mode \in Cleansed!Modes /\ usual \in BOOLEAN /\ plain \in BOOLEAN
  BY DEF Cleansed!Init, Cleansed!Modes
<1>2. source = << <<>> >> /\ code = << <<>> >> /\ count = 0
  BY DEF Cleansed!Init
<1>3. << <<>> >> \in Seq(Seq(Signs)) /\ Len(<< <<>> >>) = 1
  OBVIOUS
<1> QED
  BY <1>1, <1>2, <1>3, TextWorld DEF TextInv

LEMMA TextNext == ASSUME TextInv, Cleansed!Next PROVE TextInv'
<1>0. /\ mode \in Cleansed!Modes /\ usual \in BOOLEAN /\ plain \in BOOLEAN
  BY DEF TextInv
<1>1. /\ source \in Seq(Seq(Signs)) /\ code \in Seq(Seq(Signs))
      /\ Len(code) = Len(source) /\ Len(source) >= 1 /\ count \in 0 .. MaxTokens
  BY DEF TextInv
<1>2. ASSUME NEW s \in Seq(Seq(Signs)), Len(s) >= 1, NEW c \in Seq(Signs)
      PROVE  LET new == [s EXCEPT ![Len(s)] = @ \o c] IN
             new \in Seq(Seq(Signs)) /\ Len(new) = Len(s)
  <2>1. s[Len(s)] \o c \in Seq(Signs)
    <3>1. s[Len(s)] \in Seq(Signs)
      BY <1>2
    <3> QED
      BY <1>2, <3>1, ConcatIs
  <2> QED
    BY <1>2, <2>1, LastList
<1>3. CASE Cleansed!AddToken
  <2>1. PICK t \in Tokens :
          /\ source' = [source EXCEPT ![Len(source)] = @ \o t]
          /\ code' = [code EXCEPT ![Len(source)] = @ \o Cleansed!Reads(t).code]
          /\ mode' = Cleansed!Reads(t).mode
          /\ count < MaxTokens /\ count' = count + 1
          /\ usual' = (usual /\ ~Cleansed!Unusual(t)) /\ plain' = (plain /\ ~Cleansed!Hides(t))
    BY <1>3, Zenon DEF Cleansed!AddToken
  <2>2. t \in Seq(Signs)
    BY TextWorld
  <2>3. mode' \in Cleansed!Modes /\ Cleansed!Reads(t).code \in Seq(Signs)
    BY <1>0, <2>1, <2>2, ReadsTyped
  <2>4. usual' \in BOOLEAN /\ plain' \in BOOLEAN
    BY <2>1
  <2>5. source' \in Seq(Seq(Signs)) /\ Len(source') = Len(source)
    BY <1>1, <1>2, <2>1, <2>2
  <2>6. code' \in Seq(Seq(Signs)) /\ Len(code') = Len(code)
    BY <1>1, <1>2, <2>1, <2>3
  <2>7. count' \in 0 .. MaxTokens
    BY <1>1, <2>1, TextWorld
  <2> QED
    BY <1>1, <2>3, <2>4, <2>5, <2>6, <2>7 DEF TextInv
<1>4. CASE Cleansed!AddLine
  <2>2. mode' = IF mode = "line" THEN "code" ELSE mode
    BY <1>4, Zenon DEF Cleansed!AddLine
  <2>3. /\ plain' = plain
        /\ usual' = (usual /\ (mode = "block" =>
                         \/ Cleansed!Begins(Cleansed!Last(source))
                         \/ Cleansed!Find(Cleansed!Last(source), <<"/", "*">>, 1) = 0))
    BY <1>4, Zenon DEF Cleansed!AddLine
  <2>4. usual' \in BOOLEAN /\ plain' \in BOOLEAN
    BY <1>0, <2>3
  <2>5. mode' \in Cleansed!Modes
    BY <1>0, <2>2 DEF Cleansed!Modes
  <2>6. source' \in Seq(Seq(Signs)) /\ Len(source') = Len(source) + 1
    <3>1. source' = Append(source, <<>>)
      BY <1>4, Zenon DEF Cleansed!AddLine
    <3> QED
      BY <1>1, <3>1
  <2>7. code' \in Seq(Seq(Signs)) /\ Len(code') = Len(code) + 1
    <3> DEFINE line == IF mode = "raw" THEN <<"\"", "\"">> ELSE <<>>
    <3>1. line \in Seq(Signs)
      <4>1. <<"\"", "\"">> \in Seq(Signs) /\ <<>> \in Seq(Signs)
        BY ShortTexts
      <4> QED
        BY <4>1, Zenon
    <3>2. code' = Append(code, line)
      BY <1>4, Zenon DEF Cleansed!AddLine
    <3>3. code \in Seq(Seq(Signs))
      BY <1>1
    <3> HIDE DEF line
    <3>4. Append(code, line) \in Seq(Seq(Signs)) /\ Len(Append(code, line)) = Len(code) + 1
      BY <3>1, <3>3, LongerBy
    <3> QED
      BY <3>2, <3>4, Zenon
  <2>8. count' \in 0 .. MaxTokens
    <3>1. count < MaxTokens /\ count' = count + 1
      BY <1>4, Zenon DEF Cleansed!AddLine
    <3> QED
      BY <1>1, <3>1, TextWorld
  <2>9. Len(code') = Len(source') /\ Len(source') >= 1
    BY <1>1, <2>6, <2>7
  <2> QED
    BY <2>4, <2>5, <2>6, <2>7, <2>8, <2>9, Zenon DEF TextInv
<1> QED
  BY <1>3, <1>4 DEF Cleansed!Next

LEMMA TextStays == ASSUME TextInv, UNCHANGED textVars PROVE TextInv'
BY Zenon DEF TextInv, textVars

LEMMA TextTyped == TextInv => Cleansed!TypeOK
BY DEF TextInv, Cleansed!TypeOK

-----------------------------------------------------------------------------
(***************************************************************************)
(* The theorems of the parts.                                              *)
(***************************************************************************)
LEMMA PartSteps ==
    ASSUME [CpplintNext]_allVars
    PROVE  /\ [Next]_vars
           /\ [Expr!Next]_exprVars
           /\ [Function!ReadLine]_funcVars
           /\ [Includes!Next]_inclVars
           /\ [Cleansed!Next]_textVars
           /\ [Guard!Next]_guardVars
<1>1. CASE LintPart(Next)
  BY <1>1, Zenon DEF LintPart
<1>2. CASE NestPart(Nesting!Next)
  BY <1>2, Zenon DEF NestPart
<1>3. CASE ExprPart(Expr!Next)
  BY <1>3, Zenon DEF ExprPart
<1>4. CASE InclPart(Includes!Next)
  BY <1>4, Zenon DEF InclPart
<1>5. CASE FuncPart(Function!ReadLine)
  BY <1>5, Zenon DEF FuncPart
<1>6. CASE TextPart(Cleansed!Next)
  BY <1>6, Zenon DEF TextPart
<1>7. CASE GuardPart
  BY <1>7, Zenon DEF GuardPart
<1>8. CASE UNCHANGED allVars
  BY <1>8, Zenon DEF allVars
<1> QED
  BY <1>1, <1>2, <1>3, <1>4, <1>5, <1>6, <1>7, <1>8, Zenon DEF CpplintNext

\* Whatever else cpplint.py does, its files are linted as Lint says.
THEOREM LintIsAPart == CpplintSpec => Spec
<1>1. CpplintInit => Init
  BY DEF CpplintInit
<1>2. [CpplintNext]_allVars => [Next]_vars
  BY PartSteps
<1> QED
  BY <1>1, <1>2, PTL DEF CpplintSpec, Spec

\* CloseExpression and ReverseCloseExpression end at the bracket that matches, however
\* deep the brackets are nested: the pops of unmatched < never reach a bracket of
\* another kind.
THEOREM BracketsMatch == CpplintSpec => []BracketsFound
<1>1. CpplintInit => ExprInv
  BY ExprInit DEF CpplintInit
<1>2. ExprInv /\ [CpplintNext]_allVars => ExprInv'
  BY PartSteps, ExprNext, ExprStays
<1>3. ExprInv => BracketsFound
  BY ExprInvImplies
<1> QED
  BY <1>1, <1>2, <1>3, PTL DEF CpplintSpec

\* At its closing brace a function that is too long is reported, for every trigger and
\* verbosity, with a confidence the verbosity lets through, and no other is.
THEOREM LongFunctionsAreReported == CpplintSpec => LongFunctionsShow
<1>1. CpplintInit => FuncInv
  BY FuncInit DEF CpplintInit
<1>2. FuncInv /\ [CpplintNext]_allVars => FuncInv'
  BY PartSteps, FuncNext, FuncStays
<1>3. FuncInv /\ [CpplintNext]_allVars =>
        [Function!EndLine /\ body # -1 /\ simple =>
           /\ report' # -1 => body > Function!trigger /\ report' >= verbose
           /\ body > Function!trigger /\ body = lines_in_function =>
                report' >= verbose]_(Function!vars)
  BY LongOnesShow
<1> QED
  BY <1>1, <1>2, <1>3, PTL DEF CpplintSpec, LongFunctionsShow, Function!LongFunctionsShow

\* Of every file, whatever its includes and conditionals: an #include line is reported
\* as out of order exactly if one since the last conditional has to come after it, a
\* duplicate is named by a line compiled with it, and a header reported as missing is not
\* included.
THEOREM IncludesAreJudged == CpplintSpec => []IncludesAreSound
<1>1. CpplintInit => InclInv
  BY InclInit DEF CpplintInit
<1>2. InclInv /\ [CpplintNext]_allVars => InclInv'
  BY PartSteps, InclNext, InclStays
<1>3. InclInv => IncludesAreSound
  BY InclInvImplies
<1> QED
  BY <1>1, <1>2, <1>3, PTL DEF CpplintSpec

\* In every repository that can be recognised the name of the guard is made of the path in
\* it, wherever it is checked out, and the guard that encloses the header is the one that
\* is judged, whatever conditionals it holds.
THEOREM GuardsAreSound == CpplintSpec => []GuardIsSound
<1>1. CpplintInit => GuardInv
  BY GuardInit DEF CpplintInit
<1>2. GuardInv /\ [CpplintNext]_allVars => GuardInv'
  BY PartSteps, GuardNext, GuardStays
<1>3. GuardInv => GuardIsSound
  BY GuardInvImplies
<1> QED
  BY <1>1, <1>2, <1>3, PTL DEF CpplintSpec

\* Every part of cpplint.py but NestingState stays within its types: no filter without a
\* sign is in force, and lines of the cleansed text stay paired with those of the file.
THEOREM PartsAreTyped == CpplintSpec => []PartsTypeOK
<1>1. CpplintInit => LintInv /\ ExprInv /\ InclInv /\ FuncInv /\ TextInv /\ GuardInv
  BY LintInvInit, ExprInit, InclInit, FuncInit, TextInit, GuardInit DEF CpplintInit
<1>2. LintInv /\ [CpplintNext]_allVars => LintInv'
  BY PartSteps, LintInvStep
<1>3. ExprInv /\ [CpplintNext]_allVars => ExprInv'
  BY PartSteps, ExprNext, ExprStays
<1>4. InclInv /\ [CpplintNext]_allVars => InclInv'
  BY PartSteps, InclNext, InclStays
<1>5. FuncInv /\ [CpplintNext]_allVars => FuncInv'
  BY PartSteps, FuncNext, FuncStays
<1>6. TextInv /\ [CpplintNext]_allVars => TextInv'
  BY PartSteps, TextNext, TextStays
<1>7. GuardInv /\ [CpplintNext]_allVars => GuardInv'
  BY PartSteps, GuardNext, GuardStays
<1>8. LintInv /\ ExprInv /\ InclInv /\ FuncInv /\ TextInv /\ GuardInv => PartsTypeOK
  BY LintInvTypes, ExprInvImplies, InclInvImplies, FuncTyped, TextTyped, GuardInvImplies, Zenon
  DEF PartsTypeOK
<1> QED
  BY <1>1, <1>2, <1>3, <1>4, <1>5, <1>6, <1>7, <1>8, PTL DEF CpplintSpec
=============================================================================
