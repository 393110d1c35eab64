--------------------------- MODULE RecursionTheorems ---------------------------
(***************************************************************************)
(* That a recursive definition says what it seems to say.                  *)
(*                                                                         *)
(* f[x \in S] == e stands for the CHOOSE of a function that is [x \in S |-> *)
(* e], and is of no use before such a function is known to exist.  It does *)
(* when e, the operator Def below, reads f only at arguments of a smaller  *)
(* measure.  A module that reasons about a recursive function takes an     *)
(* instance of this one with the body of its own for Def; p are the        *)
(* parameters of that body.                                                *)
(*                                                                         *)
(* The first lemmas are what is used instead of induction: of a set of     *)
(* counterexamples there is a least one.                                   *)
(***************************************************************************)
EXTENDS Integers, FiniteSets, FiniteSetTheorems, TLAPS

CONSTANT Def(_, _, _) \* Def(p, f, x), the value at x of the function f

-------------------------------------------------------------------------------
LEMMA LeastNumber ==
  ASSUME NEW B \in SUBSET Nat, B # {}
  PROVE  \E n \in B : \A k \in B : n <= k
<1>1. \E n \in B : \A k \in B : ~ (<<k, n>> \in OpToRel(<, Nat))
  BY WFMin, NatLessThanWellFounded
<1>2. PICK n \in B : \A k \in B : ~ (<<k, n>> \in OpToRel(<, Nat))
  BY <1>1
<1>3. \A k \in B : ~ (k < n)
  BY <1>2, Zenon DEF OpToRel
<1> QED BY <1>3

LEMMA LeastByMeasure ==
  ASSUME NEW S, NEW m \in [S -> Nat], NEW B \in SUBSET S, B # {}
  PROVE  \E x \in B : \A y \in B : m[x] <= m[y]
<1> DEFINE M == {m[x] : x \in B}
<1>1. M \in SUBSET Nat /\ M # {}
  OBVIOUS
<1>2. PICK n \in M : \A k \in M : n <= k
  <2> HIDE DEF M
  <2> QED BY <1>1, LeastNumber
<1> QED BY <1>2

LEMMA LeastSubset ==
  ASSUME NEW S, IsFiniteSet(S), NEW B \in SUBSET SUBSET S, B # {}
  PROVE  \E T \in B : \A U \in B : U \subseteq T => U = T
<1> DEFINE R == StrictSubsetOrdering(S)
<1>1. IsWellFoundedOn(R, SUBSET S)
  BY FS_StrictSubsetOrderingWellFounded, FS_FiniteSubsetsOfFinite
<1>2. \E T \in B : \A U \in B : ~ (<<U, T>> \in R)
  <2> HIDE DEF R
  <2> QED BY <1>1, WFMin
<1> QED BY <1>2 DEF StrictSubsetOrdering

-------------------------------------------------------------------------------
\* Def(p, f, x) depends only on what f is at arguments of a smaller measure.
ReadsSmaller(p, S, m) ==
  \A f, g : \A x \in S :
    (\A y \in S : m[y] < m[x] => f[y] = g[y]) => Def(p, f, x) = Def(p, g, x)

\* A function that is as defined on the arguments of a measure below n.
Under(S, m, n) == {x \in S : m[x] < n}
Part(p, f, S, m, n) == f = [x \in Under(S, m, n) |-> Def(p, f, x)]

LEMMA PartsAgree ==
  ASSUME NEW p, NEW S, NEW m \in [S -> Nat], ReadsSmaller(p, S, m),
         NEW j \in Nat, NEW k \in Nat,
         NEW f, Part(p, f, S, m, j), NEW g, Part(p, g, S, m, k),
         NEW x \in S, m[x] < j, m[x] < k
  PROVE  f[x] = g[x]
<1> DEFINE B == {y \in S : m[y] < j /\ m[y] < k /\ f[y] # g[y]}
<1>1. SUFFICES B = {}
  OBVIOUS
<1>2. SUFFICES ASSUME B # {} PROVE FALSE
  OBVIOUS
<1>3. PICK y \in B : \A z \in B : m[y] <= m[z]
  <2>1. B \in SUBSET S
    OBVIOUS
  <2> HIDE DEF B
  <2> QED BY <1>2, <2>1, LeastByMeasure
<1>4. \A z \in S : m[z] < m[y] => f[z] = g[z]
  BY <1>3
<1>5. Def(p, f, y) = Def(p, g, y)
  BY <1>3, <1>4 DEF ReadsSmaller
<1>6. f[y] = Def(p, f, y) /\ g[y] = Def(p, g, y)
  <2>1. y \in Under(S, m, j) /\ y \in Under(S, m, k)
    BY <1>3 DEF Under
  <2> QED BY <2>1 DEF Part
<1> QED BY <1>3, <1>5, <1>6

LEMMA PartsExist ==
  ASSUME NEW p, NEW S, NEW m \in [S -> Nat], ReadsSmaller(p, S, m), NEW n \in Nat
  PROVE  \E f : Part(p, f, S, m, n)
<1> DEFINE B == {k \in Nat : ~ \E f : Part(p, f, S, m, k)}
<1>1. SUFFICES ASSUME B # {} PROVE FALSE
  OBVIOUS
<1>2. PICK k \in B : \A l \in B : k <= l
  <2>1. B \in SUBSET Nat
    OBVIOUS
  <2> HIDE DEF B
  <2> QED BY <1>1, <2>1, LeastNumber
<1>3. k # 0
  <2>1. Under(S, m, 0) = {}
    BY DEF Under
  <2>2. Part(p, [x \in {} |-> x], S, m, 0)
    BY <2>1 DEF Part
  <2> QED BY <2>2, <1>2
<1>4. PICK g : Part(p, g, S, m, k - 1)
  BY <1>2, <1>3
<1> DEFINE h == [x \in Under(S, m, k) |-> Def(p, g, x)]
<1>5. \A y \in S : m[y] < k - 1 => g[y] = h[y]
  <2>1. ASSUME NEW y \in S, m[y] < k - 1 PROVE g[y] = h[y]
    <3>1. y \in Under(S, m, k - 1) /\ y \in Under(S, m, k)
      BY <2>1, <1>2 DEF Under
    <3> QED BY <3>1, <1>4 DEF Part
  <2> QED BY <2>1
<1>6. ASSUME NEW x \in Under(S, m, k) PROVE Def(p, g, x) = Def(p, h, x)
  <2>1. x \in S /\ \A y \in S : m[y] < m[x] => m[y] < k - 1
    BY <1>6, <1>2 DEF Under
  <2>2. \A y \in S : m[y] < m[x] => g[y] = h[y]
    <3> HIDE DEF h
    <3> QED BY <2>1, <1>5
  <2> HIDE DEF h
  <2> QED BY <2>1, <2>2 DEF ReadsSmaller
<1>7. Part(p, h, S, m, k)
  <2>1. h = [x \in Under(S, m, k) |-> Def(p, h, x)]
    BY <1>6, Zenon
  <2> HIDE DEF h
  <2> QED BY <2>1 DEF Part
<1> QED BY <1>7, <1>2

(***************************************************************************)
(* A recursive definition whose body reads smaller arguments has a         *)
(* solution: the function that is defined satisfies its equation.          *)
(***************************************************************************)
LEMMA RecursionIsDefined ==
  ASSUME NEW p, NEW S, NEW m \in [S -> Nat], ReadsSmaller(p, S, m)
  PROVE  \E f : f = [x \in S |-> Def(p, f, x)]
<1> DEFINE part(n) == CHOOSE f : Part(p, f, S, m, n)
           f == [x \in S |-> part(m[x] + 1)[x]]
<1>1. \A n \in Nat : Part(p, part(n), S, m, n)
  BY PartsExist
<1>2. ASSUME NEW x \in S PROVE part(m[x] + 1)[x] = Def(p, f, x)
  <2> DEFINE g == part(m[x] + 1)
  <2>1. Part(p, g, S, m, m[x] + 1) /\ m[x] + 1 \in Nat
    BY <1>1
  <2>2. g[x] = Def(p, g, x)
    <3>1. x \in Under(S, m, m[x] + 1)
      BY DEF Under
    <3> HIDE DEF g
    <3> QED BY <3>1, <2>1 DEF Part
  <2>3. ASSUME NEW y \in S, m[y] < m[x] PROVE g[y] = f[y]
    <3>1. Part(p, part(m[y] + 1), S, m, m[y] + 1) /\ m[y] + 1 \in Nat
      BY <1>1
    <3>2. m[y] < m[x] + 1 /\ m[y] < m[y] + 1
      BY <2>3
    <3>3. g[y] = part(m[y] + 1)[y]
      <4> HIDE DEF g, part
      <4> QED BY <2>1, <3>1, <3>2, PartsAgree
    <3> QED BY <3>3
  <2>4. Def(p, g, x) = Def(p, f, x)
    <3> HIDE DEF g, f
    <3> QED BY <2>3 DEF ReadsSmaller
  <2> QED BY <2>2, <2>4
<1>3. f = [x \in S |-> Def(p, f, x)]
  BY <1>2, Zenon
<1> HIDE DEF f
<1> QED BY <1>3
===============================================================================
