----------------------------- MODULE LayoutProofs -----------------------------
(***************************************************************************)
(* Proofs about DashboardLayout, for any saved layouts and any number of   *)
(* components and edits, as long as nobody makes one of the drops that     *)
(* Refusable names.                                                        *)
(*                                                                         *)
(* The inductive invariant is Sound: the layout is one that may be saved,  *)
(* and an id is free.  That it has no circle is said without a path:       *)
(* among components that are not topmost there is always one whose parent  *)
(* is not among them (IsForest).  From this follow what Subtree, which is  *)
(* computed level by level up to the bound, holds (SubtreeHolds) and what  *)
(* the page shows (PageHolds).  The reducer's functions are taken apart    *)
(* into steps that graft, prune and add components (Regrafted, Pruned,     *)
(* Grown, Wrapped); each edit is then shown to keep the layout sound.      *)
(***************************************************************************)
EXTENDS DashboardLayout, FiniteSetTheorems, TLAPS

-------------------------------------------------------------------------------
(* Lists of children *)

LEMMA LeastIs ==
  ASSUME NEW S, NEW m \in S, \A n \in S : n \in Int /\ m <= n
  PROVE  Min(S) = m
BY DEF Min

LEMMA JoinedIs ==
  ASSUME NEW E, NEW a \in Seq(E), NEW b \in Seq(E)
  PROVE  /\ a \o b \in Seq(E) /\ Len(a \o b) = Len(a) + Len(b)
         /\ \A j \in 1..(Len(a) + Len(b)) :
              (a \o b)[j] = IF j <= Len(a) THEN a[j] ELSE b[j - Len(a)]
OBVIOUS

LEMMA StartIs ==
  ASSUME NEW E, NEW s \in Seq(E), NEW n \in 0..Len(s)
  PROVE  /\ SubSeq(s, 1, n) \in Seq(E) /\ Len(SubSeq(s, 1, n)) = n
         /\ \A j \in 1..n : SubSeq(s, 1, n)[j] = s[j]
OBVIOUS

LEMMA RestIs ==
  ASSUME NEW E, NEW s \in Seq(E), NEW n \in 0..Len(s), NEW m, m = n + 1
  PROVE  /\ SubSeq(s, m, Len(s)) \in Seq(E) /\ Len(SubSeq(s, m, Len(s))) = Len(s) - n
         /\ \A j \in 1..(Len(s) - n) : SubSeq(s, m, Len(s))[j] = s[j + n]
<1>1. SubSeq(s, m, Len(s)) \in Seq(E)
  OBVIOUS
<1>2. Len(SubSeq(s, m, Len(s))) = Len(s) - n
  OBVIOUS
<1>3. ASSUME NEW j \in 1..(Len(s) - n) PROVE SubSeq(s, m, Len(s))[j] = s[j + n]
  <2>1. m + j - 1 = j + n
    OBVIOUS
  <2>2. SubSeq(s, m, Len(s))[j] = s[m + j - 1]
    OBVIOUS
  <2> QED BY <2>1, <2>2
<1> QED BY <1>1, <1>2, <1>3

\* A list without the child at k, and with a child at k.
IsWithout(s, k, t) ==
  /\ Len(t) = Len(s) - 1
  /\ \A j \in 1..(Len(s) - 1) : t[j] = IF j < k THEN s[j] ELSE s[j + 1]
IsWith(s, k, e, t) ==
  /\ Len(t) = Len(s) + 1 /\ t[k] = e
  /\ \A j \in 1..Len(s) : t[IF j < k THEN j ELSE j + 1] = s[j]

LEMMA RemoveAtIs ==
  ASSUME NEW E, NEW s \in Seq(E), NEW k \in 1..Len(s)
  PROVE  RemoveAt(s, k) \in Seq(E) /\ IsWithout(s, k, RemoveAt(s, k))
<1> DEFINE n == Len(s)
           a == SubSeq(s, 1, k - 1)
           b == SubSeq(s, k + 1, Len(s))
<1>1. n \in Nat /\ k \in 1..n /\ k - 1 \in 0..n /\ k \in 0..n
  OBVIOUS
<1>2. a \in Seq(E) /\ Len(a) = k - 1 /\ \A j \in 1..(k - 1) : a[j] = s[j]
  <2> HIDE DEF n
  <2> QED BY <1>1, StartIs DEF n
<1>3. b \in Seq(E) /\ Len(b) = n - k /\ \A j \in 1..(n - k) : b[j] = s[j + k]
  BY <1>1, RestIs
<1>4. RemoveAt(s, k) = a \o b
  BY DEF RemoveAt
<1> HIDE DEF a, b, n
<1>5. /\ a \o b \in Seq(E) /\ Len(a \o b) = Len(a) + Len(b)
      /\ \A j \in 1..(Len(a) + Len(b)) :
           (a \o b)[j] = IF j <= Len(a) THEN a[j] ELSE b[j - Len(a)]
  BY <1>2, <1>3, JoinedIs
<1>6. PICK t : t = a \o b
  OBVIOUS
<1>7. /\ t \in Seq(E) /\ Len(t) = Len(a) + Len(b)
      /\ \A j \in 1..(Len(a) + Len(b)) : t[j] = IF j <= Len(a) THEN a[j] ELSE b[j - Len(a)]
  BY <1>5, <1>6
<1>8. Len(a) + Len(b) = n - 1
  BY <1>1, <1>2, <1>3
<1>9. ASSUME NEW j \in 1..(n - 1) PROVE t[j] = IF j < k THEN s[j] ELSE s[j + 1]
  <2>1. CASE j < k
    <3>1. j <= Len(a) /\ j \in 1..(k - 1)
      BY <2>1, <1>1, <1>2
    <3> QED BY <3>1, <1>2, <1>7, <1>8, <2>1
  <2>2. CASE j >= k
    <3>1. ~(j <= Len(a)) /\ j - Len(a) \in 1..(n - k) /\ (j - Len(a)) + k = j + 1
      BY <2>2, <1>1, <1>2
    <3>2. t[j] = b[j - Len(a)]
      BY <3>1, <1>7, <1>8
    <3>3. b[j - Len(a)] = s[j + 1]
      BY <3>1, <1>3
    <3> QED BY <3>2, <3>3, <2>2, <1>1
  <2> QED BY <2>1, <2>2, <1>1
<1>10. IsWithout(s, k, t)
  BY <1>7, <1>8, <1>9 DEF IsWithout, n
<1> QED BY <1>4, <1>6, <1>7, <1>10

LEMMA InsertAtIs ==
  ASSUME NEW E, NEW s \in Seq(E), NEW e \in E, NEW k \in 1..(Len(s) + 1)
  PROVE  InsertAt(s, k, e) \in Seq(E) /\ IsWith(s, k, e, InsertAt(s, k, e))
<1> DEFINE n == Len(s)
           a == SubSeq(s, 1, k - 1)
           u == <<e>>
           d == a \o u
           b == SubSeq(s, k, Len(s))
<1>1. n \in Nat /\ k \in 1..(n + 1) /\ k - 1 \in 0..n /\ k = (k - 1) + 1
  OBVIOUS
<1>2. a \in Seq(E) /\ Len(a) = k - 1 /\ \A j \in 1..(k - 1) : a[j] = s[j]
  BY <1>1, StartIs
<1>3. b \in Seq(E) /\ Len(b) = n - (k - 1) /\ \A j \in 1..(n - (k - 1)) : b[j] = s[j + (k - 1)]
  BY <1>1, RestIs
<1>4. InsertAt(s, k, e) = d \o b
  BY DEF InsertAt
<1>5. u \in Seq(E) /\ Len(u) = 1 /\ u[1] = e
  OBVIOUS
<1> HIDE DEF a, b, n, u
<1>6. /\ d \in Seq(E) /\ Len(d) = Len(a) + Len(u)
      /\ \A j \in 1..(Len(a) + Len(u)) : d[j] = IF j <= Len(a) THEN a[j] ELSE u[j - Len(a)]
  BY <1>2, <1>5, JoinedIs
<1> HIDE DEF d
<1>7. Len(a) + Len(u) = k
  BY <1>1, <1>2, <1>5
<1>8. d \in Seq(E) /\ Len(d) = k /\ d[k] = e /\ \A j \in 1..(k - 1) : d[j] = s[j]
  <2>1. d[k] = e
    <3>1. ~(k <= Len(a)) /\ k - Len(a) = 1 /\ k \in 1..k
      BY <1>1, <1>2
    <3> QED BY <3>1, <1>5, <1>6, <1>7
  <2>2. ASSUME NEW j \in 1..(k - 1) PROVE d[j] = s[j]
    <3>1. j <= Len(a) /\ j \in 1..k
      BY <1>1, <1>2
    <3> QED BY <3>1, <1>2, <1>6, <1>7
  <2> QED BY <2>1, <2>2, <1>6, <1>7
<1>9. /\ d \o b \in Seq(E) /\ Len(d \o b) = Len(d) + Len(b)
      /\ \A j \in 1..(Len(d) + Len(b)) :
           (d \o b)[j] = IF j <= Len(d) THEN d[j] ELSE b[j - Len(d)]
  BY <1>3, <1>8, JoinedIs
<1>10. PICK t : t = d \o b
  OBVIOUS
<1>11. /\ t \in Seq(E) /\ Len(t) = Len(d) + Len(b)
       /\ \A j \in 1..(Len(d) + Len(b)) : t[j] = IF j <= Len(d) THEN d[j] ELSE b[j - Len(d)]
  BY <1>9, <1>10
<1>12. Len(d) + Len(b) = n + 1
  BY <1>1, <1>3, <1>8
<1>13. t[k] = e
  <2>1. k \in 1..(n + 1) /\ k <= Len(d)
    BY <1>1, <1>8
  <2> QED BY <2>1, <1>8, <1>11, <1>12
<1>14. ASSUME NEW j \in 1..n PROVE t[IF j < k THEN j ELSE j + 1] = s[j]
  <2>1. CASE j < k
    <3>1. j \in 1..(n + 1) /\ j <= Len(d) /\ j \in 1..(k - 1)
      BY <2>1, <1>1, <1>8
    <3> QED BY <3>1, <2>1, <1>8, <1>11, <1>12
  <2>2. CASE ~(j < k)
    <3>1. /\ j + 1 \in 1..(n + 1) /\ ~(j + 1 <= Len(d))
          /\ (j + 1) - Len(d) \in 1..(n - (k - 1)) /\ ((j + 1) - Len(d)) + (k - 1) = j
      BY <2>2, <1>1, <1>8
    <3>2. t[j + 1] = b[(j + 1) - Len(d)]
      BY <3>1, <1>11, <1>12
    <3>3. b[(j + 1) - Len(d)] = s[j]
      BY <3>1, <1>3
    <3> QED BY <3>2, <3>3, <2>2
  <2> QED BY <2>1, <2>2
<1>15. IsWith(s, k, e, t)
  BY <1>11, <1>12, <1>13, <1>14 DEF IsWith, n
<1> QED BY <1>4, <1>10, <1>11, <1>15

LEMMA TakenOut ==
  ASSUME NEW E, NEW s \in Seq(E), IsInjective(s), NEW k \in 1..Len(s),
         NEW t \in Seq(E), IsWithout(s, k, t)
  PROVE  IsInjective(t) /\ ToSet(t) = ToSet(s) \ {s[k]}
<1> DEFINE At(j) == IF j < k THEN j ELSE j + 1
           n == Len(s)
<1>1. n \in Nat /\ DOMAIN s = 1..n /\ k \in 1..n /\ DOMAIN t = 1..(n - 1)
  BY DEF IsWithout
<1>2. ASSUME NEW j \in DOMAIN t PROVE At(j) \in DOMAIN s /\ At(j) # k /\ t[j] = s[At(j)]
  BY <1>1 DEF IsWithout
<1>3. ASSUME NEW i \in DOMAIN s, i # k PROVE \E j \in DOMAIN t : At(j) = i
  <2>1. CASE i < k
    BY <2>1, <1>1
  <2>2. CASE i > k
    <3>1. i - 1 \in DOMAIN t /\ At(i - 1) = i
      BY <2>2, <1>1
    <3> QED BY <3>1
  <2> QED BY <2>1, <2>2, <1>1, <1>3
<1>4. ASSUME NEW i \in DOMAIN t, NEW j \in DOMAIN t, At(i) = At(j) PROVE i = j
  BY <1>1, <1>4
<1> HIDE DEF At, n
<1>5. IsInjective(t)
  BY <1>2, <1>4 DEF IsInjective
<1>6. ASSUME NEW x \in ToSet(t) PROVE x \in ToSet(s) /\ x # s[k]
  BY <1>1, <1>2 DEF ToSet, IsInjective
<1>7. ASSUME NEW x \in ToSet(s), x # s[k] PROVE x \in ToSet(t)
  <2>1. PICK i \in DOMAIN s : x = s[i]
    BY DEF ToSet
  <2>2. PICK j \in DOMAIN t : At(j) = i
    BY <2>1, <1>3, <1>7
  <2> QED BY <2>1, <2>2, <1>2 DEF ToSet
<1> QED BY <1>5, <1>6, <1>7

LEMMA PutIn ==
  ASSUME NEW E, NEW s \in Seq(E), IsInjective(s), NEW e \in E, e \notin ToSet(s),
         NEW k \in 1..(Len(s) + 1), NEW t \in Seq(E), IsWith(s, k, e, t)
  PROVE  IsInjective(t) /\ ToSet(t) = ToSet(s) \cup {e}
<1> DEFINE At(j) == IF j < k THEN j ELSE j + 1
           n == Len(s)
<1>1. n \in Nat /\ DOMAIN s = 1..n /\ k \in 1..(n + 1) /\ DOMAIN t = 1..(n + 1) /\ t[k] = e
  BY DEF IsWith
<1>2. ASSUME NEW j \in DOMAIN s PROVE At(j) \in DOMAIN t /\ At(j) # k /\ s[j] = t[At(j)]
  BY <1>1 DEF IsWith
<1>3. ASSUME NEW i \in DOMAIN t, i # k PROVE \E j \in DOMAIN s : At(j) = i
  <2>1. CASE i < k
    BY <2>1, <1>1
  <2>2. CASE i > k
    <3>1. i - 1 \in DOMAIN s /\ At(i - 1) = i
      BY <2>2, <1>1
    <3> QED BY <3>1
  <2> QED BY <2>1, <2>2, <1>1, <1>3
<1> HIDE DEF At, n
<1>4. ASSUME NEW i \in DOMAIN t, i # k PROVE \E j \in DOMAIN s : At(j) = i /\ t[i] = s[j]
  BY <1>2, <1>3, <1>4
<1>5. ASSUME NEW i \in DOMAIN t, i # k PROVE t[i] # e
  BY <1>4, <1>5 DEF ToSet
<1>6. IsInjective(t)
  <2>1. ASSUME NEW i \in DOMAIN t, NEW j \in DOMAIN t, t[i] = t[j] PROVE i = j
    <3>1. CASE i = k \/ j = k
      BY <3>1, <2>1, <1>1, <1>5
    <3>2. CASE i # k /\ j # k
      <4>1. PICK p \in DOMAIN s : At(p) = i /\ t[i] = s[p]
        BY <3>2, <1>4
      <4>2. PICK q \in DOMAIN s : At(q) = j /\ t[j] = s[q]
        BY <3>2, <1>4
      <4>3. p = q
        BY <4>1, <4>2, <2>1 DEF IsInjective
      <4> QED BY <4>1, <4>2, <4>3
    <3> QED BY <3>1, <3>2
  <2> QED BY <2>1 DEF IsInjective
<1>7. ASSUME NEW x \in ToSet(t) PROVE x \in ToSet(s) \cup {e}
  <2>1. PICK i \in DOMAIN t : x = t[i]
    BY <1>7 DEF ToSet
  <2> QED BY <2>1, <1>1, <1>4 DEF ToSet
<1>8. ASSUME NEW x \in ToSet(s) \cup {e} PROVE x \in ToSet(t)
  <2>1. CASE x = e
    BY <2>1, <1>1 DEF ToSet
  <2>2. CASE x \in ToSet(s)
    BY <2>2, <1>2 DEF ToSet
  <2> QED BY <2>1, <2>2, <1>8
<1> QED BY <1>6, <1>7, <1>8

\* splice puts the child at the index, or at the end where that is further on.
LEMMA SplicedIn ==
  ASSUME NEW E, NEW s \in Seq(E), IsInjective(s), NEW e \in E, e \notin ToSet(s),
         NEW index \in Nat, index > 0
  PROVE  \E k \in 1..(Len(s) + 1) :
           /\ Splice(s, index, e) = InsertAt(s, k, e)
           /\ index <= Len(s) + 1 => k = index
<1> DEFINE k == IF index <= Len(s) + 1 THEN index ELSE Len(s) + 1
<1>1. Len(s) \in Nat /\ k \in 1..(Len(s) + 1)
  OBVIOUS
<1>2. Min({index, Len(s) + 1}) = k
  <2>1. k \in {index, Len(s) + 1} /\ \A n \in {index, Len(s) + 1} : n \in Int /\ k <= n
    BY <1>1
  <2> HIDE DEF k
  <2> QED BY <2>1, LeastIs
<1> QED BY <1>1, <1>2 DEF Splice

LEMMA FirstIsOnly ==
  ASSUME NEW E, NEW s \in Seq(E), IsInjective(s), NEW k \in 1..Len(s)
  PROVE  RemoveFirst(s, s[k]) = RemoveAt(s, k)
<1> DEFINE I == {i \in 1..Len(s) : s[i] = s[k]}
<1>1. DOMAIN s = 1..Len(s) /\ Len(s) \in Nat
  OBVIOUS
<1>2. I = {k}
  BY <1>1 DEF IsInjective
<1>3. Min(I) = k
  <2>1. k \in I /\ \A n \in I : n \in Int /\ k <= n
    BY <1>1, <1>2
  <2> HIDE DEF I
  <2> QED BY <2>1, LeastIs
<1>4. SelectInSeq(s, LAMBDA c : c = s[k]) = k
  <2>1. SelectInSeq(s, LAMBDA c : c = s[k]) = IF I # {} THEN Min(I) ELSE 0
    BY DEF SelectInSeq
  <2> QED BY <2>1, <1>2, <1>3
<1>5. RemoveFirst(s, s[k]) = RemoveAt(s, k)
  <2>1. RemoveFirst(s, s[k]) = IF \E i \in 1..Len(s) : s[i] = s[k]
                               THEN RemoveAt(s, SelectInSeq(s, LAMBDA v : v = s[k])) ELSE s
    BY DEF RemoveFirst
  <2> QED BY <2>1, <1>4
<1> QED BY <1>5

LEMMA RemovedIs ==
  ASSUME NEW E, NEW s \in Seq(E), IsInjective(s), NEW e
  PROVE  /\ RemoveFirst(s, e) \in Seq(E) /\ IsInjective(RemoveFirst(s, e))
         /\ ToSet(RemoveFirst(s, e)) = ToSet(s) \ {e}
<1>1. CASE e \in ToSet(s)
  <2>1. PICK k \in 1..Len(s) : s[k] = e
    BY <1>1 DEF ToSet
  <2>2. RemoveFirst(s, e) = RemoveAt(s, k)
    BY <2>1, FirstIsOnly
  <2> QED BY <2>1, <2>2, RemoveAtIs, TakenOut
<1>2. CASE e \notin ToSet(s)
  <2>1. ~ \E i \in 1..Len(s) : s[i] = e
    BY <1>2 DEF ToSet
  <2>2. RemoveFirst(s, e) = s
    BY <2>1 DEF RemoveFirst
  <2> QED BY <2>2, <1>2
<1> QED BY <1>1, <1>2

LEMMA JoinedAre ==
  ASSUME NEW E, NEW a \in Seq(E), NEW b \in Seq(E), IsInjective(a), IsInjective(b),
         ToSet(a) \cap ToSet(b) = {}
  PROVE  /\ a \o b \in Seq(E) /\ IsInjective(a \o b)
         /\ ToSet(a \o b) = ToSet(a) \cup ToSet(b)
<1>1. PICK t : t = a \o b
  OBVIOUS
<1> DEFINE n == Len(a)
<1>2. /\ t \in Seq(E) /\ DOMAIN t = 1..(n + Len(b)) /\ n \in Nat /\ Len(b) \in Nat
      /\ DOMAIN a = 1..n /\ DOMAIN b = 1..Len(b)
      /\ \A j \in DOMAIN t : t[j] = IF j <= n THEN a[j] ELSE b[j - n]
  <2>1. t \in Seq(E) /\ Len(t) = n + Len(b)
    BY <1>1, JoinedIs
  <2>2. \A j \in 1..(n + Len(b)) : t[j] = IF j <= n THEN a[j] ELSE b[j - n]
    BY <1>1, JoinedIs
  <2> HIDE DEF n
  <2>3. n \in Nat /\ Len(b) \in Nat /\ DOMAIN a = 1..n /\ DOMAIN b = 1..Len(b)
    BY DEF n
  <2> QED BY <2>1, <2>2, <2>3
<1> HIDE DEF n
<1>3. ASSUME NEW j \in DOMAIN t
      PROVE  \/ j \in DOMAIN a /\ j <= n /\ t[j] = a[j]
             \/ j - n \in DOMAIN b /\ j > n /\ t[j] = b[j - n]
  BY <1>2
<1>4. \A x \in DOMAIN a, y \in DOMAIN b : a[x] # b[y]
  BY DEF ToSet
<1>5. IsInjective(t)
  <2>1. ASSUME NEW i \in DOMAIN t, NEW j \in DOMAIN t, t[i] = t[j] PROVE i = j
    <3>1. CASE i <= n /\ j <= n
      BY <3>1, <2>1, <1>2, <1>3 DEF IsInjective
    <3>2. CASE i > n /\ j > n
      <4>1. i - n \in DOMAIN b /\ j - n \in DOMAIN b /\ b[i - n] = b[j - n]
        BY <3>2, <2>1, <1>2, <1>3
      <4>2. i - n = j - n
        BY <4>1 DEF IsInjective
      <4> QED BY <4>2, <1>2
    <3>3. CASE i <= n /\ j > n
      BY <3>3, <2>1, <1>2, <1>3, <1>4
    <3>4. CASE i > n /\ j <= n
      BY <3>4, <2>1, <1>2, <1>3, <1>4
    <3> QED BY <3>1, <3>2, <3>3, <3>4, <1>2
  <2> QED BY <2>1 DEF IsInjective
<1>6. ASSUME NEW x \in ToSet(t) PROVE x \in ToSet(a) \cup ToSet(b)
  BY <1>3 DEF ToSet
<1>7. ASSUME NEW j \in DOMAIN a PROVE a[j] \in ToSet(t)
  <2>1. j \in DOMAIN t /\ t[j] = a[j]
    BY <1>2
  <2> QED BY <2>1 DEF ToSet
<1>8. ASSUME NEW j \in DOMAIN b PROVE b[j] \in ToSet(t)
  <2>1. j + n \in DOMAIN t /\ ~(j + n <= n) /\ (j + n) - n = j
    BY <1>2
  <2>2. t[j + n] = b[j]
    BY <2>1, <1>2
  <2> QED BY <2>1, <2>2 DEF ToSet
<1>9. ToSet(t) = ToSet(a) \cup ToSet(b)
  <2>1. ToSet(a) \subseteq ToSet(t) /\ ToSet(b) \subseteq ToSet(t)
    BY <1>7, <1>8 DEF ToSet
  <2> QED BY <2>1, <1>6
<1> QED BY <1>1, <1>2, <1>5, <1>9

LEMMA AddedAtEnd ==
  ASSUME NEW E, NEW s \in Seq(E), IsInjective(s), NEW e \in E, e \notin ToSet(s)
  PROVE  /\ Append(s, e) \in Seq(E) /\ IsInjective(Append(s, e))
         /\ ToSet(Append(s, e)) = ToSet(s) \cup {e}
<1>1. PICK t : t = Append(s, e)
  OBVIOUS
<1>2. t \in Seq(E) /\ Len(t) = Len(s) + 1 /\ t[Len(s) + 1] = e
  BY <1>1
<1>3. \A j \in 1..Len(s) : t[j] = s[j]
  BY <1>1
<1>4. IsWith(s, Len(s) + 1, e, t)
  BY <1>2, <1>3 DEF IsWith
<1>5. Len(s) + 1 \in 1..(Len(s) + 1)
  OBVIOUS
<1>6. IsInjective(t) /\ ToSet(t) = ToSet(s) \cup {e}
  BY <1>2, <1>4, <1>5, PutIn
<1> QED BY <1>1, <1>2, <1>6

LEMMA OneIs ==
  ASSUME NEW E, NEW e \in E
  PROVE  /\ <<e>> \in Seq(E) /\ IsInjective(<<e>>) /\ ToSet(<<e>>) = {e} /\ Len(<<e>>) = 1
         /\ <<>> \in Seq(E) /\ IsInjective(<<>>) /\ ToSet(<<>>) = {}
         /\ Head(<<e>>) = e
<1>1. <<e>> \in Seq(E) /\ Len(<<e>>) = 1 /\ Head(<<e>>) = e /\ <<>> \in Seq(E)
  OBVIOUS
<1>2. DOMAIN <<e>> = {1} /\ <<e>>[1] = e /\ DOMAIN <<>> = {}
  OBVIOUS
<1> QED BY <1>1, <1>2 DEF IsInjective, ToSet

FlattenBody(p, f, i) == IF i = 1 THEN p[i] ELSE f[i - 1] \o p[i]
Flattened == INSTANCE RecursionTheorems WITH Def <- FlattenBody

LEMMA FlattenedIs ==
  ASSUME NEW E, NEW ss \in Seq(Seq(E)),
         \A i \in DOMAIN ss : IsInjective(ss[i]),
         \A i, j \in DOMAIN ss : ToSet(ss[i]) \cap ToSet(ss[j]) # {} => i = j
  PROVE  /\ FlattenSeq(ss) \in Seq(E) /\ IsInjective(FlattenSeq(ss))
         /\ ToSet(FlattenSeq(ss)) = UNION {ToSet(ss[i]) : i \in DOMAIN ss}
<1> DEFINE n == Len(ss)
           D == 1..n
<1>1. n \in Nat /\ DOMAIN ss = D /\ \A i \in D : ss[i] \in Seq(E)
  OBVIOUS
<1>2. CASE n = 0
  <2>1. FlattenSeq(ss) = <<>> /\ DOMAIN ss = {} /\ DOMAIN <<>> = {}
    BY <1>1, <1>2 DEF FlattenSeq
  <2>2. <<>> \in Seq(E)
    OBVIOUS
  <2> QED BY <2>1, <2>2 DEF IsInjective, ToSet
<1>3. CASE n # 0
  <2> DEFINE m == [i \in D |-> i]
             Is(f) == f = [i \in D |-> FlattenBody(ss, f, i)]
             F == CHOOSE f : Is(f)
  <2>1. m \in [D -> Nat]
    OBVIOUS
  <2>2. Flattened!ReadsSmaller(ss, D, m)
    <3>1. ASSUME NEW f, NEW g, NEW i \in D, \A j \in D : m[j] < m[i] => f[j] = g[j]
          PROVE  FlattenBody(ss, f, i) = FlattenBody(ss, g, i)
      <4>1. CASE i = 1
        BY <4>1 DEF FlattenBody
      <4>2. CASE i # 1
        <5>1. i - 1 \in D /\ m[i - 1] < m[i]
          BY <4>2, <1>1
        <5>2. f[i - 1] = g[i - 1]
          BY <5>1, <3>1
        <5> QED BY <5>2, <4>2 DEF FlattenBody
      <4> QED BY <4>1, <4>2
    <3> HIDE DEF m
    <3> QED BY <3>1 DEF Flattened!ReadsSmaller
  <2>3. Is(F)
    <3>1. \E f : Is(f)
      <4> HIDE DEF m, D
      <4> QED BY <2>1, <2>2, Flattened!RecursionIsDefined
    <3> HIDE DEF Is
    <3> QED BY <3>1
  <2>4. FlattenSeq(ss) = F[n]
    BY <1>3 DEF FlattenSeq, FlattenBody
  <2>5. \A i \in D : F[i] = FlattenBody(ss, F, i)
    <3> HIDE DEF F, D
    <3> QED BY <2>3
  <2> HIDE DEF F, Is
  <2> DEFINE Good(i) == /\ F[i] \in Seq(E) /\ IsInjective(F[i])
                        /\ ToSet(F[i]) = UNION {ToSet(ss[j]) : j \in 1..i}
             B == {i \in D : ~Good(i)}
  <2>6. ASSUME B # {} PROVE FALSE
    <3>1. PICK i \in B : \A j \in B : m[i] <= m[j]
      <4>1. B \in SUBSET D
        OBVIOUS
      <4> HIDE DEF B, D, m
      <4> QED BY <2>1, <2>6, <4>1, Flattened!LeastByMeasure
    <3>2. i \in D /\ ~Good(i) /\ F[i] = FlattenBody(ss, F, i)
      BY <2>5
    <3>3. CASE i = 1
      <4>1. F[i] = ss[1] /\ 1..1 = {1} /\ 1 \in D
        BY <3>2, <3>3 DEF FlattenBody
      <4>2. UNION {ToSet(ss[j]) : j \in 1..1} = ToSet(ss[1])
        BY <4>1
      <4> QED BY <4>1, <4>2, <3>2, <3>3, <1>1
    <3>4. CASE i # 1
      <4>1. i - 1 \in D /\ i \in D /\ m[i - 1] < m[i] /\ 1..i = (1..(i - 1)) \cup {i}
        BY <3>2, <3>4, <1>1
      <4>2. Good(i - 1)
        <5>1. ~(m[i] <= m[i - 1])
          BY <4>1, <2>1
        <5>2. i - 1 \notin B
          BY <5>1, <3>1
        <5> QED BY <5>2, <4>1
      <4>3. F[i] = F[i - 1] \o ss[i]
        BY <3>2, <3>4 DEF FlattenBody
      <4>4. \A j \in 1..(i - 1) : j \in D /\ j # i
        BY <4>1, <1>1
      <4>5. ToSet(F[i - 1]) \cap ToSet(ss[i]) = {}
        BY <4>1, <4>2, <4>4, <1>1
      <4>6. /\ F[i] \in Seq(E) /\ IsInjective(F[i])
            /\ ToSet(F[i]) = ToSet(F[i - 1]) \cup ToSet(ss[i])
        BY <4>1, <4>2, <4>3, <4>5, <1>1, JoinedAre
      <4>7. ToSet(F[i]) = UNION {ToSet(ss[j]) : j \in 1..i}
        BY <4>1, <4>2, <4>6
      <4> QED BY <4>6, <4>7, <3>2
    <3> QED BY <3>3, <3>4
  <2>7. Good(n)
    <3>1. n \in D
      BY <1>1, <1>3
    <3>2. n \notin B
      <4> HIDE DEF B
      <4> QED BY <2>6
    <3> QED BY <3>1, <3>2
  <2> QED BY <2>4, <2>7, <1>1
<1> QED BY <1>2, <1>3

-------------------------------------------------------------------------------
(* What is rendered below a component *)

Levels == 0..MaxComponents

Rendered(L, q) ==
  {[id |-> c, parent |-> q.id, depth |-> ChildDepth(L[q.id].type, q.depth)] :
     c \in ChildIds(L, q.id)}

LevelBody(p, f, n) ==
  IF n = 0 THEN {[id |-> p[2], parent |-> NoParent, depth |-> p[3]]}
  ELSE UNION {Rendered(p[1], q) : q \in f[n - 1]}
WithinBody(p, f, n) ==
  IF n = MaxComponents \/ p[n] = {} THEN p[n] ELSE p[n] \cup f[n + 1]

Leveled == INSTANCE RecursionTheorems WITH Def <- LevelBody
Withins == INSTANCE RecursionTheorems WITH Def <- WithinBody

IsLevels(L, i, depth, V) == V = [n \in Levels |-> LevelBody(<<L, i, depth>>, V, n)]
IsWithin(V, W) == W = [n \in Levels |-> WithinBody(V, W, n)]

LEMMA LevelsAreNumbers == MaxComponents \in Nat /\ Levels \in SUBSET Nat /\ 0 \in Levels
BY LayoutAssumption DEF Levels

LEMMA LevelsExist ==
  ASSUME NEW L, NEW i, NEW depth
  PROVE  \E V : IsLevels(L, i, depth, V)
<1> DEFINE m == [n \in Levels |-> n]
           p == <<L, i, depth>>
<1>1. m \in [Levels -> Nat]
  BY LevelsAreNumbers
<1>2. ASSUME NEW f, NEW g, NEW n \in Levels, \A k \in Levels : m[k] < m[n] => f[k] = g[k]
      PROVE  LevelBody(p, f, n) = LevelBody(p, g, n)
  <2>1. CASE n = 0
    BY <2>1 DEF LevelBody
  <2>2. CASE n # 0
    <3>1. n - 1 \in Levels /\ m[n - 1] < m[n]
      BY <2>2, LevelsAreNumbers DEF Levels
    <3>2. f[n - 1] = g[n - 1]
      BY <3>1, <1>2
    <3> QED BY <3>2, <2>2 DEF LevelBody
  <2> QED BY <2>1, <2>2
<1> HIDE DEF m
<1>3. Leveled!ReadsSmaller(p, Levels, m)
  BY <1>2 DEF Leveled!ReadsSmaller
<1> QED BY <1>1, <1>3, Leveled!RecursionIsDefined DEF IsLevels

LEMMA WithinsExist ==
  ASSUME NEW V
  PROVE  \E W : IsWithin(V, W)
<1> DEFINE m == [n \in Levels |-> MaxComponents - n]
<1>1. m \in [Levels -> Nat]
  BY LevelsAreNumbers DEF Levels
<1>2. ASSUME NEW f, NEW g, NEW n \in Levels, \A k \in Levels : m[k] < m[n] => f[k] = g[k]
      PROVE  WithinBody(V, f, n) = WithinBody(V, g, n)
  <2>1. CASE n = MaxComponents \/ V[n] = {}
    BY <2>1 DEF WithinBody
  <2>2. CASE ~(n = MaxComponents \/ V[n] = {})
    <3>1. n + 1 \in Levels /\ m[n + 1] < m[n]
      BY <2>2, LevelsAreNumbers DEF Levels
    <3>2. f[n + 1] = g[n + 1]
      BY <3>1, <1>2
    <3> QED BY <3>2, <2>2 DEF WithinBody
  <2> QED BY <2>1, <2>2
<1> HIDE DEF m
<1>3. Withins!ReadsSmaller(V, Levels, m)
  BY <1>2 DEF Withins!ReadsSmaller
<1> QED BY <1>1, <1>3, Withins!RecursionIsDefined DEF IsWithin

LEMMA SubtreeIsWithin ==
  ASSUME NEW L, NEW i, NEW depth
  PROVE  \E V, W : IsLevels(L, i, depth, V) /\ IsWithin(V, W) /\ Subtree(L, i, depth) = W[0]
<1> DEFINE V == CHOOSE V : IsLevels(L, i, depth, V)
           W == CHOOSE W : IsWithin(V, W)
<1>1. Subtree(L, i, depth) = W[0]
  BY DEF Subtree, IsLevels, IsWithin, LevelBody, WithinBody, Rendered, Levels
<1>2. IsLevels(L, i, depth, V)
  BY LevelsExist
<1> HIDE DEF V
<1>3. IsWithin(V, W)
  BY WithinsExist
<1> QED BY <1>1, <1>2, <1>3

LEMMA LevelIs ==
  ASSUME NEW L, NEW i, NEW depth, NEW V, IsLevels(L, i, depth, V), NEW n \in Levels
  PROVE  /\ n = 0 => V[n] = {[id |-> i, parent |-> NoParent, depth |-> depth]}
         /\ n # 0 => n - 1 \in Levels /\ V[n] = UNION {Rendered(L, q) : q \in V[n - 1]}
<1>1. V[n] = LevelBody(<<L, i, depth>>, V, n)
  BY DEF IsLevels
<1>2. n # 0 => n - 1 \in Levels
  BY LevelsAreNumbers DEF Levels
<1> QED BY <1>1, <1>2 DEF LevelBody

\* Once a level is empty so are those below it.
LEMMA NoneBelow ==
  ASSUME NEW L, NEW i, NEW depth, NEW V, IsLevels(L, i, depth, V),
         NEW a \in Levels, V[a] = {}, NEW b \in Levels, a <= b
  PROVE  V[b] = {}
<1> DEFINE B == {n \in Levels : a <= n /\ V[n] # {}}
<1>1. SUFFICES ASSUME B # {} PROVE FALSE
  OBVIOUS
<1>2. PICK n \in B : \A k \in B : n <= k
  <2>1. B \in SUBSET Nat
    BY LevelsAreNumbers
  <2> HIDE DEF B
  <2> QED BY <1>1, <2>1, Leveled!LeastNumber
<1>3. n \in Levels /\ a <= n /\ V[n] # {} /\ n # a /\ n \in Nat /\ a \in Nat
  BY LevelsAreNumbers
<1>4. n # 0 /\ n - 1 \in Levels /\ V[n] = UNION {Rendered(L, q) : q \in V[n - 1]}
  BY <1>3, LevelIs
<1>5. n - 1 \in B
  BY <1>3, <1>4
<1>6. ~(n <= n - 1)
  BY <1>3
<1> HIDE DEF B
<1> QED BY <1>2, <1>5, <1>6

LEMMA SubtreeIs ==
  ASSUME NEW L, NEW i, NEW depth
  PROVE  \E V : /\ IsLevels(L, i, depth, V)
                /\ Subtree(L, i, depth) = UNION {V[n] : n \in Levels}
<1>1. PICK V, W : /\ IsLevels(L, i, depth, V) /\ IsWithin(V, W)
                  /\ Subtree(L, i, depth) = W[0]
  BY SubtreeIsWithin
<1> DEFINE m == [n \in Levels |-> MaxComponents - n]
           From(n) == UNION {V[k] : k \in {j \in Levels : n <= j}}
           B == {n \in Levels : W[n] # From(n)}
<1>2. ASSUME B # {} PROVE FALSE
  <2>1. PICK n \in B : \A k \in B : m[n] <= m[k]
    <3>1. B \in SUBSET Levels /\ m \in [Levels -> Nat]
      BY LevelsAreNumbers DEF Levels
    <3> HIDE DEF B, m
    <3> QED BY <1>2, <3>1, Leveled!LeastByMeasure
  <2>2. n \in Levels /\ W[n] # From(n) /\ n \in Nat /\ W[n] = WithinBody(V, W, n)
    BY <1>1, LevelsAreNumbers DEF IsWithin
  <2>3. CASE n = MaxComponents
    <3>1. {j \in Levels : n <= j} = {n}
      BY <2>3, LevelsAreNumbers DEF Levels
    <3>2. From(n) = V[n]
      BY <3>1
    <3> QED BY <3>2, <2>2, <2>3 DEF WithinBody
  <2>4. CASE n # MaxComponents /\ V[n] = {}
    <3>1. \A j \in Levels : n <= j => V[j] = {}
      BY <2>2, <2>4, <1>1, NoneBelow
    <3>2. From(n) = {}
      BY <3>1
    <3> QED BY <3>2, <2>2, <2>4 DEF WithinBody
  <2>5. CASE n # MaxComponents /\ V[n] # {}
    <3>1. n + 1 \in Levels /\ m[n + 1] < m[n]
      BY <2>2, <2>5, LevelsAreNumbers DEF Levels
    <3>2. W[n + 1] = From(n + 1)
      <4>1. ~(m[n] <= m[n + 1])
        BY <3>1, <2>2, LevelsAreNumbers DEF Levels
      <4>2. n + 1 \notin B
        <5> HIDE DEF B, m
        <5> QED BY <4>1, <2>1
      <4> QED BY <4>2, <3>1
    <3>3. {j \in Levels : n <= j} = {n} \cup {j \in Levels : n + 1 <= j}
      BY <2>2, LevelsAreNumbers DEF Levels
    <3>4. From(n) = V[n] \cup From(n + 1)
      BY <3>3
    <3>5. W[n] = V[n] \cup W[n + 1]
      BY <2>2, <2>5 DEF WithinBody
    <3> QED BY <3>2, <3>4, <3>5, <2>2
  <2> QED BY <2>3, <2>4, <2>5
<1>3. W[0] = From(0)
  <2>1. 0 \notin B
    <3> HIDE DEF B
    <3> QED BY <1>2
  <2> QED BY <2>1, LevelsAreNumbers
<1>4. {j \in Levels : 0 <= j} = Levels
  BY LevelsAreNumbers DEF Levels
<1> QED BY <1>1, <1>3, <1>4

\* Of components in a circle each has its parent among them.
LEMMA NoCircle ==
  ASSUME NEW L, NEW T, IsForest(L, T), NEW X \in SUBSET DOMAIN L,
         \A x \in X : \E p \in X : x \in ChildIds(L, p)
  PROVE  X = {}
<1>1. SUFFICES ASSUME X # {} PROVE FALSE
  OBVIOUS
<1>2. X \in SUBSET (DOMAIN L \ T)
  BY DEF IsForest, Parents
<1>3. PICK x \in X : Parents(L, x) \ X # {}
  BY <1>1, <1>2 DEF IsForest
<1>4. PICK q \in DOMAIN L : q \notin X /\ x \in ChildIds(L, q)
  BY <1>3 DEF Parents
<1>5. PICK p \in X : x \in ChildIds(L, p)
  OBVIOUS
<1> QED BY <1>4, <1>5 DEF IsForest

\* A layout of which a component is looked at.
Placed(L, T) ==
  IsComponentMap(L) /\ IsForest(L, T) /\ DOMAIN L # ComponentIds

LevelsOf(L, T, i, depth, V) == Placed(L, T) /\ i \in DOMAIN L /\ IsLevels(L, i, depth, V)

LEMMA ChildrenAreComponents ==
  ASSUME NEW L, IsComponentMap(L), NEW p \in DOMAIN L
  PROVE  /\ ChildIds(L, p) \subseteq DOMAIN L /\ L[p].children \in Seq(ComponentIds)
         /\ IsInjective(L[p].children) /\ L[p].type \in ComponentTypes
         /\ DOMAIN L[p].children = 1..Len(L[p].children) /\ Len(L[p].children) \in Nat
<1>1. L[p] \in [type : ComponentTypes, children : Seq(ComponentIds)]
  BY DEF IsComponentMap
<1>2. ChildIds(L, p) \subseteq DOMAIN L /\ IsInjective(L[p].children)
  BY DEF IsComponentMap
<1> QED BY <1>1, <1>2

LEMMA LevelsHoldComponents ==
  ASSUME NEW L, NEW T, NEW i, NEW depth, NEW V, LevelsOf(L, T, i, depth, V),
         NEW n \in Levels, NEW r \in V[n]
  PROVE  r.id \in DOMAIN L
<1> DEFINE B == {k \in Levels : \E q \in V[k] : q.id \notin DOMAIN L}
<1>1. SUFFICES ASSUME B # {} PROVE FALSE
  OBVIOUS
<1>2. PICK k \in B : \A j \in B : k <= j
  <2>1. B \in SUBSET Nat
    BY LevelsAreNumbers
  <2> HIDE DEF B
  <2> QED BY <1>1, <2>1, Leveled!LeastNumber
<1>3. k \in Levels /\ k \in Nat /\ i \in DOMAIN L /\ IsLevels(L, i, depth, V) /\ IsComponentMap(L)
  BY LevelsAreNumbers DEF LevelsOf, Placed
<1>4. PICK q \in V[k] : q.id \notin DOMAIN L
  BY <1>2
<1>5. k # 0
  BY <1>3, <1>4, LevelIs
<1>6. k - 1 \in Levels /\ V[k] = UNION {Rendered(L, u) : u \in V[k - 1]}
  BY <1>3, <1>5, LevelIs
<1>7. PICK u \in V[k - 1] : q \in Rendered(L, u)
  BY <1>4, <1>6
<1>8. u.id \in DOMAIN L
  <2>1. ~(k <= k - 1)
    BY <1>3
  <2>2. k - 1 \notin B
    <3> HIDE DEF B
    <3> QED BY <1>2, <2>1
  <2> QED BY <2>2, <1>6, <1>7
<1> QED BY <1>3, <1>4, <1>7, <1>8, ChildrenAreComponents DEF Rendered

LEMMA LevelsHangTogether ==
  ASSUME NEW L, NEW T, NEW i, NEW depth, NEW V, LevelsOf(L, T, i, depth, V),
         NEW n \in Levels, n # 0, NEW r \in V[n]
  PROVE  /\ n - 1 \in Levels
         /\ \E q \in V[n - 1] : /\ r \in Rendered(L, q) /\ q.id \in DOMAIN L
                                 /\ r.id \in ChildIds(L, q.id) /\ r.parent = q.id
<1>1. n - 1 \in Levels /\ V[n] = UNION {Rendered(L, q) : q \in V[n - 1]}
  BY LevelIs DEF LevelsOf
<1>2. PICK q \in V[n - 1] : r \in Rendered(L, q)
  BY <1>1
<1>3. q.id \in DOMAIN L
  BY <1>1, LevelsHoldComponents
<1> QED BY <1>1, <1>2, <1>3 DEF Rendered

UpTo(V, n) == {r.id : r \in UNION {V[k] : k \in {j \in Levels : j <= n}}}

LEMMA UpToHolds ==
  ASSUME NEW V, NEW n, NEW k \in Levels, k <= n, NEW r \in V[k]
  PROVE  r.id \in UpTo(V, n)
<1>1. r \in UNION {V[j] : j \in {l \in Levels : l <= n}}
  OBVIOUS
<1> QED BY <1>1 DEF UpTo

LEMMA NoneIsBelowItself ==
  ASSUME NEW L, NEW T, NEW i, NEW depth, NEW V, LevelsOf(L, T, i, depth, V),
         NEW n \in Levels, NEW q \in V[n], i \in ChildIds(L, q.id)
  PROVE  FALSE
<1> DEFINE X == UpTo(V, n)
<1>1. n \in Nat /\ q.id \in X /\ X \in SUBSET DOMAIN L /\ IsForest(L, T)
  <2>1. n \in Nat /\ n <= n
    BY LevelsAreNumbers
  <2>2. q.id \in X
    BY <2>1, UpToHolds
  <2>3. X \subseteq DOMAIN L
    BY LevelsHoldComponents DEF UpTo
  <2> QED BY <2>1, <2>2, <2>3 DEF LevelsOf, Placed
<1>2. ASSUME NEW x \in X PROVE \E p \in X : x \in ChildIds(L, p)
  <2>1. PICK k \in Levels : k <= n /\ \E r \in V[k] : x = r.id
    BY DEF UpTo
  <2>2. PICK r \in V[k] : x = r.id
    BY <2>1
  <2>3. CASE k = 0
    <3>1. x = i
      BY <2>2, <2>3, LevelIs DEF LevelsOf
    <3> QED BY <3>1, <1>1
  <2>4. CASE k # 0
    <3>1. k - 1 \in Levels /\ \E p \in V[k - 1] : x \in ChildIds(L, p.id)
      BY <2>2, <2>4, LevelsHangTogether
    <3>2. k - 1 <= n
      <4>1. k \in Nat
        BY LevelsAreNumbers
      <4> QED BY <4>1, <2>1, <1>1
    <3>3. PICK p \in V[k - 1] : x \in ChildIds(L, p.id)
      BY <3>1
    <3>4. p.id \in X
      BY <3>1, <3>2, UpToHolds
    <3> QED BY <3>3, <3>4
  <2> QED BY <2>3, <2>4
<1> HIDE DEF X
<1> QED BY <1>1, <1>2, NoCircle

LEMMA LevelsApart ==
  ASSUME NEW L, NEW T, NEW i, NEW depth, NEW V, LevelsOf(L, T, i, depth, V),
         NEW a \in Levels, NEW b \in Levels, NEW r \in V[a], NEW q \in V[b], r.id = q.id
  PROVE  a = b
<1> DEFINE B == {n \in Levels : \E k \in Levels : n < k /\ \E x \in V[n], y \in V[k] : x.id = y.id}
<1>1. ASSUME B # {} PROVE FALSE
  <2>1. PICK n \in B : \A j \in B : n <= j
    <3>1. B \in SUBSET Nat
      BY LevelsAreNumbers
    <3> HIDE DEF B
    <3> QED BY <1>1, <3>1, Leveled!LeastNumber
  <2>2. PICK k \in Levels : n < k /\ \E x \in V[n], y \in V[k] : x.id = y.id
    BY <2>1
  <2>3. PICK x \in V[n], y \in V[k] : x.id = y.id
    BY <2>2
  <2>4. n \in Levels /\ n \in Nat /\ k \in Nat /\ k # 0
    BY <2>2, LevelsAreNumbers
  <2>5. PICK v \in V[k - 1] : v.id \in DOMAIN L /\ y.id \in ChildIds(L, v.id)
    BY <2>4, LevelsHangTogether
  <2>6. k - 1 \in Levels
    BY <2>4, LevelsHangTogether
  <2>7. CASE n = 0
    <3>1. y.id = i
      BY <2>3, <2>7, LevelIs DEF LevelsOf
    <3> QED BY <3>1, <2>5, <2>6, NoneIsBelowItself
  <2>8. CASE n # 0
    <3>1. PICK u \in V[n - 1] : u.id \in DOMAIN L /\ x.id \in ChildIds(L, u.id)
      BY <2>4, <2>8, LevelsHangTogether
    <3>2. n - 1 \in Levels /\ n - 1 < k - 1 /\ ~(n <= n - 1)
      BY <2>2, <2>4, <2>8, LevelsHangTogether
    <3>3. u.id = v.id
      BY <3>1, <2>3, <2>5 DEF LevelsOf, Placed, IsForest
    <3>4. n - 1 \in B
      BY <3>1, <3>2, <3>3, <2>5, <2>6
    <3> HIDE DEF B
    <3> QED BY <3>2, <3>4, <2>1
  <2> QED BY <2>7, <2>8
<1>2. a \in Nat /\ b \in Nat
  BY LevelsAreNumbers
<1>3. ~(a < b) /\ ~(b < a)
  BY <1>1
<1> QED BY <1>2, <1>3

LEMMA ManyUpTo ==
  ASSUME NEW L, NEW T, NEW i, NEW depth, NEW V, LevelsOf(L, T, i, depth, V),
         NEW n \in Levels, V[n] # {}
  PROVE  /\ IsFiniteSet(UpTo(V, n)) /\ UpTo(V, n) \in SUBSET DOMAIN L
         /\ Cardinality(UpTo(V, n)) >= n + 1
<1>1. MaxComponents \in Nat /\ DOMAIN L \subseteq 0..(MaxComponents + 1)
  BY LevelsAreNumbers DEF LevelsOf, Placed, IsComponentMap, ComponentIds
<1>2. IsFiniteSet(DOMAIN L)
  <2>1. IsFiniteSet(0..(MaxComponents + 1))
    BY <1>1, FS_Interval
  <2> QED BY <1>1, <2>1, FS_Subset
<1>3. \A k \in Levels : UpTo(V, k) \in SUBSET DOMAIN L /\ IsFiniteSet(UpTo(V, k))
  <2>1. ASSUME NEW k \in Levels PROVE UpTo(V, k) \in SUBSET DOMAIN L
    BY LevelsHoldComponents DEF UpTo
  <2> QED BY <2>1, <1>2, FS_Subset
<1> DEFINE B == {k \in Levels : V[k] # {} /\ ~(Cardinality(UpTo(V, k)) >= k + 1)}
<1>4. ASSUME B # {} PROVE FALSE
  <2>1. PICK k \in B : \A j \in B : k <= j
    <3>1. B \in SUBSET Nat
      BY LevelsAreNumbers
    <3> HIDE DEF B
    <3> QED BY <1>4, <3>1, Leveled!LeastNumber
  <2>2. k \in Levels /\ k \in Nat /\ V[k] # {} /\ ~(Cardinality(UpTo(V, k)) >= k + 1)
    BY LevelsAreNumbers
  <2>3. PICK r \in V[k] : TRUE
    BY <2>2
  <2>4. r.id \in UpTo(V, k)
    <3>1. k <= k
      BY <2>2
    <3> QED BY <3>1, <2>2, UpToHolds
  <2>5. IsFiniteSet(UpTo(V, k)) /\ Cardinality(UpTo(V, k)) \in Nat
    BY <1>3, <2>2, FS_CardinalityType
  <2>6. CASE k = 0
    <3>1. {r.id} \in SUBSET UpTo(V, k) /\ Cardinality({r.id}) = 1
      BY <2>4, FS_Singleton
    <3>2. Cardinality(UpTo(V, k)) >= 1
      BY <3>1, <2>5, FS_Subset
    <3> QED BY <3>2, <2>2, <2>6
  <2>7. CASE k # 0
    <3>1. k - 1 \in Levels /\ V[k - 1] # {}
      BY <2>2, <2>3, <2>7, LevelsHangTogether
    <3>2. Cardinality(UpTo(V, k - 1)) >= k
      <4>1. ~(k <= k - 1)
        BY <2>2
      <4>2. k - 1 \notin B
        <5> HIDE DEF B
        <5> QED BY <4>1, <2>1
      <4> QED BY <4>2, <3>1, <2>2
    <3>3. r.id \notin UpTo(V, k - 1)
      <4>1. ASSUME NEW l \in Levels, l <= k - 1, NEW q \in V[l] PROVE q.id # r.id
        <5>1. l # k
          BY <4>1, <2>2, LevelsAreNumbers
        <5> QED BY <5>1, <2>2, LevelsApart
      <4> QED BY <4>1 DEF UpTo
    <3>4. UpTo(V, k - 1) \cup {r.id} \in SUBSET UpTo(V, k)
      <4>1. \A l \in Levels : l <= k - 1 => l <= k
        BY <2>2, LevelsAreNumbers
      <4>2. UpTo(V, k - 1) \subseteq UpTo(V, k)
        BY <4>1 DEF UpTo
      <4> QED BY <4>2, <2>4
    <3>5. /\ IsFiniteSet(UpTo(V, k - 1)) /\ Cardinality(UpTo(V, k - 1)) \in Nat
          /\ Cardinality(UpTo(V, k - 1) \cup {r.id}) = Cardinality(UpTo(V, k - 1)) + 1
      BY <1>3, <3>1, <3>3, FS_AddElement, FS_CardinalityType
    <3>6. Cardinality(UpTo(V, k - 1) \cup {r.id}) <= Cardinality(UpTo(V, k))
      BY <2>5, <3>4, FS_Subset
    <3> QED BY <3>2, <3>5, <3>6, <2>2, <2>5
  <2> QED BY <2>6, <2>7
<1>5. n \notin B
  <2> HIDE DEF B
  <2> QED BY <1>4
<1> QED BY <1>3, <1>5

\* The levels suffice: there is nothing below the last.
LEMMA LastLevelHasNone ==
  ASSUME NEW L, NEW T, NEW i, NEW depth, NEW V, LevelsOf(L, T, i, depth, V),
         MaxComponents \in Levels, NEW r \in V[MaxComponents]
  PROVE  ChildIds(L, r.id) = {}
<1> DEFINE M == MaxComponents
           W == UpTo(V, M)
<1>1. SUFFICES ASSUME NEW c \in ChildIds(L, r.id) PROVE FALSE
  OBVIOUS
<1>2. M \in Nat /\ M <= M /\ DOMAIN L \subseteq 0..(M + 1) /\ DOMAIN L # 0..(M + 1) /\ IsComponentMap(L)
  BY LevelsAreNumbers DEF LevelsOf, Placed, IsComponentMap, ComponentIds
<1>3. r.id \in DOMAIN L /\ c \in DOMAIN L
  BY <1>2, LevelsHoldComponents, ChildrenAreComponents
<1>4. c \notin W
  <2>1. ASSUME NEW k \in Levels, NEW q \in V[k], q.id = c PROVE FALSE
    <3>1. CASE k = 0
      <4>1. c = i
        BY <2>1, <3>1, LevelIs DEF LevelsOf
      <4> QED BY <4>1, NoneIsBelowItself
    <3>2. CASE k # 0
      <4>1. PICK u \in V[k - 1] : u.id \in DOMAIN L /\ c \in ChildIds(L, u.id)
        BY <2>1, <3>2, LevelsHangTogether
      <4>2. k - 1 \in Levels
        BY <2>1, <3>2, LevelsHangTogether
      <4>3. u.id = r.id
        BY <4>1, <1>3 DEF LevelsOf, Placed, IsForest
      <4>4. k - 1 = M
        BY <4>1, <4>2, <4>3, LevelsApart
      <4> QED BY <4>4, <1>2 DEF Levels
    <3> QED BY <3>1, <3>2
  <2> QED BY <2>1 DEF UpTo
<1>5. IsFiniteSet(W) /\ W \in SUBSET DOMAIN L /\ Cardinality(W) >= M + 1 /\ Cardinality(W) \in Nat
  BY ManyUpTo, FS_CardinalityType
<1>6. W \cup {c} \in SUBSET (0..(M + 1)) /\ W \cup {c} # 0..(M + 1)
  BY <1>2, <1>3, <1>5
<1>7. Cardinality(W \cup {c}) = Cardinality(W) + 1
  BY <1>4, <1>5, FS_AddElement
<1>8. IsFiniteSet(0..(M + 1)) /\ Cardinality(0..(M + 1)) = M + 2
  <2>1. 0 \in Int /\ M + 1 \in Int /\ ~(0 > M + 1) /\ (M + 1) - 0 + 1 = M + 2
    BY <1>2
  <2> QED BY <2>1, FS_Interval
<1> HIDE DEF W, M
<1>9. /\ Cardinality(W \cup {c}) <= Cardinality(0..(M + 1))
      /\ Cardinality(0..(M + 1)) = Cardinality(W \cup {c}) => 0..(M + 1) = W \cup {c}
  BY <1>6, <1>8, FS_Subset
<1> QED BY <1>2, <1>5, <1>6, <1>7, <1>8, <1>9

TopRecord(i, depth) == [id |-> i, parent |-> NoParent, depth |-> depth]

\* What is rendered for component i.
HangsTogether(L, i, depth, R) ==
  /\ TopRecord(i, depth) \in R
  /\ \A r \in R : r.id \in DOMAIN L
  /\ \A r \in R : \A c \in ChildIds(L, r.id) : \E q \in R : q.id = c /\ q.parent = r.id
  /\ \A r \in R : \/ r = TopRecord(i, depth)
                  \/ /\ r.parent \in DOMAIN L /\ r.id \in ChildIds(L, r.parent)
                     /\ \E q \in R : q.id = r.parent
  /\ \A r, q \in R : r.id = q.id => r = q

LEMMA SubtreeHolds ==
  ASSUME NEW L, NEW T, Placed(L, T), NEW i \in DOMAIN L, NEW depth,
         NEW R, R = Subtree(L, i, depth)
  PROVE  HangsTogether(L, i, depth, R)
<1>1. PICK V : /\ IsLevels(L, i, depth, V)
               /\ R = UNION {V[n] : n \in Levels}
  BY SubtreeIs
<1>2. LevelsOf(L, T, i, depth, V) /\ IsComponentMap(L)
  BY <1>1 DEF LevelsOf, Placed
<1>3. ASSUME NEW r \in R PROVE \E n \in Levels : r \in V[n]
  BY <1>1
<1>4. TopRecord(i, depth) \in R
  <2>1. 0 \in Levels /\ TopRecord(i, depth) \in V[0]
    BY <1>1, LevelIs, LevelsAreNumbers DEF TopRecord
  <2> QED BY <1>1, <2>1
<1>5. ASSUME NEW r \in R PROVE r.id \in DOMAIN L
  BY <1>2, <1>3, LevelsHoldComponents
<1>6. ASSUME NEW r \in R, NEW c \in ChildIds(L, r.id)
      PROVE  \E q \in R : q.id = c /\ q.parent = r.id
  <2>1. PICK n \in Levels : r \in V[n]
    BY <1>3
  <2>2. n # MaxComponents
    BY <2>1, <1>2, <1>6, LastLevelHasNone
  <2>3. n \in Nat /\ n + 1 \in Levels /\ n + 1 # 0 /\ (n + 1) - 1 = n
    BY <2>2, LevelsAreNumbers DEF Levels
  <2>4. V[n + 1] = UNION {Rendered(L, q) : q \in V[n]}
    BY <2>3, <1>1, LevelIs
  <2> DEFINE q == [id |-> c, parent |-> r.id, depth |-> ChildDepth(L[r.id].type, r.depth)]
  <2>5. q \in Rendered(L, r)
    BY DEF Rendered
  <2>6. q \in V[n + 1]
    BY <2>1, <2>4, <2>5
  <2>7. q \in R
    BY <2>3, <2>6, <1>1
  <2> QED BY <2>7
<1>7. ASSUME NEW r \in R
      PROVE  \/ r = TopRecord(i, depth)
             \/ /\ r.parent \in DOMAIN L /\ r.id \in ChildIds(L, r.parent)
                /\ \E q \in R : q.id = r.parent
  <2>1. PICK n \in Levels : r \in V[n]
    BY <1>3
  <2>2. CASE n = 0
    BY <2>1, <2>2, <1>1, LevelIs DEF TopRecord
  <2>3. CASE n # 0
    <3>1. PICK q \in V[n - 1] : /\ q.id \in DOMAIN L /\ r.id \in ChildIds(L, q.id)
                                /\ r.parent = q.id
      BY <2>1, <2>3, <1>2, LevelsHangTogether
    <3>2. n - 1 \in Levels
      BY <2>1, <2>3, <1>2, LevelsHangTogether
    <3>3. q \in R
      BY <3>1, <3>2, <1>1
    <3> QED BY <3>1, <3>3
  <2> QED BY <2>2, <2>3
<1> DEFINE B == {n \in Levels : \E r, q \in V[n] : r.id = q.id /\ r # q}
<1>8. ASSUME B # {} PROVE FALSE
  <2>1. PICK n \in B : \A j \in B : n <= j
    <3>1. B \in SUBSET Nat
      BY LevelsAreNumbers
    <3> HIDE DEF B
    <3> QED BY <1>8, <3>1, Leveled!LeastNumber
  <2>2. PICK r \in V[n], q \in V[n] : r.id = q.id /\ r # q
    BY <2>1
  <2>3. n \in Levels /\ n \in Nat
    BY LevelsAreNumbers
  <2>4. n # 0
    BY <2>2, <2>3, <1>1, LevelIs
  <2>5. PICK u \in V[n - 1] : r \in Rendered(L, u) /\ u.id \in DOMAIN L /\ r.id \in ChildIds(L, u.id)
    BY <2>2, <2>3, <2>4, <1>2, LevelsHangTogether
  <2>6. PICK v \in V[n - 1] : q \in Rendered(L, v) /\ v.id \in DOMAIN L /\ q.id \in ChildIds(L, v.id)
    BY <2>2, <2>3, <2>4, <1>2, LevelsHangTogether
  <2>7. u.id = v.id
    BY <2>2, <2>5, <2>6 DEF Placed, IsForest
  <2>8. u = v
    <3>1. n - 1 \in Levels /\ ~(n <= n - 1)
      BY <2>2, <2>3, <2>4, <1>2, LevelsHangTogether
    <3>2. n - 1 \notin B
      <4> HIDE DEF B
      <4> QED BY <3>1, <2>1
    <3> QED BY <3>1, <3>2, <2>5, <2>6, <2>7
  <2> QED BY <2>2, <2>5, <2>6, <2>8 DEF Rendered
<1>9. ASSUME NEW r \in R, NEW q \in R, r.id = q.id PROVE r = q
  <2>1. PICK n \in Levels : r \in V[n]
    BY <1>3
  <2>2. PICK k \in Levels : q \in V[k]
    BY <1>3
  <2>3. k = n
    BY <2>1, <2>2, <1>2, <1>9, LevelsApart
  <2>4. n \notin B
    <3> HIDE DEF B
    <3> QED BY <1>8
  <2> QED BY <2>1, <2>2, <2>3, <2>4, <1>9
<1> QED BY <1>4, <1>5, <1>6, <1>7, <1>9 DEF HangsTogether

\* A component with all that is below it: nothing else is a child of these, and each
\* but the first has its parent among them.
IsBranch(L, i, X) ==
  /\ X \subseteq DOMAIN L
  /\ \A x \in X : ChildIds(L, x) \subseteq X
  /\ \A x \in X : x # i => \E p \in X : x \in ChildIds(L, p)
  /\ \A p \in DOMAIN L : i \in ChildIds(L, p) => p \notin X

LEMMA DescendantsAre ==
  ASSUME NEW L, NEW T, Placed(L, T), NEW i \in DOMAIN L,
         NEW X, X = {i} \cup Descendants(L, i)
  PROVE  IsBranch(L, i, X)
<1> DEFINE top == TopRecord(i, 0)
<1>0. PICK R : R = Subtree(L, i, 0)
  OBVIOUS
<1>1. /\ top \in R
      /\ \A r \in R : r.id \in DOMAIN L
      /\ \A r \in R : \A c \in ChildIds(L, r.id) : \E q \in R : q.id = c /\ q.parent = r.id
      /\ \A r \in R : \/ r = top
                      \/ /\ r.parent \in DOMAIN L /\ r.id \in ChildIds(L, r.parent)
                         /\ \E q \in R : q.id = r.parent
  <2>1. HangsTogether(L, i, 0, R)
    BY <1>0, SubtreeHolds
  <2> QED BY <2>1 DEF HangsTogether
<1>2. Descendants(L, i) = {r.id : r \in {q \in R : q.parent # NoParent}}
  BY <1>0 DEF Descendants
<1>3. NoParent \notin DOMAIN L /\ top.id = i /\ top.parent = NoParent
  <2>1. DOMAIN L \subseteq 0..(MaxComponents + 1)
    BY DEF Placed, IsComponentMap, ComponentIds
  <2> QED BY <2>1, LevelsAreNumbers DEF NoParent, TopRecord
<1> HIDE DEF top
<1>4. \A r \in R : r # top => r.parent # NoParent
  BY <1>1, <1>3
<1>5. X = {r.id : r \in R}
  <2>1. \A r \in R : r.id \in X
    BY <1>2, <1>3, <1>4
  <2>2. \A x \in X : \E r \in R : r.id = x
    BY <1>1, <1>2, <1>3
  <2> QED BY <2>1, <2>2
<1>6. ASSUME NEW x \in X, NEW c \in ChildIds(L, x) PROVE c \in X
  <2>1. PICK r \in R : r.id = x
    BY <1>5
  <2>2. \E q \in R : q.id = c /\ q.parent = r.id
    BY <2>1, <1>1
  <2> QED BY <2>2, <1>5
<1>7. ASSUME NEW x \in X, x # i PROVE \E p \in X : x \in ChildIds(L, p)
  BY <1>1, <1>3, <1>5, <1>7
<1>8. X \subseteq DOMAIN L
  BY <1>1, <1>5
<1>9. ASSUME NEW p \in DOMAIN L, i \in ChildIds(L, p), p \in X PROVE FALSE
  <2>1. \A x \in X : \E q \in X : x \in ChildIds(L, q)
    BY <1>7, <1>9
  <2>2. X = {}
    BY <2>1, <1>8, NoCircle DEF Placed
  <2> QED BY <2>2
<1> QED BY <1>6, <1>7, <1>8, <1>9 DEF IsBranch

-------------------------------------------------------------------------------
(* What is on the page *)

Sound(L) == MayBeSaved(L) /\ DOMAIN L # ComponentIds

LEMMA SoundIsPlaced ==
  ASSUME NEW L, Sound(L)
  PROVE  /\ Placed(L, Topmost(L)) /\ IsComponentMap(L)
         /\ 0 \in DOMAIN L /\ 1 \in DOMAIN L /\ NoParent \notin DOMAIN L
<1>1. Placed(L, Topmost(L)) /\ IsComponentMap(L) /\ 0 \in DOMAIN L /\ 1 \in DOMAIN L
  BY DEF Sound, MayBeSaved, Placed, IsComponentMap, DASHBOARD_ROOT_ID, DASHBOARD_GRID_ID
<1>2. DOMAIN L \subseteq 0..(MaxComponents + 1)
  BY <1>1 DEF IsComponentMap, ComponentIds
<1>3. NoParent \notin DOMAIN L
  BY <1>2, LevelsAreNumbers DEF NoParent
<1> QED BY <1>1, <1>3

\* R are the components of L, once each and below the parent that holds them, except for
\* those on top that the page leaves out.
PageShows(L, R) ==
  /\ \A r \in R : r.id \in DOMAIN L
  /\ \A r \in R : r.parent # NoParent =>
       /\ r.parent \in DOMAIN L /\ r.id \in ChildIds(L, r.parent)
       /\ \E q \in R : q.id = r.parent
  /\ \A r, q \in R : r.id = q.id => r = q
  /\ \A i \in DOMAIN L : (\E r \in R : r.id = i) <=> i \notin (Topmost(L) \ {0})
  /\ \A r \in R : r.id = 0 <=> r.parent = NoParent

LEMMA PageHolds ==
  ASSUME NEW L, Sound(L), NEW R, R = OnPage(L)
  PROVE  PageShows(L, R)
<1> DEFINE T == Topmost(L)
           top == TopRecord(0, 0)
           Ids == {r.id : r \in R}
<1>1. Placed(L, T) /\ IsForest(L, T) /\ 0 \in DOMAIN L /\ NoParent \notin DOMAIN L /\ 0 \in T
  BY SoundIsPlaced DEF Placed, Topmost, DASHBOARD_ROOT_ID
<1>2. /\ top \in R
      /\ \A r \in R : r.id \in DOMAIN L
      /\ \A r \in R : \A c \in ChildIds(L, r.id) : \E q \in R : q.id = c /\ q.parent = r.id
      /\ \A r \in R : \/ r = top
                      \/ /\ r.parent \in DOMAIN L /\ r.id \in ChildIds(L, r.parent)
                         /\ \E q \in R : q.id = r.parent
      /\ \A r, q \in R : r.id = q.id => r = q
  <2>1. R = Subtree(L, 0, 0)
    BY DEF OnPage, DASHBOARD_ROOT_ID
  <2> HIDE DEF top, T
  <2>2. HangsTogether(L, 0, 0, R)
    BY <1>1, <2>1, SubtreeHolds
  <2> QED BY <2>2 DEF top, HangsTogether
<1>3. top.id = 0 /\ top.parent = NoParent
  BY DEF TopRecord
<1> HIDE DEF top, T
<1>4. \A i \in T, p \in DOMAIN L : i \notin ChildIds(L, p)
  BY <1>1 DEF IsForest, Parents
<1>5. ASSUME NEW r \in R PROVE r.id = 0 <=> r.parent = NoParent
  BY <1>1, <1>2, <1>3, <1>4
<1>6. ASSUME NEW r \in R PROVE r.id \notin T \ {0}
  BY <1>1, <1>2, <1>3, <1>4
<1> DEFINE S == {i \in DOMAIN L \ T : i \notin Ids}
<1>7. S = {}
  <2>1. SUFFICES ASSUME S # {} PROVE FALSE
    OBVIOUS
  <2>2. PICK i \in S : Parents(L, i) \ S # {}
    BY <1>1, <2>1 DEF IsForest
  <2>3. PICK p \in DOMAIN L : p \notin S /\ i \in ChildIds(L, p)
    BY <2>2 DEF Parents
  <2>4. p \notin Ids
    <3>1. ASSUME NEW r \in R, r.id = p PROVE FALSE
      <4>1. \E q \in R : q.id = i /\ q.parent = r.id
        <5>1. i \in ChildIds(L, r.id)
          BY <3>1, <2>3
        <5>2. \A s \in R : \A c \in ChildIds(L, s.id) : \E q \in R : q.id = c /\ q.parent = s.id
          BY <1>2
        <5> QED BY <5>1, <5>2
      <4> QED BY <4>1, <2>2
    <3> QED BY <3>1
  <2>5. p \in T /\ p # 0
    BY <1>2, <1>3, <2>3, <2>4
  <2>6. HasTopLevelTabs(L) /\ p = 1
    BY <2>5 DEF T, Topmost, DASHBOARD_ROOT_ID, DASHBOARD_GRID_ID
  <2>7. L[1].children = <<>>
    BY <2>6 DEF Sound, MayBeSaved, TopIsRoot, DASHBOARD_GRID_ID
  <2>8. ChildIds(L, 1) = {}
    <3>1. DOMAIN <<>> = {}
      OBVIOUS
    <3> QED BY <2>7, <3>1 DEF ChildIds, ToSet
  <2> QED BY <2>3, <2>6, <2>8
<1>8. ASSUME NEW i \in DOMAIN L PROVE (\E r \in R : r.id = i) <=> i \notin (T \ {0})
  <2>1. CASE i \in T \ {0}
    BY <2>1, <1>6
  <2>2. CASE i = 0
    BY <2>2, <1>2, <1>3
  <2>3. CASE i \notin T
    <3>1. i \in Ids
      BY <1>7, <2>3
    <3> QED BY <3>1, <2>3
  <2> QED BY <2>1, <2>2, <2>3
<1> QED BY <1>1, <1>2, <1>3, <1>5, <1>8 DEF T, PageShows

-------------------------------------------------------------------------------
(* Edits of a forest *)

LEMMA HangsFromIs ==
  ASSUME NEW L, NEW T, IsForest(L, T), NEW S, S \subseteq DOMAIN L, S \cap T = {}, S # {}
  PROVE  \E j \in S, p \in DOMAIN L : p \notin S /\ j \in ChildIds(L, p)
<1>1. S \in SUBSET (DOMAIN L \ T)
  OBVIOUS
<1> QED BY <1>1 DEF IsForest, Parents

LEMMA IsForestWhen ==
  ASSUME NEW M, NEW T,
         \A p, q \in DOMAIN M : ChildIds(M, p) \cap ChildIds(M, q) # {} => p = q,
         \A i \in T, p \in DOMAIN M : i \notin ChildIds(M, p),
         \A S \in SUBSET (DOMAIN M \ T) :
           S # {} => \E j \in S, p \in DOMAIN M : p \notin S /\ j \in ChildIds(M, p)
  PROVE  IsForest(M, T)
<1>1. \A i \in T : Parents(M, i) = {}
  BY DEF Parents
<1>2. ASSUME NEW S \in SUBSET (DOMAIN M \ T), S # {} PROVE \E i \in S : Parents(M, i) \ S # {}
  <2>1. PICK j \in S, p \in DOMAIN M : p \notin S /\ j \in ChildIds(M, p)
    BY <1>2
  <2>2. p \in Parents(M, j) \ S
    BY <2>1 DEF Parents
  <2> QED BY <2>2
<1> QED BY <1>1, <1>2 DEF IsForest

\* M is L with the components C as children of b, and every other child where it was.
Grafts(L, b, C, M) ==
  /\ DOMAIN M = DOMAIN L
  /\ \A p \in DOMAIN L : p # b => ChildIds(M, p) = ChildIds(L, p) \ C
  /\ ChildIds(M, b) = ChildIds(L, b) \cup C

\* The components C become children of b, which is not below them.
LEMMA Regrafted ==
  ASSUME NEW L, NEW T, IsForest(L, T), NEW b \in DOMAIN L,
         NEW D, D \subseteq DOMAIN L, NEW C, C \subseteq D, b \notin D,
         \A x \in D : ChildIds(L, x) \subseteq D,
         NEW M, Grafts(L, b, C, M)
  PROVE  IsForest(M, T \ C)
<1>0. /\ DOMAIN M = DOMAIN L
      /\ \A p \in DOMAIN L : p # b => ChildIds(M, p) = ChildIds(L, p) \ C
      /\ ChildIds(M, b) = ChildIds(L, b) \cup C
  BY DEF Grafts
<1>1. \A p, q \in DOMAIN L : ChildIds(L, p) \cap ChildIds(L, q) # {} => p = q
  BY DEF IsForest
<1>2. \A i \in T, p \in DOMAIN L : i \notin ChildIds(L, p)
  BY DEF IsForest, Parents
<1>3. ASSUME NEW p \in DOMAIN M, NEW q \in DOMAIN M, ChildIds(M, p) \cap ChildIds(M, q) # {}
      PROVE  p = q
  <2>1. PICK i : i \in ChildIds(M, p) /\ i \in ChildIds(M, q)
    BY <1>3
  <2>2. CASE i \in C
    BY <2>1, <2>2, <1>0, <1>3
  <2>3. CASE i \notin C
    <3>1. i \in ChildIds(L, p) /\ i \in ChildIds(L, q)
      BY <2>1, <2>3, <1>0, <1>3
    <3> QED BY <3>1, <1>0, <1>1, <1>3
  <2> QED BY <2>2, <2>3
<1>4. ASSUME NEW i \in T \ C, NEW p \in DOMAIN M PROVE i \notin ChildIds(M, p)
  BY <1>0, <1>2
<1>5. ASSUME NEW S \in SUBSET (DOMAIN M \ (T \ C)), S # {}
      PROVE  \E j \in S, p \in DOMAIN M : p \notin S /\ j \in ChildIds(M, p)
  <2>1. CASE S \cap C = {}
    <3>1. S \subseteq DOMAIN L /\ S \cap T = {}
      BY <2>1, <1>0
    <3>2. PICK j \in S, p \in DOMAIN L : p \notin S /\ j \in ChildIds(L, p)
      BY <3>1, <1>5, HangsFromIs
    <3>3. j \in ChildIds(M, p)
      BY <3>2, <2>1, <1>0
    <3> QED BY <3>2, <3>3, <1>0
  <2>2. CASE S \cap C # {} /\ b \notin S
    BY <2>2, <1>0
  <2>3. CASE S \cap C # {} /\ b \in S
    <3> DEFINE U == S \ D
    <3>1. U \subseteq DOMAIN L /\ U \cap T = {} /\ U # {}
      BY <2>3, <1>0
    <3>2. PICK j \in U, p \in DOMAIN L : p \notin U /\ j \in ChildIds(L, p)
      <4> HIDE DEF U
      <4> QED BY <3>1, HangsFromIs
    <3>3. p \notin D /\ j \notin C
      BY <3>2, <1>0
    <3>4. j \in ChildIds(M, p) /\ p \notin S /\ j \in S
      BY <3>2, <3>3, <1>0
    <3> QED BY <3>2, <3>4, <1>0
  <2> QED BY <2>1, <2>2, <2>3
<1> QED BY <1>3, <1>4, <1>5, IsForestWhen

\* The components X, and with them all that is below them, are gone.
LEMMA Pruned ==
  ASSUME NEW L, NEW T, IsForest(L, T), NEW M, NEW X, DOMAIN M = DOMAIN L \ X,
         \A x \in X \cap DOMAIN L : ChildIds(L, x) \subseteq X,
         \A p \in DOMAIN M : ChildIds(M, p) = ChildIds(L, p) \ X
  PROVE  IsForest(M, T \ X)
<1>1. \A p, q \in DOMAIN L : ChildIds(L, p) \cap ChildIds(L, q) # {} => p = q
  BY DEF IsForest
<1>2. \A i \in T, p \in DOMAIN L : i \notin ChildIds(L, p)
  BY DEF IsForest, Parents
<1>3. \A p, q \in DOMAIN M : ChildIds(M, p) \cap ChildIds(M, q) # {} => p = q
  BY <1>1
<1>4. \A i \in T \ X, p \in DOMAIN M : i \notin ChildIds(M, p)
  BY <1>2
<1>5. ASSUME NEW S \in SUBSET (DOMAIN M \ (T \ X)), S # {}
      PROVE  \E j \in S, p \in DOMAIN M : p \notin S /\ j \in ChildIds(M, p)
  <2>1. S \subseteq DOMAIN L /\ S \cap T = {} /\ S \cap X = {}
    OBVIOUS
  <2>2. PICK j \in S, p \in DOMAIN L : p \notin S /\ j \in ChildIds(L, p)
    BY <2>1, <1>5, HangsFromIs
  <2>3. p \notin X
    BY <2>1, <2>2
  <2> QED BY <2>1, <2>2, <2>3
<1> QED BY <1>3, <1>4, <1>5, IsForestWhen

\* A new component, which hangs from nothing yet.
LEMMA Grown ==
  ASSUME NEW L, NEW T, IsForest(L, T), NEW M, NEW i, i \notin DOMAIN L,
         DOMAIN M = DOMAIN L \cup {i}, ChildIds(M, i) = {},
         \A p \in DOMAIN L : ChildIds(M, p) = ChildIds(L, p) /\ i \notin ChildIds(L, p)
  PROVE  IsForest(M, T \cup {i})
<1>1. \A p, q \in DOMAIN L : ChildIds(L, p) \cap ChildIds(L, q) # {} => p = q
  BY DEF IsForest
<1>2. \A t \in T, p \in DOMAIN L : t \notin ChildIds(L, p)
  BY DEF IsForest, Parents
<1>3. \A p, q \in DOMAIN M : ChildIds(M, p) \cap ChildIds(M, q) # {} => p = q
  BY <1>1
<1>4. \A t \in T \cup {i}, p \in DOMAIN M : t \notin ChildIds(M, p)
  BY <1>2
<1>5. ASSUME NEW S \in SUBSET (DOMAIN M \ (T \cup {i})), S # {}
      PROVE  \E j \in S, p \in DOMAIN M : p \notin S /\ j \in ChildIds(M, p)
  <2>1. S \subseteq DOMAIN L /\ S \cap T = {}
    OBVIOUS
  <2>2. PICK j \in S, p \in DOMAIN L : p \notin S /\ j \in ChildIds(L, p)
    BY <2>1, <1>5, HangsFromIs
  <2> QED BY <2>2
<1> QED BY <1>3, <1>4, <1>5, IsForestWhen

\* The child x of p is put into a new row r.
LEMMA Wrapped ==
  ASSUME NEW L, NEW T, IsForest(L, T), NEW M, NEW r, r \notin DOMAIN L, r \notin T,
         DOMAIN M = DOMAIN L \cup {r}, NEW p \in DOMAIN L, NEW x \in ChildIds(L, p), x # r,
         \A q \in DOMAIN L : r \notin ChildIds(L, q),
         ChildIds(M, r) = {x}, ChildIds(M, p) = (ChildIds(L, p) \ {x}) \cup {r},
         \A q \in DOMAIN L : q # p => ChildIds(M, q) = ChildIds(L, q)
  PROVE  IsForest(M, T)
<1>1. \A a, b \in DOMAIN L : ChildIds(L, a) \cap ChildIds(L, b) # {} => a = b
  BY DEF IsForest
<1>2. \A t \in T, q \in DOMAIN L : t \notin ChildIds(L, q)
  BY DEF IsForest, Parents
<1>3. ASSUME NEW a \in DOMAIN M, NEW b \in DOMAIN M, ChildIds(M, a) \cap ChildIds(M, b) # {}
      PROVE  a = b
  <2>1. PICK i : i \in ChildIds(M, a) /\ i \in ChildIds(M, b)
    BY <1>3
  <2>2. CASE i = r
    BY <2>1, <2>2
  <2>3. CASE i = x
    <3>1. \A q \in DOMAIN L : i \notin ChildIds(M, q)
      BY <2>3, <1>1
    <3> QED BY <2>1, <3>1
  <2>4. CASE i # r /\ i # x
    <3>1. a # r /\ b # r
      BY <2>1, <2>4
    <3>2. i \in ChildIds(L, a) /\ i \in ChildIds(L, b)
      BY <2>1, <2>4, <3>1
    <3> QED BY <3>1, <3>2, <1>1
  <2> QED BY <2>2, <2>3, <2>4
<1>4. ASSUME NEW t \in T, NEW q \in DOMAIN M PROVE t \notin ChildIds(M, q)
  BY <1>2
<1>5. ASSUME NEW S \in SUBSET (DOMAIN M \ T), S # {}
      PROVE  \E j \in S, q \in DOMAIN M : q \notin S /\ j \in ChildIds(M, q)
  <2> DEFINE U == S \ {r}
  <2>1. CASE r \in S /\ p \notin S
    BY <2>1
  <2>2. CASE r \in S => p \in S
    <3>1. U \subseteq DOMAIN L /\ U \cap T = {} /\ U # {}
      BY <2>2, <1>5
    <3>2. PICK j \in U, q \in DOMAIN L : q \notin U /\ j \in ChildIds(L, q)
      <4> HIDE DEF U
      <4> QED BY <3>1, HangsFromIs
    <3>3. q \notin S
      BY <3>2
    <3>4. CASE j = x
      <4>1. q = p
        BY <3>2, <3>4, <1>1
      <4>2. r \notin S
        BY <4>1, <3>3, <2>2
      <4> QED BY <3>4, <4>2
    <3>5. CASE j # x
      <4>1. j \in ChildIds(M, q)
        BY <3>2, <3>5
      <4> QED BY <3>2, <3>3, <4>1
    <3> QED BY <3>4, <3>5
  <2> QED BY <2>1, <2>2
<1> QED BY <1>3, <1>4, <1>5, IsForestWhen

-------------------------------------------------------------------------------
(* What may be put into what *)

Takes(parentType, childType) == isValidChild(parentType, 0, childType)

LEMMA TakesAre ==
  ASSUME NEW c
  PROVE  /\ \A d : isValidChild("ROOT", d, c) => c \in {"TABS", "GRID"}
         /\ \A d : isValidChild("GRID", d, c) => c \in {"CHART", "COLUMN", "HEADER", "ROW", "TABS"}
         /\ \A d : isValidChild("ROW", d, c) => c \in {"CHART", "COLUMN"}
         /\ \A d : isValidChild("TABS", d, c) => c \in {"TAB"}
         /\ \A d : isValidChild("TAB", d, c) => c \in {"CHART", "COLUMN", "HEADER", "ROW", "TABS"}
         /\ \A d : isValidChild("COLUMN", d, c) => c \in {"CHART", "HEADER", "ROW"}
         /\ \A p, d : isValidChild(p, d, c) => p \in {"ROOT", "GRID", "ROW", "TABS", "TAB", "COLUMN"}
BY DEF isValidChild, parentMaxDepthLookup

LEMMA TakesThese ==
  /\ \A c \in {"TABS", "GRID"} : Takes("ROOT", c)
  /\ \A c \in {"CHART", "COLUMN", "HEADER", "ROW", "TABS"} : Takes("GRID", c) /\ Takes("TAB", c)
  /\ \A c \in {"CHART", "COLUMN"} : Takes("ROW", c)
  /\ Takes("TABS", "TAB")
  /\ \A c \in {"CHART", "HEADER", "ROW"} : Takes("COLUMN", c)
BY DEF Takes, isValidChild, parentMaxDepthLookup

LEMMA FitsIs ==
  ASSUME NEW p, NEW c
  PROVE  /\ Fits(p, c) => Takes(p, c)
         /\ Fits("GRID", c) <=> c \in {"HEADER", "ROW", "TABS"}
         /\ Fits("TAB", c) <=> c \in {"HEADER", "ROW", "TABS"}
         /\ Takes(p, c) => Fits(p, c) \/ shouldWrapChildInRow(p, c)
         /\ shouldWrapChildInRow(p, c) <=> p \in {"GRID", "TAB"} /\ c \in {"CHART", "COLUMN"}
<1>1. Fits(p, c) => Takes(p, c)
  BY DEF Fits, Takes
<1>2. Fits("GRID", c) <=> c \in {"HEADER", "ROW", "TABS"}
  BY TakesAre, TakesThese DEF Fits, Takes, shouldWrapChildInRow
<1>3. Fits("TAB", c) <=> c \in {"HEADER", "ROW", "TABS"}
  BY TakesAre, TakesThese DEF Fits, Takes, shouldWrapChildInRow
<1>4. /\ Takes(p, c) => Fits(p, c) \/ shouldWrapChildInRow(p, c)
      /\ shouldWrapChildInRow(p, c) <=> p \in {"GRID", "TAB"} /\ c \in {"CHART", "COLUMN"}
  BY DEF Fits, Takes, shouldWrapChildInRow
<1> QED BY <1>1, <1>2, <1>3, <1>4

\* A child of the type of c may stay in i; A are the tabs that may hold tabs.
FitsIn(L, A, i, c) ==
  /\ Fits(L[i].type, L[c].type)
  /\ (L[i].type = "TAB" /\ L[c].type = "TABS") => i \in A

TopTabs(L) == IF HasTopLevelTabs(L) THEN ChildIds(L, rootChildId(L)) ELSE {}

\* A layout in the middle of an edit.
Whole(L, T, A) ==
  /\ IsComponentMap(L) /\ IsForest(L, T)
  /\ L[0].type = "ROOT" /\ L[1].type = "GRID"
  /\ \A i \in DOMAIN L : \A c \in ChildIds(L, i) : FitsIn(L, A, i, c)

LEMMA RootIs ==
  ASSUME NEW L, Sound(L)
  PROVE  /\ rootChildId(L) \in DOMAIN L /\ L[0].children = <<rootChildId(L)>>
         /\ ChildIds(L, 0) = {rootChildId(L)}
         /\ Whole(L, Topmost(L), TopTabs(L))
         /\ 0 \notin ChildIds(L, 0) /\ rootChildId(L) # 0
         /\ L[rootChildId(L)].type = IF HasTopLevelTabs(L) THEN "TABS" ELSE "GRID"
<1>1. IsComponentMap(L) /\ 0 \in DOMAIN L /\ Len(L[0].children) = 1
  BY SoundIsPlaced DEF Sound, MayBeSaved, TopIsRoot, DASHBOARD_ROOT_ID
<1>2. L[0].children \in Seq(ComponentIds) /\ ChildIds(L, 0) \subseteq DOMAIN L
  BY <1>1, ChildrenAreComponents
<1>3. PICK s \in Seq(ComponentIds) : s = L[0].children
  BY <1>2
<1>4. s = <<Head(s)>>
  BY <1>1, <1>3
<1>5. Head(s) \in ComponentIds
  BY <1>1, <1>3
<1>6. ToSet(s) = {Head(s)}
  BY <1>4, <1>5, OneIs
<1>7. rootChildId(L) = Head(s) /\ ChildIds(L, 0) = {Head(s)}
  BY <1>3, <1>6 DEF rootChildId, ChildIds, DASHBOARD_ROOT_ID
<1>8. Whole(L, Topmost(L), TopTabs(L))
  BY DEF Whole, Sound, MayBeSaved, TopIsRoot, ChildrenFit, FitsIn, TopTabs, DASHBOARD_ROOT_ID,
         DASHBOARD_GRID_ID
<1>9. 0 \notin ChildIds(L, 0)
  BY <1>1 DEF Sound, MayBeSaved, IsForest, Topmost, Parents, DASHBOARD_ROOT_ID
<1>10. L[rootChildId(L)].type = IF HasTopLevelTabs(L) THEN "TABS" ELSE "GRID"
  BY DEF Sound, MayBeSaved, TopIsRoot, HasTopLevelTabs, DASHBOARD_GRID_ID
<1> QED BY <1>2, <1>3, <1>4, <1>7, <1>8, <1>9, <1>10

\* An edit below the root that keeps the top-level tabs.
LEMMA SoundAgain ==
  ASSUME NEW L, Sound(L), NEW M, Whole(M, Topmost(L), TopTabs(L)), M[0] = L[0],
         HasTopLevelTabs(L) =>
           /\ M[1].children = <<>> /\ M[rootChildId(L)].type = "TABS"
           /\ ChildIds(L, rootChildId(L)) \cap DOMAIN M \subseteq ChildIds(M, rootChildId(L)),
         DOMAIN M # ComponentIds
  PROVE  Sound(M) /\ Topmost(M) = Topmost(L)
<1>1. rootChildId(M) = rootChildId(L) /\ (HasTopLevelTabs(M) <=> HasTopLevelTabs(L))
  BY DEF rootChildId, HasTopLevelTabs, DASHBOARD_ROOT_ID
<1>2. Topmost(M) = Topmost(L)
  BY <1>1 DEF Topmost
<1>3. Len(L[0].children) = 1
  BY DEF Sound, MayBeSaved, TopIsRoot, DASHBOARD_ROOT_ID
<1>4. IsComponentMap(M) /\ TopIsRoot(M) /\ IsForest(M, Topmost(M))
  BY <1>1, <1>2, <1>3 DEF Whole, TopIsRoot, DASHBOARD_ROOT_ID, DASHBOARD_GRID_ID
<1>5. ChildrenFit(M)
  <2>1. SUFFICES ASSUME NEW i \in DOMAIN M, NEW c \in ChildIds(M, i)
                 PROVE  /\ Fits(M[i].type, M[c].type)
                        /\ (M[i].type = "TAB" /\ M[c].type = "TABS") =>
                              HasTopLevelTabs(M) /\ i \in ChildIds(M, rootChildId(M))
    BY DEF ChildrenFit
  <2>2. FitsIn(M, TopTabs(L), i, c)
    BY DEF Whole
  <2> QED BY <1>1, <2>2 DEF FitsIn, TopTabs
<1> QED BY <1>2, <1>4, <1>5 DEF Sound, MayBeSaved

-------------------------------------------------------------------------------
(* Ids that are free *)

Free(L) == ComponentIds \ DOMAIN L

LEMMA LeastOf ==
  ASSUME NEW S \in SUBSET ComponentIds, S # {}
  PROVE  Min(S) \in S
<1>1. S \in SUBSET Nat
  BY LevelsAreNumbers DEF ComponentIds
<1>2. PICK m \in S : \A n \in S : m <= n
  BY <1>1, Leveled!LeastNumber
<1>3. \A n \in S : n \in Int /\ m <= n
  BY <1>1, <1>2
<1> QED BY <1>2, <1>3, LeastIs

LEMMA FreshAre ==
  ASSUME NEW L
  PROVE  /\ Free(L) # {} => FreshIds(L)[1] \in Free(L)
         /\ (\E a, b \in Free(L) : a # b) =>
              FreshIds(L)[2] \in Free(L) /\ FreshIds(L)[2] # FreshIds(L)[1]
<1> DEFINE F == Free(L)
           m == Min(F)
           n == Min(F \ {m})
<1>1. FreshIds(L) = <<m, n>>
  BY DEF FreshIds, Free
<1>2. FreshIds(L)[1] = m /\ FreshIds(L)[2] = n
  BY <1>1
<1>3. F \in SUBSET ComponentIds
  BY DEF Free
<1> HIDE DEF F
<1>4. F # {} => m \in F
  BY <1>3, LeastOf
<1> HIDE DEF m
<1>5. ASSUME NEW a \in F, NEW b \in F, a # b PROVE n \in F /\ n # m
  <2>1. F \ {m} \in SUBSET ComponentIds /\ F \ {m} # {}
    BY <1>3, <1>5
  <2>2. n \in F \ {m}
    BY <2>1, LeastOf
  <2> QED BY <2>2
<1> HIDE DEF n
<1> QED BY <1>2, <1>4, <1>5 DEF F

LEMMA ThreeAreFree ==
  ASSUME NEW L, HasFreshIds(L)
  PROVE  \E a, b, c \in Free(L) : a # b /\ b # c /\ a # c
<1> DEFINE F == Free(L)
<1>1. IsFiniteSet(F) /\ Cardinality(F) >= 3
  <2>1. IsFiniteSet(ComponentIds)
    BY LevelsAreNumbers, FS_Interval DEF ComponentIds
  <2>2. F \subseteq ComponentIds
    BY DEF Free
  <2> QED BY <2>1, <2>2, FS_Subset DEF HasFreshIds, Free
<1> HIDE DEF F
<1>2. PICK a : a \in F
  BY <1>1, FS_EmptySet
<1>3. IsFiniteSet(F \ {a}) /\ Cardinality(F \ {a}) = Cardinality(F) - 1
  BY <1>1, <1>2, FS_RemoveElement
<1>4. Cardinality(F) \in Nat
  BY <1>1, FS_CardinalityType
<1>5. PICK b : b \in F \ {a}
  <2>1. Cardinality(F \ {a}) # 0
    BY <1>1, <1>3, <1>4
  <2> QED BY <2>1, <1>3, FS_EmptySet
<1>6. Cardinality((F \ {a}) \ {b}) = Cardinality(F) - 1 - 1 /\ IsFiniteSet((F \ {a}) \ {b})
  BY <1>3, <1>5, FS_RemoveElement
<1>7. PICK c : c \in (F \ {a}) \ {b}
  <2>1. Cardinality((F \ {a}) \ {b}) # 0
    BY <1>1, <1>4, <1>6
  <2> QED BY <2>1, <1>6, FS_EmptySet
<1> QED BY <1>2, <1>5, <1>7 DEF F

\* An edit uses two ids, so one stays free.
LEMMA OneStaysFree ==
  ASSUME NEW L, HasFreshIds(L), NEW M, NEW i, NEW j, DOMAIN M \subseteq DOMAIN L \cup {i, j}
  PROVE  DOMAIN M # ComponentIds
<1>1. PICK a \in Free(L), b \in Free(L), c \in Free(L) : a # b /\ b # c /\ a # c
  BY ThreeAreFree
<1>2. {a, b, c} \ {i, j} # {}
  BY <1>1
<1> QED BY <1>1, <1>2 DEF Free

LEMMA TwoFresh ==
  ASSUME NEW L, HasFreshIds(L)
  PROVE  /\ FreshIds(L)[1] \in Free(L) /\ FreshIds(L)[2] \in Free(L)
         /\ FreshIds(L)[2] # FreshIds(L)[1]
BY ThreeAreFree, FreshAre

-------------------------------------------------------------------------------
(* One component changed, added, removed *)

Components == [type : ComponentTypes, children : Seq(ComponentIds)]

\* M is L but for the children s of q.
Sets(L, q, s, M) ==
  /\ DOMAIN M = DOMAIN L /\ M[q].children = s /\ M \in [DOMAIN L -> Components]
  /\ \A i \in DOMAIN L : M[i].type = L[i].type
  /\ \A i \in DOMAIN L : i # q => M[i] = L[i] /\ ChildIds(M, i) = ChildIds(L, i)
  /\ ChildIds(M, q) = ToSet(s)

LEMMA ChildrenSet ==
  ASSUME NEW L, IsComponentMap(L), NEW q \in DOMAIN L, NEW s \in Seq(ComponentIds),
         NEW M, M = [L EXCEPT ![q].children = s]
  PROVE  /\ Sets(L, q, s, M)
         /\ (IsInjective(s) /\ ToSet(s) \subseteq DOMAIN L) => IsComponentMap(M)
<1>1. L \in [DOMAIN L -> Components]
  BY DEF IsComponentMap, Components
<1>2. L[q] \in Components
  BY <1>1
<1>3. M = [L EXCEPT ![q] = [L[q] EXCEPT !.children = s]]
  OBVIOUS
<1>4. /\ [L[q] EXCEPT !.children = s] \in Components
      /\ [L[q] EXCEPT !.children = s].children = s
      /\ [L[q] EXCEPT !.children = s].type = L[q].type
  BY <1>2 DEF Components
<1>5. /\ M \in [DOMAIN L -> Components] /\ M[q].children = s /\ M[q].type = L[q].type
      /\ \A i \in DOMAIN L : i # q => M[i] = L[i]
  BY <1>1, <1>3, <1>4
<1>6. DOMAIN M = DOMAIN L
  BY <1>5
<1>7. /\ \A i \in DOMAIN L : i # q => ChildIds(M, i) = ChildIds(L, i)
      /\ ChildIds(M, q) = ToSet(s)
  BY <1>5 DEF ChildIds
<1>8. ASSUME IsInjective(s), ToSet(s) \subseteq DOMAIN L PROVE IsComponentMap(M)
  <2>1. \A i \in DOMAIN L : ChildIds(L, i) \subseteq DOMAIN L /\ IsInjective(L[i].children)
    BY DEF IsComponentMap
  <2>2. ASSUME NEW i \in DOMAIN L
        PROVE  ChildIds(M, i) \subseteq DOMAIN L /\ IsInjective(M[i].children)
    <3>1. CASE i = q
      <4>1. M[i].children = s /\ ChildIds(M, i) = ToSet(s)
        BY <3>1, <1>5, <1>7
      <4> QED BY <4>1, <1>8
    <3>2. CASE i # q
      <4>1. M[i].children = L[i].children /\ ChildIds(M, i) = ChildIds(L, i)
        BY <3>2, <1>5, <1>7
      <4> QED BY <4>1, <2>1
    <3> QED BY <3>1, <3>2
  <2> QED BY <2>2, <1>5, <1>6 DEF IsComponentMap, Components
<1>9. \A i \in DOMAIN L : M[i].type = L[i].type
  BY <1>5
<1> QED BY <1>5, <1>6, <1>7, <1>8, <1>9 DEF Sets

\* M is L with the component i in addition.
Adds(L, i, t, s, M) ==
  /\ DOMAIN M = DOMAIN L \cup {i} /\ M[i].type = t /\ M[i].children = s
  /\ \A j \in DOMAIN L : j # i => M[j] = L[j] /\ ChildIds(M, j) = ChildIds(L, j)
  /\ ChildIds(M, i) = ToSet(s)
  /\ M \in [DOMAIN M -> Components]

LEMMA ComponentAdded ==
  ASSUME NEW L, L \in [DOMAIN L -> Components], NEW i, NEW t \in ComponentTypes,
         NEW s \in Seq(ComponentIds), NEW M, M = With(L, i, Component(t, s))
  PROVE  Adds(L, i, t, s, M)
<1>1. /\ Component(t, s) \in Components /\ Component(t, s).type = t
      /\ Component(t, s).children = s
  BY DEF Component, Components
<1>2. /\ DOMAIN M = DOMAIN L \cup {i} /\ M[i] = Component(t, s)
      /\ \A j \in DOMAIN L : j # i => M[j] = L[j]
      /\ M \in [DOMAIN M -> Components]
  BY <1>1 DEF With
<1> QED BY <1>1, <1>2 DEF ChildIds, Adds

\* M is L without the components X.
Lacks(L, X, M) ==
  /\ DOMAIN M = DOMAIN L \ X
  /\ \A j \in DOMAIN M : M[j] = L[j] /\ ChildIds(M, j) = ChildIds(L, j)
  /\ M \in [DOMAIN M -> Components]

LEMMA ComponentsGone ==
  ASSUME NEW L, L \in [DOMAIN L -> Components], NEW X, NEW M, M = Without(L, X)
  PROVE  Lacks(L, X, M)
BY DEF Without, ChildIds, Lacks

LEMMA ComponentMapWhen ==
  ASSUME NEW M, M \in [DOMAIN M -> Components], 0 \in DOMAIN M, 1 \in DOMAIN M,
         DOMAIN M \subseteq ComponentIds,
         \A i \in DOMAIN M : ChildIds(M, i) \subseteq DOMAIN M /\ IsInjective(M[i].children)
  PROVE  IsComponentMap(M)
BY DEF IsComponentMap, Components, DASHBOARD_ROOT_ID, DASHBOARD_GRID_ID

-------------------------------------------------------------------------------
(* A component moves *)

\* Where the child c lands among the children s of the destination.
Lands(s, c, index, t) ==
  \E k \in 1..(Len(s) + 1) : (index <= Len(s) + 1 => k = index) /\ IsWith(s, k, c, t)

\* M is L after c was put at an index of q.
HasPut(L, q, c, index, M) ==
  /\ IsComponentMap(M) /\ DOMAIN M = DOMAIN L
  /\ \A i \in DOMAIN L : M[i].type = L[i].type
  /\ \A i \in DOMAIN L : i # q => M[i] = L[i] /\ ChildIds(M, i) = ChildIds(L, i)
  /\ ChildIds(M, q) = ChildIds(L, q) \cup {c}
  /\ Lands(L[q].children, c, index, M[q].children)

LEMMA PutInto ==
  ASSUME NEW L, IsComponentMap(L), NEW q \in DOMAIN L, NEW c \in DOMAIN L,
         c \notin ChildIds(L, q), NEW index \in Nat, index > 0,
         NEW M, M = [L EXCEPT ![q].children = Splice(@, index, c)]
  PROVE  HasPut(L, q, c, index, M)
<1>1. PICK s \in Seq(ComponentIds) : s = L[q].children
  BY ChildrenAreComponents
<1>2. IsInjective(s) /\ c \notin ToSet(s) /\ c \in ComponentIds
  BY <1>1, ChildrenAreComponents DEF ChildIds, IsComponentMap
<1>3. PICK k \in 1..(Len(s) + 1) :
        /\ Splice(s, index, c) = InsertAt(s, k, c)
        /\ index <= Len(s) + 1 => k = index
  BY <1>2, SplicedIn
<1>4. PICK t : t = InsertAt(s, k, c)
  OBVIOUS
<1>5. t \in Seq(ComponentIds) /\ IsWith(s, k, c, t)
  BY <1>2, <1>4, InsertAtIs
<1>6. IsInjective(t) /\ ToSet(t) = ToSet(s) \cup {c}
  BY <1>2, <1>5, PutIn
<1>7. M = [L EXCEPT ![q].children = t]
  <2>1. M = [L EXCEPT ![q].children = Splice(L[q].children, index, c)]
    OBVIOUS
  <2>3. Splice(s, index, c) = InsertAt(s, k, c)
    BY <1>3
  <2>4. Splice(s, index, c) = t
    BY <2>3, <1>4
  <2>2. Splice(L[q].children, index, c) = t
    BY <1>1, <2>4
  <2> QED BY <2>1, <2>2
<1>8. ToSet(t) \subseteq DOMAIN L
  BY <1>1, <1>6, ChildrenAreComponents DEF ChildIds
<1>9. Lands(s, c, index, t)
  <2>1. (index <= Len(s) + 1 => k = index) /\ IsWith(s, k, c, t)
    BY <1>3, <1>5
  <2> QED BY <2>1 DEF Lands
<1>10. ToSet(s) = ChildIds(L, q)
  BY <1>1 DEF ChildIds
<1>11. Sets(L, q, t, M) /\ IsComponentMap(M)
  BY <1>5, <1>6, <1>7, <1>8, ChildrenSet
<1> QED BY <1>1, <1>6, <1>9, <1>10, <1>11 DEF Sets, HasPut

\* M is L after the child c at k was taken from p.
HasTaken(L, p, k, c, M) ==
  /\ IsComponentMap(M) /\ DOMAIN M = DOMAIN L
  /\ \A i \in DOMAIN L : M[i].type = L[i].type
  /\ \A i \in DOMAIN L : i # p => M[i] = L[i] /\ ChildIds(M, i) = ChildIds(L, i)
  /\ ChildIds(M, p) = ChildIds(L, p) \ {c}
  /\ IsWithout(L[p].children, k, M[p].children)

LEMMA TakenFrom ==
  ASSUME NEW L, IsComponentMap(L), NEW p \in DOMAIN L, NEW k \in DOMAIN L[p].children,
         NEW c, c = L[p].children[k],
         NEW M, M = [L EXCEPT ![p].children = RemoveAt(@, k)]
  PROVE  HasTaken(L, p, k, c, M)
<1>1. PICK s \in Seq(ComponentIds) : s = L[p].children
  BY ChildrenAreComponents
<1>2. IsInjective(s) /\ k \in 1..Len(s) /\ ToSet(s) = ChildIds(L, p) /\ c = s[k]
  BY <1>1, ChildrenAreComponents DEF ChildIds
<1>3. PICK t : t = RemoveAt(s, k)
  OBVIOUS
<1>4. t \in Seq(ComponentIds) /\ IsWithout(s, k, t)
  BY <1>2, <1>3, RemoveAtIs
<1>5. IsInjective(t) /\ ToSet(t) = ToSet(s) \ {c}
  BY <1>2, <1>4, TakenOut
<1>6. M = [L EXCEPT ![p].children = t]
  BY <1>1, <1>3
<1>7. ToSet(t) \subseteq DOMAIN L
  BY <1>2, <1>5, ChildrenAreComponents
<1>8. Sets(L, p, t, M) /\ IsComponentMap(M)
  BY <1>4, <1>5, <1>6, <1>7, ChildrenSet
<1> QED BY <1>1, <1>2, <1>4, <1>5, <1>8 DEF Sets, HasTaken

-------------------------------------------------------------------------------
(* A child is put into a row *)

\* t is s but for r at k.
Replaces(s, k, r, t) ==
  /\ IsInjective(t) /\ ToSet(t) = (ToSet(s) \ {s[k]}) \cup {r}
  /\ DOMAIN t = DOMAIN s /\ t[k] = r /\ \A j \in DOMAIN s : j # k => t[j] = s[j]

LEMMA Replaced ==
  ASSUME NEW E, NEW s \in Seq(E), IsInjective(s), NEW k \in DOMAIN s, NEW r \in E,
         r \notin ToSet(s), NEW t, t = [s EXCEPT ![k] = r]
  PROVE  t \in Seq(E) /\ Replaces(s, k, r, t)
<1>1. /\ t \in Seq(E) /\ DOMAIN t = DOMAIN s /\ t[k] = r
      /\ \A j \in DOMAIN s : j # k => t[j] = s[j]
  OBVIOUS
<1>2. \A j \in DOMAIN s : s[j] # r
  BY DEF ToSet
<1>3. IsInjective(t)
  BY <1>1, <1>2 DEF IsInjective
<1>4. ASSUME NEW x \in ToSet(t) PROVE x \in (ToSet(s) \ {s[k]}) \cup {r}
  BY <1>1 DEF ToSet, IsInjective
<1>5. ASSUME NEW x \in (ToSet(s) \ {s[k]}) \cup {r} PROVE x \in ToSet(t)
  <2>1. CASE x = r
    BY <2>1, <1>1 DEF ToSet
  <2>2. CASE x # r
    <3>1. PICK j \in DOMAIN s : s[j] = x
      BY <2>2, <1>5 DEF ToSet
    <3>2. j # k
      BY <3>1, <2>2, <1>5
    <3> QED BY <3>1, <3>2, <1>1 DEF ToSet
  <2> QED BY <2>1, <2>2
<1> QED BY <1>1, <1>3, <1>4, <1>5 DEF Replaces

\* M is P but for the new row r, in which the child c of q is now.
InRow(P, q, k, c, r, M) ==
  /\ DOMAIN M = DOMAIN P \cup {r} /\ M[r].type = "ROW" /\ M[r].children = <<c>>
  /\ M[q].type = P[q].type /\ DOMAIN M[q].children = DOMAIN P[q].children
  /\ M[q].children[k] = r
  /\ \A j \in DOMAIN P[q].children : j # k => M[q].children[j] = P[q].children[j]
  /\ \A i \in DOMAIN P : i # q => M[i] = P[i] /\ ChildIds(M, i) = ChildIds(P, i)
  /\ ChildIds(M, q) = (ChildIds(P, q) \ {c}) \cup {r} /\ ChildIds(M, r) = {c}

LEMMA WrappedIn ==
  ASSUME NEW P, NEW T, IsComponentMap(P), IsForest(P, T), T \subseteq DOMAIN P,
         NEW q \in DOMAIN P, NEW k \in DOMAIN P[q].children, NEW c, c = P[q].children[k],
         NEW r, r = FreshIds(P)[1], r \in Free(P), NEW type,
         shouldWrapChildInRow(P[q].type, type), NEW M, M = WrapInRow(P, type, q, k)
  PROVE  IsComponentMap(M) /\ IsForest(M, T) /\ InRow(P, q, k, c, r, M)
<1>1. PICK s \in Seq(ComponentIds) : s = P[q].children
  BY ChildrenAreComponents
<1>2. /\ IsInjective(s) /\ k \in DOMAIN s /\ c = s[k] /\ ToSet(s) = ChildIds(P, q)
      /\ ChildIds(P, q) \subseteq DOMAIN P
  BY <1>1, ChildrenAreComponents DEF ChildIds
<1>3. r \in ComponentIds /\ r \notin DOMAIN P /\ r \notin ToSet(s)
  BY <1>2 DEF Free
<1>4. PICK t : t = [s EXCEPT ![k] = r]
  OBVIOUS
<1>5. /\ t \in Seq(ComponentIds) /\ IsInjective(t) /\ ToSet(t) = (ToSet(s) \ {c}) \cup {r}
      /\ DOMAIN t = DOMAIN s /\ t[k] = r /\ \A j \in DOMAIN s : j # k => t[j] = s[j]
  <2>1. t \in Seq(ComponentIds) /\ Replaces(s, k, r, t)
    BY <1>2, <1>3, <1>4, Replaced
  <2> QED BY <2>1, <1>2 DEF Replaces
<1>6. PICK N : N = [P EXCEPT ![q].children = t]
  OBVIOUS
<1>7. Sets(P, q, t, N)
  BY <1>5, <1>6, ChildrenSet
<1>8. c \in ComponentIds /\ <<c>> \in Seq(ComponentIds) /\ ToSet(<<c>>) = {c} /\ IsInjective(<<c>>)
      /\ c \in DOMAIN P /\ c \in ChildIds(P, q)
  <2>1. c \in ToSet(s)
    BY <1>2 DEF ToSet
  <2>2. c \in DOMAIN P /\ c \in ComponentIds /\ c \in ChildIds(P, q)
    BY <2>1, <1>2 DEF IsComponentMap
  <2> QED BY <2>2, OneIs
<1>9. M = With(N, r, Component("ROW", <<c>>))
  <2>1. M = With([P EXCEPT ![q].children[k] = r], r, Component("ROW", <<P[q].children[k]>>))
    BY DEF WrapInRow
  <2>2. [P EXCEPT ![q].children[k] = r] = [P EXCEPT ![q].children = [P[q].children EXCEPT ![k] = r]]
    OBVIOUS
  <2>3. [P EXCEPT ![q].children[k] = r] = N
    BY <2>2, <1>1, <1>4, <1>6
  <2> QED BY <2>1, <2>3
<1>10. /\ DOMAIN M = DOMAIN N \cup {r} /\ M[r].type = "ROW" /\ M[r].children = <<c>>
       /\ \A j \in DOMAIN N : j # r => M[j] = N[j] /\ ChildIds(M, j) = ChildIds(N, j)
       /\ ChildIds(M, r) = {c} /\ M \in [DOMAIN M -> Components]
  <2>1. "ROW" \in ComponentTypes
    BY DEF ComponentTypes
  <2>2. N \in [DOMAIN N -> Components]
    BY <1>7 DEF Sets
  <2>3. Adds(N, r, "ROW", <<c>>, M)
    BY <2>1, <2>2, <1>8, <1>9, ComponentAdded
  <2> QED BY <2>3, <1>8 DEF Adds
<1>11. InRow(P, q, k, c, r, M)
  BY <1>1, <1>2, <1>3, <1>5, <1>7, <1>10 DEF Sets, InRow
<1>12. ASSUME NEW i \in DOMAIN M
       PROVE  ChildIds(M, i) \subseteq DOMAIN M /\ IsInjective(M[i].children)
  <2>1. CASE i = r
    BY <2>1, <1>8, <1>10, <1>7 DEF Sets
  <2>2. CASE i = q
    <3>1. M[i].children = t
      BY <2>2, <1>3, <1>7, <1>10 DEF Sets
    <3>2. ChildIds(M, i) = (ChildIds(P, q) \ {c}) \cup {r}
      BY <2>2, <1>11 DEF InRow
    <3>3. DOMAIN M = DOMAIN P \cup {r}
      BY <1>11 DEF InRow
    <3> QED BY <3>1, <3>2, <3>3, <1>2, <1>5
  <2>3. CASE i # r /\ i # q
    <3>1. i \in DOMAIN P /\ M[i] = P[i] /\ ChildIds(M, i) = ChildIds(P, i) /\ DOMAIN P \subseteq DOMAIN M
      BY <2>3, <1>11 DEF InRow
    <3>2. ChildIds(P, i) \subseteq DOMAIN P /\ IsInjective(P[i].children)
      BY <3>1, ChildrenAreComponents
    <3> QED BY <3>1, <3>2
  <2> QED BY <2>1, <2>2, <2>3
<1>13. IsComponentMap(M)
  <2>1. 0 \in DOMAIN M /\ 1 \in DOMAIN M /\ DOMAIN M \subseteq ComponentIds
    BY <1>3, <1>11 DEF InRow, IsComponentMap, DASHBOARD_ROOT_ID, DASHBOARD_GRID_ID
  <2> QED BY <2>1, <1>10, <1>12, ComponentMapWhen
<1>14. IsForest(M, T)
  <2>1. \A i \in DOMAIN P : r \notin ChildIds(P, i)
    BY <1>3, ChildrenAreComponents
  <2>2. c # r /\ r \notin T
    BY <1>3, <1>8
  <2>3. /\ DOMAIN M = DOMAIN P \cup {r}
        /\ \A i \in DOMAIN P : i # q => ChildIds(M, i) = ChildIds(P, i)
        /\ ChildIds(M, q) = (ChildIds(P, q) \ {c}) \cup {r} /\ ChildIds(M, r) = {c}
    BY <1>11 DEF InRow
  <2> QED BY <2>1, <2>2, <2>3, <1>3, <1>8, Wrapped
<1> QED BY <1>11, <1>13, <1>14

\* Of an edit's layout everything fits, but for the child c of q, which q takes.
AllFitBut(P, A, q, c) ==
  /\ P[0].type = "ROOT" /\ P[1].type = "GRID"
  /\ Takes(P[q].type, P[c].type)
  /\ (P[q].type = "TAB" /\ P[c].type = "TABS") => q \in A
  /\ \A i \in DOMAIN P : \A x \in ChildIds(P, i) : FitsIn(P, A, i, x) \/ (i = q /\ x = c)

LEMMA RowFits ==
  ASSUME NEW p \in {"GRID", "TAB"}, NEW c \in {"CHART", "COLUMN"}
  PROVE  Fits(p, "ROW") /\ Fits("ROW", c)
<1>1. Fits(p, "ROW")
  BY FitsIs
<1>2. Takes("ROW", c) /\ ~shouldWrapChildInRow("ROW", c)
  BY TakesThese DEF shouldWrapChildInRow
<1> QED BY <1>1, <1>2 DEF Fits, Takes

\* M is P, with the child c of q in a row where it needs one.
IsSettled(P, T, A, q, k, c, r, type, M) ==
  /\ Whole(M, T, A)
  /\ IF shouldWrapChildInRow(P[q].type, type)
     THEN InRow(P, q, k, c, r, M) /\ r \in Free(P) ELSE M = P

LEMMA Settled ==
  ASSUME NEW P, NEW T, NEW A, IsComponentMap(P), IsForest(P, T), T \subseteq DOMAIN P,
         NEW q \in DOMAIN P, NEW c \in ChildIds(P, q), AllFitBut(P, A, q, c),
         NEW k, NEW r, r = FreshIds(P)[1], NEW type, type = P[c].type,
         shouldWrapChildInRow(P[q].type, type) =>
           k \in DOMAIN P[q].children /\ P[q].children[k] = c /\ Free(P) # {},
         NEW M, M = WrapInRow(P, type, q, k)
  PROVE  IsSettled(P, T, A, q, k, c, r, type, M)
<1>1. CASE ~shouldWrapChildInRow(P[q].type, type)
  <2>1. M = P
    BY <1>1 DEF WrapInRow
  <2>2. FitsIn(P, A, q, c)
    BY <1>1 DEF AllFitBut, FitsIn, Takes, Fits
  <2>3. Whole(P, T, A)
    BY <2>2 DEF AllFitBut, Whole
  <2> QED BY <2>1, <2>3, <1>1 DEF IsSettled
<1>2. CASE shouldWrapChildInRow(P[q].type, type)
  <2>1. r \in Free(P) /\ r \notin DOMAIN P
    BY <1>2, FreshAre DEF Free
  <2>2. IsComponentMap(M) /\ IsForest(M, T) /\ InRow(P, q, k, c, r, M)
    BY <1>2, <2>1, WrappedIn
  <2>3. \A i \in DOMAIN P : M[i].type = P[i].type /\ i # r
    BY <2>1, <2>2 DEF InRow
  <2>4. c \in DOMAIN P /\ \A i \in DOMAIN P : ChildIds(P, i) \subseteq DOMAIN P
    BY ChildrenAreComponents
  <2>5. P[q].type \in {"GRID", "TAB"} /\ type \in {"CHART", "COLUMN"} /\ M[r].type = "ROW"
    BY <1>2, <2>2, FitsIs DEF InRow
  <2>6. Fits(P[q].type, "ROW") /\ Fits("ROW", type)
    BY <2>5, RowFits
  <2>7. ASSUME NEW i \in DOMAIN M, NEW x \in ChildIds(M, i) PROVE FitsIn(M, A, i, x)
    <3>1. CASE i = r
      <4>1. x = c /\ M[c].type = type
        BY <3>1, <2>2, <2>3, <2>4, <2>7 DEF InRow
      <4> QED BY <4>1, <3>1, <2>5, <2>6 DEF FitsIn
    <3>2. CASE i = q /\ x = r
      BY <3>2, <2>3, <2>5, <2>6 DEF FitsIn
    <3>3. CASE i = q /\ x # r
      <4>1. x \in ChildIds(P, q) /\ x # c
        BY <3>3, <2>2, <2>7 DEF InRow
      <4>2. FitsIn(P, A, q, x) /\ x \in DOMAIN P
        BY <4>1, <2>4 DEF AllFitBut
      <4> QED BY <4>2, <3>3, <2>3 DEF FitsIn
    <3>4. CASE i # r /\ i # q
      <4>1. i \in DOMAIN P /\ x \in ChildIds(P, i)
        BY <3>4, <2>2, <2>7 DEF InRow
      <4>2. FitsIn(P, A, i, x) /\ x \in DOMAIN P
        BY <4>1, <3>4, <2>4 DEF AllFitBut
      <4> QED BY <4>1, <4>2, <2>3 DEF FitsIn
    <3> QED BY <3>1, <3>2, <3>3, <3>4
  <2>8. 0 \in DOMAIN P /\ 1 \in DOMAIN P
    BY DEF IsComponentMap, DASHBOARD_ROOT_ID, DASHBOARD_GRID_ID
  <2>9. Whole(M, T, A)
    BY <2>2, <2>3, <2>7, <2>8 DEF Whole, AllFitBut
  <2> QED BY <1>2, <2>1, <2>2, <2>9 DEF IsSettled
<1> QED BY <1>1, <1>2 DEF IsSettled

-------------------------------------------------------------------------------
(* MOVE_COMPONENT *)

\* P is L after the child c, at k of p, has moved to index n of q.
MovedTo(L, p, k, q, n, c, P) ==
  /\ DOMAIN P = DOMAIN L
  /\ \A i \in DOMAIN L : P[i].type = L[i].type
  /\ \A i \in DOMAIN L : (i # p /\ i # q) => P[i] = L[i]
  /\ \A i \in DOMAIN L : i # q => ChildIds(P, i) = ChildIds(L, i) \ {c}
  /\ ChildIds(P, q) = ChildIds(L, q) \cup {c}
  /\ \E u : /\ IF p = q THEN IsWithout(L[q].children, k, u) ELSE u = L[q].children
            /\ Lands(u, c, n, P[q].children)

LEMMA Reordered ==
  ASSUME NEW L, NEW T, IsComponentMap(L), IsForest(L, T), NEW p \in DOMAIN L,
         NEW k \in DOMAIN L[p].children, NEW c, c = L[p].children[k], NEW q \in DOMAIN L,
         NEW n \in Nat, n > 0,
         NEW source, source.id = p, source.index = k,
         NEW destination, destination.id = q, destination.index = n,
         NEW P, P = reorderItem(L, source, destination, c)
  PROVE  IsComponentMap(P) /\ MovedTo(L, p, k, q, n, c, P)
<1>1. c \in ChildIds(L, p) /\ c \in DOMAIN L
  <2>1. c \in ChildIds(L, p)
    BY DEF ChildIds, ToSet
  <2> QED BY <2>1, ChildrenAreComponents
<1>2. \A i \in DOMAIN L : i # p => c \notin ChildIds(L, i)
  BY <1>1 DEF IsForest
<1>3. PICK N : N = [L EXCEPT ![p].children = RemoveAt(@, k)]
  OBVIOUS
<1>4. /\ IsComponentMap(N) /\ DOMAIN N = DOMAIN L
      /\ \A i \in DOMAIN L : N[i].type = L[i].type
      /\ \A i \in DOMAIN L : i # p => N[i] = L[i] /\ ChildIds(N, i) = ChildIds(L, i)
      /\ ChildIds(N, p) = ChildIds(L, p) \ {c}
      /\ IsWithout(L[p].children, k, N[p].children)
  <2>1. HasTaken(L, p, k, c, N)
    BY <1>3, TakenFrom
  <2> QED BY <2>1 DEF HasTaken
<1>5. P = [N EXCEPT ![q].children = Splice(@, n, c)]
  BY <1>3 DEF reorderItem
<1>6. c \notin ChildIds(N, q)
  BY <1>2, <1>4
<1>7. /\ IsComponentMap(P) /\ DOMAIN P = DOMAIN N
      /\ \A i \in DOMAIN N : P[i].type = N[i].type
      /\ \A i \in DOMAIN N : i # q => P[i] = N[i] /\ ChildIds(P, i) = ChildIds(N, i)
      /\ ChildIds(P, q) = ChildIds(N, q) \cup {c}
      /\ Lands(N[q].children, c, n, P[q].children)
  <2>1. c \in DOMAIN N /\ q \in DOMAIN N
    BY <1>1, <1>4
  <2>2. HasPut(N, q, c, n, P)
    BY <2>1, <1>4, <1>5, <1>6, PutInto
  <2> QED BY <2>2 DEF HasPut
<1>8. IF p = q THEN IsWithout(L[q].children, k, N[q].children) ELSE N[q].children = L[q].children
  BY <1>4
<1>9. ASSUME NEW i \in DOMAIN L, i # q PROVE ChildIds(P, i) = ChildIds(L, i) \ {c}
  BY <1>2, <1>4, <1>7, <1>9
<1>10. ChildIds(P, q) = ChildIds(L, q) \cup {c}
  BY <1>1, <1>4, <1>7
<1>11. \A i \in DOMAIN L : (i # p /\ i # q) => P[i] = L[i]
  BY <1>4, <1>7
<1>12. DOMAIN P = DOMAIN L /\ \A i \in DOMAIN L : P[i].type = L[i].type
  BY <1>4, <1>7
<1>13. \E u : /\ IF p = q THEN IsWithout(L[q].children, k, u) ELSE u = L[q].children
              /\ Lands(u, c, n, P[q].children)
  BY <1>7, <1>8
<1> QED BY <1>7, <1>9, <1>10, <1>11, <1>12, <1>13 DEF MovedTo

\* M is L with c moved from p to q, and in a new row r when its place asks for one.
IsMoved(L, T, A, p, k, q, n, c, r, M) ==
  /\ Whole(M, T, A)
  /\ \E P : /\ IsComponentMap(P) /\ MovedTo(L, p, k, q, n, c, P)
            /\ IF shouldWrapChildInRow(L[q].type, L[c].type)
               THEN InRow(P, q, n, c, r, M) /\ r \in Free(L) /\ p # q ELSE M = P

\* A component can move to every place that is not below it and that takes it.
LEMMA Moved ==
  ASSUME NEW L, NEW T, NEW A, Whole(L, T, A), T \subseteq DOMAIN L, DOMAIN L # ComponentIds,
         NEW p \in DOMAIN L, NEW k \in DOMAIN L[p].children, NEW c, c = L[p].children[k],
         NEW q \in DOMAIN L, q \notin {c} \cup Descendants(L, c), NEW n \in Nat, n > 0,
         Takes(L[q].type, L[c].type), (L[q].type = "TAB" /\ L[c].type = "TABS") => q \in A,
         NEW drag, drag.source.id = p, drag.source.index = k, drag.id = c,
         drag.type = L[c].type,
         NEW destination, destination.id = q, destination.index = n,
         shouldWrapChildInRow(L[q].type, L[c].type) => n <= Len(L[q].children) + 1,
         NEW r, r = FreshIds(L)[1], NEW M, M = MOVE_COMPONENT(L, drag, destination)
  PROVE  IsMoved(L, T, A, p, k, q, n, c, r, M)
<1>1. PICK P : P = reorderItem(L, drag.source, destination, c)
  OBVIOUS
<1>2. IsComponentMap(L) /\ IsForest(L, T)
  BY DEF Whole
<1>3. IsComponentMap(P) /\ MovedTo(L, p, k, q, n, c, P)
  BY <1>1, <1>2, Reordered
<1>4. c \in ChildIds(L, p) /\ c \in DOMAIN L
  <2>1. c \in ChildIds(L, p)
    BY DEF ChildIds, ToSet
  <2> QED BY <2>1, <1>2, ChildrenAreComponents
<1>5. IsForest(P, T)
  <2>1. PICK D : D = {c} \cup Descendants(L, c)
    OBVIOUS
  <2>2. Placed(L, T)
    BY <1>2 DEF Placed
  <2>3. D \subseteq DOMAIN L /\ \A x \in D : ChildIds(L, x) \subseteq D
    <3>1. IsBranch(L, c, D)
      BY <2>1, <2>2, <1>4, DescendantsAre
    <3> QED BY <3>1 DEF IsBranch
  <2>4. q \notin D /\ {c} \subseteq D
    BY <2>1
  <2>5. /\ DOMAIN P = DOMAIN L /\ ChildIds(P, q) = ChildIds(L, q) \cup {c}
        /\ \A i \in DOMAIN L : i # q => ChildIds(P, i) = ChildIds(L, i) \ {c}
    BY <1>3 DEF MovedTo
  <2>6. IsForest(P, T \ {c})
    <3>1. Grafts(L, q, {c}, P)
      BY <2>5 DEF Grafts
    <3> QED BY <3>1, <2>3, <2>4, <1>2, Regrafted
  <2>7. c \notin T
    BY <1>2, <1>4 DEF IsForest, Parents
  <2> QED BY <2>6, <2>7
<1>6. DOMAIN P = DOMAIN L /\ \A i \in DOMAIN L : P[i].type = L[i].type
  BY <1>3 DEF MovedTo
<1>7. AllFitBut(P, A, q, c)
  <2>1. 0 \in DOMAIN L /\ 1 \in DOMAIN L
    BY <1>2 DEF IsComponentMap, DASHBOARD_ROOT_ID, DASHBOARD_GRID_ID
  <2>2. ASSUME NEW i \in DOMAIN P, NEW x \in ChildIds(P, i), ~(i = q /\ x = c)
        PROVE  FitsIn(P, A, i, x)
    <3>1. x \in ChildIds(L, i)
      BY <2>2, <1>3 DEF MovedTo
    <3>2. x \in DOMAIN L /\ i \in DOMAIN L
      BY <3>1, <1>2, <1>6, ChildrenAreComponents
    <3>3. FitsIn(L, A, i, x)
      BY <3>1, <3>2 DEF Whole
    <3> QED BY <3>2, <3>3, <1>6 DEF FitsIn
  <2> QED BY <2>1, <2>2, <1>4, <1>6 DEF AllFitBut, Whole
<1>8. ASSUME shouldWrapChildInRow(L[q].type, L[c].type)
      PROVE  p # q /\ n \in DOMAIN P[q].children /\ P[q].children[n] = c
  <2>1. p # q
    <3>1. Fits(L[p].type, L[c].type)
      BY <1>4 DEF Whole, FitsIn
    <3> QED BY <3>1, <1>8 DEF Fits
  <2>2. Lands(L[q].children, c, n, P[q].children)
    BY <2>1, <1>3 DEF MovedTo
  <2>3. IsWith(L[q].children, n, c, P[q].children) /\ n \in 1..(Len(L[q].children) + 1)
    BY <2>2, <1>8 DEF Lands
  <2>4. DOMAIN P[q].children = 1..Len(P[q].children)
    BY <1>3, <1>6, ChildrenAreComponents
  <2> QED BY <2>1, <2>3, <2>4 DEF IsWith
<1>9. Free(P) = Free(L) /\ FreshIds(P) = FreshIds(L) /\ Free(L) # {}
  <2>1. DOMAIN L \subseteq ComponentIds
    BY <1>2 DEF IsComponentMap
  <2> QED BY <2>1, <1>6 DEF Free, FreshIds
<1>10. M = WrapInRow(P, L[c].type, q, n)
  BY <1>1 DEF MOVE_COMPONENT
<1>11. c \in ChildIds(P, q) /\ P[q].type = L[q].type /\ P[c].type = L[c].type
  BY <1>3, <1>4 DEF MovedTo
<1>12. /\ Whole(M, T, A)
       /\ IF shouldWrapChildInRow(P[q].type, P[c].type)
          THEN InRow(P, q, n, c, r, M) /\ r \in Free(P) ELSE M = P
  <2>1. T \subseteq DOMAIN P /\ q \in DOMAIN P
    BY <1>6
  <2>2. IsSettled(P, T, A, q, n, c, r, L[c].type, M)
    BY <2>1, <1>3, <1>5, <1>7, <1>8, <1>9, <1>10, <1>11, Settled
  <2> QED BY <2>2, <1>11 DEF IsSettled
<1> QED BY <1>3, <1>8, <1>9, <1>11, <1>12 DEF IsMoved

-------------------------------------------------------------------------------
(* DELETE_COMPONENT *)

Deleted(L, i, p) ==
  Without([L EXCEPT ![p].children = RemoveFirst(@, i)], {i} \cup Descendants(L, i))

\* M is L without the child i of p and what is below it.
IsDeleted(L, p, i, X, M) ==
  /\ DOMAIN M = DOMAIN L \ X /\ p \in DOMAIN M
  /\ \A j \in DOMAIN M : M[j].type = L[j].type /\ ChildIds(M, j) = ChildIds(L, j) \ X
  /\ \A j \in DOMAIN M : j # p => M[j] = L[j]
  /\ M[p].children = RemoveFirst(L[p].children, i)

LEMMA BranchIsApart ==
  ASSUME NEW L, NEW T, Placed(L, T), NEW p \in DOMAIN L, NEW i \in ChildIds(L, p),
         NEW X, X = {i} \cup Descendants(L, i)
  PROVE  /\ IsBranch(L, i, X) /\ X \cap T = {} /\ p \notin X /\ i \in X
         /\ ChildIds(L, p) \cap X = {i}
         /\ \A j \in DOMAIN L \ X : j # p => ChildIds(L, j) \cap X = {}
<1>1. i \in DOMAIN L /\ IsForest(L, T)
  BY ChildrenAreComponents DEF Placed
<1>2. IsBranch(L, i, X)
  BY <1>1, DescendantsAre
<1>3. p \notin X
  BY <1>2 DEF IsBranch
<1>4. \A j, l \in DOMAIN L : ChildIds(L, j) \cap ChildIds(L, l) # {} => j = l
  BY <1>1 DEF IsForest
<1>5. ASSUME NEW j \in DOMAIN L, j \notin X, NEW x \in X, x \in ChildIds(L, j)
      PROVE  x = i /\ j = p
  <2>1. x = i
    <3>1. SUFFICES ASSUME x # i PROVE FALSE
      OBVIOUS
    <3>2. PICK l \in X : x \in ChildIds(L, l)
      BY <3>1, <1>2 DEF IsBranch
    <3>3. l \in DOMAIN L
      BY <1>2 DEF IsBranch
    <3> QED BY <3>2, <3>3, <1>4, <1>5
  <2> QED BY <2>1, <1>4, <1>5
<1>6. X \cap T = {}
  <2>1. \A x \in X : \E l \in DOMAIN L : x \in ChildIds(L, l)
    BY <1>2 DEF IsBranch
  <2> QED BY <2>1, <1>1 DEF IsForest, Parents
<1> QED BY <1>2, <1>3, <1>5, <1>6

LEMMA DeletedIs ==
  ASSUME NEW L, NEW T, NEW A, Whole(L, T, A), DOMAIN L # ComponentIds,
         NEW p \in DOMAIN L, p # 0, NEW i \in ChildIds(L, p),
         0 \in T, 1 \in T \/ 1 \in ChildIds(L, 0),
         NEW X, X = {i} \cup Descendants(L, i), NEW M, M = Deleted(L, i, p)
  PROVE  /\ Whole(M, T, A) /\ IsDeleted(L, p, i, X, M) /\ IsBranch(L, i, X)
         /\ 0 \in DOMAIN M /\ 1 \in DOMAIN M
<1>1. /\ IsComponentMap(L) /\ IsForest(L, T) /\ Placed(L, T) /\ 0 \in DOMAIN L /\ 1 \in DOMAIN L
  BY DEF Whole, Placed, IsComponentMap, DASHBOARD_ROOT_ID, DASHBOARD_GRID_ID
<1>2. /\ IsBranch(L, i, X) /\ X \cap T = {} /\ p \notin X /\ i \in X
      /\ ChildIds(L, p) \cap X = {i}
      /\ \A j \in DOMAIN L \ X : j # p => ChildIds(L, j) \cap X = {}
  BY <1>1, BranchIsApart
<1>3. 0 \notin X /\ 1 \notin X
  <2>1. 0 \notin X
    BY <1>2
  <2>2. ChildIds(L, 0) \cap X = {}
    BY <2>1, <1>1, <1>2
  <2> QED BY <2>1, <2>2, <1>2
<1>4. PICK s \in Seq(ComponentIds) : s = L[p].children
  BY <1>1, ChildrenAreComponents
<1>5. IsInjective(s) /\ ToSet(s) = ChildIds(L, p)
  BY <1>1, <1>4, ChildrenAreComponents DEF ChildIds
<1>6. PICK t : t = RemoveFirst(s, i)
  OBVIOUS
<1>7. t \in Seq(ComponentIds) /\ IsInjective(t) /\ ToSet(t) = ChildIds(L, p) \ {i}
  BY <1>5, <1>6, RemovedIs
<1>8. PICK N : N = [L EXCEPT ![p].children = t]
  OBVIOUS
<1>9. Sets(L, p, t, N)
  BY <1>1, <1>7, <1>8, ChildrenSet
<1>10. N \in [DOMAIN N -> Components] /\ DOMAIN N = DOMAIN L
  BY <1>9 DEF Sets
<1>11. M = Without(N, X)
  BY <1>4, <1>6, <1>8 DEF Deleted
<1>12. /\ DOMAIN M = DOMAIN N \ X
       /\ \A j \in DOMAIN M : M[j] = N[j] /\ ChildIds(M, j) = ChildIds(N, j)
       /\ M \in [DOMAIN M -> Components]
  <2>1. Lacks(N, X, M)
    BY <1>10, <1>11, ComponentsGone
  <2> QED BY <2>1 DEF Lacks
<1>13. /\ DOMAIN M = DOMAIN L \ X /\ p \in DOMAIN M
  BY <1>2, <1>10, <1>12
<1>14. \A j \in DOMAIN M : j # p => M[j] = L[j] /\ ChildIds(M, j) = ChildIds(L, j)
  BY <1>9, <1>12, <1>13 DEF Sets
<1>15. M[p].children = t /\ ChildIds(M, p) = ChildIds(L, p) \ {i}
  BY <1>7, <1>9, <1>12, <1>13 DEF Sets
<1>16. \A j \in DOMAIN M : M[j].type = L[j].type
  BY <1>9, <1>12, <1>13 DEF Sets
<1>17. \A j \in DOMAIN M : ChildIds(M, j) = ChildIds(L, j) \ X
  BY <1>2, <1>13, <1>14, <1>15
<1>18. IsDeleted(L, p, i, X, M)
  BY <1>4, <1>6, <1>13, <1>14, <1>15, <1>16, <1>17 DEF IsDeleted
<1>19. 0 \in DOMAIN M /\ 1 \in DOMAIN M
  BY <1>1, <1>3, <1>13
<1>20. IsComponentMap(M)
  <2>1. ASSUME NEW j \in DOMAIN M
        PROVE  ChildIds(M, j) \subseteq DOMAIN M /\ IsInjective(M[j].children)
    <3>1. ChildIds(L, j) \subseteq DOMAIN L /\ IsInjective(L[j].children)
      BY <1>1, <1>13, ChildrenAreComponents
    <3>2. ChildIds(M, j) \subseteq DOMAIN M
      BY <3>1, <1>13, <1>17
    <3>3. CASE j = p
      BY <3>2, <3>3, <1>7, <1>15
    <3>4. CASE j # p
      <4>1. M[j] = L[j]
        BY <3>4, <1>14
      <4> QED BY <4>1, <3>1, <3>2
    <3> QED BY <3>3, <3>4
  <2>2. DOMAIN M \subseteq ComponentIds
    BY <1>1, <1>13 DEF IsComponentMap
  <2> QED BY <2>1, <2>2, <1>12, <1>19, ComponentMapWhen
<1>21. IsForest(M, T)
  <2>1. \A x \in X \cap DOMAIN L : ChildIds(L, x) \subseteq X
    BY <1>2 DEF IsBranch
  <2>2. IsForest(M, T \ X)
    BY <2>1, <1>1, <1>13, <1>17, Pruned
  <2>3. T \ X = T
    BY <1>2
  <2> QED BY <2>2, <2>3
<1>22. ASSUME NEW j \in DOMAIN M, NEW c \in ChildIds(M, j) PROVE FitsIn(M, A, j, c)
  <2>1. c \in ChildIds(L, j) /\ j \in DOMAIN L /\ c \in DOMAIN M
    BY <1>13, <1>17, <1>20, <1>22, ChildrenAreComponents
  <2>2. FitsIn(L, A, j, c)
    BY <2>1 DEF Whole
  <2> QED BY <2>1, <2>2, <1>16 DEF FitsIn
<1>23. Whole(M, T, A)
  BY <1>16, <1>19, <1>20, <1>21, <1>22 DEF Whole
<1> QED BY <1>2, <1>18, <1>19, <1>23

LEMMA DeletedSoundly ==
  ASSUME NEW L, Sound(L), NEW p \in DOMAIN L, p # 0, NEW i \in ChildIds(L, p),
         NEW X, X = {i} \cup Descendants(L, i), NEW M, M = Deleted(L, i, p)
  PROVE  /\ Sound(M) /\ IsDeleted(L, p, i, X, M) /\ IsBranch(L, i, X)
         /\ Topmost(M) = Topmost(L)
<1>1. /\ rootChildId(L) \in DOMAIN L /\ ChildIds(L, 0) = {rootChildId(L)}
      /\ Whole(L, Topmost(L), TopTabs(L)) /\ rootChildId(L) # 0
      /\ L[rootChildId(L)].type = IF HasTopLevelTabs(L) THEN "TABS" ELSE "GRID"
      /\ DOMAIN L # ComponentIds /\ Placed(L, Topmost(L)) /\ 0 \in DOMAIN L
  BY RootIs, SoundIsPlaced DEF Sound
<1>2. 0 \in Topmost(L) /\ (1 \in Topmost(L) \/ 1 \in ChildIds(L, 0))
  BY <1>1 DEF Topmost, HasTopLevelTabs, DASHBOARD_ROOT_ID, DASHBOARD_GRID_ID
<1>3. /\ Whole(M, Topmost(L), TopTabs(L)) /\ IsDeleted(L, p, i, X, M) /\ IsBranch(L, i, X)
      /\ 0 \in DOMAIN M /\ 1 \in DOMAIN M
  BY <1>1, <1>2, DeletedIs
<1>4. /\ DOMAIN M = DOMAIN L \ X
      /\ \A j \in DOMAIN M : M[j].type = L[j].type /\ ChildIds(M, j) = ChildIds(L, j) \ X
      /\ \A j \in DOMAIN M : j # p => M[j] = L[j]
  BY <1>3 DEF IsDeleted
<1>5. M[0] = L[0]
  BY <1>3, <1>4
<1>6. DOMAIN M # ComponentIds
  <2>1. DOMAIN L \subseteq ComponentIds
    BY <1>1 DEF Placed, IsComponentMap
  <2> QED BY <2>1, <1>1, <1>4
<1>7. ASSUME HasTopLevelTabs(L)
      PROVE  /\ M[1].children = <<>> /\ M[rootChildId(L)].type = "TABS"
             /\ ChildIds(L, rootChildId(L)) \cap DOMAIN M \subseteq ChildIds(M, rootChildId(L))
  <2>1. L[1].children = <<>>
    BY <1>7 DEF Sound, MayBeSaved, TopIsRoot, DASHBOARD_GRID_ID
  <2>2. ChildIds(L, 1) = {}
    <3>1. DOMAIN <<>> = {}
      OBVIOUS
    <3> QED BY <2>1, <3>1 DEF ChildIds, ToSet
  <2>3. M[1].children = <<>>
    BY <2>1, <2>2, <1>3, <1>4
  <2>4. rootChildId(L) \in DOMAIN M
    <3>1. rootChildId(L) \in ChildIds(M, 0)
      BY <1>1, <1>5 DEF ChildIds
    <3> QED BY <3>1, <1>3, ChildrenAreComponents DEF Whole
  <2> QED BY <2>3, <2>4, <1>1, <1>4, <1>7
<1>8. Sound(M) /\ Topmost(M) = Topmost(L)
  BY <1>3, <1>5, <1>6, <1>7, SoundAgain
<1> QED BY <1>3, <1>8

LEMMA ParentIs ==
  ASSUME NEW L, Sound(L), NEW i \in DOMAIN L, i \notin Topmost(L)
  PROVE  findParentId(L, i) \in DOMAIN L /\ i \in ChildIds(L, findParentId(L, i))
<1>1. {i} \in SUBSET (DOMAIN L \ Topmost(L)) /\ IsForest(L, Topmost(L))
  BY DEF Sound, MayBeSaved
<1>2. Parents(L, i) # {}
  BY <1>1 DEF IsForest
<1>3. findParentId(L, i) \in Parents(L, i)
  BY <1>2 DEF findParentId
<1> QED BY <1>3 DEF Parents

LEMMA OnlyTopInRoot ==
  ASSUME NEW L, Sound(L), NEW i \in DOMAIN L,
         L[i].type \in ComponentTypes \ {"ROOT", "GRID", "TABS"}
  PROVE  i \notin Topmost(L) /\ findParentId(L, i) # 0
<1>1. /\ L[0].type = "ROOT" /\ L[1].type = "GRID" /\ ChildIds(L, 0) = {rootChildId(L)}
      /\ L[rootChildId(L)].type \in {"TABS", "GRID"}
  BY RootIs DEF Whole
<1>2. i \notin Topmost(L)
  BY <1>1 DEF Topmost, DASHBOARD_ROOT_ID, DASHBOARD_GRID_ID
<1>3. findParentId(L, i) # 0
  BY <1>1, <1>2, ParentIs
<1> QED BY <1>2, <1>3

LEMMA DeletesSoundly ==
  ASSUME NEW L, Sound(L), NEW p \in DOMAIN L, p # 0, NEW i \in ChildIds(L, p),
         NEW M, M = DELETE_COMPONENT(L, i, p)
  PROVE  Sound(M) /\ DOMAIN M \subseteq DOMAIN L
<1>1. PICK gone : gone = Deleted(L, i, p)
  OBVIOUS
<1>2. PICK X : X = {i} \cup Descendants(L, i)
  OBVIOUS
<1>3. Sound(gone) /\ IsDeleted(L, p, i, X, gone) /\ Topmost(gone) = Topmost(L)
  BY <1>1, <1>2, DeletedSoundly
<1>4. M = IF L[p].type = "ROW" /\ gone[p].children = <<>>
          THEN Deleted(gone, p, findParentId(gone, p)) ELSE gone
  BY <1>1 DEF DELETE_COMPONENT, Deleted
<1>5. DOMAIN gone \subseteq DOMAIN L /\ p \in DOMAIN gone /\ gone[p].type = L[p].type
  BY <1>3 DEF IsDeleted
<1>6. CASE L[p].type = "ROW" /\ gone[p].children = <<>>
  <2>1. p \notin Topmost(gone) /\ findParentId(gone, p) # 0
    BY <1>3, <1>5, <1>6, OnlyTopInRoot DEF ComponentTypes
  <2>2. PICK q : q = findParentId(gone, p)
    OBVIOUS
  <2>3. q \in DOMAIN gone /\ p \in ChildIds(gone, q) /\ q # 0
    BY <2>1, <2>2, <1>3, <1>5, ParentIs
  <2>4. PICK Y : Y = {p} \cup Descendants(gone, p)
    OBVIOUS
  <2>5. M = Deleted(gone, p, q)
    BY <2>2, <1>4, <1>6
  <2>6. Sound(M) /\ IsDeleted(gone, q, p, Y, M)
    BY <2>3, <2>4, <2>5, <1>3, DeletedSoundly
  <2> QED BY <2>6, <1>5 DEF IsDeleted
<1>7. CASE ~(L[p].type = "ROW" /\ gone[p].children = <<>>)
  BY <1>3, <1>4, <1>5, <1>7
<1> QED BY <1>6, <1>7

\* An empty component goes alone.
LEMMA EmptyIsAlone ==
  ASSUME NEW L, NEW T, Placed(L, T), NEW i \in DOMAIN L, ChildIds(L, i) = {},
         NEW X, X = {i} \cup Descendants(L, i)
  PROVE  X = {i}
<1>1. IsBranch(L, i, X)
  BY DescendantsAre
<1> DEFINE Y == X \ {i}
<1>2. Y \subseteq DOMAIN L /\ \A x \in Y : \E p \in Y : x \in ChildIds(L, p)
  BY <1>1 DEF IsBranch
<1>3. Y = {}
  <2> HIDE DEF Y
  <2> QED BY <1>2, NoCircle DEF Placed
<1> QED BY <1>3

-------------------------------------------------------------------------------
(* What is dropped, and where *)

LEMMA ValidIsTaken ==
  ASSUME NEW p, NEW d, NEW c, isValidChild(p, d, c)
  PROVE  Takes(p, c)
<1>1. p \in {"ROOT", "GRID", "ROW", "TABS", "TAB", "COLUMN"}
  BY TakesAre
<1>2. CASE p = "ROOT"
  BY <1>2, TakesAre, TakesThese
<1>3. CASE p = "GRID"
  BY <1>3, TakesAre, TakesThese
<1>4. CASE p = "ROW"
  BY <1>4, TakesAre, TakesThese
<1>5. CASE p = "TABS"
  BY <1>5, TakesAre, TakesThese
<1>6. CASE p = "TAB"
  BY <1>6, TakesAre, TakesThese
<1>7. CASE p = "COLUMN"
  BY <1>7, TakesAre, TakesThese
<1> QED BY <1>1, <1>2, <1>3, <1>4, <1>5, <1>6, <1>7

LEMMA PositionIs ==
  ASSUME NEW L, IsComponentMap(L), NEW p \in DOMAIN L, NEW i \in ChildIds(L, p)
  PROVE  /\ PositionIn(L, p, i) \in DOMAIN L[p].children
         /\ L[p].children[PositionIn(L, p, i)] = i
<1>1. PICK s \in Seq(ComponentIds) : s = L[p].children
  BY ChildrenAreComponents
<1>2. IsInjective(s) /\ i \in ToSet(s) /\ DOMAIN s = 1..Len(s)
  BY <1>1, ChildrenAreComponents DEF ChildIds
<1>3. PICK k \in 1..Len(s) : s[k] = i
  BY <1>2 DEF ToSet
<1> DEFINE I == {j \in 1..Len(s) : s[j] = i}
<1>4. I = {k} /\ k \in Int
  BY <1>2, <1>3 DEF IsInjective
<1>5. PositionIn(L, p, i) = IF I # {} THEN Min(I) ELSE 0
  BY <1>1 DEF PositionIn, SelectInSeq
<1>6. PositionIn(L, p, i) = k
  <2>1. Min(I) = k
    <3>1. k \in I /\ \A n \in I : n \in Int /\ k <= n
      BY <1>4
    <3> HIDE DEF I
    <3> QED BY <3>1, LeastIs
  <2> QED BY <2>1, <1>4, <1>5
<1> QED BY <1>1, <1>2, <1>3, <1>6

IsDrag(L, drag) ==
  IF drag.new
  THEN drag.type \in NewTypes /\ drag.source.id = NoParent
  ELSE /\ drag.source.id \in DOMAIN L /\ drag.source.id # 0
       /\ drag.source.index \in DOMAIN L[drag.source.id].children
       /\ drag.id = L[drag.source.id].children[drag.source.index]
       /\ drag.id \in ChildIds(L, drag.source.id) /\ drag.id \in DOMAIN L
       /\ drag.type = L[drag.id].type

LEMMA DragIs ==
  ASSUME NEW L, Sound(L), NEW drag \in DragItems(L)
  PROVE  IsDrag(L, drag) /\ drag.new \in BOOLEAN
<1>1. PICK R : R = OnPage(L)
  OBVIOUS
<1>2. \/ \E r \in {q \in R : q.parent \notin {NoParent, DASHBOARD_ROOT_ID}} :
           drag = [new |-> FALSE, id |-> r.id, type |-> L[r.id].type,
                   source |-> [id |-> r.parent, index |-> PositionIn(L, r.parent, r.id)]]
      \/ \E t \in NewTypes :
           drag = [new |-> TRUE, id |-> NoParent, type |-> t,
                   source |-> [id |-> NoParent, index |-> 0]]
  BY <1>1 DEF DragItems
<1>3. CASE \E t \in NewTypes :
             drag = [new |-> TRUE, id |-> NoParent, type |-> t,
                     source |-> [id |-> NoParent, index |-> 0]]
  BY <1>3 DEF IsDrag
<1>4. ASSUME NEW r \in R, r.parent \notin {NoParent, DASHBOARD_ROOT_ID},
             drag = [new |-> FALSE, id |-> r.id, type |-> L[r.id].type,
                     source |-> [id |-> r.parent, index |-> PositionIn(L, r.parent, r.id)]]
      PROVE  IsDrag(L, drag) /\ drag.new \in BOOLEAN
  <2>1. r.parent # NoParent /\ r.parent # 0
    BY <1>4 DEF DASHBOARD_ROOT_ID
  <2>2. r.parent \in DOMAIN L /\ r.id \in ChildIds(L, r.parent) /\ r.id \in DOMAIN L
    BY <2>1, <1>1, PageHolds DEF PageShows
  <2>3. /\ PositionIn(L, r.parent, r.id) \in DOMAIN L[r.parent].children
        /\ L[r.parent].children[PositionIn(L, r.parent, r.id)] = r.id
    BY <2>2, PositionIs, SoundIsPlaced
  <2>4. /\ drag.new = FALSE /\ drag.id = r.id /\ drag.type = L[r.id].type
        /\ drag.source.id = r.parent /\ drag.source.index = PositionIn(L, r.parent, r.id)
    BY <1>4
  <2> QED BY <2>1, <2>2, <2>3, <2>4 DEF IsDrag
<1> QED BY <1>2, <1>3, <1>4

IsTarget(L, target) ==
  /\ target.id \in DOMAIN L /\ target.id \notin Topmost(L) \ {0}
  /\ target.parent # NoParent =>
       /\ target.parent \in DOMAIN L /\ target.parent \notin Topmost(L) \ {0}
       /\ target.id \in ChildIds(L, target.parent)

LEMMA TargetIs ==
  ASSUME NEW L, Sound(L), NEW target \in DropTargets(L)
  PROVE  IsTarget(L, target)
<1>1. PICK R : R = OnPage(L)
  OBVIOUS
<1>2. /\ \A r \in R : r.id \in DOMAIN L
      /\ \A r \in R : r.parent # NoParent =>
           /\ r.parent \in DOMAIN L /\ r.id \in ChildIds(L, r.parent)
           /\ \E q \in R : q.id = r.parent
      /\ \A i \in DOMAIN L : (\E r \in R : r.id = i) <=> i \notin (Topmost(L) \ {0})
  BY <1>1, PageHolds DEF PageShows
<1>3. \/ target \in R
      \/ \E r \in R : target = [id |-> r.id, parent |-> NoParent, depth |-> r.depth]
  BY <1>1 DEF DropTargets
<1>4. CASE target \in R
  BY <1>2, <1>4 DEF IsTarget
<1>5. CASE \E r \in R : target = [id |-> r.id, parent |-> NoParent, depth |-> r.depth]
  <2>1. PICK r \in R : target = [id |-> r.id, parent |-> NoParent, depth |-> r.depth]
    BY <1>5
  <2>2. target.id = r.id /\ target.parent = NoParent
    BY <2>1
  <2> QED BY <2>2, <1>2 DEF IsTarget
<1> QED BY <1>3, <1>4, <1>5

\* A drop beside a target: where the target is, and the index that handleDrop computes.
IsBeside(L, d, n) ==
  \E k \in DOMAIN L[d.target.parent].children :
    /\ L[d.target.parent].children[k] = d.target.id
    /\ n = k - (IF d.drag.source.id = d.target.parent /\ d.drag.source.index < k
                THEN 1 ELSE 0)
             + (IF d.after THEN 1 ELSE 0)

IsDrop(L, d, destination) ==
  /\ IsDrag(L, d.drag) /\ d.drag.new \in BOOLEAN /\ d.after \in BOOLEAN
  /\ d.drag.id # d.target.id /\ d.how \in {"child", "sibling"}
  /\ destination.id \in DOMAIN L /\ destination.id \notin Topmost(L) \ {0}
  /\ Takes(L[destination.id].type, d.drag.type)
  /\ destination.index \in Nat /\ destination.index > 0
  /\ destination.index <= Len(L[destination.id].children) + 1
  /\ d.how = "sibling" => /\ destination.id = d.target.parent
                          /\ IsBeside(L, d, destination.index)

LEMMA DropIs ==
  ASSUME NEW L, Sound(L), NEW d \in Drops(L),
         NEW destination, destination = handleDrop(L, d.drag, d.target, d.how, d.after)
  PROVE  IsDrop(L, d, destination)
<1>1. PICK drag \in DragItems(L), target \in DropTargets(L) :
        \E h \in getDropPosition(L, drag, target), a \in BOOLEAN :
          d = [drag |-> drag, target |-> target, how |-> h, after |-> a]
  BY DEF Drops
<1>2. PICK h \in getDropPosition(L, drag, target), a \in BOOLEAN :
        d = [drag |-> drag, target |-> target, how |-> h, after |-> a]
  BY <1>1
<1>3. d.drag = drag /\ d.target = target /\ d.how = h /\ d.after = a
  BY <1>2
<1>4. IsDrag(L, drag) /\ drag.new \in BOOLEAN
  BY DragIs
<1>5. IsTarget(L, target)
  BY TargetIs
<1>6. /\ drag.id # target.id /\ h \in {"child", "sibling"}
      /\ h = "child" => isValidChild(L[target.id].type, target.depth, drag.type)
      /\ h = "sibling" =>
           /\ target.parent # NoParent
           /\ \E n : isValidChild(L[target.parent].type, n, drag.type)
  BY DEF getDropPosition
<1>7. IsComponentMap(L)
  BY SoundIsPlaced
<1>8. CASE h = "child"
  <2>1. destination.id = target.id /\ destination.index = ChildIndex(L, target, a)
    BY <1>3, <1>8 DEF handleDrop
  <2>2. Len(L[target.id].children) \in Nat
    BY <1>5, <1>7, ChildrenAreComponents DEF IsTarget
  <2>3. /\ destination.index \in Nat /\ destination.index > 0
        /\ destination.index <= Len(L[target.id].children) + 1
    BY <2>1, <2>2 DEF ChildIndex
  <2>4. Takes(L[target.id].type, drag.type)
    BY <1>6, <1>8, ValidIsTaken
  <2> QED BY <2>1, <2>3, <2>4, <1>3, <1>4, <1>5, <1>6, <1>8 DEF IsDrop, IsTarget
<1>9. CASE h = "sibling"
  <2>1. destination.id = target.parent /\ destination.index = SiblingIndex(L, drag, target, a)
    BY <1>3, <1>9 DEF handleDrop
  <2>2. /\ target.parent \in DOMAIN L /\ target.parent \notin Topmost(L) \ {0}
        /\ target.id \in ChildIds(L, target.parent)
    BY <1>5, <1>6, <1>9 DEF IsTarget
  <2>3. PICK k : k = PositionIn(L, target.parent, target.id)
    OBVIOUS
  <2>4. k \in DOMAIN L[target.parent].children /\ L[target.parent].children[k] = target.id
    BY <2>2, <2>3, <1>7, PositionIs
  <2>5. destination.index = k - (IF drag.source.id = target.parent /\ drag.source.index < k
                                 THEN 1 ELSE 0) + (IF a THEN 1 ELSE 0)
    BY <2>1, <2>3 DEF SiblingIndex
  <2>6. IsBeside(L, d, destination.index)
    BY <2>4, <2>5, <1>3 DEF IsBeside
  <2>7. /\ DOMAIN L[target.parent].children = 1..Len(L[target.parent].children)
        /\ Len(L[target.parent].children) \in Nat
    BY <2>2, <1>7, ChildrenAreComponents
  <2>8. drag.source.id = target.parent => drag.source.index \in DOMAIN L[target.parent].children
    <3>1. NoParent # target.parent
      BY <1>6, <1>9
    <3> QED BY <3>1, <1>4 DEF IsDrag
  <2>9. /\ destination.index \in Nat /\ destination.index > 0
        /\ destination.index <= Len(L[target.parent].children) + 1
    BY <2>4, <2>5, <2>7, <2>8
  <2>10. Takes(L[target.parent].type, drag.type)
    BY <1>6, <1>9, ValidIsTaken
  <2> QED BY <2>1, <2>2, <2>6, <2>9, <2>10, <1>3, <1>4, <1>6, <1>9 DEF IsDrop
<1> QED BY <1>6, <1>8, <1>9

-------------------------------------------------------------------------------
(* A drop moves a component *)

\* A drop below the root of a component that is on the page.
IsMove(L, drag, destination) ==
  /\ ~drag.new /\ IsDrag(L, drag)
  /\ destination.id \in DOMAIN L /\ destination.id \notin Topmost(L)
  /\ Takes(L[destination.id].type, drag.type)
  /\ destination.index \in Nat /\ destination.index > 0
  /\ destination.index <= Len(L[destination.id].children) + 1
  /\ ~Refusable(L, drag, destination)
  /\ ~(/\ drag.source.id = rootChildId(L) /\ HasTopLevelTabs(L)
       /\ L[destination.id].type = "TABS" /\ destination.id # rootChildId(L))

\* M is L after the move, with the component in the new row r if it needs one.
HasMoved(L, drag, destination, M) ==
  \E P, r :
    /\ IsComponentMap(P)
    /\ MovedTo(L, drag.source.id, drag.source.index, destination.id, destination.index,
               drag.id, P)
    /\ IF shouldWrapChildInRow(L[destination.id].type, drag.type)
       THEN /\ InRow(P, destination.id, destination.index, drag.id, r, M)
            /\ r \in Free(L) /\ drag.source.id # destination.id
       ELSE M = P

LEMMA NoneTakesItself ==
  ASSUME NEW t
  PROVE  ~Takes(t, t)
<1>1. SUFFICES ASSUME Takes(t, t) PROVE FALSE
  OBVIOUS
<1>2. t \in {"ROOT", "GRID", "ROW", "TABS", "TAB", "COLUMN"}
  BY <1>1, TakesAre DEF Takes
<1>3. CASE t = "ROOT"
  BY <1>1, <1>3, TakesAre DEF Takes
<1>4. CASE t = "GRID"
  BY <1>1, <1>4, TakesAre DEF Takes
<1>5. CASE t = "ROW"
  BY <1>1, <1>5, TakesAre DEF Takes
<1>6. CASE t = "TABS"
  BY <1>1, <1>6, TakesAre DEF Takes
<1>7. CASE t = "TAB"
  BY <1>1, <1>7, TakesAre DEF Takes
<1>8. CASE t = "COLUMN"
  BY <1>1, <1>8, TakesAre DEF Takes
<1> QED BY <1>2, <1>3, <1>4, <1>5, <1>6, <1>7, <1>8

LEMMA TabsHoldTabs ==
  ASSUME NEW t
  PROVE  /\ Takes("TABS", t) => t = "TAB"
         /\ Takes(t, "TAB") => t = "TABS"
         /\ Fits("ROW", t) => t \in {"CHART", "COLUMN"}
         /\ Takes("ROOT", t) => t \in {"TABS", "GRID"}
         /\ Takes(t, "GRID") => t = "ROOT"
         /\ Fits(t, "TABS") => t \in {"ROOT", "GRID", "TAB"}
<1>1. /\ Takes("TABS", t) => t = "TAB"
      /\ Takes("ROOT", t) => t \in {"TABS", "GRID"}
  BY TakesAre DEF Takes
<1>2. Fits("ROW", t) => t \in {"CHART", "COLUMN"}
  BY TakesAre DEF Fits
<1>3. /\ Takes(t, "TAB") => t = "TABS"
      /\ Takes(t, "GRID") => t = "ROOT"
      /\ Takes(t, "TABS") => t \in {"ROOT", "GRID", "TAB"}
  BY DEF Takes, isValidChild, parentMaxDepthLookup
<1> QED BY <1>1, <1>2, <1>3, FitsIs

LEMMA MovesSoundly ==
  ASSUME NEW L, Sound(L), HasFreshIds(L), NEW drag, NEW destination,
         IsMove(L, drag, destination), NEW M, M = MOVE_COMPONENT(L, drag, destination)
  PROVE  /\ Sound(M) /\ HasMoved(L, drag, destination, M) /\ M[0] = L[0]
         /\ DOMAIN L \subseteq DOMAIN M /\ \A i \in DOMAIN L : M[i].type = L[i].type
<1> DEFINE p == drag.source.id
           k == drag.source.index
           c == drag.id
           q == destination.id
           n == destination.index
           A == TopTabs(L)
           T == Topmost(L)
           r == FreshIds(L)[1]
           rc == rootChildId(L)
<1>1. /\ p \in DOMAIN L /\ p # 0 /\ k \in DOMAIN L[p].children /\ c = L[p].children[k]
      /\ c \in ChildIds(L, p) /\ c \in DOMAIN L /\ drag.type = L[c].type
  BY DEF IsMove, IsDrag
<1>2. /\ q \in DOMAIN L /\ q \notin T /\ n \in Nat /\ n > 0 /\ n <= Len(L[q].children) + 1
      /\ Takes(L[q].type, L[c].type)
  BY <1>1 DEF IsMove
<1>3. /\ rc \in DOMAIN L /\ rc # 0 /\ Whole(L, T, A) /\ IsComponentMap(L)
      /\ L[rc].type = IF HasTopLevelTabs(L) THEN "TABS" ELSE "GRID"
      /\ DOMAIN L # ComponentIds /\ 0 \in DOMAIN L /\ 1 \in DOMAIN L
      /\ T = {0} \cup (IF HasTopLevelTabs(L) THEN {1} ELSE {})
  BY RootIs, SoundIsPlaced DEF Sound, Topmost, DASHBOARD_ROOT_ID, DASHBOARD_GRID_ID
<1>4. T \subseteq DOMAIN L /\ q # 0
  BY <1>2, <1>3
<1>5. q \notin {c} \cup Descendants(L, c)
  <2>1. q # c
    BY <1>2, NoneTakesItself
  <2>2. q \notin Descendants(L, c)
    BY DEF IsMove, Refusable
  <2> QED BY <2>1, <2>2
<1>6. (L[q].type = "TAB" /\ L[c].type = "TABS") => q \in A
  <2>1. SUFFICES ASSUME L[q].type = "TAB", L[c].type = "TABS" PROVE q \in A
    OBVIOUS
  <2>2. q \in ChildIds(L, rc)
    BY <2>1, <1>1 DEF IsMove, Refusable
  <2>3. FitsIn(L, A, rc, q)
    BY <2>2, <1>3 DEF Whole
  <2>4. HasTopLevelTabs(L)
    <3>1. SUFFICES ASSUME ~HasTopLevelTabs(L) PROVE FALSE
      OBVIOUS
    <3>2. Fits("GRID", "TAB")
      BY <3>1, <2>1, <2>3, <1>3 DEF FitsIn
    <3> QED BY <3>2, FitsIs
  <2> QED BY <2>2, <2>4 DEF TopTabs
<1>7. Free(L) # {} /\ r \in Free(L)
  <2>1. FreshIds(L)[1] \in Free(L)
    BY TwoFresh
  <2> QED BY <2>1
<1>8. /\ Whole(M, T, A)
      /\ \E P : /\ IsComponentMap(P) /\ MovedTo(L, p, k, q, n, c, P)
                /\ IF shouldWrapChildInRow(L[q].type, L[c].type)
                   THEN InRow(P, q, n, c, r, M) /\ r \in Free(L) /\ p # q ELSE M = P
  <2>1. /\ drag.source.id = p /\ drag.source.index = k /\ drag.id = c
        /\ destination.id = q /\ destination.index = n /\ r = FreshIds(L)[1]
    OBVIOUS
  <2> HIDE DEF A, T, r, n, k, p, q, c
  <2>2. IsMoved(L, T, A, p, k, q, n, c, r, M)
    BY <2>1, <1>1, <1>2, <1>3, <1>4, <1>5, <1>6, Moved
  <2> QED BY <2>2 DEF IsMoved
<1>9. PICK P : /\ IsComponentMap(P) /\ MovedTo(L, p, k, q, n, c, P)
               /\ IF shouldWrapChildInRow(L[q].type, L[c].type)
                  THEN InRow(P, q, n, c, r, M) /\ r \in Free(L) /\ p # q ELSE M = P
  BY <1>8
<1>10. HasMoved(L, drag, destination, M)
  BY <1>1, <1>9 DEF HasMoved
<1> HIDE DEF A, T, r, n, k, p, q, c
<1>11. /\ DOMAIN P = DOMAIN L /\ \A i \in DOMAIN L : P[i].type = L[i].type
       /\ \A i \in DOMAIN L : (i # p /\ i # q) => P[i] = L[i]
       /\ \A i \in DOMAIN L : i # q => ChildIds(P, i) = ChildIds(L, i) \ {c}
       /\ ChildIds(P, q) = ChildIds(L, q) \cup {c}
  BY <1>9 DEF MovedTo
<1>12. /\ DOMAIN L \subseteq DOMAIN M /\ DOMAIN M \subseteq DOMAIN L \cup {r}
       /\ \A i \in DOMAIN L : M[i].type = L[i].type
       /\ \A i \in DOMAIN L : (i # p /\ i # q) => M[i] = L[i]
  <2>1. CASE shouldWrapChildInRow(L[q].type, L[c].type)
    BY <2>1, <1>9, <1>11 DEF InRow
  <2>2. CASE ~shouldWrapChildInRow(L[q].type, L[c].type)
    BY <2>2, <1>9, <1>11
  <2> QED BY <2>1, <2>2
<1>13. M[0] = L[0]
  BY <1>1, <1>3, <1>4, <1>12
<1>14. DOMAIN M # ComponentIds
  BY <1>12, OneStaysFree
<1>15. ASSUME HasTopLevelTabs(L)
       PROVE  /\ M[1].children = <<>> /\ M[rc].type = "TABS"
              /\ ChildIds(L, rc) \cap DOMAIN M \subseteq ChildIds(M, rc)
  <2>1. L[1].children = <<>>
    BY <1>15 DEF Sound, MayBeSaved, TopIsRoot, DASHBOARD_GRID_ID
  <2>2. ChildIds(L, 1) = {}
    <3>1. DOMAIN <<>> = {}
      OBVIOUS
    <3> QED BY <2>1, <3>1 DEF ChildIds, ToSet
  <2>3. p # 1 /\ q # 1
    BY <2>2, <1>1, <1>2, <1>3, <1>15
  <2>4. M[1].children = <<>>
    BY <2>1, <2>3, <1>3, <1>12
  <2>5. M[rc].type = "TABS" /\ L[rc].type = "TABS"
    BY <1>3, <1>12, <1>15
  <2>6. CASE q = rc
    <3>1. ~shouldWrapChildInRow(L[q].type, L[c].type)
      BY <2>5, <2>6 DEF shouldWrapChildInRow
    <3> QED BY <3>1, <2>4, <2>5, <2>6, <1>9, <1>11
  <2>7. CASE q # rc /\ p = rc
    <3>1. Fits("TABS", L[c].type)
      BY <2>5, <2>7, <1>1, <1>3 DEF Whole, FitsIn
    <3>2. L[c].type = "TAB"
      BY <3>1, FitsIs, TabsHoldTabs
    <3>3. L[q].type = "TABS"
      BY <3>2, <1>2, TabsHoldTabs
    <3> QED BY <3>3, <2>7, <1>15 DEF IsMove, p, q
  <2>8. CASE q # rc /\ p # rc
    <3>1. M[rc] = L[rc]
      BY <2>8, <1>3, <1>12
    <3>2. ChildIds(M, rc) = ChildIds(L, rc)
      BY <3>1 DEF ChildIds
    <3> QED BY <3>2, <2>4, <2>5
  <2> QED BY <2>6, <2>7, <2>8
<1>16. Sound(M)
  BY <1>8, <1>13, <1>14, <1>15, SoundAgain DEF T, A
<1> QED BY <1>10, <1>12, <1>13, <1>16

\* The source is removed when the move has left it empty, and nothing else is.
SourceGone(L, p, M) ==
  /\ L[p].type \in {"TABS", "ROW"} /\ ChildIds(L, p) = {} /\ p \in DOMAIN L
  /\ \E parent \in DOMAIN L : p \in ChildIds(L, parent) /\ IsDeleted(L, parent, p, {p}, M)

LEMMA RemovesSourceSoundly ==
  ASSUME NEW L, Sound(L), NEW drag, NEW p, p = drag.source.id, p \in DOMAIN L,
         p = rootChildId(L) => ~(L[p].type = "TABS" /\ L[p].children = <<>>),
         NEW M, M = RemoveEmptySource(L, drag)
  PROVE  Sound(M) /\ (M = L \/ SourceGone(L, p, M))
<1>1. CASE ~(L[p].type \in {"TABS", "ROW"} /\ L[p].children = <<>>)
  <2>1. M = L
    BY <1>1 DEF RemoveEmptySource
  <2> QED BY <2>1
<1>2. CASE L[p].type \in {"TABS", "ROW"} /\ L[p].children = <<>>
  <2>1. PICK q : q = findParentId(L, p)
    OBVIOUS
  <2>2. M = DELETE_COMPONENT(L, p, q)
    BY <1>2, <2>1 DEF RemoveEmptySource
  <2>3. /\ L[0].type = "ROOT" /\ L[1].type = "GRID" /\ ChildIds(L, 0) = {rootChildId(L)}
        /\ L[rootChildId(L)].type = IF HasTopLevelTabs(L) THEN "TABS" ELSE "GRID"
        /\ Whole(L, Topmost(L), TopTabs(L)) /\ Placed(L, Topmost(L))
    BY RootIs, SoundIsPlaced DEF Whole
  <2>4. p \notin Topmost(L)
    BY <1>2, <2>3 DEF Topmost, DASHBOARD_ROOT_ID, DASHBOARD_GRID_ID
  <2>5. q \in DOMAIN L /\ p \in ChildIds(L, q)
    BY <2>1, <2>4, ParentIs
  <2>6. q # 0
    BY <1>2, <2>3, <2>5
  <2>7. L[q].type # "ROW"
    <3>1. Fits(L[q].type, L[p].type)
      BY <2>3, <2>5 DEF Whole, FitsIn
    <3> QED BY <3>1, <1>2, TabsHoldTabs
  <2>8. M = Deleted(L, p, q)
    BY <2>2, <2>7 DEF DELETE_COMPONENT, Deleted
  <2>9. ChildIds(L, p) = {}
    <3>1. DOMAIN <<>> = {}
      OBVIOUS
    <3> QED BY <3>1, <1>2 DEF ChildIds, ToSet
  <2>10. PICK X : X = {p} \cup Descendants(L, p)
    OBVIOUS
  <2>11. X = {p}
    BY <2>3, <2>9, <2>10, EmptyIsAlone
  <2>12. Sound(M) /\ IsDeleted(L, q, p, X, M)
    BY <2>5, <2>6, <2>8, <2>10, DeletedSoundly
  <2> QED BY <1>2, <2>5, <2>9, <2>11, <2>12 DEF SourceGone
<1> QED BY <1>1, <1>2

\* A move keeps the top-level tabs from being left empty.
LEMMA TopTabsKeepATab ==
  ASSUME NEW L, Sound(L), HasFreshIds(L), NEW drag, NEW destination,
         IsMove(L, drag, destination), NEW M, M = MOVE_COMPONENT(L, drag, destination),
         NEW p, p = drag.source.id, p = rootChildId(M), M[p].type = "TABS"
  PROVE  M[p].children # <<>>
<1>1. /\ Sound(M) /\ HasMoved(L, drag, destination, M) /\ M[0] = L[0]
      /\ DOMAIN L \subseteq DOMAIN M /\ \A i \in DOMAIN L : M[i].type = L[i].type
  BY MovesSoundly
<1>2. rootChildId(L) = p
  BY <1>1 DEF rootChildId, DASHBOARD_ROOT_ID
<1> DEFINE c == drag.id
           q == destination.id
<1>3. /\ p \in DOMAIN L /\ c \in ChildIds(L, p) /\ c \in DOMAIN L /\ drag.type = L[c].type
      /\ Takes(L[q].type, drag.type)
  BY DEF IsMove, IsDrag
<1>4. L[p].type = "TABS" /\ HasTopLevelTabs(L) /\ Whole(L, Topmost(L), TopTabs(L))
  <2>1. L[p].type = "TABS"
    BY <1>1, <1>3
  <2> QED BY <2>1, <1>2, RootIs
<1>5. L[c].type = "TAB"
  <2>1. Fits("TABS", L[c].type)
    BY <1>3, <1>4 DEF Whole, FitsIn
  <2> QED BY <2>1, FitsIs, TabsHoldTabs
<1>6. L[q].type = "TABS"
  BY <1>3, <1>5, TabsHoldTabs
<1>7. q = p
  BY <1>2, <1>4, <1>6 DEF IsMove
<1>8. c \in ChildIds(M, p)
  <2>1. ~shouldWrapChildInRow(L[q].type, drag.type)
    BY <1>6 DEF shouldWrapChildInRow
  <2>2. ChildIds(M, q) = ChildIds(L, q) \cup {c}
    BY <2>1, <1>1 DEF HasMoved, MovedTo
  <2> QED BY <2>2, <1>7
<1>9. SUFFICES ASSUME M[p].children = <<>> PROVE FALSE
  OBVIOUS
<1>10. DOMAIN <<>> = {}
  OBVIOUS
<1> QED BY <1>8, <1>9, <1>10 DEF ChildIds, ToSet

\* A drop below the root of a component that is on the page.
LEMMA DropsSoundly ==
  ASSUME NEW L, Sound(L), HasFreshIds(L), NEW drag, NEW destination,
         IsMove(L, drag, destination), NEW N, N = MOVE_COMPONENT(L, drag, destination),
         NEW M, M = RemoveEmptySource(N, drag)
  PROVE  Sound(M) /\ Sound(N) /\ (M = N \/ SourceGone(N, drag.source.id, M))
<1>1. /\ Sound(N) /\ DOMAIN L \subseteq DOMAIN N
  BY MovesSoundly
<1>2. PICK p : p = drag.source.id
  OBVIOUS
<1>3. p \in DOMAIN N
  BY <1>1, <1>2 DEF IsMove, IsDrag
<1>4. p = rootChildId(N) => ~(N[p].type = "TABS" /\ N[p].children = <<>>)
  BY <1>2, TopTabsKeepATab
<1>5. Sound(M) /\ (M = N \/ SourceGone(N, p, M))
  BY <1>1, <1>2, <1>3, <1>4, RemovesSourceSoundly
<1> QED BY <1>1, <1>2, <1>5

-------------------------------------------------------------------------------
(* New components *)

\* A component is made, which hangs from nothing yet.
LEMMA OneMade ==
  ASSUME NEW L, NEW T, NEW A, Whole(L, T, A), T \subseteq DOMAIN L, NEW i \in Free(L),
         NEW t \in ComponentTypes, NEW M, M = With(L, i, Component(t, <<>>))
  PROVE  Whole(M, T \cup {i}, A) /\ Adds(L, i, t, <<>>, M) /\ ChildIds(M, i) = {}
<1>1. IsComponentMap(L) /\ IsForest(L, T) /\ L \in [DOMAIN L -> Components]
  BY DEF Whole, IsComponentMap, Components
<1>2. i \notin DOMAIN L /\ i \in ComponentIds
  BY DEF Free
<1>3. <<>> \in Seq(ComponentIds) /\ IsInjective(<<>>) /\ ToSet(<<>>) = {}
  BY <1>2, OneIs
<1>4. Adds(L, i, t, <<>>, M)
  BY <1>1, <1>3, ComponentAdded
<1>5. /\ DOMAIN M = DOMAIN L \cup {i} /\ M[i].type = t /\ M[i].children = <<>>
      /\ \A j \in DOMAIN L : M[j] = L[j] /\ ChildIds(M, j) = ChildIds(L, j)
      /\ ChildIds(M, i) = {} /\ M \in [DOMAIN M -> Components]
  BY <1>2, <1>3, <1>4 DEF Adds
<1>6. \A j \in DOMAIN L : ChildIds(L, j) \subseteq DOMAIN L /\ IsInjective(L[j].children)
  BY <1>1, ChildrenAreComponents
<1>7. 0 \in DOMAIN L /\ 1 \in DOMAIN L /\ DOMAIN L \subseteq ComponentIds
  BY <1>1 DEF IsComponentMap, DASHBOARD_ROOT_ID, DASHBOARD_GRID_ID
<1>8. IsComponentMap(M)
  <2>1. ASSUME NEW j \in DOMAIN M
        PROVE  ChildIds(M, j) \subseteq DOMAIN M /\ IsInjective(M[j].children)
    <3>1. CASE j = i
      BY <3>1, <1>3, <1>5
    <3>2. CASE j # i
      <4>1. j \in DOMAIN L /\ M[j] = L[j] /\ ChildIds(M, j) = ChildIds(L, j)
        BY <3>2, <1>5
      <4> QED BY <4>1, <1>5, <1>6
    <3> QED BY <3>1, <3>2
  <2> QED BY <2>1, <1>2, <1>5, <1>7, ComponentMapWhen
<1>9. IsForest(M, T \cup {i})
  <2>1. \A j \in DOMAIN L : ChildIds(M, j) = ChildIds(L, j) /\ i \notin ChildIds(L, j)
    BY <1>2, <1>5, <1>6
  <2> QED BY <2>1, <1>1, <1>2, <1>5, Grown
<1>10. ASSUME NEW j \in DOMAIN M, NEW c \in ChildIds(M, j) PROVE FitsIn(M, A, j, c)
  <2>1. j \in DOMAIN L /\ c \in ChildIds(L, j) /\ c \in DOMAIN L
    BY <1>5, <1>6, <1>10
  <2>2. FitsIn(L, A, j, c)
    BY <2>1 DEF Whole
  <2> QED BY <2>1, <2>2, <1>5 DEF FitsIn
<1>11. M[0].type = "ROOT" /\ M[1].type = "GRID"
  BY <1>5, <1>7 DEF Whole
<1> QED BY <1>4, <1>5, <1>8, <1>9, <1>10, <1>11 DEF Whole

\* M is L with j in i in addition.
AddsPair(L, i, t, j, u, M) ==
  /\ DOMAIN M = DOMAIN L \cup {i, j} /\ \A x \in DOMAIN L : M[x] = L[x]
  /\ M[i].type = t /\ M[i].children = <<j>> /\ ChildIds(M, i) = {j}
  /\ M[j].type = u /\ M[j].children = <<>> /\ ChildIds(M, j) = {}

LEMMA PairMade ==
  ASSUME NEW L, NEW T, NEW A, Whole(L, T, A), T \subseteq DOMAIN L,
         NEW i \in Free(L), NEW j \in Free(L), i # j,
         NEW t \in ComponentTypes, NEW u \in ComponentTypes, Fits(t, u), t # "TAB",
         NEW M, M = With(With(L, j, Component(u, <<>>)), i, Component(t, <<j>>))
  PROVE  Whole(M, T \cup {i}, A) /\ AddsPair(L, i, t, j, u, M)
<1>1. PICK N : N = With(L, j, Component(u, <<>>))
  OBVIOUS
<1>2. Whole(N, T \cup {j}, A) /\ Adds(L, j, u, <<>>, N) /\ ChildIds(N, j) = {}
  BY <1>1, OneMade
<1>3. i \notin DOMAIN L /\ j \notin DOMAIN L /\ i \in ComponentIds /\ j \in ComponentIds
  BY DEF Free
<1>4. /\ DOMAIN N = DOMAIN L \cup {j} /\ N[j].type = u /\ N[j].children = <<>>
      /\ \A x \in DOMAIN L : N[x] = L[x]
  BY <1>2, <1>3 DEF Adds
<1>5. i \in Free(N) /\ T \cup {j} \subseteq DOMAIN N
  BY <1>3, <1>4 DEF Free
<1>6. PICK K : K = With(N, i, Component(t, <<>>))
  OBVIOUS
<1>7. Whole(K, T \cup {j} \cup {i}, A) /\ Adds(N, i, t, <<>>, K) /\ ChildIds(K, i) = {}
  BY <1>2, <1>5, <1>6, OneMade
<1>8. <<j>> \in Seq(ComponentIds) /\ ToSet(<<j>>) = {j} /\ IsInjective(<<j>>)
  BY <1>3, OneIs
<1>9. Adds(N, i, t, <<j>>, M)
  <2>1. N \in [DOMAIN N -> Components]
    BY <1>2 DEF Adds
  <2> QED BY <2>1, <1>1, <1>8, ComponentAdded
<1>10. /\ DOMAIN M = DOMAIN N \cup {i} /\ M[i].type = t /\ M[i].children = <<j>>
       /\ \A x \in DOMAIN N : M[x] = N[x] /\ ChildIds(M, x) = ChildIds(N, x)
       /\ ChildIds(M, i) = {j} /\ M \in [DOMAIN M -> Components]
  BY <1>5, <1>8, <1>9 DEF Adds, Free
<1>11. /\ DOMAIN K = DOMAIN M
       /\ \A x \in DOMAIN N : ChildIds(K, x) = ChildIds(N, x)
  BY <1>5, <1>7, <1>10 DEF Adds, Free
<1>12. /\ AddsPair(L, i, t, j, u, M)
  BY <1>2, <1>3, <1>4, <1>10 DEF AddsPair
<1>13. IsForest(M, T \cup {i})
  <2>1. IsForest(K, T \cup {j} \cup {i}) /\ i \in DOMAIN K /\ j \in DOMAIN K
    BY <1>4, <1>7, <1>10, <1>11 DEF Whole
  <2>2. /\ \A x \in DOMAIN K : x # i => ChildIds(M, x) = ChildIds(K, x) \ {j}
        /\ ChildIds(M, i) = ChildIds(K, i) \cup {j}
    <3>1. \A x \in DOMAIN K : j \notin ChildIds(K, x)
      BY <2>1 DEF IsForest, Parents
    <3> QED BY <3>1, <1>7, <1>10, <1>11
  <2>3. \A x \in {j} : ChildIds(K, x) \subseteq {j}
    BY <1>2, <1>4, <1>11
  <2>4. IsForest(M, (T \cup {j} \cup {i}) \ {j})
    <3>1. PICK D, V : D = {j} /\ V = T \cup {j} \cup {i}
      OBVIOUS
    <3>2. D \subseteq DOMAIN K /\ i \notin D /\ {j} \subseteq D
      BY <2>1, <3>1
    <3>3. \A x \in D : ChildIds(K, x) \subseteq D
      BY <2>3, <3>1
    <3>4. IsForest(K, V) /\ i \in DOMAIN K /\ DOMAIN M = DOMAIN K
      BY <2>1, <3>1, <1>11
    <3>5. Grafts(K, i, {j}, M)
      BY <2>2, <3>4 DEF Grafts
    <3>6. IsForest(M, V \ {j})
      BY <3>2, <3>3, <3>4, <3>5, Regrafted
    <3> QED BY <3>1, <3>6
  <2>5. (T \cup {j} \cup {i}) \ {j} = T \cup {i}
    BY <1>3
  <2> QED BY <2>4, <2>5
<1>14. IsComponentMap(N)
  BY <1>2 DEF Whole
<1>15. \A x \in DOMAIN N : ChildIds(N, x) \subseteq DOMAIN N /\ IsInjective(N[x].children)
  BY <1>14, ChildrenAreComponents
<1>16. 0 \in DOMAIN N /\ 1 \in DOMAIN N /\ DOMAIN N \subseteq ComponentIds
  BY <1>14 DEF IsComponentMap, DASHBOARD_ROOT_ID, DASHBOARD_GRID_ID
<1>17. IsComponentMap(M)
  <2>1. ASSUME NEW x \in DOMAIN M
        PROVE  ChildIds(M, x) \subseteq DOMAIN M /\ IsInjective(M[x].children)
    <3>1. CASE x = i
      BY <3>1, <1>4, <1>8, <1>10
    <3>2. CASE x # i
      <4>1. x \in DOMAIN N /\ M[x] = N[x] /\ ChildIds(M, x) = ChildIds(N, x)
        BY <3>2, <1>10
      <4> QED BY <4>1, <1>10, <1>15
    <3> QED BY <3>1, <3>2
  <2> QED BY <2>1, <1>3, <1>10, <1>16, ComponentMapWhen
<1>18. ASSUME NEW x \in DOMAIN M, NEW c \in ChildIds(M, x) PROVE FitsIn(M, A, x, c)
  <2>1. CASE x = i
    <3>1. c = j /\ M[c].type = u /\ M[x].type = t
      BY <2>1, <1>10, <1>12, <1>18 DEF AddsPair
    <3> QED BY <3>1 DEF FitsIn
  <2>2. CASE x # i
    <3>1. x \in DOMAIN N /\ c \in ChildIds(N, x)
      BY <2>2, <1>10, <1>18
    <3>2. c \in DOMAIN N
      BY <3>1, <1>15
    <3>3. FitsIn(N, A, x, c)
      BY <3>1, <1>2 DEF Whole
    <3> QED BY <3>1, <3>2, <3>3, <1>10 DEF FitsIn
  <2> QED BY <2>1, <2>2
<1>19. M[0].type = "ROOT" /\ M[1].type = "GRID"
  BY <1>2, <1>10, <1>16 DEF Whole
<1> QED BY <1>12, <1>13, <1>17, <1>18, <1>19 DEF Whole

\* P is L with the component c among the children of q, and nothing else changed.
HungOn(L, q, c, P) ==
  /\ IsComponentMap(P) /\ DOMAIN P = DOMAIN L
  /\ \A i \in DOMAIN L : P[i].type = L[i].type
  /\ \A i \in DOMAIN L : i # q => P[i] = L[i] /\ ChildIds(P, i) = ChildIds(L, i)
  /\ ChildIds(P, q) = ChildIds(L, q) \cup {c}

LEMMA HungOnFits ==
  ASSUME NEW L, NEW T, NEW A, NEW c, c \notin T, Whole(L, T \cup {c}, A),
         NEW D, D \subseteq DOMAIN L, c \in D, \A x \in D : ChildIds(L, x) \subseteq D,
         NEW q \in DOMAIN L, q \notin D, NEW P, HungOn(L, q, c, P),
         Takes(L[q].type, L[c].type), (L[q].type = "TAB" /\ L[c].type = "TABS") => q \in A
  PROVE  IsForest(P, T) /\ AllFitBut(P, A, q, c)
<1>1. IsComponentMap(L) /\ IsForest(L, T \cup {c}) /\ c \in DOMAIN L
  BY DEF Whole
<1>2. \A i \in DOMAIN L : c \notin ChildIds(L, i)
  BY <1>1 DEF IsForest, Parents
<1>3. /\ DOMAIN P = DOMAIN L /\ \A i \in DOMAIN L : P[i].type = L[i].type
      /\ \A i \in DOMAIN L : i # q => ChildIds(P, i) = ChildIds(L, i)
      /\ ChildIds(P, q) = ChildIds(L, q) \cup {c}
  BY DEF HungOn
<1>4. IsForest(P, T)
  <2>1. PICK V : V = T \cup {c}
    OBVIOUS
  <2>2. IsForest(L, V) /\ {c} \subseteq D
    BY <2>1, <1>1
  <2>3. \A i \in DOMAIN L : i # q => ChildIds(P, i) = ChildIds(L, i) \ {c}
    BY <1>2, <1>3
  <2>4. IsForest(P, V \ {c})
    <3>1. Grafts(L, q, {c}, P)
      BY <2>3, <1>3 DEF Grafts
    <3> QED BY <3>1, <2>2, Regrafted
  <2>5. V \ {c} = T
    BY <2>1
  <2> QED BY <2>4, <2>5
<1>5. ASSUME NEW i \in DOMAIN P, NEW x \in ChildIds(P, i), ~(i = q /\ x = c)
      PROVE  FitsIn(P, A, i, x)
  <2>1. x \in ChildIds(L, i) /\ i \in DOMAIN L
    BY <1>3, <1>5
  <2>2. x \in DOMAIN L
    BY <2>1, <1>1, ChildrenAreComponents
  <2>3. FitsIn(L, A, i, x)
    BY <2>1 DEF Whole
  <2> QED BY <2>1, <2>2, <2>3, <1>3 DEF FitsIn
<1>6. 0 \in DOMAIN L /\ 1 \in DOMAIN L
  BY <1>1 DEF IsComponentMap, DASHBOARD_ROOT_ID, DASHBOARD_GRID_ID
<1>7. P[0].type = "ROOT" /\ P[1].type = "GRID"
  BY <1>3, <1>6 DEF Whole
<1>8. AllFitBut(P, A, q, c)
  BY <1>1, <1>3, <1>5, <1>7 DEF AllFitBut
<1> QED BY <1>4, <1>8

\* What a new component, with what is in it, leaves as it was.
Extends(L, q, M) ==
  /\ DOMAIN L \subseteq DOMAIN M
  /\ \A i \in DOMAIN L : M[i].type = L[i].type
  /\ \A i \in DOMAIN L : i # q => M[i] = L[i]
  /\ L[q].type \notin {"GRID", "TAB"} => ChildIds(L, q) \subseteq ChildIds(M, q)

LEMMA ExtendsSoundly ==
  ASSUME NEW L, Sound(L), NEW q \in DOMAIN L, q \notin Topmost(L), NEW M, Extends(L, q, M),
         Whole(M, Topmost(L), TopTabs(L)), DOMAIN M # ComponentIds
  PROVE  Sound(M)
<1> DEFINE rc == rootChildId(L)
<1>1. /\ rc \in DOMAIN L /\ 0 \in DOMAIN L /\ 1 \in DOMAIN L /\ q # 0
      /\ HasTopLevelTabs(L) => q # 1 /\ L[rc].type = "TABS"
  BY RootIs, SoundIsPlaced DEF Topmost, DASHBOARD_ROOT_ID, DASHBOARD_GRID_ID
<1>2. M[0] = L[0]
  BY <1>1 DEF Extends
<1>3. ASSUME HasTopLevelTabs(L)
      PROVE  /\ M[1].children = <<>> /\ M[rc].type = "TABS"
             /\ ChildIds(L, rc) \cap DOMAIN M \subseteq ChildIds(M, rc)
  <2>1. L[1].children = <<>> /\ M[1] = L[1]
    BY <1>1, <1>3 DEF Sound, MayBeSaved, TopIsRoot, DASHBOARD_GRID_ID, Extends
  <2>2. M[rc].type = "TABS"
    BY <1>1, <1>3 DEF Extends
  <2>3. ChildIds(L, rc) \subseteq ChildIds(M, rc)
    <3>1. CASE rc = q
      BY <3>1, <1>1, <1>3 DEF Extends
    <3>2. CASE rc # q
      BY <3>2, <1>1 DEF Extends, ChildIds
    <3> QED BY <3>1, <3>2
  <2> QED BY <2>1, <2>2, <2>3
<1> QED BY <1>2, <1>3, SoundAgain

\* N is L with the component i of this type, which holds nothing but what is in D.
IsMade(L, i, type, D, N) ==
  /\ DOMAIN L \subseteq DOMAIN N /\ DOMAIN N = DOMAIN L \cup D
  /\ \A x \in DOMAIN L : N[x] = L[x]
  /\ i \in D /\ D \cap DOMAIN L = {} /\ N[i].type = type
  /\ \A x \in D : ChildIds(N, x) \subseteq D

HasNew(L, i, j, type, N) ==
  /\ Whole(N, Topmost(L) \cup {i}, TopTabs(L))
  /\ IsMade(L, i, type, IF type = "TABS" THEN {i, j} ELSE {i}, N)
  /\ type = "TABS" => /\ N[i].children = <<j>> /\ ChildIds(N, i) = {j}
                      /\ N[j].type = "TAB" /\ N[j].children = <<>>

LEMMA MadeIs ==
  ASSUME NEW L, Sound(L), HasFreshIds(L), NEW type \in ComponentTypes,
         NEW N, N = IF type = "TABS"
                    THEN With(With(L, FreshIds(L)[2], Component("TAB", <<>>)),
                              FreshIds(L)[1], Component("TABS", <<FreshIds(L)[2]>>))
                    ELSE With(L, FreshIds(L)[1], Component(type, <<>>))
  PROVE  HasNew(L, FreshIds(L)[1], FreshIds(L)[2], type, N)
<1>1. PICK i, j, T, A : i = FreshIds(L)[1] /\ j = FreshIds(L)[2] /\ T = Topmost(L) /\ A = TopTabs(L)
  OBVIOUS
<1>2. i \in Free(L) /\ j \in Free(L) /\ i # j /\ i \notin DOMAIN L /\ j \notin DOMAIN L
  BY <1>1, TwoFresh DEF Free
<1>3. Whole(L, T, A) /\ T \subseteq DOMAIN L
  BY <1>1, RootIs, SoundIsPlaced DEF Topmost, DASHBOARD_ROOT_ID, DASHBOARD_GRID_ID
<1>4. CASE type = "TABS"
  <2>1. N = With(With(L, j, Component("TAB", <<>>)), i, Component("TABS", <<j>>))
    BY <1>1, <1>4
  <2>2. Fits("TABS", "TAB") /\ "TABS" \in ComponentTypes /\ "TAB" \in ComponentTypes
    BY TakesThese DEF Fits, Takes, shouldWrapChildInRow, ComponentTypes
  <2>3. Whole(N, T \cup {i}, A) /\ AddsPair(L, i, "TABS", j, "TAB", N)
    BY <2>1, <2>2, <1>2, <1>3, PairMade
  <2>4. IsMade(L, i, type, {i, j}, N)
    BY <2>3, <1>2, <1>4 DEF IsMade, AddsPair
  <2> QED BY <2>3, <2>4, <1>1, <1>4 DEF AddsPair, HasNew
<1>5. CASE type # "TABS"
  <2>1. N = With(L, i, Component(type, <<>>))
    BY <1>1, <1>5
  <2>2. Whole(N, T \cup {i}, A) /\ Adds(L, i, type, <<>>, N) /\ ChildIds(N, i) = {}
    BY <2>1, <1>2, <1>3, OneMade
  <2>3. IsMade(L, i, type, {i}, N)
    BY <2>2, <1>2 DEF IsMade, Adds
  <2> QED BY <2>2, <2>3, <1>1, <1>5 DEF HasNew
<1> QED BY <1>4, <1>5

LEMMA CreatesSoundly ==
  ASSUME NEW L, Sound(L), HasFreshIds(L), NEW type \in ComponentTypes, NEW destination,
         NEW q, q = destination.id, q \in DOMAIN L, q \notin Topmost(L),
         NEW n, n = destination.index, n \in Nat, n > 0, n <= Len(L[q].children) + 1,
         Takes(L[q].type, type), (L[q].type = "TAB" /\ type = "TABS") => q \in TopTabs(L),
         NEW M, M = CREATE_COMPONENT(L, type, destination)
  PROVE  Sound(M) /\ DOMAIN L \subseteq DOMAIN M
<1>1. PICK i, j, T, A : i = FreshIds(L)[1] /\ j = FreshIds(L)[2] /\ T = Topmost(L) /\ A = TopTabs(L)
  OBVIOUS
<1>2. PICK N : N = IF type = "TABS"
                   THEN With(With(L, j, Component("TAB", <<>>)), i, Component("TABS", <<j>>))
                   ELSE With(L, i, Component(type, <<>>))
  OBVIOUS
<1>3. Whole(N, T \cup {i}, A) /\ \E D : /\ IsMade(L, i, type, D, N)
                                       /\ D = IF type = "TABS" THEN {i, j} ELSE {i}
  <2>1. N = IF type = "TABS"
            THEN With(With(L, FreshIds(L)[2], Component("TAB", <<>>)),
                      FreshIds(L)[1], Component("TABS", <<FreshIds(L)[2]>>))
            ELSE With(L, FreshIds(L)[1], Component(type, <<>>))
    BY <1>1, <1>2
  <2>2. HasNew(L, FreshIds(L)[1], FreshIds(L)[2], type, N)
    BY <2>1, MadeIs
  <2> QED BY <2>2, <1>1 DEF HasNew
<1>4. PICK D : IsMade(L, i, type, D, N) /\ D = IF type = "TABS" THEN {i, j} ELSE {i}
  BY <1>3
<1>5. /\ DOMAIN L \subseteq DOMAIN N /\ DOMAIN N = DOMAIN L \cup D
      /\ \A x \in DOMAIN L : N[x] = L[x] /\ ChildIds(N, x) = ChildIds(L, x)
      /\ i \in D /\ D \cap DOMAIN L = {} /\ N[i].type = type
      /\ \A x \in D : ChildIds(N, x) \subseteq D
  BY <1>4 DEF IsMade, ChildIds
<1>6. IsComponentMap(L) /\ T \subseteq DOMAIN L /\ IsComponentMap(N) /\ DOMAIN N \subseteq ComponentIds
  BY <1>1, <1>3, SoundIsPlaced DEF Topmost, DASHBOARD_ROOT_ID, DASHBOARD_GRID_ID, Whole,
     IsComponentMap
<1>7. PICK P : P = [N EXCEPT ![q].children = Splice(@, n, i)]
  OBVIOUS
<1>8. M = WrapInRow(P, type, q, n)
  BY <1>1, <1>2, <1>7 DEF CREATE_COMPONENT
<1>9. i \notin ChildIds(N, q) /\ i \notin T /\ q \notin D /\ q \in DOMAIN N /\ i \in DOMAIN N
  BY <1>5, <1>6, ChildrenAreComponents
<1>10. HasPut(N, q, i, n, P)
  BY <1>6, <1>7, <1>9, PutInto
<1>11. HungOn(N, q, i, P) /\ Lands(N[q].children, i, n, P[q].children) /\ IsComponentMap(P)
  BY <1>10 DEF HasPut, HungOn
<1>12. /\ DOMAIN P = DOMAIN N /\ \A x \in DOMAIN N : P[x].type = N[x].type
       /\ \A x \in DOMAIN N : x # q => P[x] = N[x]
       /\ ChildIds(P, q) = ChildIds(N, q) \cup {i}
  BY <1>11 DEF HungOn
<1>13. IsForest(P, T) /\ AllFitBut(P, A, q, i)
  <2>1. Takes(N[q].type, N[i].type) /\ ((N[q].type = "TAB" /\ N[i].type = "TABS") => q \in A)
    BY <1>1, <1>5
  <2>2. D \subseteq DOMAIN N
    BY <1>5
  <2> QED BY <2>1, <2>2, <1>3, <1>5, <1>9, <1>11, HungOnFits
<1>14. DOMAIN N # ComponentIds
  BY <1>4, <1>5, OneStaysFree
<1>15. Free(P) # {}
  BY <1>6, <1>12, <1>14 DEF Free
<1>16. n \in DOMAIN P[q].children /\ P[q].children[n] = i
  <2>1. N[q].children = L[q].children
    BY <1>5
  <2>2. IsWith(L[q].children, n, i, P[q].children) /\ n \in 1..(Len(L[q].children) + 1)
    BY <2>1, <1>11 DEF Lands
  <2>3. DOMAIN P[q].children = 1..Len(P[q].children)
    BY <1>9, <1>11, <1>12, ChildrenAreComponents
  <2> QED BY <2>2, <2>3 DEF IsWith
<1>17. PICK r : r = FreshIds(P)[1]
  OBVIOUS
<1>18. P[q].type = L[q].type /\ P[i].type = type
  BY <1>5, <1>9, <1>12
<1>19. IsSettled(P, T, A, q, n, i, r, type, M)
  <2>1. i \in ChildIds(P, q) /\ T \subseteq DOMAIN P /\ q \in DOMAIN P
    BY <1>5, <1>6, <1>9, <1>12
  <2> QED BY <2>1, <1>8, <1>11, <1>13, <1>15, <1>16, <1>17, <1>18, Settled
<1>20. Extends(L, q, M) /\ DOMAIN M # ComponentIds
  <2>1. CASE shouldWrapChildInRow(L[q].type, type)
    <3>1. InRow(P, q, n, i, r, M)
      BY <2>1, <1>18, <1>19 DEF IsSettled
    <3>2. type # "TABS" /\ L[q].type \in {"GRID", "TAB"}
      BY <2>1 DEF shouldWrapChildInRow
    <3>3. DOMAIN M \subseteq DOMAIN L \cup {i, r} /\ DOMAIN L \subseteq DOMAIN M
      BY <3>1, <3>2, <1>4, <1>5, <1>12 DEF InRow
    <3>4. DOMAIN M # ComponentIds
      BY <3>3, OneStaysFree
    <3>5. /\ \A x \in DOMAIN L : M[x].type = L[x].type
          /\ \A x \in DOMAIN L : x # q => M[x] = L[x]
      BY <3>1, <1>5, <1>12 DEF InRow
    <3> QED BY <3>2, <3>3, <3>4, <3>5 DEF Extends
  <2>2. CASE ~shouldWrapChildInRow(L[q].type, type)
    <3>1. M = P
      BY <2>2, <1>18, <1>19 DEF IsSettled
    <3> QED BY <3>1, <1>5, <1>12, <1>14 DEF Extends
  <2> QED BY <2>1, <2>2
<1>21. Whole(M, T, A)
  BY <1>19 DEF IsSettled
<1> QED BY <1>1, <1>20, <1>21, ExtendsSoundly DEF Extends

\* hydrateDashboard puts the chart in a row of its own.
LEMMA ContainerIs ==
  ASSUME NEW L, Sound(L), NEW p \in FirstParentContainers(L)
  PROVE  p \in DOMAIN L /\ p \notin Topmost(L) /\ L[p].type \in {"GRID", "TAB"}
<1> DEFINE rc == rootChildId(L)
<1>1. /\ rc \in DOMAIN L /\ 1 \in DOMAIN L /\ Whole(L, Topmost(L), TopTabs(L))
      /\ L[rc].type = IF HasTopLevelTabs(L) THEN "TABS" ELSE "GRID"
      /\ IsComponentMap(L) /\ IsForest(L, Topmost(L))
  BY RootIs, SoundIsPlaced DEF Whole
<1>2. CASE ~HasTopLevelTabs(L)
  <2>1. p = 1
    BY <1>2 DEF FirstParentContainers, DASHBOARD_GRID_ID
  <2> QED BY <2>1, <1>1, <1>2 DEF Topmost, DASHBOARD_ROOT_ID, HasTopLevelTabs, DASHBOARD_GRID_ID
<1>3. CASE HasTopLevelTabs(L)
  <2>1. PICK s \in Seq(ComponentIds) : s = L[rc].children
    BY <1>1, ChildrenAreComponents
  <2>2. s # <<>> /\ p = Head(s)
    BY <2>1, <1>3 DEF FirstParentContainers
  <2>3. p \in ToSet(s)
    <3>1. 1 \in DOMAIN s /\ Head(s) = s[1]
      BY <2>2
    <3> QED BY <3>1, <2>2 DEF ToSet
  <2>4. p \in ChildIds(L, rc)
    BY <2>1, <2>3 DEF ChildIds
  <2>5. p \in DOMAIN L
    BY <2>4, <1>1, ChildrenAreComponents
  <2>6. p \notin Topmost(L)
    BY <2>4, <1>1 DEF IsForest, Parents
  <2>7. Fits("TABS", L[p].type)
    BY <2>4, <1>1, <1>3 DEF Whole, FitsIn
  <2> QED BY <2>5, <2>6, <2>7, FitsIs, TabsHoldTabs
<1> QED BY <1>2, <1>3

\* A chart j is put in a row i of its own at the end of p.
Hydrates(L, p, i, j, M) ==
  M = With(With([L EXCEPT ![p].children = Append(@, i)], i, Component("ROW", <<j>>)),
           j, Component("CHART", <<>>))

LEMMA HydratesSoundly ==
  ASSUME NEW L, Sound(L), HasFreshIds(L), NEW p \in FirstParentContainers(L),
         NEW i, i = FreshIds(L)[1], NEW j, j = FreshIds(L)[2],
         NEW M, Hydrates(L, p, i, j, M)
  PROVE  Sound(M) /\ DOMAIN L \subseteq DOMAIN M
<1>1. PICK T, A : T = Topmost(L) /\ A = TopTabs(L)
  OBVIOUS
<1>2. p \in DOMAIN L /\ p \notin T /\ L[p].type \in {"GRID", "TAB"}
  BY <1>1, ContainerIs
<1>3. i \in Free(L) /\ j \in Free(L) /\ i # j /\ i \notin DOMAIN L /\ j \notin DOMAIN L
  BY TwoFresh DEF Free
<1>4. Whole(L, T, A) /\ T \subseteq DOMAIN L /\ IsComponentMap(L)
  BY <1>1, RootIs, SoundIsPlaced DEF Topmost, DASHBOARD_ROOT_ID, DASHBOARD_GRID_ID
<1>5. PICK N : N = With(With(L, j, Component("CHART", <<>>)), i, Component("ROW", <<j>>))
  OBVIOUS
<1>6. Whole(N, T \cup {i}, A) /\ AddsPair(L, i, "ROW", j, "CHART", N)
  <2>1. Fits("ROW", "CHART") /\ "ROW" \in ComponentTypes /\ "CHART" \in ComponentTypes
    BY RowFits DEF ComponentTypes
  <2> QED BY <2>1, <1>3, <1>4, <1>5, PairMade
<1>7. /\ DOMAIN N = DOMAIN L \cup {i, j} /\ \A x \in DOMAIN L : N[x] = L[x]
      /\ N[i].type = "ROW" /\ ChildIds(N, i) = {j} /\ ChildIds(N, j) = {}
      /\ \A x \in DOMAIN L : ChildIds(N, x) = ChildIds(L, x)
      /\ IsComponentMap(N) /\ i \in ComponentIds
  BY <1>3, <1>6 DEF AddsPair, ChildIds, Whole, Free
<1>8. M = [N EXCEPT ![p].children = Append(@, i)]
  BY <1>2, <1>3, <1>5 DEF With, Hydrates
<1>9. HungOn(N, p, i, M)
  <2>1. PICK s \in Seq(ComponentIds) : s = N[p].children
    BY <1>2, <1>7, ChildrenAreComponents
  <2>2. IsInjective(s) /\ ToSet(s) = ChildIds(L, p) /\ i \notin ToSet(s) /\ ToSet(s) \subseteq DOMAIN L
    <3>1. IsInjective(s) /\ ToSet(s) = ChildIds(N, p)
      BY <2>1, <1>2, <1>7, ChildrenAreComponents DEF ChildIds
    <3> QED BY <3>1, <1>2, <1>3, <1>4, <1>7, ChildrenAreComponents
  <2>3. PICK t : t = Append(s, i)
    OBVIOUS
  <2>4. t \in Seq(ComponentIds) /\ IsInjective(t) /\ ToSet(t) = ToSet(s) \cup {i}
    BY <2>2, <2>3, <1>7, AddedAtEnd
  <2>5. M = [N EXCEPT ![p].children = t]
    BY <2>1, <2>3, <1>8
  <2>6. ToSet(t) \subseteq DOMAIN N /\ p \in DOMAIN N
    BY <2>2, <2>4, <1>2, <1>7
  <2>7. Sets(N, p, t, M) /\ IsComponentMap(M)
    BY <2>4, <2>5, <2>6, <1>7, ChildrenSet
  <2> QED BY <2>2, <2>4, <2>7, <1>2, <1>7 DEF Sets, HungOn
<1>10. IsForest(M, T) /\ AllFitBut(M, A, p, i)
  <2>1. PICK D : D = {i, j}
    OBVIOUS
  <2>2. D \subseteq DOMAIN N /\ i \in D /\ p \notin D /\ p \in DOMAIN N /\ i \notin T
        /\ \A x \in D : ChildIds(N, x) \subseteq D
    BY <2>1, <1>2, <1>3, <1>4, <1>7
  <2>3. Takes(N[p].type, N[i].type) /\ N[i].type # "TABS"
    BY <1>2, <1>7, TakesThese
  <2> QED BY <2>2, <2>3, <1>6, <1>9, HungOnFits
<1>11. /\ DOMAIN M = DOMAIN N /\ \A x \in DOMAIN N : M[x].type = N[x].type
       /\ \A x \in DOMAIN N : x # p => M[x] = N[x]
       /\ ChildIds(M, p) = ChildIds(N, p) \cup {i} /\ IsComponentMap(M)
  BY <1>9 DEF HungOn
<1>12. Whole(M, T, A)
  <2>1. FitsIn(M, A, p, i)
    <3>1. M[i].type = "ROW" /\ M[p].type \in {"GRID", "TAB"}
      <4>1. M[i].type = N[i].type /\ M[p].type = N[p].type /\ N[p] = L[p]
        BY <1>2, <1>7, <1>11
      <4> QED BY <4>1, <1>2, <1>7
    <3>2. Fits("GRID", "ROW") /\ Fits("TAB", "ROW")
      BY FitsIs
    <3> QED BY <3>1, <3>2 DEF FitsIn
  <2> QED BY <2>1, <1>10, <1>11 DEF Whole, AllFitBut
<1>13. Extends(L, p, M) /\ DOMAIN M # ComponentIds
  <2>1. DOMAIN M # ComponentIds
    BY <1>7, <1>11, OneStaysFree
  <2>2. /\ DOMAIN L \subseteq DOMAIN M /\ \A x \in DOMAIN L : x # p => M[x] = L[x]
        /\ \A x \in DOMAIN L : M[x].type = L[x].type
    <3>1. \A x \in DOMAIN L : x \in DOMAIN N /\ N[x] = L[x]
      BY <1>7
    <3> QED BY <3>1, <1>11
  <2>3. ChildIds(L, p) \subseteq ChildIds(M, p)
    BY <1>2, <1>7, <1>11
  <2> QED BY <2>1, <2>2, <2>3 DEF Extends
<1> QED BY <1>1, <1>2, <1>12, <1>13, ExtendsSoundly DEF Extends

-------------------------------------------------------------------------------
(* Top-level tabs *)

\* Tabs of a layout without top-level tabs: new ones, or a child of the grid.
OffTop(N, T, tabs, tab) ==
  /\ Whole(N, T, {}) /\ 0 \in T /\ T \subseteq {0, tabs} /\ ChildIds(N, 0) = {1}
  /\ tabs \in DOMAIN N /\ N[tabs].type = "TABS" /\ tab \in ChildIds(N, tabs)
  /\ tabs \in T \/ tabs \in ChildIds(N, 1)
  /\ DOMAIN N # ComponentIds

\* They hold what the grid held.
PutOnTop(N, tabs, tab, M) ==
  M = [N EXCEPT ![0].children = <<tabs>>,
                ![tab].children = @ \o RemoveFirst(N[1].children, tabs),
                ![1].children = <<>>]

LEMMA TabsOnTop ==
  ASSUME NEW N, NEW T, NEW tabs, NEW tab, OffTop(N, T, tabs, tab),
         NEW M, PutOnTop(N, tabs, tab, M)
  PROVE  Sound(M) /\ DOMAIN M = DOMAIN N
<1>1. /\ IsComponentMap(N) /\ IsForest(N, T) /\ 0 \in DOMAIN N /\ 1 \in DOMAIN N
      /\ N[0].type = "ROOT" /\ N[1].type = "GRID"
      /\ tabs \in DOMAIN N /\ N[tabs].type = "TABS" /\ tab \in ChildIds(N, tabs)
      /\ DOMAIN N \subseteq ComponentIds
  BY DEF OffTop, Whole, IsComponentMap, DASHBOARD_ROOT_ID, DASHBOARD_GRID_ID
<1>2. \A x \in DOMAIN N : \A c \in ChildIds(N, x) : c \in DOMAIN N /\ FitsIn(N, {}, x, c)
  BY <1>1, ChildrenAreComponents DEF OffTop, Whole
<1>3. tab \in DOMAIN N /\ N[tab].type = "TAB"
  <2>1. tab \in DOMAIN N /\ Fits("TABS", N[tab].type)
    BY <1>1, <1>2 DEF FitsIn
  <2> QED BY <2>1, FitsIs, TabsHoldTabs
<1>4. tab # 0 /\ tab # 1 /\ tab # tabs /\ tabs # 0 /\ tabs # 1
  BY <1>1, <1>3
<1>5. \A x, y \in DOMAIN N : ChildIds(N, x) \cap ChildIds(N, y) # {} => x = y
  BY <1>1 DEF IsForest
<1>6. \A x \in DOMAIN N : 0 \notin ChildIds(N, x)
  BY <1>1 DEF OffTop, IsForest, Parents
<1>7. \A x \in DOMAIN N : 1 \in ChildIds(N, x) => x = 0
  BY <1>1, <1>5 DEF OffTop
<1>8. \A x \in DOMAIN N : tabs \in ChildIds(N, x) => x = 1
  <2>1. CASE tabs \in T
    BY <2>1, <1>1 DEF IsForest, Parents
  <2>2. CASE tabs \in ChildIds(N, 1)
    BY <2>2, <1>1, <1>5
  <2> QED BY <2>1, <2>2 DEF OffTop
<1>9. PICK a \in Seq(ComponentIds), b \in Seq(ComponentIds) :
        a = N[tab].children /\ b = RemoveFirst(N[1].children, tabs)
        /\ IsInjective(a) /\ IsInjective(b)
        /\ ToSet(a) = ChildIds(N, tab) /\ ToSet(b) = ChildIds(N, 1) \ {tabs}
  <2>1. PICK s \in Seq(ComponentIds) : s = N[1].children
    BY <1>1, ChildrenAreComponents
  <2>2. IsInjective(s) /\ ToSet(s) = ChildIds(N, 1)
    BY <2>1, <1>1, ChildrenAreComponents DEF ChildIds
  <2>3. PICK b : b = RemoveFirst(s, tabs)
    OBVIOUS
  <2>4. b \in Seq(ComponentIds) /\ IsInjective(b) /\ ToSet(b) = ToSet(s) \ {tabs}
    BY <2>2, <2>3, RemovedIs
  <2>5. PICK a \in Seq(ComponentIds) : a = N[tab].children
    BY <1>1, <1>3, ChildrenAreComponents
  <2>6. IsInjective(a) /\ ToSet(a) = ChildIds(N, tab)
    BY <2>5, <1>1, <1>3, ChildrenAreComponents DEF ChildIds
  <2> QED BY <2>1, <2>2, <2>3, <2>4, <2>5, <2>6
<1>10. PICK u : u = a \o b
  OBVIOUS
<1>11. /\ u \in Seq(ComponentIds) /\ IsInjective(u)
       /\ ToSet(u) = ChildIds(N, tab) \cup (ChildIds(N, 1) \ {tabs})
  <2>1. ToSet(a) \cap ToSet(b) = {}
    BY <1>1, <1>3, <1>4, <1>5, <1>9
  <2>2. u \in Seq(ComponentIds) /\ IsInjective(u) /\ ToSet(u) = ToSet(a) \cup ToSet(b)
    BY <2>1, <1>9, <1>10, JoinedAre
  <2> QED BY <2>2, <1>9
<1>12. /\ <<tabs>> \in Seq(ComponentIds) /\ IsInjective(<<tabs>>) /\ ToSet(<<tabs>>) = {tabs}
       /\ Len(<<tabs>>) = 1 /\ Head(<<tabs>>) = tabs
       /\ <<>> \in Seq(ComponentIds) /\ IsInjective(<<>>) /\ ToSet(<<>>) = {}
  <2>1. tabs \in ComponentIds
    BY <1>1
  <2> QED BY <2>1, OneIs
<1>13. PICK N1 : N1 = [N EXCEPT ![0].children = <<tabs>>]
  OBVIOUS
<1>14. Sets(N, 0, <<tabs>>, N1) /\ IsComponentMap(N1)
  <2>1. {tabs} \subseteq DOMAIN N
    BY <1>1
  <2> QED BY <2>1, <1>1, <1>12, <1>13, ChildrenSet
<1>15. PICK N2 : N2 = [N1 EXCEPT ![tab].children = u]
  OBVIOUS
<1>16. Sets(N1, tab, u, N2) /\ IsComponentMap(N2)
  <2>1. DOMAIN N1 = DOMAIN N
    BY <1>14 DEF Sets
  <2>2. ToSet(u) \subseteq DOMAIN N1 /\ tab \in DOMAIN N1
    BY <2>1, <1>1, <1>2, <1>3, <1>11
  <2> QED BY <2>2, <1>11, <1>14, <1>15, ChildrenSet
<1>17. M = [N2 EXCEPT ![1].children = <<>>]
  <2>1. M = [[[N EXCEPT ![0].children = <<tabs>>]
                 EXCEPT ![tab].children = N[tab].children \o RemoveFirst(N[1].children, tabs)]
                 EXCEPT ![1].children = <<>>]
    BY <1>1, <1>3, <1>4 DEF PutOnTop
  <2>2. N[tab].children \o RemoveFirst(N[1].children, tabs) = u
    BY <1>9, <1>10
  <2> QED BY <2>1, <2>2, <1>13, <1>15
<1>18. Sets(N2, 1, <<>>, M) /\ IsComponentMap(M)
  <2>1. DOMAIN N2 = DOMAIN N
    BY <1>14, <1>16 DEF Sets
  <2> QED BY <2>1, <1>1, <1>12, <1>16, <1>17, ChildrenSet
<1>19. /\ DOMAIN M = DOMAIN N /\ \A x \in DOMAIN N : M[x].type = N[x].type
       /\ M[0].children = <<tabs>> /\ ChildIds(M, 0) = {tabs}
       /\ M[1].children = <<>> /\ ChildIds(M, 1) = {}
       /\ ChildIds(M, tab) = ChildIds(N, tab) \cup (ChildIds(N, 1) \ {tabs})
       /\ \A x \in DOMAIN N \ {0, 1, tab} : ChildIds(M, x) = ChildIds(N, x)
  <2>1. /\ DOMAIN N1 = DOMAIN N /\ DOMAIN N2 = DOMAIN N /\ DOMAIN M = DOMAIN N
        /\ \A x \in DOMAIN N : M[x].type = N[x].type
    <3>1. DOMAIN N1 = DOMAIN N /\ \A x \in DOMAIN N : N1[x].type = N[x].type
      BY <1>14 DEF Sets
    <3>2. DOMAIN N2 = DOMAIN N1 /\ \A x \in DOMAIN N1 : N2[x].type = N1[x].type
      BY <1>16 DEF Sets
    <3>3. DOMAIN M = DOMAIN N2 /\ \A x \in DOMAIN N2 : M[x].type = N2[x].type
      BY <1>18 DEF Sets
    <3> QED BY <3>1, <3>2, <3>3
  <2>2. M[0].children = <<tabs>> /\ ChildIds(M, 0) = {tabs}
    BY <2>1, <1>1, <1>4, <1>12, <1>14, <1>16, <1>18 DEF Sets
  <2>3. M[1].children = <<>> /\ ChildIds(M, 1) = {}
    BY <1>12, <1>18 DEF Sets
  <2>4. ChildIds(M, tab) = ChildIds(N, tab) \cup (ChildIds(N, 1) \ {tabs})
    BY <2>1, <1>3, <1>4, <1>11, <1>16, <1>18 DEF Sets
  <2>5. \A x \in DOMAIN N \ {0, 1, tab} : ChildIds(M, x) = ChildIds(N, x)
    BY <2>1, <1>14, <1>16, <1>18 DEF Sets
  <2> QED BY <2>1, <2>2, <2>3, <2>4, <2>5
<1>20. /\ rootChildId(M) = tabs /\ HasTopLevelTabs(M) /\ Topmost(M) = {0, 1}
  <2>1. rootChildId(M) = tabs
    BY <1>12, <1>19 DEF rootChildId, DASHBOARD_ROOT_ID
  <2> QED BY <2>1, <1>4 DEF HasTopLevelTabs, Topmost, DASHBOARD_GRID_ID, DASHBOARD_ROOT_ID
<1>21. TopIsRoot(M)
  BY <1>1, <1>12, <1>19, <1>20 DEF TopIsRoot, DASHBOARD_ROOT_ID, DASHBOARD_GRID_ID
<1>22. \A x \in DOMAIN M : \A c \in ChildIds(M, x) : x # 0 =>
          /\ c # tabs /\ c # 0 /\ c # 1 /\ x # 1
          /\ c \in ChildIds(N, x) \/ (x = tab /\ c \in ChildIds(N, 1))
  <2>1. ASSUME NEW x \in DOMAIN M, NEW c \in ChildIds(M, x), x # 0
        PROVE  /\ c # tabs /\ c # 0 /\ c # 1 /\ x # 1
               /\ c \in ChildIds(N, x) \/ (x = tab /\ c \in ChildIds(N, 1))
    <3>1. x # 1
      BY <2>1, <1>19
    <3>2. CASE x = tab
      BY <3>1, <3>2, <2>1, <1>1, <1>3, <1>4, <1>6, <1>7, <1>8, <1>19
    <3>3. CASE x # tab
      <4>1. c \in ChildIds(N, x) /\ x \in DOMAIN N
        BY <3>1, <3>3, <2>1, <1>19
      <4> QED BY <4>1, <3>1, <2>1, <1>6, <1>7, <1>8
    <3> QED BY <3>2, <3>3
  <2> QED BY <2>1
<1>23. IsForest(M, {0, 1})
  <2>0. PICK U : U = {0, 1}
    OBVIOUS
  <2>1. ASSUME NEW x \in DOMAIN M, NEW y \in DOMAIN M, ChildIds(M, x) \cap ChildIds(M, y) # {}
        PROVE  x = y
    <3>1. PICK c : c \in ChildIds(M, x) /\ c \in ChildIds(M, y)
      BY <2>1
    <3>2. CASE c = tabs
      <4>1. x = 0 /\ y = 0
        BY <3>1, <3>2, <1>22
      <4> QED BY <4>1
    <3>3. CASE c # tabs
      <4>1. x # 0 /\ y # 0
        <5>1. c \notin ChildIds(M, 0)
          BY <3>3, <1>19
        <5> QED BY <5>1, <3>1
      <4>2. /\ x # 1 /\ y # 1
            /\ c \in ChildIds(N, x) \/ (x = tab /\ c \in ChildIds(N, 1))
            /\ c \in ChildIds(N, y) \/ (y = tab /\ c \in ChildIds(N, 1))
        BY <3>1, <4>1, <1>22
      <4>3. x \in DOMAIN N /\ y \in DOMAIN N
        BY <1>19
      <4> QED BY <4>2, <4>3, <1>1, <1>5
    <3> QED BY <3>2, <3>3
  <2>2. ASSUME NEW i \in U, NEW x \in DOMAIN M PROVE i \notin ChildIds(M, x)
    <3>1. i \in {0, 1}
      BY <2>0, <2>2
    <3>2. x # 0 => i \notin ChildIds(M, x)
      BY <3>1, <1>22
    <3>3. i \notin ChildIds(M, 0)
      BY <3>1, <1>4, <1>19
    <3> QED BY <3>2, <3>3
  <2>3. ASSUME NEW S \in SUBSET (DOMAIN M \ U), S # {}
        PROVE  \E j \in S, x \in DOMAIN M : x \notin S /\ j \in ChildIds(M, x)
    <3>1. CASE tabs \in S
      <4>1. 0 \in DOMAIN M /\ 0 \notin S /\ tabs \in ChildIds(M, 0)
        BY <1>1, <1>19, <2>0
      <4> QED BY <4>1, <3>1
    <3>2. CASE tabs \notin S
      <4>1. S \subseteq DOMAIN N /\ S \cap T = {}
        <5>1. T \subseteq {0, tabs}
          BY DEF OffTop
        <5>2. DOMAIN M = DOMAIN N
          BY <1>19
        <5> QED BY <5>1, <5>2, <3>2, <2>0
      <4>2. PICK j \in S, x \in DOMAIN N : x \notin S /\ j \in ChildIds(N, x)
        BY <4>1, <2>3, <1>1, HangsFromIs
      <4>3. x # 0
        <5>1. 1 \notin S
          BY <2>0
        <5> QED BY <5>1, <4>2 DEF OffTop
      <4>4. CASE x # 1
        <5>1. j \in ChildIds(M, x)
          BY <4>2, <4>3, <4>4, <1>19
        <5> QED BY <5>1, <4>2, <1>19
      <4>5. CASE x = 1 /\ tab \notin S
        <5>1. j \in ChildIds(M, tab)
          BY <4>2, <4>5, <3>2, <1>19
        <5> QED BY <5>1, <4>2, <4>5, <1>3, <1>19
      <4>6. CASE tab \in S
        <5>1. tab \in ChildIds(M, tabs)
          BY <1>1, <1>4, <1>19
        <5> QED BY <5>1, <4>6, <3>2, <1>1, <1>19
      <4> QED BY <4>4, <4>5, <4>6
    <3> QED BY <3>1, <3>2
  <2>4. IsForest(M, U)
    BY <2>1, <2>2, <2>3, IsForestWhen
  <2> QED BY <2>0, <2>4
<1>24. ChildrenFit(M)
  <2>1. ASSUME NEW x \in DOMAIN M, NEW c \in ChildIds(M, x)
        PROVE  /\ Fits(M[x].type, M[c].type)
               /\ (M[x].type = "TAB" /\ M[c].type = "TABS") => x \in ChildIds(M, tabs)
    <3>1. CASE x = 0
      <4>1. c = tabs /\ M[x].type = "ROOT" /\ M[c].type = "TABS"
        BY <3>1, <2>1, <1>1, <1>19
      <4>2. Fits("ROOT", "TABS")
        BY TakesThese DEF Fits, Takes, shouldWrapChildInRow
      <4> QED BY <4>1, <4>2
    <3>2. CASE x # 0 /\ c \in ChildIds(N, x)
      <4>1. FitsIn(N, {}, x, c) /\ c \in DOMAIN N /\ x \in DOMAIN N
        BY <3>2, <1>2, <1>19
      <4> QED BY <4>1, <1>19 DEF FitsIn
    <3>3. CASE x = tab /\ c \in ChildIds(N, 1)
      <4>1. c \in DOMAIN N /\ Fits("GRID", N[c].type)
        BY <3>3, <1>1, <1>2 DEF FitsIn
      <4>2. Fits("TAB", N[c].type)
        BY <4>1, FitsIs
      <4>3. tab \in ChildIds(M, tabs)
        BY <1>1, <1>4, <1>19
      <4> QED BY <4>1, <4>2, <4>3, <3>3, <1>3, <1>19
    <3> QED BY <3>1, <3>2, <3>3, <2>1, <1>22
  <2>2. HasTopLevelTabs(M) /\ rootChildId(M) = tabs
    BY <1>20
  <2>3. \A x \in DOMAIN M : \A c \in ChildIds(M, x) :
          /\ Fits(M[x].type, M[c].type)
          /\ (M[x].type = "TAB" /\ M[c].type = "TABS") => x \in ChildIds(M, tabs)
    BY <2>1
  <2>4. ASSUME NEW x \in DOMAIN M, NEW c \in ChildIds(M, x)
        PROVE  /\ Fits(M[x].type, M[c].type)
               /\ (M[x].type = "TAB" /\ M[c].type = "TABS") =>
                     HasTopLevelTabs(M) /\ x \in ChildIds(M, rootChildId(M))
    BY <2>2, <2>1, <2>4
  <2> QED BY <2>4 DEF ChildrenFit
<1> QED BY <1>18, <1>19, <1>20, <1>21, <1>23, <1>24 DEF Sound, MayBeSaved, OffTop

\* Only the grid holds tabs, while there are no top-level tabs.
LEMMA TabsInGrid ==
  ASSUME NEW L, Sound(L), ~HasTopLevelTabs(L), NEW p \in DOMAIN L, p # 0,
         NEW c \in ChildIds(L, p), L[c].type = "TABS"
  PROVE  p = 1
<1>1. Whole(L, Topmost(L), {}) /\ Topmost(L) = {0} /\ ChildIds(L, 0) = {1}
  <2>1. Topmost(L) = {0} /\ TopTabs(L) = {} /\ rootChildId(L) = 1
    BY DEF Topmost, TopTabs, HasTopLevelTabs, DASHBOARD_ROOT_ID, DASHBOARD_GRID_ID
  <2> QED BY <2>1, RootIs
<1>2. \A x \in DOMAIN L : \A y \in ChildIds(L, x) : FitsIn(L, {}, x, y)
  BY <1>1 DEF Whole
<1>3. \A x \in DOMAIN L : x # 0 => \E q \in DOMAIN L : x \in ChildIds(L, q)
  BY <1>1, ParentIs
<1>4. \A x \in DOMAIN L : x # 0 => L[x].type # "ROOT"
  <2>1. SUFFICES ASSUME NEW x \in DOMAIN L, x # 0, L[x].type = "ROOT" PROVE FALSE
    OBVIOUS
  <2>2. PICK q \in DOMAIN L : x \in ChildIds(L, q)
    BY <1>3, <2>1
  <2>3. Takes(L[q].type, "ROOT")
    BY <2>1, <2>2, <1>2, FitsIs DEF FitsIn
  <2> QED BY <2>3, TakesAre DEF Takes
<1>5. L[p].type \in {"GRID", "TAB"}
  <2>1. Fits(L[p].type, "TABS")
    BY <1>2 DEF FitsIn
  <2> QED BY <2>1, <1>4, TabsHoldTabs
<1>6. L[p].type # "TAB"
  BY <1>2 DEF FitsIn
<1>7. PICK q \in DOMAIN L : p \in ChildIds(L, q)
  BY <1>3
<1>8. Takes(L[q].type, "GRID")
  <2>1. Fits(L[q].type, "GRID")
    BY <1>2, <1>5, <1>6, <1>7 DEF FitsIn
  <2> QED BY <2>1, FitsIs
<1>9. q = 0
  BY <1>4, <1>8, TabsHoldTabs
<1> QED BY <1>1, <1>7, <1>9

LEMMA FirstIsHeld ==
  ASSUME NEW L, IsComponentMap(L), NEW p \in DOMAIN L, L[p].children # <<>>
  PROVE  Head(L[p].children) \in ChildIds(L, p)
<1>1. PICK s \in Seq(ComponentIds) : s = L[p].children
  BY ChildrenAreComponents
<1>2. s # <<>> /\ Head(s) = s[1] /\ 1 \in 1..Len(s) /\ DOMAIN s = 1..Len(s)
  BY <1>1
<1> QED BY <1>1, <1>2 DEF ChildIds, ToSet

\* Tabs that are dropped on the root of a page without top-level tabs.
LEMMA TabsRiseSoundly ==
  ASSUME NEW L, Sound(L), HasFreshIds(L), ~HasTopLevelTabs(L),
         NEW drag, IsDrag(L, drag), drag.new \in BOOLEAN, drag.type = "TABS",
         ~drag.new => L[drag.id].children # <<>>,
         NEW M, M = CREATE_TOP_LEVEL_TABS(L, drag)
  PROVE  /\ Sound(M) /\ DOMAIN L \subseteq DOMAIN M /\ L[1].type = "GRID"
         /\ ~drag.new => drag.source.id = 1 /\ M[1].type = "GRID"
<1>1. /\ Whole(L, {0}, {}) /\ rootChildId(L) = 1 /\ ChildIds(L, 0) = {1} /\ 0 \in DOMAIN L
      /\ Topmost(L) = {0} /\ TopTabs(L) = {} /\ DOMAIN L # ComponentIds
      /\ IsComponentMap(L) /\ 1 \in DOMAIN L
  <2>1. Topmost(L) = {0} /\ TopTabs(L) = {} /\ rootChildId(L) = 1
    BY DEF Topmost, TopTabs, HasTopLevelTabs, DASHBOARD_ROOT_ID, DASHBOARD_GRID_ID
  <2>2. 0 \in DOMAIN L /\ 1 \in DOMAIN L /\ IsComponentMap(L)
    BY SoundIsPlaced
  <2>3. Whole(L, {0}, {}) /\ ChildIds(L, 0) = {1}
    BY <2>1, RootIs
  <2> QED BY <2>1, <2>2, <2>3 DEF Sound
<1>2. CASE drag.new
  <2>1. PICK i, j : i = FreshIds(L)[1] /\ j = FreshIds(L)[2]
    OBVIOUS
  <2>2. PICK N : N = With(With(L, j, Component("TAB", <<>>)), i, Component("TABS", <<j>>))
    OBVIOUS
  <2>3. HasNew(L, i, j, "TABS", N)
    <3>1. "TABS" \in ComponentTypes
      BY DEF ComponentTypes
    <3>2. N = IF "TABS" = "TABS"
              THEN With(With(L, FreshIds(L)[2], Component("TAB", <<>>)),
                        FreshIds(L)[1], Component("TABS", <<FreshIds(L)[2]>>))
              ELSE With(L, FreshIds(L)[1], Component("TABS", <<>>))
      BY <2>1, <2>2
    <3>3. HasNew(L, FreshIds(L)[1], FreshIds(L)[2], "TABS", N)
      BY <3>1, <3>2, MadeIs
    <3> QED BY <3>3, <2>1
  <2>4. PICK T : T = {0, i}
    OBVIOUS
  <2>5. /\ Whole(N, T, {}) /\ DOMAIN N = DOMAIN L \cup {i, j} /\ \A x \in DOMAIN L : N[x] = L[x]
        /\ N[i].type = "TABS" /\ ChildIds(N, i) = {j}
    <3>1. Topmost(L) \cup {i} = T
      BY <2>4, <1>1
    <3> QED BY <2>3, <3>1, <1>1 DEF HasNew, IsMade
  <2>6. ChildIds(N, 0) = {1}
    BY <2>5, <1>1 DEF ChildIds
  <2>7. DOMAIN N # ComponentIds
    BY <2>5, OneStaysFree
  <2>8. OffTop(N, T, i, j)
    BY <2>4, <2>5, <2>6, <2>7 DEF OffTop
  <2>9. PutOnTop(N, i, j, M)
    <3>1. M = [N EXCEPT ![0].children = <<i>>,
                        ![j].children = @ \o RemoveFirst(L[1].children, i),
                        ![1].children = <<>>]
      BY <2>1, <2>2, <1>1, <1>2 DEF CREATE_TOP_LEVEL_TABS, DASHBOARD_ROOT_ID
    <3>2. L[1] = N[1]
      BY <2>5, <1>1
    <3> QED BY <3>1, <3>2 DEF PutOnTop
  <2>10. Sound(M) /\ DOMAIN M = DOMAIN N
    BY <2>8, <2>9, TabsOnTop
  <2> QED BY <2>5, <2>10, <1>1, <1>2 DEF Whole
<1>3. CASE ~drag.new
  <2>1. PICK tabs, tab, p : tabs = drag.id /\ tab = Head(L[drag.id].children) /\ p = drag.source.id
    OBVIOUS
  <2>2. /\ p \in DOMAIN L /\ p # 0 /\ tabs \in ChildIds(L, p) /\ tabs \in DOMAIN L
        /\ L[tabs].type = "TABS"
    BY <2>1, <1>3 DEF IsDrag
  <2>3. p = 1
    BY <2>2, TabsInGrid
  <2>4. tab \in ChildIds(L, tabs)
    BY <2>1, <2>2, <1>1, <1>3, FirstIsHeld
  <2>5. PICK T : T = {0}
    OBVIOUS
  <2>6. OffTop(L, T, tabs, tab)
    BY <2>2, <2>3, <2>4, <2>5, <1>1 DEF OffTop
  <2>7. PutOnTop(L, tabs, tab, M)
    BY <2>1, <1>1, <1>3, Zenon DEF CREATE_TOP_LEVEL_TABS, PutOnTop, DASHBOARD_ROOT_ID
  <2>8. Sound(M) /\ DOMAIN M = DOMAIN L
    BY <2>6, <2>7, TabsOnTop
  <2>9. M[1].type = "GRID" /\ L[1].type = "GRID"
    BY <2>8, <1>1, RootIs DEF Whole
  <2> QED BY <2>1, <2>3, <2>8, <2>9
<1> QED BY <1>2, <1>3

\* The content of the top-level tabs, as one list.
IsContent(L, u) ==
  /\ u \in Seq(ComponentIds) /\ IsInjective(u)
  /\ \A c : c \in ToSet(u) <=> \E x \in ChildIds(L, rootChildId(L)) : c \in ChildIds(L, x)

LEMMA ContentIs ==
  ASSUME NEW L, Sound(L)
  PROVE  IsContent(L, ContentOfTabs(L))
<1>1. PICK rc : rc = rootChildId(L)
  OBVIOUS
<1>2. IsComponentMap(L) /\ rc \in DOMAIN L /\ IsForest(L, Topmost(L))
  BY <1>1, RootIs DEF Whole
<1>3. PICK s \in Seq(ComponentIds) : s = L[rc].children
  BY <1>2, ChildrenAreComponents
<1>4. /\ IsInjective(s) /\ ToSet(s) = ChildIds(L, rc) /\ DOMAIN s = 1..Len(s) /\ Len(s) \in Nat
      /\ ChildIds(L, rc) \subseteq DOMAIN L
  BY <1>2, <1>3, ChildrenAreComponents DEF ChildIds
<1>5. \A k \in DOMAIN s : s[k] \in DOMAIN L /\ s[k] \in ChildIds(L, rc)
  BY <1>4 DEF ToSet
<1>6. PICK ss : ss = [k \in DOMAIN s |-> L[s[k]].children]
  OBVIOUS
<1>7. /\ DOMAIN ss = DOMAIN s
      /\ \A k \in DOMAIN s : /\ ss[k] \in Seq(ComponentIds) /\ IsInjective(ss[k])
                             /\ ToSet(ss[k]) = ChildIds(L, s[k])
  <2>1. DOMAIN ss = DOMAIN s /\ \A k \in DOMAIN s : ss[k] = L[s[k]].children
    BY <1>6
  <2>2. ASSUME NEW k \in DOMAIN s
        PROVE  /\ ss[k] \in Seq(ComponentIds) /\ IsInjective(ss[k])
               /\ ToSet(ss[k]) = ChildIds(L, s[k])
    <3>1. s[k] \in DOMAIN L /\ ss[k] = L[s[k]].children
      BY <1>5, <2>1
    <3> QED BY <3>1, <1>2, ChildrenAreComponents DEF ChildIds
  <2> QED BY <2>1, <2>2
<1>8. ss \in Seq(Seq(ComponentIds))
  <2>1. ss \in [1..Len(s) -> Seq(ComponentIds)]
    BY <1>4, <1>6, <1>7
  <2> QED BY <2>1, <1>4
<1>9. ASSUME NEW k \in DOMAIN ss, NEW n \in DOMAIN ss, ToSet(ss[k]) \cap ToSet(ss[n]) # {}
      PROVE  k = n
  <2>1. ChildIds(L, s[k]) \cap ChildIds(L, s[n]) # {}
    BY <1>7, <1>9
  <2>2. s[k] = s[n]
    BY <2>1, <1>2, <1>5, <1>7 DEF IsForest
  <2> QED BY <2>2, <1>4, <1>7 DEF IsInjective
<1>10. ContentOfTabs(L) = FlattenSeq(ss)
  BY <1>1, <1>3, <1>6 DEF ContentOfTabs
<1>11. PICK u : u = FlattenSeq(ss)
  OBVIOUS
<1>12. /\ u \in Seq(ComponentIds) /\ IsInjective(u)
       /\ ToSet(u) = UNION {ToSet(ss[k]) : k \in DOMAIN ss}
  BY <1>7, <1>8, <1>9, <1>11, FlattenedIs
<1>13. ASSUME NEW c PROVE c \in ToSet(u) <=> \E x \in ChildIds(L, rc) : c \in ChildIds(L, x)
  <2>1. c \in ToSet(u) <=> \E k \in DOMAIN s : c \in ChildIds(L, s[k])
    BY <1>7, <1>12
  <2>2. \A x : x \in ChildIds(L, rc) <=> \E k \in DOMAIN s : x = s[k]
    BY <1>4 DEF ToSet
  <2> QED BY <2>1, <2>2
<1> QED BY <1>1, <1>10, <1>11, <1>12, <1>13 DEF IsContent

\* M is L without the top-level tabs X, whose content is in the grid.
IsCollapsed(L, X, u, M) ==
  /\ DOMAIN M = DOMAIN L \ X /\ M \in [DOMAIN M -> Components]
  /\ \A x \in DOMAIN M : M[x].type = L[x].type
  /\ M[0].children = <<1>> /\ ChildIds(M, 0) = {1}
  /\ M[1].children = u /\ ChildIds(M, 1) = ToSet(u)
  /\ \A x \in DOMAIN M \ {0, 1} : M[x] = L[x] /\ ChildIds(M, x) = ChildIds(L, x)

LEMMA CollapsedIs ==
  ASSUME NEW L, IsComponentMap(L), NEW u \in Seq(ComponentIds), NEW X, 0 \notin X, 1 \notin X,
         NEW M, M = Without([L EXCEPT ![0].children = << 1 >>, ![1].children = u], X)
  PROVE  IsCollapsed(L, X, u, M)
<1>1. 0 \in DOMAIN L /\ 1 \in DOMAIN L /\ DOMAIN L \subseteq ComponentIds
  BY DEF IsComponentMap, DASHBOARD_ROOT_ID, DASHBOARD_GRID_ID
<1>2. PICK e : e = <<1>>
  OBVIOUS
<1>3. e \in Seq(ComponentIds) /\ IsInjective(e) /\ ToSet(e) = {1}
  <2>1. 1 \in ComponentIds
    BY <1>1
  <2> QED BY <2>1, <1>2, OneIs
<1>4. PICK N1 : N1 = [L EXCEPT ![0].children = e]
  OBVIOUS
<1>5. Sets(L, 0, e, N1) /\ IsComponentMap(N1)
  BY <1>1, <1>3, <1>4, ChildrenSet
<1>6. PICK N2 : N2 = [N1 EXCEPT ![1].children = u]
  OBVIOUS
<1>7. Sets(N1, 1, u, N2)
  <2>1. 1 \in DOMAIN N1
    BY <1>1, <1>5 DEF Sets
  <2> QED BY <2>1, <1>5, <1>6, ChildrenSet
<1>8. M = Without(N2, X)
  <2>1. [L EXCEPT ![0].children = <<1>>, ![1].children = u]
          = [[L EXCEPT ![0].children = <<1>>] EXCEPT ![1].children = u]
    OBVIOUS
  <2> QED BY <2>1, <1>2, <1>4, <1>6
<1>9. Lacks(N2, X, M)
  <2>1. N2 \in [DOMAIN N2 -> Components]
    BY <1>7 DEF Sets
  <2> QED BY <2>1, <1>8, ComponentsGone
<1>10. DOMAIN N1 = DOMAIN L /\ DOMAIN N2 = DOMAIN L /\ DOMAIN M = DOMAIN L \ X
  BY <1>5, <1>7, <1>9 DEF Sets, Lacks
<1>11. \A x \in DOMAIN M : M[x] = N2[x] /\ ChildIds(M, x) = ChildIds(N2, x)
  BY <1>9 DEF Lacks
<1>12. \A x \in DOMAIN L : N2[x].type = L[x].type
  BY <1>5, <1>7, <1>10 DEF Sets
<1>13. N2[0].children = e /\ ChildIds(N2, 0) = {1} /\ N2[1].children = u /\ ChildIds(N2, 1) = ToSet(u)
  BY <1>1, <1>3, <1>5, <1>7, <1>10 DEF Sets
<1>14. \A x \in DOMAIN L \ {0, 1} : N2[x] = L[x] /\ ChildIds(N2, x) = ChildIds(L, x)
  BY <1>5, <1>7, <1>10 DEF Sets
<1>15. M \in [DOMAIN M -> Components]
  BY <1>9 DEF Lacks
<1>16. 0 \in DOMAIN M /\ 1 \in DOMAIN M
  BY <1>1, <1>10
<1>17. M[0].children = <<1>> /\ ChildIds(M, 0) = {1}
  BY <1>2, <1>11, <1>13, <1>16
<1>18. M[1].children = u /\ ChildIds(M, 1) = ToSet(u)
  BY <1>11, <1>13, <1>16
<1>19. \A x \in DOMAIN M : M[x].type = L[x].type
  BY <1>10, <1>11, <1>12
<1>20. \A x \in DOMAIN M \ {0, 1} : M[x] = L[x] /\ ChildIds(M, x) = ChildIds(L, x)
  BY <1>10, <1>11, <1>14
<1> QED BY <1>10, <1>15, <1>17, <1>18, <1>19, <1>20 DEF IsCollapsed

\* What the collapse of the top-level tabs X removes.
IsTopTabs(L, X) ==
  /\ rootChildId(L) \in X /\ \A x \in X : x = rootChildId(L) \/ x \in ChildIds(L, rootChildId(L))
  /\ ChildIds(L, rootChildId(L)) \subseteq X
  /\ X \subseteq DOMAIN L /\ 0 \notin X /\ 1 \notin X
  /\ \A x \in X : L[x].type \in {"TABS", "TAB"}
  /\ \A x \in DOMAIN L \ X : x # 0 => ChildIds(L, x) \cap X = {}
  /\ \A x \in ChildIds(L, rootChildId(L)) : ChildIds(L, x) \cap X = {}

LEMMA TopTabsAre ==
  ASSUME NEW L, Sound(L), HasTopLevelTabs(L),
         NEW X, X = {rootChildId(L)} \cup ChildIds(L, rootChildId(L))
  PROVE  IsTopTabs(L, X)
<1>1. PICK rc, A : rc = rootChildId(L) /\ A = ChildIds(L, rc)
  OBVIOUS
<1>2. /\ IsComponentMap(L) /\ rc \in DOMAIN L /\ IsForest(L, Topmost(L)) /\ ChildIds(L, 0) = {rc}
      /\ L[rc].type = "TABS" /\ L[0].type = "ROOT" /\ L[1].type = "GRID" /\ 0 \in DOMAIN L
  BY <1>1, RootIs, SoundIsPlaced DEF Whole
<1>3. \A x \in DOMAIN L : \A c \in ChildIds(L, x) : c \in DOMAIN L /\ FitsIn(L, TopTabs(L), x, c)
  BY <1>2, RootIs, ChildrenAreComponents DEF Whole
<1>4. A \subseteq DOMAIN L
  BY <1>1, <1>2, <1>3
<1>5. \A a \in A : L[a].type = "TAB"
  BY <1>1, <1>2, <1>3, FitsIs, TabsHoldTabs DEF FitsIn
<1>6. \A x, y \in DOMAIN L : ChildIds(L, x) \cap ChildIds(L, y) # {} => x = y
  BY <1>2 DEF IsForest
<1>7. ASSUME NEW x \in DOMAIN L, NEW c \in ChildIds(L, x) \cap X PROVE x = 0 \/ x = rc
  <2>1. CASE c = rc
    BY <2>1, <1>2, <1>6, <1>7
  <2>2. CASE c \in A
    BY <2>2, <1>1, <1>2, <1>6, <1>7
  <2> QED BY <2>1, <2>2, <1>1, <1>7
<1>8. \A a \in A : a # 0 /\ a # rc
  BY <1>2, <1>5
<1>9. \A x \in A : ChildIds(L, x) \cap X = {}
  BY <1>4, <1>7, <1>8
<1>10. \A x \in DOMAIN L \ X : x # 0 => ChildIds(L, x) \cap X = {}
  BY <1>1, <1>7
<1>11. X \subseteq DOMAIN L /\ 0 \notin X /\ 1 \notin X /\ \A x \in X : L[x].type \in {"TABS", "TAB"}
  BY <1>1, <1>2, <1>4, <1>5
<1> QED BY <1>1, <1>9, <1>10, <1>11 DEF IsTopTabs

LEMMA TopTabsAreTabs ==
  ASSUME NEW L, Sound(L), HasTopLevelTabs(L), NEW a \in ChildIds(L, rootChildId(L))
  PROVE  L[a].type = "TAB"
<1>1. L[rootChildId(L)].type = "TABS" /\ FitsIn(L, TopTabs(L), rootChildId(L), a)
  BY RootIs DEF Whole
<1> QED BY <1>1, FitsIs, TabsHoldTabs DEF FitsIn

LEMMA CollapsesSoundly ==
  ASSUME NEW L, Sound(L), HasTopLevelTabs(L), NEW M, M = DELETE_TOP_LEVEL_TABS(L)
  PROVE  /\ Sound(M) /\ DOMAIN M \subseteq DOMAIN L
         /\ \A x \in DOMAIN L : x \in DOMAIN M \/ L[x].type \in {"TABS", "TAB"}
<1>1. PICK rc, X : rc = rootChildId(L) /\ X = {rc} \cup ChildIds(L, rc)
  OBVIOUS
<1>2. PICK A : A = ChildIds(L, rc)
  OBVIOUS
<1>3. IsTopTabs(L, X)
  BY <1>1, TopTabsAre
<1>4. PICK u : u = ContentOfTabs(L)
  OBVIOUS
<1>5. IsContent(L, u)
  BY <1>4, ContentIs
<1>6. /\ u \in Seq(ComponentIds) /\ IsInjective(u)
      /\ \A c : c \in ToSet(u) <=> \E x \in A : c \in ChildIds(L, x)
  BY <1>1, <1>2, <1>5 DEF IsContent
<1>7. /\ IsComponentMap(L) /\ 0 \in DOMAIN L /\ 1 \in DOMAIN L /\ rc \in DOMAIN L
      /\ IsForest(L, Topmost(L)) /\ Topmost(L) = {0, 1} /\ ChildIds(L, 0) = {rc}
      /\ L[0].type = "ROOT" /\ L[1].type = "GRID" /\ DOMAIN L \subseteq ComponentIds
  <2>1. Topmost(L) = {0, 1}
    BY DEF Topmost, DASHBOARD_ROOT_ID, DASHBOARD_GRID_ID
  <2>2. IsComponentMap(L)
    BY SoundIsPlaced
  <2> QED BY <2>1, <2>2, <1>1, RootIs, SoundIsPlaced DEF Whole, IsComponentMap
<1>8. IsCollapsed(L, X, u, M)
  <2>1. 0 \notin X /\ 1 \notin X
    BY <1>3 DEF IsTopTabs
  <2>2. M = Without([L EXCEPT ![0].children = <<1>>, ![1].children = u], X)
    BY <1>1, <1>4 DEF DELETE_TOP_LEVEL_TABS, DASHBOARD_ROOT_ID, DASHBOARD_GRID_ID
  <2> QED BY <2>1, <2>2, <1>6, <1>7, CollapsedIs
<1>9. /\ DOMAIN M = DOMAIN L \ X /\ M \in [DOMAIN M -> Components]
      /\ \A x \in DOMAIN M : M[x].type = L[x].type
      /\ M[0].children = <<1>> /\ ChildIds(M, 0) = {1}
      /\ M[1].children = u /\ ChildIds(M, 1) = ToSet(u)
      /\ \A x \in DOMAIN M \ {0, 1} : M[x] = L[x] /\ ChildIds(M, x) = ChildIds(L, x)
  BY <1>8 DEF IsCollapsed
<1>10. /\ rc \in X /\ A \subseteq X /\ X \subseteq DOMAIN L /\ 0 \notin X /\ 1 \notin X
       /\ \A x \in X : x = rc \/ x \in A
       /\ \A x \in X : L[x].type \in {"TABS", "TAB"}
       /\ \A x \in DOMAIN L \ X : x # 0 => ChildIds(L, x) \cap X = {}
       /\ \A x \in A : ChildIds(L, x) \cap X = {}
  BY <1>1, <1>2, <1>3 DEF IsTopTabs
<1>11. 0 \in DOMAIN M /\ 1 \in DOMAIN M
  BY <1>7, <1>9, <1>10
<1>12. \A x \in DOMAIN L : 0 \notin ChildIds(L, x) /\ 1 \notin ChildIds(L, x)
  BY <1>7 DEF IsForest, Parents
<1>13. ASSUME NEW x \in DOMAIN M, x # 0, NEW c \in ChildIds(M, x)
       PROVE  /\ c \in DOMAIN M /\ c # 0 /\ c # 1
              /\ IF x = 1 THEN \E a \in A : c \in ChildIds(L, a) ELSE c \in ChildIds(L, x)
  <2>1. CASE x = 1
    <3>1. PICK a \in A : c \in ChildIds(L, a)
      BY <2>1, <1>6, <1>9, <1>13
    <3>2. a \in DOMAIN L /\ c \notin X
      BY <3>1, <1>10
    <3>3. c \in DOMAIN L /\ c # 0 /\ c # 1
      BY <3>1, <3>2, <1>7, <1>12, ChildrenAreComponents
    <3> QED BY <2>1, <3>1, <3>2, <3>3, <1>9
  <2>2. CASE x # 1
    <3>1. c \in ChildIds(L, x) /\ x \in DOMAIN L \ X
      BY <2>2, <1>9, <1>13
    <3>2. c \in DOMAIN L /\ c # 0 /\ c # 1 /\ c \notin X
      BY <3>1, <1>7, <1>10, <1>12, <1>13, ChildrenAreComponents
    <3> QED BY <2>2, <3>1, <3>2, <1>9
  <2> QED BY <2>1, <2>2
<1>14. IsComponentMap(M)
  <2>1. ASSUME NEW x \in DOMAIN M
        PROVE  ChildIds(M, x) \subseteq DOMAIN M /\ IsInjective(M[x].children)
    <3>1. CASE x = 0
      <4>1. IsInjective(<<1>>)
        <5>1. 1 \in ComponentIds
          BY <1>7
        <5> QED BY <5>1, OneIs
      <4> QED BY <4>1, <3>1, <1>9, <1>11
    <3>2. CASE x = 1
      BY <3>2, <1>6, <1>9, <1>13
    <3>3. CASE x # 0 /\ x # 1
      <4>1. M[x] = L[x] /\ x \in DOMAIN L
        BY <3>3, <1>9
      <4>2. IsInjective(M[x].children)
        BY <4>1, <1>7, ChildrenAreComponents
      <4> QED BY <4>2, <3>3, <1>13
    <3> QED BY <3>1, <3>2, <3>3
  <2>2. DOMAIN M \subseteq ComponentIds
    BY <1>7, <1>9
  <2> QED BY <2>1, <2>2, <1>9, <1>11, ComponentMapWhen
<1>15. /\ rootChildId(M) = 1 /\ ~HasTopLevelTabs(M) /\ Topmost(M) = {0}
       /\ Len(M[0].children) = 1
  <2>1. Head(<<1>>) = 1 /\ Len(<<1>>) = 1
    OBVIOUS
  <2>2. rootChildId(M) = 1
    BY <2>1, <1>9 DEF rootChildId, DASHBOARD_ROOT_ID
  <2> QED BY <2>1, <2>2, <1>9 DEF HasTopLevelTabs, Topmost, DASHBOARD_GRID_ID, DASHBOARD_ROOT_ID
<1>16. TopIsRoot(M)
  <2>1. M[0].type = "ROOT" /\ M[1].type = "GRID"
    BY <1>7, <1>9, <1>11
  <2> QED BY <2>1, <1>15 DEF TopIsRoot, DASHBOARD_ROOT_ID, DASHBOARD_GRID_ID
<1>17. PICK U : U = {0}
  OBVIOUS
<1>18. ASSUME NEW x \in DOMAIN M, NEW y \in DOMAIN M, ChildIds(M, x) \cap ChildIds(M, y) # {}
       PROVE  x = y
  <2>1. PICK c : c \in ChildIds(M, x) /\ c \in ChildIds(M, y)
    BY <1>18
  <2>2. CASE c = 1
    <3>1. x = 0 /\ y = 0
      BY <2>1, <2>2, <1>13
    <3> QED BY <3>1
  <2>3. CASE c # 1
    <3>1. x # 0 /\ y # 0
      BY <2>1, <2>3, <1>9
    <3>2. /\ IF x = 1 THEN \E a \in A : c \in ChildIds(L, a) ELSE c \in ChildIds(L, x)
          /\ IF y = 1 THEN \E a \in A : c \in ChildIds(L, a) ELSE c \in ChildIds(L, y)
      BY <2>1, <3>1, <1>13
    <3>3. \A p, q \in DOMAIN L : (c \in ChildIds(L, p) /\ c \in ChildIds(L, q)) => p = q
      BY <1>7 DEF IsForest
    <3>4. x \in DOMAIN L /\ y \in DOMAIN L /\ x \notin A /\ y \notin A /\ A \subseteq DOMAIN L
      BY <1>9, <1>10
    <3> QED BY <3>2, <3>3, <3>4
  <2> QED BY <2>2, <2>3
<1>19. ASSUME NEW i \in U, NEW x \in DOMAIN M PROVE i \notin ChildIds(M, x)
  <2>1. i = 0
    BY <1>17, <1>19
  <2>2. 0 \notin ChildIds(M, 0)
    BY <1>9
  <2> QED BY <2>1, <2>2, <1>13
<1>20. ASSUME NEW S \in SUBSET (DOMAIN M \ U), S # {}
       PROVE  \E j \in S, x \in DOMAIN M : x \notin S /\ j \in ChildIds(M, x)
  <2>1. S \subseteq DOMAIN M /\ 0 \notin S
    BY <1>17
  <2>2. CASE 1 \in S
    BY <2>1, <2>2, <1>9, <1>11
  <2>3. CASE 1 \notin S
    <3>1. S \subseteq DOMAIN L /\ S \cap Topmost(L) = {} /\ S \cap X = {}
      BY <2>1, <2>3, <1>7, <1>9
    <3>2. PICK j \in S, p \in DOMAIN L : p \notin S /\ j \in ChildIds(L, p)
      BY <3>1, <1>7, <1>20, HangsFromIs
    <3>3. p # 0 /\ p # rc
      BY <3>1, <3>2, <1>2, <1>7, <1>10
    <3>4. CASE p \in A
      <4>1. j \in ChildIds(M, 1)
        BY <3>2, <3>4, <1>6, <1>9
      <4> QED BY <4>1, <2>3, <1>11
    <3>5. CASE p = 1
      <4>1. ChildIds(L, 1) = {}
        <5>1. L[1].children = <<>> /\ DOMAIN <<>> = {}
          BY DEF Sound, MayBeSaved, TopIsRoot, DASHBOARD_GRID_ID
        <5> QED BY <5>1 DEF ChildIds, ToSet
      <4> QED BY <4>1, <3>2, <3>5
    <3>6. CASE p \notin A /\ p # 1
      <4>1. p \in DOMAIN M \ {0, 1}
        BY <3>2, <3>3, <3>6, <1>9, <1>10
      <4> QED BY <4>1, <3>2, <1>9
    <3> QED BY <3>4, <3>5, <3>6
  <2> QED BY <2>2, <2>3
<1>21. IsForest(M, {0})
  <2>1. IsForest(M, U)
    BY <1>18, <1>19, <1>20, IsForestWhen
  <2> QED BY <2>1, <1>17
<1>22. \A x \in DOMAIN L : \A c \in ChildIds(L, x) : FitsIn(L, TopTabs(L), x, c)
  BY RootIs DEF Whole
<1>23. ChildrenFit(M)
  <2>1. ASSUME NEW x \in DOMAIN M, NEW c \in ChildIds(M, x)
        PROVE  /\ Fits(M[x].type, M[c].type)
               /\ ~(M[x].type = "TAB" /\ M[c].type = "TABS")
    <3>1. CASE x = 0
      <4>1. c = 1 /\ M[x].type = "ROOT" /\ M[c].type = "GRID"
        BY <2>1, <3>1, <1>7, <1>9, <1>11
      <4>2. Fits("ROOT", "GRID")
        BY TakesThese DEF Fits, Takes, shouldWrapChildInRow
      <4> QED BY <4>1, <4>2
    <3>2. CASE x = 1
      <4>1. c \in DOMAIN M /\ \E a \in A : c \in ChildIds(L, a)
        BY <2>1, <3>2, <1>13
      <4>2. PICK a \in A : c \in ChildIds(L, a)
        BY <4>1
      <4>3. L[a].type \in {"TAB", "TABS"} /\ a \in DOMAIN L
        BY <1>10
      <4>4. Fits(L[a].type, L[c].type)
        BY <4>2, <4>3, <1>22 DEF FitsIn
      <4>5. Fits("TAB", L[c].type)
        <5>1. L[a].type = "TAB"
          BY <1>1, <1>2, <4>2, TopTabsAreTabs
        <5> QED BY <5>1, <4>4
      <4>6. Fits("GRID", L[c].type)
        BY <4>5, FitsIs
      <4>7. M[x].type = "GRID" /\ M[c].type = L[c].type
        BY <3>2, <4>1, <1>7, <1>9
      <4> QED BY <4>6, <4>7
    <3>3. CASE x # 0 /\ x # 1
      <4>1. c \in ChildIds(L, x) /\ c \in DOMAIN M
        BY <2>1, <3>3, <1>13
      <4>2. FitsIn(L, TopTabs(L), x, c) /\ x \notin TopTabs(L)
        BY <4>1, <1>1, <1>2, <1>9, <1>10, <1>22 DEF TopTabs
      <4> QED BY <4>1, <4>2, <1>9 DEF FitsIn
    <3> QED BY <3>1, <3>2, <3>3
  <2> QED BY <2>1 DEF ChildrenFit
<1>24. DOMAIN M # ComponentIds
  BY <1>7, <1>9, <1>10
<1> QED BY <1>9, <1>10, <1>14, <1>15, <1>16, <1>21, <1>23, <1>24 DEF Sound, MayBeSaved

-------------------------------------------------------------------------------
(* Every drop *)

LEMMA OneRoot ==
  ASSUME NEW L, Sound(L), NEW x \in DOMAIN L, x # 0
  PROVE  L[x].type # "ROOT"
<1>1. SUFFICES ASSUME L[x].type = "ROOT" PROVE FALSE
  OBVIOUS
<1>2. L[1].type = "GRID" /\ \A i \in DOMAIN L : \A c \in ChildIds(L, i) : FitsIn(L, TopTabs(L), i, c)
  BY RootIs DEF Whole
<1>3. x \notin Topmost(L)
  BY <1>1, <1>2 DEF Topmost, DASHBOARD_ROOT_ID, DASHBOARD_GRID_ID
<1>4. PICK q \in DOMAIN L : x \in ChildIds(L, q)
  BY <1>3, ParentIs
<1>5. Takes(L[q].type, "ROOT")
  BY <1>1, <1>2, <1>4, FitsIs DEF FitsIn
<1> QED BY <1>5, TakesAre DEF Takes

\* The tabs that may hold tabs are those that Refusable spares.
LEMMA TopTabIs ==
  ASSUME NEW L, Sound(L), NEW q \in ChildIds(L, rootChildId(L)), L[q].type = "TAB"
  PROVE  q \in TopTabs(L)
<1>1. FitsIn(L, TopTabs(L), rootChildId(L), q)
  BY RootIs DEF Whole
<1>2. L[rootChildId(L)].type # "GRID"
  BY <1>1, FitsIs DEF FitsIn
<1>3. HasTopLevelTabs(L)
  BY <1>2, RootIs
<1> QED BY <1>3 DEF TopTabs

KeepsCharts(L, M) == \A x \in DOMAIN L : L[x].type = "CHART" => x \in DOMAIN M

LEMMA MovesOrStays ==
  ASSUME NEW L, Sound(L), NEW d, NEW destination, IsDrop(L, d, destination),
         ~d.drag.new, destination.id # 0, ~Refusable(L, d.drag, destination),
         NEW M, M = handleComponentDrop(L, d.drag, destination)
  PROVE  \/ M = L
         \/ /\ IsMove(L, d.drag, destination)
            /\ M = RemoveEmptySource(MOVE_COMPONENT(L, d.drag, destination), d.drag)
<1>1. CASE \/ destination = d.drag.source
           \/ /\ d.drag.source.id = rootChildId(L) /\ HasTopLevelTabs(L)
              /\ L[destination.id].type = "TABS" /\ destination.id # rootChildId(L)
  <2>1. M = L
    BY <1>1 DEF handleComponentDrop, DASHBOARD_ROOT_ID
  <2> QED BY <2>1
<1>2. CASE ~(\/ destination = d.drag.source
             \/ /\ d.drag.source.id = rootChildId(L) /\ HasTopLevelTabs(L)
                /\ L[destination.id].type = "TABS" /\ destination.id # rootChildId(L))
  <2>1. M = RemoveEmptySource(MOVE_COMPONENT(L, d.drag, destination), d.drag)
    BY <1>2 DEF handleComponentDrop, DASHBOARD_ROOT_ID
  <2>2. IsMove(L, d.drag, destination)
    BY <1>2 DEF IsDrop, IsMove
  <2> QED BY <2>1, <2>2
<1> QED BY <1>1, <1>2

LEMMA MovesKeepCharts ==
  ASSUME NEW L, Sound(L), HasFreshIds(L), NEW drag, NEW destination,
         IsMove(L, drag, destination),
         NEW M, M = RemoveEmptySource(MOVE_COMPONENT(L, drag, destination), drag)
  PROVE  Sound(M) /\ KeepsCharts(L, M)
<1>1. PICK N : N = MOVE_COMPONENT(L, drag, destination)
  OBVIOUS
<1>2. DOMAIN L \subseteq DOMAIN N /\ \A x \in DOMAIN L : N[x].type = L[x].type
  BY <1>1, MovesSoundly
<1>3. Sound(M) /\ (M = N \/ SourceGone(N, drag.source.id, M))
  BY <1>1, DropsSoundly
<1>4. CASE M = N
  BY <1>2, <1>3, <1>4 DEF KeepsCharts
<1>5. CASE SourceGone(N, drag.source.id, M)
  <2>1. PICK p : p = drag.source.id
    OBVIOUS
  <2>2. N[p].type # "CHART" /\ DOMAIN M = DOMAIN N \ {p}
    BY <1>5, <2>1 DEF SourceGone, IsDeleted
  <2>3. \A x \in DOMAIN L : L[x].type = "CHART" => x \in DOMAIN M
    BY <1>2, <2>2
  <2> QED BY <1>3, <2>3 DEF KeepsCharts
<1> QED BY <1>3, <1>4, <1>5

LEMMA DropsInRoot ==
  ASSUME NEW L, Sound(L), HasFreshIds(L), NEW d, NEW destination, IsDrop(L, d, destination),
         destination.id = 0, ~Refusable(L, d.drag, destination), NewTypes \subseteq ComponentTypes \ {"GRID"},
         NEW M, M = handleComponentDrop(L, d.drag, destination)
  PROVE  Sound(M) /\ DOMAIN L \subseteq DOMAIN M
<1>1. PICK drag : drag = d.drag
  OBVIOUS
<1>2. IsDrag(L, drag) /\ drag.new \in BOOLEAN /\ Takes(L[0].type, drag.type)
  BY <1>1 DEF IsDrop
<1>3. ~HasTopLevelTabs(L)
  BY DEF Refusable, DASHBOARD_ROOT_ID
<1>4. drag.type \in {"TABS", "GRID"}
  BY <1>2, RootIs, TabsHoldTabs DEF Whole
<1>5. drag.type # "GRID"
  <2>1. CASE drag.new
    BY <2>1, <1>2 DEF IsDrag
  <2>2. CASE ~drag.new
    <3>1. PICK p, c : p = drag.source.id /\ c = drag.id
      OBVIOUS
    <3>2. p \in DOMAIN L /\ p # 0 /\ c \in ChildIds(L, p) /\ drag.type = L[c].type
      BY <2>2, <3>1, <1>2 DEF IsDrag
    <3>3. L[p].type # "ROOT"
      BY <3>2, OneRoot
    <3>4. Takes(L[p].type, L[c].type)
      BY <3>2, RootIs, FitsIs DEF Whole, FitsIn
    <3> QED BY <3>2, <3>3, <3>4, TabsHoldTabs
  <2> QED BY <2>1, <2>2, <1>2
<1>6. drag.type = "TABS"
  BY <1>4, <1>5
<1>7. CASE drag.new \/ L[drag.id].children # <<>>
  <2>1. PICK N : N = CREATE_TOP_LEVEL_TABS(L, drag)
    OBVIOUS
  <2>2. /\ Sound(N) /\ DOMAIN L \subseteq DOMAIN N
        /\ ~drag.new => drag.source.id = 1 /\ N[1].type = "GRID"
    BY <2>1, <1>2, <1>3, <1>6, <1>7, TabsRiseSoundly
  <2>3. M = IF drag.new THEN N ELSE RemoveEmptySource(N, drag)
    BY <2>1, <1>1, <1>7 DEF handleComponentDrop, DASHBOARD_ROOT_ID
  <2>4. M = N
    BY <2>2, <2>3 DEF RemoveEmptySource
  <2> QED BY <2>2, <2>4
<1>8. CASE ~drag.new /\ L[drag.id].children = <<>>
  <2>1. M = RemoveEmptySource(L, drag)
    BY <1>1, <1>8 DEF handleComponentDrop, DASHBOARD_ROOT_ID
  <2>2. PICK p, c : p = drag.source.id /\ c = drag.id
    OBVIOUS
  <2>3. p \in DOMAIN L /\ p # 0 /\ c \in ChildIds(L, p) /\ L[c].type = "TABS"
    BY <2>2, <1>2, <1>6, <1>8 DEF IsDrag
  <2>4. p = 1
    BY <2>3, <1>3, TabsInGrid
  <2>5. L[p].type = "GRID"
    BY <2>4, RootIs DEF Whole
  <2>6. M = L
    BY <2>1, <2>2, <2>5 DEF RemoveEmptySource
  <2> QED BY <2>6
<1> QED BY <1>7, <1>8

\* Any drop that Refusable does not name.
LEMMA EveryDropIsSound ==
  ASSUME NEW L, Sound(L), HasFreshIds(L), NEW d \in Drops(L),
         NEW destination, destination = handleDrop(L, d.drag, d.target, d.how, d.after),
         ~Refusable(L, d.drag, destination),
         NEW M, M = handleComponentDrop(L, d.drag, destination)
  PROVE  Sound(M) /\ KeepsCharts(L, M)
<1>1. NewTypes \subseteq ComponentTypes \ {"GRID"}
  BY LayoutAssumption DEF ComponentTypes
<1>2. IsDrop(L, d, destination)
  BY DropIs
<1>3. CASE destination.id = 0
  <2>1. Sound(M) /\ DOMAIN L \subseteq DOMAIN M
    BY <1>1, <1>2, <1>3, DropsInRoot
  <2> QED BY <2>1 DEF KeepsCharts
<1>4. CASE destination.id # 0 /\ d.drag.new
  <2>1. M = CREATE_COMPONENT(L, d.drag.type, destination)
    BY <1>4 DEF handleComponentDrop, DASHBOARD_ROOT_ID
  <2>2. PICK q, n, type : q = destination.id /\ n = destination.index /\ type = d.drag.type
    OBVIOUS
  <2>3. /\ q \in DOMAIN L /\ q \notin Topmost(L) /\ Takes(L[q].type, type)
        /\ n \in Nat /\ n > 0 /\ n <= Len(L[q].children) + 1
    BY <1>2, <1>4, <2>2 DEF IsDrop
  <2>4. type \in ComponentTypes
    <3>1. type \in NewTypes
      BY <1>2, <1>4, <2>2 DEF IsDrop, IsDrag
    <3> QED BY <3>1, <1>1
  <2>5. (L[q].type = "TAB" /\ type = "TABS") => q \in TopTabs(L)
    <3>1. (L[q].type = "TAB" /\ type = "TABS") => q \in ChildIds(L, rootChildId(L))
      BY <2>2 DEF Refusable
    <3> QED BY <3>1, TopTabIs
  <2>6. M = CREATE_COMPONENT(L, type, destination)
    BY <2>1, <2>2
  <2>7. Sound(M) /\ DOMAIN L \subseteq DOMAIN M
    BY <2>2, <2>3, <2>4, <2>5, <2>6, CreatesSoundly
  <2> QED BY <2>7 DEF KeepsCharts
<1>5. CASE destination.id # 0 /\ ~d.drag.new
  <2>1. \/ M = L
        \/ /\ IsMove(L, d.drag, destination)
           /\ M = RemoveEmptySource(MOVE_COMPONENT(L, d.drag, destination), d.drag)
    BY <1>2, <1>5, MovesOrStays
  <2>2. CASE M = L
    BY <2>2 DEF KeepsCharts
  <2>3. CASE /\ IsMove(L, d.drag, destination)
             /\ M = RemoveEmptySource(MOVE_COMPONENT(L, d.drag, destination), d.drag)
    BY <2>3, MovesKeepCharts
  <2> QED BY <2>1, <2>2, <2>3
<1> QED BY <1>3, <1>4, <1>5

-------------------------------------------------------------------------------
(* Where a component lands *)

\* Among s, x at n is next to t.
IsNext(s, t, x, n, after) ==
  /\ n \in DOMAIN s /\ s[n] = x
  /\ \E m \in DOMAIN s : s[m] = t /\ n = IF after THEN m + 1 ELSE m - 1
Adjoins(s, t, x, after) == \E n : IsNext(s, t, x, n, after)

LEMMA PutNext ==
  ASSUME NEW u, Len(u) \in Nat, NEW k \in 1..Len(u), NEW c, NEW E, NEW w \in Seq(E),
         NEW after \in BOOLEAN, NEW n, n = k + (IF after THEN 1 ELSE 0), Lands(u, c, n, w)
  PROVE  IsNext(w, u[k], c, n, after)
<1>1. n \in 1..(Len(u) + 1)
  OBVIOUS
<1>2. IsWith(u, n, c, w)
  BY <1>1 DEF Lands
<1>3. /\ DOMAIN w = 1..(Len(u) + 1) /\ w[n] = c
      /\ \A j \in 1..Len(u) : w[IF j < n THEN j ELSE j + 1] = u[j]
  <2>1. Len(w) = Len(u) + 1
    BY <1>2 DEF IsWith
  <2> QED BY <2>1, <1>2 DEF IsWith
<1>4. CASE after
  <2>1. n = k + 1 /\ k \in DOMAIN w /\ w[k] = u[k]
    BY <1>3, <1>4
  <2> QED BY <2>1, <1>1, <1>3, <1>4 DEF IsNext
<1>5. CASE ~after
  <2>1. n = k /\ k + 1 \in DOMAIN w /\ w[k + 1] = u[k] /\ n = (k + 1) - 1
    BY <1>3, <1>5
  <2> QED BY <2>1, <1>1, <1>3, <1>5 DEF IsNext
<1> QED BY <1>4, <1>5

LEMMA StaysAt ==
  ASSUME NEW s, Len(s) \in Nat, NEW i \in 1..Len(s), NEW k \in 1..Len(s), i # k,
         NEW u, IsWithout(s, i, u), NEW j, j = k - (IF i < k THEN 1 ELSE 0)
  PROVE  Len(u) \in Nat /\ j \in 1..Len(u) /\ u[j] = s[k]
<1>1. /\ Len(u) = Len(s) - 1 /\ Len(s) > 1
      /\ \A x \in 1..(Len(s) - 1) : u[x] = IF x < i THEN s[x] ELSE s[x + 1]
  BY DEF IsWithout
<1>2. CASE i < k
  <2>1. j = k - 1 /\ j \in 1..(Len(s) - 1) /\ ~(j < i) /\ j + 1 = k
    BY <1>2
  <2> QED BY <2>1, <1>1
<1>3. CASE ~(i < k)
  <2>1. j = k /\ j \in 1..(Len(s) - 1) /\ j < i
    BY <1>3
  <2> QED BY <2>1, <1>1
<1> QED BY <1>2, <1>3

LEMMA NextStays ==
  ASSUME NEW E, NEW s \in Seq(E), IsInjective(s), NEW e, NEW t, NEW x, t # e, x # e,
         NEW after \in BOOLEAN, Adjoins(s, t, x, after)
  PROVE  Adjoins(RemoveFirst(s, e), t, x, after)
<1>1. PICK n, m \in DOMAIN s : /\ n \in DOMAIN s /\ s[n] = x /\ s[m] = t
                               /\ n = IF after THEN m + 1 ELSE m - 1
  BY DEF Adjoins, IsNext
<1>2. PICK u : u = RemoveFirst(s, e)
  OBVIOUS
<1>3. CASE e \notin ToSet(s)
  <2>1. ~ \E i \in 1..Len(s) : s[i] = e
    BY <1>3 DEF ToSet
  <2>2. RemoveFirst(s, e) = s
    BY <2>1 DEF RemoveFirst
  <2> QED BY <2>2
<1>4. CASE e \in ToSet(s)
  <2>1. PICK i \in 1..Len(s) : s[i] = e
    BY <1>4 DEF ToSet
  <2>2. u = RemoveAt(s, i)
    BY <2>1, <1>2, FirstIsOnly
  <2>3. u \in Seq(E) /\ IsWithout(s, i, u)
    BY <2>2, RemoveAtIs
  <2>4. Len(s) \in Nat /\ DOMAIN s = 1..Len(s) /\ DOMAIN u = 1..Len(u)
    BY <2>3
  <2>5. i # n /\ i # m /\ n \in 1..Len(s) /\ m \in 1..Len(s)
    BY <2>1, <2>4, <1>1
  <2>6. PICK a, b : a = n - (IF i < n THEN 1 ELSE 0) /\ b = m - (IF i < m THEN 1 ELSE 0)
    OBVIOUS
  <2>7. a \in 1..Len(u) /\ u[a] = x
    <3>1. a = n - (IF i < n THEN 1 ELSE 0)
      BY <2>6
    <3>2. Len(s) \in Nat /\ n \in 1..Len(s) /\ i # n /\ IsWithout(s, i, u)
      BY <2>3, <2>4, <2>5
    <3>3. a \in 1..Len(u) /\ u[a] = s[n]
      BY <3>1, <3>2, StaysAt
    <3> QED BY <3>3, <1>1
  <2>8. b \in 1..Len(u) /\ u[b] = t
    <3>1. b = m - (IF i < m THEN 1 ELSE 0)
      BY <2>6
    <3>2. Len(s) \in Nat /\ m \in 1..Len(s) /\ i # m /\ IsWithout(s, i, u)
      BY <2>3, <2>4, <2>5
    <3>3. b \in 1..Len(u) /\ u[b] = s[m]
      BY <3>1, <3>2, StaysAt
    <3> QED BY <3>3, <1>1
  <2>9. a = IF after THEN b + 1 ELSE b - 1
    <3>1. i < n <=> i < m
      BY <2>5, <1>1
    <3> QED BY <3>1, <2>5, <2>6, <1>1
  <2>10. IsNext(u, t, x, a, after)
    BY <2>4, <2>7, <2>8, <2>9 DEF IsNext
  <2> QED BY <2>10, <1>2 DEF Adjoins
<1> QED BY <1>3, <1>4

\* A component dropped beside another, and the row that it is wrapped in.
LandsNextTo(L, d, q, N) ==
  \E x : /\ Adjoins(N[q].children, d.target.id, x, d.after)
         /\ \/ x = d.drag.id
            \/ x \in DOMAIN N \ DOMAIN L /\ N[x].children = <<d.drag.id>>

LEMMA MovesNext ==
  ASSUME NEW L, Sound(L), HasFreshIds(L), NEW d, NEW destination, IsDrop(L, d, destination),
         d.how = "sibling", IsMove(L, d.drag, destination),
         NEW N, N = MOVE_COMPONENT(L, d.drag, destination)
  PROVE  LandsNextTo(L, d, destination.id, N)
<1>1. PICK c, p, k, q, n, t : /\ c = d.drag.id /\ p = d.drag.source.id /\ k = d.drag.source.index
                              /\ q = destination.id /\ n = destination.index /\ t = d.target.id
  OBVIOUS
<1>2. PICK after \in BOOLEAN : after = d.after
  BY DEF IsDrop
<1>3. HasMoved(L, d.drag, destination, N)
  BY MovesSoundly
<1>4. IsComponentMap(L)
  BY SoundIsPlaced
<1>5. /\ q \in DOMAIN L /\ c # t /\ ~d.drag.new /\ p \in DOMAIN L
      /\ k \in DOMAIN L[p].children /\ c = L[p].children[k]
  BY <1>1 DEF IsDrop, IsMove, IsDrag
<1>6. PICK s \in Seq(ComponentIds) : s = L[q].children
  BY <1>4, <1>5, ChildrenAreComponents
<1>7. PICK j \in DOMAIN s : s[j] = t /\ n = j - (IF p = q /\ k < j THEN 1 ELSE 0)
                                            + (IF after THEN 1 ELSE 0)
  <2>1. IsBeside(L, d, n) /\ q = d.target.parent
    BY <1>1 DEF IsDrop
  <2> QED BY <2>1, <1>1, <1>2, <1>6 DEF IsBeside
<1>8. PICK P, r :
        /\ IsComponentMap(P) /\ MovedTo(L, p, k, q, n, c, P)
        /\ IF shouldWrapChildInRow(L[q].type, d.drag.type)
           THEN InRow(P, q, n, c, r, N) /\ r \in Free(L)
           ELSE N = P
  BY <1>1, <1>3 DEF HasMoved
<1>9. PICK u : /\ IF p = q THEN IsWithout(s, k, u) ELSE u = s
               /\ Lands(u, c, n, P[q].children)
  BY <1>6, <1>8 DEF MovedTo
<1>10. Len(s) \in Nat /\ DOMAIN s = 1..Len(s) /\ j \in 1..Len(s)
  OBVIOUS
<1>11. PICK i : i = j - (IF p = q /\ k < j THEN 1 ELSE 0)
  OBVIOUS
<1>12. Len(u) \in Nat /\ i \in 1..Len(u) /\ u[i] = t
  <2>1. CASE p = q
    <3>1. k \in 1..Len(s) /\ k # j /\ IsWithout(s, k, u)
      BY <2>1, <1>5, <1>6, <1>7, <1>9, <1>10
    <3>2. i = j - (IF k < j THEN 1 ELSE 0)
      BY <2>1, <1>11
    <3>3. Len(u) \in Nat /\ i \in 1..Len(u) /\ u[i] = s[j]
      <4>1. Len(s) \in Nat /\ j \in 1..Len(s)
        BY <1>10
      <4> QED BY <4>1, <3>1, <3>2, StaysAt
    <3> QED BY <3>3, <1>7
  <2>2. CASE p # q
    BY <2>2, <1>7, <1>9, <1>10, <1>11
  <2> QED BY <2>1, <2>2
<1>13. DOMAIN P = DOMAIN L
  BY <1>8 DEF MovedTo
<1>14. PICK w \in Seq(ComponentIds) : w = P[q].children
  BY <1>5, <1>8, <1>13, ChildrenAreComponents
<1>15. n = i + (IF after THEN 1 ELSE 0)
  BY <1>7, <1>10, <1>11
<1>16. IsNext(w, t, c, n, after)
  <2>1. Lands(u, c, n, w)
    BY <1>9, <1>14
  <2>2. IsNext(w, u[i], c, n, after)
    BY <2>1, <1>12, <1>15, PutNext
  <2> QED BY <2>2, <1>12
<1>17. CASE ~shouldWrapChildInRow(L[q].type, d.drag.type)
  <2>1. N = P
    BY <1>8, <1>17
  <2>2. Adjoins(N[q].children, t, c, after)
    BY <2>1, <1>14, <1>16 DEF Adjoins
  <2> QED BY <2>2, <1>1, <1>2 DEF LandsNextTo
<1>18. CASE shouldWrapChildInRow(L[q].type, d.drag.type)
  <2>1. InRow(P, q, n, c, r, N) /\ r \in Free(L)
    BY <1>8, <1>18
  <2>2. PICK v : v = N[q].children
    OBVIOUS
  <2>3. /\ DOMAIN v = DOMAIN w /\ v[n] = r /\ \A x \in DOMAIN w : x # n => v[x] = w[x]
        /\ r \in DOMAIN N /\ N[r].children = <<c>>
    BY <2>1, <2>2, <1>14 DEF InRow
  <2>4. PICK m \in DOMAIN w : w[m] = t /\ n = IF after THEN m + 1 ELSE m - 1
    BY <1>16 DEF IsNext
  <2>5. m # n /\ n \in DOMAIN w
    BY <2>4, <1>16 DEF IsNext
  <2>6. IsNext(v, t, r, n, after)
    BY <2>3, <2>4, <2>5 DEF IsNext
  <2>7. Adjoins(N[q].children, t, r, after)
    BY <2>2, <2>6 DEF Adjoins
  <2>8. r \notin DOMAIN L
    BY <2>1 DEF Free
  <2> QED BY <2>3, <2>7, <2>8, <1>1, <1>2 DEF LandsNextTo
<1> QED BY <1>17, <1>18

\* It stays next to the target when the source that it left empty is removed.
\* What d dropped is beside its target below q, by itself or alone in its parent.
LiesBeside(M, q, d) ==
  \E x : /\ Adjoins(M[q].children, d.target.id, x, d.after)
         /\ x = d.drag.id \/ M[x].children = <<d.drag.id>>

LEMMA StaysNext ==
  ASSUME NEW L, Sound(L), HasFreshIds(L), NEW d, NEW destination, IsDrop(L, d, destination),
         d.how = "sibling", IsMove(L, d.drag, destination),
         NEW N, N = MOVE_COMPONENT(L, d.drag, destination),
         NEW M, M = RemoveEmptySource(N, d.drag), d.target.id \in DOMAIN M
  PROVE  LiesBeside(M, destination.id, d)
<1>1. PICK c, p, q, t : /\ c = d.drag.id /\ p = d.drag.source.id
                        /\ q = destination.id /\ t = d.target.id
  OBVIOUS
<1>2. PICK after \in BOOLEAN : after = d.after
  BY DEF IsDrop
<1>3. Sound(N) /\ (M = N \/ SourceGone(N, p, M))
  BY <1>1, DropsSoundly
<1>4. DOMAIN L \subseteq DOMAIN N
  BY MovesSoundly
<1>5. PICK x : /\ Adjoins(N[q].children, t, x, after)
               /\ x = c \/ (x \in DOMAIN N \ DOMAIN L /\ N[x].children = <<c>>)
  BY <1>1, <1>2, MovesNext DEF LandsNextTo
<1>6. CASE M = N
  BY <1>1, <1>2, <1>5, <1>6 DEF LiesBeside
<1>7. CASE SourceGone(N, p, M)
  <2>1. PICK h \in DOMAIN N : p \in ChildIds(N, h) /\ IsDeleted(N, h, p, {p}, M)
    BY <1>7 DEF SourceGone
  <2>2. /\ ChildIds(N, p) = {} /\ DOMAIN M = DOMAIN N \ {p}
        /\ \A y \in DOMAIN M : y # h => M[y] = N[y]
        /\ M[h].children = RemoveFirst(N[h].children, p)
    BY <1>7, <2>1 DEF SourceGone, IsDeleted
  <2>3. p \in DOMAIN L /\ c \in ChildIds(L, p) /\ q \in DOMAIN N
    BY <1>1, <1>4 DEF IsMove, IsDrag
  <2>4. c # p
    <3>1. SUFFICES ASSUME c = p PROVE FALSE
      OBVIOUS
    <3>2. Takes(L[p].type, L[p].type)
      BY <2>3, <3>1, RootIs, FitsIs DEF Whole, FitsIn
    <3> QED BY <3>2, NoneTakesItself
  <2>5. x # p /\ t # p
    BY <2>2, <2>3, <2>4, <1>1, <1>5
  <2>6. IsComponentMap(N)
    BY <1>3, SoundIsPlaced
  <2>7. PICK s \in Seq(ComponentIds) : s = N[q].children /\ IsInjective(s) /\ ToSet(s) = ChildIds(N, q)
    BY <2>3, <2>6, ChildrenAreComponents DEF ChildIds
  <2>8. q # p
    <3>1. x \in ToSet(s)
      BY <1>5, <2>7 DEF Adjoins, IsNext, ToSet
    <3> QED BY <3>1, <2>2, <2>7
  <2>9. Adjoins(M[q].children, t, x, after)
    <3>1. CASE q = h
      <4>1. Adjoins(s, t, x, after)
        BY <1>5, <2>7
      <4>2. Adjoins(RemoveFirst(s, p), t, x, after)
        BY <4>1, <2>5, <2>7, NextStays
      <4> QED BY <4>2, <3>1, <2>2, <2>7
    <3>2. CASE q # h
      <4>1. M[q] = N[q]
        BY <3>2, <2>2, <2>3, <2>8
      <4> QED BY <4>1, <1>5
    <3> QED BY <3>1, <3>2
  <2>10. x = c \/ M[x].children = <<c>>
    <3>1. SUFFICES ASSUME x # c PROVE M[x].children = <<c>>
      OBVIOUS
    <3>2. x \in DOMAIN N /\ N[x].children = <<c>>
      BY <3>1, <1>5
    <3>3. x # h
      <4>1. SUFFICES ASSUME x = h PROVE FALSE
        OBVIOUS
      <4>2. ChildIds(N, h) = {c}
        <5>1. ToSet(<<c>>) = {c}
          <6>1. DOMAIN <<c>> = {1} /\ <<c>>[1] = c
            OBVIOUS
          <6> QED BY <6>1 DEF ToSet
        <5> QED BY <5>1, <4>1, <3>2 DEF ChildIds
      <4> QED BY <4>2, <2>1, <2>4
    <3>4. M[x] = N[x]
      BY <3>2, <3>3, <2>2, <2>5
    <3> QED BY <3>2, <3>4
  <2> QED BY <2>9, <2>10, <1>1, <1>2 DEF LiesBeside
<1> QED BY <1>3, <1>6, <1>7

-------------------------------------------------------------------------------
(* The page *)

LEMMA LayoutIsTreeWhenSound == ASSUME Sound(layout) PROVE LayoutIsTree
<1>1. PICK R : R = OnPage(layout)
  OBVIOUS
<1>2. \A i \in DOMAIN layout :
        ChildIds(layout, i) \subseteq DOMAIN layout /\ IsInjective(layout[i].children)
  BY SoundIsPlaced, ChildrenAreComponents
<1>3. HasTopLevelTabs(layout) => layout[DASHBOARD_GRID_ID].children = <<>>
  BY DEF Sound, MayBeSaved, TopIsRoot
<1>4. ASSUME NEW i \in DOMAIN layout
      PROVE  Cardinality({r \in R : r.id = i}) =
               IF i = DASHBOARD_GRID_ID /\ HasTopLevelTabs(layout) THEN 0 ELSE 1
  <2>1. /\ \A r, s \in R : r.id = s.id => r = s
        /\ (\E r \in R : r.id = i) <=> i \notin (Topmost(layout) \ {0})
    BY <1>1, PageHolds DEF PageShows
  <2>2. CASE i = 1 /\ HasTopLevelTabs(layout)
    <3>1. i \in Topmost(layout) \ {0}
      BY <2>2 DEF Topmost, DASHBOARD_GRID_ID, DASHBOARD_ROOT_ID
    <3>2. {r \in R : r.id = i} = {}
      BY <2>1, <3>1
    <3>3. Cardinality({r \in R : r.id = i}) = 0
      BY <3>2, FS_EmptySet
    <3> QED BY <3>3, <2>2 DEF DASHBOARD_GRID_ID
  <2>3. CASE ~(i = 1 /\ HasTopLevelTabs(layout))
    <3>1. i \notin Topmost(layout) \ {0}
      BY <2>3 DEF Topmost, DASHBOARD_GRID_ID, DASHBOARD_ROOT_ID
    <3>2. PICK r \in R : r.id = i
      BY <2>1, <3>1
    <3>3. {s \in R : s.id = i} = {r}
      BY <2>1, <3>2
    <3>4. Cardinality({s \in R : s.id = i}) = 1
      BY <3>3, FS_Singleton
    <3> QED BY <3>4, <2>3 DEF DASHBOARD_GRID_ID
  <2> QED BY <2>2, <2>3
<1> QED BY <1>1, <1>2, <1>3, <1>4 DEF LayoutIsTree

LEMMA ChildrenAreValidWhenSound == ASSUME Sound(layout) PROVE ChildrenAreValid
<1>1. PICK R : R = OnPage(layout)
  OBVIOUS
<1>2. PageShows(layout, R)
  BY <1>1, PageHolds
<1>3. ASSUME NEW r \in R, r.parent # NoParent
      PROVE  Fits(layout[r.parent].type, layout[r.id].type)
  <2>1. \A s \in R : s.parent # NoParent => /\ s.parent \in DOMAIN layout
                                             /\ s.id \in ChildIds(layout, s.parent)
    BY <1>2, Zenon DEF PageShows
  <2>2. r.parent \in DOMAIN layout /\ r.id \in ChildIds(layout, r.parent)
    BY <1>3, <2>1
  <2> QED BY <2>2, RootIs DEF Whole, FitsIn
<1> QED BY <1>1, <1>3 DEF ChildrenAreValid

\* Next to t in the list s is c, or a component that holds c alone.
HasBeside(L, s, t, c, after) ==
  \E k \in DOMAIN s :
    /\ s[k] = t
    /\ LET n == IF after THEN k + 1 ELSE k - 1
       IN  /\ n \in DOMAIN s
           /\ LET i == s[n] IN i = c \/ L[i].children = <<c>>

LEMMA LandsBesideWhenSound == ASSUME Sound(layout) PROVE LandsBesideTarget
<1>1. SUFFICES ASSUME
               HasFreshIds(layout), NEW d \in Drops(layout),
               d.how = "sibling", ~d.drag.new, d.target.parent # DASHBOARD_ROOT_ID,
               ~Refusable(layout, d.drag, [id |-> d.target.parent]),
               NEW L, L = handleComponentDrop(layout, d.drag,
                            handleDrop(layout, d.drag, d.target, d.how, d.after)),
               L # layout, d.target.id \in DOMAIN L
        PROVE  \E k \in DOMAIN L[d.target.parent].children :
                 /\ L[d.target.parent].children[k] = d.target.id
                 /\ LET n == IF d.after THEN k + 1 ELSE k - 1
                    IN  /\ n \in DOMAIN L[d.target.parent].children
                        /\ LET i == L[d.target.parent].children[n]
                           IN  i = d.drag.id \/ L[i].children = <<d.drag.id>>
  BY Zenon DEF LandsBesideTarget
<1>2. PICK destination :
        destination = handleDrop(layout, d.drag, d.target, d.how, d.after)
  OBVIOUS
<1>3. IsDrop(layout, d, destination)
  BY <1>2, DropIs
<1>4. PICK q : q = destination.id
  OBVIOUS
<1>5. q = d.target.parent /\ q # 0
  BY <1>1, <1>3, <1>4 DEF IsDrop, DASHBOARD_ROOT_ID
<1>6. ~Refusable(layout, d.drag, destination)
  <2>1. [id |-> d.target.parent].id = destination.id
    BY <1>4, <1>5
  <2> QED BY <2>1, <1>1 DEF Refusable
<1>7. L = handleComponentDrop(layout, d.drag, destination)
  BY <1>1, <1>2
<1>8. /\ IsMove(layout, d.drag, destination)
      /\ L = RemoveEmptySource(MOVE_COMPONENT(layout, d.drag, destination), d.drag)
  BY <1>1, <1>3, <1>4, <1>5, <1>6, <1>7, MovesOrStays
<1>9. PICK x : /\ Adjoins(L[q].children, d.target.id, x, d.after)
               /\ x = d.drag.id \/ L[x].children = <<d.drag.id>>
  <2>1. LiesBeside(L, q, d)
    BY <1>1, <1>3, <1>4, <1>8, StaysNext
  <2> QED BY <2>1 DEF LiesBeside
<1>10. PICK s, t, n : /\ s = L[q].children /\ t = d.target.id
                      /\ IsNext(s, t, x, n, d.after)
  BY <1>9 DEF Adjoins
<1>11. PICK k \in DOMAIN s : s[k] = t /\ n = IF d.after THEN k + 1 ELSE k - 1
  BY <1>10 DEF IsNext
<1>12. n \in DOMAIN s /\ s[n] = x
  BY <1>10 DEF IsNext
<1>13. s = L[d.target.parent].children /\ t = d.target.id
  BY <1>5, <1>10
<1>14. x = d.drag.id \/ L[x].children = <<d.drag.id>>
  BY <1>9
<1>15. n \in DOMAIN s /\ (s[n] = d.drag.id \/ L[s[n]].children = <<d.drag.id>>)
  BY <1>12, <1>14, Zenon
<1>16. HasBeside(L, s, t, d.drag.id, d.after)
  BY <1>11, <1>15, Zenon DEF HasBeside
<1>17. HasBeside(L, L[d.target.parent].children, d.target.id, d.drag.id, d.after)
  BY <1>13, <1>16
<1> QED BY <1>17, Zenon DEF HasBeside

\* The inductive invariant: the layout is one that may be saved, and an id is free.
LayoutInv == Sound(layout) /\ edits \in 0..MaxEdits

LEMMA LayoutStarts == LayoutInit => LayoutInv
<1>1. 0 \in 0..MaxEdits
  BY LayoutAssumption
<1> QED BY <1>1, SavedLayouts DEF LayoutInit, LayoutInv, Sound

IsDeletion == \E r \in OnPage(layout) : DeleteComponent(r)

LEMMA EditKeepsLayout ==
  ASSUME Careful, Sound(layout), LayoutNext
  PROVE  Sound(layout') /\ (KeepsCharts(layout, layout') \/ IsDeletion)
<1>1. CASE hydrateDashboard
  <2>1. HasFreshIds(layout)
    BY <1>1 DEF hydrateDashboard, Edit
  <2>2. PICK p \in FirstParentContainers(layout) :
          layout' = With(With([layout EXCEPT ![p].children = Append(@, FreshIds(layout)[1])],
                              FreshIds(layout)[1], Component("ROW", <<FreshIds(layout)[2]>>)),
                         FreshIds(layout)[2], Component("CHART", <<>>))
    BY <1>1 DEF hydrateDashboard
  <2>3. Sound(layout') /\ DOMAIN layout \subseteq DOMAIN layout'
    <3>1. Hydrates(layout, p, FreshIds(layout)[1], FreshIds(layout)[2], layout')
      BY <2>2 DEF Hydrates
    <3> QED BY <3>1, <2>1, HydratesSoundly
  <2> QED BY <2>3 DEF KeepsCharts
<1>2. ASSUME NEW d \in Drops(layout), Drop(d.drag, d.target, d.how, d.after)
      PROVE  Sound(layout') /\ KeepsCharts(layout, layout')
  <2>1. PICK destination :
          destination = handleDrop(layout, d.drag, d.target, d.how, d.after)
    OBVIOUS
  <2>2. /\ HasFreshIds(layout) /\ ~Refusable(layout, d.drag, destination)
        /\ layout' = handleComponentDrop(layout, d.drag, destination)
    BY <1>2, <2>1 DEF Drop, Edit
  <2> QED BY <2>1, <2>2, EveryDropIsSound
<1>3. ASSUME NEW r \in OnPage(layout), AddTab(r.id)
      PROVE  Sound(layout') /\ KeepsCharts(layout, layout')
  <2>1. PICK q, n, destination : /\ q = r.id /\ n = Len(layout[r.id].children) + 1
                                 /\ destination = [id |-> q, index |-> n]
    OBVIOUS
  <2>2. /\ HasFreshIds(layout) /\ layout[q].type = "TABS"
        /\ layout' = CREATE_COMPONENT(layout, "TAB", destination)
    BY <1>3, <2>1 DEF AddTab, Edit
  <2>3. q \in DOMAIN layout /\ q \notin Topmost(layout) \ {0}
    <3>1. PICK R : R = OnPage(layout)
      OBVIOUS
    <3> QED BY <3>1, <2>1, PageHolds DEF PageShows
  <2>4. q \notin Topmost(layout)
    BY <2>2, <2>3, RootIs DEF Whole
  <2>5. n \in Nat /\ n > 0 /\ n <= Len(layout[q].children) + 1
    BY <2>1, <2>3, SoundIsPlaced, ChildrenAreComponents
  <2>6. Takes(layout[q].type, "TAB") /\ "TAB" \in ComponentTypes /\ "TAB" # "TABS"
    BY <2>2, TakesThese DEF ComponentTypes
  <2>7. destination.id = q /\ destination.index = n
    BY <2>1
  <2>8. Sound(layout') /\ DOMAIN layout \subseteq DOMAIN layout'
    <3>1. PICK type : type = "TAB"
      OBVIOUS
    <3>2. /\ type \in ComponentTypes /\ Takes(layout[q].type, type)
          /\ (layout[q].type = "TAB" /\ type = "TABS") => q \in TopTabs(layout)
          /\ layout' = CREATE_COMPONENT(layout, type, destination)
      BY <3>1, <2>2, <2>6
    <3> QED BY <3>2, <2>2, <2>3, <2>4, <2>5, <2>7, CreatesSoundly
  <2> QED BY <2>8 DEF KeepsCharts
<1>4. ASSUME NEW r \in OnPage(layout), DeleteComponent(r)
      PROVE  Sound(layout') /\ IsDeletion
  <2>1. PICK R : R = OnPage(layout)
    OBVIOUS
  <2>2. /\ r.parent # NoParent /\ r.parent # 0
        /\ layout' = DELETE_COMPONENT(layout, r.id, r.parent)
    BY <1>4 DEF DeleteComponent, DASHBOARD_ROOT_ID
  <2>3. r.parent \in DOMAIN layout /\ r.id \in ChildIds(layout, r.parent)
    BY <2>1, <2>2, PageHolds DEF PageShows
  <2>4. Sound(layout')
    BY <2>2, <2>3, DeletesSoundly
  <2> QED BY <2>4, <1>4 DEF IsDeletion
<1>5. CASE DeleteTopLevelTabs
  <2>1. HasTopLevelTabs(layout) /\ layout' = DELETE_TOP_LEVEL_TABS(layout)
    BY <1>5 DEF DeleteTopLevelTabs
  <2>2. /\ Sound(layout')
        /\ \A x \in DOMAIN layout : x \in DOMAIN layout' \/ layout[x].type \in {"TABS", "TAB"}
    BY <2>1, CollapsesSoundly
  <2> QED BY <2>2 DEF KeepsCharts
<1> QED BY <1>1, <1>2, <1>3, <1>4, <1>5 DEF LayoutNext

LEMMA LayoutKeeps ==
  ASSUME Careful, LayoutInv, [LayoutNext]_layoutVars
  PROVE  LayoutInv'
<1>1. CASE LayoutNext
  <2>1. Sound(layout')
    BY <1>1, EditKeepsLayout DEF LayoutInv
  <2>2. edits < MaxEdits /\ edits' = edits + 1
    BY <1>1 DEF LayoutNext, hydrateDashboard, Drop, AddTab, DeleteComponent,
                DeleteTopLevelTabs, Edit
  <2>3. edits' \in 0..MaxEdits
    BY <2>2, LayoutAssumption DEF LayoutInv
  <2>4. Sound(layout)'
    BY <2>1 DEF Sound, MayBeSaved, IsComponentMap, TopIsRoot, IsForest, Topmost, ChildrenFit,
                HasTopLevelTabs, rootChildId, ChildIds, Parents
  <2> QED BY <2>3, <2>4 DEF LayoutInv
<1>2. CASE UNCHANGED layoutVars
  BY <1>2 DEF LayoutInv, layoutVars
<1> QED BY <1>1, <1>2

LEMMA LayoutTypeFromInv == LayoutInv => LayoutTypeOK
<1>1. SUFFICES ASSUME LayoutInv PROVE LayoutTypeOK
  OBVIOUS
<1>2. IsComponentMap(layout)
  BY <1>1 DEF LayoutInv, Sound, MayBeSaved
<1>3. \A i \in DOMAIN layout : /\ layout[i].type \in ComponentTypes
                               /\ ChildIds(layout, i) \subseteq ComponentIds
  BY <1>2, ChildrenAreComponents DEF IsComponentMap
<1> QED BY <1>1, <1>2, <1>3 DEF LayoutInv, LayoutTypeOK, IsComponentMap

(***************************************************************************)
(* The layout keeps its shape, for any bounds and any saved layouts, as    *)
(* long as nobody makes one of the drops that Refusable names.             *)
(***************************************************************************)
THEOREM LayoutTypeCorrect == Careful => (LayoutSpec => []LayoutTypeOK)
<1> SUFFICES ASSUME Careful PROVE LayoutSpec => []LayoutTypeOK
  OBVIOUS
<1>1. LayoutInv /\ [LayoutNext]_layoutVars => LayoutInv'
  BY LayoutKeeps
<1> QED BY <1>1, LayoutStarts, LayoutTypeFromInv, PTL DEF LayoutSpec

(***************************************************************************)
(* Whatever the saved layout, the number of components and the sequence of *)
(* drops, deletions, hydrations and collapses of the top-level tabs        *)
(* (reducers/dashboardLayout.js): each component is rendered below the     *)
(* root in one place, in a parent that may hold it, and what was dropped   *)
(* beside a component is next to it, as handleDrop meant.                  *)
(***************************************************************************)
THEOREM EditsStaySound == Careful => (LayoutSpec => []EditsAreSound)
<1> SUFFICES ASSUME Careful PROVE LayoutSpec => []EditsAreSound
  OBVIOUS
<1>1. LayoutInv /\ [LayoutNext]_layoutVars => LayoutInv'
  BY LayoutKeeps
<1>2. LayoutInv => EditsAreSound
  BY LayoutIsTreeWhenSound, ChildrenAreValidWhenSound, LandsBesideWhenSound
     DEF LayoutInv, EditsAreSound, LayoutIsValid
<1> QED BY <1>1, <1>2, LayoutStarts, PTL DEF LayoutSpec

LEMMA ChartsStay ==
  ASSUME Careful, LayoutInv, [LayoutNext]_layoutVars
  PROVE  [\A r \in {c \in OnPage(layout) : layout[c.id].type = "CHART"} :
            \/ \E q \in OnPage(layout)' : q.id = r.id
            \/ \E d \in OnPage(layout) : DeleteComponent(d)]_layoutVars
<1>1. SUFFICES ASSUME LayoutNext, ~IsDeletion,
                      NEW r \in {c \in OnPage(layout) : layout[c.id].type = "CHART"}
               PROVE  \E q \in OnPage(layout') : q.id = r.id
  BY Zenon DEF IsDeletion, OnPage, Subtree, ChildIds
<1>2. PICK R, Q, i : R = OnPage(layout) /\ Q = OnPage(layout') /\ i = r.id
  OBVIOUS
<1>3. Sound(layout) /\ Sound(layout') /\ KeepsCharts(layout, layout')
  BY <1>1, EditKeepsLayout DEF LayoutInv
<1>4. i \in DOMAIN layout /\ layout[i].type = "CHART"
  BY <1>1, <1>2, <1>3, PageHolds DEF PageShows
<1>5. i \in DOMAIN layout'
  BY <1>3, <1>4 DEF KeepsCharts
<1>6. i \notin Topmost(layout') \ {0}
  <2>1. layout[1].type = "GRID"
    BY <1>3 DEF Sound, MayBeSaved, TopIsRoot, DASHBOARD_GRID_ID
  <2>2. i # 1
    BY <2>1, <1>4
  <2> QED BY <2>2 DEF Topmost, DASHBOARD_ROOT_ID, DASHBOARD_GRID_ID
<1>7. \E q \in Q : q.id = i
  <2>1. PageShows(layout', Q)
    BY <1>2, <1>3, PageHolds
  <2> QED BY <2>1, <1>5, <1>6, Zenon DEF PageShows
<1> QED BY <1>2, <1>7, Zenon

\* For any bounds and any saved layouts, and as long as nobody makes one of the drops
\* that Refusable names: only DELETE_COMPONENT takes a chart off the page, no drop does,
\* although handleComponentDrop removes the source that it empties, and neither does the
\* collapse of the top-level tabs.
THEOREM ChartsStayUnlessDeleted == Careful => (LayoutSpec => OnlyDeletionsRemoveCharts)
<1> SUFFICES ASSUME Careful PROVE LayoutSpec => OnlyDeletionsRemoveCharts
  OBVIOUS
<1>1. LayoutInv /\ [LayoutNext]_layoutVars => LayoutInv'
  BY LayoutKeeps
<1>2. LayoutInv /\ [LayoutNext]_layoutVars =>
        [\A r \in {c \in OnPage(layout) : layout[c.id].type = "CHART"} :
           \/ \E q \in OnPage(layout)' : q.id = r.id
           \/ \E d \in OnPage(layout) : DeleteComponent(d)]_layoutVars
  BY ChartsStay
<1> QED BY <1>1, <1>2, LayoutStarts, PTL DEF LayoutSpec, OnlyDeletionsRemoveCharts
===============================================================================
