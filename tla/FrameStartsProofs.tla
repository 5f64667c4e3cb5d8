------------------------- MODULE FrameStartsProofs --------------------------
(***************************************************************************)
(* What ComputeFrameStarts returns, for every page and every wall.         *)
(***************************************************************************)
EXTENDS FrameStarts, NaturalsInduction, WellFoundedInduction, FiniteSetTheorems, TLAPS

-----------------------------------------------------------------------------
(* Induction over an interval, and functions defined along it.             *)

LEMMA UpTo ==
    ASSUME NEW n \in Nat, NEW S, 0 \in S, \A k \in 0 .. n - 1 : k \in S => k + 1 \in S
    PROVE  \A k \in 0 .. n : k \in S
<1> SUFFICES ASSUME NEW k \in 0 .. n, k \notin S PROVE FALSE
  OBVIOUS
<1> DEFINE D == {d \in 0 .. n : d \notin S}
           R == OpToRel(<, Nat)
<1>1. D \subseteq Nat /\ k \in D
  OBVIOUS
<1>2. \E d \in D : \A y \in D : ~(<<y, d>> \in R)
  <2> HIDE DEF D, R
  <2>1. IsWellFoundedOn(R, Nat)
    BY NatLessThanWellFounded DEF R
  <2> QED
    BY <1>1, <2>1, WFMin
<1>3. PICK d \in D : \A y \in D : ~(<<y, d>> \in R)
  BY <1>2
<1>4. d \in 0 .. n /\ d \notin S /\ d # 0
  OBVIOUS
<1>5. d - 1 \in 0 .. n - 1 /\ (d - 1) + 1 = d
  BY <1>4
<1>6. d - 1 \notin S
  BY <1>4, <1>5
<1>7. d - 1 \in D
  BY <1>5, <1>6
<1>8. <<d - 1, d>> \in R
  BY <1>1, <1>4, <1>5 DEF OpToRel
<1> QED
  BY <1>3, <1>7, <1>8

(* What a step at a time makes of c, along the interval.                   *)
Steps(n, V, c, step) == n \in Nat /\ c \in V /\ step \in [1 .. n -> [V -> V]]
Walk(f, n, V, c, step) ==
    f \in [0 .. n -> V] /\ f[0] = c /\ \A i \in 1 .. n : f[i] = step[i][f[i - 1]]

LEMMA Iterates ==
    ASSUME NEW n, NEW V, NEW c, NEW step, Steps(n, V, c, step)
    PROVE  \E f : Walk(f, n, V, c, step)
<1> USE DEF Steps, Walk
<1> DEFINE S == {m \in 0 .. n : \E f \in [0 .. m -> V] :
                     f[0] = c /\ \A i \in 1 .. m : f[i] = step[i][f[i - 1]]}
<1>1. 0 \in S
  <2> DEFINE f == [i \in 0 .. 0 |-> c]
  <2>1. f \in [0 .. 0 -> V] /\ f[0] = c /\ \A i \in 1 .. 0 : f[i] = step[i][f[i - 1]]
    OBVIOUS
  <2> HIDE DEF f
  <2> QED
    BY <2>1
<1>2. ASSUME NEW m \in 0 .. n - 1, m \in S PROVE m + 1 \in S
  <2>1. PICK f \in [0 .. m -> V] : f[0] = c /\ \A i \in 1 .. m : f[i] = step[i][f[i - 1]]
    BY <1>2
  <2>2. f[m] \in V /\ m + 1 \in 1 .. n
    OBVIOUS
  <2> DEFINE x == step[m + 1][f[m]]
             g == [i \in 0 .. m + 1 |-> IF i = m + 1 THEN x ELSE f[i]]
  <2>3. x \in V
    BY <2>2
  <2>4. /\ g \in [0 .. m + 1 -> V] /\ g[m + 1] = x
        /\ \A i \in 0 .. m : g[i] = f[i]
    BY <2>3
  <2> HIDE DEF g
  <2>5. g[0] = c
    BY <2>1, <2>4
  <2>6. ASSUME NEW i \in 1 .. m + 1 PROVE g[i] = step[i][g[i - 1]]
    <3>1. CASE i = m + 1
      <4>1. i - 1 = m /\ g[m] = f[m]
        BY <3>1, <2>4
      <4> QED
        BY <3>1, <4>1, <2>4
    <3>2. CASE i # m + 1
      <4>1. i \in 1 .. m /\ i - 1 \in 0 .. m
        BY <3>2
      <4> QED
        BY <4>1, <2>1, <2>4
    <3> QED
      BY <3>1, <3>2
  <2>7. m + 1 \in 0 .. n
    OBVIOUS
  <2> QED
    BY <2>4, <2>5, <2>6, <2>7
<1>3. \A m \in 0 .. n : m \in S
  <2> HIDE DEF S
  <2> QED
    BY <1>1, <1>2, UpTo
<1> QED
  BY <1>3

-----------------------------------------------------------------------------
(* Sums of section sizes.                                                  *)

LEMMA ItemsBeforeStep ==
    ASSUME NEW s, s \in Seq(Nat)
    PROVE  /\ ItemsBefore(s) \in [0 .. Len(s) -> Nat]
           /\ ItemsBefore(s)[0] = 0
           /\ \A i \in 1 .. Len(s) : ItemsBefore(s)[i] = ItemsBefore(s)[i - 1] + s[i]
<1> PICK n \in Nat : n = Len(s)
  OBVIOUS
<1> DEFINE step == [i \in 1 .. n |-> [x \in Nat |-> x + s[i]]]
<1>1. \A i \in 1 .. n : s[i] \in Nat
  OBVIOUS
<1>2. step \in [1 .. n -> [Nat -> Nat]]
  BY <1>1
<1>3. \A x \in Nat, i \in 1 .. n : step[i][x] = x + s[i]
  BY <1>1
<1> HIDE DEF step
<1>4. PICK f \in [0 .. n -> Nat] : f[0] = 0 /\ \A i \in 1 .. n : f[i] = step[i][f[i - 1]]
  <2>1. Steps(n, Nat, 0, step)
    BY <1>2 DEF Steps
  <2>2. \E f : Walk(f, n, Nat, 0, step)
    BY <2>1, Iterates
  <2> QED
    BY <2>2 DEF Walk
<1>5. f = [i \in 0 .. n |-> IF i = 0 THEN 0 ELSE f[i - 1] + s[i]]
  <2>1. ASSUME NEW i \in 1 .. n PROVE f[i] = f[i - 1] + s[i]
    <3>1. i - 1 \in 0 .. n
      OBVIOUS
    <3>2. f[i - 1] \in Nat
      BY <3>1
    <3> QED
      BY <1>3, <1>4, <3>2
  <2>2. \A i \in 0 .. n : f[i] = IF i = 0 THEN 0 ELSE f[i - 1] + s[i]
    BY <1>4, <2>1
  <2> QED
    BY <2>2
<1> DEFINE g == CHOOSE h : h = [i \in 0 .. n |-> IF i = 0 THEN 0 ELSE h[i - 1] + s[i]]
<1>6. g = [i \in 0 .. n |-> IF i = 0 THEN 0 ELSE g[i - 1] + s[i]]
  BY <1>5
<1>7. ItemsBefore(s) = g
  BY DEF ItemsBefore
<1> HIDE DEF g
<1>8. g[0] = 0 /\ \A i \in 1 .. n : g[i] = g[i - 1] + s[i]
  <2>1. \A i \in 0 .. n : g[i] = IF i = 0 THEN 0 ELSE g[i - 1] + s[i]
    BY <1>6, Zenon
  <2>2. 0 \in 0 .. n /\ \A i \in 1 .. n : i \in 0 .. n /\ i # 0
    OBVIOUS
  <2> QED
    BY <2>1, <2>2, Zenon
<1> DEFINE S == {j \in 0 .. n : g[j] \in Nat}
<1>9. \A i \in 0 .. n : i \in S
  <2>1. 0 \in S
    BY <1>8
  <2>2. \A k \in 0 .. n - 1 : k \in S => k + 1 \in S
    <3> TAKE k \in 0 .. n - 1
    <3> HAVE k \in S
    <3>1. k + 1 \in 1 .. n /\ (k + 1) - 1 = k /\ g[k] \in Nat
      OBVIOUS
    <3>2. g[k + 1] \in Nat
      BY <1>1, <1>8, <3>1
    <3> QED
      BY <3>1, <3>2
  <2> HIDE DEF S
  <2> QED
    BY <2>1, <2>2, UpTo
<1>10. g \in [0 .. n -> Nat]
  BY <1>6, <1>9
<1> QED
  BY <1>7, <1>8, <1>10

-----------------------------------------------------------------------------
(* The cuts of one section.                                                *)

LEMMA MaxWithin ==
    ASSUME NEW n \in Nat, NEW S, S \subseteq 0 .. n, S # {}
    PROVE  Max(S) \in S /\ \A x \in S : x <= Max(S)
<1> SUFFICES \E m \in S : \A x \in S : m >= x
  BY DEF Max
<1> SUFFICES ASSUME \A m \in S : \E x \in S : x > m PROVE FALSE
  OBVIOUS
<1> DEFINE T == {k \in 0 .. n : \E x \in S : x >= k}
<1>1. 0 \in T
  <2> PICK x \in S : TRUE
    OBVIOUS
  <2> 0 \in 0 .. n /\ x >= 0
    OBVIOUS
  <2> QED
    OBVIOUS
<1>2. \A k \in 0 .. n - 1 : k \in T => k + 1 \in T
  <2> TAKE k \in 0 .. n - 1
  <2> HAVE k \in T
  <2>1. PICK x \in S : x >= k
    OBVIOUS
  <2>2. PICK y \in S : y > x
    OBVIOUS
  <2> QED
    BY <2>1, <2>2
<1>3. n \in T
  <2> HIDE DEF T
  <2> QED
    BY <1>1, <1>2, UpTo
<1> QED
  BY <1>3

LEMMA Multiples ==
    ASSUME NEW cap \in Nat \ {0}, NEW i \in Nat, NEW j \in Nat
    PROVE  /\ cap * i \in Nat /\ cap * (i + 1) = cap * i + cap /\ cap * i >= i
           /\ i < j => cap * i + cap <= cap * j
<1>1. cap * i \in Nat /\ cap * (i + 1) = cap * i + cap
  OBVIOUS
<1>2. cap * i >= i
  <2> DEFINE S == {k \in 0 .. i : cap * k >= k}
  <2>1. 0 \in S
    OBVIOUS
  <2>2. \A k \in 0 .. i - 1 : k \in S => k + 1 \in S
    <3> TAKE k \in 0 .. i - 1
    <3> HAVE k \in S
    <3>1. cap * (k + 1) = cap * k + cap /\ cap * k \in Nat
      OBVIOUS
    <3> QED
      BY <3>1
  <2>3. i \in S
    <3> HIDE DEF S
    <3> QED
      BY <2>1, <2>2, UpTo
  <2> QED
    BY <2>3
<1>3. ASSUME i < j PROVE cap * i + cap <= cap * j
  <2>1. PICK d \in Nat : j = (i + 1) + d
    <3>1. j - (i + 1) \in Nat
      BY <1>3
    <3> QED
      BY <3>1
  <2>2. cap * j = cap * (i + 1) + cap * d /\ cap * d >= 0
    BY <2>1
  <2> QED
    BY <1>1, <2>2
<1> QED
  BY <1>1, <1>2, <1>3

(* None if the section fits, one in front of it if it fits a frame of its *)
(* own, and otherwise one wherever a frame is full.                        *)
SectionCutsAre(K, c, r, n, cap) ==
    /\ n <= r => K = {}
    /\ r < n /\ n <= cap => K = {c}
    /\ cap < n =>
         /\ c + r \in K
         /\ \A x \in K : c + r <= x /\ x < c + n /\ (x + cap \in K \/ c + n <= x + cap)
         /\ \A x, y \in K : x < y => x + cap <= y
    /\ K \subseteq Nat /\ \A x \in K : x < c + n

LEMMA SectionCuts ==
    ASSUME NEW c \in Nat, NEW n \in Nat, NEW cap \in Nat \ {0}, NEW r \in 0 .. cap
    PROVE  SectionCutsAre(CutsFor(c, r, n, cap), c, r, n, cap)
<1> PICK K : K = CutsFor(c, r, n, cap)
  OBVIOUS
<1> SUFFICES SectionCutsAre(K, c, r, n, cap)
  OBVIOUS
<1> USE DEF SectionCutsAre
<1> DEFINE at(j) == c + r + cap * j
<1>1. \A j \in Nat : cap * j \in Nat /\ at(j) \in Nat /\ c + r <= at(j)
  BY Multiples
<1>2. CASE r < n /\ n <= cap
  BY <1>2 DEF CutsFor
<1>3. CASE ~(r < n /\ n <= cap)
  <2>1. \A x : x \in K <=> x \in 0 .. c + n - 1 /\ \E j \in 0 .. n : x = at(j)
    BY <1>3 DEF CutsFor
  <2> HIDE DEF at
  <2>2. K \subseteq Nat /\ \A x \in K : x < c + n /\ c + r <= x
    BY <1>1, <2>1
  <2>3. n <= r => K = {}
    BY <2>2
  <2>4. ASSUME cap < n
        PROVE  /\ c + r \in K
               /\ \A x \in K : x + cap \in K \/ c + n <= x + cap
               /\ \A x, y \in K : x < y => x + cap <= y
    <3>1. c + r \in K
      <4>1. at(0) = c + r
        BY DEF at
      <4> QED
        BY <2>1, <2>4, <4>1
    <3>2. ASSUME NEW x \in K, x + cap < c + n PROVE x + cap \in K
      <4>1. PICK j \in 0 .. n : x = at(j)
        BY <2>1
      <4>2. at(j + 1) = x + cap
        BY <4>1, Multiples DEF at
      <4>3. j + 1 <= n
        BY <3>2, <4>2, Multiples DEF at
      <4>4. x + cap \in 0 .. c + n - 1
        BY <2>2, <3>2
      <4> QED
        BY <2>1, <4>2, <4>3, <4>4
    <3>3. ASSUME NEW x \in K, NEW y \in K, x < y PROVE x + cap <= y
      <4>1. PICK i \in 0 .. n, j \in 0 .. n : x = at(i) /\ y = at(j)
        BY <2>1
      <4>2. i < j
        <5>1. CASE j < i
          BY <3>3, <4>1, <5>1, Multiples DEF at
        <5>2. CASE j = i
          BY <3>3, <4>1, <5>2, <2>2
        <5> QED
          BY <5>1, <5>2
      <4>3. cap * i + cap <= cap * j /\ cap * i \in Nat /\ cap * j \in Nat
        BY <4>2, Multiples
      <4> QED
        BY <4>1, <4>3 DEF at
    <3>4. \A x \in K : x + cap \in K \/ c + n <= x + cap
      BY <2>2, <3>2
    <3> QED
      BY <3>1, <3>3, <3>4
  <2> QED
    BY <1>3, <2>2, <2>3, <2>4
<1> QED
  BY <1>2, <1>3

LEMMA CutsStep ==
    ASSUME NEW s, s \in Seq(Nat), NEW cap, cap \in Nat \ {0}
    PROVE  /\ CutsUpTo(s, cap) \in [0 .. Len(s) -> SUBSET Nat]
           /\ CutsUpTo(s, cap)[0] = {0}
           /\ \A i \in 1 .. Len(s) :
                 LET c == ItemsBefore(s)[i - 1]
                     r == cap - (c - Max(CutsUpTo(s, cap)[i - 1]))
                 IN  CutsUpTo(s, cap)[i] = CutsUpTo(s, cap)[i - 1] \cup CutsFor(c, r, s[i], cap)
<1> PICK n \in Nat : n = Len(s)
  OBVIOUS
<1> DEFINE at(i) == ItemsBefore(s)[i - 1]
           more(X, i) == CutsFor(at(i), cap - (at(i) - Max(X)), s[i], cap)
           step == [i \in 1 .. n |-> [X \in SUBSET Nat |-> X \cup more(X, i)]]
<1>1. \A i \in 1 .. n : s[i] \in Nat /\ at(i) \in Nat
  BY ItemsBeforeStep
<1>2. \A i \in 1 .. n : \A X : more(X, i) \subseteq Nat
  BY <1>1 DEF CutsFor
<1> HIDE DEF more
<1>3. step \in [1 .. n -> [SUBSET Nat -> SUBSET Nat]]
  BY <1>2
<1>4. \A i \in 1 .. n : \A X \in SUBSET Nat : step[i][X] = X \cup more(X, i)
  OBVIOUS
<1> HIDE DEF step
<1>5. PICK f \in [0 .. n -> SUBSET Nat] : f[0] = {0} /\ \A i \in 1 .. n : f[i] = step[i][f[i - 1]]
  <2>1. Steps(n, SUBSET Nat, {0}, step)
    BY <1>3 DEF Steps
  <2>2. \E f : Walk(f, n, SUBSET Nat, {0}, step)
    BY <2>1, Iterates
  <2> QED
    BY <2>2 DEF Walk
<1>6. f = [i \in 0 .. n |-> IF i = 0 THEN {0} ELSE f[i - 1] \cup more(f[i - 1], i)]
  <2>1. ASSUME NEW i \in 1 .. n PROVE f[i] = f[i - 1] \cup more(f[i - 1], i)
    <3>1. f[i - 1] \in SUBSET Nat
      OBVIOUS
    <3> QED
      BY <1>4, <1>5, <3>1
  <2>2. \A i \in 0 .. n : f[i] = IF i = 0 THEN {0} ELSE f[i - 1] \cup more(f[i - 1], i)
    BY <1>5, <2>1
  <2> QED
    BY <2>2
<1> DEFINE g == CHOOSE h : h = [i \in 0 .. n |-> IF i = 0 THEN {0} ELSE h[i - 1] \cup more(h[i - 1], i)]
<1>7. g = [i \in 0 .. n |-> IF i = 0 THEN {0} ELSE g[i - 1] \cup more(g[i - 1], i)]
  BY <1>6
<1>8. CutsUpTo(s, cap) = g
  BY DEF CutsUpTo, more
<1> HIDE DEF g
<1>9. g[0] = {0} /\ \A i \in 1 .. n : g[i] = g[i - 1] \cup more(g[i - 1], i)
  <2>1. \A i \in 0 .. n : g[i] = IF i = 0 THEN {0} ELSE g[i - 1] \cup more(g[i - 1], i)
    BY <1>7, Zenon
  <2>2. 0 \in 0 .. n /\ \A i \in 1 .. n : i \in 0 .. n /\ i # 0
    OBVIOUS
  <2> QED
    BY <2>1, <2>2, Zenon
<1> DEFINE S == {j \in 0 .. n : g[j] \in SUBSET Nat}
<1>10. \A i \in 0 .. n : i \in S
  <2>1. 0 \in S
    BY <1>9
  <2>2. \A k \in 0 .. n - 1 : k \in S => k + 1 \in S
    <3> TAKE k \in 0 .. n - 1
    <3> HAVE k \in S
    <3>1. k + 1 \in 1 .. n /\ (k + 1) - 1 = k /\ g[k] \in SUBSET Nat
      OBVIOUS
    <3>2. g[k + 1] = g[k] \cup more(g[k], k + 1)
      BY <1>9, <3>1
    <3> QED
      BY <1>2, <3>1, <3>2
  <2> HIDE DEF S
  <2> QED
    BY <2>1, <2>2, UpTo
<1>11. g \in [0 .. n -> SUBSET Nat]
  BY <1>7, <1>10
<1> QED
  BY <1>8, <1>9, <1>11 DEF more

(* The cuts made when so many items have been placed: they begin there, and *)
(* from each one on there is another, unless all that is left fits.        *)
CutsWithin(C, total, cap) ==
    /\ C \subseteq 0 .. total
    /\ 0 \in C
    /\ \A x \in C : total <= x + cap \/ \E y \in C : x < y /\ y <= x + cap

LEMMA SectionCutsWithin ==
    ASSUME NEW c \in Nat, NEW n \in Nat, NEW cap \in Nat \ {0}, NEW C, CutsWithin(C, c, cap)
    PROVE  /\ Max(C) \in C /\ \A x \in C : x <= Max(C)
           /\ cap - (c - Max(C)) \in 0 .. cap
           /\ CutsWithin(C \cup CutsFor(c, cap - (c - Max(C)), n, cap), c + n, cap)
<1>1. /\ Max(C) \in C /\ \A x \in C : x <= Max(C)
      /\ C \subseteq 0 .. c /\ C # {} /\ 0 \in C
      /\ \A x \in C : c <= x + cap \/ \E y \in C : x < y /\ y <= x + cap
  BY MaxWithin DEF CutsWithin
<1>2. PICK m \in Nat : m = Max(C)
  <2>1. Max(C) \in 0 .. c
    BY <1>1
  <2> QED
    BY <2>1
<1>3. PICK r \in 0 .. cap : r = cap - (c - m) /\ c + r = m + cap
  <2>1. m <= c /\ c <= m + cap
    BY <1>1, <1>2
  <2> QED
    BY <2>1
<1>4. PICK K : K = CutsFor(c, r, n, cap)
  OBVIOUS
<1>5. /\ n <= r => K = {}
      /\ r < n /\ n <= cap => K = {c}
      /\ cap < n =>
            /\ c + r \in K
            /\ \A x \in K : c + r <= x /\ x < c + n /\ (x + cap \in K \/ c + n <= x + cap)
            /\ \A x, y \in K : x < y => x + cap <= y
      /\ K \subseteq Nat /\ \A x \in K : x < c + n
  <2>1. SectionCutsAre(K, c, r, n, cap)
    BY <1>4, SectionCuts, Zenon
  <2> QED
    BY <2>1 DEF SectionCutsAre
<1>6. CutsWithin(C \cup K, c + n, cap)
  <2>1. C \cup K \subseteq 0 .. c + n /\ 0 \in C \cup K
    BY <1>1, <1>5
  <2>2. ASSUME NEW x \in C \cup K, ~(c + n <= x + cap)
        PROVE  \E y \in C \cup K : x < y /\ y <= x + cap
    <3>1. x \in Nat
      BY <2>1
    <3>2. CASE x \in C /\ \E y \in C : x < y /\ y <= x + cap
      BY <3>2
    <3>3. CASE x \in C /\ c <= x + cap /\ ~\E y \in C : x < y /\ y <= x + cap
      <4>1. x = m
        BY <1>1, <1>2, <3>1, <3>3
      <4>2. r < n
        BY <4>1, <1>3, <2>2
      <4>3. CASE n <= cap
        <5>1. c \in K
          BY <4>2, <4>3, <1>5
        <5>2. m <= c /\ c <= m + cap
          BY <1>1, <1>2, <1>3
        <5>3. c # m
          BY <2>2, <4>1, <4>3
        <5> QED
          BY <5>1, <5>2, <5>3, <4>1
      <4>4. CASE cap < n
        <5>1. c + r \in K /\ c + r = x + cap
          BY <4>4, <1>3, <1>5, <4>1
        <5> QED
          BY <5>1, <3>1
      <4> QED
        BY <4>3, <4>4
    <3>4. CASE x \in K
      <4>1. r < n
        BY <3>4, <1>5
      <4>2. CASE n <= cap
        BY <4>1, <4>2, <3>4, <1>5, <2>2
      <4>3. CASE cap < n
        <5>1. x + cap \in K
          BY <4>3, <3>4, <1>5, <2>2
        <5> QED
          BY <5>1, <3>1
      <4> QED
        BY <4>2, <4>3
    <3> QED
      BY <2>2, <3>2, <3>3, <3>4, <1>1
  <2> QED
    BY <2>1, <2>2 DEF CutsWithin
<1> QED
  BY <1>1, <1>2, <1>3, <1>4, <1>6

(* The cuts of the first sections are cuts of their items.                 *)
LEMMA CutsUpToWithin ==
    ASSUME NEW s, s \in Seq(Nat), NEW cap, cap \in Nat \ {0}
    PROVE  \A i \in 0 .. Len(s) : CutsWithin(CutsUpTo(s, cap)[i], ItemsBefore(s)[i], cap)
<1> PICK n \in Nat : n = Len(s)
  OBVIOUS
<1> DEFINE C == CutsUpTo(s, cap)
           B == ItemsBefore(s)
           S == {i \in 0 .. n : CutsWithin(C[i], B[i], cap)}
<1>1. /\ B \in [0 .. n -> Nat] /\ B[0] = 0
      /\ \A i \in 1 .. n : B[i] = B[i - 1] + s[i]
  BY ItemsBeforeStep
<1>2. /\ C[0] = {0}
      /\ \A i \in 1 .. n :
            C[i] = C[i - 1] \cup CutsFor(B[i - 1], cap - (B[i - 1] - Max(C[i - 1])), s[i], cap)
  BY CutsStep
<1>3. 0 \in S
  BY <1>1, <1>2 DEF CutsWithin
<1>4. \A k \in 0 .. n - 1 : k \in S => k + 1 \in S
  <2> TAKE k \in 0 .. n - 1
  <2> HAVE k \in S
  <2>1. k + 1 \in 1 .. n /\ (k + 1) - 1 = k /\ s[k + 1] \in Nat /\ B[k] \in Nat
    BY <1>1
  <2>2. CutsWithin(C[k], B[k], cap)
    OBVIOUS
  <2> HIDE DEF C, B, S
  <2>3. CutsWithin(C[k] \cup CutsFor(B[k], cap - (B[k] - Max(C[k])), s[k + 1], cap), B[k] + s[k + 1], cap)
    BY <2>1, <2>2, SectionCutsWithin
  <2>4. CutsWithin(C[k + 1], B[k + 1], cap)
    BY <1>1, <1>2, <2>1, <2>3
  <2> QED
    BY <2>1, <2>4 DEF S
<1>5. \A k \in 0 .. n : k \in S
  <2> HIDE DEF S
  <2> QED
    BY <1>3, <1>4, UpTo
<1> QED
  BY <1>5

-----------------------------------------------------------------------------

(* The room left in the last frame, and what makes a section be broken.    *)
Filled ==
    /\ starts # <<>>
    /\ starts[1] = 0
    /\ \A i \in 1 .. Len(starts) - 1 :
          starts[i] < starts[i + 1] /\ starts[i + 1] <= starts[i] + capacity
    /\ consumed = starts[Len(starts)] + (capacity - remaining)

Begun ==
    /\ section = 0 => left = 0
    /\ section > 0 => left <= sizes[section]
    /\ section > 0 /\ 0 < left /\ left < sizes[section] => sizes[section] > capacity

IInv == TypeOK /\ Filled /\ Begun

(* A frame that starts where the last one got to is neither empty nor too  *)
(* big, when the last one holds something.                                 *)
LEMMA OpenFrame ==
    ASSUME NEW s, s \in Seq(Nat), s # <<>>, NEW cap \in Nat, NEW c \in Nat,
           s[1] = 0, s[Len(s)] < c, c <= s[Len(s)] + cap,
           \A i \in 1 .. Len(s) - 1 : s[i] < s[i + 1] /\ s[i + 1] <= s[i] + cap
    PROVE  LET t == Append(s, c)
           IN  /\ t \in Seq(Nat) /\ t # <<>> /\ t[1] = 0 /\ t[Len(t)] = c
               /\ \A i \in 1 .. Len(t) - 1 : t[i] < t[i + 1] /\ t[i + 1] <= t[i] + cap
<1> DEFINE t == Append(s, c)
<1>1. /\ t \in Seq(Nat) /\ Len(t) = Len(s) + 1 /\ t[Len(t)] = c
      /\ \A i \in 1 .. Len(s) : t[i] = s[i]
  OBVIOUS
<1>2. Len(s) \in Nat /\ Len(s) > 0
  OBVIOUS
<1>3. ASSUME NEW i \in 1 .. Len(t) - 1
      PROVE  t[i] < t[i + 1] /\ t[i + 1] <= t[i] + cap
  <2>1. CASE i = Len(s)
    BY <2>1, <1>1, <1>2
  <2>2. CASE i # Len(s)
    <3>1. i \in 1 .. Len(s) - 1 /\ i + 1 \in 1 .. Len(s)
      BY <2>2, <1>1, <1>2
    <3>2. t[i] = s[i] /\ t[i + 1] = s[i + 1]
      BY <3>1, <1>1, <1>2
    <3> QED
      BY <3>1, <3>2
  <2> QED
    BY <2>1, <2>2
<1>4. t # <<>> /\ t[1] = 0
  BY <1>1, <1>2
<1> QED
  BY <1>1, <1>3, <1>4

(* What a round leaves when it has opened a frame, or found room in one.   *)
LEMMA RoundOpens ==
    ASSUME IInv
    PROVE  /\ Room \in 1 .. capacity
           /\ Opened \in Seq(Nat) /\ Opened # <<>> /\ Opened[1] = 0
           /\ \A i \in 1 .. Len(Opened) - 1 :
                 Opened[i] < Opened[i + 1] /\ Opened[i + 1] <= Opened[i] + capacity
           /\ consumed = Opened[Len(Opened)] + (capacity - Room)
<1>1. capacity \in Nat /\ capacity > 0 /\ consumed \in Nat /\ starts \in Seq(Nat)
  BY DEF IInv, TypeOK
<1>2. CASE remaining = 0
  <2>0. starts[Len(starts)] \in Nat
    BY DEF IInv, TypeOK, Filled
  <2>1. consumed = starts[Len(starts)] + capacity
    BY <1>1, <1>2, <2>0 DEF IInv, Filled
  <2>2. starts[Len(starts)] < consumed /\ consumed <= starts[Len(starts)] + capacity
    BY <2>0, <2>1, <1>1
  <2>3. Opened = Append(starts, consumed) /\ Room = capacity
    BY <1>2 DEF Opened, Room
  <2> QED
    BY <1>1, <2>2, <2>3, OpenFrame DEF IInv, Filled
<1>3. CASE remaining # 0
  BY <1>1, <1>3 DEF IInv, TypeOK, Filled, Opened, Room
<1> QED
  BY <1>2, <1>3

LEMMA InitIInv == LoopInit => IInv
  BY InputsAssumption, WallSizesAssumption DEF LoopInit, IInv, TypeOK, Filled, Begun

LEMMA StepIInv == IInv /\ [Round]_loopVars => IInv'
<1> SUFFICES ASSUME IInv, [Round]_loopVars PROVE IInv'
  OBVIOUS
<1>t. /\ sizes \in Seq(Nat) /\ capacity \in Nat \ {0} /\ section \in 0 .. Len(sizes)
      /\ left \in Nat /\ remaining \in 0 .. capacity /\ consumed \in Nat /\ starts \in Seq(Nat)
  BY DEF IInv, TypeOK
<1>r. /\ Room \in 1 .. capacity
      /\ Opened \in Seq(Nat) /\ Opened # <<>> /\ Opened[1] = 0
      /\ \A i \in 1 .. Len(Opened) - 1 :
            Opened[i] < Opened[i + 1] /\ Opened[i + 1] <= Opened[i] + capacity
      /\ consumed = Opened[Len(Opened)] + (capacity - Room)
  BY RoundOpens
<1>f. ASSUME NEW n \in 1 .. Room, n <= left, Fill(n), left - n = 0 \/ left > capacity
      PROVE  IInv'
  <2>1. TypeOK'
    BY <1>f, <1>t, <1>r DEF Fill, TypeOK
  <2>2. Filled'
    <3>1. Opened[Len(Opened)] \in Nat
      BY <1>r
    <3>2. consumed' = Opened[Len(Opened)] + (capacity - remaining')
      BY <3>1, <1>f, <1>t, <1>r DEF Fill
    <3> QED
      BY <3>2, <1>f, <1>r DEF Fill, Filled
  <2>3. Begun'
    <3>1. section > 0
      BY <1>f, <1>t DEF IInv, Begun
    <3>2. sizes[section] \in Nat
      BY <3>1, <1>t
    <3> QED
      BY <3>1, <3>2, <1>f, <1>t DEF Fill, IInv, Begun
  <2> QED
    BY <2>1, <2>2, <2>3 DEF IInv
<1>1. CASE NextSection
  <2>1. section + 1 \in 1 .. Len(sizes) /\ sizes[section + 1] \in Nat
    BY <1>1, <1>t DEF NextSection
  <2> QED
    BY <1>1, <1>t, <2>1 DEF NextSection, IInv, TypeOK, Filled, Begun
<1>2. CASE TakeWhole
  BY <1>2, <1>f, <1>t, <1>r DEF TakeWhole
<1>3. CASE Defer
  <2>1. 0 < remaining /\ remaining < left /\ left <= capacity /\ Opened = starts
    BY <1>3, <1>t DEF Defer, Room, Opened
  <2>0. starts[Len(starts)] \in Nat
    BY DEF IInv, TypeOK, Filled
  <2>2. starts[Len(starts)] < consumed /\ consumed <= starts[Len(starts)] + capacity
    BY <2>0, <2>1, <1>t DEF IInv, Filled
  <2>3. starts' = Append(starts, consumed)
    BY <1>3, <2>1 DEF Defer
  <2>4. LET t == Append(starts, consumed)
        IN  /\ t \in Seq(Nat) /\ t # <<>> /\ t[1] = 0 /\ t[Len(t)] = consumed
            /\ \A i \in 1 .. Len(t) - 1 : t[i] < t[i + 1] /\ t[i + 1] <= t[i] + capacity
    BY <2>2, <1>t, OpenFrame DEF IInv, Filled
  <2>5. /\ remaining' = capacity
        /\ UNCHANGED <<sizes, capacity, section, left, consumed>>
    BY <1>3 DEF Defer
  <2>6. TypeOK'
    BY <1>t, <2>3, <2>4, <2>5 DEF TypeOK
  <2>7. Filled'
    <3>1. consumed = consumed + (capacity - capacity)
      BY <1>t
    <3>2. consumed' = starts'[Len(starts')] + (capacity' - remaining')
      BY <3>1, <2>3, <2>4, <2>5
    <3>3. starts' # <<>> /\ starts'[1] = 0
      BY <2>3, <2>4
    <3>4. \A i \in 1 .. Len(starts') - 1 :
             starts'[i] < starts'[i + 1] /\ starts'[i + 1] <= starts'[i] + capacity'
      BY <2>3, <2>4, <2>5
    <3> QED
      BY <3>2, <3>3, <3>4 DEF Filled
  <2>8. Begun'
    BY <2>5 DEF IInv, Begun
  <2> QED
    BY <2>6, <2>7, <2>8 DEF IInv
<1>4. CASE Split
  BY <1>4, <1>f, <1>t, <1>r DEF Split
<1>5. CASE UNCHANGED loopVars
  BY <1>5 DEF loopVars, IInv, TypeOK, Filled, Begun
<1> QED
  BY <1>1, <1>2, <1>3, <1>4, <1>5 DEF Round

LEMMA Inductive == LoopSpec => []IInv
  BY InitIInv, StepIInv, PTL DEF LoopSpec

(* The loop's variables keep their types, and the room in a frame is never *)
(* negative nor more than the wall holds.                                  *)
THEOREM TypeCorrect == LoopSpec => []TypeOK
<1>1. IInv => TypeOK
  BY DEF IInv
<1> QED
  BY <1>1, Inductive, PTL

(* The frames of every page follow each other, none that is closed empty,  *)
(* none bigger than the wall.                                              *)
THEOREM FramesAlwaysFit == LoopSpec => []FramesFit
<1>1. IInv => FramesFit
  <2> SUFFICES ASSUME IInv PROVE FramesFit
    OBVIOUS
  <2>1. starts[Len(starts)] \in Nat
    BY DEF IInv, TypeOK, Filled
  <2> QED
    BY <2>1 DEF IInv, TypeOK, Filled, FramesFit
<1> QED
  BY <1>1, Inductive, PTL

(* Only a section bigger than a whole wall is ever split over frames.      *)
THEOREM NeverBreaksASectionThatFits == LoopSpec => WholeSections
<1>1. IInv /\ [Round]_loopVars =>
        [Len(starts') > Len(starts) /\ section > 0 /\ left < sizes[section]
            => sizes[section] > capacity]_loopVars
  <2> SUFFICES ASSUME IInv, Round, Len(starts') > Len(starts), section > 0, left < sizes[section]
               PROVE  sizes[section] > capacity
    OBVIOUS
  <2>1. left \in Nat /\ capacity \in Nat /\ remaining \in Nat
    BY DEF IInv, TypeOK
  <2>2. 0 < left
    <3>1. CASE NextSection
      BY <3>1 DEF NextSection
    <3>2. CASE TakeWhole
      BY <3>2 DEF TakeWhole
    <3>3. CASE Defer
      BY <3>3, <2>1, RoundOpens DEF Defer
    <3>4. CASE Split
      BY <3>4, <2>1 DEF Split
    <3> QED
      BY <3>1, <3>2, <3>3, <3>4 DEF Round
  <2> QED
    BY <2>2 DEF IInv, Begun
<1> QED
  BY <1>1, Inductive, PTL DEF LoopSpec, WholeSections

-----------------------------------------------------------------------------
(***************************************************************************)
(* Where the loop stands among the cuts defined section by section.        *)
(***************************************************************************)
Before == ItemsBefore(sizes)[section - 1]
CutsBefore == CutsUpTo(sizes, capacity)[section - 1]
RoomBefore == capacity - (Before - Max(CutsBefore))
Here == CutsFor(Before, RoomBefore, sizes[section], capacity)

Done == ToSet(starts) = CutsUpTo(sizes, capacity)[section]

Untouched ==
    /\ left = sizes[section]
    /\ ToSet(starts) = CutsBefore

Deferred ==
    /\ left = sizes[section]
    /\ RoomBefore < left /\ left <= capacity
    /\ ToSet(starts) = CutsBefore \cup {Before}
    /\ remaining = capacity

Broken ==
    /\ left < sizes[section]
    /\ capacity < sizes[section]
    /\ remaining = 0
    /\ consumed \in Here
    /\ ToSet(starts) = CutsBefore \cup {x \in Here : x < consumed}

CutInv ==
    /\ consumed = ItemsBefore(sizes)[section] - left
    /\ \A i \in DOMAIN starts : starts[i] <= starts[Len(starts)]
    /\ left = 0 => Done
    /\ 0 < left => Untouched \/ Deferred \/ Broken

(* What a sequence holds once more is appended to it.                      *)
LEMMA ToSetAppend ==
    ASSUME NEW s, s \in Seq(Nat), NEW c \in Nat
    PROVE  ToSet(Append(s, c)) = ToSet(s) \cup {c}
<1> DEFINE t == Append(s, c)
<1>1. /\ Len(t) = Len(s) + 1 /\ t[Len(t)] = c /\ \A i \in 1 .. Len(s) : t[i] = s[i]
      /\ DOMAIN t = 1 .. Len(s) + 1 /\ DOMAIN s = 1 .. Len(s) /\ Len(s) \in Nat
  OBVIOUS
<1>2. ASSUME NEW x PROVE x \in ToSet(t) <=> x \in ToSet(s) \/ x = c
  <2>1. ASSUME NEW i \in DOMAIN t PROVE t[i] \in ToSet(s) \cup {c}
    <3>1. i \in 1 .. Len(s) \/ i = Len(t)
      BY <1>1
    <3> QED
      BY <1>1, <3>1 DEF ToSet
  <2>2. ASSUME NEW i \in DOMAIN s PROVE s[i] \in ToSet(t)
    <3>1. i \in DOMAIN t /\ t[i] = s[i]
      BY <1>1
    <3> QED
      BY <3>1 DEF ToSet
  <2>3. c \in ToSet(t)
    <3>1. Len(t) \in DOMAIN t
      BY <1>1
    <3> QED
      BY <1>1, <3>1 DEF ToSet
  <2> QED
    BY <2>1, <2>2, <2>3 DEF ToSet
<1> HIDE DEF t
<1>3. ToSet(t) = ToSet(s) \cup {c}
  BY <1>2
<1> QED
  BY <1>3 DEF t

(* The cut a sequence of frames ends with is the last one.                 *)
LEMMA LastIsMax ==
    ASSUME NEW s, s \in Seq(Nat), s # <<>>, \A i \in DOMAIN s : s[i] <= s[Len(s)],
           NEW n \in Nat, ToSet(s) \subseteq 0 .. n
    PROVE  Max(ToSet(s)) = s[Len(s)]
<1>1. Len(s) \in DOMAIN s /\ s[Len(s)] \in ToSet(s)
  BY DEF ToSet
<1>2. Max(ToSet(s)) \in ToSet(s) /\ \A x \in ToSet(s) : x <= Max(ToSet(s))
  BY <1>1, MaxWithin
<1>3. PICK m \in ToSet(s) : m = Max(ToSet(s))
  BY <1>2
<1>4. m <= s[Len(s)] /\ s[Len(s)] <= m
  BY <1>1, <1>2, <1>3 DEF ToSet
<1>5. m \in Nat /\ s[Len(s)] \in Nat
  BY <1>1, <1>3
<1> QED
  BY <1>3, <1>4, <1>5

(* What is known of the section the loop is in.                            *)
Stands ==
    /\ Before \in Nat /\ sizes[section] \in Nat
    /\ ItemsBefore(sizes)[section] = Before + sizes[section]
    /\ RoomBefore \in 0 .. capacity
    /\ CutsBefore \subseteq 0 .. Before /\ CutsBefore # {}
    /\ Max(CutsBefore) \in Nat
    /\ SectionCutsAre(Here, Before, RoomBefore, sizes[section], capacity)
    /\ CutsUpTo(sizes, capacity)[section] = CutsBefore \cup Here

LEMMA Standing == IInv /\ section > 0 => Stands
<1> SUFFICES ASSUME IInv, section > 0 PROVE Stands
  OBVIOUS
<1>1. /\ sizes \in Seq(Nat) /\ capacity \in Nat \ {0}
      /\ section \in 1 .. Len(sizes) /\ section - 1 \in 0 .. Len(sizes)
  BY DEF IInv, TypeOK
<1>2. /\ Before \in Nat /\ sizes[section] \in Nat
      /\ ItemsBefore(sizes)[section] = Before + sizes[section]
  <2>1. ItemsBefore(sizes)[section] = ItemsBefore(sizes)[section - 1] + sizes[section]
    BY <1>1, ItemsBeforeStep
  <2>2. ItemsBefore(sizes) \in [0 .. Len(sizes) -> Nat]
    BY <1>1, ItemsBeforeStep
  <2>3. ItemsBefore(sizes)[section - 1] \in Nat /\ sizes[section] \in Nat
    BY <1>1, <2>2
  <2> QED
    BY <2>1, <2>3 DEF Before
<1>3. CutsWithin(CutsBefore, Before, capacity)
  BY <1>1, CutsUpToWithin DEF CutsBefore, Before
<1>4. Max(CutsBefore) \in CutsBefore /\ RoomBefore \in 0 .. capacity
  BY <1>1, <1>2, <1>3, SectionCutsWithin DEF RoomBefore
<1>5. CutsBefore \subseteq 0 .. Before /\ CutsBefore # {}
  BY <1>3 DEF CutsWithin
<1>6. SectionCutsAre(Here, Before, RoomBefore, sizes[section], capacity)
  BY <1>1, <1>2, <1>4, SectionCuts, Zenon DEF Here
<1>7. CutsUpTo(sizes, capacity)[section] = CutsBefore \cup Here
  BY <1>1, CutsStep DEF Here, RoomBefore, CutsBefore, Before
<1>8. Max(CutsBefore) \in Nat
  <2>1. Max(CutsBefore) \in 0 .. Before
    BY <1>4, <1>5
  <2> QED
    BY <2>1
<1> QED
  BY <1>2, <1>4, <1>5, <1>6, <1>7, <1>8 DEF Stands

(* A section that is still whole finds the room the cuts before it leave.  *)
LEMMA RoomLeft ==
    ASSUME IInv, CutInv, section > 0, Untouched
    PROVE  remaining = RoomBefore /\ consumed = Before
<1>1. /\ Before \in Nat /\ sizes[section] \in Nat
      /\ ItemsBefore(sizes)[section] = Before + sizes[section]
      /\ CutsBefore \subseteq 0 .. Before
  BY Standing DEF Stands
<1>2. consumed = Before
  BY <1>1 DEF CutInv, Untouched
<1>3. /\ starts \in Seq(Nat) /\ starts # <<>> /\ remaining \in Nat /\ capacity \in Nat
      /\ consumed = starts[Len(starts)] + (capacity - remaining)
  BY DEF IInv, TypeOK, Filled
<1>4. Max(CutsBefore) = starts[Len(starts)] /\ starts[Len(starts)] \in Nat
  <2>1. ToSet(starts) = CutsBefore
    BY DEF Untouched
  <2>2. Max(ToSet(starts)) = starts[Len(starts)]
    BY <1>1, <1>3, <2>1, LastIsMax DEF CutInv
  <2> QED
    BY <1>3, <2>1, <2>2
<1> QED
  BY <1>2, <1>3, <1>4 DEF RoomBefore

(* A frame that starts no earlier than the last keeps it last.             *)
LEMMA LastStaysLast ==
    ASSUME IInv, CutInv, NEW t, t = starts \/ t = Append(starts, consumed)
    PROVE  \A i \in DOMAIN t : t[i] <= t[Len(t)]
<1>1. /\ starts \in Seq(Nat) /\ starts # <<>> /\ remaining \in 0 .. capacity /\ capacity \in Nat
      /\ consumed = starts[Len(starts)] + (capacity - remaining) /\ consumed \in Nat
      /\ \A i \in DOMAIN starts : starts[i] <= starts[Len(starts)]
  BY DEF IInv, TypeOK, Filled, CutInv
<1>2. CASE t = starts
  BY <1>1, <1>2
<1>3. CASE t = Append(starts, consumed)
  <2>1. /\ Len(t) = Len(starts) + 1 /\ t[Len(t)] = consumed
        /\ \A i \in 1 .. Len(starts) : t[i] = starts[i]
        /\ DOMAIN t = 1 .. Len(starts) + 1 /\ DOMAIN starts = 1 .. Len(starts) /\ Len(starts) \in Nat
    BY <1>1, <1>3
  <2>2. starts[Len(starts)] \in Nat /\ \A i \in 1 .. Len(starts) : starts[i] \in Nat
    BY <1>1
  <2>3. starts[Len(starts)] <= consumed
    BY <1>1, <2>2
  <2>4. ASSUME NEW i \in DOMAIN t PROVE t[i] <= t[Len(t)]
    <3>1. CASE i = Len(t)
      BY <3>1, <2>1, <1>1
    <3>2. CASE i # Len(t)
      <4>1. i \in 1 .. Len(starts)
        BY <3>2, <2>1
      <4>2. t[i] = starts[i] /\ starts[i] <= starts[Len(starts)] /\ starts[i] \in Nat
        BY <4>1, <2>1, <2>2, <1>1
      <4> QED
        BY <4>2, <2>1, <2>2, <2>3, <1>1
    <3> QED
      BY <3>1, <3>2
  <2> QED
    BY <2>4
<1> QED
  BY <1>2, <1>3

LEMMA InitCutInv == LoopInit => CutInv
<1> SUFFICES ASSUME LoopInit PROVE CutInv
  OBVIOUS
<1>1. sizes \in Seq(Nat) /\ capacity \in Nat \ {0}
  BY InputsAssumption, WallSizesAssumption DEF LoopInit
<1>2. ItemsBefore(sizes)[0] = 0 /\ CutsUpTo(sizes, capacity)[0] = {0}
  BY <1>1, ItemsBeforeStep, CutsStep
<1>3. starts = <<0>> /\ section = 0 /\ left = 0 /\ consumed = 0
  BY DEF LoopInit
<1>4. ToSet(starts) = {0}
  BY <1>3 DEF ToSet
<1> QED
  BY <1>2, <1>3, <1>4 DEF CutInv, Done

(* A section that is placed to the end has had its cuts made.              *)
LEMMA WholeMakesCuts ==
    ASSUME IInv, CutInv, TakeWhole
    PROVE  ToSet(Opened) = CutsUpTo(sizes, capacity)[section]
<1>0. /\ section > 0 /\ 0 < left /\ left <= Room /\ left \in Nat /\ capacity \in Nat \ {0}
      /\ remaining \in Nat /\ consumed \in Nat /\ starts \in Seq(Nat) /\ remaining <= capacity
  BY DEF IInv, TypeOK, Begun, TakeWhole
<1>s. /\ Before \in Nat /\ sizes[section] \in Nat
      /\ ItemsBefore(sizes)[section] = Before + sizes[section]
      /\ RoomBefore \in 0 .. capacity
      /\ SectionCutsAre(Here, Before, RoomBefore, sizes[section], capacity)
      /\ CutsUpTo(sizes, capacity)[section] = CutsBefore \cup Here
  BY <1>0, Standing DEF Stands
<1>o. ToSet(Opened) = IF remaining = 0 THEN ToSet(starts) \cup {consumed} ELSE ToSet(starts)
  BY <1>0, ToSetAppend DEF Opened
<1>1. CASE Untouched
  <2>1. remaining = RoomBefore /\ consumed = Before
    BY <1>0, <1>1, RoomLeft
  <2>2. left = sizes[section] /\ ToSet(starts) = CutsBefore
    BY <1>1 DEF Untouched
  <2>3. CASE remaining = 0
    <3>1. Room = capacity
      BY <2>3 DEF Room
    <3>2. Here = {Before}
      BY <3>1, <2>1, <2>2, <2>3, <1>0, <1>s DEF SectionCutsAre
    <3> QED
      BY <3>2, <2>1, <2>2, <2>3, <1>o, <1>s
  <2>4. CASE remaining # 0
    <3>1. Room = remaining
      BY <2>4 DEF Room
    <3>2. Here = {}
      BY <3>1, <2>1, <2>2, <1>0, <1>s DEF SectionCutsAre
    <3> QED
      BY <3>2, <2>2, <2>4, <1>o, <1>s
  <2> QED
    BY <2>3, <2>4
<1>2. CASE Deferred
  <2>1. Here = {Before}
    BY <1>2, <1>s DEF Deferred, SectionCutsAre
  <2>2. remaining # 0
    BY <1>0, <1>2 DEF Deferred
  <2> QED
    BY <2>1, <2>2, <1>2, <1>o, <1>s DEF Deferred
<1>3. CASE Broken
  <2>1. Room = capacity /\ remaining = 0
    BY <1>3 DEF Broken, Room
  <2>2. consumed + left = Before + sizes[section]
    BY <1>0, <1>s DEF CutInv
  <2>3. ASSUME NEW x \in Here, x > consumed PROVE FALSE
    <3>1. /\ consumed + capacity <= x /\ x < Before + sizes[section] /\ x \in Nat
      BY <1>3, <1>s, <2>3 DEF Broken, SectionCutsAre
    <3> QED
      BY <3>1, <2>1, <2>2, <1>0, <1>s
  <2>4. Here = {x \in Here : x < consumed} \cup {consumed}
    <3>1. Here \subseteq Nat /\ consumed \in Here
      BY <1>3, <1>s DEF Broken, SectionCutsAre
    <3>2. \A x \in Here : x < consumed \/ x = consumed
      BY <3>1, <2>3, <1>0
    <3> QED
      BY <3>1, <3>2
  <2>5. ToSet(starts) = CutsBefore \cup {x \in Here : x < consumed}
    BY <1>3 DEF Broken
  <2> QED
    BY <2>1, <2>4, <2>5, <1>o, <1>s
<1> QED
  BY <1>0, <1>1, <1>2, <1>3 DEF CutInv

(* A section that is split fills a frame up to the next of its cuts.       *)
LEMMA SplitBreaks ==
    ASSUME IInv, CutInv, Split
    PROVE  /\ section > 0 /\ Room < left /\ left - Room < sizes[section] /\ capacity < sizes[section]
           /\ consumed + Room \in Here
           /\ ToSet(Opened) = CutsBefore \cup {x \in Here : x < consumed + Room}
<1>0. /\ 0 < left /\ capacity < left /\ left \in Nat /\ capacity \in Nat \ {0}
      /\ remaining \in Nat /\ consumed \in Nat /\ starts \in Seq(Nat) /\ remaining <= capacity
  BY DEF IInv, TypeOK, Split
<1>c. section > 0 /\ Room \in 1 .. capacity
  BY <1>0, RoundOpens DEF IInv, TypeOK, Begun
<1>s. /\ Before \in Nat /\ sizes[section] \in Nat
      /\ ItemsBefore(sizes)[section] = Before + sizes[section]
      /\ RoomBefore \in 0 .. capacity
      /\ SectionCutsAre(Here, Before, RoomBefore, sizes[section], capacity)
  BY <1>c, Standing DEF Stands
<1>n. left <= sizes[section]
  BY <1>c DEF IInv, Begun
<1>o. ToSet(Opened) = IF remaining = 0 THEN ToSet(starts) \cup {consumed} ELSE ToSet(starts)
  BY <1>0, ToSetAppend DEF Opened
<1>e. consumed + left = Before + sizes[section]
  BY <1>0, <1>s DEF CutInv
<1>k. /\ Here \subseteq Nat
      /\ Before + RoomBefore \in Here
      /\ \A x \in Here : Before + RoomBefore <= x
                         /\ (x + capacity \in Here \/ Before + sizes[section] <= x + capacity)
      /\ \A x, y \in Here : x < y => x + capacity <= y
  BY <1>0, <1>n, <1>s DEF SectionCutsAre
<1>1. CASE Untouched
  <2>1. remaining = RoomBefore /\ consumed = Before
    BY <1>c, <1>1, RoomLeft
  <2>2. left = sizes[section] /\ ToSet(starts) = CutsBefore
    BY <1>1 DEF Untouched
  <2>3. CASE remaining = 0
    <3>1. Room = capacity /\ Before \in Here
      BY <2>1, <2>3, <1>k, <1>s DEF Room
    <3>2. Before + capacity \in Here
      BY <3>1, <2>1, <2>2, <1>0, <1>e, <1>k, <1>s
    <3>3. \A x \in Here : x < Before + capacity <=> x = Before
      <4> TAKE x \in Here
      <4>1. x \in Nat /\ Before <= x /\ (Before < x => Before + capacity <= x)
        BY <3>1, <2>1, <2>3, <1>k, <1>s
      <4> QED
        BY <4>1, <1>0, <1>s
    <3>4. {y \in Here : y < Before + capacity} = {Before}
      BY <3>1, <3>3
    <3> QED
      BY <3>1, <3>2, <3>4, <2>1, <2>2, <2>3, <1>0, <1>c, <1>o, <1>n
  <2>4. CASE remaining # 0
    <3>1. Room = remaining /\ consumed + Room \in Here
      BY <2>1, <2>4, <1>k DEF Room
    <3>2. {y \in Here : y < consumed + Room} = {}
      <4>1. ASSUME NEW y \in Here PROVE ~(y < consumed + Room)
        <5>1. y \in Nat /\ Before + RoomBefore <= y
          BY <1>k
        <5> QED
          BY <3>1, <5>1, <2>1, <1>s
      <4> QED
        BY <4>1
    <3> QED
      BY <3>1, <3>2, <2>2, <2>4, <1>0, <1>c, <1>o, <1>n
  <2> QED
    BY <2>3, <2>4
<1>2. CASE Broken
  <2>1. Room = capacity /\ remaining = 0 /\ left < sizes[section] /\ consumed \in Here
    BY <1>2 DEF Broken, Room
  <2>2. consumed + capacity \in Here
    BY <2>1, <1>0, <1>e, <1>k, <1>s
  <2>3. \A x \in Here : x < consumed + capacity <=> x < consumed \/ x = consumed
    <3> TAKE x \in Here
    <3>1. x \in Nat /\ (consumed < x => consumed + capacity <= x)
      BY <2>1, <1>k
    <3> QED
      BY <3>1, <1>0
  <2>4. {y \in Here : y < consumed + capacity} = {y \in Here : y < consumed} \cup {consumed}
    BY <2>1, <2>3
  <2>5. ToSet(starts) = CutsBefore \cup {x \in Here : x < consumed}
    BY <1>2 DEF Broken
  <2> QED
    BY <2>1, <2>2, <2>4, <2>5, <1>0, <1>c, <1>o, <1>n, <1>s
<1>3. CASE Deferred
  BY <1>0, <1>3 DEF Deferred
<1> QED
  BY <1>0, <1>1, <1>2, <1>3 DEF CutInv

(* A section that is deferred makes its only cut.                          *)
LEMMA DeferCuts ==
    ASSUME IInv, CutInv, Defer
    PROVE  /\ section > 0 /\ Opened = starts /\ left = sizes[section] /\ RoomBefore < left
           /\ left <= capacity
           /\ ToSet(Append(starts, consumed)) = CutsBefore \cup {Before}
<1>0. /\ left \in Nat /\ capacity \in Nat \ {0} /\ left <= capacity
      /\ remaining \in Nat /\ consumed \in Nat /\ starts \in Seq(Nat) /\ remaining <= capacity
  BY DEF IInv, TypeOK, Defer
<1>1. 0 < remaining /\ remaining < left /\ Room = remaining /\ Opened = starts
  BY <1>0 DEF Defer, Room, Opened
<1>2. section > 0 /\ 0 < left
  BY <1>0, <1>1 DEF IInv, TypeOK, Begun
<1>3. Untouched
  <2>1. ~Deferred
    BY <1>0, <1>1 DEF Deferred
  <2>2. ~Broken
    BY <1>1 DEF Broken
  <2> QED
    BY <2>1, <2>2, <1>2 DEF CutInv
<1>4. remaining = RoomBefore /\ consumed = Before
  BY <1>2, <1>3, RoomLeft
<1>5. ToSet(Append(starts, consumed)) = ToSet(starts) \cup {consumed}
  BY <1>0, ToSetAppend
<1> QED
  BY <1>0, <1>1, <1>2, <1>3, <1>4, <1>5 DEF Untouched

LEMMA StepCutInv == IInv /\ CutInv /\ [Round]_loopVars => CutInv'
<1> SUFFICES ASSUME IInv, CutInv, [Round]_loopVars PROVE CutInv'
  OBVIOUS
<1>t. /\ sizes \in Seq(Nat) /\ capacity \in Nat \ {0} /\ section \in 0 .. Len(sizes)
      /\ left \in Nat /\ remaining \in 0 .. capacity /\ consumed \in Nat /\ starts \in Seq(Nat)
  BY DEF IInv, TypeOK
<1>r. Room \in 1 .. capacity
  BY RoundOpens
<1>b. ItemsBefore(sizes)[section] \in Nat
  <2>1. ItemsBefore(sizes) \in [0 .. Len(sizes) -> Nat]
    BY <1>t, ItemsBeforeStep
  <2> QED
    BY <1>t, <2>1
<1>f. ASSUME NEW n \in Nat, Fill(n)
      PROVE  /\ starts' = Opened /\ consumed' = consumed + n
             /\ remaining' = Room - n /\ left' = left - n
             /\ sizes' = sizes /\ capacity' = capacity /\ section' = section
             /\ consumed' = ItemsBefore(sizes')[section'] - left'
             /\ \A i \in DOMAIN starts' : starts'[i] <= starts'[Len(starts')]
  <2>1. \A i \in DOMAIN Opened : Opened[i] <= Opened[Len(Opened)]
    <3>1. Opened = starts \/ Opened = Append(starts, consumed)
      BY DEF Opened
    <3> QED
      BY <3>1, LastStaysLast
  <2>2. consumed' = ItemsBefore(sizes)[section] - left'
    BY <1>b, <1>f, <1>t DEF Fill, CutInv
  <2> QED
    BY <1>f, <2>1, <2>2 DEF Fill
<1>1. CASE NextSection
  <2>1. /\ left = 0 /\ section < Len(sizes) /\ section' = section + 1
        /\ left' = sizes[section'] /\ sizes' = sizes /\ capacity' = capacity
        /\ consumed' = consumed /\ starts' = starts
    BY <1>1 DEF NextSection
  <2>2. section + 1 \in 1 .. Len(sizes) /\ (section + 1) - 1 = section /\ section' > 0
    BY <1>t, <2>1
  <2>3. /\ Before' = ItemsBefore(sizes)[section]
        /\ CutsBefore' = CutsUpTo(sizes, capacity)[section]
    BY <2>1, <2>2 DEF Before, CutsBefore
  <2>4. IInv'
    BY StepIInv
  <2>5. /\ Before' \in Nat /\ sizes'[section'] \in Nat
        /\ ItemsBefore(sizes')[section'] = Before' + sizes'[section']
        /\ RoomBefore' \in 0 .. capacity'
        /\ SectionCutsAre(Here', Before', RoomBefore', sizes'[section'], capacity')
        /\ CutsUpTo(sizes', capacity')[section'] = CutsBefore' \cup Here'
    <3>1. (IInv /\ section > 0 => Stands)'
      BY Standing, PTL
    <3> QED
      BY <2>2, <2>4, <3>1 DEF Stands
  <2>6. ToSet(starts') = CutsBefore'
    BY <2>1, <2>3 DEF CutInv, Done
  <2>7. consumed' = ItemsBefore(sizes')[section'] - left'
    <3>1. consumed = ItemsBefore(sizes)[section]
      BY <1>b, <2>1 DEF CutInv
    <3> QED
      BY <3>1, <2>1, <2>3, <2>5
  <2>8. ASSUME left' = 0 PROVE Done'
    <3>1. Here' = {}
      BY <2>1, <2>5, <2>8 DEF SectionCutsAre
    <3> QED
      BY <3>1, <2>5, <2>6 DEF Done
  <2>9. Untouched'
    BY <2>1, <2>6 DEF Untouched
  <2>10. \A i \in DOMAIN starts' : starts'[i] <= starts'[Len(starts')]
    BY <2>1 DEF CutInv
  <2> QED
    BY <2>7, <2>8, <2>9, <2>10 DEF CutInv
<1>2. CASE TakeWhole
  <2>1. Fill(left) /\ 0 < left
    BY <1>2 DEF TakeWhole
  <2>2. left' = 0
    BY <1>f, <1>t, <2>1
  <2>3. Done'
    BY <1>2, <1>f, <1>t, <2>1, WholeMakesCuts DEF Done
  <2> QED
    BY <1>f, <1>t, <2>1, <2>2, <2>3 DEF CutInv
<1>3. CASE Defer
  <2>1. /\ starts' = Append(starts, consumed) /\ remaining' = capacity
        /\ sizes' = sizes /\ capacity' = capacity /\ section' = section
        /\ left' = left /\ consumed' = consumed
    BY <1>3, DeferCuts DEF Defer
  <2>2. \A i \in DOMAIN starts' : starts'[i] <= starts'[Len(starts')]
    BY <2>1, LastStaysLast
  <2>3. Before' = Before /\ CutsBefore' = CutsBefore /\ RoomBefore' = RoomBefore
    BY <2>1 DEF Before, CutsBefore, RoomBefore
  <2>4. Deferred'
    BY <1>3, <2>1, <2>3, DeferCuts DEF Deferred
  <2>5. 0 < left'
    BY <1>3, <1>r, <1>t, <2>1 DEF Defer
  <2> QED
    BY <2>1, <2>2, <2>4, <2>5, <1>t DEF CutInv
<1>4. CASE Split
  <2>1. Fill(Room) /\ Room \in Nat
    BY <1>4, <1>r DEF Split
  <2>2. /\ starts' = Opened /\ consumed' = consumed + Room
        /\ remaining' = Room - Room /\ left' = left - Room
        /\ sizes' = sizes /\ capacity' = capacity /\ section' = section
        /\ consumed' = ItemsBefore(sizes')[section'] - left'
        /\ \A i \in DOMAIN starts' : starts'[i] <= starts'[Len(starts')]
    BY <1>f, <2>1
  <2>3. CutsBefore' = CutsBefore /\ Here' = Here
    BY <2>2 DEF Before, CutsBefore, RoomBefore, Here
  <2>4. remaining' = 0 /\ 0 < left'
    BY <1>4, <1>r, <1>t, <2>2, SplitBreaks
  <2>5. Broken'
    BY <1>4, <2>2, <2>3, <2>4, SplitBreaks DEF Broken
  <2> QED
    BY <1>t, <2>2, <2>4, <2>5 DEF CutInv
<1>5. CASE UNCHANGED loopVars
  BY <1>5 DEF loopVars, CutInv, Done, Untouched, Deferred, Broken, Before, CutsBefore, RoomBefore, Here
<1> QED
  BY <1>1, <1>2, <1>3, <1>4, <1>5 DEF Round

LEMMA CutsFollow == LoopSpec => [](IInv /\ CutInv)
  BY InitIInv, StepIInv, InitCutInv, StepCutInv, PTL DEF LoopSpec

(* The loop makes exactly the cuts that are defined section by section,    *)
(* and places every item of the page.                                      *)
THEOREM MakesEveryCut == LoopSpec => []MakesTheCuts
<1>1. IInv /\ CutInv => MakesTheCuts
  <2> SUFFICES ASSUME IInv, CutInv, Framed PROVE ToSet(starts) = Cuts(sizes, capacity) /\ consumed = Total(sizes)
    BY DEF MakesTheCuts
  <2>1. /\ left = 0 /\ section = Len(sizes)
    BY DEF Framed
  <2>2. ItemsBefore(sizes)[section] \in Nat
    <3>1. ItemsBefore(sizes) \in [0 .. Len(sizes) -> Nat] /\ section \in 0 .. Len(sizes)
      BY ItemsBeforeStep DEF IInv, TypeOK
    <3> QED
      BY <3>1
  <2>3. consumed = ItemsBefore(sizes)[section]
    BY <2>1, <2>2 DEF CutInv
  <2> QED
    BY <2>1, <2>3 DEF CutInv, Done, Cuts, Total
<1> QED
  BY <1>1, CutsFollow, PTL
=============================================================================
