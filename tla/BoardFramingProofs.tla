------------------------- MODULE BoardFramingProofs -------------------------
(***************************************************************************)
(* Proofs about the frames the screens of a venue are sent: a screen of    *)
(* its own is sent every item of a page once, and a wall shows every item  *)
(* between its screens. Where a page is cut comes from FrameStartsProofs;  *)
(* FramingInv follows a request from the cuts to the answer that was sent. *)
(***************************************************************************)
EXTENDS BoardFraming, FrameStartsProofs, SequenceTheorems

-----------------------------------------------------------------------------
(* Pages and cuts in order.                                                *)

(* The elements of S, from the smallest on.                                *)
Enumerates(f, S) ==
    /\ Len(f) = Cardinality(S) /\ f \in [1 .. Len(f) -> S] /\ Len(f) \in Nat
    /\ \A n \in S : \E i \in 1 .. Len(f) : f[i] = n
    /\ \A i, j \in 1 .. Len(f) : i < j => f[i] < f[j]

Rank(S, n) == Cardinality({m \in S : m < n})

LEMMA Ranks ==
    ASSUME NEW S, S \subseteq Nat, IsFiniteSet(S), NEW n \in S
    PROVE  /\ Rank(S, n) \in 0 .. Cardinality(S) - 1
           /\ \A m \in S : m < n => Rank(S, m) < Rank(S, n)
<1>1. ASSUME NEW T, T \subseteq S, NEW x \in S, x \notin T
      PROVE  Cardinality(T) < Cardinality(S)
  <2>1. IsFiniteSet(T) /\ Cardinality(T) <= Cardinality(S) /\ (Cardinality(S) = Cardinality(T) => S = T)
    BY <1>1, FS_Subset
  <2>2. Cardinality(T) \in Nat /\ Cardinality(S) \in Nat
    BY <2>1, FS_CardinalityType
  <2> QED
    BY <1>1, <2>1, <2>2
<1>2. Rank(S, n) \in 0 .. Cardinality(S) - 1
  <2> DEFINE T == {m \in S : m < n}
  <2>1. T \subseteq S /\ n \notin T
    OBVIOUS
  <2>2. Cardinality(T) < Cardinality(S)
    BY <1>1, <2>1
  <2>3. Cardinality(T) \in Nat /\ Cardinality(S) \in Nat
    <3>1. IsFiniteSet(T)
      BY <2>1, FS_Subset
    <3> QED
      BY <3>1, FS_CardinalityType
  <2> HIDE DEF T
  <2>4. Cardinality(T) \in 0 .. Cardinality(S) - 1
    BY <2>2, <2>3
  <2> QED
    BY <2>4 DEF Rank, T
<1>3. ASSUME NEW m \in S, m < n PROVE Rank(S, m) < Rank(S, n)
  <2> DEFINE T == {k \in S : k < m}
             U == {k \in S : k < n}
  <2>1. T \subseteq U /\ m \in U /\ m \notin T /\ U \subseteq S
    <3>1. \A k \in S : k < m => k < n
      BY <1>3
    <3>2. ~(m < m)
      OBVIOUS
    <3>3. T \subseteq U
      BY <3>1
    <3>4. m \in U /\ U \subseteq S
      BY <1>3
    <3>5. m \notin T
      BY <3>2
    <3> QED
      BY <3>3, <3>4, <3>5
  <2> HIDE DEF T, U
  <2>2. IsFiniteSet(U)
    BY <2>1, FS_Subset
  <2>3. IsFiniteSet(T) /\ Cardinality(T) <= Cardinality(U) /\ (Cardinality(U) = Cardinality(T) => U = T)
    BY <2>1, <2>2, FS_Subset
  <2>4. Cardinality(T) \in Nat /\ Cardinality(U) \in Nat
    BY <2>2, <2>3, FS_CardinalityType
  <2>5. Cardinality(T) < Cardinality(U)
    BY <2>1, <2>3, <2>4
  <2> QED
    BY <2>5 DEF T, U, Rank
<1> QED
  BY <1>2, <1>3

LEMMA InOrderEnumerates ==
    ASSUME NEW S, S \subseteq Nat, IsFiniteSet(S)
    PROVE  Enumerates(InOrder(S), S)
<1> PICK c \in Nat : c = Cardinality(S)
  BY FS_CardinalityType
<1> DEFINE f == InOrder(S)
           at == [n \in S |-> Rank(S, n)]
<1>1. at \in [S -> 0 .. c - 1] /\ \A n \in S : at[n] = Rank(S, n)
  BY Ranks
<1>2. \A m, n \in S : m < n => at[m] < at[n]
  BY <1>1, Ranks
<1> HIDE DEF at
<1>3. \A m, n \in S : at[m] = at[n] => m = n
  <2> SUFFICES ASSUME NEW m \in S, NEW n \in S, m # n PROVE at[m] # at[n]
    OBVIOUS
  <2>1. m < n \/ n < m
    OBVIOUS
  <2>2. at[m] \in Int /\ at[n] \in Int
    BY <1>1
  <2> QED
    BY <1>2, <2>1, <2>2
<1>4. at \in Surjection(S, 0 .. c - 1)
  <2>1. at \in Injection(S, 0 .. c - 1)
    BY <1>1, <1>3 DEF Injection, IsInjective
  <2>2. IsFiniteSet(0 .. c - 1) /\ Cardinality(0 .. c - 1) = c
    <3>1. 0 \in Int /\ c - 1 \in Int
      OBVIOUS
    <3>2. /\ IsFiniteSet(0 .. c - 1)
          /\ Cardinality(0 .. c - 1) = IF 0 > c - 1 THEN 0 ELSE (c - 1) - 0 + 1
      BY <3>1, FS_Interval
    <3>3. (IF 0 > c - 1 THEN 0 ELSE (c - 1) - 0 + 1) = c
      OBVIOUS
    <3> QED
      BY <3>2, <3>3
  <2> QED
    BY <2>1, <2>2, FS_Injection
<1>5. \A i \in 1 .. c : \E n \in S : Rank(S, n) = i - 1
  <2> TAKE i \in 1 .. c
  <2>1. i - 1 \in 0 .. c - 1
    OBVIOUS
  <2>2. \E n \in S : at[n] = i - 1
    BY <2>1, <1>4 DEF Surjection
  <2> QED
    BY <2>2, <1>1
<1>6. f = [i \in 1 .. c |-> CHOOSE n \in S : Rank(S, n) = i - 1]
  BY DEF InOrder, Rank
<1> HIDE DEF f
<1>7. \A i \in 1 .. c : f[i] \in S /\ at[f[i]] = i - 1
  BY <1>1, <1>5, <1>6
<1>8. DOMAIN f = 1 .. c /\ Len(f) = c /\ f \in [1 .. c -> S]
  <2>1. f \in [1 .. c -> S]
    BY <1>6, <1>7
  <2>2. f \in Seq(S)
    BY <2>1
  <2> QED
    BY <2>1, <2>2
<1>9. \A n \in S : \E i \in 1 .. c : f[i] = n
  <2> TAKE n \in S
  <2>1. at[n] + 1 \in 1 .. c /\ (at[n] + 1) - 1 = at[n]
    BY <1>1
  <2>2. f[at[n] + 1] = n
    BY <1>3, <1>7, <2>1
  <2> QED
    BY <2>1, <2>2
<1>10. \A i, j \in 1 .. c : i < j => f[i] < f[j]
  <2> SUFFICES ASSUME NEW i \in 1 .. c, NEW j \in 1 .. c, i < j, ~(f[i] < f[j]) PROVE FALSE
    OBVIOUS
  <2>1. f[j] < f[i] \/ f[j] = f[i]
    <3>1. f[i] \in Nat /\ f[j] \in Nat
      BY <1>7
    <3> QED
      BY <3>1
  <2>2. at[f[j]] <= at[f[i]]
    <3>1. f[i] \in S /\ f[j] \in S /\ at[f[i]] = i - 1 /\ at[f[j]] = j - 1
      BY <1>7
    <3>2. at[f[j]] < at[f[i]] \/ at[f[j]] = at[f[i]]
      BY <1>2, <2>1, <3>1
    <3> QED
      BY <3>1, <3>2
  <2> QED
    BY <1>7, <2>2
<1>11. Enumerates(f, S)
  BY <1>8, <1>9, <1>10 DEF Enumerates
<1> QED
  BY <1>11 DEF f

(* The first element of a set of numbers in order.                         *)
LEMMA FirstInOrder ==
    ASSUME NEW S, S \subseteq Nat, NEW f, Enumerates(f, S), 0 \in S
    PROVE  Len(f) > 0 /\ f[1] = 0
<1>1. PICK i \in 1 .. Len(f) : f[i] = 0
  BY DEF Enumerates
<1>2. 1 \in 1 .. Len(f) /\ f[1] \in Nat
  <2>1. Len(f) \in Nat /\ f \in [1 .. Len(f) -> S]
    BY DEF Enumerates
  <2>2. 1 \in 1 .. Len(f)
    BY <1>1, <2>1
  <2> QED
    BY <2>1, <2>2
<1>3. ASSUME i # 1 PROVE FALSE
  <2>1. f[1] < f[i]
    BY <1>1, <1>2, <1>3 DEF Enumerates
  <2> QED
    BY <1>1, <1>2, <2>1
<1> QED
  BY <1>1, <1>2, <1>3

(* Where the frames of a page of so many items start.                      *)
Starts(f, total, cap) ==
    /\ f \in Seq(Nat) /\ Len(f) > 0 /\ f[1] = 0
    /\ \A i, j \in 1 .. Len(f) : i < j => f[i] < f[j]
    /\ \A i \in 1 .. Len(f) : f[i] <= total
    /\ \A i \in 1 .. Len(f) - 1 : f[i + 1] <= f[i] + cap
    /\ total <= f[Len(f)] + cap

LEMMA CutsInOrder ==
    ASSUME NEW C, NEW total \in Nat, NEW cap \in Nat \ {0}, CutsWithin(C, total, cap)
    PROVE  Starts(InOrder(C), total, cap)
<1>1. /\ C \subseteq Nat /\ IsFiniteSet(C) /\ 0 \in C /\ \A x \in C : x <= total
      /\ \A x \in C : total <= x + cap \/ \E y \in C : x < y /\ y <= x + cap
  <2>1. C \subseteq 0 .. total /\ 0 \in C
    BY DEF CutsWithin
  <2>2. IsFiniteSet(0 .. total)
    <3>1. 0 \in Int /\ total \in Int
      OBVIOUS
    <3> QED
      BY <3>1, FS_Interval
  <2>3. IsFiniteSet(C)
    BY <2>1, <2>2, FS_Subset
  <2>4. C \subseteq Nat /\ \A x \in C : x <= total
    BY <2>1
  <2> QED
    BY <2>1, <2>3, <2>4 DEF CutsWithin
<1>2. PICK f : f = InOrder(C)
  OBVIOUS
<1>3. Enumerates(f, C)
  BY <1>1, <1>2, InOrderEnumerates
<1>4. PICK n \in Nat : n = Len(f)
  BY <1>3 DEF Enumerates
<1>5. /\ f \in [1 .. n -> C] /\ f \in Seq(Nat) /\ n > 0 /\ f[1] = 0
      /\ \A i \in 1 .. n : f[i] \in C /\ f[i] \in Nat /\ f[i] <= total
      /\ \A i, j \in 1 .. n : i < j => f[i] < f[j]
      /\ \A x \in C : \E i \in 1 .. n : f[i] = x
  <2>1. Len(f) > 0 /\ f[1] = 0
    BY <1>1, <1>3, FirstInOrder
  <2>2. f \in [1 .. n -> C] /\ (\A i, j \in 1 .. n : i < j => f[i] < f[j])
    BY <1>3, <1>4 DEF Enumerates
  <2>3. \A x \in C : \E i \in 1 .. n : f[i] = x
    BY <1>3, <1>4 DEF Enumerates
  <2>4. \A i \in 1 .. n : f[i] \in C /\ f[i] \in Nat /\ f[i] <= total
    BY <1>1, <2>2
  <2>5. f \in [1 .. n -> Nat]
    BY <1>1, <2>2
  <2>6. f \in Seq(Nat)
    BY <2>5
  <2> QED
    BY <1>4, <2>1, <2>2, <2>3, <2>4, <2>6
<1>6. ASSUME NEW i \in 1 .. n - 1 PROVE f[i + 1] <= f[i] + cap
  <2>1. i \in 1 .. n /\ i + 1 \in 1 .. n
    BY <1>4
  <2>2. CASE total <= f[i] + cap
    BY <1>5, <2>1, <2>2
  <2>3. CASE \E y \in C : f[i] < y /\ y <= f[i] + cap
    <3>1. PICK y \in C : f[i] < y /\ y <= f[i] + cap
      BY <2>3
    <3>2. PICK j \in 1 .. n : f[j] = y
      BY <1>5
    <3>3. i < j
      <4>1. CASE j < i
        BY <1>5, <2>1, <3>1, <3>2, <4>1
      <4>2. CASE j = i
        BY <1>5, <2>1, <3>1, <3>2, <4>2
      <4> QED
        BY <4>1, <4>2
    <3>4. f[i + 1] <= f[j]
      <4>1. CASE j = i + 1
        BY <1>5, <2>1, <4>1
      <4>2. CASE j # i + 1
        <5>1. i + 1 < j
          BY <3>3, <4>2
        <5> QED
          BY <1>5, <2>1, <5>1
      <4> QED
        BY <4>1, <4>2
    <3> QED
      BY <1>5, <2>1, <3>1, <3>2, <3>4
  <2> QED
    BY <1>1, <1>5, <2>1, <2>2, <2>3
<1>7. total <= f[n] + cap
  <2> SUFFICES ASSUME NEW y \in C, f[n] < y PROVE FALSE
    BY <1>1, <1>4, <1>5
  <2>1. PICK j \in 1 .. n : f[j] = y
    BY <1>5
  <2>2. j < n \/ j = n
    OBVIOUS
  <2>3. n \in 1 .. n /\ f[n] \in Nat /\ f[j] \in Nat
    BY <1>4, <1>5
  <2> QED
    BY <1>5, <2>1, <2>2, <2>3
<1>8. Starts(f, total, cap)
  BY <1>4, <1>5, <1>6, <1>7 DEF Starts
<1> QED
  BY <1>2, <1>8

(* The frame an item of the page is in.                                    *)
FrameEnd(f, total, i) == IF i < Len(f) THEN f[i + 1] ELSE total

LEMMA FrameOfItem ==
    ASSUME NEW f, NEW total \in Nat, NEW cap \in Nat, Starts(f, total, cap), NEW x \in 1 .. total
    PROVE  \E i \in 1 .. Len(f) : f[i] < x /\ x <= FrameEnd(f, total, i)
<1>1. PICK n \in Nat : n = Len(f)
  BY DEF Starts
<1>2. /\ n > 0 /\ f[1] = 0 /\ \A i \in 1 .. n : f[i] \in Nat
  BY <1>1 DEF Starts
<1> DEFINE S == {i \in 1 .. n : f[i] < x}
<1>3. 1 \in S /\ S \subseteq 0 .. n
  BY <1>2
<1>4. PICK m \in S : \A i \in S : i <= m
  <2> HIDE DEF S
  <2>1. S # {}
    BY <1>3
  <2> QED
    BY <1>3, <2>1, MaxWithin
<1>5. m \in 1 .. n /\ f[m] < x
  OBVIOUS
<1>6. CASE m < n
  <2>1. m + 1 \in 1 .. n /\ m + 1 \notin S
    BY <1>4, <1>5, <1>6
  <2>2. x <= f[m + 1]
    BY <1>2, <2>1
  <2> QED
    BY <1>1, <1>5, <1>6, <2>2 DEF FrameEnd
<1>7. CASE m = n
  BY <1>1, <1>5, <1>7 DEF FrameEnd
<1> QED
  BY <1>5, <1>6, <1>7

-----------------------------------------------------------------------------
(* Pages.                                                                  *)

LEMMA SeqElements ==
    ASSUME NEW R, NEW s \in Seq(R)
    PROVE  Len(s) \in Nat /\ DOMAIN s = 1 .. Len(s) /\ \A i \in 1 .. Len(s) : s[i] \in R
  OBVIOUS

LEMMA SizesType ==
    ASSUME NEW b \in Boards, NEW p
    PROVE  /\ b.pages \subseteq Pages
           /\ SizesOf(b, p) \in Seq(Nat) /\ Len(SizesOf(b, p)) = Len(b.sections)
           /\ \A i \in 1 .. Len(b.sections) :
                 b.sections[i].page \notin {p} /\ p # NoPage => SizesOf(b, p)[i] = 0
           /\ \A i \in 1 .. Len(b.sections) : b.sections[i].page \in b.pages
<1> DEFINE s == b.sections
<1>1. b.pages \subseteq Pages /\ s \in Seq([page : b.pages, items : Nat])
  BY BoardsAssumption DEF Sections
<1>2. PICK n \in Nat : n = Len(s)
  BY <1>1
<1>3. DOMAIN s = 1 .. n /\ \A i \in 1 .. n : s[i].page \in b.pages /\ s[i].items \in Nat
  <2>1. DOMAIN s = 1 .. n /\ \A i \in 1 .. n : s[i] \in [page : b.pages, items : Nat]
    BY <1>1, <1>2, SeqElements
  <2> QED
    BY <2>1
<1> DEFINE f == SizesOf(b, p)
<1>4. f = [i \in 1 .. n |-> IF p \in {NoPage, s[i].page} THEN s[i].items ELSE 0]
  BY <1>3 DEF SizesOf
<1> HIDE DEF f, s
<1>5. f \in [1 .. n -> Nat] /\ \A i \in 1 .. n : s[i].page \notin {p} /\ p # NoPage => f[i] = 0
  BY <1>3, <1>4
<1>6. f \in Seq(Nat) /\ Len(f) = n
  BY <1>5
<1> QED
  BY <1>1, <1>2, <1>3, <1>5, <1>6 DEF f, s

LEMMA TotalType ==
    ASSUME NEW s, s \in Seq(Nat)
    PROVE  Total(s) \in Nat
<1>1. ItemsBefore(s) \in [0 .. Len(s) -> Nat] /\ Len(s) \in 0 .. Len(s)
  BY ItemsBeforeStep
<1> QED
  BY <1>1 DEF Total

(* Nothing of a page that is not on the board is drawn.                    *)
LEMMA OffBoard ==
    ASSUME NEW b \in Boards, NEW p \in Pages, p \notin b.pages
    PROVE  ItemsOf(b, p) = 0
<1> DEFINE s == SizesOf(b, p)
<1>1. s \in Seq(Nat) /\ \A i \in 1 .. Len(s) : s[i] = 0
  <2>1. p # NoPage
    BY PagesAssumption DEF NoPage
  <2> QED
    BY <2>1, SizesType
<1> HIDE DEF s
<1>2. PICK n \in Nat : n = Len(s)
  BY <1>1
<1>3. ItemsBefore(s)[0] = 0 /\ \A i \in 1 .. n : ItemsBefore(s)[i] = ItemsBefore(s)[i - 1] + s[i]
  BY <1>1, <1>2, ItemsBeforeStep
<1> DEFINE Z == {i \in 0 .. n : ItemsBefore(s)[i] = 0}
<1>4. 0 \in Z
  BY <1>3
<1>5. \A k \in 0 .. n - 1 : k \in Z => k + 1 \in Z
  <2> TAKE k \in 0 .. n - 1
  <2> HAVE k \in Z
  <2>1. k + 1 \in 1 .. n /\ (k + 1) - 1 = k /\ ItemsBefore(s)[k] = 0
    OBVIOUS
  <2>2. ItemsBefore(s)[k + 1] = ItemsBefore(s)[k] + s[k + 1] /\ s[k + 1] = 0
    BY <1>1, <1>2, <1>3, <2>1
  <2>3. ItemsBefore(s)[k + 1] = 0
    BY <2>1, <2>2
  <2> QED
    BY <2>1, <2>3
<1>6. n \in Z
  <2> HIDE DEF Z
  <2> QED
    BY <1>4, <1>5, UpTo
<1> QED
  BY <1>2, <1>6 DEF ItemsOf, Total, s

LEMMA LayoutStarts ==
    ASSUME NEW b \in Boards, NEW p \in Pages \cup {NoPage}, NEW c \in 1 .. Len(Wall) * Max(Capacities)
    PROVE  ItemsOf(b, p) \in Nat /\ Starts(Layout[b][p][c], ItemsOf(b, p), c)
<1> DEFINE s == SizesOf(b, p)
<1>1. s \in Seq(Nat)
  BY SizesType
<1>2. Layout[b][p][c] = InOrder(Cuts(s, c))
  BY DEF Layout
<1> HIDE DEF s
<1>3. c \in Nat \ {0} /\ Total(s) \in Nat
  <2>1. c \in Nat \ {0}
    OBVIOUS
  <2> QED
    BY <1>1, <2>1, TotalType
<1>4. CutsWithin(Cuts(s, c), Total(s), c)
  <2>1. Len(s) \in 0 .. Len(s)
    BY <1>1
  <2>2. \A i \in 0 .. Len(s) : CutsWithin(CutsUpTo(s, c)[i], ItemsBefore(s)[i], c)
    BY <1>1, <1>3, CutsUpToWithin
  <2> QED
    BY <2>1, <2>2 DEF Cuts, Total
<1>5. Starts(InOrder(Cuts(s, c)), Total(s), c)
  BY <1>3, <1>4, CutsInOrder
<1> QED
  BY <1>2, <1>3, <1>5 DEF ItemsOf, s

LEMMA FirstType ==
    ASSUME NEW ps, ps \subseteq Pages
    PROVE  /\ FirstOf(ps) \in Pages \cup {NoPage}
           /\ ps # {} => FirstOf(ps) \in ps
           /\ \A p : ps = {p} => FirstOf(ps) = p
<1>1. CASE ps = {}
  BY <1>1 DEF FirstOf
<1>2. CASE ps # {}
  <2>1. ps \subseteq Nat
    BY PagesAssumption
  <2>2. \E m \in ps : \A x \in ps : m <= x
    <3>1. PICK k \in ps : TRUE
      BY <1>2
    <3> SUFFICES ASSUME \A m \in ps : \E x \in ps : x < m PROVE FALSE
      BY <2>1
    <3> DEFINE T == {n \in 0 .. k : \E x \in ps : x + n <= k}
    <3>2. 0 \in T
      BY <2>1, <3>1
    <3>3. \A n \in 0 .. k - 1 : n \in T => n + 1 \in T
      <4> TAKE n \in 0 .. k - 1
      <4> HAVE n \in T
      <4>1. PICK x \in ps : x + n <= k
        OBVIOUS
      <4>2. PICK y \in ps : y < x
        OBVIOUS
      <4>3. y + (n + 1) <= k
        <5>1. x \in Nat /\ y \in Nat /\ k \in Nat
          BY <2>1
        <5> QED
          BY <4>1, <4>2, <5>1
      <4>4. n + 1 \in 0 .. k
        BY <2>1
      <4> QED
        BY <4>3, <4>4
    <3>4. k \in Nat
      BY <2>1, <3>1
    <3>5. k \in T
      <4> HIDE DEF T
      <4> QED
        BY <3>2, <3>3, <3>4, UpTo
    <3>6. PICK x \in ps : x + k <= k
      BY <3>5
    <3>7. x = 0
      BY <2>1, <3>4, <3>6
    <3> QED
      BY <2>1, <3>7
  <2>3. Min(ps) \in ps
    BY <2>2 DEF Min
  <2> QED
    BY <1>2, <2>3 DEF FirstOf
<1> QED
  BY <1>1, <1>2

(* The pages a screen draws: no one twice, each one it holds of the board, *)
(* and when there is but one, the first it holds if that is on the board.  *)
LEMMA RealPagesAre ==
    ASSUME NEW b \in Boards, NEW ps, ps \subseteq Pages, NEW q, q = RealPages(b, ps)
    PROVE  /\ q \in Seq(Pages \cup {NoPage}) /\ Len(q) > 0
           /\ \A i, j \in 1 .. Len(q) : q[i] = q[j] => i = j
           /\ \A p \in ps \cap b.pages : \E i \in 1 .. Len(q) : q[i] = p
           /\ Len(q) = 1 => q[1] = FirstOf(ps) \/ FirstOf(ps) \in Pages \ b.pages
<1> DEFINE S == ps \cap b.pages
<1>1. S \subseteq Nat /\ IsFiniteSet(S) /\ IsFiniteSet(ps) /\ S \subseteq Pages
  <2>1. S \subseteq Pages /\ Pages \subseteq Nat /\ IsFiniteSet(Pages)
    BY PagesAssumption
  <2>2. IsFiniteSet(S) /\ IsFiniteSet(ps)
    BY <2>1, FS_Subset
  <2> QED
    BY <2>1, <2>2
<1>2. CASE Cardinality(ps) > 1 /\ S # {}
  <2>1. q = InOrder(S)
    BY <1>2 DEF RealPages
  <2>2. Enumerates(q, S)
    <3> HIDE DEF S
    <3> QED
      BY <1>1, <2>1, InOrderEnumerates
  <2>3. PICK n \in Nat : n = Len(q)
    BY <2>2 DEF Enumerates
  <2>4. /\ q \in [1 .. n -> S]
        /\ \A p \in S : \E i \in 1 .. n : q[i] = p
        /\ \A i, j \in 1 .. n : i < j => q[i] < q[j]
    BY <2>2, <2>3 DEF Enumerates
  <2> HIDE DEF S
  <2>5. q \in [1 .. n -> Pages \cup {NoPage}] /\ \A i \in 1 .. n : q[i] \in Nat
    BY <1>1, <2>4
  <2>6. q \in Seq(Pages \cup {NoPage})
    BY <2>5
  <2>7. n > 0
    BY <1>2, <2>4
  <2>8. \A i, j \in 1 .. n : q[i] = q[j] => i = j
    <3> SUFFICES ASSUME NEW i \in 1 .. n, NEW j \in 1 .. n, q[i] = q[j], i # j PROVE FALSE
      OBVIOUS
    <3>1. i < j \/ j < i
      OBVIOUS
    <3> QED
      BY <2>4, <2>5, <3>1
  <2>9. FirstOf(ps) \in ps
    BY <1>2, FirstType DEF S
  <2>10. n = 1 => q[1] = FirstOf(ps) \/ FirstOf(ps) \in Pages \ b.pages
    <3> SUFFICES ASSUME n = 1, FirstOf(ps) \in b.pages PROVE q[1] = FirstOf(ps)
      BY <2>9
    <3>1. PICK i \in 1 .. n : q[i] = FirstOf(ps)
      BY <2>4, <2>9 DEF S
    <3>2. i = 1
      BY <3>1
    <3> QED
      BY <3>1, <3>2
  <2> QED
    BY <2>3, <2>4, <2>6, <2>7, <2>8, <2>10 DEF S
<1>3. CASE ~(Cardinality(ps) > 1 /\ S # {})
  <2>1. q = <<FirstOf(ps)>>
    BY <1>3 DEF RealPages
  <2>2. q \in Seq(Pages \cup {NoPage}) /\ Len(q) = 1 /\ q[1] = FirstOf(ps)
    <3>1. FirstOf(ps) \in Pages \cup {NoPage}
      BY FirstType
    <3> QED
      BY <2>1, <3>1
  <2>3. ASSUME NEW p \in S PROVE FirstOf(ps) = p
    <3>1. Cardinality(ps) \in Nat /\ ~(Cardinality(ps) > 1)
      BY <1>1, <1>3, <2>3, FS_CardinalityType
    <3>2. Cardinality(ps) # 0
      BY <1>1, <2>3, FS_EmptySet
    <3>3. Cardinality(ps) = 1
      BY <3>1, <3>2
    <3>4. PICK x : ps = {x}
      BY <1>1, <3>3, FS_Singleton
    <3>5. p = x
      BY <2>3, <3>4
    <3> QED
      BY <3>4, <3>5, FirstType
  <2>4. \A i, j \in 1 .. Len(q) : i = j
    BY <2>2
  <2>5. \A p \in S : \E i \in 1 .. Len(q) : q[i] = p
    <3> TAKE p \in S
    <3>1. 1 \in 1 .. Len(q) /\ q[1] = p
      BY <2>2, <2>3
    <3> QED
      BY <3>1
  <2> HIDE DEF S
  <2> QED
    BY <2>2, <2>4, <2>5 DEF S
<1> QED
  BY <1>2, <1>3

-----------------------------------------------------------------------------
(* The rows of a wall.                                                     *)

LEMMA SeqWiden ==
    ASSUME NEW A, NEW B, A \subseteq B, NEW s \in Seq(A)
    PROVE  s \in Seq(B)
<1>1. PICK n \in Nat : s \in [1 .. n -> A]
  OBVIOUS
<1>2. s \in [1 .. n -> B]
  BY <1>1
<1> QED
  BY <1>2

Begins(t, s) ==
    /\ s \in Seq(Nat) /\ t \in Seq(Nat) /\ Len(t) <= Len(s)
    /\ \A i \in 1 .. Len(t) : t[i] = s[i]

LEMMA PrefixTotal ==
    ASSUME NEW s, NEW t, Begins(t, s)
    PROVE  Total(t) = ItemsBefore(s)[Len(t)]
<1> USE DEF Begins
<1> PICK k \in Nat, n \in Nat : k = Len(t) /\ n = Len(s)
  OBVIOUS
<1>1. /\ ItemsBefore(s)[0] = 0 /\ ItemsBefore(t)[0] = 0
      /\ \A i \in 1 .. n : ItemsBefore(s)[i] = ItemsBefore(s)[i - 1] + s[i]
      /\ \A i \in 1 .. k : ItemsBefore(t)[i] = ItemsBefore(t)[i - 1] + t[i]
  BY ItemsBeforeStep
<1> DEFINE S == {i \in 0 .. k : ItemsBefore(t)[i] = ItemsBefore(s)[i]}
<1>2. 0 \in S
  BY <1>1
<1>3. \A j \in 0 .. k - 1 : j \in S => j + 1 \in S
  <2> TAKE j \in 0 .. k - 1
  <2> HAVE j \in S
  <2>1. j + 1 \in 1 .. k /\ j + 1 \in 1 .. n /\ (j + 1) - 1 = j
    OBVIOUS
  <2>2. /\ ItemsBefore(s)[j + 1] = ItemsBefore(s)[j] + s[j + 1]
        /\ ItemsBefore(t)[j + 1] = ItemsBefore(t)[j] + t[j + 1]
    BY <1>1, <2>1
  <2> QED
    BY <2>1, <2>2
<1>4. k \in S
  <2> HIDE DEF S
  <2>1. \A i \in 0 .. k : i \in S
    BY <1>2, <1>3, UpTo
  <2>2. k \in 0 .. k
    OBVIOUS
  <2> QED
    BY <2>1, <2>2
<1> QED
  BY <1>4 DEF Total

LEMMA MostIsMax ==
    ASSUME NEW S, S \subseteq Nat, IsFiniteSet(S), S # {}
    PROVE  Max(S) \in S /\ \A x \in S : x <= Max(S)
<1>1. PICK f : f = InOrder(S)
  OBVIOUS
<1>2. Enumerates(f, S)
  BY <1>1, InOrderEnumerates
<1>3. PICK n \in Nat : n = Len(f)
  BY <1>2 DEF Enumerates
<1>4. /\ f \in [1 .. n -> S]
      /\ \A x \in S : \E i \in 1 .. n : f[i] = x
      /\ \A i, j \in 1 .. n : i < j => f[i] < f[j]
  BY <1>2, <1>3 DEF Enumerates
<1>5. n \in 1 .. n /\ f[n] \in S
  <2>1. PICK x \in S : TRUE
    OBVIOUS
  <2>2. PICK i \in 1 .. n : f[i] = x
    BY <1>4
  <2>3. n \in 1 .. n
    OBVIOUS
  <2> QED
    BY <1>4, <2>3
<1>6. \A x \in S : x <= f[n]
  <2> TAKE x \in S
  <2>1. PICK i \in 1 .. n : f[i] = x
    BY <1>4
  <2>2. i < n \/ i = n
    OBVIOUS
  <2>3. f[n] \in Nat /\ x \in Nat
    BY <1>5
  <2> QED
    BY <1>4, <1>5, <2>1, <2>2, <2>3
<1> QED
  BY <1>5, <1>6 DEF Max

LEMMA TotalBounds ==
    ASSUME NEW s, s \in Seq(Capacities), Len(s) > 0, Len(s) <= Len(Wall)
    PROVE  Total(s) \in 1 .. Len(Wall) * Max(Capacities)
<1>1. /\ Max(Capacities) \in Capacities /\ \A c \in Capacities : c <= Max(Capacities)
      /\ Capacities \subseteq Nat /\ 0 \notin Capacities
  BY CapacitiesAssumption, MostIsMax
<1> PICK m \in Nat \ {0} : m = Max(Capacities)
  BY <1>1
<1> PICK n \in Nat : n = Len(s)
  OBVIOUS
<1> PICK w \in Nat : w = Len(Wall)
  BY WallAssumption
<1>2. s \in Seq(Nat) /\ \A i \in 1 .. n : s[i] \in Nat /\ 1 <= s[i] /\ s[i] <= m
  <2>1. \A i \in 1 .. n : s[i] \in Capacities
    BY SeqElements
  <2>2. s \in Seq(Nat)
    BY <1>1, SeqWiden
  <2>3. \A c \in Capacities : c \in Nat /\ 1 <= c /\ c <= m
    BY <1>1
  <2> QED
    BY <2>1, <2>2, <2>3
<1>3. /\ ItemsBefore(s)[0] = 0
      /\ \A i \in 1 .. n : ItemsBefore(s)[i] = ItemsBefore(s)[i - 1] + s[i]
      /\ \A i \in 0 .. n : ItemsBefore(s)[i] \in Nat
  BY <1>2, ItemsBeforeStep
<1> DEFINE S == {i \in 0 .. n : i <= ItemsBefore(s)[i] /\ ItemsBefore(s)[i] <= m * i}
<1>4. 0 \in S
  BY <1>3
<1>5. \A j \in 0 .. n - 1 : j \in S => j + 1 \in S
  <2> TAKE j \in 0 .. n - 1
  <2> HAVE j \in S
  <2>1. j \in Nat /\ j + 1 \in 1 .. n /\ (j + 1) - 1 = j
    OBVIOUS
  <2>2. ItemsBefore(s)[j + 1] = ItemsBefore(s)[j] + s[j + 1]
    BY <1>3, <2>1
  <2>3. s[j + 1] \in Nat /\ 1 <= s[j + 1] /\ s[j + 1] <= m /\ ItemsBefore(s)[j] \in Nat
    BY <1>2, <1>3, <2>1
  <2>4. m * (j + 1) = m * j + m /\ m * j \in Nat
    BY <2>1, Multiples
  <2>5. j + 1 <= ItemsBefore(s)[j + 1] /\ ItemsBefore(s)[j + 1] <= m * (j + 1)
    BY <2>1, <2>2, <2>3, <2>4
  <2> QED
    BY <2>1, <2>5
<1>6. n \in S
  <2> HIDE DEF S
  <2>1. \A i \in 0 .. n : i \in S
    BY <1>4, <1>5, UpTo
  <2>2. n \in 0 .. n
    OBVIOUS
  <2> QED
    BY <2>1, <2>2
<1>7. m * n <= m * w
  <2>1. CASE n = w
    BY <2>1
  <2>2. CASE n < w
    <3>1. m * n + m <= m * w /\ m * n \in Nat /\ m * w \in Nat
      BY <2>2, Multiples
    <3> QED
      BY <3>1
  <2> QED
    BY <2>1, <2>2
<1>8. ItemsBefore(s)[n] \in 1 .. w * m
  <2>1. n <= ItemsBefore(s)[n] /\ ItemsBefore(s)[n] <= m * n /\ ItemsBefore(s)[n] \in Nat
    BY <1>3, <1>6
  <2>2. m * w \in Nat /\ m * n \in Nat /\ m * w = w * m
    OBVIOUS
  <2> QED
    BY <1>7, <2>1, <2>2
<1> QED
  BY <1>8 DEF Total

(* The part of n + m that falls to one of s after those before it.         *)
LEMMA PartOf ==
    ASSUME NEW s, s \in Seq(Nat), NEW x \in 1 .. Total(s)
    PROVE  \E i \in 1 .. Len(s) : ItemsBefore(s)[i - 1] < x /\ x <= ItemsBefore(s)[i - 1] + s[i]
<1> PICK n \in Nat : n = Len(s)
  OBVIOUS
<1> DEFINE B == ItemsBefore(s)
<1>1. /\ B[0] = 0 /\ x <= B[n]
      /\ \A i \in 1 .. n : B[i] = B[i - 1] + s[i]
      /\ \A i \in 0 .. n : B[i] \in Nat
  <2>1. /\ B \in [0 .. n -> Nat] /\ B[0] = 0
        /\ \A i \in 1 .. n : B[i] = B[i - 1] + s[i]
    BY ItemsBeforeStep
  <2>2. B[n] = Total(s)
    BY DEF Total
  <2> HIDE DEF B
  <2> QED
    BY <2>1, <2>2
<1> HIDE DEF B
<1> DEFINE S == {i \in 0 .. n : B[i] < x}
<1>2. 0 \in S /\ S \subseteq 0 .. n
  BY <1>1
<1>3. PICK m \in S : \A i \in S : i <= m
  <2> HIDE DEF S
  <2>1. S # {}
    BY <1>2
  <2> QED
    BY <1>2, <2>1, MaxWithin
<1>4. m \in 0 .. n /\ B[m] < x /\ m # n
  BY <1>1
<1>5. m + 1 \in 1 .. n /\ (m + 1) - 1 = m /\ m + 1 \notin S
  BY <1>3, <1>4
<1>6. x <= B[m + 1]
  BY <1>1, <1>5
<1>7. B[m + 1] = B[m] + s[m + 1]
  BY <1>1, <1>5
<1> QED
  BY <1>4, <1>5, <1>6, <1>7 DEF B

Caps(rows) == [i \in DOMAIN rows |-> rows[i].cap]

Alone(s, c) == <<[screen |-> s, cap |-> c]>>
Grouped(g) == [i \in DOMAIN Wall |-> [screen |-> Wall[i], cap |-> g[Wall[i]]]]

LEMMA AloneIs ==
    ASSUME NEW s, NEW c \in Capacities
    PROVE  /\ Sum(Alone(s, c)) = c /\ Offset(Alone(s, c), s) = 0
           /\ Len(Alone(s, c)) = 1
           /\ Sum(Alone(s, c)) \in 1 .. Len(Wall) * Max(Capacities)
<1> DEFINE rows == Alone(s, c)
<1>0. c \in Nat
  BY CapacitiesAssumption
<1>1. Len(rows) = 1 /\ DOMAIN rows = {1} /\ rows[1].screen = s /\ rows[1].cap = c
  BY DEF Alone
<1>2. Position(rows, s) = 1
  BY <1>1 DEF Position
<1>3. SubSeq(rows, 1, 0) = <<>>
  BY <1>1 DEF Alone
<1> PICK t : t = Caps(rows)
  OBVIOUS
<1>4. t \in Seq(Capacities) /\ Len(t) = 1 /\ t[1] = c
  <2>1. t = [i \in {1} |-> c]
    BY <1>1 DEF Caps
  <2>2. t = <<c>>
    BY <2>1
  <2> QED
    BY <2>2
<1>5. Total(t) = c
  <2>1. t \in Seq(Nat)
    BY <1>4, CapacitiesAssumption, SeqWiden
  <2>2. ItemsBefore(t)[0] = 0 /\ ItemsBefore(t)[1] = ItemsBefore(t)[1 - 1] + t[1]
    BY <1>4, <2>1, ItemsBeforeStep
  <2> QED
    BY <1>0, <1>4, <2>2 DEF Total
<1>6. Total(t) \in 1 .. Len(Wall) * Max(Capacities)
  <2>1. Len(Wall) \in Nat /\ Len(t) > 0 /\ Len(t) <= Len(Wall)
    BY <1>4, WallAssumption
  <2> QED
    BY <1>4, <2>1, TotalBounds
<1>7. Sum(<<>>) = 0
  <2> PICK u : u = [i \in DOMAIN <<>> |-> <<>>[i].cap]
    OBVIOUS
  <2>1. u = <<>>
    OBVIOUS
  <2>2. u \in Seq(Nat) /\ Len(u) = 0
    BY <2>1
  <2>3. ItemsBefore(u)[0] = 0
    BY <2>2, ItemsBeforeStep
  <2>4. Total(u) = 0
    BY <2>2, <2>3 DEF Total
  <2> QED
    BY <2>4 DEF Sum
<1>8. Sum(rows) = Total(t)
  BY DEF Sum, Caps
<1>9. Offset(rows, s) = 0
  <2>1. Position(rows, s) - 1 = 0
    BY <1>2
  <2> HIDE DEF rows
  <2> QED
    BY <1>3, <1>7, <2>1 DEF Offset
<1> QED
  BY <1>1, <1>5, <1>6, <1>8, <1>9

LEMMA GroupedIs ==
    ASSUME NEW g \in [Screens -> Capacities]
    PROVE  /\ Sum(Grouped(g)) \in 1 .. Len(Wall) * Max(Capacities)
           /\ Len(Grouped(g)) > 1
           /\ \A s \in Screens : Offset(Grouped(g), s) \in Nat
           /\ \A x \in 1 .. Sum(Grouped(g)) : \E s \in Screens :
                 Offset(Grouped(g), s) < x /\ x <= Offset(Grouped(g), s) + g[s]
<1> PICK rows : rows = Grouped(g)
  OBVIOUS
<1> PICK n \in Nat : n = Len(Wall) /\ n > 1
  BY WallAssumption
<1>1. DOMAIN Wall = 1 .. n /\ Screens = {Wall[i] : i \in 1 .. n}
  BY WallAssumption DEF Screens, ToSet
<1>2. /\ rows = [i \in 1 .. n |-> [screen |-> Wall[i], cap |-> g[Wall[i]]]]
      /\ DOMAIN rows = 1 .. n /\ Len(rows) = n
      /\ \A i \in 1 .. n : rows[i].screen = Wall[i] /\ rows[i].cap = g[Wall[i]]
      /\ \A i \in 1 .. n : Wall[i] \in Screens /\ g[Wall[i]] \in Capacities
  BY <1>1 DEF Grouped
<1> PICK t : t = Caps(rows)
  OBVIOUS
<1>3. /\ t \in Seq(Capacities) /\ Len(t) = n /\ \A i \in 1 .. n : t[i] = g[Wall[i]]
      /\ Sum(rows) = Total(t)
  <2>1. t = [i \in 1 .. n |-> g[Wall[i]]]
    BY <1>2 DEF Caps
  <2>2. t \in [1 .. n -> Capacities]
    BY <1>2, <2>1
  <2>3. t \in Seq(Capacities)
    BY <2>2
  <2> QED
    BY <2>1, <2>3 DEF Sum, Caps
<1>4. t \in Seq(Nat)
  BY <1>3, CapacitiesAssumption, SeqWiden
<1>5. Total(t) \in 1 .. Len(Wall) * Max(Capacities)
  BY <1>3, TotalBounds
<1>6. ASSUME NEW i \in 1 .. n PROVE Offset(rows, Wall[i]) = ItemsBefore(t)[i - 1]
  <2>1. Position(rows, Wall[i]) = i
    <3>1. \A j \in 1 .. n : rows[j].screen = Wall[i] => j = i
      BY <1>1, <1>2, WallAssumption DEF IsInjective
    <3> QED
      BY <1>2, <3>1 DEF Position
  <2> PICK k \in Nat : k = i - 1 /\ k <= n
    OBVIOUS
  <2> PICK r : r = SubSeq(rows, 1, k)
    OBVIOUS
  <2>2. DOMAIN r = 1 .. k /\ \A j \in 1 .. k : r[j] = rows[j]
    BY <1>2
  <2> PICK u : u = [j \in DOMAIN r |-> r[j].cap]
    OBVIOUS
  <2>3. u = [j \in 1 .. k |-> rows[j].cap]
    BY <2>2
  <2>4. u \in [1 .. k -> Nat] /\ \A j \in 1 .. k : u[j] = t[j]
    <3>1. \A j \in 1 .. k : j \in 1 .. n
      OBVIOUS
    <3>2. \A j \in 1 .. k : rows[j].cap = t[j] /\ t[j] \in Nat
      BY <1>2, <1>3, <3>1, CapacitiesAssumption
    <3> QED
      BY <2>3, <3>2
  <2>5. u \in Seq(Nat) /\ Len(u) = k
    BY <2>4
  <2>6. Total(u) = ItemsBefore(t)[k]
    <3>1. Len(u) <= Len(t) /\ \A j \in 1 .. Len(u) : u[j] = t[j]
      BY <1>3, <2>4, <2>5
    <3>2. Begins(u, t)
      BY <1>4, <2>5, <3>1 DEF Begins
    <3>3. Total(u) = ItemsBefore(t)[Len(u)]
      BY <3>2, PrefixTotal, Zenon
    <3> QED
      BY <2>5, <3>3
  <2>7. Sum(r) = Total(u)
    BY DEF Sum
  <2> QED
    BY <2>1, <2>6, <2>7 DEF Offset
<1>7. \A i \in 0 .. n : ItemsBefore(t)[i] \in Nat
  BY <1>3, <1>4, ItemsBeforeStep
<1>8. ASSUME NEW s \in Screens PROVE Offset(rows, s) \in Nat
  <2>1. PICK i \in 1 .. n : s = Wall[i]
    BY <1>1
  <2>2. i - 1 \in 0 .. n
    OBVIOUS
  <2> QED
    BY <1>6, <1>7, <2>1, <2>2
<1>9. ASSUME NEW x \in 1 .. Sum(rows)
      PROVE  \E s \in Screens : Offset(rows, s) < x /\ x <= Offset(rows, s) + g[s]
  <2>1. PICK i \in 1 .. n : ItemsBefore(t)[i - 1] < x /\ x <= ItemsBefore(t)[i - 1] + t[i]
    BY <1>3, <1>4, PartOf
  <2>2. Wall[i] \in Screens /\ t[i] = g[Wall[i]] /\ Offset(rows, Wall[i]) = ItemsBefore(t)[i - 1]
    BY <1>2, <1>3, <1>6
  <2> QED
    BY <2>1, <2>2
<1> QED
  BY <1>2, <1>3, <1>5, <1>8, <1>9

-----------------------------------------------------------------------------
(***************************************************************************)
(* A request's way to an answer, and what an answer holds.                 *)
(***************************************************************************)
AnyPage == Pages \cup {NoPage}
FrameSet == [page : AnyPage, items : SUBSET (AnyPage \X Nat)]
RowsFor(s, c) == {Alone(s, c)} \cup {Grouped(g) : g \in [Screens -> Capacities]}
AnyRows == UNION {RowsFor(s, c) : s \in Screens, c \in Capacities}
WallHolds == 1 .. Len(Wall) * Max(Capacities)

(* What a request has settled on when it expands its pages.                *)
Views == [board : Boards, cap : Capacities, capacity : WallHolds, offset : Nat]
ViewOf(r) == [board |-> r.board, cap |-> r.cap, capacity |-> r.capacity, offset |-> r.offset]

CutsOf(v, p) == Layout[v.board][p][v.capacity]
FramesOf(v, p) == 1 .. Len(CutsOf(v, p))
Frame(v, p, i) ==
    [page  |-> p,
     items |-> Part(v, p, CutsOf(v, p)[i], FrameEnd(CutsOf(v, p), ItemsOf(v.board, p), i))]

(* The frames fs are those of the first k pages of ps; a screen of its own *)
(* shows no item on two of them.                                           *)
Expanded(v, ps, k, fs) ==
    /\ fs \in Seq(FrameSet)
    /\ \A j \in 1 .. Len(fs) : \E m \in 1 .. k : \E i \in FramesOf(v, ps[m]) : fs[j] = Frame(v, ps[m], i)
    /\ \A m \in 1 .. k : \A i \in FramesOf(v, ps[m]) : \E j \in 1 .. Len(fs) : fs[j] = Frame(v, ps[m], i)
    /\ v.offset = 0 =>
          \A i, j \in 1 .. Len(fs) : i # j /\ fs[i].page = fs[j].page => fs[i].items \cap fs[j].items = {}
    /\ k <= Len(fs)
    /\ \A m \in 1 .. k : Len(CutsOf(v, ps[m])) <= Len(fs)

AskedBoard ==
    [at : {"board"}, screen : Screens, cap : Capacities, inWall : BOOLEAN, held : SUBSET Pages,
     board : {NoBoard}]
AskedWall ==
    [at : {"wall"}, screen : Screens, cap : Capacities, inWall : BOOLEAN, held : SUBSET Pages,
     board : Boards]
AskedPages ==
    [at : {"pages"}, screen : Screens, cap : Capacities, held : SUBSET Pages, board : Boards,
     rows : AnyRows, capacity : WallHolds, offset : Nat,
     todo : Seq(AnyPage), frames : Seq(FrameSet)]

Underway(r) ==
    /\ r \in AskedPages
    /\ r.rows \in RowsFor(r.screen, r.cap)
    /\ r.capacity = Sum(r.rows) /\ r.offset = Offset(r.rows, r.screen)
    /\ LET ps == RealPages(r.board, r.held)
       IN  \E k \in 0 .. Len(ps) :
              r.todo = SubSeq(ps, k + 1, Len(ps)) /\ Expanded(ViewOf(r), ps, k, r.frames)

SentView(c, s) ==
    [board |-> c.board, cap |-> c.cap, capacity |-> Sum(c.rows), offset |-> Offset(c.rows, s)]

Sent(c, s) ==
    /\ c.board \in Boards /\ c.held \subseteq Pages /\ c.cap \in Capacities
    /\ c.rows \in RowsFor(s, c.cap)
    /\ c.single = Slice(ItemsOf(c.board, FirstOf(c.held)), FirstOf(c.held), Offset(c.rows, s), c.cap)
    /\ LET v == SentView(c, s)
           ps == RealPages(c.board, c.held)
       IN  \/ c.pages = <<>> /\ Len(ps) = 1 /\ Len(CutsOf(v, ps[1])) = 1
           \/ Len(c.pages) > 1 /\ Expanded(v, ps, Len(ps), c.pages)

VenueOK ==
    /\ board \in Boards
    /\ held \in [Screens -> SUBSET Pages]
    /\ grid \in [Screens -> Capacities]
    /\ walled \in BOOLEAN

RequestOK == req = Idle \/ req \in AskedBoard \/ req \in AskedWall \/ Underway(req)

ContentOK ==
    /\ DOMAIN content = Screens
    /\ \A s \in Screens : content[s] = NoContent \/ Sent(content[s], s)

FramingInv == VenueOK /\ RequestOK /\ ContentOK

(* The cuts of a page a request draws.                                     *)
LEMMA CutsOfStart ==
    ASSUME NEW v \in Views, NEW p \in AnyPage
    PROVE  /\ ItemsOf(v.board, p) \in Nat
           /\ Starts(CutsOf(v, p), ItemsOf(v.board, p), v.capacity)
           /\ Len(CutsOf(v, p)) \in Nat \ {0}
           /\ \A i \in FramesOf(v, p) :
                 /\ CutsOf(v, p)[i] \in Nat
                 /\ FrameEnd(CutsOf(v, p), ItemsOf(v.board, p), i) \in Nat
                 /\ CutsOf(v, p)[i] <= FrameEnd(CutsOf(v, p), ItemsOf(v.board, p), i)
                 /\ FrameEnd(CutsOf(v, p), ItemsOf(v.board, p), i) <= CutsOf(v, p)[i] + v.capacity
                 /\ FrameEnd(CutsOf(v, p), ItemsOf(v.board, p), i) <= ItemsOf(v.board, p)
           /\ \A i, j \in FramesOf(v, p) : i < j =>
                 FrameEnd(CutsOf(v, p), ItemsOf(v.board, p), i) <= CutsOf(v, p)[j]
<1> PICK f, T : f = CutsOf(v, p) /\ T = ItemsOf(v.board, p)
  OBVIOUS
<1>1. v.board \in Boards /\ v.capacity \in 1 .. Len(Wall) * Max(Capacities)
  BY DEF Views, WallHolds
<1>2. T \in Nat /\ Starts(f, T, v.capacity)
  BY <1>1, LayoutStarts DEF CutsOf, AnyPage
<1> PICK n \in Nat : n = Len(f)
  BY <1>2 DEF Starts
<1>3. /\ n > 0 /\ \A i \in 1 .. n : f[i] \in Nat /\ f[i] <= T
      /\ \A i, j \in 1 .. n : i < j => f[i] < f[j]
      /\ \A i \in 1 .. n - 1 : f[i + 1] <= f[i] + v.capacity
      /\ T <= f[n] + v.capacity
  BY <1>2 DEF Starts
<1>c. v.capacity \in Nat
  BY <1>1
<1>4. ASSUME NEW i \in 1 .. n
      PROVE  /\ FrameEnd(f, T, i) \in Nat
             /\ f[i] <= FrameEnd(f, T, i) /\ FrameEnd(f, T, i) <= f[i] + v.capacity
             /\ FrameEnd(f, T, i) <= T
  <2>1. CASE i < n
    <3>1. i + 1 \in 1 .. n /\ i \in 1 .. n - 1 /\ i < i + 1
      BY <2>1
    <3>2. FrameEnd(f, T, i) = f[i + 1]
      BY <2>1 DEF FrameEnd
    <3>3. f[i] < f[i + 1] /\ f[i + 1] \in Nat /\ f[i] \in Nat /\ f[i + 1] <= T
      BY <1>3, <3>1
    <3> QED
      BY <1>3, <3>1, <3>2, <3>3
  <2>2. CASE i = n
    <3>1. FrameEnd(f, T, i) = T
      BY <2>2 DEF FrameEnd
    <3> QED
      BY <1>2, <1>3, <2>2, <3>1
  <2> QED
    BY <2>1, <2>2
<1>5. ASSUME NEW i \in 1 .. n, NEW j \in 1 .. n, i < j PROVE FrameEnd(f, T, i) <= f[j]
  <2>1. i + 1 \in 1 .. n /\ FrameEnd(f, T, i) = f[i + 1]
    BY <1>5 DEF FrameEnd
  <2>2. i + 1 = j \/ i + 1 < j
    BY <1>5
  <2>3. f[i + 1] \in Nat /\ f[j] \in Nat
    BY <1>3, <2>1
  <2> QED
    BY <1>3, <2>1, <2>2, <2>3
<1> QED
  BY <1>2, <1>3, <1>4, <1>5 DEF FramesOf

(* The items of a page on a frame of it, as this screen slices it.         *)
LEMMA FrameItems ==
    ASSUME NEW v \in Views, NEW p \in AnyPage, NEW i \in FramesOf(v, p),
           NEW from, from = CutsOf(v, p)[i],
           NEW to, to = FrameEnd(CutsOf(v, p), ItemsOf(v.board, p), i)
    PROVE  /\ Frame(v, p, i).page = p
           /\ Frame(v, p, i) \in FrameSet
           /\ \A x : x \in Frame(v, p, i).items <=>
                 \E n \in Nat : /\ x = <<p, n>>
                                /\ v.offset + from < n /\ n <= ItemsOf(v.board, p)
                                /\ n <= v.offset + from + v.cap /\ n <= v.offset + to
<1>1. v.offset \in Nat /\ v.cap \in Nat
  BY CapacitiesAssumption DEF Views
<1>2. from \in Nat /\ to \in Nat /\ from <= to /\ ItemsOf(v.board, p) \in Nat
  BY CutsOfStart
<1> PICK T \in Nat, o \in Nat, c \in Nat : T = ItemsOf(v.board, p) /\ o = v.offset /\ c = v.cap
  BY <1>1, <1>2
<1> DEFINE I == (o + from + 1) .. Smaller(o + from + Smaller(c, to - from), T)
<1>3. Frame(v, p, i) = [page |-> p, items |-> {p} \X I]
  BY DEF Frame, Part, Slice
<1>4. \A n : n \in I <=> n \in Nat /\ o + from < n /\ n <= T /\ n <= o + from + c /\ n <= o + to
  <2> TAKE n
  <2>1. CASE n \in Nat
    BY <1>2, <2>1 DEF Smaller
  <2>2. CASE n \notin Nat
    BY <1>2, <2>2 DEF Smaller
  <2> QED
    BY <2>1, <2>2
<1> HIDE DEF I
<1>5. \A x : x \in Frame(v, p, i).items <=> \E n \in I : x = <<p, n>>
  BY <1>3
<1>6. I \subseteq Nat
  BY <1>4
<1>7. Frame(v, p, i) \in FrameSet
  <2> PICK J : J = {p} \X I
    OBVIOUS
  <2>1. J \in SUBSET (AnyPage \X Nat)
    BY <1>6
  <2>2. Frame(v, p, i) = [page |-> p, items |-> J]
    BY <1>3
  <2> QED
    BY <2>1, <2>2 DEF FrameSet
<1>8. Frame(v, p, i).page = p
  BY <1>3
<1>9. \A x : x \in Frame(v, p, i).items <=>
         \E n \in Nat : x = <<p, n>> /\ o + from < n /\ n <= T /\ n <= o + from + c /\ n <= o + to
  BY <1>4, <1>5
<1> QED
  BY <1>7, <1>8, <1>9

(* A screen of its own shows no item of a page on two frames.              *)
LEMMA FramesApart ==
    ASSUME NEW v \in Views, NEW p \in AnyPage, v.offset = 0,
           NEW i \in FramesOf(v, p), NEW j \in FramesOf(v, p), i # j
    PROVE  Frame(v, p, i).items \cap Frame(v, p, j).items = {}
<1>1. ASSUME NEW a \in FramesOf(v, p), NEW b \in FramesOf(v, p), a < b, NEW x,
             x \in Frame(v, p, a).items, x \in Frame(v, p, b).items
      PROVE  FALSE
  <2> PICK to, from : /\ to = FrameEnd(CutsOf(v, p), ItemsOf(v.board, p), a)
                      /\ from = CutsOf(v, p)[b]
    OBVIOUS
  <2>1. to <= from /\ to \in Nat /\ from \in Nat
    BY <1>1, CutsOfStart
  <2>2. PICK n \in Nat : x = <<p, n>> /\ n <= v.offset + to
    BY <1>1, FrameItems
  <2>3. PICK m \in Nat : x = <<p, m>> /\ v.offset + from < m
    BY <1>1, FrameItems
  <2>4. n = m
    BY <2>2, <2>3
  <2> QED
    BY <2>1, <2>2, <2>3, <2>4
<1>2. i < j \/ j < i
  BY DEF FramesOf
<1> QED
  BY <1>1, <1>2

(* The item of a frame that falls to this screen is on it.                 *)
InFrame(f, total, i, n) == f[i] < n /\ n <= FrameEnd(f, total, i)

LEMMA FrameHas ==
    ASSUME NEW v \in Views, NEW p \in AnyPage, NEW i \in FramesOf(v, p), NEW n \in 1 .. ItemsOf(v.board, p),
           InFrame(CutsOf(v, p), ItemsOf(v.board, p), i, n)
    PROVE  /\ n - CutsOf(v, p)[i] \in 1 .. v.capacity
           /\ v.offset < n - CutsOf(v, p)[i] /\ n - CutsOf(v, p)[i] <= v.offset + v.cap
                 => <<p, n>> \in Frame(v, p, i).items
<1>1. ItemsOf(v.board, p) \in Nat /\ v.offset \in Nat /\ v.cap \in Nat /\ v.capacity \in Nat
  <2>1. v.offset \in Nat /\ v.cap \in Capacities /\ v.capacity \in 1 .. Len(Wall) * Max(Capacities)
    BY DEF Views, WallHolds
  <2>2. ItemsOf(v.board, p) \in Nat
    BY CutsOfStart
  <2>3. v.capacity \in Nat
    BY <2>1
  <2> QED
    BY <2>1, <2>2, <2>3, CapacitiesAssumption
<1> PICK from, to : from = CutsOf(v, p)[i] /\ to = FrameEnd(CutsOf(v, p), ItemsOf(v.board, p), i)
  OBVIOUS
<1>2. from < n /\ n <= to
  BY DEF InFrame
<1>3. from \in Nat /\ to \in Nat /\ to <= from + v.capacity
  BY CutsOfStart
<1>4. n - from \in 1 .. v.capacity
  BY <1>1, <1>2, <1>3
<1>5. ASSUME v.offset < n - from, n - from <= v.offset + v.cap PROVE <<p, n>> \in Frame(v, p, i).items
  <2>1. /\ v.offset + from < n /\ n <= ItemsOf(v.board, p)
        /\ n <= v.offset + from + v.cap /\ n <= v.offset + to /\ n \in Nat
    BY <1>1, <1>2, <1>3, <1>5
  <2> QED
    BY <2>1, FrameItems
<1> QED
  BY <1>4, <1>5

(* Every item of a page is in one of its frames.                           *)
LEMMA InSomeFrame ==
    ASSUME NEW v \in Views, NEW p \in AnyPage, NEW n \in 1 .. ItemsOf(v.board, p)
    PROVE  \E i \in FramesOf(v, p) : InFrame(CutsOf(v, p), ItemsOf(v.board, p), i, n)
<1>1. /\ ItemsOf(v.board, p) \in Nat /\ v.capacity \in Nat
      /\ Starts(CutsOf(v, p), ItemsOf(v.board, p), v.capacity)
  <2>1. v.capacity \in 1 .. Len(Wall) * Max(Capacities)
    BY DEF Views, WallHolds
  <2> QED
    BY <2>1, CutsOfStart
<1> QED
  BY <1>1, FrameOfItem DEF FramesOf, InFrame

LEMMA ViewOfRequest ==
    ASSUME NEW r \in AskedPages
    PROVE  ViewOf(r) \in Views
  BY DEF ViewOf, Views, AskedPages

(* ExpandVirtualPages makes the frames of its page.                        *)
LEMMA ExpandIs ==
    ASSUME NEW r, NEW v, v = ViewOf(r), v \in Views, NEW p \in AnyPage
    PROVE  /\ Expand(r, p) \in Seq(FrameSet) /\ Len(Expand(r, p)) = Len(CutsOf(v, p))
           /\ \A i \in FramesOf(v, p) : Expand(r, p)[i] = Frame(v, p, i)
<1> PICK f, T : f = CutsOf(v, p) /\ T = ItemsOf(v.board, p)
  OBVIOUS
<1>1. /\ v.board = r.board /\ v.cap = r.cap /\ v.capacity = r.capacity /\ v.offset = r.offset
  BY DEF ViewOf
<1>2. f = Layout[r.board][p][r.capacity]
  BY <1>1 DEF CutsOf
<1>3. f \in Seq(Nat)
  BY CutsOfStart DEF Starts
<1> PICK n \in Nat : n = Len(f) /\ DOMAIN f = 1 .. n
  BY <1>3
<1>4. \A from, to : Part(r, p, from, to) = Part(v, p, from, to)
  BY <1>1 DEF Part
<1>5. Expand(r, p) = [i \in 1 .. n |-> [page |-> p, items |-> Part(r, p, f[i], FrameEnd(f, T, i))]]
  BY <1>1, <1>2 DEF Expand, FrameEnd
<1>6. \A i \in 1 .. n : Expand(r, p)[i] = Frame(v, p, i)
  BY <1>4, <1>5 DEF Frame
<1>7. \A i \in 1 .. n : Frame(v, p, i) \in FrameSet
  BY FrameItems DEF FramesOf
<1>8. Expand(r, p) \in [1 .. n -> FrameSet]
  <2>1. DOMAIN Expand(r, p) = 1 .. n /\ Expand(r, p) = [i \in 1 .. n |-> Expand(r, p)[i]]
    BY <1>5
  <2> QED
    BY <1>6, <1>7, <2>1
<1>9. Expand(r, p) \in Seq(FrameSet) /\ Len(Expand(r, p)) = n
  BY <1>8
<1> QED
  BY <1>6, <1>9 DEF FramesOf

LEMMA ExpandedNone ==
    ASSUME NEW v \in Views, NEW ps
    PROVE  Expanded(v, ps, 0, <<>>)
<1>1. <<>> \in Seq(FrameSet) /\ Len(<<>>) = 0 /\ 1 .. 0 = {}
  OBVIOUS
<1> QED
  BY <1>1 DEF Expanded

Joins(c, a, b, R) ==
    /\ c \in Seq(R) /\ Len(c) = Len(a) + Len(b)
    /\ \A i \in 1 .. Len(a) : i \in 1 .. Len(c) /\ c[i] = a[i]
    /\ \A i \in 1 .. Len(b) : Len(a) + i \in 1 .. Len(c) /\ c[Len(a) + i] = b[i]
    /\ \A i \in 1 .. Len(c) : i \in 1 .. Len(a) \/ \E j \in 1 .. Len(b) : i = Len(a) + j

LEMMA Joined ==
    ASSUME NEW R, NEW a \in Seq(R), NEW b \in Seq(R)
    PROVE  Joins(a \o b, a, b, R)
<1>1. PICK n \in Nat, m \in Nat : n = Len(a) /\ m = Len(b)
  OBVIOUS
<1>2. /\ a \o b \in Seq(R) /\ Len(a \o b) = n + m
      /\ \A i \in 1 .. n : i \in 1 .. n + m /\ (a \o b)[i] = a[i]
      /\ \A i \in 1 .. m : n + i \in 1 .. n + m /\ (a \o b)[n + i] = b[i]
  BY <1>1
<1>3. ASSUME NEW i \in 1 .. n + m, i \notin 1 .. n PROVE \E j \in 1 .. m : i = n + j
  <2>1. i - n \in 1 .. m /\ i = n + (i - n)
    BY <1>3
  <2> QED
    BY <2>1
<1> QED
  BY <1>1, <1>2, <1>3 DEF Joins

(* One page more.                                                          *)
OneMore(v, ps, k, fs, e) ==
    /\ v \in Views /\ ps \in Seq(AnyPage)
    /\ \A i, j \in 1 .. Len(ps) : ps[i] = ps[j] => i = j
    /\ k \in Nat /\ k < Len(ps)
    /\ Expanded(v, ps, k, fs)
    /\ e \in Seq(FrameSet) /\ Len(e) = Len(CutsOf(v, ps[k + 1]))
    /\ \A i \in FramesOf(v, ps[k + 1]) : e[i] = Frame(v, ps[k + 1], i)

LEMMA ExpandedMore ==
    ASSUME NEW v, NEW ps, NEW k, NEW fs, NEW e, OneMore(v, ps, k, fs, e)
    PROVE  Expanded(v, ps, k + 1, fs \o e)
<1>1. /\ v \in Views /\ ps \in Seq(AnyPage) /\ k \in Nat /\ k + 1 \in 1 .. Len(ps)
      /\ \A m \in 1 .. k : m \in 1 .. Len(ps) /\ m # k + 1
      /\ 1 .. k + 1 = (1 .. k) \cup {k + 1}
      /\ \A m \in 1 .. Len(ps) : ps[m] \in AnyPage
      /\ \A m \in 1 .. k : ps[m] # ps[k + 1]
  BY DEF OneMore
<1> PICK p \in AnyPage : p = ps[k + 1]
  BY <1>1
<1> PICK N \in Nat, M \in Nat : N = Len(fs) /\ M = Len(e) /\ M > 0
  <2>1. Len(e) \in Nat \ {0}
    BY <1>1, CutsOfStart DEF OneMore
  <2>2. Len(fs) \in Nat
    BY DEF OneMore, Expanded
  <2> QED
    BY <2>1, <2>2
<1>2. /\ fs \in Seq(FrameSet) /\ e \in Seq(FrameSet)
      /\ FramesOf(v, p) = 1 .. M /\ \A i \in 1 .. M : e[i] = Frame(v, p, i)
      /\ M = Len(CutsOf(v, p))
  BY DEF OneMore, Expanded, FramesOf
<1>3. /\ \A j \in 1 .. N : \E m \in 1 .. k : \E i \in FramesOf(v, ps[m]) : fs[j] = Frame(v, ps[m], i)
      /\ \A m \in 1 .. k : \A i \in FramesOf(v, ps[m]) : \E j \in 1 .. N : fs[j] = Frame(v, ps[m], i)
      /\ v.offset = 0 =>
            \A i, j \in 1 .. N : i # j /\ fs[i].page = fs[j].page => fs[i].items \cap fs[j].items = {}
      /\ k <= N
      /\ \A m \in 1 .. k : Len(CutsOf(v, ps[m])) <= N
  BY DEF OneMore, Expanded
<1> PICK gs : gs = fs \o e
  OBVIOUS
<1>4. /\ gs \in Seq(FrameSet) /\ Len(gs) = N + M
      /\ \A i \in 1 .. N : i \in 1 .. N + M /\ gs[i] = fs[i]
      /\ \A i \in 1 .. M : N + i \in 1 .. N + M /\ gs[N + i] = e[i]
      /\ \A i \in 1 .. N + M : i \in 1 .. N \/ \E j \in 1 .. M : i = N + j
  <2>1. Joins(gs, fs, e, FrameSet)
    BY <1>2, Joined, Zenon
  <2>2. Len(gs) = N + M
    BY <2>1 DEF Joins
  <2> QED
    BY <2>1, <2>2 DEF Joins
<1>5. ASSUME NEW j \in 1 .. N + M
      PROVE  \E m \in 1 .. k + 1 : \E i \in FramesOf(v, ps[m]) : gs[j] = Frame(v, ps[m], i)
  <2>1. CASE j \in 1 .. N
    <3>1. PICK m \in 1 .. k : \E i \in FramesOf(v, ps[m]) : fs[j] = Frame(v, ps[m], i)
      BY <1>3, <2>1
    <3>2. m \in 1 .. k + 1 /\ gs[j] = fs[j]
      BY <1>1, <1>4, <2>1
    <3> QED
      BY <3>1, <3>2
  <2>2. CASE \E i \in 1 .. M : j = N + i
    <3>1. PICK i \in 1 .. M : j = N + i
      BY <2>2
    <3>2. gs[j] = Frame(v, ps[k + 1], i) /\ i \in FramesOf(v, ps[k + 1])
      BY <1>2, <1>4, <3>1
    <3> QED
      BY <1>1, <3>2
  <2> QED
    BY <1>4, <2>1, <2>2
<1>6. ASSUME NEW m \in 1 .. k + 1, NEW i \in FramesOf(v, ps[m])
      PROVE  \E j \in 1 .. N + M : gs[j] = Frame(v, ps[m], i)
  <2>1. CASE m \in 1 .. k
    <3>1. PICK j \in 1 .. N : fs[j] = Frame(v, ps[m], i)
      BY <1>3, <2>1
    <3> QED
      BY <1>4, <3>1
  <2>2. CASE m = k + 1
    <3>1. i \in 1 .. M /\ e[i] = Frame(v, ps[m], i)
      BY <1>2, <2>2
    <3> QED
      BY <1>4, <3>1
  <2> QED
    BY <1>1, <2>1, <2>2
<1>7. \A j \in 1 .. N : gs[j].page # p
  <2> TAKE j \in 1 .. N
  <2>0. PICK m \in 1 .. k : \E i \in FramesOf(v, ps[m]) : fs[j] = Frame(v, ps[m], i)
    BY <1>3
  <2>1. PICK i \in FramesOf(v, ps[m]) : fs[j] = Frame(v, ps[m], i)
    BY <2>0
  <2>2. ps[m] \in AnyPage /\ ps[m] # p
    BY <1>1
  <2>3. Frame(v, ps[m], i).page = ps[m]
    BY DEF Frame
  <2> QED
    BY <1>4, <2>1, <2>2, <2>3
<1>8. \A j \in 1 .. M : gs[N + j].page = p
  <2> TAKE j \in 1 .. M
  <2>1. gs[N + j] = Frame(v, p, j)
    BY <1>2, <1>4
  <2>2. Frame(v, p, j).page = p
    BY DEF Frame
  <2> QED
    BY <2>1, <2>2
<1>9. ASSUME v.offset = 0, NEW i \in 1 .. N + M, NEW j \in 1 .. N + M, i # j, gs[i].page = gs[j].page
      PROVE  gs[i].items \cap gs[j].items = {}
  <2>1. CASE i \in 1 .. N /\ j \in 1 .. N
    BY <1>3, <1>4, <1>9, <2>1
  <2>2. CASE i \notin 1 .. N /\ j \notin 1 .. N
    <3>1. PICK a \in 1 .. M, b \in 1 .. M : i = N + a /\ j = N + b
      BY <1>4, <2>2
    <3>2. a # b /\ gs[i] = Frame(v, p, a) /\ gs[j] = Frame(v, p, b)
      BY <1>2, <1>4, <1>9, <3>1
    <3>3. Frame(v, p, a).items \cap Frame(v, p, b).items = {}
      BY <1>1, <1>2, <1>9, <3>2, FramesApart
    <3> QED
      BY <3>2, <3>3
  <2>3. CASE i \in 1 .. N /\ j \notin 1 .. N
    BY <1>4, <1>7, <1>8, <1>9, <2>3
  <2>4. CASE i \notin 1 .. N /\ j \in 1 .. N
    BY <1>4, <1>7, <1>8, <1>9, <2>4
  <2> QED
    BY <2>1, <2>2, <2>3, <2>4
<1>10. k + 1 <= N + M
  BY <1>1, <1>3
<1>11. ASSUME NEW m \in 1 .. k + 1 PROVE Len(CutsOf(v, ps[m])) <= N + M
  <2>1. CASE m \in 1 .. k
    <3>1. Len(CutsOf(v, ps[m])) <= N
      BY <1>3, <2>1
    <3>2. Len(CutsOf(v, ps[m])) \in Nat
      BY <1>1, <2>1, CutsOfStart
    <3> QED
      BY <3>1, <3>2
  <2>2. CASE m = k + 1
    BY <1>2, <2>2
  <2> QED
    BY <1>1, <2>1, <2>2
<1>12. gs \in Seq(FrameSet) /\ 1 .. Len(gs) = 1 .. N + M /\ Len(gs) = N + M
  BY <1>4
<1>13. Expanded(v, ps, k + 1, gs)
  <2>1. \A j \in 1 .. Len(gs) : \E m \in 1 .. k + 1 : \E i \in FramesOf(v, ps[m]) : gs[j] = Frame(v, ps[m], i)
    BY <1>5, <1>12, Zenon
  <2>2. \A m \in 1 .. k + 1 : \A i \in FramesOf(v, ps[m]) : \E j \in 1 .. Len(gs) : gs[j] = Frame(v, ps[m], i)
    BY <1>6, <1>12, Zenon
  <2>3. v.offset = 0 =>
          \A i, j \in 1 .. Len(gs) : i # j /\ gs[i].page = gs[j].page => gs[i].items \cap gs[j].items = {}
    BY <1>9, <1>12, Zenon
  <2>4. k + 1 <= Len(gs) /\ \A m \in 1 .. k + 1 : Len(CutsOf(v, ps[m])) <= Len(gs)
    BY <1>10, <1>11, <1>12, Zenon
  <2> QED
    BY <1>12, <2>1, <2>2, <2>3, <2>4, Zenon DEF Expanded
<1> QED
  BY <1>13

(* The pages still to expand.                                              *)
RestIs(rest, ps, k, R) ==
    /\ rest \in Seq(R)
    /\ rest = <<>> => k = Len(ps)
    /\ rest # <<>> => /\ k < Len(ps) /\ Head(rest) = ps[k + 1]
                      /\ Tail(rest) = SubSeq(ps, (k + 1) + 1, Len(ps)) /\ Tail(rest) \in Seq(R)

LEMMA RestOf ==
    ASSUME NEW R, NEW ps \in Seq(R), NEW k \in 0 .. Len(ps)
    PROVE  RestIs(SubSeq(ps, k + 1, Len(ps)), ps, k, R)
<1> PICK rest : rest = SubSeq(ps, k + 1, Len(ps))
  OBVIOUS
<1> PICK n \in Nat : n = Len(ps)
  OBVIOUS
<1>1. /\ rest \in Seq(R) /\ Len(rest) = n - k
      /\ \A i \in 1 .. n - k : rest[i] = ps[k + i]
  OBVIOUS
<1>2. ASSUME rest = <<>> PROVE k = n
  <2>1. Len(<<>>) = 0
    OBVIOUS
  <2>2. Len(rest) = 0
    BY <1>2, <2>1, Zenon
  <2> QED
    BY <1>1, <2>2
<1>3. ASSUME rest # <<>>
      PROVE  /\ k < n /\ Head(rest) = ps[k + 1]
             /\ Tail(rest) = SubSeq(ps, (k + 1) + 1, n) /\ Tail(rest) \in Seq(R)
  <2>1. k < n /\ Head(rest) = ps[k + 1]
    BY <1>1, <1>3
  <2>2. /\ Tail(rest) \in Seq(R) /\ Len(Tail(rest)) = n - k - 1
        /\ \A i \in 1 .. n - k - 1 : Tail(rest)[i] = rest[i + 1]
    BY <1>1, <1>3, HeadTailProperties
  <2> PICK t : t = SubSeq(ps, (k + 1) + 1, n)
    OBVIOUS
  <2>3. /\ t \in Seq(R) /\ Len(t) = n - k - 1
        /\ \A i \in 1 .. n - k - 1 : t[i] = ps[k + 1 + i]
    BY <2>1
  <2>4. \A i \in 1 .. n - k - 1 : Tail(rest)[i] = t[i]
    <3> TAKE i \in 1 .. n - k - 1
    <3>1. i + 1 \in 1 .. n - k /\ k + (i + 1) = k + 1 + i
      BY <2>1
    <3>2. rest[i + 1] = ps[k + (i + 1)]
      BY <1>1, <3>1
    <3> QED
      BY <2>2, <2>3, <3>1, <3>2
  <2>5. Tail(rest) = t
    BY <2>2, <2>3, <2>4
  <2> QED
    BY <2>1, <2>2, <2>5
<1> QED
  BY <1>1, <1>2, <1>3 DEF RestIs

(* The rows a request may be answered for.                                 *)
LEMMA RowsAre ==
    ASSUME NEW s \in Screens, NEW c \in Capacities, NEW rows \in RowsFor(s, c)
    PROVE  /\ Sum(rows) \in 1 .. Len(Wall) * Max(Capacities)
           /\ Offset(rows, s) \in Nat
           /\ Len(rows) = 1 => rows = Alone(s, c)
<1>1. CASE rows = Alone(s, c)
  BY <1>1, AloneIs
<1>2. CASE \E g \in [Screens -> Capacities] : rows = Grouped(g)
  <2>1. PICK g \in [Screens -> Capacities] : rows = Grouped(g)
    BY <1>2
  <2>2. /\ Sum(rows) \in 1 .. Len(Wall) * Max(Capacities) /\ Len(rows) > 1
        /\ Offset(rows, s) \in Nat
    BY <2>1, GroupedIs
  <2>3. Len(rows) # 1
    <3>1. ~(1 > 1)
      OBVIOUS
    <3> QED
      BY <2>2, <3>1, Zenon
  <2> QED
    BY <2>2, <2>3
<1> QED
  BY <1>1, <1>2 DEF RowsFor

LEMMA InitFraming == Init => FramingInv
<1> SUFFICES ASSUME Init PROVE FramingInv
  OBVIOUS
<1>1. VenueOK
  BY DEF Init, VenueOK
<1>2. RequestOK
  BY DEF Init, RequestOK
<1>3. ContentOK
  BY DEF Init, ContentOK
<1> QED
  BY <1>1, <1>2, <1>3 DEF FramingInv

(* Where a request is tells what it holds.                                 *)
LEMMA AtTells ==
    ASSUME RequestOK
    PROVE  /\ req.at = "board" => req \in AskedBoard
           /\ req.at = "wall" => req \in AskedWall
           /\ req.at = "pages" => Underway(req)
<1>1. req = Idle => req.at = "idle"
  BY DEF Idle
<1>2. req \in AskedBoard => req.at = "board"
  BY DEF AskedBoard
<1>3. req \in AskedWall => req.at = "wall"
  BY DEF AskedWall
<1>4. Underway(req) => req.at = "pages"
  BY DEF Underway, AskedPages
<1> QED
  BY <1>1, <1>2, <1>3, <1>4 DEF RequestOK

LEMMA ReadWallUnderway ==
    ASSUME VenueOK, req \in AskedWall, ReadWall
    PROVE  Underway(req')
<1> PICK s, c, h, b, rows, ps :
        /\ s = req.screen /\ c = req.cap /\ h = req.held /\ b = req.board
        /\ rows = WallOf(req) /\ ps = RealPages(b, h)
  OBVIOUS
<1>1. s \in Screens /\ c \in Capacities /\ h \in SUBSET Pages /\ b \in Boards
  BY DEF AskedWall
<1>2. rows \in RowsFor(s, c)
  <2>1. grid \in [Screens -> Capacities]
    BY DEF VenueOK
  <2>2. rows = Grouped(grid) \/ rows = Alone(s, c)
    BY DEF WallOf, Grouped, Alone
  <2> QED
    BY <2>1, <2>2 DEF RowsFor
<1>3. Sum(rows) \in WallHolds /\ Offset(rows, s) \in Nat
  BY <1>1, <1>2, RowsAre DEF WallHolds
<1>4. ps \in Seq(AnyPage) /\ Len(ps) \in Nat
  BY <1>1, RealPagesAre DEF AnyPage
<1>5. req' = [at |-> "pages", screen |-> s, cap |-> c, held |-> h, board |-> b, rows |-> rows,
              capacity |-> Sum(rows), offset |-> Offset(rows, s), todo |-> ps, frames |-> <<>>]
  BY DEF ReadWall
<1>6. rows \in AnyRows
  BY <1>1, <1>2 DEF AnyRows
<1>7. req' \in AskedPages
  BY <1>1, <1>3, <1>4, <1>5, <1>6 DEF AskedPages
<1>8. ViewOf(req') \in Views
  BY <1>7, ViewOfRequest
<1>9. Expanded(ViewOf(req'), ps, 0, <<>>)
  BY <1>8, ExpandedNone
<1>10. ps = SubSeq(ps, 0 + 1, Len(ps)) /\ 0 \in 0 .. Len(ps)
  BY <1>4
<1>11. \E k \in 0 .. Len(ps) : ps = SubSeq(ps, k + 1, Len(ps)) /\ Expanded(ViewOf(req'), ps, k, <<>>)
  BY <1>9, <1>10
<1>12. /\ req'.screen = s /\ req'.cap = c /\ req'.held = h /\ req'.board = b /\ req'.rows = rows
       /\ req'.capacity = Sum(rows) /\ req'.offset = Offset(rows, s)
       /\ req'.todo = ps /\ req'.frames = <<>>
  BY <1>5
<1> QED
  BY <1>2, <1>7, <1>11, <1>12 DEF Underway

LEMMA AddPageUnderway ==
    ASSUME Underway(req), AddPage
    PROVE  Underway(req')
<1> PICK v, ps, fs, e : /\ v = ViewOf(req) /\ ps = RealPages(req.board, req.held)
                        /\ fs = req.frames /\ e = Expand(req, Head(req.todo))
  OBVIOUS
<1>1. /\ req \in AskedPages /\ req.todo # <<>> /\ req.board \in Boards /\ req.held \subseteq Pages
      /\ req.todo \in Seq(AnyPage) /\ fs \in Seq(FrameSet)
  <2>1. req \in AskedPages
    BY DEF Underway
  <2>2. /\ req.board \in Boards /\ req.held \in SUBSET Pages
        /\ req.todo \in Seq(AnyPage) /\ req.frames \in Seq(FrameSet)
    BY <2>1 DEF AskedPages
  <2> QED
    BY <2>1, <2>2 DEF AddPage
<1>2. v \in Views
  BY <1>1, ViewOfRequest
<1>3. /\ ps \in Seq(AnyPage) /\ Len(ps) \in Nat
      /\ \A i, j \in 1 .. Len(ps) : ps[i] = ps[j] => i = j
  BY <1>1, RealPagesAre DEF AnyPage
<1>4. PICK k \in 0 .. Len(ps) : req.todo = SubSeq(ps, k + 1, Len(ps)) /\ Expanded(v, ps, k, fs)
  BY DEF Underway
<1>5. /\ k < Len(ps) /\ Head(req.todo) = ps[k + 1]
      /\ Tail(req.todo) = SubSeq(ps, (k + 1) + 1, Len(ps)) /\ Tail(req.todo) \in Seq(AnyPage)
  <2>1. RestIs(req.todo, ps, k, AnyPage)
    BY <1>3, <1>4, RestOf, Zenon
  <2> QED
    BY <1>1, <2>1 DEF RestIs
<1>6. ps[k + 1] \in AnyPage
  BY <1>3, <1>4, <1>5
<1>7. /\ e \in Seq(FrameSet) /\ Len(e) = Len(CutsOf(v, ps[k + 1]))
      /\ \A i \in FramesOf(v, ps[k + 1]) : e[i] = Frame(v, ps[k + 1], i)
  BY <1>2, <1>5, <1>6, ExpandIs
<1>8. Expanded(v, ps, k + 1, fs \o e)
  <2>1. OneMore(v, ps, k, fs, e)
    BY <1>2, <1>3, <1>4, <1>5, <1>7 DEF OneMore
  <2> QED
    BY <2>1, ExpandedMore, Zenon
<1>9. req' = [req EXCEPT !.frames = fs \o e, !.todo = Tail(req.todo)]
  BY DEF AddPage
<1>10. fs \o e \in Seq(FrameSet)
  BY <1>1, <1>7
<1>11. /\ req' \in AskedPages
       /\ req'.screen = req.screen /\ req'.cap = req.cap /\ req'.held = req.held
       /\ req'.board = req.board /\ req'.rows = req.rows
       /\ req'.capacity = req.capacity /\ req'.offset = req.offset
       /\ req'.todo = Tail(req.todo) /\ req'.frames = fs \o e
  <2> PICK x, y : x = fs \o e /\ y = Tail(req.todo) /\ x \in Seq(FrameSet) /\ y \in Seq(AnyPage)
    BY <1>5, <1>10
  <2>1. req' = [req EXCEPT !.frames = x, !.todo = y]
    BY <1>9
  <2> QED
    BY <1>1, <2>1 DEF AskedPages
<1>12. ViewOf(req') = v
  BY <1>11 DEF ViewOf
<1>13. k + 1 \in 0 .. Len(ps)
  BY <1>3, <1>5
<1>14. \E m \in 0 .. Len(ps) : req'.todo = SubSeq(ps, m + 1, Len(ps)) /\ Expanded(v, ps, m, req'.frames)
  BY <1>5, <1>8, <1>11, <1>13
<1> QED
  BY <1>11, <1>12, <1>14 DEF Underway

LEMMA OnlyOne ==
    ASSUME NEW N \in Nat, ~(N > 1), NEW n \in Nat \ {0}, n <= N
    PROVE  n = 1
  OBVIOUS

(* An answer holds what its request came to.                               *)
LEMMA AnswerSent ==
    ASSUME NEW r, Underway(r), r.todo = <<>>
    PROVE  Sent(Answer(r), r.screen)
<1> PICK c, v, ps : c = Answer(r) /\ v = ViewOf(r) /\ ps = RealPages(r.board, r.held)
  OBVIOUS
<1>1. /\ r \in AskedPages /\ r.board \in Boards /\ r.held \subseteq Pages /\ r.cap \in Capacities
      /\ r.rows \in RowsFor(r.screen, r.cap)
      /\ r.capacity = Sum(r.rows) /\ r.offset = Offset(r.rows, r.screen)
      /\ r.frames \in Seq(FrameSet)
  BY DEF Underway, AskedPages
<1>2. /\ c.board = r.board /\ c.held = r.held /\ c.cap = r.cap /\ c.rows = r.rows
      /\ c.pages = IF Len(r.frames) > 1 THEN r.frames ELSE <<>>
      /\ c.single = Slice(ItemsOf(r.board, FirstOf(r.held)), FirstOf(r.held), r.offset, r.cap)
  BY DEF Answer
<1>3. SentView(c, r.screen) = v
  BY <1>1, <1>2 DEF SentView, ViewOf
<1>4. v \in Views
  BY <1>1, ViewOfRequest
<1>5. ps \in Seq(AnyPage) /\ Len(ps) \in Nat /\ Len(ps) > 0
  BY <1>1, RealPagesAre DEF AnyPage
<1>6. Expanded(v, ps, Len(ps), r.frames)
  <2>1. PICK k \in 0 .. Len(ps) : r.todo = SubSeq(ps, k + 1, Len(ps)) /\ Expanded(v, ps, k, r.frames)
    BY DEF Underway
  <2>2. k = Len(ps)
    <3>1. RestIs(r.todo, ps, k, AnyPage)
      BY <1>5, <2>1, RestOf, Zenon
    <3> QED
      BY <3>1 DEF RestIs
  <2> QED
    BY <2>1, <2>2
<1>7. \/ c.pages = <<>> /\ Len(ps) = 1 /\ Len(CutsOf(v, ps[1])) = 1
      \/ Len(c.pages) > 1 /\ Expanded(v, ps, Len(ps), c.pages)
  <2>1. CASE Len(r.frames) > 1
    BY <1>2, <1>6, <2>1
  <2>2. CASE ~(Len(r.frames) > 1)
    <3>1. c.pages = <<>> /\ Len(r.frames) \in Nat
      BY <1>1, <1>2, <2>2
    <3>2. Len(ps) <= Len(r.frames) /\ \A m \in 1 .. Len(ps) : Len(CutsOf(v, ps[m])) <= Len(r.frames)
      BY <1>6 DEF Expanded
    <3>3. 1 \in 1 .. Len(ps) /\ ps[1] \in AnyPage
      BY <1>5
    <3>4. Len(CutsOf(v, ps[1])) \in Nat \ {0}
      BY <1>4, <3>3, CutsOfStart
    <3>5. Len(CutsOf(v, ps[1])) <= Len(r.frames)
      BY <3>2, <3>3
    <3>6. Len(ps) \in Nat \ {0} /\ Len(ps) <= Len(r.frames)
      BY <1>5, <3>2
    <3>7. Len(ps) = 1 /\ Len(CutsOf(v, ps[1])) = 1
      BY <2>2, <3>1, <3>4, <3>5, <3>6, OnlyOne, Zenon
    <3> QED
      BY <3>1, <3>7
  <2> QED
    BY <2>1, <2>2
<1>8. Sent(c, r.screen)
  BY <1>1, <1>2, <1>3, <1>7 DEF Sent
<1> QED
  BY <1>8

LEMMA StepFraming == FramingInv /\ [Next]_vars => FramingInv'
<1> SUFFICES ASSUME FramingInv, [Next]_vars PROVE FramingInv'
  OBVIOUS
<1> USE DEF FramingInv
<1>v. VenueOK /\ RequestOK /\ ContentOK
  OBVIOUS
<1>q. UNCHANGED req => RequestOK'
  BY DEF RequestOK, Underway
<1>c. UNCHANGED content => ContentOK'
  BY DEF ContentOK, Sent, SentView
<1>n. UNCHANGED venue => VenueOK'
  BY DEF venue, VenueOK
<1>1. CASE Publish
  <2>1. VenueOK' /\ UNCHANGED <<req, content>>
    BY <1>1 DEF Publish, Change, VenueOK
  <2> QED
    BY <2>1, <1>q, <1>c
<1>2. CASE GroupWall
  <2>1. VenueOK' /\ UNCHANGED <<req, content>>
    BY <1>2 DEF GroupWall, Change, VenueOK
  <2> QED
    BY <2>1, <1>q, <1>c
<1>3. ASSUME NEW s \in Screens, Assign(s) PROVE FramingInv'
  <2>1. UNCHANGED <<req, content, board, grid, walled>>
    BY <1>3 DEF Assign, Change
  <2>2. held' \in [Screens -> SUBSET Pages]
    BY <1>3 DEF Assign, VenueOK
  <2>3. VenueOK'
    BY <2>1, <2>2 DEF VenueOK
  <2> QED
    BY <2>1, <2>3, <1>q, <1>c
<1>4. ASSUME NEW s \in Screens, SetGrid(s) PROVE FramingInv'
  <2>1. UNCHANGED <<req, content, board, held, walled>>
    BY <1>4 DEF SetGrid, Change
  <2>2. grid' \in [Screens -> Capacities]
    BY <1>4 DEF SetGrid, VenueOK
  <2>3. VenueOK'
    BY <2>1, <2>2 DEF VenueOK
  <2> QED
    BY <2>1, <2>3, <1>q, <1>c
<1>5. ASSUME NEW s \in Screens, ReadScreen(s) PROVE FramingInv'
  <2>1. UNCHANGED <<venue, content>>
    BY <1>5 DEF ReadScreen
  <2>2. grid[s] \in Capacities /\ held[s] \in SUBSET Pages /\ walled \in BOOLEAN
    BY DEF VenueOK
  <2>3. req' \in AskedBoard
    BY <1>5, <2>2 DEF ReadScreen, AskedBoard
  <2>4. RequestOK'
    BY <2>3 DEF RequestOK
  <2> QED
    BY <2>1, <2>4, <1>n, <1>c
<1>6. CASE ReadBoard
  <2>1. UNCHANGED <<venue, content>>
    BY <1>6 DEF ReadBoard
  <2>2. req \in AskedBoard
    BY <1>6, AtTells DEF ReadBoard
  <2>3. board \in Boards
    BY DEF VenueOK
  <2>4. req' \in AskedWall
    BY <1>6, <2>2, <2>3 DEF ReadBoard, AskedBoard, AskedWall
  <2>5. RequestOK'
    BY <2>4 DEF RequestOK
  <2> QED
    BY <2>1, <2>5, <1>n, <1>c
<1>7. CASE ReadWall
  <2>1. UNCHANGED <<venue, content>>
    BY <1>7 DEF ReadWall
  <2>2. req \in AskedWall
    BY <1>7, AtTells DEF ReadWall
  <2>3. Underway(req')
    BY <1>7, <2>2, ReadWallUnderway
  <2>4. RequestOK'
    BY <2>3 DEF RequestOK, Underway
  <2> QED
    BY <2>1, <2>4, <1>n, <1>c
<1>8. CASE AddPage
  <2>1. UNCHANGED <<venue, content>>
    BY <1>8 DEF AddPage
  <2>2. Underway(req)
    BY <1>8, AtTells DEF AddPage
  <2>3. Underway(req')
    BY <1>8, <2>2, AddPageUnderway
  <2>4. RequestOK'
    BY <2>3 DEF RequestOK, Underway
  <2> QED
    BY <2>1, <2>4, <1>n, <1>c
<1>9. CASE Receive
  <2>1. UNCHANGED venue /\ req' = Idle
    BY <1>9 DEF Receive
  <2>2. Underway(req) /\ req.todo = <<>>
    BY <1>9, AtTells DEF Receive
  <2>3. RequestOK'
    BY <2>1 DEF RequestOK
  <2> PICK t, c : t = req.screen /\ c = Answer(req)
    OBVIOUS
  <2>4. Sent(c, t) /\ t \in Screens
    BY <2>2, AnswerSent DEF Underway, AskedPages
  <2>5. content' = [content EXCEPT ![t] = c]
    BY <1>9 DEF Receive
  <2>6. DOMAIN content' = Screens /\ \A s \in Screens : content'[s] = IF s = t THEN c ELSE content[s]
    BY <2>4, <2>5 DEF ContentOK
  <2>7. \A s \in Screens : content'[s] = NoContent \/ Sent(content'[s], s)
    BY <2>4, <2>6 DEF ContentOK
  <2>8. ContentOK'
    BY <2>6, <2>7 DEF ContentOK, Sent, SentView
  <2> QED
    BY <2>1, <2>3, <2>8, <1>n
<1>10. ASSUME NEW s \in Screens, Turn(s) PROVE FramingInv'
  BY <1>10, <1>q, <1>c, <1>n DEF Turn
<1>11. CASE UNCHANGED vars
  BY <1>11, <1>q, <1>c, <1>n DEF vars
<1> QED
  BY <1>1, <1>2, <1>3, <1>4, <1>5, <1>6, <1>7, <1>8, <1>9, <1>10, <1>11 DEF Next, Serve

LEMMA FramingHolds == Spec => []FramingInv
  BY InitFraming, StepFraming, PTL DEF Spec

(* What a screen of its own was sent.                                      *)
LEMMA AloneOnce ==
    ASSUME NEW s \in Screens, NEW c, Sent(c, s), Len(c.rows) = 1
    PROVE  IF c.pages = <<>> THEN c.single = AllItems(c.board, FirstOf(c.held))
           ELSE \A p \in ToSet(KeyOf(c)) :
                   /\ UNION {c.pages[i].items : i \in {j \in DOMAIN c.pages : c.pages[j].page = p}}
                        = AllItems(c.board, p)
                   /\ \A i, j \in DOMAIN c.pages :
                         c.pages[i].page = p /\ c.pages[j].page = p /\ i # j
                            => c.pages[i].items \cap c.pages[j].items = {}
<1> PICK v, ps, first : v = SentView(c, s) /\ ps = RealPages(c.board, c.held) /\ first = FirstOf(c.held)
  OBVIOUS
<1>1. /\ c.board \in Boards /\ c.held \subseteq Pages /\ c.cap \in Capacities /\ c.cap \in Nat
      /\ c.rows = Alone(s, c.cap)
  BY CapacitiesAssumption, RowsAre DEF Sent
<1>2. Sum(c.rows) = c.cap /\ Offset(c.rows, s) = 0 /\ c.cap \in WallHolds
  BY <1>1, AloneIs DEF WallHolds
<1>3. v = [board |-> c.board, cap |-> c.cap, capacity |-> c.cap, offset |-> 0]
  BY <1>2 DEF SentView
<1>4. v \in Views /\ v.board = c.board /\ v.cap = c.cap /\ v.capacity = c.cap /\ v.offset = 0
  BY <1>1, <1>2, <1>3 DEF Views
<1>5. /\ ps \in Seq(AnyPage) /\ Len(ps) \in Nat
      /\ Len(ps) = 1 => ps[1] = first \/ first \in Pages \ c.board.pages
      /\ first \in AnyPage
  BY <1>1, RealPagesAre, FirstType DEF AnyPage
<1>6. /\ c.single = Slice(ItemsOf(c.board, first), first, 0, c.cap)
      /\ \/ c.pages = <<>> /\ Len(ps) = 1 /\ Len(CutsOf(v, ps[1])) = 1
         \/ Len(c.pages) > 1 /\ Expanded(v, ps, Len(ps), c.pages)
  BY <1>2 DEF Sent
<1>7. ASSUME c.pages = <<>> PROVE c.single = AllItems(c.board, first)
  <2>1. Len(ps) = 1 /\ Len(CutsOf(v, ps[1])) = 1
    <3>1. ~(Len(<<>>) > 1)
      OBVIOUS
    <3> QED
      BY <1>6, <1>7, <3>1
  <2>2. ItemsOf(c.board, first) \in Nat /\ ItemsOf(c.board, first) <= c.cap
    <3>1. CASE first \in Pages \ c.board.pages
      <4>1. ItemsOf(c.board, first) = 0
        BY <1>1, <3>1, OffBoard
      <4> QED
        BY <1>1, <4>1
    <3>2. CASE ps[1] = first
      <4> PICK f, T : f = CutsOf(v, first) /\ T = ItemsOf(c.board, first)
        OBVIOUS
      <4>1. Starts(f, T, c.cap) /\ T \in Nat
        BY <1>4, <1>5, CutsOfStart
      <4>2. f[1] = 0 /\ T <= f[1] + c.cap
        BY <2>1, <3>2, <4>1 DEF Starts
      <4> QED
        BY <1>1, <4>1, <4>2
    <3> QED
      BY <1>5, <2>1, <3>1, <3>2
  <2> PICK T \in Nat : T = ItemsOf(c.board, first)
    BY <2>2
  <2>3. Slice(T, first, 0, c.cap) = {first} \X ((0 + 1) .. Smaller(0 + c.cap, T))
    BY DEF Slice
  <2>4. Smaller(0 + c.cap, T) = T /\ 0 + 1 = 1
    BY <1>1, <2>2 DEF Smaller
  <2> QED
    BY <1>6, <2>3, <2>4 DEF AllItems
<1>8. ASSUME c.pages # <<>>, NEW p \in ToSet(KeyOf(c))
      PROVE  /\ UNION {c.pages[i].items : i \in {j \in DOMAIN c.pages : c.pages[j].page = p}}
                  = AllItems(c.board, p)
             /\ \A i, j \in DOMAIN c.pages :
                   c.pages[i].page = p /\ c.pages[j].page = p /\ i # j
                      => c.pages[i].items \cap c.pages[j].items = {}
  <2> PICK fs : fs = c.pages
    OBVIOUS
  <2>1. Expanded(v, ps, Len(ps), fs)
    BY <1>6, <1>8
  <2>2. DOMAIN fs = 1 .. Len(fs)
    BY <2>1 DEF Expanded
  <2>3. \E j \in 1 .. Len(fs) : fs[j].page = p
    BY <1>8, <2>2 DEF ToSet, KeyOf
  <2>4. PICK m \in 1 .. Len(ps) : ps[m] = p
    <3>1. PICK j \in 1 .. Len(fs) : fs[j].page = p
      BY <2>3
    <3>2. PICK m \in 1 .. Len(ps) : \E i \in FramesOf(v, ps[m]) : fs[j] = Frame(v, ps[m], i)
      BY <2>1 DEF Expanded
    <3>3. fs[j].page = ps[m]
      BY <3>2 DEF Frame
    <3> QED
      BY <3>1, <3>3
  <2>5. p \in AnyPage
    BY <1>5, <2>4
  <2>6. \A i, j \in DOMAIN fs :
           fs[i].page = p /\ fs[j].page = p /\ i # j => fs[i].items \cap fs[j].items = {}
    <3>1. v.offset = 0 =>
             \A i, j \in 1 .. Len(fs) : i # j /\ fs[i].page = fs[j].page => fs[i].items \cap fs[j].items = {}
      BY <2>1 DEF Expanded
    <3> SUFFICES ASSUME NEW i \in DOMAIN fs, NEW j \in DOMAIN fs, fs[i].page = p, fs[j].page = p, i # j
                 PROVE  fs[i].items \cap fs[j].items = {}
      OBVIOUS
    <3>2. i \in 1 .. Len(fs) /\ j \in 1 .. Len(fs) /\ fs[i].page = fs[j].page
      BY <2>2
    <3> QED
      BY <1>4, <3>1, <3>2
  <2> DEFINE U == UNION {fs[i].items : i \in {j \in DOMAIN fs : fs[j].page = p}}
  <2>7. ASSUME NEW x \in U PROVE x \in AllItems(c.board, p)
    <3>1. PICK j \in 1 .. Len(fs) : fs[j].page = p /\ x \in fs[j].items
      BY <2>2, <2>7
    <3>2. PICK l \in 1 .. Len(ps) : \E i \in FramesOf(v, ps[l]) : fs[j] = Frame(v, ps[l], i)
      BY <2>1 DEF Expanded
    <3>3. PICK i \in FramesOf(v, ps[l]) : fs[j] = Frame(v, ps[l], i)
      BY <3>2
    <3>4. ps[l] = p
      BY <3>1, <3>3 DEF Frame
    <3>5. x \in Frame(v, p, i).items /\ i \in FramesOf(v, p)
      BY <3>1, <3>3, <3>4
    <3> PICK from : from = CutsOf(v, p)[i]
      OBVIOUS
    <3>6. PICK n \in Nat : x = <<p, n>> /\ v.offset + from < n /\ n <= ItemsOf(v.board, p)
      BY <1>4, <2>5, <3>5, FrameItems
    <3>7. from \in Nat /\ ItemsOf(v.board, p) \in Nat
      BY <1>4, <2>5, <3>5, CutsOfStart
    <3>8. n \in 1 .. ItemsOf(v.board, p)
      BY <1>4, <3>6, <3>7
    <3> QED
      BY <1>4, <3>6, <3>8 DEF AllItems
  <2>8. ASSUME NEW x \in AllItems(c.board, p) PROVE x \in U
    <3>1. PICK n \in 1 .. ItemsOf(v.board, p) : x = <<p, n>>
      BY <1>4, <2>8 DEF AllItems
    <3>2. PICK i \in FramesOf(v, p) : InFrame(CutsOf(v, p), ItemsOf(v.board, p), i, n)
      BY <1>4, <2>5, InSomeFrame
    <3>3. <<p, n>> \in Frame(v, p, i).items
      <4>1. /\ n - CutsOf(v, p)[i] \in 1 .. v.capacity
            /\ v.offset < n - CutsOf(v, p)[i] /\ n - CutsOf(v, p)[i] <= v.offset + v.cap
                  => <<p, n>> \in Frame(v, p, i).items
        BY <1>4, <2>5, <3>2, FrameHas
      <4> QED
        BY <1>1, <1>4, <4>1
    <3>4. PICK j \in 1 .. Len(fs) : fs[j] = Frame(v, p, i)
      <4>1. \A l \in 1 .. Len(ps) : \A a \in FramesOf(v, ps[l]) :
               \E j \in 1 .. Len(fs) : fs[j] = Frame(v, ps[l], a)
        BY <2>1 DEF Expanded
      <4> QED
        BY <2>4, <3>2, <4>1, Zenon
    <3>5. fs[j].page = p
      BY <3>4 DEF Frame
    <3> QED
      BY <2>2, <3>1, <3>3, <3>4, <3>5
  <2>9. U = AllItems(c.board, p)
    <3> HIDE DEF U
    <3> QED
      BY <2>7, <2>8
  <2> QED
    BY <2>6, <2>9
<1> QED
  BY <1>7, <1>8

(* A screen of the wall, when it draws the venue as it is, draws the items *)
(* of a frame that fall to it.                                             *)
LEMMA WallSees ==
    ASSUME FramingInv, walled, NEW t \in Screens, Current(t), NEW H, held[t] = H,
           NEW p \in H \cap board.pages, FirstOf(H) \in board.pages,
           NEW o, o = Offset(Grouped(grid), t), NEW cuts, cuts = Layout[board][p][Sum(Grouped(grid))],
           NEW i \in 1 .. Len(cuts), NEW n \in 1 .. ItemsOf(board, p),
           InFrame(cuts, ItemsOf(board, p), i, n),
           o < n - cuts[i], n - cuts[i] <= o + grid[t]
    PROVE  <<p, n>> \in Everything(t)
<1> PICK c, ps, first, W, v :
        /\ c = content[t] /\ ps = RealPages(board, H) /\ first = FirstOf(H)
        /\ W = Sum(Grouped(grid)) /\ v = [board |-> board, cap |-> grid[t], capacity |-> W, offset |-> o]
  OBVIOUS
<1>1. /\ c.board = board /\ c.held = H /\ c.cap = grid[t] /\ c.rows = Grouped(grid)
      /\ Sent(c, t)
  BY DEF Current, WallOf, Grouped, FramingInv, ContentOK
<1>2. /\ board \in Boards /\ grid \in [Screens -> Capacities] /\ H \subseteq Pages
      /\ board.pages \subseteq Pages
  BY SizesType DEF FramingInv, VenueOK
<1>3. SentView(c, t) = v
  BY <1>1 DEF SentView
<1>4. W \in WallHolds /\ o \in Nat /\ grid[t] \in Capacities /\ grid[t] \in Nat
  BY <1>2, GroupedIs, CapacitiesAssumption DEF WallHolds
<1>5. /\ v \in Views /\ v.board = board /\ v.cap = grid[t] /\ v.capacity = W /\ v.offset = o
  BY <1>2, <1>4 DEF Views
<1>6. /\ ps \in Seq(AnyPage) /\ Len(ps) \in Nat
      /\ \E m \in 1 .. Len(ps) : ps[m] = p
      /\ Len(ps) = 1 => ps[1] = first \/ first \in Pages \ board.pages
  BY <1>2, RealPagesAre DEF AnyPage
<1>7. /\ c.single = Slice(ItemsOf(board, first), first, o, grid[t])
      /\ \/ c.pages = <<>> /\ Len(ps) = 1 /\ Len(CutsOf(v, ps[1])) = 1
         \/ Len(c.pages) > 1 /\ Expanded(v, ps, Len(ps), c.pages)
  BY <1>1, <1>3 DEF Sent
<1>8. p \in AnyPage /\ CutsOf(v, p) = cuts /\ i \in FramesOf(v, p)
  BY <1>2, <1>5 DEF AnyPage, CutsOf, FramesOf
<1>9. <<p, n>> \in Frame(v, p, i).items
  BY <1>5, <1>8, FrameHas
<1>10. CASE Len(c.pages) > 1 /\ Expanded(v, ps, Len(ps), c.pages)
  <2>1. \A l \in 1 .. Len(ps) : \A a \in FramesOf(v, ps[l]) :
           \E j \in 1 .. Len(c.pages) : c.pages[j] = Frame(v, ps[l], a)
    BY <1>10 DEF Expanded
  <2>2. PICK m \in 1 .. Len(ps) : ps[m] = p
    BY <1>6
  <2>3. PICK j \in 1 .. Len(c.pages) : c.pages[j] = Frame(v, p, i)
    BY <1>8, <2>1, <2>2
  <2>4. DOMAIN c.pages = 1 .. Len(c.pages)
    BY <1>10 DEF Expanded
  <2>5. Everything(t) = UNION {c.pages[k].items : k \in DOMAIN c.pages}
    BY <1>10 DEF Everything, Rotating
  <2>6. <<p, n>> \in c.pages[j].items /\ j \in DOMAIN c.pages
    BY <1>9, <2>3, <2>4
  <2> QED
    BY <2>5, <2>6
<1>11. CASE c.pages = <<>> /\ Len(ps) = 1 /\ Len(CutsOf(v, ps[1])) = 1
  <2>1. ps[1] = p /\ first = p
    BY <1>6, <1>11
  <2>2. cuts[i] = 0
    <3>1. i \in 1 .. 1
      BY <1>8, <1>11, <2>1
    <3>2. CutsOf(v, p)[1] = 0
      BY <1>5, <1>8, CutsOfStart DEF Starts
    <3> QED
      BY <1>8, <3>1, <3>2
  <2>3. Everything(t) = c.single
    <3>1. ~(Len(<<>>) > 1)
      OBVIOUS
    <3> QED
      BY <1>11, <3>1 DEF Everything, Rotating
  <2>4. ItemsOf(board, p) \in Nat
    BY <1>5, <1>8, CutsOfStart
  <2> PICK T \in Nat : T = ItemsOf(board, p)
    BY <2>4
  <2>5. n \in (o + 1) .. Smaller(o + grid[t], T)
    BY <1>4, <2>2 DEF Smaller
  <2>6. Everything(t) = {p} \X ((o + 1) .. Smaller(o + grid[t], T))
    BY <1>7, <2>1, <2>3 DEF Slice
  <2> QED
    BY <2>5, <2>6
<1> QED
  BY <1>7, <1>10, <1>11

(* A screen of its own is sent every item of every page it draws on        *)
(* exactly one of that page's frames, whatever is published, assigned,     *)
(* regrouped or resized while its request is answered.                     *)
THEOREM OnceEach == Spec => []EachItemOnce
<1>1. FramingInv => EachItemOnce
  <2> SUFFICES ASSUME FramingInv, NEW s \in Screens, content[s] # NoContent, Len(content[s].rows) = 1
               PROVE  IF content[s].pages = <<>>
                      THEN content[s].single = AllItems(content[s].board, FirstOf(content[s].held))
                      ELSE \A p \in ToSet(KeyOf(content[s])) :
                              LET of == {i \in DOMAIN content[s].pages : content[s].pages[i].page = p}
                              IN  /\ UNION {content[s].pages[i].items : i \in of} = AllItems(content[s].board, p)
                                  /\ \A i, j \in of : i # j =>
                                        content[s].pages[i].items \cap content[s].pages[j].items = {}
    BY DEF EachItemOnce
  <2> PICK c : c = content[s]
    OBVIOUS
  <2>1. Sent(c, s) /\ Len(c.rows) = 1
    BY DEF FramingInv, ContentOK
  <2> QED
    BY <2>1, AloneOnce
<1> QED
  BY <1>1, FramingHolds, PTL

(* A wall whose screens hold the same pages shows every item of each       *)
(* published one between them, once every screen draws the venue as it is. *)
THEOREM WallShowsEveryItem == Spec => []WallShowsAll
<1>1. FramingInv => WallShowsAll
  <2> SUFFICES ASSUME FramingInv, walled, \A s \in Screens : Current(s) /\ held[s] = held[Wall[1]],
                      NEW p \in held[Wall[1]] \cap board.pages, FirstOf(held[Wall[1]]) \in board.pages,
                      NEW x \in AllItems(board, p)
               PROVE  x \in UNION {Everything(t) : t \in Screens}
    BY DEF WallShowsAll
  <2> PICK H, W, cuts, T : /\ H = held[Wall[1]] /\ W = Sum(Grouped(grid))
                           /\ cuts = Layout[board][p][W] /\ T = ItemsOf(board, p)
    OBVIOUS
  <2>1. /\ grid \in [Screens -> Capacities] /\ board \in Boards /\ W \in WallHolds
        /\ p \in AnyPage
    <3>1. grid \in [Screens -> Capacities] /\ board \in Boards
      BY DEF FramingInv, VenueOK
    <3> QED
      BY <3>1, GroupedIs, SizesType DEF WallHolds, AnyPage
  <2>2. PICK n \in 1 .. T : x = <<p, n>>
    BY DEF AllItems
  <2> PICK c \in Capacities : TRUE
    BY CapacitiesAssumption
  <2> PICK v : v = [board |-> board, cap |-> c, capacity |-> W, offset |-> 0]
    OBVIOUS
  <2>3. v \in Views /\ v.board = board /\ v.capacity = W /\ CutsOf(v, p) = cuts
    BY <2>1 DEF Views, CutsOf
  <2>4. PICK i \in 1 .. Len(cuts) : InFrame(cuts, T, i, n)
    BY <2>1, <2>3, InSomeFrame DEF FramesOf
  <2>5. n - cuts[i] \in 1 .. W
    BY <2>1, <2>3, <2>4, FrameHas DEF FramesOf
  <2>6. PICK t \in Screens : /\ Offset(Grouped(grid), t) < n - cuts[i]
                             /\ n - cuts[i] <= Offset(Grouped(grid), t) + grid[t]
    BY <2>1, <2>5, GroupedIs
  <2>7. x \in Everything(t)
    BY <2>2, <2>4, <2>6, WallSees
  <2> QED
    BY <2>7
<1> QED
  BY <1>1, FramingHolds, PTL
=============================================================================
