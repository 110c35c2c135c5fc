------------------------- MODULE BusinessQueryProofs -------------------------
(***************************************************************************)
(* Proofs about BusinessQuery for any catalog, plans, candidates and dates *)
(* that its assumptions allow: an accepted plan makes a statement that the *)
(* database runs, the days a query reads are bounded, and an answer with   *)
(* rows is whole.  Sets of numbers and folds come first, then the date     *)
(* filters, the tree of joins, the statement and the call.                 *)
(***************************************************************************)
EXTENDS BusinessQuery, FiniteSetTheorems, WellFoundedInduction, SequenceTheorems, TLAPS

(* A finite set of numbers has a greatest and a smallest one.              *)
LEMMA Greatest ==
  ASSUME NEW S, IsFiniteSet(S), S \subseteq Int, S # {}
  PROVE  \E x \in S : \A y \in S : x >= y
<1> DEFINE above(x) == {y \in S : y >= x}
           segments == {above(x) : x \in S}
<1>1. IsWellFoundedOn(StrictSubsetOrdering(S), SUBSET S)
  BY FS_StrictSubsetOrderingWellFounded, FS_FiniteSubsetsOfFinite
<1>2. segments \subseteq SUBSET S /\ segments # {}
  OBVIOUS
<1>3. PICK least \in segments : \A other \in segments : ~ (<<other, least>> \in StrictSubsetOrdering(S))
  BY <1>1, <1>2, WFMin
<1>4. PICK x \in S : least = above(x)
  OBVIOUS
<1>5. ASSUME NEW y \in S, y > x PROVE FALSE
  <2>1. above(y) \in segments
    OBVIOUS
  <2>2. x \in Int /\ y \in Int /\ \A z \in S : z \in Int /\ (z >= y => z >= x)
    BY <1>5
  <2>3. above(y) \subseteq above(x)
    BY <2>2
  <2>4. x \in above(x) /\ x \notin above(y)
    BY <1>5, <2>2
  <2>5. <<above(y), above(x)>> \in StrictSubsetOrdering(S)
    BY <2>3, <2>4 DEF StrictSubsetOrdering
  <2>. QED
    BY <1>3, <1>4, <2>1, <2>5
<1>. QED
  BY <1>5

(* Max, a CHOOSE, is that greatest number.                                 *)
LEMMA MaxIsGreatest ==
  ASSUME NEW S, IsFiniteSet(S), S \subseteq Int, S # {}
  PROVE  Max(S) \in S /\ \A y \in S : Max(S) >= y
BY Greatest DEF Max

(* Min is the smallest number, the opposite of the greatest of the         *)
(* opposites.                                                              *)
LEMMA MinIsSmallest ==
  ASSUME NEW S, IsFiniteSet(S), S \subseteq Int, S # {}
  PROVE  Min(S) \in S /\ \A y \in S : Min(S) <= y
<1> DEFINE T == {-x : x \in S}
<1>1. IsFiniteSet(T) /\ T \subseteq Int /\ T # {}
  <2> DEFINE f == [x \in S |-> -x]
  <2>1. f \in Surjection(S, T)
    BY DEF Surjection
  <2>2. IsFiniteSet(T)
    BY <2>1, FS_Surjection
  <2>3. \A x \in S : -x \in Int
    OBVIOUS
  <2>4. T # {} /\ T \subseteq Int
    BY <2>3
  <2>. QED
    BY <2>2, <2>4
<1>2. PICK x \in T : \A y \in T : x >= y
  BY <1>1, Greatest
<1>3. PICK z \in S : x = -z
  OBVIOUS
<1>4. \A y \in S : z <= y
  <2> TAKE y \in S
  <2>1. -y \in T /\ y \in Int /\ z \in Int
    OBVIOUS
  <2> HIDE DEF T
  <2>. QED
    BY <1>2, <1>3, <2>1
<1>. QED
  BY <1>4 DEF Min

(* Whatever is in a set and not below any of it is its Max.                *)
LEMMA MaxIs ==
  ASSUME NEW S, S \subseteq Int, NEW x \in S, \A y \in S : x >= y
  PROVE  Max(S) = x
<1>1. \E z \in S : \A y \in S : z >= y
  OBVIOUS
<1>2. Max(S) \in S /\ \A y \in S : Max(S) >= y
  BY <1>1 DEF Max
<1>3. Max(S) >= x /\ x >= Max(S) /\ Max(S) \in Int /\ x \in Int
  BY <1>2
<1>. QED
  BY <1>3

(* One number is both the smallest and the greatest of itself.             *)
LEMMA MinMaxOfOne == \A x \in Int : Min({x}) = x /\ Max({x}) = x
BY DEF Min, Max

-----------------------------------------------------------------------------
(* Any set of natural numbers has a least one.                            *)
LEMMA LeastElement ==
  ASSUME NEW T \in SUBSET Nat, T # {}
  PROVE  \E m \in T : \A k \in T : m <= k
<1> DEFINE below == {0 .. n : n \in T}
           order == StrictSubsetOrdering(Nat)
<1>1. below \subseteq FiniteSubsetsOf(Nat)
  <2>1. ASSUME NEW n \in T PROVE 0 .. n \in FiniteSubsetsOf(Nat)
    <3>1. IsFiniteSet(0 .. n)
      BY FS_Interval
    <3> QED BY <3>1 DEF FiniteSubsetsOf
  <2> QED BY <2>1
<1>2. IsWellFoundedOn(order, FiniteSubsetsOf(Nat))
  BY FS_StrictSubsetOrderingWellFounded
<1>3. below # {}
  OBVIOUS
<1>4. PICK least \in below : \A other \in below : <<other, least>> \notin order
  <2> HIDE DEF below, order
  <2> QED BY <1>1, <1>2, <1>3, WFMin
<1>5. PICK m \in T : least = 0 .. m
  OBVIOUS
<1>6. ASSUME NEW k \in T, k < m PROVE FALSE
  <2>1. 0 .. k \subseteq 0 .. m /\ m \in 0 .. m /\ m \notin 0 .. k
    BY <1>6
  <2>2. <<0 .. k, 0 .. m>> \in order
    BY <2>1 DEF StrictSubsetOrdering
  <2> QED BY <2>2, <1>4, <1>5
<1> QED BY <1>6

(* Induction up to n, over a set instead of a predicate. *)
LEMMA UpTo ==
  ASSUME NEW n \in Nat, NEW S, 0 \in S, \A k \in 0 .. n - 1 : k \in S => k + 1 \in S
  PROVE  0 .. n \subseteq S
<1> DEFINE T == (0 .. n) \ S
<1> SUFFICES ASSUME T # {} PROVE FALSE
  OBVIOUS
<1>1. PICK m \in T : \A k \in T : m <= k
  <2>1. T \in SUBSET Nat
    OBVIOUS
  <2> HIDE DEF T
  <2> QED BY <2>1, LeastElement
<1>2. m - 1 \in 0 .. n - 1 /\ m - 1 \in S
  BY <1>1
<1> QED BY <1>1, <1>2

(* A fold over a sequence of length n is well defined: h is its function   *)
(* over the sets of positions, of which the greatest is applied last.      *)
Folded(h, n, base, apply) ==
  h = [s \in SUBSET (1..n) |-> IF s = {} THEN base ELSE apply[Max(s)][h[s \ {Max(s)}]]]

(* A fold over positions is a function on sets of positions that is        *)
(* defined by itself: there is one, built for one position more at a       *)
(* time.                                                                   *)
LEMMA FoldExists ==
  ASSUME NEW n \in Nat, NEW A, NEW base \in A, NEW apply \in [1..n -> [A -> A]]
  PROVE  \E h \in [SUBSET (1..n) -> A] : Folded(h, n, base, apply)
<1> DEFINE Found(k) == \E h \in [SUBSET (1..k) -> A] : Folded(h, k, base, apply)
           S == {k \in 0..n : Found(k)}
<1>1. Found(0)
  <2> DEFINE g == [s \in SUBSET (1..0) |-> base]
  <2>1. \A s \in SUBSET (1..0) : s = {}
    OBVIOUS
  <2>2. Folded(g, 0, base, apply) /\ g \in [SUBSET (1..0) -> A]
    BY <2>1 DEF Folded
  <2>. HIDE DEF g
  <2>. QED
    BY <2>2
<1>2. ASSUME NEW k \in 0..n - 1, Found(k) PROVE Found(k + 1)
  <2>1. PICK h \in [SUBSET (1..k) -> A] : Folded(h, k, base, apply)
    BY <1>2
  <2> DEFINE g == [s \in SUBSET (1..k + 1) |-> IF k + 1 \in s THEN apply[k + 1][h[s \ {k + 1}]] ELSE h[s]]
  <2>2. k + 1 \in 1..n /\ apply[k + 1] \in [A -> A]
    OBVIOUS
  <2>3. ASSUME NEW s \in SUBSET (1..k + 1)
        PROVE  g[s] \in A /\ g[s] = IF s = {} THEN base ELSE apply[Max(s)][g[s \ {Max(s)}]]
    <3>1. CASE k + 1 \in s
      <4>1. Max(s) = k + 1
        <5>1. s \subseteq Int /\ k + 1 \in s /\ \A y \in s : k + 1 >= y
          BY <3>1
        <5>. QED
          BY <5>1, MaxIs
      <4>2. s \ {k + 1} \in SUBSET (1..k) /\ k + 1 \notin s \ {k + 1} /\ s \ {k + 1} \in SUBSET (1..k + 1)
        OBVIOUS
      <4>3. g[s \ {k + 1}] = h[s \ {k + 1}] /\ g[s] = apply[k + 1][h[s \ {k + 1}]]
        BY <3>1, <4>2
      <4>. QED
        BY <2>2, <3>1, <4>1, <4>2, <4>3
    <3>2. CASE k + 1 \notin s
      <4>1. s \in SUBSET (1..k) /\ g[s] = h[s]
        BY <3>2
      <4>2. \A t \in SUBSET (1..k) : t \in SUBSET (1..k + 1) /\ k + 1 \notin t /\ g[t] = h[t]
        OBVIOUS
      <4>3. s \ {Max(s)} \in SUBSET (1..k)
        BY <4>1
      <4>4. h[s] = IF s = {} THEN base ELSE apply[Max(s)][h[s \ {Max(s)}]]
        BY <2>1, <4>1 DEF Folded
      <4>. QED
        BY <4>1, <4>2, <4>3, <4>4
    <3>. QED
      BY <3>1, <3>2
  <2>4. g \in [SUBSET (1..k + 1) -> A] /\ Folded(g, k + 1, base, apply)
    BY <2>3 DEF Folded
  <2>. HIDE DEF g
  <2>. QED
    BY <2>4
<1>3. 0..n \subseteq S
  <2> HIDE DEF Found
  <2>1. 0 \in S /\ \A k \in 0..n - 1 : k \in S => k + 1 \in S
    BY <1>1, <1>2
  <2> HIDE DEF S
  <2>. QED
    BY <2>1, UpTo
<1>4. n \in S
  BY <1>3, n \in 0..n
<1> HIDE DEF Found
<1>5. Found(n)
  BY <1>4
<1>. QED
  BY <1>5 DEF Found

(* The first k positions without the last are the first k - 1.             *)
LEMMA FirstPositions ==
  ASSUME NEW k \in Nat, k # 0
  PROVE  Max(1..k) = k /\ (1..k) \ {Max(1..k)} = 1..k - 1 /\ 1..k # {}
<1>1. 1..k \subseteq Int /\ k \in 1..k /\ \A y \in 1..k : k >= y
  OBVIOUS
<1>2. Max(1..k) = k
  BY <1>1, MaxIs
<1>3. (1..k) \ {k} = 1..k - 1
  OBVIOUS
<1>. QED
  BY <1>1, <1>2, <1>3

(* The last of some positions is one of them.                              *)
LEMMA LastPosition ==
  ASSUME NEW n \in Nat, NEW s \in SUBSET (1..n), s # {}
  PROVE  Max(s) \in 1..n /\ s \ {Max(s)} \in SUBSET (1..n)
<1>1. IsFiniteSet(1..n)
  BY FS_Interval, 1 \in Int, n \in Int
<1>2. IsFiniteSet(s)
  BY <1>1, FS_Subset
<1>3. s \subseteq Int
  <2>1. \A x \in 1..n : x \in Int
    OBVIOUS
  <2>. QED
    BY <2>1
<1>4. Max(s) \in s
  BY <1>2, <1>3, MaxIsGreatest
<1>. QED
  BY <1>4

(* A function takes finitely many arguments to finitely many values.       *)
LEMMA ImageIsFinite ==
  ASSUME NEW S, IsFiniteSet(S), NEW f
  PROVE  IsFiniteSet({f[x] : x \in S})
<1> DEFINE T == {f[x] : x \in S}
           g == [x \in S |-> f[x]]
<1>1. g \in Surjection(S, T)
  BY DEF Surjection
<1>. QED
  BY <1>1, FS_Surjection

-----------------------------------------------------------------------------
(* Date filters.  What the code executes has the column's type.            *)
Executable(timestamp) ==
  {f \in [op : Operators, values : Seq(Instants)] :
     /\ IsDateFilter(f) /\ (f.op = "in" => f.values # <<>>)
     /\ ~timestamp => \A i \in DOMAIN f.values : f.values[i].at = 2 * Day(f.values[i].at)}

(* A time lies in its day, which begins at an even number.                 *)
LEMMA Midnight == \A t \in Nat : Day(t) \in Nat /\ 2 * Day(t) <= t /\ t <= 2 * Day(t) + 1 /\ Day(2 * t) = t
<1> TAKE t \in Nat
<1>1. t \div 2 \in Nat /\ 2 * (t \div 2) <= t /\ t <= 2 * (t \div 2) + 1
  OBVIOUS
<1>2. (2 * t) \div 2 = t
  OBVIOUS
<1>. QED
  BY <1>1, <1>2 DEF Day

(* A converted value is an instant; on a date column it is a midnight.     *)
LEMMA ConvertedInstant ==
  ASSUME NEW v \in Instants, NEW timestamp
  PROVE  /\ Converted(v, timestamp) \in Instants
         /\ ~timestamp => Converted(v, timestamp).at = 2 * Day(Converted(v, timestamp).at)
<1>1. v.at \in Nat /\ 2 * Day(v.at) \in Nat /\ Day(2 * Day(v.at)) = Day(v.at)
  <2>1. v.at \in Nat
    BY DEF Instants
  <2>2. Day(v.at) \in Nat
    BY <2>1, Midnight
  <2>. QED
    BY <2>1, <2>2, Midnight
<1> DEFINE m == [v EXCEPT !.at = 2 * Day(v.at)]
<1>2. m \in Instants /\ m.at = 2 * Day(v.at)
  BY <1>1 DEF Instants
<1>3. m.at = 2 * Day(m.at)
  BY <1>1, <1>2
<1>4. Converted(v, timestamp) = IF timestamp THEN v ELSE m
  BY DEF Converted
<1> HIDE DEF m
<1>. QED
  BY <1>2, <1>3, <1>4

(* One day later, the other field unchanged.                               *)
LEMMA NextInstant ==
  ASSUME NEW v \in Instants
  PROVE  [v EXCEPT !.at = @ + 2] = [at |-> v.at + 2, dateOnly |-> v.dateOnly]
BY DEF Instants

(* What _convert_filter_value and the split of a between make of a filter  *)
(* has the type of the column.                                             *)
LEMMA ConvertedIsExecutable ==
  ASSUME NEW f, IsDateFilter(f), f.op = "in" => f.values # <<>>, NEW timestamp
  PROVE  ConvertedFilter(f, timestamp) \in Seq(Executable(timestamp))
<1> DEFINE conv == [i \in DOMAIN f.values |-> Converted(f.values[i], timestamp)]
           c    == [f EXCEPT !.values = conv]
           next == [conv[2] EXCEPT !.at = @ + 2]
<1>1. /\ f \in [op : Operators, values : Seq(Instants)] /\ f.values \in Seq(Instants)
      /\ DOMAIN f.values = 1..Len(f.values) /\ Len(f.values) \in Nat
      /\ f.op # "in" => Len(f.values) = IF f.op = "between" THEN 2 ELSE 1
  BY LenProperties DEF IsDateFilter
<1>2. \A i \in DOMAIN f.values : /\ conv[i] \in Instants
                                 /\ ~timestamp => conv[i].at = 2 * Day(conv[i].at)
  <2> TAKE i \in DOMAIN f.values
  <2>1. f.values[i] \in Instants
    BY <1>1
  <2>. QED
    BY <2>1, ConvertedInstant
<1>3. conv \in Seq(Instants) /\ Len(conv) = Len(f.values) /\ DOMAIN conv = DOMAIN f.values
  <2>1. conv \in [1..Len(f.values) -> Instants]
    BY <1>1, <1>2
  <2>. QED
    BY <1>1, <2>1
<1>4. f.op = "in" => conv # <<>>
  BY <1>1, <1>3
<1> HIDE DEF conv
<1>5. c \in [op : Operators, values : Seq(Instants)] /\ c.op = f.op /\ c.values = conv
  BY <1>1, <1>3
<1> HIDE DEF c
<1>6. c \in Executable(timestamp)
  BY <1>1, <1>2, <1>3, <1>4, <1>5 DEF Executable, IsDateFilter
<1>7. CASE timestamp /\ f.op = "between" /\ f.values[2].dateOnly
  <2> DEFINE lower == DateFilter("gte", <<conv[1]>>)
             upper == DateFilter("lt", <<next>>)
  <2>1. 1 \in DOMAIN f.values /\ 2 \in DOMAIN f.values /\ conv[1] \in Instants /\ conv[2] \in Instants
    BY <1>1, <1>2, <1>7
  <2>2. next \in Instants
    BY <2>1 DEF Instants
  <2> HIDE DEF next
  <2>3. <<conv[1]>> \in Seq(Instants) /\ <<next>> \in Seq(Instants)
    BY <2>1, <2>2
  <2>4. lower \in Executable(timestamp) /\ upper \in Executable(timestamp)
    BY <1>7, <2>3 DEF Executable, IsDateFilter, DateFilter, Operators
  <2>5. ConvertedFilter(f, timestamp) = <<lower, upper>>
    BY <1>5, <1>7 DEF ConvertedFilter, c, conv, next
  <2> HIDE DEF lower, upper
  <2>. QED
    BY <2>4, <2>5
<1>8. CASE ~(timestamp /\ f.op = "between" /\ f.values[2].dateOnly)
  <2>1. ConvertedFilter(f, timestamp) = <<c>>
    BY <1>8 DEF ConvertedFilter, c, conv
  <2>. QED
    BY <1>6, <2>1
<1>. QED
  BY <1>7, <1>8

(* Lists of lists are flattened to a list of their elements, however many  *)
(* there are: the recursive function exists up to each number of lists.    *)
LEMMA FlattenedIsList ==
  ASSUME NEW E, NEW lists \in Seq(Seq(E))
  PROVE  FlattenSeq(lists) \in Seq(E)
<1> DEFINE N == Len(lists)
           Flat(f, n) == f = [i \in 1..n |-> IF i = 1 THEN lists[i] ELSE f[i - 1] \o lists[i]]
<1>1. N \in Nat /\ DOMAIN lists = 1..N /\ \A i \in 1..N : lists[i] \in Seq(E)
  BY LenProperties, ElementOfSeq
<1>2. CASE N = 0
  <2>1. lists = <<>>
    BY <1>1, <1>2
  <2>. QED
    BY <1>2, <2>1 DEF FlattenSeq
<1>3. CASE N # 0
  <2>1. \E f : Flat(f, N)
    <3> DEFINE S == {n \in 0..N : \E f : Flat(f, n)}
    <3>1. 0 \in S
      <4> DEFINE g == [i \in 1..0 |-> <<>>]
      <4>1. Flat(g, 0)
        OBVIOUS
      <4>2. \E f : Flat(f, 0)
        <5> HIDE DEF g, Flat
        <5>. QED
          BY <4>1
      <4> HIDE DEF Flat
      <4>. QED
        BY <1>1, <4>2
    <3>2. ASSUME NEW n \in 0..N - 1, n \in S PROVE n + 1 \in S
      <4>1. PICK f : Flat(f, n)
        BY <3>2
      <4> DEFINE g == [i \in 1..n + 1 |-> IF i = n + 1 THEN (IF i = 1 THEN lists[i] ELSE f[n] \o lists[i]) ELSE f[i]]
      <4>2. ASSUME NEW i \in 1..n + 1
            PROVE  g[i] = IF i = 1 THEN lists[i] ELSE g[i - 1] \o lists[i]
        <5>1. CASE i = n + 1
          <6>1. i # 1 => i - 1 \in 1..n + 1 /\ i - 1 # n + 1 /\ i - 1 = n
            BY <5>1
          <6>. QED
            BY <5>1, <6>1
        <5>2. CASE i \in 1..n
          <6>1. g[i] = f[i] /\ (i # 1 => g[i - 1] = f[i - 1])
            BY <5>2
          <6>2. f[i] = IF i = 1 THEN lists[i] ELSE f[i - 1] \o lists[i]
            BY <4>1, <5>2
          <6>. QED
            BY <6>1, <6>2
        <5>. QED
          BY <5>1, <5>2
      <4>3. Flat(g, n + 1)
        BY <4>2
      <4>4. \E h : Flat(h, n + 1)
        <5> HIDE DEF g, Flat
        <5>. QED
          BY <4>3
      <4> HIDE DEF Flat
      <4>. QED
        BY <1>1, <4>4
    <3> HIDE DEF S
    <3>3. 0..N \subseteq S
      BY <1>1, <3>1, <3>2, UpTo
    <3>4. N \in S
      BY <1>1, <3>3
    <3> HIDE DEF Flat
    <3>. QED
      BY <3>4 DEF S
  <2> DEFINE flatten == CHOOSE f : Flat(f, N)
  <2>2. Flat(flatten, N)
    BY <2>1
  <2>3. FlattenSeq(lists) = flatten[N]
    BY <1>3 DEF FlattenSeq
  <2> HIDE DEF flatten
  <2> DEFINE S == {n \in 0..N - 1 : flatten[n + 1] \in Seq(E)}
  <2>4. 0 \in S
    BY <1>1, <1>3, <2>2
  <2>5. ASSUME NEW n \in 0..N - 1 - 1, n \in S PROVE n + 1 \in S
    <3>5. n + 2 \in 1..N /\ n + 2 # 1 /\ (n + 2) - 1 = n + 1 /\ n \in Nat
      BY <1>1
    <3>1. flatten[n + 2] = flatten[n + 1] \o lists[n + 2]
      BY <2>2, <3>5
    <3>2. flatten[n + 1] \in Seq(E) /\ lists[n + 2] \in Seq(E)
      BY <1>1, <2>5, <3>5
    <3>3. flatten[n + 1] \o lists[n + 2] \in Seq(E)
      BY ONLY <3>2, ConcatProperties, Zenon
    <3>4. n + 1 \in 0..N - 1 /\ (n + 1) + 1 = n + 2
      BY <1>1
    <3>. QED
      BY <3>1, <3>3, <3>4
  <2>6. N - 1 \in Nat /\ N - 1 \in 0..N - 1 /\ (N - 1) + 1 = N
    BY <1>1, <1>3
  <2>7. N - 1 \in S
    <3> HIDE DEF S
    <3>1. 0..N - 1 \subseteq S
      BY <2>4, <2>5, <2>6, UpTo
    <3>. QED
      BY <2>6, <3>1
  <2>. QED
    BY <2>3, <2>6, <2>7
<1>. QED
  BY <1>2, <1>3

(* So has the range that is put in when the plan has no date.              *)
LEMMA DefaultIsExecutable ==
  ASSUME NEW timestamp
  PROVE  DefaultRange(timestamp) \in Seq(Executable(timestamp))
<1> DEFINE start == [at |-> 2 * (Today - (DefaultDays - 1)), dateOnly |-> TRUE]
           end   == [at |-> 2 * Today, dateOnly |-> TRUE]
           next  == [at |-> 2 * Today + 2, dateOnly |-> TRUE]
<1>1. Today - (DefaultDays - 1) \in Nat /\ Today \in Nat /\ Today + 1 \in Nat /\ 2 * Today + 2 = 2 * (Today + 1)
  BY DaysAssumption
<1>2. /\ start \in Instants /\ end \in Instants /\ next \in Instants
      /\ \A v \in {start, end, next} : v.at = 2 * Day(v.at)
  <2>1. \A d \in Nat : 2 * d \in Nat /\ 2 * d = 2 * Day(2 * d)
    <3> TAKE d \in Nat
    <3>1. 2 * d \in Nat /\ Day(2 * d) = d
      BY Midnight
    <3>. QED
      BY <3>1
  <2>2. 2 * Today + 2 \in Nat /\ 2 * Today + 2 = 2 * Day(2 * Today + 2)
    <3>1. 2 * (Today + 1) \in Nat /\ 2 * (Today + 1) = 2 * Day(2 * (Today + 1))
      BY <1>1, <2>1
    <3>. QED
      BY <1>1, <3>1
  <2>3. start \in Instants /\ start.at = 2 * Day(start.at)
    BY <1>1, <2>1 DEF Instants
  <2>4. end \in Instants /\ end.at = 2 * Day(end.at)
    BY <1>1, <2>1 DEF Instants
  <2>5. next \in Instants /\ next.at = 2 * Day(next.at)
    BY <2>2 DEF Instants
  <2> HIDE DEF start, end, next
  <2>. QED
    BY <2>3, <2>4, <2>5
<1>3. DefaultRange(timestamp) = IF timestamp THEN <<DateFilter("gte", <<start>>), DateFilter("lt", <<next>>)>>
                                            ELSE <<DateFilter("between", <<start, end>>)>>
  <2>1. [end EXCEPT !.at = @ + 2] = next
    BY <1>2, NextInstant
  <2>. QED
    BY <2>1 DEF DefaultRange
<1> HIDE DEF start, end, next
<1>4. <<start>> \in Seq(Instants) /\ <<next>> \in Seq(Instants) /\ <<start, end>> \in Seq(Instants)
  BY <1>2
<1>5. /\ DateFilter("gte", <<start>>) \in Executable(timestamp)
      /\ DateFilter("lt", <<next>>) \in Executable(timestamp)
      /\ DateFilter("between", <<start, end>>) \in Executable(timestamp)
  <2>1. /\ \A i \in DOMAIN <<start>> : <<start>>[i] = start
        /\ \A i \in DOMAIN <<next>> : <<next>>[i] = next
        /\ \A i \in DOMAIN <<start, end>> : <<start, end>>[i] \in {start, end}
    <3>1. DOMAIN <<start>> = 1..1 /\ DOMAIN <<next>> = 1..1 /\ DOMAIN <<start, end>> = 1..2
      OBVIOUS
    <3>2. \A i \in 1..1 : i = 1
      OBVIOUS
    <3>3. \A i \in 1..2 : i = 1 \/ i = 2
      OBVIOUS
    <3>. QED
      BY <3>1, <3>2, <3>3
  <2>. QED
    BY <1>2, <1>4, <2>1 DEF Executable, IsDateFilter, DateFilter, Operators
<1>. QED
  BY <1>3, <1>5

(* And so have all the filters that the statement executes, when none is   *)
(* an empty in.                                                            *)
LEMMA FiltersAreExecutable ==
  ASSUME NEW filters, filters \in Seq(ToSet(filters)), \A f \in ToSet(filters) : IsDateFilter(f),
         ~Raises(filters), NEW timestamp
  PROVE  DateFilters(filters, timestamp) \in Seq(Executable(timestamp))
<1> DEFINE lists == [i \in DOMAIN filters |-> ConvertedFilter(filters[i], timestamp)]
<1>1. DOMAIN filters = 1..Len(filters) /\ Len(filters) \in Nat
  BY LenProperties
<1>2. \A i \in DOMAIN filters : lists[i] \in Seq(Executable(timestamp))
  <2> TAKE i \in DOMAIN filters
  <2>1. IsDateFilter(filters[i]) /\ (filters[i].op = "in" => filters[i].values # <<>>)
    BY DEF ToSet, Raises
  <2>. QED
    BY <2>1, ConvertedIsExecutable
<1>3. lists \in Seq(Seq(Executable(timestamp)))
  <2>1. lists \in [1..Len(filters) -> Seq(Executable(timestamp))]
    BY <1>1, <1>2
  <2>. QED
    BY <1>1, <2>1
<1>4. FlattenSeq(lists) \in Seq(Executable(timestamp))
  BY <1>3, FlattenedIsList
<1>. QED
  BY <1>4, DefaultIsExecutable DEF DateFilters

-----------------------------------------------------------------------------
(* What a filter lets through lies within its bounds.                      *)
LEMMA TimesOfFilter ==
  ASSUME NEW timestamp, NEW f \in Executable(timestamp)
  PROVE  /\ Times(f) \subseteq Nat /\ IsFiniteSet(Times(f)) /\ Times(f) # {}
         /\ ~timestamp => \A t \in Times(f) : t = 2 * Day(t)
         /\ f.op \notin {"between", "in"} => Times(f) = {f.values[1].at}
         /\ f.op = "between" => f.values[2].at \in Times(f)
         /\ f.op # "in" => f.values[1].at \in Times(f)
<1>1. /\ f.values \in Seq(Instants) /\ (f.op = "in" => f.values # <<>>)
      /\ f.op # "in" => Len(f.values) = IF f.op = "between" THEN 2 ELSE 1
      /\ ~timestamp => \A i \in DOMAIN f.values : f.values[i].at = 2 * Day(f.values[i].at)
  BY DEF Executable, IsDateFilter
<1>2. DOMAIN f.values = 1..Len(f.values) /\ Len(f.values) \in Nat /\ Len(f.values) # 0
  <2>1. DOMAIN f.values = 1..Len(f.values) /\ Len(f.values) \in Nat
    BY <1>1, LenProperties
  <2>2. f.op = "in" => Len(f.values) # 0
    BY <1>1, EmptySeq
  <2>. QED
    BY <1>1, <2>1, <2>2
<1>3. \A i \in DOMAIN f.values : f.values[i].at \in Nat
  <2> TAKE i \in DOMAIN f.values
  <2>1. f.values[i] \in Instants
    BY <1>2 DEF Executable
  <2>. QED
    BY <2>1 DEF Instants
<1>4. IsFiniteSet(Times(f))
  <2> DEFINE at == [i \in DOMAIN f.values |-> f.values[i].at]
  <2>1. IsFiniteSet(DOMAIN f.values)
    BY <1>2, FS_Interval
  <2>2. IsFiniteSet({at[i] : i \in DOMAIN f.values})
    BY <2>1, ImageIsFinite
  <2>. QED
    BY <2>2 DEF Times
<1>5. 1 \in DOMAIN f.values
  BY <1>2
<1>6. f.op \notin {"between", "in"} => \A i \in DOMAIN f.values : i = 1
  BY <1>1, <1>2
<1>7. f.op = "between" => 2 \in DOMAIN f.values
  BY <1>1, <1>2
<1>. QED
  BY <1>1, <1>3, <1>4, <1>5, <1>6, <1>7 DEF Times

(* The bounds that the check takes from a filter hold for every row that   *)
(* the filter lets through.                                                *)
LEMMA BoundsOfFilter ==
  ASSUME NEW timestamp, NEW f \in Executable(timestamp)
  PROVE  /\ Lower(f) \subseteq Times(f) /\ Upper(f) \subseteq Times(f)
         /\ Upper(f) # {} => \E u \in Upper(f) : Upper(f) = {u}
         /\ \A t \in Nat : Holds(f, t) =>
              /\ \A l \in Lower(f) : l <= t
              /\ \A u \in Upper(f) : t <= u /\ (f.op = "lt" => t < u)
<1>1. /\ Times(f) \subseteq Int /\ IsFiniteSet(Times(f)) /\ Times(f) # {}
      /\ f.op = "between" => f.values[2].at \in Times(f)
      /\ f.op # "in" => f.values[1].at \in Times(f)
  BY TimesOfFilter
<1>2. /\ Min(Times(f)) \in Times(f) /\ \A y \in Times(f) : Min(Times(f)) <= y
      /\ Max(Times(f)) \in Times(f) /\ \A y \in Times(f) : Max(Times(f)) >= y
  BY <1>1, MinIsSmallest, MaxIsGreatest
<1>3. f.op \in Operators
  BY DEF Executable
<1>4. CASE f.op = "between"
  <2>1. Lower(f) = {f.values[1].at} /\ Upper(f) = {f.values[2].at}
    BY <1>4 DEF Lower, Upper, After, Before
  <2>2. \A t : Holds(f, t) => f.values[1].at <= t /\ t <= f.values[2].at
    BY <1>4 DEF Holds
  <2>. QED
    BY <1>1, <1>4, <2>1, <2>2
<1>5. CASE f.op = "eq"
  <2>1. Lower(f) = {f.values[1].at} /\ Upper(f) = {f.values[1].at}
    BY <1>5 DEF Lower, Upper, After, Before
  <2>2. \A t : Holds(f, t) => t = f.values[1].at
    BY <1>5 DEF Holds
  <2>. QED
    BY <1>1, <1>5, <2>1, <2>2
<1>6. CASE f.op = "in"
  <2>1. Lower(f) = {Min(Times(f))} /\ Upper(f) = {Max(Times(f))}
    BY <1>6 DEF Lower, Upper, After, Before
  <2>2. \A t : Holds(f, t) => t \in Times(f)
    BY <1>6 DEF Holds
  <2>. QED
    BY <1>1, <1>2, <1>6, <2>1, <2>2
<1>7. CASE f.op \in After
  <2>1. Lower(f) = {f.values[1].at} /\ Upper(f) = {}
    BY <1>7 DEF Lower, Upper, After, Before
  <2>2. \A t : Holds(f, t) => t > f.values[1].at \/ t >= f.values[1].at
    BY <1>7 DEF Holds, After
  <2>. QED
    BY <1>1, <1>7, <2>1, <2>2 DEF After
<1>8. CASE f.op \in Before
  <2>1. Lower(f) = {} /\ Upper(f) = {f.values[1].at}
    BY <1>8 DEF Lower, Upper, After, Before
  <2>2. f.op = "lt" => \A t : Holds(f, t) => t < f.values[1].at
    BY DEF Holds
  <2>3. f.op = "lte" => \A t : Holds(f, t) => t <= f.values[1].at
    BY DEF Holds
  <2>. QED
    BY <1>1, <1>8, <2>1, <2>2, <2>3 DEF Before
<1>9. CASE f.op \in {"ne", "is_null", "is_not_null"}
  <2>1. Lower(f) = {} /\ Upper(f) = {}
    BY <1>9 DEF Lower, Upper, After, Before
  <2>. QED
    BY <1>9, <2>1
<1>. QED
  BY <1>3, <1>4, <1>5, <1>6, <1>7, <1>8, <1>9 DEF Operators, After, Before

(* The greatest lower and the smallest upper bound.                        *)
LEMMA BoundsOfFilters ==
  ASSUME NEW timestamp, NEW filters \in Seq(Executable(timestamp)), Lowers(filters) # {}, Uppers(filters) # {}
  PROVE  /\ Max(Lowers(filters)) \in Lowers(filters) /\ Max(Lowers(filters)) \in Nat
         /\ Min(Uppers(filters)) \in Uppers(filters) /\ Min(Uppers(filters)) \in Nat
         /\ \E i \in DOMAIN filters : /\ Upper(filters[i]) = {Min(Uppers(filters))}
                                      /\ EndOperator(filters) = filters[i].op
<1>1. DOMAIN filters = 1..Len(filters) /\ Len(filters) \in Nat
  BY LenProperties
<1>2. \A i \in DOMAIN filters : filters[i] \in Executable(timestamp)
  BY <1>1, ElementOfSeq
<1>3. ASSUME NEW i \in DOMAIN filters
      PROVE  /\ Lower(filters[i]) \subseteq Nat /\ IsFiniteSet(Lower(filters[i]))
             /\ Upper(filters[i]) \subseteq Nat /\ IsFiniteSet(Upper(filters[i]))
  <2>1. /\ Times(filters[i]) \subseteq Nat /\ IsFiniteSet(Times(filters[i]))
        /\ Lower(filters[i]) \subseteq Times(filters[i]) /\ Upper(filters[i]) \subseteq Times(filters[i])
    BY <1>2, TimesOfFilter, BoundsOfFilter
  <2>. QED
    BY <2>1, FS_Subset
<1>4. IsFiniteSet(DOMAIN filters)
  BY <1>1, FS_Interval
<1>5. IsFiniteSet(Lowers(filters)) /\ Lowers(filters) \subseteq Nat
  <2> DEFINE lower == [i \in DOMAIN filters |-> Lower(filters[i])]
  <2>1. IsFiniteSet({lower[i] : i \in DOMAIN filters})
    BY <1>4, ImageIsFinite
  <2>2. \A T \in {lower[i] : i \in DOMAIN filters} : IsFiniteSet(T) /\ T \subseteq Nat
    BY <1>3
  <2>3. Lowers(filters) = UNION {lower[i] : i \in DOMAIN filters}
    BY DEF Lowers
  <2> HIDE DEF lower
  <2>. QED
    BY <2>1, <2>2, <2>3, FS_UNION
<1>6. IsFiniteSet(Uppers(filters)) /\ Uppers(filters) \subseteq Nat
  <2> DEFINE upper == [i \in DOMAIN filters |-> Upper(filters[i])]
  <2>1. IsFiniteSet({upper[i] : i \in DOMAIN filters})
    BY <1>4, ImageIsFinite
  <2>2. \A T \in {upper[i] : i \in DOMAIN filters} : IsFiniteSet(T) /\ T \subseteq Nat
    BY <1>3
  <2>3. Uppers(filters) = UNION {upper[i] : i \in DOMAIN filters}
    BY DEF Uppers
  <2> HIDE DEF upper
  <2>. QED
    BY <2>1, <2>2, <2>3, FS_UNION
<1>7. Max(Lowers(filters)) \in Lowers(filters) /\ Min(Uppers(filters)) \in Uppers(filters)
  BY <1>5, <1>6, MaxIsGreatest, MinIsSmallest
<1> DEFINE ends == {i \in DOMAIN filters : Upper(filters[i]) = {Min(Uppers(filters))}}
<1>8. ends # {}
  <2>1. PICK i \in DOMAIN filters : Min(Uppers(filters)) \in Upper(filters[i])
    BY <1>7 DEF Uppers
  <2>2. \E u \in Upper(filters[i]) : Upper(filters[i]) = {u}
    BY <1>2, <2>1, BoundsOfFilter
  <2>. QED
    BY <2>1, <2>2
<1>9. IsFiniteSet(ends) /\ ends \subseteq Int
  BY <1>1, <1>4, FS_Subset
<1>10. Min(ends) \in ends
  BY <1>8, <1>9, MinIsSmallest
<1>11. EndOperator(filters) = filters[Min(ends)].op
  BY DEF EndOperator
<1> HIDE DEF ends
<1>12. Min(ends) \in DOMAIN filters /\ Upper(filters[Min(ends)]) = {Min(Uppers(filters))}
  BY <1>10 DEF ends
<1>. QED
  BY <1>5, <1>6, <1>7, <1>11, <1>12

(* The number of days between two bounds that are not too far apart.       *)
LEMMA DaysWithin ==
  ASSUME NEW first \in Nat, NEW last \in Int, NEW n \in Nat, last - first < n,
         NEW days, days \subseteq first..last
  PROVE  IsFiniteSet(days) /\ Cardinality(days) <= n
<1>1. IsFiniteSet(first..last) /\ Cardinality(first..last) = IF first > last THEN 0 ELSE last - first + 1
  BY FS_Interval
<1>2. IsFiniteSet(days) /\ Cardinality(days) <= Cardinality(first..last) /\ Cardinality(days) \in Nat
  BY <1>1, FS_Subset, FS_CardinalityType
<1>. QED
  BY <1>1, <1>2

(* The range ends before a time of day and not before midnight.            *)
Partial(filters) == \E f \in ToSet(filters) : f.op = "lt" /\ \E t \in Times(f) : t # 2 * Day(t)

(* The check of the range bounds the days that are read.                   *)
LEMMA DaysAreBounded ==
  ASSUME NEW timestamp, NEW filters \in Seq(Executable(timestamp)), RangeAllowed(filters), NEW n \in Nat
  PROVE  Cardinality(DaysRead(filters, timestamp, n)) <= MaxDays + (IF timestamp /\ Partial(filters) THEN 1 ELSE 0)
<1> DEFINE start == Max(Lowers(filters))
           end   == Min(Uppers(filters))
           days  == DaysRead(filters, timestamp, n)
           passed(t) == \A i \in DOMAIN filters : Holds(filters[i], t)
<1>1. /\ start \in Lowers(filters) /\ start \in Nat /\ end \in Uppers(filters) /\ end \in Nat
      /\ \E i \in DOMAIN filters : Upper(filters[i]) = {end} /\ EndOperator(filters) = filters[i].op
  BY BoundsOfFilters DEF RangeAllowed
<1>2. PICK e \in DOMAIN filters : Upper(filters[e]) = {end} /\ EndOperator(filters) = filters[e].op
  BY <1>1
<1>3. PICK s \in DOMAIN filters : start \in Lower(filters[s])
  BY <1>1 DEF Lowers
<1>4. \A i \in DOMAIN filters : filters[i] \in Executable(timestamp) /\ filters[i] \in ToSet(filters)
  BY LenProperties, ElementOfSeq DEF ToSet
<1>5. /\ end >= start /\ MaxDays \in Nat
      /\ Day(end) - Day(start) <= IF filters[e].op = "lt" THEN MaxDays ELSE MaxDays - 1
  BY <1>2, DaysAssumption DEF RangeAllowed
<1> HIDE DEF start, end
<1>6. ASSUME NEW t \in Nat, passed(t)
      PROVE  start <= t /\ t <= end /\ (filters[e].op = "lt" => t < end)
  <2>1. Holds(filters[s], t) /\ Holds(filters[e], t)
    BY <1>6
  <2>. QED
    BY <1>2, <1>3, <1>4, <2>1, BoundsOfFilter
<1>7. \A d \in days : \E t \in Nat : d = Day(t) /\ passed(t) /\ (timestamp \/ t = 2 * Day(t))
  <2>1. \A t \in 0..2 * n + 1 : t \in Nat
    OBVIOUS
  <2>. QED
    BY <2>1 DEF DaysRead
<1>8. Day(start) \in Nat /\ Day(end) \in Nat /\ 2 * Day(end) <= end /\ end <= 2 * Day(end) + 1
  BY <1>1, Midnight
<1> HIDE DEF passed, days
<1>9. \A d \in days : d \in Day(start)..Day(end)
  <2> TAKE d \in days
  <2>1. PICK t \in Nat : d = Day(t) /\ passed(t)
    BY <1>7
  <2>2. start <= t /\ t <= end
    BY <1>6, <2>1
  <2>3. \A x, y \in Nat : x <= y => Day(x) <= Day(y) /\ Day(x) \in Nat /\ Day(y) \in Nat
    BY DEF Day
  <2>. QED
    BY <1>1, <2>1, <2>2, <2>3
<1>10. CASE filters[e].op # "lt" \/ (timestamp /\ Partial(filters))
  <2> DEFINE m == MaxDays + (IF timestamp /\ Partial(filters) THEN 1 ELSE 0)
  <2>1. m \in Nat /\ Day(end) - Day(start) < m
    BY <1>5, <1>8, <1>10
  <2> HIDE DEF m
  <2>2. Cardinality(days) <= m
    BY <1>8, <1>9, <2>1, DaysWithin
  <2>. QED
    BY <2>2 DEF m, days
<1>11. CASE filters[e].op = "lt" /\ ~(timestamp /\ Partial(filters))
  <2>1. end \in Times(filters[e])
    BY <1>2, <1>4, BoundsOfFilter
  <2>2. end = 2 * Day(end)
    <3>1. CASE timestamp
      BY <1>4, <1>11, <2>1, <3>1 DEF Partial
    <3>2. CASE ~timestamp
      BY <1>4, <2>1, <3>2, TimesOfFilter
    <3>. QED
      BY <3>1, <3>2
  <2>3. \A d \in days : d \in Day(start)..Day(end) - 1
    <3> TAKE d \in days
    <3>1. PICK t \in Nat : d = Day(t) /\ passed(t)
      BY <1>7
    <3>2. t < end
      BY <1>6, <1>11, <3>1
    <3>3. Day(t) \in Nat /\ 2 * Day(t) <= t
      BY Midnight
    <3>. QED
      BY <1>1, <1>8, <1>9, <2>2, <3>1, <3>2, <3>3
  <2>4. Cardinality(days) <= MaxDays
    <3>1. Day(end) - 1 \in Int /\ (Day(end) - 1) - Day(start) < MaxDays
      BY <1>5, <1>8, <1>11
    <3>2. days \subseteq Day(start)..(Day(end) - 1)
      BY <2>3
    <3>. QED
      BY <1>5, <1>8, <3>1, <3>2, DaysWithin
  <2>5. MaxDays + (IF timestamp /\ Partial(filters) THEN 1 ELSE 0) = MaxDays
    <3>1. (IF timestamp /\ Partial(filters) THEN 1 ELSE 0) = 0
      BY <1>11
    <3>. QED
      BY <1>5, <3>1
  <2>. QED
    BY <2>4, <2>5 DEF days
<1>. QED
  BY <1>10, <1>11

(* The default range is never refused.                                     *)
LEMMA DefaultIsAllowed == \A timestamp \in BOOLEAN : RangeAllowed(DefaultRange(timestamp))
<1> TAKE timestamp \in BOOLEAN
<1> DEFINE first == 2 * (Today - (DefaultDays - 1))
           start == [at |-> first, dateOnly |-> TRUE]
           end   == [at |-> 2 * Today, dateOnly |-> TRUE]
           next  == [at |-> 2 * Today + 2, dateOnly |-> TRUE]
           filters == DefaultRange(timestamp)
<1>1. /\ Today \in Nat /\ DefaultDays \in Nat /\ MaxDays \in Nat /\ DefaultDays >= 1 /\ DefaultDays <= MaxDays
      /\ first \in Nat
  BY DaysAssumption
<1>2. filters = IF timestamp THEN <<DateFilter("gte", <<start>>), DateFilter("lt", <<next>>)>>
                             ELSE <<DateFilter("between", <<start, end>>)>>
  <2>1. end \in Instants /\ end.at = 2 * Today
    BY <1>1 DEF Instants
  <2>2. [end EXCEPT !.at = @ + 2] = next
    BY <2>1, NextInstant
  <2>. QED
    BY <2>2 DEF DefaultRange
<1>3. \A d \in Nat : Day(2 * d) = d
  BY Midnight
<1>4. /\ Day(first) = Today - (DefaultDays - 1) /\ Day(2 * Today) = Today
      /\ Day(2 * Today + 2) = Today + 1
  <2>1. 2 * Today + 2 = 2 * (Today + 1) /\ Today + 1 \in Nat /\ Today - (DefaultDays - 1) \in Nat
    BY DaysAssumption
  <2>. QED
    BY <1>1, <1>3, <2>1
<1>5. filters \in Seq(Executable(timestamp))
  BY DefaultIsExecutable
<1> HIDE DEF filters
<1>6. CASE timestamp
  <2> DEFINE f == DateFilter("gte", <<start>>)
             g == DateFilter("lt", <<next>>)
  <2>1. filters = <<f, g>>
    BY <1>2, <1>6
  <2>2. Lower(f) = {first} /\ Upper(f) = {} /\ Lower(g) = {} /\ Upper(g) = {2 * Today + 2}
    BY DEF Lower, Upper, DateFilter, After, Before
  <2>3. g.op = "lt" /\ f.op = "gte"
    BY DEF DateFilter
  <2> HIDE DEF f, g
  <2>0. DOMAIN filters = 1..2 /\ filters[1] = f /\ filters[2] = g
    BY <2>1
  <2>4. Lowers(filters) = {first} /\ Uppers(filters) = {2 * Today + 2}
    <3>1. \A i \in DOMAIN filters : i = 1 \/ i = 2
      BY <2>0
    <3>2. 1 \in DOMAIN filters /\ 2 \in DOMAIN filters
      BY <2>0
    <3>3. Lower(filters[1]) = {first} /\ Upper(filters[1]) = {} /\ Lower(filters[2]) = {}
          /\ Upper(filters[2]) = {2 * Today + 2}
      BY <2>0, <2>2
    <3> HIDE DEF first
    <3>. QED
      BY ONLY <3>1, <3>2, <3>3 DEF Lowers, Uppers
  <2>5. Max(Lowers(filters)) = first /\ Min(Uppers(filters)) = 2 * Today + 2
    <3>1. first \in Int /\ 2 * Today + 2 \in Int
      BY <1>1
    <3> HIDE DEF first
    <3>2. Max({first}) = first /\ Min({2 * Today + 2}) = 2 * Today + 2
      BY <3>1, MinMaxOfOne
    <3>. QED
      BY <2>4, <3>2
  <2>6. EndOperator(filters) = "lt"
    <3>1. PICK i \in DOMAIN filters : /\ Upper(filters[i]) = {Min(Uppers(filters))}
                                     /\ EndOperator(filters) = filters[i].op
      <4>1. Lowers(filters) # {} /\ Uppers(filters) # {}
        BY <2>4
      <4>. QED
        BY <1>5, <4>1, BoundsOfFilters
    <3>2. Upper(filters[i]) # {}
      BY <3>1
    <3>3. i = 2
      BY <2>0, <2>2, <3>2
    <3>. QED
      BY <2>0, <2>3, <3>1, <3>3
  <2>7. RangeAllowed(filters)
    <3>1. Lowers(filters) # {} /\ Uppers(filters) # {}
      BY <2>4
    <3>2. 2 * Today + 2 >= first
      BY <1>1
    <3>3. Day(2 * Today + 2) - Day(first) <= MaxDays
      BY <1>1, <1>4
    <3> HIDE DEF first
    <3>. QED
      BY <2>5, <2>6, <3>1, <3>2, <3>3 DEF RangeAllowed
  <2>. QED
    BY <2>7 DEF filters
<1>7. CASE ~timestamp
  <2> DEFINE f == DateFilter("between", <<start, end>>)
  <2>1. filters = <<f>>
    BY <1>2, <1>7
  <2>2. Lower(f) = {first} /\ Upper(f) = {2 * Today}
    BY DEF Lower, Upper, DateFilter, After, Before
  <2>3. f.op = "between"
    BY DEF DateFilter
  <2> HIDE DEF f
  <2>0. DOMAIN filters = 1..1 /\ filters[1] = f
    BY <2>1
  <2>4. Lowers(filters) = {first} /\ Uppers(filters) = {2 * Today}
    <3>1. \A i \in DOMAIN filters : i = 1
      BY <2>0
    <3>2. 1 \in DOMAIN filters
      BY <2>0
    <3>3. Lower(filters[1]) = {first} /\ Upper(filters[1]) = {2 * Today}
      BY <2>0, <2>2
    <3> HIDE DEF first
    <3>. QED
      BY ONLY <3>1, <3>2, <3>3 DEF Lowers, Uppers
  <2>5. Max(Lowers(filters)) = first /\ Min(Uppers(filters)) = 2 * Today
    <3>1. first \in Int /\ 2 * Today \in Int
      BY <1>1
    <3> HIDE DEF first
    <3>2. Max({first}) = first /\ Min({2 * Today}) = 2 * Today
      BY <3>1, MinMaxOfOne
    <3>. QED
      BY <2>4, <3>2
  <2>6. EndOperator(filters) = "between"
    <3>1. Lowers(filters) # {} /\ Uppers(filters) # {}
      BY <2>4
    <3>2. PICK i \in DOMAIN filters : EndOperator(filters) = filters[i].op
      BY <1>5, <3>1, BoundsOfFilters
    <3>3. i = 1
      BY <2>0
    <3>. QED
      BY <2>0, <2>3, <3>2, <3>3
  <2>7. RangeAllowed(filters)
    <3>1. Lowers(filters) # {} /\ Uppers(filters) # {}
      BY <2>4
    <3>2. 2 * Today >= first
      BY <1>1
    <3>3. Day(2 * Today) - Day(first) <= MaxDays - 1
      BY <1>1, <1>4
    <3> HIDE DEF first
    <3>. QED
      BY <2>5, <2>6, <3>1, <3>2, <3>3 DEF RangeAllowed
  <2>. QED
    BY <2>7 DEF filters
<1>. QED
  BY <1>6, <1>7

-----------------------------------------------------------------------------
(* The tree that find_paths grows.                                         *)
Ends(n) == {Rel(n).left, Rel(n).right}

(* The relationships among some tables, and the edges they can become.     *)
Within(ts) == {n \in DOMAIN Relationships : Ends(n) \subseteq ts}

EdgesOf(ns, ts) ==
  {e \in [rel : ns, parent : ts, child : ts] : Ends(e.rel) = {e.parent, e.child} /\ e.parent # e.child}

(* The tables that edges lead to.                                          *)
Children(edges) == {edges[i].child : i \in DOMAIN edges}

(* Edges of a tree: each leads from a table of the tree to one of its own. *)
Branching(base, edges) ==
  \A i \in DOMAIN edges :
    /\ edges[i].child # base /\ edges[i].parent \in {base} \cup Children(edges)
    /\ \A j \in DOMAIN edges : edges[i].child = edges[j].child => i = j

(* Every edge brings one table that was not visited.                       *)
Grown(base, ts, ns) ==
  {tree \in [visited : SUBSET ts, edges : Seq(EdgesOf(ns, ts)), remaining : Seq(ns)] :
     /\ IsFiniteSet(tree.visited) /\ Cardinality(tree.visited) = Len(tree.edges) + 1
     /\ tree.visited = {base} \cup Children(tree.edges)
     /\ Branching(base, tree.edges)}

(* A tree loses no relationship: it is an edge or it remains.              *)
Size(tree) == Len(tree.edges) + Len(tree.remaining)

(* One more of two numbers is one more of their sum.                       *)
LEMMA OneMore == \A a, b \in Nat : a + (b + 1) = a + b + 1
OBVIOUS

(* Two different things are two.                                           *)
LEMMA TwoElements == \A x, y : x # y => Cardinality({x} \cup {y}) = 2
<1> SUFFICES ASSUME NEW x, NEW y, x # y PROVE Cardinality({x} \cup {y}) = 2
  OBVIOUS
<1>1. IsFiniteSet({x}) /\ Cardinality({x}) = 1
  BY FS_Singleton
<1>. QED
  BY <1>1, FS_AddElement

(* An edge leads from one end of its relationship to the other.            *)
LEMMA EdgeLeadsAway ==
  ASSUME NEW ts, NEW ns, ns \subseteq Within(ts), NEW n \in ns, NEW parent \in Ends(n)
  PROVE  /\ Edge(n, parent) \in EdgesOf(ns, ts) /\ Ends(n) = {parent, Edge(n, parent).child}
         /\ Edge(n, parent).child # parent
<1> DEFINE child == IF parent = Rel(n).left THEN Rel(n).right ELSE Rel(n).left
<1>1. Rel(n).left # Rel(n).right
  BY CatalogAssumption DEF Within, Rel
<1>2. child \in ts /\ parent \in ts /\ child \in Ends(n) /\ child # parent /\ Ends(n) = {parent, child}
  BY <1>1 DEF Within, Ends
<1>3. Edge(n, parent) = [rel |-> n, parent |-> parent, child |-> child]
  BY DEF Edge
<1> HIDE DEF child
<1>. QED
  BY <1>1, <1>2, <1>3 DEF EdgesOf, Ends

(* One relationship more is one edge and one table more, or it remains.    *)
LEMMA AttachGrows ==
  ASSUME NEW base, NEW ts, NEW ns, ns \subseteq Within(ts), NEW tree \in Grown(base, ts, ns), NEW n \in ns
  PROVE  Attach(tree, n) \in Grown(base, ts, ns) /\ Size(Attach(tree, n)) = Size(tree) + 1
<1> DEFINE seen == Ends(n) \cap tree.visited
<1>1. /\ tree \in [visited : SUBSET ts, edges : Seq(EdgesOf(ns, ts)), remaining : Seq(ns)]
      /\ IsFiniteSet(tree.visited) /\ Cardinality(tree.visited) = Len(tree.edges) + 1
      /\ tree.visited = {base} \cup Children(tree.edges)
      /\ tree.edges \in Seq(EdgesOf(ns, ts)) /\ Len(tree.edges) \in Nat
      /\ tree.remaining \in Seq(ns) /\ Len(tree.remaining) \in Nat
      /\ Branching(base, tree.edges)
  BY LenProperties DEF Grown
<1>2. CASE Cardinality(seen) # 1
  <2> DEFINE put == Append(tree.remaining, n)
             next == [tree EXCEPT !.remaining = put]
  <2>1. put \in Seq(ns) /\ Len(put) = Len(tree.remaining) + 1
    BY <1>1, AppendProperties
  <2>2. Attach(tree, n) = next
    BY <1>2 DEF Attach, Ends
  <2> HIDE DEF put
  <2>3. /\ next \in [visited : SUBSET ts, edges : Seq(EdgesOf(ns, ts)), remaining : Seq(ns)]
        /\ next.visited = tree.visited /\ next.edges = tree.edges /\ next.remaining = put
    BY <1>1, <2>1
  <2> HIDE DEF next
  <2>4. next \in Grown(base, ts, ns)
    BY <1>1, <2>3 DEF Grown
  <2>5. Size(next) = Size(tree) + 1
    <3>1. /\ Len(next.edges) = Len(tree.edges) /\ Len(next.remaining) = Len(tree.remaining) + 1
          /\ Len(tree.edges) \in Nat /\ Len(tree.remaining) \in Nat
      BY <1>1, <2>1, <2>3
    <3>. QED
      BY ONLY <3>1, OneMore DEF Size
  <2>. QED
    BY <2>2, <2>4, <2>5
<1>3. CASE Cardinality(seen) = 1
  <2>1. seen # {}
    BY <1>3, FS_EmptySet
  <2> DEFINE parent == CHOOSE t \in seen : TRUE
             e == Edge(n, parent)
  <2>2. parent \in seen
    BY <2>1
  <2>3. Attach(tree, n) = [tree EXCEPT !.visited = @ \cup {e.child}, !.edges = Append(@, e)]
    BY <1>3 DEF Attach, Ends
  <2> HIDE DEF parent
  <2>4. /\ e \in EdgesOf(ns, ts) /\ Ends(n) = {parent, e.child} /\ e.child # parent /\ e.child \in ts
        /\ e.parent = parent
    <3>1. e \in EdgesOf(ns, ts) /\ Ends(n) = {parent, e.child} /\ e.child # parent
      BY <2>2, EdgeLeadsAway
    <3>2. e.parent = parent
      BY DEF Edge
    <3>. QED
      BY <3>1, <3>2 DEF EdgesOf
  <2> HIDE DEF e
  <2>5. e.child \notin tree.visited
    <3> SUFFICES ASSUME e.child \in tree.visited PROVE FALSE
      OBVIOUS
    <3>1. seen = {parent} \cup {e.child}
      BY <2>2, <2>4
    <3>2. Cardinality({parent} \cup {e.child}) = 2
      BY <2>4, TwoElements
    <3>. QED
      BY <1>3, <3>1, <3>2
  <2> DEFINE edges == Append(tree.edges, e)
             visited == tree.visited \cup {e.child}
             next == [tree EXCEPT !.visited = visited, !.edges = edges]
  <2>6. /\ edges \in Seq(EdgesOf(ns, ts)) /\ Len(edges) = Len(tree.edges) + 1
        /\ DOMAIN edges = 1..Len(tree.edges) + 1 /\ edges[Len(tree.edges) + 1] = e
        /\ \A i \in DOMAIN tree.edges : edges[i] = tree.edges[i]
        /\ DOMAIN tree.edges = 1..Len(tree.edges)
    BY <1>1, <2>4, AppendProperties, LenProperties
  <2>7. Attach(tree, n) = next
    BY <2>3
  <2> HIDE DEF edges
  <2>8. Children(edges) = Children(tree.edges) \cup {e.child}
    <3>1. \A i \in DOMAIN edges : i \in DOMAIN tree.edges \/ i = Len(tree.edges) + 1
      BY <1>1, <2>6
    <3>2. \A i \in DOMAIN tree.edges : i \in DOMAIN edges
      BY <1>1, <2>6
    <3>3. Len(tree.edges) + 1 \in DOMAIN edges
      BY <1>1, <2>6
    <3>. QED
      BY <2>6, <3>1, <3>2, <3>3 DEF Children
  <2>9. /\ visited \in SUBSET ts /\ visited = {base} \cup Children(edges)
        /\ IsFiniteSet(visited) /\ Cardinality(visited) = Len(edges) + 1
    <3>1. IsFiniteSet(visited) /\ Cardinality(visited) = Cardinality(tree.visited) + 1
      BY <1>1, <2>5, FS_AddElement
    <3>. QED
      BY <1>1, <2>4, <2>6, <2>8, <3>1
  <2> HIDE DEF visited
  <2>13. Branching(base, edges)
    <3>1. e.child # base /\ e.child \notin Children(tree.edges) /\ e.parent \in {base} \cup Children(tree.edges)
      BY <1>1, <2>2, <2>4, <2>5
    <3>2. \A i \in DOMAIN edges : i \in DOMAIN tree.edges \/ (i = Len(tree.edges) + 1 /\ edges[i] = e)
      <4>1. Len(tree.edges) \in Nat
        BY <1>1
      <4>. QED
        BY ONLY <2>6, <4>1
    <3>3. \A i \in DOMAIN tree.edges : edges[i] = tree.edges[i] /\ edges[i].child # e.child
      BY <2>6, <3>1 DEF Children
    <3>. QED
      BY <1>1, <2>8, <3>1, <3>2, <3>3 DEF Branching
  <2>10. /\ next \in [visited : SUBSET ts, edges : Seq(EdgesOf(ns, ts)), remaining : Seq(ns)]
         /\ next.visited = visited /\ next.edges = edges /\ next.remaining = tree.remaining
    BY <1>1, <2>6, <2>9
  <2> HIDE DEF next
  <2>11. next \in Grown(base, ts, ns)
    BY <2>9, <2>10, <2>13 DEF Grown
  <2>12. Size(next) = Size(tree) + 1
    <3>1. Len(next.edges) = Len(tree.edges) + 1 /\ Len(next.remaining) = Len(tree.remaining)
      BY <2>6, <2>10
    <3>. QED
      BY <1>1, <3>1 DEF Size
  <2>. QED
    BY <2>7, <2>11, <2>12
<1>. QED
  BY <1>2, <1>3

(* A turn of the loop loses no relationship.                               *)
LEMMA PassGrows ==
  ASSUME NEW base, NEW ts, NEW ns, ns \subseteq Within(ts), NEW tree \in Grown(base, ts, ns)
  PROVE  Pass(tree) \in Grown(base, ts, ns) /\ Size(Pass(tree)) = Size(tree)
<1> DEFINE seq == tree.remaining
           n == Len(seq)
           first == [tree EXCEPT !.remaining = <<>>]
           A == Grown(base, ts, ns)
           apply == [i \in 1..n |-> [t \in A |-> Attach(t, seq[i])]]
           IsFold(f) == f = [s \in SUBSET (1..n) |->
                               IF s = {} THEN first ELSE Attach(f[s \ {Max(s)}], seq[Max(s)])]
<1>1. seq \in Seq(ns) /\ n \in Nat /\ DOMAIN seq = 1..n /\ \A i \in 1..n : seq[i] \in ns
  <2>1. seq \in Seq(ns)
    BY DEF Grown
  <2>. QED
    BY <2>1, LenProperties, ElementOfSeq
<1>2. first \in A /\ Size(first) + n = Size(tree)
  <2>1. /\ tree \in [visited : SUBSET ts, edges : Seq(EdgesOf(ns, ts)), remaining : Seq(ns)]
        /\ IsFiniteSet(tree.visited) /\ Cardinality(tree.visited) = Len(tree.edges) + 1
        /\ tree.visited = {base} \cup Children(tree.edges) /\ Len(tree.edges) \in Nat
        /\ Branching(base, tree.edges)
    BY LenProperties DEF Grown
  <2>2. <<>> \in Seq(ns) /\ Len(<<>>) = 0
    BY EmptySeq
  <2>3. /\ first \in [visited : SUBSET ts, edges : Seq(EdgesOf(ns, ts)), remaining : Seq(ns)]
        /\ first.visited = tree.visited /\ first.edges = tree.edges /\ first.remaining = <<>>
    BY <2>1, <2>2
  <2> HIDE DEF first
  <2>4. first \in Grown(base, ts, ns)
    BY <2>1, <2>3 DEF Grown
  <2>5. Size(first) + n = Size(tree)
    BY <1>1, <2>1, <2>2, <2>3 DEF Size
  <2>. QED
    BY <2>4, <2>5
<1>3. Pass(tree) = (CHOOSE f : IsFold(f))[1..n]
  BY <1>1 DEF Pass, FoldLeft, MapThenFoldSet
<1> HIDE DEF first
<1>4. \A i \in 1..n : \A t \in A : Attach(t, seq[i]) \in A /\ Size(Attach(t, seq[i])) = Size(t) + 1
  BY <1>1, AttachGrows
<1> HIDE DEF A, seq, n
<1>5. apply \in [1..n -> [A -> A]]
  BY <1>4
<1>6. PICK h \in [SUBSET (1..n) -> A] : Folded(h, n, first, apply)
  <2> HIDE DEF apply
  <2>. QED
    BY <1>1, <1>2, <1>5, FoldExists
<1>7. IsFold(h)
  <2>1. \A s \in SUBSET (1..n) : s # {} => Max(s) \in 1..n /\ s \ {Max(s)} \in SUBSET (1..n)
    BY <1>1, LastPosition
  <2>2. \A s \in SUBSET (1..n) : s # {} =>
          apply[Max(s)][h[s \ {Max(s)}]] = Attach(h[s \ {Max(s)}], seq[Max(s)])
    BY <1>6, <2>1
  <2>. QED
    BY <1>6, <2>2 DEF Folded
<1> DEFINE f == CHOOSE g : IsFold(g)
<1>8. IsFold(f)
  <2> HIDE DEF IsFold
  <2>. QED
    BY <1>7
<1>9. Pass(tree) = f[1..n]
  BY <1>3
<1> HIDE DEF f
<1> DEFINE S == {k \in 0..n : f[1..k] \in A /\ Size(f[1..k]) = Size(first) + k}
<1>10. Size(first) \in Int
  <2>1. first \in Grown(base, ts, ns)
    BY <1>2 DEF A
  <2>. QED
    BY <2>1, LenProperties DEF Size, Grown
<1>11. 0 \in S
  <2>1. 1..0 = {} /\ {} \in SUBSET (1..n)
    OBVIOUS
  <2>2. f[{}] = first
    BY <1>8
  <2>. QED
    BY <1>1, <1>2, <1>10, <2>1, <2>2
<1>12. ASSUME NEW k \in 0..n - 1, k \in S PROVE k + 1 \in S
  <2>1. k + 1 \in Nat /\ k + 1 # 0 /\ (k + 1) - 1 = k /\ k + 1 \in 1..n /\ k + 1 \in 0..n /\ k \in Nat
    BY <1>1
  <2>2. Max(1..k + 1) = k + 1 /\ (1..k + 1) \ {Max(1..k + 1)} = 1..k /\ 1..k + 1 # {}
    BY <2>1, FirstPositions
  <2>3. 1..k + 1 \in SUBSET (1..n)
    BY <1>1
  <2>4. f[1..k + 1] = Attach(f[1..k], seq[k + 1])
    BY <1>8, <2>2, <2>3
  <2>5. f[1..k + 1] \in A /\ Size(f[1..k + 1]) = Size(f[1..k]) + 1
    BY <1>4, <1>12, <2>1, <2>4
  <2>. QED
    BY <1>10, <1>12, <2>1, <2>5
<1>13. n \in S
  <2> HIDE DEF S
  <2>1. 0..n \subseteq S
    BY <1>1, <1>11, <1>12, UpTo
  <2>. QED
    BY <1>1, <2>1
<1>. QED
  BY <1>2, <1>9, <1>13 DEF A

(* Tree repeats the pass, so that what it builds is a tree over the        *)
(* plan's relationships.                                                   *)
LEMMA TreeGrows ==
  ASSUME NEW p, NEW ts, NEW ns, ns \subseteq Within(ts), p.base \in ts, p.relationships \in Seq(ns)
  PROVE  Tree(p) \in Grown(p.base, ts, ns) /\ Size(Tree(p)) = Len(p.relationships)
<1> DEFINE n == Len(p.relationships)
           first == [visited |-> {p.base}, edges |-> <<>>, remaining |-> p.relationships]
           A == {tree \in Grown(p.base, ts, ns) : Size(tree) = n}
           apply == [i \in 1..n |-> [t \in A |-> Pass(t)]]
           IsFold(f) == f = [s \in SUBSET (1..n) |-> IF s = {} THEN first ELSE Pass(f[s \ {Max(s)}])]
<1>1. n \in Nat /\ DOMAIN p.relationships = 1..n
  BY LenProperties
<1>2. first \in A
  <2>1. IsFiniteSet({p.base}) /\ Cardinality({p.base}) = 1
    BY FS_Singleton
  <2>2. <<>> \in Seq(EdgesOf(ns, ts)) /\ Len(<<>>) = 0 /\ DOMAIN <<>> = {}
    BY EmptySeq
  <2>3. /\ first \in [visited : SUBSET ts, edges : Seq(EdgesOf(ns, ts)), remaining : Seq(ns)]
        /\ first.visited = {p.base} /\ first.edges = <<>> /\ first.remaining = p.relationships
    BY <2>2
  <2> HIDE DEF first
  <2>4. first.visited = {p.base} \cup Children(first.edges)
    BY <2>2, <2>3 DEF Children
  <2>5. first \in Grown(p.base, ts, ns)
    <3>1. IsFiniteSet(first.visited) /\ Cardinality(first.visited) = Len(first.edges) + 1
      BY <2>1, <2>2, <2>3
    <3>2. Branching(p.base, first.edges)
      BY <2>2, <2>3 DEF Branching
    <3>. QED
      BY <2>3, <2>4, <3>1, <3>2 DEF Grown
  <2>. QED
    BY <1>1, <2>2, <2>3, <2>5 DEF Size
<1>3. Tree(p) = (CHOOSE f : IsFold(f))[1..n]
  BY <1>1 DEF Tree, FoldLeft, MapThenFoldSet
<1> HIDE DEF first
<1>4. \A t \in A : Pass(t) \in A
  BY PassGrows
<1> HIDE DEF A, n
<1>5. apply \in [1..n -> [A -> A]]
  BY <1>4
<1>6. PICK h \in [SUBSET (1..n) -> A] : Folded(h, n, first, apply)
  <2> HIDE DEF apply
  <2>. QED
    BY <1>1, <1>2, <1>5, FoldExists
<1>7. IsFold(h)
  <2>1. \A s \in SUBSET (1..n) : s # {} => Max(s) \in 1..n /\ s \ {Max(s)} \in SUBSET (1..n)
    BY <1>1, LastPosition
  <2>2. \A s \in SUBSET (1..n) : s # {} => apply[Max(s)][h[s \ {Max(s)}]] = Pass(h[s \ {Max(s)}])
    BY <1>6, <2>1
  <2>. QED
    BY <1>6, <2>2 DEF Folded
<1> DEFINE f == CHOOSE g : IsFold(g)
<1>8. IsFold(f)
  <2> HIDE DEF IsFold
  <2>. QED
    BY <1>7
<1>9. Tree(p) = f[1..n]
  BY <1>3
<1> HIDE DEF f
<1> DEFINE S == {k \in 0..n : f[1..k] \in A}
<1>10. 0 \in S
  <2>1. 1..0 = {} /\ {} \in SUBSET (1..n)
    OBVIOUS
  <2>2. f[{}] = first
    BY <1>8
  <2>. QED
    BY <1>1, <1>2, <2>1, <2>2
<1>11. ASSUME NEW k \in 0..n - 1, k \in S PROVE k + 1 \in S
  <2>1. k + 1 \in Nat /\ k + 1 # 0 /\ (k + 1) - 1 = k /\ k + 1 \in 1..n /\ k + 1 \in 0..n
    BY <1>1
  <2>2. Max(1..k + 1) = k + 1 /\ (1..k + 1) \ {Max(1..k + 1)} = 1..k /\ 1..k + 1 # {}
    BY <2>1, FirstPositions
  <2>3. 1..k + 1 \in SUBSET (1..n)
    BY <1>1
  <2>4. f[1..k + 1] = Pass(f[1..k])
    BY <1>8, <2>2, <2>3
  <2>. QED
    BY <1>4, <1>11, <2>1, <2>4
<1>12. n \in S
  <2> HIDE DEF S
  <2>1. 0..n \subseteq S
    BY <1>1, <1>10, <1>11, UpTo
  <2>. QED
    BY <1>1, <2>1
<1>. QED
  BY <1>9, <1>12 DEF A, n

-----------------------------------------------------------------------------
(* A query for the values of a dimension passes every check: it joins      *)
(* nothing, groups by what it shows and asks for the default range.        *)
LEMMA TreeOfOne ==
  ASSUME NEW p, p.relationships = <<>>
  PROVE  Tree(p) = [visited |-> {p.base}, edges |-> <<>>, remaining |-> <<>>]
<1> DEFINE base == [visited |-> {p.base}, edges |-> <<>>, remaining |-> <<>>]
<1>1. DOMAIN p.relationships = {}
  BY EmptySeq
<1>2. \A s \in SUBSET {} : s = {}
  OBVIOUS
<1>3. [s \in SUBSET {} |-> base][{}] = base
  OBVIOUS
<1>. QED
  BY <1>1, <1>2, <1>3 DEF Tree, FoldLeft, MapThenFoldSet

(* A plan of one table joins nothing and aggregates nothing in a branch.   *)
LEMMA PathOfOne ==
  ASSUME NEW p, p.relationships = <<>>
  PROVE  Tree(p).remaining = <<>> /\ DOMAIN Path(p) = {} /\ Aggregated(Path(p)) = {}
<1>1. Tree(p).remaining = <<>> /\ Tree(p).edges = <<>>
  BY TreeOfOne
<1>2. DOMAIN Path(p) = DOMAIN Tree(p).edges
  BY DEF Path
<1>3. DOMAIN Path(p) = {}
  BY <1>1, <1>2, EmptySeq
<1>. QED
  BY <1>1, <1>3 DEF Aggregated

(* The lookup of the values of a dimension passes every check of a plan.   *)
LEMMA ValuesAreAllowed ==
  ASSUME NEW c \in Dimensions, candidates = {}
  PROVE  Refusal(ValuesPlan(c[1], c[2])) = None
<1> DEFINE p == ValuesPlan(c[1], c[2])
           t == c[1]
           k == c[2]
<1>1. t \in Tables /\ k \in Columns(t)
  <2>1. PICK u \in Tables : c \in {<<u, l>> : l \in Columns(u)}
    BY DEF Dimensions
  <2>. QED
    BY <2>1
<1>2. /\ p.base = t /\ p.tables = <<t>> /\ p.relationships = <<>> /\ p.grain = NoGrain
      /\ p.select = {<<t, k>>} /\ p.groupBy = {<<t, k>>} /\ p.orderBy = {} /\ p.aggregations = {}
      /\ p.metrics = {} /\ p.orderMetrics = {} /\ p.dates = <<>>
  BY DEF ValuesPlan, PlanOf
<1> HIDE DEF p, t, k
<1>3. ToSet(p.tables) = {t} /\ Len(p.tables) = 1
  BY <1>2 DEF ToSet
<1>4. DOMAIN p.relationships = {}
  BY <1>2, EmptySeq
<1>5. Tree(p).remaining = <<>> /\ DOMAIN Path(p) = {} /\ Aggregated(Path(p)) = {}
  BY <1>2, PathOfOne
<1>6. BaseSupports(p)
  BY <1>1, <1>2, CatalogAssumption DEF BaseSupports, Grain
<1>7. OneDetailAxis(p, Path(p)) /\ RelationshipGrains(p, Path(p)) /\ RelationshipsResolve(p)
  BY <1>4, <1>5, <1>6 DEF OneDetailAxis, RelationshipGrains, RelationshipsResolve
<1>8. References(p) = {<<t, k>>} /\ AggregatedColumns(p) = {}
  BY <1>2 DEF References, AggregatedColumns
<1>9. ReferencesExist(p) /\ MetricsAllowed(p) /\ MultiTableAggregation(p, Path(p))
  BY <1>1, <1>2, <1>5, <1>8 DEF ReferencesExist, MetricsAllowed, MultiTableAggregation
<1>10. Structured(p)
  <2>1. ToSet(p.tables) \subseteq Tables /\ ~(Len(p.tables) > 1)
    BY <1>1, <1>3
  <2>. QED
    BY <1>5, <1>6, <1>7, <1>9, <2>1 DEF Structured, GrainAuthorised
<1>11. ~Raises(p.dates)
  BY <1>2, EmptySeq DEF Raises
<1>12. DatesInRange(p)
  <2>1. DateFilters(p.dates, p.base \in Timestamps) = DefaultRange(p.base \in Timestamps)
    BY <1>2 DEF DateFilters
  <2>2. (p.base \in Timestamps) \in BOOLEAN
    OBVIOUS
  <2>. QED
    BY <2>1, <2>2, DefaultIsAllowed DEF DatesInRange, DatesAccepted
<1>13. WithinCandidates(p)
  BY DEF WithinCandidates
<1>14. Refusal(p) = None
  BY <1>10, <1>11, <1>12, <1>13 DEF Refusal
<1>. QED
  BY <1>14 DEF p, t, k

-----------------------------------------------------------------------------
(* The inductive invariant: a plan is executed as it was validated, and    *)
(* several plans are only pending when each asks for a dimension's values. *)
AllPlans == {p \in UNION (Plans \cup {OwnPlans}) : WellFormed(p)}

(* The plans that the service makes by itself are well-formed.             *)
LEMMA OwnPlansAreKnown ==
  /\ \A c \in Dimensions : ValuesPlan(c[1], c[2]) \in AllPlans
  /\ \A t \in Tables : DirectPlan(t, Today) \in AllPlans
<1>1. \A p \in OwnPlans : WellFormed(p) => p \in AllPlans
  BY DEF AllPlans
<1>4. ASSUME NEW t, NEW k, NEW groups, groups \subseteq {<<t, k>>}, NEW dates
      PROVE  WellFormed(PlanOf(t, k, groups, dates))
  <2> DEFINE p == PlanOf(t, k, groups, dates)
  <2>1. /\ p.base = t /\ p.tables = <<t>> /\ p.relationships = <<>> /\ p.select = {<<t, k>>}
        /\ p.groupBy = groups /\ p.orderBy = {} /\ p.aggregations = {}
    BY DEF PlanOf
  <2> HIDE DEF p
  <2>2. References(p) \subseteq {<<t, k>>}
    BY <1>4, <2>1 DEF References, AggregatedColumns
  <2>3. ToSet(p.tables) = {t} /\ Len(p.tables) = 1 /\ IsInjective(p.tables) /\ Len(p.relationships) = 0
    BY <2>1 DEF ToSet, IsInjective
  <2>4. WellFormed(p)
    BY <2>1, <2>2, <2>3 DEF WellFormed
  <2>. QED
    BY <2>4 DEF p
<1>5. \A t, k : WellFormed(ValuesPlan(t, k)) /\ WellFormed(DirectPlan(t, k))
  BY <1>4 DEF ValuesPlan, DirectPlan
<1>2. \A c \in Dimensions : ValuesPlan(c[1], c[2]) \in OwnPlans
  BY DEF OwnPlans
<1>3. \A t \in Tables : DirectPlan(t, Today) \in OwnPlans
  BY DEF OwnPlans
<1>. QED
  BY <1>1, <1>2, <1>3, <1>5

(* Only the lookups of dimension values are ever pending several at a      *)
(* time.                                                                   *)
ValuesOnly(ps) == \A i \in DOMAIN ps : \E c \in Dimensions : ps[i] = ValuesPlan(c[1], c[2])

(* What is pending and what was executed are plans; several are pending    *)
(* only when no candidates bind them.                                      *)
PlansKnown ==
  /\ pending \in Seq(AllPlans) /\ selects \in Seq({Validated(p) : p \in AllPlans})
  /\ step \in {"asked", "planning"} => pending = <<>> /\ selects = <<>>
  /\ step = "asked" => candidates = {}
  /\ step \in {"checking", "executing"} =>
       \/ selects = <<>> /\ Len(pending) = 1
       \/ candidates = {} /\ ValuesOnly(pending)

(* What is being executed is the plan at the head of the line, and it      *)
(* passed.                                                                 *)
QueryValidated == query # None => query = Validated(Head(pending)) /\ Refusal(Head(pending)) = None

(* The inductive invariant.                                                *)
IInv == TypeOK /\ PlansKnown /\ QueryValidated /\ AnswerIsWhole

(* What a plan of the model or of the service consists of.                 *)
LEMMA PlansAreTyped ==
  ASSUME NEW p \in AllPlans
  PROVE  /\ p.dates \in Seq(ToSet(p.dates)) /\ \A f \in ToSet(p.dates) : IsDateFilter(f)
         /\ p.tables \in Seq(ToSet(p.tables)) /\ p.relationships \in Seq(ToSet(p.relationships))
         /\ \A c \in References(p) : c = <<c[1], c[2]>>
         /\ Validated(p) # None /\ WellFormed(p)
BY QueryAssumption DEF AllPlans

(* Validation keeps the plan.                                              *)
LEMMA ValidatedPlan == \A p : Validated(p).plan = p
BY DEF Validated

-----------------------------------------------------------------------------
(* The edges of an accepted plan are a tree over all its tables.           *)
JoinTree(p, edges) ==
  /\ Len(edges) \in Nat /\ DOMAIN edges = 1..Len(edges)
  /\ Branching(p.base, edges) /\ ToSet(p.tables) = {p.base} \cup Children(edges)
  /\ \A i \in DOMAIN edges :
       /\ edges[i].rel \in ToSet(p.relationships) \cap DOMAIN Relationships
       /\ Ends(edges[i].rel) = {edges[i].parent, edges[i].child} /\ edges[i].parent # edges[i].child

(* A tree that leaves no relationship over reaches every table of the      *)
(* plan: it has as many tables as the plan.                                *)
LEMMA TablesAreReached ==
  ASSUME NEW p \in AllPlans, Structured(p)
  PROVE  JoinTree(p, Path(p))
<1> DEFINE ts == ToSet(p.tables)
           ns == ToSet(p.relationships)
           tree == Tree(p)
<1>1. /\ p.tables \in Seq(ts) /\ p.relationships \in Seq(ns) /\ p.base \in ts
      /\ IsInjective(p.tables) /\ Len(p.relationships) = Len(p.tables) - 1
  BY PlansAreTyped DEF WellFormed
<1>2. RelationshipsResolve(p) /\ tree.remaining = <<>>
  BY DEF Structured
<1>3. ns \in SUBSET Within(ts)
  <2>1. \A i \in DOMAIN p.relationships : p.relationships[i] \in Within(ts)
    BY <1>2 DEF RelationshipsResolve, Within, Ends
  <2>. QED
    BY <2>1 DEF ToSet
<1>4. tree \in Grown(p.base, ts, ns) /\ Size(tree) = Len(p.relationships)
  <2> HIDE DEF ts, ns, tree
  <2>1. Tree(p) \in Grown(p.base, ts, ns) /\ Size(Tree(p)) = Len(p.relationships)
    BY <1>1, <1>3, TreeGrows
  <2>. QED
    BY <2>1 DEF tree
<1> HIDE DEF ts, ns, tree
<1>5. /\ tree.visited \in SUBSET ts /\ tree.edges \in Seq(EdgesOf(ns, ts)) /\ Len(tree.edges) \in Nat
      /\ Cardinality(tree.visited) = Len(tree.edges) + 1
      /\ tree.visited = {p.base} \cup Children(tree.edges) /\ Branching(p.base, tree.edges)
  BY <1>4, LenProperties DEF Grown
<1>6. Len(tree.edges) = Len(p.relationships)
  <2>1. Len(tree.remaining) = 0
    BY <1>2, EmptySeq
  <2>. QED
    BY <1>4, <1>5, <2>1 DEF Size
<1>7. IsFiniteSet(ts) /\ Cardinality(ts) = Len(p.tables)
  <2> DEFINE n == Len(p.tables)
  <2>1. n \in Nat /\ DOMAIN p.tables = 1..n /\ p.tables \in [1..n -> ts]
    BY <1>1, LenProperties
  <2>2. \A t \in ts : \E i \in 1..n : p.tables[i] = t
    BY <2>1 DEF ts, ToSet
  <2>3. p.tables \in Surjection(1..n, ts)
    BY <2>1, <2>2 DEF Surjection
  <2>4. p.tables \in Injection(1..n, ts)
    BY <1>1, <2>1 DEF Injection, IsInjective
  <2>5. IsFiniteSet(1..n) /\ Cardinality(1..n) = n
    BY <2>1, FS_Interval
  <2>. QED
    BY <2>3, <2>4, <2>5, FS_Surjection
<1>8. tree.visited = ts
  <2>1. Len(p.tables) \in Nat
    BY <1>1, LenProperties
  <2>2. Cardinality(tree.visited) = Cardinality(ts)
    BY <1>1, <1>5, <1>6, <1>7, <2>1
  <2>. QED
    BY <1>5, <1>7, <2>2, FS_Subset
<1> DEFINE edges == Path(p)
           n == Len(tree.edges)
<1>9. n \in Nat /\ DOMAIN tree.edges = 1..n
  BY <1>5, LenProperties
<1>10. DOMAIN edges = 1..n /\ Len(edges) = n
  <2>1. DOMAIN edges = DOMAIN tree.edges
    BY DEF Path, tree
  <2> DEFINE S == {edges[i] : i \in 1..n}
  <2>2. edges = [i \in 1..n |-> edges[i]]
    BY <1>9, <2>1 DEF Path, tree
  <2> HIDE DEF edges, n
  <2>3. edges \in [1..n -> S]
    BY <2>2
  <2>4. edges \in Seq(S)
    BY <1>9, <2>3, SeqDef
  <2>. QED
    BY <1>9, <2>1, <2>3, <2>4, LenProperties
<1>11. ASSUME NEW i \in 1..n
       PROVE  /\ edges[i].child = tree.edges[i].child /\ edges[i].parent = tree.edges[i].parent
              /\ edges[i].rel = tree.edges[i].rel
  BY <1>9 DEF Path, tree
<1> HIDE DEF edges
<1>12. Children(edges) = Children(tree.edges)
  BY <1>9, <1>10, <1>11 DEF Children
<1>13. Branching(p.base, edges)
  BY <1>5, <1>9, <1>10, <1>11, <1>12 DEF Branching
<1>14. ASSUME NEW i \in 1..n
       PROVE  /\ edges[i].rel \in ns \cap DOMAIN Relationships
              /\ Ends(edges[i].rel) = {edges[i].parent, edges[i].child} /\ edges[i].parent # edges[i].child
  <2>1. tree.edges[i] \in EdgesOf(ns, ts)
    BY <1>5, <1>9, ElementOfSeq
  <2>2. \A m \in ns : m \in DOMAIN Relationships
    BY <1>3 DEF Within
  <2>. QED
    BY <1>11, <2>1, <2>2 DEF EdgesOf
<1>15. ts = {p.base} \cup Children(edges)
  BY <1>5, <1>8, <1>12
<1>. QED
  BY <1>9, <1>10, <1>13, <1>14, <1>15 DEF JoinTree, ts, ns, edges

(* The statement of an accepted plan.                                      *)
LEMMA StatementRuns ==
  ASSUME NEW p \in AllPlans, Structured(p), NEW v, v = Validated(p),
         ~BranchIsDetached(v), ~OwnerIsHidden(v)
  PROVE  ~DatabaseRefuses(v) /\ Implicit(v) = {}
<1> DEFINE edges == Path(p)
<1>1. v.plan = p /\ v.edges = edges /\ v.grain = Grain(p) /\ Base(v) = p.base
  BY DEF Validated, Base
<1>2. /\ ReferencesExist(p) /\ MetricsAllowed(p) /\ MultiTableAggregation(p, edges)
      /\ \A c \in References(p) : c = <<c[1], c[2]>> /\ c[1] \in ToSet(p.tables)
  BY PlansAreTyped DEF Structured, WellFormed
<1> HIDE DEF edges
<1>3. Base(v) \in Direct(v)
  BY DEF Direct
<1>4. \A t \in ToSet(p.tables) : t \notin Aggregated(edges) => t \in Direct(v)
  <2> SUFFICES ASSUME NEW t \in ToSet(p.tables), t \notin Aggregated(edges), t # p.base PROVE t \in Direct(v)
    BY <1>1, <1>3
  <2>1. PICK i \in DOMAIN edges : t = edges[i].child
    BY TablesAreReached DEF edges, JoinTree, Children
  <2>2. edges[i] \in ToSet(v.edges)
    BY <1>1 DEF ToSet
  <2>. QED
    BY <1>1, <2>1, <2>2 DEF Direct, DirectEdges
<1>5. ExternalDetail(v) /\ ~Aggregates(v) => Owner(v) \in Direct(v)
  BY DEF OwnerIsHidden
<1>6. \A m \in p.metrics :
        m \in DOMAIN Metrics /\ Metrics[m].table = p.base /\ Metrics[m].table \in Direct(v) /\ Metrics[m].grain = Grain(p)
  <2> TAKE m \in p.metrics
  <2>1. m \in DOMAIN Metrics /\ Metrics[m].table \in ToSet(p.tables) /\ Metrics[m].grain = Grain(p)
    BY <1>2 DEF MetricsAllowed
  <2>2. \A n \in DOMAIN Relationships : Metrics[m].table \notin Ends(n)
    BY <2>1, CatalogAssumption DEF Ends, Rel
  <2>3. Metrics[m].table = p.base
    <3>1. JoinTree(p, edges)
      BY TablesAreReached DEF edges
    <3>2. \A t \in ToSet(p.tables) : t = p.base \/ \E n \in DOMAIN Relationships : t \in Ends(n)
      BY <3>1 DEF JoinTree, Children
    <3>. QED
      BY <2>1, <2>2, <3>2
  <2>. QED
    BY <1>1, <1>3, <2>1, <2>3
<1>7. p.aggregations # {} \/ p.groupBy # {} =>
        \A c \in AggregatedColumns(p) \cup p.groupBy : c[1] \in Direct(v)
  <2> SUFFICES ASSUME p.aggregations # {} \/ p.groupBy # {}, NEW c \in AggregatedColumns(p) \cup p.groupBy
               PROVE  c[1] \in Direct(v)
    OBVIOUS
  <2>1. c[1] \notin Aggregated(edges)
    BY <1>2 DEF MultiTableAggregation
  <2>2. c[1] \in ToSet(p.tables)
    BY <1>2 DEF References
  <2>. QED
    BY <1>4, <2>1, <2>2
<1>8. Implicit(v) = {}
  <2>1. Named(v) \subseteq Direct(v)
    <3> SUFFICES ASSUME NEW t \in Named(v) PROVE t \in Direct(v)
      OBVIOUS
    <3>1. CASE Regrouped(v) /\ ExternalDetail(v) /\ t = Owner(v)
      BY <1>5, <3>1 DEF Regrouped
    <3>2. CASE \E c \in AggregatedColumns(p) : t = c[1]
      <4>1. p.aggregations # {}
        BY <3>2 DEF AggregatedColumns
      <4>. QED
        BY <1>7, <3>2, <4>1
    <3>3. CASE \E m \in p.orderMetrics : t = Metrics[m].table
      BY <1>2, <1>6, <3>3 DEF ReferencesExist
    <3>4. \/ Regrouped(v) /\ ExternalDetail(v) /\ t = Owner(v)
          \/ \E c \in AggregatedColumns(p) : t = c[1]
          \/ \E m \in p.orderMetrics : t = Metrics[m].table
      BY <1>1 DEF Named
    <3>. QED
      BY <3>1, <3>2, <3>3, <3>4
  <2>. QED
    BY <2>1 DEF Implicit
<1>9. ~GroupsUnknown(v)
  <2> SUFFICES ASSUME NEW s \in GroupBy(v), s.from = "table" PROVE s.column[1] \in Direct(v)
    BY DEF GroupsUnknown
  <2>1. CASE Regrouped(v)
    <3>1. CASE s \in OfTable(v, Base(v), BaseKeys(v))
      BY <1>3, <3>1 DEF OfTable
    <3>2. CASE ExternalDetail(v) /\ s \in OfTable(v, Owner(v), OwnerKeys(v))
      BY <1>5, <2>1, <3>2 DEF OfTable, Regrouped
    <3>. QED
      BY <2>1, <3>1, <3>2, "table" # "branch" DEF GroupBy
  <2>2. CASE ~Regrouped(v)
    <3>1. PICK c \in p.groupBy : s = [column |-> c, from |-> "table"]
      BY <1>1, <2>2 DEF GroupBy
    <3>. QED
      BY <1>7, <3>1
  <2>. QED
    BY <2>1, <2>2
<1>10. ~Ungrouped(v)
  <2>1. \A c \in QueryFields(v) : c = <<c[1], c[2]>>
    <3>1. \A c \in MetricColumns(v) : c = <<c[1], c[2]>>
      BY DEF MetricColumns, ColumnsOf
    <3>. QED
      BY <1>1, <1>2, <3>1 DEF QueryFields, References
  <2>2. ASSUME Regrouped(v) PROVE Formulas(v) = {}
    <3> SUFFICES ASSUME p.orderMetrics # {} PROVE FALSE
      BY <1>1 DEF Formulas, ColumnsOf
    <3> PICK m \in p.orderMetrics : TRUE
      OBVIOUS
    <3> DEFINE keys == GrainKeys[p.base]
    <3>1. m \in DOMAIN Metrics /\ Metrics[m].table = p.base /\ Metrics[m].grain = v.grain
      BY <1>1, <1>2, <1>6 DEF ReferencesExist
    <3>2. DOMAIN keys = {v.grain}
      BY <3>1, CatalogAssumption
    <3>3. Cardinality(keys[v.grain]) \in Nat
      <4>1. p.base \in Tables
        BY PlansAreTyped DEF Structured, WellFormed
      <4>2. IsFiniteSet(keys[v.grain])
        BY <3>2, <4>1, CatalogAssumption
      <4>. QED
        BY <4>2, FS_CardinalityType
    <3>4. ~ExternalDetail(v)
      BY <1>1, <3>2 DEF ExternalDetail, Owner
    <3>5. ~StorageIsFiner(v)
      <4>1. BaseKeys(v) = keys[v.grain]
        BY <1>1, <3>2 DEF BaseKeys
      <4> HIDE DEF keys
      <4>2. \A g \in DOMAIN keys : ~(Cardinality(keys[g]) > Cardinality(BaseKeys(v)))
        BY <3>2, <3>3, <4>1
      <4>. QED
        BY <1>1, <4>2 DEF StorageIsFiner, keys
    <3>. QED
      BY <2>2, <3>4, <3>5 DEF Regrouped
  <2>3. CASE Regrouped(v)
    <3> SUFFICES ASSUME NEW s \in Bare(v) PROVE s \in GroupBy(v)
      BY <2>2, <2>3 DEF Ungrouped
    <3>1. PICK c \in QueryFields(v) :
            /\ s = Seen(v, c)
            /\ \/ c[1] = Base(v) /\ c[2] \in BaseKeys(v)
               \/ ExternalDetail(v) /\ c[1] = Owner(v) /\ c[2] \in OwnerKeys(v)
               \/ c[1] \notin Direct(v) /\ ~(ExternalDetail(v) /\ c[1] = Owner(v))
      BY <2>3 DEF Bare
    <3>2. c = <<c[1], c[2]>>
      BY <2>1
    <3>3. CASE c[1] = Base(v) /\ c[2] \in BaseKeys(v)
      <4>1. s = [column |-> <<Base(v), c[2]>>, from |-> "table"]
        BY <1>3, <3>1, <3>2, <3>3 DEF Seen
      <4>. QED
        BY <2>3, <3>3, <4>1 DEF GroupBy, OfTable
    <3>4. CASE ExternalDetail(v) /\ c[1] = Owner(v) /\ c[2] \in OwnerKeys(v)
      <4>1. s = [column |-> <<Owner(v), c[2]>>, from |-> "table"]
        BY <1>5, <2>3, <3>1, <3>2, <3>4 DEF Seen, Regrouped
      <4>. QED
        BY <2>3, <3>4, <4>1 DEF GroupBy, OfTable
    <3>5. CASE c[1] \notin Direct(v) /\ ~(ExternalDetail(v) /\ c[1] = Owner(v))
      <4>1. s = [column |-> c, from |-> "branch"]
        BY <3>1, <3>5 DEF Seen
      <4>2. s.from = "branch" /\ s.column[1] = c[1]
        BY <4>1
      <4>. QED
        BY <2>3, <3>5, <4>2 DEF GroupBy
    <3>. QED
      BY <3>1, <3>3, <3>4, <3>5
  <2>4. CASE ~Regrouped(v) /\ (Aggregates(v) \/ p.groupBy # {})
    <3> SUFFICES ASSUME NEW s \in Bare(v) PROVE s \in GroupBy(v)
      BY <1>1, <2>4 DEF Ungrouped, Formulas
    <3>1. PICK c \in QueryFields(v) \ MetricColumns(v) : s = Seen(v, c)
      BY <1>1, <2>4 DEF Bare
    <3>2. c \in p.groupBy
      BY <1>1, <1>2, <2>4, <3>1 DEF QueryFields, MultiTableAggregation, Aggregates
    <3>3. c[1] \in Direct(v)
      BY <1>7, <3>2
    <3>. QED
      BY <1>1, <2>4, <3>1, <3>2, <3>3 DEF Seen, GroupBy
  <2>5. CASE ~Regrouped(v) /\ ~Aggregates(v) /\ p.groupBy = {}
    <3>1. Bare(v) = {Seen(v, c) : c \in QueryFields(v)}
      BY <1>1, <2>5 DEF Bare
    <3>2. {s.column : s \in Bare(v)} = QueryFields(v)
      <4>1. \A c : Seen(v, c).column = c
        BY DEF Seen
      <4>. QED
        BY <3>1, <4>1
    <3>3. GroupBy(v) = {}
      BY <1>1, <2>5 DEF GroupBy
    <3>. QED
      BY <2>5, <3>2, <3>3 DEF Ungrouped, IsGrouped
  <2>. QED
    BY <2>3, <2>4, <2>5
<1>. QED
  BY <1>8, <1>9, <1>10 DEF DatabaseRefuses

(* An accepted plan reads a bounded number of days.                        *)
LEMMA AcceptedRange ==
  ASSUME NEW p \in AllPlans, Refusal(p) = None, p.base \in Dated
  PROVE  LET timestamp == p.base \in Timestamps
             filters   == DateFilters(p.dates, timestamp)
             partial   == \E f \in ToSet(filters) : f.op = "lt" /\ \E t \in Times(f) : t # 2 * Day(t)
         IN Cardinality(DaysRead(filters, timestamp, Today + MaxDays + 2))
              <= MaxDays + (IF timestamp /\ partial THEN 1 ELSE 0)
<1> DEFINE timestamp == p.base \in Timestamps
           filters   == DateFilters(p.dates, timestamp)
<1>1. "refused" # None /\ "raised" # None
  BY QueryAssumption DEF Answers
<1>2. ~Raises(p.dates) /\ DatesInRange(p)
  BY <1>1 DEF Refusal
<1>3. RangeAllowed(filters)
  BY <1>2 DEF DatesInRange, DatesAccepted
<1>4. filters \in Seq(Executable(timestamp))
  BY <1>2, PlansAreTyped, FiltersAreExecutable
<1>5. Today + MaxDays + 2 \in Nat
  BY DaysAssumption
<1> HIDE DEF filters, timestamp
<1>6. Cardinality(DaysRead(filters, timestamp, Today + MaxDays + 2))
        <= MaxDays + (IF timestamp /\ Partial(filters) THEN 1 ELSE 0)
  BY <1>3, <1>4, <1>5, DaysAreBounded
<1>. QED
  BY <1>6 DEF Partial, filters, timestamp

(* A question that nobody has looked at has no plan.                       *)
LEMMA InvariantInit == Init => IInv
BY EmptySeq, QueryAssumption DEF Init, IInv, TypeOK, PlansKnown, QueryValidated, AnswerIsWhole, Answers

(* Every step of the service keeps the invariant: one case per action.     *)
LEMMA InvariantStep == IInv /\ [Next]_vars => IInv'
<1> SUFFICES ASSUME IInv, [Next]_vars PROVE IInv'
  OBVIOUS
<1> USE DEF IInv, Respond
<1>0. None \notin Answers /\ \A a \in Answers : a # None
  BY QueryAssumption
<1>1. ASSUME NEW ts \in CandidateSets, Search(ts) PROVE IInv'
  <2>1. Completed(ts) \subseteq Tables
    BY QueryAssumption DEF Completed
  <2>2. TypeOK'
    BY <1>0, <1>1, <2>1 DEF Search, TypeOK, Answers
  <2>3. PlansKnown' /\ QueryValidated'
    BY <1>1 DEF Search, PlansKnown, QueryValidated, TypeOK
  <2>4. AnswerIsWhole'
    <3>1. selects' = <<>> /\ answer' # "rows"
      BY <1>1, <1>0 DEF Search, PlansKnown, TypeOK, Answers
    <3>. QED
      BY <3>1 DEF AnswerIsWhole
  <2>. QED
    BY <2>2, <2>3, <2>4
<1>2. ASSUME NEW ps \in Lookups, AskForValues(ps) PROVE IInv'
  <2>1. ps \in Seq(Dimensions) /\ ps # <<>>
    BY QueryAssumption
  <2>2. DOMAIN ps = 1..Len(ps) /\ Len(ps) \in Nat /\ Len(ps) # 0
    BY <2>1, LenProperties, EmptySeq
  <2>3. \A i \in DOMAIN ps : ps[i] \in Dimensions /\ ValuesPlan(ps[i][1], ps[i][2]) \in AllPlans
    <3> TAKE i \in DOMAIN ps
    <3>1. ps[i] \in Dimensions
      BY <2>1, <2>2, ElementOfSeq
    <3>. QED
      BY <3>1, OwnPlansAreKnown
  <2>4. pending' \in Seq(AllPlans) /\ pending' # <<>>
    <3>1. pending' \in [1..Len(ps) -> AllPlans]
      BY <1>2, <2>2, <2>3 DEF AskForValues
    <3>. QED
      BY <2>2, <3>1
  <2>5. ValuesOnly(pending')
    BY <1>2, <2>3 DEF AskForValues, ValuesOnly
  <2>6. TypeOK'
    BY <1>2, <2>4 DEF AskForValues, TypeOK
  <2>7. PlansKnown'
    BY <1>2, <2>4, <2>5 DEF AskForValues, PlansKnown
  <2>8. QueryValidated' /\ AnswerIsWhole'
    BY <1>2, <1>0 DEF AskForValues, QueryValidated, TypeOK, AnswerIsWhole, Answers
  <2>. QED
    BY <2>6, <2>7, <2>8
<1>3. ASSUME NEW t \in candidates, PlanDirectly(t) PROVE IInv'
  <2>1. DirectPlan(t, Today) \in AllPlans
    BY OwnPlansAreKnown DEF TypeOK
  <2>2. pending' \in Seq(AllPlans) /\ pending' # <<>> /\ Len(pending') = 1
    BY <1>3, <2>1 DEF PlanDirectly
  <2>3. TypeOK' /\ PlansKnown'
    BY <1>3, <2>2 DEF PlanDirectly, TypeOK, PlansKnown
  <2>4. QueryValidated' /\ AnswerIsWhole'
    BY <1>3, <1>0 DEF PlanDirectly, QueryValidated, TypeOK, AnswerIsWhole, Answers
  <2>. QED
    BY <2>3, <2>4
<1>4. ASSUME ModelPlans PROVE IInv'
  <2>1. PICK family \in Plans : \E p \in {q \in family : WellFormed(q)} :
          IF p.clarification THEN Respond("clarify") /\ UNCHANGED pending
                             ELSE step' = "checking" /\ pending' = <<p>> /\ UNCHANGED answer
    BY <1>4 DEF ModelPlans
  <2>2. PICK p \in family : WellFormed(p) /\
          IF p.clarification THEN Respond("clarify") /\ UNCHANGED pending
                             ELSE step' = "checking" /\ pending' = <<p>> /\ UNCHANGED answer
    BY <2>1
  <2>3. p \in AllPlans
    BY <2>2 DEF AllPlans
  <2>4. <<p>> \in Seq(AllPlans) /\ <<p>> # <<>> /\ Len(<<p>>) = 1
    BY <2>3
  <2>5. CASE p.clarification
    <3>1. TypeOK' /\ PlansKnown'
      BY <1>0, <1>4, <2>2, <2>5 DEF ModelPlans, TypeOK, PlansKnown, Answers
    <3>2. QueryValidated' /\ AnswerIsWhole'
      BY <1>0, <1>4, <2>2, <2>5 DEF ModelPlans, QueryValidated, TypeOK, PlansKnown, AnswerIsWhole, Answers
    <3>. QED
      BY <3>1, <3>2
  <2>6. CASE ~p.clarification
    <3>0. step' = "checking" /\ pending' = <<p>> /\ answer' = answer /\ attempts' = 0 /\ step = "planning"
          /\ UNCHANGED <<candidates, query, selects>>
      BY <1>4, <2>2, <2>6 DEF ModelPlans
    <3>1. TypeOK' /\ PlansKnown'
      <4>1. TypeOK'
        BY <2>4, <3>0 DEF TypeOK
      <4>2. PlansKnown'
        BY <2>4, <3>0 DEF PlansKnown
      <4>. QED
        BY <4>1, <4>2
    <3>2. QueryValidated' /\ AnswerIsWhole'
      BY <1>0, <1>4, <2>2, <2>6 DEF ModelPlans, QueryValidated, TypeOK, AnswerIsWhole, Answers
    <3>. QED
      BY <3>1, <3>2
  <2>. QED
    BY <2>5, <2>6
<1>5. ASSUME ModelErrs \/ ModelFails PROVE IInv'
  <2>1. /\ step = "planning" /\ UNCHANGED <<candidates, pending, query, selects>>
        /\ \/ attempts' = 1 /\ UNCHANGED <<step, answer>>
           \/ attempts' = 0 /\ step' = "answered" /\ answer' = "refused"
    BY <1>5 DEF ModelErrs, ModelFails
  <2>2. TypeOK' /\ PlansKnown'
    BY <1>0, <2>1 DEF TypeOK, PlansKnown, Answers
  <2>3. QueryValidated' /\ AnswerIsWhole'
    BY <1>0, <2>1 DEF QueryValidated, TypeOK, PlansKnown, AnswerIsWhole, Answers
  <2>. QED
    BY <2>2, <2>3
<1>6. ASSUME Validate PROVE IInv'
  <2> DEFINE p == Head(pending)
  <2>1. pending # <<>> /\ p \in AllPlans /\ step = "checking" /\ answer = None /\ query = None
    BY <1>6, HeadTailProperties DEF Validate, TypeOK, PlansKnown
  <2>2. Validated(p) # None /\ Validated(p).plan = p
    BY <2>1, PlansAreTyped, ValidatedPlan
  <2>3. CASE Refusal(p) = None
    <3>1. /\ step' = "executing" /\ query' = Validated(p) /\ answer' = answer
          /\ UNCHANGED <<candidates, attempts, pending, selects>>
      BY <1>6, <2>3 DEF Validate
    <3> HIDE DEF p
    <3>2. TypeOK'
      BY <2>1, <2>2, <3>1 DEF TypeOK, p
    <3>3. PlansKnown' /\ AnswerIsWhole'
      BY <2>1, <3>1 DEF PlansKnown, AnswerIsWhole
    <3>4. QueryValidated'
      <4>1. Refusal(p)' = Refusal(p)
        BY <3>1 DEF Refusal, WithinCandidates, p
      <4>. QED
        BY <2>3, <3>1, <4>1 DEF QueryValidated, p
    <3>. QED
      BY <3>2, <3>3, <3>4
  <2>4. CASE Refusal(p) # None
    <3>1. step' = "answered" /\ answer' = Refusal(p) /\ UNCHANGED <<candidates, attempts, pending, selects, query>>
      BY <1>6, <2>4 DEF Validate
    <3>2. Refusal(p) \in {"refused", "raised"}
      BY <2>4 DEF Refusal
    <3>3. selects = <<>>
      <4> SUFFICES ASSUME selects # <<>> PROVE FALSE
        OBVIOUS
      <4>1. candidates = {} /\ ValuesOnly(pending)
        BY <2>1 DEF PlansKnown
      <4>2. 1 \in DOMAIN pending /\ p = pending[1]
        BY <2>1, HeadTailProperties, LenProperties, EmptySeq DEF PlansKnown
      <4>3. PICK c \in Dimensions : p = ValuesPlan(c[1], c[2])
        BY <4>1, <4>2 DEF ValuesOnly
      <4>. QED
        BY <2>4, <4>1, <4>3, ValuesAreAllowed
    <3>4. TypeOK' /\ PlansKnown'
      BY <1>0, <2>1, <3>1, <3>2 DEF TypeOK, PlansKnown, Answers
    <3>5. QueryValidated' /\ AnswerIsWhole'
      BY <2>1, <3>1, <3>2, <3>3 DEF QueryValidated, AnswerIsWhole
    <3>. QED
      BY <3>4, <3>5
  <2>. QED
    BY <2>3, <2>4
<1>7. ASSUME Execute PROVE IInv'
  <2>1. /\ step = "executing" /\ query # None /\ answer = None /\ pending # <<>>
        /\ query = Validated(Head(pending)) /\ Refusal(Head(pending)) = None /\ attempts = 0
    BY <1>7 DEF Execute, TypeOK, QueryValidated
  <2>2. Head(pending) \in AllPlans /\ Tail(pending) \in Seq(AllPlans) /\ Len(Tail(pending)) = Len(pending) - 1
        /\ \A i \in DOMAIN Tail(pending) : i + 1 \in DOMAIN pending /\ Tail(pending)[i] = pending[i + 1]
    BY <2>1, HeadTailProperties, LenProperties DEF PlansKnown
  <2>3. selects' \in Seq({Validated(p) : p \in AllPlans}) /\ selects' # <<>>
        /\ DOMAIN selects' = 1..Len(selects) + 1 /\ selects'[Len(selects) + 1] = query
        /\ \A i \in DOMAIN selects : selects'[i] = selects[i]
    BY <1>7, <2>1, <2>2, AppendProperties, LenProperties DEF Execute, PlansKnown
  <2>4. candidates # {} => \A i \in DOMAIN selects' : ToSet(selects'[i].plan.tables) \subseteq candidates
    <3>1. "refused" # None
      BY <1>0 DEF Answers
    <3>2. WithinCandidates(Head(pending))
      BY <2>1, <3>1 DEF Refusal
    <3>3. query.plan = Head(pending)
      BY <2>1, ValidatedPlan
    <3>4. DOMAIN selects = 1..Len(selects) /\ Len(selects) \in Nat
      BY LenProperties DEF PlansKnown
    <3>5. \A i \in DOMAIN selects' : i = Len(selects) + 1 \/ i \in DOMAIN selects
      BY <2>3, <3>4
    <3>. QED
      BY <2>3, <3>2, <3>3, <3>5 DEF WithinCandidates, AnswerIsWhole
  <2>5. pending' # <<>> => candidates = {} /\ ValuesOnly(pending')
    <3>1. pending' = Tail(pending)
      BY <1>7 DEF Execute
    <3>2. Len(pending) = 1 => pending' = <<>>
      BY <2>2, <3>1, EmptySeq
    <3>3. ValuesOnly(pending) => ValuesOnly(pending')
      BY <2>2, <3>1 DEF ValuesOnly
    <3>. QED
      BY <2>1, <3>2, <3>3 DEF PlansKnown
  <2>6. CASE pending' = <<>>
    <3>1. step' = "answered" /\ answer' = "rows" /\ query' = None /\ UNCHANGED <<candidates, attempts>>
      BY <1>7, <2>6 DEF Execute
    <3>2. TypeOK'
      BY <1>0, <2>1, <2>6, <3>1 DEF TypeOK, Answers
    <3>3. PlansKnown'
      BY <1>7, <2>2, <2>3, <3>1 DEF PlansKnown, Execute
    <3>4. QueryValidated' /\ AnswerIsWhole'
      BY <2>3, <2>4, <2>6, <3>1 DEF QueryValidated, AnswerIsWhole
    <3>. QED
      BY <3>2, <3>3, <3>4
  <2>7. CASE pending' # <<>>
    <3>1. step' = "checking" /\ answer' = answer /\ query' = None /\ UNCHANGED <<candidates, attempts>>
      BY <1>7, <2>7 DEF Execute
    <3>2. TypeOK'
      BY <2>1, <2>7, <3>1 DEF TypeOK
    <3>3. PlansKnown'
      BY <1>7, <2>2, <2>3, <2>5, <2>7, <3>1 DEF PlansKnown, Execute
    <3>4. QueryValidated' /\ AnswerIsWhole'
      BY <1>0, <2>1, <2>4, <3>1 DEF QueryValidated, AnswerIsWhole, Answers
    <3>. QED
      BY <3>2, <3>3, <3>4
  <2>. QED
    BY <2>6, <2>7
<1>8. ASSUME ExecuteFails PROVE IInv'
  <2>1. /\ step' = "answered" /\ answer' \in {"failed", "timeout"} /\ query' = None /\ step = "executing"
        /\ UNCHANGED <<candidates, attempts, pending, selects>>
    BY <1>8 DEF ExecuteFails
  <2>2. TypeOK' /\ PlansKnown'
    BY <1>0, <2>1 DEF TypeOK, PlansKnown, Answers
  <2>3. QueryValidated' /\ AnswerIsWhole'
    BY <2>1 DEF QueryValidated, AnswerIsWhole
  <2>. QED
    BY <2>2, <2>3
<1>9. ASSUME UNCHANGED vars PROVE IInv'
  BY <1>9 DEF vars, TypeOK, PlansKnown, QueryValidated, AnswerIsWhole, ValuesOnly, Refusal, WithinCandidates
<1>. QED
  BY <1>1, <1>2, <1>3, <1>4, <1>5, <1>6, <1>7, <1>8, <1>9 DEF Next

-----------------------------------------------------------------------------
(* Rows are multiplied by the detail of the grain only.                    *)

(* What lies below an edge begins with its child.                          *)
LEMMA ChildIsBelow ==
  ASSUME NEW S, NEW edges \in Seq(S), NEW i \in DOMAIN edges
  PROVE  edges[i].child \in Below(edges, i)
<1> DEFINE c == edges[i].child
           rest == SubSeq(edges, i + 1, Len(edges))
           n == Len(rest)
           T == {c} \cup {rest[k].child : k \in 1..n}
           A == {ts \in SUBSET T : c \in ts}
           Reach(ts, e) == IF e.parent \in ts THEN ts \cup {e.child} ELSE ts
           apply == [k \in 1..n |-> [ts \in A |-> Reach(ts, rest[k])]]
           IsFold(f) == f = [s \in SUBSET (1..n) |-> IF s = {} THEN {c} ELSE Reach(f[s \ {Max(s)}], rest[Max(s)])]
<1>1. n \in Nat /\ DOMAIN rest = 1..n
  <2>1. i \in 1..Len(edges) /\ Len(edges) \in Nat
    BY LenProperties
  <2>2. rest \in Seq(S)
    BY <2>1, SubSeqProperties
  <2> HIDE DEF rest
  <2>. QED
    BY <2>2, LenProperties
<1>2. Below(edges, i) = (CHOOSE f : IsFold(f))[1..n]
  BY <1>1 DEF Below, FoldLeft, MapThenFoldSet
<1> HIDE DEF rest, n
<1>3. {c} \in A
  OBVIOUS
<1>4. \A k \in 1..n : \A ts \in A : Reach(ts, rest[k]) \in A
  OBVIOUS
<1> HIDE DEF A, T, c, Reach
<1>5. apply \in [1..n -> [A -> A]]
  BY <1>4
<1>6. PICK h \in [SUBSET (1..n) -> A] : Folded(h, n, {c}, apply)
  <2> HIDE DEF apply
  <2>. QED
    BY <1>1, <1>3, <1>5, FoldExists
<1>7. IsFold(h)
  <2>1. \A s \in SUBSET (1..n) : s # {} => Max(s) \in 1..n /\ s \ {Max(s)} \in SUBSET (1..n)
    BY <1>1, LastPosition
  <2>2. \A s \in SUBSET (1..n) : s # {} => apply[Max(s)][h[s \ {Max(s)}]] = Reach(h[s \ {Max(s)}], rest[Max(s)])
    BY <1>6, <2>1
  <2>. QED
    BY <1>6, <2>2 DEF Folded
<1> DEFINE f == CHOOSE g : IsFold(g)
<1>8. IsFold(f)
  <2> HIDE DEF IsFold
  <2>. QED
    BY <1>7
<1>9. Below(edges, i) = f[1..n]
  BY <1>2
<1> HIDE DEF f
<1> DEFINE P == {k \in 0..n : f[1..k] \in A}
<1>10. 0 \in P
  <2>1. 1..0 = {} /\ {} \in SUBSET (1..n)
    OBVIOUS
  <2>2. f[{}] = {c}
    BY <1>8, <2>1
  <2>3. f[1..0] \in A
    BY <1>3, <2>1, <2>2
  <2>4. 0 \in 0..n
    BY <1>1
  <2>. QED
    BY <2>3, <2>4
<1>11. ASSUME NEW k \in 0..n - 1, k \in P PROVE k + 1 \in P
  <2>1. k + 1 \in Nat /\ k + 1 # 0 /\ (k + 1) - 1 = k /\ k + 1 \in 1..n /\ k + 1 \in 0..n
    BY <1>1
  <2>2. Max(1..k + 1) = k + 1 /\ (1..k + 1) \ {Max(1..k + 1)} = 1..k /\ 1..k + 1 # {}
    BY <2>1, FirstPositions
  <2>3. 1..k + 1 \in SUBSET (1..n)
    BY <1>1
  <2>4. f[1..k + 1] = Reach(f[1..k], rest[k + 1])
    BY <1>8, <2>2, <2>3
  <2>. QED
    BY <1>4, <1>11, <2>1, <2>4
<1>12. n \in P
  <2> HIDE DEF P
  <2>1. 0..n \subseteq P
    BY <1>1, <1>10, <1>11, UpTo
  <2>. QED
    BY <1>1, <2>1
<1>. QED
  BY <1>9, <1>12 DEF A, c

(* Along an edge to one row at most one row matches: two that match agree  *)
(* on the keys of their table.                                             *)
LEMMA OneRowMatches ==
  ASSUME NEW v, NEW e, e.rel \in ToSet(v.plan.relationships) \cap DOMAIN Relationships,
         Ends(e.rel) = {e.parent, e.child}, e.parent # e.child,
         ~EffectiveMany(e.rel, e.parent), ~LeadsBackToMany(e),
         NEW row, NEW r \in Matching(v, e, row), NEW q \in Matching(v, e, row)
  PROVE  r = q
<1> DEFINE n == e.rel
           left == Rel(n).left
           right == Rel(n).right
           keys == Rel(n).keys
<1>1. n \in DOMAIN Relationships /\ n \in ToSet(v.plan.relationships) /\ {left, right} = {e.parent, e.child}
  BY DEF Ends
<1>2. left \in Tables /\ right \in Tables /\ left # right /\ DOMAIN GrainKeys = Tables
  BY <1>1, CatalogAssumption DEF Rel
<1>3. /\ Rel(n).many \in BOOLEAN /\ Rel(n).time \in {"any", "window", "same_day"}
      /\ Rel(n).snapshot => right \in Dated
      /\ Rel(n).many => left \notin Timestamps /\ (Rel(n).time = "any" => "day" \in keys)
      /\ ~Rel(n).many =>
           /\ right \notin Timestamps
           /\ Keys(right) \subseteq keys \cup (IF Rel(n).snapshot THEN {"day"} ELSE {})
  BY <1>1, RelationshipAssumption
<1>4. r \in Source(v, e.child) /\ q \in Source(v, e.child) /\ r \in Rows[e.child] /\ q \in Rows[e.child]
  BY DEF Matching, Source
<1>5. ASSUME e.child \notin Timestamps, \A k \in Keys(e.child) : r[k] = q[k] PROVE r = q
  BY <1>1, <1>2, <1>4, <1>5, DataAssumption
<1>6. CASE e.parent = left
  <2>1. e.child = right /\ ~Rel(n).many
    BY <1>1, <1>2, <1>3, <1>6 DEF EffectiveMany
  <2>2. JoinCondition(n, row, r) /\ JoinCondition(n, row, q)
    BY <1>6 DEF Matching
  <2>3. \A k \in keys : r[k] = q[k]
    BY <2>2 DEF JoinCondition
  <2>4. ASSUME Rel(n).snapshot PROVE r["day"] = q["day"]
    <3>1. r.day \in Int /\ q.day \in Int
      BY <1>3, <1>4, <2>1, <2>4, DataAssumption
    <3>2. r.day <= q.day /\ q.day <= r.day
      BY <1>1, <1>4, <2>1, <2>3, <2>4 DEF Source
    <3>. QED
      BY <3>1, <3>2
  <2>. QED
    BY <1>3, <1>5, <2>1, <2>3, <2>4
<1>7. CASE e.parent # left
  <2>1. e.child = left /\ e.parent = right /\ Rel(n).many
    BY <1>1, <1>2, <1>3, <1>7 DEF EffectiveMany
  <2>2. /\ Rel(n).time # "window"
        /\ \A g \in DOMAIN GrainKeys[e.child] : GrainKeys[e.child][g] \subseteq keys \cup {"day"}
    BY <2>1 DEF LeadsBackToMany
  <2>3. JoinCondition(n, r, row) /\ JoinCondition(n, q, row)
    BY <1>7 DEF Matching
  <2>4. \A k \in keys : r[k] = q[k]
    BY <2>3 DEF JoinCondition
  <2>5. r["day"] = q["day"]
    <3>1. CASE Rel(n).time = "any"
      BY <1>3, <2>1, <2>4, <3>1
    <3>2. CASE Rel(n).time = "same_day"
      BY <2>3, <3>2 DEF JoinCondition
    <3>. QED
      BY <1>3, <2>2, <3>1, <3>2
  <2>6. Keys(e.child) \subseteq keys \cup {"day"}
    BY <2>2 DEF Keys
  <2>. QED
    BY <1>3, <1>5, <2>1, <2>4, <2>5, <2>6
<1>. QED
  BY <1>6, <1>7

(* An accepted plan joins at most one table of many rows as it is, and     *)
(* that is the owner of the grain.                                         *)
LEMMA DetailIsOwner ==
  ASSUME NEW p \in AllPlans, Structured(p), NEW v, v = Validated(p),
         NEW e \in DirectEdges(v), EffectiveMany(e.rel, e.parent),
         e.child \notin Upstream(Tree(p).edges, Grain(p)),
         Grain(p) \notin DetailGrains \cap DOMAIN GrainKeys[p.base]
  PROVE  e.child = Owner(v) /\ Owner(v) \in Direct(v)
<1> DEFINE edges == Path(p)
           g == Grain(p)
           n == e.rel
           details == DetailEdges(edges, g)
<1>1. v.plan = p /\ v.edges = edges /\ v.grain = g /\ Base(v) = p.base
  BY DEF Validated, Base
<1>2. JoinTree(p, edges)
  BY TablesAreReached
<1>3. PICK i \in DOMAIN edges : e = edges[i]
  BY <1>1 DEF DirectEdges, ToSet
<1>4. ~edges[i].preaggregate
  <2>1. edges[i].child \in Below(edges, i)
    <3> DEFINE S == {edges[j] : j \in DOMAIN edges}
    <3>1. edges = [j \in DOMAIN edges |-> edges[j]]
      BY DEF Path
    <3> HIDE DEF edges
    <3>2. edges \in [1..Len(edges) -> S] /\ Len(edges) \in Nat
      BY <1>2, <3>1 DEF JoinTree
    <3>3. edges \in Seq(S)
      BY <3>2, SeqDef
    <3>. QED
      BY <3>3, ChildIsBelow
  <2>2. edges[i].child \notin Aggregated(edges)
    BY <1>1, <1>3 DEF DirectEdges
  <2> HIDE DEF edges
  <2>. QED
    BY <2>1, <2>2 DEF Aggregated
<1>5. Rel(n).detail = g
  <2>1. /\ i \in DOMAIN Tree(p).edges
        /\ edges[i].rel = Tree(p).edges[i].rel /\ edges[i].parent = Tree(p).edges[i].parent
        /\ edges[i].preaggregate =
             (Preaggregated(Tree(p).edges[i], g) /\ edges[i].child \notin Upstream(Tree(p).edges, g))
    BY DEF Path
  <2>2. ~Preaggregated(Tree(p).edges[i], g)
    BY <1>3, <1>4, <2>1
  <2>. QED
    BY <1>3, <2>1, <2>2 DEF Preaggregated
<1> HIDE DEF edges
<1>6. n \in DOMAIN Relationships /\ n \in ToSet(p.relationships) /\ Ends(n) = {e.parent, e.child} /\ e.parent # e.child
  BY <1>2, <1>3 DEF JoinTree
<1>7. p.base \in Tables /\ p.base \in ToSet(p.tables) /\ ToSet(p.tables) \subseteq Tables
  BY PlansAreTyped DEF WellFormed, Structured
<1>8. g \in DetailGrains
  <2>1. g \in Grains
    <3>1. g \in DOMAIN GrainKeys[p.base] \/ \E m \in ToSet(p.relationships) : g \in Rel(m).grains
      BY DEF Structured, GrainAuthorised, BaseSupports
    <3>2. \A m \in ToSet(p.relationships) : m \in DOMAIN Relationships
      BY DEF Structured, RelationshipsResolve, ToSet
    <3>. QED
      BY <1>7, <3>1, <3>2, CatalogAssumption DEF Rel
  <2>2. g \in DetailGrains \cup {"none"}
    BY <1>5, <1>6, RelationshipAssumption
  <2>3. "none" \notin Grains
    BY DEF Grains, DetailGrains
  <2>. QED
    BY <2>1, <2>2, <2>3
<1>9. g \notin DOMAIN GrainKeys[p.base]
  BY <1>8
<1>10. \A j, k \in details : j = k
  <2>1. Cardinality(details) = 1
    BY <1>8, <1>9 DEF Structured, OneDetailAxis, BaseSupports, edges
  <2>2. IsFiniteSet(details)
    <3>1. Len(edges) \in Nat /\ DOMAIN edges = 1..Len(edges)
      BY <1>2 DEF JoinTree
    <3>2. IsFiniteSet(1..Len(edges))
      BY <3>1, FS_Interval
    <3>. QED
      BY <3>1, <3>2, FS_Subset DEF DetailEdges
  <2> HIDE DEF details
  <2>3. PICK x : details = {x}
    BY <2>1, <2>2, FS_Singleton
  <2>. QED
    BY <2>3
<1>11. i \in details
  BY <1>3, <1>5 DEF DetailEdges
<1>12. /\ Rel(n).left \in Tables /\ Rel(n).right \in Tables /\ Rel(n).left # Rel(n).right
       /\ DOMAIN GrainKeys = Tables
  BY <1>6, CatalogAssumption DEF Rel
<1>13. Rel(n).many
  <2> SUFFICES ASSUME ~Rel(n).many PROVE FALSE
    OBVIOUS
  <2>1. e.parent = Rel(n).right
    BY <1>6, <1>12 DEF EffectiveMany, Ends
  <2>2. /\ Rel(n).right \notin Dated
        /\ \A m \in DOMAIN Relationships : Rel(n).right \in Ends(m) => m = n
    <3>1. g # "none"
      BY <1>8 DEF DetailGrains
    <3>. QED
      BY <1>5, <1>6, <3>1, RelationshipAssumption DEF Ends
  <2>3. p.base \in Dated
    <3>1. Len(p.tables) > 1
      <4>1. p.tables \in Seq(ToSet(p.tables)) /\ p.relationships \in Seq(ToSet(p.relationships))
        BY PlansAreTyped
      <4>2. Len(p.relationships) = Len(p.tables) - 1
        BY PlansAreTyped DEF WellFormed
      <4>3. Len(p.tables) \in Nat /\ Len(p.relationships) \in Nat /\ DOMAIN p.relationships = 1..Len(p.relationships)
        BY <4>1, LenProperties
      <4>4. DOMAIN p.relationships # {}
        BY <1>6 DEF ToSet
      <4>. QED
        BY <4>2, <4>3, <4>4
    <3>. QED
      BY <3>1 DEF Structured
  <2>4. PICK j \in DOMAIN edges : e.parent = edges[j].child
    BY <1>2, <1>3, <2>1, <2>2, <2>3 DEF JoinTree, Branching, Children
  <2>5. edges[j].rel = n
    BY <1>2, <2>1, <2>2, <2>4 DEF JoinTree
  <2>6. j = i
    BY <1>5, <1>10, <1>11, <2>5 DEF DetailEdges
  <2>. QED
    BY <1>3, <1>6, <2>4, <2>6
<1>14. e.child = Rel(n).right
  BY <1>6, <1>12, <1>13 DEF EffectiveMany, Ends
<1>15. g \in DOMAIN GrainKeys[e.child]
  <2>1. g # "none"
    BY <1>8 DEF DetailGrains
  <2>. QED
    BY <1>5, <1>6, <1>13, <1>14, <2>1, RelationshipAssumption
<1>16. e.child \in ToSet(p.tables)
  BY <1>2, <1>3 DEF JoinTree, Children
<1>17. ASSUME NEW t \in ToSet(p.tables), g \in DOMAIN GrainKeys[t] PROVE t = e.child
  <2>1. PICK j \in DOMAIN edges : t = edges[j].child
    BY <1>2, <1>9, <1>17 DEF JoinTree, Children
  <2> DEFINE m == edges[j].rel
  <2>2. m \in DOMAIN Relationships /\ t \in Ends(m)
    BY <1>2, <2>1 DEF JoinTree
  <2>3. CASE t = Rel(m).right
    <3>1. Rel(m).detail = g
      BY <1>8, <1>17, <2>2, <2>3, RelationshipAssumption
    <3>2. j = i
      BY <1>10, <1>11, <3>1 DEF DetailEdges
    <3>. QED
      BY <1>3, <2>1, <3>2
  <2>4. CASE t = Rel(m).left
    BY <1>7, <1>8, <1>15, <1>16, <1>17, <2>2, <2>4, RelationshipAssumption
  <2>. QED
    BY <2>2, <2>3, <2>4 DEF Ends
<1>18. Owner(v) = e.child
  <2> DEFINE m == Len(p.tables)
  <2>1. m \in Nat /\ DOMAIN p.tables = 1..m
    BY PlansAreTyped, LenProperties
  <2>2. Owners(v) = {k \in 1..m : g \in DOMAIN GrainKeys[p.tables[k]]}
    BY <1>1, <2>1 DEF Owners
  <2>3. Owners(v) # {}
    BY <1>15, <1>16, <2>1, <2>2 DEF ToSet
  <2>4. IsFiniteSet(Owners(v)) /\ Owners(v) \subseteq Int
    <3>1. IsFiniteSet(1..m) /\ 1..m \subseteq Int
      BY <2>1, FS_Interval
    <3>. QED
      BY <2>2, <3>1, FS_Subset
  <2>5. Min(Owners(v)) \in Owners(v)
    BY <2>3, <2>4, MinIsSmallest
  <2>6. p.tables[Min(Owners(v))] = e.child
    BY <1>17, <2>1, <2>2, <2>5 DEF ToSet
  <2>. QED
    BY <1>1, <1>9, <2>3, <2>6 DEF Owner
<1>. QED
  BY <1>18 DEF Direct

(* The rows of some tables determine the tuple.                            *)
Determined(tuples, ts) == \A f, h \in tuples : (\A t \in ts : f[t] = h[t]) => f = h

(* The functions from some tables to rows.                                 *)
Tuples ==
  LET V == (UNION {Rows[t] : t \in Tables}) \cup {Null} IN UNION {[D -> V] : D \in SUBSET Tables}

(* What joining one table more does to the tuples.                         *)
LEMMA JoinKeeps ==
  ASSUME NEW v, NEW e, NEW tuples, NEW joined, NEW given, e.child \notin joined,
         \A f \in tuples : DOMAIN f = joined,
         Determined(tuples, given \cap joined),
         \/ e.child \in given
         \/ \A row : \A r, q \in Matching(v, e, row) : r = q
  PROVE  /\ \A f \in OuterJoin(v, tuples, e) : DOMAIN f = joined \cup {e.child}
         /\ Determined(OuterJoin(v, tuples, e), given \cap (joined \cup {e.child}))
<1> DEFINE c == e.child
           found(f) == Matching(v, e, f[e.parent])
           offered(f) == IF found(f) = {} THEN {Null} ELSE found(f)
<1>1. ASSUME NEW f \in OuterJoin(v, tuples, e)
      PROVE  \E b \in tuples : \E r \in offered(b) : f = Joined(b, c, r)
  BY DEF OuterJoin
<1>2. ASSUME NEW b \in tuples, NEW r
      PROVE  /\ DOMAIN Joined(b, c, r) = joined \cup {c} /\ Joined(b, c, r)[c] = r
             /\ \A t \in joined : Joined(b, c, r)[t] = b[t]
  BY DEF Joined
<1> HIDE DEF c, offered
<1>3. \A f \in OuterJoin(v, tuples, e) : DOMAIN f = joined \cup {c}
  BY <1>1, <1>2
<1>4. ASSUME NEW f \in OuterJoin(v, tuples, e), NEW h \in OuterJoin(v, tuples, e),
             \A t \in given \cap (joined \cup {c}) : f[t] = h[t]
      PROVE  f = h
  <2>1. PICK b \in tuples : \E r \in offered(b) : f = Joined(b, c, r)
    BY <1>1
  <2>2. PICK r \in offered(b) : f = Joined(b, c, r)
    BY <2>1
  <2>3. PICK d \in tuples : \E q \in offered(d) : h = Joined(d, c, q)
    BY <1>1
  <2>4. PICK q \in offered(d) : h = Joined(d, c, q)
    BY <2>3
  <2>5. b = d
    <3>1. \A t \in given \cap joined : b[t] = d[t]
      BY <1>2, <1>4, <2>2, <2>4
    <3>. QED
      BY <3>1 DEF Determined
  <2>6. r = q
    <3>1. CASE c \in given
      BY <1>2, <1>4, <2>2, <2>4, <3>1
    <3>2. CASE \A row : \A x, y \in Matching(v, e, row) : x = y
      <4>1. \A x, y \in found(b) : x = y
        BY <3>2
      <4>2. \A x, y \in offered(b) : x = y
        BY <4>1 DEF offered
      <4>. QED
        BY <2>5, <4>2
    <3>. QED
      BY <3>1, <3>2 DEF c
  <2>. QED
    BY <2>2, <2>4, <2>5, <2>6
<1>. QED
  BY <1>3, <1>4 DEF Determined, c

(* A join makes tuples of tuples.                                          *)
LEMMA JoinTyped ==
  ASSUME NEW v, NEW e, NEW tuples \in SUBSET Tuples, e.child \in Tables
  PROVE  OuterJoin(v, tuples, e) \in SUBSET Tuples
<1> DEFINE V == (UNION {Rows[t] : t \in Tables}) \cup {Null}
           offered(b) == LET found == Matching(v, e, b[e.parent]) IN IF found = {} THEN {Null} ELSE found
<1>1. ASSUME NEW f \in OuterJoin(v, tuples, e) PROVE f \in Tuples
  <2>1. PICK b \in tuples : \E r \in offered(b) : f = Joined(b, e.child, r)
    BY DEF OuterJoin
  <2>2. PICK r \in offered(b) : f = Joined(b, e.child, r)
    BY <2>1
  <2>3. r \in V
    <3>1. \A x \in Matching(v, e, b[e.parent]) : x \in Rows[e.child]
      BY DEF Matching, Source
    <3>2. r \in Matching(v, e, b[e.parent]) \/ r = Null
      BY <2>2
    <3>3. \A x \in Rows[e.child] : x \in V
      OBVIOUS
    <3> HIDE DEF V, offered
    <3>4. Null \in V
      BY DEF V
    <3>. QED
      BY <3>1, <3>2, <3>3, <3>4
  <2> HIDE DEF V
  <2>4. PICK D \in SUBSET Tables : b \in [D -> V]
    BY DEF Tuples, V
  <2>5. f \in [D \cup {e.child} -> V]
    BY <2>2, <2>3, <2>4 DEF Joined
  <2>6. D \cup {e.child} \in SUBSET Tables
    OBVIOUS
  <2>. QED
    BY <2>5, <2>6 DEF Tuples, V
<1>. QED
  BY <1>1

(* If each table that is joined as it is, is given or has one row for each *)
(* row that it is joined to, the rows of the given tables determine the    *)
(* tuple.                                                                  *)
LEMMA TuplesAreDetermined ==
  ASSUME NEW p \in AllPlans, Structured(p), NEW v, v = Validated(p), NEW given, p.base \in given,
         \A e \in DirectEdges(v) :
           e.child \in given \/ (~EffectiveMany(e.rel, e.parent) /\ ~LeadsBackToMany(e))
  PROVE  Determined(From(v), given)
<1> DEFINE edges == Path(p)
           n == Len(edges)
           Step(tuples, e) == IF e \in DirectEdges(v) THEN OuterJoin(v, tuples, e) ELSE tuples
           first == {[t \in {p.base} |-> r] : r \in Source(v, p.base)}
           A == SUBSET Tuples
           apply == [i \in 1..n |-> [tuples \in A |-> Step(tuples, edges[i])]]
           IsFold(f) == f = [s \in SUBSET (1..n) |-> IF s = {} THEN first ELSE Step(f[s \ {Max(s)}], edges[Max(s)])]
           joined(k) == {p.base} \cup {edges[j].child : j \in {m \in 1..k : edges[m] \in DirectEdges(v)}}
<1>1. v.plan = p /\ v.edges = edges /\ Base(v) = p.base
  BY DEF Validated, Base
<1>2. JoinTree(p, edges)
  BY TablesAreReached
<1>3. n \in Nat /\ DOMAIN edges = 1..n
  BY <1>2 DEF JoinTree
<1>4. From(v) = (CHOOSE f : IsFold(f))[1..n]
  BY <1>1, <1>3 DEF From, FoldLeft, MapThenFoldSet
<1> HIDE DEF edges, n
<1>5. p.base \in Tables /\ \A i \in 1..n : edges[i].child \in Tables
  <2>1. p.base \in ToSet(p.tables) /\ ToSet(p.tables) \subseteq Tables
    BY PlansAreTyped DEF WellFormed, Structured
  <2>. QED
    BY <1>2, <1>3, <2>1 DEF JoinTree, Children
<1>6. first \in A
  <2>1. ASSUME NEW r \in Source(v, p.base) PROVE [t \in {p.base} |-> r] \in Tuples
    <3> DEFINE V == (UNION {Rows[t] : t \in Tables}) \cup {Null}
    <3>1. r \in V
      BY <1>5 DEF Source
    <3>2. [t \in {p.base} |-> r] \in [{p.base} -> V] /\ {p.base} \in SUBSET Tables
      BY <1>5, <3>1
    <3>. QED
      BY <3>2 DEF Tuples
  <2>. QED
    BY <2>1
<1>7. \A i \in 1..n : \A tuples \in A : Step(tuples, edges[i]) \in A
  BY <1>5, JoinTyped
<1>8. \A f \in first : DOMAIN f = {p.base}
  OBVIOUS
<1>9. Determined(first, {p.base})
  <2> SUFFICES ASSUME NEW r, NEW q, [t \in {p.base} |-> r][p.base] = [t \in {p.base} |-> q][p.base]
               PROVE  r = q
    BY DEF Determined
  <2>. QED
    OBVIOUS
<1>10. \A i \in 1..n : edges[i] \in DirectEdges(v) =>
         \/ edges[i].child \in given
         \/ \A row : \A r, q \in Matching(v, edges[i], row) : r = q
  <2> SUFFICES ASSUME NEW i \in 1..n, edges[i] \in DirectEdges(v), edges[i].child \notin given
               PROVE  \A row : \A r, q \in Matching(v, edges[i], row) : r = q
    OBVIOUS
  <2> DEFINE e == edges[i]
  <2>1. ~EffectiveMany(e.rel, e.parent) /\ ~LeadsBackToMany(e)
    OBVIOUS
  <2>2. /\ e.rel \in ToSet(v.plan.relationships) \cap DOMAIN Relationships
        /\ Ends(e.rel) = {e.parent, e.child} /\ e.parent # e.child
    BY <1>1, <1>2, <1>3 DEF JoinTree
  <2> HIDE DEF e
  <2>3. \A row : \A r, q \in Matching(v, e, row) : r = q
    BY <2>1, <2>2, OneRowMatches
  <2>. QED
    BY <2>3 DEF e
<1> HIDE DEF A, first, Step
<1>11. apply \in [1..n -> [A -> A]]
  BY <1>7
<1>12. PICK h \in [SUBSET (1..n) -> A] : Folded(h, n, first, apply)
  <2> HIDE DEF apply
  <2>. QED
    BY <1>3, <1>6, <1>11, FoldExists
<1>13. IsFold(h)
  <2>1. \A s \in SUBSET (1..n) : s # {} => Max(s) \in 1..n /\ s \ {Max(s)} \in SUBSET (1..n)
    BY <1>3, LastPosition
  <2>2. \A s \in SUBSET (1..n) : s # {} => apply[Max(s)][h[s \ {Max(s)}]] = Step(h[s \ {Max(s)}], edges[Max(s)])
    BY <1>12, <2>1
  <2>. QED
    BY <1>12, <2>2 DEF Folded
<1> DEFINE f == CHOOSE b : IsFold(b)
<1>14. IsFold(f)
  <2> HIDE DEF IsFold
  <2>. QED
    BY <1>13
<1>15. From(v) = f[1..n]
  BY <1>4
<1> HIDE DEF f
<1> DEFINE Good(k) == (\A b \in f[1..k] : DOMAIN b = joined(k)) /\ Determined(f[1..k], given \cap joined(k))
           S == {k \in 0..n : Good(k)}
<1>16. 0 \in S
  <2>1. 1..0 = {} /\ {} \in SUBSET (1..n) /\ 0 \in 0..n
    BY <1>3
  <2>2. f[1..0] = first
    BY <1>14, <2>1
  <2>3. joined(0) = {p.base} /\ given \cap {p.base} = {p.base}
    BY <2>1
  <2> HIDE DEF joined
  <2>4. Good(0)
    BY <1>8, <1>9, <2>2, <2>3
  <2> HIDE DEF Good
  <2>. QED
    BY <2>1, <2>4
<1>17. ASSUME NEW k \in 0..n - 1, k \in S PROVE k + 1 \in S
  <2>1. k + 1 \in Nat /\ k + 1 # 0 /\ (k + 1) - 1 = k /\ k + 1 \in 1..n /\ k + 1 \in 0..n /\ 1..k \subseteq 1..n
    BY <1>3
  <2>2. Max(1..k + 1) = k + 1 /\ (1..k + 1) \ {Max(1..k + 1)} = 1..k /\ 1..k + 1 # {}
    BY <2>1, FirstPositions
  <2>3. 1..k + 1 \in SUBSET (1..n)
    BY <1>3
  <2> DEFINE e == edges[k + 1]
  <2>4. f[1..k + 1] = Step(f[1..k], e)
    BY <1>14, <2>2, <2>3
  <2>5. Good(k)
    BY <1>17
  <2>6. 1..k + 1 = (1..k) \cup {k + 1} /\ k + 1 \notin 1..k
    BY <1>3
  <2> HIDE DEF f
  <2>7. CASE e \in DirectEdges(v)
    <3>1. joined(k + 1) = joined(k) \cup {e.child}
      BY <2>6, <2>7
    <3>2. e.child \notin joined(k)
      <4>1. e.child # p.base /\ \A j \in 1..n : edges[j].child = e.child => j = k + 1
        BY <1>2, <1>3, <2>1 DEF JoinTree, Branching
      <4>. QED
        BY <2>1, <2>6, <4>1
    <3>3. \/ e.child \in given
          \/ \A row : \A r, q \in Matching(v, e, row) : r = q
      BY <1>10, <2>1, <2>7
    <3>4. f[1..k + 1] = OuterJoin(v, f[1..k], e)
      BY <2>4, <2>7 DEF Step
    <3> HIDE DEF joined, e
    <3> DEFINE tuples == f[1..k]
               tables == joined(k)
    <3>6. (\A b \in tuples : DOMAIN b = tables) /\ Determined(tuples, given \cap tables) /\ e.child \notin tables
      BY <2>5, <3>2
    <3> HIDE DEF tuples, tables
    <3>7. /\ \A b \in OuterJoin(v, tuples, e) : DOMAIN b = tables \cup {e.child}
          /\ Determined(OuterJoin(v, tuples, e), given \cap (tables \cup {e.child}))
      BY ONLY <3>3, <3>6, JoinKeeps
    <3>5. Good(k + 1)
      BY <3>1, <3>4, <3>7 DEF tuples, tables
    <3> HIDE DEF Good
    <3>. QED
      BY <2>1, <3>5
  <2>8. CASE e \notin DirectEdges(v)
    <3>1. joined(k + 1) = joined(k)
      BY <2>6, <2>8
    <3>2. f[1..k + 1] = f[1..k]
      BY <2>4, <2>8 DEF Step
    <3> HIDE DEF joined
    <3>3. Good(k + 1)
      BY <2>5, <3>1, <3>2
    <3> HIDE DEF Good
    <3>. QED
      BY <2>1, <3>3
  <2>. QED
    BY <2>7, <2>8
<1>18. n \in S
  <2> HIDE DEF S
  <2>1. 0..n \subseteq S
    BY <1>3, <1>16, <1>17, UpTo
  <2>. QED
    BY <1>3, <2>1
<1> HIDE DEF joined
<1>19. Determined(f[1..n], given \cap joined(n))
  BY <1>18
<1>. QED
  BY <1>15, <1>19 DEF Determined

(* The inductive invariant holds of every behaviour of BusinessQuery.      *)
THEOREM Inductive == Spec => []IInv
BY InvariantInit, InvariantStep, PTL DEF Spec

(* A call is where its data say, for any catalog and any plans.            *)
THEOREM TypeCorrect == Spec => []TypeOK
<1>1. IInv => TypeOK
  BY DEF IInv
<1>. QED
  BY <1>1, Inductive, PTL

(* The checks of validate_query_plan suffice for the statement, whatever   *)
(* the catalog, its rows and the plans of the model are.                   *)
THEOREM AcceptedPlansRun == Spec => []AcceptedRuns
<1>1. IInv => AcceptedRuns
  <2> SUFFICES ASSUME IInv, query # None, ~BranchIsDetached(query), ~OwnerIsHidden(query)
               PROVE  ~DatabaseRefuses(query) /\ Implicit(query) = {}
    BY DEF AcceptedRuns
  <2> DEFINE p == Head(pending)
  <2>1. query = Validated(p) /\ Refusal(p) = None /\ p \in AllPlans
    BY HeadTailProperties DEF IInv, QueryValidated, TypeOK, PlansKnown
  <2>2. Structured(p)
    <3>1. "refused" # None
      BY QueryAssumption DEF Answers
    <3>. QED
      BY <2>1, <3>1 DEF Refusal
  <2> HIDE DEF p
  <2>. QED
    BY <2>1, <2>2, StatementRuns
<1>. QED
  BY <1>1, Inductive, PTL

(* No query reads more days than the service allows, whatever filters the  *)
(* model combines.                                                         *)
THEOREM RangeBounded == Spec => []RangeIsBounded
<1>1. IInv => RangeIsBounded
  <2> SUFFICES ASSUME IInv, query # None, Base(query) \in Dated PROVE RangeIsBounded
    BY DEF RangeIsBounded
  <2> DEFINE p == Head(pending)
  <2>1. query.plan = p /\ Refusal(p) = None /\ p \in AllPlans
    <3>1. query = Validated(p) /\ Refusal(p) = None /\ pending # <<>> /\ pending \in Seq(AllPlans)
      BY DEF IInv, QueryValidated, TypeOK, PlansKnown
    <3>. QED
      BY <3>1, ValidatedPlan, HeadTailProperties
  <2>2. Base(query) = p.base
    BY <2>1 DEF Base
  <2> HIDE DEF p
  <2>. QED
    BY <2>1, <2>2, AcceptedRange DEF RangeIsBounded
<1>. QED
  BY <1>1, Inductive, PTL

(* A row of the base and a row of the grain's table meet in one tuple at   *)
(* most, for any catalog, data and plan of the three kinds left.           *)
THEOREM DetailMultipliesOnly == Spec => []OnlyDetailMultiplies
<1>1. IInv => OnlyDetailMultiplies
  <2> DEFINE v == query
             p == Head(pending)
             direct == DirectEdges(v)
             given == {Base(v)} \cup ({Owner(v)} \cap Direct(v))
             many == {e \in direct : EffectiveMany(e.rel, e.parent)}
             twice == \/ \E e \in direct : LeadsBackToMany(e)
                      \/ v.grain \in DetailGrains \cap DOMAIN GrainKeys[Base(v)] /\ many # {}
                      \/ \E e \in many : e.child \in Upstream(Tree(v.plan).edges, v.grain)
  <2> SUFFICES ASSUME IInv, query # None, ~twice PROVE Determined(From(v), given)
    BY DEF OnlyDetailMultiplies, Determined
  <2>1. query = Validated(p) /\ Refusal(p) = None /\ p \in AllPlans
    BY HeadTailProperties DEF IInv, QueryValidated, TypeOK, PlansKnown
  <2>2. Structured(p)
    <3>1. "refused" # None
      BY QueryAssumption DEF Answers
    <3>. QED
      BY <2>1, <3>1 DEF Refusal
  <2> HIDE DEF p
  <2>3. v.plan = p /\ v.grain = Grain(p) /\ Base(v) = p.base
    BY <2>1 DEF Validated, Base
  <2>4. ASSUME NEW e \in direct
        PROVE  e.child \in given \/ (~EffectiveMany(e.rel, e.parent) /\ ~LeadsBackToMany(e))
    <3>1. ~LeadsBackToMany(e)
      OBVIOUS
    <3>2. CASE EffectiveMany(e.rel, e.parent)
      <4>1. /\ e \in many /\ e.child \notin Upstream(Tree(p).edges, Grain(p))
            /\ Grain(p) \notin DetailGrains \cap DOMAIN GrainKeys[p.base]
        BY <2>3, <3>2
      <4>2. e.child = Owner(v) /\ Owner(v) \in Direct(v)
        BY <2>1, <2>2, <3>2, <4>1, DetailIsOwner
      <4>. QED
        BY <4>2
    <3>. QED
      BY <3>1, <3>2
  <2>5. p.base \in given
    BY <2>3
  <2> HIDE DEF given, many, twice
  <2>. QED
    BY <2>1, <2>2, <2>4, <2>5, TuplesAreDetermined
<1>. QED
  BY <1>1, Inductive, PTL

(* An answer with rows is made of every plan of the question, and a        *)
(* question that is turned down has read nothing.                          *)
THEOREM AnswerWhole == Spec => []AnswerIsWhole
<1>1. IInv => AnswerIsWhole
  BY DEF IInv
<1>. QED
  BY <1>1, Inductive, PTL
=============================================================================
