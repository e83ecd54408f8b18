------------------------- MODULE LossReport_proofs -------------------------
(***************************************************************************)
(* Proofs about LossReport, for every number of packets per frame, every   *)
(* number of frames per report and every order of arrival.                 *)
(***************************************************************************)
EXTENDS CommonLemmas, LossReport, SequenceTheorems

(* Bitmaps.                                                                *)
Bitmap == Seq(BOOLEAN)

Lost(s) == {k \in 1 .. Len(s) : s[k]}

LEMMA MaxOf ==
  ASSUME NEW S \in SUBSET Int, NEW x \in S, \A y \in S : y <= x
  PROVE  Max(S) = x
<1>1. Max(S) \in S /\ \A y \in S : Max(S) >= y
  BY DEF Max
<1>2. Max(S) >= x /\ x >= Max(S) /\ Max(S) \in Int /\ x \in Int
  BY <1>1
<1> QED
  BY <1>2

LEMMA IntervalSize ==
  ASSUME NEW a \in Int, NEW b \in Int, a <= b + 1
  PROVE  IsFiniteSet(a .. b) /\ Cardinality(a .. b) = (b - a) + 1
<1>1. /\ IsFiniteSet(a .. b)
      /\ Cardinality(a .. b) = IF a > b THEN 0 ELSE b - a + 1
  BY FS_Interval
<1>2. CASE a > b
  <2>1. (b - a) + 1 = 0
    BY <1>2
  <2> QED
    BY <1>1, <1>2, <2>1
<1>3. CASE ~ (a > b)
  BY <1>1, <1>3
<1> QED
  BY <1>2, <1>3

(* Losses are counted.                                                     *)
LEMMA CountType ==
  ASSUME NEW s, NEW a \in Int, NEW b \in Int
  PROVE  sum_bool(s, a .. b) \in Nat
<1>1. IsFiniteSet(a .. b)
  BY FS_Interval
<1>2. IsFiniteSet({k \in a .. b : s[k]})
  BY <1>1, FS_Subset
<1> QED
  BY <1>2, FS_CardinalityType DEF sum_bool

LEMMA LostFinite ==
  ASSUME NEW s, Len(s) \in Nat
  PROVE  IsFiniteSet(Lost(s)) /\ Cardinality(Lost(s)) \in Nat
<1>1. IsFiniteSet(1 .. Len(s))
  BY FS_Interval
<1>2. IsFiniteSet({k \in 1 .. Len(s) : s[k]})
  BY <1>1, FS_Subset
<1> QED
  BY <1>2, FS_CardinalityType DEF Lost

(***************************************************************************)
(* One packet is added: pad_for_pkt_pos, then push.                        *)
(***************************************************************************)
Pushed(s, pos) == Append(s \o Marks(pos - Len(s)), FALSE)

LEMMA PushedIs ==
  ASSUME NEW s \in Bitmap, NEW pos \in Nat
  PROVE  /\ Pushed(s, pos) \in Bitmap
         /\ Len(Pushed(s, pos)) = (IF pos > Len(s) THEN pos ELSE Len(s)) + 1
         /\ \A k \in 1 .. Len(Pushed(s, pos)) :
              Pushed(s, pos)[k] = IF k <= Len(s) THEN s[k]
                                  ELSE k < Len(Pushed(s, pos))
<1> DEFINE n == IF pos > Len(s) THEN pos - Len(s) ELSE 0
           marks == [k \in 1 .. n |-> TRUE]
           padded == s \o marks
<1>1. Len(s) \in Nat /\ n \in Nat
  BY DEF Bitmap
<1>2. Marks(pos - Len(s)) = marks
  <2>1. Max({pos - Len(s), 0}) = n
    <3>1. CASE pos > Len(s)
      BY <1>1, <3>1, MaxOf
    <3>2. CASE ~ (pos > Len(s))
      BY <1>1, <3>2, MaxOf
    <3> QED
      BY <3>1, <3>2
  <2> QED
    BY <2>1 DEF Marks
<1>3. marks \in Seq(BOOLEAN) /\ Len(marks) = n
  BY <1>1
<1>4. \A k \in 1 .. n : marks[k] = TRUE
  OBVIOUS
<1> HIDE DEF marks
<1>5. /\ padded \in Seq(BOOLEAN) /\ Len(padded) = Len(s) + n
      /\ \A k \in 1 .. Len(s) + n : padded[k] = IF k <= Len(s) THEN s[k] ELSE marks[k - Len(s)]
  BY <1>3, ConcatProperties DEF Bitmap
<1>6. Len(padded) = IF pos > Len(s) THEN pos ELSE Len(s)
  BY <1>1, <1>5
<1> HIDE DEF n, padded
<1>7. Pushed(s, pos) = Append(padded, FALSE)
  BY <1>2 DEF Pushed, padded
<1>8. /\ Pushed(s, pos) \in Seq(BOOLEAN) /\ Len(Pushed(s, pos)) = Len(padded) + 1
      /\ \A k \in 1 .. Len(padded) : Pushed(s, pos)[k] = padded[k]
      /\ Pushed(s, pos)[Len(padded) + 1] = FALSE
  <2>1. FALSE \in BOOLEAN /\ Len(padded) \in Nat
    BY <1>5
  <2>2. /\ Append(padded, FALSE) \in Seq(BOOLEAN)
        /\ Len(Append(padded, FALSE)) = Len(padded) + 1
        /\ \A k \in 1 .. Len(padded) : Append(padded, FALSE)[k] = padded[k]
        /\ Append(padded, FALSE)[Len(padded) + 1] = FALSE
    BY <1>5, <2>1, AppendProperties, Zenon
  <2> QED
    BY <1>7, <2>2, Zenon
<1>9. ASSUME NEW k \in 1 .. Len(Pushed(s, pos))
      PROVE  Pushed(s, pos)[k] = IF k <= Len(s) THEN s[k] ELSE k < Len(Pushed(s, pos))
  <2>1. CASE k = Len(padded) + 1
    <3>1. ~ (k <= Len(s)) /\ ~ (k < Len(Pushed(s, pos)))
      BY <1>1, <1>5, <1>8, <2>1
    <3>2. (k < Len(Pushed(s, pos))) = FALSE
      BY <3>1
    <3> QED
      BY <1>8, <2>1, <3>1, <3>2, Zenon
  <2>2. CASE k # Len(padded) + 1 /\ k <= Len(s)
    <3>1. k \in 1 .. Len(padded) /\ k \in 1 .. Len(s) + n
      BY <1>1, <1>5, <1>8, <1>9, <2>2
    <3> QED
      BY <1>5, <1>8, <2>2, <3>1, Zenon
  <2>3. CASE k # Len(padded) + 1 /\ ~ (k <= Len(s))
    <3>1. /\ k \in 1 .. Len(padded) /\ k \in 1 .. Len(s) + n /\ k - Len(s) \in 1 .. n
          /\ k < Len(Pushed(s, pos))
      BY <1>1, <1>5, <1>8, <1>9, <2>3
    <3>2. (k < Len(Pushed(s, pos))) = TRUE
      BY <3>1
    <3>3. Pushed(s, pos)[k] = TRUE
      BY <1>4, <1>5, <1>8, <2>3, <3>1, Zenon
    <3> QED
      BY <2>3, <3>2, <3>3, Zenon
  <2> QED
    BY <2>1, <2>2, <2>3, Zenon
<1> QED
  BY <1>6, <1>8, <1>9 DEF Bitmap

(* It marks what it skips and nothing else.                                *)
LEMMA PushedCount ==
  ASSUME NEW s \in Bitmap, NEW pos \in Nat
  PROVE  Cardinality(Lost(Pushed(s, pos)))
           = Cardinality(Lost(s)) + ((Len(Pushed(s, pos)) - 1) - Len(s))
<1> DEFINE p == Pushed(s, pos)
           skipped == Len(s) + 1 .. Len(p) - 1
<1>1. /\ p \in Bitmap /\ Len(p) \in Nat /\ Len(s) \in Nat /\ Len(p) >= Len(s) + 1
      /\ \A k \in 1 .. Len(p) : p[k] = IF k <= Len(s) THEN s[k] ELSE k < Len(p)
  BY PushedIs DEF Bitmap
<1> HIDE DEF p
<1>2. ASSUME NEW k \in 1 .. Len(p)
      PROVE  k \in Lost(p) <=> k \in Lost(s) \/ k \in skipped
  <2>1. CASE k <= Len(s)
    <3>1. k \in 1 .. Len(s) /\ k \notin skipped /\ p[k] = s[k]
      BY <1>1, <2>1
    <3> HIDE DEF skipped
    <3> QED
      BY <3>1, Zenon DEF Lost
  <2>2. CASE ~ (k <= Len(s))
    <3>1. k \notin Lost(s) /\ (k \in skipped <=> k < Len(p)) /\ p[k] = (k < Len(p))
      BY <1>1, <2>2 DEF Lost
    <3> HIDE DEF skipped
    <3> QED
      BY <3>1, Zenon DEF Lost
  <2> QED
    BY <2>1, <2>2
<1>3. Lost(p) = Lost(s) \cup skipped
  <2>1. Lost(s) \subseteq 1 .. Len(p) /\ skipped \subseteq 1 .. Len(p) /\ Lost(p) \subseteq 1 .. Len(p)
    BY <1>1 DEF Lost
  <2> HIDE DEF skipped
  <2> QED
    BY <1>2, <2>1
<1>4. Lost(s) \cap skipped = {}
  BY <1>1 DEF Lost
<1>5. IsFiniteSet(skipped) /\ Cardinality(skipped) = (Len(p) - 1) - Len(s)
  BY <1>1, IntervalSize
<1>6. IsFiniteSet(Lost(s)) /\ Cardinality(Lost(s)) \in Nat
  BY <1>1, LostFinite
<1> HIDE DEF skipped
<1>7. Cardinality(Lost(p)) = Cardinality(Lost(s)) + Cardinality(skipped) - Cardinality({})
  BY <1>3, <1>4, <1>5, <1>6, FS_Union
<1> QED
  BY <1>1, <1>5, <1>6, <1>7, FS_EmptySet DEF p

(***************************************************************************)
(* is_missing: as many positions are not marked as packets arrived, and    *)
(* it reaches as far as the last of them.                                  *)
(***************************************************************************)
Reaches(arrived, s, i) ==
  /\ Len(s) >= i /\ Cardinality(Lost(s)) = Len(s) - i
  /\ \A j \in 1 .. i : arrived[j] < Len(s)

Ascending(arrived) == \A j, k \in DOMAIN arrived : j < k => arrived[j] < arrived[k]

LEMMA MissingCounts ==
  ASSUME NEW arrived \in Seq(Nat)
  PROVE  /\ is_missing(arrived) \in Bitmap
         /\ Reaches(arrived, is_missing(arrived), Len(arrived))
         /\ Ascending(arrived) /\ arrived # <<>>
              => Len(is_missing(arrived)) = arrived[Len(arrived)] + 1
         /\ IsInjective(arrived) /\ Len(is_missing(arrived)) = Len(arrived)
              => Ascending(arrived)
<1> DEFINE n == Len(arrived)
           missing[k \in 0 .. n] ==
             IF k = 0 THEN <<>>
             ELSE Append(missing[k - 1] \o Marks(arrived[k] - Len(missing[k - 1])), FALSE)
           Step == [x \in (1 .. n) \X Bitmap |-> Pushed(x[2], arrived[x[1]])]
           Tight(s, k) == Ascending(arrived) => Len(s) = IF k = 0 THEN 0 ELSE arrived[k] + 1
           Unmarked(s, k) == IsInjective(arrived) /\ Len(s) = k
                               => \A j \in 1 .. k : arrived[j] = j - 1
           Good == {k \in 0 .. n : /\ missing[k] \in Bitmap
                                   /\ Reaches(arrived, missing[k], k) /\ Tight(missing[k], k)
                                   /\ Unmarked(missing[k], k)}
<1>0. n \in Nat /\ \A k \in 1 .. n : arrived[k] \in Nat
  OBVIOUS
<1>1. is_missing(arrived) = missing[n]
  BY DEF is_missing
<1>2. \A i \in 1 .. n, x \in Bitmap : Step[<<i, x>>] = Pushed(x, arrived[i])
  OBVIOUS
<1>3. StepsStayIn(n, Bitmap, Step)
  <2>1. \A i \in 1 .. n, x \in Bitmap : Pushed(x, arrived[i]) \in Bitmap
    BY <1>0, PushedIs
  <2> HIDE DEF Step, n
  <2> QED
    BY <1>2, <2>1 DEF StepsStayIn
<1>4. \E h \in [0 .. n -> Bitmap] : Follows(h, n, <<>>, Step)
  <2>1. <<>> \in Bitmap
    BY DEF Bitmap
  <2> HIDE DEF Step, Good, missing, n
  <2> QED
    BY <1>0, <1>3, <2>1, RecursionExists
<1>5. PICK h \in [0 .. n -> Bitmap] :
         h[0] = <<>> /\ \A i \in 1 .. n : h[i] = Pushed(h[i - 1], arrived[i])
  <2>1. \A i \in 1 .. n : i - 1 \in 0 .. n
    BY <1>0
  <2> HIDE DEF Step, Good, missing, n
  <2> QED
    BY <1>2, <1>4, <2>1 DEF Follows
<1>6. h = [k \in 0 .. n |->
             IF k = 0 THEN <<>>
             ELSE Append(h[k - 1] \o Marks(arrived[k] - Len(h[k - 1])), FALSE)]
  <2> HIDE DEF n
  <2> QED
    BY <1>0, <1>5 DEF Pushed
<1>7. missing = [k \in 0 .. n |->
             IF k = 0 THEN <<>>
             ELSE Append(missing[k - 1] \o Marks(arrived[k] - Len(missing[k - 1])), FALSE)]
  BY <1>6
<1> HIDE DEF missing, n
<1>8. 0 \in Good
  <2>1. missing[0] = <<>> /\ 0 \in 0 .. n
    BY <1>0, <1>7
  <2>2. <<>> \in Bitmap /\ Len(<<>>) = 0 /\ Lost(<<>>) = {}
    BY DEF Bitmap, Lost
  <2>3. Reaches(arrived, <<>>, 0)
    <3>1. Cardinality({}) = 0
      BY FS_EmptySet
    <3>2. \A j \in 1 .. 0 : arrived[j] < 0
      OBVIOUS
    <3>3. Cardinality(Lost(<<>>)) = 0
      BY <2>2, <3>1, Zenon
    <3>4. 0 >= 0 /\ 0 - 0 = 0
      OBVIOUS
    <3> QED
      BY <2>2, <3>2, <3>3, <3>4, Zenon DEF Reaches
  <2> QED
    BY <2>1, <2>2, <2>3
<1>9. ASSUME NEW i \in 0 .. n - 1, i \in Good
      PROVE  i + 1 \in Good
  <2> DEFINE s == missing[i]
             pos == arrived[i + 1]
             t == missing[i + 1]
  <2>1. /\ i \in Nat /\ i + 1 \in 0 .. n /\ i + 1 \in 1 .. n /\ i + 1 # 0 /\ (i + 1) - 1 = i
        /\ pos \in Nat
    BY <1>0
  <2>2. t = Pushed(s, pos)
    BY <1>7, <2>1 DEF Pushed
  <2>3. s \in Bitmap /\ Reaches(arrived, s, i) /\ Tight(s, i) /\ Unmarked(s, i)
    BY <1>9
  <2> HIDE DEF s, t, pos, Good
  <2>4. /\ t \in Bitmap /\ Len(t) = (IF pos > Len(s) THEN pos ELSE Len(s)) + 1
        /\ Cardinality(Lost(t)) = Cardinality(Lost(s)) + ((Len(t) - 1) - Len(s))
    BY <2>1, <2>2, <2>3, PushedIs, PushedCount
  <2>5. Len(s) \in Nat /\ Len(t) \in Nat /\ Len(t) > Len(s) /\ Len(t) > pos
    BY <2>1, <2>3, <2>4 DEF Bitmap
  <2>6. Len(t) >= i + 1 /\ Cardinality(Lost(t)) = Len(t) - (i + 1)
    BY <2>1, <2>3, <2>4, <2>5 DEF Reaches
  <2>7. \A j \in 1 .. i + 1 : arrived[j] < Len(t)
    <3> SUFFICES ASSUME NEW j \in 1 .. i + 1 PROVE arrived[j] < Len(t)
      OBVIOUS
    <3>1. CASE j = i + 1
      BY <2>5, <3>1 DEF pos
    <3>2. CASE j # i + 1
      <4>1. j \in 1 .. i /\ j \in 1 .. n
        <5>1. j \in Int /\ 1 <= j /\ j <= i + 1
          BY <2>1
        <5> QED
          BY <1>0, <2>1, <3>2, <5>1
      <4>2. arrived[j] < Len(s) /\ arrived[j] \in Nat
        BY <1>0, <2>3, <4>1 DEF Reaches
      <4> QED
        BY <2>5, <4>2
    <3> QED
      BY <3>1, <3>2
  <2>8. Tight(t, i + 1)
    <3> SUFFICES ASSUME Ascending(arrived) PROVE Len(t) = pos + 1
      BY <2>1 DEF pos
    <3>1. CASE i = 0
      <4>1. Len(s) = 0
        BY <2>3, <3>1
      <4> QED
        BY <2>1, <2>4, <4>1
    <3>2. CASE i # 0
      <4>1. Len(s) = arrived[i] + 1 /\ i \in 1 .. n /\ i < i + 1 /\ arrived[i] \in Nat
        BY <1>0, <2>1, <2>3, <3>2
      <4>2. DOMAIN arrived = 1 .. n
        BY DEF n
      <4>3. arrived[i] < pos
        BY <2>1, <4>1, <4>2 DEF Ascending, pos
      <4> QED
        BY <2>1, <2>4, <4>1, <4>3
    <3> QED
      BY <3>1, <3>2
  <2>9. Unmarked(t, i + 1)
    <3> SUFFICES ASSUME IsInjective(arrived), Len(t) = i + 1, NEW j \in 1 .. i + 1
                 PROVE  arrived[j] = j - 1
      OBVIOUS
    <3>1. Len(s) = i /\ pos <= i
      BY <2>1, <2>3, <2>4, <2>5 DEF Reaches
    <3>2. \A k \in 1 .. i : arrived[k] = k - 1
      BY <2>3, <3>1
    <3>3. pos = i
      <4> SUFFICES ASSUME pos # i PROVE FALSE
        OBVIOUS
      <4>1. pos + 1 \in 1 .. i /\ pos + 1 # i + 1 /\ pos + 1 \in 1 .. n
        BY <1>0, <2>1, <3>1
      <4>2. arrived[pos + 1] = arrived[i + 1]
        <5>1. arrived[pos + 1] = (pos + 1) - 1
          BY <3>2, <4>1
        <5> QED
          BY <2>1, <5>1 DEF pos
      <4>3. DOMAIN arrived = 1 .. n
        BY DEF n
      <4> QED
        BY <2>1, <4>1, <4>2, <4>3 DEF IsInjective
    <3>4. CASE j = i + 1
      BY <2>1, <3>3, <3>4 DEF pos
    <3>5. CASE j # i + 1
      <4>1. j \in 1 .. i
        BY <2>1, <3>5
      <4> QED
        BY <3>2, <4>1
    <3> QED
      BY <3>4, <3>5
  <2> QED
    BY <2>1, <2>4, <2>6, <2>7, <2>8, <2>9 DEF Reaches, Good, t
<1>10. n \in Good
  <2>1. n \in 0 .. n
    BY <1>0
  <2> HIDE DEF Good
  <2> QED
    BY <1>0, <1>8, <1>9, <2>1, CountUp
<1>11. arrived # <<>> => n # 0
  BY DEF n
<1>12. ASSUME IsInjective(arrived), Len(missing[n]) = n
       PROVE  Ascending(arrived)
  <2>1. \A j \in 1 .. n : arrived[j] = j - 1
    BY <1>10, <1>12
  <2>2. DOMAIN arrived = 1 .. n
    BY DEF n
  <2>3. \A j, k \in 1 .. n : j < k => j - 1 < k - 1
    BY <1>0
  <2> QED
    BY <2>1, <2>2, <2>3 DEF Ascending
<1> QED
  BY <1>1, <1>10, <1>11, <1>12 DEF n

-----------------------------------------------------------------------------
(***************************************************************************)
(* loss_info: the bitmaps of the frames, one behind the other.             *)
(***************************************************************************)
Bitmaps(seqs, n) == \A p \in 1 .. n : seqs[p] \in Bitmap

(* begin[p - 1] is where bitmap p begins, less 1 for the first to be at 0. *)
Begins(begin, seqs, n) ==
  /\ begin \in [0 .. n -> Nat] /\ begin[0] = 0
  /\ \A p \in 1 .. n : begin[p] = begin[p - 1] + Len(seqs[p])

Assembled(t, seqs, begin, n) ==
  /\ t \in Bitmap /\ Len(t) = begin[n]
  /\ \A p \in 1 .. n : \A j \in 1 .. Len(seqs[p]) :
       begin[p - 1] + j \in 1 .. begin[n] /\ t[begin[p - 1] + j] = seqs[p][j]

LEMMA BeginsExist ==
  ASSUME NEW n \in Nat, NEW seqs, Bitmaps(seqs, n)
  PROVE  \E begin : Begins(begin, seqs, n)
<1> DEFINE Step == [x \in (1 .. n) \X Nat |-> x[2] + Len(seqs[x[1]])]
<1>1. \A i \in 1 .. n, x \in Nat : Step[<<i, x>>] = x + Len(seqs[i])
  OBVIOUS
<1>2. \A i \in 1 .. n : Len(seqs[i]) \in Nat
  BY DEF Bitmaps, Bitmap
<1>3. StepsStayIn(n, Nat, Step)
  <2>1. \A i \in 1 .. n, x \in Nat : x + Len(seqs[i]) \in Nat
    BY <1>2
  <2> HIDE DEF Step
  <2> QED
    BY <1>1, <2>1 DEF StepsStayIn
<1> HIDE DEF Step
<1>4. PICK h \in [0 .. n -> Nat] : Follows(h, n, 0, Step)
  BY <1>3, RecursionExists
<1>5. \A p \in 1 .. n : h[p] = h[p - 1] + Len(seqs[p])
  <2>1. \A p \in 1 .. n : p - 1 \in 0 .. n
    OBVIOUS
  <2> QED
    BY <1>1, <1>4, <2>1 DEF Follows
<1> QED
  BY <1>4, <1>5 DEF Begins, Follows

LEMMA AssembledNext ==
  ASSUME NEW seqs, NEW begin, NEW n \in Nat, NEW i \in Nat, i + 1 <= n,
         Bitmaps(seqs, n), Begins(begin, seqs, n),
         NEW t, Assembled(t, seqs, begin, i)
  PROVE  Assembled(t \o seqs[i + 1], seqs, begin, i + 1)
<1> DEFINE b == seqs[i + 1]
           u == t \o b
<1>1. /\ i + 1 \in 1 .. n /\ (i + 1) - 1 = i /\ i \in 0 .. n
      /\ \A p \in 1 .. i + 1 : p # i + 1 => p \in 1 .. i
  OBVIOUS
<1>2. /\ b \in Bitmap /\ t \in Bitmap /\ Len(t) = begin[i] /\ begin[i] \in Nat
      /\ begin[i + 1] = begin[i] + Len(b) /\ Len(b) \in Nat
  BY <1>1 DEF Bitmaps, Begins, Assembled, Bitmap
<1>3. /\ u \in Bitmap /\ Len(u) = Len(t) + Len(b)
      /\ \A k \in 1 .. Len(t) + Len(b) : u[k] = IF k <= Len(t) THEN t[k] ELSE b[k - Len(t)]
  BY <1>2, ConcatProperties DEF Bitmap
<1> HIDE DEF u
<1>4. ASSUME NEW p \in 1 .. i + 1, NEW j \in 1 .. Len(seqs[p])
      PROVE  /\ begin[p - 1] + j \in 1 .. begin[i + 1]
             /\ u[begin[p - 1] + j] = seqs[p][j]
  <2>1. CASE p = i + 1
    <3>1. p - 1 = i /\ seqs[p] = b /\ j \in 1 .. Len(b)
      BY <1>1, <1>4, <2>1
    <3> HIDE DEF b
    <3>2. /\ begin[i] + j \in 1 .. begin[i + 1] /\ begin[i] + j \in 1 .. Len(t) + Len(b)
          /\ ~ (begin[i] + j <= Len(t)) /\ (begin[i] + j) - Len(t) = j
      BY <1>2, <3>1
    <3>3. u[begin[i] + j] = b[j]
      BY <1>3, <3>2
    <3> QED
      BY <3>1, <3>2, <3>3
  <2>2. CASE p # i + 1
    <3>1. p \in 1 .. i
      BY <1>1, <2>2
    <3>2. begin[p - 1] + j \in 1 .. begin[i] /\ t[begin[p - 1] + j] = seqs[p][j]
      BY <1>4, <3>1 DEF Assembled
    <3> DEFINE k == begin[p - 1] + j
    <3>3. k \in 1 .. begin[i]
      BY <3>2
    <3> HIDE DEF k, b
    <3>4. k \in 1 .. begin[i + 1] /\ k \in 1 .. Len(t) + Len(b) /\ k <= Len(t)
      BY <1>2, <3>3
    <3>5. u[k] = t[k]
      BY <1>3, <3>4
    <3> QED
      BY <3>2, <3>4, <3>5 DEF k
  <2> QED
    BY <2>1, <2>2
<1> QED
  BY <1>2, <1>3, <1>4 DEF Assembled, u

LEMMA Flattened ==
  ASSUME NEW seqs \in Seq(Bitmap), NEW begin, Begins(begin, seqs, Len(seqs))
  PROVE  Assembled(FlattenSeq(seqs), seqs, begin, Len(seqs))
<1> DEFINE n == Len(seqs)
           flatten[i \in 1 .. n] == IF i = 1 THEN seqs[i] ELSE flatten[i - 1] \o seqs[i]
           Step == [x \in (1 .. n) \X Bitmap |-> x[2] \o seqs[x[1]]]
           Good == {i \in 0 .. n : IF i = 0 THEN TRUE ELSE Assembled(flatten[i], seqs, begin, i)}
<1>1. n \in Nat /\ Bitmaps(seqs, n)
  BY DEF Bitmaps
<1>2. Begins(begin, seqs, n)
  OBVIOUS
<1>3. FlattenSeq(seqs) = IF n = 0 THEN seqs ELSE flatten[n]
  BY DEF FlattenSeq
<1>4. \A i \in 1 .. n, x \in Bitmap : Step[<<i, x>>] = x \o seqs[i]
  OBVIOUS
<1>5. PICK h \in [0 .. n -> Bitmap] : Follows(h, n, <<>>, Step)
  <2>1. \A i \in 1 .. n, x \in Bitmap : x \o seqs[i] \in Bitmap
    <3> SUFFICES ASSUME NEW i \in 1 .. n, NEW x \in Bitmap PROVE x \o seqs[i] \in Bitmap
      OBVIOUS
    <3>1. seqs[i] \in Seq(BOOLEAN) /\ x \in Seq(BOOLEAN)
      BY <1>1 DEF Bitmaps, Bitmap
    <3> QED
      BY <3>1, ConcatProperties DEF Bitmap
  <2> HIDE DEF Step, n, flatten, Good
  <2>2. StepsStayIn(n, Bitmap, Step)
    BY <1>4, <2>1 DEF StepsStayIn
  <2>3. <<>> \in Bitmap
    BY DEF Bitmap
  <2> QED
    BY <1>1, <2>2, <2>3, RecursionExists
<1>6. h[0] = <<>> /\ \A i \in 1 .. n : h[i] = h[i - 1] \o seqs[i]
  <2>1. \A i \in 1 .. n : i - 1 \in 0 .. n
    BY <1>1
  <2> HIDE DEF Step, n, flatten, Good
  <2> QED
    BY <1>4, <1>5, <2>1 DEF Follows
<1>7. \A b \in Bitmap : <<>> \o b = b
  BY DEF Bitmap
<1> DEFINE g == [i \in 1 .. n |-> h[i]]
<1>8. g = [i \in 1 .. n |-> IF i = 1 THEN seqs[i] ELSE g[i - 1] \o seqs[i]]
  <2>1. ASSUME NEW i \in 1 .. n
        PROVE  h[i] = IF i = 1 THEN seqs[i] ELSE g[i - 1] \o seqs[i]
    <3>1. CASE i = 1
      <4>1. i - 1 = 0 /\ seqs[i] \in Bitmap
        BY <1>1, <3>1 DEF Bitmaps
      <4> QED
        BY <1>6, <1>7, <2>1, <3>1, <4>1
    <3>2. CASE i # 1
      <4>1. i - 1 \in 1 .. n
        BY <1>1, <3>2
      <4>2. g[i - 1] = h[i - 1]
        BY <4>1
      <4> QED
        BY <1>6, <2>1, <3>2, <4>2
    <3> QED
      BY <3>1, <3>2
  <2> QED
    BY <2>1
<1>9. flatten = [i \in 1 .. n |-> IF i = 1 THEN seqs[i] ELSE flatten[i - 1] \o seqs[i]]
  <2> HIDE DEF g, n
  <2> QED
    BY <1>8
<1> HIDE DEF flatten, n, Step, g
<1>10. n # 0 => 1 \in Good
  <2> SUFFICES ASSUME n # 0 PROVE 1 \in Good
    OBVIOUS
  <2>1. 1 \in 1 .. n /\ 1 \in 0 .. n /\ 1 - 1 = 0
    BY <1>1
  <2>2. flatten[1] = <<>> \o seqs[1]
    BY <1>1, <1>7, <1>9, <2>1 DEF Bitmaps
  <2>3. Assembled(<<>>, seqs, begin, 0)
    <3>1. <<>> \in Bitmap /\ Len(<<>>) = 0
      BY DEF Bitmap
    <3>2. begin[0] = 0 /\ 1 .. 0 = {}
      BY <1>2 DEF Begins
    <3> QED
      BY <3>1, <3>2 DEF Assembled
  <2>4. 0 \in Nat /\ 0 + 1 <= n /\ 0 + 1 = 1
    BY <1>1
  <2>5. Assembled(<<>> \o seqs[1], seqs, begin, 1)
    <3>1. Assembled(<<>> \o seqs[0 + 1], seqs, begin, 0 + 1)
      BY <1>1, <1>2, <2>3, <2>4, AssembledNext
    <3> QED
      BY <2>4, <3>1
  <2> QED
    BY <2>1, <2>2, <2>5
<1>11. ASSUME NEW i \in 0 .. n - 1, i \in Good
       PROVE  i + 1 \in Good
  <2>1. /\ i \in Nat /\ i + 1 \in 0 .. n /\ i + 1 \in 1 .. n /\ i + 1 # 0 /\ i + 1 <= n
        /\ (i + 1) - 1 = i /\ n # 0
    BY <1>1
  <2>2. CASE i = 0
    BY <1>10, <2>1, <2>2
  <2>3. CASE i # 0
    <3>1. flatten[i + 1] = flatten[i] \o seqs[i + 1]
      <4>1. i + 1 # 1
        BY <2>1, <2>3
      <4>2. \A k \in 1 .. n : flatten[k] = IF k = 1 THEN seqs[k] ELSE flatten[k - 1] \o seqs[k]
        BY <1>9
      <4>3. flatten[i + 1] = flatten[(i + 1) - 1] \o seqs[i + 1]
        BY <2>1, <4>1, <4>2, Zenon
      <4> QED
        BY <2>1, <4>3
    <3>2. Assembled(flatten[i], seqs, begin, i)
      BY <1>11, <2>3
    <3>3. Assembled(flatten[i] \o seqs[i + 1], seqs, begin, i + 1)
      BY <1>1, <1>2, <2>1, <3>2, AssembledNext
    <3> QED
      BY <2>1, <3>1, <3>3
  <2> QED
    BY <2>2, <2>3
<1>12. n \in Good
  <2>1. n \in 0 .. n /\ 0 \in Good
    BY <1>1
  <2> HIDE DEF Good
  <2> QED
    BY <1>1, <1>11, <2>1, CountUp
<1>13. CASE n = 0
  <2>1. seqs = <<>>
    BY <1>13 DEF n
  <2>2. <<>> \in Bitmap /\ Len(<<>>) = 0
    BY DEF Bitmap
  <2>3. begin[0] = 0 /\ 1 .. 0 = {}
    BY <1>2 DEF Begins
  <2>4. Assembled(<<>>, seqs, begin, 0)
    BY <2>2, <2>3 DEF Assembled
  <2>5. FlattenSeq(seqs) = <<>>
    BY <1>3, <1>13, <2>1
  <2> QED
    BY <1>13, <2>4, <2>5 DEF n
<1>14. CASE n # 0
  <2>1. Assembled(flatten[n], seqs, begin, n)
    BY <1>12, <1>14
  <2> QED
    BY <1>3, <1>14, <2>1 DEF n
<1> QED
  BY <1>13, <1>14

Losses(frames) == [k \in DOMAIN frames |-> packet_losses(frames[k])]

InfoOf(i, frames, begin) ==
  /\ Begins(begin, Losses(frames), Len(frames))
  /\ Assembled(i.packet_losses, Losses(frames), begin, Len(frames))
  /\ i.indices = [k \in 1 .. Len(frames) |-> begin[k - 1] + 1]
  /\ i.frame_losses = [k \in 1 .. Len(frames) |-> frame_loss(frames[k])]

LEMMA LossInfo ==
  ASSUME NEW Frames, NEW frames \in Seq(Frames), \A f \in Frames : packet_losses(f) \in Bitmap
  PROVE  \E begin : InfoOf(loss_info(frames), frames, begin)
<1> DEFINE n == Len(frames)
           seqs == Losses(frames)
           starts[k \in 0 .. n] ==
             IF k = 0 THEN 1 ELSE starts[k - 1] + Len(packet_losses(frames[k]))
<1>1. n \in Nat /\ DOMAIN frames = 1 .. n /\ \A k \in 1 .. n : frames[k] \in Frames
  OBVIOUS
<1>2. seqs = [k \in 1 .. n |-> packet_losses(frames[k])]
  BY <1>1 DEF Losses
<1>3. loss_info(frames) =
        [indices |-> [k \in 1 .. n |-> starts[k - 1]], packet_losses |-> FlattenSeq(seqs),
         frame_losses |-> [k \in 1 .. n |-> frame_loss(frames[k])]]
  BY <1>1 DEF loss_info, Losses
<1> HIDE DEF starts, seqs, n
<1>4. seqs \in Seq(Bitmap) /\ Len(seqs) = n /\ Bitmaps(seqs, n)
  <2>1. \A k \in 1 .. n : packet_losses(frames[k]) \in Bitmap
    BY <1>1
  <2>2. seqs \in [1 .. n -> Bitmap]
    BY <1>2, <2>1
  <2>3. seqs \in Seq(Bitmap) /\ Len(seqs) = n
    BY <1>1, <2>2
  <2> QED
    BY <2>2, <2>3 DEF Bitmaps
<1>5. PICK begin : Begins(begin, seqs, n)
  BY <1>1, <1>4, BeginsExist
<1>6. Assembled(FlattenSeq(seqs), seqs, begin, n)
  <2>1. Begins(begin, seqs, Len(seqs))
    BY <1>4, <1>5
  <2>2. Assembled(FlattenSeq(seqs), seqs, begin, Len(seqs))
    BY <1>4, <2>1, Flattened
  <2> QED
    BY <1>4, <2>2
<1>7. /\ begin \in [0 .. n -> Nat] /\ begin[0] = 0
      /\ \A k \in 1 .. n : begin[k] = begin[k - 1] + Len(packet_losses(frames[k]))
  BY <1>2, <1>5 DEF Begins
<1> DEFINE h == [k \in 0 .. n |-> begin[k] + 1]
<1>8. h = [k \in 0 .. n |-> IF k = 0 THEN 1 ELSE h[k - 1] + Len(packet_losses(frames[k]))]
  <2>1. ASSUME NEW k \in 0 .. n
        PROVE  begin[k] + 1 = IF k = 0 THEN 1 ELSE h[k - 1] + Len(packet_losses(frames[k]))
    <3>1. CASE k = 0
      BY <1>7, <3>1
    <3>2. CASE k # 0
      <4>1. k \in 1 .. n /\ k - 1 \in 0 .. n
        BY <1>1, <3>2
      <4>2. h[k - 1] = begin[k - 1] + 1
        BY <4>1
      <4>3. begin[k] = begin[k - 1] + Len(packet_losses(frames[k]))
        BY <1>7, <4>1
      <4>4. begin[k - 1] \in Nat /\ Len(packet_losses(frames[k])) \in Nat
        BY <1>1, <1>7, <4>1 DEF Bitmap
      <4> HIDE DEF h
      <4>5. begin[k] + 1 = h[k - 1] + Len(packet_losses(frames[k]))
        BY <4>2, <4>3, <4>4
      <4> QED
        BY <3>2, <4>5
    <3> QED
      BY <3>1, <3>2
  <2> QED
    BY <2>1
<1>9. starts = [k \in 0 .. n |->
                  IF k = 0 THEN 1 ELSE starts[k - 1] + Len(packet_losses(frames[k]))]
  <2> HIDE DEF h
  <2> QED
    BY <1>8 DEF starts
<1> DEFINE S == {k \in 0 .. n : starts[k] = begin[k] + 1}
<1>10. \A k \in 0 .. n : k \in S
  <2>1. 0 \in S
    BY <1>1, <1>7, <1>9
  <2>2. ASSUME NEW k \in 0 .. n - 1, k \in S PROVE k + 1 \in S
    <3>1. /\ k \in Nat /\ k + 1 \in 0 .. n /\ k + 1 \in 1 .. n /\ k + 1 # 0 /\ (k + 1) - 1 = k
          /\ k \in 0 .. n
      BY <1>1
    <3>2. starts[k + 1] = starts[k] + Len(packet_losses(frames[k + 1]))
      <4>1. \A m \in 0 .. n : starts[m] =
                  IF m = 0 THEN 1 ELSE starts[m - 1] + Len(packet_losses(frames[m]))
        BY <1>9
      <4>2. starts[k + 1] = starts[(k + 1) - 1] + Len(packet_losses(frames[k + 1]))
        BY <3>1, <4>1, Zenon
      <4> QED
        BY <3>1, <4>2
    <3>3. begin[k + 1] = begin[k] + Len(packet_losses(frames[k + 1]))
      <4>1. begin[k + 1] = begin[(k + 1) - 1] + Len(packet_losses(frames[k + 1]))
        BY <1>7, <3>1, Zenon
      <4> QED
        BY <3>1, <4>1
    <3>4. starts[k] = begin[k] + 1
      BY <2>2
    <3>5. begin[k] \in Nat /\ Len(packet_losses(frames[k + 1])) \in Nat
      BY <1>1, <1>7, <3>1 DEF Bitmap
    <3>6. starts[k + 1] = begin[k + 1] + 1
      BY <3>2, <3>3, <3>4, <3>5
    <3> QED
      BY <3>1, <3>6
  <2> HIDE DEF S
  <2> QED
    BY <1>1, <2>1, <2>2, CountUp
<1>11. [k \in 1 .. n |-> starts[k - 1]] = [k \in 1 .. n |-> begin[k - 1] + 1]
  <2>1. \A k \in 1 .. n : k - 1 \in 0 .. n
    BY <1>1
  <2>2. \A k \in 1 .. n : starts[k - 1] = begin[k - 1] + 1
    BY <1>10, <2>1
  <2> QED
    BY <2>2
<1>12. /\ loss_info(frames).indices = [k \in 1 .. n |-> begin[k - 1] + 1]
       /\ loss_info(frames).packet_losses = FlattenSeq(seqs)
       /\ loss_info(frames).frame_losses = [k \in 1 .. n |-> frame_loss(frames[k])]
  BY <1>3, <1>11
<1> QED
  BY <1>5, <1>6, <1>12 DEF InfoOf, n, seqs

(* The packets of a frame in the bitmap are its own.                       *)
LEMMA PacketsOfFrame ==
  ASSUME NEW frames, Len(frames) \in Nat, NEW begin, NEW i, InfoOf(i, frames, begin),
         NEW p \in 1 .. Len(frames), DOMAIN frames = 1 .. Len(frames)
  PROVE  /\ FramePackets(i, p) = begin[p - 1] + 1 .. begin[p]
         /\ begin[p - 1] \in Nat /\ begin[p] = begin[p - 1] + Len(packet_losses(frames[p]))
<1> DEFINE n == Len(frames)
<1>1. /\ begin \in [0 .. n -> Nat] /\ p - 1 \in 0 .. n /\ p \in 0 .. n /\ p \in Nat
      /\ begin[p] = begin[p - 1] + Len(packet_losses(frames[p]))
      /\ Len(i.packet_losses) = begin[n]
  BY DEF InfoOf, Begins, Assembled, Losses
<1>2. /\ i.indices = [k \in 1 .. n |-> begin[k - 1] + 1] /\ Len(i.indices) = n
  BY DEF InfoOf
<1>3. i.indices[p] = begin[p - 1] + 1
  BY <1>2
<1>4. CASE p < n
  <2>1. p + 1 \in 1 .. n /\ (p + 1) - 1 = p
    BY <1>1, <1>4
  <2>2. i.indices[p + 1] = begin[p] + 1
    <3>1. i.indices[p + 1] = begin[(p + 1) - 1] + 1
      BY <1>2, <2>1
    <3> QED
      BY <2>1, <3>1
  <2>3. (begin[p] + 1) - 1 = begin[p]
    BY <1>1
  <2> QED
    BY <1>1, <1>2, <1>3, <1>4, <2>2, <2>3 DEF FramePackets
<1>5. CASE ~ (p < n)
  <2>1. p = n
    <3>1. p \in Int /\ p <= n /\ n \in Int
      OBVIOUS
    <3> HIDE DEF n
    <3> QED
      BY <1>5, <3>1
  <2> QED
    BY <1>1, <1>2, <1>3, <1>5, <2>1 DEF FramePackets
<1> QED
  BY <1>4, <1>5

LEMMA MarkedOfFrame ==
  ASSUME NEW frames, Len(frames) \in Nat, NEW begin, NEW i, InfoOf(i, frames, begin),
         NEW p \in 1 .. Len(frames), DOMAIN frames = 1 .. Len(frames),
         packet_losses(frames[p]) \in Bitmap
  PROVE  sum_bool(i.packet_losses, FramePackets(i, p)) = Cardinality(Lost(packet_losses(frames[p])))
<1> DEFINE b == packet_losses(frames[p])
           t == i.packet_losses
           a == begin[p - 1]
           marked == {k \in FramePackets(i, p) : t[k]}
           shift == [j \in Lost(b) |-> a + j]
<1>1. FramePackets(i, p) = a + 1 .. a + Len(b) /\ a \in Nat
  <2>1. /\ FramePackets(i, p) = begin[p - 1] + 1 .. begin[p]
        /\ begin[p - 1] \in Nat /\ begin[p] = begin[p - 1] + Len(packet_losses(frames[p]))
    BY PacketsOfFrame
  <2> QED
    BY <2>1, Zenon DEF a, b
<1>2. Len(b) \in Nat
  BY DEF Bitmap
<1>3. \A j \in 1 .. Len(b) : t[a + j] = b[j]
  <2>1. Losses(frames)[p] = b
    BY DEF Losses
  <2> QED
    BY <2>1 DEF InfoOf, Assembled
<1>4. IsFiniteSet(Lost(b))
  BY <1>2, LostFinite
<1> HIDE DEF a, b, t
<1>5. shift \in Bijection(Lost(b), marked)
  <2>1. \A j \in Lost(b) : j \in 1 .. Len(b) /\ b[j] /\ j \in Int
    BY DEF Lost
  <2>2. ASSUME NEW j \in Lost(b) PROVE a + j \in marked
    <3>1. a + j \in FramePackets(i, p)
      BY <1>1, <1>2, <2>1
    <3>2. t[a + j]
      BY <1>3, <2>1
    <3> QED
      BY <3>1, <3>2
  <2>3. ASSUME NEW j \in Lost(b), NEW k \in Lost(b), a + j = a + k PROVE j = k
    BY <1>1, <2>1, <2>3
  <2>4. ASSUME NEW k \in marked PROVE \E j \in Lost(b) : a + j = k
    <3>1. k - a \in 1 .. Len(b) /\ a + (k - a) = k /\ t[k]
      BY <1>1, <1>2
    <3>2. b[k - a]
      BY <1>3, <3>1
    <3>3. k - a \in Lost(b)
      BY <3>1, <3>2 DEF Lost
    <3> QED
      BY <3>1, <3>3
  <2> HIDE DEF marked
  <2> QED
    BY <2>2, <2>3, <2>4 DEF Bijection, Injection, Surjection, IsInjective
<1> HIDE DEF shift, marked
<1>6. ExistsBijection(Lost(b), marked)
  BY <1>5 DEF ExistsBijection
<1>7. Cardinality(marked) = Cardinality(Lost(b))
  BY <1>4, <1>6, FS_Bijection
<1> QED
  BY <1>7 DEF sum_bool, marked, b, t

-----------------------------------------------------------------------------
(***************************************************************************)
(* The losses of a frame.                                                  *)
(***************************************************************************)
LEMMA MaxIsGreatest ==
  ASSUME NEW S \in SUBSET Int, IsFiniteSet(S), S # {}
  PROVE  Max(S) \in S /\ \A y \in S : y <= Max(S)
<1> DEFINE f == [x \in S |-> - x]
           T == {f[x] : x \in S}
<1>1. \A x \in S : f[x] = - x
  OBVIOUS
<1> HIDE DEF f
<1>2. T \in SUBSET Int /\ T # {}
  <2>1. \A x \in S : f[x] \in Int
    BY <1>1
  <2>2. PICK x \in S : TRUE
    OBVIOUS
  <2>3. f[x] \in T
    OBVIOUS
  <2> QED
    BY <2>1, <2>3
<1>3. IsFiniteSet(T)
  BY FiniteImage
<1>4. Min(T) \in T /\ \A y \in T : Min(T) <= y
  <2> HIDE DEF T
  <2> QED
    BY <1>2, <1>3, MinIsLeast
<1>5. PICK x \in S : Min(T) = f[x]
  BY <1>4
<1>6. \A y \in S : y <= x
  <2> SUFFICES ASSUME NEW y \in S PROVE y <= x
    OBVIOUS
  <2>1. f[y] \in T
    OBVIOUS
  <2>2. f[x] <= f[y]
    BY <1>4, <1>5, <2>1
  <2> QED
    BY <1>1, <2>2
<1> QED
  BY <1>6, MaxOf

LEMMA PurgedIs ==
  ASSUME NEW f \in PurgedFrames
  PROVE  /\ f.arrived \in Seq(Nat) /\ IsInjective(f.arrived) /\ f.decoded \in BOOLEAN
<1>1. PICK n \in 1 .. MAX_PACKETS : \E s \in Arrivals(n), d \in BOOLEAN :
               f = [packets |-> n, arrived |-> s, decoded |-> d]
  BY DEF PurgedFrames, Endings
<1>2. PICK s \in Arrivals(n), d \in BOOLEAN : f = [packets |-> n, arrived |-> s, decoded |-> d]
  BY <1>1
<1>3. PICK m \in 0 .. n : s \in [1 .. m -> 0 .. n - 1]
  BY <1>2 DEF Arrivals, SeqOf
<1>4. n \in Nat /\ m \in Nat
  BY ReportAssumption
<1>5. s \in [1 .. m -> Nat]
  BY <1>3, <1>4
<1>6. s \in Seq(Nat)
  BY <1>4, <1>5
<1> QED
  BY <1>2, <1>6 DEF Arrivals

LEMMA FrameMarks ==
  ASSUME NEW f \in PurgedFrames
  PROVE  /\ packet_losses(f) \in Bitmap
         /\ Cardinality(Lost(packet_losses(f))) >= Noticeable(f)
         /\ InOrder(f) => Cardinality(Lost(packet_losses(f))) = Noticeable(f)
         /\ ~ InOrder(f) => Cardinality(Lost(packet_losses(f))) > 0
         /\ Cardinality(Lost(packet_losses(f))) > 0 => frame_loss(f)
<1> DEFINE arrived == f.arrived
           b == packet_losses(f)
           m == Len(arrived)
<1>1. arrived \in Seq(Nat) /\ IsInjective(arrived) /\ m \in Nat /\ DOMAIN arrived = 1 .. m
  BY PurgedIs
<1>2. CASE arrived = <<>>
  <2>1. b = <<TRUE>> /\ Noticeable(f) = 1
    BY <1>2 DEF packet_losses, has_pkts, Noticeable
  <2>2. <<TRUE>> \in Bitmap /\ Lost(<<TRUE>>) = {1}
    <3>1. Len(<<TRUE>>) = 1 /\ <<TRUE>>[1] = TRUE /\ <<TRUE>> \in Seq(BOOLEAN)
      OBVIOUS
    <3>2. 1 .. 1 = {1}
      OBVIOUS
    <3>3. Lost(<<TRUE>>) = {k \in {1} : <<TRUE>>[k]}
      BY <3>1, <3>2, Zenon DEF Lost
    <3>4. Lost(<<TRUE>>) = {1}
      BY <3>1, <3>3, Zenon
    <3> QED
      BY <3>1, <3>4 DEF Bitmap
  <2>3. Cardinality({1}) = 1
    BY FS_Singleton
  <2>4. Cardinality(Lost(b)) = 1
    BY <2>1, <2>2, <2>3
  <2>5. frame_loss(f)
    <3>1. 1 \in DOMAIN b /\ b[1]
      BY <2>1
    <3> QED
      BY <3>1 DEF frame_loss
  <2> QED
    BY <2>1, <2>2, <2>4, <2>5
<1>3. CASE arrived # <<>>
  <2> DEFINE R == Range(arrived)
             M == Max(R)
             all == 0 .. M
  <2>1. b = is_missing(arrived)
    BY <1>3 DEF packet_losses, has_pkts
  <2>2. /\ b \in Bitmap /\ Len(b) >= m /\ Cardinality(Lost(b)) = Len(b) - m
        /\ \A j \in 1 .. m : arrived[j] < Len(b)
        /\ Ascending(arrived) => Len(b) = arrived[m] + 1
        /\ Len(b) = m => Ascending(arrived)
    <3> HIDE DEF b, arrived
    <3> QED
      BY <1>1, <1>3, <2>1, MissingCounts DEF Reaches
  <2>3. m # 0 /\ m \in 1 .. m
    BY <1>1, <1>3
  <2>4. R \in SUBSET Nat /\ R \in SUBSET Int /\ arrived[m] \in R
    BY <1>1, <2>3 DEF Range
  <2>5. arrived \in Bijection(1 .. m, R)
    BY <1>1 DEF Range, Bijection, Injection, Surjection, IsInjective
  <2>6. IsFiniteSet(R) /\ Cardinality(R) = m
    <3>1. IsFiniteSet(1 .. m) /\ Cardinality(1 .. m) = m
      <4>1. (m - 1) + 1 = m /\ 1 \in Int /\ m \in Int /\ 1 <= m + 1
        BY <1>1
      <4> QED
        BY <4>1, IntervalSize
    <3>2. ExistsBijection(1 .. m, R)
      BY <2>5 DEF ExistsBijection
    <3> HIDE DEF R, m
    <3> QED
      BY <3>1, <3>2, FS_Bijection
  <2>7. M \in R /\ \A y \in R : y <= M
    <3>1. R # {}
      BY <2>4
    <3> HIDE DEF R
    <3> QED
      BY <2>4, <2>6, <3>1, MaxIsGreatest
  <2>8. M \in Nat /\ R \subseteq all
    <3> HIDE DEF R, M
    <3> QED
      BY <2>4, <2>7
  <2>9. IsFiniteSet(all) /\ Cardinality(all) = M + 1
    <3>1. (M - 0) + 1 = M + 1 /\ 0 \in Int /\ M \in Int /\ 0 <= M + 1
      BY <2>8
    <3> HIDE DEF M
    <3> QED
      BY <3>1, IntervalSize
  <2>10. Noticeable(f) = Cardinality(all \ R)
    BY <1>3 DEF Noticeable
  <2>11. Cardinality(all \ R) = (M + 1) - m
    <3>1. all \cap R = R
      BY <2>8
    <3> HIDE DEF all, R
    <3>2. Cardinality(all \ R) = Cardinality(all) - Cardinality(all \cap R)
      BY <2>9, FS_Difference
    <3> QED
      BY <2>6, <2>9, <3>1, <3>2
  <2>12. PICK j \in 1 .. m : arrived[j] = M
    <3>1. \E j \in DOMAIN arrived : arrived[j] = M
      <4> HIDE DEF M, arrived
      <4> QED
        BY <2>7 DEF Range
    <3> QED
      BY <1>1, <3>1
  <2>13. Len(b) \in Nat /\ M < Len(b)
    BY <2>2, <2>12 DEF Bitmap
  <2>14. Ascending(arrived) => M = arrived[m]
    <3> SUFFICES ASSUME Ascending(arrived), M # arrived[m] PROVE FALSE
      OBVIOUS
    <3>1. j < m /\ m \in DOMAIN arrived /\ j \in DOMAIN arrived
      <4>1. j # m /\ j \in Int /\ j <= m
        BY <2>12
      <4> HIDE DEF arrived, m, M
      <4> QED
        BY <1>1, <2>3, <4>1
    <3>2. arrived[j] < arrived[m]
      BY <3>1 DEF Ascending
    <3>3. arrived[m] <= M /\ arrived[m] \in Nat
      BY <2>4, <2>7
    <3> QED
      BY <2>8, <2>12, <3>2, <3>3
  <2>15. InOrder(f) <=> Ascending(arrived)
    BY DEF InOrder, Ascending
  <2>16. Cardinality(Lost(b)) > 0 => frame_loss(f)
    <3> SUFFICES ASSUME Cardinality(Lost(b)) > 0 PROVE frame_loss(f)
      OBVIOUS
    <3>1. Lost(b) # {}
      <4>1. Cardinality({}) = 0 /\ ~ (0 > 0)
        BY FS_EmptySet
      <4> HIDE DEF b
      <4> QED
        BY <4>1, Zenon
    <3>2. PICK k \in 1 .. Len(b) : b[k]
      BY <3>1 DEF Lost
    <3>3. k \in DOMAIN b
      BY <2>2 DEF Bitmap
    <3> QED
      BY <3>2, <3>3 DEF frame_loss
  <2> HIDE DEF b, m, M, arrived, all, R
  <2>17. Cardinality(Lost(b)) >= Noticeable(f)
    BY <1>1, <2>2, <2>8, <2>10, <2>11, <2>13
  <2>18. InOrder(f) => Cardinality(Lost(b)) = Noticeable(f)
    BY <1>1, <2>2, <2>8, <2>10, <2>11, <2>13, <2>14, <2>15
  <2>19. ~ InOrder(f) => Cardinality(Lost(b)) > 0
    BY <1>1, <2>2, <2>13, <2>15
  <2> QED
    BY <2>2, <2>16, <2>17, <2>18, <2>19 DEF b
<1> QED
  BY <1>2, <1>3

-----------------------------------------------------------------------------
(* The invariant: what the report is built of are purged frames.           *)
Collected == feedback_frames \in Seq(PurgedFrames)

LEMMA CollectedAlways == ReportSpec => []Collected
<1>1. ReportInit => Collected
  BY DEF ReportInit, Collected
<1>2. Collected /\ [ReportNext]_feedback_frames => Collected'
  <2> SUFFICES ASSUME Collected, [ReportNext]_feedback_frames PROVE Collected'
    OBVIOUS
  <2>1. ASSUME NEW f \in PurgedFrames, collect_frame(f) PROVE Collected'
    BY <2>1, AppendProperties DEF collect_frame, Collected
  <2>2. CASE emit_loss_report
    BY <2>2 DEF emit_loss_report, Collected
  <2>3. CASE UNCHANGED feedback_frames
    BY <2>3 DEF Collected
  <2> QED
    BY <2>1, <2>2, <2>3 DEF ReportNext
<1> QED
  BY <1>1, <1>2, PTL DEF ReportSpec

LEMMA CollectedIsMarked ==
  ASSUME Collected
  PROVE  LossesAreMarked
<1> DEFINE n == Len(feedback_frames)
<1>1. /\ feedback_frames \in Seq(PurgedFrames) /\ n \in Nat /\ DOMAIN feedback_frames = 1 .. n
      /\ \A p \in 1 .. n : feedback_frames[p] \in PurgedFrames
  BY DEF Collected
<1>2. PICK begin : InfoOf(info, feedback_frames, begin)
  BY <1>1, FrameMarks, LossInfo DEF info
<1>3. ASSUME NEW p \in 1 .. n
      PROVE  LET f == feedback_frames[p]
                 marked == sum_bool(info.packet_losses, FramePackets(info, p))
             IN  /\ marked >= Noticeable(f)
                 /\ InOrder(f) => marked = Noticeable(f)
                 /\ marked > 0 => info.frame_losses[p]
  <2> DEFINE f == feedback_frames[p]
             b == packet_losses(f)
             marked == sum_bool(info.packet_losses, FramePackets(info, p))
  <2>1. f \in PurgedFrames /\ b \in Bitmap
    BY <1>1, FrameMarks
  <2>2. marked = Cardinality(Lost(b))
    BY <1>1, <1>2, <2>1, MarkedOfFrame
  <2>3. info.frame_losses[p] = frame_loss(f)
    BY <1>2 DEF InfoOf
  <2>4. /\ Cardinality(Lost(b)) >= Noticeable(f)
        /\ InOrder(f) => Cardinality(Lost(b)) = Noticeable(f)
        /\ Cardinality(Lost(b)) > 0 => frame_loss(f)
    BY <2>1, FrameMarks
  <2> HIDE DEF marked, f, b
  <2>5. /\ marked >= Noticeable(f)
        /\ InOrder(f) => marked = Noticeable(f)
        /\ marked > 0 => info.frame_losses[p]
    BY <2>2, <2>3, <2>4, Zenon
  <2> QED
    BY <2>5 DEF marked, f
<1> QED
  BY <1>1, <1>3 DEF LossesAreMarked

(***************************************************************************)
(* THEOREM.  Whatever arrives of a frame and in whatever order: each loss  *)
(* that a later packet of the frame, or the lack of any packet, shows is   *)
(* marked in the part of the report's bitmap that belongs to the frame;    *)
(* what arrived in order leaves no mark besides; and a frame with a mark   *)
(* is counted as a lossy frame (pad_for_pkt_pos, LossComputer::loss_info). *)
(***************************************************************************)
THEOREM LossesAreMarkedAlways == ReportSpec => []LossesAreMarked
<1>1. Collected => LossesAreMarked
  BY CollectedIsMarked
<1> QED
  BY <1>1, CollectedAlways, PTL

-----------------------------------------------------------------------------
(* The fraction of losses: it is above 0 as soon as one frame is marked.   *)

(* Each position of the assembled bitmap belongs to a frame.               *)
LEMMA PositionOfFrame ==
  ASSUME NEW n \in Nat, NEW seqs, NEW begin, Bitmaps(seqs, n), Begins(begin, seqs, n),
         NEW k \in 1 .. begin[n]
  PROVE  \E p \in 1 .. n : \E j \in 1 .. Len(seqs[p]) : k = begin[p - 1] + j
<1> DEFINE Owned(x, i) == \E p \in 1 .. i : \E j \in 1 .. Len(seqs[p]) : x = begin[p - 1] + j
           Good == {i \in 0 .. n : \A x \in 1 .. begin[i] : Owned(x, i)}
<1>1. begin \in [0 .. n -> Nat] /\ begin[0] = 0
  BY DEF Begins
<1>2. 0 \in Good
  <2>1. 1 .. begin[0] = {} /\ 0 \in 0 .. n
    BY <1>1
  <2> HIDE DEF Owned
  <2> QED
    BY <2>1
<1>3. ASSUME NEW i \in 0 .. n - 1, i \in Good
      PROVE  i + 1 \in Good
  <2>1. /\ i + 1 \in 1 .. n /\ i + 1 \in 0 .. n /\ i \in 0 .. n /\ (i + 1) - 1 = i /\ i \in Nat
        /\ i + 1 \in 1 .. i + 1
    OBVIOUS
  <2>2. /\ begin[i] \in Nat /\ Len(seqs[i + 1]) \in Nat
        /\ begin[i + 1] = begin[i] + Len(seqs[i + 1])
    BY <1>1, <2>1 DEF Begins, Bitmaps, Bitmap
  <2>3. ASSUME NEW x \in 1 .. begin[i + 1]
        PROVE  Owned(x, i + 1)
    <3>1. CASE x <= begin[i]
      <4>1. x \in 1 .. begin[i]
        BY <2>2, <3>1
      <4>2. PICK p \in 1 .. i : \E j \in 1 .. Len(seqs[p]) : x = begin[p - 1] + j
        BY <1>3, <4>1
      <4>3. p \in 1 .. i + 1
        BY <2>1
      <4> QED
        BY <4>2, <4>3
    <3>2. CASE ~ (x <= begin[i])
      <4> DEFINE j == x - begin[i]
      <4>1. j \in 1 .. Len(seqs[i + 1]) /\ x = begin[i] + j
        BY <2>2, <3>2
      <4> HIDE DEF j
      <4> QED
        BY <2>1, <4>1
    <3> QED
      BY <3>1, <3>2
  <2> HIDE DEF Owned
  <2> QED
    BY <2>1, <2>3
<1>4. n \in Good
  <2> HIDE DEF Good
  <2>1. n \in 0 .. n
    OBVIOUS
  <2> QED
    BY <1>2, <1>3, <2>1, CountUp
<1> QED
  BY <1>4

(* A frame leaves no mark if it came in order and shows no loss.           *)
LEMMA MarkedIffSeen ==
  ASSUME NEW f \in PurgedFrames
  PROVE  Lost(packet_losses(f)) = {} <=> InOrder(f) /\ Noticeable(f) = 0
<1> DEFINE marks == Lost(packet_losses(f))
           c == Cardinality(marks)
<1>1. /\ packet_losses(f) \in Bitmap
      /\ InOrder(f) => c = Noticeable(f)
      /\ ~ InOrder(f) => c > 0
  BY FrameMarks
<1>2. IsFiniteSet(marks) /\ c \in Nat
  BY <1>1, LostFinite DEF Bitmap
<1>3. marks = {} <=> c = 0
  <2> HIDE DEF marks
  <2> QED
    BY <1>2, FS_EmptySet, Zenon
<1> HIDE DEF c
<1> QED
  BY <1>1, <1>2, <1>3

(* LossMetricComputer::compute_loss_fraction is above 0 exactly if one of  *)
(* the frames left a mark.                                                 *)
LEMMA FractionSeesMarks ==
  ASSUME NEW frames \in Seq(PurgedFrames)
  PROVE  compute_loss_fraction(loss_info(frames).packet_losses).lost > 0
           <=> \E f \in Range(frames) : Lost(packet_losses(f)) # {}
<1> DEFINE n == Len(frames)
           i == loss_info(frames)
           t == i.packet_losses
           lost == compute_loss_fraction(t).lost
<1>1. n \in Nat /\ DOMAIN frames = 1 .. n /\ \A p \in 1 .. n : frames[p] \in PurgedFrames
  OBVIOUS
<1>2. PICK begin : InfoOf(i, frames, begin)
  BY FrameMarks, LossInfo
<1>3. \A p \in 1 .. n : Losses(frames)[p] = packet_losses(frames[p])
  BY <1>1 DEF Losses
<1>4. /\ t \in Bitmap /\ Len(t) = begin[n] /\ DOMAIN t = 1 .. Len(t) /\ Len(t) \in Nat
      /\ Begins(begin, Losses(frames), n)
      /\ \A p \in 1 .. n : \A j \in 1 .. Len(packet_losses(frames[p])) :
            begin[p - 1] + j \in 1 .. Len(t) /\ t[begin[p - 1] + j] = packet_losses(frames[p])[j]
  <2>1. Assembled(t, Losses(frames), begin, n) /\ Begins(begin, Losses(frames), n)
    BY <1>2 DEF InfoOf
  <2> HIDE DEF t, i, n
  <2>2. /\ t \in Bitmap /\ Len(t) = begin[n]
        /\ \A p \in 1 .. n : \A j \in 1 .. Len(Losses(frames)[p]) :
              begin[p - 1] + j \in 1 .. begin[n] /\ t[begin[p - 1] + j] = Losses(frames)[p][j]
    BY <2>1 DEF Assembled
  <2>3. DOMAIN t = 1 .. Len(t) /\ Len(t) \in Nat
    BY <2>2 DEF Bitmap
  <2> QED
    BY <1>3, <2>1, <2>2, <2>3
<1>5. Bitmaps(Losses(frames), n)
  BY <1>1, <1>3, FrameMarks DEF Bitmaps
<1>6. lost = Cardinality(Lost(t))
  <2> HIDE DEF t
  <2> QED
    BY <1>4, Zenon DEF compute_loss_fraction, sum_bool, Lost
<1>7. IsFiniteSet(Lost(t)) /\ Cardinality(Lost(t)) \in Nat
  BY <1>4, LostFinite
<1>8. lost > 0 <=> Lost(t) # {}
  <2> HIDE DEF lost, t
  <2>1. Cardinality(Lost(t)) = 0 <=> Lost(t) = {}
    BY <1>7, FS_EmptySet, Zenon
  <2> QED
    BY <1>6, <1>7, <2>1
<1> HIDE DEF n, i, t
<1>9. ASSUME Lost(t) # {}
      PROVE  \E f \in Range(frames) : Lost(packet_losses(f)) # {}
  <2>1. PICK k \in 1 .. begin[n] : t[k]
    BY <1>4, <1>9 DEF Lost
  <2>2. PICK p \in 1 .. n : \E j \in 1 .. Len(Losses(frames)[p]) : k = begin[p - 1] + j
    BY <1>1, <1>4, <1>5, PositionOfFrame
  <2>3. PICK j \in 1 .. Len(packet_losses(frames[p])) : k = begin[p - 1] + j
    BY <1>3, <2>2
  <2>4. j \in Lost(packet_losses(frames[p]))
    BY <1>4, <2>1, <2>3 DEF Lost
  <2>5. frames[p] \in Range(frames)
    BY <1>1 DEF Range
  <2> QED
    BY <2>4, <2>5
<1>10. ASSUME NEW f \in Range(frames), Lost(packet_losses(f)) # {}
       PROVE  Lost(t) # {}
  <2>1. PICK p \in 1 .. n : f = frames[p]
    BY <1>1 DEF Range
  <2>2. PICK j \in 1 .. Len(packet_losses(frames[p])) : packet_losses(frames[p])[j]
    BY <1>10, <2>1 DEF Lost
  <2>3. begin[p - 1] + j \in Lost(t)
    BY <1>4, <2>2 DEF Lost
  <2> QED
    BY <2>3
<1> QED
  BY <1>8, <1>9, <1>10 DEF t, i

LEMMA LossIsSeen ==
  ASSUME Collected
  PROVE  compute_loss_metrics(loss_info(feedback_frames)).loss_fraction.lost > 0
           <=> ~ Spotless
<1>1. compute_loss_metrics(loss_info(feedback_frames)).loss_fraction
        = compute_loss_fraction(loss_info(feedback_frames).packet_losses)
  BY DEF compute_loss_metrics
<1>2. Range(feedback_frames) \subseteq PurgedFrames
  BY DEF Collected, Range
<1>3. \A f \in Range(feedback_frames) :
        Lost(packet_losses(f)) = {} <=> InOrder(f) /\ Noticeable(f) = 0
  BY <1>2, MarkedIffSeen
<1>4. compute_loss_fraction(loss_info(feedback_frames).packet_losses).lost > 0
        <=> \E f \in Range(feedback_frames) : Lost(packet_losses(f)) # {}
  BY FractionSeesMarks DEF Collected
<1> QED
  BY <1>1, <1>3, <1>4, Zenon DEF Spotless

-----------------------------------------------------------------------------
(***************************************************************************)
(* Recursion and induction from n + 1 down to 1.                           *)
(***************************************************************************)
LEMMA CountDown ==
  ASSUME NEW n \in Nat, NEW S, n + 1 \in S,
         \A k \in 1 .. n : (\A q \in k + 1 .. n + 1 : q \in S) => k \in S
  PROVE  \A k \in 1 .. n + 1 : k \in S
<1> DEFINE T == {i \in 0 .. n : \A q \in (n + 1) - i .. n + 1 : q \in S}
<1>1. 0 \in T
  <2>1. (n + 1) - 0 .. n + 1 = {n + 1} /\ 0 \in 0 .. n
    OBVIOUS
  <2> QED
    BY <2>1
<1>2. ASSUME NEW i \in 0 .. n - 1, i \in T PROVE i + 1 \in T
  <2> DEFINE k == (n + 1) - (i + 1)
  <2>1. k \in 1 .. n /\ k + 1 = (n + 1) - i /\ i + 1 \in 0 .. n
    OBVIOUS
  <2>2. \A q \in k + 1 .. n + 1 : q \in S
    BY <1>2, <2>1
  <2> HIDE DEF k
  <2>3. k \in S
    BY <2>1, <2>2
  <2>4. \A q \in k .. n + 1 : q = k \/ q \in k + 1 .. n + 1
    BY <2>1
  <2>5. \A q \in k .. n + 1 : q \in S
    BY <2>2, <2>3, <2>4
  <2> QED
    BY <2>1, <2>5 DEF k
<1>3. n \in T
  <2>1. n \in 0 .. n
    OBVIOUS
  <2> HIDE DEF T
  <2> QED
    BY <1>1, <1>2, <2>1, CountUp
<1>4. (n + 1) - n = 1
  OBVIOUS
<1> QED
  BY <1>3, <1>4

(* Body[<<p, f>>] is the value at p, and reads f above p only.             *)
Downward(n, States, Body) ==
  \A p \in 1 .. n + 1, f \in [1 .. n + 1 -> States] : Body[<<p, f>>] \in States

ReadsAbove(n, States, Body) ==
  \A p \in 1 .. n + 1, f, g \in [1 .. n + 1 -> States] :
    (\A q \in p + 1 .. n + 1 : f[q] = g[q]) => Body[<<p, f>>] = Body[<<p, g>>]

Solves(f, n, Body) == \A p \in 1 .. n + 1 : f[p] = Body[<<p, f>>]

LEMMA DownwardExists ==
  ASSUME NEW n \in Nat, NEW States, NEW any \in States, NEW Body,
         Downward(n, States, Body), ReadsAbove(n, States, Body)
  PROVE  \E f \in [1 .. n + 1 -> States] : Solves(f, n, Body)
<1> DEFINE F == [1 .. n + 1 -> States]
           At(i) == (n + 2) - i
           Step == [x \in (1 .. n + 1) \X F |->
                      [x[2] EXCEPT ![At(x[1])] = Body[<<At(x[1]), x[2]>>]]]
           first == [q \in 1 .. n + 1 |-> any]
<1>1. /\ n + 1 \in Nat /\ first \in F
      /\ \A i \in 1 .. n + 1 : At(i) \in 1 .. n + 1
  OBVIOUS
<1>2. \A i \in 1 .. n + 1, f \in F :
        Step[<<i, f>>] = [f EXCEPT ![At(i)] = Body[<<At(i), f>>]]
  OBVIOUS
<1> HIDE DEF Step, first
<1>3. StepsStayIn(n + 1, F, Step)
  <2>1. ASSUME NEW i \in 1 .. n + 1, NEW f \in F PROVE Step[<<i, f>>] \in F
    <3>1. At(i) \in 1 .. n + 1 /\ Step[<<i, f>>] = [f EXCEPT ![At(i)] = Body[<<At(i), f>>]]
      BY <1>1, <1>2
    <3> HIDE DEF At
    <3>2. Body[<<At(i), f>>] \in States
      BY <3>1 DEF Downward
    <3> QED
      BY <3>1, <3>2
  <2> HIDE DEF F
  <2> QED
    BY <2>1 DEF StepsStayIn
<1>4. PICK h \in [0 .. n + 1 -> F] : Follows(h, n + 1, first, Step)
  <2> HIDE DEF F
  <2> QED
    BY <1>1, <1>3, RecursionExists
<1>5. \A i \in 1 .. n + 1 : /\ i - 1 \in 0 .. n + 1 /\ i \in 0 .. n + 1
                            /\ h[i - 1] \in F /\ h[i] \in F
  <2> HIDE DEF F
  <2>1. \A i \in 1 .. n + 1 : i - 1 \in 0 .. n + 1 /\ i \in 0 .. n + 1
    OBVIOUS
  <2> QED
    BY <1>4, <2>1
<1>6. \A i \in 1 .. n + 1 : h[i] = [h[i - 1] EXCEPT ![At(i)] = Body[<<At(i), h[i - 1]>>]]
  <2> HIDE DEF F, At
  <2> QED
    BY <1>2, <1>4, <1>5 DEF Follows
<1> DEFINE last == h[n + 1]
           Kept == {i \in 0 .. n + 1 : \A q \in 1 .. n + 1 :
                      q >= At((n + 1) - i) => h[(n + 1) - i][q] = last[q]}
<1>7. 0 \in Kept
  <2>1. (n + 1) - 0 = n + 1 /\ 0 \in 0 .. n + 1
    OBVIOUS
  <2> QED
    BY <2>1
<1>8. ASSUME NEW i \in 0 .. (n + 1) - 1, i \in Kept PROVE i + 1 \in Kept
  <2> DEFINE k == (n + 1) - i
  <2>1. /\ k \in 1 .. n + 1 /\ (n + 1) - (i + 1) = k - 1 /\ i + 1 \in 0 .. n + 1
        /\ At(k - 1) = At(k) + 1 /\ At(k) \in 1 .. n + 1
    OBVIOUS
  <2>2. \A q \in 1 .. n + 1 : q >= At(k) => h[k][q] = last[q]
    BY <1>8
  <2>3. h[k] = [h[k - 1] EXCEPT ![At(k)] = Body[<<At(k), h[k - 1]>>]]
    BY <1>6, <2>1
  <2>4. h[k - 1] \in F
    BY <1>5, <2>1
  <2> HIDE DEF k, last, At
  <2>5. \A q \in 1 .. n + 1 : q >= At(k) + 1 => q # At(k) /\ q >= At(k)
    BY <2>1
  <2>6. \A q \in 1 .. n + 1 : q # At(k) => h[k][q] = h[k - 1][q]
    BY <2>3, <2>4
  <2>7. \A q \in 1 .. n + 1 : q >= At(k) + 1 => h[k - 1][q] = last[q]
    BY <2>2, <2>5, <2>6
  <2> QED
    BY <2>1, <2>7
<1>9. \A i \in 0 .. n + 1 : i \in Kept
  <2> HIDE DEF Kept
  <2> QED
    BY <1>1, <1>7, <1>8, CountUp
<1>10. last \in F
  <2>1. n + 1 \in 1 .. n + 1
    OBVIOUS
  <2> HIDE DEF F
  <2> QED
    BY <1>5, <2>1
<1>11. ASSUME NEW p \in 1 .. n + 1 PROVE last[p] = Body[<<p, last>>]
  <2> DEFINE k == (n + 2) - p
             i == (n + 1) - k
  <2>1. /\ k \in 1 .. n + 1 /\ At(k) = p /\ i \in 0 .. n + 1 /\ (n + 1) - i = k
        /\ i + 1 \in 0 .. n + 1 /\ (n + 1) - (i + 1) = k - 1 /\ At(k - 1) = p + 1
    OBVIOUS
  <2>2. h[k][p] = last[p]
    <3>1. i \in Kept
      BY <1>9, <2>1
    <3>2. \A q \in 1 .. n + 1 : q >= At((n + 1) - i) => h[(n + 1) - i][q] = last[q]
      BY <3>1
    <3>3. \A q \in 1 .. n + 1 : q >= p => h[k][q] = last[q]
      BY <2>1, <3>2
    <3> HIDE DEF k, last
    <3> QED
      BY <3>3
  <2>3. \A q \in p + 1 .. n + 1 : h[k - 1][q] = last[q]
    <3>1. i + 1 \in Kept
      BY <1>9, <2>1
    <3>2. \A q \in 1 .. n + 1 : q >= At((n + 1) - (i + 1)) => h[(n + 1) - (i + 1)][q] = last[q]
      BY <3>1
    <3>3. \A q \in 1 .. n + 1 : q >= p + 1 => h[k - 1][q] = last[q]
      BY <2>1, <3>2
    <3>4. \A q \in p + 1 .. n + 1 : q \in 1 .. n + 1 /\ q >= p + 1
      OBVIOUS
    <3> QED
      BY <3>3, <3>4
  <2>4. h[k - 1] \in F
    BY <1>5, <2>1
  <2>5. h[k][p] = Body[<<p, h[k - 1]>>]
    <3>1. h[k] = [h[k - 1] EXCEPT ![p] = Body[<<p, h[k - 1]>>]]
      BY <1>6, <2>1
    <3> HIDE DEF k
    <3> QED
      BY <2>4, <3>1
  <2>6. Body[<<p, h[k - 1]>>] = Body[<<p, last>>]
    <3> HIDE DEF k, last
    <3> QED
      BY <1>10, <2>3, <2>4 DEF ReadsAbove
  <2> QED
    BY <2>2, <2>5, <2>6
<1> HIDE DEF last
<1> QED
  BY <1>10, <1>11 DEF Solves

-----------------------------------------------------------------------------
(***************************************************************************)
(* Multi-frame bursts.  D is the set of the frames, of n, with a loss; the *)
(* run at p is the R[p] of them that follow each other from p on.          *)
(***************************************************************************)
RunAt(D, R, n, p) ==
  /\ p + R[p] <= n + 1 /\ p + R[p] \notin D
  /\ \A k \in p .. (p + R[p]) - 1 : k \in D

RunsFrom(D, R, n) ==
  /\ R \in [1 .. n + 1 -> Nat] /\ D \in SUBSET (1 .. n)
  /\ \A p \in 1 .. n + 1 : R[p] = IF p \in D THEN 1 + R[p + 1] ELSE 0

LEMMA RunsAre ==
  ASSUME NEW n \in Nat, NEW D, NEW R, RunsFrom(D, R, n)
  PROVE  \A p \in 1 .. n + 1 : RunAt(D, R, n, p)
<1> DEFINE S == {p \in 1 .. n + 1 : RunAt(D, R, n, p)}
<1>1. /\ R \in [1 .. n + 1 -> Nat] /\ D \in SUBSET (1 .. n)
      /\ \A p \in 1 .. n + 1 : R[p] = IF p \in D THEN 1 + R[p + 1] ELSE 0
  BY DEF RunsFrom
<1>2. ASSUME NEW p \in 1 .. n + 1, p \notin D PROVE p \in S
  <2>1. R[p] = 0
    BY <1>1, <1>2
  <2>2. p + 0 = p /\ p .. (p + 0) - 1 = {} /\ p <= n + 1
    OBVIOUS
  <2> QED
    BY <1>2, <2>1, <2>2 DEF RunAt
<1>3. n + 1 \in S
  <2>1. n + 1 \notin D /\ n + 1 \in 1 .. n + 1
    BY <1>1
  <2> QED
    BY <1>2, <2>1
<1>4. ASSUME NEW p \in 1 .. n, p + 1 \in S, p \in D PROVE p \in S
  <2>1. p \in 1 .. n + 1 /\ p + 1 \in 1 .. n + 1 /\ p \in Nat
    OBVIOUS
  <2>2. R[p] = 1 + R[p + 1] /\ R[p + 1] \in Nat
    BY <1>1, <1>4, <2>1
  <2>3. RunAt(D, R, n, p + 1)
    BY <1>4
  <2>4. p + R[p] = (p + 1) + R[p + 1]
    BY <2>1, <2>2
  <2>5. \A k \in p .. (p + R[p]) - 1 : k = p \/ k \in p + 1 .. ((p + 1) + R[p + 1]) - 1
    BY <2>1, <2>2
  <2>6. \A k \in p .. (p + R[p]) - 1 : k \in D
    BY <1>4, <2>3, <2>5 DEF RunAt
  <2>7. p + R[p] <= n + 1 /\ p + R[p] \notin D
    BY <2>3, <2>4 DEF RunAt
  <2> QED
    BY <2>1, <2>6, <2>7 DEF RunAt
<1>5. ASSUME NEW k \in 1 .. n, \A q \in k + 1 .. n + 1 : q \in S PROVE k \in S
  <2>1. k \in 1 .. n + 1 /\ k + 1 \in k + 1 .. n + 1
    OBVIOUS
  <2>2. k + 1 \in S
    BY <1>5, <2>1
  <2> HIDE DEF S
  <2> QED
    BY <1>2, <1>4, <2>1, <2>2
<1>6. \A k \in 1 .. n + 1 : k \in S
  <2> HIDE DEF S
  <2> QED
    BY <1>3, <1>5, CountDown
<1> QED
  BY <1>6

(* The bursts at p and later, a run cut off at p taken for one.            *)
BurstsFrom(D, R, n, p) ==
  {b \in (1 .. n) \X Nat : /\ b[2] = R[b[1]] /\ b[2] >= MULTI_FRAME_BURST
                           /\ b[1] >= p /\ (b[1] = p \/ b[1] - 1 \notin D)}

Ordered(s) == \A j, k \in DOMAIN s : j < k => s[j][1] < s[k][1]

Lists(s, bursts) == s \in Seq(Nat \X Nat) /\ Range(s) = bursts /\ Ordered(s)

LEMMA ListsLonger ==
  ASSUME NEW s, NEW bursts, Lists(s, bursts), NEW p \in Nat, NEW l \in Nat,
         \A b \in bursts : b[1] > p
  PROVE  Lists(<<<<p, l>>>> \o s, bursts \cup {<<p, l>>})
<1> DEFINE b == <<p, l>>
           u == <<b>> \o s
           m == Len(s)
<1>1. s \in Seq(Nat \X Nat) /\ m \in Nat /\ DOMAIN s = 1 .. m /\ b \in Nat \X Nat
  BY DEF Lists
<1>2. <<b>> \in Seq(Nat \X Nat) /\ Len(<<b>>) = 1 /\ <<b>>[1] = b
  BY <1>1
<1>3. /\ u \in Seq(Nat \X Nat) /\ Len(u) = 1 + m
      /\ \A k \in 1 .. 1 + m : u[k] = IF k <= 1 THEN <<b>>[k] ELSE s[k - 1]
  <2> HIDE DEF b
  <2> QED
    BY <1>1, <1>2, ConcatProperties
<1> HIDE DEF u, b, m
<1>4. DOMAIN u = 1 .. 1 + m
  BY <1>1, <1>3
<1>5. u[1] = b
  BY <1>1, <1>2, <1>3
<1>6. ASSUME NEW k \in 2 .. 1 + m PROVE k - 1 \in 1 .. m /\ u[k] = s[k - 1] /\ u[k] \in bursts
  <2>1. k - 1 \in 1 .. m /\ k \in 1 .. 1 + m /\ ~ (k <= 1)
    BY <1>1
  <2>2. u[k] = s[k - 1]
    BY <1>3, <2>1
  <2>3. s[k - 1] \in Range(s)
    BY <1>1, <2>1 DEF Range
  <2> QED
    BY <2>1, <2>2, <2>3 DEF Lists
<1>7. \A k \in 1 .. 1 + m : k = 1 \/ k \in 2 .. 1 + m
  BY <1>1
<1>8. Range(u) = bursts \cup {b}
  <2>1. \A k \in 1 .. 1 + m : u[k] \in bursts \cup {b}
    BY <1>5, <1>6, <1>7
  <2>2. ASSUME NEW x \in bursts PROVE \E k \in 1 .. 1 + m : u[k] = x
    <3>1. PICK j \in 1 .. m : s[j] = x
      BY <1>1 DEF Lists, Range
    <3>2. j + 1 \in 2 .. 1 + m /\ j + 1 \in 1 .. 1 + m /\ (j + 1) - 1 = j
      BY <1>1
    <3>3. u[j + 1] = x
      BY <1>6, <3>1, <3>2
    <3> QED
      BY <3>2, <3>3
  <2>3. 1 \in 1 .. 1 + m
    BY <1>1
  <2> QED
    BY <1>4, <1>5, <2>1, <2>2, <2>3 DEF Range
<1>9. Ordered(u)
  <2> SUFFICES ASSUME NEW j \in 1 .. 1 + m, NEW k \in 1 .. 1 + m, j < k PROVE u[j][1] < u[k][1]
    BY <1>4 DEF Ordered
  <2>1. k \in 2 .. 1 + m
    BY <1>1
  <2>2. CASE j = 1
    <3>1. u[k] \in bursts /\ u[j] = b
      BY <1>5, <1>6, <2>1, <2>2
    <3>2. u[k][1] > p /\ b[1] = p
      BY <3>1 DEF b
    <3>3. u[k][1] \in Nat
      <4>1. u[k] \in Nat \X Nat
        BY <1>1, <1>6, <2>1
      <4> QED
        BY <4>1
    <3> QED
      BY <3>1, <3>2, <3>3
  <2>3. CASE j # 1
    <3>1. j \in 2 .. 1 + m
      BY <1>7, <2>3
    <3>2. j - 1 \in 1 .. m /\ k - 1 \in 1 .. m /\ j - 1 < k - 1
      BY <1>6, <2>1, <3>1
    <3>3. s[j - 1][1] < s[k - 1][1]
      BY <1>1, <3>2 DEF Lists, Ordered
    <3> QED
      BY <1>6, <2>1, <3>1, <3>3
  <2> QED
    BY <2>2, <2>3
<1> QED
  BY <1>3, <1>8, <1>9 DEF Lists, u, b

(* What get_positions_consecutive_losses does at p.                        *)
SearchAt(found, R, n, p) ==
  IF p + MULTI_FRAME_BURST - 1 > n THEN <<>>
  ELSE IF R[p] >= MULTI_FRAME_BURST THEN <<<<p, R[p]>>>> \o found[p + R[p]]
  ELSE found[p + 1]

LEMMA SearchFinds ==
  ASSUME NEW n \in Nat, NEW D, NEW R, RunsFrom(D, R, n), NEW found,
         \A p \in 1 .. n + 1 : found[p] = SearchAt(found, R, n, p)
  PROVE  \A p \in 1 .. n + 1 : Lists(found[p], BurstsFrom(D, R, n, p))
<1> DEFINE S == {p \in 1 .. n + 1 : Lists(found[p], BurstsFrom(D, R, n, p))}
           M == MULTI_FRAME_BURST
<1>1. /\ R \in [1 .. n + 1 -> Nat] /\ D \in SUBSET (1 .. n) /\ M \in Nat /\ M >= 1
      /\ \A p \in 1 .. n + 1 : RunAt(D, R, n, p)
      /\ \A p \in 1 .. n + 1 : R[p] = IF p \in D THEN 1 + R[p + 1] ELSE 0
  <2>1. M \in Nat /\ M >= 1
    BY MetricsAssumption
  <2>2. \A p \in 1 .. n + 1 : RunAt(D, R, n, p)
    BY RunsAre
  <2>3. /\ R \in [1 .. n + 1 -> Nat] /\ D \in SUBSET (1 .. n)
        /\ \A p \in 1 .. n + 1 : R[p] = IF p \in D THEN 1 + R[p + 1] ELSE 0
    BY DEF RunsFrom
  <2> QED
    BY <2>1, <2>2, <2>3, Zenon
<1>2. Lists(<<>>, {})
  <2>1. <<>> \in Seq(Nat \X Nat) /\ DOMAIN <<>> = {}
    OBVIOUS
  <2> QED
    BY <2>1 DEF Lists, Range, Ordered
<1>3. ASSUME NEW p \in 1 .. n + 1, p + M - 1 > n PROVE p \in S
  <2>1. ASSUME NEW b \in BurstsFrom(D, R, n, p) PROVE FALSE
    <3>1. b[1] \in 1 .. n + 1 /\ R[b[1]] >= M /\ b[1] >= p
      BY <2>1 DEF BurstsFrom
    <3>2. b[1] + R[b[1]] <= n + 1 /\ R[b[1]] \in Nat
      BY <1>1, <3>1 DEF RunAt
    <3> QED
      BY <1>1, <1>3, <3>1, <3>2
  <2>2. found[p] = <<>>
    BY <1>3 DEF SearchAt
  <2> QED
    BY <1>2, <2>1, <2>2
<1>4. ASSUME NEW p \in 1 .. n, \A q \in p + 1 .. n + 1 : q \in S PROVE p \in S
  <2>0. p \in 1 .. n + 1 /\ p \in Nat /\ p + 1 \in 1 .. n + 1 /\ p + 1 \in p + 1 .. n + 1
    OBVIOUS
  <2>1. CASE p + M - 1 > n
    BY <1>3, <2>0, <2>1
  <2>2. CASE ~ (p + M - 1 > n) /\ R[p] >= M
    <3> DEFINE e == p + R[p]
    <3>1. /\ R[p] \in Nat /\ R[p] >= 1 /\ e <= n + 1 /\ e \notin D
          /\ \A k \in p .. e - 1 : k \in D
      BY <1>1, <2>0, <2>2 DEF RunAt
    <3>2. e \in p + 1 .. n + 1 /\ e \in 1 .. n + 1 /\ e > p
      BY <2>0, <3>1
    <3> HIDE DEF e
    <3>3. Lists(found[e], BurstsFrom(D, R, n, e))
      BY <1>4, <3>2
    <3>4. R[e] = 0
      BY <1>1, <3>1, <3>2
    <3>5. BurstsFrom(D, R, n, p) = BurstsFrom(D, R, n, e) \cup {<<p, R[p]>>}
      <4>1. ASSUME NEW b \in BurstsFrom(D, R, n, p), b # <<p, R[p]>>
            PROVE  b \in BurstsFrom(D, R, n, e)
        <5>1. /\ b \in (1 .. n) \X Nat /\ b[1] \in Int /\ b = <<b[1], b[2]>>
              /\ b[2] = R[b[1]] /\ b[2] >= M
              /\ b[1] >= p /\ (b[1] = p \/ b[1] - 1 \notin D)
          BY <4>1 DEF BurstsFrom
        <5>2. b[1] # p
          BY <4>1, <5>1
        <5>3. b[1] - 1 \notin p .. e - 1
          BY <3>1, <5>1, <5>2
        <5>4. b[1] >= e
          BY <2>0, <3>2, <5>1, <5>2, <5>3
        <5> QED
          BY <5>1, <5>2, <5>4 DEF BurstsFrom
      <4>2. ASSUME NEW b \in BurstsFrom(D, R, n, e) PROVE b \in BurstsFrom(D, R, n, p)
        <5>1. /\ b \in (1 .. n) \X Nat /\ b[1] \in Int
              /\ b[2] = R[b[1]] /\ b[2] >= M
              /\ b[1] >= e /\ (b[1] = e \/ b[1] - 1 \notin D)
          BY <4>2 DEF BurstsFrom
        <5>2. b[1] # e
          BY <1>1, <3>4, <5>1
        <5>3. b[1] >= p
          BY <2>0, <3>2, <5>1
        <5> QED
          BY <5>1, <5>2, <5>3 DEF BurstsFrom
      <4>3. <<p, R[p]>> \in BurstsFrom(D, R, n, p)
        BY <2>0, <2>2, <3>1 DEF BurstsFrom
      <4> QED
        BY <4>1, <4>2, <4>3
    <3>6. \A b \in BurstsFrom(D, R, n, e) : b[1] > p
      <4> SUFFICES ASSUME NEW b \in BurstsFrom(D, R, n, e) PROVE b[1] > p
        OBVIOUS
      <4>1. b[1] \in Int /\ b[1] >= e
        BY DEF BurstsFrom
      <4> QED
        BY <2>0, <3>2, <4>1
    <3>7. found[p] = <<<<p, R[p]>>>> \o found[e]
      BY <2>0, <2>2 DEF SearchAt, e
    <3>8. Lists(<<<<p, R[p]>>>> \o found[e], BurstsFrom(D, R, n, e) \cup {<<p, R[p]>>})
      BY <2>0, <3>1, <3>3, <3>6, ListsLonger
    <3> QED
      BY <2>0, <3>5, <3>7, <3>8
  <2>3. CASE ~ (p + M - 1 > n) /\ ~ (R[p] >= M)
    <3>1. found[p] = found[p + 1] /\ Lists(found[p + 1], BurstsFrom(D, R, n, p + 1))
      BY <1>4, <2>0, <2>3 DEF SearchAt
    <3>2. p \in D => R[p + 1] < M
      BY <1>1, <2>0, <2>3
    <3>3. ASSUME NEW b \in BurstsFrom(D, R, n, p) PROVE b \in BurstsFrom(D, R, n, p + 1)
      <4>1. /\ b \in (1 .. n) \X Nat /\ b[1] \in Int
            /\ b[2] = R[b[1]] /\ b[2] >= M
            /\ b[1] >= p /\ (b[1] = p \/ b[1] - 1 \notin D)
        BY <3>3 DEF BurstsFrom
      <4>2. b[1] # p
        BY <2>3, <4>1
      <4>3. b[1] >= p + 1
        BY <2>0, <4>1, <4>2
      <4> QED
        BY <4>1, <4>2, <4>3 DEF BurstsFrom
    <3>4. ASSUME NEW b \in BurstsFrom(D, R, n, p + 1) PROVE b \in BurstsFrom(D, R, n, p)
      <4>1. /\ b \in (1 .. n) \X Nat /\ b[1] \in Int
            /\ b[2] = R[b[1]] /\ b[2] >= M
            /\ b[1] >= p + 1 /\ (b[1] = p + 1 \/ b[1] - 1 \notin D)
        BY <3>4 DEF BurstsFrom
      <4>2. b[1] = p + 1 => b[1] - 1 \notin D
        <5> SUFFICES ASSUME b[1] = p + 1, p \in D PROVE FALSE
          BY <2>0
        <5>1. R[p + 1] < M /\ R[p + 1] >= M
          BY <3>2, <4>1
        <5>2. R[p + 1] \in Nat
          BY <1>1, <2>0
        <5> QED
          BY <1>1, <5>1, <5>2
      <4>3. b[1] >= p /\ b[1] - 1 \notin D
        BY <2>0, <4>1, <4>2
      <4> QED
        BY <4>1, <4>3 DEF BurstsFrom
    <3>5. BurstsFrom(D, R, n, p) = BurstsFrom(D, R, n, p + 1)
      BY <3>3, <3>4
    <3> QED
      BY <2>0, <3>1, <3>5
  <2> QED
    BY <2>1, <2>2, <2>3
<1>5. n + 1 \in S
  <2>1. n + 1 \in 1 .. n + 1 /\ (n + 1) + M - 1 > n
    BY <1>1
  <2> HIDE DEF S
  <2> QED
    BY <1>3, <2>1
<1>6. \A p \in 1 .. n + 1 : p \in S
  <2> HIDE DEF S
  <2> QED
    BY <1>4, <1>5, CountDown
<1> QED
  BY <1>6

(* consecutive_burst_info and get_positions_consecutive_losses are such.   *)
Lossy(i) ==
  {q \in 1 .. Len(i.indices) : sum_bool(i.packet_losses, FramePackets(i, q)) # 0}

LEMMA RunsOfInfo ==
  ASSUME NEW i, Len(i.indices) \in Nat
  PROVE  RunsFrom(Lossy(i), [p \in 1 .. Len(i.indices) + 1 |-> consecutive_burst_info(i, p)],
                  Len(i.indices))
<1> DEFINE n == Len(i.indices)
           D == Lossy(i)
           run[q \in 1 .. n + 1] ==
             IF q > n \/ sum_bool(i.packet_losses, FramePackets(i, q)) = 0
             THEN 0 ELSE 1 + run[q + 1]
           Body == [x \in (1 .. n + 1) \X [1 .. n + 1 -> Nat] |->
                      IF x[1] \in D THEN 1 + x[2][x[1] + 1] ELSE 0]
<1>1. n \in Nat /\ D \in SUBSET (1 .. n)
  BY DEF Lossy
<1>2. \A q \in 1 .. n + 1 :
        (q > n \/ sum_bool(i.packet_losses, FramePackets(i, q)) = 0) <=> q \notin D
  <2> SUFFICES ASSUME NEW q \in 1 .. n + 1
               PROVE  (q > n \/ sum_bool(i.packet_losses, FramePackets(i, q)) = 0) <=> q \notin D
    OBVIOUS
  <2>1. q \in 1 .. n <=> ~ (q > n)
    OBVIOUS
  <2> HIDE DEF n
  <2> QED
    BY <2>1, Zenon DEF Lossy, n
<1>3. \A p \in 1 .. n + 1, f \in [1 .. n + 1 -> Nat] :
        Body[<<p, f>>] = IF p \in D THEN 1 + f[p + 1] ELSE 0
  OBVIOUS
<1>4. \A p \in D : p \in 1 .. n /\ p + 1 \in p + 1 .. n + 1 /\ p + 1 \in 1 .. n + 1
  BY <1>1
<1> HIDE DEF Body, D, run, n
<1>5. Downward(n, Nat, Body)
  <2>1. ASSUME NEW p \in 1 .. n + 1, NEW f \in [1 .. n + 1 -> Nat] PROVE Body[<<p, f>>] \in Nat
    <3>1. CASE p \in D
      <4>1. f[p + 1] \in Nat
        BY <1>4, <3>1
      <4>2. Body[<<p, f>>] = 1 + f[p + 1]
        BY <1>3, <3>1
      <4> QED
        BY <4>1, <4>2
    <3>2. CASE p \notin D
      BY <1>3, <3>2
    <3> QED
      BY <3>1, <3>2
  <2> QED
    BY <2>1 DEF Downward
<1>6. ReadsAbove(n, Nat, Body)
  <2>1. ASSUME NEW p \in 1 .. n + 1, NEW f \in [1 .. n + 1 -> Nat], NEW g \in [1 .. n + 1 -> Nat],
               \A q \in p + 1 .. n + 1 : f[q] = g[q]
        PROVE  Body[<<p, f>>] = Body[<<p, g>>]
    <3>1. CASE p \in D
      <4>1. f[p + 1] = g[p + 1]
        BY <1>4, <2>1, <3>1
      <4> QED
        BY <1>3, <3>1, <4>1
    <3>2. CASE p \notin D
      BY <1>3, <3>2
    <3> QED
      BY <3>1, <3>2
  <2> QED
    BY <2>1 DEF ReadsAbove
<1>7. PICK R \in [1 .. n + 1 -> Nat] : Solves(R, n, Body)
  <2>1. 0 \in Nat
    OBVIOUS
  <2> QED
    BY <1>1, <1>5, <1>6, <2>1, DownwardExists
<1>8. \A p \in 1 .. n + 1 : R[p] = IF p \in D THEN 1 + R[p + 1] ELSE 0
  BY <1>3, <1>7 DEF Solves
<1>9. R = [q \in 1 .. n + 1 |->
             IF q > n \/ sum_bool(i.packet_losses, FramePackets(i, q)) = 0
             THEN 0 ELSE 1 + R[q + 1]]
  <2>1. \A q \in 1 .. n + 1 :
          R[q] = IF q > n \/ sum_bool(i.packet_losses, FramePackets(i, q)) = 0
                 THEN 0 ELSE 1 + R[q + 1]
    BY <1>2, <1>8, Zenon
  <2> QED
    BY <2>1, Zenon
<1>10. run = [q \in 1 .. n + 1 |->
                IF q > n \/ sum_bool(i.packet_losses, FramePackets(i, q)) = 0
                THEN 0 ELSE 1 + run[q + 1]]
  BY <1>9, Zenon DEF run
<1> DEFINE S == {p \in 1 .. n + 1 : run[p] = R[p]}
<1>11. \A p \in 1 .. n + 1 : run[p] = IF p \in D THEN 1 + run[p + 1] ELSE 0
  <2>1. \A q \in 1 .. n + 1 :
          run[q] = IF q > n \/ sum_bool(i.packet_losses, FramePackets(i, q)) = 0
                   THEN 0 ELSE 1 + run[q + 1]
    BY <1>10, Zenon
  <2> QED
    BY <1>2, <2>1, Zenon
<1>12. \A p \in 1 .. n + 1 : p \in S
  <2>1. n + 1 \in S
    <3>1. n + 1 \notin D /\ n + 1 \in 1 .. n + 1
      BY <1>1
    <3> QED
      BY <1>8, <1>11, <3>1
  <2>2. ASSUME NEW k \in 1 .. n, \A q \in k + 1 .. n + 1 : q \in S PROVE k \in S
    <3>1. k \in 1 .. n + 1 /\ k + 1 \in k + 1 .. n + 1
      BY <1>1
    <3>2. run[k + 1] = R[k + 1]
      BY <2>2, <3>1
    <3> QED
      BY <1>8, <1>11, <3>1, <3>2
  <2> HIDE DEF S
  <2> QED
    BY <1>1, <2>1, <2>2, CountDown
<1>13. \A p \in 1 .. n + 1 : consecutive_burst_info(i, p) = R[p]
  <2>1. \A p : consecutive_burst_info(i, p) = run[p]
    BY Zenon DEF consecutive_burst_info, run, n
  <2> QED
    BY <1>12, <2>1
<1>14. [p \in 1 .. n + 1 |-> consecutive_burst_info(i, p)] = R
  BY <1>13
<1> QED
  BY <1>1, <1>7, <1>8, <1>14 DEF RunsFrom, D, n

LEMMA BurstsOfInfo ==
  ASSUME NEW i, Len(i.indices) \in Nat
  PROVE  \E R : /\ RunsFrom(Lossy(i), R, Len(i.indices))
                /\ Lists(get_positions_consecutive_losses(i),
                         BurstsFrom(Lossy(i), R, Len(i.indices), 1))
<1> DEFINE n == Len(i.indices)
           D == Lossy(i)
           M == MULTI_FRAME_BURST
           Pairs == Seq(Nat \X Nat)
           R == [p \in 1 .. n + 1 |-> consecutive_burst_info(i, p)]
           from[p \in 1 .. n + 1] ==
             IF p + MULTI_FRAME_BURST - 1 > n THEN <<>>
             ELSE IF consecutive_burst_info(i, p) >= MULTI_FRAME_BURST
             THEN <<<<p, consecutive_burst_info(i, p)>>>> \o from[p + consecutive_burst_info(i, p)]
             ELSE from[p + 1]
           Body == [x \in (1 .. n + 1) \X [1 .. n + 1 -> Pairs] |-> SearchAt(x[2], R, n, x[1])]
<1>1. n \in Nat /\ M \in Nat /\ M >= 1
  BY MetricsAssumption
<1>2. RunsFrom(D, R, n)
  BY RunsOfInfo
<1>3. \A p \in 1 .. n + 1 : consecutive_burst_info(i, p) = R[p]
  OBVIOUS
<1>4. \A p \in 1 .. n + 1, f \in [1 .. n + 1 -> Pairs] : Body[<<p, f>>] = SearchAt(f, R, n, p)
  OBVIOUS
<1>5. get_positions_consecutive_losses(i) = from[1]
  BY Zenon DEF get_positions_consecutive_losses
<1> HIDE DEF Body, R, from, n, D
<1>6. \A p \in 1 .. n + 1 : /\ R[p] \in Nat
                            /\ R[p] >= M => p + R[p] \in p + 1 .. n + 1 /\ p + R[p] \in 1 .. n + 1
                            /\ ~ (p + M - 1 > n) => p + 1 \in p + 1 .. n + 1 /\ p + 1 \in 1 .. n + 1
  <2> SUFFICES ASSUME NEW p \in 1 .. n + 1
               PROVE  /\ R[p] \in Nat
                      /\ R[p] >= M => p + R[p] \in p + 1 .. n + 1 /\ p + R[p] \in 1 .. n + 1
                      /\ ~ (p + M - 1 > n) => p + 1 \in p + 1 .. n + 1 /\ p + 1 \in 1 .. n + 1
    OBVIOUS
  <2>1. R[p] \in Nat
    BY <1>2 DEF RunsFrom
  <2>2. RunAt(D, R, n, p)
    BY <1>1, <1>2, RunsAre
  <2>3. p + R[p] <= n + 1
    BY <2>2 DEF RunAt
  <2> HIDE DEF M
  <2> QED
    BY <1>1, <2>1, <2>3
<1>7. Downward(n, Pairs, Body)
  <2>1. ASSUME NEW p \in 1 .. n + 1, NEW f \in [1 .. n + 1 -> Pairs]
        PROVE  SearchAt(f, R, n, p) \in Pairs
    <3>1. CASE p + M - 1 > n
      BY <3>1 DEF SearchAt
    <3>2. CASE ~ (p + M - 1 > n) /\ R[p] >= M
      <4>1. f[p + R[p]] \in Pairs /\ <<p, R[p]>> \in Nat \X Nat
        BY <1>1, <1>6, <3>2
      <4> DEFINE b == <<p, R[p]>>
      <4>2. SearchAt(f, R, n, p) = <<b>> \o f[p + R[p]]
        BY <3>2 DEF SearchAt
      <4> HIDE DEF b
      <4>3. <<b>> \in Seq(Nat \X Nat)
        BY <4>1 DEF b
      <4> QED
        BY <4>1, <4>2, <4>3, ConcatProperties
    <3>3. CASE ~ (p + M - 1 > n) /\ ~ (R[p] >= M)
      <4>1. f[p + 1] \in Pairs
        BY <1>6, <3>3
      <4> QED
        BY <3>3, <4>1 DEF SearchAt
    <3> QED
      BY <3>1, <3>2, <3>3
  <2> HIDE DEF Pairs
  <2> QED
    BY <1>4, <2>1 DEF Downward
<1>8. ReadsAbove(n, Pairs, Body)
  <2>1. ASSUME NEW p \in 1 .. n + 1, NEW f \in [1 .. n + 1 -> Pairs],
               NEW g \in [1 .. n + 1 -> Pairs], \A q \in p + 1 .. n + 1 : f[q] = g[q]
        PROVE  Body[<<p, f>>] = Body[<<p, g>>]
    <3>1. R[p] >= M => f[p + R[p]] = g[p + R[p]]
      BY <1>6, <2>1
    <3>2. ~ (p + M - 1 > n) => f[p + 1] = g[p + 1]
      BY <1>6, <2>1
    <3>3. SearchAt(f, R, n, p) = SearchAt(g, R, n, p)
      BY <3>1, <3>2, Zenon DEF SearchAt
    <3> HIDE DEF Pairs
    <3> QED
      BY <1>4, <3>3
  <2> HIDE DEF Pairs
  <2> QED
    BY <2>1 DEF ReadsAbove
<1>9. PICK found \in [1 .. n + 1 -> Pairs] : Solves(found, n, Body)
  <2>1. <<>> \in Pairs
    OBVIOUS
  <2> HIDE DEF Pairs
  <2> QED
    BY <1>1, <1>7, <1>8, <2>1, DownwardExists
<1>10. found = [p \in 1 .. n + 1 |->
                  IF p + MULTI_FRAME_BURST - 1 > n THEN <<>>
                  ELSE IF consecutive_burst_info(i, p) >= MULTI_FRAME_BURST
                  THEN <<<<p, consecutive_burst_info(i, p)>>>>
                         \o found[p + consecutive_burst_info(i, p)]
                  ELSE found[p + 1]]
  <2>1. \A p \in 1 .. n + 1 : found[p] = SearchAt(found, R, n, p)
    <3> HIDE DEF Pairs
    <3> QED
      BY <1>4, <1>9 DEF Solves
  <2>2. \A p \in 1 .. n + 1 : found[p] =
                  IF p + MULTI_FRAME_BURST - 1 > n THEN <<>>
                  ELSE IF consecutive_burst_info(i, p) >= MULTI_FRAME_BURST
                  THEN <<<<p, consecutive_burst_info(i, p)>>>>
                         \o found[p + consecutive_burst_info(i, p)]
                  ELSE found[p + 1]
    BY <1>3, <2>1, Zenon DEF SearchAt
  <2> HIDE DEF Pairs
  <2> QED
    BY <2>2, Zenon
<1>11. from = [p \in 1 .. n + 1 |->
                  IF p + MULTI_FRAME_BURST - 1 > n THEN <<>>
                  ELSE IF consecutive_burst_info(i, p) >= MULTI_FRAME_BURST
                  THEN <<<<p, consecutive_burst_info(i, p)>>>>
                         \o from[p + consecutive_burst_info(i, p)]
                  ELSE from[p + 1]]
  BY <1>10, Zenon DEF from
<1>12. \A p \in 1 .. n + 1 : from[p] = SearchAt(from, R, n, p)
  <2>1. \A p \in 1 .. n + 1 : from[p] =
                  IF p + MULTI_FRAME_BURST - 1 > n THEN <<>>
                  ELSE IF consecutive_burst_info(i, p) >= MULTI_FRAME_BURST
                  THEN <<<<p, consecutive_burst_info(i, p)>>>>
                         \o from[p + consecutive_burst_info(i, p)]
                  ELSE from[p + 1]
    BY <1>11, Zenon
  <2> QED
    BY <1>3, <2>1, Zenon DEF SearchAt
<1>13. \A p \in 1 .. n + 1 : Lists(from[p], BurstsFrom(D, R, n, p))
  BY <1>1, <1>2, <1>12, SearchFinds
<1>14. 1 \in 1 .. n + 1
  BY <1>1
<1> QED
  BY <1>2, <1>5, <1>13, <1>14 DEF D, n

(* A burst of the list and a run of lossy frames are the same thing.       *)
LossyFrames(D, n) == [p \in 1 .. n |-> p \in D]

LEMMA RunOfBurst ==
  ASSUME NEW n \in Nat, NEW D, NEW R, RunsFrom(D, R, n), NEW b \in BurstsFrom(D, R, n, 1)
  PROVE  /\ <<b[1], b[1] + b[2] - 1>> \in Runs(LossyFrames(D, n), TRUE)
         /\ RunLength(<<b[1], b[1] + b[2] - 1>>) >= MULTI_FRAME_BURST
<1> DEFINE a == b[1]
           l == b[2]
           z == b[1] + b[2] - 1
           lossy == LossyFrames(D, n)
           M == MULTI_FRAME_BURST
<1>1. a \in 1 .. n /\ l = R[a] /\ l >= M /\ l \in Nat /\ (a = 1 \/ a - 1 \notin D)
  BY DEF BurstsFrom
<1>2. M \in Nat /\ M >= 1
  BY MetricsAssumption
<1>3. a \in 1 .. n + 1 /\ D \in SUBSET (1 .. n) /\ a \in Nat
  BY <1>1 DEF RunsFrom
<1>4. RunAt(D, R, n, a)
  BY <1>3, RunsAre
<1>5. z = (a + l) - 1
  BY <1>1, <1>3
<1> HIDE DEF a, l, z, M
<1>6. /\ a + l <= n + 1 /\ a + l \notin D
      /\ \A k \in a .. (a + l) - 1 : k \in D
  BY <1>1, <1>4 DEF RunAt
<1>7. z \in 1 .. n /\ a <= z /\ z + 1 = a + l /\ (z - a) + 1 = l
  BY <1>1, <1>2, <1>3, <1>5, <1>6
<1>8. \A k \in a .. z : k \in D /\ k \in 1 .. n
  BY <1>1, <1>3, <1>5, <1>6, <1>7
<1>9. DOMAIN lossy = 1 .. n /\ Len(lossy) = n /\ \A k \in 1 .. n : lossy[k] = (k \in D)
  BY DEF LossyFrames
<1> HIDE DEF lossy
<1>10. \A k \in a .. z : lossy[k] = TRUE
  BY <1>8, <1>9, Zenon
<1>11. a = 1 \/ lossy[a - 1] # TRUE
  <2>1. a # 1 => a - 1 \in 1 .. n
    BY <1>1
  <2> QED
    BY <1>1, <1>9, <2>1, Zenon
<1>12. z = n \/ lossy[z + 1] # TRUE
  <2>1. z # n => z + 1 \in 1 .. n
    BY <1>7
  <2> QED
    BY <1>6, <1>7, <1>9, <2>1, Zenon
<1> DEFINE r == <<a, z>>
<1>13. r \in Runs(lossy, TRUE)
  <2>1. r[1] = a /\ r[2] = z /\ r \in (1 .. n) \X (1 .. n)
    BY <1>1, <1>7
  <2> HIDE DEF r
  <2> QED
    BY <1>7, <1>9, <1>10, <1>11, <1>12, <2>1, Zenon DEF Runs
<1>14. RunLength(r) = l
  <2>1. RunLength(r) = z - a + 1
    BY DEF RunLength
  <2> QED
    BY <1>1, <1>3, <1>7, <2>1
<1> QED
  BY <1>1, <1>13, <1>14 DEF a, z, lossy, M

LEMMA BurstOfRun ==
  ASSUME NEW n \in Nat, NEW D, NEW R, RunsFrom(D, R, n),
         NEW r \in Runs(LossyFrames(D, n), TRUE), RunLength(r) >= MULTI_FRAME_BURST
  PROVE  \E b \in BurstsFrom(D, R, n, 1) : r = <<b[1], b[1] + b[2] - 1>>
<1> DEFINE a == r[1]
           z == r[2]
           l == (z - a) + 1
           lossy == LossyFrames(D, n)
           M == MULTI_FRAME_BURST
<1>1. DOMAIN lossy = 1 .. n /\ Len(lossy) = n /\ \A k \in 1 .. n : lossy[k] = (k \in D)
  BY DEF LossyFrames
<1> HIDE DEF lossy
<1>2. /\ r \in (1 .. n) \X (1 .. n) /\ a <= z
      /\ \A k \in a .. z : lossy[k] = TRUE
      /\ a = 1 \/ lossy[a - 1] # TRUE
      /\ z = n \/ lossy[z + 1] # TRUE
  BY <1>1, Zenon DEF Runs, lossy
<1>3. a \in 1 .. n /\ z \in 1 .. n /\ r = <<a, z>> /\ l \in Nat /\ l >= 1 /\ a \in Nat
  BY <1>2
<1>4. a \in 1 .. n + 1 /\ D \in SUBSET (1 .. n) /\ R[a] \in Nat
  BY <1>3 DEF RunsFrom
<1>5. RunAt(D, R, n, a)
  BY <1>4, RunsAre
<1>6. l >= M
  BY <1>3 DEF RunLength
<1> HIDE DEF a, z, M
<1>7. \A k \in a .. z : k \in D
  <2>1. \A k \in a .. z : k \in 1 .. n
    BY <1>3
  <2> QED
    BY <1>1, <1>2, <2>1, Zenon
<1>8. a = 1 \/ a - 1 \notin D
  <2>1. a # 1 => a - 1 \in 1 .. n
    BY <1>3
  <2> QED
    BY <1>1, <1>2, <2>1, Zenon
<1>9. z + 1 \notin D
  <2>1. z # n => z + 1 \in 1 .. n
    BY <1>3
  <2>2. n + 1 \notin D
    BY <1>4
  <2> QED
    BY <1>1, <1>2, <2>1, <2>2, Zenon
<1>10. R[a] = l
  <2>1. /\ a + R[a] \notin D
        /\ \A k \in a .. (a + R[a]) - 1 : k \in D
    BY <1>5 DEF RunAt
  <2>2. a + R[a] \notin a .. z
    BY <1>7, <2>1
  <2>3. z + 1 \notin a .. (a + R[a]) - 1
    BY <1>9, <2>1
  <2> QED
    BY <1>2, <1>3, <1>4, <2>2, <2>3
<1> DEFINE b == <<a, l>>
<1>11. b \in BurstsFrom(D, R, n, 1)
  <2>1. b[1] = a /\ b[2] = l /\ b \in (1 .. n) \X Nat
    BY <1>3
  <2>2. a >= 1
    BY <1>3
  <2> HIDE DEF b, l
  <2> QED
    BY <1>6, <1>8, <1>10, <2>1, <2>2, Zenon DEF BurstsFrom, M
<1>12. r = <<b[1], b[1] + b[2] - 1>>
  <2>1. b[1] = a /\ b[2] = l /\ a + l - 1 = z
    BY <1>3
  <2> QED
    BY <1>3, <2>1
<1> QED
  BY <1>11, <1>12

LEMMA CollectedSpans ==
  ASSUME Collected
  PROVE  BurstsSpanFrames
<1> DEFINE n == Len(feedback_frames)
           D == Lossy(info)
           lossy == [p \in DOMAIN info.indices |->
                       sum_bool(info.packet_losses, FramePackets(info, p)) > 0]
           found == get_positions_consecutive_losses(info)
<1>1. /\ feedback_frames \in Seq(PurgedFrames) /\ n \in Nat /\ DOMAIN feedback_frames = 1 .. n
      /\ \A p \in 1 .. n : packet_losses(feedback_frames[p]) \in Bitmap
  BY FrameMarks DEF Collected
<1>2. PICK begin : InfoOf(info, feedback_frames, begin)
  BY <1>1, FrameMarks, LossInfo DEF info
<1>3. DOMAIN info.indices = 1 .. n /\ Len(info.indices) = n
  BY <1>1, <1>2 DEF InfoOf
<1> HIDE DEF D, n
<1>4. \A p \in 1 .. n : sum_bool(info.packet_losses, FramePackets(info, p)) \in Nat
  <2> SUFFICES ASSUME NEW p \in 1 .. n
               PROVE  sum_bool(info.packet_losses, FramePackets(info, p)) \in Nat
    OBVIOUS
  <2>1. /\ FramePackets(info, p) = begin[p - 1] + 1 .. begin[p]
        /\ begin[p - 1] \in Nat
        /\ begin[p] = begin[p - 1] + Len(packet_losses(feedback_frames[p]))
    BY <1>1, <1>2, PacketsOfFrame DEF n
  <2>2. begin[p - 1] + 1 \in Int /\ begin[p] \in Int
    BY <1>1, <2>1 DEF Bitmap
  <2> QED
    BY <2>1, <2>2, CountType
<1>5. lossy = LossyFrames(D, n)
  <2>1. \A p \in 1 .. n : (sum_bool(info.packet_losses, FramePackets(info, p)) > 0) = (p \in D)
    <3> SUFFICES ASSUME NEW p \in 1 .. n
                 PROVE  sum_bool(info.packet_losses, FramePackets(info, p)) > 0 <=> p \in D
      OBVIOUS
    <3>1. p \in D <=> sum_bool(info.packet_losses, FramePackets(info, p)) # 0
      BY <1>3, Zenon DEF D, Lossy
    <3>2. sum_bool(info.packet_losses, FramePackets(info, p)) \in Nat
      BY <1>4
    <3> DEFINE c == sum_bool(info.packet_losses, FramePackets(info, p))
    <3> HIDE DEF c
    <3>3. c > 0 <=> c # 0
      BY <3>2 DEF c
    <3> QED
      BY <3>1, <3>3, Zenon DEF c
  <2> QED
    BY <1>3, <2>1, Zenon DEF LossyFrames
<1>6. PICK R : RunsFrom(D, R, n) /\ Lists(found, BurstsFrom(D, R, n, 1))
  BY <1>1, <1>3, BurstsOfInfo DEF D
<1> HIDE DEF lossy, found
<1>7. {<<b[1], b[1] + b[2] - 1>> : b \in Range(found)}
        = {r \in Runs(lossy, TRUE) : RunLength(r) >= MULTI_FRAME_BURST}
  <2>1. Range(found) = BurstsFrom(D, R, n, 1)
    BY <1>6 DEF Lists
  <2>2. \A b \in BurstsFrom(D, R, n, 1) :
          /\ <<b[1], b[1] + b[2] - 1>> \in Runs(LossyFrames(D, n), TRUE)
          /\ RunLength(<<b[1], b[1] + b[2] - 1>>) >= MULTI_FRAME_BURST
    BY <1>1, <1>6, RunOfBurst
  <2>3. \A r \in Runs(LossyFrames(D, n), TRUE) : RunLength(r) >= MULTI_FRAME_BURST =>
          \E b \in BurstsFrom(D, R, n, 1) : r = <<b[1], b[1] + b[2] - 1>>
    BY <1>1, <1>6, BurstOfRun
  <2> QED
    BY <1>5, <2>1, <2>2, <2>3, Zenon
<1>8. Len(metrics.multi_frame_losses) = Len(found)
  <2>1. metrics.multi_frame_losses = multi_frame_losses(info)
    BY DEF metrics, compute_loss_metrics
  <2>2. DOMAIN multi_frame_losses(info) = DOMAIN found
    BY Zenon DEF multi_frame_losses, found
  <2>3. found \in Seq(Nat \X Nat)
    BY <1>6 DEF Lists
  <2>4. DOMAIN found = 1 .. Len(found) /\ Len(found) \in Nat
    BY <2>3
  <2>5. \E e : multi_frame_losses(info) = [k \in 1 .. Len(found) |-> e[k]]
    <3>1. multi_frame_losses(info) = [k \in 1 .. Len(found) |-> multi_frame_losses(info)[k]]
      BY <2>2, <2>4, Zenon DEF multi_frame_losses, found
    <3> QED
      BY <3>1
  <2> QED
    BY <2>1, <2>4, <2>5
<1> QED
  BY <1>6, <1>7, <1>8, Zenon DEF BurstsSpanFrames, Lists, Ordered, lossy, found

(***************************************************************************)
(* THEOREM.  The multi-frame bursts of a report are the runs of at least   *)
(* MULTI_FRAME_BURST frames that each miss a packet, the one that ends     *)
(* with the last frame included, each once and in order, for any number    *)
(* of frames and packets (get_positions_consecutive_losses_inner).         *)
(***************************************************************************)
THEOREM BurstsSpanFramesAlways == ReportSpec => []BurstsSpanFrames
<1>1. Collected => BurstsSpanFrames
  BY CollectedSpans
<1> QED
  BY <1>1, CollectedAlways, PTL

-----------------------------------------------------------------------------
(***************************************************************************)
(* Histograms.  What is summed over a histogram of runs is what is summed  *)
(* over the runs, whatever the weight of a length.                         *)
(***************************************************************************)
IsHistogram(h) ==
  h \in [DOMAIN h -> Nat] /\ DOMAIN h \in SUBSET Nat /\ IsFiniteSet(DOMAIN h)

Weighted(w, h) == [l \in DOMAIN h |-> w[l] * h[l]]

OverRuns(w, S) == [r \in S |-> w[RunLength(r)]]

HistogramOf(h, S) ==
  /\ IsHistogram(h) /\ IsFiniteSet(S)
  /\ \A r \in S : RunLength(r) \in Nat
  /\ \A w \in [Nat -> Nat] :
       SumFunctionOnSet(Weighted(w, h), DOMAIN h) = SumFunctionOnSet(OverRuns(w, S), S)

LEMMA CountedIs ==
  ASSUME NEW h, IsHistogram(h), NEW len \in Nat
  PROVE  /\ IsHistogram(Counted(h, len)) /\ DOMAIN Counted(h, len) = DOMAIN h \cup {len}
         /\ \A l \in DOMAIN h : l # len => Counted(h, len)[l] = h[l]
         /\ Counted(h, len)[len] = (IF len \in DOMAIN h THEN h[len] ELSE 0) + 1
<1> DEFINE B == DOMAIN h
           one == SetToBag({len})
           c == Counted(h, len)
<1>1. h \in [B -> Nat] /\ B \in SUBSET Nat /\ IsFiniteSet(B)
  BY DEF IsHistogram
<1>2. one = [e \in {len} |-> 1]
  BY DEF SetToBag
<1>3. c = [e \in B \cup {len} |-> (IF e \in B THEN h[e] ELSE 0) + (IF e \in {len} THEN one[e] ELSE 0)]
  BY <1>2 DEF Counted, (+)
<1> HIDE DEF c, one, B
<1>4. DOMAIN c = B \cup {len}
  BY <1>3
<1>5. one[len] = 1
  BY <1>2
<1>6. \A l \in B : l # len => c[l] = h[l]
  BY <1>1, <1>3
<1>7. c[len] = (IF len \in B THEN h[len] ELSE 0) + 1
  BY <1>3, <1>5
<1>8. \A l \in B \cup {len} : c[l] \in Nat
  BY <1>1, <1>6, <1>7
<1>9. c = [e \in B \cup {len} |-> c[e]]
  BY <1>3
<1>10. c \in [B \cup {len} -> Nat]
  BY <1>8, <1>9
<1>11. IsFiniteSet(B \cup {len})
  BY <1>1, FS_AddElement
<1>12. B \cup {len} \in SUBSET Nat
  BY <1>1
<1>13. IsHistogram(c)
  BY <1>4, <1>10, <1>11, <1>12 DEF IsHistogram
<1> QED
  BY <1>4, <1>6, <1>7, <1>13 DEF c, B

LEMMA WeightedSummable ==
  ASSUME NEW h, IsHistogram(h), NEW w \in [Nat -> Nat]
  PROVE  /\ Summable(Weighted(w, h), DOMAIN h)
         /\ \A l \in DOMAIN h : Weighted(w, h)[l] = w[l] * h[l]
<1>1. \A l \in DOMAIN h : w[l] \in Nat /\ h[l] \in Nat
  BY DEF IsHistogram
<1>2. \A l \in DOMAIN h : w[l] * h[l] \in Int
  <2> SUFFICES ASSUME NEW l \in DOMAIN h PROVE w[l] * h[l] \in Int
    OBVIOUS
  <2> DEFINE x == w[l]
             y == h[l]
  <2>1. x \in Nat /\ y \in Nat
    BY <1>1
  <2> HIDE DEF x, y
  <2>2. x * y \in Int
    BY <2>1
  <2> QED
    BY <2>2 DEF x, y
<1>3. \A l \in DOMAIN h : Weighted(w, h)[l] = w[l] * h[l]
  BY DEF Weighted
<1>4. IsFiniteSet(DOMAIN h)
  BY DEF IsHistogram
<1> QED
  BY <1>2, <1>3, <1>4 DEF Summable

LEMMA CountedWeight ==
  ASSUME NEW h, IsHistogram(h), NEW len \in Nat, NEW w \in [Nat -> Nat]
  PROVE  SumFunctionOnSet(Weighted(w, Counted(h, len)), DOMAIN Counted(h, len))
           = w[len] + SumFunctionOnSet(Weighted(w, h), DOMAIN h)
<1> DEFINE c == Counted(h, len)
           f == Weighted(w, c)
           g == Weighted(w, h)
           rest == DOMAIN h \ {len}
<1>1. /\ IsHistogram(c) /\ DOMAIN c = DOMAIN h \cup {len}
      /\ \A l \in DOMAIN h : l # len => c[l] = h[l]
      /\ c[len] = (IF len \in DOMAIN h THEN h[len] ELSE 0) + 1
  BY CountedIs
<1> HIDE DEF c
<1>2. /\ Summable(f, DOMAIN c) /\ \A l \in DOMAIN c : f[l] = w[l] * c[l]
      /\ Summable(g, DOMAIN h) /\ \A l \in DOMAIN h : g[l] = w[l] * h[l]
  BY <1>1, WeightedSummable
<1>3. Summable(f, rest)
  <2>1. rest \in SUBSET (DOMAIN c)
    BY <1>1
  <2> HIDE DEF f, rest
  <2> QED
    BY <1>2, <2>1, SummablePart
<1>4. \A l \in rest : f[l] = g[l]
  <2> SUFFICES ASSUME NEW l \in rest PROVE f[l] = g[l]
    OBVIOUS
  <2>1. l \in DOMAIN h /\ l \in DOMAIN c /\ c[l] = h[l]
    BY <1>1
  <2> HIDE DEF f, g
  <2> QED
    BY <1>2, <2>1
<1> HIDE DEF f, g, rest
<1>5. SumFunctionOnSet(f, rest) = SumFunctionOnSet(g, rest)
  BY <1>3, <1>4, SumSame
<1>6. SumFunctionOnSet(f, DOMAIN c) = f[len] + SumFunctionOnSet(f, rest)
  <2>1. len \in DOMAIN c /\ DOMAIN c \ {len} = rest
    BY <1>1 DEF rest
  <2>2. SumFunctionOnSet(f, DOMAIN c) = f[len] + SumFunctionOnSet(f, DOMAIN c \ {len})
    BY <1>2, <2>1, SumRemove
  <2> QED
    BY <2>1, <2>2
<1>7. w[len] \in Nat /\ SumFunctionOnSet(g, rest) \in Int
  <2>1. SumFunctionOnSet(f, rest) \in Int
    BY <1>3, SumType
  <2> QED
    BY <1>5, <2>1
<1>8. f[len] = w[len] * c[len]
  BY <1>1, <1>2
<1> DEFINE x == w[len]
           rsum == SumFunctionOnSet(g, rest)
<1>9. CASE len \in DOMAIN h
  <2>1. SumFunctionOnSet(g, DOMAIN h) = g[len] + SumFunctionOnSet(g, rest)
    <3>1. SumFunctionOnSet(g, DOMAIN h) = g[len] + SumFunctionOnSet(g, DOMAIN h \ {len})
      BY <1>2, <1>9, SumRemove
    <3> QED
      BY <3>1 DEF rest
  <2> DEFINE y == h[len]
  <2>2. y \in Nat /\ c[len] = y + 1 /\ g[len] = x * y
    BY <1>1, <1>2, <1>9 DEF IsHistogram
  <2>3. x \in Nat /\ rsum \in Int /\ f[len] = x * (y + 1)
    BY <1>7, <1>8, <2>2
  <2> HIDE DEF x, y, rsum
  <2>4. x * (y + 1) = x * y + x /\ x * y \in Nat
    BY <2>2, <2>3, Z3
  <2> DEFINE xy == x * y
  <2> HIDE DEF xy
  <2>5. f[len] = xy + x /\ g[len] = xy /\ xy \in Nat
    BY <2>2, <2>3, <2>4 DEF xy
  <2>6. SumFunctionOnSet(f, DOMAIN c) = (xy + x) + rsum
    BY <1>5, <1>6, <2>5 DEF rsum
  <2>7. SumFunctionOnSet(g, DOMAIN h) = xy + rsum
    BY <2>1, <2>5 DEF rsum
  <2>8. SumFunctionOnSet(f, DOMAIN c) = x + SumFunctionOnSet(g, DOMAIN h)
    BY <2>3, <2>5, <2>6, <2>7
  <2> QED
    BY <2>8 DEF x, f, g, c
<1>10. CASE len \notin DOMAIN h
  <2>1. rest = DOMAIN h /\ c[len] = 1
    <3>1. rest = DOMAIN h
      BY <1>10 DEF rest
    <3>2. c[len] = 0 + 1
      BY <1>1, <1>10, Zenon
    <3>3. 0 + 1 = 1
      OBVIOUS
    <3> QED
      BY <3>1, <3>2, <3>3
  <2>2. f[len] = w[len]
    <3>1. x \in Nat /\ f[len] = x * 1
      BY <1>7, <1>8, <2>1
    <3> HIDE DEF x
    <3>2. f[len] = x
      BY <3>1
    <3> QED
      BY <3>2 DEF x
  <2>3. SumFunctionOnSet(f, DOMAIN c) = w[len] + SumFunctionOnSet(g, DOMAIN h)
    BY <1>5, <1>6, <2>1, <2>2
  <2> QED
    BY <2>3 DEF f, g, c
<1> QED
  BY <1>9, <1>10

LEMMA HistogramGrows ==
  ASSUME NEW h, NEW S, HistogramOf(h, S), NEW r, r \notin S, RunLength(r) \in Nat
  PROVE  HistogramOf(Counted(h, RunLength(r)), S \cup {r})
<1> DEFINE c == Counted(h, RunLength(r))
           U == S \cup {r}
<1>1. IsHistogram(h) /\ IsFiniteSet(S) /\ \A x \in S : RunLength(x) \in Nat
  BY DEF HistogramOf
<1>2. IsHistogram(c) /\ IsFiniteSet(U) /\ \A x \in U : RunLength(x) \in Nat
  <2>1. IsHistogram(c)
    BY <1>1, CountedIs
  <2>2. IsFiniteSet(U)
    BY <1>1, FS_AddElement
  <2> QED
    BY <1>1, <2>1, <2>2
<1>3. ASSUME NEW w \in [Nat -> Nat]
      PROVE  SumFunctionOnSet(Weighted(w, c), DOMAIN c) = SumFunctionOnSet(OverRuns(w, U), U)
  <2>1. SumFunctionOnSet(Weighted(w, c), DOMAIN c)
          = w[RunLength(r)] + SumFunctionOnSet(Weighted(w, h), DOMAIN h)
    BY <1>1, CountedWeight
  <2>2. SumFunctionOnSet(Weighted(w, h), DOMAIN h) = SumFunctionOnSet(OverRuns(w, S), S)
    BY DEF HistogramOf
  <2>3. \A x \in U : OverRuns(w, U)[x] = w[RunLength(x)]
    BY DEF OverRuns
  <2>4. \A x \in S : OverRuns(w, S)[x] = w[RunLength(x)]
    BY DEF OverRuns
  <2>5. Summable(OverRuns(w, U), U)
    <3>1. \A x \in U : w[RunLength(x)] \in Int
      <4>1. \A l \in Nat : w[l] \in Int
        OBVIOUS
      <4> QED
        BY <1>2, <4>1
    <3> HIDE DEF U
    <3> QED
      BY <1>2, <2>3, <3>1 DEF Summable
  <2>6. SumFunctionOnSet(OverRuns(w, U), U)
          = OverRuns(w, U)[r] + SumFunctionOnSet(OverRuns(w, U), S)
    BY <2>5, SumAdd
  <2>7. SumFunctionOnSet(OverRuns(w, U), S) = SumFunctionOnSet(OverRuns(w, S), S)
    <3>1. Summable(OverRuns(w, U), S)
      BY <1>1, <2>3 DEF Summable
    <3>2. \A x \in S : OverRuns(w, U)[x] = OverRuns(w, S)[x]
      BY <2>3, <2>4
    <3> QED
      BY <3>1, <3>2, SumSame
  <2>8. OverRuns(w, U)[r] = w[RunLength(r)]
    BY <2>3
  <2> HIDE DEF c, U
  <2> QED
    BY <2>1, <2>2, <2>6, <2>7, <2>8
<1> QED
  BY <1>2, <1>3 DEF HistogramOf

LEMMA EmptyHistogram == HistogramOf(EmptyBag, {})
<1>1. DOMAIN EmptyBag = {} /\ EmptyBag \in [{} -> Nat]
  BY DEF EmptyBag, SetToBag
<1>2. IsHistogram(EmptyBag)
  BY <1>1, FS_EmptySet DEF IsHistogram
<1>3. \A w : SumFunctionOnSet(Weighted(w, EmptyBag), {}) = 0
  BY SumEmpty
<1>4. \A w : SumFunctionOnSet(OverRuns(w, {}), {}) = 0
  BY SumEmpty
<1> QED
  BY <1>1, <1>2, <1>3, <1>4, FS_EmptySet DEF HistogramOf

LEMMA SumOnPart ==
  ASSUME NEW S, NEW f, Summable(f, S), NEW T \in SUBSET S, \A x \in S \ T : f[x] = 0
  PROVE  SumFunctionOnSet(f, S) = SumFunctionOnSet(f, T)
<1> DEFINE U == S \ T
<1>1. T \cup U = S /\ T \cap U = {} /\ U \in SUBSET S
  OBVIOUS
<1>2. Summable(f, T) /\ IsFiniteSet(U)
  BY <1>1, FS_Subset, SummablePart DEF Summable
<1>3. \A x \in U : f[x] = 0
  OBVIOUS
<1> HIDE DEF U
<1>4. SumFunctionOnSet(f, U) = 0
  BY <1>2, <1>3, SumOfZeros
<1>5. SumFunctionOnSet(f, S) = SumFunctionOnSet(f, T) + SumFunctionOnSet(f, U)
  <2>1. Summable(f, T \cup U)
    BY <1>1
  <2>2. SumFunctionOnSet(f, T \cup U) = SumFunctionOnSet(f, T) + SumFunctionOnSet(f, U)
    BY <1>1, <2>1, SumUnion
  <2> QED
    BY <1>1, <2>2
<1>6. SumFunctionOnSet(f, T) \in Int
  BY <1>2, SumType
<1> QED
  BY <1>4, <1>5, <1>6

LEMMA HistogramMean ==
  ASSUME NEW h, NEW S, HistogramOf(h, S)
  PROVE  /\ SumFunction([len \in DOMAIN h |-> len * h[len]]) = SumFunction([r \in S |-> RunLength(r)])
         /\ SumFunction(h) = Cardinality(S)
<1> DEFINE B == DOMAIN h
           id == [l \in Nat |-> l]
           ones == [l \in Nat |-> 1]
<1>1. h \in [B -> Nat] /\ B \in SUBSET Nat /\ IsFiniteSet(S) /\ \A r \in S : RunLength(r) \in Nat
  BY DEF HistogramOf, IsHistogram
<1>2. \A w \in [Nat -> Nat] : SumFunctionOnSet(Weighted(w, h), B) = SumFunctionOnSet(OverRuns(w, S), S)
  BY DEF HistogramOf
<1> HIDE DEF B
<1>3. SumFunction([len \in B |-> len * h[len]]) = SumFunction([r \in S |-> RunLength(r)])
  <2>1. id \in [Nat -> Nat]
    OBVIOUS
  <2>2. \A l \in B : id[l] = l
    BY <1>1
  <2>3. \A r \in S : id[RunLength(r)] = RunLength(r)
    BY <1>1
  <2> HIDE DEF id
  <2>4. Weighted(id, h) = [len \in B |-> len * h[len]]
    BY <2>2 DEF Weighted, B
  <2>5. OverRuns(id, S) = [r \in S |-> RunLength(r)]
    BY <2>3 DEF OverRuns
  <2>6. SumFunctionOnSet(Weighted(id, h), B) = SumFunctionOnSet(OverRuns(id, S), S)
    BY <1>2, <2>1
  <2> QED
    BY <2>4, <2>5, <2>6, Zenon DEF SumFunction
<1>4. SumFunction(h) = Cardinality(S)
  <2>1. ones \in [Nat -> Nat]
    OBVIOUS
  <2>2. \A l \in B : ones[l] * h[l] = h[l]
    <3> SUFFICES ASSUME NEW l \in B PROVE ones[l] * h[l] = h[l]
      OBVIOUS
    <3>1. ones[l] = 1 /\ h[l] \in Nat
      BY <1>1
    <3> QED
      BY <3>1
  <2>3. \A r \in S : ones[RunLength(r)] = 1
    BY <1>1
  <2> HIDE DEF ones
  <2>4. Weighted(ones, h) = [l \in B |-> h[l]]
    BY <2>2 DEF Weighted, B
  <2>5. h = [l \in B |-> h[l]]
    BY <1>1
  <2>6. IsConstant(OverRuns(ones, S), S, 1)
    BY <2>3 DEF OverRuns, IsConstant
  <2>7. SumFunctionOnSet(OverRuns(ones, S), S) = Cardinality(S) * 1
    <3>1. 1 \in Int
      OBVIOUS
    <3> QED
      BY <1>1, <2>6, <3>1, SumOfConstant
  <2>8. Cardinality(S) \in Nat
    BY <1>1, FS_CardinalityType
  <2>9. SumFunctionOnSet(Weighted(ones, h), B) = SumFunctionOnSet(OverRuns(ones, S), S)
    BY <1>2, <2>1
  <2>10. SumFunctionOnSet(h, B) = Cardinality(S)
    BY <2>4, <2>5, <2>7, <2>8, <2>9
  <2> QED
    BY <2>10, Zenon DEF SumFunction, B
<1> QED
  BY <1>3, <1>4 DEF B

LEMMA HistogramShort ==
  ASSUME NEW h, NEW S, HistogramOf(h, S)
  PROVE  SumFunctionOnSet(h, {len \in DOMAIN h : len < TAU})
           = Cardinality({r \in S : RunLength(r) < TAU})
<1> DEFINE B == DOMAIN h
           w == [l \in Nat |-> IF l < TAU THEN 1 ELSE 0]
           f == Weighted(w, h)
           g == OverRuns(w, S)
           few == {len \in B : len < TAU}
           runs == {r \in S : RunLength(r) < TAU}
<1>1. /\ IsHistogram(h) /\ h \in [B -> Nat] /\ B \in SUBSET Nat /\ IsFiniteSet(S) /\ IsFiniteSet(B)
      /\ \A r \in S : RunLength(r) \in Nat
  BY DEF HistogramOf, IsHistogram
<1>2. w \in [Nat -> Nat] /\ \A l \in Nat : w[l] = IF l < TAU THEN 1 ELSE 0
  OBVIOUS
<1> HIDE DEF w
<1>3. SumFunctionOnSet(f, B) = SumFunctionOnSet(g, S)
  BY <1>2 DEF HistogramOf
<1>4. Summable(f, B) /\ \A l \in B : f[l] = w[l] * h[l]
  BY <1>1, <1>2, WeightedSummable
<1>5. \A r \in S : g[r] = w[RunLength(r)]
  BY DEF OverRuns
<1> HIDE DEF f, g, B
<1>6. SumFunctionOnSet(f, B) = SumFunctionOnSet(h, few)
  <2>1. \A l \in B \ few : f[l] = 0
    <3> SUFFICES ASSUME NEW l \in B \ few PROVE f[l] = 0
      OBVIOUS
    <3>1. w[l] = 0 /\ h[l] \in Nat
      BY <1>1, <1>2
    <3>2. f[l] = 0 * h[l]
      BY <1>4, <3>1
    <3> QED
      BY <3>1, <3>2
  <2>2. \A l \in few : f[l] = h[l]
    <3> SUFFICES ASSUME NEW l \in few PROVE f[l] = h[l]
      OBVIOUS
    <3>1. w[l] = 1 /\ h[l] \in Nat
      BY <1>1, <1>2
    <3>2. f[l] = 1 * h[l]
      BY <1>4, <3>1
    <3> QED
      BY <3>1, <3>2
  <2>3. few \in SUBSET B
    OBVIOUS
  <2> HIDE DEF few
  <2>4. Summable(f, few)
    BY <1>4, <2>3, SummablePart
  <2>5. SumFunctionOnSet(f, B) = SumFunctionOnSet(f, few)
    BY <1>4, <2>1, <2>3, SumOnPart
  <2>6. SumFunctionOnSet(f, few) = SumFunctionOnSet(h, few)
    BY <2>2, <2>4, SumSame
  <2> QED
    BY <2>5, <2>6
<1>7. SumFunctionOnSet(g, S) = Cardinality(runs)
  <2>1. \A r \in S \ runs : g[r] = 0
    BY <1>1, <1>2, <1>5
  <2>2. IsConstant(g, runs, 1)
    BY <1>1, <1>2, <1>5 DEF IsConstant
  <2>3. Summable(g, S)
    <3>1. \A r \in S : g[r] \in Int
      BY <1>1, <1>2, <1>5
    <3> QED
      BY <1>1, <3>1 DEF Summable
  <2>4. runs \in SUBSET S
    OBVIOUS
  <2> HIDE DEF runs
  <2>5. IsFiniteSet(runs)
    BY <1>1, <2>4, FS_Subset
  <2>6. SumFunctionOnSet(g, S) = SumFunctionOnSet(g, runs)
    BY <2>1, <2>3, <2>4, SumOnPart
  <2>7. SumFunctionOnSet(g, runs) = Cardinality(runs) * 1
    <3>1. 1 \in Int
      OBVIOUS
    <3> QED
      BY <2>2, <2>5, <3>1, SumOfConstant
  <2>8. Cardinality(runs) \in Nat
    BY <2>5, FS_CardinalityType
  <2> QED
    BY <2>6, <2>7, <2>8
<1> QED
  BY <1>3, <1>6, <1>7 DEF B

-----------------------------------------------------------------------------
(***************************************************************************)
(* One pass over a bitmap.  The runs that end before position i are those  *)
(* that the pass has counted when it is at i.                              *)
(***************************************************************************)
RunsBefore(losses, lost, i) == {r \in Runs(losses, lost) : r[2] < i}

(* The run at i starts at a.                                               *)
Current(losses, lost, a, i) ==
  /\ a \in 1 .. i /\ \A k \in a .. i : losses[k] = lost
  /\ a = 1 \/ losses[a - 1] # lost

LEMMA RunsAreIn ==
  ASSUME NEW losses \in Bitmap, NEW lost
  PROVE  /\ IsFiniteSet(Runs(losses, lost))
         /\ \A r \in Runs(losses, lost) :
              /\ r[1] \in 1 .. Len(losses) /\ r[2] \in 1 .. Len(losses) /\ r[1] <= r[2]
              /\ r = <<r[1], r[2]>>
              /\ RunLength(r) \in Nat
<1> DEFINE n == Len(losses)
<1>1. n \in Nat /\ DOMAIN losses = 1 .. n
  BY DEF Bitmap
<1> HIDE DEF n
<1>2. Runs(losses, lost) \in SUBSET ((1 .. n) \X (1 .. n))
  BY <1>1 DEF Runs
<1>3. IsFiniteSet((1 .. n) \X (1 .. n))
  <2>1. IsFiniteSet(1 .. n)
    BY <1>1, FS_Interval
  <2> QED
    BY <2>1, FS_Product
<1>4. ASSUME NEW r \in Runs(losses, lost)
      PROVE  r[1] \in 1 .. n /\ r[2] \in 1 .. n /\ r[1] <= r[2] /\ r = <<r[1], r[2]>>
  <2>1. r \in (1 .. n) \X (1 .. n) /\ r[1] <= r[2]
    BY <1>1 DEF Runs
  <2> QED
    BY <2>1
<1>5. ASSUME NEW r \in Runs(losses, lost) PROVE RunLength(r) \in Nat
  BY <1>1, <1>4 DEF RunLength
<1> QED
  BY <1>2, <1>3, <1>4, <1>5, FS_Subset DEF n

(* A run that ends at i is counted ...                                     *)
LEMMA RunEnds ==
  ASSUME NEW losses \in Bitmap, NEW lost, NEW i \in 1 .. Len(losses),
         NEW a, Current(losses, lost, a, i), i = Len(losses) \/ losses[i + 1] # lost
  PROVE  /\ RunsBefore(losses, lost, i + 1) = RunsBefore(losses, lost, i) \cup {<<a, i>>}
         /\ <<a, i>> \notin RunsBefore(losses, lost, i)
         /\ RunLength(<<a, i>>) = (i + 1) - a /\ (i + 1) - a \in Nat
<1> DEFINE n == Len(losses)
           R == Runs(losses, lost)
           new == <<a, i>>
<1>1. n \in Nat /\ DOMAIN losses = 1 .. n /\ i \in 1 .. n /\ i \in Nat
  BY DEF Bitmap
<1>2. /\ a \in 1 .. i /\ \A k \in a .. i : losses[k] = lost
      /\ a = 1 \/ losses[a - 1] # lost
  BY DEF Current
<1>3. a \in 1 .. n /\ a <= i /\ a \in Nat
  <2>1. a \in 1 .. i
    BY <1>2
  <2>2. i \in 1 .. n /\ n \in Nat
    BY <1>1
  <2> HIDE DEF n
  <2> QED
    BY <2>1, <2>2
<1>4. new[1] = a /\ new[2] = i
  OBVIOUS
<1>5. new \in R
  <2>1. new \in (1 .. n) \X (1 .. n)
    BY <1>1, <1>3
  <2>2. i = n \/ losses[i + 1] # lost
    OBVIOUS
  <2> HIDE DEF n, new
  <2> QED
    BY <1>1, <1>2, <1>3, <1>4, <2>1, <2>2, Zenon DEF Runs, n
<1>6. ASSUME NEW r \in R, r[2] = i PROVE r = new
  <2>1. /\ r[1] \in 1 .. n /\ r[1] <= i /\ r = <<r[1], i>>
    BY <1>6, RunsAreIn
  <2>2. /\ \A k \in r[1] .. i : losses[k] = lost
        /\ r[1] = 1 \/ losses[r[1] - 1] # lost
    BY <1>6 DEF Runs
  <2>3. ~ (r[1] < a)
    <3> SUFFICES ASSUME r[1] < a PROVE FALSE
      OBVIOUS
    <3>1. a - 1 \in r[1] .. i /\ a # 1
      BY <1>1, <1>3, <2>1
    <3> QED
      BY <1>2, <2>2, <3>1
  <2>4. ~ (a < r[1])
    <3> SUFFICES ASSUME a < r[1] PROVE FALSE
      OBVIOUS
    <3>1. r[1] - 1 \in a .. i /\ r[1] # 1
      BY <1>1, <1>3, <2>1
    <3> QED
      BY <1>2, <2>2, <3>1
  <2>5. r[1] = a
    BY <1>1, <1>3, <2>1, <2>3, <2>4
  <2> QED
    BY <2>1, <2>5
<1>7. \A r \in R : r[2] < i + 1 <=> r[2] < i \/ r[2] = i
  <2>1. \A r \in R : r[2] \in Nat
    BY RunsAreIn
  <2>2. i \in Nat
    BY <1>1
  <2> HIDE DEF R
  <2> QED
    BY <2>1, <2>2
<1> HIDE DEF R, new
<1>8. RunsBefore(losses, lost, i + 1) = RunsBefore(losses, lost, i) \cup {new}
  BY <1>4, <1>5, <1>6, <1>7, Zenon DEF RunsBefore, R
<1>9. new \notin RunsBefore(losses, lost, i)
  <2>1. ~ (i < i)
    <3>1. i \in Nat
      BY <1>1
    <3> QED
      BY <3>1
  <2> QED
    BY <1>4, <2>1, Zenon DEF RunsBefore
<1>10. RunLength(new) = (i + 1) - a /\ (i + 1) - a \in Nat
  <2>1. i \in Nat /\ a \in Nat /\ a <= i
    BY <1>1, <1>3
  <2>2. RunLength(new) = i - a + 1
    BY <1>4, Zenon DEF RunLength
  <2>3. i - a + 1 = (i + 1) - a /\ (i + 1) - a \in Nat
    BY <2>1
  <2> QED
    BY <2>2, <2>3, Zenon
<1> QED
  BY <1>8, <1>9, <1>10 DEF new

(* ... and where no run ends, none is counted: at the beginning, after the *)
(* other value, and within a run.                                          *)
NoEnd(losses, lost, i) ==
  losses[i] = lost /\ i # 0 => i < Len(losses) /\ losses[i + 1] = lost

LEMMA NoRunEnds ==
  ASSUME NEW losses \in Bitmap, NEW lost, NEW i \in 0 .. Len(losses), NoEnd(losses, lost, i)
  PROVE  RunsBefore(losses, lost, i + 1) = RunsBefore(losses, lost, i)
<1> DEFINE R == Runs(losses, lost)
<1>1. Len(losses) \in Nat /\ i \in Nat
  BY DEF Bitmap
<1>2. \A r \in R : r[2] \in 1 .. Len(losses) /\ r[2] \in Nat /\ r[1] \in 1 .. Len(losses) /\ r[1] <= r[2]
  BY RunsAreIn
<1>3. ASSUME NEW r \in R, r[2] = i PROVE FALSE
  <2>1. i # 0
    BY <1>2, <1>3
  <2>2. r[2] \in r[1] .. r[2]
    BY <1>2
  <2>3. losses[i] = lost
    BY <1>3, <2>2 DEF Runs
  <2>4. i = Len(losses) \/ losses[i + 1] # lost
    BY <1>3 DEF Runs
  <2>5. i < Len(losses) /\ losses[i + 1] = lost
    BY <2>1, <2>3, Zenon DEF NoEnd
  <2> QED
    BY <1>1, <2>4, <2>5
<1>4. \A r \in R : r[2] < i + 1 <=> r[2] < i \/ r[2] = i
  <2> HIDE DEF R
  <2> QED
    BY <1>1, <1>2
<1> HIDE DEF R
<1> QED
  BY <1>3, <1>4, Zenon DEF RunsBefore, R

LEMMA CurrentGoesOn ==
  ASSUME NEW losses, NEW lost, NEW i \in Nat, NEW a, Current(losses, lost, a, i),
         losses[i + 1] = lost
  PROVE  Current(losses, lost, a, i + 1)
<1>1. a \in 1 .. i + 1 /\ \A k \in a .. i + 1 : k \in a .. i \/ k = i + 1
  <2>1. a \in 1 .. i
    BY DEF Current
  <2> QED
    BY <2>1
<1>2. \A k \in a .. i + 1 : losses[k] = lost
  BY <1>1 DEF Current
<1> QED
  BY <1>1, <1>2 DEF Current

LEMMA CurrentBegins ==
  ASSUME NEW losses, NEW lost, NEW i \in Nat, losses[i + 1] = lost,
         i = 0 \/ losses[i] # lost
  PROVE  Current(losses, lost, i + 1, i + 1)
<1>1. i + 1 \in 1 .. i + 1 /\ i + 1 .. i + 1 = {i + 1} /\ (i + 1) - 1 = i
  OBVIOUS
<1>2. i + 1 = 1 \/ losses[(i + 1) - 1] # lost
  BY <1>1
<1>3. \A k \in i + 1 .. i + 1 : losses[k] = lost
  BY <1>1
<1> QED
  BY <1>1, <1>2, <1>3 DEF Current

ScanOK(s, losses, i) ==
  /\ s.curr_burst = (i # 0 /\ losses[i] = TRUE)
  /\ s.curr_burst => Current(losses, TRUE, s.start, i)
  /\ ~ s.curr_burst => IF i = 0 THEN s.buffer_start = 1
                       ELSE Current(losses, FALSE, s.buffer_start, i)
  /\ HistogramOf(s.bursts, RunsBefore(losses, TRUE, i))
  /\ HistogramOf(s.guardspaces, RunsBefore(losses, FALSE, i))

LEMMA ScanStep ==
  ASSUME NEW losses \in Bitmap, NEW i \in Nat, i < Len(losses), NEW s, ScanOK(s, losses, i)
  PROVE  ScanOK(ScanLoss(s, losses[i + 1], i + 1), losses, i + 1)
<1> DEFINE j == i + 1
           loss == losses[j]
           t == ScanLoss(s, loss, j)
           ends == s.curr_burst /\ ~ loss
           starts == ~ s.curr_burst /\ loss
           counts == starts /\ j > s.buffer_start
           start == IF starts THEN j ELSE s.start
           buffer == IF ends THEN j ELSE s.buffer_start
           bursts == IF ends THEN Counted(s.bursts, j - s.start) ELSE s.bursts
           guards == IF counts THEN Counted(s.guardspaces, j - s.buffer_start) ELSE s.guardspaces
<1>1. /\ Len(losses) \in Nat /\ DOMAIN losses = 1 .. Len(losses)
      /\ \A k \in 1 .. Len(losses) : losses[k] \in BOOLEAN
  BY DEF Bitmap
<1>2. /\ j \in 1 .. Len(losses) /\ j \in Nat /\ j # 0 /\ i \in 0 .. Len(losses)
      /\ i # 0 => i \in 1 .. Len(losses)
  BY <1>1
<1>3. loss \in BOOLEAN /\ (i # 0 => losses[i] \in BOOLEAN)
  BY <1>1, <1>2
<1>4. t = [curr_burst |-> loss, start |-> start, buffer_start |-> buffer,
           bursts |-> bursts, guardspaces |-> guards]
  BY Zenon DEF ScanLoss
<1> HIDE DEF t, start, buffer, bursts, guards
<1>5. /\ t.curr_burst = loss /\ t.start = start /\ t.buffer_start = buffer
      /\ t.bursts = bursts /\ t.guardspaces = guards
  BY <1>4
<1>6. t.curr_burst = (j # 0 /\ losses[j] = TRUE)
  <2>1. CASE loss = TRUE
    <3>1. (j # 0 /\ losses[j] = TRUE) = TRUE
      BY <1>2, <2>1
    <3> QED
      BY <1>5, <2>1, <3>1, Zenon
  <2>2. CASE loss = FALSE
    <3>1. (j # 0 /\ losses[j] = TRUE) = FALSE
      BY <2>2
    <3> QED
      BY <1>5, <2>2, <3>1, Zenon
  <2> QED
    BY <1>3, <2>1, <2>2, Zenon
<1>7. HistogramOf(s.bursts, RunsBefore(losses, TRUE, i))
      /\ HistogramOf(s.guardspaces, RunsBefore(losses, FALSE, i))
  BY DEF ScanOK
<1>8. CASE s.curr_burst /\ loss
  <2>1. i # 0 /\ losses[i] = TRUE /\ losses[i + 1] = TRUE /\ Current(losses, TRUE, s.start, i)
    BY <1>3, <1>8, Zenon DEF ScanOK
  <2>2. ~ ends /\ ~ starts /\ ~ counts
    BY <1>8, Zenon
  <2>3. start = s.start /\ bursts = s.bursts /\ guards = s.guardspaces
    BY <2>2, Zenon DEF start, bursts, guards
  <2>4. Current(losses, TRUE, s.start, j)
    BY <2>1, CurrentGoesOn
  <2>5. losses[i] # FALSE /\ i < Len(losses)
    BY <2>1
  <2>6. /\ RunsBefore(losses, TRUE, j) = RunsBefore(losses, TRUE, i)
        /\ RunsBefore(losses, FALSE, j) = RunsBefore(losses, FALSE, i)
    <3>1. NoEnd(losses, TRUE, i) /\ NoEnd(losses, FALSE, i)
      BY <2>1, <2>5, Zenon DEF NoEnd
    <3> QED
      BY <1>2, <3>1, NoRunEnds
  <2> QED
    BY <1>5, <1>6, <1>7, <1>8, <2>3, <2>4, <2>6, Zenon DEF ScanOK, t, j, loss
<1>9. CASE s.curr_burst /\ ~ loss
  <2>1. i # 0 /\ losses[i] = TRUE /\ losses[i + 1] = FALSE /\ Current(losses, TRUE, s.start, i)
    BY <1>3, <1>9, Zenon DEF ScanOK
  <2>2. ends /\ ~ starts /\ ~ counts
    BY <1>9, Zenon
  <2>3. buffer = j /\ bursts = Counted(s.bursts, j - s.start) /\ guards = s.guardspaces
    BY <2>2, Zenon DEF buffer, bursts, guards
  <2>4. losses[i] # FALSE /\ losses[i + 1] # TRUE /\ i \in 1 .. Len(losses)
    <3>1. losses[i] # FALSE /\ losses[i + 1] # TRUE /\ i # 0
      BY <2>1
    <3> QED
      BY <1>2, <3>1, Zenon
  <2>5. Current(losses, FALSE, j, j)
    BY <2>1, <2>4, CurrentBegins
  <2>6. RunsBefore(losses, FALSE, j) = RunsBefore(losses, FALSE, i)
    <3>1. NoEnd(losses, FALSE, i)
      BY <2>4, Zenon DEF NoEnd
    <3> QED
      BY <1>2, <3>1, NoRunEnds
  <2> DEFINE r == <<s.start, i>>
  <2>7. /\ RunsBefore(losses, TRUE, j) = RunsBefore(losses, TRUE, i) \cup {r}
        /\ r \notin RunsBefore(losses, TRUE, i)
        /\ RunLength(r) = j - s.start /\ j - s.start \in Nat
    BY <2>1, <2>4, RunEnds
  <2> HIDE DEF r
  <2>8. HistogramOf(bursts, RunsBefore(losses, TRUE, j))
    <3>1. RunLength(r) \in Nat
      BY <2>7
    <3>2. HistogramOf(Counted(s.bursts, RunLength(r)), RunsBefore(losses, TRUE, i) \cup {r})
      BY <1>7, <2>7, <3>1, HistogramGrows
    <3> QED
      BY <2>3, <2>7, <3>2, Zenon
  <2>9. j # 0
    BY <1>2
  <2> QED
    BY <1>5, <1>6, <1>7, <1>9, <2>3, <2>5, <2>6, <2>8, <2>9, Zenon DEF ScanOK, t, j, loss
<1>10. CASE ~ s.curr_burst /\ loss
  <2>1. (i = 0 \/ losses[i] = FALSE) /\ losses[i + 1] = TRUE
    BY <1>3, <1>10, Zenon DEF ScanOK
  <2>2. ~ ends /\ starts
    BY <1>10, Zenon
  <2>3. start = j /\ bursts = s.bursts
    BY <2>2, Zenon DEF start, bursts
  <2>4. (i = 0 \/ losses[i] # TRUE) /\ losses[i + 1] # FALSE
    BY <2>1
  <2>5. Current(losses, TRUE, j, j)
    BY <2>1, <2>4, CurrentBegins
  <2>6. RunsBefore(losses, TRUE, j) = RunsBefore(losses, TRUE, i)
    <3>1. NoEnd(losses, TRUE, i)
      BY <2>4, Zenon DEF NoEnd
    <3> QED
      BY <1>2, <3>1, NoRunEnds
  <2>7. HistogramOf(guards, RunsBefore(losses, FALSE, j))
    <3>1. CASE i = 0
      <4>1. s.buffer_start = 1 /\ j = 1
        BY <1>10, <3>1 DEF ScanOK
      <4>2. ~ counts
        BY <4>1
      <4>3. guards = s.guardspaces
        BY <4>2, Zenon DEF guards
      <4>4. RunsBefore(losses, FALSE, j) = RunsBefore(losses, FALSE, i)
        <5>1. NoEnd(losses, FALSE, i)
          BY <3>1, Zenon DEF NoEnd
        <5> QED
          BY <1>2, <5>1, NoRunEnds
      <4> QED
        BY <1>7, <4>3, <4>4, Zenon
    <3>2. CASE i # 0
      <4> DEFINE b == s.buffer_start
                 r == <<b, i>>
      <4>1. Current(losses, FALSE, b, i) /\ i \in 1 .. Len(losses)
        <5>1. i \in 1 .. Len(losses)
          BY <1>2, <3>2, Zenon
        <5>2. ~ s.curr_burst
          BY <1>10
        <5>3. Current(losses, FALSE, b, i)
          BY <3>2, <5>2, Zenon DEF ScanOK
        <5> QED
          BY <5>1, <5>3
      <4>2. /\ RunsBefore(losses, FALSE, j) = RunsBefore(losses, FALSE, i) \cup {r}
            /\ r \notin RunsBefore(losses, FALSE, i)
            /\ RunLength(r) = j - b /\ j - b \in Nat
        BY <2>4, <4>1, RunEnds
      <4>3. b \in 1 .. i
        BY <4>1 DEF Current
      <4>4. j > b
        BY <4>3
      <4>5. counts
        BY <2>2, <4>4, Zenon
      <4>6. guards = Counted(s.guardspaces, j - b)
        BY <4>5, Zenon DEF guards
      <4> HIDE DEF r, b
      <4>7. RunLength(r) \in Nat
        BY <4>2
      <4>8. HistogramOf(Counted(s.guardspaces, RunLength(r)), RunsBefore(losses, FALSE, i) \cup {r})
        BY <1>7, <4>2, <4>7, HistogramGrows
      <4> QED
        BY <4>2, <4>6, <4>8, Zenon
    <3> QED
      BY <3>1, <3>2
  <2> QED
    BY <1>5, <1>6, <1>7, <1>10, <2>3, <2>5, <2>6, <2>7, Zenon DEF ScanOK, t, j, loss
<1>11. CASE ~ s.curr_burst /\ ~ loss
  <2>1. (i = 0 \/ losses[i] = FALSE) /\ losses[i + 1] = FALSE
    BY <1>3, <1>11, Zenon DEF ScanOK
  <2>2. ~ ends /\ ~ starts /\ ~ counts
    BY <1>11, Zenon
  <2>3. buffer = s.buffer_start /\ bursts = s.bursts /\ guards = s.guardspaces
    BY <2>2, Zenon DEF buffer, bursts, guards
  <2>4. i = 0 \/ losses[i] # TRUE
    BY <2>1
  <2>5. Current(losses, FALSE, s.buffer_start, j)
    <3>1. CASE i = 0
      <4>1. s.buffer_start = 1 /\ j = 1
        BY <1>11, <3>1 DEF ScanOK
      <4>2. Current(losses, FALSE, i + 1, i + 1)
        BY <2>1, <3>1, CurrentBegins
      <4> QED
        BY <4>1, <4>2
    <3>2. CASE i # 0
      <4>1. Current(losses, FALSE, s.buffer_start, i)
        BY <1>11, <3>2 DEF ScanOK
      <4> QED
        BY <2>1, <4>1, CurrentGoesOn
    <3> QED
      BY <3>1, <3>2
  <2>6. RunsBefore(losses, TRUE, j) = RunsBefore(losses, TRUE, i)
    <3>1. NoEnd(losses, TRUE, i)
      BY <2>4, Zenon DEF NoEnd
    <3> QED
      BY <1>2, <3>1, NoRunEnds
  <2>7. RunsBefore(losses, FALSE, j) = RunsBefore(losses, FALSE, i)
    <3>1. NoEnd(losses, FALSE, i)
      <4>1. i < Len(losses)
        OBVIOUS
      <4> QED
        BY <2>1, <4>1, Zenon DEF NoEnd
    <3> QED
      BY <1>2, <3>1, NoRunEnds
  <2>8. j # 0
    BY <1>2
  <2> QED
    BY <1>5, <1>6, <1>7, <1>11, <2>3, <2>5, <2>6, <2>7, <2>8, Zenon DEF ScanOK, t, j, loss
<1>12. s.curr_burst \in BOOLEAN
  BY DEF ScanOK
<1> QED
  BY <1>3, <1>8, <1>9, <1>10, <1>11, <1>12, Zenon

Histograms == UNION {[B -> Nat] : B \in SUBSET Int}

Scans == [curr_burst : BOOLEAN, start : Int, buffer_start : Int,
          bursts : Histograms, guardspaces : Histograms]

LEMMA CountedType ==
  ASSUME NEW h \in Histograms, NEW len \in Int
  PROVE  Counted(h, len) \in Histograms
<1> DEFINE B == DOMAIN h
           one == SetToBag({len})
           c == Counted(h, len)
<1>1. h \in [B -> Nat] /\ B \in SUBSET Int
  BY DEF Histograms
<1>2. one = [e \in {len} |-> 1]
  BY DEF SetToBag
<1>3. c = [e \in B \cup {len} |-> (IF e \in B THEN h[e] ELSE 0) + (IF e \in {len} THEN one[e] ELSE 0)]
  BY <1>2 DEF Counted, (+)
<1> HIDE DEF c, one, B
<1>4. \A e \in {len} : one[e] = 1
  BY <1>2
<1>5. \A e \in B \cup {len} :
        (IF e \in B THEN h[e] ELSE 0) + (IF e \in {len} THEN one[e] ELSE 0) \in Nat
  BY <1>1, <1>4
<1>6. c \in [B \cup {len} -> Nat]
  BY <1>3, <1>5
<1>7. B \cup {len} \in SUBSET Int
  BY <1>1
<1> QED
  BY <1>6, <1>7 DEF c, Histograms

LEMMA ScanType ==
  ASSUME NEW s \in Scans, NEW loss \in BOOLEAN, NEW i \in Nat
  PROVE  ScanLoss(s, loss, i) \in Scans
<1>1. /\ s.curr_burst \in BOOLEAN /\ s.start \in Int /\ s.buffer_start \in Int
      /\ s.bursts \in Histograms /\ s.guardspaces \in Histograms
  BY DEF Scans
<1>2. i - s.start \in Int /\ i - s.buffer_start \in Int /\ i \in Int
  BY <1>1
<1>3. /\ Counted(s.bursts, i - s.start) \in Histograms
      /\ Counted(s.guardspaces, i - s.buffer_start) \in Histograms
  BY <1>1, <1>2, CountedType
<1> QED
  BY <1>1, <1>2, <1>3, Zenon DEF ScanLoss, Scans

(* The pass ends as ScanOK says.                                           *)
LEMMA ScannedOK ==
  ASSUME NEW losses \in Bitmap
  PROVE  ScanOK(Scanned(losses), losses, Len(losses))
<1> DEFINE n == Len(losses)
           base == [curr_burst |-> FALSE, start |-> 1, buffer_start |-> 1,
                    bursts |-> EmptyBag, guardspaces |-> EmptyBag]
           scan[i \in 0 .. n] ==
             IF i = 0 THEN [curr_burst |-> FALSE, start |-> 1, buffer_start |-> 1,
                            bursts |-> EmptyBag, guardspaces |-> EmptyBag]
             ELSE ScanLoss(scan[i - 1], losses[i], i)
           Step == [x \in (1 .. n) \X Scans |-> ScanLoss(x[2], losses[x[1]], x[1])]
           Good == {i \in 0 .. n : ScanOK(scan[i], losses, i)}
<1>1. n \in Nat /\ \A k \in 1 .. n : losses[k] \in BOOLEAN /\ k \in Nat
  BY DEF Bitmap
<1>2. base \in Scans
  <2>1. EmptyBag \in Histograms
    <3>1. EmptyBag \in [{} -> Nat]
      BY DEF EmptyBag, SetToBag
    <3> QED
      BY <3>1 DEF Histograms
  <2> QED
    BY <2>1 DEF Scans
<1>3. \A i \in 1 .. n, x \in Scans :
        Step[<<i, x>>] = ScanLoss(x, losses[i], i) /\ Step[<<i, x>>] \in Scans
  <2> SUFFICES ASSUME NEW i \in 1 .. n, NEW x \in Scans
               PROVE  Step[<<i, x>>] = ScanLoss(x, losses[i], i) /\ Step[<<i, x>>] \in Scans
    BY Zenon
  <2>1. Step[<<i, x>>] = ScanLoss(x, losses[i], i)
    OBVIOUS
  <2>2. ScanLoss(x, losses[i], i) \in Scans
    BY <1>1, ScanType
  <2> QED
    BY <2>1, <2>2, Zenon
<1>4. \E h \in [0 .. n -> Scans] : Follows(h, n, base, Step)
  <2> HIDE DEF base, Step, Good, scan, n
  <2>1. StepsStayIn(n, Scans, Step)
    BY <1>3 DEF StepsStayIn
  <2> QED
    BY <1>1, <1>2, <2>1, RecursionExists
<1>5. PICK h \in [0 .. n -> Scans] :
        h[0] = base /\ \A i \in 1 .. n : h[i] = ScanLoss(h[i - 1], losses[i], i)
  <2>1. \A i \in 1 .. n : i - 1 \in 0 .. n
    BY <1>1
  <2> HIDE DEF base, Step, n
  <2> QED
    BY <1>3, <1>4, <2>1 DEF Follows
<1>6. h = [i \in 0 .. n |-> IF i = 0 THEN base ELSE ScanLoss(h[i - 1], losses[i], i)]
  <2> HIDE DEF base
  <2> QED
    BY <1>1, <1>5
<1>7. scan = [i \in 0 .. n |-> IF i = 0 THEN base ELSE ScanLoss(scan[i - 1], losses[i], i)]
  BY <1>6
<1>8. Scanned(losses) = scan[n]
  BY Zenon DEF Scanned
<1> HIDE DEF scan
<1>9. scan[0] = base
  <2> HIDE DEF base
  <2> QED
    BY <1>1, <1>7
<1>10. 0 \in Good
  <2>1. RunsBefore(losses, TRUE, 0) = {} /\ RunsBefore(losses, FALSE, 0) = {}
    <3>1. \A lost : \A r \in Runs(losses, lost) : r[2] \in 1 .. n
      BY RunsAreIn
    <3>2. \A k \in 1 .. n : ~ (k < 0)
      BY <1>1
    <3> QED
      BY <3>1, <3>2 DEF RunsBefore
  <2>2. /\ base.curr_burst = FALSE /\ base.buffer_start = 1
        /\ base.bursts = EmptyBag /\ base.guardspaces = EmptyBag
    OBVIOUS
  <2>3. (0 # 0 /\ losses[0] = TRUE) = FALSE
    OBVIOUS
  <2> HIDE DEF base
  <2>4. ScanOK(base, losses, 0)
    BY <2>1, <2>2, <2>3, EmptyHistogram, Zenon DEF ScanOK
  <2>5. 0 \in 0 .. n
    BY <1>1
  <2> QED
    BY <1>9, <2>4, <2>5, Zenon
<1> HIDE DEF base
<1>11. \A i \in 0 .. n - 1 : i \in Good => i + 1 \in Good
  <2> SUFFICES ASSUME NEW i \in 0 .. n - 1, ScanOK(scan[i], losses, i)
               PROVE  i + 1 \in 0 .. n /\ ScanOK(scan[i + 1], losses, i + 1)
    BY Zenon
  <2>1. i + 1 \in 0 .. n /\ i + 1 # 0 /\ (i + 1) - 1 = i /\ i \in Nat /\ i < Len(losses)
    BY <1>1
  <2>2. scan[i + 1] = ScanLoss(scan[i], losses[i + 1], i + 1)
    <3> HIDE DEF n
    <3> QED
      BY <1>7, <2>1
  <2>3. ScanOK(ScanLoss(scan[i], losses[i + 1], i + 1), losses, i + 1)
    BY <2>1, ScanStep
  <2> QED
    BY <2>1, <2>2, <2>3, Zenon
<1>12. n \in Good
  <2>1. n \in 0 .. n
    BY <1>1
  <2> HIDE DEF Good, n
  <2> QED
    BY <1>1, <1>10, <1>11, <2>1, CountUp
<1> QED
  BY <1>8, <1>12, Zenon

(* The last run, and all of them.                                          *)
LEMMA HistogramsFound ==
  ASSUME NEW losses \in Bitmap
  PROVE  /\ HistogramOf(get_bursts_and_guardspaces(losses).bursts, Runs(losses, TRUE))
         /\ HistogramOf(get_bursts_and_guardspaces(losses).guardspaces, Runs(losses, FALSE))
<1> DEFINE n == Len(losses)
           s == Scanned(losses)
           found == get_bursts_and_guardspaces(losses)
<1>1. n \in Nat
  BY DEF Bitmap
<1>2. ScanOK(s, losses, n)
  BY ScannedOK
<1>3. \A lost : RunsBefore(losses, lost, n + 1) = Runs(losses, lost)
  <2> SUFFICES ASSUME NEW lost PROVE RunsBefore(losses, lost, n + 1) = Runs(losses, lost)
    OBVIOUS
  <2>1. \A r \in Runs(losses, lost) : r[2] \in 1 .. n
    BY RunsAreIn
  <2>2. \A k \in 1 .. n : k < n + 1
    BY <1>1
  <2> QED
    BY <2>1, <2>2, Zenon DEF RunsBefore
<1>4. /\ HistogramOf(s.bursts, RunsBefore(losses, TRUE, n))
      /\ HistogramOf(s.guardspaces, RunsBefore(losses, FALSE, n))
      /\ s.curr_burst = (n # 0 /\ losses[n] = TRUE)
      /\ s.curr_burst => Current(losses, TRUE, s.start, n)
      /\ ~ s.curr_burst => IF n = 0 THEN s.buffer_start = 1
                           ELSE Current(losses, FALSE, s.buffer_start, n)
  BY <1>2, Zenon DEF ScanOK
<1>5. CASE losses = <<>>
  <2>1. found = [bursts |-> EmptyBag, guardspaces |-> EmptyBag]
    BY <1>5 DEF get_bursts_and_guardspaces
  <2>2. \A lost : Runs(losses, lost) = {}
    BY <1>5 DEF Runs
  <2>3. found.bursts = EmptyBag /\ found.guardspaces = EmptyBag
    BY <2>1
  <2> QED
    BY <2>2, <2>3, EmptyHistogram, Zenon
<1>6. CASE losses # <<>> /\ s.curr_burst
  <2>1. found = [bursts |-> Counted(s.bursts, (n + 1) - s.start), guardspaces |-> s.guardspaces]
    BY <1>6, Zenon DEF get_bursts_and_guardspaces
  <2>2. n # 0 /\ losses[n] = TRUE /\ Current(losses, TRUE, s.start, n)
    BY <1>4, <1>6, Zenon
  <2>3. n \in 1 .. n /\ n \in 0 .. n
    BY <1>1, <2>2
  <2> DEFINE r == <<s.start, n>>
  <2>4. /\ RunsBefore(losses, TRUE, n + 1) = RunsBefore(losses, TRUE, n) \cup {r}
        /\ r \notin RunsBefore(losses, TRUE, n)
        /\ RunLength(r) = (n + 1) - s.start /\ (n + 1) - s.start \in Nat
    BY <2>2, <2>3, RunEnds
  <2>5. RunsBefore(losses, FALSE, n + 1) = RunsBefore(losses, FALSE, n)
    <3>1. NoEnd(losses, FALSE, n)
      BY <2>2, Zenon DEF NoEnd
    <3> QED
      BY <2>3, <3>1, NoRunEnds
  <2>6. HistogramOf(Counted(s.bursts, RunLength(r)), RunsBefore(losses, TRUE, n) \cup {r})
    <3> HIDE DEF r
    <3> QED
      BY <1>4, <2>4, HistogramGrows
  <2>7. HistogramOf(Counted(s.bursts, (n + 1) - s.start), Runs(losses, TRUE))
    BY <1>3, <2>4, <2>6, Zenon
  <2>8. found.bursts = Counted(s.bursts, (n + 1) - s.start) /\ found.guardspaces = s.guardspaces
    BY <2>1
  <2> QED
    BY <1>3, <1>4, <2>5, <2>7, <2>8, Zenon
<1>7. CASE losses # <<>> /\ ~ s.curr_burst
  <2>1. found = [bursts |-> s.bursts, guardspaces |-> Counted(s.guardspaces, (n + 1) - s.buffer_start)]
    BY <1>7, Zenon DEF get_bursts_and_guardspaces
  <2>2. n # 0
    BY <1>7 DEF Bitmap
  <2>3. n \in 1 .. n /\ n \in 0 .. n
    BY <1>1, <2>2
  <2>4. losses[n] # TRUE /\ Current(losses, FALSE, s.buffer_start, n)
    BY <1>4, <1>7, <2>2, Zenon
  <2> DEFINE r == <<s.buffer_start, n>>
  <2>5. /\ RunsBefore(losses, FALSE, n + 1) = RunsBefore(losses, FALSE, n) \cup {r}
        /\ r \notin RunsBefore(losses, FALSE, n)
        /\ RunLength(r) = (n + 1) - s.buffer_start /\ (n + 1) - s.buffer_start \in Nat
    BY <2>3, <2>4, RunEnds
  <2>6. RunsBefore(losses, TRUE, n + 1) = RunsBefore(losses, TRUE, n)
    <3>1. NoEnd(losses, TRUE, n)
      BY <2>4, Zenon DEF NoEnd
    <3> QED
      BY <2>3, <3>1, NoRunEnds
  <2>7. HistogramOf(Counted(s.guardspaces, RunLength(r)), RunsBefore(losses, FALSE, n) \cup {r})
    <3> HIDE DEF r
    <3> QED
      BY <1>4, <2>5, HistogramGrows
  <2>8. HistogramOf(Counted(s.guardspaces, (n + 1) - s.buffer_start), Runs(losses, FALSE))
    BY <1>3, <2>5, <2>7, Zenon
  <2>9. found.guardspaces = Counted(s.guardspaces, (n + 1) - s.buffer_start) /\ found.bursts = s.bursts
    BY <2>1
  <2> QED
    BY <1>3, <1>4, <2>6, <2>8, <2>9, Zenon
<1> QED
  BY <1>5, <1>6, <1>7, Zenon

(* The measures of a bitmap.                                               *)
RunsMeasured(losses) ==
  LET found == get_bursts_and_guardspaces(losses)
      good == Runs(losses, FALSE)
  IN  /\ SameRatio(compute_mean_length(found.bursts), MeanOf(Runs(losses, TRUE)))
      /\ SameRatio(compute_mean_length(found.guardspaces), MeanOf(good))
      /\ SameRatio(compute_multi_frame_insufficient_guardspace(found.guardspaces),
                   [lost |-> Cardinality({r \in good : RunLength(r) < TAU}),
                    of |-> Max({Cardinality(good), 1})])

LEMMA MeasuresOfBitmap ==
  ASSUME NEW losses \in Bitmap
  PROVE  RunsMeasured(losses)
<1> DEFINE found == get_bursts_and_guardspaces(losses)
           bad == Runs(losses, TRUE)
           good == Runs(losses, FALSE)
<1>1. HistogramOf(found.bursts, bad) /\ HistogramOf(found.guardspaces, good)
  BY HistogramsFound
<1> HIDE DEF found, bad, good
<1>2. compute_mean_length(found.bursts) = MeanOf(bad)
  <2>1. /\ SumFunction([len \in DOMAIN found.bursts |-> len * found.bursts[len]])
             = SumFunction([r \in bad |-> RunLength(r)])
        /\ SumFunction(found.bursts) = Cardinality(bad)
    BY <1>1, HistogramMean
  <2> QED
    BY <2>1, Zenon DEF compute_mean_length, MeanOf
<1>3. compute_mean_length(found.guardspaces) = MeanOf(good)
  <2>1. /\ SumFunction([len \in DOMAIN found.guardspaces |-> len * found.guardspaces[len]])
             = SumFunction([r \in good |-> RunLength(r)])
        /\ SumFunction(found.guardspaces) = Cardinality(good)
    BY <1>1, HistogramMean
  <2> QED
    BY <2>1, Zenon DEF compute_mean_length, MeanOf
<1>4. compute_multi_frame_insufficient_guardspace(found.guardspaces)
        = [lost |-> Cardinality({r \in good : RunLength(r) < TAU}), of |-> Max({Cardinality(good), 1})]
  <2>1. SumFunctionOnSet(found.guardspaces, {len \in DOMAIN found.guardspaces : len < TAU})
          = Cardinality({r \in good : RunLength(r) < TAU})
    BY <1>1, HistogramShort
  <2>2. SumFunction(found.guardspaces) = Cardinality(good)
    BY <1>1, HistogramMean
  <2> QED
    BY <2>1, <2>2, Zenon DEF compute_multi_frame_insufficient_guardspace
<1>5. \A x, y : x = y => SameRatio(x, y)
  BY Zenon DEF SameRatio
<1> QED
  BY <1>2, <1>3, <1>4, <1>5, Zenon DEF RunsMeasured, found, bad, good

LEMMA CollectedBitmaps ==
  ASSUME Collected
  PROVE  info.packet_losses \in Bitmap /\ info.frame_losses \in Bitmap
<1> DEFINE n == Len(feedback_frames)
<1>1. /\ feedback_frames \in Seq(PurgedFrames) /\ n \in Nat
      /\ \A p \in 1 .. n : feedback_frames[p] \in PurgedFrames
  BY DEF Collected
<1>2. PICK begin : InfoOf(info, feedback_frames, begin)
  BY <1>1, FrameMarks, LossInfo DEF info
<1>3. info.packet_losses \in Bitmap
  BY <1>2 DEF InfoOf, Assembled
<1>4. info.frame_losses \in Bitmap
  <2>1. info.frame_losses = [k \in 1 .. n |-> frame_loss(feedback_frames[k])]
    BY <1>2 DEF InfoOf
  <2>2. \A f : frame_loss(f) \in BOOLEAN
    BY DEF frame_loss
  <2>3. info.frame_losses \in [1 .. n -> BOOLEAN]
    BY <2>1, <2>2
  <2> QED
    BY <1>1, <2>3 DEF Bitmap
<1> QED
  BY <1>3, <1>4

LEMMA CollectedIsMeasured ==
  ASSUME Collected
  PROVE  HistogramsAreRuns
<1>1. RunsMeasured(info.packet_losses) /\ RunsMeasured(info.frame_losses)
  BY CollectedBitmaps, MeasuresOfBitmap
<1>2. \A losses \in {info.packet_losses, info.frame_losses} : RunsMeasured(losses)
  BY <1>1
<1> QED
  BY <1>2, Zenon DEF HistogramsAreRuns, RunsMeasured

(***************************************************************************)
(* THEOREM.  The one pass of get_bursts_and_guardspaces over a bitmap of   *)
(* any length, of packets or of frames, counts each maximal run of losses  *)
(* and of receptions once, under its own length, the runs at both ends of  *)
(* the bitmap included: the mean lengths and the share of short guard      *)
(* spaces the report gives are those of the runs.                          *)
(***************************************************************************)
THEOREM HistogramsAreRunsAlways == ReportSpec => []HistogramsAreRuns
<1>1. Collected => HistogramsAreRuns
  BY CollectedIsMeasured
<1> QED
  BY <1>1, CollectedAlways, PTL

-----------------------------------------------------------------------------
(***************************************************************************)
(* The bursts of RFC 3611.  L is the set of the losses among 1 .. n.  A    *)
(* cluster is a burst, or a single loss with no other near it.             *)
(***************************************************************************)
Near(L, g, a, b) == \A k \in L : k \in a .. b - 1 => \E m \in L : m \in k + 1 .. k + g

Clusters(L, g, p) ==
  {r \in L \X L :
     /\ r[1] <= r[2] /\ p <= r[1] /\ Near(L, g, r[1], r[2])
     /\ ~ \E k \in L : k \in r[1] - g .. r[1] - 1
     /\ ~ \E k \in L : k \in r[2] + 1 .. r[2] + g}

(* No g positions in a row from p to e are without a loss, those after e   *)
(* are.                                                                    *)
EndsAt(L, g, p, e) ==
  /\ e \in Nat /\ p <= e
  /\ \A j \in p .. e : \E k \in L : k \in j .. (j + g) - 1
  /\ ~ \E k \in L : k \in e + 1 .. e + g

(* No cluster reaches over the position before p.                          *)
Closed(L, g, p) == \A k, m \in L : k < p /\ p <= m => k + g < m

LEMMA EndIsLost ==
  ASSUME NEW L \in SUBSET Nat, NEW g \in Nat, g >= 1, NEW p \in Nat, NEW e, EndsAt(L, g, p, e)
  PROVE  e \in L
<1>1. e \in Nat /\ e \in p .. e
  BY DEF EndsAt
<1>2. PICK k \in L : k \in e .. (e + g) - 1
  BY <1>1 DEF EndsAt
<1>3. k \notin e + 1 .. e + g
  BY DEF EndsAt
<1>4. k = e
  BY <1>1, <1>2, <1>3
<1> QED
  BY <1>4

LEMMA ClusterAt ==
  ASSUME NEW L \in SUBSET Nat, NEW g \in Nat, g >= 1, NEW p \in L, NEW e,
         EndsAt(L, g, p, e), Closed(L, g, p)
  PROVE  <<p, e>> \in Clusters(L, g, p) /\ Closed(L, g, e + 1)
<1>1. /\ p \in Nat /\ e \in Nat /\ p <= e
      /\ \A j \in p .. e : \E k \in L : k \in j .. (j + g) - 1
      /\ ~ \E k \in L : k \in e + 1 .. e + g
  BY DEF EndsAt
<1>2. e \in L
  BY <1>1, EndIsLost
<1>3. Near(L, g, p, e)
  <2> SUFFICES ASSUME NEW k \in L, k \in p .. e - 1
               PROVE  \E m \in L : m \in k + 1 .. k + g
    BY DEF Near
  <2>1. k + 1 \in p .. e /\ k + 1 .. ((k + 1) + g) - 1 = k + 1 .. k + g
    BY <1>1
  <2> QED
    BY <1>1, <2>1
<1>4. ~ \E k \in L : k \in p - g .. p - 1
  <2> SUFFICES ASSUME NEW k \in L, k \in p - g .. p - 1 PROVE FALSE
    OBVIOUS
  <2>1. k < p /\ p <= p /\ ~ (k + g < p)
    BY <1>1
  <2> QED
    BY <2>1 DEF Closed
<1>5. <<p, e>>[1] = p /\ <<p, e>>[2] = e /\ <<p, e>> \in L \X L /\ p <= p
  BY <1>1, <1>2
<1>6. <<p, e>> \in Clusters(L, g, p)
  BY <1>1, <1>3, <1>4, <1>5, Zenon DEF Clusters
<1>7. Closed(L, g, e + 1)
  <2> SUFFICES ASSUME NEW k \in L, NEW m \in L, k < e + 1, e + 1 <= m PROVE k + g < m
    BY DEF Closed
  <2>1. m \notin e + 1 .. e + g
    BY <1>1
  <2>2. k \in Nat /\ m \in Nat
    OBVIOUS
  <2> QED
    BY <1>1, <2>1, <2>2
<1> QED
  BY <1>6, <1>7

(* The cluster that begins with the loss at p is the only one up to e.     *)
LEMMA FirstCluster ==
  ASSUME NEW L \in SUBSET Nat, NEW g \in Nat, g >= 1, NEW p \in L, NEW e,
         EndsAt(L, g, p, e), Closed(L, g, p)
  PROVE  Clusters(L, g, p) = Clusters(L, g, e + 1) \cup {<<p, e>>}
<1>1. /\ p \in Nat /\ e \in Nat /\ p <= e
      /\ \A j \in p .. e : \E k \in L : k \in j .. (j + g) - 1
      /\ ~ \E k \in L : k \in e + 1 .. e + g
  BY DEF EndsAt
<1>2. <<p, e>> \in Clusters(L, g, p) /\ e \in L /\ Near(L, g, p, e)
  <2>1. <<p, e>> \in Clusters(L, g, p)
    BY ClusterAt
  <2> QED
    BY <2>1 DEF Clusters
<1>3. ASSUME NEW r \in Clusters(L, g, p), r # <<p, e>> PROVE r \in Clusters(L, g, e + 1)
  <2>1. /\ r \in L \X L /\ r[1] \in L /\ r[2] \in L /\ r[1] \in Nat /\ r[2] \in Nat
        /\ r = <<r[1], r[2]>>
        /\ r[1] <= r[2] /\ p <= r[1] /\ Near(L, g, r[1], r[2])
        /\ ~ \E k \in L : k \in r[1] - g .. r[1] - 1
        /\ ~ \E k \in L : k \in r[2] + 1 .. r[2] + g
    <3>1. /\ r \in L \X L
          /\ r[1] <= r[2] /\ p <= r[1] /\ Near(L, g, r[1], r[2])
          /\ ~ \E k \in L : k \in r[1] - g .. r[1] - 1
          /\ ~ \E k \in L : k \in r[2] + 1 .. r[2] + g
      BY <1>3, Zenon DEF Clusters
    <3>2. r[1] \in L /\ r[2] \in L /\ r = <<r[1], r[2]>>
      BY <3>1
    <3>3. r[1] \in Nat /\ r[2] \in Nat
      BY <3>2
    <3> QED
      BY <3>1, <3>2, <3>3, Zenon
  <2> DEFINE a == r[1]
             b == r[2]
  <2> HIDE DEF a, b
  <2>2. a # p
    <3> SUFFICES ASSUME a = p PROVE FALSE
      OBVIOUS
    <3>1. b # e
      BY <1>3, <2>1 DEF a, b
    <3>2. CASE b < e
      <4>1. b \in p .. e - 1
        BY <1>1, <2>1, <3>2 DEF a, b
      <4>2. \E m \in L : m \in b + 1 .. b + g
        BY <1>2, <2>1, <4>1 DEF Near, b
      <4> QED
        BY <2>1, <4>2 DEF b
    <3>3. CASE e < b
      <4>1. e \in a .. b - 1
        BY <1>1, <2>1, <3>3 DEF a, b
      <4>2. \E m \in L : m \in e + 1 .. e + g
        BY <1>2, <2>1, <4>1 DEF Near, a, b
      <4> QED
        BY <1>1, <4>2
    <3> QED
      BY <1>1, <2>1, <3>1, <3>2, <3>3 DEF b
  <2>3. ~ (a <= e)
    <3> SUFFICES ASSUME a <= e PROVE FALSE
      OBVIOUS
    <3>1. a \in Nat /\ p < a
      BY <1>1, <2>1, <2>2 DEF a
    <3>2. CASE a - g <= p
      <4>1. p \in a - g .. a - 1
        BY <1>1, <3>1, <3>2
      <4> QED
        BY <2>1, <4>1 DEF a
    <3>3. CASE p < a - g
      <4>1. a - g \in p .. e /\ a - g .. ((a - g) + g) - 1 = a - g .. a - 1
        BY <1>1, <3>1, <3>3
      <4>2. \E k \in L : k \in a - g .. a - 1
        BY <1>1, <4>1
      <4> QED
        BY <2>1, <4>2 DEF a
    <3> QED
      BY <1>1, <3>1, <3>2, <3>3
  <2>4. e + 1 <= r[1]
    BY <1>1, <2>1, <2>3 DEF a
  <2> QED
    BY <2>1, <2>4, Zenon DEF Clusters
<1>4. ASSUME NEW r \in Clusters(L, g, e + 1) PROVE r \in Clusters(L, g, p)
  <2>1. r \in L \X L /\ e + 1 <= r[1] /\ r[1] \in Nat
    BY DEF Clusters
  <2>2. p <= r[1]
    BY <1>1, <2>1
  <2> QED
    BY <2>2, Zenon DEF Clusters
<1> QED
  BY <1>2, <1>3, <1>4

LEMMA NoClusterAt ==
  ASSUME NEW L \in SUBSET Nat, NEW g \in Nat, NEW p \in Nat, p \notin L, Closed(L, g, p)
  PROVE  Clusters(L, g, p) = Clusters(L, g, p + 1) /\ Closed(L, g, p + 1)
<1>1. \A k \in L : k \in Nat /\ (k < p + 1 <=> k < p) /\ (p + 1 <= k <=> p <= k)
  OBVIOUS
<1>2. \A r \in L \X L : p + 1 <= r[1] <=> p <= r[1]
  <2>1. \A r \in L \X L : r[1] \in L
    OBVIOUS
  <2> QED
    BY <1>1, <2>1, Zenon
<1>3. Closed(L, g, p + 1)
  BY <1>1, Zenon DEF Closed
<1> QED
  BY <1>2, <1>3, Zenon DEF Clusters

(* Clusters do not overlap.                                                *)
LEMMA ClustersApart ==
  ASSUME NEW n \in Nat, NEW L \in SUBSET (1 .. n), NEW g \in Nat, NEW p,
         NEW r \in Clusters(L, g, p), NEW t \in Clusters(L, g, p), r[1] < t[1]
  PROVE  r[2] < t[1]
<1> DEFINE a == r[1]
           b == r[2]
           c == t[1]
           S == {k \in L : a <= k /\ k < c}
<1>1. /\ a \in L /\ b \in L /\ c \in L /\ Near(L, g, a, b)
      /\ ~ \E k \in L : k \in c - g .. c - 1
  <2>1. r \in L \X L /\ t \in L \X L
    BY Zenon DEF Clusters
  <2>2. a \in L /\ b \in L /\ c \in L
    BY <2>1
  <2>3. Near(L, g, a, b) /\ ~ \E k \in L : k \in c - g .. c - 1
    BY Zenon DEF Clusters
  <2> QED
    BY <2>2, <2>3
<1>2. a \in Nat /\ b \in Nat /\ c \in Nat /\ a < c /\ \A k \in L : k \in Nat
  <2>1. \A k \in L : k \in Nat
    OBVIOUS
  <2>2. a < c
    OBVIOUS
  <2> HIDE DEF a, b, c
  <2> QED
    BY <1>1, <2>1, <2>2
<1> HIDE DEF a, b, c
<1> SUFFICES ASSUME c <= b PROVE FALSE
  BY <1>2 DEF b, c
<1>3. S \in SUBSET (1 .. n) /\ S # {}
  <2>1. a \in S
    BY <1>1, <1>2
  <2>2. S \in SUBSET L
    OBVIOUS
  <2> HIDE DEF S
  <2> QED
    BY <2>1, <2>2
<1>4. PICK k \in S : \A y \in S : y <= k
  <2> HIDE DEF S
  <2> QED
    BY <1>3, LargestOf
<1>5. k \in L /\ k \in Nat /\ a <= k /\ k < c /\ k \in a .. b - 1
  BY <1>2
<1>6. PICK m \in L : m \in k + 1 .. k + g
  BY <1>1, <1>5 DEF Near
<1>7. m \in Nat /\ ~ (m < c)
  <2>1. m \in Nat /\ m > k /\ a <= m
    BY <1>2, <1>5, <1>6
  <2>2. m < c => m \in S
    BY <1>6, <2>1
  <2> HIDE DEF S
  <2> QED
    BY <1>4, <1>5, <2>1, <2>2
<1>8. k \in c - g .. c - 1
  BY <1>2, <1>5, <1>6, <1>7
<1> QED
  BY <1>1, <1>5, <1>8

(* What get_burst_indices does at p, if End[p] ends the burst that begins  *)
(* there.                                                                  *)
FromAt(found, L, End, n, p) ==
  IF p > n THEN <<>>
  ELSE IF p \notin L THEN found[p + 1] ELSE <<<<p, End[p]>>>> \o found[End[p] + 1]

Ends(L, g, n, End) == \A p \in L : EndsAt(L, g, p, End[p]) /\ End[p] <= n

LEMMA ClustersFound ==
  ASSUME NEW n \in Nat, NEW L \in SUBSET (1 .. n), NEW g \in Nat, g >= 1,
         NEW End, Ends(L, g, n, End), NEW found,
         \A p \in 1 .. n + 1 : found[p] = FromAt(found, L, End, n, p)
  PROVE  \A p \in 1 .. n + 1 : Closed(L, g, p) => Lists(found[p], Clusters(L, g, p))
<1> DEFINE S == {p \in 1 .. n + 1 : Closed(L, g, p) => Lists(found[p], Clusters(L, g, p))}
<1>1. L \in SUBSET Nat /\ \A k \in L : k \in 1 .. n /\ k \in Nat
  OBVIOUS
<1>2. n + 1 \in S
  <2>1. n + 1 \in 1 .. n + 1 /\ n + 1 > n
    OBVIOUS
  <2>2. found[n + 1] = <<>>
    BY <2>1 DEF FromAt
  <2>3. Clusters(L, g, n + 1) = {}
    <3> SUFFICES ASSUME NEW r \in Clusters(L, g, n + 1) PROVE FALSE
      OBVIOUS
    <3>1. r \in L \X L /\ n + 1 <= r[1]
      BY Zenon DEF Clusters
    <3>2. r[1] \in L
      BY <3>1
    <3>3. r[1] \in 1 .. n
      BY <1>1, <3>2
    <3> QED
      BY <3>1, <3>3
  <2>4. Lists(<<>>, {})
    <3>1. <<>> \in Seq(Nat \X Nat) /\ DOMAIN <<>> = {}
      OBVIOUS
    <3> QED
      BY <3>1 DEF Lists, Range, Ordered
  <2> QED
    BY <2>1, <2>2, <2>3, <2>4
<1>3. ASSUME NEW p \in 1 .. n, \A q \in p + 1 .. n + 1 : q \in S PROVE p \in S
  <2>1. /\ p \in 1 .. n + 1 /\ p \in Nat /\ p + 1 \in 1 .. n + 1 /\ p + 1 \in p + 1 .. n + 1
        /\ ~ (p > n)
    OBVIOUS
  <2> SUFFICES ASSUME Closed(L, g, p) PROVE Lists(found[p], Clusters(L, g, p))
    BY <2>1
  <2>2. CASE p \notin L
    <3>1. found[p] = found[p + 1]
      BY <2>1, <2>2, Zenon DEF FromAt
    <3>2. Clusters(L, g, p) = Clusters(L, g, p + 1) /\ Closed(L, g, p + 1)
      BY <1>1, <2>1, <2>2, NoClusterAt
    <3>3. Lists(found[p + 1], Clusters(L, g, p + 1))
      BY <1>3, <2>1, <3>2
    <3> QED
      BY <3>1, <3>2, <3>3, Zenon
  <2>3. CASE p \in L
    <3> DEFINE e == End[p]
    <3>1. EndsAt(L, g, p, e) /\ e <= n /\ e \in Nat /\ p <= e
      BY <2>3 DEF Ends, EndsAt
    <3>2. found[p] = <<<<p, e>>>> \o found[e + 1]
      BY <2>1, <2>3, Zenon DEF FromAt
    <3> HIDE DEF e
    <3>3. e + 1 \in p + 1 .. n + 1 /\ e + 1 > p
      BY <2>1, <3>1
    <3>4. /\ Clusters(L, g, p) = Clusters(L, g, e + 1) \cup {<<p, e>>}
          /\ Closed(L, g, e + 1)
      <4>1. Clusters(L, g, p) = Clusters(L, g, e + 1) \cup {<<p, e>>}
        BY <1>1, <2>3, <3>1, FirstCluster
      <4>2. Closed(L, g, e + 1)
        BY <1>1, <2>3, <3>1, ClusterAt
      <4> QED
        BY <4>1, <4>2
    <3>5. Lists(found[e + 1], Clusters(L, g, e + 1))
      BY <1>3, <3>3, <3>4
    <3>6. \A b \in Clusters(L, g, e + 1) : b[1] > p
      <4> SUFFICES ASSUME NEW b \in Clusters(L, g, e + 1) PROVE b[1] > p
        OBVIOUS
      <4>1. b \in L \X L /\ e + 1 <= b[1]
        BY Zenon DEF Clusters
      <4>2. b[1] \in L
        BY <4>1
      <4>3. b[1] \in Nat
        BY <1>1, <4>2
      <4> QED
        BY <2>1, <3>1, <4>1, <4>3
    <3>7. Lists(<<<<p, e>>>> \o found[e + 1], Clusters(L, g, e + 1) \cup {<<p, e>>})
      BY <2>1, <3>1, <3>5, <3>6, ListsLonger
    <3> QED
      BY <3>2, <3>4, <3>7, Zenon
  <2> QED
    BY <2>2, <2>3
<1>4. \A p \in 1 .. n + 1 : p \in S
  <2> HIDE DEF S
  <2> QED
    BY <1>2, <1>3, CountDown
<1> QED
  BY <1>4

(* BurstEnd is such an end.                                                *)
LEMMA NoLossIn ==
  ASSUME NEW losses \in Bitmap, NEW g \in Nat, g >= 1, NEW j \in 1 .. Len(losses) + 1
  PROVE  sum_bool(losses, j .. Min({(j + g) - 1, Len(losses)})) = 0
           <=> ~ \E k \in Lost(losses) : k \in j .. (j + g) - 1
<1> DEFINE n == Len(losses)
           z == Min({(j + g) - 1, n})
           S == {k \in j .. z : losses[k]}
<1>1. n \in Nat /\ j \in Nat /\ j >= 1 /\ (j + g) - 1 \in Int
  BY DEF Bitmap
<1>2. z \in Int /\ z <= (j + g) - 1 /\ z <= n /\ (z = (j + g) - 1 \/ z = n)
  <2> DEFINE pair == {(j + g) - 1, n}
  <2>1. pair \in SUBSET Int /\ IsFiniteSet(pair) /\ pair # {}
    <3>1. IsFiniteSet({n})
      BY FS_Singleton
    <3>2. IsFiniteSet({n} \cup {(j + g) - 1})
      BY <3>1, FS_AddElement
    <3>3. {n} \cup {(j + g) - 1} = pair
      OBVIOUS
    <3>4. n \in Int
      BY <1>1
    <3> HIDE DEF n
    <3> QED
      BY <1>1, <3>2, <3>3, <3>4
  <2>2. Min(pair) \in pair /\ \A y \in pair : Min(pair) <= y
    BY <2>1, MinIsLeast
  <2> QED
    BY <1>1, <2>1, <2>2
<1> HIDE DEF z
<1>3. \A k \in Int : k \in j .. z <=> k \in j .. (j + g) - 1 /\ k \in 1 .. n
  BY <1>1, <1>2
<1>4. S = {} <=> ~ \E k \in Lost(losses) : k \in j .. (j + g) - 1
  <2>1. \A k \in S : k \in Lost(losses) /\ k \in j .. (j + g) - 1
    BY <1>3 DEF Lost
  <2>2. \A k \in Lost(losses) : k \in j .. (j + g) - 1 => k \in S
    BY <1>3 DEF Lost
  <2> HIDE DEF S
  <2> QED
    BY <2>1, <2>2
<1>5. IsFiniteSet(S)
  <2>1. IsFiniteSet(j .. z)
    BY <1>1, <1>2, FS_Interval
  <2> QED
    BY <2>1, FS_Subset
<1>6. sum_bool(losses, j .. z) = Cardinality(S)
  BY DEF sum_bool
<1>7. Cardinality(S) = 0 <=> S = {}
  <2> HIDE DEF S
  <2> QED
    BY <1>5, FS_EmptySet
<1> QED
  BY <1>4, <1>6, <1>7 DEF z

LEMMA BurstEndEnds ==
  ASSUME NEW losses \in Bitmap, NEW g \in Nat, g >= 1, NEW p \in Lost(losses)
  PROVE  EndsAt(Lost(losses), g, p, BurstEnd(losses, g, p)) /\ BurstEnd(losses, g, p) <= Len(losses)
<1> DEFINE n == Len(losses)
           L == Lost(losses)
           S == {j \in p .. n + 1 : sum_bool(losses, j .. Min({(j + g) - 1, n})) = 0}
           z == Min(S)
           e == BurstEnd(losses, g, p)
<1>1. n \in Nat /\ p \in 1 .. n /\ p \in Nat /\ L \in SUBSET (1 .. n)
  BY DEF Bitmap, Lost
<1>2. e = z - 1
  <2>1. \A j \in p .. n + 1 : j + g - 1 = (j + g) - 1
    BY <1>1
  <2> QED
    BY <2>1 DEF BurstEnd
<1>3. \A j \in p .. n + 1 : j \in S <=> ~ \E k \in L : k \in j .. (j + g) - 1
  <2> SUFFICES ASSUME NEW j \in p .. n + 1
               PROVE  j \in S <=> ~ \E k \in L : k \in j .. (j + g) - 1
    OBVIOUS
  <2>1. j \in 1 .. n + 1
    BY <1>1
  <2>2. sum_bool(losses, j .. Min({(j + g) - 1, n})) = 0
          <=> ~ \E k \in L : k \in j .. (j + g) - 1
    BY <2>1, NoLossIn
  <2> HIDE DEF L
  <2> QED
    BY <2>2
<1>4. S \in SUBSET (p .. n + 1)
  OBVIOUS
<1> HIDE DEF e, S
<1>5. n + 1 \in S
  <2>1. n + 1 \in p .. n + 1
    BY <1>1
  <2>2. \A k \in L : k \notin n + 1 .. ((n + 1) + g) - 1
    BY <1>1
  <2> QED
    BY <1>3, <2>1, <2>2
<1>6. p \notin S
  <2>1. p \in p .. n + 1 /\ p \in p .. (p + g) - 1 /\ p \in L
    BY <1>1
  <2> HIDE DEF L, n
  <2> QED
    BY <1>3, <2>1, Zenon
<1>7. z \in S /\ \A y \in S : z <= y
  <2>1. IsFiniteSet(p .. n + 1)
    BY <1>1, FS_Interval
  <2>2. IsFiniteSet(S) /\ S # {} /\ S \in SUBSET Int
    <3>1. IsFiniteSet(S)
      BY <1>4, <2>1, FS_Subset
    <3>2. \A j \in p .. n + 1 : j \in Int
      OBVIOUS
    <3> HIDE DEF n
    <3> QED
      BY <1>4, <1>5, <3>1, <3>2
  <2> QED
    BY <2>2, MinIsLeast
<1> HIDE DEF z
<1>8. z \in p .. n + 1 /\ z # p
  BY <1>4, <1>6, <1>7
<1> HIDE DEF L
<1>9. e \in Nat /\ p <= e /\ e <= n /\ e + 1 = z
  BY <1>1, <1>2, <1>8
<1>10. \A j \in p .. e : \E k \in L : k \in j .. (j + g) - 1
  <2> SUFFICES ASSUME NEW j \in p .. e PROVE \E k \in L : k \in j .. (j + g) - 1
    OBVIOUS
  <2>1. j \in p .. n + 1 /\ ~ (z <= j)
    BY <1>1, <1>9
  <2>2. j \notin S
    BY <1>7, <2>1
  <2> QED
    BY <1>3, <2>1, <2>2
<1>11. ~ \E k \in L : k \in e + 1 .. e + g
  <2>1. ~ \E k \in L : k \in z .. (z + g) - 1
    BY <1>3, <1>7, <1>8
  <2>2. (z + g) - 1 = e + g
    BY <1>1, <1>9
  <2> QED
    BY <1>9, <2>1, <2>2
<1> QED
  BY <1>9, <1>10, <1>11 DEF EndsAt, L, e

LEMMA BurstIndicesAre ==
  ASSUME NEW losses \in Bitmap, NEW g \in Nat, g >= 1
  PROVE  Lists(get_burst_indices(losses, g), Clusters(Lost(losses), g, 1))
<1> DEFINE n == Len(losses)
           L == Lost(losses)
           Pairs == Seq(Nat \X Nat)
           End == [p \in L |-> BurstEnd(losses, g, p)]
           from[p \in 1 .. n + 1] ==
             IF p > n THEN <<>>
             ELSE IF ~ losses[p] THEN from[p + 1]
             ELSE <<<<p, BurstEnd(losses, g, p)>>>> \o from[BurstEnd(losses, g, p) + 1]
           Body == [x \in (1 .. n + 1) \X [1 .. n + 1 -> Pairs] |-> FromAt(x[2], L, End, n, x[1])]
<1>1. n \in Nat /\ L \in SUBSET (1 .. n)
  BY DEF Bitmap, Lost
<1>2. \A p \in L : End[p] = BurstEnd(losses, g, p)
  OBVIOUS
<1>3. Ends(L, g, n, End)
  <2>1. \A p \in L : EndsAt(L, g, p, BurstEnd(losses, g, p)) /\ BurstEnd(losses, g, p) <= n
    BY BurstEndEnds
  <2> HIDE DEF End, L, n
  <2> QED
    BY <1>2, <2>1, Zenon DEF Ends
<1>4. \A p \in 1 .. n + 1, f \in [1 .. n + 1 -> Pairs] : Body[<<p, f>>] = FromAt(f, L, End, n, p)
  OBVIOUS
<1>5. get_burst_indices(losses, g) = from[1]
  BY Zenon DEF get_burst_indices
<1>6. \A p \in 1 .. n + 1 : ~ (p > n) => (losses[p] <=> p \in L)
  <2>1. \A p \in 1 .. n + 1 : ~ (p > n) => p \in 1 .. n
    BY <1>1
  <2> QED
    BY <2>1, Zenon DEF Lost
<1> HIDE DEF Body, End, from, n, L
<1>7. \A p \in 1 .. n + 1 :
        /\ p \in L => /\ End[p] \in Nat /\ p \in Nat
                      /\ End[p] + 1 \in p + 1 .. n + 1 /\ End[p] + 1 \in 1 .. n + 1
        /\ ~ (p > n) => p + 1 \in p + 1 .. n + 1 /\ p + 1 \in 1 .. n + 1
  <2> SUFFICES ASSUME NEW p \in 1 .. n + 1
               PROVE  /\ p \in L => /\ End[p] \in Nat /\ p \in Nat
                                    /\ End[p] + 1 \in p + 1 .. n + 1 /\ End[p] + 1 \in 1 .. n + 1
                      /\ ~ (p > n) => p + 1 \in p + 1 .. n + 1 /\ p + 1 \in 1 .. n + 1
    OBVIOUS
  <2>1. p \in L => End[p] \in Nat /\ p <= End[p] /\ End[p] <= n
    BY <1>3 DEF Ends, EndsAt
  <2> QED
    BY <1>1, <2>1
<1>8. Downward(n, Pairs, Body)
  <2>1. ASSUME NEW p \in 1 .. n + 1, NEW f \in [1 .. n + 1 -> Pairs]
        PROVE  FromAt(f, L, End, n, p) \in Pairs
    <3>1. CASE p > n
      BY <3>1 DEF FromAt
    <3>2. CASE ~ (p > n) /\ p \in L
      <4> DEFINE b == <<p, End[p]>>
      <4>1. f[End[p] + 1] \in Pairs /\ b \in Nat \X Nat
        BY <1>7, <3>2
      <4>2. FromAt(f, L, End, n, p) = <<b>> \o f[End[p] + 1]
        BY <3>2 DEF FromAt
      <4> HIDE DEF b
      <4>3. <<b>> \in Seq(Nat \X Nat)
        BY <4>1
      <4> QED
        BY <4>1, <4>2, <4>3, ConcatProperties
    <3>3. CASE ~ (p > n) /\ p \notin L
      <4>1. f[p + 1] \in Pairs
        BY <1>7, <3>3
      <4> QED
        BY <3>3, <4>1 DEF FromAt
    <3> QED
      BY <3>1, <3>2, <3>3
  <2> HIDE DEF Pairs
  <2> QED
    BY <1>4, <2>1 DEF Downward
<1>9. ReadsAbove(n, Pairs, Body)
  <2>1. ASSUME NEW p \in 1 .. n + 1, NEW f \in [1 .. n + 1 -> Pairs],
               NEW h \in [1 .. n + 1 -> Pairs], \A q \in p + 1 .. n + 1 : f[q] = h[q]
        PROVE  Body[<<p, f>>] = Body[<<p, h>>]
    <3>1. p \in L => f[End[p] + 1] = h[End[p] + 1]
      BY <1>7, <2>1
    <3>2. ~ (p > n) => f[p + 1] = h[p + 1]
      BY <1>7, <2>1
    <3>3. FromAt(f, L, End, n, p) = FromAt(h, L, End, n, p)
      BY <3>1, <3>2, Zenon DEF FromAt
    <3> HIDE DEF Pairs
    <3> QED
      BY <1>4, <3>3
  <2> HIDE DEF Pairs
  <2> QED
    BY <2>1 DEF ReadsAbove
<1>10. PICK found \in [1 .. n + 1 -> Pairs] : Solves(found, n, Body)
  <2>1. <<>> \in Pairs
    OBVIOUS
  <2> HIDE DEF Pairs
  <2> QED
    BY <1>1, <1>8, <1>9, <2>1, DownwardExists
<1>11. found = [p \in 1 .. n + 1 |->
                  IF p > n THEN <<>>
                  ELSE IF ~ losses[p] THEN found[p + 1]
                  ELSE <<<<p, BurstEnd(losses, g, p)>>>> \o found[BurstEnd(losses, g, p) + 1]]
  <2>1. \A p \in 1 .. n + 1 : found[p] = FromAt(found, L, End, n, p)
    <3> HIDE DEF Pairs
    <3> QED
      BY <1>4, <1>10 DEF Solves
  <2>2. \A p \in 1 .. n + 1 : found[p] =
                  IF p > n THEN <<>>
                  ELSE IF ~ losses[p] THEN found[p + 1]
                  ELSE <<<<p, BurstEnd(losses, g, p)>>>> \o found[BurstEnd(losses, g, p) + 1]
    BY <1>2, <1>6, <2>1, Zenon DEF FromAt
  <2> HIDE DEF Pairs
  <2> QED
    BY <2>2, Zenon
<1>12. from = [p \in 1 .. n + 1 |->
                  IF p > n THEN <<>>
                  ELSE IF ~ losses[p] THEN from[p + 1]
                  ELSE <<<<p, BurstEnd(losses, g, p)>>>> \o from[BurstEnd(losses, g, p) + 1]]
  BY <1>11, Zenon DEF from
<1>13. \A p \in 1 .. n + 1 : from[p] = FromAt(from, L, End, n, p)
  <2>1. \A p \in 1 .. n + 1 : from[p] =
                  IF p > n THEN <<>>
                  ELSE IF ~ losses[p] THEN from[p + 1]
                  ELSE <<<<p, BurstEnd(losses, g, p)>>>> \o from[BurstEnd(losses, g, p) + 1]
    BY <1>12, Zenon
  <2> QED
    BY <1>2, <1>6, <2>1, Zenon DEF FromAt
<1>14. \A p \in 1 .. n + 1 : Closed(L, g, p) => Lists(from[p], Clusters(L, g, p))
  BY <1>1, <1>3, <1>13, ClustersFound
<1>15. 1 \in 1 .. n + 1 /\ Closed(L, g, 1)
  <2>1. \A k \in L : ~ (k < 1)
    BY <1>1
  <2> QED
    BY <1>1, <2>1 DEF Closed
<1> QED
  BY <1>5, <1>14, <1>15 DEF L

(* A filtered list.                                                        *)
KeptAt(kept, bursts, k) ==
  IF bursts[k][2] > bursts[k][1] THEN Append(kept, bursts[k]) ELSE kept

Longer(bursts, k) == {b \in {bursts[j] : j \in 1 .. k} : b[2] > b[1]}

LEMMA KeptGrows ==
  ASSUME NEW bursts \in Seq(Nat \X Nat), Ordered(bursts), NEW k \in 1 .. Len(bursts),
         NEW kept, Lists(kept, Longer(bursts, k - 1))
  PROVE  Lists(KeptAt(kept, bursts, k), Longer(bursts, k))
<1> DEFINE b == bursts[k]
           m == Len(kept)
           u == Append(kept, b)
<1>1. /\ kept \in Seq(Nat \X Nat) /\ Range(kept) = Longer(bursts, k - 1) /\ Ordered(kept)
      /\ m \in Nat /\ DOMAIN kept = 1 .. m /\ DOMAIN bursts = 1 .. Len(bursts) /\ b \in Nat \X Nat
      /\ k \in Nat
  BY DEF Lists
<1>2. \A j : j \in 1 .. k <=> j \in 1 .. k - 1 \/ j = k
  BY <1>1
<1>3. CASE ~ (b[2] > b[1])
  <2>1. Longer(bursts, k) = Longer(bursts, k - 1)
    BY <1>2, <1>3, Zenon DEF Longer
  <2> QED
    BY <1>3, <2>1, Zenon DEF KeptAt
<1>4. CASE b[2] > b[1]
  <2>1. Longer(bursts, k) = Longer(bursts, k - 1) \cup {b}
    BY <1>2, <1>4, Zenon DEF Longer
  <2>2. KeptAt(kept, bursts, k) = u
    BY <1>4, Zenon DEF KeptAt
  <2>3. /\ u \in Seq(Nat \X Nat) /\ Len(u) = m + 1 /\ u[m + 1] = b
        /\ \A j \in 1 .. m : u[j] = kept[j]
    <3> HIDE DEF b
    <3> QED
      BY <1>1, AppendProperties
  <2>4. DOMAIN u = 1 .. m + 1 /\ \A j \in 1 .. m + 1 : j \in 1 .. m \/ j = m + 1
    <3>1. DOMAIN u = 1 .. Len(u)
      BY <2>3
    <3>2. \A j \in 1 .. m + 1 : j \in 1 .. m \/ j = m + 1
      <4>1. m \in Nat
        BY <1>1
      <4> HIDE DEF m
      <4> QED
        BY <4>1
    <3>3. DOMAIN u = 1 .. m + 1
      <4>1. Len(u) = m + 1
        BY <2>3
      <4> HIDE DEF u, m
      <4> QED
        BY <3>1, <4>1
    <3> QED
      BY <3>2, <3>3, Zenon
  <2>5. \A x \in Longer(bursts, k - 1) : x[1] < b[1]
    <3> SUFFICES ASSUME NEW j \in 1 .. k - 1 PROVE bursts[j][1] < b[1]
      BY DEF Longer
    <3>1. j \in DOMAIN bursts /\ k \in DOMAIN bursts /\ j < k
      BY <1>1
    <3> QED
      BY <3>1 DEF Ordered
  <2> HIDE DEF u, b, m
  <2>6. Range(u) = Longer(bursts, k - 1) \cup {b}
    <3>1. \A j \in 1 .. m + 1 : u[j] \in Range(kept) \cup {b}
      BY <1>1, <2>3, <2>4, Zenon DEF Range
    <3>2. \A j \in 1 .. m : j \in 1 .. m + 1
      BY <1>1
    <3>3. ASSUME NEW x \in Range(kept) PROVE \E j \in 1 .. m + 1 : u[j] = x
      <4>1. PICK j \in 1 .. m : kept[j] = x
        BY <1>1 DEF Range
      <4> QED
        BY <2>3, <3>2, <4>1
    <3>4. m + 1 \in 1 .. m + 1
      BY <1>1
    <3>5. Range(u) = {u[j] : j \in 1 .. m + 1}
      BY <2>4, Zenon DEF Range
    <3>6. \A x \in Range(kept) \cup {b} : \E j \in 1 .. m + 1 : u[j] = x
      BY <2>3, <3>3, <3>4, Zenon
    <3>7. Range(u) = Range(kept) \cup {b}
      BY <3>1, <3>5, <3>6, Zenon
    <3> QED
      BY <1>1, <3>7, Zenon
  <2>7. Ordered(u)
    <3> SUFFICES ASSUME NEW j \in 1 .. m + 1, NEW l \in 1 .. m + 1, j < l PROVE u[j][1] < u[l][1]
      BY <2>4 DEF Ordered
    <3>1. j \in 1 .. m
      BY <1>1
    <3>2. CASE l = m + 1
      <4>1. kept[j] \in Range(kept)
        BY <1>1, <3>1 DEF Range
      <4> QED
        BY <1>1, <2>3, <2>5, <3>1, <3>2, <4>1
    <3>3. CASE l \in 1 .. m
      <4>1. kept[j][1] < kept[l][1]
        BY <1>1, <3>1, <3>3 DEF Ordered
      <4> QED
        BY <2>3, <3>1, <3>3, <4>1
    <3> QED
      BY <2>4, <3>2, <3>3
  <2> QED
    BY <2>1, <2>2, <2>3, <2>6, <2>7 DEF Lists
<1> QED
  BY <1>3, <1>4

LEMMA EliminateSingles ==
  ASSUME NEW bursts, NEW B, Lists(bursts, B)
  PROVE  Lists(eliminate_singleton_bursts(bursts), {b \in B : b[2] > b[1]})
<1> DEFINE n == Len(bursts)
           Pairs == Seq(Nat \X Nat)
           kept[k \in 0 .. n] ==
             IF k = 0 THEN <<>>
             ELSE IF bursts[k][2] > bursts[k][1] THEN Append(kept[k - 1], bursts[k])
             ELSE kept[k - 1]
           Step == [x \in (1 .. n) \X Pairs |-> KeptAt(x[2], bursts, x[1])]
           Good == {k \in 0 .. n : Lists(kept[k], Longer(bursts, k))}
<1>1. /\ bursts \in Pairs /\ n \in Nat /\ DOMAIN bursts = 1 .. n /\ Range(bursts) = B
      /\ Ordered(bursts) /\ \A k \in 1 .. n : bursts[k] \in Nat \X Nat
  BY DEF Lists
<1>2. \A k \in 1 .. n, x \in Pairs :
        Step[<<k, x>>] = KeptAt(x, bursts, k) /\ Step[<<k, x>>] \in Pairs
  <2> SUFFICES ASSUME NEW k \in 1 .. n, NEW x \in Pairs
               PROVE  Step[<<k, x>>] = KeptAt(x, bursts, k) /\ Step[<<k, x>>] \in Pairs
    BY Zenon
  <2>1. Step[<<k, x>>] = KeptAt(x, bursts, k)
    OBVIOUS
  <2>2. KeptAt(x, bursts, k) \in Pairs
    <3>1. bursts[k] \in Nat \X Nat
      BY <1>1
    <3>2. Append(x, bursts[k]) \in Pairs
      BY <3>1, AppendProperties
    <3> QED
      BY <3>2, Zenon DEF KeptAt
  <2> QED
    BY <2>1, <2>2, Zenon
<1>3. <<>> \in Pairs
  OBVIOUS
<1>4. \E h \in [0 .. n -> Pairs] : Follows(h, n, <<>>, Step)
  <2> HIDE DEF Step, Good, kept, n, Pairs
  <2>1. StepsStayIn(n, Pairs, Step)
    BY <1>2 DEF StepsStayIn
  <2> QED
    BY <1>1, <1>3, <2>1, RecursionExists
<1>5. PICK h \in [0 .. n -> Pairs] :
        h[0] = <<>> /\ \A k \in 1 .. n : h[k] = KeptAt(h[k - 1], bursts, k)
  <2>1. \A k \in 1 .. n : k - 1 \in 0 .. n
    BY <1>1
  <2> HIDE DEF Step, n, Pairs
  <2> QED
    BY <1>2, <1>4, <2>1 DEF Follows
<1>6. h = [k \in 0 .. n |-> IF k = 0 THEN <<>>
                            ELSE IF bursts[k][2] > bursts[k][1] THEN Append(h[k - 1], bursts[k])
                            ELSE h[k - 1]]
  <2>1. \A k \in 0 .. n : k = 0 \/ k \in 1 .. n
    BY <1>1
  <2>2. \A k \in 0 .. n : h[k] = IF k = 0 THEN <<>>
                            ELSE IF bursts[k][2] > bursts[k][1] THEN Append(h[k - 1], bursts[k])
                            ELSE h[k - 1]
    BY <1>5, <2>1, Zenon DEF KeptAt
  <2> HIDE DEF n, Pairs
  <2> QED
    BY <2>2, Zenon
<1>7. kept = [k \in 0 .. n |-> IF k = 0 THEN <<>>
                            ELSE IF bursts[k][2] > bursts[k][1] THEN Append(kept[k - 1], bursts[k])
                            ELSE kept[k - 1]]
  BY <1>6, Zenon
<1>8. eliminate_singleton_bursts(bursts) = kept[n]
  BY Zenon DEF eliminate_singleton_bursts
<1> HIDE DEF kept
<1>9. kept[0] = <<>> /\ \A k \in 1 .. n : kept[k] = KeptAt(kept[k - 1], bursts, k)
  <2>1. 0 \in 0 .. n /\ \A k \in 1 .. n : k \in 0 .. n /\ k # 0
    BY <1>1
  <2> HIDE DEF n
  <2> QED
    BY <1>7, <2>1, Zenon DEF KeptAt
<1>10. 0 \in Good
  <2>1. Longer(bursts, 0) = {}
    <3>1. 1 .. 0 = {}
      OBVIOUS
    <3> QED
      BY <3>1 DEF Longer
  <2>2. Lists(<<>>, {})
    <3>1. <<>> \in Seq(Nat \X Nat) /\ DOMAIN <<>> = {}
      OBVIOUS
    <3> QED
      BY <3>1 DEF Lists, Range, Ordered
  <2>3. 0 \in 0 .. n
    BY <1>1
  <2> QED
    BY <1>9, <2>1, <2>2, <2>3, Zenon
<1>11. \A k \in 0 .. n - 1 : k \in Good => k + 1 \in Good
  <2> SUFFICES ASSUME NEW k \in 0 .. n - 1, Lists(kept[k], Longer(bursts, k))
               PROVE  k + 1 \in 0 .. n /\ Lists(kept[k + 1], Longer(bursts, k + 1))
    BY Zenon
  <2>1. k + 1 \in 0 .. n /\ k + 1 \in 1 .. n /\ (k + 1) - 1 = k
    BY <1>1
  <2>2. kept[k + 1] = KeptAt(kept[k], bursts, k + 1)
    BY <1>9, <2>1, Zenon
  <2>3. Lists(kept[k], Longer(bursts, (k + 1) - 1))
    BY <2>1
  <2>4. Lists(KeptAt(kept[k], bursts, k + 1), Longer(bursts, k + 1))
    BY <1>1, <2>1, <2>3, KeptGrows
  <2> QED
    BY <2>1, <2>2, <2>4, Zenon
<1>12. n \in Good
  <2>1. n \in 0 .. n
    BY <1>1
  <2> HIDE DEF Good, n
  <2> QED
    BY <1>1, <1>10, <1>11, <2>1, CountUp
<1>13. Longer(bursts, n) = {b \in B : b[2] > b[1]}
  <2>1. Range(bursts) = {bursts[j] : j \in 1 .. n}
    BY <1>1 DEF Range
  <2> QED
    BY <1>1, <2>1, Zenon DEF Longer
<1> QED
  BY <1>8, <1>12, <1>13, Zenon

(* The positions of a list of ranges, and those between them.              *)
Covered(ranges) == UNION {r[1] .. r[2] : r \in Range(ranges)}

Apart(bursts, n) ==
  /\ \A k \in DOMAIN bursts : /\ bursts[k][1] \in Nat /\ bursts[k][2] \in Nat
                              /\ 1 <= bursts[k][1] /\ bursts[k][1] <= bursts[k][2]
                              /\ bursts[k][2] <= n
  /\ \A j, k \in DOMAIN bursts : j < k => bursts[j][2] < bursts[k][1]

LEMMA CoveredJoin ==
  ASSUME NEW S, NEW s \in Seq(S), NEW t \in Seq(S)
  PROVE  Covered(s \o t) = Covered(s) \cup Covered(t) /\ s \o t \in Seq(S)
<1> DEFINE u == s \o t
           m == Len(s)
           l == Len(t)
<1>1. /\ u \in Seq(S) /\ Len(u) = m + l /\ m \in Nat /\ l \in Nat
      /\ DOMAIN s = 1 .. m /\ DOMAIN t = 1 .. l
      /\ \A k \in 1 .. m + l : u[k] = IF k <= m THEN s[k] ELSE t[k - m]
  BY ConcatProperties
<1>2. DOMAIN u = 1 .. m + l
  <2>1. DOMAIN u = 1 .. Len(u)
    BY <1>1
  <2> HIDE DEF u, m, l
  <2> QED
    BY <1>1, <2>1
<1> HIDE DEF u, m, l
<1>3. \A k \in 1 .. m : k \in 1 .. m + l /\ k <= m
  BY <1>1
<1>4. \A k \in 1 .. l : k + m \in 1 .. m + l /\ ~ (k + m <= m) /\ (k + m) - m = k
  BY <1>1
<1>5. \A k \in 1 .. m + l : k \in 1 .. m \/ (k - m \in 1 .. l /\ ~ (k <= m))
  BY <1>1
<1>6. Range(u) = Range(s) \cup Range(t)
  <2>1. \A k \in 1 .. m + l : u[k] \in Range(s) \cup Range(t)
    <3> SUFFICES ASSUME NEW k \in 1 .. m + l PROVE u[k] \in Range(s) \cup Range(t)
      OBVIOUS
    <3>1. CASE k \in 1 .. m
      <4>1. u[k] = s[k]
        BY <1>1, <1>3, <3>1
      <4> QED
        BY <1>1, <3>1, <4>1 DEF Range
    <3>2. CASE k - m \in 1 .. l /\ ~ (k <= m)
      <4>1. u[k] = t[k - m]
        BY <1>1, <3>2
      <4> QED
        BY <1>1, <3>2, <4>1 DEF Range
    <3> QED
      BY <1>5, <3>1, <3>2
  <2>2. \A k \in 1 .. m : \E j \in 1 .. m + l : u[j] = s[k]
    BY <1>1, <1>3
  <2>3. \A k \in 1 .. l : \E j \in 1 .. m + l : u[j] = t[k]
    <3> SUFFICES ASSUME NEW k \in 1 .. l PROVE \E j \in 1 .. m + l : u[j] = t[k]
      OBVIOUS
    <3>1. u[k + m] = t[k]
      <4>1. u[k + m] = t[(k + m) - m]
        BY <1>1, <1>4
      <4> QED
        BY <1>4, <4>1
    <3> QED
      BY <1>4, <3>1
  <2>4. Range(s) = {s[k] : k \in 1 .. m} /\ Range(t) = {t[k] : k \in 1 .. l}
    BY <1>1, Zenon DEF Range
  <2>5. Range(u) = {u[k] : k \in 1 .. m + l}
    BY <1>2, Zenon DEF Range
  <2>6. \A x \in Range(u) : x \in Range(s) \cup Range(t)
    BY <2>1, <2>5
  <2>7. \A x \in Range(s) \cup Range(t) : x \in Range(u)
    BY <2>2, <2>3, <2>4, <2>5
  <2> QED
    BY <2>6, <2>7
<1>7. Covered(u) = Covered(s) \cup Covered(t)
  BY <1>6, Zenon DEF Covered
<1> QED
  BY <1>1, <1>7 DEF u

LEMMA CoveredBase ==
  Covered(<<>>) = {} /\ \A a, b \in Int : Covered(<<<<a, b>>>>) = a .. b
<1>1. Covered(<<>>) = {}
  <2>1. DOMAIN <<>> = {}
    OBVIOUS
  <2> QED
    BY <2>1 DEF Covered, Range
<1>2. ASSUME NEW a \in Int, NEW b \in Int PROVE Covered(<<<<a, b>>>>) = a .. b
  <2> DEFINE r == <<a, b>>
  <2>1. r[1] = a /\ r[2] = b
    OBVIOUS
  <2> HIDE DEF r
  <2>2. DOMAIN <<r>> = {1} /\ <<r>>[1] = r
    OBVIOUS
  <2>3. Range(<<r>>) = {r}
    BY <2>2 DEF Range
  <2>4. Covered(<<r>>) = a .. b
    BY <2>1, <2>3 DEF Covered
  <2> QED
    BY <2>4 DEF r
<1> QED
  BY <1>1, <1>2

LEMMA GapsAreRest ==
  ASSUME NEW n \in Nat, NEW bursts \in Seq(Nat \X Nat), bursts # <<>>, Apart(bursts, n)
  PROVE  Covered(guardspace_ranges(bursts, n)) = (1 .. n) \ Covered(bursts)
<1> DEFINE m == Len(bursts)
           a == bursts[1][1]
           z == bursts[m][2]
           before == IF a > 1 THEN <<<<1, a - 1>>>> ELSE <<>>
           between == [k \in 1 .. m - 1 |-> <<bursts[k][2] + 1, bursts[k + 1][1] - 1>>]
           after == IF z < n THEN <<<<z + 1, n>>>> ELSE <<>>
           gaps == (before \o between) \o after
           P == Int \X Int
<1>1. m \in Nat /\ m >= 1 /\ DOMAIN bursts = 1 .. m /\ 1 \in 1 .. m /\ m \in 1 .. m
  <2>1. m \in Nat /\ m # 0 /\ DOMAIN bursts = 1 .. m
    OBVIOUS
  <2> HIDE DEF m
  <2> QED
    BY <2>1
<1>2. guardspace_ranges(bursts, n) = gaps
  BY DEF guardspace_ranges, Last
<1>3. /\ \A k \in 1 .. m : /\ bursts[k][1] \in Nat /\ bursts[k][2] \in Nat
                           /\ 1 <= bursts[k][1] /\ bursts[k][1] <= bursts[k][2]
                           /\ bursts[k][2] <= n
      /\ \A j, k \in 1 .. m : j < k => bursts[j][2] < bursts[k][1]
  BY <1>1, Zenon DEF Apart
<1>4. \A k \in 1 .. m - 1 : k \in 1 .. m /\ k + 1 \in 1 .. m /\ k < k + 1
  BY <1>1
<1>5. a \in Nat /\ z \in Nat /\ 1 <= a /\ z <= n
  BY <1>1, <1>3
<1> HIDE DEF m
<1>6. before \in Seq(P) /\ Covered(before) = 1 .. a - 1
  <2>1. CASE a > 1
    <3>1. before = <<<<1, a - 1>>>> /\ 1 \in Int /\ a - 1 \in Int
      BY <1>5, <2>1
    <3> HIDE DEF before, a
    <3>2. before \in Seq(P)
      BY <3>1
    <3> QED
      BY <3>1, <3>2, CoveredBase
  <2>2. CASE ~ (a > 1)
    <3>1. before = <<>> /\ 1 .. a - 1 = {}
      BY <1>5, <2>2
    <3>2. <<>> \in Seq(P)
      OBVIOUS
    <3>3. Covered(<<>>) = {}
      BY CoveredBase
    <3> HIDE DEF before, P, a
    <3> QED
      BY <3>1, <3>2, <3>3
  <2> QED
    BY <2>1, <2>2
<1>7. after \in Seq(P) /\ Covered(after) = z + 1 .. n
  <2>1. CASE z < n
    <3>1. after = <<<<z + 1, n>>>> /\ z + 1 \in Int /\ n \in Int
      BY <1>5, <2>1
    <3> HIDE DEF after, z
    <3>2. after \in Seq(P)
      BY <3>1
    <3> QED
      BY <3>1, <3>2, CoveredBase
  <2>2. CASE ~ (z < n)
    <3>1. after = <<>> /\ z + 1 .. n = {}
      BY <1>5, <2>2
    <3>2. <<>> \in Seq(P)
      OBVIOUS
    <3>3. Covered(<<>>) = {}
      BY CoveredBase
    <3> HIDE DEF after, P, z
    <3> QED
      BY <3>1, <3>2, <3>3
  <2> QED
    BY <2>1, <2>2
<1> DEFINE Between(k) == bursts[k][2] + 1 .. bursts[k + 1][1] - 1
<1>8. between \in Seq(P) /\ Covered(between) = UNION {Between(k) : k \in 1 .. m - 1}
  <2>1. \A k \in 1 .. m - 1 : <<bursts[k][2] + 1, bursts[k + 1][1] - 1>> \in P
    BY <1>3, <1>4
  <2>2. between \in [1 .. m - 1 -> P]
    BY <2>1
  <2>3. m - 1 \in Nat
    BY <1>1
  <2>4. between \in Seq(P)
    <3> DEFINE l == m - 1
    <3> HIDE DEF l, P, between
    <3>1. between \in [1 .. l -> P] /\ l \in Nat
      BY <2>2, <2>3 DEF l
    <3> QED
      BY <3>1
  <2>5. DOMAIN between = 1 .. m - 1 /\ \A k \in 1 .. m - 1 : between[k][1] .. between[k][2] = Between(k)
    OBVIOUS
  <2> HIDE DEF between, Between
  <2>6. Covered(between) = UNION {Between(k) : k \in 1 .. m - 1}
    BY <2>5, Zenon DEF Covered, Range
  <2> QED
    BY <2>4, <2>6
<1>9. Covered(gaps) = ((1 .. a - 1) \cup UNION {Between(k) : k \in 1 .. m - 1}) \cup (z + 1 .. n)
  <2> HIDE DEF before, between, after, P, Between, a, z
  <2> DEFINE w == before \o between
  <2>1. Covered(w) = Covered(before) \cup Covered(between) /\ w \in Seq(P)
    BY <1>6, <1>8, CoveredJoin
  <2>2. gaps = w \o after
    OBVIOUS
  <2> HIDE DEF w, gaps
  <2>3. Covered(w \o after) = Covered(w) \cup Covered(after)
    <3> HIDE DEF m
    <3>1. after \in Seq(P) /\ w \in Seq(P)
      BY <1>7, <2>1
    <3> QED
      BY <3>1, CoveredJoin
  <2> QED
    BY <1>6, <1>7, <1>8, <2>1, <2>2, <2>3
<1> HIDE DEF gaps
<1>10. Covered(bursts) = UNION {bursts[k][1] .. bursts[k][2] : k \in 1 .. m}
  BY <1>1, Zenon DEF Covered, Range
<1>11. ASSUME NEW x \in Covered(gaps) PROVE x \in 1 .. n /\ \A k \in 1 .. m : x \notin bursts[k][1] .. bursts[k][2]
  <2> SUFFICES /\ x \in 1 .. n
               /\ \A k \in 1 .. m : x < bursts[k][1] \/ bursts[k][2] < x
    <3>1. ASSUME x \in 1 .. n, NEW k \in 1 .. m, x < bursts[k][1] \/ bursts[k][2] < x
          PROVE  x \notin bursts[k][1] .. bursts[k][2]
      <4>1. bursts[k][1] \in Nat /\ bursts[k][2] \in Nat /\ x \in Nat
        BY <1>3, <3>1
      <4> QED
        BY <3>1, <4>1
    <3> QED
      BY <3>1
  <2>1. CASE x \in 1 .. a - 1
    <3>1. ASSUME NEW k \in 1 .. m PROVE x < bursts[k][1]
      <4>1. CASE k = 1
        BY <1>5, <2>1, <4>1
      <4>2. CASE k # 1
        <5>1. 1 < k
          BY <4>2
        <5>2. bursts[1][1] <= bursts[1][2] /\ bursts[1][2] < bursts[k][1]
          BY <1>1, <1>3, <5>1
        <5>3. bursts[1][2] \in Nat /\ bursts[k][1] \in Nat
          BY <1>1, <1>3
        <5> QED
          BY <1>5, <2>1, <5>2, <5>3
      <4> QED
        BY <4>1, <4>2
    <3>2. a <= n
      <4>1. bursts[1][1] <= bursts[1][2] /\ bursts[1][2] <= n /\ bursts[1][2] \in Nat
        BY <1>1, <1>3
      <4> QED
        BY <1>5, <4>1
    <3>3. x \in 1 .. n
      BY <1>5, <2>1, <3>2
    <3> QED
      BY <3>1, <3>3
  <2>2. ASSUME NEW l \in 1 .. m - 1, x \in Between(l)
        PROVE  x \in 1 .. n /\ \A k \in 1 .. m : x < bursts[k][1] \/ bursts[k][2] < x
    <3>1. /\ l \in 1 .. m /\ l + 1 \in 1 .. m /\ bursts[l][2] \in Nat /\ bursts[l + 1][1] \in Nat
          /\ bursts[l + 1][1] <= bursts[l + 1][2] /\ bursts[l + 1][2] <= n /\ bursts[l + 1][2] \in Nat
          /\ bursts[l][1] <= bursts[l][2] /\ 1 <= bursts[l][1] /\ bursts[l][1] \in Nat
      BY <1>3, <1>4
    <3>2. x \in Int /\ bursts[l][2] < x /\ x < bursts[l + 1][1]
      BY <2>2, <3>1
    <3>3. x \in 1 .. n
      BY <3>1, <3>2
    <3>4. ASSUME NEW k \in 1 .. m PROVE x < bursts[k][1] \/ bursts[k][2] < x
      <4>1. k < l \/ k = l \/ k = l + 1 \/ l + 1 < k
        OBVIOUS
      <4>2. bursts[k][1] \in Nat /\ bursts[k][2] \in Nat /\ bursts[k][1] <= bursts[k][2]
        BY <1>3
      <4>3. CASE k < l
        <5>1. bursts[k][2] < bursts[l][1]
          BY <1>3, <3>1, <4>3
        <5> QED
          BY <3>1, <3>2, <4>2, <5>1
      <4>4. CASE k = l
        BY <3>2, <4>4
      <4>5. CASE k = l + 1
        BY <3>2, <4>5
      <4>6. CASE l + 1 < k
        <5>1. bursts[l + 1][2] < bursts[k][1]
          BY <1>3, <3>1, <4>6
        <5> QED
          BY <3>1, <3>2, <4>2, <5>1
      <4> QED
        BY <4>1, <4>3, <4>4, <4>5, <4>6
    <3> QED
      BY <3>3, <3>4
  <2>3. CASE x \in z + 1 .. n
    <3>1. x \in 1 .. n /\ z < x
      BY <1>5, <2>3
    <3>2. ASSUME NEW k \in 1 .. m PROVE bursts[k][2] < x
      <4>1. CASE k = m
        BY <3>1, <4>1
      <4>2. CASE k # m
        <5>1. k < m
          BY <1>1, <4>2
        <5>2. /\ bursts[k][2] < bursts[m][1] /\ bursts[m][1] <= bursts[m][2]
              /\ bursts[k][2] \in Nat /\ bursts[m][1] \in Nat
          BY <1>1, <1>3, <5>1
        <5> QED
          BY <1>5, <3>1, <5>2
      <4> QED
        BY <4>1, <4>2
    <3> QED
      BY <3>1, <3>2
  <2>4. x \in 1 .. a - 1 \/ (\E l \in 1 .. m - 1 : x \in Between(l)) \/ x \in z + 1 .. n
    <3> HIDE DEF Between, a, z
    <3> QED
      BY <1>9, <1>11
  <2> HIDE DEF Between
  <2> QED
    BY <2>1, <2>2, <2>3, <2>4
<1>12. ASSUME NEW x \in 1 .. n, \A k \in 1 .. m : x \notin bursts[k][1] .. bursts[k][2]
       PROVE  x \in Covered(gaps)
  <2> DEFINE K == {k \in 1 .. m : bursts[k][1] <= x}
  <2>1. CASE x < a
    <3>1. x \in 1 .. a - 1
      BY <1>5, <2>1
    <3> QED
      BY <1>9, <3>1
  <2>2. CASE ~ (x < a)
    <3>1. 1 \in K
      BY <1>1, <1>5, <2>2
    <3>2. K \in SUBSET (1 .. m) /\ K # {}
      BY <3>1
    <3>3. PICK k \in K : \A j \in K : j <= k
      <4> HIDE DEF K
      <4> QED
        BY <1>1, <3>2, LargestOf
    <3>4. k \in 1 .. m /\ bursts[k][1] <= x
      OBVIOUS
    <3>5. bursts[k][2] < x /\ bursts[k][2] \in Nat
      BY <1>3, <1>12, <3>4
    <3>6. CASE k = m
      <4>1. x \in z + 1 .. n
        BY <1>5, <3>5, <3>6
      <4> QED
        BY <1>9, <4>1
    <3>7. CASE k # m
      <4>1. k \in 1 .. m - 1 /\ k + 1 \in 1 .. m /\ ~ (k + 1 <= k)
        BY <1>1, <3>4, <3>7
      <4>2. k + 1 \notin K
        BY <3>3, <4>1
      <4>3. ~ (bursts[k + 1][1] <= x) /\ bursts[k + 1][1] \in Nat
        BY <1>3, <4>1, <4>2
      <4>4. x \in Between(k)
        BY <3>5, <4>3
      <4> HIDE DEF Between
      <4> QED
        BY <1>9, <4>1, <4>4
    <3> QED
      BY <3>6, <3>7
  <2> QED
    BY <2>1, <2>2
<1> QED
  BY <1>2, <1>10, <1>11, <1>12

(* The bursts of the report are those of RFC 3611.                         *)
LEMMA RfcAreClusters ==
  ASSUME NEW losses \in Bitmap, NEW g \in Nat
  PROVE  RfcBursts(losses, g) = {b \in Clusters(Lost(losses), g, 1) : b[2] > b[1]}
<1> DEFINE L == Lost(losses)
           Rfc == {r \in L \X L :
                     /\ r[1] < r[2]
                     /\ \A k \in L : k \in r[1] .. r[2] - 1 => \E n \in L : n \in k + 1 .. k + g
                     /\ ~ \E k \in L : k \in r[1] - g .. r[1] - 1
                     /\ ~ \E k \in L : k \in r[2] + 1 .. r[2] + g}
<1>1. L = {k \in DOMAIN losses : losses[k]}
  BY DEF Bitmap, Lost
<1>2. RfcBursts(losses, g) = Rfc
  BY <1>1, Zenon DEF RfcBursts
<1>3. ASSUME NEW r \in L \X L
      PROVE  r[1] < r[2] <=> r[1] <= r[2] /\ 1 <= r[1] /\ r[2] > r[1]
  <2>1. r[1] \in 1 .. Len(losses) /\ r[2] \in 1 .. Len(losses) /\ Len(losses) \in Nat
    BY <1>3 DEF Bitmap, Lost
  <2> QED
    BY <2>1
<1> HIDE DEF L
<1>4. Rfc = {b \in Clusters(L, g, 1) : b[2] > b[1]}
  BY <1>3, Zenon DEF Clusters, Near
<1> QED
  BY <1>2, <1>4 DEF L

LEMMA BurstsAreRfc ==
  ASSUME NEW losses \in Bitmap, NEW g \in Nat, g >= 1
  PROVE  LET bursts == eliminate_singleton_bursts(get_burst_indices(losses, g))
         IN  /\ bursts \in Seq(Nat \X Nat) /\ Range(bursts) = RfcBursts(losses, g)
             /\ Apart(bursts, Len(losses))
<1> DEFINE n == Len(losses)
           L == Lost(losses)
           C == Clusters(L, g, 1)
           bursts == eliminate_singleton_bursts(get_burst_indices(losses, g))
<1>1. n \in Nat /\ L \in SUBSET (1 .. n)
  BY DEF Bitmap, Lost
<1>2. Lists(get_burst_indices(losses, g), C)
  BY BurstIndicesAre
<1>3. Lists(bursts, {b \in C : b[2] > b[1]})
  BY <1>2, EliminateSingles
<1>4. RfcBursts(losses, g) = {b \in C : b[2] > b[1]}
  BY RfcAreClusters
<1> HIDE DEF bursts, L, n
<1>5. bursts \in Seq(Nat \X Nat) /\ Range(bursts) = RfcBursts(losses, g) /\ Ordered(bursts)
  BY <1>3, <1>4 DEF Lists
<1>6. \A k \in DOMAIN bursts : bursts[k] \in C
  BY <1>4, <1>5 DEF Range
<1>7. ASSUME NEW r \in C
      PROVE  /\ r[1] \in Nat /\ r[2] \in Nat /\ 1 <= r[1] /\ r[1] <= r[2] /\ r[2] <= n
  <2>1. r \in L \X L /\ r[1] <= r[2]
    BY Zenon DEF Clusters
  <2>2. r[1] \in L /\ r[2] \in L
    BY <2>1
  <2>3. r[1] \in 1 .. n /\ r[2] \in 1 .. n
    BY <1>1, <2>2
  <2> QED
    BY <1>1, <2>1, <2>3
<1>8. ASSUME NEW r \in C, NEW t \in C, r[1] < t[1] PROVE r[2] < t[1]
  BY <1>1, <1>8, ClustersApart
<1> HIDE DEF C
<1>9. Apart(bursts, n)
  <2>1. \A j, k \in DOMAIN bursts : j < k => bursts[j][2] < bursts[k][1]
    BY <1>5, <1>6, <1>8, Zenon DEF Ordered
  <2> QED
    BY <1>6, <1>7, <2>1, Zenon DEF Apart
<1> QED
  BY <1>5, <1>9 DEF bursts, n

LEMMA RatioOfNone ==
  ASSUME NEW losses, NEW positions, sum_bool(losses, positions) = 0, IsFiniteSet(positions)
  PROVE  SameRatio([lost |-> 0, of |-> 1], RatioIn(losses, positions))
<1> DEFINE c == Cardinality(positions)
           most == Max({c, 1})
<1>1. most \in Int
  <2>1. c \in Nat
    BY FS_CardinalityType
  <2> HIDE DEF c
  <2>2. Max({c, 1}) = IF c <= 1 THEN 1 ELSE c
    <3>1. CASE c <= 1
      <4>1. \A y \in {c, 1} : y <= 1
        BY <2>1, <3>1
      <4>2. {c, 1} \in SUBSET Int /\ 1 \in {c, 1}
        BY <2>1
      <4>3. Max({c, 1}) = 1
        BY <4>1, <4>2, MaxOf
      <4> QED
        BY <3>1, <4>3
    <3>2. CASE ~ (c <= 1)
      <4>1. \A y \in {c, 1} : y <= c
        BY <2>1, <3>2
      <4>2. {c, 1} \in SUBSET Int /\ c \in {c, 1}
        BY <2>1
      <4>3. Max({c, 1}) = c
        BY <4>1, <4>2, MaxOf
      <4> QED
        BY <3>2, <4>3
    <3> QED
      BY <3>1, <3>2
  <2> QED
    BY <2>1, <2>2
<1>2. RatioIn(losses, positions) = [lost |-> 0, of |-> most]
  BY DEF RatioIn
<1> HIDE DEF most
<1>3. 0 * most = 0 * 1
  BY <1>1
<1>4. [lost |-> 0, of |-> 1].lost * [lost |-> 0, of |-> most].of
        = [lost |-> 0, of |-> most].lost * [lost |-> 0, of |-> 1].of
  BY <1>3
<1> QED
  BY <1>2, <1>4, Zenon DEF SameRatio

LEMMA DensitiesOfBitmap ==
  ASSUME NEW losses \in Bitmap, NEW g \in Nat, g >= 1
  PROVE  DensitiesAreRfc(losses, g)
<1> DEFINE n == Len(losses)
           rfc == get_rfc_densities(losses, g)
           bursts == eliminate_singleton_bursts(get_burst_indices(losses, g))
           inside == UNION {r[1] .. r[2] : r \in RfcBursts(losses, g)}
           outside == (DOMAIN losses) \ inside
           lost == sum_bool(losses, DOMAIN losses)
           None == [lost |-> 0, of |-> 1]
<1>1. n \in Nat /\ DOMAIN losses = 1 .. n
  BY DEF Bitmap
<1>2. lost \in Nat
  <2>1. sum_bool(losses, 1 .. n) \in Nat
    BY <1>1, CountType
  <2> QED
    BY <1>1, <2>1
<1>3. /\ bursts \in Seq(Nat \X Nat) /\ Range(bursts) = RfcBursts(losses, g)
      /\ Apart(bursts, n)
  BY BurstsAreRfc
<1>4. Covered(bursts) = inside
  BY <1>3, Zenon DEF Covered
<1>5. IsFiniteSet(DOMAIN losses) /\ IsFiniteSet(outside)
  <2>1. IsFiniteSet(DOMAIN losses)
    BY <1>1, FS_Interval
  <2> QED
    BY <2>1, FS_Subset
<1>6. \A x : SameRatio(x, x)
  BY Zenon DEF SameRatio
<1>7. SameRatio(rfc.burst, RatioIn(losses, inside)) /\ SameRatio(rfc.gap, RatioIn(losses, outside))
  <2>1. CASE bursts = <<>>
    <3>1. inside = {}
      BY <1>4, <2>1, CoveredBase
    <3>2. outside = DOMAIN losses
      BY <3>1
    <3>3. SameRatio(None, RatioIn(losses, inside))
      <4>1. sum_bool(losses, {}) = 0
        <5>1. {k \in {} : losses[k]} = {}
          OBVIOUS
        <5> QED
          BY <5>1, FS_EmptySet DEF sum_bool
      <4>2. SameRatio(None, RatioIn(losses, {}))
        BY <4>1, FS_EmptySet, RatioOfNone
      <4> QED
        BY <3>1, <4>2
    <3> HIDE DEF bursts, inside, outside
    <3>4. CASE lost = 0
      <4>1. rfc = [burst |-> None, gap |-> None]
        <5>1. ~ (lost > 0)
          BY <3>4
        <5> QED
          BY <3>4, <5>1, Zenon DEF get_rfc_densities
      <4>2. SameRatio(None, RatioIn(losses, outside))
        BY <1>5, <3>2, <3>4, RatioOfNone
      <4>3. rfc.burst = None /\ rfc.gap = None
        BY <4>1
      <4> QED
        BY <3>3, <4>2, <4>3, Zenon
    <3>5. CASE lost > 0
      <4>1. rfc = [burst |-> None, gap |-> [lost |-> lost, of |-> Max({n, 1})]]
        <5>1. ~ (lost = 0)
          BY <3>5
        <5> QED
          BY <2>1, <3>5, <5>1, Zenon DEF get_rfc_densities, bursts
      <4>2. Cardinality(DOMAIN losses) = n
        <5>1. n - 1 + 1 = n /\ 1 <= n + 1 /\ (n - 1) + 1 = n
          BY <1>1
        <5>2. Cardinality(1 .. n) = (n - 1) + 1
          BY <1>1, <5>1, IntervalSize
        <5> QED
          BY <1>1, <5>1, <5>2
      <4>3. RatioIn(losses, outside) = [lost |-> lost, of |-> Max({n, 1})]
        BY <3>2, <4>2, Zenon DEF RatioIn
      <4>4. rfc.burst = None /\ rfc.gap = RatioIn(losses, outside)
        BY <4>1, <4>3
      <4> QED
        BY <1>6, <3>3, <4>4, Zenon
    <3>6. lost = 0 \/ lost > 0
      <4> HIDE DEF lost
      <4> QED
        BY <1>2
    <3> QED
      BY <3>4, <3>5, <3>6
  <2>2. CASE bursts # <<>>
    <3>1. lost > 0
      <4>1. PICK b : b \in Range(bursts)
        <5>1. 1 \in DOMAIN bursts
          BY <1>3, <2>2
        <5> QED
          BY <5>1 DEF Range
      <4>2. b \in Clusters(Lost(losses), g, 1)
        BY <1>3, <4>1, RfcAreClusters
      <4>3. b[1] \in Lost(losses)
        <5>1. b \in Lost(losses) \X Lost(losses)
          BY <4>2, Zenon DEF Clusters
        <5> QED
          BY <5>1
      <4>4. lost = Cardinality(Lost(losses))
        BY <1>1, Zenon DEF sum_bool, Lost
      <4>5. IsFiniteSet(Lost(losses)) /\ Lost(losses) # {}
        BY <1>1, <4>3, LostFinite
      <4>6. Cardinality(Lost(losses)) # 0
        BY <4>5, FS_EmptySet
      <4> HIDE DEF lost
      <4> QED
        BY <1>2, <4>4, <4>6
    <3>2. ~ (lost = 0)
      BY <3>1
    <3> DEFINE gaps == guardspace_ranges(bursts, n)
    <3>3. rfc = [burst |-> density_over_ranges(losses, bursts),
                 gap |-> density_over_ranges(losses, gaps)]
      BY <2>2, <3>1, <3>2, Zenon DEF get_rfc_densities
    <3>4. \A ranges : density_over_ranges(losses, ranges) = RatioIn(losses, Covered(ranges))
      BY Zenon DEF density_over_ranges, RatioIn, Covered
    <3>5. Covered(gaps) = outside
      <4>1. Covered(gaps) = (1 .. n) \ Covered(bursts)
        BY <1>1, <1>3, <2>2, GapsAreRest
      <4> QED
        BY <1>1, <1>4, <4>1, Zenon
    <3> HIDE DEF gaps, bursts, inside, outside
    <3>6. rfc.burst = RatioIn(losses, inside) /\ rfc.gap = RatioIn(losses, outside)
      <4>1. rfc.burst = density_over_ranges(losses, bursts) /\ rfc.gap = density_over_ranges(losses, gaps)
        BY <3>3
      <4> QED
        BY <1>4, <3>4, <3>5, <4>1, Zenon
    <3> QED
      BY <1>6, <3>6, Zenon
  <2> QED
    BY <2>1, <2>2
<1> QED
  BY <1>7, Zenon DEF DensitiesAreRfc

(***************************************************************************)
(* THEOREM.  The densities of a report are those of RFC 3611, for packets  *)
(* and for frames, whatever the bitmap and the gap threshold: the search   *)
(* of get_burst_indices finds each burst once and in full, single losses   *)
(* are left out, and the ranges get_rfc_densities_inner puts between the   *)
(* bursts are all the rest of the bitmap.                                  *)
(***************************************************************************)
THEOREM DensitiesMatchRfcAlways == ReportSpec => []DensitiesMatchRfc
<1>1. Collected => DensitiesMatchRfc
  <2> SUFFICES ASSUME Collected PROVE DensitiesMatchRfc
    OBVIOUS
  <2>1. info.packet_losses \in Bitmap /\ info.frame_losses \in Bitmap
    BY CollectedBitmaps
  <2>2. /\ G_MIN_PACKET \in Nat /\ G_MIN_PACKET >= 1
        /\ G_MIN_FRAME \in Nat /\ G_MIN_FRAME >= 1
    BY MetricsAssumption
  <2>3. DensitiesAreRfc(info.packet_losses, G_MIN_PACKET)
    BY <2>1, <2>2, DensitiesOfBitmap
  <2>4. DensitiesAreRfc(info.frame_losses, G_MIN_FRAME)
    BY <2>1, <2>2, DensitiesOfBitmap
  <2> QED
    BY <2>3, <2>4 DEF DensitiesMatchRfc
<1> QED
  BY <1>1, CollectedAlways, PTL

=============================================================================
