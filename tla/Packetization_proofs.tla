------------------------ MODULE Packetization_proofs ------------------------
(***************************************************************************)
(* Proofs about Packetization, for every window length, stripe bounds,     *)
(* floor and parity delay.                                                 *)
(***************************************************************************)
EXTENDS Packetization, CommonLemmas, SequenceTheorems

(* The oldest number leaves.                                               *)
LEMMA SumWithoutFirst ==
  ASSUME NEW n \in Nat \ {0}, NEW f, \A i \in 1 .. n : f[i] \in Nat,
         NEW g, \A i \in 1 .. n - 1 : g[i] = f[i + 1]
  PROVE  SumFunctionOnSet(g, 1 .. n - 1) = SumFunctionOnSet(f, 1 .. n) - f[1]
<1>1. ShiftedBy(g, f, 1, 1, n - 1)
  BY DEF ShiftedBy
<1>2. SumFunctionOnSet(g, 1 .. n - 1) = SumFunctionOnSet(f, 1 + 1 .. (n - 1) + 1)
  BY <1>1, SumShifted
<1>3. SumFunctionOnSet(f, 1 .. n) = f[1] + SumFunctionOnSet(f, 1 + 1 .. n)
  BY SumFirst
<1>4. (n - 1) + 1 = n /\ f[1] \in Int
  OBVIOUS
<1>5. SumFunctionOnSet(f, 1 + 1 .. n) \in Int
  <2>1. IsFiniteSet(1 + 1 .. n) /\ \A i \in 1 + 1 .. n : f[i] \in Int
    BY FS_Interval
  <2> QED
    BY <2>1, SumType DEF Summable
<1> QED
  BY <1>2, <1>3, <1>4, <1>5

(* A number is added.                                                      *)
LEMMA SumWithLast ==
  ASSUME NEW n \in Nat, NEW f, NEW g, \A i \in 1 .. n : f[i] \in Nat /\ g[i] = f[i],
         g[n + 1] \in Nat
  PROVE  SumFunctionOnSet(g, 1 .. n + 1) = SumFunctionOnSet(f, 1 .. n) + g[n + 1]
<1>1. \A i \in 1 .. n + 1 : g[i] \in Int
  <2>1. \A i \in 1 .. n + 1 : i \in 1 .. n \/ i = n + 1
    OBVIOUS
  <2> QED
    BY <2>1
<1>2. SumFunctionOnSet(g, 1 .. n + 1) = g[n + 1] + SumFunctionOnSet(g, 1 .. (n + 1) - 1)
  BY <1>1, SumLast
<1>3. Summable(f, 1 .. n) /\ Summable(g, 1 .. n)
  <2>1. IsFiniteSet(1 .. n)
    BY FS_Interval
  <2> QED
    BY <2>1 DEF Summable
<1>4. SumFunctionOnSet(f, 1 .. n) = SumFunctionOnSet(g, 1 .. n)
  BY <1>3, SumSame
<1>5. SumFunctionOnSet(f, 1 .. n) \in Int /\ (n + 1) - 1 = n
  BY <1>3, SumType
<1> QED
  BY <1>2, <1>4, <1>5

-----------------------------------------------------------------------------
Entry == [data : 1 .. MAX_DATA, parity : 0 .. MAX_FEC]
DataOf(history) == [i \in 1 .. Len(history) |-> history[i].data]
ParityOf(history) == [i \in 1 .. Len(history) |-> history[i].parity]

Balanced(history, data_sum, parity_sum) ==
  /\ history \in Seq(Entry)
  /\ data_sum = SumFunctionOnSet(DataOf(history), 1 .. Len(history))
  /\ parity_sum = SumFunctionOnSet(ParityOf(history), 1 .. Len(history))

LEMMA U16Value == U16 \in Nat /\ U16 = 65536
BY DEF U16

LEMMA Constants ==
  /\ WINDOW \in Nat /\ WINDOW > 0 /\ MAX_DATA \in Nat /\ MAX_DATA > 0 /\ MAX_FEC \in Nat
  /\ MIN_PARITIES \subseteq Nat
<1>1. /\ WINDOW \in Nat \ {0} /\ MAX_DATA \in Nat \ {0} /\ MAX_FEC \in Nat
      /\ MIN_PARITIES \subseteq 0 .. U16 - 1
  BY PacketizationAssumption, Zenon
<1>2. MIN_PARITIES \subseteq Nat
  <2> SUFFICES ASSUME NEW k \in MIN_PARITIES PROVE k \in Nat
    OBVIOUS
  <2>1. k \in 0 .. U16 - 1
    BY <1>1, Zenon
  <2> QED
    BY <2>1
<1> QED
  BY <1>1, <1>2

(* The codes fit u16.                                                      *)
LEMMA CodesFitU16 ==
  /\ WINDOW * MAX_DATA \in Nat /\ WINDOW * MAX_FEC \in Nat
  /\ WINDOW * MAX_DATA + WINDOW * MAX_FEC <= 65536
  /\ WINDOW * MAX_DATA <= 65535 /\ WINDOW * MAX_FEC <= 65535
<1>1. WINDOW \in Nat \ {0} /\ MAX_DATA \in Nat \ {0} /\ MAX_FEC \in Nat
  BY PacketizationAssumption
<1>2. MAX_FEC > 0
  <2>1. (MAX_DATA + 2 - 1) \div 2 <= MAX_FEC
    BY PacketizationAssumption DEF num_parity_stripes_high, CeilDiv
  <2> QED
    BY <1>1, <2>1, Z3
<1>3. WINDOW * (MAX_DATA + MAX_FEC) = WINDOW * MAX_DATA + WINDOW * MAX_FEC
  BY <1>1, Z3
<1>4. WINDOW * (MAX_DATA + MAX_FEC) <= 65536
  BY PacketizationAssumption DEF U16
<1>5. /\ WINDOW * MAX_DATA \in Nat /\ WINDOW * MAX_DATA > 0
      /\ WINDOW * MAX_FEC \in Nat /\ WINDOW * MAX_FEC > 0
  BY <1>1, <1>2, Z3
<1> DEFINE a == WINDOW * MAX_DATA
           b == WINDOW * MAX_FEC
<1>6. a \in Nat /\ a > 0 /\ b \in Nat /\ b > 0 /\ a + b <= 65536
  BY <1>3, <1>4, <1>5
<1> HIDE DEF a, b
<1>7. a <= 65535 /\ b <= 65535
  BY <1>6
<1> QED
  BY <1>6, <1>7 DEF a, b

(* parity_ratio: a frame's own share is within the code's rows, because    *)
(* build checked it for the largest frame.                                 *)
LEMMA RatioFits ==
  ASSUME NEW feedback \in Feedback, NEW num_data \in Nat
  PROVE  /\ ParityStripes(feedback, num_data) \in Nat
         /\ num_data <= MAX_DATA => ParityStripes(feedback, num_data) <= MAX_FEC
<1>1. /\ (num_data + 2 - 1) \div 2 \in Nat /\ (num_data + 4 - 1) \div 4 \in Nat
      /\ (num_data + 4 - 1) \div 4 <= (num_data + 2 - 1) \div 2
      /\ num_data <= MAX_DATA => (num_data + 2 - 1) \div 2 <= (MAX_DATA + 2 - 1) \div 2
  BY Constants, Z3
<1>2. (MAX_DATA + 2 - 1) \div 2 <= MAX_FEC /\ (MAX_DATA + 2 - 1) \div 2 \in Nat
  <2>1. (MAX_DATA + 2 - 1) \div 2 <= MAX_FEC
    BY PacketizationAssumption DEF num_parity_stripes_high, CeilDiv
  <2> QED
    BY <2>1, Constants, Z3
<1>3. CASE feedback = "None"
  BY <1>3, Constants DEF ParityStripes
<1>4. CASE feedback = "High"
  BY <1>1, <1>2, <1>4, Constants DEF ParityStripes, CeilDiv
<1>5. CASE feedback = "Low"
  BY <1>1, <1>2, <1>5, Constants DEF ParityStripes, CeilDiv
<1> QED
  BY <1>3, <1>4, <1>5 DEF Feedback

(* The share of a level grows with the stripes, at most to that of High,   *)
(* and never exceeds them.                                                 *)
LEMMA RatioMonotone ==
  ASSUME NEW feedback \in Feedback, NEW n \in Nat, NEW m \in Nat, n <= m
  PROVE  /\ ParityStripes(feedback, n) <= num_parity_stripes_high(m)
         /\ num_parity_stripes_high(m) \in Nat
<1>1. /\ (n + 4 - 1) \div 4 <= (m + 2 - 1) \div 2 /\ (n + 2 - 1) \div 2 <= (m + 2 - 1) \div 2
      /\ (m + 2 - 1) \div 2 \in Nat
  BY Z3
<1>2. CASE feedback = "None"
  BY <1>1, <1>2 DEF ParityStripes, num_parity_stripes_high, CeilDiv
<1>3. CASE feedback = "High"
  BY <1>1, <1>3 DEF ParityStripes, num_parity_stripes_high, CeilDiv
<1>4. CASE feedback = "Low"
  BY <1>1, <1>4 DEF ParityStripes, num_parity_stripes_high, CeilDiv
<1> QED
  BY <1>2, <1>3, <1>4 DEF Feedback

LEMMA RatioSmall ==
  ASSUME NEW feedback \in Feedback, NEW n \in Nat
  PROVE  ParityStripes(feedback, n) <= n
<1>1. (n + 4 - 1) \div 4 <= n /\ (n + 2 - 1) \div 2 <= n
  BY Z3
<1>2. CASE feedback = "None"
  BY <1>2 DEF ParityStripes
<1>3. CASE feedback = "High"
  BY <1>1, <1>3 DEF ParityStripes, CeilDiv
<1>4. CASE feedback = "Low"
  BY <1>1, <1>4 DEF ParityStripes, CeilDiv
<1> QED
  BY <1>2, <1>3, <1>4 DEF Feedback

(* u16 addition.                                                           *)
LEMMA Wraps ==
  ASSUME NEW a \in Nat, NEW b \in Nat
  PROVE  (a + b) % U16 \in Nat /\ (a + b < U16 => (a + b) % U16 = a + b)
BY Z3 DEF U16

LEMMA EntriesInRange ==
  ASSUME NEW history \in Seq(Entry)
  PROVE  /\ Len(history) \in Nat
         /\ \A i \in 1 .. Len(history) :
              DataOf(history)[i] \in 0 .. MAX_DATA /\ ParityOf(history)[i] \in 0 .. MAX_FEC
<1>1. Len(history) \in Nat
  OBVIOUS
<1>2. ASSUME NEW i \in 1 .. Len(history)
      PROVE  DataOf(history)[i] \in 0 .. MAX_DATA /\ ParityOf(history)[i] \in 0 .. MAX_FEC
  <2>1. history[i] \in Entry
    BY ElementOfSeq
  <2>2. DataOf(history)[i] = history[i].data /\ ParityOf(history)[i] = history[i].parity
    BY DEF DataOf, ParityOf
  <2> QED
    BY <2>1, <2>2, Constants DEF Entry
<1> QED
  BY <1>1, <1>2

LEMMA SumsInWindow ==
  ASSUME NEW history, NEW data_sum, NEW parity_sum, Balanced(history, data_sum, parity_sum),
         Len(history) <= WINDOW
  PROVE  data_sum \in 0 .. WINDOW * MAX_DATA /\ parity_sum \in 0 .. WINDOW * MAX_FEC
<1> DEFINE n == Len(history)
<1>1. n \in Nat /\ n <= WINDOW
  BY DEF Balanced
<1>2. /\ data_sum \in Nat /\ data_sum <= n * MAX_DATA
      /\ parity_sum \in Nat /\ parity_sum <= n * MAX_FEC
  BY Constants, EntriesInRange, SumInBounds DEF Balanced
<1> HIDE DEF n
<1>3. n * MAX_DATA <= WINDOW * MAX_DATA /\ n * MAX_FEC <= WINDOW * MAX_FEC
  BY <1>1, Constants, Z3
<1>4. /\ n * MAX_DATA \in Int /\ WINDOW * MAX_DATA \in Int
      /\ n * MAX_FEC \in Int /\ WINDOW * MAX_FEC \in Int
  BY <1>1, Constants
<1> QED
  BY <1>2, <1>3, <1>4

LEMMA SumsFitU16 ==
  ASSUME NEW history, NEW data_sum, NEW parity_sum, Balanced(history, data_sum, parity_sum),
         Len(history) <= WINDOW
  PROVE  data_sum \in 0 .. U16 - 1 /\ parity_sum \in 0 .. U16 - 1
<1> DEFINE a == WINDOW * MAX_DATA
           b == WINDOW * MAX_FEC
<1>1. data_sum \in 0 .. a /\ parity_sum \in 0 .. b
  BY SumsInWindow
<1>2. a \in Nat /\ a <= 65535 /\ b \in Nat /\ b <= 65535
  BY CodesFitU16
<1> HIDE DEF a, b
<1>3. a <= U16 - 1 /\ b <= U16 - 1 /\ U16 \in Int
  BY <1>2, U16Value
<1>4. data_sum \in Int /\ 0 <= data_sum /\ data_sum <= a
      /\ parity_sum \in Int /\ 0 <= parity_sum /\ parity_sum <= b
  BY <1>1
<1> QED
  BY <1>2, <1>3, <1>4

(* The window slides: the frame that leaves takes its share with it.       *)
LEMMA KeptBalanced ==
  ASSUME Balanced(window_history, window_data_sum, window_parity_sum),
         Len(window_history) <= WINDOW
  PROVE  Balanced(Kept, KeptData, KeptParity) /\ Len(Kept) \in Nat /\ Len(Kept) < WINDOW
<1>1. window_history \in Seq(Entry) /\ Len(window_history) \in Nat
  BY DEF Balanced
<1>2. CASE ~ Full
  BY <1>1, <1>2, Constants DEF Full, Kept, WithoutOldest, KeptData, KeptParity
<1>3. CASE Full
  <2> DEFINE h == window_history
             n == Len(window_history)
  <2>1. n \in Nat \ {0} /\ n = WINDOW
    BY <1>1, <1>3, Constants DEF Full
  <2>2. /\ Tail(h) \in Seq(Entry) /\ Len(Tail(h)) = n - 1
        /\ \A i \in 1 .. n - 1 : Tail(h)[i] = h[i + 1]
        /\ Head(h) = h[1] /\ h[1] \in Entry
    BY <1>1, <2>1
  <2>3. \A i \in 1 .. n : DataOf(h)[i] \in Nat /\ ParityOf(h)[i] \in Nat
    BY <1>1, EntriesInRange, Constants
  <2>4. \A i \in 1 .. n - 1 : /\ DataOf(Tail(h))[i] = DataOf(h)[i + 1]
                              /\ ParityOf(Tail(h))[i] = ParityOf(h)[i + 1]
    BY <2>1, <2>2 DEF DataOf, ParityOf
  <2>5. DataOf(h)[1] = Head(h).data /\ ParityOf(h)[1] = Head(h).parity
    BY <2>1, <2>2 DEF DataOf, ParityOf
  <2>6. SumFunctionOnSet(DataOf(Tail(h)), 1 .. n - 1)
          = SumFunctionOnSet(DataOf(h), 1 .. n) - DataOf(h)[1]
    BY <2>1, <2>3, <2>4, SumWithoutFirst
  <2>7. SumFunctionOnSet(ParityOf(Tail(h)), 1 .. n - 1)
          = SumFunctionOnSet(ParityOf(h), 1 .. n) - ParityOf(h)[1]
    BY <2>1, <2>3, <2>4, SumWithoutFirst
  <2> QED
    BY <1>3, <2>1, <2>2, <2>5, <2>6, <2>7 DEF Balanced, Full, Kept, WithoutOldest, KeptData, KeptParity
<1> QED
  BY <1>2, <1>3

LEMMA AppendBalanced ==
  ASSUME NEW history, NEW data_sum, NEW parity_sum, Balanced(history, data_sum, parity_sum),
         NEW d \in 1 .. MAX_DATA, NEW p \in 0 .. MAX_FEC
  PROVE  Balanced(Append(history, [data |-> d, parity |-> p]), data_sum + d, parity_sum + p)
<1> DEFINE new == Append(history, [data |-> d, parity |-> p])
           n == Len(history)
<1>1. history \in Seq(Entry) /\ n \in Nat
  BY DEF Balanced
<1>2. [data |-> d, parity |-> p] \in Entry
  BY DEF Entry
<1>3. /\ new \in Seq(Entry) /\ Len(new) = n + 1
      /\ \A i \in 1 .. n : new[i] = history[i]
      /\ new[n + 1] = [data |-> d, parity |-> p]
  BY <1>1, <1>2
<1>4. /\ \A i \in 1 .. n : DataOf(new)[i] = DataOf(history)[i]
      /\ \A i \in 1 .. n : ParityOf(new)[i] = ParityOf(history)[i]
      /\ DataOf(new)[n + 1] = d /\ ParityOf(new)[n + 1] = p
  <2>1. n + 1 \in 1 .. n + 1 /\ \A i \in 1 .. n : i \in 1 .. n + 1
    BY <1>1
  <2> HIDE DEF new
  <2> QED
    BY <1>1, <1>3, <2>1 DEF DataOf, ParityOf
<1> HIDE DEF new
<1>8. \A i \in 1 .. n : DataOf(history)[i] \in Nat /\ ParityOf(history)[i] \in Nat
  BY <1>1, EntriesInRange, Constants
<1>5. SumFunctionOnSet(DataOf(new), 1 .. n + 1)
        = SumFunctionOnSet(DataOf(history), 1 .. n) + d
  <2>1. d \in Nat
    BY Constants
  <2> QED
    BY <1>1, <1>4, <1>8, <2>1, SumWithLast
<1>6. SumFunctionOnSet(ParityOf(new), 1 .. n + 1)
        = SumFunctionOnSet(ParityOf(history), 1 .. n) + p
  <2>1. p \in Nat
    BY Constants
  <2> QED
    BY <1>1, <1>4, <1>8, <2>1, SumWithLast
<1>7. Balanced(new, data_sum + d, parity_sum + p)
  BY <1>3, <1>5, <1>6 DEF Balanced
<1> QED
  BY <1>7 DEF new

-----------------------------------------------------------------------------
EvenShare == per_frame_extra(min_window_parity, WINDOW)

LEMMA FloorType ==
  ASSUME min_window_parity \in Nat
  PROVE  Floor \in Nat /\ Floor <= min_window_parity /\ Floor <= MAX_FEC
BY Constants DEF Floor, AtMost

(* The share of a floor, W times, is the floor and less than W more.       *)
LEMMA ShareBounds ==
  ASSUME NEW floor \in Nat
  PROVE  /\ per_frame_extra(floor, WINDOW) \in Nat
         /\ per_frame_extra(floor, WINDOW) * WINDOW >= floor
         /\ per_frame_extra(floor, WINDOW) * WINDOW <= floor + WINDOW - 1
<1> DEFINE n == floor + WINDOW - 1
           q == n \div WINDOW
<1>1. WINDOW \in Nat \ {0}
  BY Constants
<1>2. n \in Nat
  BY <1>1
<1> HIDE DEF n
<1>3. q \in Nat /\ n % WINDOW \in 0 .. WINDOW - 1 /\ n = q * WINDOW + (n % WINDOW)
  BY <1>1, <1>2, DivisionWithRemainder
<1> HIDE DEF q
<1>4. q * WINDOW \in Nat
  BY <1>1, <1>3, Z3
<1>5. q * WINDOW >= floor /\ q * WINDOW <= floor + WINDOW - 1
  BY <1>1, <1>3, <1>4 DEF n
<1> QED
  BY <1>3, <1>5 DEF per_frame_extra, CeilDiv, q, n

(* In a window of several frames no frame's share overflows, and a sum     *)
(* that overflows has a floor whose even share fills the frame.            *)
LEMMA LargeFloor ==
  ASSUME WINDOW > 1, NEW floor \in 0 .. U16 - 1, NEW base \in 0 .. MAX_FEC,
         NEW data \in 0 .. WINDOW * MAX_DATA
  PROVE  /\ base + per_frame_extra(floor, WINDOW) < U16
         /\ data + floor >= U16 => per_frame_extra(floor, WINDOW) >= MAX_FEC
<1> DEFINE e == per_frame_extra(floor, WINDOW)
           w == WINDOW
<1>1. /\ w \in Nat /\ w >= 2 /\ MAX_FEC \in Nat /\ floor \in Nat /\ base \in Nat
      /\ base <= MAX_FEC /\ U16 = 65536 /\ floor <= 65535 /\ data \in Nat
  <2>1. WINDOW * MAX_DATA \in Nat
    BY CodesFitU16
  <2> QED
    BY <2>1, Constants DEF U16
<1>2. e \in Nat /\ e * w >= floor /\ e * w <= floor + w - 1
  BY <1>1, ShareBounds
<1>3. /\ w * MAX_FEC \in Nat /\ w * MAX_FEC <= 65535 /\ data + w * MAX_FEC <= 65536
  BY <1>1, CodesFitU16
<1> HIDE DEF e, w
<1>4. base + e < U16
  <2>1. MAX_FEC <= 32767
    BY <1>1, <1>3, Z3
  <2>2. e <= 32768
    <3> DEFINE m == e - 1
    <3>1. m \in Int /\ m * w = e * w - w /\ e * w \in Nat
      BY <1>1, <1>2, Z3
    <3>2. m * w <= 65534
      BY <1>1, <1>2, <3>1
    <3> HIDE DEF m
    <3>3. m <= 32767
      BY <1>1, <3>1, <3>2, Z3
    <3> QED
      BY <1>2, <3>3 DEF m
  <2> QED
    BY <1>1, <1>2, <2>1, <2>2
<1>5. ASSUME data + floor >= U16 PROVE e >= MAX_FEC
  <2>1. e * w \in Nat /\ e * w >= w * MAX_FEC
    BY <1>1, <1>2, <1>3, <1>5
  <2> QED
    BY <1>1, <1>2, <2>1, Z3
<1> QED
  BY <1>4, <1>5 DEF e

(* The parity of one frame: within the code's rows, and enough to bring    *)
(* the window to its floor unless the rows run out.                        *)
LEMMA AdjustedIsEnough ==
  ASSUME Balanced(window_history, window_data_sum, window_parity_sum),
         Len(window_history) <= WINDOW, min_window_parity \in MIN_PARITIES,
         NEW feedback \in Feedback, NEW num_data \in 1 .. MAX_DATA
  PROVE  /\ Adjusted(num_data, feedback) \in 0 .. MAX_FEC
         /\ FloorFits => KeptParity + Adjusted(num_data, feedback) >= Floor
         /\ FloorFits /\ EvenShare <= MAX_FEC => Adjusted(num_data, feedback) >= EvenShare
         /\ KeptParity \in Nat
<1> DEFINE base == ParityStripes(feedback, num_data)
           total == KeptData + num_data
           ratio == ParityStripes(feedback, total)
           target == (ratio + min_window_parity) % U16
           gap == SaturatingSub(target, KeptParity + base)
           extra == EvenShare
           share == (base + extra) % U16
<1>1. Balanced(Kept, KeptData, KeptParity) /\ Len(Kept) \in Nat /\ Len(Kept) < WINDOW
  BY KeptBalanced
<1>2. KeptData \in Nat /\ KeptParity \in Nat
  BY <1>1, Constants, SumsFitU16
<1>3. /\ min_window_parity \in Nat /\ MAX_FEC \in Nat /\ min_window_parity \in 0 .. U16 - 1
      /\ U16 = 65536 /\ WINDOW \in Nat \ {0}
  <2>1. MIN_PARITIES \subseteq 0 .. U16 - 1
    BY PacketizationAssumption, Zenon
  <2>2. min_window_parity \in 0 .. U16 - 1
    BY <2>1, Zenon
  <2> QED
    BY <2>2, Constants, U16Value
<1>4. base \in Nat /\ base <= MAX_FEC /\ ratio \in Nat /\ total \in Nat
      /\ ratio <= total /\ total <= WINDOW * MAX_DATA
  <2>1. num_data \in Nat /\ total \in Nat /\ num_data <= MAX_DATA
    BY <1>2
  <2>2. ratio <= total
    BY <2>1, RatioSmall
  <2>3. total <= WINDOW * MAX_DATA
    <3>0. 0 \in 0 .. MAX_FEC
      BY <1>3
    <3>1. Balanced(Append(Kept, [data |-> num_data, parity |-> 0]), KeptData + num_data, KeptParity + 0)
      BY <1>1, <3>0, AppendBalanced, Zenon
    <3> DEFINE longer == Append(Kept, [data |-> num_data, parity |-> 0])
    <3>2. Len(longer) <= WINDOW
      <4>1. Kept \in Seq(Entry)
        BY <1>1 DEF Balanced
      <4>2. Len(longer) = Len(Kept) + 1
        BY <4>1
      <4> QED
        BY <1>1, <1>3, <4>2
    <3> HIDE DEF longer
    <3>3. Balanced(longer, total, KeptParity + 0)
      BY <3>1 DEF longer
    <3> QED
      BY <3>2, <3>3, SumsInWindow
  <2> QED
    BY <2>1, <2>2, <2>3, RatioFits
<1>5. extra \in Nat
  BY <1>3, ShareBounds DEF EvenShare
<1>6. Adjusted(num_data, feedback) = AtMost(AtLeast(base + gap, share), MAX_FEC)
  BY DEF Adjusted, TopUp, Target, WithShare, EvenShare, KeptTotals
<1>7. WINDOW > 1 =>
        /\ base + extra < U16
        /\ total + min_window_parity >= U16 => extra >= MAX_FEC
  <2> HIDE DEF base, total
  <2>1. total \in 0 .. WINDOW * MAX_DATA /\ base \in 0 .. MAX_FEC
    BY <1>3, <1>4, CodesFitU16
  <2>2. min_window_parity \in 0 .. U16 - 1
    BY <1>3
  <2>3. WINDOW > 1 =>
          /\ base + per_frame_extra(min_window_parity, WINDOW) < U16
          /\ total + min_window_parity >= U16
               => per_frame_extra(min_window_parity, WINDOW) >= MAX_FEC
    BY <2>1, <2>2, LargeFloor, Zenon
  <2> QED
    BY <2>3 DEF EvenShare
<1>8. FloorFits =>
        WINDOW > 1 \/ (ratio + min_window_parity < U16 /\ base + extra < U16)
  <2> SUFFICES ASSUME FloorFits, ~ (WINDOW > 1)
               PROVE  ratio + min_window_parity < U16 /\ base + extra < U16
    OBVIOUS
  <2>1. num_parity_stripes_high(MAX_DATA) + min_window_parity < U16 /\ WINDOW = 1
    BY <1>3 DEF FloorFits
  <2>2. total <= MAX_DATA
    BY <1>3, <1>4, <2>1, Constants
  <2>3. /\ ratio <= num_parity_stripes_high(MAX_DATA)
        /\ base <= num_parity_stripes_high(MAX_DATA)
        /\ num_parity_stripes_high(MAX_DATA) \in Nat
    BY <1>3, <1>4, <2>2, RatioMonotone, Constants
  <2>4. extra <= min_window_parity
    <3>1. extra * 1 <= min_window_parity + 1 - 1
      BY <1>3, <2>1, ShareBounds DEF EvenShare
    <3> QED
      BY <1>3, <1>5, <3>1
  <2> QED
    BY <1>3, <1>4, <1>5, <2>1, <2>3, <2>4
<1>9. /\ target \in Nat /\ share \in Nat
      /\ ratio + min_window_parity < U16 => target = ratio + min_window_parity
      /\ base + extra < U16 => share = base + extra
  <2> HIDE DEF base, ratio, extra
  <2>3. ratio \in Nat /\ min_window_parity \in Nat
    BY <1>3, <1>4
  <2>1. /\ (ratio + min_window_parity) % U16 \in Nat
        /\ ratio + min_window_parity < U16
             => (ratio + min_window_parity) % U16 = ratio + min_window_parity
    BY <2>3, Wraps, Zenon
  <2>2. /\ (base + extra) % U16 \in Nat
        /\ base + extra < U16 => (base + extra) % U16 = base + extra
    BY <1>4, <1>5, Wraps
  <2> QED
    BY <2>1, <2>2
<1> HIDE DEF target, share
<1>10. gap \in Nat /\ KeptParity + base + gap >= target
  BY <1>2, <1>4, <1>9 DEF SaturatingSub
<1> HIDE DEF base, ratio, total, gap, extra
<1>11. /\ Adjusted(num_data, feedback) \in 0 .. MAX_FEC
       /\ Adjusted(num_data, feedback) >= AtMost(share, MAX_FEC)
       /\ Adjusted(num_data, feedback) >= AtMost(base + gap, MAX_FEC)
  BY <1>3, <1>4, <1>6, <1>9, <1>10 DEF AtMost, AtLeast
<1>12. ASSUME FloorFits PROVE share = base + extra
  BY <1>7, <1>8, <1>9, <1>12
<1>13. ASSUME FloorFits PROVE KeptParity + Adjusted(num_data, feedback) >= Floor
  <2>1. CASE ratio + min_window_parity < U16
    <3>1. target >= min_window_parity
      BY <1>3, <1>4, <1>9, <2>1
    <3> QED
      BY <1>2, <1>3, <1>4, <1>9, <1>10, <1>11, <3>1 DEF Floor, AtMost
  <2>2. CASE ~ (ratio + min_window_parity < U16)
    <3>1. extra >= MAX_FEC
      BY <1>3, <1>4, <1>7, <1>8, <1>13, <2>2
    <3> QED
      BY <1>2, <1>3, <1>4, <1>5, <1>11, <1>12, <1>13, <3>1 DEF Floor, AtMost
  <2> QED
    BY <2>1, <2>2
<1>14. ASSUME FloorFits, extra <= MAX_FEC PROVE Adjusted(num_data, feedback) >= extra
  BY <1>3, <1>4, <1>5, <1>11, <1>12, <1>14 DEF AtMost
<1> QED
  BY <1>2, <1>11, <1>13, <1>14 DEF extra

(* The inductive invariant: WindowFloor needs the running sum to be the    *)
(* window's sum, or what a leaving frame subtracts could exceed it.        *)
Accounted ==
  /\ PlanTypeOK /\ WindowFloor /\ ParityFitsCode
  /\ Balanced(window_history, window_data_sum, window_parity_sum)

LEMMA InitAccounted == PlanInit => Accounted
<1> SUFFICES ASSUME PlanInit PROVE Accounted
  OBVIOUS
<1>1. PICK delay \in PARITY_DELAYS : delayed_parity = [i \in 1 .. delay |-> 0]
  BY DEF PlanInit
<1>2. delayed_parity \in Seq(0 .. MAX_FEC)
  <2>1. delay \in Nat /\ 0 \in 0 .. MAX_FEC
    BY Constants, PacketizationAssumption
  <2> QED
    BY <1>1, <2>1
<1>3. Balanced(window_history, window_data_sum, window_parity_sum)
  <2>1. /\ window_history = <<>> /\ Len(window_history) = 0
        /\ window_data_sum = 0 /\ window_parity_sum = 0 /\ window_history \in Seq(Entry)
    BY DEF PlanInit
  <2> QED
    BY <2>1, SumEmpty DEF Balanced
<1>4. PlanTypeOK
  BY <1>2, Constants, U16Value DEF PlanInit, PlanTypeOK
<1> QED
  BY <1>3, <1>4, Constants DEF PlanInit, Accounted, WindowFloor, ParityFitsCode, NoPlan

(* The delay queue: what comes out went in as a plan or at the start.      *)
LEMMA EmitFits ==
  ASSUME delayed_parity \in Seq(0 .. MAX_FEC), NEW num_data,
         NEW produced \in 0 .. MAX_FEC, Emit(num_data, produced)
  PROVE  delayed_parity' \in Seq(0 .. MAX_FEC) /\ ParityFitsCode'
<1> DEFINE queue == Append(delayed_parity, produced)
           Rows == 0 .. MAX_FEC
<1>1. delayed_parity \in Seq(Rows) /\ produced \in Rows
  OBVIOUS
<1> HIDE DEF Rows
<1>2. queue \in Seq(Rows) /\ queue # <<>>
  BY <1>1, AppendProperties
<1> HIDE DEF queue
<1>3. Head(queue) \in Rows /\ Tail(queue) \in Seq(Rows)
  BY <1>2, HeadTailProperties
<1>4. delayed_parity' = Tail(queue) /\ plan'.parity = Head(queue)
  BY DEF Emit, queue, specs_for_stripes
<1> QED
  BY <1>3, <1>4, Constants DEF ParityFitsCode, Rows

LEMMA NextAccounted == Accounted /\ [PlanNext]_plan_vars => Accounted'
<1> SUFFICES ASSUME Accounted, [PlanNext]_plan_vars PROVE Accounted'
  OBVIOUS
<1>1. /\ Balanced(window_history, window_data_sum, window_parity_sum)
      /\ Len(window_history) <= WINDOW /\ min_window_parity \in MIN_PARITIES
      /\ delayed_parity \in Seq(0 .. MAX_FEC)
  BY DEF Accounted, PlanTypeOK
<1>2. ASSUME NEW num_data \in 1 .. MAX_DATA, NEW feedback \in Feedback,
             PlanWithFloor(num_data, feedback)
      PROVE  Accounted'
  <2> DEFINE produced == Adjusted(num_data, feedback)
  <2>1. /\ produced \in 0 .. MAX_FEC /\ KeptParity \in Nat
        /\ FloorFits => KeptParity + produced >= Floor
    BY <1>1, AdjustedIsEnough
  <2>2. /\ window_history' = Append(Kept, [data |-> num_data, parity |-> produced])
        /\ window_data_sum' = KeptData + num_data
        /\ window_parity_sum' = KeptParity + produced
        /\ Emit(num_data, produced) /\ min_window_parity' = min_window_parity
    BY <1>2 DEF PlanWithFloor
  <2> HIDE DEF produced
  <2>3. delayed_parity' \in Seq(0 .. MAX_FEC) /\ ParityFitsCode'
    BY <1>1, <2>1, <2>2, EmitFits
  <2>4. Balanced(Kept, KeptData, KeptParity) /\ Len(Kept) \in Nat /\ Len(Kept) < WINDOW
    BY <1>1, KeptBalanced
  <2>5. Balanced(window_history', window_data_sum', window_parity_sum')
    BY <2>1, <2>2, <2>4, AppendBalanced
  <2>6. Len(window_history') <= WINDOW /\ window_history' \in Seq(Entry)
    BY <2>2, <2>4, <2>5, Constants DEF Balanced
  <2>7. window_data_sum' \in 0 .. U16 - 1 /\ window_parity_sum' \in 0 .. U16 - 1
    BY <2>5, <2>6, SumsFitU16
  <2>8. PlanTypeOK'
    BY <1>1, <2>2, <2>3, <2>6, <2>7 DEF PlanTypeOK, Entry
  <2>9. WindowFloor'
    BY <2>1, <2>2 DEF WindowFloor, FloorFits, Floor
  <2> QED
    BY <2>3, <2>5, <2>8, <2>9 DEF Accounted
<1>3. ASSUME NEW num_data \in 1 .. MAX_DATA, NEW feedback \in Feedback,
             PlanByRatio(num_data, feedback)
      PROVE  Accounted'
  <2>1. ParityStripes(feedback, num_data) \in 0 .. MAX_FEC
    BY Constants, RatioFits
  <2>2. delayed_parity' \in Seq(0 .. MAX_FEC) /\ ParityFitsCode'
    BY <1>1, <1>3, <2>1, EmitFits DEF PlanByRatio
  <2>3. UNCHANGED <<min_window_parity, window_history, window_data_sum, window_parity_sum>>
    BY <1>3 DEF PlanByRatio, window_vars
  <2> QED
    BY <2>2, <2>3 DEF Accounted, PlanTypeOK, WindowFloor, FloorFits, Floor
<1>4. CASE UNCHANGED plan_vars
  BY <1>4 DEF plan_vars, window_vars, Accounted, PlanTypeOK, WindowFloor, FloorFits,
    Floor, ParityFitsCode
<1> QED
  BY <1>2, <1>3, <1>4 DEF PlanNext

(***************************************************************************)
(* Types: neither running sum ever underflows or leaves u16, however the   *)
(* window slides.                                                          *)
(***************************************************************************)
THEOREM SumsStayInU16 == PlanSpec => []PlanTypeOK
<1>1. Accounted => PlanTypeOK
  BY DEF Accounted
<1> QED
  BY <1>1, InitAccounted, NextAccounted, PTL DEF PlanSpec

(***************************************************************************)
(* The floor of config.rs, min_window_parity, for every window, every      *)
(* sequence of frame sizes and feedback, and every floor, cut to what one  *)
(* frame may carry.                                                        *)
(***************************************************************************)
THEOREM WindowFloorAlways == PlanSpec => []WindowFloor
<1>1. Accounted => WindowFloor
  BY DEF Accounted
<1> QED
  BY <1>1, InitAccounted, NextAccounted, PTL DEF PlanSpec

(***************************************************************************)
(* The encoder never asks the code for more parity than it has rows, with  *)
(* and without floor and delay.                                            *)
(***************************************************************************)
THEOREM ParityFitsCodeAlways == PlanSpec => []ParityFitsCode
<1>1. Accounted => ParityFitsCode
  BY DEF Accounted
<1> QED
  BY <1>1, InitAccounted, NextAccounted, PTL DEF PlanSpec

-----------------------------------------------------------------------------
(* The split into packets.                                                 *)

(* specs_for_stripes finds a size, and it divides both counts.             *)
LEMMA CommonDivides ==
  ASSUME NEW num_data \in Nat, NEW num_parity \in Nat, NEW most \in Nat \ {0}
  PROVE  LET n == LargestCommon(num_data, num_parity, most)
         IN  n \in 1 .. most /\ num_data % n = 0 /\ num_parity % n = 0
<1>1. \E n \in 1 .. most :
        /\ num_data % n = 0 /\ num_parity % n = 0
        /\ \A m \in n + 1 .. most : ~ (num_data % m = 0 /\ num_parity % m = 0)
  BY CommonDivisor
<1> QED
  BY <1>1 DEF LargestCommon

(* Each stripe of either kind is in a packet, and a packet is not too      *)
(* large, whatever counts are split together.                              *)
LEMMA SpecsCarry ==
  ASSUME NEW num_data \in Nat, NEW num_parity \in Nat
  PROVE  LET p == specs_for_stripes(num_data, num_parity, MAX_STRIPES_PER_PKT)
         IN  /\ p.data_pkts * p.stripes_per_pkt = p.data
             /\ p.parity_pkts * p.stripes_per_pkt = p.parity
             /\ p.stripes_per_pkt \in 1 .. MAX_STRIPES_PER_PKT
<1> DEFINE n == stripes_per_pkt(num_data, num_parity, MAX_STRIPES_PER_PKT)
           common == LargestCommon(num_data, num_parity, MAX_STRIPES_PER_PKT)
<1>1. MAX_STRIPES_PER_PKT \in Nat \ {0}
  BY PacketizationAssumption
<1>2. /\ common \in 1 .. MAX_STRIPES_PER_PKT
      /\ num_data % common = 0 /\ num_parity % common = 0
  BY <1>1, CommonDivides
<1>3. num_data % 1 = 0 /\ num_parity % 1 = 0
  BY Z3
<1>4. n = common \/ n = 1
  BY DEF stripes_per_pkt
<1> HIDE DEF n, common
<1>5. n \in 1 .. MAX_STRIPES_PER_PKT /\ num_data % n = 0 /\ num_parity % n = 0
  BY <1>1, <1>2, <1>3, <1>4
<1>6. (num_data \div n) * n = num_data /\ (num_parity \div n) * n = num_parity
  BY <1>1, <1>5, QuotientCarries
<1> QED
  BY <1>5, <1>6 DEF specs_for_stripes, n

(* The delay queue hands a count of some frame to the split of another.    *)
LEMMA EmitCarries ==
  ASSUME Accounted, NEW num_data \in 1 .. MAX_DATA, NEW produced \in 0 .. MAX_FEC,
         Emit(num_data, produced)
  PROVE  PacketsCarryPlan'
<1> DEFINE queue == Append(delayed_parity, produced)
           Rows == 0 .. MAX_FEC
<1>1. delayed_parity \in Seq(Rows) /\ produced \in Rows
  BY DEF Accounted, PlanTypeOK
<1>2. num_data \in Nat /\ Rows \subseteq Nat
  BY Constants
<1> HIDE DEF Rows
<1>3. queue \in Seq(Rows) /\ queue # <<>>
  BY <1>1, AppendProperties
<1> HIDE DEF queue
<1>4. Head(queue) \in Nat
  BY <1>2, <1>3, HeadTailProperties
<1>5. plan' = specs_for_stripes(num_data, Head(queue), MAX_STRIPES_PER_PKT)
  BY DEF Emit, queue
<1> QED
  BY <1>2, <1>4, <1>5, SpecsCarry DEF PacketsCarryPlan

(***************************************************************************)
(* THEOREM.  specs_for_stripes: the packets of a frame carry each of its   *)
(* stripes once and none is larger than a packet may be, for every frame   *)
(* size, packet size, floor, feedback and delay of the parity.             *)
(***************************************************************************)
THEOREM PacketsCarryPlanAlways == PlanSpec => []PacketsCarryPlan
<1>1. PlanInit => PacketsCarryPlan
  <2>1. MAX_STRIPES_PER_PKT \in Nat \ {0}
    BY PacketizationAssumption
  <2> QED
    BY <2>1 DEF PlanInit, NoPlan, PacketsCarryPlan
<1>2. Accounted /\ PacketsCarryPlan /\ [PlanNext]_plan_vars => PacketsCarryPlan'
  <2> SUFFICES ASSUME Accounted, PacketsCarryPlan, [PlanNext]_plan_vars PROVE PacketsCarryPlan'
    OBVIOUS
  <2>1. ASSUME NEW num_data \in 1 .. MAX_DATA, NEW feedback \in Feedback,
               PlanWithFloor(num_data, feedback)
        PROVE  PacketsCarryPlan'
    <3>1. Adjusted(num_data, feedback) \in 0 .. MAX_FEC
      BY AdjustedIsEnough DEF Accounted, PlanTypeOK
    <3> QED
      BY <2>1, <3>1, EmitCarries DEF PlanWithFloor
  <2>2. ASSUME NEW num_data \in 1 .. MAX_DATA, NEW feedback \in Feedback,
               PlanByRatio(num_data, feedback)
        PROVE  PacketsCarryPlan'
    <3>1. ParityStripes(feedback, num_data) \in 0 .. MAX_FEC
      BY Constants, RatioFits
    <3> QED
      BY <2>2, <3>1, EmitCarries DEF PlanByRatio
  <2>3. CASE UNCHANGED plan_vars
    BY <2>3 DEF plan_vars, PacketsCarryPlan
  <2> QED
    BY <2>1, <2>2, <2>3 DEF PlanNext
<1> QED
  BY <1>1, <1>2, InitAccounted, NextAccounted, PTL DEF PlanSpec

-----------------------------------------------------------------------------
(***************************************************************************)
(* The running sums are the sums over the frames of the window, for every  *)
(* window length, sequence of frame sizes and feedback.                    *)
(***************************************************************************)
THEOREM SumsMatchHistoryAlways == PlanSpec => []SumsMatchHistory
<1>1. Accounted => SumsMatchHistory
  <2> SUFFICES ASSUME Accounted PROVE SumsMatchHistory
    OBVIOUS
  <2>1. /\ window_history \in Seq(Entry)
        /\ window_data_sum = SumFunctionOnSet(DataOf(window_history), 1 .. Len(window_history))
        /\ window_parity_sum = SumFunctionOnSet(ParityOf(window_history), 1 .. Len(window_history))
    BY DEF Accounted, Balanced
  <2>2. DOMAIN window_history = 1 .. Len(window_history)
    BY <2>1
  <2>3. /\ Entries("data") = DataOf(window_history)
        /\ Entries("parity") = ParityOf(window_history)
    BY <2>2 DEF Entries, Column, DataOf, ParityOf
  <2>4. /\ DOMAIN DataOf(window_history) = 1 .. Len(window_history)
        /\ DOMAIN ParityOf(window_history) = 1 .. Len(window_history)
    BY DEF DataOf, ParityOf
  <2> QED
    BY <2>1, <2>3, <2>4 DEF SumsMatchHistory, SumFunction
<1> QED
  BY <1>1, InitAccounted, NextAccounted, PTL DEF PlanSpec

-----------------------------------------------------------------------------
(* Every frame of the window was planned its even share of the floor.      *)
Shared ==
  FloorFits /\ EvenShare <= MAX_FEC =>
    \A i \in 1 .. Len(window_history) : window_history[i].parity >= EvenShare

LEMMA NextShared == Accounted /\ Shared /\ [PlanNext]_plan_vars => Shared'
<1> SUFFICES ASSUME Accounted, Shared, [PlanNext]_plan_vars PROVE Shared'
  OBVIOUS
<1>1. /\ Balanced(window_history, window_data_sum, window_parity_sum)
      /\ Len(window_history) <= WINDOW /\ min_window_parity \in MIN_PARITIES
  BY DEF Accounted, PlanTypeOK
<1>2. ASSUME NEW num_data \in 1 .. MAX_DATA, NEW feedback \in Feedback,
             PlanWithFloor(num_data, feedback)
      PROVE  Shared'
  <2> DEFINE produced == Adjusted(num_data, feedback)
             new == [data |-> num_data, parity |-> produced]
             h == window_history
  <2>1. FloorFits /\ EvenShare <= MAX_FEC => produced >= EvenShare
    BY <1>1, AdjustedIsEnough
  <2>2. h' = Append(Kept, new) /\ EvenShare' = EvenShare /\ FloorFits' = FloorFits
    BY <1>2 DEF PlanWithFloor, EvenShare, FloorFits
  <2>3. h \in Seq(Entry) /\ Kept \in Seq(Entry) /\ Len(Kept) \in Nat
    BY <1>1, KeptBalanced DEF Balanced
  <2>4. \A i \in 1 .. Len(Kept) : \E j \in 1 .. Len(h) : Kept[i] = h[j]
    <3>1. CASE Full
      <4>1. /\ Len(h) \in Nat /\ Len(h) > 0 /\ Len(Tail(h)) = Len(h) - 1
            /\ \A i \in 1 .. Len(h) - 1 : Tail(h)[i] = h[i + 1] /\ i + 1 \in 1 .. Len(h)
        BY <2>3, <3>1, Constants DEF Full
      <4> QED
        BY <3>1, <4>1 DEF Full, Kept, WithoutOldest
    <3>2. CASE ~ Full
      BY <3>2 DEF Full, Kept, WithoutOldest
    <3> QED
      BY <3>1, <3>2
  <2>5. Len(h') = Len(Kept) + 1
    BY <2>2, <2>3
  <2>6. ASSUME FloorFits, EvenShare <= MAX_FEC, NEW i \in 1 .. Len(h')
        PROVE  h'[i].parity >= EvenShare
    <3>1. CASE i = Len(Kept) + 1
      <4>1. h'[i] = new
        BY <2>2, <2>3, <3>1
      <4> QED
        BY <2>1, <2>6, <4>1
    <3>2. CASE i \in 1 .. Len(Kept)
      <4>1. h'[i] = Kept[i]
        BY <2>2, <2>3, <3>2
      <4> QED
        BY <2>4, <2>6, <3>2, <4>1 DEF Shared
    <3> QED
      BY <2>3, <2>5, <2>6, <3>1, <3>2
  <2> QED
    BY <2>2, <2>6 DEF Shared
<1>3. ASSUME NEW num_data \in 1 .. MAX_DATA, NEW feedback \in Feedback,
             PlanByRatio(num_data, feedback)
      PROVE  Shared'
  BY <1>3 DEF PlanByRatio, window_vars, Shared, EvenShare, FloorFits
<1>4. CASE UNCHANGED plan_vars
  BY <1>4 DEF plan_vars, window_vars, Shared, EvenShare, FloorFits
<1> QED
  BY <1>2, <1>3, <1>4 DEF PlanNext

LEMMA CeilDivCovers ==
  ASSUME NEW a \in Nat, NEW b \in Nat \ {0}
  PROVE  CeilDiv(a, b) \in Nat /\ CeilDiv(a, b) * b >= a
<1> DEFINE q == (a + b - 1) \div b
<1>1. a + b - 1 \in Nat
  OBVIOUS
<1>2. q \in Nat /\ (a + b - 1) % b \in 0 .. b - 1 /\ a + b - 1 = q * b + ((a + b - 1) % b)
  BY <1>1, DivisionWithRemainder
<1> HIDE DEF q
<1>3. q * b \in Nat
  BY <1>2, Z3
<1>4. q * b >= a
  BY <1>2, <1>3
<1> QED
  BY <1>2, <1>4 DEF CeilDiv, q

(* tau + 1 even shares of a floor that build computed for a burst make up  *)
(* for the burst.                                                          *)
LEMMA SharesCoverBurst ==
  ASSUME min_window_parity \in Nat, NEW burst \in Nat,
         k_min(burst, WINDOW) <= min_window_parity
  PROVE  /\ tau \in Nat /\ EvenShare \in Nat
         /\ (tau + 1) * EvenShare >= burst
<1> DEFINE n == tau + 1
           e == EvenShare
           k == k_min(burst, WINDOW)
<1>1. WINDOW \in Nat \ {0}
  BY Constants
<1>2. tau \in Nat /\ (WINDOW + 1) \div 2 = n
  <2>1. (WINDOW - 1) \div 2 \in Nat
    BY <1>1, Z3
  <2>2. (WINDOW + 1) \div 2 = (WINDOW - 1) \div 2 + 1
    BY <1>1, Z3
  <2> QED
    BY <2>1, <2>2 DEF tau
<1>3. n \in Nat \ {0}
  BY <1>2
<1>4. e \in Nat /\ e * WINDOW >= min_window_parity
  BY ShareBounds DEF EvenShare
<1>5. k \in Nat /\ k * n >= burst * WINDOW
  <2>1. burst * WINDOW \in Nat
    BY <1>1, Z3
  <2>2. k = CeilDiv(burst * WINDOW, n)
    BY <1>2 DEF k_min
  <2> HIDE DEF n, k
  <2> QED
    BY <1>3, <2>1, <2>2, CeilDivCovers
<1> HIDE DEF n, e, k
<1>6. k <= e * WINDOW
  <2>1. e * WINDOW \in Nat
    BY <1>1, <1>4, Z3
  <2> QED
    BY <1>4, <1>5, <2>1 DEF k
<1>7. k * n <= (e * WINDOW) * n
  BY <1>1, <1>3, <1>4, <1>5, <1>6, Z3
<1>8. (e * WINDOW) * n = (n * e) * WINDOW
  BY <1>1, <1>3, <1>4, Z3
<1>9. (n * e) * WINDOW >= burst * WINDOW
  <2>1. k * n \in Int /\ (n * e) * WINDOW \in Int /\ burst * WINDOW \in Int
    BY <1>1, <1>3, <1>4, <1>5
  <2> QED
    BY <1>5, <1>7, <1>8, <2>1
<1>10. n * e >= burst
  <2> DEFINE m == n * e
  <2>1. m \in Nat
    BY <1>3, <1>4, Z3
  <2>2. m * WINDOW >= burst * WINDOW
    BY <1>9
  <2> HIDE DEF m
  <2>3. m >= burst
    BY <1>1, <2>1, <2>2, Z3
  <2> QED
    BY <2>3 DEF m
<1> QED
  BY <1>2, <1>4, <1>10 DEF n, e

LEMMA SharesAddUp ==
  ASSUME NEW f, NEW i \in Nat, NEW n \in Nat, NEW e \in Nat,
         \A j \in i .. i + n : f[j] \in Nat /\ f[j] >= e
  PROVE  /\ SumFunctionOnSet(f, i .. i + n) >= (n + 1) * e
         /\ SumFunctionOnSet(f, i .. i + n) \in Nat
<1> DEFINE S == i .. i + n
           share == [j \in S |-> e]
<1>1. IsFiniteSet(S) /\ Cardinality(S) = n + 1
  <2>1. i + n \in Int /\ ~ (i > i + n) /\ i + n - i + 1 = n + 1
    OBVIOUS
  <2> QED
    BY <2>1, FS_Interval
<1>2. /\ \A j \in S : share[j] = e /\ share[j] <= f[j]
      /\ \A j \in S : f[j] \in Nat
      /\ IsConstant(share, S, e)
  BY DEF IsConstant
<1> HIDE DEF S, share
<1>3. SumFunctionOnSet(share, S) = (n + 1) * e
  BY <1>1, <1>2, SumOfConstant
<1>4. Summable(share, S) /\ Summable(f, S)
  BY <1>1, <1>2 DEF Summable
<1>5. SumFunctionOnSet(share, S) <= SumFunctionOnSet(f, S)
  BY <1>2, <1>4, SumAtMost
<1>6. SumFunctionOnSet(f, S) \in Nat
  <2>1. S \in SUBSET S
    OBVIOUS
  <2> QED
    BY <1>1, <1>2, <2>1, SumOfPart
<1> QED
  BY <1>3, <1>5, <1>6 DEF S

(***************************************************************************)
(* config.rs, target_burst_protection, for every window and every burst:   *)
(* with the floor that build computes, any tau + 1 consecutive frames are  *)
(* planned as many parity stripes as the burst has packets.                *)
(***************************************************************************)
THEOREM StripeBurstIsCoveredAlways == PlanSpec => []StripeBurstIsCovered
<1>1. PlanInit => Shared
  BY DEF PlanInit, Shared
<1>2. Accounted /\ Shared => StripeBurstIsCovered
  <2> SUFFICES ASSUME Accounted, Shared,
                      NEW burst \in 1 .. min_window_parity,
                      k_min(burst, WINDOW) <= min_window_parity, FloorFits,
                      EvenShare <= MAX_FEC,
                      NEW i \in 1 .. Len(window_history) - tau
               PROVE  SumFunctionOnSet(Entries("parity"), i .. i + tau) >= burst
    BY DEF StripeBurstIsCovered, ProtectedBursts, ParityCovering, ShareFits, EvenShare
  <2> DEFINE f == Entries("parity")
  <2>1. min_window_parity \in Nat /\ burst \in Nat
    BY Constants DEF Accounted, PlanTypeOK
  <2>2. tau \in Nat /\ EvenShare \in Nat /\ (tau + 1) * EvenShare >= burst
    BY <2>1, SharesCoverBurst
  <2>3. window_history \in Seq(Entry) /\ Len(window_history) \in Nat
    BY DEF Accounted, Balanced
  <2>4. f = ParityOf(window_history)
    BY <2>3 DEF Entries, Column, ParityOf
  <2>5. ASSUME NEW j \in i .. i + tau
        PROVE  f[j] \in Nat /\ f[j] >= EvenShare
    <3>1. j \in 1 .. Len(window_history)
      BY <2>2, <2>3
    <3>2. f[j] = window_history[j].parity /\ f[j] \in 0 .. MAX_FEC
      BY <2>3, <2>4, <3>1, EntriesInRange DEF ParityOf
    <3> QED
      BY <3>1, <3>2, Constants DEF Shared
  <2> HIDE DEF f
  <2>6. i \in Nat
    BY <2>2, <2>3
  <2>7. /\ SumFunctionOnSet(f, i .. i + tau) >= (tau + 1) * EvenShare
        /\ SumFunctionOnSet(f, i .. i + tau) \in Nat
    BY <2>2, <2>5, <2>6, SharesAddUp
  <2>8. SumFunctionOnSet(f, i .. i + tau) >= burst
    <3>1. (tau + 1) * EvenShare \in Int
      BY <2>2
    <3> QED
      BY <2>1, <2>2, <2>7, <3>1
  <2> QED
    BY <2>8 DEF f
<1> QED
  BY <1>1, <1>2, NextShared, InitAccounted, NextAccounted, PTL DEF PlanSpec

-----------------------------------------------------------------------------
(* The parity on the wire.  The stripes sent and, behind them, those that  *)
(* wait are one line, which a plan extends at its end and, once a window   *)
(* was sent, shortens at its start.                                        *)
Line(sent, waiting) ==
  [i \in 1 .. Len(sent) + Len(waiting) |->
     IF i <= Len(sent) THEN sent[i] ELSE waiting[i - Len(sent)]]

Leaves(seq) == IF Len(seq) = WINDOW THEN 1 ELSE 0

LEMMA SlideMoves ==
  ASSUME NEW R, NEW seq \in Seq(R), Len(seq) <= WINDOW, NEW x \in R
  PROVE  /\ Slide(seq, x) \in Seq(R)
         /\ Len(Slide(seq, x)) = Len(seq) + 1 - Leaves(seq)
         /\ Len(Slide(seq, x)) <= WINDOW
         /\ \A i \in 1 .. Len(Slide(seq, x)) - 1 : Slide(seq, x)[i] = seq[i + Leaves(seq)]
         /\ Slide(seq, x)[Len(Slide(seq, x))] = x
<1>1. Len(seq) \in Nat /\ WINDOW \in Nat /\ WINDOW > 0
  BY Constants
<1>2. CASE Len(seq) = WINDOW
  <2> DEFINE t == Tail(seq)
             new == Append(t, x)
  <2>1. /\ t \in Seq(R) /\ Len(t) = Len(seq) - 1
        /\ \A i \in 1 .. Len(seq) - 1 : t[i] = seq[i + 1]
    BY <1>1, <1>2
  <2> HIDE DEF t
  <2>2. /\ new \in Seq(R) /\ Len(new) = Len(t) + 1
        /\ \A i \in 1 .. Len(t) : new[i] = t[i]
        /\ new[Len(t) + 1] = x
    BY <2>1
  <2>3. Slide(seq, x) = new /\ Leaves(seq) = 1
    BY <1>2 DEF Slide, Leaves, t
  <2> HIDE DEF new
  <2> QED
    BY <1>1, <1>2, <2>1, <2>2, <2>3
<1>3. CASE Len(seq) # WINDOW
  <2> DEFINE new == Append(seq, x)
  <2>1. /\ new \in Seq(R) /\ Len(new) = Len(seq) + 1
        /\ \A i \in 1 .. Len(seq) : new[i] = seq[i]
        /\ new[Len(seq) + 1] = x
    OBVIOUS
  <2>2. Slide(seq, x) = new /\ Leaves(seq) = 0
    BY <1>3 DEF Slide, Leaves
  <2> HIDE DEF new
  <2> QED
    BY <1>1, <1>3, <2>1, <2>2
<1> QED
  BY <1>2, <1>3

LEMMA QueueMoves ==
  ASSUME NEW R, NEW waiting \in Seq(R), NEW x \in R
  PROVE  LET queue == Append(waiting, x)
         IN  /\ Head(queue) \in R /\ Tail(queue) \in Seq(R)
             /\ Len(Tail(queue)) = Len(waiting)
             /\ Len(waiting) = 0 => Head(queue) = x
             /\ Len(waiting) > 0 => Head(queue) = waiting[1] /\ Tail(queue)[Len(waiting)] = x
             /\ \A i \in 1 .. Len(waiting) - 1 : Tail(queue)[i] = waiting[i + 1]
<1> DEFINE queue == Append(waiting, x)
           n == Len(waiting)
<1>1. /\ n \in Nat /\ queue \in Seq(R) /\ Len(queue) = n + 1
      /\ \A i \in 1 .. n : queue[i] = waiting[i]
      /\ queue[n + 1] = x
  OBVIOUS
<1> HIDE DEF queue
<1>2. /\ Head(queue) = queue[1] /\ Head(queue) \in R /\ Tail(queue) \in Seq(R)
      /\ Len(Tail(queue)) = n
      /\ \A i \in 1 .. n : Tail(queue)[i] = queue[i + 1]
  BY <1>1
<1> HIDE DEF n
<1>3. /\ n = 0 => Head(queue) = x
      /\ n > 0 => Head(queue) = waiting[1] /\ Tail(queue)[n] = x
  BY <1>1, <1>2
<1>4. \A i \in 1 .. n - 1 : Tail(queue)[i] = waiting[i + 1]
  BY <1>1, <1>2
<1> QED
  BY <1>2, <1>3, <1>4 DEF queue, n

Moves(next, seq, k, n) == \A i \in 1 .. n - 1 : next[i] = seq[i + k]
Holds(line, seq, k, n) == \A i \in 1 .. n : line[i + k] = seq[i]

(* One line behind the other, for any functions.                           *)
Shifts(L, D, M, k, sent, waiting, next, rest, x, old, new) ==
  /\ L \in Nat /\ D \in Nat /\ M \in Nat /\ k \in {0, 1} /\ M = L + 1 - k /\ M > 0
  /\ Moves(next, sent, k, M) /\ Moves(rest, waiting, 1, D)
  /\ D = 0 => next[M] = x
  /\ D > 0 => next[M] = waiting[1] /\ rest[D] = x
  /\ Holds(old, sent, 0, L) /\ Holds(old, waiting, L, D)
  /\ Holds(new, next, 0, M) /\ Holds(new, rest, M, D)

LEMMA LineShift ==
  ASSUME NEW L, NEW D, NEW M, NEW k, NEW sent, NEW waiting, NEW next, NEW rest, NEW x,
         NEW old, NEW new, Shifts(L, D, M, k, sent, waiting, next, rest, x, old, new)
  PROVE  Moves(new, old, k, M + D) /\ new[M + D] = x
<1> USE DEF Shifts
<1>0. /\ \A i \in 1 .. M - 1 : next[i] = sent[i + k]
      /\ \A i \in 1 .. D - 1 : rest[i] = waiting[i + 1]
      /\ \A i \in 1 .. L : old[i] = sent[i]
      /\ \A i \in 1 .. D : old[i + L] = waiting[i]
      /\ \A i \in 1 .. M : new[i] = next[i]
      /\ \A i \in 1 .. D : new[i + M] = rest[i]
  BY DEF Moves, Holds
<1>1. ASSUME NEW i \in 1 .. M + D - 1
      PROVE  new[i] = old[i + k]
  <2>2. CASE i < M
    <3>1. i \in 1 .. M - 1 /\ i \in 1 .. M /\ i + k \in 1 .. L
      BY <2>2
    <3> QED
      BY <1>0, <3>1
  <2>3. CASE i = M
    <3>1. D > 0 /\ i + k = 1 + L /\ 1 \in 1 .. D /\ i \in 1 .. M
      BY <2>3
    <3>2. new[i] = waiting[1] /\ old[1 + L] = waiting[1]
      BY <1>0, <2>3, <3>1
    <3> QED
      BY <3>1, <3>2
  <2>4. CASE i > M
    <3> DEFINE j == i - M
    <3>1. j \in 1 .. D - 1 /\ j \in 1 .. D /\ j + 1 \in 1 .. D /\ i = j + M /\ i + k = (j + 1) + L
      BY <2>4
    <3> HIDE DEF j
    <3>2. new[j + M] = waiting[j + 1] /\ old[(j + 1) + L] = waiting[j + 1]
      BY <1>0, <3>1
    <3> QED
      BY <3>1, <3>2
  <2> QED
    BY <2>2, <2>3, <2>4
<1>2. new[M + D] = x
  <2>1. CASE D = 0
    <3>1. M + D = M /\ M \in 1 .. M
      BY <2>1
    <3> QED
      BY <1>0, <2>1, <3>1
  <2>2. CASE D > 0
    <3>1. M + D = D + M /\ D \in 1 .. D
      BY <2>2
    <3> QED
      BY <1>0, <2>2, <3>1
  <2> QED
    BY <2>1, <2>2
<1> QED
  BY <1>1, <1>2 DEF Moves

LEMMA LineParts ==
  ASSUME NEW R, NEW sent \in Seq(R), NEW waiting \in Seq(R)
  PROVE  /\ Holds(Line(sent, waiting), sent, 0, Len(sent))
         /\ Holds(Line(sent, waiting), waiting, Len(sent), Len(waiting))
<1> DEFINE L == Len(sent)
           D == Len(waiting)
<1>1. L \in Nat /\ D \in Nat
  OBVIOUS
<1>2. \A i \in 1 .. L + D : Line(sent, waiting)[i] = IF i <= L THEN sent[i] ELSE waiting[i - L]
  BY DEF Line
<1> HIDE DEF L, D
<1>3. ASSUME NEW i \in 1 .. L
      PROVE  Line(sent, waiting)[i + 0] = sent[i]
  <2>1. i \in 1 .. L + D /\ i <= L
    BY <1>1
  <2> QED
    BY <1>2, <2>1
<1>4. ASSUME NEW i \in 1 .. D
      PROVE  Line(sent, waiting)[i + L] = waiting[i]
  <2>1. i + L \in 1 .. L + D /\ ~ (i + L <= L) /\ (i + L) - L = i
    BY <1>1
  <2>2. Line(sent, waiting)[i + L] = waiting[(i + L) - L]
    BY <1>2, <2>1, Zenon
  <2> QED
    BY <2>1, <2>2
<1> QED
  BY <1>3, <1>4 DEF L, D, Holds

Planned(R, sent, waiting, x, next, rest) ==
  /\ sent \in Seq(R) /\ waiting \in Seq(R) /\ x \in R /\ Len(sent) <= WINDOW
  /\ next = Slide(sent, Head(Append(waiting, x)))
  /\ rest = Tail(Append(waiting, x))

LEMMA LineMoves ==
  ASSUME NEW R, NEW sent, NEW waiting, NEW x, NEW next, NEW rest,
         Planned(R, sent, waiting, x, next, rest)
  PROVE  /\ next \in Seq(R) /\ Len(next) <= WINDOW
         /\ rest \in Seq(R) /\ Len(rest) = Len(waiting)
         /\ Len(next) = Len(sent) + 1 - Leaves(sent)
         /\ Moves(Line(next, rest), Line(sent, waiting), Leaves(sent), Len(next) + Len(rest))
         /\ Line(next, rest)[Len(next) + Len(rest)] = x
<1> USE DEF Planned
<1> DEFINE first == Head(Append(waiting, x))
           k == Leaves(sent)
           L == Len(sent)
           D == Len(waiting)
           M == Len(next)
           old == Line(sent, waiting)
           new == Line(next, rest)
<1>1. /\ first \in R /\ rest \in Seq(R) /\ Len(rest) = D
      /\ D = 0 => first = x
      /\ D > 0 => first = waiting[1] /\ rest[D] = x
      /\ Moves(rest, waiting, 1, D)
  BY QueueMoves DEF Moves
<1>2. next = Slide(sent, first)
  OBVIOUS
<1> HIDE DEF first
<1>3. /\ next \in Seq(R) /\ M = L + 1 - k /\ M <= WINDOW
      /\ Moves(next, sent, k, M)
      /\ next[M] = first
  <2> DEFINE slid == Slide(sent, first)
  <2>1. /\ slid \in Seq(R) /\ Len(slid) = L + 1 - k /\ Len(slid) <= WINDOW
        /\ \A i \in 1 .. Len(slid) - 1 : slid[i] = sent[i + k]
        /\ slid[Len(slid)] = first
    BY <1>1, SlideMoves
  <2>2. next = slid
    BY <1>2
  <2> HIDE DEF slid
  <2> QED
    BY <2>1, <2>2 DEF Moves
<1>4. k \in {0, 1} /\ L \in Nat /\ D \in Nat /\ M \in Nat /\ M > 0
  <2>1. L = WINDOW => L > 0
    BY Constants
  <2> QED
    BY <1>3, <2>1 DEF Leaves
<1>5. Holds(old, sent, 0, L) /\ Holds(old, waiting, L, D)
  BY LineParts
<1>6. Holds(new, next, 0, M) /\ Holds(new, rest, M, D)
  BY <1>1, <1>3, LineParts
<1> HIDE DEF k, L, D, M, old, new
<1>7. Moves(new, old, k, M + D) /\ new[M + D] = x
  <2>1. (D = 0 => next[M] = x) /\ (D > 0 => next[M] = waiting[1] /\ rest[D] = x)
    BY <1>1, <1>3, Zenon
  <2>2. M = L + 1 - k /\ Moves(next, sent, k, M) /\ Moves(rest, waiting, 1, D)
    BY <1>1, <1>3, Zenon
  <2> QED
    <3>1. Shifts(L, D, M, k, sent, waiting, next, rest, x, old, new)
      BY <1>4, <1>5, <1>6, <2>1, <2>2, Zenon DEF Shifts
    <3> QED
      BY <3>1, LineShift, Z3T(20)
<1> QED
  BY <1>1, <1>3, <1>7, Zenon DEF k, L, D, M, old, new

(* What the wire shows: the last frames of the line are the window's, and  *)
(* the last WINDOW places up to any place that a plan filled hold the      *)
(* floor.                                                                  *)
WireLine == Line(on_wire, delayed_parity)
WindowStart(j) == IF j > WINDOW THEN j - WINDOW + 1 ELSE 1

Floored(line, sent, waiting, floor) ==
  \A j \in sent .. sent + waiting :
    j > waiting => SumFunctionOnSet(line, WindowStart(j) .. j) >= floor

WireType ==
  on_wire \in Seq(0 .. MAX_FEC) /\ Len(on_wire) <= WINDOW

EndsWithWindow ==
  min_window_parity > 0 =>
    /\ Len(on_wire) = Len(window_history)
    /\ \A i \in 1 .. Len(on_wire) : WireLine[i + Len(delayed_parity)] = window_history[i].parity

FloorAlongLine ==
  min_window_parity > 0 /\ FloorFits =>
    Floored(WireLine, Len(on_wire), Len(delayed_parity), Floor)

WireFed == WireType /\ EndsWithWindow /\ FloorAlongLine

(* The floor moves with the line: the places before the last were there,   *)
(* and the last WINDOW places up to the last one hold the new window.      *)
LEMMA FloorMoves ==
  ASSUME NEW f, NEW g, NEW L \in Nat, NEW D \in Nat, NEW M \in Nat, NEW k \in {0, 1},
         NEW floor \in Nat,
         M = L + 1 - k, M > 0, M <= WINDOW, k = 1 <=> L = WINDOW,
         Moves(g, f, k, M + D), Floored(f, L, D, floor),
         \A i \in 1 .. M + D : g[i] \in Nat,
         SumFunctionOnSet(g, D + 1 .. D + M) >= floor
  PROVE  Floored(g, M, D, floor)
<1>0. WINDOW \in Nat /\ WINDOW > 0
  BY Constants
<1> SUFFICES ASSUME NEW j \in M .. M + D, j > D
             PROVE  SumFunctionOnSet(g, WindowStart(j) .. j) >= floor
  BY DEF Floored
<1> DEFINE a == WindowStart(j)
<1>1. /\ a \in Int /\ a >= 1
      /\ a <= j
  BY <1>0 DEF WindowStart
<1>2. CASE j < M + D
  <2>1. j + k \in L .. L + D /\ j + k > D
    BY <1>2
  <2>2. SumFunctionOnSet(f, WindowStart(j + k) .. j + k) >= floor
    BY <2>1 DEF Floored
  <2>3. WindowStart(j + k) = a + k
    <3>1. CASE k = 0
      BY <1>0, <3>1 DEF WindowStart
    <3>2. CASE k = 1
      BY <1>0, <3>2 DEF WindowStart
    <3> QED
      BY <3>1, <3>2
  <2>4. ShiftedBy(g, f, k, a, j)
    <3> HIDE DEF a
    <3>1. ASSUME NEW i \in a .. j
          PROVE  g[i] \in Int /\ g[i] = f[i + k]
      <4>1. i \in 1 .. M + D - 1 /\ i \in 1 .. M + D
        BY <1>1, <1>2
      <4> QED
        BY <4>1 DEF Moves
    <3> QED
      BY <3>1 DEF ShiftedBy
  <2> HIDE DEF a
  <2>5. SumFunctionOnSet(g, a .. j) = SumFunctionOnSet(f, a + k .. j + k)
    <3>1. j \in Int /\ k \in Int
      OBVIOUS
    <3> QED
      BY <1>1, <2>4, <3>1, SumShifted
  <2> QED
    BY <2>2, <2>3, <2>5 DEF a
<1>3. CASE j = M + D
  <2>1. D + 1 .. D + M \in SUBSET (a .. j) /\ a .. j \in SUBSET (1 .. M + D)
    <3>1. a <= D + 1
      BY <1>0, <1>3 DEF WindowStart
    <3> HIDE DEF a
    <3> QED
      BY <1>1, <1>3, <3>1
  <2> HIDE DEF a
  <2>2. IsFiniteSet(a .. j) /\ \A i \in a .. j : g[i] \in Nat
    <3>1. IsFiniteSet(a .. j)
      BY <1>1, FS_Interval
    <3> QED
      BY <2>1, <3>1
  <2>3. /\ SumFunctionOnSet(g, D + 1 .. D + M) <= SumFunctionOnSet(g, a .. j)
        /\ SumFunctionOnSet(g, D + 1 .. D + M) \in Nat
    BY <2>1, <2>2, SumOfPart
  <2>4. SumFunctionOnSet(g, a .. j) \in Nat
    <3>1. a .. j \in SUBSET (a .. j)
      OBVIOUS
    <3> QED
      BY <2>2, <3>1, SumOfPart
  <2>5. SumFunctionOnSet(g, a .. j) >= floor
    BY <2>3, <2>4
  <2> QED
    BY <2>5 DEF a
<1> QED
  BY <1>2, <1>3

LEMMA WireLineMoves ==
  ASSUME WireType, delayed_parity \in Seq(0 .. MAX_FEC), NEW num_data,
         NEW produced \in 0 .. MAX_FEC, Emit(num_data, produced)
  PROVE  /\ WireType' /\ Len(delayed_parity') = Len(delayed_parity)
         /\ Len(on_wire') = Len(on_wire) + 1 - Leaves(on_wire)
         /\ Moves(WireLine', WireLine, Leaves(on_wire), Len(on_wire') + Len(delayed_parity'))
         /\ WireLine'[Len(on_wire') + Len(delayed_parity')] = produced
<1> DEFINE R == 0 .. MAX_FEC
<1>1. Planned(R, on_wire, delayed_parity, produced, on_wire', delayed_parity')
  BY DEF WireType, Emit, Planned
<1> HIDE DEF R
<1>2. /\ on_wire' \in Seq(R) /\ Len(on_wire') <= WINDOW
      /\ Len(delayed_parity') = Len(delayed_parity)
      /\ Len(on_wire') = Len(on_wire) + 1 - Leaves(on_wire)
      /\ Moves(Line(on_wire', delayed_parity'), Line(on_wire, delayed_parity),
               Leaves(on_wire), Len(on_wire') + Len(delayed_parity'))
      /\ Line(on_wire', delayed_parity')[Len(on_wire') + Len(delayed_parity')] = produced
  BY <1>1, LineMoves, Z3T(20)
<1> QED
  BY <1>2 DEF WireLine, WireType, R

LEMMA LineInRange ==
  ASSUME NEW R, NEW sent \in Seq(R), NEW waiting \in Seq(R)
  PROVE  /\ Len(sent) \in Nat /\ Len(waiting) \in Nat
         /\ \A i \in 1 .. Len(sent) + Len(waiting) : Line(sent, waiting)[i] \in R
<1> DEFINE L == Len(sent)
           D == Len(waiting)
<1>1. L \in Nat /\ D \in Nat
  OBVIOUS
<1>2. /\ \A i \in 1 .. L : sent[i] \in R
      /\ \A i \in 1 .. D : waiting[i] \in R
  BY ElementOfSeq
<1>3. \A i \in 1 .. L + D : Line(sent, waiting)[i] = IF i <= L THEN sent[i] ELSE waiting[i - L]
  BY DEF Line
<1> HIDE DEF L, D
<1>4. ASSUME NEW i \in 1 .. L + D PROVE Line(sent, waiting)[i] \in R
  <2>1. IF i <= L THEN i \in 1 .. L ELSE i - L \in 1 .. D
    BY <1>1
  <2> QED
    BY <1>2, <1>3, <2>1
<1> QED
  BY <1>1, <1>4 DEF L, D

(* The window of the plans slides as the wire does.                        *)
LEMMA HistoryMoves ==
  ASSUME window_history \in Seq(Entry), Len(window_history) <= WINDOW, NEW new \in Entry,
         window_history' = Append(Kept, new)
  PROVE  /\ Len(window_history') = Len(window_history) + 1 - Leaves(window_history)
         /\ Moves(window_history', window_history, Leaves(window_history), Len(window_history'))
         /\ window_history'[Len(window_history')] = new
<1> DEFINE slid == Slide(window_history, new)
           k == Leaves(window_history)
<1>1. window_history' = slid
  BY DEF Slide, Kept, WithoutOldest
<1>2. /\ Len(slid) = Len(window_history) + 1 - k
      /\ \A i \in 1 .. Len(slid) - 1 : slid[i] = window_history[i + k]
      /\ slid[Len(slid)] = new
  BY SlideMoves
<1> HIDE DEF slid
<1> QED
  BY <1>1, <1>2 DEF Moves

LEMMA InitWireFed == PlanInit => WireFed
<1> SUFFICES ASSUME PlanInit PROVE WireFed
  OBVIOUS
<1>1. on_wire = <<>> /\ window_history = <<>> /\ on_wire \in Seq(0 .. MAX_FEC) /\ Len(on_wire) = 0
  BY DEF PlanInit
<1>2. Len(delayed_parity) \in Nat
  BY InitAccounted DEF Accounted, PlanTypeOK
<1>3. WireType /\ EndsWithWindow
  BY <1>1, Constants DEF WireType, EndsWithWindow
<1>4. Floored(WireLine, Len(on_wire), Len(delayed_parity), Floor)
  BY <1>1, <1>2 DEF Floored
<1> QED
  BY <1>3, <1>4 DEF WireFed, FloorAlongLine

LEMMA PlanFeedsWire ==
  ASSUME Accounted, Accounted', WireFed,
         NEW num_data \in 1 .. MAX_DATA, NEW feedback \in Feedback,
         PlanWithFloor(num_data, feedback)
  PROVE  WireFed'
<1> DEFINE produced == Adjusted(num_data, feedback)
           new == [data |-> num_data, parity |-> produced]
           h == window_history
           L == Len(on_wire)
           D == Len(delayed_parity)
           M == Len(on_wire')
           k == Leaves(on_wire)
<1>1. /\ Balanced(window_history, window_data_sum, window_parity_sum)
      /\ Len(h) <= WINDOW /\ min_window_parity \in Nat
      /\ delayed_parity \in Seq(0 .. MAX_FEC) /\ h \in Seq(Entry)
  BY Constants DEF Accounted, PlanTypeOK, Balanced
<1>2. produced \in 0 .. MAX_FEC
  BY <1>1, AdjustedIsEnough DEF Accounted, PlanTypeOK
<1>3. /\ min_window_parity > 0 /\ min_window_parity' = min_window_parity
      /\ h' = Append(Kept, new) /\ Emit(num_data, produced)
  BY DEF PlanWithFloor
<1>4. new \in Entry
  BY <1>2 DEF Entry
<1> HIDE DEF produced
<1>5. /\ WireType' /\ Len(delayed_parity') = D /\ M = L + 1 - k
      /\ Moves(WireLine', WireLine, k, M + D) /\ WireLine'[M + D] = produced
  BY <1>1, <1>2, <1>3, WireLineMoves DEF WireFed
<1>6. /\ Len(h') = Len(h) + 1 - Leaves(h)
      /\ Moves(h', h, Leaves(h), Len(h')) /\ h'[Len(h')] = new
  <2> HIDE DEF new
  <2> QED
    BY <1>1, <1>3, <1>4, HistoryMoves
<1>7. /\ Len(h) = L /\ Leaves(h) = k /\ Len(h') = M
      /\ \A i \in 1 .. L : WireLine[i + D] = h[i].parity
  BY <1>3, <1>5, <1>6 DEF WireFed, EndsWithWindow, Leaves
<1>8. /\ L \in Nat /\ D \in Nat /\ L <= WINDOW /\ k \in {0, 1} /\ (k = 1 <=> L = WINDOW)
      /\ M \in Nat /\ M > 0 /\ M <= WINDOW
  <2>1. L \in Nat /\ D \in Nat /\ L <= WINDOW
    BY <1>1, LineInRange DEF WireFed, WireType
  <2>2. k \in {0, 1} /\ (k = 1 <=> L = WINDOW)
    BY DEF Leaves
  <2> HIDE DEF k
  <2> QED
    BY <1>5, <2>1, <2>2, Constants
<1> HIDE DEF L, D, M, k
<1>9. \A i \in 1 .. M : WireLine'[i + D] = h'[i].parity
  <2> SUFFICES ASSUME NEW i \in 1 .. M PROVE WireLine'[i + D] = h'[i].parity
    OBVIOUS
  <2>1. CASE i = M
    <3>1. h'[i] = new /\ i + D = M + D
      BY <1>6, <1>7, <1>8, <2>1
    <3> QED
      BY <1>5, <3>1
  <2>2. CASE i < M
    <3>1. i \in 1 .. M - 1 /\ i + D \in 1 .. M + D - 1 /\ i + k \in 1 .. L
      BY <1>5, <1>8, <2>2
    <3>2. WireLine'[i + D] = WireLine[(i + D) + k] /\ h'[i] = h[i + k]
      BY <1>5, <1>6, <1>7, <3>1 DEF Moves
    <3>3. (i + D) + k = (i + k) + D
      BY <1>8
    <3> QED
      BY <1>7, <3>1, <3>2, <3>3
  <2> QED
    BY <1>8, <2>1, <2>2
<1>10. EndsWithWindow'
  BY <1>5, <1>7, <1>9 DEF EndsWithWindow, M, D
<1>11. ASSUME FloorFits
       PROVE  Floored(WireLine', M, D, Floor)
  <2> DEFINE g == WireLine'
             par == ParityOf(h')
  <2>1. /\ h' \in Seq(Entry) /\ window_parity_sum' \in Nat
        /\ window_parity_sum' = SumFunctionOnSet(par, 1 .. M)
        /\ window_parity_sum' >= Floor
    <3>1. Balanced(h', window_data_sum', window_parity_sum') /\ window_parity_sum' \in Nat
      BY Constants DEF Accounted, PlanTypeOK
    <3>2. h' # <<>>
      BY <1>7, <1>8
    <3> QED
      BY <1>3, <1>7, <1>11, <3>1, <3>2
      DEF Accounted, WindowFloor, FloorFits, Floor, Balanced
  <2>2. \A i \in 1 .. M + D : g[i] \in Nat
    <3>1. \A i \in 1 .. M + D : WireLine'[i] \in 0 .. MAX_FEC
      <4> DEFINE R == 0 .. MAX_FEC
      <4>1. on_wire' \in Seq(R) /\ delayed_parity' \in Seq(R)
        BY <1>5 DEF Accounted, PlanTypeOK, WireType
      <4> HIDE DEF R
      <4>2. \A i \in 1 .. Len(on_wire') + Len(delayed_parity') :
              Line(on_wire', delayed_parity')[i] \in R
        BY <4>1, LineInRange
      <4> QED
        BY <1>5, <4>2 DEF M, D, R, WireLine
    <3> QED
      BY <3>1, Constants
  <2>3. SumFunctionOnSet(g, D + 1 .. D + M) = SumFunctionOnSet(par, 1 .. M)
    <3>1. ASSUME NEW i \in 1 .. M
          PROVE  par[i] \in Int /\ par[i] = g[i + D]
      <4>1. i \in 1 .. Len(h')
        BY <1>7
      <4>2. par[i] = h'[i].parity
        BY <4>1 DEF ParityOf
      <4>3. i + D \in 1 .. M + D
        BY <1>8
      <4> QED
        BY <1>9, <2>2, <4>2, <4>3
    <3>2. ShiftedBy(par, g, D, 1, M)
      BY <3>1 DEF ShiftedBy
    <3>3. 1 + D = D + 1 /\ M + D = D + M /\ M \in Int /\ D \in Int
      BY <1>8
    <3> HIDE DEF par, g
    <3>4. SumFunctionOnSet(par, 1 .. M) = SumFunctionOnSet(g, 1 + D .. M + D)
      BY <3>2, <3>3, SumShifted
    <3> QED
      BY <3>3, <3>4
  <2>4. SumFunctionOnSet(g, D + 1 .. D + M) >= Floor
    BY <2>1, <2>3
  <2>5. Floored(WireLine, L, D, Floor)
    BY <1>3, <1>11 DEF WireFed, FloorAlongLine, L, D
  <2>6. Moves(g, WireLine, k, M + D)
    BY <1>5
  <2>8. Floor \in Nat
    BY <1>1, FloorType
  <2> HIDE DEF g, par
  <2>7. Floored(g, M, D, Floor)
    BY <1>5, <1>8, <2>2, <2>4, <2>5, <2>6, <2>8, FloorMoves
  <2> QED
    BY <2>7 DEF g
<1>12. FloorAlongLine'
  BY <1>3, <1>5, <1>11 DEF FloorAlongLine, FloorFits, Floor, M, D
<1> QED
  BY <1>5, <1>10, <1>12 DEF WireFed

LEMMA NextWireFed == Accounted /\ Accounted' /\ WireFed /\ [PlanNext]_plan_vars => WireFed'
<1> SUFFICES ASSUME Accounted, Accounted', WireFed, [PlanNext]_plan_vars PROVE WireFed'
  OBVIOUS
<1>1. ASSUME NEW num_data \in 1 .. MAX_DATA, NEW feedback \in Feedback,
             PlanWithFloor(num_data, feedback)
      PROVE  WireFed'
  BY <1>1, PlanFeedsWire
<1>2. ASSUME NEW num_data \in 1 .. MAX_DATA, NEW feedback \in Feedback,
             PlanByRatio(num_data, feedback)
      PROVE  WireFed'
  <2>1. /\ min_window_parity = 0 /\ min_window_parity' = min_window_parity
        /\ Emit(num_data, ParityStripes(feedback, num_data))
    BY <1>2 DEF PlanByRatio
  <2>2. ParityStripes(feedback, num_data) \in 0 .. MAX_FEC
    BY Constants, RatioFits
  <2>3. WireType'
    BY <2>1, <2>2, WireLineMoves DEF Accounted, PlanTypeOK, WireFed
  <2> QED
    BY <2>1, <2>3 DEF WireFed, EndsWithWindow, FloorAlongLine
<1>3. CASE UNCHANGED plan_vars
  BY <1>3 DEF plan_vars, window_vars, WireFed, WireType, EndsWithWindow, FloorAlongLine,
    WireLine, FloorFits, Floor
<1> QED
  BY <1>1, <1>2, <1>3 DEF PlanNext

(***************************************************************************)
(* README, min_window_parity: the parity on the wire, delayed by any       *)
(* number of frames, keeps the floor over every window from the first      *)
(* frame whose parity was planned.                                         *)
(***************************************************************************)
THEOREM WireFloorAlways == PlanSpec => []WireFloor
<1>1. Accounted /\ WireFed => WireFloor
  <2> SUFFICES ASSUME Accounted, WireFed, Len(on_wire) > Len(delayed_parity),
                      FloorFits
               PROVE  SumFunction(on_wire) >= Floor
    BY DEF WireFloor
  <2> DEFINE L == Len(on_wire)
             D == Len(delayed_parity)
  <2>1. /\ on_wire \in Seq(0 .. MAX_FEC) /\ L <= WINDOW /\ min_window_parity \in Nat
        /\ delayed_parity \in Seq(0 .. MAX_FEC)
    BY Constants DEF WireFed, WireType, Accounted, PlanTypeOK
  <2>2. /\ L \in Nat /\ D \in Nat
        /\ \A i \in 1 .. L + D : WireLine[i] \in 0 .. MAX_FEC
    BY <2>1, LineInRange DEF WireLine
  <2>3. SumFunction(on_wire) = SumFunctionOnSet(on_wire, 1 .. L)
    <3>1. DOMAIN on_wire = 1 .. L
      BY <2>1
    <3> QED
      BY <3>1 DEF SumFunction
  <2>4. \A i \in 1 .. L : on_wire[i] \in Nat /\ WireLine[i] = on_wire[i]
    <3>1. \A i \in 1 .. L : on_wire[i] \in 0 .. MAX_FEC
      BY <2>1, ElementOfSeq
    <3>2. \A i \in 1 .. L : WireLine[i + 0] = on_wire[i]
      BY <2>1, LineParts DEF WireLine, Holds
    <3> QED
      BY <3>1, <3>2, Constants
  <2>5. L > D
    OBVIOUS
  <2> HIDE DEF L, D
  <2>6. SumFunctionOnSet(on_wire, 1 .. L) = SumFunctionOnSet(WireLine, 1 .. L)
    <3>1. Summable(on_wire, 1 .. L)
      <4>1. IsFiniteSet(1 .. L)
        BY <2>2, FS_Interval
      <4> QED
        BY <2>4, <4>1 DEF Summable
    <3> QED
      BY <2>4, <3>1, SumSame
  <2>7. SumFunctionOnSet(on_wire, 1 .. L) \in Nat
    <3>1. IsFiniteSet(1 .. L) /\ 1 .. L \in SUBSET (1 .. L)
      BY <2>2, FS_Interval
    <3> QED
      BY <2>4, <3>1, SumOfPart
  <2>8. CASE min_window_parity > 0
    <3>1. Floored(WireLine, L, D, Floor)
      BY <2>8 DEF WireFed, FloorAlongLine, L, D
    <3>2. L \in L .. L + D /\ WindowStart(L) = 1
      BY <2>1, <2>2, Constants DEF WindowStart, L
    <3> QED
      BY <2>3, <2>5, <2>6, <3>1, <3>2 DEF Floored
  <2>9. CASE min_window_parity = 0
    <3>1. Floor = 0
      BY <2>9, Constants DEF Floor, AtMost
    <3> QED
      BY <2>3, <2>7, <3>1
  <2> QED
    BY <2>1, <2>8, <2>9
<1> QED
  BY <1>1, InitAccounted, NextAccounted, InitWireFed, NextWireFed, PTL DEF PlanSpec

=============================================================================
