----------------------- MODULE ErasureWindow_proofs -----------------------
(***************************************************************************)
(* Proofs about ErasureWindow, for every look-back and every stripe bound: *)
(* the frames the decoder marks as recovered are determined by what        *)
(* arrived, the parities it may retain cover no unknown, and a frame that  *)
(* is alone in missing data is recovered as soon as that is possible.      *)
(*                                                                         *)
(* A decision is a simulation (StreamingCodeTheoretical), a flow           *)
(* (FlowGraph) and a system of equations.  Of the simulation the first two *)
(* use that it disables every parity over a frame it leaves undecoded; of  *)
(* the flow, that no position gives more parities than it has.  The third  *)
(* follows both through the case of one loss, where each finds all there   *)
(* is to find.                                                             *)
(***************************************************************************)
EXTENDS ErasureWindow, CommonLemmas, SequenceTheorems

LEMMA WindowIsPositive == NumFrames \in Nat /\ NumFrames > 0 /\ MAX_DATA \in Nat /\ MAX_FEC \in Nat
BY DelayAssumption, StripesAssumption DEF NumFrames

LEMMA FramesInWindow == NumFrames \in Nat \ {0} /\ Delay \in Nat /\ IsFiniteSet(Window)
<1>1. NumFrames \in Nat \ {0} /\ Delay \in Nat
  BY DelayAssumption DEF NumFrames
<1>2. IsFiniteSet(Window)
  BY <1>1, FS_Interval DEF Window
<1> QED
  BY <1>1, <1>2

(***************************************************************************)
(* StreamingCodeTheoretical: the types of its states.                      *)
(***************************************************************************)
Counts == [Window -> Nat]
Flags == [Window -> BOOLEAN]
Simulated == [missing : Counts, unusable : Flags]

LEMMA MarkUnusableType ==
  ASSUME NEW unusable \in Flags, NEW m, NEW pos, NEW n
  PROVE  MarkUnusable(m, pos, n, unusable) \in Flags
<1>1. DOMAIN unusable = Window
  BY DEF Flags
<1>2. \A q \in Window : (unusable[q] \/ (m[pos] > 0 /\ q \in pos .. AtMost(n, pos + Delay)))
                        \in BOOLEAN
  OBVIOUS
<1> QED
  BY <1>1, <1>2 DEF MarkUnusable, Flags

LEMMA DecodeFromType ==
  ASSUME NEW th \in Simulated, NEW r, NEW n, NEW start
  PROVE  DecodeFrom(r, n, th, start) \in Simulated
<1>1. th.missing \in Counts /\ th.unusable \in Flags
  BY DEF Simulated
<1>2. Tried(th.missing, NetParities(r, th.unusable), n, start) \in Counts
  BY <1>1 DEF Tried, Counts
<1> QED
  BY <1>1, <1>2, MarkUnusableType DEF DecodeFrom, Marked, Simulated

(* decode_streaming_code visits one position after the other.              *)
Passes(pass, r, n, m, unusable) ==
  /\ pass \in [0 .. n -> Simulated]
  /\ pass[0] = [missing |-> m, unusable |-> unusable]
  /\ \A i \in 1 .. n : pass[i] = DecodeFrom(r, n, pass[i - 1], i)

PassResult(pass, r, n, m) ==
  IF r[n] = 0 THEN m
  ELSE IF \A j \in 1 .. n - 1 : m[j] = 0
  THEN IF m[n] <= r[n] THEN [m EXCEPT ![n] = 0] ELSE m
  ELSE pass[n].missing

LEMMA PassUnrolls ==
  ASSUME NEW r, NEW m \in Counts, NEW unusable \in Flags, NEW n \in Window
  PROVE  \E pass : /\ Passes(pass, r, n, m, unusable)
                   /\ DecodeStreamingCode(r, n, m, unusable) = PassResult(pass, r, n, m)
<1> DEFINE pass[start \in 0 .. n] ==
             IF start = 0 THEN [missing |-> m, unusable |-> unusable]
             ELSE DecodeFrom(r, n, pass[start - 1], start)
<1>0. n \in Nat
  BY DEF Window
<1>1. Passes(pass, r, n, m, unusable)
  <2> DEFINE base == [missing |-> m, unusable |-> unusable]
             Step == [x \in (1 .. n) \X Simulated |-> DecodeFrom(r, n, x[2], x[1])]
             Good == {i \in 0 .. n : pass[i] \in Simulated}
  <2>1. base \in Simulated
    BY DEF Simulated
  <2>2. \A i \in 1 .. n, x \in Simulated : Step[<<i, x>>] = DecodeFrom(r, n, x, i)
    OBVIOUS
  <2>3. \A i \in 1 .. n, x \in Simulated : Step[<<i, x>>] \in Simulated
    BY <2>2, DecodeFromType
  <2>4. \E h \in [0 .. n -> Simulated] : Follows(h, n, base, Step)
    <3> HIDE DEF base, Step, Good, pass
    <3>1. StepsStayIn(n, Simulated, Step)
      BY <2>3 DEF StepsStayIn
    <3> QED
      BY <1>0, <2>1, <3>1, RecursionExists
  <2>5. PICK h \in [0 .. n -> Simulated] :
           h[0] = base /\ \A i \in 1 .. n : h[i] = DecodeFrom(r, n, h[i - 1], i)
    <3>1. \A i \in 1 .. n : i - 1 \in 0 .. n
      BY <1>0
    <3> HIDE DEF base, Step
    <3> QED
      BY <2>2, <2>4, <3>1 DEF Follows
  <2>6. h = [start \in 0 .. n |->
               IF start = 0 THEN [missing |-> m, unusable |-> unusable]
               ELSE DecodeFrom(r, n, h[start - 1], start)]
    BY <1>0, <2>5
  <2>7. pass = [start \in 0 .. n |->
               IF start = 0 THEN [missing |-> m, unusable |-> unusable]
               ELSE DecodeFrom(r, n, pass[start - 1], start)]
    BY <2>6
  <2> HIDE DEF pass
  <2>8. 0 \in Good
    BY <1>0, <2>1, <2>7
  <2>9. \A i \in 0 .. n - 1 : i \in Good => i + 1 \in Good
    <3> SUFFICES ASSUME NEW i \in 0 .. n - 1, pass[i] \in Simulated
                 PROVE  i + 1 \in 0 .. n /\ pass[i + 1] \in Simulated
      OBVIOUS
    <3>1. i + 1 \in 0 .. n /\ i + 1 # 0 /\ (i + 1) - 1 = i
      BY <1>0
    <3>2. pass[i + 1] = DecodeFrom(r, n, pass[i], i + 1)
      BY <2>7, <3>1
    <3> QED
      BY <3>1, <3>2, DecodeFromType
  <2>10. \A i \in 0 .. n : i \in Good
    <3> HIDE DEF Good
    <3> QED
      BY <1>0, <2>8, <2>9, CountUp
  <2>11. pass \in [0 .. n -> Simulated]
    BY <2>7, <2>10
  <2>12. /\ pass[0] = base
         /\ \A i \in 1 .. n : pass[i] = DecodeFrom(r, n, pass[i - 1], i)
    BY <1>0, <2>7
  <2> QED
    BY <2>11, <2>12 DEF Passes
<1>2. DecodeStreamingCode(r, n, m, unusable) = PassResult(pass, r, n, m)
  BY DEF DecodeStreamingCode, PassResult
<1> HIDE DEF pass
<1> QED
  BY <1>1, <1>2

LEMMA PassType ==
  ASSUME NEW r, NEW m \in Counts, NEW unusable \in Flags, NEW n \in Window
  PROVE  DecodeStreamingCode(r, n, m, unusable) \in Counts
<1>1. PICK pass : /\ Passes(pass, r, n, m, unusable)
                  /\ DecodeStreamingCode(r, n, m, unusable) = PassResult(pass, r, n, m)
  BY PassUnrolls
<1>2. pass[n].missing \in Counts
  BY <1>1 DEF Passes, Simulated, Window
<1>3. [m EXCEPT ![n] = 0] \in Counts
  BY DEF Counts
<1> QED
  BY <1>1, <1>2, <1>3 DEF PassResult

LEMMA AddFrameType ==
  ASSUME NEW r, NEW th \in Simulated, NEW n \in Window
  PROVE  AddFrame(r, th, n) \in Simulated
<1> DEFINE u == [th.unusable EXCEPT ![n] = n <= Delay \/ r[n] = 0]
<1>1. th.missing \in Counts /\ th.unusable \in Flags
  BY DEF Simulated
<1>2. u \in Flags
  BY <1>1 DEF Flags
<1> HIDE DEF u
<1>3. DecodeStreamingCode(r, n, th.missing, u) \in Counts
  BY <1>1, <1>2, PassType
<1> QED
  BY <1>2, <1>3 DEF AddFrame, Simulated, u

(* add_frames adds one frame after the other.                              *)
Adds(added, r, m) ==
  /\ added \in [0 .. NumFrames -> Simulated]
  /\ added[0] = [missing |-> m, unusable |-> [q \in Window |-> FALSE]]
  /\ \A n \in 1 .. NumFrames : added[n] = AddFrame(r, added[n - 1], n)

LEMMA FramesUnroll ==
  ASSUME NEW m \in Counts, NEW r
  PROVE  \E added : Adds(added, r, m) /\ AddFrames(m, r) = added[NumFrames]
<1> DEFINE added[n \in 0 .. NumFrames] ==
             IF n = 0 THEN [missing |-> m, unusable |-> [q \in Window |-> FALSE]]
             ELSE AddFrame(r, added[n - 1], n)
           base == [missing |-> m, unusable |-> [q \in Window |-> FALSE]]
           Step == [x \in Window \X Simulated |-> AddFrame(r, x[2], x[1])]
           Good == {i \in 0 .. NumFrames : added[i] \in Simulated}
<1>0. NumFrames \in Nat /\ Window = 1 .. NumFrames
  BY FramesInWindow DEF Window
<1>1. base \in Simulated
  BY DEF Simulated, Flags
<1>2. \A i \in 1 .. NumFrames, x \in Simulated : Step[<<i, x>>] = AddFrame(r, x, i)
  BY <1>0
<1>3. \A i \in 1 .. NumFrames, x \in Simulated : Step[<<i, x>>] \in Simulated
  BY <1>0, <1>2, AddFrameType
<1>4. \E h \in [0 .. NumFrames -> Simulated] : Follows(h, NumFrames, base, Step)
  <2> HIDE DEF base, Step, Good, added
  <2>1. StepsStayIn(NumFrames, Simulated, Step)
    BY <1>3 DEF StepsStayIn
  <2> QED
    BY <1>0, <1>1, <2>1, RecursionExists
<1>5. PICK h \in [0 .. NumFrames -> Simulated] :
         h[0] = base /\ \A i \in 1 .. NumFrames : h[i] = AddFrame(r, h[i - 1], i)
  <2>1. \A i \in 1 .. NumFrames : i - 1 \in 0 .. NumFrames
    BY <1>0
  <2> HIDE DEF base, Step
  <2> QED
    BY <1>2, <1>4, <2>1 DEF Follows
<1>6. h = [n \in 0 .. NumFrames |->
             IF n = 0 THEN [missing |-> m, unusable |-> [q \in Window |-> FALSE]]
             ELSE AddFrame(r, h[n - 1], n)]
  BY <1>0, <1>5
<1>7. added = [n \in 0 .. NumFrames |->
             IF n = 0 THEN [missing |-> m, unusable |-> [q \in Window |-> FALSE]]
             ELSE AddFrame(r, added[n - 1], n)]
  BY <1>6
<1>10. AddFrames(m, r) = added[NumFrames]
  BY DEF AddFrames
<1> HIDE DEF added
<1>8. 0 \in Good
  BY <1>0, <1>1, <1>7
<1>9. \A i \in 0 .. NumFrames - 1 : i \in Good => i + 1 \in Good
  <2> SUFFICES ASSUME NEW i \in 0 .. NumFrames - 1, added[i] \in Simulated
               PROVE  i + 1 \in 0 .. NumFrames /\ added[i + 1] \in Simulated
    OBVIOUS
  <2>1. i + 1 \in 0 .. NumFrames /\ i + 1 \in Window /\ i + 1 # 0 /\ (i + 1) - 1 = i
    BY <1>0
  <2>2. added[i + 1] = AddFrame(r, added[i], i + 1)
    BY <1>7, <2>1
  <2> QED
    BY <2>1, <2>2, AddFrameType
<1>11. \A i \in 0 .. NumFrames : i \in Good
  <2> HIDE DEF Good
  <2> QED
    BY <1>0, <1>8, <1>9, CountUp
<1>12. added \in [0 .. NumFrames -> Simulated]
  BY <1>7, <1>11
<1>13. /\ added[0] = base
       /\ \A n \in 1 .. NumFrames : added[n] = AddFrame(r, added[n - 1], n)
  <2>1. 0 \in 0 .. NumFrames /\ \A n \in 1 .. NumFrames : n \in 0 .. NumFrames /\ n # 0
    BY <1>0
  <2> QED
    BY <1>7, <2>1
<1> QED
  BY <1>10, <1>12, <1>13 DEF Adds

LEMMA AddFramesType ==
  ASSUME NEW m \in Counts, NEW r
  PROVE  AddFrames(m, r) \in Simulated
<1>1. PICK added : Adds(added, r, m) /\ AddFrames(m, r) = added[NumFrames]
  BY FramesUnroll
<1>2. NumFrames \in 0 .. NumFrames
  BY FramesInWindow
<1> QED
  BY <1>1, <1>2 DEF Adds

(* set_unusable marks the slots of one position after the other.           *)
Markings(marked, m, unusable) ==
  /\ marked \in [0 .. NumFrames -> Flags]
  /\ marked[0] = unusable
  /\ \A i \in 1 .. NumFrames : marked[i] = MarkUnusable(m, i, NumFrames, marked[i - 1])

LEMMA MarkingsUnroll ==
  ASSUME NEW m \in Counts, NEW unusable \in Flags
  PROVE  \E marked : /\ Markings(marked, m, unusable)
                     /\ Outcome(m, unusable).unusable = marked[NumFrames]
                     /\ Outcome(m, unusable).recovered = {q \in Window : m[q] = 0}
<1> DEFINE marked[pos \in 0 .. NumFrames] ==
             IF pos = 0 THEN unusable
             ELSE MarkUnusable(m, pos, NumFrames, marked[pos - 1])
           Step == [x \in Window \X Flags |-> MarkUnusable(m, x[1], NumFrames, x[2])]
<1>0. NumFrames \in Nat /\ Window = 1 .. NumFrames
  BY FramesInWindow DEF Window
<1>1. \A i \in 1 .. NumFrames, x \in Flags : Step[<<i, x>>] = MarkUnusable(m, i, NumFrames, x)
  BY <1>0
<1>2. StepsStayIn(NumFrames, Flags, Step)
  <2>1. \A i \in 1 .. NumFrames, x \in Flags : MarkUnusable(m, i, NumFrames, x) \in Flags
    BY MarkUnusableType
  <2> HIDE DEF Step
  <2> QED
    BY <1>1, <2>1 DEF StepsStayIn
<1>3. \E h \in [0 .. NumFrames -> Flags] : Follows(h, NumFrames, unusable, Step)
  <2> HIDE DEF Step, marked
  <2> QED
    BY <1>0, <1>2, RecursionExists
<1>4. PICK h \in [0 .. NumFrames -> Flags] :
         h[0] = unusable /\ \A i \in 1 .. NumFrames : h[i] = MarkUnusable(m, i, NumFrames, h[i - 1])
  <2>1. \A i \in 1 .. NumFrames : i - 1 \in 0 .. NumFrames
    BY <1>0
  <2> HIDE DEF Step, marked
  <2> QED
    BY <1>1, <1>3, <2>1 DEF Follows
<1>5. h = [pos \in 0 .. NumFrames |->
             IF pos = 0 THEN unusable ELSE MarkUnusable(m, pos, NumFrames, h[pos - 1])]
  BY <1>0, <1>4
<1>6. marked = [pos \in 0 .. NumFrames |->
             IF pos = 0 THEN unusable ELSE MarkUnusable(m, pos, NumFrames, marked[pos - 1])]
  BY <1>5
<1>7. /\ Outcome(m, unusable).unusable = marked[NumFrames]
      /\ Outcome(m, unusable).recovered = {q \in Window : m[q] = 0}
  BY DEF Outcome
<1> HIDE DEF marked
<1>8. marked[0] = unusable
  BY <1>0, <1>6
<1>9. \A i \in 1 .. NumFrames : marked[i] = MarkUnusable(m, i, NumFrames, marked[i - 1])
  BY <1>0, <1>6
<1>10. \A i \in 0 .. NumFrames : marked[i] \in Flags
  <2> DEFINE Good == {i \in 0 .. NumFrames : marked[i] \in Flags}
  <2>1. 0 \in Good
    BY <1>0, <1>8
  <2>2. ASSUME NEW i \in 0 .. NumFrames - 1, i \in Good
        PROVE  i + 1 \in Good
    <3>1. i + 1 \in 1 .. NumFrames /\ i + 1 \in 0 .. NumFrames /\ (i + 1) - 1 = i
      BY <1>0
    <3>2. marked[i + 1] = MarkUnusable(m, i + 1, NumFrames, marked[i])
      BY <1>9, <3>1
    <3> QED
      BY <2>2, <3>1, <3>2, MarkUnusableType
  <2>3. \A i \in 0 .. NumFrames - 1 : i \in Good => i + 1 \in Good
    BY <2>2
  <2>4. \A i \in 0 .. NumFrames : i \in Good
    <3> HIDE DEF Good
    <3> QED
      BY <1>0, <2>1, <2>3, CountUp
  <2> QED
    BY <2>4
<1>11. marked \in [0 .. NumFrames -> Flags]
  BY <1>6, <1>10
<1> QED
  BY <1>7, <1>8, <1>9, <1>11 DEF Markings

(* Outcome: a parity left usable covers only decoded frames.               *)
LEMMA UsableCoversRecovered ==
  ASSUME NEW m \in Counts, NEW unusable \in Flags,
         NEW p \in Window, NEW d \in Window, Covers(p, d), ~ Outcome(m, unusable).unusable[p]
  PROVE  d \in Outcome(m, unusable).recovered
<1>1. PICK marked : /\ Markings(marked, m, unusable)
                    /\ Outcome(m, unusable).unusable = marked[NumFrames]
                    /\ Outcome(m, unusable).recovered = {q \in Window : m[q] = 0}
  BY MarkingsUnroll
<1> DEFINE Closed(k) == \A c \in 1 .. k, q \in Window :
                          m[c] > 0 /\ q \in c .. AtMost(NumFrames, c + Delay) => marked[k][q]
           Good == {k \in 0 .. NumFrames : Closed(k)}
<1>0. NumFrames \in Nat /\ Window = 1 .. NumFrames /\ Delay \in Nat
  BY FramesInWindow DEF Window
<1>2. 0 \in Good
  BY <1>0
<1>3. ASSUME NEW i \in 0 .. NumFrames - 1, i \in Good
      PROVE  i + 1 \in Good
  <2>1. /\ i \in Nat /\ i \in 0 .. NumFrames /\ i + 1 \in 0 .. NumFrames
        /\ i + 1 \in 1 .. NumFrames /\ (i + 1) - 1 = i
    BY <1>0
  <2>2. marked[i] \in Flags /\ marked[i + 1] = MarkUnusable(m, i + 1, NumFrames, marked[i])
    <3>1. marked[i + 1] = MarkUnusable(m, i + 1, NumFrames, marked[(i + 1) - 1])
      BY <1>1, <2>1 DEF Markings
    <3> QED
      BY <1>1, <2>1, <3>1 DEF Markings
  <2>3. Closed(i)
    BY <1>3
  <2>4. \A q \in Window : marked[i + 1][q] =
          (marked[i][q] \/ (m[i + 1] > 0 /\ q \in i + 1 .. AtMost(NumFrames, i + 1 + Delay)))
    BY <2>2 DEF MarkUnusable, Flags
  <2>5. Closed(i + 1)
    <3> SUFFICES ASSUME NEW c \in 1 .. i + 1, NEW q \in Window,
                        m[c] > 0, q \in c .. AtMost(NumFrames, c + Delay)
                 PROVE  marked[i + 1][q]
      OBVIOUS
    <3>1. c \in 1 .. i \/ c = i + 1
      BY <2>1
    <3> QED
      BY <2>3, <2>4, <3>1
  <2> QED
    BY <2>1, <2>5
<1>4. NumFrames \in Good
  <2>1. NumFrames \in 0 .. NumFrames
    BY <1>0
  <2>2. \A i \in 0 .. NumFrames - 1 : i \in Good => i + 1 \in Good
    BY <1>3
  <2> HIDE DEF Good
  <2> QED
    BY <1>0, <1>2, <2>1, <2>2, CountUp
<1>5. p \in d .. AtMost(NumFrames, d + Delay)
  BY <1>0 DEF Covers, AtMost
<1>6. ~ (m[d] > 0)
  BY <1>0, <1>1, <1>4, <1>5
<1> QED
  BY <1>1, <1>6 DEF Counts

LEMMA UsableCoversDecoded ==
  ASSUME NEW m \in Counts, NEW r,
         NEW p \in Window, NEW d \in Window, Covers(p, d), ~ Theoretical(m, r).unusable[p]
  PROVE  d \in Theoretical(m, r).recovered
<1>1. AddFrames(m, r).missing \in Counts /\ AddFrames(m, r).unusable \in Flags
  BY AddFramesType DEF Simulated
<1> QED
  BY <1>1, UsableCoversRecovered DEF Theoretical, OutcomeOf

LEMMA CountsOfTypes ==
  ASSUME TypeOK
  PROVE  /\ missing \in Counts /\ received \in Counts /\ before \in Counts
         /\ solved \subseteq Window
BY WindowIsPositive DEF TypeOK, Counts

LEMMA RetainedNow ==
  ASSUME TypeOK
  PROVE  RetainedCoversNoUnknown
BY CountsOfTypes, UsableCoversDecoded DEF RetainedCoversNoUnknown

(***************************************************************************)
(* FlowGraph.                                                              *)
(***************************************************************************)
LEMMA NodesAreOrdered ==
  /\ IsFiniteSet(Nodes)
  /\ \A x \in Nodes : Order(x) \in Nat
  /\ \A x, y \in Nodes : Order(x) = Order(y) => x = y
<1>0. NumFrames \in Nat /\ Window = 1 .. NumFrames /\ Delay \in Nat
  BY FramesInWindow DEF Window
<1>1. ASSUME NEW x \in Nodes
      PROVE  \/ x[1] = "p" /\ x = <<"p", x[2]>> /\ x[2] \in Window
             \/ x[1] = "d" /\ x = <<"d", x[2]>> /\ x[2] \in Window
  <2>1. CASE x \in ParityNodes
    BY <1>0, <2>1 DEF ParityNodes
  <2>2. CASE x \in DataNodes
    BY <1>0, <2>2 DEF DataNodes
  <2> QED
    BY <2>1, <2>2 DEF Nodes
<1>2. \A x \in Nodes : Order(x) \in 1 .. NumFrames + NumFrames
  <2> SUFFICES ASSUME NEW x \in Nodes PROVE Order(x) \in 1 .. NumFrames + NumFrames
    OBVIOUS
  <2> QED
    BY <1>0, <1>1 DEF Order
<1>3. \A x, y \in Nodes : Order(x) = Order(y) => x = y
  <2> SUFFICES ASSUME NEW x \in Nodes, NEW y \in Nodes, Order(x) = Order(y) PROVE x = y
    OBVIOUS
  <2>1. x[1] = "p" => Order(x) = x[2] /\ x[2] \in 1 .. NumFrames
    BY <1>0, <1>1 DEF Order
  <2>2. x[1] # "p" => x[1] = "d" /\ Order(x) = NumFrames + x[2] /\ x[2] \in 1 .. NumFrames
    BY <1>0, <1>1 DEF Order
  <2>3. y[1] = "p" => Order(y) = y[2] /\ y[2] \in 1 .. NumFrames
    BY <1>0, <1>1 DEF Order
  <2>4. y[1] # "p" => y[1] = "d" /\ Order(y) = NumFrames + y[2] /\ y[2] \in 1 .. NumFrames
    BY <1>0, <1>1 DEF Order
  <2>5. x[1] = y[1] /\ x[2] = y[2]
    BY <1>0, <2>1, <2>2, <2>3, <2>4
  <2> QED
    BY <1>1, <2>5
<1>4. IsFiniteSet(Nodes)
  <2> DEFINE f == [x \in Nodes |-> Order(x)]
  <2>1. f \in Injection(Nodes, 1 .. NumFrames + NumFrames)
    BY <1>2, <1>3 DEF Injection, IsInjective
  <2>2. IsFiniteSet(1 .. NumFrames + NumFrames)
    BY <1>0, FS_Interval
  <2> HIDE DEF f
  <2> QED
    BY <2>1, <2>2, FS_Injection
<1> QED
  BY <1>0, <1>2, <1>3, <1>4

(* Every node of S is listed.                                              *)
Lists(list, S) ==
  /\ list \in Seq(S) /\ Len(list) = Cardinality(S)
  /\ \A y \in S : \E k \in 1 .. Len(list) : list[k] = y

LEMMA RanksList ==
  ASSUME NEW S, IsFiniteSet(S), NEW list \in [1 .. Cardinality(S) -> S],
         NEW rank, \A k \in 1 .. Cardinality(S) : rank[list[k]] = k - 1
  PROVE  Lists(list, S)
<1> DEFINE n == Cardinality(S)
<1>1. n \in Nat /\ IsFiniteSet(1 .. n) /\ Cardinality(1 .. n) = n
  <2>1. n \in Nat
    BY FS_CardinalityType
  <2> HIDE DEF n
  <2> QED
    BY <2>1, FS_Interval
<1> HIDE DEF n
<1>2. list \in [1 .. n -> S] /\ Cardinality(S) = n
  BY DEF n
<1>3. \A j, k \in 1 .. n : list[j] = list[k] => j = k
  <2>1. \A k \in 1 .. n : rank[list[k]] = k - 1
    BY DEF n
  <2> SUFFICES ASSUME NEW j \in 1 .. n, NEW k \in 1 .. n, list[j] = list[k] PROVE j = k
    OBVIOUS
  <2>2. j - 1 = k - 1
    BY <2>1
  <2> QED
    BY <1>1, <2>2
<1>4. list \in Surjection(1 .. n, S)
  <2>1. list \in Injection(1 .. n, S)
    BY <1>2, <1>3 DEF Injection, IsInjective
  <2> QED
    BY <1>1, <1>2, <2>1, FS_Injection
<1>5. list \in Seq(S) /\ Len(list) = n
  BY <1>1, <1>2
<1> QED
  BY <1>2, <1>4, <1>5 DEF Lists, Surjection

LEMMA ListsNodes ==
  ASSUME NEW S \in SUBSET Nodes
  PROVE  /\ Descending(S) \in Seq(S) /\ Lists(Descending(S), S)
         /\ Ascending(S) \in Seq(S) /\ Lists(Ascending(S), S)
<1> DEFINE down == [x \in Nodes |-> Order(x)]
           up == [x \in Nodes |-> - Order(x)]
           n == Cardinality(S)
<1>1. IsFiniteSet(S) /\ n \in Nat
  BY NodesAreOrdered, FS_Subset, FS_CardinalityType
<1>2. /\ \A x \in S : down[x] \in Int /\ up[x] \in Int /\ down[x] = Order(x) /\ up[x] = - Order(x)
      /\ \A x, y \in S : down[x] = down[y] => x = y
      /\ \A x, y \in S : up[x] = up[y] => x = y
  <2>1. \A x \in S : x \in Nodes /\ Order(x) \in Nat
    BY NodesAreOrdered
  <2>2. \A x, y \in S : - Order(x) = - Order(y) => Order(x) = Order(y)
    BY <2>1
  <2> QED
    BY <2>1, <2>2, NodesAreOrdered
<1>3. ASSUME NEW k \in 1 .. n
      PROVE  /\ \E x \in S : Cardinality({y \in S : Order(y) > Order(x)}) = k - 1
             /\ \E x \in S : Cardinality({y \in S : Order(y) < Order(x)}) = k - 1
  <2>1. k - 1 \in 0 .. n - 1
    BY <1>1
  <2>6. Orders(down, S) /\ Orders(up, S)
    BY <1>1, <1>2 DEF Orders
  <2> HIDE DEF down, up
  <2>7. \E z \in S : Rank(up, S, z) = k - 1
    BY <2>1, <2>6, RankTaken DEF n
  <2>2. PICK x \in S : Rank(down, S, x) = k - 1
    BY <2>1, <2>6, RankTaken DEF n
  <2>3. PICK z \in S : Rank(up, S, z) = k - 1
    BY <2>7
  <2>4. {y \in S : down[y] > down[x]} = {y \in S : Order(y) > Order(x)}
    BY <1>2
  <2>5. {y \in S : up[y] > up[z]} = {y \in S : Order(y) < Order(z)}
    BY <1>2, NodesAreOrdered
  <2> QED
    BY <2>2, <2>3, <2>4, <2>5 DEF Rank
<1> HIDE DEF n
<1>4. Descending(S) \in [1 .. n -> S]
  BY <1>3 DEF Descending, n
<1>5. Ascending(S) \in [1 .. n -> S]
  BY <1>3 DEF Ascending, n
<1> DEFINE above == [x \in S |-> Cardinality({y \in S : Order(y) > Order(x)})]
           below == [x \in S |-> Cardinality({y \in S : Order(y) < Order(x)})]
<1>6. \A k \in 1 .. n : above[Descending(S)[k]] = k - 1 /\ below[Ascending(S)[k]] = k - 1
  <2> SUFFICES ASSUME NEW k \in 1 .. n
               PROVE  above[Descending(S)[k]] = k - 1 /\ below[Ascending(S)[k]] = k - 1
    OBVIOUS
  <2>1. Descending(S)[k] \in S /\ Ascending(S)[k] \in S
    BY <1>4, <1>5
  <2>2. Descending(S)[k] = CHOOSE x \in S : above[x] = k - 1
    <3>1. Descending(S)[k] = CHOOSE x \in S : Cardinality({y \in S : Order(y) > Order(x)}) = k - 1
      BY DEF Descending, n
    <3> QED
      BY <3>1
  <2>3. Ascending(S)[k] = CHOOSE x \in S : below[x] = k - 1
    <3>1. Ascending(S)[k] = CHOOSE x \in S : Cardinality({y \in S : Order(y) < Order(x)}) = k - 1
      BY DEF Ascending, n
    <3> QED
      BY <3>1
  <2>4. \E x \in S : above[x] = k - 1
    BY <1>3
  <2>5. \E x \in S : below[x] = k - 1
    BY <1>3
  <2> HIDE DEF above, below
  <2> QED
    BY <2>2, <2>3, <2>4, <2>5
<1> HIDE DEF above, below
<1>7. Lists(Descending(S), S) /\ Lists(Ascending(S), S)
  <2>1. /\ Descending(S) \in [1 .. Cardinality(S) -> S]
        /\ \A k \in 1 .. Cardinality(S) : above[Descending(S)[k]] = k - 1
    BY <1>4, <1>6 DEF n
  <2>2. /\ Ascending(S) \in [1 .. Cardinality(S) -> S]
        /\ \A k \in 1 .. Cardinality(S) : below[Ascending(S)[k]] = k - 1
    BY <1>5, <1>6 DEF n
  <2>3. Lists(Descending(S), S)
    BY <1>1, <2>1, RanksList
  <2>4. Lists(Ascending(S), S)
    BY <1>1, <2>2, RanksList
  <2> QED
    BY <2>3, <2>4
<1> QED
  BY <1>1, <1>4, <1>5, <1>7

(* The breadth-first search: what it has found is reached from a root.     *)
Leads(path, roots) ==
  \A y \in DOMAIN path : /\ path[y] \in Seq(Nodes) /\ Len(path[y]) > 0
                         /\ path[y][1] \in roots /\ path[y][Len(path[y])] = y

Paths == UNION {[D -> Seq(Nodes)] : D \in SUBSET Nodes}

Searches(roots) ==
  {b \in [queue : Seq(Nodes), path : Paths] :
     /\ \A i \in 1 .. Len(b.queue) : b.queue[i] \in DOMAIN b.path
     /\ Leads(b.path, roots)}

LEMMA ExtendedSearch ==
  ASSUME NEW roots, NEW b \in Searches(roots), NEW x \in DOMAIN b.path,
         NEW found \in SUBSET Nodes
  PROVE  Extended(b, x, found) \in Searches(roots)
<1> DEFINE D == DOMAIN b.path \cup found
           path == [y \in D |-> IF y \in found THEN Append(b.path[x], y) ELSE b.path[y]]
           queue == b.queue \o Descending(found)
<1>1. /\ b.queue \in Seq(Nodes) /\ b.path \in Paths
      /\ \A i \in 1 .. Len(b.queue) : b.queue[i] \in DOMAIN b.path
      /\ Leads(b.path, roots)
  BY DEF Searches
<1>2. D \in SUBSET Nodes
  BY <1>1 DEF Paths
<1>3. /\ b.path[x] \in Seq(Nodes) /\ Len(b.path[x]) > 0 /\ b.path[x][1] \in roots
  BY <1>1 DEF Leads
<1>4. ASSUME NEW y \in D
      PROVE  /\ path[y] \in Seq(Nodes) /\ Len(path[y]) > 0
             /\ path[y][1] \in roots /\ path[y][Len(path[y])] = y
  <2>1. CASE y \in found
    <3> DEFINE s == b.path[x]
    <3>1. path[y] = Append(s, y)
      BY <2>1
    <3>2. s \in Seq(Nodes) /\ Len(s) \in Nat /\ Len(s) > 0 /\ y \in Nodes /\ s[1] \in roots
      BY <1>3, <2>1, LenProperties
    <3> HIDE DEF s, path
    <3>3. /\ Append(s, y) \in Seq(Nodes) /\ Len(Append(s, y)) = Len(s) + 1
          /\ Append(s, y)[Len(s) + 1] = y /\ Append(s, y)[1] = s[1]
      BY <3>2, AppendProperties
    <3> QED
      BY <3>1, <3>2, <3>3
  <2>2. CASE y \notin found
    <3>1. path[y] = b.path[y] /\ y \in DOMAIN b.path
      BY <2>2
    <3> HIDE DEF path
    <3> QED
      BY <1>1, <3>1 DEF Leads
  <2> QED
    BY <2>1, <2>2
<1>5. path \in Paths /\ DOMAIN path = D
  <2> HIDE DEF D
  <2>1. path \in [D -> Seq(Nodes)]
    <3>1. \A y \in D : path[y] \in Seq(Nodes)
      BY <1>4
    <3>2. path = [y \in D |-> path[y]]
      OBVIOUS
    <3> HIDE DEF path
    <3> QED
      BY <3>1, <3>2
  <2> HIDE DEF path
  <2> QED
    BY <1>2, <2>1 DEF Paths
<1>6. Descending(found) \in Seq(found) /\ Descending(found) \in Seq(Nodes)
  BY ListsNodes, SeqMonotonic
<1>7. queue \in Seq(Nodes) /\ \A i \in 1 .. Len(queue) : queue[i] \in D
  <2> DEFINE new == Descending(found)
  <2>1. b.queue \in Seq(D) /\ new \in Seq(D)
    <3>1. b.queue \in Seq(DOMAIN b.path)
      BY <1>1
    <3> QED
      BY <1>6, <3>1, SeqMonotonic
  <2> HIDE DEF new
  <2>2. b.queue \o new \in Seq(D)
    <3> HIDE DEF D
    <3> QED
      BY <2>1, ConcatProperties
  <2>3. queue \in Seq(D)
    BY <2>2 DEF new
  <2> HIDE DEF queue, D
  <2> QED
    BY <1>2, <2>3, SeqMonotonic
<1>8. Extended(b, x, found) = [queue |-> queue, path |-> path]
  BY DEF Extended
<1> HIDE DEF queue, path, D
<1>9. Leads(path, roots)
  BY <1>4, <1>5 DEF Leads
<1> QED
  BY <1>5, <1>7, <1>8, <1>9 DEF Searches

LEMMA VisitSearch ==
  ASSUME NEW roots, NEW b \in Searches(roots), NEW g, NEW i \in Nat \ {0}
  PROVE  Visit(g, b, i) \in Searches(roots)
<1>1. /\ b.queue \in Seq(Nodes)
      /\ \A k \in 1 .. Len(b.queue) : b.queue[k] \in DOMAIN b.path
  BY DEF Searches
<1>2. Len(b.queue) \in Nat
  BY <1>1, LenProperties
<1>3. CASE i > Len(b.queue)
  BY <1>3 DEF Visit
<1>4. CASE ~ (i > Len(b.queue))
  <2> DEFINE x == b.queue[i]
             found == {y \in Nodes \ DOMAIN b.path : g.cap[<<x, y>>] > 0}
  <2>1. x \in DOMAIN b.path
    BY <1>1, <1>2, <1>4
  <2>2. found \in SUBSET Nodes
    OBVIOUS
  <2>3. Visit(g, b, i) = Extended(b, x, found)
    BY <1>4 DEF Visit
  <2> HIDE DEF x, found
  <2> QED
    BY <2>1, <2>2, <2>3, ExtendedSearch
<1> QED
  BY <1>3, <1>4

Visits(bfs, g, roots) ==
  /\ bfs \in [0 .. Cardinality(Nodes) -> Searches(roots)]
  /\ bfs[0] = [queue |-> Ascending(roots), path |-> [x \in roots |-> <<x>>]]
  /\ \A i \in 1 .. Cardinality(Nodes) : bfs[i] = Visit(g, bfs[i - 1], i)

LEMMA SearchUnrolls ==
  ASSUME NEW g, NEW roots \in SUBSET Nodes
  PROVE  \E bfs : Visits(bfs, g, roots) /\ SearchFrom(g, roots) = bfs[Cardinality(Nodes)]
<1> DEFINE n == Cardinality(Nodes)
           States == Searches(roots)
           bfs[i \in 0 .. n] ==
             IF i = 0 THEN [queue |-> Ascending(roots), path |-> [x \in roots |-> <<x>>]]
             ELSE Visit(g, bfs[i - 1], i)
           base == [queue |-> Ascending(roots), path |-> [x \in roots |-> <<x>>]]
           Step == [x \in (1 .. n) \X States |-> Visit(g, x[2], x[1])]
           Good == {i \in 0 .. n : bfs[i] \in States}
<1>0. n \in Nat
  BY NodesAreOrdered, FS_CardinalityType
<1>1. SearchFrom(g, roots) = bfs[n]
  BY DEF SearchFrom
<1> HIDE DEF n
<1>2. base \in States
  <2> DEFINE path == [x \in roots |-> <<x>>]
  <2>1. Ascending(roots) \in Seq(roots) /\ Ascending(roots) \in Seq(Nodes)
    BY ListsNodes, SeqMonotonic
  <2>2. path \in [roots -> Seq(Nodes)]
    OBVIOUS
  <2>3. path \in Paths /\ DOMAIN path = roots /\ Leads(path, roots)
    BY <2>2 DEF Paths, Leads
  <2>4. \A i \in 1 .. Len(Ascending(roots)) : Ascending(roots)[i] \in roots
    BY <2>1, ElementOfSeq
  <2>5. base.path = path /\ base.queue = Ascending(roots)
    OBVIOUS
  <2>6. base \in [queue : Seq(Nodes), path : Paths]
    BY <2>1, <2>3
  <2> HIDE DEF path, base
  <2> QED
    BY <2>3, <2>4, <2>5, <2>6 DEF Searches
<1>3. \A i \in 1 .. n, x \in States : Step[<<i, x>>] = Visit(g, x, i)
  OBVIOUS
<1>4. StepsStayIn(n, States, Step)
  <2>1. \A i \in 1 .. n, x \in States : Visit(g, x, i) \in States
    BY <1>0, VisitSearch
  <2> HIDE DEF Step, States
  <2> QED
    BY <1>3, <2>1 DEF StepsStayIn
<1>5. \E h \in [0 .. n -> States] : Follows(h, n, base, Step)
  <2> HIDE DEF base, Step, Good, bfs, States
  <2> QED
    BY <1>0, <1>2, <1>4, RecursionExists
<1>6. PICK h \in [0 .. n -> States] :
         h[0] = base /\ \A i \in 1 .. n : h[i] = Visit(g, h[i - 1], i)
  <2>1. \A i \in 1 .. n : i - 1 \in 0 .. n
    BY <1>0
  <2> HIDE DEF base, Step, Good, bfs, States
  <2> QED
    BY <1>3, <1>5, <2>1 DEF Follows
<1>7. h = [i \in 0 .. n |->
             IF i = 0 THEN [queue |-> Ascending(roots), path |-> [x \in roots |-> <<x>>]]
             ELSE Visit(g, h[i - 1], i)]
  BY <1>0, <1>6
<1>8. bfs = [i \in 0 .. n |->
             IF i = 0 THEN [queue |-> Ascending(roots), path |-> [x \in roots |-> <<x>>]]
             ELSE Visit(g, bfs[i - 1], i)]
  BY <1>7
<1> HIDE DEF bfs, States
<1>9. 0 \in Good
  BY <1>0, <1>2, <1>8
<1>10. \A i \in 0 .. n - 1 : i \in Good => i + 1 \in Good
  <2> SUFFICES ASSUME NEW i \in 0 .. n - 1, bfs[i] \in States
               PROVE  i + 1 \in 0 .. n /\ bfs[i + 1] \in States
    OBVIOUS
  <2>1. i + 1 \in 0 .. n /\ i + 1 # 0 /\ i + 1 \in Nat \ {0} /\ (i + 1) - 1 = i
    BY <1>0
  <2>2. bfs[i + 1] = Visit(g, bfs[i], i + 1)
    BY <1>8, <2>1
  <2> QED
    BY <2>1, <2>2, VisitSearch DEF States
<1>11. \A i \in 0 .. n : i \in Good
  <2> HIDE DEF Good
  <2> QED
    BY <1>0, <1>9, <1>10, CountUp
<1>12. bfs \in [0 .. n -> States]
  BY <1>8, <1>11
<1>13. bfs[0] = base /\ \A i \in 1 .. n : bfs[i] = Visit(g, bfs[i - 1], i)
  BY <1>0, <1>8
<1> QED
  BY <1>1, <1>12, <1>13 DEF States, n, Visits

LEMMA SearchReaches ==
  ASSUME NEW g, NEW roots \in SUBSET Nodes
  PROVE  SearchFrom(g, roots) \in Searches(roots)
<1>1. PICK bfs : Visits(bfs, g, roots) /\ SearchFrom(g, roots) = bfs[Cardinality(Nodes)]
  BY SearchUnrolls
<1>2. Cardinality(Nodes) \in 0 .. Cardinality(Nodes)
  BY NodesAreOrdered, FS_CardinalityType
<1> QED
  BY <1>1, <1>2 DEF Visits

(* maxflow: a parity node never gives more than it has.                    *)
Flows ==
  {g \in [excess : [Nodes -> Int], cap : [Nodes \X Nodes -> Int]] :
     \A x \in ParityNodes : g.excess[x] >= 0}

LEMMA HopsOfPath ==
  ASSUME NEW path \in Seq(Nodes)
  PROVE  Hops(path) \in SUBSET (Nodes \X Nodes) /\ IsFiniteSet(Hops(path))
<1> DEFINE n == Len(path) - 1
           f == [i \in 1 .. n |-> <<path[i], path[i + 1]>>]
<1>1. n \in Int /\ Len(path) \in Nat
  BY LenProperties
<1>2. \A i \in 1 .. n : i \in 1 .. Len(path) /\ i + 1 \in 1 .. Len(path)
  BY <1>1
<1>3. \A i \in 1 .. n : path[i] \in Nodes /\ path[i + 1] \in Nodes
  BY <1>2, ElementOfSeq
<1>4. IsFiniteSet({f[i] : i \in 1 .. n})
  <2>1. IsFiniteSet(1 .. n)
    BY <1>1, FS_Interval
  <2> HIDE DEF f, n
  <2> QED
    BY <2>1, FiniteImage
<1>5. Hops(path) = {f[i] : i \in 1 .. n}
  BY DEF Hops
<1> QED
  BY <1>3, <1>4, <1>5

LEMMA PushKeepsFlow ==
  ASSUME NEW g \in Flows, NEW path \in Seq(Nodes), Len(path) > 0,
         g.excess[path[1]] > 0, g.excess[path[Len(path)]] < 0
  PROVE  Push(g, path) \in Flows
<1> DEFINE from == path[1]
           to == path[Len(path)]
           options == {g.excess[from], - g.excess[to]} \cup {g.cap[e] : e \in Hops(path)}
           amount == Min(options)
           excess == [g.excess EXCEPT ![from] = @ - amount, ![to] = @ + amount]
           cap == [e \in DOMAIN g.cap |->
                     IF e \in Hops(path) THEN g.cap[e] - AugmentBy(amount)
                     ELSE IF Back(e) \in Hops(path) THEN g.cap[e] + AugmentBy(amount)
                     ELSE g.cap[e]]
<1>1. /\ g.excess \in [Nodes -> Int] /\ g.cap \in [Nodes \X Nodes -> Int]
      /\ \A x \in ParityNodes : g.excess[x] >= 0
  BY DEF Flows
<1>2. from \in Nodes /\ to \in Nodes
  <2>1. 1 \in 1 .. Len(path) /\ Len(path) \in 1 .. Len(path)
    BY LenProperties
  <2> QED
    BY <2>1, ElementOfSeq
<1>3. Push(g, path) = [excess |-> excess, cap |-> cap]
  BY DEF Push
<1> HIDE DEF from, to
<1>4. g.excess[from] \in Int /\ g.excess[from] > 0 /\ g.excess[to] \in Int /\ g.excess[to] < 0
  BY <1>1, <1>2 DEF from, to
<1>5. options \in SUBSET Int /\ IsFiniteSet(options) /\ options # {}
  <2> DEFINE a == {g.excess[from], - g.excess[to]}
             b == {g.cap[e] : e \in Hops(path)}
  <2>1. a \in SUBSET Int /\ a # {}
    BY <1>4
  <2>2. b \in SUBSET Int
    BY <1>1, HopsOfPath
  <2>3. IsFiniteSet(b)
    BY HopsOfPath, FiniteImage
  <2>4. IsFiniteSet(a)
    <3>1. a = {g.excess[from]} \cup {- g.excess[to]}
      OBVIOUS
    <3>2. IsFiniteSet({g.excess[from]}) /\ IsFiniteSet({- g.excess[to]})
      BY FS_Singleton
    <3> HIDE DEF a
    <3> QED
      BY <3>1, <3>2, FS_Union
  <2>5. options = a \cup b
    OBVIOUS
  <2> HIDE DEF a, b, options
  <2>6. IsFiniteSet(a \cup b)
    BY <2>3, <2>4, FS_Union
  <2> QED
    BY <2>1, <2>2, <2>5, <2>6
<1>6. g.excess[from] \in options
  OBVIOUS
<1>7. amount \in Int /\ amount <= g.excess[from]
  <2> HIDE DEF options
  <2> QED
    BY <1>5, <1>6, MinIsLeast
<1> HIDE DEF amount, options
<1>8. from # to
  BY <1>4
<1>9. excess \in [Nodes -> Int]
  <2> DEFINE f == g.excess
             a == [f EXCEPT ![from] = f[from] - amount]
  <2>1. excess = [a EXCEPT ![to] = a[to] + amount]
    OBVIOUS
  <2>2. f[from] - amount \in Int /\ f \in [Nodes -> Int]
    BY <1>1, <1>4, <1>7
  <2> HIDE DEF f, excess
  <2>3. a \in [Nodes -> Int]
    BY <1>2, <2>2
  <2>4. a[to] + amount \in Int
    BY <1>2, <1>7, <2>3
  <2> HIDE DEF a
  <2> QED
    BY <1>2, <2>1, <2>3, <2>4
<1>10. \A x \in Nodes : excess[x] = IF x = to THEN g.excess[to] + amount
                                    ELSE IF x = from THEN g.excess[from] - amount
                                    ELSE g.excess[x]
  BY <1>1, <1>2, <1>8
<1>11. cap \in [Nodes \X Nodes -> Int]
  <2>1. AugmentBy(amount) \in Int
    BY <1>7 DEF AugmentBy
  <2>2. DOMAIN g.cap = Nodes \X Nodes /\ \A e \in Nodes \X Nodes : g.cap[e] \in Int
    BY <1>1
  <2>3. \A e \in Nodes \X Nodes : /\ g.cap[e] - AugmentBy(amount) \in Int
                                  /\ g.cap[e] + AugmentBy(amount) \in Int
    BY <2>1, <2>2
  <2> QED
    BY <2>2, <2>3
<1> HIDE DEF excess, cap
<1>12. \A x \in ParityNodes : excess[x] >= 0
  <2> SUFFICES ASSUME NEW x \in ParityNodes PROVE excess[x] >= 0
    OBVIOUS
  <2>1. x \in Nodes /\ g.excess[x] >= 0 /\ x # to
    BY <1>1, <1>4 DEF Nodes
  <2>2. CASE x = from
    <3>1. excess[x] = g.excess[from] - amount
      BY <1>10, <2>1, <2>2
    <3> QED
      BY <1>4, <1>7, <3>1
  <2>3. CASE x # from
    BY <1>10, <2>1, <2>3
  <2> QED
    BY <2>2, <2>3
<1> QED
  BY <1>3, <1>9, <1>11, <1>12 DEF Flows

LEMMA AugmentKeepsFlow ==
  ASSUME NEW g \in Flows
  PROVE  Augment(g) \in Flows
<1> DEFINE roots == {x \in Nodes : g.excess[x] > 0}
           bfs == SearchFrom(g, roots)
           sinks == {i \in DOMAIN bfs.queue : g.excess[bfs.queue[i]] < 0}
           path == bfs.path[bfs.queue[Min(sinks)]]
<1>1. bfs \in Searches(roots)
  <2>1. roots \in SUBSET Nodes
    OBVIOUS
  <2> HIDE DEF roots
  <2> QED
    BY <2>1, SearchReaches
<1>2. Augment(g) = IF sinks = {} THEN g ELSE Push(g, path)
  BY DEF Augment, AugmentAlong, Search
<1> HIDE DEF bfs
<1>3. /\ bfs.queue \in Seq(Nodes) /\ Leads(bfs.path, roots)
      /\ \A i \in 1 .. Len(bfs.queue) : bfs.queue[i] \in DOMAIN bfs.path
  BY <1>1 DEF Searches
<1>4. CASE sinks # {}
  <2>1. DOMAIN bfs.queue = 1 .. Len(bfs.queue) /\ Len(bfs.queue) \in Nat
    BY <1>3, LenProperties
  <2>2. sinks \in SUBSET Int /\ IsFiniteSet(sinks)
    <3>1. sinks \in SUBSET (1 .. Len(bfs.queue)) /\ IsFiniteSet(1 .. Len(bfs.queue))
      BY <2>1, FS_Interval
    <3>2. 1 .. Len(bfs.queue) \in SUBSET Int
      OBVIOUS
    <3> HIDE DEF sinks
    <3>3. IsFiniteSet(sinks)
      BY <3>1, FS_Subset
    <3> QED
      BY <3>1, <3>2, <3>3
  <2>3. Min(sinks) \in sinks
    <3> HIDE DEF sinks
    <3> QED
      BY <1>4, <2>2, MinIsLeast
  <2> DEFINE y == bfs.queue[Min(sinks)]
  <2>4. y \in DOMAIN bfs.path /\ g.excess[y] < 0
    BY <1>3, <2>1, <2>3
  <2> HIDE DEF y, sinks
  <2>5. /\ bfs.path[y] \in Seq(Nodes) /\ Len(bfs.path[y]) > 0
        /\ bfs.path[y][1] \in roots /\ bfs.path[y][Len(bfs.path[y])] = y
    BY <1>3, <2>4 DEF Leads
  <2>6. /\ path \in Seq(Nodes) /\ Len(path) > 0
        /\ path[1] \in roots /\ path[Len(path)] = y
    BY <2>5 DEF y
  <2>7. g.excess[path[1]] > 0 /\ g.excess[path[Len(path)]] < 0
    BY <2>4, <2>6
  <2> HIDE DEF path
  <2>8. Push(g, path) \in Flows
    BY <2>6, <2>7, PushKeepsFlow
  <2> QED
    BY <1>2, <1>4, <2>8
<1> QED
  BY <1>2, <1>4

LEMMA GraphIsFlow ==
  ASSUME NEW demand \in Counts, NEW usable \in Counts
  PROVE  ConstructGraph(demand, usable) \in Flows
<1>0. NumFrames \in Nat /\ Window = 1 .. NumFrames /\ Delay \in Nat
  BY FramesInWindow DEF Window
<1>1. ASSUME NEW x \in Nodes
      PROVE  x[2] \in Window /\ (x \in ParityNodes => x[1] = "p")
  <2>1. CASE x \in ParityNodes
    BY <1>0, <2>1 DEF ParityNodes
  <2>2. CASE x \in DataNodes
    <3>1. \A p : x # <<"p", p>>
      BY <2>2 DEF DataNodes
    <3> QED
      BY <1>0, <2>2, <3>1 DEF ParityNodes, DataNodes
  <2> QED
    BY <2>1, <2>2 DEF Nodes
<1>2. \A d \in Window : demand[d] \in Nat /\ - demand[d] \in Int /\ usable[d] \in Nat
  BY DEF Counts
<1> DEFINE excess == [x \in Nodes |-> IF x[1] = "p" THEN usable[x[2]] ELSE - demand[x[2]]]
           cap == [e \in Nodes \X Nodes |->
                     IF e[1][1] = "p" /\ e[2][1] = "d" /\ Covers(e[1][2], e[2][2])
                     THEN usable[e[1][2]] ELSE 0]
<1>3. excess \in [Nodes -> Int]
  BY <1>1, <1>2
<1>4. cap \in [Nodes \X Nodes -> Int]
  <2>1. \A e \in Nodes \X Nodes : e[1] \in Nodes
    OBVIOUS
  <2>2. \A e \in Nodes \X Nodes : usable[e[1][2]] \in Int
    BY <1>1, <1>2, <2>1
  <2> QED
    BY <2>2
<1>5. \A x \in ParityNodes : excess[x] >= 0
  BY <1>1, <1>2 DEF Nodes
<1>6. ConstructGraph(demand, usable) = [excess |-> excess, cap |-> cap]
  BY DEF ConstructGraph
<1> HIDE DEF excess, cap
<1> QED
  BY <1>3, <1>4, <1>5, <1>6 DEF Flows

Augments(flow, demand, usable) ==
  /\ flow \in [0 .. SumOver(demand, Window) -> Flows]
  /\ flow[0] = ConstructGraph(demand, usable)
  /\ \A i \in 1 .. SumOver(demand, Window) : flow[i] = Augment(flow[i - 1])

LEMMA FlowUnrolls ==
  ASSUME NEW demand \in Counts, NEW usable \in Counts
  PROVE  \E flow : /\ Augments(flow, demand, usable) /\ SumOver(demand, Window) \in Nat
                   /\ MaxFlow(demand, usable) = flow[SumOver(demand, Window)]
<1> DEFINE n == SumOver(demand, Window)
           flow[i \in 0 .. n] ==
             IF i = 0 THEN ConstructGraph(demand, usable) ELSE Augment(flow[i - 1])
           base == ConstructGraph(demand, usable)
           Step == [x \in (1 .. n) \X Flows |-> Augment(x[2])]
           Good == {i \in 0 .. n : flow[i] \in Flows}
<1>0. n \in Nat
  <2>1. \A d \in Window : demand[d] \in Nat
    BY DEF Counts
  <2>2. Window \in SUBSET Window
    OBVIOUS
  <2> QED
    BY <2>1, <2>2, FramesInWindow, SumOfPart DEF SumOver
<1>1. MaxFlow(demand, usable) = flow[n]
  BY DEF MaxFlow
<1> HIDE DEF n
<1>2. base \in Flows
  BY GraphIsFlow
<1>3. \A i \in 1 .. n, x \in Flows : Step[<<i, x>>] = Augment(x)
  OBVIOUS
<1>4. StepsStayIn(n, Flows, Step)
  <2>1. \A x \in Flows : Augment(x) \in Flows
    BY AugmentKeepsFlow
  <2> HIDE DEF Step
  <2> QED
    BY <1>3, <2>1 DEF StepsStayIn
<1>5. \E h \in [0 .. n -> Flows] : Follows(h, n, base, Step)
  <2> HIDE DEF base, Step, Good, flow
  <2> QED
    BY <1>0, <1>2, <1>4, RecursionExists
<1>6. PICK h \in [0 .. n -> Flows] :
         h[0] = base /\ \A i \in 1 .. n : h[i] = Augment(h[i - 1])
  <2>1. \A i \in 1 .. n : i - 1 \in 0 .. n
    BY <1>0
  <2> HIDE DEF base, Step, Good, flow
  <2> QED
    BY <1>3, <1>5, <2>1 DEF Follows
<1>7. h = [i \in 0 .. n |->
             IF i = 0 THEN ConstructGraph(demand, usable) ELSE Augment(h[i - 1])]
  BY <1>0, <1>6
<1>8. flow = [i \in 0 .. n |->
             IF i = 0 THEN ConstructGraph(demand, usable) ELSE Augment(flow[i - 1])]
  BY <1>7
<1> HIDE DEF flow
<1>9. 0 \in Good
  BY <1>0, <1>2, <1>8
<1>10. \A i \in 0 .. n - 1 : i \in Good => i + 1 \in Good
  <2> SUFFICES ASSUME NEW i \in 0 .. n - 1, flow[i] \in Flows
               PROVE  i + 1 \in 0 .. n /\ flow[i + 1] \in Flows
    OBVIOUS
  <2>1. i + 1 \in 0 .. n /\ i + 1 # 0 /\ (i + 1) - 1 = i
    BY <1>0
  <2>2. flow[i + 1] = Augment(flow[i])
    BY <1>8, <2>1
  <2> QED
    BY <2>1, <2>2, AugmentKeepsFlow
<1>11. \A i \in 0 .. n : i \in Good
  <2> HIDE DEF Good
  <2> QED
    BY <1>0, <1>9, <1>10, CountUp
<1>12. flow \in [0 .. n -> Flows]
  BY <1>8, <1>11
<1>13. flow[0] = base /\ \A i \in 1 .. n : flow[i] = Augment(flow[i - 1])
  BY <1>0, <1>8
<1> QED
  BY <1>0, <1>1, <1>12, <1>13 DEF n, Augments

LEMMA MaxFlowIsFlow ==
  ASSUME NEW demand \in Counts, NEW usable \in Counts
  PROVE  MaxFlow(demand, usable) \in Flows
<1>1. PICK flow : /\ Augments(flow, demand, usable) /\ SumOver(demand, Window) \in Nat
                  /\ MaxFlow(demand, usable) = flow[SumOver(demand, Window)]
  BY FlowUnrolls
<1>2. SumOver(demand, Window) \in 0 .. SumOver(demand, Window)
  BY <1>1
<1> QED
  BY <1>1, <1>2 DEF Augments

(* get_used_parity_counts: no position uses more than it may.              *)
LEMMA UsedAtMostUsable ==
  ASSUME NEW cols \in Counts, NEW usable \in Counts, NEW p \in Window
  PROVE  /\ UsedParities(cols, usable)[p] \in Int
         /\ UsedParities(cols, usable)[p] <= IF p <= Delay THEN 0 ELSE usable[p]
<1>0. NumFrames \in Nat /\ Window = 1 .. NumFrames /\ Delay \in Nat
  BY FramesInWindow DEF Window
<1> DEFINE g == MaxFlow(cols, usable)
<1>1. g \in Flows
  BY MaxFlowIsFlow
<1>2. UsedParities(cols, usable)[p] =
        IF p <= Delay THEN 0 ELSE usable[p] - g.excess[<<"p", p>>]
  BY DEF UsedParities, Drained
<1> HIDE DEF g
<1>3. CASE p <= Delay
  BY <1>2, <1>3
<1>4. CASE ~ (p <= Delay)
  <2>1. <<"p", p>> \in ParityNodes /\ <<"p", p>> \in Nodes
    BY <1>0, <1>4 DEF ParityNodes, Nodes
  <2>2. g.excess[<<"p", p>>] \in Int /\ g.excess[<<"p", p>>] >= 0
    BY <1>1, <2>1 DEF Flows
  <2>3. usable[p] \in Nat
    BY DEF Counts
  <2> QED
    BY <1>2, <1>4, <2>2, <2>3
<1> QED
  BY <1>3, <1>4

(***************************************************************************)
(* The two sides of Determined: the unknown stripes of the frames S, and   *)
(* the parities that cover no missing frame outside S.                     *)
(***************************************************************************)
Unknown(m, S) == [d \in Window |-> IF d \in S THEN m[d] ELSE 0]

CoversOnly(m, p, S) == p > Delay /\ \A d \in MissingIn(m) : Covers(p, d) => d \in S

Given(m, r, S) == [p \in Window |-> IF CoversOnly(m, p, S) THEN r[p] ELSE 0]

Enough(m, r, S) == S \subseteq MissingIn(m) /\ Solvable(Unknown(m, S), Given(m, r, S))

(* The parities that cover a frame of T.                                   *)
Covering(T) == {p \in Window : \E d \in T : Covers(p, d)}

LEMMA EnoughIsDetermined ==
  ASSUME NEW m, NEW r, NEW S, Enough(m, r, S)
  PROVE  S \subseteq Determined(m, r)
<1>1. S \in SUBSET MissingIn(m)
  BY DEF Enough
<1>2. Solvable([d \in Window |-> IF d \in S THEN m[d] ELSE 0],
               [p \in Window |->
                  IF p > Delay /\ \A d \in MissingIn(m) : Covers(p, d) => d \in S
                  THEN r[p] ELSE 0])
  BY DEF Enough, Unknown, Given, CoversOnly
<1> QED
  BY <1>1, <1>2 DEF Determined

LEMMA UnknownType ==
  ASSUME NEW m \in Counts, NEW r \in Counts, NEW S
  PROVE  Unknown(m, S) \in Counts /\ Given(m, r, S) \in Counts
BY DEF Unknown, Given, Counts

LEMMA SummableCounts ==
  ASSUME NEW f \in Counts, NEW T \in SUBSET Window
  PROVE  /\ IsFiniteSet(T) /\ \A x \in T : f[x] \in Nat
         /\ Summable(f, T) /\ SumFunctionOnSet(f, T) \in Nat
<1>1. IsFiniteSet(T)
  BY FramesInWindow, FS_Subset
<1>2. \A x \in T : f[x] \in Nat
  BY DEF Counts
<1>3. T \in SUBSET T
  OBVIOUS
<1> QED
  BY <1>1, <1>2, <1>3, SumOfPart DEF Summable

(* A solution with the parities that are used is one with those given.     *)
LEMMA MoreRowsSolve ==
  ASSUME NEW cols \in Counts, NEW used, NEW rows, Solvable(cols, used),
         \A p \in Window : used[p] \in Int /\ rows[p] \in Int /\ used[p] <= rows[p]
  PROVE  Solvable(cols, rows)
<1> SUFFICES ASSUME NEW S \in SUBSET {d \in Window : cols[d] > 0}
             PROVE  SumOver(cols, S) <=
                      SumOver(rows, {p \in Window : \E d \in S : Covers(p, d)})
  BY DEF Solvable
<1> DEFINE N == {p \in Window : \E d \in S : Covers(p, d)}
<1>1. SumOver(cols, S) <= SumOver(used, N)
  BY DEF Solvable
<1>2. N \in SUBSET Window
  OBVIOUS
<1> HIDE DEF N
<1>3. Summable(used, N) /\ Summable(rows, N) /\ \A p \in N : used[p] <= rows[p]
  BY <1>2, FramesInWindow, FS_Subset DEF Summable
<1>4. SumFunctionOnSet(used, N) <= SumFunctionOnSet(rows, N)
  BY <1>3, SumAtMost
<1>5. /\ SumFunctionOnSet(cols, S) \in Int
      /\ SumFunctionOnSet(used, N) \in Int /\ SumFunctionOnSet(rows, N) \in Int
  <2>1. S \in SUBSET Window
    OBVIOUS
  <2> QED
    BY <1>3, <2>1, SummableCounts, SumType
<1>6. SumFunctionOnSet(cols, S) <= SumFunctionOnSet(rows, N)
  BY <1>1, <1>4, <1>5 DEF SumOver
<1> QED
  BY <1>6 DEF SumOver, N

(* One call of BlockCode::decode.                                          *)
LEMMA DecodeIsEnough ==
  ASSUME NEW m \in Counts, NEW r \in Counts
  PROVE  Enough(m, r, Decode(m, r))
<1> DEFINE th == Theoretical(m, r)
           wanted == {d \in th.recovered : m[d] > 0}
           usable == NetParities(r, th.unusable)
           cols == Unknown(m, wanted)
           used == UsedParities(cols, usable)
<1>1. Decode(m, r) = SolveWanted(m, wanted, usable)
  BY DEF Decode, DecodeAs
<1>2. SolveWanted(m, wanted, usable) = IF Solvable(cols, used) THEN wanted ELSE {}
  BY DEF SolveWanted, Unknown
<1>3. th.recovered \subseteq Window
  BY DEF Theoretical, OutcomeOf, Outcome
<1>4. wanted \subseteq MissingIn(m)
  BY <1>3 DEF MissingIn
<1>5. \A p \in Window, d \in Window : Covers(p, d) /\ ~ th.unusable[p] => d \in th.recovered
  BY UsableCoversDecoded
<1>6. usable \in Counts
  BY DEF NetParities, Counts
<1>7. cols \in Counts
  BY UnknownType
<1>8. \A p \in Window : usable[p] = IF th.unusable[p] THEN 0 ELSE r[p]
  BY DEF NetParities
<1>9. \A p \in Window, d \in MissingIn(m) :
        Covers(p, d) /\ ~ th.unusable[p] => d \in wanted
  BY <1>5 DEF MissingIn
<1> HIDE DEF th, wanted, usable, cols
<1>10. CASE Decode(m, r) = {}
  <2>1. ASSUME NEW S \in SUBSET {d \in Window : Unknown(m, {})[d] > 0}
        PROVE  S = {}
    BY DEF Unknown
  <2>2. SumOver(Unknown(m, {}), {}) = 0 /\ SumOver(Given(m, r, {}), {}) = 0
    BY SumEmpty DEF SumOver
  <2>3. ASSUME NEW S \in SUBSET {d \in Window : Unknown(m, {})[d] > 0}
        PROVE  SumOver(Unknown(m, {}), S) <=
                 SumOver(Given(m, r, {}), {p \in Window : \E d \in S : Covers(p, d)})
    <3>1. S = {} /\ {p \in Window : \E d \in S : Covers(p, d)} = {}
      BY <2>1
    <3> QED
      BY <2>2, <3>1
  <2>4. Solvable(Unknown(m, {}), Given(m, r, {}))
    BY <2>3 DEF Solvable
  <2> QED
    BY <1>10, <2>4 DEF Enough
<1>11. CASE Decode(m, r) # {}
  <2>1. Decode(m, r) = wanted /\ Solvable(cols, used)
    BY <1>1, <1>2, <1>11
  <2>2. Given(m, r, wanted) \in Counts
    BY UnknownType
  <2>3. ASSUME NEW p \in Window
        PROVE  /\ used[p] \in Int /\ Given(m, r, wanted)[p] \in Int
               /\ used[p] <= Given(m, r, wanted)[p]
    <3>1. used[p] \in Int /\ used[p] <= IF p <= Delay THEN 0 ELSE usable[p]
      BY <1>6, <1>7, UsedAtMostUsable
    <3>2. Given(m, r, wanted)[p] \in Nat /\ r[p] \in Nat
      BY <2>2 DEF Counts
    <3>3. p > Delay /\ ~ th.unusable[p] => Given(m, r, wanted)[p] = r[p]
      BY <1>9 DEF Given, CoversOnly
    <3>4. p \in Int /\ Delay \in Int
      BY FramesInWindow DEF Window
    <3>5. CASE p <= Delay
      BY <3>1, <3>2, <3>5
    <3>6. CASE p > Delay /\ th.unusable[p]
      BY <1>8, <3>1, <3>2, <3>4, <3>6
    <3>7. CASE p > Delay /\ ~ th.unusable[p]
      <4>1. used[p] <= usable[p] /\ usable[p] = r[p]
        BY <1>8, <3>1, <3>4, <3>7
      <4> QED
        BY <3>1, <3>2, <3>3, <3>7, <4>1
    <3> QED
      BY <3>4, <3>5, <3>6, <3>7
  <2> HIDE DEF used
  <2>4. Solvable(cols, Given(m, r, wanted))
    BY <1>7, <2>1, <2>3, MoreRowsSolve
  <2> QED
    BY <1>4, <2>1, <2>4 DEF Enough, cols
<1> QED
  BY <1>10, <1>11

LEMMA SolvedType ==
  ASSUME NEW m \in Counts, NEW S
  PROVE  Solved(m, S) \in Counts
BY DEF Solved, Counts

(***************************************************************************)
(* What two passes solve one after the other can be solved at once: no     *)
(* parity that gave something to the first pass covers a frame that was    *)
(* still missing after it, so that the two passes share no parity.         *)
(***************************************************************************)
LEMMA PassesAddUp ==
  ASSUME NEW m \in Counts, NEW r \in Counts, NEW first, NEW second,
         Enough(m, r, first), Enough(Solved(m, first), r, second)
  PROVE  Enough(m, r, first \cup second)
<1> DEFINE m2 == Solved(m, first)
           all == first \cup second
           cols == Unknown(m, all)
           rows == Given(m, r, all)
           cols1 == Unknown(m, first)
           rows1 == Given(m, r, first)
           cols2 == Unknown(m2, second)
           rows2 == Given(m2, r, second)
<1>1. /\ m2 \in Counts /\ cols \in Counts /\ rows \in Counts
      /\ cols1 \in Counts /\ rows1 \in Counts
      /\ cols2 \in Counts /\ rows2 \in Counts
  BY SolvedType, UnknownType
<1>2. /\ first \subseteq MissingIn(m) /\ Solvable(cols1, rows1)
      /\ second \subseteq MissingIn(m2) /\ Solvable(cols2, rows2)
  BY DEF Enough
<1>3. MissingIn(m2) = MissingIn(m) \ first
  BY DEF MissingIn, Solved
<1>4. all \subseteq MissingIn(m) /\ all \subseteq Window /\ first \cap second = {}
  BY <1>2, <1>3 DEF MissingIn
<1>5. \A d \in Window : /\ d \in first => cols[d] = cols1[d]
                        /\ d \in second => cols[d] = cols2[d]
  BY <1>4 DEF Unknown, Solved
<1>6. \A p \in Window : /\ rows1[p] # 0 => rows1[p] = rows[p] /\ CoversOnly(m, p, first)
                        /\ rows2[p] # 0 => rows2[p] = rows[p]
  BY <1>3, <1>4 DEF Given, CoversOnly
<1>7. Solvable(cols, rows)
  <2> SUFFICES ASSUME NEW T \in SUBSET {d \in Window : cols[d] > 0}
               PROVE  SumOver(cols, T) <= SumOver(rows, Covering(T))
    BY DEF Solvable, Covering
  <2> DEFINE T1 == T \cap first
             T2 == T \cap second
             A == {p \in Covering(T1) : rows1[p] # 0}
  <2>1. /\ T = T1 \cup T2 /\ T1 \cap T2 = {} /\ T \in SUBSET Window
        /\ T1 \in SUBSET Window /\ T2 \in SUBSET Window
    <3>1. \A d \in Window : d \notin all => cols[d] = 0
      BY DEF Unknown
    <3>2. T \in SUBSET Window /\ \A d \in T : cols[d] > 0
      OBVIOUS
    <3> HIDE DEF cols
    <3>3. T \subseteq all
      BY <3>1, <3>2
    <3> QED
      BY <1>4, <3>2, <3>3
  <2>2. SumFunctionOnSet(cols1, T1) <= SumFunctionOnSet(rows1, Covering(T1))
    <3>1. T1 \in SUBSET {d \in Window : cols1[d] > 0}
      BY <1>5
    <3> QED
      BY <1>2, <3>1 DEF Solvable, Covering, SumOver
  <2>3. SumFunctionOnSet(cols2, T2) <= SumFunctionOnSet(rows2, Covering(T2))
    <3>1. T2 \in SUBSET {d \in Window : cols2[d] > 0}
      BY <1>5
    <3> QED
      BY <1>2, <3>1 DEF Solvable, Covering, SumOver
  <2>4. /\ A \in SUBSET Window /\ Covering(T1) \in SUBSET Window
        /\ Covering(T2) \in SUBSET Window /\ Covering(T) \in SUBSET Window
        /\ A \cup Covering(T2) \in SUBSET Covering(T)
    BY <2>1 DEF Covering
  <2>5. A \cap Covering(T2) = {}
    <3> SUFFICES ASSUME NEW p \in A, p \in Covering(T2) PROVE FALSE
      OBVIOUS
    <3>1. PICK d \in T2 : Covers(p, d)
      BY DEF Covering
    <3>2. d \in MissingIn(m) /\ d \notin first
      BY <1>4
    <3>3. CoversOnly(m, p, first)
      BY <1>6, <2>4
    <3> QED
      BY <3>1, <3>2, <3>3 DEF CoversOnly
  <2>6. \A p \in A : rows1[p] = rows[p]
    BY <1>6, <2>4
  <2>7. \A p \in Covering(T1) \ A : rows1[p] = 0
    OBVIOUS
  <2>8. \A p \in Window : rows2[p] <= rows[p]
    <3>1. \A p \in Window : rows2[p] \in Nat /\ rows[p] \in Nat
      BY <1>1 DEF Counts
    <3> HIDE DEF rows, rows2
    <3> QED
      BY <1>6, <3>1
  <2>9. A \in SUBSET Covering(T1)
    OBVIOUS
  <2>10. /\ \A d \in T1 : cols[d] = cols1[d]
         /\ \A d \in T2 : cols[d] = cols2[d]
    BY <1>5, <2>1
  <2> HIDE DEF T1, T2, A, cols, rows, cols1, rows1, cols2, rows2
  <2>11. SumFunctionOnSet(cols, T) =
           SumFunctionOnSet(cols1, T1) + SumFunctionOnSet(cols2, T2)
    <3>1. Summable(cols, T1 \cup T2) /\ Summable(cols, T1) /\ Summable(cols, T2)
      <4>1. T1 \cup T2 \in SUBSET Window
        BY <2>1
      <4> QED
        BY <1>1, <2>1, <4>1, SummableCounts
    <3>2. SumFunctionOnSet(cols, T1 \cup T2) =
            SumFunctionOnSet(cols, T1) + SumFunctionOnSet(cols, T2)
      BY <2>1, <3>1, SumUnion
    <3>3. SumFunctionOnSet(cols, T1) = SumFunctionOnSet(cols1, T1)
      BY <2>10, <3>1, SumSame
    <3>4. SumFunctionOnSet(cols, T2) = SumFunctionOnSet(cols2, T2)
      BY <2>10, <3>1, SumSame
    <3>5. SumFunctionOnSet(cols, T) = SumFunctionOnSet(cols, T1 \cup T2)
      BY <2>1
    <3> QED
      BY <3>2, <3>3, <3>4, <3>5
  <2>12. SumFunctionOnSet(rows1, Covering(T1)) = SumFunctionOnSet(rows, A)
    <3> DEFINE Rest == Covering(T1) \ A
    <3>1. A \cup Rest = Covering(T1) /\ A \cap Rest = {} /\ Rest \in SUBSET Window
      BY <2>4, <2>9
    <3>2. \A p \in Rest : rows1[p] = 0
      BY <2>7
    <3> HIDE DEF Rest
    <3>3. Summable(rows1, A \cup Rest) /\ Summable(rows1, A) /\ IsFiniteSet(Rest)
      BY <1>1, <2>4, <3>1, SummableCounts
    <3>4. SumFunctionOnSet(rows1, A \cup Rest) =
            SumFunctionOnSet(rows1, A) + SumFunctionOnSet(rows1, Rest)
      BY <3>1, <3>3, SumUnion
    <3>5. SumFunctionOnSet(rows1, Rest) = 0
      BY <3>2, <3>3, SumOfZeros
    <3>6. SumFunctionOnSet(rows1, A) = SumFunctionOnSet(rows, A)
      BY <2>6, <3>3, SumSame
    <3>7. SumFunctionOnSet(rows1, A) \in Int
      BY <3>3, SumType
    <3>8. SumFunctionOnSet(rows1, A \cup Rest) = SumFunctionOnSet(rows1, Covering(T1))
      BY <3>1
    <3> QED
      BY <3>4, <3>5, <3>6, <3>7, <3>8
  <2>13. SumFunctionOnSet(rows2, Covering(T2)) <= SumFunctionOnSet(rows, Covering(T2))
    <3>1. Summable(rows2, Covering(T2)) /\ Summable(rows, Covering(T2))
      BY <1>1, <2>4, SummableCounts
    <3>2. \A p \in Covering(T2) : rows2[p] <= rows[p]
      BY <2>4, <2>8
    <3> QED
      BY <3>1, <3>2, SumAtMost
  <2>14. SumFunctionOnSet(rows, A) + SumFunctionOnSet(rows, Covering(T2))
           <= SumFunctionOnSet(rows, Covering(T))
    <3> DEFINE Both == A \cup Covering(T2)
    <3>1. Both \in SUBSET Window /\ Both \in SUBSET Covering(T)
      BY <2>4
    <3>2. Summable(rows, A \cup Covering(T2))
      BY <1>1, <3>1, SummableCounts
    <3>3. SumFunctionOnSet(rows, A \cup Covering(T2)) =
            SumFunctionOnSet(rows, A) + SumFunctionOnSet(rows, Covering(T2))
      BY <2>5, <3>2, SumUnion
    <3> HIDE DEF Both
    <3>4. IsFiniteSet(Covering(T)) /\ \A p \in Covering(T) : rows[p] \in Nat
      BY <1>1, <2>4, SummableCounts
    <3>5. SumFunctionOnSet(rows, Both) <= SumFunctionOnSet(rows, Covering(T))
      BY <3>1, <3>4, SumOfPart
    <3> QED
      BY <3>3, <3>5 DEF Both
  <2>15. /\ SumFunctionOnSet(cols1, T1) \in Int /\ SumFunctionOnSet(cols2, T2) \in Int
         /\ SumFunctionOnSet(rows1, Covering(T1)) \in Int
         /\ SumFunctionOnSet(rows2, Covering(T2)) \in Int
         /\ SumFunctionOnSet(rows, Covering(T2)) \in Int
         /\ SumFunctionOnSet(rows, Covering(T)) \in Int
    <3>1. SumFunctionOnSet(cols1, T1) \in Nat /\ SumFunctionOnSet(cols2, T2) \in Nat
      BY <1>1, <2>1, SummableCounts
    <3>2. /\ SumFunctionOnSet(rows1, Covering(T1)) \in Nat
          /\ SumFunctionOnSet(rows2, Covering(T2)) \in Nat
      BY <1>1, <2>4, SummableCounts
    <3>3. /\ SumFunctionOnSet(rows, Covering(T2)) \in Nat
          /\ SumFunctionOnSet(rows, Covering(T)) \in Nat
      BY <1>1, <2>4, SummableCounts
    <3> QED
      BY <3>1, <3>2, <3>3
  <2> QED
    BY <2>2, <2>3, <2>11, <2>12, <2>13, <2>14, <2>15 DEF SumOver
<1> QED
  BY <1>4, <1>7 DEF Enough

LEMMA DecodeTwiceIsDetermined ==
  ASSUME NEW m \in Counts, NEW r \in Counts
  PROVE  DecodeTwice(m, r) \subseteq Determined(m, r)
<1> DEFINE first == Decode(m, r)
           second == Decode(Solved(m, first), r)
<1>1. Enough(m, r, first)
  BY DecodeIsEnough
<1>2. Enough(Solved(m, first), r, second)
  <2> HIDE DEF first
  <2> QED
    BY SolvedType, DecodeIsEnough
<1>3. DecodeTwice(m, r) = IF first = {} THEN {} ELSE first \cup second
  BY DEF DecodeTwice, DecodeAgain
<1> HIDE DEF first, second
<1>4. Enough(m, r, first \cup second)
  BY <1>1, <1>2, PassesAddUp
<1> QED
  BY <1>3, <1>4, EnoughIsDetermined

LEMMA DecodeInWindow ==
  ASSUME NEW m, NEW r
  PROVE  DecodeTwice(m, r) \subseteq Window
<1>1. ASSUME NEW x, NEW y
      PROVE  Decode(x, y) \subseteq Window
  <2>1. Theoretical(x, y).recovered \subseteq Window
    BY DEF Theoretical, OutcomeOf, Outcome
  <2> QED
    BY <2>1 DEF Decode, DecodeAs, SolveWanted
<1> QED
  BY <1>1 DEF DecodeTwice, DecodeAgain

LEMMA DecodeWindowTypeOK ==
  ASSUME NEW m \in [Window -> 0 .. MAX_DATA], NEW r \in [Window -> 0 .. MAX_FEC],
         DecodeWindow(m, r)
  PROVE  TypeOK'
<1>1. solved' \subseteq Window
  BY DecodeInWindow DEF DecodeWindow
<1>2. missing' \in [Window -> 0 .. MAX_DATA]
  BY WindowIsPositive DEF DecodeWindow, Solved
<1> QED
  BY <1>1, <1>2 DEF DecodeWindow, TypeOK

LEMMA SlideInRange ==
  ASSUME NEW max \in Nat, NEW f \in [Window -> 0 .. max], NEW x \in 0 .. max
  PROVE  Slide(f, x) \in [Window -> 0 .. max]
<1>1. ASSUME NEW p \in Window, p # NumFrames
      PROVE  p + 1 \in Window
  BY <1>1, WindowIsPositive DEF Window
<1> QED
  BY <1>1 DEF Slide

(***************************************************************************)
(* Types, for every look-back: a frame never misses more stripes than it   *)
(* has, nor has more parity than it was sent, however often the window     *)
(* slides and the decoder runs.                                            *)
(***************************************************************************)
THEOREM TypeCorrect == Spec => []TypeOK
<1>1. Init => TypeOK
  BY WindowIsPositive DEF Init, TypeOK
<1>2. TypeOK /\ [Next]_vars => TypeOK'
  <2> SUFFICES ASSUME TypeOK, [Next]_vars PROVE TypeOK'
    OBVIOUS
  <2>1. missing \in [Window -> 0 .. MAX_DATA] /\ received \in [Window -> 0 .. MAX_FEC]
    BY DEF TypeOK
  <2>2. ASSUME NEW m \in 0 .. MAX_DATA, NextFrame(m)
        PROVE  TypeOK'
    <3>1. Slide(missing, m) \in [Window -> 0 .. MAX_DATA]
      <4>1. MAX_DATA \in Nat
        BY WindowIsPositive
      <4> QED
        BY <2>1, <4>1, SlideInRange
    <3>2. Slide(received, 0) \in [Window -> 0 .. MAX_FEC]
      <4>1. MAX_FEC \in Nat /\ 0 \in 0 .. MAX_FEC
        BY WindowIsPositive
      <4> QED
        BY <2>1, <4>1, SlideInRange
    <3> QED
      BY <2>2, <3>1, <3>2, DecodeWindowTypeOK DEF NextFrame
  <2>3. ASSUME NEW p \in Window, DataArrives(p)
        PROVE  TypeOK'
    <3>1. [missing EXCEPT ![p] = @ - 1] \in [Window -> 0 .. MAX_DATA]
      BY <2>1, <2>3, WindowIsPositive DEF DataArrives
    <3> QED
      BY <2>1, <2>3, <3>1, DecodeWindowTypeOK DEF DataArrives
  <2>4. ASSUME NEW p \in Window, ParityArrives(p)
        PROVE  TypeOK'
    <3>1. [received EXCEPT ![p] = @ + 1] \in [Window -> 0 .. MAX_FEC]
      BY <2>1, <2>4, WindowIsPositive DEF ParityArrives
    <3> QED
      BY <2>1, <2>4, <3>1, DecodeWindowTypeOK DEF ParityArrives
  <2>5. CASE UNCHANGED vars
    BY <2>5 DEF vars, TypeOK
  <2> QED
    BY <2>2, <2>3, <2>4, <2>5 DEF Next
<1> QED
  BY <1>1, <1>2, PTL DEF Spec

(***************************************************************************)
(* Retention, for every look-back, stripe bound and order of arrival: no   *)
(* parity that BlockCode::decode may keep covers a column that stays       *)
(* unknown.                                                                *)
(***************************************************************************)
THEOREM RetainedCoversNoUnknownAlways == Spec => []RetainedCoversNoUnknown
<1>1. TypeOK => RetainedCoversNoUnknown
  BY RetainedNow
<1> QED
  BY <1>1, TypeCorrect, PTL

(***************************************************************************)
(* Soundness, for every look-back, stripe bound and order of arrival: both *)
(* passes of StreamingCode::decode mark a frame as recovered only if the   *)
(* stripes that arrived determine it.                                      *)
(***************************************************************************)
THEOREM SolvedIsDeterminedAlways == Spec => []SolvedIsDetermined
<1>1. Init => SolvedIsDetermined
  BY DEF Init, SolvedIsDetermined
<1>2. TypeOK /\ TypeOK' /\ SolvedIsDetermined /\ [Next]_vars => SolvedIsDetermined'
  <2> SUFFICES ASSUME TypeOK, TypeOK', SolvedIsDetermined, [Next]_vars
               PROVE  SolvedIsDetermined'
    OBVIOUS
  <2>1. ASSUME NEW m, NEW r, DecodeWindow(m, r)
        PROVE  SolvedIsDetermined'
    <3>1. m = before' /\ r = received' /\ solved' = DecodeTwice(m, r)
      BY <2>1 DEF DecodeWindow
    <3>2. before' \in Counts /\ received' \in Counts
      BY WindowIsPositive DEF TypeOK, Counts
    <3>3. DecodeTwice(m, r) \subseteq Determined(m, r)
      BY <3>1, <3>2, DecodeTwiceIsDetermined
    <3> QED
      BY <3>1, <3>3 DEF SolvedIsDetermined
  <2>2. CASE Next
    BY <2>1, <2>2 DEF Next, NextFrame, DataArrives, ParityArrives
  <2>3. CASE UNCHANGED vars
    BY <2>3 DEF vars, SolvedIsDetermined
  <2> QED
    BY <2>2, <2>3
<1> QED
  BY <1>1, <1>2, TypeCorrect, PTL DEF Spec

(***************************************************************************)
(* A frame that is alone in missing data.  The simulation meets one loss   *)
(* and otherwise solved frames, at which it changes nothing, until the     *)
(* parities over the loss have come; then it calls the loss recovered and  *)
(* disables no parity.                                                     *)
(***************************************************************************)
Lone(m, d) ==
  /\ m \in Counts /\ d \in Window /\ m[d] > 0
  /\ \A q \in Window : q # d => m[q] = 0

(* The parities that no missing frame disables.                            *)
Usable(r) == [q \in Window |-> IF q <= Delay THEN 0 ELSE r[q]]

(* Those over position d that have come with the first n frames.           *)
Over(r, d, n) == SumFunctionOnSet(Usable(r), d .. AtMost(n, d + Delay))

LEMMA UsableType ==
  ASSUME NEW r \in Counts
  PROVE  Usable(r) \in Counts
BY DEF Usable, Counts

LEMMA SumOfLone ==
  ASSUME NEW m, NEW d, Lone(m, d), NEW T \in SUBSET Window, d \in T
  PROVE  SumFunctionOnSet(m, T) = m[d]
<1>1. m \in Counts /\ m[d] \in Int /\ \A q \in T \ {d} : m[q] = 0
  BY DEF Lone, Counts
<1>2. Summable(m, T) /\ IsFiniteSet(T \ {d})
  <2>1. T \ {d} \in SUBSET Window
    OBVIOUS
  <2> QED
    BY <1>1, <2>1, SummableCounts
<1>3. SumFunctionOnSet(m, T) = m[d] + SumFunctionOnSet(m, T \ {d})
  BY <1>2, SumRemove
<1>4. SumFunctionOnSet(m, T \ {d}) = 0
  BY <1>1, <1>2, SumOfZeros
<1> QED
  BY <1>1, <1>3, <1>4

LEMMA OverType ==
  ASSUME NEW r \in Counts, NEW d \in Window, NEW n \in 0 .. NumFrames
  PROVE  /\ d .. AtMost(n, d + Delay) \in SUBSET Window
         /\ Over(r, d, n) \in Nat
<1>1. d .. AtMost(n, d + Delay) \in SUBSET Window
  BY FramesInWindow DEF Window, AtMost
<1> QED
  BY <1>1, UsableType, SummableCounts DEF Over

(* One more frame adds its own parities, if they reach back to d.          *)
LEMMA OverNext ==
  ASSUME NEW r \in Counts, NEW d \in Window, NEW n \in Window
  PROVE  /\ d <= n /\ n <= d + Delay => Over(r, d, n) = Over(r, d, n - 1) + Usable(r)[n]
         /\ ~ (d <= n /\ n <= d + Delay) => Over(r, d, n) = Over(r, d, n - 1)
         /\ n < d => Over(r, d, n) = 0
<1>0. NumFrames \in Nat /\ Window = 1 .. NumFrames /\ Delay \in Nat /\ n \in Nat /\ d \in Nat
  BY FramesInWindow DEF Window
<1>1. CASE d <= n /\ n <= d + Delay
  <2>1. /\ AtMost(n, d + Delay) = n /\ AtMost(n - 1, d + Delay) = n - 1
        /\ d .. n \in SUBSET Window
    BY <1>0, <1>1 DEF AtMost
  <2>2. \A i \in d .. n : Usable(r)[i] \in Int
    BY <2>1, UsableType DEF Counts
  <2>3. SumFunctionOnSet(Usable(r), d .. n) = Usable(r)[n] + SumFunctionOnSet(Usable(r), d .. n - 1)
    BY <1>0, <1>1, <2>2, SumLast
  <2>4. n - 1 \in 0 .. NumFrames /\ n \in d .. n
    BY <1>0, <1>1
  <2>5. Over(r, d, n - 1) \in Nat /\ Usable(r)[n] \in Int
    BY <2>2, <2>4, OverType
  <2>6. Over(r, d, n) = Usable(r)[n] + Over(r, d, n - 1)
    BY <2>1, <2>3 DEF Over
  <2>7. Over(r, d, n) = Over(r, d, n - 1) + Usable(r)[n]
    BY <2>5, <2>6
  <2> QED
    BY <1>0, <1>1, <2>7
<1>2. CASE n < d
  <2>1. d .. AtMost(n, d + Delay) = {} /\ d .. AtMost(n - 1, d + Delay) = {}
    BY <1>0, <1>2 DEF AtMost
  <2>2. SumFunctionOnSet(Usable(r), {}) = 0
    BY SumEmpty
  <2>3. Over(r, d, n) = 0 /\ Over(r, d, n - 1) = 0
    BY <2>1, <2>2 DEF Over
  <2> QED
    BY <1>0, <1>2, <2>3
<1>3. CASE d + Delay < n
  <2>1. AtMost(n, d + Delay) = d + Delay /\ AtMost(n - 1, d + Delay) = d + Delay
    BY <1>0, <1>3 DEF AtMost
  <2> QED
    BY <1>0, <1>3, <2>1 DEF Over
<1> QED
  BY <1>0, <1>1, <1>2, <1>3

(* At a solved position the simulation changes nothing.                    *)
LEMMA SolvedStays ==
  ASSUME NEW m \in Counts, NEW unusable \in Flags, NEW pos, NEW n, ~ (m[pos] > 0)
  PROVE  MarkUnusable(m, pos, n, unusable) = unusable
BY DEF MarkUnusable, Flags

LEMMA StartSolvedStays ==
  ASSUME NEW th \in Simulated, NEW r, NEW n, NEW start \in Window, th.missing[start] = 0
  PROVE  DecodeFrom(r, n, th, start) = th
<1>1. th.missing \in Counts /\ th.unusable \in Flags
  BY DEF Simulated
<1>2. Tried(th.missing, NetParities(r, th.unusable), n, start) = th.missing
  <2>1. [th.missing EXCEPT ![start] = 0] = th.missing
    BY <1>1 DEF Counts
  <2> QED
    BY <2>1 DEF Tried
<1>3. MarkUnusable(th.missing, start, n, th.unusable) = th.unusable
  BY <1>1, SolvedStays
<1> QED
  BY <1>2, <1>3 DEF DecodeFrom, Marked, Simulated

(* decoding_availabilities: the parities over a lone loss suffice as soon  *)
(* as there are as many of them as stripes are missing.                    *)
LEMMA LoneDecodable ==
  ASSUME NEW m, NEW d, Lone(m, d), NEW r \in Counts, NEW k \in Window, d < k,
         NEW net, \A q \in 1 .. k : net[q] = Usable(r)[q], Over(r, d, k) >= m[d]
  PROVE  Decodable(m, net, k, d)
<1> DEFINE end == AtMost(k, d + Delay - 1)
           Gone(p) == SumFunctionOnSet(Usable(r), d .. p)
<1>0. /\ NumFrames \in Nat /\ Window = 1 .. NumFrames /\ Delay \in Nat
      /\ k \in Nat /\ d \in Nat /\ d \in Window
  BY FramesInWindow DEF Window, Lone
<1>1. m[d] \in Nat /\ m \in Counts
  BY DEF Lone, Counts
<1>2. ASSUME NEW p \in d .. k
      PROVE  /\ Short(m, net, d .. p) = m[d] - Gone(p)
             /\ Gone(p) \in Nat
  <2>1. d .. p \in SUBSET Window /\ d \in d .. p
    BY <1>0
  <2>2. Summable(Usable(r), d .. p) /\ Gone(p) \in Nat
    BY <2>1, UsableType, SummableCounts
  <2>3. \A q \in d .. p : Usable(r)[q] = net[q]
    BY <1>0
  <2>4. SumFunctionOnSet(Usable(r), d .. p) = SumFunctionOnSet(net, d .. p)
    BY <2>2, <2>3, SumSame
  <2>5. SumFunctionOnSet(m, d .. p) = m[d]
    BY <2>1, SumOfLone
  <2> QED
    BY <2>2, <2>4, <2>5 DEF Short, SumOver
<1>3. Deficit(m, net, k, d) =
        IF d > end \/ \E p \in d .. end : Short(m, net, d .. p) <= 0
        THEN 0 ELSE Short(m, net, d .. end)
  BY DEF Deficit
<1>4. CASE Delay = 0
  <2>1. d > end
    BY <1>0, <1>4 DEF AtMost
  <2> QED
    BY <1>3, <2>1 DEF Decodable
<1>5. CASE Delay # 0 /\ k < d + Delay
  <2>1. end = k /\ AtMost(k, d + Delay) = k /\ k \in d .. k
    BY <1>0, <1>5 DEF AtMost
  <2>2. Gone(k) >= m[d]
    BY <2>1 DEF Over
  <2>3. Short(m, net, d .. k) <= 0
    <3>1. Short(m, net, d .. k) = m[d] - Gone(k) /\ Gone(k) \in Nat
      BY <1>2, <2>1
    <3> HIDE DEF Gone
    <3> QED
      BY <1>1, <2>2, <3>1
  <2>4. Deficit(m, net, k, d) = 0
    BY <1>3, <2>1, <2>3
  <2> QED
    BY <2>4 DEF Decodable
<1>6. CASE Delay # 0 /\ ~ (k < d + Delay)
  <2> DEFINE deadline == d + Delay
  <2>1. /\ end = d + Delay - 1 /\ AtMost(k, d + Delay) = d + Delay
        /\ d + Delay \in 1 .. k /\ d + Delay \in Window /\ d + Delay # d
        /\ d + Delay - 1 \in d .. k /\ d \in Int /\ d + Delay \in Int /\ d <= d + Delay
        /\ d .. d + Delay \in SUBSET Window
    BY <1>0, <1>6 DEF AtMost
  <2>2. \A q \in d .. d + Delay : Usable(r)[q] \in Int
    BY <2>1, UsableType DEF Counts
  <2>3. SumFunctionOnSet(Usable(r), d .. d + Delay) = Usable(r)[d + Delay] + Gone(d + Delay - 1)
    <3> DEFINE last == d + Delay
    <3>1. /\ last \in Int /\ d \in Int /\ d <= last
          /\ \A q \in d .. last : Usable(r)[q] \in Int
          /\ last - 1 = d + Delay - 1
      BY <1>0, <2>1, <2>2
    <3> HIDE DEF last
    <3>2. SumFunctionOnSet(Usable(r), d .. last) =
            Usable(r)[last] + SumFunctionOnSet(Usable(r), d .. last - 1)
      BY <3>1, SumLast
    <3>3. SumFunctionOnSet(Usable(r), d .. last) = Usable(r)[last] + Gone(d + Delay - 1)
      BY <3>1, <3>2
    <3> QED
      BY <3>3 DEF last
  <2>4. Over(r, d, k) = SumFunctionOnSet(Usable(r), d .. d + Delay)
    BY <2>1 DEF Over
  <2>5. net[d + Delay] = Usable(r)[d + Delay] /\ Usable(r)[d + Delay] \in Nat /\ m[d + Delay] = 0
    BY <2>1, UsableType DEF Lone, Counts
  <2>6. Short(m, net, d .. end) = m[d] - Gone(d + Delay - 1) /\ Gone(d + Delay - 1) \in Nat
    BY <1>2, <2>1
  <2>7. m[d] - Gone(d + Delay - 1) + m[d + Delay] <= net[d + Delay]
    <3> HIDE DEF Gone
    <3> QED
      BY <1>1, <2>3, <2>4, <2>5, <2>6
  <2>8. CASE Deficit(m, net, k, d) = 0
    BY <2>8 DEF Decodable
  <2>9. CASE Deficit(m, net, k, d) = m[d] - Gone(d + Delay - 1)
    <3>1. Deficit(m, net, k, d) + m[d + Delay] <= net[d + Delay]
      BY <2>7, <2>9
    <3>2. d + Delay <= k
      BY <2>1
    <3> QED
      BY <3>1, <3>2 DEF Decodable
  <2> QED
    BY <1>3, <2>6, <2>8, <2>9
<1> QED
  BY <1>0, <1>4, <1>5, <1>6

(* One pass of decode_streaming_code tries the lone loss and nothing else. *)
LEMMA PassOverLone ==
  ASSUME NEW m, NEW d, Lone(m, d), NEW r, NEW unusable \in Flags, NEW k \in Window, d <= k,
         NEW pass, Passes(pass, r, k, m, unusable)
  PROVE  pass[k].missing = Tried(m, NetParities(r, unusable), k, d)
<1> DEFINE found == Tried(m, NetParities(r, unusable), k, d)
           Good == {i \in 0 .. k : /\ i < d => pass[i].missing = m /\ pass[i].unusable = unusable
                                   /\ i >= d => pass[i].missing = found}
<1>0. /\ NumFrames \in Nat /\ Window = 1 .. NumFrames /\ k \in Nat /\ d \in Nat
      /\ d \in Window /\ 0 < d /\ m \in Counts
  BY FramesInWindow DEF Window, Lone
<1>1. \A q \in Window : q # d => found[q] = 0
  BY <1>0 DEF Tried, Lone, Counts
<1>2. 0 \in Good
  BY <1>0 DEF Passes
<1>3. ASSUME NEW i \in 0 .. k - 1, i \in Good
      PROVE  i + 1 \in Good
  <2>1. /\ i \in 0 .. k /\ i + 1 \in 0 .. k /\ i + 1 \in 1 .. k
        /\ (i + 1) - 1 = i /\ i + 1 \in Window /\ i \in Nat
    BY <1>0
  <2>2. pass[i] \in Simulated /\ pass[i + 1] = DecodeFrom(r, k, pass[i], i + 1)
    <3>1. pass[i + 1] = DecodeFrom(r, k, pass[(i + 1) - 1], i + 1)
      BY <2>1 DEF Passes
    <3> QED
      BY <2>1, <3>1 DEF Passes
  <2>3. /\ i < d => pass[i].missing = m /\ pass[i].unusable = unusable
        /\ i >= d => pass[i].missing = found
    BY <1>3
  <2> HIDE DEF found
  <2>4. CASE i + 1 = d
    <3>1. pass[i].missing = m /\ pass[i].unusable = unusable
      BY <2>1, <2>3, <2>4
    <3>2. pass[i + 1].missing = found
      BY <2>2, <2>4, <3>1 DEF DecodeFrom, Marked, found
    <3> QED
      BY <2>1, <2>4, <3>2
  <2>5. CASE i + 1 # d
    <3>1. pass[i].missing[i + 1] = 0
      <4>1. i < d => m[i + 1] = 0
        BY <2>1, <2>5 DEF Lone
      <4> QED
        BY <1>0, <1>1, <2>1, <2>3, <2>5, <4>1
    <3>2. pass[i + 1] = pass[i]
      BY <2>1, <2>2, <3>1, StartSolvedStays
    <3> QED
      BY <1>0, <2>1, <2>3, <2>5, <3>2
  <2> QED
    BY <2>4, <2>5
<1>4. k \in Good
  <2>1. k \in 0 .. k /\ \A i \in 0 .. k - 1 : i \in Good => i + 1 \in Good
    BY <1>0, <1>3
  <2> HIDE DEF Good
  <2> QED
    BY <1>0, <1>2, <2>1, CountUp
<1> QED
  BY <1>0, <1>4

(* The simulation after n frames: either the loss is still there, and too  *)
(* few parities over it have come, or nothing is missing.                  *)
Zeros == [q \in Window |-> 0]

LoneAfter(th, m, r, d, n) ==
  /\ th \in Simulated
  /\ \/ th.missing = m /\ Over(r, d, n) < m[d]
     \/ th.missing = Zeros
  /\ \A q \in 1 .. n : th.unusable[q] = (q <= Delay \/ r[q] = 0)

LEMMA LoneTaken ==
  ASSUME NEW m, NEW d, Lone(m, d)
  PROVE  [m EXCEPT ![d] = 0] = Zeros
<1>1. m \in Counts /\ \A q \in Window : q # d => m[q] = 0
  BY DEF Lone
<1> QED
  BY <1>1 DEF Zeros, Counts

LEMMA LonePass ==
  ASSUME NEW m, NEW d, Lone(m, d), NEW r \in Counts, NEW k \in Window,
         NEW u \in Flags, \A q \in 1 .. k : u[q] = (q <= Delay \/ r[q] = 0),
         Over(r, d, k - 1) < m[d]
  PROVE  LET result == DecodeStreamingCode(r, k, m, u)
         IN  (result = m /\ Over(r, d, k) < m[d]) \/ result = Zeros
<1> DEFINE net == NetParities(r, u)
<1>0. /\ NumFrames \in Nat /\ Window = 1 .. NumFrames /\ Delay \in Nat
      /\ k \in Nat /\ d \in Nat /\ d \in Window /\ d > 0 /\ m \in Counts /\ m[d] \in Nat /\ m[d] > 0
      /\ k - 1 \in 0 .. NumFrames /\ k \in 0 .. NumFrames /\ r[k] \in Nat
      /\ \A q \in Window : q # d => m[q] = 0
  BY FramesInWindow DEF Window, Lone, Counts
<1>1. PICK pass : /\ Passes(pass, r, k, m, u)
                  /\ DecodeStreamingCode(r, k, m, u) = PassResult(pass, r, k, m)
  BY <1>0, PassUnrolls
<1>2. Over(r, d, k) \in Nat /\ Over(r, d, k - 1) \in Nat
  BY <1>0, OverType
<1>3. Usable(r)[k] \in Nat /\ Usable(r)[k] <= r[k]
  BY <1>0 DEF Usable
<1>4. CASE r[k] = 0
  <2>1. DecodeStreamingCode(r, k, m, u) = m
    BY <1>1, <1>4 DEF PassResult
  <2>2. Over(r, d, k) = Over(r, d, k - 1) \/ Over(r, d, k) = Over(r, d, k - 1) + Usable(r)[k]
    BY <1>0, OverNext
  <2>3. Over(r, d, k) < m[d]
    BY <1>0, <1>2, <1>3, <1>4, <2>2
  <2> QED
    BY <2>1, <2>3
<1>5. CASE r[k] # 0 /\ k < d
  <2>1. \A j \in 1 .. k - 1 : m[j] = 0
    BY <1>0, <1>5
  <2>2. m[k] = 0 /\ [m EXCEPT ![k] = 0] = m
    BY <1>0, <1>5 DEF Counts
  <2>3. DecodeStreamingCode(r, k, m, u) = m
    BY <1>1, <1>5, <2>1, <2>2 DEF PassResult
  <2>4. Over(r, d, k) = 0
    BY <1>0, <1>5, OverNext
  <2> QED
    BY <1>0, <2>3, <2>4
<1>6. CASE r[k] # 0 /\ k = d
  <2>1. \A j \in 1 .. k - 1 : m[j] = 0
    BY <1>0, <1>6
  <2>2. DecodeStreamingCode(r, k, m, u) = IF m[k] <= r[k] THEN [m EXCEPT ![k] = 0] ELSE m
    BY <1>1, <1>6, <2>1 DEF PassResult
  <2>3. Over(r, d, k) = Over(r, d, k - 1) + Usable(r)[k] /\ Over(r, d, k - 1) = 0
    <3>1. Over(r, d, k) = Over(r, d, k - 1) + Usable(r)[k]
      BY <1>0, <1>6, OverNext
    <3>2. d .. AtMost(k - 1, d + Delay) = {}
      BY <1>0, <1>6 DEF AtMost
    <3>3. SumFunctionOnSet(Usable(r), {}) = 0
      BY SumEmpty
    <3> QED
      BY <3>1, <3>2, <3>3 DEF Over
  <2>4. CASE m[k] <= r[k]
    BY <1>6, <2>2, <2>4, LoneTaken
  <2>5. CASE ~ (m[k] <= r[k])
    <3>1. DecodeStreamingCode(r, k, m, u) = m
      BY <2>2, <2>5
    <3>2. Over(r, d, k) < m[d]
      BY <1>0, <1>3, <1>6, <2>3, <2>5
    <3> QED
      BY <3>1, <3>2
  <2> QED
    BY <2>4, <2>5
<1>7. CASE r[k] # 0 /\ d < k
  <2>1. ~ (\A j \in 1 .. k - 1 : m[j] = 0)
    BY <1>0, <1>7
  <2>2. DecodeStreamingCode(r, k, m, u) = pass[k].missing
    BY <1>1, <1>7, <2>1 DEF PassResult
  <2>3. pass[k].missing = Tried(m, net, k, d)
    BY <1>0, <1>1, <1>7, PassOverLone
  <2>4. \A q \in 1 .. k : net[q] = Usable(r)[q]
    <3>1. \A q \in 1 .. k : q \in Window
      BY <1>0
    <3>2. \A q \in 1 .. k : net[q] = IF u[q] THEN 0 ELSE r[q]
      BY <3>1 DEF NetParities
    <3> HIDE DEF net
    <3> QED
      BY <3>1, <3>2 DEF Usable
  <2> HIDE DEF net
  <2>5. CASE Decodable(m, net, k, d)
    <3>1. Tried(m, net, k, d) = [m EXCEPT ![d] = 0]
      BY <2>5 DEF Tried
    <3> QED
      BY <2>2, <2>3, <3>1, LoneTaken
  <2>6. CASE ~ Decodable(m, net, k, d)
    <3>1. Tried(m, net, k, d) = m
      BY <2>6 DEF Tried
    <3>2. ~ (Over(r, d, k) >= m[d])
      BY <1>7, <2>4, <2>6, LoneDecodable
    <3>3. Over(r, d, k) < m[d]
      BY <1>0, <1>2, <3>2
    <3> QED
      BY <2>2, <2>3, <3>1, <3>3
  <2> QED
    BY <2>5, <2>6
<1> QED
  BY <1>0, <1>4, <1>5, <1>6, <1>7

(* Nothing is missing, and nothing more is decided.                        *)
LEMMA ZerosStay ==
  ASSUME NEW r \in Counts, NEW k \in Window, NEW u \in Flags
  PROVE  DecodeStreamingCode(r, k, Zeros, u) = Zeros
<1>1. Zeros \in Counts /\ \A q \in Window : Zeros[q] = 0
  BY DEF Zeros, Counts
<1>2. PICK pass : DecodeStreamingCode(r, k, Zeros, u) = PassResult(pass, r, k, Zeros)
  BY <1>1, PassUnrolls
<1>3. \A j \in 1 .. k - 1 : Zeros[j] = 0
  BY <1>1, FramesInWindow DEF Window
<1>4. [Zeros EXCEPT ![k] = 0] = Zeros
  BY DEF Zeros
<1> QED
  BY <1>2, <1>3, <1>4 DEF PassResult

LEMMA LoneAddFrame ==
  ASSUME NEW m, NEW d, Lone(m, d), NEW r \in Counts, NEW k \in Window,
         NEW th, LoneAfter(th, m, r, d, k - 1)
  PROVE  LoneAfter(AddFrame(r, th, k), m, r, d, k)
<1> DEFINE u == [th.unusable EXCEPT ![k] = k <= Delay \/ r[k] = 0]
           result == DecodeStreamingCode(r, k, th.missing, u)
<1>0. NumFrames \in Nat /\ Window = 1 .. NumFrames /\ k \in Nat
  BY FramesInWindow DEF Window
<1>1. th \in Simulated /\ th.unusable \in Flags /\ th.missing \in Counts
  BY DEF LoneAfter, Simulated
<1>2. u \in Flags
  BY <1>1 DEF Flags
<1>3. \A q \in 1 .. k : u[q] = (q <= Delay \/ r[q] = 0)
  <2>1. \A q \in 1 .. k : q \in Window /\ (q # k => q \in 1 .. k - 1)
    BY <1>0
  <2>2. \A q \in Window : u[q] = IF q = k THEN (k <= Delay \/ r[k] = 0) ELSE th.unusable[q]
    BY <1>1 DEF Flags
  <2> HIDE DEF u
  <2>3. \A q \in 1 .. k - 1 : th.unusable[q] = (q <= Delay \/ r[q] = 0)
    BY DEF LoneAfter
  <2> QED
    BY <2>1, <2>2, <2>3, Zenon
<1>4. AddFrame(r, th, k) = [missing |-> result, unusable |-> u]
  BY DEF AddFrame
<1>5. AddFrame(r, th, k) \in Simulated
  BY <1>1, AddFrameType
<1> HIDE DEF u
<1>6. (result = m /\ Over(r, d, k) < m[d]) \/ result = Zeros
  <2>1. CASE th.missing = m /\ Over(r, d, k - 1) < m[d]
    BY <1>2, <1>3, <2>1, LonePass
  <2>2. CASE th.missing = Zeros
    BY <1>2, <2>2, ZerosStay
  <2> QED
    BY <2>1, <2>2 DEF LoneAfter
<1> HIDE DEF result
<1> QED
  BY <1>3, <1>4, <1>5, <1>6 DEF LoneAfter

(* The whole decision: a lone loss with enough parities over it is called  *)
(* recovered, and no parity of a frame is disabled.                        *)
LEMMA LoneTheory ==
  ASSUME NEW m, NEW d, Lone(m, d), NEW r \in Counts, m[d] <= Over(r, d, NumFrames)
  PROVE  LET th == Theoretical(m, r)
         IN  th.recovered = Window /\ NetParities(r, th.unusable) = Usable(r)
<1>0. NumFrames \in Nat /\ Window = 1 .. NumFrames /\ Delay \in Nat /\ NumFrames \in Window
  BY FramesInWindow DEF Window
<1>1. m \in Counts /\ d \in Window /\ m[d] \in Nat /\ m[d] > 0
  BY DEF Lone, Counts
<1>2. PICK added : Adds(added, r, m) /\ AddFrames(m, r) = added[NumFrames]
  BY <1>1, FramesUnroll
<1> DEFINE Good == {n \in 0 .. NumFrames : LoneAfter(added[n], m, r, d, n)}
<1>3. 0 \in Good
  <2>1. d .. AtMost(0, d + Delay) = {}
    BY <1>0, <1>1 DEF AtMost
  <2>2. Over(r, d, 0) = 0
    BY <2>1, SumEmpty DEF Over
  <2>3. added[0] \in Simulated /\ added[0].missing = m
    <3>1. 0 \in 0 .. NumFrames
      BY <1>0
    <3>2. added[0] \in Simulated
      BY <1>2, <3>1 DEF Adds
    <3>3. added[0] = [missing |-> m, unusable |-> [q \in Window |-> FALSE]]
      BY <1>2 DEF Adds
    <3> QED
      BY <3>2, <3>3
  <2> QED
    BY <1>0, <1>1, <2>2, <2>3 DEF LoneAfter
<1>4. ASSUME NEW n \in 0 .. NumFrames - 1, n \in Good
      PROVE  n + 1 \in Good
  <2>1. n + 1 \in 0 .. NumFrames /\ n + 1 \in Window /\ (n + 1) - 1 = n
    BY <1>0
  <2>2. added[n + 1] = AddFrame(r, added[n], n + 1)
    <3>1. added[n + 1] = AddFrame(r, added[(n + 1) - 1], n + 1)
      BY <1>0, <1>2, <2>1 DEF Adds
    <3> QED
      BY <2>1, <3>1
  <2>3. LoneAfter(added[n], m, r, d, (n + 1) - 1)
    BY <1>4, <2>1
  <2>4. LoneAfter(AddFrame(r, added[n], n + 1), m, r, d, n + 1)
    BY <2>1, <2>3, LoneAddFrame
  <2> QED
    BY <2>1, <2>2, <2>4
<1>5. LoneAfter(added[NumFrames], m, r, d, NumFrames)
  <2>1. NumFrames \in 0 .. NumFrames /\ \A n \in 0 .. NumFrames - 1 : n \in Good => n + 1 \in Good
    BY <1>0, <1>4
  <2>2. NumFrames \in Good
    <3> HIDE DEF Good
    <3> QED
      BY <1>0, <1>3, <2>1, CountUp
  <2> QED
    BY <2>2
<1> DEFINE end == AddFrames(m, r)
<1>6. /\ end.missing = Zeros /\ end.unusable \in Flags
      /\ \A q \in Window : end.unusable[q] = (q <= Delay \/ r[q] = 0)
  <2>1. ~ (Over(r, d, NumFrames) < m[d])
    <3>1. Over(r, d, NumFrames) \in Nat
      BY <1>0, <1>1, OverType
    <3> QED
      BY <1>1, <3>1
  <2> QED
    BY <1>0, <1>2, <1>5, <2>1 DEF LoneAfter, Simulated
<1> HIDE DEF end
<1>7. Zeros \in Counts /\ \A q \in Window : Zeros[q] = 0
  BY DEF Zeros, Counts
<1>8. PICK marked : /\ Markings(marked, Zeros, end.unusable)
                    /\ Outcome(Zeros, end.unusable).unusable = marked[NumFrames]
                    /\ Outcome(Zeros, end.unusable).recovered = {q \in Window : Zeros[q] = 0}
  BY <1>6, <1>7, MarkingsUnroll
<1>9. marked[NumFrames] = end.unusable
  <2> DEFINE Same == {i \in 0 .. NumFrames : marked[i] = end.unusable}
  <2>1. 0 \in Same
    BY <1>0, <1>8 DEF Markings
  <2>2. ASSUME NEW i \in 0 .. NumFrames - 1, i \in Same
        PROVE  i + 1 \in Same
    <3>1. i + 1 \in 0 .. NumFrames /\ i + 1 \in 1 .. NumFrames /\ i + 1 \in Window /\ (i + 1) - 1 = i
      BY <1>0
    <3>2. marked[i + 1] = MarkUnusable(Zeros, i + 1, NumFrames, marked[(i + 1) - 1])
      BY <1>8, <3>1 DEF Markings
    <3>3. ~ (Zeros[i + 1] > 0)
      BY <1>7, <3>1
    <3>4. MarkUnusable(Zeros, i + 1, NumFrames, end.unusable) = end.unusable
      BY <1>6, <1>7, <3>3, SolvedStays
    <3> QED
      BY <2>2, <3>1, <3>2, <3>4
  <2>3. NumFrames \in 0 .. NumFrames /\ \A i \in 0 .. NumFrames - 1 : i \in Same => i + 1 \in Same
    BY <1>0, <2>2
  <2>4. NumFrames \in Same
    <3> HIDE DEF Same
    <3> QED
      BY <1>0, <2>1, <2>3, CountUp
  <2> QED
    BY <2>4
<1>10. Theoretical(m, r) = Outcome(Zeros, end.unusable)
  BY <1>6 DEF Theoretical, OutcomeOf, end
<1>11. Theoretical(m, r).recovered = Window /\ Theoretical(m, r).unusable = end.unusable
  BY <1>7, <1>8, <1>9, <1>10
<1>12. NetParities(r, end.unusable) = Usable(r)
  <2>1. \A q \in Window : (IF end.unusable[q] THEN 0 ELSE r[q]) = IF q <= Delay THEN 0 ELSE r[q]
    BY <1>6
  <2> QED
    BY <2>1 DEF NetParities, Usable
<1> QED
  BY <1>11, <1>12

(***************************************************************************)
(* The breadth-first search finds a node that some root has an edge to     *)
(* directly from a root: the roots are visited first.                      *)
(***************************************************************************)
Found(b, g, roots, t) ==
  /\ \E k \in 1 .. Len(b.queue) : b.queue[k] = t
  /\ \E x \in roots : b.path[t] = <<x, t>> /\ g.cap[<<x, t>>] > 0

FromRoots(b, g, roots, t, i) ==
  /\ b \in Searches(roots)
  /\ Cardinality(roots) <= Len(b.queue)
  /\ \A k \in 1 .. Cardinality(roots) : b.queue[k] = Ascending(roots)[k]
  /\ \A x \in roots : x \in DOMAIN b.path /\ b.path[x] = <<x>>
  /\ t \in DOMAIN b.path => Found(b, g, roots, t)
  /\ t \notin DOMAIN b.path =>
       \A k \in 1 .. Cardinality(roots) : k <= i => ~ (g.cap[<<Ascending(roots)[k], t>>] > 0)

LEMMA AppendToOne ==
  ASSUME NEW x \in Nodes, NEW y \in Nodes
  PROVE  Append(<<x>>, y) = <<x, y>>
<1> DEFINE s == <<x>>
           u == <<x, y>>
<1>1. s \in Seq(Nodes) /\ Len(s) = 1 /\ s[1] = x
  OBVIOUS
<1>2. u \in Seq(Nodes) /\ Len(u) = 2 /\ u[1] = x /\ u[2] = y
  OBVIOUS
<1> HIDE DEF s, u
<1>3. Append(s, y) \in Seq(Nodes) /\ Len(Append(s, y)) = 2
      /\ Append(s, y)[1] = x /\ Append(s, y)[2] = y
  <2>1. /\ Append(s, y) \in Seq(Nodes) /\ Len(Append(s, y)) = Len(s) + 1
        /\ Append(s, y)[Len(s) + 1] = y
        /\ \A i \in 1 .. Len(s) : Append(s, y)[i] = s[i]
    <3>1. s \in Seq(Nodes) /\ y \in Nodes
      BY <1>1
    <3> QED
      BY <3>1, AppendProperties, Z3
  <2>2. Len(s) + 1 = 2 /\ 1 \in 1 .. Len(s)
    BY <1>1
  <2> QED
    BY <1>1, <2>1, <2>2
<1>4. \A i \in 1 .. Len(u) : Append(s, y)[i] = u[i]
  BY <1>2, <1>3
<1>5. Append(s, y) = u
  BY <1>2, <1>3, <1>4, SeqEqual
<1> QED
  BY <1>5 DEF s, u

LEMMA RootsAreNodes ==
  ASSUME NEW roots \in SUBSET Nodes
  PROVE  /\ Cardinality(roots) \in Nat /\ Cardinality(roots) <= Cardinality(Nodes)
         /\ Cardinality(Nodes) \in Nat
         /\ \A k \in 1 .. Cardinality(roots) : Ascending(roots)[k] \in roots
         /\ \A x \in roots : \E k \in 1 .. Cardinality(roots) : Ascending(roots)[k] = x
<1>1. IsFiniteSet(roots) /\ Cardinality(roots) <= Cardinality(Nodes)
  BY NodesAreOrdered, FS_Subset
<1>2. Cardinality(roots) \in Nat /\ Cardinality(Nodes) \in Nat
  BY <1>1, NodesAreOrdered, FS_CardinalityType
<1>3. Lists(Ascending(roots), roots)
  BY ListsNodes
<1> QED
  BY <1>1, <1>2, <1>3, ElementOfSeq DEF Lists

LEMMA SearchBegins ==
  ASSUME NEW g, NEW roots \in SUBSET Nodes, NEW t, t \notin roots,
         NEW b \in Searches(roots),
         b = [queue |-> Ascending(roots), path |-> [x \in roots |-> <<x>>]]
  PROVE  FromRoots(b, g, roots, t, 0)
<1>1. b.queue = Ascending(roots) /\ b.path = [x \in roots |-> <<x>>]
  OBVIOUS
<1>2. Len(Ascending(roots)) = Cardinality(roots) /\ Cardinality(roots) \in Nat
  BY ListsNodes, RootsAreNodes DEF Lists
<1> QED
  BY <1>1, <1>2 DEF FromRoots

LEMMA SearchStep ==
  ASSUME NEW g, NEW roots \in SUBSET Nodes, NEW t \in Nodes, t \notin roots,
         \E x \in roots : g.cap[<<x, t>>] > 0,
         NEW i \in Nat \ {0}, NEW b, FromRoots(b, g, roots, t, i - 1)
  PROVE  FromRoots(Visit(g, b, i), g, roots, t, i)
<1> DEFINE n == Cardinality(roots)
<1>1. /\ n \in Nat
      /\ \A k \in 1 .. n : Ascending(roots)[k] \in roots
      /\ \A x \in roots : \E k \in 1 .. n : Ascending(roots)[k] = x
  BY RootsAreNodes
<1> HIDE DEF n
<1>2. /\ b \in Searches(roots) /\ n <= Len(b.queue)
      /\ \A k \in 1 .. n : b.queue[k] = Ascending(roots)[k]
      /\ \A x \in roots : x \in DOMAIN b.path /\ b.path[x] = <<x>>
      /\ t \in DOMAIN b.path => Found(b, g, roots, t)
      /\ t \notin DOMAIN b.path =>
           \A k \in 1 .. n : k <= i - 1 => ~ (g.cap[<<Ascending(roots)[k], t>>] > 0)
  BY DEF FromRoots, n
<1>3. b.queue \in Seq(Nodes) /\ Len(b.queue) \in Nat
      /\ \A k \in 1 .. Len(b.queue) : b.queue[k] \in DOMAIN b.path
  BY <1>2, LenProperties DEF Searches
<1>4. CASE i > Len(b.queue)
  <2>1. Visit(g, b, i) = b
    BY <1>4 DEF Visit
  <2>2. \A k \in 1 .. n : k <= i - 1
    BY <1>1, <1>2, <1>3, <1>4
  <2> QED
    BY <1>2, <2>1, <2>2 DEF FromRoots, n
<1>5. CASE ~ (i > Len(b.queue))
  <2> DEFINE x == b.queue[i]
             found == {y \in Nodes \ DOMAIN b.path : g.cap[<<x, y>>] > 0}
             D == DOMAIN b.path \cup found
             path == [y \in D |-> IF y \in found THEN Append(b.path[x], y) ELSE b.path[y]]
             queue == b.queue \o Descending(found)
             next == Visit(g, b, i)
  <2>1. next = [queue |-> queue, path |-> path]
    BY <1>5 DEF Visit, Extended
  <2>2. next \in Searches(roots)
    BY <1>2, VisitSearch
  <2>3. i \in 1 .. Len(b.queue) /\ x \in DOMAIN b.path
    BY <1>3, <1>5
  <2>4. found \in SUBSET Nodes /\ DOMAIN path = D
    OBVIOUS
  <2>5. \A y \in DOMAIN b.path : y \notin found /\ path[y] = b.path[y]
    OBVIOUS
  <2>6. \A y \in Nodes : y \in found <=> y \notin DOMAIN b.path /\ g.cap[<<x, y>>] > 0
    OBVIOUS
  <2>7. \A y \in found : path[y] = Append(b.path[x], y)
    OBVIOUS
  <2>8. /\ Len(queue) \in Nat /\ Len(b.queue) <= Len(queue)
        /\ \A k \in 1 .. Len(b.queue) : queue[k] = b.queue[k]
        /\ \A y \in found : \E k \in 1 .. Len(queue) : queue[k] = y
    <3> DEFINE new == Descending(found)
    <3> HIDE DEF found
    <3>1. new \in Seq(Nodes) /\ Lists(new, found) /\ Len(new) \in Nat
      <4>1. new \in Seq(found) /\ Lists(new, found)
        BY <2>4, ListsNodes
      <4> HIDE DEF new
      <4> QED
        BY <2>4, <4>1, SeqMonotonic, LenProperties
    <3> HIDE DEF new
    <3>2. /\ Len(b.queue \o new) = Len(b.queue) + Len(new)
          /\ \A k \in 1 .. Len(b.queue) + Len(new) :
               (b.queue \o new)[k] = IF k <= Len(b.queue) THEN b.queue[k]
                                     ELSE new[k - Len(b.queue)]
      BY <1>3, <3>1, ConcatProperties
    <3>3. queue = b.queue \o new
      BY DEF new
    <3> HIDE DEF queue
    <3>4. ASSUME NEW y \in found
          PROVE  \E k \in 1 .. Len(queue) : queue[k] = y
      <4>1. PICK j \in 1 .. Len(new) : new[j] = y
        BY <3>1 DEF Lists
      <4>2. Len(b.queue) + j \in 1 .. Len(b.queue) + Len(new) /\ ~ (Len(b.queue) + j <= Len(b.queue))
            /\ (Len(b.queue) + j) - Len(b.queue) = j
        BY <1>3, <3>1
      <4> QED
        BY <3>2, <3>3, <4>1, <4>2
    <3>5. Len(queue) = Len(b.queue) + Len(new)
      BY <3>2, <3>3
    <3>6. \A k \in 1 .. Len(b.queue) : queue[k] = b.queue[k]
      <4> TAKE k \in 1 .. Len(b.queue)
      <4>1. k \in 1 .. Len(b.queue) + Len(new) /\ k <= Len(b.queue)
        BY <1>3, <3>1
      <4> QED
        BY <3>2, <3>3, <4>1
    <3>7. Len(queue) \in Nat /\ Len(b.queue) <= Len(queue)
      BY <1>3, <3>1, <3>5
    <3> QED
      BY <3>4, <3>6, <3>7
  <2> HIDE DEF x, found, path, queue, next
  <2>9. next.queue = queue /\ next.path = path
    BY <2>1
  <2>10. t \in D => Found(next, g, roots, t)
    <3>1. CASE t \in DOMAIN b.path
      <4>1. PICK k \in 1 .. Len(b.queue) : b.queue[k] = t
        BY <1>2, <3>1 DEF Found
      <4>2. k \in 1 .. Len(queue) /\ queue[k] = t
        BY <1>3, <2>8, <4>1
      <4>3. path[t] = b.path[t]
        BY <2>5, <3>1
      <4> QED
        BY <1>2, <2>9, <3>1, <4>2, <4>3 DEF Found
    <3>2. CASE t \in found
      <4>1. t \notin DOMAIN b.path /\ g.cap[<<x, t>>] > 0
        BY <2>6, <3>2
      <4>2. i <= n
        <5>1. SUFFICES ASSUME ~ (i <= n) PROVE FALSE
          OBVIOUS
        <5>2. \A k \in 1 .. n : k <= i - 1
          BY <1>1, <5>1
        <5>3. \A y \in roots : ~ (g.cap[<<y, t>>] > 0)
          BY <1>1, <1>2, <4>1, <5>2
        <5> QED
          BY <5>3
      <4>3. x \in roots
        BY <1>1, <1>2, <4>2 DEF x
      <4>4. path[t] = <<x, t>>
        <5>1. path[t] = Append(<<x>>, t)
          BY <1>2, <2>7, <3>2, <4>3
        <5>2. x \in Nodes /\ t \in Nodes
          BY <4>3
        <5>3. Append(<<x>>, t) = <<x, t>>
          BY <5>2, AppendToOne
        <5> QED
          BY <5>1, <5>3
      <4>5. \E k \in 1 .. Len(queue) : queue[k] = t
        BY <2>8, <3>2
      <4> QED
        BY <2>9, <4>1, <4>3, <4>4, <4>5 DEF Found
    <3> QED
      BY <3>1, <3>2
  <2>11. t \notin D => \A k \in 1 .. n : k <= i => ~ (g.cap[<<Ascending(roots)[k], t>>] > 0)
    <3> SUFFICES ASSUME t \notin D, NEW k \in 1 .. n, k <= i
                 PROVE  ~ (g.cap[<<Ascending(roots)[k], t>>] > 0)
      OBVIOUS
    <3>1. t \notin DOMAIN b.path /\ t \notin found
      OBVIOUS
    <3>2. CASE k = i
      <4>1. x = Ascending(roots)[k]
        BY <1>2, <3>2 DEF x
      <4> QED
        BY <2>6, <3>1, <4>1
    <3>3. CASE k # i
      <4>1. k <= i - 1
        BY <1>1, <3>3
      <4> QED
        BY <1>2, <3>1, <4>1
    <3> QED
      BY <3>2, <3>3
  <2>12. n <= Len(queue) /\ \A k \in 1 .. n : queue[k] = Ascending(roots)[k]
    BY <1>1, <1>2, <1>3, <2>8
  <2>13. \A y \in roots : y \in D /\ path[y] = <<y>>
    BY <1>2, <2>5
  <2> QED
    BY <2>2, <2>4, <2>9, <2>10, <2>11, <2>12, <2>13 DEF FromRoots, n, next
<1> QED
  BY <1>4, <1>5

LEMMA SearchFinds ==
  ASSUME NEW g, NEW roots \in SUBSET Nodes, NEW t \in Nodes, t \notin roots,
         \E x \in roots : g.cap[<<x, t>>] > 0
  PROVE  /\ SearchFrom(g, roots) \in Searches(roots)
         /\ Found(SearchFrom(g, roots), g, roots, t)
<1> DEFINE N == Cardinality(Nodes)
<1>1. PICK bfs : Visits(bfs, g, roots) /\ SearchFrom(g, roots) = bfs[N]
  BY SearchUnrolls
<1>2. /\ N \in Nat /\ Cardinality(roots) \in Nat /\ Cardinality(roots) <= N
      /\ \A x \in roots : \E k \in 1 .. Cardinality(roots) : Ascending(roots)[k] = x
  BY RootsAreNodes
<1>3. /\ bfs \in [0 .. N -> Searches(roots)]
      /\ bfs[0] = [queue |-> Ascending(roots), path |-> [x \in roots |-> <<x>>]]
      /\ \A i \in 1 .. N : bfs[i] = Visit(g, bfs[i - 1], i)
  BY <1>1 DEF Visits
<1> HIDE DEF N
<1> DEFINE Good == {i \in 0 .. N : FromRoots(bfs[i], g, roots, t, i)}
<1>4. 0 \in Good
  <2>1. 0 \in 0 .. N /\ bfs[0] \in Searches(roots)
    BY <1>2, <1>3
  <2> QED
    BY <1>3, <2>1, SearchBegins
<1>5. ASSUME NEW i \in 0 .. N - 1, i \in Good
      PROVE  i + 1 \in Good
  <2>1. i + 1 \in 0 .. N /\ i + 1 \in 1 .. N /\ i + 1 \in Nat \ {0} /\ (i + 1) - 1 = i
    BY <1>2
  <2>2. bfs[i + 1] = Visit(g, bfs[i], i + 1)
    <3>1. bfs[i + 1] = Visit(g, bfs[(i + 1) - 1], i + 1)
      BY <1>3, <2>1
    <3> QED
      BY <2>1, <3>1
  <2>3. FromRoots(bfs[i], g, roots, t, (i + 1) - 1)
    BY <1>5, <2>1
  <2>4. FromRoots(Visit(g, bfs[i], i + 1), g, roots, t, i + 1)
    BY <2>1, <2>3, SearchStep
  <2> QED
    BY <2>1, <2>2, <2>4
<1>6. FromRoots(bfs[N], g, roots, t, N)
  <2>1. N \in 0 .. N /\ \A i \in 0 .. N - 1 : i \in Good => i + 1 \in Good
    BY <1>2, <1>5
  <2>2. N \in Good
    <3> HIDE DEF Good
    <3> QED
      BY <1>2, <1>4, <2>1, CountUp
  <2> QED
    BY <2>2
<1>7. t \in DOMAIN bfs[N].path
  <2> SUFFICES ASSUME t \notin DOMAIN bfs[N].path PROVE FALSE
    OBVIOUS
  <2>1. \A k \in 1 .. Cardinality(roots) : k <= N
    BY <1>2
  <2>2. \A k \in 1 .. Cardinality(roots) : ~ (g.cap[<<Ascending(roots)[k], t>>] > 0)
    BY <1>6, <2>1 DEF FromRoots
  <2> QED
    BY <1>2, <2>2
<1> QED
  BY <1>1, <1>6, <1>7 DEF FromRoots

(***************************************************************************)
(* The flow of a lone loss: every augmentation takes the whole of a parity *)
(* node, whose edge to the loss is then used no more, or meets the demand. *)
(* That augment moves twice the amount in cap is never seen.               *)
(***************************************************************************)
Node(p) == <<"p", p>>
Sink(d) == <<"d", d>>

Unmet(g, d) == - g.excess[Sink(d)]

(* A parity position that no augmentation has taken from.                  *)
Untouched(g, us, d, p) ==
  /\ g.excess[Node(p)] = us[p]
  /\ g.cap[<<Node(p), Sink(d)>>] = IF Covers(p, d) THEN us[p] ELSE 0

LoneFlow(g, us, d, c, i) ==
  /\ g \in Flows
  /\ \A x \in DataNodes : x # Sink(d) => g.excess[x] = 0
  /\ Unmet(g, d) \in Nat
  /\ SumFunctionOnSet(Drained(us, g), Covering({d})) = c - Unmet(g, d)
  /\ Unmet(g, d) > 0 =>
       /\ Unmet(g, d) <= c - i
       /\ \A p \in Delay + 1 .. NumFrames :
            g.excess[Node(p)] > 0 => Untouched(g, us, d, p)

LEMMA LoneNodes ==
  ASSUME NEW d \in Window
  PROVE  /\ Sink(d) \in DataNodes /\ Sink(d) \in Nodes /\ Sink(d) \notin ParityNodes
         /\ \A p \in Delay + 1 .. NumFrames :
              p \in Window /\ p > Delay /\ Node(p) \in ParityNodes /\ Node(p) \in Nodes
         /\ \A x \in ParityNodes : \E p \in Delay + 1 .. NumFrames : x = Node(p)
         /\ \A x \in Nodes : x \in ParityNodes \/ x \in DataNodes
         /\ \A p, q : Node(p) = Node(q) => p = q
         /\ \A p : Node(p) # Sink(d)
<1>1. NumFrames \in Nat /\ Window = 1 .. NumFrames /\ Delay \in Nat
  BY FramesInWindow DEF Window
<1>2. \A p : Node(p) # Sink(d)
  BY DEF Node, Sink
<1>3. \A p, q : Node(p) = Node(q) => p = q
  BY DEF Node
<1>4. Sink(d) \notin ParityNodes
  BY <1>2 DEF ParityNodes, Node
<1> QED
  BY <1>1, <1>2, <1>3, <1>4 DEF ParityNodes, DataNodes, Nodes, Node, Sink

LEMMA LoneCovering ==
  ASSUME NEW d \in Window
  PROVE  /\ Covering({d}) = d .. AtMost(NumFrames, d + Delay)
         /\ Covering({d}) \in SUBSET Window
         /\ \A p \in Window : p \in Covering({d}) <=> Covers(p, d)
BY FramesInWindow DEF Covering, Covers, AtMost, Window

LEMMA DrainedType ==
  ASSUME NEW us \in Counts, NEW g \in Flows, NEW p \in Window
  PROVE  Drained(us, g)[p] \in Int
<1>1. NumFrames \in Nat /\ Window = 1 .. NumFrames /\ Delay \in Nat
  BY FramesInWindow DEF Window
<1>2. Drained(us, g)[p] = IF p <= Delay THEN 0 ELSE us[p] - g.excess[Node(p)]
  BY DEF Drained, Node
<1>3. CASE p <= Delay
  BY <1>2, <1>3
<1>4. CASE ~ (p <= Delay)
  <2>1. Node(p) \in Nodes
    <3>1. p \in Delay + 1 .. NumFrames
      BY <1>1, <1>4
    <3> QED
      BY <3>1, LoneNodes
  <2>2. us[p] \in Int /\ g.excess[Node(p)] \in Int
    BY <2>1 DEF Counts, Flows
  <2> QED
    BY <1>2, <1>4, <2>2
<1> QED
  BY <1>3, <1>4

LEMMA FlowBegins ==
  ASSUME NEW m, NEW d, Lone(m, d), NEW us \in Counts
  PROVE  LoneFlow(ConstructGraph(m, us), us, d, m[d], 0)
<1> DEFINE g == ConstructGraph(m, us)
<1>0. NumFrames \in Nat /\ Window = 1 .. NumFrames /\ Delay \in Nat
  BY FramesInWindow DEF Window
<1>1. m \in Counts /\ d \in Window /\ m[d] \in Nat /\ \A q \in Window : q # d => m[q] = 0
  BY DEF Lone, Counts
<1>2. g \in Flows
  BY <1>1, GraphIsFlow
<1>3. /\ \A x \in Nodes : g.excess[x] = IF x[1] = "p" THEN us[x[2]] ELSE - m[x[2]]
      /\ \A e \in Nodes \X Nodes :
           g.cap[e] = IF e[1][1] = "p" /\ e[2][1] = "d" /\ Covers(e[1][2], e[2][2])
                      THEN us[e[1][2]] ELSE 0
  BY DEF ConstructGraph
<1> HIDE DEF g
<1>4. \A x \in DataNodes : x # Sink(d) => g.excess[x] = 0
  <2> SUFFICES ASSUME NEW x \in DataNodes, x # Sink(d) PROVE g.excess[x] = 0
    OBVIOUS
  <2>1. PICK q \in Window : x = <<"d", q>>
    BY DEF DataNodes
  <2>2. q # d /\ x \in Nodes /\ x[1] # "p" /\ x[2] = q
    BY <2>1 DEF Sink, Nodes
  <2>3. g.excess[x] = - m[q]
    BY <1>3, <2>2
  <2>4. m[q] \in Int /\ m[q] <= 0 /\ m[q] >= 0
    BY <1>1, <2>2
  <2>5. - m[q] = 0
    BY <2>4
  <2> QED
    BY <2>3, <2>5
<1>5. Unmet(g, d) = m[d]
  <2>1. Sink(d) \in Nodes /\ Sink(d)[1] # "p" /\ Sink(d)[2] = d
    BY <1>1, LoneNodes DEF Sink
  <2>2. g.excess[Sink(d)] = - m[d]
    BY <1>3, <2>1
  <2> QED
    BY <1>1, <2>2 DEF Unmet
<1>6. ASSUME NEW p \in Delay + 1 .. NumFrames
      PROVE  Untouched(g, us, d, p)
  <2>1. Node(p) \in Nodes /\ Node(p)[1] = "p" /\ Node(p)[2] = p
    BY <1>1, LoneNodes DEF Node
  <2>2. g.excess[Node(p)] = us[p]
    BY <1>3, <2>1
  <2>3. Sink(d) \in Nodes /\ Sink(d)[1] = "d" /\ Sink(d)[2] = d
    BY <1>1, LoneNodes DEF Sink
  <2> DEFINE e == <<Node(p), Sink(d)>>
  <2>4. e \in Nodes \X Nodes /\ e[1] = Node(p) /\ e[2] = Sink(d)
    BY <2>1, <2>3
  <2> HIDE DEF e
  <2>5. g.cap[e] = IF Covers(p, d) THEN us[p] ELSE 0
    BY <1>3, <2>1, <2>3, <2>4
  <2> QED
    BY <2>2, <2>5 DEF Untouched, e
<1>7. SumFunctionOnSet(Drained(us, g), Covering({d})) = 0
  <2>1. IsFiniteSet(Covering({d})) /\ Covering({d}) \in SUBSET Window
    BY <1>1, LoneCovering, FramesInWindow, FS_Subset
  <2>2. \A p \in Covering({d}) : Drained(us, g)[p] = 0
    <3> SUFFICES ASSUME NEW p \in Window PROVE Drained(us, g)[p] = 0
      BY <2>1
    <3>1. Drained(us, g)[p] = IF p <= Delay THEN 0 ELSE us[p] - g.excess[Node(p)]
      BY DEF Drained, Node
    <3>2. CASE p <= Delay
      BY <3>1, <3>2
    <3>3. CASE ~ (p <= Delay)
      <4>1. p \in Delay + 1 .. NumFrames
        BY <1>0, <3>3
      <4>2. g.excess[Node(p)] = us[p] /\ us[p] \in Int
        <5>1. us[p] \in Int
          BY DEF Counts
        <5>2. Untouched(g, us, d, p)
          BY <1>6, <4>1
        <5> QED
          BY <5>1, <5>2 DEF Untouched
      <4> QED
        BY <3>1, <3>3, <4>2
    <3> QED
      BY <3>2, <3>3
  <2> QED
    BY <2>1, <2>2, SumOfZeros
<1>8. m[d] - Unmet(g, d) = 0 /\ Unmet(g, d) <= m[d] - 0 /\ Unmet(g, d) \in Nat
  BY <1>1, <1>5
<1>9. LoneFlow(g, us, d, m[d], 0)
  BY <1>2, <1>4, <1>6, <1>7, <1>8 DEF LoneFlow
<1> QED
  BY <1>9 DEF g

LEMMA HopsOfEdge ==
  ASSUME NEW x \in Nodes, NEW y \in Nodes
  PROVE  /\ Hops(<<x, y>>) = {<<x, y>>}
         /\ Len(<<x, y>>) = 2 /\ <<x, y>>[1] = x /\ <<x, y>>[2] = y
<1> DEFINE s == <<x, y>>
<1>1. Len(s) = 2 /\ s[1] = x /\ s[2] = y
  OBVIOUS
<1>2. 1 .. Len(s) - 1 = {1} /\ 1 + 1 = 2
  BY <1>1
<1>3. Hops(s) = {<<s[i], s[i + 1]>> : i \in 1 .. Len(s) - 1}
  BY DEF Hops
<1> HIDE DEF s
<1>4. {<<s[i], s[i + 1]>> : i \in 1 .. Len(s) - 1} = {<<s[1], s[2]>>}
  BY <1>2
<1>5. Hops(s) = {<<x, y>>}
  BY <1>1, <1>3, <1>4
<1> QED
  BY <1>1, <1>5 DEF s

(* One augmentation of the lone loss, from parity position p.              *)
Pushed(g, h, p, d, amount) ==
  /\ h \in Flows
  /\ h.excess[Node(p)] = g.excess[Node(p)] - amount
  /\ h.excess[Sink(d)] = g.excess[Sink(d)] + amount
  /\ \A x \in Nodes : x # Node(p) /\ x # Sink(d) => h.excess[x] = g.excess[x]
  /\ \A x \in Nodes : x # Node(p) /\ x # Sink(d) =>
       h.cap[<<x, Sink(d)>>] = g.cap[<<x, Sink(d)>>]

LEMMA PushEdge ==
  ASSUME NEW g \in Flows, NEW p \in Delay + 1 .. NumFrames, NEW d \in Window,
         g.excess[Node(p)] > 0, g.excess[Sink(d)] < 0,
         g.cap[<<Node(p), Sink(d)>>] = g.excess[Node(p)]
  PROVE  \E amount \in Nat \ {0} :
           /\ Pushed(g, Push(g, <<Node(p), Sink(d)>>), p, d, amount)
           /\ amount = g.excess[Node(p)] \/ amount = Unmet(g, d)
           /\ amount <= g.excess[Node(p)] /\ amount <= Unmet(g, d)
<1> DEFINE from == Node(p)
           to == Sink(d)
           path == <<from, to>>
           options == {g.excess[from], - g.excess[to]} \cup {g.cap[e] : e \in Hops(path)}
           amount == Min(options)
           excess == [g.excess EXCEPT ![from] = @ - amount, ![to] = @ + amount]
           cap == [e \in DOMAIN g.cap |->
                     IF e \in Hops(path) THEN g.cap[e] - AugmentBy(amount)
                     ELSE IF Back(e) \in Hops(path) THEN g.cap[e] + AugmentBy(amount)
                     ELSE g.cap[e]]
           h == [excess |-> excess, cap |-> cap]
<1>1. from \in Nodes /\ to \in Nodes /\ from # to
  BY LoneNodes
<1>2. /\ Hops(path) = {<<from, to>>}
      /\ Len(path) = 2 /\ path[1] = from /\ path[2] = to
  <2> HIDE DEF from, to
  <2> QED
    BY <1>1, HopsOfEdge
<1>3. Push(g, path) = h
  <2> HIDE DEF from, to
  <2>1. path[Len(path)] = to
    BY <1>2
  <2> HIDE DEF path
  <2> QED
    BY <1>2, <2>1 DEF Push
<1>4. path \in Seq(Nodes) /\ Len(path) > 0
      /\ g.excess[path[1]] > 0 /\ g.excess[path[Len(path)]] < 0
  <2>1. g.excess[from] > 0 /\ g.excess[to] < 0
    OBVIOUS
  <2> HIDE DEF from, to
  <2>2. path \in Seq(Nodes)
    BY <1>1
  <2> HIDE DEF path
  <2> QED
    BY <1>2, <2>1, <2>2
<1>5. h \in Flows
  <2>1. Push(g, path) \in Flows
    <3> HIDE DEF path
    <3> QED
      BY <1>4, PushKeepsFlow
  <2> HIDE DEF h
  <2> QED
    BY <1>3, <2>1
<1>6. /\ g.excess[from] \in Int /\ g.excess[to] \in Int
      /\ g.excess \in [Nodes -> Int] /\ g.cap \in [Nodes \X Nodes -> Int]
  BY <1>1 DEF Flows
<1>7. g.excess[from] > 0 /\ g.excess[to] < 0 /\ g.cap[<<from, to>>] = g.excess[from]
  OBVIOUS
<1>8. path = <<from, to>> /\ Push(g, path) = Push(g, <<Node(p), Sink(d)>>)
      /\ Unmet(g, d) = - g.excess[to]
  BY DEF Unmet
<1>9. options = {g.excess[from], - g.excess[to]}
  BY <1>2, <1>7
<1>10. DOMAIN g.cap = Nodes \X Nodes
  BY <1>6
<1>11. \A e : e \in Hops(path) <=> e = <<from, to>>
  BY <1>2
<1> HIDE DEF from, to, path, options
<1>12. options \in SUBSET Int /\ IsFiniteSet(options) /\ options # {}
  <2>1. options = {g.excess[from]} \cup {- g.excess[to]}
    BY <1>9
  <2>2. IsFiniteSet({g.excess[from]}) /\ IsFiniteSet({- g.excess[to]})
    BY FS_Singleton
  <2>3. IsFiniteSet(options)
    BY <2>1, <2>2, FS_Union
  <2> QED
    BY <1>6, <1>9, <2>3
<1>13. amount \in options /\ \A z \in options : amount <= z
  BY <1>12, MinIsLeast
<1> HIDE DEF amount
<1>14. /\ amount = g.excess[from] \/ amount = - g.excess[to]
       /\ amount <= g.excess[from] /\ amount <= - g.excess[to]
       /\ amount \in Nat \ {0}
  <2>1. amount = g.excess[from] \/ amount = - g.excess[to]
    BY <1>9, <1>13
  <2>2. amount <= g.excess[from] /\ amount <= - g.excess[to]
    BY <1>9, <1>13
  <2>3. amount \in Nat \ {0}
    BY <1>6, <1>7, <2>1
  <2> QED
    BY <2>1, <2>2, <2>3
<1>15. /\ h.excess[from] = g.excess[from] - amount
       /\ h.excess[to] = g.excess[to] + amount
       /\ \A x \in Nodes : x # from /\ x # to => h.excess[x] = g.excess[x]
  BY <1>1, <1>6
<1>16. \A x \in Nodes : x # from /\ x # to => h.cap[<<x, to>>] = g.cap[<<x, to>>]
  <2> SUFFICES ASSUME NEW x \in Nodes, x # from, x # to
               PROVE  h.cap[<<x, to>>] = g.cap[<<x, to>>]
    OBVIOUS
  <2>1. <<x, to>> # <<from, to>> /\ Back(<<x, to>>) # <<from, to>>
    BY DEF Back
  <2>2. <<x, to>> \in DOMAIN g.cap
    BY <1>1, <1>10
  <2> QED
    BY <1>11, <2>1, <2>2
<1> HIDE DEF h
<1>17. Pushed(g, h, p, d, amount)
  BY <1>5, <1>15, <1>16 DEF Pushed, from, to
<1> QED
  BY <1>3, <1>8, <1>14, <1>17 DEF from

(* While demand is unmet, some parity over the loss is untouched.          *)
LEMMA LoneRoot ==
  ASSUME NEW us \in Counts, NEW d \in Window, NEW c \in Nat,
         \A p \in Window : p <= Delay => us[p] = 0,
         c <= SumFunctionOnSet(us, Covering({d})),
         NEW i, NEW g, LoneFlow(g, us, d, c, i), Unmet(g, d) > 0
  PROVE  \E p \in Delay + 1 .. NumFrames :
           g.excess[Node(p)] > 0 /\ Covers(p, d) /\ Untouched(g, us, d, p)
<1> DEFINE T == Covering({d})
           drained == Drained(us, g)
<1>0. NumFrames \in Nat /\ Window = 1 .. NumFrames /\ Delay \in Nat
  BY FramesInWindow DEF Window
<1>1. g \in Flows /\ Unmet(g, d) \in Nat /\ SumFunctionOnSet(drained, T) = c - Unmet(g, d)
  BY DEF LoneFlow
<1>2. T \in SUBSET Window /\ \A p \in Window : p \in T <=> Covers(p, d)
  BY LoneCovering
<1>3. SUFFICES ASSUME \A p \in Delay + 1 .. NumFrames : Covers(p, d) => ~ (g.excess[Node(p)] > 0)
               PROVE  FALSE
  BY DEF LoneFlow
<1>4. ASSUME NEW p \in T PROVE us[p] = drained[p]
  <2>1. p \in Window /\ Covers(p, d)
    BY <1>2
  <2>2. drained[p] = IF p <= Delay THEN 0 ELSE us[p] - g.excess[Node(p)]
    BY <2>1 DEF Drained, Node
  <2> HIDE DEF drained
  <2>3. CASE p <= Delay
    BY <2>1, <2>2, <2>3
  <2>4. CASE ~ (p <= Delay)
    <3>1. p \in Delay + 1 .. NumFrames
      BY <1>0, <2>1, <2>4
    <3>2. Node(p) \in Nodes /\ Node(p) \in ParityNodes
      BY <3>1, LoneNodes
    <3>3. g.excess[Node(p)] \in Int /\ g.excess[Node(p)] >= 0
      BY <1>1, <3>2 DEF Flows
    <3>4. ~ (g.excess[Node(p)] > 0)
      BY <1>3, <2>1, <3>1
    <3>5. us[p] \in Int
      BY <2>1 DEF Counts
    <3> QED
      BY <2>2, <2>4, <3>3, <3>4, <3>5
  <2> QED
    BY <2>3, <2>4
<1> HIDE DEF drained, T
<1>5. Summable(us, T) /\ SumFunctionOnSet(us, T) \in Nat
  BY <1>2, SummableCounts
<1>6. SumFunctionOnSet(us, T) = SumFunctionOnSet(drained, T)
  BY <1>4, <1>5, SumSame
<1>7. c <= SumFunctionOnSet(us, T)
  BY DEF T
<1> QED
  BY <1>1, <1>5, <1>6, <1>7

(* Whatever the search visits first, it then ends at the loss, one edge    *)
(* away from the parity that gives.                                        *)
LEMMA LoneAugment ==
  ASSUME NEW us \in Counts, NEW d \in Window, NEW c \in Nat,
         \A p \in Window : p <= Delay => us[p] = 0,
         c <= SumFunctionOnSet(us, Covering({d})),
         NEW i, NEW g, LoneFlow(g, us, d, c, i), Unmet(g, d) > 0
  PROVE  \E p \in Delay + 1 .. NumFrames :
           /\ g.excess[Node(p)] > 0 /\ Covers(p, d) /\ Untouched(g, us, d, p)
           /\ Augment(g) = Push(g, <<Node(p), Sink(d)>>)
<1> DEFINE roots == {x \in Nodes : g.excess[x] > 0}
           bfs == SearchFrom(g, roots)
           sinks == {k \in DOMAIN bfs.queue : g.excess[bfs.queue[k]] < 0}
           t == Sink(d)
<1>0. /\ g \in Flows /\ Unmet(g, d) \in Nat
      /\ \A x \in DataNodes : x # Sink(d) => g.excess[x] = 0
      /\ \A p \in Delay + 1 .. NumFrames :
           g.excess[Node(p)] > 0 => Untouched(g, us, d, p)
  BY DEF LoneFlow
<1>1. /\ \A x \in Nodes : g.excess[x] \in Int
      /\ \A x \in ParityNodes : g.excess[x] >= 0
  BY <1>0 DEF Flows
<1>2. /\ t \in Nodes /\ t \in DataNodes /\ t \notin ParityNodes
      /\ \A x \in Nodes : x \in ParityNodes \/ x \in DataNodes
      /\ \A x \in ParityNodes : \E p \in Delay + 1 .. NumFrames : x = Node(p)
      /\ \A p \in Delay + 1 .. NumFrames : p \in Window /\ Node(p) \in Nodes
  BY LoneNodes
<1>3. g.excess[t] < 0
  BY <1>1, <1>2 DEF Unmet
<1>4. \A x \in Nodes : g.excess[x] < 0 => x = t
  <2> SUFFICES ASSUME NEW x \in Nodes, g.excess[x] < 0, x # t PROVE FALSE
    OBVIOUS
  <2>1. x \in DataNodes
    BY <1>1, <1>2
  <2>2. g.excess[x] = 0
    BY <1>0, <2>1
  <2> QED
    BY <2>2
<1>5. roots \in SUBSET Nodes /\ t \notin roots
  BY <1>1, <1>2, <1>3
<1>6. \A x \in roots : \E p \in Delay + 1 .. NumFrames : x = Node(p) /\ g.excess[Node(p)] > 0
  <2> SUFFICES ASSUME NEW x \in roots
               PROVE  \E p \in Delay + 1 .. NumFrames : x = Node(p) /\ g.excess[Node(p)] > 0
    OBVIOUS
  <2>1. x \in Nodes /\ g.excess[x] > 0 /\ x # t
    BY <1>5
  <2>2. x \in ParityNodes
    <3> SUFFICES ASSUME x \in DataNodes PROVE FALSE
      BY <1>2, <2>1
    <3>1. g.excess[x] = 0
      BY <1>0, <2>1
    <3> QED
      BY <2>1, <3>1
  <2> QED
    BY <1>2, <2>1, <2>2
<1>7. \E x \in roots : g.cap[<<x, t>>] > 0
  <2>1. PICK p \in Delay + 1 .. NumFrames :
          g.excess[Node(p)] > 0 /\ Covers(p, d) /\ Untouched(g, us, d, p)
    BY LoneRoot
  <2>2. Node(p) \in roots
    BY <1>2, <2>1
  <2>3. g.cap[<<Node(p), t>>] = g.excess[Node(p)]
    BY <2>1 DEF Untouched
  <2>4. g.cap[<<Node(p), t>>] > 0
    BY <2>1, <2>3
  <2> HIDE DEF roots
  <2> QED
    BY <2>2, <2>4
<1>8. Augment(g) = IF sinks = {} THEN g ELSE Push(g, bfs.path[bfs.queue[Min(sinks)]])
  BY DEF Augment, AugmentAlong, Search
<1> HIDE DEF roots, t
<1>9. bfs \in Searches(roots) /\ Found(bfs, g, roots, t)
  BY <1>2, <1>5, <1>7, SearchFinds
<1> HIDE DEF bfs
<1>10. bfs.queue \in Seq(Nodes)
  BY <1>9 DEF Searches
<1>11. DOMAIN bfs.queue = 1 .. Len(bfs.queue) /\ Len(bfs.queue) \in Nat
       /\ \A k \in 1 .. Len(bfs.queue) : bfs.queue[k] \in Nodes
  BY <1>10, LenProperties, ElementOfSeq
<1>12. sinks # {} /\ \A k \in sinks : bfs.queue[k] = t
  <2>1. PICK k \in 1 .. Len(bfs.queue) : bfs.queue[k] = t
    BY <1>9 DEF Found
  <2>2. k \in sinks
    BY <1>3, <1>11, <2>1
  <2> QED
    BY <1>4, <1>11, <2>2
<1>13. sinks \in SUBSET Int /\ IsFiniteSet(sinks)
  <2>1. sinks \in SUBSET (1 .. Len(bfs.queue)) /\ IsFiniteSet(1 .. Len(bfs.queue))
    BY <1>11, FS_Interval
  <2>2. 1 .. Len(bfs.queue) \in SUBSET Int
    OBVIOUS
  <2> HIDE DEF sinks
  <2>3. IsFiniteSet(sinks)
    BY <2>1, FS_Subset
  <2> QED
    BY <2>1, <2>2, <2>3
<1> HIDE DEF sinks
<1>14. bfs.queue[Min(sinks)] = t
  BY <1>12, <1>13, MinIsLeast
<1>15. Augment(g) = Push(g, bfs.path[t])
  BY <1>8, <1>12, <1>14
<1>16. PICK x \in roots : bfs.path[t] = <<x, t>> /\ g.cap[<<x, t>>] > 0
  BY <1>9 DEF Found
<1>17. PICK p \in Delay + 1 .. NumFrames : x = Node(p) /\ g.excess[Node(p)] > 0
  BY <1>6
<1>18. Untouched(g, us, d, p)
  BY <1>0, <1>17
<1>19. Covers(p, d)
  <2> SUFFICES ASSUME ~ Covers(p, d) PROVE FALSE
    OBVIOUS
  <2>1. g.cap[<<x, t>>] = 0
    BY <1>17, <1>18 DEF Untouched, t
  <2> QED
    BY <1>16, <2>1
<1> QED
  BY <1>15, <1>16, <1>17, <1>18, <1>19 DEF t

LEMMA PushedSum ==
  ASSUME NEW us \in Counts, NEW d \in Window, NEW g \in Flows, NEW h,
         NEW p \in Delay + 1 .. NumFrames, Covers(p, d),
         NEW amount \in Int, Pushed(g, h, p, d, amount)
  PROVE  SumFunctionOnSet(Drained(us, h), Covering({d})) =
           SumFunctionOnSet(Drained(us, g), Covering({d})) + amount
<1> DEFINE T == Covering({d})
           a == Drained(us, g)
           b == Drained(us, h)
<1>0. NumFrames \in Nat /\ Window = 1 .. NumFrames /\ Delay \in Nat
  BY FramesInWindow DEF Window
<1>1. h \in Flows
  BY DEF Pushed
<1>2. p \in Window /\ ~ (p <= Delay) /\ Node(p) \in Nodes
  BY <1>0, LoneNodes
<1>3. T \in SUBSET Window /\ p \in T /\ IsFiniteSet(T)
  BY <1>2, LoneCovering, FramesInWindow, FS_Subset
<1>4. \A q \in Window : a[q] \in Int /\ b[q] \in Int
  BY <1>1, DrainedType
<1>5. \A q \in Window : /\ a[q] = IF q <= Delay THEN 0 ELSE us[q] - g.excess[Node(q)]
                        /\ b[q] = IF q <= Delay THEN 0 ELSE us[q] - h.excess[Node(q)]
  BY DEF Drained, Node
<1> HIDE DEF T, a, b
<1>6. b[p] = a[p] + amount
  <2>1. g.excess[Node(p)] \in Int /\ us[p] \in Int
    BY <1>2 DEF Flows, Counts
  <2>2. h.excess[Node(p)] = g.excess[Node(p)] - amount
    BY DEF Pushed
  <2>3. a[p] = us[p] - g.excess[Node(p)] /\ b[p] = us[p] - h.excess[Node(p)]
    BY <1>2, <1>5
  <2> QED
    BY <2>1, <2>2, <2>3
<1>7. ASSUME NEW q \in T \ {p} PROVE b[q] = a[q]
  <2>1. q \in Window /\ q # p
    BY <1>3
  <2>2. CASE q <= Delay
    BY <1>5, <2>1, <2>2
  <2>3. CASE ~ (q <= Delay)
    <3>1. q \in Delay + 1 .. NumFrames
      BY <1>0, <2>1, <2>3
    <3>2. Node(q) \in Nodes /\ Node(q) # Node(p) /\ Node(q) # Sink(d)
      BY <2>1, <3>1, LoneNodes
    <3>3. h.excess[Node(q)] = g.excess[Node(q)]
      BY <3>2 DEF Pushed
    <3> QED
      BY <1>5, <2>1, <2>3, <3>3
  <2> QED
    BY <2>2, <2>3
<1>8. Summable(a, T) /\ Summable(b, T) /\ Summable(b, T \ {p}) /\ Summable(a, T \ {p})
  <2>1. IsFiniteSet(T \ {p})
    BY <1>3, FS_Subset
  <2> QED
    BY <1>3, <1>4, <2>1 DEF Summable
<1>9. SumFunctionOnSet(a, T) = a[p] + SumFunctionOnSet(a, T \ {p})
  BY <1>3, <1>8, SumRemove
<1>10. SumFunctionOnSet(b, T) = b[p] + SumFunctionOnSet(b, T \ {p})
  BY <1>3, <1>8, SumRemove
<1>11. SumFunctionOnSet(b, T \ {p}) = SumFunctionOnSet(a, T \ {p})
  BY <1>7, <1>8, SumSame
<1>12. SumFunctionOnSet(a, T \ {p}) \in Int /\ a[p] \in Int
  BY <1>2, <1>4, <1>8, SumType
<1>13. SumFunctionOnSet(b, T) = SumFunctionOnSet(a, T) + amount
  BY <1>6, <1>9, <1>10, <1>11, <1>12
<1> QED
  BY <1>13 DEF T, a, b

(* With the demand met, the search finds no sink.                          *)
LEMMA MetStays ==
  ASSUME NEW us, NEW d \in Window, NEW c, NEW i, NEW g, LoneFlow(g, us, d, c, i),
         ~ (Unmet(g, d) > 0)
  PROVE  Augment(g) = g
<1> DEFINE roots == {x \in Nodes : g.excess[x] > 0}
           bfs == SearchFrom(g, roots)
           sinks == {k \in DOMAIN bfs.queue : g.excess[bfs.queue[k]] < 0}
<1>1. /\ g \in Flows /\ Unmet(g, d) \in Nat
      /\ \A x \in DataNodes : x # Sink(d) => g.excess[x] = 0
  BY DEF LoneFlow
<1>2. \A x \in Nodes : ~ (g.excess[x] < 0)
  <2> SUFFICES ASSUME NEW x \in Nodes PROVE ~ (g.excess[x] < 0)
    OBVIOUS
  <2>1. g.excess[x] \in Int /\ (x \in ParityNodes => g.excess[x] >= 0)
    BY <1>1 DEF Flows
  <2>2. x = Sink(d) => - g.excess[x] <= 0
    BY <1>1 DEF Unmet
  <2>3. x \in ParityNodes \/ x \in DataNodes
    BY LoneNodes
  <2>4. CASE x = Sink(d)
    BY <2>1, <2>2, <2>4
  <2>5. CASE x # Sink(d) /\ x \in DataNodes
    BY <1>1, <2>5
  <2>6. CASE x \in ParityNodes
    BY <2>1, <2>6
  <2> QED
    BY <2>3, <2>4, <2>5, <2>6
<1>3. Augment(g) = IF sinks = {} THEN g ELSE Push(g, bfs.path[bfs.queue[Min(sinks)]])
  BY DEF Augment, AugmentAlong, Search
<1>4. roots \in SUBSET Nodes
  OBVIOUS
<1> HIDE DEF roots
<1>5. bfs \in Searches(roots)
  BY <1>4, SearchReaches
<1> HIDE DEF bfs
<1>6. bfs.queue \in Seq(Nodes)
  BY <1>5 DEF Searches
<1>7. \A k \in DOMAIN bfs.queue : bfs.queue[k] \in Nodes
  BY <1>6, LenProperties, ElementOfSeq
<1>8. sinks = {}
  BY <1>2, <1>7
<1> QED
  BY <1>3, <1>8

LEMMA FlowStep ==
  ASSUME NEW us \in Counts, NEW d \in Window, NEW c \in Nat,
         \A p \in Window : p <= Delay => us[p] = 0,
         c <= SumFunctionOnSet(us, Covering({d})),
         NEW i \in Nat, NEW g, LoneFlow(g, us, d, c, i)
  PROVE  LoneFlow(Augment(g), us, d, c, i + 1)
<1>1. /\ g \in Flows /\ Unmet(g, d) \in Nat
      /\ \A x \in DataNodes : x # Sink(d) => g.excess[x] = 0
      /\ SumFunctionOnSet(Drained(us, g), Covering({d})) = c - Unmet(g, d)
      /\ Unmet(g, d) > 0 => Unmet(g, d) <= c - i
      /\ Unmet(g, d) > 0 => \A p \in Delay + 1 .. NumFrames :
                              g.excess[Node(p)] > 0 => Untouched(g, us, d, p)
  BY DEF LoneFlow
<1>2. CASE ~ (Unmet(g, d) > 0)
  <2>1. Augment(g) = g
    BY <1>2, MetStays
  <2> QED
    BY <1>1, <1>2, <2>1 DEF LoneFlow
<1>3. CASE Unmet(g, d) > 0
  <2>1. PICK p \in Delay + 1 .. NumFrames :
          /\ g.excess[Node(p)] > 0 /\ Covers(p, d) /\ Untouched(g, us, d, p)
          /\ Augment(g) = Push(g, <<Node(p), Sink(d)>>)
    BY <1>3, LoneAugment
  <2>2. /\ Sink(d) \in Nodes /\ Sink(d) \in DataNodes /\ Node(p) \in Nodes
        /\ Node(p) # Sink(d) /\ \A x \in DataNodes : x \in Nodes
        /\ p \in Window /\ Node(p) \in ParityNodes
    BY LoneNodes DEF Nodes
  <2>3. g.excess[Sink(d)] \in Int /\ g.excess[Node(p)] \in Int
    BY <1>1, <2>2 DEF Flows
  <2>4. g.excess[Sink(d)] < 0 /\ g.cap[<<Node(p), Sink(d)>>] = g.excess[Node(p)]
    <3>1. g.excess[Sink(d)] < 0
      BY <1>3, <2>3 DEF Unmet
    <3>2. g.cap[<<Node(p), Sink(d)>>] = g.excess[Node(p)]
      BY <2>1 DEF Untouched
    <3> QED
      BY <3>1, <3>2
  <2> DEFINE h == Push(g, <<Node(p), Sink(d)>>)
  <2>5. PICK amount \in Nat \ {0} :
          /\ Pushed(g, h, p, d, amount)
          /\ amount = g.excess[Node(p)] \/ amount = Unmet(g, d)
          /\ amount <= g.excess[Node(p)] /\ amount <= Unmet(g, d)
    BY <1>1, <2>1, <2>4, PushEdge
  <2>6. Augment(g) = h
    BY <2>1
  <2> HIDE DEF h
  <2>7. /\ h \in Flows
        /\ h.excess[Node(p)] = g.excess[Node(p)] - amount
        /\ h.excess[Sink(d)] = g.excess[Sink(d)] + amount
        /\ \A x \in Nodes : x # Node(p) /\ x # Sink(d) => h.excess[x] = g.excess[x]
        /\ \A x \in Nodes : x # Node(p) /\ x # Sink(d) =>
             h.cap[<<x, Sink(d)>>] = g.cap[<<x, Sink(d)>>]
    BY <2>5 DEF Pushed
  <2>8. \A x \in DataNodes : x # Sink(d) => h.excess[x] = 0
    <3>1. Node(p) \notin DataNodes
      BY DEF Node, DataNodes
    <3> QED
      BY <1>1, <2>2, <2>7, <3>1
  <2>9. Unmet(h, d) = Unmet(g, d) - amount /\ Unmet(h, d) \in Nat
    <3>1. Unmet(g, d) = - g.excess[Sink(d)] /\ Unmet(h, d) = - h.excess[Sink(d)]
      BY DEF Unmet
    <3>2. Unmet(h, d) = Unmet(g, d) - amount
      BY <2>3, <2>7, <3>1
    <3> QED
      BY <1>1, <2>5, <3>2
  <2>10. SumFunctionOnSet(Drained(us, h), Covering({d})) = c - Unmet(h, d)
    <3>1. SumFunctionOnSet(Drained(us, h), Covering({d})) =
            SumFunctionOnSet(Drained(us, g), Covering({d})) + amount
      BY <1>1, <2>1, <2>5, PushedSum
    <3> QED
      BY <1>1, <2>9, <3>1
  <2>11. Unmet(h, d) > 0 => Unmet(h, d) <= c - (i + 1)
    BY <1>1, <1>3, <2>5, <2>9
  <2>12. ASSUME Unmet(h, d) > 0, NEW q \in Delay + 1 .. NumFrames, h.excess[Node(q)] > 0
         PROVE  Untouched(h, us, d, q)
    <3>1. amount # Unmet(g, d)
      BY <1>1, <2>9, <2>12
    <3>2. h.excess[Node(p)] = 0
      BY <2>3, <2>5, <2>7, <3>1
    <3>3. q # p
      BY <2>12, <3>2
    <3>4. Node(q) \in Nodes /\ Node(q) # Node(p) /\ Node(q) # Sink(d)
      BY <3>3, LoneNodes
    <3>5. h.excess[Node(q)] = g.excess[Node(q)]
          /\ h.cap[<<Node(q), Sink(d)>>] = g.cap[<<Node(q), Sink(d)>>]
      BY <2>7, <3>4
    <3>6. g.excess[Node(q)] > 0
      BY <2>12, <3>5
    <3>7. Untouched(g, us, d, q)
      BY <1>1, <1>3, <3>6
    <3> QED
      BY <3>5, <3>7 DEF Untouched
  <2>13. LoneFlow(h, us, d, c, i + 1)
    BY <2>7, <2>8, <2>9, <2>10, <2>11, <2>12 DEF LoneFlow
  <2> QED
    BY <2>6, <2>13
<1> QED
  BY <1>2, <1>3

(* maxflow: with enough parities over it, the whole of a lone loss flows.  *)
LEMMA LoneFlowFills ==
  ASSUME NEW m, NEW d, Lone(m, d), NEW us \in Counts,
         \A p \in Window : p <= Delay => us[p] = 0,
         m[d] <= SumFunctionOnSet(us, Covering({d}))
  PROVE  SumFunctionOnSet(UsedParities(m, us), Covering({d})) = m[d]
<1> DEFINE c == m[d]
<1>1. m \in Counts /\ d \in Window /\ c \in Nat
  BY DEF Lone, Counts
<1>2. SumOver(m, Window) = c
  BY <1>1, SumOfLone DEF SumOver
<1>3. PICK flow : /\ Augments(flow, m, us) /\ SumOver(m, Window) \in Nat
                  /\ MaxFlow(m, us) = flow[SumOver(m, Window)]
  BY <1>1, FlowUnrolls
<1>4. /\ flow[0] = ConstructGraph(m, us) /\ MaxFlow(m, us) = flow[c]
      /\ \A i \in 1 .. c : flow[i] = Augment(flow[i - 1])
  BY <1>2, <1>3 DEF Augments
<1>5. c <= SumFunctionOnSet(us, Covering({d}))
  OBVIOUS
<1>6. LoneFlow(ConstructGraph(m, us), us, d, c, 0)
  BY FlowBegins
<1> HIDE DEF c
<1> DEFINE Good == {i \in 0 .. c : LoneFlow(flow[i], us, d, c, i)}
<1>7. 0 \in Good
  BY <1>1, <1>4, <1>6
<1>8. ASSUME NEW i \in 0 .. c - 1, i \in Good
      PROVE  i + 1 \in Good
  <2>1. i \in Nat /\ i + 1 \in 0 .. c /\ i + 1 \in 1 .. c /\ (i + 1) - 1 = i
    BY <1>1
  <2>2. flow[i + 1] = Augment(flow[i])
    <3>1. flow[i + 1] = Augment(flow[(i + 1) - 1])
      BY <1>4, <2>1
    <3> QED
      BY <2>1, <3>1
  <2>3. LoneFlow(flow[i], us, d, c, i)
    BY <1>8
  <2>4. LoneFlow(Augment(flow[i]), us, d, c, i + 1)
    BY <1>1, <1>5, <2>1, <2>3, FlowStep
  <2> QED
    BY <2>1, <2>2, <2>4
<1>9. LoneFlow(flow[c], us, d, c, c)
  <2>1. c \in 0 .. c /\ \A i \in 0 .. c - 1 : i \in Good => i + 1 \in Good
    BY <1>1, <1>8
  <2>2. c \in Good
    <3> HIDE DEF Good
    <3> QED
      BY <1>1, <1>7, <2>1, CountUp
  <2> QED
    BY <2>2
<1>10. SumFunctionOnSet(Drained(us, flow[c]), Covering({d})) = c
  <2>1. /\ Unmet(flow[c], d) \in Nat
        /\ Unmet(flow[c], d) > 0 => Unmet(flow[c], d) <= c - c
        /\ SumFunctionOnSet(Drained(us, flow[c]), Covering({d})) = c - Unmet(flow[c], d)
    BY <1>9 DEF LoneFlow
  <2>2. Unmet(flow[c], d) = 0
    BY <1>1, <2>1
  <2> QED
    BY <1>1, <2>1, <2>2
<1> QED
  BY <1>4, <1>10 DEF UsedParities, c

(* The parities that LoneLossSolved counts are those no lone loss disables. *)
LEMMA LaterParities ==
  ASSUME NEW r \in Counts, NEW d \in Window
  PROVE  /\ SumFunctionOnSet(r, {p \in Delay + 1 .. NumFrames : Covers(p, d)}) =
              SumFunctionOnSet(Usable(r), Covering({d}))
         /\ Over(r, d, NumFrames) = SumFunctionOnSet(Usable(r), Covering({d}))
<1> DEFINE later == {p \in Delay + 1 .. NumFrames : Covers(p, d)}
           T == Covering({d})
           rest == T \ later
           us == Usable(r)
<1>0. NumFrames \in Nat /\ Window = 1 .. NumFrames /\ Delay \in Nat
  BY FramesInWindow DEF Window
<1>1. T \in SUBSET Window /\ \A p \in Window : p \in T <=> Covers(p, d)
  BY LoneCovering
<1>2. /\ later \cup rest = T /\ later \cap rest = {}
      /\ later \in SUBSET Window /\ rest \in SUBSET Window
      /\ \A p \in Window : p \in later <=> p > Delay /\ p \in T
  <2>1. \A p \in Window : p \in later <=> p > Delay /\ p \in T
    <3>1. \A p \in Window : p \in Delay + 1 .. NumFrames <=> p > Delay
      BY <1>0
    <3> HIDE DEF T
    <3> QED
      BY <1>1, <3>1
  <2>2. later \in SUBSET Window
    BY <1>0
  <2> HIDE DEF later, T
  <2> QED
    BY <1>1, <2>1, <2>2
<1>3. /\ \A p \in later : r[p] = us[p]
      /\ \A p \in rest : us[p] = 0
  <2>1. \A p \in Window : us[p] = IF p <= Delay THEN 0 ELSE r[p]
    BY DEF Usable
  <2>2. \A p \in Window : ~ (p > Delay) => p <= Delay
    BY <1>0
  <2>3. \A p \in Window : p > Delay => ~ (p <= Delay)
    BY <1>0
  <2> HIDE DEF later, T, us
  <2> QED
    BY <1>2, <2>1, <2>2, <2>3
<1>4. us \in Counts
  BY UsableType
<1>5. Over(r, d, NumFrames) = SumFunctionOnSet(us, T)
  BY LoneCovering DEF Over
<1> HIDE DEF later, T, rest, us
<1>6. /\ Summable(us, later \cup rest) /\ Summable(r, later) /\ IsFiniteSet(rest)
      /\ SumFunctionOnSet(us, later) \in Nat
  <2>1. later \cup rest \in SUBSET Window
    BY <1>2
  <2> QED
    BY <1>2, <1>4, <2>1, SummableCounts
<1>7. SumFunctionOnSet(us, later \cup rest) =
        SumFunctionOnSet(us, later) + SumFunctionOnSet(us, rest)
  BY <1>2, <1>6, SumUnion
<1>8. SumFunctionOnSet(us, rest) = 0
  BY <1>3, <1>6, SumOfZeros
<1>9. SumFunctionOnSet(r, later) = SumFunctionOnSet(us, later)
  BY <1>3, <1>6, SumSame
<1>10. SumFunctionOnSet(us, later \cup rest) = SumFunctionOnSet(us, T)
  BY <1>2
<1>11. SumFunctionOnSet(r, later) = SumFunctionOnSet(us, T)
  BY <1>6, <1>7, <1>8, <1>9, <1>10
<1> QED
  BY <1>5, <1>11 DEF later, T, us

(* Hall's condition for the one frame that has unknown columns.            *)
LEMMA LoneSolvable ==
  ASSUME NEW m, NEW d, Lone(m, d), NEW used,
         SumFunctionOnSet(used, Covering({d})) = m[d]
  PROVE  Solvable(m, used)
<1>0. m \in Counts /\ d \in Window /\ m[d] \in Nat /\ \A q \in Window : q # d => m[q] = 0
  BY DEF Lone, Counts
<1> SUFFICES ASSUME NEW S \in SUBSET {q \in Window : m[q] > 0}
             PROVE  SumFunctionOnSet(m, S) <= SumFunctionOnSet(used, Covering(S))
  BY DEF Solvable, Covering, SumOver
<1>1. \A q \in S : q = d
  <2> SUFFICES ASSUME NEW q \in S, q # d PROVE FALSE
    OBVIOUS
  <2>1. m[q] = 0 /\ m[q] > 0
    BY <1>0
  <2> QED
    BY <2>1
<1>2. CASE S = {}
  <2>1. Covering(S) = {}
    BY <1>2 DEF Covering
  <2>2. SumFunctionOnSet(m, {}) = 0 /\ SumFunctionOnSet(used, {}) = 0
    BY SumEmpty
  <2> QED
    BY <1>2, <2>1, <2>2
<1>3. CASE S # {}
  <2>1. S = {d}
    BY <1>1, <1>3
  <2>2. {d} \in SUBSET Window /\ d \in {d}
    BY <1>0
  <2>3. SumFunctionOnSet(m, {d}) = m[d]
    BY <2>2, SumOfLone
  <2> QED
    BY <1>0, <2>1, <2>3
<1> QED
  BY <1>2, <1>3

LEMMA LoneLossDecodes ==
  ASSUME NEW m, NEW d, Lone(m, d), NEW r \in Counts,
         m[d] <= SumFunctionOnSet(r, {p \in Delay + 1 .. NumFrames : Covers(p, d)})
  PROVE  d \in DecodeTwice(m, r)
<1> DEFINE th == Theoretical(m, r)
           wanted == {x \in th.recovered : m[x] > 0}
           us == Usable(r)
           cols == [x \in Window |-> IF x \in wanted THEN m[x] ELSE 0]
<1>1. m \in Counts /\ d \in Window /\ m[d] > 0 /\ \A q \in Window : q # d => m[q] = 0
  BY DEF Lone
<1>2. m[d] <= SumFunctionOnSet(us, Covering({d})) /\ m[d] <= Over(r, d, NumFrames)
  <2>1. m[d] <= SumFunctionOnSet(us, Covering({d}))
    BY <1>1, LaterParities
  <2>2. Over(r, d, NumFrames) = SumFunctionOnSet(us, Covering({d}))
    BY <1>1, LaterParities
  <2> QED
    BY <2>1, <2>2
<1>3. th.recovered = Window /\ NetParities(r, th.unusable) = us
  BY <1>2, LoneTheory
<1> HIDE DEF th
<1>4. wanted = {d}
  BY <1>1, <1>3
<1>5. cols = m
  <2>1. \A x \in Window : cols[x] = m[x]
    BY <1>1, <1>4
  <2> QED
    BY <1>1, <2>1 DEF Counts
<1>6. us \in Counts /\ \A p \in Window : p <= Delay => us[p] = 0
  BY UsableType DEF Usable
<1> HIDE DEF us
<1>7. SumFunctionOnSet(UsedParities(m, us), Covering({d})) = m[d]
  BY <1>2, <1>6, LoneFlowFills
<1>8. Solvable(m, UsedParities(m, us))
  BY <1>7, LoneSolvable
<1>9. Decode(m, r) = IF Solvable(cols, UsedParities(cols, us)) THEN wanted ELSE {}
  BY <1>3 DEF Decode, DecodeAs, SolveWanted, th
<1> HIDE DEF cols, wanted
<1>10. Decode(m, r) = {d}
  BY <1>4, <1>5, <1>8, <1>9
<1> QED
  BY <1>10 DEF DecodeTwice, DecodeAgain

(***************************************************************************)
(* No lone loss is given up, for every look-back, stripe bound and order   *)
(* of arrival: StreamingCode::decode solves a frame that it finds alone in *)
(* missing data as soon as the parities over it hold enough stripes.       *)
(***************************************************************************)
THEOREM LoneLossSolvedAlways == Spec => []LoneLossSolved
<1>1. Init => LoneLossSolved
  BY DEF Init, LoneLossSolved, MissingIn
<1>2. TypeOK /\ TypeOK' /\ LoneLossSolved /\ [Next]_vars => LoneLossSolved'
  <2> SUFFICES ASSUME TypeOK, TypeOK', LoneLossSolved, [Next]_vars
               PROVE  LoneLossSolved'
    OBVIOUS
  <2>1. ASSUME NEW m, NEW r, DecodeWindow(m, r)
        PROVE  LoneLossSolved'
    <3>1. m = before' /\ r = received' /\ solved' = DecodeTwice(m, r)
      BY <2>1 DEF DecodeWindow
    <3>2. m \in Counts /\ r \in Counts
      BY <3>1, WindowIsPositive DEF TypeOK, Counts
    <3>3. ASSUME NEW d \in Window, MissingIn(m) = {d},
                 m[d] <= SumFunctionOnSet(r, {p \in Delay + 1 .. NumFrames : Covers(p, d)})
          PROVE  d \in DecodeTwice(m, r)
      <4>1. Lone(m, d)
        <5>1. \A q \in Window : m[q] \in Nat
          BY <3>2 DEF Counts
        <5>2. \A q \in Window : m[q] > 0 <=> q = d
          BY <3>3 DEF MissingIn
        <5> QED
          BY <3>2, <5>1, <5>2 DEF Lone
      <4> QED
        BY <3>2, <3>3, <4>1, LoneLossDecodes
    <3> QED
      BY <3>1, <3>3 DEF LoneLossSolved, SumOver
  <2>2. CASE Next
    BY <2>1, <2>2 DEF Next, NextFrame, DataArrives, ParityArrives
  <2>3. CASE UNCHANGED vars
    BY <2>3 DEF vars, LoneLossSolved
  <2> QED
    BY <2>2, <2>3
<1> QED
  BY <1>1, <1>2, TypeCorrect, PTL DEF Spec

=============================================================================
