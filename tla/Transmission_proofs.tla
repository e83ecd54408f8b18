------------------------- MODULE Transmission_proofs -------------------------
(***************************************************************************)
(* A configuration that build accepts and the constructors open never      *)
(* makes encode_payload return an error, for every setter value the types  *)
(* allow and every payload size, and makes it panic only with a floor that *)
(* does not fit u16 next to the stripes of a window; the two ends of its   *)
(* session hold the same bytes in the same places; what is handed over is  *)
(* what was sent; and it is called direct exactly when no data datagram of *)
(* it was lost.                                                            *)
(*                                                                         *)
(* The first argument: a u16 product that wrapped is no multiple of the    *)
(* window length, so that Open refuses it one way or the other; the data   *)
(* stripes of a payload grow with its size, and the parity stripes of a    *)
(* level with the data stripes, so that build's two questions about the    *)
(* largest frame answer for every frame.  With a floor, plan_frame cuts    *)
(* what it planned to the rows of the code, and the sums of its window     *)
(* count rows and columns of a code that fits its field (PlannerHolds).    *)
(*                                                                         *)
(* The second, for the bytes (SessionHolds): the sender's grids hold the   *)
(* frames of a window, each in the slot that no other frame of the window  *)
(* has; a datagram in the channel holds positions of those grids, which    *)
(* the receiver computes from its numbers as the sender did; and the       *)
(* receiver agrees with the sender for the frames both have, so that once  *)
(* it has entered the frame of a datagram it agrees everywhere, whatever   *)
(* was lost, and what it solves is what was sent.                          *)
(*                                                                         *)
(* The third, for direct (SessionCounts): the data packets of a frame are  *)
(* of one size and just enough for it, so that the bytes received reach    *)
(* the frame's size with the last packet and not before; and while data    *)
(* packets of it are on their way, the frame is not handed over, because   *)
(* no parity of it has come and the recovery decision never solves the     *)
(* newest frame without.                                                   *)
(***************************************************************************)
EXTENDS Transmission, CommonLemmas, SequenceTheorems

-----------------------------------------------------------------------------
(* Arithmetic.                                                             *)

(* An odd number below 18 shares no factor with 65536: a multiple of both  *)
(* is no smaller than their product.                                       *)
LEMMA OddFactors ==
  ASSUME NEW d \in Int, NEW q \in Nat, NEW tau \in 0 .. 8,
         q < 2 * tau + 1, (2 * tau + 1) * d = U16 * q
  PROVE  q = 0
BY DEF U16

(* Quotient and remainder.                                                 *)
LEMMA Division ==
  ASSUME NEW n \in Nat, NEW b \in Nat, b > 0
  PROVE  /\ n \div b \in Nat /\ n % b \in 0 .. b - 1
         /\ n = b * (n \div b) + (n % b)
<1>1. n \div b \in Nat
  BY Z3
<1>2. n % b \in 0 .. b - 1
  BY Z3
<1>3. n = b * (n \div b) + (n % b)
  BY Z3
<1> QED BY <1>1, <1>2, <1>3

(* A u16 factor bounds the product.                                        *)
LEMMA Bounded ==
  ASSUME NEW m \in Nat, NEW W \in Nat, m <= U16 - 1
  PROVE  m * W \in Nat /\ m * W <= (U16 - 1) * W
<1>0. U16 \in Nat
  BY DEF U16
<1>1. m * W \in Nat
  BY Z3
<1>2. m * W <= (U16 - 1) * W
  BY Z3 DEF U16
<1> QED BY <1>1, <1>2

(* Multiplication distributes over a difference.                           *)
LEMMA Distributes ==
  ASSUME NEW m \in Int, NEW k \in Int, NEW W \in Int
  PROVE  W * (m - k) = m * W - W * k
BY Z3

(* The linear step of WrappedIsNoMultiple: what is left of the product is  *)
(* a multiple of 65536.                                                    *)
LEMMA Multiples ==
  ASSUME NEW n \in Nat, NEW q \in Nat, NEW r \in Nat, NEW y \in Int, NEW z \in Int,
         n = U16 * q + r, r = y, z = n - y
  PROVE  z = U16 * q
BY DEF U16

(* A product of a u16 and W wraps fewer than W times.                      *)
LEMMA Few ==
  ASSUME NEW n \in Nat, NEW q \in Nat, NEW r \in Nat, NEW W \in Nat,
         n = U16 * q + r, n <= (U16 - 1) * W, W > 0
  PROVE  q < W
BY DEF U16

(* The u16 product of a stripe count and the window length is a multiple   *)
(* of the window length only when it did not wrap.                         *)
LEMMA WrappedIsNoMultiple ==
  ASSUME NEW m \in 0 .. U16 - 1, NEW tau \in 0 .. 8
  PROVE  ((m * (2 * tau + 1)) % U16) % (2 * tau + 1) = 0 => m * (2 * tau + 1) < U16
<1> DEFINE W == 2 * tau + 1
           n == m * W
           r == n % U16
           q == n \div U16
           k == r \div W
<1>1. SUFFICES ASSUME r % W = 0 PROVE n < U16
  BY Zenon
<1>2. W \in Nat /\ W > 0
  OBVIOUS
<1> HIDE DEF W
<1>0. U16 \in Nat /\ U16 > 0
  BY DEF U16
<1>3. n \in Nat /\ n <= (U16 - 1) * W
  <2>1. m \in Nat /\ m <= U16 - 1
    BY DEF U16
  <2> QED BY <1>2, <2>1, Bounded, Zenon
<1> HIDE DEF n
<1>4. q \in Nat /\ r \in 0 .. U16 - 1 /\ n = U16 * q + r
  BY <1>3, <1>0, Division
<1> HIDE DEF q, r
<1>a. r \in Nat
  BY <1>4, <1>0
<1>5. k \in Nat /\ r = W * k + (r % W)
  BY <1>2, <1>a, Division, Zenon
<1> HIDE DEF k
<1>6. q < W
  BY <1>2, <1>3, <1>4, <1>a, Few, Zenon
<1> DEFINE d == m - k
           y == W * k
           z == W * d
<1>7. d \in Int /\ m \in Int
  BY <1>5
<1>8. z = n - y
  <2>1. W \in Int /\ k \in Int
    BY <1>2, <1>5
  <2> QED BY <2>1, <1>7, Distributes, Zenon DEF n
<1>9. y \in Int /\ z \in Int
  <2> HIDE DEF d
  <2> QED BY <1>2, <1>5, <1>7
<1>10. r = y
  <2>1. r = y + 0
    BY <1>1, <1>5, Zenon
  <2> HIDE DEF y
  <2> QED BY <2>1, <1>9
<1>11. z = U16 * q
  BY <1>3, <1>4, <1>a, <1>8, <1>9, <1>10, Multiples, Zenon
<1> HIDE DEF d
<1>12. q = 0
  <2>1. q < 2 * tau + 1 /\ (2 * tau + 1) * d = U16 * q
    BY <1>6, <1>11, Zenon DEF W
  <2> QED BY <1>4, <1>7, <2>1, OddFactors, Zenon
<1> QED
  <2> HIDE DEF y, z
  <2> QED BY <1>4, <1>12 DEF U16

(* The multiples of a number grow with the factor.                         *)
LEMMA MultiplesGrow ==
  ASSUME NEW p \in Nat, NEW q \in Nat, NEW b \in Nat, q <= p
  PROVE  b * q \in Nat /\ b * p \in Nat /\ b * q <= b * p
<1>1. b * q \in Nat /\ b * p \in Nat
  BY Z3
<1>2. b * q <= b * p
  BY Z3
<1> QED BY <1>1, <1>2

(* The multiple after b * q.                                               *)
LEMMA NextMultiple ==
  ASSUME NEW q \in Nat, NEW b \in Nat
  PROVE  b * (q + 1) = b * q + b
BY Z3

(* More needs at least as many stripes.                                    *)
LEMMA CeilDivMonotone ==
  ASSUME NEW a \in Nat, NEW c \in Nat, NEW b \in Nat, b > 0, a <= c
  PROVE  CeilDiv(a, b) \in Nat /\ CeilDiv(c, b) \in Nat /\ CeilDiv(a, b) <= CeilDiv(c, b)
<1> DEFINE x == a + b - 1
           y == c + b - 1
           p == x \div b
           q == y \div b
           s == x % b
           t == y % b
<1>1. x \in Nat /\ y \in Nat /\ x <= y
  OBVIOUS
<1>2. /\ p \in Nat /\ s \in 0 .. b - 1 /\ x = b * p + s
      /\ q \in Nat /\ t \in 0 .. b - 1 /\ y = b * q + t
  <2> HIDE DEF x, y
  <2> QED BY <1>1, Division, Zenon
<1> HIDE DEF p, q, s, t, x, y
<1>3. ASSUME q + 1 <= p PROVE FALSE
  <2> DEFINE u == b * p
             v == b * (q + 1)
             z == b * q
  <2>1. q + 1 \in Nat
    BY <1>2
  <2>2. u \in Nat /\ v \in Nat /\ v <= u /\ v = z + b
    BY <2>1, <1>2, <1>3, MultiplesGrow, NextMultiple, Zenon
  <2>3. z \in Nat /\ y = z + t /\ x = u + s
    <3>1. q <= q
      BY <1>2
    <3> QED BY <3>1, <1>2, MultiplesGrow, Zenon
  <2> HIDE DEF u, v, z
  <2> QED BY <2>2, <2>3, <1>1, <1>2
<1>4. p <= q
  BY <1>2, <1>3
<1> QED BY <1>2, <1>4, Zenon DEF CeilDiv, p, q, x, y

-----------------------------------------------------------------------------
(* The invariant.  A configuration keeps to what its setters take, and     *)
(* what Build accepted it would accept again; an opened one has codes that *)
(* fit, and no encode_payload failed so far.                               *)
IsConfig(c) ==
  /\ c = [f \in DOMAIN Fields |-> c[f]]
  /\ \A f \in DOMAIN Fields : c[f] \in Fields[f]

(* The products of the constructors did not wrap, and the field has an     *)
(* element for every row and column.                                       *)
CodesFit(c) ==
  /\ Cols(c) < U16 /\ Rows(c) < U16
  /\ Rows(c) + Cols(c) <= max_field_elements(c.w)

required_stripes(c) == CeilDiv(c.max_frame_size, stripe_size(c))

(* Parity counts of plan_frame, after the cut to the rows of the code: no  *)
(* more than a whole window asks for with the floor, and without a floor   *)
(* no more than the largest frame asks for.                                *)
PossibleParity(c) ==
  {p \in Nat : /\ p <= c.max_fec_stripes
               /\ p <= num_parity_stripes_high(Cols(c)) + c.min_window_parity
               /\ c.min_window_parity = 0 => p <= num_parity_stripes_high(required_stripes(c))}

PlannedFrame(c) == [data : 0 .. c.max_data_stripes, parity : 0 .. c.max_fec_stripes]

PlannerHolds(c, pl) ==
  /\ pl \in [checks : BOOLEAN, window : Seq(PlannedFrame(c)), delayed : Seq(PossibleParity(c))]
  /\ Len(pl.window) <= window_frames(c)

(* What Build and Open leave behind.                                       *)
Sound ==
  /\ IsConfig(config)
  /\ feedback \in Feedback
  /\ status \in {"built", "open"} => Refusal(config) = "None"
  /\ status = "open" => CodesFit(config) /\ PlannerHolds(config, planner)
  /\ result # "failed"
  /\ result = "panic" => status = "open" /\ planner.checks /\ Floor > 0 /\ FloorTooLarge

-----------------------------------------------------------------------------
(* The fields of a configuration, one by one.                              *)
LEMMA FieldNames ==
  DOMAIN Fields = {"tau", "w", "packet_size", "max_data_stripes", "max_fec_stripes",
                   "max_frame_size", "max_pkt_size", "parity_delay",
                   "min_window_parity", "target_burst"}
BY DEF Fields

(* The values of the fields.                                               *)
LEMMA FieldValues ==
  /\ Fields["tau"] = 0 .. TAU_MAX /\ Fields["w"] = {8, 32}
  /\ Fields["packet_size"] = 1 .. U16 - 1
  /\ Fields["max_data_stripes"] = 1 .. U16 - 1
  /\ Fields["max_fec_stripes"] = 0 .. U16 - 1
  /\ Fields["max_frame_size"] = Nat
  /\ Fields["max_pkt_size"] = 1 .. U16 - 1
  /\ Fields["parity_delay"] = 0 .. U16 - 1
  /\ Fields["min_window_parity"] = 0 .. U16 - 1
  /\ Fields["target_burst"] = {NoBurst} \cup 0 .. U16 - 1
BY DEF Fields

(* The fields the proofs use.                                              *)
LEMMA ConfigFields ==
  ASSUME NEW c, IsConfig(c)
  PROVE  /\ c.tau \in 0 .. 8 /\ c.tau \in Nat /\ c.w \in {8, 32}
         /\ c.packet_size \in Nat /\ c.packet_size > 0
         /\ c.max_data_stripes \in 0 .. U16 - 1 /\ c.max_data_stripes \in Nat
         /\ c.max_fec_stripes \in 0 .. U16 - 1 /\ c.max_fec_stripes \in Nat
         /\ c.max_frame_size \in Nat
         /\ c.target_burst # NoBurst => c.target_burst \in Nat
<1>1. /\ c["tau"] \in Fields["tau"] /\ c["w"] \in Fields["w"]
      /\ c["packet_size"] \in Fields["packet_size"]
      /\ c["max_data_stripes"] \in Fields["max_data_stripes"]
      /\ c["max_fec_stripes"] \in Fields["max_fec_stripes"]
      /\ c["max_frame_size"] \in Fields["max_frame_size"]
      /\ c["target_burst"] \in Fields["target_burst"]
  BY FieldNames, Zenon DEF IsConfig
<1>2. /\ c.tau \in 0 .. TAU_MAX /\ c.w \in {8, 32} /\ c.packet_size \in 1 .. U16 - 1
      /\ c.max_data_stripes \in 1 .. U16 - 1 /\ c.max_fec_stripes \in 0 .. U16 - 1
      /\ c.max_frame_size \in Nat /\ c.target_burst \in {NoBurst} \cup 0 .. U16 - 1
  BY <1>1, FieldValues, Zenon
<1>3. c.tau \in 0 .. 8 /\ c.tau \in Nat
  BY <1>2 DEF TAU_MAX
<1>4. /\ \A n \in 0 .. U16 - 1 : n \in Nat
      /\ \A n \in 1 .. U16 - 1 : n \in 0 .. U16 - 1 /\ n > 0
  <2>1. U16 \in Int
    BY DEF U16
  <2> QED BY <2>1
<1> QED BY <1>2, <1>3, <1>4, Zenon

(* The builder starts from a configuration.                                *)
LEMMA DefaultsAreConfig == IsConfig(Defaults)
<1>1. \A f \in DOMAIN Fields : Defaults[f] \in Fields[f]
  <2> SUFFICES ASSUME NEW f \in DOMAIN Fields PROVE Defaults[f] \in Fields[f]
    OBVIOUS
  <2>1. /\ Defaults.tau \in 0 .. TAU_MAX /\ Defaults.w \in {8, 32}
        /\ Defaults.packet_size \in 1 .. U16 - 1
        /\ Defaults.max_data_stripes \in 1 .. U16 - 1
        /\ Defaults.max_fec_stripes \in 0 .. U16 - 1
        /\ Defaults.max_frame_size \in Nat
    BY DEF Defaults, TAU_MAX, U16
  <2>2. /\ Defaults.max_pkt_size \in 1 .. U16 - 1
        /\ Defaults.parity_delay \in 0 .. U16 - 1
        /\ Defaults.min_window_parity \in 0 .. U16 - 1
        /\ Defaults.target_burst \in {NoBurst} \cup 0 .. U16 - 1
    BY DEF Defaults, U16
  <2> QED BY <2>1, <2>2, FieldNames, FieldValues, Zenon
<1>2. Defaults = [f \in DOMAIN Fields |-> Defaults[f]]
  <2>1. DOMAIN Defaults = DOMAIN Fields
    BY FieldNames DEF Defaults
  <2>2. Defaults = [f \in DOMAIN Defaults |-> Defaults[f]]
    BY DEF Defaults
  <2> QED BY <2>1, <2>2
<1> QED BY <1>1, <1>2 DEF IsConfig

(* A setter stores a value of its type.                                    *)
LEMMA SetKeepsConfig ==
  ASSUME NEW c, IsConfig(c), NEW field \in DOMAIN Fields, NEW value \in Fields[field]
  PROVE  IsConfig([c EXCEPT ![field] = value])
<1> DEFINE d == [c EXCEPT ![field] = value]
<1>1. DOMAIN c = DOMAIN Fields /\ \A f \in DOMAIN Fields : c[f] \in Fields[f]
  BY DEF IsConfig
<1>2. c = [f \in DOMAIN c |-> c[f]]
  BY <1>1, Zenon DEF IsConfig
<1>3. /\ DOMAIN d = DOMAIN Fields
      /\ d = [f \in DOMAIN Fields |-> d[f]]
      /\ \A f \in DOMAIN Fields : d[f] \in Fields[f]
  BY <1>1, <1>2
<1> QED BY <1>3 DEF IsConfig

(* What Build makes of the target burst is a u16 again, and none of its    *)
(* questions is about it.                                                  *)
LEMMA BuiltIsConfig ==
  ASSUME NEW c, IsConfig(c)
  PROVE  IsConfig(Built(c)) /\ Refusal(Built(c)) = Refusal(c)
<1>1. CASE c.target_burst = NoBurst
  BY <1>1 DEF Built
<1>2. CASE c.target_burst # NoBurst
  <2> DEFINE floor == k_min(c.target_burst, window_frames(c)) % U16
             d == [c EXCEPT !["min_window_parity"] = floor]
  <2>1. Built(c) = d
    BY <1>2 DEF Built
  <2>2. floor \in 0 .. U16 - 1
    <3>1. c.target_burst \in Nat /\ c.tau \in Nat
      BY <1>2, ConfigFields, Zenon
    <3> DEFINE W == window_frames(c)
               n == c.target_burst * W
               b == (W + 1) \div 2
    <3>2. W \in Nat /\ b \in Nat /\ b > 0
      BY <3>1 DEF window_frames
    <3> HIDE DEF W
    <3>3. n \in Nat
      BY <3>1, <3>2, Z3
    <3> HIDE DEF n, b
    <3> DEFINE m == n + b - 1
    <3>4. m \in Nat
      BY <3>2, <3>3
    <3> HIDE DEF m
    <3>5. m \div b \in Nat
      BY <3>2, <3>4, Division, Zenon
    <3> DEFINE k == m \div b
    <3>6. k \in Nat /\ floor = k % U16
      BY <3>5, Zenon DEF k_min, CeilDiv, m, n, b, W
    <3> HIDE DEF k, floor
    <3> QED BY <3>6 DEF U16
  <2> HIDE DEF floor
  <2>3. IsConfig(d)
    BY <2>2, FieldNames, FieldValues, SetKeepsConfig
  <2>4. Refusal(d) = Refusal(c)
    <3>1. DOMAIN c = DOMAIN Fields
      BY DEF IsConfig
    <3>2. /\ d.w = c.w /\ d.packet_size = c.packet_size /\ d.max_pkt_size = c.max_pkt_size
          /\ d.max_frame_size = c.max_frame_size
          /\ d.max_data_stripes = c.max_data_stripes
          /\ d.max_fec_stripes = c.max_fec_stripes
      BY <3>1, FieldNames
    <3> HIDE DEF d
    <3> QED BY <3>2, Zenon DEF Refusal, stripe_size
  <2> QED BY <2>1, <2>3, <2>4
<1> QED BY <1>1, <1>2

(* Open refuses every configuration whose products wrapped.                *)
LEMMA OpenedFits ==
  ASSUME NEW c, IsConfig(c), NEW checks \in BOOLEAN, Opened(c, checks) = "open"
  PROVE  CodesFit(c)
<1>1. /\ c.tau \in 0 .. 8 /\ c.max_data_stripes \in 0 .. U16 - 1
      /\ c.max_fec_stripes \in 0 .. U16 - 1
  BY ConfigFields, Zenon
<1>2. /\ n_cols(c) % window_frames(c) = 0 /\ n_rows(c) % window_frames(c) = 0
      /\ ~(n_cols(c) + n_rows(c) > max_field_elements(c.w))
  BY DEF Opened
<1>3. /\ Cols(c) = c.max_data_stripes * (2 * c.tau + 1)
      /\ Rows(c) = c.max_fec_stripes * (2 * c.tau + 1)
  BY DEF Cols, Rows, window_frames
<1>4. Cols(c) < U16 /\ Rows(c) < U16
  BY <1>1, <1>2, <1>3, WrappedIsNoMultiple, Zenon DEF n_cols, n_rows, window_frames, Cols, Rows
<1>5. Cols(c) \in Nat /\ Rows(c) \in Nat
  <2> DEFINE W == 2 * c.tau + 1
  <2>0. c.tau \in Nat /\ c.max_data_stripes \in Nat /\ c.max_fec_stripes \in Nat
    BY ConfigFields, Zenon
  <2>1. W \in Nat
    BY <2>0
  <2> HIDE DEF W
  <2>2. c.max_data_stripes * W \in Nat /\ c.max_fec_stripes * W \in Nat
    BY <2>0, <2>1, Z3
  <2> QED BY <1>3, <2>2, Zenon DEF W
<1>6. n_cols(c) = Cols(c) /\ n_rows(c) = Rows(c)
  BY <1>4, <1>5 DEF n_cols, n_rows, U16
<1>7. max_field_elements(c.w) \in Nat
  BY DEF max_field_elements, U16
<1> QED BY <1>2, <1>4, <1>5, <1>6, <1>7 DEF CodesFit

(* Build's questions about the largest frame answer for every frame and    *)
(* every level of feedback.                                                *)
LEMMA EveryFrameFits ==
  ASSUME NEW c, IsConfig(c), Refusal(c) = "None", NEW size \in Nat, size <= c.max_frame_size,
         NEW level \in Feedback
  PROVE  /\ CeilDiv(size, stripe_size(c)) <= c.max_data_stripes
         /\ ParityStripes(level, CeilDiv(size, stripe_size(c))) <= c.max_fec_stripes
<1> DEFINE S == stripe_size(c)
           data == CeilDiv(size, S)
           required == CeilDiv(c.max_frame_size, S)
<1>1. /\ c.max_frame_size \in Nat /\ c.max_data_stripes \in Nat /\ c.max_fec_stripes \in Nat
      /\ c.w \in {8, 32} /\ c.packet_size \in Nat /\ c.packet_size > 0
  BY ConfigFields, Zenon
<1>2. S \in Nat /\ S > 0
  BY <1>1 DEF stripe_size
<1>3. /\ ~(required > c.max_data_stripes)
      /\ ~(num_parity_stripes_high(required) > c.max_fec_stripes)
  BY Zenon DEF Refusal
<1> HIDE DEF S
<1>4. data \in Nat /\ required \in Nat /\ data <= required
  BY <1>1, <1>2, CeilDivMonotone, Zenon
<1> HIDE DEF data, required
<1>5. CeilDiv(data, 2) <= c.max_fec_stripes
  BY <1>1, <1>3, <1>4 DEF CeilDiv, num_parity_stripes_high
<1>6. ParityStripes(level, data) <= CeilDiv(data, 2)
  <2>1. CASE level = "None"
    BY <2>1, <1>4 DEF ParityStripes, CeilDiv
  <2>2. CASE level = "High"
    BY <2>2, <1>4 DEF ParityStripes, CeilDiv
  <2>3. CASE level = "Low"
    BY <2>3, <1>4 DEF ParityStripes, CeilDiv
  <2> QED BY <2>1, <2>2, <2>3 DEF Feedback
<1>7. ParityStripes(level, data) \in Int
  BY <1>4 DEF ParityStripes, CeilDiv, Feedback
<1> QED BY <1>1, <1>3, <1>4, <1>5, <1>6, <1>7 DEF data, S, CeilDiv

-----------------------------------------------------------------------------
(* The planner keeps to what is possible.                                  *)

(* The fields the planner uses.                                            *)
LEMMA PlannerFields ==
  ASSUME NEW c, IsConfig(c)
  PROVE  c.parity_delay \in Nat /\ c.min_window_parity \in Nat
         /\ c.max_pkt_size \in Nat /\ window_frames(c) \in Nat \ {0}
<1>1. /\ c["parity_delay"] \in Fields["parity_delay"]
      /\ c["min_window_parity"] \in Fields["min_window_parity"]
      /\ c["max_pkt_size"] \in Fields["max_pkt_size"]
  BY FieldNames, Zenon DEF IsConfig
<1>2. c.parity_delay \in 0 .. U16 - 1 /\ c.min_window_parity \in 0 .. U16 - 1
      /\ c.max_pkt_size \in 1 .. U16 - 1
  BY <1>1, FieldValues, Zenon
<1>3. c.tau \in Nat
  BY ConfigFields, Zenon
<1>4. window_frames(c) \in Nat \ {0}
  BY <1>3 DEF window_frames
<1> QED
  BY <1>2, <1>4

(* A packet holds a stripe.                                                *)
LEMMA PacketHasRoom ==
  ASSUME NEW c, IsConfig(c), Refusal(c) = "None"
  PROVE  /\ stripe_size(c) \in Nat \ {0}
         /\ c.max_pkt_size \div stripe_size(c) \in Nat \ {0}
<1>1. c.w \in {8, 32} /\ c.packet_size \in Nat /\ c.packet_size > 0
  BY ConfigFields, Zenon
<1>2. stripe_size(c) \in Nat \ {0}
  BY <1>1 DEF stripe_size
<1>3. c.max_pkt_size \in Nat
  BY PlannerFields
<1>4. ~ (stripe_size(c) > c.max_pkt_size)
  BY Zenon DEF Refusal
<1> DEFINE s == stripe_size(c)
           most == c.max_pkt_size \div s
           rem == c.max_pkt_size % s
<1>5. most \in Nat /\ rem \in 0 .. s - 1 /\ c.max_pkt_size = s * most + rem
  <2> DEFINE x == c.max_pkt_size
  <2>1. x \in Nat /\ s \in Nat /\ s > 0
    BY <1>2, <1>3
  <2> HIDE DEF s, x
  <2> QED
    BY <2>1, Division DEF x
<1>6. most # 0
  <2> HIDE DEF most, rem
  <2> SUFFICES ASSUME most = 0 PROVE FALSE
    OBVIOUS
  <2>1. s * 0 = 0
    BY <1>2, Z3
  <2> DEFINE x == c.max_pkt_size
  <2>2. x = s * 0 + rem /\ rem \in 0 .. s - 1 /\ s \in Nat
    BY <1>2, <1>5
  <2> HIDE DEF s, x
  <2>3. x = 0 + rem
    BY <2>1, <2>2
  <2>4. x = rem /\ rem < s /\ rem \in Int
    BY <2>2, <2>3
  <2> QED
    BY <1>4, <2>2, <2>4 DEF x, s
<1> HIDE DEF most, rem, s
<1> QED
  BY <1>2, <1>5, <1>6 DEF most, s

(* The share of a level grows with the stripes, at most to that of High.   *)
LEMMA ShareMonotone ==
  ASSUME NEW level \in Feedback, NEW n \in Nat, NEW m \in Nat, n <= m
  PROVE  /\ ParityStripes(level, n) \in Nat
         /\ ParityStripes(level, n) <= num_parity_stripes_high(m)
         /\ num_parity_stripes_high(n) \in Nat /\ num_parity_stripes_high(m) \in Nat
         /\ num_parity_stripes_high(n) <= num_parity_stripes_high(m)
<1>1. /\ (n + 4 - 1) \div 4 \in Nat /\ (n + 2 - 1) \div 2 \in Nat
      /\ (n + 4 - 1) \div 4 <= (m + 2 - 1) \div 2 /\ (n + 2 - 1) \div 2 <= (m + 2 - 1) \div 2
      /\ (m + 2 - 1) \div 2 \in Nat
  BY Z3
<1>2. CASE level = "None"
  BY <1>1, <1>2 DEF ParityStripes, num_parity_stripes_high, CeilDiv
<1>3. CASE level = "High"
  BY <1>1, <1>3 DEF ParityStripes, num_parity_stripes_high, CeilDiv
<1>4. CASE level = "Low"
  BY <1>1, <1>4 DEF ParityStripes, num_parity_stripes_high, CeilDiv
<1> QED
  BY <1>2, <1>3, <1>4 DEF Feedback

(* An even share is no more than the whole.                                *)
LEMMA ShareSmall ==
  ASSUME NEW floor \in Nat \ {0}, NEW W \in Nat \ {0}
  PROVE  per_frame_extra(floor, W) \in Nat /\ per_frame_extra(floor, W) <= floor
<1> DEFINE n == floor + W - 1
           q == n \div W
           r == n % W
<1>1. n \in Nat /\ W > 0
  OBVIOUS
<1>2. q \in Nat /\ r \in 0 .. W - 1 /\ n = W * q + r
  <2> HIDE DEF n
  <2> QED
    BY <1>1, Division
<1> HIDE DEF q, r
<1>3. ASSUME q > floor PROVE FALSE
  <2> DEFINE u == W * q
             v == W * (floor + 1)
             z == W * floor
  <2>1. floor + 1 \in Nat /\ floor + 1 <= q /\ 1 <= W
    BY <1>2, <1>3
  <2>2. u \in Nat /\ v \in Nat /\ v <= u /\ v = z + W
    BY <1>2, <2>1, MultiplesGrow, NextMultiple, Zenon
  <2>3. floor * 1 \in Nat /\ floor * W \in Nat /\ floor * 1 <= floor * W
    <3>1. 1 \in Nat
      OBVIOUS
    <3> QED
      BY <2>1, <3>1, MultiplesGrow
  <2>4. z \in Nat /\ floor <= z
    BY <2>3, Z3
  <2>5. n = u + r
    BY <1>2
  <2> HIDE DEF u, v, z
  <2> QED
    BY <1>1, <1>2, <2>2, <2>4, <2>5
<1> QED
  BY <1>2, <1>3 DEF per_frame_extra, CeilDiv, q, n

(* The window without its oldest frame has room for one.                   *)
LEMMA WindowHasRoom ==
  ASSUME NEW S, NEW window \in Seq(S), NEW W \in Nat \ {0}, Len(window) <= W
  PROVE  /\ WithoutOldest(window, W) \in Seq(S)
         /\ Len(WithoutOldest(window, W)) \in Nat /\ Len(WithoutOldest(window, W)) < W
<1>1. Len(window) \in Nat
  BY LenProperties
<1>2. CASE Len(window) = W
  <2>1. window # <<>>
    BY <1>2
  <2>2. Tail(window) \in Seq(S) /\ Len(Tail(window)) = Len(window) - 1
    BY <2>1, HeadTailProperties
  <2> QED
    BY <1>1, <1>2, <2>2 DEF WithoutOldest
<1>3. CASE Len(window) # W
  BY <1>1, <1>3 DEF WithoutOldest
<1> QED
  BY <1>2, <1>3

(* The data of a window with one more frame fits the columns of the code.  *)
LEMMA WindowFitsCode ==
  ASSUME NEW c, IsConfig(c), NEW window \in Seq(PlannedFrame(c)), Len(window) < window_frames(c),
         NEW data \in 0 .. c.max_data_stripes
  PROVE  /\ Totals(window).data \in Nat /\ Totals(window).parity \in Nat
         /\ Totals(window).data + data \in Nat /\ Totals(window).data + data <= Cols(c)
         /\ data \in Nat /\ Cols(c) \in Nat /\ c.max_data_stripes <= Cols(c)
<1> DEFINE n == Len(window)
           W == window_frames(c)
           D == c.max_data_stripes
           F == c.max_fec_stripes
           f == Column(window, "data")
           g == Column(window, "parity")
<1>1. n \in Nat /\ W \in Nat \ {0} /\ D \in Nat /\ F \in Nat /\ data \in Nat /\ data <= D
  BY LenProperties, PlannerFields, ConfigFields
<1>2. DOMAIN f = 1 .. n /\ DOMAIN g = 1 .. n
      /\ \A i \in 1 .. n : f[i] \in 0 .. D /\ g[i] \in 0 .. F
  <2>1. DOMAIN window = 1 .. n /\ \A i \in 1 .. n : window[i] \in PlannedFrame(c)
    BY LenProperties, ElementOfSeq
  <2>2. \A i \in 1 .. n : f[i] = window[i]["data"] /\ g[i] = window[i]["parity"]
    BY <2>1 DEF Column
  <2>3. \A i \in 1 .. n : window[i]["data"] \in 0 .. D /\ window[i]["parity"] \in 0 .. F
    BY <2>1 DEF PlannedFrame
  <2> QED
    BY <2>1, <2>2, <2>3 DEF Column
<1>3. /\ Totals(window).data = SumFunctionOnSet(f, 1 .. n)
      /\ Totals(window).parity = SumFunctionOnSet(g, 1 .. n)
  BY <1>2, Zenon DEF Totals, SumFunction
<1> HIDE DEF n, W, D, F, f, g
<1>4. /\ Totals(window).data \in Nat /\ Totals(window).data <= n * D
      /\ Totals(window).parity \in Nat
  BY <1>1, <1>2, <1>3, SumInBounds
<1> DEFINE u == D * n
           v == D * (n + 1)
           z == D * W
           t == Totals(window).data
<1>5. n + 1 \in Nat /\ n + 1 <= W /\ n <= n + 1 /\ W \in Nat
  BY <1>1 DEF n, W
<1>6. u \in Nat /\ v \in Nat /\ z \in Nat /\ v <= z /\ v = u + D
  BY <1>1, <1>5, MultiplesGrow, NextMultiple, Zenon
<1>7. n * D = u /\ Cols(c) = z
  BY <1>1, Z3 DEF Cols, W, D
<1>8. t \in Nat /\ t <= u
  BY <1>4, <1>7
<1> HIDE DEF u, v, z, t
<1>9. t + data \in Nat /\ t + data <= z /\ D <= z
  BY <1>1, <1>6, <1>8
<1> QED
  BY <1>1, <1>4, <1>6, <1>7, <1>9 DEF t, D

(* The plan of encode_payload never asks for more than the code has.       *)
LEMMA EncodeFits ==
  ASSUME Sound, status = "open", NEW size \in Nat, size <= config.max_frame_size,
         NEW parity \in 0 .. config.max_fec_stripes
  PROVE  Fits(specs_for_stripes(num_data_stripes(size), parity, MaxStripesPerPkt))
<1> DEFINE plan == specs_for_stripes(num_data_stripes(size), parity, MaxStripesPerPkt)
<1>1. plan.data = num_data_stripes(size) /\ plan.parity = parity
  BY DEF specs_for_stripes
<1>2. /\ num_data_stripes(size) <= config.max_data_stripes
      /\ ParityStripes(feedback, num_data_stripes(size)) <= config.max_fec_stripes
  BY EveryFrameFits, Zenon DEF Sound, num_data_stripes, StripeSize
<1>3. parity <= config.max_fec_stripes
  <2>1. config.max_fec_stripes \in Nat
    BY ConfigFields, Zenon DEF Sound
  <2> QED BY <2>1
<1> HIDE DEF plan
<1> QED BY <1>1, <1>2, <1>3, Zenon DEF Fits, plan

(* The codes that were opened fit their field, and a frame its slot.       *)
LEMMA CodesInField ==
  ASSUME NEW c, IsConfig(c), CodesFit(c)
  PROVE  /\ Cols(c) \in Nat /\ Rows(c) \in Nat /\ Cols(c) + Rows(c) <= U16
         /\ c.max_data_stripes <= Cols(c) /\ c.max_fec_stripes <= Rows(c)
<1> DEFINE D == c.max_data_stripes
           F == c.max_fec_stripes
           W == window_frames(c)
<1>1. D \in Nat /\ F \in Nat /\ W \in Nat \ {0}
  BY ConfigFields, PlannerFields
<1>2. Cols(c) = D * W /\ Rows(c) = F * W
  BY DEF Cols, Rows
<1> HIDE DEF D, F, W
<1>3. 1 \in Nat /\ W \in Nat /\ 1 <= W
  BY <1>1
<1>4. D * W \in Nat /\ D * 1 <= D * W /\ F * W \in Nat /\ F * 1 <= F * W
  BY <1>1, <1>3, MultiplesGrow, Zenon
<1>5. D * 1 = D /\ F * 1 = F
  BY <1>1, Z3
<1> DEFINE a == D * W
           b == F * W
           m == max_field_elements(c.w)
<1>6. m \in Nat /\ m <= U16
  BY DEF max_field_elements, U16
<1>7. Rows(c) + Cols(c) <= m
  BY Zenon DEF CodesFit
<1>8. a \in Nat /\ b \in Nat /\ b + a <= m /\ D <= a /\ F <= b
  BY <1>2, <1>4, <1>5, <1>7
<1> HIDE DEF a, b, m
<1>9. a + b <= U16
  BY <1>6, <1>8 DEF U16
<1> QED
  BY <1>2, <1>8, <1>9 DEF a, b, D, F

(* What build asked about the largest frame.                               *)
LEMMA RequiredFits ==
  ASSUME NEW c, IsConfig(c), Refusal(c) = "None"
  PROVE  /\ required_stripes(c) \in Nat /\ required_stripes(c) <= c.max_data_stripes
         /\ num_parity_stripes_high(required_stripes(c)) \in Nat
         /\ num_parity_stripes_high(required_stripes(c)) <= c.max_fec_stripes
<1> DEFINE required == required_stripes(c)
<1>1. /\ c.max_frame_size \in Nat /\ c.max_data_stripes \in Nat /\ c.max_fec_stripes \in Nat
      /\ stripe_size(c) \in Nat /\ stripe_size(c) > 0
  BY ConfigFields, PacketHasRoom
<1>2. required \in Nat
  <2>1. c.max_frame_size <= c.max_frame_size
    BY <1>1
  <2> QED
    BY <1>1, <2>1, CeilDivMonotone, Zenon DEF required_stripes
<1>3. num_parity_stripes_high(required) \in Nat
  <2> DEFINE level == "None"
  <2>1. required <= required /\ level \in Feedback
    BY <1>2 DEF Feedback
  <2> HIDE DEF required, level
  <2> QED
    BY <1>2, <2>1, ShareMonotone
<1>4. ~ (required > c.max_data_stripes) /\ ~ (num_parity_stripes_high(required) > c.max_fec_stripes)
  BY Zenon DEF Refusal, required_stripes
<1> HIDE DEF required
<1> QED
  BY <1>1, <1>2, <1>3, <1>4 DEF required

(* There are no more packets than stripes.                                 *)
LEMMA PacketsAtMostStripes ==
  ASSUME NEW data \in Nat, NEW parity \in Nat, NEW most \in Nat \ {0},
         PacketSumOverflows(data, parity, most)
  PROVE  data + parity >= U16
<1> DEFINE n == LargestCommon(data, parity, most)
<1>1. n \in 1 .. most
  <2>1. \E m \in 1 .. most :
          /\ data % m = 0 /\ parity % m = 0
          /\ \A l \in m + 1 .. most : ~ (data % l = 0 /\ parity % l = 0)
    BY CommonDivisor
  <2> QED
    BY <2>1 DEF LargestCommon
<1>2. data \div n + parity \div n >= U16
  BY DEF PacketSumOverflows
<1> HIDE DEF n
<1>3. n \in Nat /\ n > 0
  BY <1>1
<1>4. data \div n \in Nat /\ data \div n <= data /\ parity \div n \in Nat /\ parity \div n <= parity
  <2>1. ASSUME NEW x \in Nat PROVE x \div n \in Nat /\ x \div n <= x
    <3> DEFINE q == x \div n
               r == x % n
               z == n * q
    <3>1. q \in Nat /\ r \in 0 .. n - 1 /\ x = z + r
      BY <1>3, Division
    <3> HIDE DEF q, r
    <3>2. q * 1 <= q * n /\ q * n \in Nat
      <4>1. 1 \in Nat /\ 1 <= n
        BY <1>3
      <4> QED
        BY <1>3, <3>1, <4>1, MultiplesGrow, Zenon
    <3>3. q * 1 = q /\ q * n = z
      BY <1>3, <3>1, Z3
    <3>4. z \in Nat /\ q <= z
      BY <3>1, <3>2, <3>3
    <3> HIDE DEF z
    <3>5. q <= x
      BY <1>3, <3>1, <3>4
    <3> QED
      BY <3>1, <3>5 DEF q
  <2> QED
    BY <2>1
<1> QED
  BY <1>2, <1>4 DEF U16

(* The numbers of plan_frame: every count it adds is at most what a whole  *)
(* window asks for, with the floor.                                        *)
LEMMA PlanNumbers ==
  ASSUME Sound, status = "open", NEW data \in Nat, data <= required_stripes(config)
  PROVE  LET base == ParityStripes(feedback, data)
             target == Target(data, feedback, Kept, Floor)
             share == WithShare(data, feedback, Floor, NumFrames)
             high == num_parity_stripes_high(Cols(config))
         IN  /\ base \in Nat /\ high \in Nat /\ base <= high /\ base <= config.max_fec_stripes
             /\ base <= num_parity_stripes_high(required_stripes(config))
             /\ target \in Nat /\ target <= high + Floor
             /\ Floor > 0 => share \in Nat /\ share <= high + Floor
             /\ Kept.parity \in Nat
             /\ Floor \in Nat /\ data <= config.max_data_stripes /\ data <= Cols(config)
<1> DEFINE c == config
           required == required_stripes(c)
           kept == WithoutOldest(planner.window, NumFrames)
           base == ParityStripes(feedback, data)
           high == num_parity_stripes_high(Cols(c))
           total == Kept.data + data
<1>1. /\ IsConfig(c) /\ Refusal(c) = "None" /\ feedback \in Feedback /\ PlannerHolds(c, planner)
  BY DEF Sound
<1>2. /\ c.max_frame_size \in Nat /\ c.max_data_stripes \in Nat /\ c.max_fec_stripes \in Nat
      /\ Floor \in Nat /\ NumFrames \in Nat \ {0} /\ stripe_size(c) \in Nat \ {0}
  BY <1>1, ConfigFields, PlannerFields, PacketHasRoom, Zenon DEF Floor, NumFrames
<1>3. required \in Nat
  BY <1>1, RequiredFits
<1>4. /\ required <= c.max_data_stripes
      /\ num_parity_stripes_high(required) <= c.max_fec_stripes
  BY <1>1, RequiredFits
<1>5. kept \in Seq(PlannedFrame(c)) /\ Len(kept) < window_frames(c)
  <2>1. planner.window \in Seq(PlannedFrame(c)) /\ Len(planner.window) <= NumFrames
    BY <1>1 DEF PlannerHolds, NumFrames
  <2> QED
    BY <1>2, <2>1, WindowHasRoom DEF NumFrames
<1> HIDE DEF kept, required
<1>6. data \in 0 .. c.max_data_stripes
  <2>1. data <= required
    BY Zenon DEF required
  <2> QED
    BY <1>2, <1>3, <1>4, <2>1
<1>7. Kept = Totals(kept)
  BY DEF Kept, kept
<1>8. /\ Kept.data \in Nat /\ Kept.parity \in Nat /\ total \in Nat /\ total <= Cols(c)
      /\ Cols(c) \in Nat /\ c.max_data_stripes <= Cols(c)
  BY <1>1, <1>5, <1>6, <1>7, WindowFitsCode, Zenon
<1>9. data <= Cols(c)
  BY <1>2, <1>6, <1>8
<1>10. /\ base \in Nat /\ high \in Nat /\ base <= high
       /\ base <= num_parity_stripes_high(required)
       /\ ParityStripes(feedback, total) \in Nat /\ ParityStripes(feedback, total) <= high
       /\ num_parity_stripes_high(required) \in Nat
  <2>1. data <= required
    BY Zenon DEF required
  <2> HIDE DEF total
  <2> QED
    BY <1>1, <1>3, <1>8, <1>9, <2>1, ShareMonotone, Zenon
<1>11. base <= c.max_fec_stripes
  <2> HIDE DEF base, high
  <2> QED
    BY <1>2, <1>4, <1>10
<1> HIDE DEF base, high
<1>12. Target(data, feedback, Kept, Floor) \in Nat
       /\ Target(data, feedback, Kept, Floor) <= high + Floor
  <2> DEFINE p == ParityStripes(feedback, total)
  <2>1. p \in Nat /\ p <= high /\ Target(data, feedback, Kept, Floor) = p + Floor
    BY <1>10 DEF Target
  <2> HIDE DEF p
  <2> QED
    BY <1>2, <1>10, <2>1
<1>13. ASSUME Floor > 0
       PROVE  /\ WithShare(data, feedback, Floor, NumFrames) \in Nat
              /\ WithShare(data, feedback, Floor, NumFrames) <= high + Floor
  <2> DEFINE e == per_frame_extra(Floor, NumFrames)
  <2>1. Floor \in Nat \ {0}
    BY <1>2, <1>13
  <2>2. e \in Nat /\ e <= Floor
    BY <1>2, <2>1, ShareSmall
  <2>3. WithShare(data, feedback, Floor, NumFrames) = base + e
    BY DEF WithShare, base
  <2> HIDE DEF e
  <2> QED
    BY <1>2, <1>10, <2>2, <2>3
<1>14. data <= c.max_data_stripes
  BY <1>6, <1>2
<1> QED
  BY <1>2, <1>8, <1>9, <1>10, <1>11, <1>12, <1>13, <1>14, Zenon DEF base, high, required

(* The top-up of a floor, also when its sums wrap.                         *)
LEMMA TopUpBounded ==
  ASSUME NEW base \in Nat, NEW target \in Nat, NEW share \in Nat, NEW kept \in Nat,
         NEW most \in Nat, base <= most, target <= most, share <= most
  PROVE  LET p == AtLeast(base + SaturatingSub(target % U16, kept + base), share % U16)
         IN  p \in Nat /\ p <= most
<1> DEFINE t == target % U16
           s == share % U16
<1>1. t \in Nat /\ t <= target /\ s \in Nat /\ s <= share
  BY Z3 DEF U16
<1> HIDE DEF t, s
<1> DEFINE g == base + SaturatingSub(t, kept + base)
<1>2. g \in Nat /\ g <= most
  BY <1>1 DEF SaturatingSub
<1> HIDE DEF g
<1>3. AtLeast(g, s) \in Nat /\ AtLeast(g, s) <= most
  BY <1>1, <1>2 DEF AtLeast
<1> QED
  BY <1>3 DEF g, t, s

(* plan_frame keeps to the parity counts that are possible.                *)
LEMMA ProducedIsPossible ==
  ASSUME Sound, status = "open", NEW data \in Nat, data <= required_stripes(config)
  PROVE  Produced(data) \in PossibleParity(config)
<1> DEFINE base == ParityStripes(feedback, data)
           target == Target(data, feedback, Kept, Floor)
           share == WithShare(data, feedback, Floor, NumFrames)
           high == num_parity_stripes_high(Cols(config))
           most == high + Floor
           F == config.max_fec_stripes
           p == TopUp(data, feedback, Kept, Floor, NumFrames)
<1>1. /\ base \in Nat /\ high \in Nat /\ base <= high /\ base <= F
      /\ base <= num_parity_stripes_high(required_stripes(config))
      /\ target \in Nat /\ target <= most
      /\ Floor > 0 => share \in Nat /\ share <= most
      /\ Kept.parity \in Nat /\ Floor \in Nat
  BY PlanNumbers, Zenon
<1>2. F \in Nat /\ config.min_window_parity = Floor
  BY ConfigFields, Zenon DEF Sound, Floor
<1>3. CASE Floor = 0
  <2>1. Produced(data) = base
    BY <1>3 DEF Produced
  <2> HIDE DEF base, high, F
  <2>2. base <= high + 0
    BY <1>1
  <2>3. base <= high + Floor
    BY <1>3, <2>2
  <2> QED
    BY <1>1, <1>2, <2>1, <2>3 DEF PossibleParity, high, F
<1>4. CASE Floor # 0
  <2>1. Floor > 0
    BY <1>1, <1>4
  <2>2. p = AtLeast(base + SaturatingSub(target % U16, Kept.parity + base), share % U16)
    BY DEF TopUp
  <2> HIDE DEF base, target, share
  <2>3. most \in Nat /\ base <= most /\ target <= most
    <3> HIDE DEF high
    <3> QED
      BY <1>1
  <2>4. p \in Nat /\ p <= most
    <3> HIDE DEF most, p
    <3> QED
      BY <1>1, <2>1, <2>2, <2>3, TopUpBounded
  <2>5. Produced(data) = AtMost(p, F)
    BY <1>4 DEF Produced
  <2>6. AtMost(p, F) \in Nat /\ AtMost(p, F) <= F /\ AtMost(p, F) <= most
    <3> HIDE DEF p, F, most
    <3> QED
      BY <1>2, <2>3, <2>4 DEF AtMost
  <2> HIDE DEF p, F
  <2> QED
    BY <1>2, <1>4, <2>5, <2>6 DEF PossibleParity, high, F
<1> QED
  BY <1>3, <1>4

(* What it emits was possible when it was produced; the window and the     *)
(* queue go on holding.                                                    *)
LEMMA PlannerKeeps ==
  ASSUME Sound, status = "open", NEW data \in Nat, data <= required_stripes(config)
  PROVE  /\ Emitted(data) \in PossibleParity(config)
         /\ PlannerHolds(config, PlannerAfter(data))
<1> DEFINE P == PossibleParity(config)
           T == PlannedFrame(config)
           W == window_frames(config)
           kept == WithoutOldest(planner.window, W)
           frame == [data |-> data, parity |-> Produced(data)]
           queue == Append(planner.delayed, Produced(data))
           window == IF Floor = 0 THEN planner.window ELSE Append(kept, frame)
<1>1. /\ IsConfig(config) /\ planner.window \in Seq(T) /\ Len(planner.window) <= W
      /\ planner.delayed \in Seq(P) /\ W \in Nat \ {0} /\ NumFrames = W
  BY PlannerFields, Zenon DEF Sound, PlannerHolds, NumFrames
<1>2. Produced(data) \in P
  BY ProducedIsPossible
<1>3. queue \in Seq(P) /\ Len(queue) = Len(planner.delayed) + 1 /\ queue # <<>>
  <2>1. queue \in Seq(P) /\ Len(queue) = Len(planner.delayed) + 1
    BY <1>1, <1>2, AppendProperties
  <2>2. Len(planner.delayed) \in Nat
    BY <1>1, LenProperties
  <2>3. Len(queue) # 0
    BY <2>1, <2>2
  <2> HIDE DEF queue
  <2> QED
    BY <2>1, <2>3
<1>4. Head(queue) \in P /\ Tail(queue) \in Seq(P)
  <2> HIDE DEF queue
  <2> QED
    BY <1>3, HeadTailProperties
<1>5. frame \in T
  <2>1. data \in 0 .. config.max_data_stripes
    <3>1. data <= config.max_data_stripes
      BY PlanNumbers, Zenon
    <3>2. config.max_data_stripes \in Nat
      BY <1>1, ConfigFields
    <3> QED
      BY <3>1, <3>2
  <2>2. Produced(data) \in 0 .. config.max_fec_stripes
    <3>1. config.max_fec_stripes \in Nat
      BY <1>1, ConfigFields
    <3>2. Produced(data) \in Nat /\ Produced(data) <= config.max_fec_stripes
      BY <1>2 DEF PossibleParity
    <3> QED
      BY <3>1, <3>2
  <2> QED
    BY <2>1, <2>2 DEF PlannedFrame
<1>6. window \in Seq(T) /\ Len(window) <= W
  <2>1. kept \in Seq(T) /\ Len(kept) \in Nat /\ Len(kept) < W
    BY <1>1, WindowHasRoom
  <2> HIDE DEF kept, frame
  <2>2. Append(kept, frame) \in Seq(T) /\ Len(Append(kept, frame)) = Len(kept) + 1
    BY <1>5, <2>1, AppendProperties
  <2>3. Len(Append(kept, frame)) <= W
    BY <1>1, <2>1, <2>2
  <2> QED
    BY <1>1, <2>2, <2>3
<1>7. Emitted(data) = Head(queue)
  BY DEF Emitted
<1>8. PlannerAfter(data) = [planner EXCEPT !.window = window, !.delayed = Tail(queue)]
  BY <1>1 DEF PlannerAfter
<1>9. planner \in [checks : BOOLEAN, window : Seq(T), delayed : Seq(P)]
  BY DEF Sound, PlannerHolds
<1> HIDE DEF window, queue, P, T
<1>10. PlannerAfter(data) \in [checks : BOOLEAN, window : Seq(T), delayed : Seq(P)]
       /\ PlannerAfter(data).window = window
  BY <1>4, <1>6, <1>8, <1>9
<1> QED
  BY <1>4, <1>6, <1>7, <1>10 DEF PlannerHolds, P, T

(* A sum of the plan that does not fit u16 takes a floor, and a large one. *)
LEMMA OverflowNeedsFloor ==
  ASSUME Sound, status = "open", NEW data \in Nat, data <= required_stripes(config),
         PlanOverflows(data)
  PROVE  Floor > 0 /\ FloorTooLarge
<1> DEFINE c == config
           base == ParityStripes(feedback, data)
           target == Target(data, feedback, Kept, Floor)
           share == WithShare(data, feedback, Floor, NumFrames)
           high == num_parity_stripes_high(Cols(c))
           cols == Cols(c)
           p == Emitted(data)
           required == required_stripes(c)
           most == num_parity_stripes_high(required)
<1>1. /\ high \in Nat /\ target \in Nat /\ target <= high + Floor
      /\ Floor > 0 => share \in Nat /\ share <= high + Floor
      /\ Floor \in Nat /\ data <= cols
  BY PlanNumbers, Zenon
<1>2. IsConfig(c) /\ Refusal(c) = "None" /\ CodesFit(c)
  BY DEF Sound
<1>3. cols \in Nat /\ Rows(c) \in Nat /\ cols + Rows(c) <= U16
      /\ c.max_data_stripes <= cols /\ c.max_fec_stripes <= Rows(c)
  BY <1>2, CodesInField
<1>4. CASE Floor > 0 /\ TopUpOverflows(data, feedback, Kept, Floor, NumFrames)
  <2>1. target >= U16 \/ share >= U16
    BY <1>4, Zenon DEF TopUpOverflows
  <2> HIDE DEF target, share, high, cols
  <2>2. cols + high + Floor >= U16
    BY <1>1, <1>3, <1>4, <2>1 DEF U16
  <2> QED
    BY <1>4, <2>2 DEF FloorTooLarge, cols, high
<1>5. CASE PacketSumOverflows(data, p, MaxStripesPerPkt)
  <2>1. p \in Nat /\ p <= high + Floor /\ p <= c.max_fec_stripes /\ (Floor = 0 => p <= most)
    BY PlannerKeeps DEF PossibleParity, Floor
  <2>2. data + p >= U16
    <3>1. MaxStripesPerPkt \in Nat \ {0}
      BY <1>2, PacketHasRoom DEF MaxStripesPerPkt, StripeSize
    <3> HIDE DEF p
    <3> QED
      BY <1>5, <2>1, <3>1, PacketsAtMostStripes
  <2>3. Floor > 0
    <3> SUFFICES ASSUME Floor = 0 PROVE FALSE
      BY <1>1
    <3>1. required \in Nat /\ required <= c.max_data_stripes /\ most <= c.max_fec_stripes
          /\ data <= required
      BY <1>2, RequiredFits
    <3>2. c.max_data_stripes \in Nat /\ c.max_fec_stripes \in Nat
      BY <1>2, ConfigFields
    <3>3. p <= most
      BY <2>1
    <3>4. most = (required + 2 - 1) \div 2
      BY DEF num_parity_stripes_high, CeilDiv
    <3> DEFINE D == c.max_data_stripes
               F == c.max_fec_stripes
               R == Rows(c)
    <3>5. D \in Nat /\ F \in Nat /\ D <= cols /\ F <= R /\ R \in Nat /\ cols + R <= U16
      BY <1>3, <3>2
    <3>6. required <= D /\ most <= F
      BY <3>1
    <3> HIDE DEF p, most, required, cols, D, F, R
    <3>7. most \in Nat
      BY <3>1, <3>4, Z3
    <3>8. required + most >= U16 /\ required + most <= U16
      BY <1>3, <2>1, <2>2, <3>1, <3>3, <3>5, <3>6, <3>7 DEF U16
    <3>9. required + most = 65536
      BY <3>1, <3>7, <3>8 DEF U16
    <3> QED
      BY <3>1, <3>4, <3>9, Z3
  <2> HIDE DEF p, high, cols
  <2>4. cols + high + Floor >= U16
    BY <1>1, <1>3, <2>1, <2>2 DEF U16
  <2> QED
    BY <2>3, <2>4 DEF FloorTooLarge, cols, high
<1> QED
  BY <1>4, <1>5, Zenon DEF PlanOverflows

(* A frame that encode_payload takes is no larger than the largest.        *)
LEMMA FrameIsRequired ==
  ASSUME Sound, NEW size \in FrameSizes \ {0}, Encodes(size)
  PROVE  /\ status = "open" /\ result # "panic"
         /\ size \in Nat /\ size <= config.max_frame_size
         /\ num_data_stripes(size) \in Nat
         /\ num_data_stripes(size) <= required_stripes(config)
<1>1. status = "open" /\ result # "panic" /\ size \in 1 .. config.max_frame_size
  BY Zenon DEF Encodes, Ready
<1>2. /\ config.max_frame_size \in Nat
      /\ stripe_size(config) \in Nat /\ stripe_size(config) > 0
  BY <1>1, ConfigFields, PacketHasRoom DEF Sound
<1>3. size \in Nat /\ size <= config.max_frame_size
  BY <1>1, <1>2
<1>4. /\ num_data_stripes(size) \in Nat
      /\ num_data_stripes(size) <= required_stripes(config)
  BY <1>2, <1>3, CeilDivMonotone, Zenon DEF num_data_stripes, required_stripes, StripeSize
<1> QED
  BY <1>1, <1>3, <1>4

(* The two ways of encode_payload.                                         *)
Panics(size) ==
  /\ Encodes(size) /\ planner.checks /\ PlanOverflows(num_data_stripes(size))
  /\ result' = "panic"
  /\ UNCHANGED <<status, config, feedback, planner, tx, channel, rx, sent, lost, out>>

Proceeds(size) ==
  /\ Encodes(size) /\ planner' = PlannerAfter(num_data_stripes(size))
  /\ Encode(size, Emitted(num_data_stripes(size)))

LEMMA PanicsOrProceeds ==
  ASSUME NEW size, encode_payload(size)
  PROVE  Panics(size) \/ Proceeds(size)
BY Zenon DEF encode_payload, Panics, Proceeds

LEMMA ProceedsInBounds ==
  ASSUME Sound, NEW size \in FrameSizes \ {0}, Proceeds(size)
  PROVE  Emitted(num_data_stripes(size)) \in 0 .. config.max_fec_stripes
<1> DEFINE p == Emitted(num_data_stripes(size))
<1>1. p \in PossibleParity(config)
  BY FrameIsRequired, PlannerKeeps DEF Proceeds
<1>2. config.max_fec_stripes \in Nat
  BY ConfigFields DEF Sound
<1> HIDE DEF p
<1>3. p \in 0 .. config.max_fec_stripes
  BY <1>1, <1>2 DEF PossibleParity
<1> QED
  BY <1>3 DEF p

(* The constructors start with an empty window and a queue of zeros.       *)
LEMMA NewPlannerHolds ==
  ASSUME IsConfig(config), NEW checks \in BOOLEAN
  PROVE  PlannerHolds(config, NewPlanner(checks))
<1> DEFINE zeros == [i \in 1 .. config.parity_delay |-> 0]
           P == PossibleParity(config)
           T == PlannedFrame(config)
           empty == <<>>
<1>1. config.parity_delay \in Nat /\ config.min_window_parity \in Nat
      /\ config.max_fec_stripes \in Nat /\ window_frames(config) \in Nat
      /\ config.max_data_stripes \in Nat /\ config.max_frame_size \in Nat
      /\ config.w \in {8, 32} /\ config.packet_size \in Nat /\ config.packet_size > 0
  BY PlannerFields, ConfigFields, Zenon
<1>2. 0 \in P
  <2>1. ASSUME NEW n \in Nat PROVE num_parity_stripes_high(n) \in Nat
    <3>1. (n + 2 - 1) \div 2 \in Nat
      BY Z3
    <3> QED
      BY <3>1 DEF num_parity_stripes_high, CeilDiv
  <2>2. Cols(config) \in Nat
    <3> DEFINE a == config.max_data_stripes
               b == window_frames(config)
    <3>1. a \in Nat /\ b \in Nat
      BY <1>1
    <3> HIDE DEF a, b
    <3>2. a * b \in Nat
      BY <3>1, Z3
    <3> QED
      BY <3>2 DEF Cols, a, b
  <2>3. required_stripes(config) \in Nat
    <3>1. stripe_size(config) \in Nat /\ stripe_size(config) > 0
      BY <1>1 DEF stripe_size
    <3>2. config.max_frame_size <= config.max_frame_size
      BY <1>1
    <3> QED
      BY <1>1, <3>1, <3>2, CeilDivMonotone, Zenon DEF required_stripes
  <2> DEFINE u == num_parity_stripes_high(Cols(config))
             v == num_parity_stripes_high(required_stripes(config))
  <2>4. u \in Nat /\ v \in Nat
    BY <2>1, <2>2, <2>3
  <2> HIDE DEF u, v
  <2>5. 0 <= config.max_fec_stripes /\ 0 <= u + config.min_window_parity /\ 0 <= v
    BY <1>1, <2>4
  <2> QED
    BY <2>5 DEF PossibleParity, u, v
<1>3. zeros \in Seq(P)
  <2> HIDE DEF P
  <2> DEFINE n == config.parity_delay
  <2>1. zeros \in [1 .. n -> P] /\ n \in Nat
    BY <1>1, <1>2
  <2> HIDE DEF zeros, n
  <2> QED
    BY <2>1
<1>4. empty \in Seq(T) /\ Len(empty) = 0 /\ 0 <= window_frames(config)
  BY <1>1
<1> HIDE DEF zeros, P, T, empty
<1>5. NewPlanner(checks) = [checks |-> checks, window |-> empty, delayed |-> zeros]
  BY DEF NewPlanner, empty, zeros
<1>6. NewPlanner(checks) \in [checks : BOOLEAN, window : Seq(T), delayed : Seq(P)]
      /\ NewPlanner(checks).window = empty
  BY <1>3, <1>4, <1>5
<1> QED
  BY <1>4, <1>6 DEF PlannerHolds, T, P

(* The builder starts sound.                                               *)
LEMMA InitSound == Init => Sound
<1> SUFFICES ASSUME Init PROVE Sound
  OBVIOUS
<1>1. config = Defaults /\ status = "building" /\ feedback = "None" /\ result = "none"
  BY DEF Init
<1>2. IsConfig(config)
  BY <1>1, DefaultsAreConfig, Zenon
<1> QED BY <1>1, <1>2 DEF Sound, Feedback

(* Every step keeps the configuration, the codes and the results sound.    *)
LEMMA NextSound == Sound /\ [Next]_vars => Sound'
<1> SUFFICES ASSUME Sound, [Next]_vars PROVE Sound'
  OBVIOUS
<1>1. ASSUME NEW field \in DOMAIN Settings, NEW value \in Settings[field], Set(field, value)
      PROVE  Sound'
  <2>1. field \in DOMAIN Fields /\ value \in Fields[field]
    BY TransmissionAssumption
  <2>2. IsConfig(config')
    BY <1>1, <2>1, SetKeepsConfig, Zenon DEF Set, Sound
  <2>3. /\ status' = "building" /\ feedback' = feedback /\ result' = result
    BY <1>1 DEF Set, session_vars
  <2>4. result # "panic" /\ result # "failed" /\ feedback \in Feedback
    BY <1>1 DEF Set, Sound
  <2> QED BY <2>2, <2>3, <2>4 DEF Sound
<1>2. CASE Build
  <2>1. IsConfig(config')
    BY <1>2, BuiltIsConfig DEF Build, Sound
  <2>2. feedback' = feedback /\ result' = result
    BY <1>2 DEF Build, session_vars
  <2>4. result # "panic" /\ result # "failed" /\ feedback \in Feedback
    BY <1>2 DEF Build, Sound
  <2>3. /\ status' \in {"built", "refused"}
        /\ status' = "built" => Refusal(config)' = "None"
    <3>1. CASE Refusal(config) = "None"
      <4>1. status' = "built" /\ config' = Built(config)
        BY <1>2, <3>1 DEF Build
      <4>2. Refusal(Built(config)) = "None"
        BY <3>1, BuiltIsConfig DEF Sound
      <4> QED BY <4>1, <4>2, Zenon
    <3>2. CASE Refusal(config) # "None"
      <4>1. status' = "refused"
        BY <1>2, <3>2 DEF Build
      <4> QED BY <4>1
    <3> QED BY <3>1, <3>2
  <2> QED BY <2>1, <2>2, <2>3, <2>4 DEF Sound
<1>3. ASSUME NEW checks \in BOOLEAN, Open(checks) PROVE Sound'
  <2>1. /\ status = "built" /\ status' = Opened(config, checks)
        /\ planner' = NewPlanner(checks) /\ UNCHANGED <<config, feedback, result>>
    BY <1>3 DEF Open
  <2>2. status' = "open" => CodesFit(config)
    BY <2>1, OpenedFits, Zenon DEF Sound
  <2>3. status' = "open" => CodesFit(config)'
    BY <2>1, <2>2, Zenon DEF CodesFit, Cols, Rows
  <2>4. IsConfig(config)' /\ Refusal(config)' = "None"
    BY <2>1, Zenon DEF Sound
  <2>5. PlannerHolds(config, planner)'
    <3>1. PlannerHolds(config, NewPlanner(checks))
      BY NewPlannerHolds DEF Sound
    <3> QED BY <2>1, <3>1, Zenon
  <2>6. result' # "panic" /\ result' # "failed" /\ feedback' \in Feedback
    BY <2>1 DEF Sound
  <2> QED BY <2>1, <2>3, <2>4, <2>5, <2>6, Zenon DEF Sound
<1>4. ASSUME UNCHANGED <<status, config>>, feedback' \in Feedback, result' # "failed",
             status = "open" => PlannerHolds(config, planner'), result' # "panic"
      PROVE  Sound'
  BY <1>4, Zenon DEF Sound
<1>a. ASSUME UNCHANGED <<status, config, planner, result>>, feedback' \in Feedback PROVE Sound'
  BY <1>a, Zenon DEF Sound, Floor, FloorTooLarge
<1>5. ASSUME NEW level \in Feedback, apply_feedback(level) PROVE Sound'
  BY <1>a, <1>5 DEF apply_feedback
<1>6. ASSUME NEW size \in FrameSizes, Refuse(size) PROVE Sound'
  <2>1. UNCHANGED <<status, config, planner, feedback>> /\ result' = "PayloadTooLarge"
    BY <1>6 DEF Refuse
  <2>2. feedback' \in Feedback /\ (status = "open" => PlannerHolds(config, planner'))
    BY <2>1, Zenon DEF Sound
  <2> QED
    BY <1>4, <2>1, <2>2
<1>7. ASSUME NEW size \in FrameSizes \ {0}, encode_payload(size)
      PROVE  Sound'
  <2> DEFINE parity == Emitted(num_data_stripes(size))
             plan == specs_for_stripes(num_data_stripes(size), parity, MaxStripesPerPkt)
  <2>1. CASE Panics(size)
    <3>1. UNCHANGED <<status, config, feedback, planner>> /\ result' = "panic"
          /\ planner.checks /\ Encodes(size) /\ PlanOverflows(num_data_stripes(size))
      BY <2>1 DEF Panics
    <3>2. status = "open" /\ Floor > 0 /\ FloorTooLarge
      BY <3>1, FrameIsRequired, OverflowNeedsFloor
    <3>3. Floor' > 0 /\ FloorTooLarge'
      BY <3>1, <3>2, Zenon DEF Floor, FloorTooLarge
    <3>4. result' # "failed"
      BY <3>1
    <3> QED
      BY <3>1, <3>2, <3>3, <3>4, Zenon DEF Sound
  <2>2. CASE Proceeds(size)
    <3>1. /\ status = "open" /\ size \in Nat /\ size <= config.max_frame_size
          /\ num_data_stripes(size) \in Nat
          /\ num_data_stripes(size) <= required_stripes(config)
      BY <2>2, FrameIsRequired DEF Proceeds
    <3>2. Fits(plan)
      <4>1. parity \in 0 .. config.max_fec_stripes
        BY <2>2, ProceedsInBounds
      <4> HIDE DEF parity
      <4> QED
        BY <3>1, <4>1, EncodeFits
    <3>3. planner' = PlannerAfter(num_data_stripes(size)) /\ Encode(size, parity)
      BY <2>2 DEF Proceeds
    <3>4. PlannerHolds(config, planner')
      BY <3>1, <3>3, PlannerKeeps
    <3> HIDE DEF plan, parity
    <3>5. UNCHANGED <<status, config, feedback>> /\ result' = "ok"
      BY <3>2, <3>3, Zenon DEF Encode, plan
    <3>6. result' # "failed" /\ result' # "panic" /\ feedback' \in Feedback
      BY <3>5 DEF Sound
    <3> QED
      BY <1>4, <3>4, <3>5, <3>6
  <2> QED
    BY <1>7, <2>1, <2>2, PanicsOrProceeds
<1>b. feedback \in Feedback
  BY DEF Sound
<1>8. CASE Lose
  BY <1>a, <1>b, <1>8 DEF Lose
<1>9. CASE Receive
  BY <1>a, <1>b, <1>9 DEF Receive
<1>10. CASE UNCHANGED vars
  BY <1>a, <1>b, <1>10 DEF vars
<1> QED BY <1>1, <1>2, <1>3, <1>5, <1>6, <1>7, <1>8, <1>9, <1>10, Zenon DEF Next

(***************************************************************************)
(* Encoder::encode_payload, for every value of every setter, every payload *)
(* size and every level of feedback, with and without overflow checks: a   *)
(* session that build accepted and the constructors opened has codes that  *)
(* fit, and never fails to encode, unless the build has overflow checks    *)
(* and the floor is so large that it does not fit u16 with the stripes of  *)
(* a window.                                                               *)
(***************************************************************************)
THEOREM AcceptedNeverFailsAlways == Spec => []AcceptedNeverFails
<1>1. Sound => AcceptedNeverFails
  BY Zenon DEF Sound, AcceptedNeverFails, CodesFit
<1> QED BY InitSound, NextSound, <1>1, PTL DEF Spec

(***************************************************************************)
(* The grids.  Position f * m + i of a grid is the i-th of the m of slot f. *)
(***************************************************************************)
Region(W, m, f) == {(f % W) * m + i : i \in 0 .. m - 1}
(* The positions of all slots.                                             *)
Cells(W, m) == UNION {Region(W, m, f) : f \in 0 .. W - 1}

(* Quotient and remainder of any frame number.                             *)
LEMMA IntDivision ==
  ASSUME NEW W \in Nat \ {0}, NEW x \in Int
  PROVE  x % W \in 0 .. W - 1 /\ x \div W \in Int /\ x = W * (x \div W) + (x % W)
<1>1. x % W \in 0 .. W - 1
  BY Z3
<1>2. x \div W \in Int
  BY Z3
<1>3. x = W * (x \div W) + (x % W)
  BY Z3
<1> QED
  BY <1>1, <1>2, <1>3

(* Nothing but zero is a multiple of W closer to zero than W.              *)
LEMMA NoMultipleBetween ==
  ASSUME NEW W \in Nat \ {0}, NEW k \in Int, W * k < W, -W < W * k
  PROVE  k = 0
<1>1. k <= 0
  <2> SUFFICES ASSUME k >= 1 PROVE FALSE
    OBVIOUS
  <2>1. W * k >= W
    BY Z3
  <2>2. W * k \in Int
    BY Z3
  <2> QED
    BY <2>1, <2>2
<1>2. k >= 0
  <2> SUFFICES ASSUME k <= -1 PROVE FALSE
    OBVIOUS
  <2>1. W * k <= -W
    BY Z3
  <2>2. W * k \in Int
    BY Z3
  <2> QED
    BY <2>1, <2>2
<1> QED
  BY <1>1, <1>2

(* A remainder is determined by its size.                                  *)
LEMMA RemainderUnique ==
  ASSUME NEW W \in Nat \ {0}, NEW x \in Int, NEW q \in Int, NEW r \in 0 .. W - 1,
         x = W * q + r
  PROVE  x % W = r
<1> DEFINE p == x \div W
           s == x % W
           y == W * p
           z == W * q
<1>1. s \in 0 .. W - 1 /\ p \in Int /\ x = y + s
  BY IntDivision
<1> HIDE DEF p, s
<1>2. y \in Int /\ z \in Int
  BY <1>1, Z3
<1>3. W * (q - p) = z - y
  BY <1>1, Z3
<1>4. q - p = 0
  <2> DEFINE k == q - p
  <2>1. k \in Int /\ W * k = s - r
    <3> HIDE DEF y, z
    <3>1. W * (q - p) = s - r
      BY <1>1, <1>2, <1>3 DEF z
    <3> QED
      BY <1>1, <3>1
  <2> HIDE DEF k
  <2>2. W * k < W /\ -W < W * k
    BY <1>1, <2>1
  <2> QED
    BY <2>1, <2>2, NoMultipleBetween DEF k
<1>5. q = p
  BY <1>1, <1>4
<1> QED
  <2>1. z = y
    BY <1>5
  <2> HIDE DEF y, z
  <2> QED
    BY <1>1, <1>2, <2>1 DEF z, s

(* Frames a multiple of the window apart share a slot.                     *)
LEMMA SlotRepeats ==
  ASSUME NEW W \in Nat \ {0}, NEW x \in Int, NEW k \in Int
  PROVE  (x + W * k) % W = x % W
<1> DEFINE q == x \div W
           r == x % W
           a == W * q
           b == W * k
<1>1. r \in 0 .. W - 1 /\ q \in Int /\ x = a + r
  BY IntDivision
<1> HIDE DEF q, r
<1>2. a \in Int /\ b \in Int /\ W * (q + k) = a + b
  BY <1>1, Z3
<1>3. x + b = W * (q + k) + r
  <2> HIDE DEF a, b
  <2> QED
    BY <1>1, <1>2
<1>4. q + k \in Int /\ x + b \in Int
  <2> HIDE DEF a, b
  <2> QED
    BY <1>1, <1>2
<1>5. (x + b) % W = r
  <2> HIDE DEF b
  <2> QED
    BY <1>1, <1>3, <1>4, RemainderUnique
<1> QED
  BY <1>5 DEF r

(* Two frames of one window have slots of their own.                       *)
LEMMA SlotsDiffer ==
  ASSUME NEW W \in Nat \ {0}, NEW f \in Int, NEW g \in Int, f < g, g - f < W
  PROVE  f % W # g % W
<1> SUFFICES ASSUME f % W = g % W PROVE FALSE
  OBVIOUS
<1> DEFINE p == f \div W
           q == g \div W
           r == f % W
           y == W * p
           z == W * q
<1>1. r \in 0 .. W - 1 /\ p \in Int /\ q \in Int /\ f = y + r /\ g = z + r
  BY IntDivision
<1> HIDE DEF p, q, r
<1>2. y \in Int /\ z \in Int /\ W * (q - p) = z - y
  BY <1>1, Z3
<1>3. q - p \in Int /\ W * (q - p) = g - f
  <2>1. z - y = g - f
    <3> HIDE DEF y, z
    <3> QED
      BY <1>1, <1>2
  <2> HIDE DEF y, z
  <2> QED
    BY <1>1, <1>2, <2>1
<1> DEFINE k == q - p
<1> HIDE DEF k
<1>4. k \in Int /\ W * k < W /\ -W < W * k /\ W * k # 0
  BY <1>3 DEF k
<1>5. k = 0
  BY <1>4, NoMultipleBetween
<1> QED
  BY <1>4, <1>5

(* Every slot is that of a frame of the window that ends at n.             *)
LEMMA SlotIsTaken ==
  ASSUME NEW W \in Nat \ {0}, NEW n \in Int, NEW s \in 0 .. W - 1
  PROVE  \E g \in n - W .. n - 1 : g % W = s
<1> DEFINE x == n - 1 - s
           q == x \div W
           r == x % W
           y == W * q
           g == s + y
<1>0. x \in Int
  OBVIOUS
<1>1. r \in 0 .. W - 1 /\ q \in Int /\ x = y + r
  <2> HIDE DEF x
  <2> QED
    BY <1>0, IntDivision
<1> HIDE DEF q, r
<1>2. g % W = s % W
  <2>1. s \in Int
    OBVIOUS
  <2> QED
    BY <2>1, <1>1, SlotRepeats, Zenon
<1>3. s % W = s
  <2>1. s = W * 0 + s /\ 0 \in Int /\ s \in Int
    BY Z3
  <2> QED
    BY <2>1, RemainderUnique
<1>4. y \in Int
  BY <1>1, Z3
<1>5. g \in n - W .. n - 1
  <2> HIDE DEF y
  <2> QED
    BY <1>1, <1>4
<1> QED
  BY <1>2, <1>3, <1>5

(* Slots do not overlap.                                                   *)
LEMMA SlotsApart ==
  ASSUME NEW m \in Nat, NEW a \in Nat, NEW b \in Nat, a < b, NEW i \in 0 .. m - 1, NEW j \in 0 .. m - 1
  PROVE  a * m + i # b * m + j
<1>1. m * (a + 1) <= m * b
  BY MultiplesGrow
<1>2. m * (a + 1) = m * a + m
  BY NextMultiple
<1>3. m * a = a * m /\ m * b = b * m /\ a * m \in Int /\ b * m \in Int
  BY Z3
<1> DEFINE y == a * m
           z == b * m
<1>4. y + m <= z /\ y \in Int /\ z \in Int
  BY <1>1, <1>2, <1>3
<1> HIDE DEF y, z
<1>5. y + i # z + j
  BY <1>4
<1> QED
  BY <1>5 DEF y, z

(* Each position is of one slot.                                           *)
Apart(W, m) ==
  \A f, g \in Int : f < g /\ g - f < W => Region(W, m, f) \cap Region(W, m, g) = {}

(* Two frames less than a window apart share no position.                  *)
LEMMA RegionsApart ==
  ASSUME NEW W \in Nat \ {0}, NEW m \in Nat
  PROVE  Apart(W, m)
<1> SUFFICES ASSUME NEW f \in Int, NEW g \in Int, f < g, g - f < W,
                    NEW i \in 0 .. m - 1, NEW j \in 0 .. m - 1
             PROVE  (f % W) * m + i # (g % W) * m + j
  BY DEF Apart, Region
<1> DEFINE a == f % W
           b == g % W
<1>1. a \in 0 .. W - 1 /\ b \in 0 .. W - 1
  BY IntDivision
<1>a. a # b
  BY SlotsDiffer, Zenon
<1> HIDE DEF a, b
<1>2. (a < b \/ b < a) /\ a \in Nat /\ b \in Nat
  BY <1>1, <1>a
<1>3. a * m + i # b * m + j
  BY <1>2, SlotsApart
<1> QED
  BY <1>3 DEF a, b

(* The regions of the frames of a window make up the grid.                 *)
Covered(W, m) ==
  /\ \A f \in Int : Region(W, m, f) \subseteq Cells(W, m)
  /\ \A n \in Int, i \in Cells(W, m) : \E g \in n - W .. n - 1 : i \in Region(W, m, g)

(* Any window of frames has a region for every position.                   *)
LEMMA RegionsCover ==
  ASSUME NEW W \in Nat \ {0}, NEW m \in Nat
  PROVE  Covered(W, m)
<1>1. ASSUME NEW f \in Int PROVE Region(W, m, f) \subseteq Cells(W, m)
  <2> DEFINE s == f % W
  <2>1. s \in 0 .. W - 1
    BY IntDivision
  <2>2. s % W = s
    <3> HIDE DEF s
    <3>1. s = W * 0 + s /\ 0 \in Int /\ s \in Int
      BY <2>1, Z3
    <3> QED
      BY <2>1, <3>1, RemainderUnique
  <2>3. Region(W, m, f) = Region(W, m, s)
    BY <2>2 DEF Region
  <2> HIDE DEF s
  <2> QED
    BY <2>1, <2>3 DEF Cells
<1>2. ASSUME NEW n \in Int, NEW i \in Cells(W, m)
      PROVE  \E g \in n - W .. n - 1 : i \in Region(W, m, g)
  <2>1. PICK s \in 0 .. W - 1 : i \in Region(W, m, s)
    BY DEF Cells
  <2>2. PICK g \in n - W .. n - 1 : g % W = s
    BY SlotIsTaken
  <2>3. s % W = s
    <3>1. s = W * 0 + s /\ 0 \in Int /\ s \in Int
      BY Z3
    <3> QED
      BY <3>1, RemainderUnique
  <2>4. Region(W, m, g) = Region(W, m, s)
    BY <2>2, <2>3 DEF Region
  <2> QED
    BY <2>1, <2>2, <2>4
<1> QED
  BY <1>1, <1>2 DEF Covered

(* Position p of the window that ends at ts is a frame, and its slot.      *)
LEMMA PositionIsFrame ==
  ASSUME NEW W \in Nat \ {0}, NEW ts \in Int, NEW p \in Int
  PROVE  (ts + p) % W = (ts - (W - p)) % W
<1> DEFINE x == ts - (W - p)
<1>1. x \in Int /\ W * 1 = W /\ x + W * 1 = ts + p
  BY Z3
<1>2. (x + W * 1) % W = x % W
  <2>1. 1 \in Int
    OBVIOUS
  <2> HIDE DEF x
  <2> QED
    BY <1>1, <2>1, SlotRepeats, Zenon
<1> QED
  BY <1>1, <1>2

-----------------------------------------------------------------------------
(* Contents of a grid after it was written to and cleared.                 *)
LEMMA AtPlaced ==
  ASSUME NEW grid, NEW contents, NEW i
  PROVE  At(Placed(grid, contents), i) =
           IF i \in DOMAIN contents THEN contents[i] ELSE At(grid, i)
BY DEF Placed, At

(* The positions of a grid after placing.                                  *)
LEMMA PlacedDomain ==
  ASSUME NEW grid, NEW contents
  PROVE  DOMAIN Placed(grid, contents) = DOMAIN contents \cup DOMAIN grid
BY DEF Placed

(* What a cleared grid holds.                                              *)
LEMMA AtCleared ==
  ASSUME NEW grid, NEW positions, NEW i
  PROVE  At(Cleared(grid, positions), i) =
           IF i \in positions THEN Zeros ELSE At(grid, i)
BY DEF Cleared, At

(* The positions of a grid after clearing.                                 *)
LEMMA ClearedDomain ==
  ASSUME NEW grid, NEW positions
  PROVE  DOMAIN Cleared(grid, positions) = DOMAIN grid \ positions
BY DEF Cleared

(* A position outside a grid holds zeros.                                  *)
LEMMA AtOutside ==
  ASSUME NEW grid, NEW i, i \notin DOMAIN grid
  PROVE  At(grid, i) = Zeros
BY DEF At

(* The receiver's grid `mine`, but for its unknown positions, holds what   *)
(* the sender's holds: everywhere, or for the frames from .. to.           *)
Same(S, unknown, mine, theirs) == \A i \in S \ unknown : At(mine, i) = At(theirs, i)

(* The same for every frame from .. to.                                    *)
SameFor(W, m, from, to, unknown, mine, theirs) ==
  \A g \in from .. to : Same(Region(W, m, g), unknown, mine, theirs)

(* What was not placed is not known.                                       *)
Unplaced(W, m, grid) == Cells(W, m) \ DOMAIN grid

(* The positions of the frames entered.                                    *)
Entered(W, m, from, to) == UNION {Region(W, m, g) : g \in from .. to}

(* The sender writes to the slot of its next frame, which no frame still   *)
(* in the window has.                                                      *)
WritesFrame(W, m, n, before, after) ==
  \A i : i \notin Region(W, m, n) => At(after, i) = At(before, i)

(* Writing the next frame changes nothing of those that stay in the        *)
(* window.                                                                 *)
LEMMA SenderKeeps ==
  ASSUME NEW W \in Nat \ {0}, NEW m \in Nat, NEW n \in Int, NEW to \in Int, to < n,
         NEW unknown, NEW mine, NEW theirs, NEW after, WritesFrame(W, m, n, theirs, after),
         SameFor(W, m, n - W, to, unknown, mine, theirs)
  PROVE  SameFor(W, m, n + 1 - W, to, unknown, mine, after)
<1> SUFFICES ASSUME NEW g \in n + 1 - W .. to, NEW i \in Region(W, m, g) \ unknown
             PROVE  At(mine, i) = At(after, i)
  BY DEF SameFor, Same
<1>1. g \in n - W .. to /\ g \in Int /\ g < n /\ n - g < W
  OBVIOUS
<1>2. At(mine, i) = At(theirs, i)
  BY <1>1 DEF SameFor, Same
<1>3. i \notin Region(W, m, n)
  <2>1. Region(W, m, g) \cap Region(W, m, n) = {}
    BY <1>1, RegionsApart DEF Apart
  <2> QED
    BY <2>1
<1> QED
  BY <1>2, <1>3 DEF WritesFrame

(* The receiver clears the slots of the frames it enters: their positions  *)
(* are not known, the others are as before.                                *)
LEMMA ReceiverKeeps ==
  ASSUME NEW W \in Nat \ {0}, NEW m \in Nat, NEW n \in Int, NEW to \in Int,
         NEW unknown, NEW mine, NEW theirs, NEW now,
         SameFor(W, m, n - W, to, unknown, mine, theirs),
         (unknown \cup Entered(W, m, to + 1, n - 1)) \cap Cells(W, m) \subseteq now
  PROVE  Same(Cells(W, m), now, Cleared(mine, Entered(W, m, to + 1, n - 1)), theirs)
<1> DEFINE E == Entered(W, m, to + 1, n - 1)
<1> SUFFICES ASSUME NEW i \in Cells(W, m) \ now
             PROVE  At(Cleared(mine, E), i) = At(theirs, i)
  BY DEF Same
<1>1. i \notin unknown /\ i \notin E
  BY Zenon
<1>2. PICK g \in n - W .. n - 1 : i \in Region(W, m, g)
  BY RegionsCover DEF Covered
<1>3. g \in n - W .. to
  <2> SUFFICES ASSUME g > to PROVE FALSE
    OBVIOUS
  <2>1. g \in to + 1 .. n - 1
    OBVIOUS
  <2> QED
    BY <1>1, <1>2, <2>1 DEF Entered
<1>4. At(mine, i) = At(theirs, i)
  BY <1>1, <1>2, <1>3 DEF SameFor, Same
<1>5. At(Cleared(mine, E), i) = At(mine, i)
  <2> HIDE DEF E
  <2> QED
    BY <1>1, AtCleared
<1> QED
  BY <1>4, <1>5

(* What is the same everywhere is the same for each frame.                 *)
LEMMA SameForAll ==
  ASSUME NEW W \in Nat \ {0}, NEW m \in Nat, NEW from \in Int, NEW to \in Int,
         NEW unknown, NEW mine, NEW theirs, Same(Cells(W, m), unknown, mine, theirs)
  PROVE  SameFor(W, m, from, to, unknown, mine, theirs)
BY RegionsCover DEF SameFor, Same, Covered

(* The receiver places what the sender has there.                          *)
LEMMA PlacingKeeps ==
  ASSUME NEW S, NEW unknown, NEW mine, NEW theirs, NEW contents, NEW now,
         Same(S, unknown, mine, theirs), unknown \ DOMAIN contents \subseteq now,
         \A i \in DOMAIN contents : contents[i] = At(theirs, i)
  PROVE  Same(S, now, Placed(mine, contents), theirs)
<1> SUFFICES ASSUME NEW i \in S \ now
             PROVE  At(Placed(mine, contents), i) = At(theirs, i)
  BY DEF Same
<1>1. CASE i \in DOMAIN contents
  BY <1>1, AtPlaced
<1>2. CASE i \notin DOMAIN contents
  <2>1. i \in S \ unknown
    BY <1>2
  <2>2. At(mine, i) = At(theirs, i)
    BY <2>1 DEF Same
  <2> QED
    BY <1>2, <2>2, AtPlaced
<1> QED
  BY <1>1, <1>2

(* Solving from what is the same everywhere gives the same.                *)
LEMMA SolvingKeeps ==
  ASSUME NEW S, NEW unknown, NEW mine, NEW theirs, NEW positions, NEW now,
         Same(S, unknown, mine, theirs), DOMAIN mine \subseteq S, DOMAIN theirs \subseteq S,
         unknown \ positions \subseteq now
  PROVE  /\ Same(S, now, SolvedColumns(mine, unknown, theirs, positions), theirs)
         /\ DOMAIN SolvedColumns(mine, unknown, theirs, positions) = DOMAIN mine \cup positions
<1> DEFINE contents == [i \in positions |-> At(theirs, i)]
<1>1. Agree(mine, unknown, theirs)
  BY DEF Agree, Same
<1>2. SolvedColumns(mine, unknown, theirs, positions) = Placed(mine, contents)
  BY <1>1, Zenon DEF SolvedColumns
<1>3. DOMAIN contents = positions /\ \A i \in DOMAIN contents : contents[i] = At(theirs, i)
  OBVIOUS
<1> HIDE DEF contents
<1>4. Same(S, now, Placed(mine, contents), theirs)
  BY <1>3, PlacingKeeps
<1>5. DOMAIN Placed(mine, contents) = positions \cup DOMAIN mine
  BY <1>3, PlacedDomain
<1> QED
  BY <1>2, <1>4, <1>5

-----------------------------------------------------------------------------
(* Bytes.  The j-th piece of d bytes of a source of `size` bytes; the last *)
(* one may be shorter.                                                     *)
Cut(src, size, d, j) == [src |-> src, from |-> j * d, len |-> AtMost(d, size - j * d)]

(* A slice that starts inside the bytes.                                   *)
LEMMA SliceInside ==
  ASSUME NEW src, NEW from \in Nat, NEW len \in Nat, NEW o \in Nat, NEW n \in Nat, o < len
  PROVE  SliceOf([src |-> src, from |-> from, len |-> len], o, n)
           = [src |-> src, from |-> from + o, len |-> AtMost(n, len - o)]
BY DEF SliceOf

(* A slice of whole bytes.                                                 *)
LEMMA SliceFromStart ==
  ASSUME NEW src, NEW size \in Nat, NEW o \in Nat, o < size, NEW n
  PROVE  SliceOf(BytesOf(src, size), o, n) = [src |-> src, from |-> o, len |-> AtMost(n, size - o)]
<1>1. BytesOf(src, size) = [src |-> src, from |-> 0, len |-> size]
  BY DEF BytesOf
<1>2. 0 + o = o
  OBVIOUS
<1>3. SliceOf([src |-> src, from |-> 0, len |-> size], o, n)
        = [src |-> src, from |-> 0 + o, len |-> AtMost(n, size - o)]
  BY DEF SliceOf
<1> QED
  BY <1>1, <1>2, <1>3, Zenon

(* The j-th slice of a size is the j-th cut.                               *)
LEMMA SliceIsCut ==
  ASSUME NEW src, NEW size \in Nat, NEW d \in Nat, NEW j \in Nat, j * d < size
  PROVE  SliceOf(BytesOf(src, size), j * d, d) = Cut(src, size, d, j)
<1> DEFINE o == j * d
<1>1. o \in Nat /\ o < size
  BY Z3
<1> HIDE DEF o
<1>2. SliceOf(BytesOf(src, size), o, d) = [src |-> src, from |-> o, len |-> AtMost(d, size - o)]
  BY <1>1, SliceFromStart
<1> QED
  BY <1>2 DEF o, Cut

(* Stripe q of the packet j, of k stripes each, is stripe j * k + q.       *)
LEMMA CutOfCut ==
  ASSUME NEW src, NEW size \in Nat, NEW s \in Nat \ {0}, NEW k \in Nat \ {0},
         NEW j \in Nat, NEW q \in 0 .. k - 1, (j * k + q) * s < size
  PROVE  SliceOf(Cut(src, size, k * s, j), q * s, s) = Cut(src, size, s, j * k + q)
<1> DEFINE o == j * (k * s)
           a == q * s
           d == k * s
           t == j * k + q
<1>1. o \in Nat /\ a \in Nat /\ d \in Nat /\ t \in Nat
  <2>1. a \in Nat
    BY Z3
  <2>2. d \in Nat
    BY Z3
  <2>3. t \in Nat
    BY Z3
  <2>4. o \in Nat
    <3> HIDE DEF d
    <3> QED
      BY <2>2, Z3 DEF d
  <2> QED
    BY <2>1, <2>2, <2>3, <2>4
<1>2. t * s = o + a
  BY Z3
<1>3. a + s <= d
  <2>1. s * (q + 1) <= s * k
    BY MultiplesGrow
  <2>2. s * (q + 1) = s * q + s
    BY NextMultiple
  <2>3. s * k = d /\ s * q = a
    BY Z3
  <2> HIDE DEF a, d
  <2> QED
    BY <2>1, <2>2, <2>3
<1>4. o + a < size
  BY <1>2
<1>5. Cut(src, size, k * s, j) = [src |-> src, from |-> o, len |-> AtMost(d, size - o)]
  BY DEF Cut
<1>6. Cut(src, size, s, t) = [src |-> src, from |-> o + a, len |-> AtMost(s, size - (o + a))]
  BY <1>2 DEF Cut
<1> HIDE DEF o, a, d, t
<1>7. SliceOf([src |-> src, from |-> o, len |-> AtMost(d, size - o)], a, s)
        = [src |-> src, from |-> o + a, len |-> AtMost(s, size - (o + a))]
  <2>1. AtMost(d, size - o) \in Nat /\ a < AtMost(d, size - o)
    BY <1>1, <1>3, <1>4 DEF AtMost
  <2>2. AtMost(s, AtMost(d, size - o) - a) = AtMost(s, size - (o + a))
    BY <1>1, <1>3, <1>4 DEF AtMost
  <2>3. s \in Nat
    OBVIOUS
  <2>4. SliceOf([src |-> src, from |-> o, len |-> AtMost(d, size - o)], a, s)
          = [src |-> src, from |-> o + a, len |-> AtMost(s, AtMost(d, size - o) - a)]
    BY <1>1, <2>1, <2>3, SliceInside, Zenon
  <2> QED
    BY <2>2, <2>4, Zenon
<1> QED
  BY <1>5, <1>6, <1>7 DEF a, t

(* The pieces put together again.                                          *)
LEMMA JoinedCuts ==
  ASSUME NEW src, NEW size \in Nat, NEW d \in Nat \ {0}, NEW n \in Nat \ {0},
         (n - 1) * d < size, size <= n * d
  PROVE  Joined([j \in 1 .. n |-> Cut(src, size, d, j - 1)]) = BytesOf(src, size)
<1> DEFINE pieces == [j \in 1 .. n |-> Cut(src, size, d, j - 1)]
<1>1. Len(pieces) = n /\ \A j \in 1 .. n : pieces[j] = Cut(src, size, d, j - 1)
  OBVIOUS
<1>2. ASSUME NEW i \in 2 .. n
      PROVE  /\ pieces[i].src = pieces[1].src
             /\ pieces[i].from = pieces[i - 1].from + pieces[i - 1].len
  <2> DEFINE y == (i - 1) * d
             z == (i - 1 - 1) * d
  <2>1. y \in Nat /\ z \in Nat
    <3>1. y \in Nat
      BY Z3
    <3>2. z \in Nat
      BY Z3
    <3> QED
      BY <3>1, <3>2
  <2>2. y = z + d
    BY Z3
  <2>3. y < size
    <3>1. d * (i - 1) <= d * (n - 1)
      <4>1. i - 1 \in Nat /\ n - 1 \in Nat /\ i - 1 <= n - 1
        OBVIOUS
      <4> QED
        BY <4>1, MultiplesGrow
    <3>2. d * (i - 1) = y /\ d * (n - 1) = (n - 1) * d /\ (n - 1) * d \in Int
      BY Z3
    <3> HIDE DEF y
    <3> QED
      BY <2>1, <3>1, <3>2
  <2>4. /\ pieces[i] = Cut(src, size, d, i - 1) /\ pieces[i - 1] = Cut(src, size, d, i - 1 - 1)
        /\ pieces[1] = Cut(src, size, d, 1 - 1)
    BY <1>1
  <2> HIDE DEF pieces
  <2>5. /\ pieces[i].src = src /\ pieces[1].src = src
        /\ pieces[i].from = y /\ pieces[i - 1].from = z
        /\ pieces[i - 1].len = AtMost(d, size - z)
    BY <2>4 DEF Cut
  <2> HIDE DEF y, z
  <2>6. AtMost(d, size - z) = d
    BY <2>1, <2>2, <2>3 DEF AtMost
  <2> QED
    BY <2>2, <2>5, <2>6
<1> DEFINE y == (n - 1) * d
<1>3. pieces[n].from + pieces[n].len - pieces[1].from = size
  <2>1. pieces[n] = Cut(src, size, d, n - 1) /\ pieces[1] = Cut(src, size, d, 1 - 1)
    BY <1>1
  <2> HIDE DEF pieces
  <2>2. (1 - 1) * d = 0
    BY Z3
  <2>3. pieces[n].from = y /\ pieces[n].len = AtMost(d, size - y) /\ pieces[1].from = 0
    BY <2>1, <2>2 DEF Cut
  <2>4. y \in Int /\ n * d = y + d
    BY Z3
  <2> HIDE DEF y
  <2>5. y + AtMost(d, size - y) - 0 = size
    BY <2>4 DEF AtMost, y
  <2> QED
    BY <2>3, <2>5
<1>4. pieces[1] = [src |-> src, from |-> 0, len |-> AtMost(d, size - 0)]
  <2>1. (1 - 1) * d = 0
    BY Z3
  <2>2. pieces[1] = Cut(src, size, d, 1 - 1)
    BY <1>1
  <2> HIDE DEF pieces
  <2> QED
    BY <2>1, <2>2 DEF Cut
<1> HIDE DEF pieces
<1>5. Joined(pieces) = [pieces[1] EXCEPT !.len = pieces[n].from + pieces[n].len - pieces[1].from]
  BY <1>1, <1>2 DEF Joined
<1>6. Joined(pieces) = [src |-> src, from |-> 0, len |-> size]
  BY <1>3, <1>4, <1>5
<1> QED
  BY <1>6 DEF BytesOf, pieces

-----------------------------------------------------------------------------
(* The stripes of a payload.                                               *)
LEMMA StripesHold ==
  ASSUME NEW a \in Nat \ {0}, NEW s \in Nat \ {0}
  PROVE  /\ CeilDiv(a, s) \in Nat \ {0}
         /\ (CeilDiv(a, s) - 1) * s < a /\ a <= CeilDiv(a, s) * s
<1> DEFINE x == a + s - 1
           k == x \div s
           r == x % s
           y == s * k
<1>1. x \in Nat
  OBVIOUS
<1>2. k \in Nat /\ r \in 0 .. s - 1 /\ x = y + r
  <2>1. s \in Nat /\ s > 0
    OBVIOUS
  <2> HIDE DEF x
  <2> QED
    BY <1>1, <2>1, Division
<1> HIDE DEF k, r
<1>3. y \in Nat
  BY <1>2, Z3
<1>4. k # 0
  <2> SUFFICES ASSUME k = 0 PROVE FALSE
    OBVIOUS
  <2>1. y = 0
    BY Z3
  <2> HIDE DEF y
  <2> QED
    BY <1>2, <2>1
<1>5. (k - 1) * s = y - s /\ k * s = y
  BY <1>2, Z3
<1>6. y - s < a /\ a <= y
  <2> HIDE DEF y
  <2> QED
    BY <1>2, <1>3
<1>7. CeilDiv(a, s) = k
  BY DEF CeilDiv, k
<1> HIDE DEF y
<1> QED
  BY <1>2, <1>4, <1>5, <1>6, <1>7

(* A stripe below the last is full.                                        *)
LEMMA StripeInside ==
  ASSUME NEW k \in Nat \ {0}, NEW s \in Nat \ {0}, NEW a \in Nat, (k - 1) * s < a, NEW q \in 0 .. k - 1
  PROVE  /\ q * s \in Nat /\ q * s < a
         /\ q # k - 1 => q * s + s < a
<1> DEFINE y == q * s
           z == (k - 1) * s
<1>1. y \in Nat /\ z \in Nat
  <2>1. y \in Nat
    BY Z3
  <2>2. z \in Nat
    BY Z3
  <2> QED
    BY <2>1, <2>2
<1>2. y <= z
  <2>1. s * q <= s * (k - 1)
    BY MultiplesGrow
  <2>2. s * q = y /\ s * (k - 1) = z
    BY Z3
  <2> QED
    BY <2>1, <2>2
<1>3. q # k - 1 => y + s <= z
  <2> SUFFICES ASSUME q # k - 1 PROVE y + s <= z
    OBVIOUS
  <2>1. s * (q + 1) <= s * (k - 1)
    BY MultiplesGrow
  <2>2. s * (q + 1) = y + s /\ s * (k - 1) = z
    BY Z3
  <2> QED
    BY <2>1, <2>2
<1> HIDE DEF y
<1>4. z < a
  OBVIOUS
<1> HIDE DEF z
<1>5. y \in Nat /\ y < a /\ (q # k - 1 => y + s < a)
  BY <1>1, <1>2, <1>3, <1>4
<1> QED
  BY <1>5 DEF y

(* final_pos_within_stripe: a stripe of the frame is used up to its end,   *)
(* or to the end of the payload.                                           *)
LEMMA FinalPosition ==
  ASSUME StripeSize \in Nat \ {0}, NEW size \in Nat \ {0},
         NEW q \in 0 .. num_data_stripes(size) - 1
  PROVE  final_pos_within_stripe(size, q) + 1 = AtMost(StripeSize, size - q * StripeSize)
<1> DEFINE s == StripeSize
           k == num_data_stripes(size)
           y == q * s
           r == size % s
<1>1. k \in Nat \ {0} /\ (k - 1) * s < size /\ size <= k * s
  BY StripesHold DEF num_data_stripes
<1>2. /\ y \in Nat /\ y < size
      /\ q # k - 1 => y + s < size
  BY <1>1, StripeInside
<1>3. size = s * (size \div s) + r /\ r \in 0 .. s - 1 /\ size \div s \in Int
  BY IntDivision
<1>4. final_pos_within_stripe(size, q) + 1 = IF q = k - 1 /\ r # 0 THEN r ELSE s
  <2>1. final_pos_within_stripe(size, q) = IF q = k - 1 /\ r # 0 THEN r - 1 ELSE s - 1
    BY DEF final_pos_within_stripe
  <2> HIDE DEF r, k
  <2> QED
    BY <1>3, <2>1
<1>5. CASE q # k - 1
  <2> HIDE DEF k, y, r
  <2>1. AtMost(s, size - y) = s
    BY <1>2, <1>5 DEF AtMost
  <2> QED
    BY <1>4, <1>5, <2>1 DEF y
<1>6. CASE q = k - 1
  <2>1. y + s = k * s
    BY <1>1, <1>6, Z3
  <2>2. size <= y + s
    BY <1>1, <2>1
  <2>3. AtMost(s, size - y) = size - y
    <3> HIDE DEF y, k
    <3> QED
      BY <1>2, <2>2 DEF AtMost
  <2>4. size - y = IF r # 0 THEN r ELSE s
    <3>1. CASE size - y = s
      <4>1. size = s * (q + 1) + 0
        <5>1. s * (q + 1) + 0 = y + s
          BY Z3
        <5> HIDE DEF y, k
        <5> QED
          BY <1>2, <3>1, <5>1
      <4>2. r = 0
        <5>1. 0 \in 0 .. s - 1 /\ q + 1 \in Int
          BY <1>1
        <5> QED
          BY <4>1, <5>1, RemainderUnique
      <4> QED
        BY <3>1, <4>2
    <3>2. CASE size - y # s
      <4>1. size - y \in 1 .. s - 1
        <5> HIDE DEF y, k
        <5> QED
          BY <1>2, <2>2, <3>2
      <4>2. size = s * q + (size - y)
        <5>1. s * q = y
          BY Z3
        <5> HIDE DEF y, k
        <5> QED
          BY <1>2, <5>1
      <4>3. r = size - y
        <5>1. q \in Int /\ size \in Int /\ size - y \in 0 .. s - 1
          BY <4>1, <1>1
        <5> DEFINE d == size - y
        <5> HIDE DEF d
        <5> QED
          BY <4>2, <5>1, RemainderUnique DEF d
      <4> QED
        BY <4>1, <4>3
    <3> QED
      BY <3>1, <3>2
  <2> HIDE DEF k, y, r
  <2> QED
    BY <1>4, <1>6, <2>3, <2>4 DEF y
<1> QED
  BY <1>5, <1>6

(* recovered_len: the stripes of a payload add up to its size.             *)
LEMMA StripesAddUp ==
  ASSUME StripeSize \in Nat \ {0}, NEW size \in Nat \ {0}
  PROVE  SumFunction([i \in 0 .. num_data_stripes(size) - 1 |->
                        final_pos_within_stripe(size, i) + 1]) = size
<1> DEFINE s == StripeSize
           k == num_data_stripes(size)
           f == [i \in 0 .. k - 1 |-> final_pos_within_stripe(size, i) + 1]
           y == (k - 1) * s
<1>1. k \in Nat \ {0} /\ (k - 1) * s < size /\ size <= k * s
  BY StripesHold DEF num_data_stripes
<1>2. y \in Nat /\ k * s = y + s /\ y < size /\ size <= y + s
  <2>1. y \in Nat
    BY <1>1, Z3
  <2>2. k * s = y + s
    BY <1>1, Z3
  <2> QED
    BY <1>1, <2>1, <2>2
<1>3. ASSUME NEW i \in 0 .. k - 1 PROVE f[i] = AtMost(s, size - i * s)
  BY FinalPosition
<1>4. f[k - 1] = size - y
  <2>1. f[k - 1] = AtMost(s, size - y)
    BY <1>1, <1>3
  <2> HIDE DEF f, k, y
  <2> QED
    BY <1>2, <2>1 DEF AtMost
<1>5. \A i \in 0 .. k - 2 : f[i] = s
  <2> SUFFICES ASSUME NEW i \in 0 .. k - 2 PROVE f[i] = s
    OBVIOUS
  <2> DEFINE z == i * s
  <2>1. z \in Nat /\ z + s < size
    <3>1. i \in 0 .. k - 1 /\ i # k - 1
      BY <1>1
    <3> HIDE DEF k
    <3> QED
      BY <1>1, <3>1, StripeInside
  <2>2. f[i] = AtMost(s, size - z)
    BY <1>1, <1>3
  <2> HIDE DEF f, k, z
  <2> QED
    BY <2>1, <2>2 DEF AtMost
<1>6. SumFunction(f) = SumFunctionOnSet(f, 0 .. k - 1)
  <2>1. DOMAIN f = 0 .. k - 1
    OBVIOUS
  <2> HIDE DEF f
  <2> QED
    BY <2>1 DEF SumFunction
<1> HIDE DEF f
<1> HIDE DEF k
<1>7. \A i \in 0 .. k - 1 : f[i] \in Int
  <2> SUFFICES ASSUME NEW i \in 0 .. k - 1 PROVE f[i] \in Int
    OBVIOUS
  <2>1. i \in 0 .. k - 2 \/ i = k - 1
    BY <1>1
  <2> HIDE DEF y
  <2> QED
    BY <1>2, <1>4, <1>5, <2>1
<1>8. SumFunctionOnSet(f, 0 .. k - 1) = f[k - 1] + SumFunctionOnSet(f, 0 .. k - 1 - 1)
  <2>1. 0 \in Int /\ k - 1 \in Int /\ 0 <= k - 1
    BY <1>1
  <2> QED
    BY <1>7, <2>1, SumLast
<1>9. SumFunctionOnSet(f, 0 .. k - 2) = y
  <2>1. IsFiniteSet(0 .. k - 2) /\ Cardinality(0 .. k - 2) = k - 1
    BY <1>1, FS_Interval
  <2>2. IsConstant(f, 0 .. k - 2, s)
    BY <1>5 DEF IsConstant
  <2>3. SumFunctionOnSet(f, 0 .. k - 2) = Cardinality(0 .. k - 2) * s
    BY <2>1, <2>2, SumOfConstant
  <2> QED
    BY <2>1, <2>3
<1>10. k - 1 - 1 = k - 2
  BY <1>1
<1>11. SumFunction(f) = size - y + y
  BY <1>4, <1>6, <1>8, <1>9, <1>10
<1>12. size - y + y = size
  <2> HIDE DEF y
  <2> QED
    BY <1>2
<1> QED
  BY <1>11, <1>12 DEF f, k

-----------------------------------------------------------------------------
(* The layout of an open session.                                          *)
CanOpen(c) == IsConfig(c) /\ Refusal(c) = "None" /\ max_pkts_per_frame(c) # 0

(* The sizes of the layout: none of the divisors is zero.                  *)
LEMMA Layout ==
  ASSUME NEW c, CanOpen(c)
  PROVE  /\ window_frames(c) \in Nat \ {0} /\ stripe_size(c) \in Nat \ {0}
         /\ max_pkts_per_frame(c) \in Nat \ {0}
         /\ c.max_data_stripes \in Nat /\ c.max_fec_stripes \in Nat /\ c.max_frame_size \in Nat
         /\ c.max_pkt_size \div stripe_size(c) \in Nat \ {0}
<1>1. /\ c.tau \in Nat /\ c.w \in {8, 32} /\ c.packet_size \in Nat /\ c.packet_size > 0
      /\ c.max_data_stripes \in Nat /\ c.max_fec_stripes \in Nat /\ c.max_frame_size \in Nat
  BY ConfigFields, Zenon DEF CanOpen
<1>2. window_frames(c) \in Nat \ {0} /\ stripe_size(c) \in Nat \ {0}
  BY <1>1 DEF window_frames, stripe_size
<1>3. c.max_pkt_size \div stripe_size(c) \in Nat \ {0}
  BY PacketHasRoom DEF CanOpen
<1>4. max_pkts_per_frame(c) \in Nat
  <2> DEFINE W == window_frames(c)
             a == 255 \div W
  <2>1. W \in Nat /\ W > 0
    BY <1>2
  <2> HIDE DEF W
  <2>2. a \in Nat
    <3>1. 255 \in Nat
      OBVIOUS
    <3> QED
      BY <2>1, <3>1, Division
  <2> HIDE DEF a
  <2>3. a \div W \in Nat
    BY <2>1, <2>2, Division
  <2> QED
    BY <2>3 DEF max_pkts_per_frame, a, W
<1> QED
  BY <1>1, <1>2, <1>3, <1>4 DEF CanOpen

(* The regions as the model names them.                                    *)
LEMMA Regions ==
  ASSUME NEW f
  PROVE  /\ cols_of_frame(f) = Region(NumFrames, config.max_data_stripes, f)
         /\ rows_of_frame(f) = Region(NumFrames, config.max_fec_stripes, f)
         /\ header_rows_of_frame(f) = Region(NumFrames, HeaderRows, f)
BY DEF cols_of_frame, rows_of_frame, header_rows_of_frame, first_pos_of_frame, Slot, Region

(* The header code has one position for each frame.                        *)
LEMMA SizeRegion ==
  ASSUME NumFrames \in Nat \ {0}, NEW f \in Int
  PROVE  Region(NumFrames, 1, f) = {Slot(f)}
<1> DEFINE a == f % NumFrames
<1>1. a \in Int
  <2>1. a \in 0 .. NumFrames - 1
    BY IntDivision
  <2> QED
    BY <2>1
<1> HIDE DEF a
<1>2. {a * 1 + i : i \in 0 .. 1 - 1} = {a}
  <2>1. a * 1 + 0 = a
    BY <1>1
  <2>2. 0 .. 1 - 1 = {0}
    OBVIOUS
  <2> QED
    BY <2>1, <2>2
<1> QED
  BY <1>2 DEF a, Slot, Region

(* A position of a region, by its place in it.                             *)
LEMMA InRegion ==
  ASSUME NEW W \in Nat \ {0}, NEW m \in Nat, NEW f \in Int, NEW q \in 0 .. m - 1
  PROVE  (f % W) * m + q \in Region(W, m, f) /\ (f % W) * m \in Nat
<1>1. f % W \in 0 .. W - 1
  BY IntDivision
<1> DEFINE a == f % W
<1>2. a \in Nat
  BY <1>1
<1> HIDE DEF a
<1>3. a * m \in Nat
  BY <1>2, Z3
<1> QED
  BY <1>3 DEF Region, a

-----------------------------------------------------------------------------
(* What the sender's grids hold: the stripes and the sizes of the frames   *)
(* of its window.                                                          *)
SenderFields ==
  {"next_session_index", "sqn", "header_ts", "ts", "cols", "rows", "size_cols", "size_rows"}

(* The q-th column of a frame: a stripe of the payload, or zeros.          *)
Stripe(c, f, size, q) ==
  IF q < CeilDiv(size, stripe_size(c)) THEN Cut(<<"frame", f>>, size, stripe_size(c), q)
  ELSE Zeros

(* The columns of a frame and its size, in its slot.                       *)
FrameHeld(c, f, size, enc) ==
  /\ \A q \in 0 .. c.max_data_stripes - 1 :
       At(enc.cols, (f % window_frames(c)) * c.max_data_stripes + q) = Stripe(c, f, size, q)
  /\ At(enc.size_cols, f % window_frames(c)) = BytesOf(<<"size", f>>, size)

(* The sender after n frames holds the last ones of a window.              *)
SenderHolds(c, n, sizes, enc) ==
  /\ DOMAIN enc = SenderFields
  /\ enc.next_session_index = n /\ enc.ts = n /\ enc.header_ts = n - 1
  /\ DOMAIN enc.cols \subseteq Cells(window_frames(c), c.max_data_stripes)
  /\ DOMAIN enc.size_cols \subseteq Cells(window_frames(c), 1)
  /\ \A f \in 0 .. n - 1 : n - f <= window_frames(c) => FrameHeld(c, f, sizes[f + 1], enc)

(* encode_sizes_of_frames, field by field.                                 *)
LEMMA HeaderEncodedFields ==
  ASSUME NEW size, DOMAIN tx = SenderFields
  PROVE  LET enc == HeaderEncoded(size)
             ts == tx.header_ts + 1
         IN  /\ DOMAIN enc = SenderFields
             /\ enc.next_session_index = tx.next_session_index /\ enc.ts = tx.ts
             /\ enc.header_ts = ts /\ enc.cols = tx.cols /\ enc.rows = tx.rows
             /\ enc.size_cols = Placed(tx.size_cols, Only(Slot(ts), BytesOf(<<"size", ts>>, size)))
             /\ enc.size_rows = Placed(tx.size_rows,
                  [i \in header_rows_of_frame(ts) |-> BytesOf(<<"sizes", ts, i>>, 8)])
BY DEF HeaderEncoded, SenderFields

(* What encode_payload writes to the payload code's grids.               *)
StripesPlaced(first, size, frame) ==
  [i \in first .. first + num_data_stripes(size) - 1 |->
     SliceOf(frame, (i - first) * StripeSize, final_pos_within_stripe(size, i - first) + 1)]

(* The rows of a frame are pieces of its parity.                           *)
ParityPieces(n) ==
  [i \in rows_of_frame(n) |->
     SliceOf(BytesOf(<<"parity", n>>, config.max_fec_stripes * StripeSize),
             (i - first_pos_of_frame(n, TRUE)) * StripeSize, StripeSize)]

(* StreamingCode::encode, field by field.                                  *)
EncodedFrom(enc, size, datagrams, coded, after, next) ==
  LET frame == Joined([j \in DOMAIN datagrams |-> datagrams[j].payload])
      first == first_pos_of_frame(enc.ts, FALSE)
  IN  /\ coded.next_session_index = enc.next_session_index /\ coded.ts = enc.ts + 1
      /\ coded.header_ts = enc.header_ts
      /\ coded.size_cols = enc.size_cols /\ coded.size_rows = enc.size_rows
      /\ coded.cols = Placed(Cleared(enc.cols, cols_of_frame(enc.ts)),
                             StripesPlaced(first, size, frame))
      /\ coded.rows = Placed(enc.rows, ParityPieces(enc.ts))
      /\ DOMAIN after = SenderFields /\ after.next_session_index = next
      /\ after.ts = coded.ts /\ after.header_ts = coded.header_ts
      /\ after.cols = coded.cols /\ after.rows = coded.rows
      /\ after.size_cols = coded.size_cols /\ after.size_rows = coded.size_rows

-----------------------------------------------------------------------------
(* encode_payload.  The plan of a frame: packets of as many stripes, which *)
(* together are the frame's.                                               *)
PlanHolds(plan, data, parity) ==
  /\ plan.stripes_per_pkt \in Nat \ {0} /\ plan.data = data /\ plan.parity = parity
  /\ plan.data_pkts \in Nat /\ plan.parity_pkts \in Nat
  /\ plan.data_pkts * plan.stripes_per_pkt = data
  /\ plan.parity_pkts * plan.stripes_per_pkt = parity

(* Every stripe of the plan is in a packet, and no packet is empty.        *)
LEMMA PlanDivides ==
  ASSUME NEW data \in Nat, NEW parity \in Nat, NEW most \in Nat \ {0}
  PROVE  PlanHolds(specs_for_stripes(data, parity, most), data, parity)
<1> DEFINE n == stripes_per_pkt(data, parity, most)
           common == LargestCommon(data, parity, most)
<1>1. common \in 1 .. most /\ data % common = 0 /\ parity % common = 0
  <2>1. \E m \in 1 .. most :
          /\ data % m = 0 /\ parity % m = 0
          /\ \A l \in m + 1 .. most : ~ (data % l = 0 /\ parity % l = 0)
    BY CommonDivisor
  <2> QED
    BY <2>1 DEF LargestCommon
<1>2. data % 1 = 0 /\ parity % 1 = 0
  BY Z3
<1>3. n = common \/ n = 1
  BY DEF stripes_per_pkt
<1> HIDE DEF n, common
<1>4. n \in Nat \ {0} /\ data % n = 0 /\ parity % n = 0
  BY <1>1, <1>2, <1>3
<1>5. (data \div n) * n = data /\ (parity \div n) * n = parity
  BY <1>4, QuotientCarries
<1>6. data \div n \in Nat /\ parity \div n \in Nat
  BY <1>4, DivisionWithRemainder
<1> QED
  BY <1>4, <1>5, <1>6 DEF specs_for_stripes, n, PlanHolds

(* The stripes of packet j are those from j * k on, all within the frame.  *)
LEMMA PacketInFrame ==
  ASSUME NEW k \in Nat \ {0}, NEW pkts \in Nat, NEW count \in Nat, pkts * k = count,
         NEW j \in 0 .. pkts - 1, NEW q \in 0 .. k - 1
  PROVE  j * k \in Nat /\ j * k + q \in 0 .. count - 1
<1> DEFINE y == j * k
<1>1. y \in Nat
  BY Z3
<1>2. y + k <= count
  <2>1. k * (j + 1) <= k * pkts
    BY MultiplesGrow
  <2>2. k * (j + 1) = y + k /\ k * pkts = count
    BY Z3
  <2> QED
    BY <2>1, <2>2
<1> HIDE DEF y
<1>3. y \in Nat /\ y + q \in 0 .. count - 1
  BY <1>1, <1>2
<1> QED
  BY <1>3 DEF y

(* The first stripe of a packet lies within the payload, and the packets   *)
(* together reach its end.                                                 *)
LEMMA PacketsReach ==
  ASSUME NEW k \in Nat \ {0}, NEW pkts \in Nat, NEW s \in Nat \ {0}, NEW size \in Nat \ {0},
         NEW count \in Nat \ {0}, pkts * k = count, (count - 1) * s < size, size <= count * s
  PROVE  /\ pkts # 0 /\ k * s \in Nat \ {0}
         /\ size <= pkts * (k * s)
         /\ \A j \in 0 .. pkts - 1 : j * (k * s) < size
<1>1. k * s \in Nat \ {0}
  BY Z3
<1>2. pkts # 0
  <2> SUFFICES ASSUME pkts = 0 PROVE FALSE
    OBVIOUS
  <2>1. 0 * k = 0
    BY Z3
  <2> QED
    BY <2>1
<1>3. size <= pkts * (k * s)
  <2>1. pkts * (k * s) = (pkts * k) * s
    BY Z3
  <2> QED
    BY <2>1
<1>4. ASSUME NEW j \in 0 .. pkts - 1 PROVE j * (k * s) < size
  <2>1. 0 \in 0 .. k - 1
    OBVIOUS
  <2>2. j * k + 0 \in 0 .. count - 1 /\ j * k \in Nat
    BY <2>1, PacketInFrame
  <2> DEFINE t == j * k
  <2>3. t \in 0 .. count - 1
    BY <2>2
  <2>4. t * s = j * (k * s)
    BY Z3
  <2> HIDE DEF t
  <2>5. t * s < size
    BY <2>3, StripeInside
  <2> QED
    BY <2>4, <2>5
<1> QED
  BY <1>1, <1>2, <1>3, <1>4

(* What a datagram says, and its payload.                                  *)
LEMMA DatagramFields ==
  ASSUME NEW enc, NEW plan, NEW is_parity, NEW index, NEW payload
  PROVE  LET d == Datagram(enc, plan, is_parity, index, payload)
             pos == IF is_parity THEN plan.data_pkts + index ELSE index
         IN  /\ d.is_parity = is_parity
             /\ d.frame_num = enc.next_session_index % WIRE_FRAMES
             /\ d.sizes = IF pos = 0 THEN enc.size_cols[Slot(enc.header_ts)]
                          ELSE enc.size_rows[header_row(enc.header_ts, pos)]
             /\ d.pos_in_frame = pos
             /\ d.stripe_pos_in_frame = index * plan.stripes_per_pkt
             /\ d.payload = payload
             /\ d.payload_len = plan.stripes_per_pkt * StripeSize
BY DEF Datagram, stripe_pos

(* build_data_datagrams cuts the payload, and its packets join to the      *)
(* payload again.                                                          *)
LEMMA DataPayloads ==
  ASSUME CanOpen(config), NEW size \in Nat \ {0}, NEW plan, NEW parity,
         PlanHolds(plan, num_data_stripes(size), parity), NEW enc
  PROVE  LET data == DataDatagrams(enc, size, plan)
             src == <<"frame", enc.next_session_index>>
         IN  /\ \A j \in 1 .. plan.data_pkts :
                  data[j].payload = Cut(src, size, plan.stripes_per_pkt * StripeSize, j - 1)
             /\ Joined([j \in DOMAIN data |-> data[j].payload]) = BytesOf(src, size)
<1> DEFINE data == DataDatagrams(enc, size, plan)
           src == <<"frame", enc.next_session_index>>
           d == plan.stripes_per_pkt * StripeSize
           n == plan.data_pkts
<1>1. StripeSize \in Nat \ {0}
  BY Layout DEF StripeSize
<1>2. /\ num_data_stripes(size) \in Nat \ {0}
      /\ (num_data_stripes(size) - 1) * StripeSize < size
      /\ size <= num_data_stripes(size) * StripeSize
  BY <1>1, StripesHold DEF num_data_stripes
<1>3. /\ n # 0 /\ n \in Nat /\ d \in Nat \ {0} /\ size <= n * d
      /\ \A j \in 0 .. n - 1 : j * d < size
  BY <1>1, <1>2, PacketsReach DEF PlanHolds
<1> HIDE DEF d
<1>4. ASSUME NEW j \in 1 .. n PROVE data[j].payload = Cut(src, size, d, j - 1)
  <2>1. data[j] = Datagram(enc, plan, FALSE, j - 1,
                           SliceOf(Payload(enc.next_session_index, size), (j - 1) * d, d))
    BY DEF DataDatagrams, d
  <2>2. data[j].payload = SliceOf(Payload(enc.next_session_index, size), (j - 1) * d, d)
    <3> DEFINE pl == SliceOf(Payload(enc.next_session_index, size), (j - 1) * d, d)
    <3>1. data[j] = Datagram(enc, plan, FALSE, j - 1, pl)
      BY <2>1
    <3> HIDE DEF pl, data, n
    <3>2. data[j].payload = pl
      BY <3>1 DEF Datagram
    <3> QED
      BY <3>2 DEF pl
  <2>3. Payload(enc.next_session_index, size) = BytesOf(src, size)
    BY DEF Payload
  <2>4. j - 1 \in Nat /\ (j - 1) * d < size /\ d \in Nat /\ size \in Nat
    BY <1>3
  <2>5. SliceOf(BytesOf(src, size), (j - 1) * d, d) = Cut(src, size, d, j - 1)
    <3> HIDE DEF src, n, data
    <3> QED
      BY <2>4, SliceIsCut
  <2> QED
    BY <2>2, <2>3, <2>5
<1>5. DOMAIN data = 1 .. n
  BY DEF DataDatagrams
<1> HIDE DEF data
<1>6. [j \in DOMAIN data |-> data[j].payload] = [j \in 1 .. n |-> Cut(src, size, d, j - 1)]
  BY <1>4, <1>5
<1>7. Joined([j \in 1 .. n |-> Cut(src, size, d, j - 1)]) = BytesOf(src, size)
  <2>1. n \in Nat \ {0} /\ (n - 1) * d < size /\ size <= n * d /\ size \in Nat
    BY <1>3
  <2> HIDE DEF n, src
  <2> QED
    BY <1>3, <2>1, JoinedCuts
<1> QED
  BY <1>4, <1>6, <1>7 DEF data, d

(* The rows of the frame, and the parity packets cut from them.            *)
RowsHeld(enc, n) ==
  \A q \in 0 .. config.max_fec_stripes - 1 :
    enc.rows[first_pos_of_frame(n, TRUE) + q]
      = Cut(<<"parity", n>>, config.max_fec_stripes * StripeSize, StripeSize, q)

(* A full piece does not depend on what follows it.                        *)
LEMMA FullCut ==
  ASSUME NEW src, NEW a \in Nat, NEW b \in Nat, NEW s \in Nat \ {0},
         NEW q \in Nat, q < a, q < b
  PROVE  Cut(src, a * s, s, q) = Cut(src, b * s, s, q)
<1>1. ASSUME NEW c \in Nat, q < c
      PROVE  AtMost(s, c * s - q * s) = s
  <2>1. s * (q + 1) <= s * c
    BY <1>1, MultiplesGrow
  <2>2. s * (q + 1) = q * s + s /\ s * c = c * s
    BY Z3
  <2>3. q * s \in Int /\ c * s \in Int
    <3>1. q * s \in Int
      BY Z3
    <3>2. c * s \in Int
      BY Z3
    <3> QED
      BY <3>1, <3>2
  <2> DEFINE y == q * s
             z == c * s
  <2>4. y + s <= z /\ y \in Int /\ z \in Int
    BY <2>1, <2>2, <2>3
  <2> HIDE DEF y, z
  <2>5. AtMost(s, z - y) = s
    BY <2>4 DEF AtMost
  <2> QED
    BY <2>5 DEF y, z
<1> QED
  BY <1>1 DEF Cut

(* parity_payloads_into cuts the rows of the frame.                        *)
LEMMA ParityPayloads ==
  ASSUME CanOpen(config), NEW plan, NEW data, NEW parity \in 1 .. config.max_fec_stripes,
         PlanHolds(plan, data, parity), NEW enc, NEW n \in Nat, enc.ts = n + 1, RowsHeld(enc, n)
  PROVE  \A j \in 1 .. plan.parity_pkts :
           ParityDatagrams(enc, plan)[j].payload
             = Cut(<<"parity", n>>, parity * StripeSize, plan.stripes_per_pkt * StripeSize, j - 1)
<1> DEFINE s == StripeSize
           src == <<"parity", n>>
           d == plan.stripes_per_pkt * s
           size == parity * s
           rows == [r \in 1 .. plan.parity |-> enc.rows[first_pos_of_frame(n, TRUE) + r - 1]]
<1>1. s \in Nat \ {0} /\ config.max_fec_stripes \in Nat /\ parity \in Nat \ {0}
  BY Layout DEF StripeSize
<1> HIDE DEF s
<1>2. size \in Nat \ {0} /\ (parity - 1) * s < size
  <2>1. size \in Nat /\ size # 0
    BY <1>1, Z3
  <2>2. size = (parity - 1) * s + s /\ (parity - 1) * s \in Int
    BY <1>1, Z3
  <2> DEFINE y == (parity - 1) * s
  <2>3. size = y + s /\ y \in Int
    BY <2>2
  <2> HIDE DEF y, size
  <2>4. y < size
    BY <1>1, <2>3
  <2> QED
    BY <2>1, <2>4 DEF y
<1>3. rows = [r \in 1 .. parity |-> Cut(src, size, s, r - 1)]
  <2>1. plan.parity = parity
    BY DEF PlanHolds
  <2>2. ASSUME NEW r \in 1 .. parity
        PROVE  enc.rows[first_pos_of_frame(n, TRUE) + r - 1] = Cut(src, size, s, r - 1)
    <3>1. r - 1 \in 0 .. config.max_fec_stripes - 1 /\ r - 1 \in Nat
          /\ r - 1 < parity /\ r - 1 < config.max_fec_stripes
      BY <1>1
    <3>2. enc.rows[first_pos_of_frame(n, TRUE) + (r - 1)]
            = Cut(src, config.max_fec_stripes * s, s, r - 1)
      BY <3>1 DEF RowsHeld, s
    <3>3. Cut(src, config.max_fec_stripes * s, s, r - 1) = Cut(src, size, s, r - 1)
      <4> HIDE DEF src
      <4> QED
        BY <1>1, <3>1, FullCut
    <3>4. first_pos_of_frame(n, TRUE) + (r - 1) = first_pos_of_frame(n, TRUE) + r - 1
      <4>1. first_pos_of_frame(n, TRUE) \in Int
        <5>1. NumFrames \in Nat \ {0}
          BY Layout DEF NumFrames
        <5> DEFINE a == n % NumFrames
        <5>2. a \in 0 .. NumFrames - 1
          BY <5>1, IntDivision
        <5>3. a \in Int
          BY <5>2
        <5> HIDE DEF a
        <5>4. a * config.max_fec_stripes \in Int
          BY <1>1, <5>3, Z3
        <5> QED
          BY <5>4 DEF a, first_pos_of_frame, Slot
      <4> QED
        BY <4>1
    <3> QED
      BY <3>2, <3>3, <3>4
  <2> HIDE DEF src, size
  <2> QED
    BY <2>1, <2>2
<1>4. Joined(rows) = BytesOf(src, size)
  <2>1. size <= parity * s /\ size \in Nat
    BY <1>2
  <2> HIDE DEF src, size, rows
  <2>2. Joined([r \in 1 .. parity |-> Cut(src, size, s, r - 1)]) = BytesOf(src, size)
    BY <1>1, <1>2, <2>1, JoinedCuts
  <2> QED
    BY <1>3, <2>2
<1>5. /\ plan.parity_pkts # 0 /\ d \in Nat \ {0}
      /\ \A j \in 0 .. plan.parity_pkts - 1 : j * d < size
  <2>1. size \in Nat \ {0} /\ size <= parity * s
    BY <1>2
  <2>2. /\ plan.stripes_per_pkt \in Nat \ {0} /\ plan.parity_pkts \in Nat
        /\ plan.parity_pkts * plan.stripes_per_pkt = parity
    BY DEF PlanHolds
  <2> HIDE DEF size
  <2> QED
    BY <1>1, <1>2, <2>1, <2>2, PacketsReach
<1> SUFFICES ASSUME NEW j \in 1 .. plan.parity_pkts
             PROVE  ParityDatagrams(enc, plan)[j].payload = Cut(src, size, d, j - 1)
  BY DEF s
<1>6. ParityDatagrams(enc, plan)[j]
        = Datagram(enc, plan, TRUE, j - 1, SliceOf(Joined(rows), (j - 1) * d, d))
  <2>1. enc.ts - 1 = n
    OBVIOUS
  <2> QED
    BY <2>1 DEF ParityDatagrams, s
<1>7. ParityDatagrams(enc, plan)[j].payload = SliceOf(Joined(rows), (j - 1) * d, d)
  <2> DEFINE pl == SliceOf(Joined(rows), (j - 1) * d, d)
             e == ParityDatagrams(enc, plan)[j]
  <2>1. e = Datagram(enc, plan, TRUE, j - 1, pl)
    BY <1>6
  <2> HIDE DEF pl, e
  <2>2. e.payload = pl
    BY <2>1 DEF Datagram
  <2> QED
    BY <2>2 DEF pl, e
<1>8. SliceOf(BytesOf(src, size), (j - 1) * d, d) = Cut(src, size, d, j - 1)
  <2>1. plan.parity_pkts \in Nat
    BY DEF PlanHolds
  <2>2. j - 1 \in Nat /\ (j - 1) * d < size /\ d \in Nat /\ size \in Nat
    BY <1>2, <1>5, <2>1
  <2> HIDE DEF src, size, d
  <2> QED
    BY <2>2, SliceIsCut
<1> QED
  BY <1>4, <1>7, <1>8

-----------------------------------------------------------------------------
(* What encode_payload writes to the grids.                                *)
ColsHold(n, size, before, after) ==
  /\ WritesFrame(NumFrames, config.max_data_stripes, n, before, after)
  /\ \A q \in 0 .. config.max_data_stripes - 1 :
       At(after, first_pos_of_frame(n, FALSE) + q) = Stripe(config, n, size, q)
  /\ DOMAIN after \subseteq
       DOMAIN before \cup Region(NumFrames, config.max_data_stripes, n)

(* encode writes the columns of the frame and no other.                    *)
LEMMA ColsWritten ==
  ASSUME CanOpen(config), NEW n \in Nat, NEW size \in Nat \ {0},
         num_data_stripes(size) <= config.max_data_stripes, NEW before, NEW after,
         after = Placed(Cleared(before, cols_of_frame(n)),
                        StripesPlaced(first_pos_of_frame(n, FALSE), size, Payload(n, size)))
  PROVE  ColsHold(n, size, before, after)
<1> DEFINE M == config.max_data_stripes
           first == first_pos_of_frame(n, FALSE)
           k == num_data_stripes(size)
           placed == StripesPlaced(first, size, Payload(n, size))
           cleared == Cleared(before, cols_of_frame(n))
<1>1. /\ NumFrames \in Nat \ {0} /\ StripeSize \in Nat \ {0} /\ M \in Nat
  BY Layout DEF NumFrames, StripeSize
<1>2. first \in Nat
  <2> DEFINE a == n % NumFrames
  <2>1. a \in 0 .. NumFrames - 1
    BY <1>1, IntDivision
  <2>2. a \in Nat
    BY <2>1
  <2> HIDE DEF a
  <2>3. a * M \in Nat
    BY <1>1, <2>2, Z3
  <2> QED
    BY <2>3 DEF a, first_pos_of_frame, Slot
<1>3. /\ k \in Nat \ {0} /\ k <= M
      /\ (k - 1) * StripeSize < size
  BY <1>1, StripesHold DEF num_data_stripes
<1>4. Region(NumFrames, M, n) = {first + q : q \in 0 .. M - 1}
  BY DEF Region, first_pos_of_frame, Slot
<1>5. DOMAIN placed = first .. first + k - 1
  BY DEF StripesPlaced
<1>6. cols_of_frame(n) = {first + q : q \in 0 .. M - 1}
  BY DEF cols_of_frame
<1>7. ASSUME NEW q \in 0 .. k - 1
      PROVE  placed[first + q] = Cut(<<"frame", n>>, size, StripeSize, q)
  <2> DEFINE o == q * StripeSize
  <2>1. first + q \in first .. first + k - 1 /\ (first + q) - first = q
    <3> HIDE DEF first, k
    <3> QED
      BY <1>2, <1>3
  <2>2. placed[first + q]
          = SliceOf(Payload(n, size), q * StripeSize, final_pos_within_stripe(size, q) + 1)
    <3> DEFINE i == first + q
               b == Payload(n, size)
    <3> HIDE DEF first, b, k, placed
    <3>1. i \in first .. first + k - 1 /\ i - first = q
      BY <2>1
    <3> HIDE DEF i
    <3>2. placed[i]
            = SliceOf(b, (i - first) * StripeSize, final_pos_within_stripe(size, i - first) + 1)
      BY <3>1 DEF StripesPlaced, b, k, placed
    <3> QED
      BY <3>1, <3>2, Zenon DEF i, b
  <2>3. final_pos_within_stripe(size, q) + 1 = AtMost(StripeSize, size - o)
    BY <1>1, FinalPosition
  <2>4. o \in Nat /\ o < size
    <3> HIDE DEF k
    <3> QED
      BY <1>1, <1>3, StripeInside
  <2>5. placed[first + q] = SliceOf(BytesOf(<<"frame", n>>, size), o, AtMost(StripeSize, size - o))
    BY <2>2, <2>3 DEF Payload
  <2> HIDE DEF o, placed, first
  <2>6. AtMost(AtMost(StripeSize, size - o), size - o) = AtMost(StripeSize, size - o)
    BY <1>1, <2>4 DEF AtMost
  <2>7. SliceOf(BytesOf(<<"frame", n>>, size), o, AtMost(StripeSize, size - o))
          = [src |-> <<"frame", n>>, from |-> o, len |-> AtMost(StripeSize, size - o)]
    <3> DEFINE a == AtMost(StripeSize, size - o)
               src == <<"frame", n>>
    <3>1. AtMost(a, size - o) = a
      BY <2>6
    <3> HIDE DEF a, src
    <3>2. SliceOf(BytesOf(src, size), o, a) = [src |-> src, from |-> o, len |-> AtMost(a, size - o)]
      BY <2>4, SliceFromStart
    <3> QED
      BY <3>1, <3>2 DEF a, src
  <2> QED
    BY <2>5, <2>7 DEF Cut, o
<1> HIDE DEF placed, cleared
<1>8. after = Placed(cleared, placed)
  BY DEF placed, cleared
<1>9. WritesFrame(NumFrames, M, n, before, after)
  <2> SUFFICES ASSUME NEW i, i \notin Region(NumFrames, M, n)
               PROVE  At(after, i) = At(before, i)
    BY DEF WritesFrame
  <2>1. i \notin DOMAIN placed /\ i \notin cols_of_frame(n)
    <3>1. \A j \in first .. first + k - 1 : \E q \in 0 .. M - 1 : j = first + q
      <4> SUFFICES ASSUME NEW j \in first .. first + k - 1
                   PROVE  j - first \in 0 .. M - 1 /\ j = first + (j - first)
        OBVIOUS
      <4> HIDE DEF first, k
      <4> QED
        BY <1>1, <1>2, <1>3
    <3> HIDE DEF first, k
    <3> QED
      BY <1>4, <1>5, <1>6, <3>1
  <2>2. At(after, i) = At(cleared, i)
    <3>1. At(Placed(cleared, placed), i) = At(cleared, i)
      BY <2>1, AtPlaced
    <3> QED
      BY <1>8, <3>1, Zenon
  <2>3. At(cleared, i) = At(before, i)
    BY <2>1, AtCleared DEF cleared
  <2> QED
    BY <2>2, <2>3
<1>10. ASSUME NEW q \in 0 .. M - 1
       PROVE  At(after, first + q) = Stripe(config, n, size, q)
  <2> DEFINE i == first + q
  <2>1. At(after, i) = IF i \in DOMAIN placed THEN placed[i] ELSE At(cleared, i)
    <3>1. At(Placed(cleared, placed), i)
            = IF i \in DOMAIN placed THEN placed[i] ELSE At(cleared, i)
      <4> HIDE DEF i
      <4> QED
        BY AtPlaced
    <3> QED
      BY <1>8, <3>1, Zenon
  <2>2. i \in DOMAIN placed <=> q < k
    <3> HIDE DEF first, k
    <3> QED
      BY <1>1, <1>2, <1>3, <1>5
  <2>3. At(cleared, i) = Zeros
    <3>1. i \in cols_of_frame(n)
      BY <1>6
    <3> HIDE DEF i
    <3> QED
      BY <3>1, AtCleared DEF cleared
  <2>4. q < k => placed[i] = Cut(<<"frame", n>>, size, StripeSize, q)
    <3>1. q < k => q \in 0 .. k - 1
      <4> HIDE DEF k
      <4> QED
        BY <1>3
    <3> HIDE DEF k, first
    <3> QED
      BY <1>7, <3>1
  <2>5. Stripe(config, n, size, q)
          = IF q < k THEN Cut(<<"frame", n>>, size, StripeSize, q) ELSE Zeros
    BY DEF Stripe, num_data_stripes, StripeSize
  <2> HIDE DEF i, k
  <2> QED
    BY <2>1, <2>2, <2>3, <2>4, <2>5 DEF i
<1>11. DOMAIN after \subseteq DOMAIN before \cup Region(NumFrames, M, n)
  <2>1. DOMAIN after = DOMAIN placed \cup DOMAIN cleared
    BY <1>8, PlacedDomain
  <2>2. DOMAIN cleared \subseteq DOMAIN before
    BY ClearedDomain DEF cleared
  <2>3. DOMAIN placed \subseteq Region(NumFrames, M, n)
    <3>1. \A j \in first .. first + k - 1 : \E q \in 0 .. M - 1 : j = first + q
      <4> SUFFICES ASSUME NEW j \in first .. first + k - 1
                   PROVE  j - first \in 0 .. M - 1 /\ j = first + (j - first)
        OBVIOUS
      <4> HIDE DEF first, k
      <4> QED
        BY <1>1, <1>2, <1>3
    <3> HIDE DEF first, k
    <3> QED
      BY <1>4, <1>5, <3>1
  <2> QED
    BY <2>1, <2>2, <2>3
<1> QED
  BY <1>9, <1>10, <1>11 DEF ColsHold

(* The other grids: an entry for the frame's size, and rows for its slot.  *)
LEMMA RegionWritten ==
  ASSUME NEW W, NEW m, NEW n, NEW before, NEW contents,
         DOMAIN contents \subseteq Region(W, m, n)
  PROVE  /\ WritesFrame(W, m, n, before, Placed(before, contents))
         /\ \A i \in DOMAIN contents : At(Placed(before, contents), i) = contents[i]
         /\ DOMAIN Placed(before, contents) \subseteq DOMAIN before \cup Region(W, m, n)
<1>1. ASSUME NEW i, i \notin Region(W, m, n)
      PROVE  At(Placed(before, contents), i) = At(before, i)
  BY <1>1, AtPlaced
<1>2. ASSUME NEW i \in DOMAIN contents PROVE At(Placed(before, contents), i) = contents[i]
  BY AtPlaced
<1>3. DOMAIN Placed(before, contents) = DOMAIN contents \cup DOMAIN before
  BY PlacedDomain
<1> QED
  BY <1>1, <1>2, <1>3 DEF WritesFrame

(* A region of the frame n touches no other frame of the window.           *)
LEMMA OthersKeep ==
  ASSUME NEW W \in Nat \ {0}, NEW m \in Nat, NEW n \in Int, NEW f \in Int, f < n, n - f < W,
         NEW before, NEW after, WritesFrame(W, m, n, before, after), NEW i \in Region(W, m, f)
  PROVE  At(after, i) = At(before, i)
<1>1. i \notin Region(W, m, n)
  <2>1. Region(W, m, f) \cap Region(W, m, n) = {}
    BY RegionsApart DEF Apart
  <2> QED
    BY <2>1
<1> QED
  BY <1>1 DEF WritesFrame

(* The whole of encode_payload's effect on the grids.                      *)
Wrote(c, n, size, before, after) ==
  /\ DOMAIN after = SenderFields
  /\ after.next_session_index = n + 1 /\ after.ts = n + 1 /\ after.header_ts = n
  /\ WritesFrame(window_frames(c), c.max_data_stripes, n, before.cols, after.cols)
  /\ WritesFrame(window_frames(c), c.max_fec_stripes, n, before.rows, after.rows)
  /\ WritesFrame(window_frames(c), 1, n, before.size_cols, after.size_cols)
  /\ WritesFrame(window_frames(c), max_pkts_per_frame(c), n, before.size_rows, after.size_rows)
  /\ DOMAIN after.cols \subseteq
       DOMAIN before.cols \cup Region(window_frames(c), c.max_data_stripes, n)
  /\ DOMAIN after.size_cols \subseteq
       DOMAIN before.size_cols \cup Region(window_frames(c), 1, n)
  /\ FrameHeld(c, n, size, after)

(* The sender holds one frame more.                                        *)
LEMMA WroteHolds ==
  ASSUME NEW c, CanOpen(c), NEW n \in Nat, NEW size, NEW sizes, NEW more, NEW before, NEW after,
         SenderHolds(c, n, sizes, before), Wrote(c, n, size, before, after),
         \A f \in 0 .. n - 1 : more[f + 1] = sizes[f + 1], more[n + 1] = size
  PROVE  SenderHolds(c, n + 1, more, after)
<1> DEFINE W == window_frames(c)
           M == c.max_data_stripes
<1>1. W \in Nat \ {0} /\ M \in Nat
  BY Layout
<1>2. ASSUME NEW f \in 0 .. n - 1, n + 1 - f <= W
      PROVE  FrameHeld(c, f, sizes[f + 1], after)
  <2>1. n - f <= W /\ n - f < W /\ f \in Int /\ f < n /\ n \in Int
    BY <1>1, <1>2
  <2>2. FrameHeld(c, f, sizes[f + 1], before)
    BY <2>1 DEF SenderHolds
  <2>3. ASSUME NEW q \in 0 .. M - 1
        PROVE  At(after.cols, (f % W) * M + q) = Stripe(c, f, sizes[f + 1], q)
    <3> DEFINE i == (f % W) * M + q
    <3>1. i \in Region(W, M, f)
      BY DEF Region
    <3>2. At(before.cols, i) = Stripe(c, f, sizes[f + 1], q)
      BY <2>2 DEF FrameHeld
    <3> HIDE DEF i
    <3>3. At(after.cols, i) = At(before.cols, i)
      <4>1. WritesFrame(W, M, n, before.cols, after.cols)
        BY DEF Wrote
      <4> HIDE DEF W, M
      <4> QED
        BY <1>1, <2>1, <3>1, <4>1, OthersKeep
    <3> QED
      BY <3>2, <3>3 DEF i
  <2>4. At(after.size_cols, f % W) = BytesOf(<<"size", f>>, sizes[f + 1])
    <3> DEFINE i == f % W
    <3>1. i \in Region(W, 1, f)
      <4>1. i * 1 + 0 = i
        <5>1. i \in 0 .. W - 1
          BY <1>1, <2>1, IntDivision
        <5> HIDE DEF i
        <5> QED
          BY <5>1
      <4>2. 0 \in 0 .. 1 - 1
        OBVIOUS
      <4>3. i * 1 + 0 \in Region(W, 1, f)
        BY <4>2 DEF Region
      <4> QED
        BY <4>1, <4>3
    <3>2. At(before.size_cols, i) = BytesOf(<<"size", f>>, sizes[f + 1])
      BY <2>2 DEF FrameHeld
    <3> HIDE DEF i
    <3>3. At(after.size_cols, i) = At(before.size_cols, i)
      <4>1. WritesFrame(W, 1, n, before.size_cols, after.size_cols)
        BY DEF Wrote
      <4>2. 1 \in Nat
        OBVIOUS
      <4> HIDE DEF W
      <4> QED
        BY <1>1, <2>1, <3>1, <4>1, <4>2, OthersKeep
    <3> QED
      BY <3>2, <3>3 DEF i
  <2> QED
    BY <2>3, <2>4 DEF FrameHeld
<1>3. ASSUME NEW f \in 0 .. n + 1 - 1, n + 1 - f <= W
      PROVE  FrameHeld(c, f, more[f + 1], after)
  <2>1. CASE f = n
    BY <2>1 DEF Wrote
  <2>2. CASE f # n
    <3>1. f \in 0 .. n - 1
      BY <2>2
    <3> QED
      BY <1>2, <1>3, <3>1
  <2> QED
    BY <2>1, <2>2
<1>4. ASSUME NEW m \in Nat PROVE Region(W, m, n) \subseteq Cells(W, m)
  <2>1. n \in Int
    OBVIOUS
  <2> HIDE DEF W
  <2> QED
    BY <1>1, <2>1, RegionsCover DEF Covered
<1>5. DOMAIN after.cols \subseteq Cells(W, M)
  BY <1>1, <1>4 DEF SenderHolds, Wrote
<1>6. DOMAIN after.size_cols \subseteq Cells(W, 1)
  BY <1>4 DEF SenderHolds, Wrote
<1>7. n + 1 - 1 = n
  OBVIOUS
<1> QED
  BY <1>3, <1>5, <1>6, <1>7 DEF SenderHolds, Wrote

(* encode writes the rows of the frame and no other.                       *)
LEMMA RowsWritten ==
  ASSUME CanOpen(config), NEW n \in Nat, NEW before, NEW after, NEW enc,
         after = Placed(before, ParityPieces(n)), enc.rows = after
  PROVE  /\ WritesFrame(NumFrames, config.max_fec_stripes, n, before, after)
         /\ RowsHeld(enc, n)
         /\ \A q \in 0 .. config.max_fec_stripes - 1 :
              first_pos_of_frame(n, TRUE) + q \in DOMAIN after
<1> DEFINE F == config.max_fec_stripes
           first == first_pos_of_frame(n, TRUE)
           pieces == ParityPieces(n)
           s == StripeSize
           src == <<"parity", n>>
<1>1. /\ NumFrames \in Nat \ {0} /\ s \in Nat \ {0} /\ F \in Nat
  BY Layout DEF NumFrames, StripeSize
<1>2. first \in Nat
  <2> DEFINE a == n % NumFrames
  <2>1. a \in 0 .. NumFrames - 1
    BY <1>1, IntDivision
  <2>2. a \in Nat
    BY <2>1
  <2> HIDE DEF a
  <2>3. a * F \in Nat
    BY <1>1, <2>2, Z3
  <2> QED
    BY <2>3 DEF a, first_pos_of_frame, Slot
<1>3. rows_of_frame(n) = {first + q : q \in 0 .. F - 1}
  BY DEF rows_of_frame
<1>4. DOMAIN pieces = rows_of_frame(n) /\ rows_of_frame(n) = Region(NumFrames, F, n)
  BY Regions DEF ParityPieces
<1>5. ASSUME NEW q \in 0 .. F - 1 PROVE pieces[first + q] = Cut(src, F * s, s, q)
  <2> DEFINE i == first + q
             size == F * s
  <2>1. i \in rows_of_frame(n)
    BY <1>3
  <2>2. i - first = q
    <3> HIDE DEF first
    <3> QED
      BY <1>2
  <2>3. size \in Nat /\ q * s < size /\ q * s \in Nat
    <3>1. s * (q + 1) <= s * F
      BY <1>1, MultiplesGrow
    <3>2. s * (q + 1) = q * s + s /\ s * F = size
      BY <1>1, Z3
    <3>3. q * s \in Nat
      BY <1>1, Z3
    <3>4. size \in Nat
      BY <1>1, Z3
    <3> DEFINE y == q * s
    <3>5. y + s <= size /\ y \in Nat
      BY <3>1, <3>2, <3>3
    <3> HIDE DEF size, y, s
    <3>6. y < size
      BY <1>1, <3>4, <3>5
    <3> QED
      BY <3>4, <3>5, <3>6 DEF y
  <2>4. pieces[i] = SliceOf(BytesOf(src, size), q * s, s)
    <3> DEFINE b == BytesOf(src, size)
    <3>1. pieces = [j \in rows_of_frame(n) |-> SliceOf(b, (j - first) * s, s)]
      BY DEF ParityPieces
    <3> HIDE DEF b, pieces, first, i, s
    <3>2. pieces[i] = SliceOf(b, (i - first) * s, s)
      BY <2>1, <3>1
    <3> QED
      BY <2>2, <3>2, Zenon DEF b
  <2>5. SliceOf(BytesOf(src, size), q * s, s) = Cut(src, size, s, q)
    <3>1. s \in Nat /\ q \in Nat
      BY <1>1
    <3> HIDE DEF size, src, s
    <3> QED
      BY <2>3, <3>1, SliceIsCut
  <2> QED
    BY <2>4, <2>5, Zenon
<1> HIDE DEF pieces, first, s, src
<1>6. \A q \in 0 .. F - 1 : first + q \in DOMAIN pieces
  BY <1>3, <1>4
<1>7. DOMAIN pieces \subseteq Region(NumFrames, F, n) /\ after = Placed(before, pieces)
  BY <1>4 DEF pieces
<1>8. WritesFrame(NumFrames, F, n, before, after)
  <2>1. WritesFrame(NumFrames, F, n, before, Placed(before, pieces))
    BY <1>7, RegionWritten
  <2> QED
    BY <1>7, <2>1, Zenon
<1>9. DOMAIN after = DOMAIN pieces \cup DOMAIN before
  BY <1>7, PlacedDomain
<1>10. ASSUME NEW q \in 0 .. F - 1 PROVE after[first + q] = Cut(src, F * s, s, q)
  <2> DEFINE i == first + q
  <2>1. i \in DOMAIN pieces
    BY <1>6
  <2>2. after[i] = pieces[i]
    <3> HIDE DEF i
    <3> QED
      BY <1>7, <2>1 DEF Placed
  <2> QED
    BY <1>5, <2>2
<1> QED
  BY <1>6, <1>8, <1>9, <1>10 DEF RowsHeld, first, s, src

(* The header code's entry and rows.                                       *)
LEMMA SizesWritten ==
  ASSUME CanOpen(config), NEW n \in Nat, NEW entry, NEW before, NEW rows, NEW content
  PROVE  LET cols == Placed(before, Only(Slot(n), entry))
             more == Placed(rows, [i \in header_rows_of_frame(n) |-> content[i]])
         IN  /\ WritesFrame(NumFrames, 1, n, before, cols)
             /\ DOMAIN cols \subseteq DOMAIN before \cup Region(NumFrames, 1, n)
             /\ At(cols, Slot(n)) = entry /\ cols[Slot(n)] = entry
             /\ WritesFrame(NumFrames, HeaderRows, n, rows, more)
             /\ header_rows_of_frame(n) \subseteq DOMAIN more
<1> DEFINE one == Only(Slot(n), entry)
           many == [i \in header_rows_of_frame(n) |-> content[i]]
<1>1. NumFrames \in Nat \ {0} /\ n \in Int
  BY Layout DEF NumFrames
<1>2. DOMAIN one = {Slot(n)} /\ one[Slot(n)] = entry
  BY DEF Only
<1>3. {Slot(n)} = Region(NumFrames, 1, n)
  BY <1>1, SizeRegion
<1>4. DOMAIN many = Region(NumFrames, HeaderRows, n) /\ DOMAIN many = header_rows_of_frame(n)
  BY Regions
<1> HIDE DEF one, many
<1>5. /\ WritesFrame(NumFrames, 1, n, before, Placed(before, one))
      /\ DOMAIN Placed(before, one) \subseteq DOMAIN before \cup Region(NumFrames, 1, n)
      /\ At(Placed(before, one), Slot(n)) = one[Slot(n)]
  <2> DEFINE R == Region(NumFrames, 1, n)
             p == Slot(n)
             m == 1
  <2>1. DOMAIN one \subseteq Region(NumFrames, m, n) /\ p \in DOMAIN one
    BY <1>2, <1>3
  <2> HIDE DEF m, p
  <2>2. /\ WritesFrame(NumFrames, m, n, before, Placed(before, one))
        /\ DOMAIN Placed(before, one) \subseteq DOMAIN before \cup Region(NumFrames, m, n)
    BY <2>1, RegionWritten
  <2>3. At(Placed(before, one), p) = one[p]
    BY <2>1, AtPlaced
  <2> QED
    BY <2>2, <2>3 DEF m, p
<1>6. Placed(before, one)[Slot(n)] = one[Slot(n)]
  BY <1>2 DEF Placed
<1>7. /\ WritesFrame(NumFrames, HeaderRows, n, rows, Placed(rows, many))
      /\ DOMAIN Placed(rows, many) = DOMAIN many \cup DOMAIN rows
  BY <1>4, RegionWritten, PlacedDomain
<1> QED
  BY <1>2, <1>4, <1>5, <1>6, <1>7 DEF one, many

(* The encoder after encode_payload of a plan that fits.                   *)
LEMMA EncodeWrites ==
  ASSUME CanOpen(config), NEW n \in Nat, NEW sizes, SenderHolds(config, n, sizes, tx),
         NEW size \in Nat \ {0}, num_data_stripes(size) <= config.max_data_stripes,
         NEW plan, NEW parity, PlanHolds(plan, num_data_stripes(size), parity), NEW sqn
  PROVE  LET enc == HeaderEncoded(size)
             coded == CodeEncoded(enc, size, DataDatagrams(enc, size, plan))
             after == [coded EXCEPT !.sqn = sqn, !.next_session_index = n + 1]
         IN  /\ Wrote(config, n, size, tx, after)
             /\ RowsHeld(coded, n)
             /\ \A q \in 0 .. config.max_fec_stripes - 1 :
                  first_pos_of_frame(n, TRUE) + q \in DOMAIN after.rows
             /\ enc.next_session_index = n /\ coded.next_session_index = n
             /\ enc.header_ts = n /\ coded.header_ts = n /\ coded.ts = n + 1
             /\ coded.rows = after.rows
             /\ enc.size_cols = after.size_cols /\ coded.size_cols = after.size_cols
             /\ enc.size_rows = after.size_rows /\ coded.size_rows = after.size_rows
             /\ after.size_cols[Slot(n)] = At(after.size_cols, Slot(n))
             /\ header_rows_of_frame(n) \subseteq DOMAIN after.size_rows
<1> DEFINE enc == HeaderEncoded(size)
           data == DataDatagrams(enc, size, plan)
           coded == CodeEncoded(enc, size, data)
           after == [coded EXCEPT !.sqn = sqn, !.next_session_index = n + 1]
           first == first_pos_of_frame(n, FALSE)
           entry == BytesOf(<<"size", n>>, size)
           content == [i \in header_rows_of_frame(n) |-> BytesOf(<<"sizes", n, i>>, 8)]
<1>1. /\ DOMAIN tx = SenderFields /\ tx.next_session_index = n /\ tx.ts = n
      /\ tx.header_ts + 1 = n
  BY DEF SenderHolds
<1>2. /\ DOMAIN enc = SenderFields /\ enc.next_session_index = n /\ enc.ts = n
      /\ enc.header_ts = n /\ enc.cols = tx.cols /\ enc.rows = tx.rows
      /\ enc.size_cols = Placed(tx.size_cols, Only(Slot(n), entry))
      /\ enc.size_rows = Placed(tx.size_rows, [i \in header_rows_of_frame(n) |-> content[i]])
  <2>1. [i \in header_rows_of_frame(n) |-> content[i]] = content
    OBVIOUS
  <2> HIDE DEF entry
  <2> QED
    BY <1>1, <2>1, HeaderEncodedFields DEF entry
<1> HIDE DEF enc
<1>3. Joined([j \in DOMAIN data |-> data[j].payload]) = Payload(n, size)
  <2>1. Joined([j \in DOMAIN data |-> data[j].payload])
          = BytesOf(<<"frame", enc.next_session_index>>, size)
    BY DataPayloads
  <2> QED
    BY <1>2, <2>1, Zenon DEF Payload
<1> HIDE DEF data
<1>4. /\ coded.next_session_index = n /\ coded.ts = n + 1 /\ coded.header_ts = n
      /\ coded.size_cols = enc.size_cols /\ coded.size_rows = enc.size_rows
      /\ coded.cols = Placed(Cleared(tx.cols, cols_of_frame(n)),
                             StripesPlaced(first, size, Payload(n, size)))
      /\ coded.rows = Placed(tx.rows, ParityPieces(n))
      /\ DOMAIN after = SenderFields /\ after.next_session_index = n + 1
      /\ after.ts = coded.ts /\ after.header_ts = coded.header_ts
      /\ after.cols = coded.cols /\ after.rows = coded.rows
      /\ after.size_cols = coded.size_cols /\ after.size_rows = coded.size_rows
  <2> DEFINE next == n + 1
             frame == Joined([j \in DOMAIN data |-> data[j].payload])
             before_first == first_pos_of_frame(enc.ts, FALSE)
  <2>1. /\ coded.next_session_index = enc.next_session_index /\ coded.ts = enc.ts + 1
        /\ coded.header_ts = enc.header_ts
        /\ coded.size_cols = enc.size_cols /\ coded.size_rows = enc.size_rows
        /\ coded.cols = Placed(Cleared(enc.cols, cols_of_frame(enc.ts)),
                               StripesPlaced(before_first, size, frame))
        /\ coded.rows = Placed(enc.rows, ParityPieces(enc.ts))
        /\ DOMAIN after = SenderFields /\ after.next_session_index = next
        /\ after.ts = coded.ts /\ after.header_ts = coded.header_ts
        /\ after.cols = coded.cols /\ after.rows = coded.rows
        /\ after.size_cols = coded.size_cols /\ after.size_rows = coded.size_rows
    <3>1. EncodedFrom(enc, size, data, coded, after, next)
      <4> DEFINE cols == Placed(Cleared(enc.cols, cols_of_frame(enc.ts)),
                                StripesPlaced(before_first, size, frame))
                 rows == Placed(enc.rows, ParityPieces(enc.ts))
                 ts == enc.ts + 1
      <4>1. DOMAIN enc = SenderFields
        BY <1>2
      <4>2. coded = [enc EXCEPT !.ts = ts, !.cols = cols, !.rows = rows]
        BY DEF coded, CodeEncoded, StripesPlaced, ParityPieces
      <4>3. after = [coded EXCEPT !.sqn = sqn, !.next_session_index = next]
        BY DEF after
      <4> HIDE DEF cols, rows, ts, coded, after, next
      <4>4. /\ DOMAIN coded = SenderFields /\ coded.next_session_index = enc.next_session_index
            /\ coded.ts = ts /\ coded.header_ts = enc.header_ts
            /\ coded.size_cols = enc.size_cols /\ coded.size_rows = enc.size_rows
            /\ coded.cols = cols /\ coded.rows = rows
        BY <4>1, <4>2 DEF SenderFields
      <4>5. /\ DOMAIN after = SenderFields /\ after.next_session_index = next
            /\ after.ts = coded.ts /\ after.header_ts = coded.header_ts
            /\ after.cols = coded.cols /\ after.rows = coded.rows
            /\ after.size_cols = coded.size_cols /\ after.size_rows = coded.size_rows
        BY <4>3, <4>4 DEF SenderFields
      <4> QED
        BY <4>4, <4>5 DEF EncodedFrom, cols, rows, ts
    <3> QED
      BY <1>2, <3>1 DEF EncodedFrom
  <2> HIDE DEF coded, after
  <2> QED
    BY <1>2, <1>3, <2>1
<1> HIDE DEF coded, after
<1>5. /\ WritesFrame(NumFrames, config.max_data_stripes, n, tx.cols, after.cols)
      /\ \A q \in 0 .. config.max_data_stripes - 1 :
           At(after.cols, first + q) = Stripe(config, n, size, q)
      /\ DOMAIN after.cols \subseteq
           DOMAIN tx.cols \cup Region(NumFrames, config.max_data_stripes, n)
  <2> DEFINE before == tx.cols
             now == after.cols
  <2>1. now = Placed(Cleared(before, cols_of_frame(n)),
                     StripesPlaced(first_pos_of_frame(n, FALSE), size, Payload(n, size)))
    BY <1>4
  <2> HIDE DEF before, now, first
  <2>2. ColsHold(n, size, before, now)
    BY <2>1, ColsWritten
  <2> QED
    BY <2>2 DEF before, now, first, ColsHold
<1>6. /\ WritesFrame(NumFrames, config.max_fec_stripes, n, tx.rows, after.rows)
      /\ RowsHeld(coded, n)
      /\ \A q \in 0 .. config.max_fec_stripes - 1 :
           first_pos_of_frame(n, TRUE) + q \in DOMAIN after.rows
  <2>1. coded.rows = after.rows /\ after.rows = Placed(tx.rows, ParityPieces(n))
    BY <1>4
  <2> DEFINE before == tx.rows
             now == after.rows
  <2>2. now = Placed(before, ParityPieces(n)) /\ coded.rows = now
    BY <2>1
  <2> HIDE DEF before, now
  <2>3. /\ WritesFrame(NumFrames, config.max_fec_stripes, n, before, now)
        /\ RowsHeld(coded, n)
        /\ \A q \in 0 .. config.max_fec_stripes - 1 :
             first_pos_of_frame(n, TRUE) + q \in DOMAIN now
    BY <2>2, RowsWritten
  <2> QED
    BY <2>3 DEF before, now
<1>7. /\ WritesFrame(NumFrames, 1, n, tx.size_cols, after.size_cols)
      /\ DOMAIN after.size_cols \subseteq DOMAIN tx.size_cols \cup Region(NumFrames, 1, n)
      /\ At(after.size_cols, Slot(n)) = entry /\ after.size_cols[Slot(n)] = entry
      /\ WritesFrame(NumFrames, HeaderRows, n, tx.size_rows, after.size_rows)
      /\ header_rows_of_frame(n) \subseteq DOMAIN after.size_rows
  <2> DEFINE before == tx.size_cols
             rows == tx.size_rows
             now == after.size_cols
             more == after.size_rows
  <2>1. /\ now = Placed(before, Only(Slot(n), entry))
        /\ more = Placed(rows, [i \in header_rows_of_frame(n) |-> content[i]])
    BY <1>2, <1>4, Zenon
  <2> HIDE DEF before, rows, now, more, entry, content
  <2>2. LET a == Placed(before, Only(Slot(n), entry))
            b == Placed(rows, [i \in header_rows_of_frame(n) |-> content[i]])
        IN  /\ WritesFrame(NumFrames, 1, n, before, a)
            /\ DOMAIN a \subseteq DOMAIN before \cup Region(NumFrames, 1, n)
            /\ At(a, Slot(n)) = entry /\ a[Slot(n)] = entry
            /\ WritesFrame(NumFrames, HeaderRows, n, rows, b)
            /\ header_rows_of_frame(n) \subseteq DOMAIN b
    BY SizesWritten
  <2>3. /\ WritesFrame(NumFrames, 1, n, before, now)
        /\ DOMAIN now \subseteq DOMAIN before \cup Region(NumFrames, 1, n)
        /\ At(now, Slot(n)) = entry /\ now[Slot(n)] = entry
        /\ WritesFrame(NumFrames, HeaderRows, n, rows, more)
        /\ header_rows_of_frame(n) \subseteq DOMAIN more
    BY <2>1, <2>2, Zenon
  <2> QED
    BY <2>3 DEF before, rows, now, more
<1>8. Wrote(config, n, size, tx, after)
  <2>1. FrameHeld(config, n, size, after)
    <3>1. first = (n % window_frames(config)) * config.max_data_stripes
      BY DEF first_pos_of_frame, Slot, NumFrames
    <3> HIDE DEF first
    <3> QED
      BY <1>5, <1>7, <3>1 DEF FrameHeld, Slot, NumFrames
  <2> QED
    BY <1>4, <1>5, <1>6, <1>7, <2>1 DEF Wrote, NumFrames, HeaderRows
<1> QED
  BY <1>2, <1>4, <1>6, <1>7, <1>8 DEF enc, data, coded, after

(* A whole number of stripes.                                              *)
LEMMA ExactQuotient ==
  ASSUME NEW a \in Nat, NEW s \in Nat \ {0}
  PROVE  (a * s) \div s = a
<1> DEFINE x == a * s
           d == x \div s
<1>1. x \in Int
  BY Z3
<1>2. d \in Int /\ x = s * d + (x % s) /\ x % s \in 0 .. s - 1
  BY <1>1, IntDivision
<1>3. s * (a - d) = x - s * d
  <2>1. d \in Int
    BY <1>2
  <2> HIDE DEF d
  <2> QED
    BY <2>1, Distributes
<1>4. s * (a - d) = x % s
  <2> DEFINE y == s * d
             z == s * (a - d)
             r == x % s
  <2>1. y \in Int /\ z = x - y /\ x = y + r /\ r \in Int
    <3>1. y \in Int
      BY <1>2, Z3
    <3> QED
      BY <1>2, <1>3, <3>1
  <2> HIDE DEF x, d, y, z, r
  <2>2. z = r
    BY <1>1, <2>1
  <2> QED
    BY <2>2 DEF z, r
<1>5. a - d = 0
  <2> DEFINE k == a - d
             r == x % s
  <2>1. k \in Int /\ s * k = r /\ r \in 0 .. s - 1
    BY <1>2, <1>4
  <2> HIDE DEF k, r
  <2>2. s * k < s /\ -s < s * k
    BY <2>1
  <2> QED
    BY <2>1, <2>2, NoMultipleBetween DEF k
<1> QED
  BY <1>2, <1>5

-----------------------------------------------------------------------------
(* What a datagram carries: of its frame, of the code's grids.             *)
StripesCarried(c, m, f, d, grid) ==
  /\ d.stripe_pos_in_frame \in Nat
  /\ d.payload_len \div stripe_size(c) \in Nat
  /\ \A q \in 0 .. d.payload_len \div stripe_size(c) - 1 :
       /\ d.stripe_pos_in_frame + q \in 0 .. m - 1
       /\ SliceOf(d.payload, q * stripe_size(c), stripe_size(c))
            = At(grid, (f % window_frames(c)) * m + (d.stripe_pos_in_frame + q))

(* A datagram of frame f carries the size, or its packet's row of the      *)
(* header code.                                                            *)
HeaderCarried(c, f, enc, d) ==
  /\ d.frame_num = f /\ d.pos_in_frame \in Nat
  /\ d.pos_in_frame = 0 => d.sizes = At(enc.size_cols, f % window_frames(c))
  /\ d.pos_in_frame # 0 =>
       d.sizes = At(enc.size_rows, (f % window_frames(c)) * max_pkts_per_frame(c)
                                     + ((d.pos_in_frame - 1) % max_pkts_per_frame(c)))

(* A datagram carries stripes of its frame, from the place it names.       *)
Carries(c, f, enc, d) ==
  /\ HeaderCarried(c, f, enc, d)
  /\ \/ d.is_parity = FALSE /\ StripesCarried(c, c.max_data_stripes, f, d, enc.cols)
     \/ d.is_parity = TRUE /\ StripesCarried(c, c.max_fec_stripes, f, d, enc.rows)

(* The header code at the frame's packets.                                 *)
HeaderReady(n, enc, after) ==
  /\ enc.next_session_index = n /\ enc.header_ts = n
  /\ enc.size_cols = after.size_cols /\ enc.size_rows = after.size_rows
  /\ after.size_cols[Slot(n)] = At(after.size_cols, Slot(n))
  /\ header_rows_of_frame(n) \subseteq DOMAIN after.size_rows

(* Every packet carries its part of the header code.                       *)
LEMMA HeaderIsCarried ==
  ASSUME CanOpen(config), NEW n \in 0 .. WIRE_FRAMES - 1, NEW enc, NEW after,
         HeaderReady(n, enc, after), NEW pos \in Nat, NEW d, d.pos_in_frame = pos,
         d.frame_num = enc.next_session_index % WIRE_FRAMES,
         d.sizes = IF pos = 0 THEN enc.size_cols[Slot(enc.header_ts)]
                   ELSE enc.size_rows[header_row(enc.header_ts, pos)]
  PROVE  HeaderCarried(config, n, after, d)
<1> DEFINE row == header_row(n, pos)
<1>1. NumFrames \in Nat \ {0} /\ HeaderRows \in Nat \ {0} /\ n \in Int
  BY Layout DEF NumFrames, HeaderRows, WIRE_FRAMES
<1>2. n % WIRE_FRAMES = n
  <2>1. WIRE_FRAMES \in Nat \ {0} /\ 0 \in Int /\ n = WIRE_FRAMES * 0 + n
    BY DEF WIRE_FRAMES
  <2> QED
    BY <1>1, <2>1, RemainderUnique
<1>3. CASE pos = 0
  BY <1>2, <1>3 DEF HeaderReady, HeaderCarried, Slot, NumFrames
<1>4. CASE pos # 0
  <2> DEFINE r == (pos - 1) % HeaderRows
  <2>1. r \in 0 .. HeaderRows - 1
    BY <1>1, <1>4, IntDivision
  <2>2. row \in header_rows_of_frame(n)
    <3> HIDE DEF r
    <3>1. Slot(n) * HeaderRows + r \in header_rows_of_frame(n)
      BY <2>1 DEF header_rows_of_frame
    <3> QED
      BY <3>1 DEF header_row, r
  <2>3. d.sizes = At(after.size_rows, row)
    <3> HIDE DEF row
    <3>1. d.sizes = after.size_rows[row]
      BY <1>4 DEF HeaderReady, row
    <3> QED
      BY <2>2, <3>1 DEF HeaderReady, At
  <2> QED
    BY <1>2, <1>4, <2>3 DEF HeaderReady, HeaderCarried, header_row, Slot, NumFrames, HeaderRows
<1> QED
  BY <1>3, <1>4

(* Every data packet carries columns of its frame.                         *)
LEMMA DataIsCarried ==
  ASSUME CanOpen(config), NEW n \in 0 .. WIRE_FRAMES - 1, NEW enc, NEW after,
         HeaderReady(n, enc, after), NEW size \in Nat \ {0}, NEW plan, NEW parity,
         num_data_stripes(size) <= config.max_data_stripes,
         PlanHolds(plan, num_data_stripes(size), parity),
         FrameHeld(config, n, size, after), NEW j \in 1 .. plan.data_pkts
  PROVE  Carries(config, n, after, DataDatagrams(enc, size, plan)[j])
<1> DEFINE d == DataDatagrams(enc, size, plan)[j]
           k == plan.stripes_per_pkt
           s == StripeSize
           count == num_data_stripes(size)
           M == config.max_data_stripes
           src == <<"frame", n>>
<1>1. /\ s \in Nat \ {0} /\ k \in Nat \ {0} /\ count \in Nat \ {0} /\ M \in Nat
      /\ plan.data_pkts \in Nat /\ plan.data_pkts * k = count
      /\ (count - 1) * s < size /\ s = stripe_size(config) /\ j - 1 \in 0 .. plan.data_pkts - 1
      /\ count = CeilDiv(size, stripe_size(config))
  <2>1. s \in Nat \ {0} /\ M \in Nat /\ s = stripe_size(config)
    BY Layout DEF StripeSize
  <2> QED
    BY <2>1, StripesHold DEF num_data_stripes, PlanHolds
<1>2. /\ d.is_parity = FALSE /\ d.pos_in_frame = j - 1
      /\ d.frame_num = enc.next_session_index % WIRE_FRAMES
      /\ d.stripe_pos_in_frame = (j - 1) * k /\ d.payload_len = k * s
      /\ d.sizes = IF j - 1 = 0 THEN enc.size_cols[Slot(enc.header_ts)]
                   ELSE enc.size_rows[header_row(enc.header_ts, j - 1)]
  BY DEF DataDatagrams, Datagram, stripe_pos
<1>3. d.payload = Cut(src, size, k * s, j - 1)
  <2>1. d.payload = Cut(<<"frame", enc.next_session_index>>, size, k * s, j - 1)
    BY DataPayloads
  <2> QED
    BY <2>1 DEF HeaderReady
<1> HIDE DEF d
<1>4. HeaderCarried(config, n, after, d)
  <2> DEFINE pos == j - 1
  <2>1. pos \in Nat
    BY <1>1
  <2> HIDE DEF pos
  <2>2. /\ d.pos_in_frame = pos /\ d.frame_num = enc.next_session_index % WIRE_FRAMES
        /\ d.sizes = IF pos = 0 THEN enc.size_cols[Slot(enc.header_ts)]
                     ELSE enc.size_rows[header_row(enc.header_ts, pos)]
    BY <1>2 DEF pos
  <2> QED
    BY <2>1, <2>2, HeaderIsCarried
<1>5. d.payload_len \div s = k
  BY <1>1, <1>2, ExactQuotient
<1> DEFINE p == j - 1
           start == p * k
<1>6. p \in 0 .. plan.data_pkts - 1 /\ d.stripe_pos_in_frame = start
      /\ d.payload = Cut(src, size, k * s, p)
  BY <1>1, <1>2, <1>3
<1> HIDE DEF p, s, k, count, M, src
<1>7. ASSUME NEW q \in 0 .. k - 1
      PROVE  /\ start \in Nat /\ start + q \in 0 .. M - 1
             /\ SliceOf(d.payload, q * s, s)
                  = At(after.cols, (n % window_frames(config)) * M + (start + q))
  <2>1. start \in Nat /\ start + q \in 0 .. count - 1
    BY <1>1, <1>6, PacketInFrame
  <2> DEFINE i == start + q
  <2>2. i * s < size /\ i \in 0 .. M - 1
    <3>1. i \in 0 .. count - 1
      BY <2>1
    <3>2. count <= M
      BY DEF count, M
    <3> HIDE DEF i
    <3> QED
      BY <1>1, <3>1, <3>2, StripeInside
  <2>3. SliceOf(d.payload, q * s, s) = Cut(src, size, s, i)
    <3>1. (p * k + q) * s < size
      BY <2>2
    <3>2. size \in Nat /\ p \in Nat
      BY <1>1, <1>6
    <3> QED
      BY <1>1, <1>6, <3>1, <3>2, CutOfCut
  <2>4. Stripe(config, n, size, i) = Cut(src, size, s, i)
    <3>1. i \in 0 .. count - 1
      BY <2>1
    <3> HIDE DEF i
    <3> QED
      BY <1>1, <3>1 DEF Stripe, src
  <2>5. At(after.cols, (n % window_frames(config)) * M + i) = Stripe(config, n, size, i)
    <3> HIDE DEF i
    <3> QED
      BY <2>2 DEF FrameHeld, M
  <2> QED
    BY <2>1, <2>2, <2>3, <2>4, <2>5
<1>8. start \in Nat
  <2>1. 0 \in 0 .. k - 1
    BY <1>1
  <2> QED
    BY <1>7, <2>1
<1>9. StripesCarried(config, M, n, d, after.cols)
  <2> HIDE DEF start
  <2> QED
    BY <1>1, <1>5, <1>6, <1>7, <1>8 DEF StripesCarried
<1>10. d.is_parity = FALSE
  BY <1>2
<1> QED
  BY <1>4, <1>9, <1>10 DEF Carries, M, d

(* The payload code at the frame's parity packets.                         *)
RowsReady(n, coded, after) ==
  /\ coded.ts = n + 1 /\ coded.rows = after.rows
  /\ RowsHeld(coded, n)
  /\ \A q \in 0 .. config.max_fec_stripes - 1 :
       first_pos_of_frame(n, TRUE) + q \in DOMAIN after.rows

(* Every parity packet carries rows of its frame.                          *)
LEMMA ParityIsCarried ==
  ASSUME CanOpen(config), NEW n \in 0 .. WIRE_FRAMES - 1, NEW coded, NEW after,
         HeaderReady(n, coded, after), RowsReady(n, coded, after), NEW plan, NEW data,
         NEW parity \in 0 .. config.max_fec_stripes,
         PlanHolds(plan, data, parity), NEW j \in 1 .. plan.parity_pkts
  PROVE  Carries(config, n, after, ParityDatagrams(coded, plan)[j])
<1> DEFINE d == ParityDatagrams(coded, plan)[j]
           k == plan.stripes_per_pkt
           s == StripeSize
           F == config.max_fec_stripes
           src == <<"parity", n>>
           pos == plan.data_pkts + (j - 1)
<1>1. /\ s \in Nat \ {0} /\ k \in Nat \ {0} /\ F \in Nat /\ parity \in Nat
      /\ plan.parity_pkts \in Nat /\ plan.parity_pkts * k = parity
      /\ s = stripe_size(config) /\ j - 1 \in 0 .. plan.parity_pkts - 1
      /\ pos \in Nat /\ n \in Nat /\ n + 1 - 1 = n
  <2>1. s \in Nat \ {0} /\ F \in Nat /\ s = stripe_size(config)
    BY Layout DEF StripeSize
  <2>2. k \in Nat \ {0} /\ plan.parity_pkts \in Nat /\ plan.data_pkts \in Nat
    BY DEF PlanHolds
  <2> QED
    BY <2>1, <2>2 DEF PlanHolds
<1>2. /\ d.is_parity = TRUE /\ d.pos_in_frame = pos
      /\ d.frame_num = coded.next_session_index % WIRE_FRAMES
      /\ d.stripe_pos_in_frame = (j - 1) * k /\ d.payload_len = k * s
      /\ d.sizes = IF pos = 0 THEN coded.size_cols[Slot(coded.header_ts)]
                   ELSE coded.size_rows[header_row(coded.header_ts, pos)]
  BY DEF ParityDatagrams, Datagram, stripe_pos
<1> DEFINE p == j - 1
           start == p * k
<1>3. ASSUME NEW q \in 0 .. k - 1
      PROVE  start \in Nat /\ start + q \in 0 .. parity - 1
  <2> HIDE DEF k
  <2>1. p \in 0 .. plan.parity_pkts - 1
    BY <1>1
  <2> HIDE DEF p
  <2> QED
    BY <1>1, <2>1, PacketInFrame
<1>4. start \in Nat /\ parity \in 1 .. F
  <2>1. 0 \in 0 .. k - 1
    BY <1>1
  <2>2. start \in Nat /\ start + 0 \in 0 .. parity - 1
    BY <1>3, <2>1
  <2> HIDE DEF start
  <2> QED
    BY <1>1, <2>2
<1>5. d.payload = Cut(src, parity * s, k * s, p)
  BY <1>4, <1>1, ParityPayloads DEF RowsReady
<1> HIDE DEF d
<1>6. HeaderCarried(config, n, after, d)
  <2> HIDE DEF pos
  <2> QED
    BY <1>1, <1>2, HeaderIsCarried
<1>7. d.payload_len \div s = k
  BY <1>1, <1>2, ExactQuotient
<1>8. p \in Nat /\ d.stripe_pos_in_frame = start
  BY <1>1, <1>2
<1> HIDE DEF p, s, k, F, src
<1>9. ASSUME NEW q \in 0 .. k - 1
      PROVE  /\ start + q \in 0 .. F - 1
             /\ SliceOf(d.payload, q * s, s)
                  = At(after.rows, (n % window_frames(config)) * F + (start + q))
  <2> DEFINE i == start + q
             size == parity * s
  <2>1. i \in 0 .. parity - 1 /\ i \in 0 .. F - 1
    <3>1. i \in 0 .. parity - 1
      BY <1>3
    <3> HIDE DEF i
    <3> QED
      BY <1>1, <1>4, <3>1
  <2>2. i * s < size /\ size \in Nat
    <3> HIDE DEF i
    <3>1. s * (i + 1) <= s * parity
      BY <1>1, <2>1, MultiplesGrow
    <3>2. s * (i + 1) = i * s + s /\ s * parity = size
      <4>1. i \in Nat
        BY <2>1
      <4>2. s * (i + 1) = i * s + s
        BY <1>1, <4>1, Z3
      <4>3. s * parity = size
        BY <1>1, Z3
      <4> QED
        BY <4>2, <4>3
    <3>3. i * s \in Nat /\ size \in Nat
      <4>1. i \in Nat
        BY <2>1
      <4>2. i * s \in Nat
        BY <1>1, <4>1, Z3
      <4>3. size \in Nat
        BY <1>1, Z3
      <4> QED
        BY <4>2, <4>3
    <3> DEFINE y == i * s
    <3>4. y + s <= size /\ y \in Nat
      BY <3>1, <3>2, <3>3
    <3> HIDE DEF y, size
    <3>5. y < size
      BY <1>1, <3>3, <3>4
    <3> QED
      BY <3>3, <3>5 DEF y
  <2>3. SliceOf(d.payload, q * s, s) = Cut(src, size, s, i)
    <3>1. (p * k + q) * s < size
      BY <2>2
    <3> HIDE DEF size
    <3>2. d.payload = Cut(src, size, k * s, p)
      BY <1>5 DEF size
    <3>3. SliceOf(Cut(src, size, k * s, p), q * s, s) = Cut(src, size, s, p * k + q)
      BY <1>1, <1>8, <2>2, <3>1, CutOfCut
    <3> QED
      BY <3>2, <3>3
  <2>4. Cut(src, size, s, i) = Cut(src, F * s, s, i)
    <3> HIDE DEF i
    <3>1. i \in Nat /\ i < parity /\ i < F
      BY <1>1, <2>1
    <3> DEFINE whole == F * s
    <3>2. i * s \in Nat /\ i * s + s <= size /\ i * s + s <= whole /\ whole \in Nat
      <4>1. s * (i + 1) <= s * parity /\ s * (i + 1) <= s * F
        BY <1>1, <3>1, MultiplesGrow
      <4>2. s * (i + 1) = i * s + s
        BY <1>1, <3>1, Z3
      <4>3. s * parity = size
        BY <1>1, Z3
      <4>4. s * F = whole
        BY <1>1, Z3
      <4>5. i * s \in Nat
        BY <1>1, <3>1, Z3
      <4>6. whole \in Nat
        BY <1>1, Z3
      <4> QED
        BY <4>1, <4>2, <4>3, <4>4, <4>5, <4>6
    <3> DEFINE y == i * s
    <3>3. y \in Nat /\ y + s <= size /\ y + s <= whole /\ whole \in Nat /\ size \in Nat
      BY <2>2, <3>2
    <3> HIDE DEF y, size, whole
    <3>4. AtMost(s, size - y) = s /\ AtMost(s, whole - y) = s
      BY <1>1, <3>3 DEF AtMost
    <3>5. Cut(src, size, s, i) = Cut(src, whole, s, i)
      BY <3>4 DEF Cut, y
    <3> QED
      BY <3>5 DEF size, whole
  <2> DEFINE place == first_pos_of_frame(n, TRUE) + i
  <2>5. At(after.rows, place) = Cut(src, F * s, s, i)
    <3> HIDE DEF i
    <3>1. place \in DOMAIN after.rows /\ coded.rows[place] = Cut(src, F * s, s, i)
      BY <2>1 DEF RowsReady, RowsHeld, F, s, src
    <3> HIDE DEF place
    <3> QED
      BY <3>1 DEF At, RowsReady
  <2>6. place = (n % window_frames(config)) * F + i
    BY DEF first_pos_of_frame, Slot, NumFrames, F
  <2> HIDE DEF i, place
  <2>7. /\ i \in 0 .. F - 1
        /\ SliceOf(d.payload, q * s, s) = At(after.rows, (n % window_frames(config)) * F + i)
    BY <2>1, <2>3, <2>4, <2>5, <2>6
  <2> QED
    BY <2>7 DEF i
<1>10. StripesCarried(config, F, n, d, after.rows)
  <2> HIDE DEF start
  <2> QED
    BY <1>1, <1>4, <1>7, <1>8, <1>9 DEF StripesCarried
<1>11. d.is_parity = TRUE
  BY <1>2
<1> QED
  BY <1>6, <1>10, <1>11 DEF Carries, F, d

(* The wire carries a datagram as it is.                                   *)
LEMMA WordKeeps ==
  ASSUME NEW k \in {0, 1}, NEW f \in 0 .. WIRE_FRAMES - 1
  PROVE  (k * WIRE_FRAMES + f) % WIRE_FRAMES = f /\ (k * WIRE_FRAMES + f) \div WIRE_FRAMES = k
<1> DEFINE W == WIRE_FRAMES
           x == k * W + f
<1>1. /\ W \in Nat \ {0} /\ k \in Int /\ x \in Int /\ x = W * k + f
      /\ f \in 0 .. W - 1 /\ f \in Int
  BY DEF WIRE_FRAMES
<1> HIDE DEF x, W
<1>2. x % W = f
  BY <1>1, RemainderUnique
<1>3. x = W * (x \div W) + f /\ x \div W \in Int
  BY <1>1, <1>2, IntDivision
<1>4. x \div W = k
  <2> DEFINE y == x \div W
  <2>1. y \in Int /\ x = W * y + f
    BY <1>3
  <2> HIDE DEF y
  <2>2. y = k
    BY <1>1, <2>1 DEF W, WIRE_FRAMES
  <2> QED
    BY <2>2 DEF y
<1> QED
  BY <1>2, <1>4 DEF x, W

(* Writing a datagram and reading it keeps all of it, for frame numbers    *)
(* below 2^15.                                                             *)
LEMMA WireKeeps ==
  ASSUME NEW d, d.is_parity = TRUE \/ d.is_parity = FALSE,
         d.frame_num \in 0 .. WIRE_FRAMES - 1
  PROVE  LET read == from_bytes(to_bytes(d))
         IN  /\ read.is_parity = d.is_parity /\ read.frame_num = d.frame_num
             /\ read.sizes = d.sizes /\ read.pos_in_frame = d.pos_in_frame
             /\ read.stripe_pos_in_frame = d.stripe_pos_in_frame
             /\ read.payload = d.payload /\ read.payload_len = d.payload_len
<1> DEFINE f == d.frame_num
           read == from_bytes(to_bytes(d))
           word == encode_parity_frame(d.is_parity, f)
<1>1. /\ read.is_parity = (word \div WIRE_FRAMES # 0) /\ read.frame_num = word % WIRE_FRAMES
      /\ read.sizes = d.sizes /\ read.pos_in_frame = d.pos_in_frame
      /\ read.stripe_pos_in_frame = d.stripe_pos_in_frame
      /\ read.payload = d.payload /\ read.payload_len = d.payload_len
  <2> DEFINE h == write_header(d)
             bytes == to_bytes(d)
             w == decode_parity_frame(word)
             header == parse_header(h)
  <2>1. /\ h.word = word /\ h.sizes = d.sizes /\ h.pos_in_frame = d.pos_in_frame
        /\ h.stripe_pos_in_frame = d.stripe_pos_in_frame
    BY DEF write_header
  <2>2. bytes.header = h /\ bytes.payload = d.payload /\ bytes.payload_len = d.payload_len
    BY DEF to_bytes
  <2>3. w.is_parity = (word \div WIRE_FRAMES # 0)
    BY Zenon DEF decode_parity_frame
  <2>4. w.frame_num = word % WIRE_FRAMES
    BY DEF decode_parity_frame
  <2> HIDE DEF word, h, bytes, w
  <2>5. /\ header.is_parity = w.is_parity /\ header.frame_num = w.frame_num
        /\ header.sizes = h.sizes /\ header.pos_in_frame = h.pos_in_frame
        /\ header.stripe_pos_in_frame = h.stripe_pos_in_frame
    <3>1. w = decode_parity_frame(h.word)
      BY <2>1, Zenon DEF w
    <3> QED
      BY <3>1 DEF parse_header
  <2> HIDE DEF header
  <2>6. /\ read.is_parity = header.is_parity /\ read.frame_num = header.frame_num
        /\ read.sizes = header.sizes /\ read.pos_in_frame = header.pos_in_frame
        /\ read.stripe_pos_in_frame = header.stripe_pos_in_frame
        /\ read.payload = bytes.payload /\ read.payload_len = bytes.payload_len
    <3>1. read = from_bytes(bytes) /\ parse_header(bytes.header) = header
      BY <2>2, Zenon DEF bytes, header
    <3> HIDE DEF read
    <3> QED
      BY <3>1 DEF from_bytes
  <2> HIDE DEF read
  <2> QED
    BY <2>1, <2>2, <2>3, <2>4, <2>5, <2>6, Zenon
<1> HIDE DEF read
<1>2. f \in 0 .. WIRE_FRAMES - 1 /\ f % WIRE_FRAMES = f /\ 0 * WIRE_FRAMES + f = f
      /\ 1 * WIRE_FRAMES + f = WIRE_FRAMES + f /\ 0 + f = f
  <2>1. f \in 0 .. WIRE_FRAMES - 1 /\ 0 \in {0, 1}
    OBVIOUS
  <2> HIDE DEF f
  <2>2. (0 * WIRE_FRAMES + f) % WIRE_FRAMES = f
    BY <2>1, WordKeeps
  <2>3. 0 * WIRE_FRAMES + f = f /\ 1 * WIRE_FRAMES + f = WIRE_FRAMES + f /\ 0 + f = f
    BY <2>1 DEF WIRE_FRAMES
  <2> QED
    BY <2>1, <2>2, <2>3
<1> HIDE DEF f
<1>3. CASE d.is_parity = TRUE
  <2>1. word = 1 * WIRE_FRAMES + f
    <3>1. word = WIRE_FRAMES + f
      BY <1>2, <1>3 DEF encode_parity_frame
    <3> QED
      BY <1>2, <3>1
  <2> HIDE DEF word
  <2>2. word % WIRE_FRAMES = f /\ word \div WIRE_FRAMES = 1
    BY <1>2, <2>1, WordKeeps
  <2>3. (word \div WIRE_FRAMES # 0) = TRUE
    BY <2>2
  <2>4. read.is_parity = d.is_parity
    BY <1>1, <1>3, <2>3, Zenon
  <2> QED
    BY <1>1, <2>2, <2>4 DEF read, f
<1>4. CASE d.is_parity = FALSE
  <2>1. word = 0 * WIRE_FRAMES + f
    <3>1. word = 0 + f
      BY <1>2, <1>4 DEF encode_parity_frame
    <3> QED
      BY <1>2, <3>1
  <2> HIDE DEF word
  <2>2. word % WIRE_FRAMES = f /\ word \div WIRE_FRAMES = 0
    BY <1>2, <2>1, WordKeeps
  <2>3. (word \div WIRE_FRAMES # 0) = FALSE
    BY <2>2
  <2>4. read.is_parity = d.is_parity
    BY <1>1, <1>4, <2>3, Zenon
  <2> QED
    BY <1>1, <2>2, <2>4 DEF read, f
<1> QED
  BY <1>3, <1>4

(* The wire keeps what a datagram carries.                                 *)
LEMMA WireCarries ==
  ASSUME NEW f \in 0 .. WIRE_FRAMES - 1, NEW head, Carries(config, f, tx, head)
  PROVE  Carries(config, f, tx, from_bytes(to_bytes(head)))
<1> DEFINE d == from_bytes(to_bytes(head))
<1>1. (head.is_parity = TRUE \/ head.is_parity = FALSE) /\ head.frame_num \in 0 .. WIRE_FRAMES - 1
  BY DEF Carries, HeaderCarried
<1>2. /\ d.is_parity = head.is_parity /\ d.frame_num = head.frame_num
      /\ d.sizes = head.sizes /\ d.pos_in_frame = head.pos_in_frame
      /\ d.stripe_pos_in_frame = head.stripe_pos_in_frame
      /\ d.payload = head.payload /\ d.payload_len = head.payload_len
  BY <1>1, WireKeeps
<1> HIDE DEF d
<1>3. HeaderCarried(config, f, tx, d)
  BY <1>2 DEF Carries, HeaderCarried
<1>4. CASE head.is_parity = FALSE
  <2>1. StripesCarried(config, config.max_data_stripes, f, head, tx.cols)
    BY <1>4 DEF Carries
  <2>2. StripesCarried(config, config.max_data_stripes, f, d, tx.cols)
    BY <1>2, <2>1 DEF StripesCarried
  <2> QED
    BY <1>2, <1>3, <1>4, <2>2 DEF Carries, d
<1>5. CASE head.is_parity = TRUE
  <2>1. StripesCarried(config, config.max_fec_stripes, f, head, tx.rows)
    BY <1>5 DEF Carries
  <2>2. StripesCarried(config, config.max_fec_stripes, f, d, tx.rows)
    BY <1>2, <2>1 DEF StripesCarried
  <2> QED
    BY <1>2, <1>3, <1>5, <2>2 DEF Carries, d
<1> QED
  BY <1>1, <1>4, <1>5

(* A channel of datagrams of one frame.                                    *)
ChannelCarries(c, f, enc, datagrams) ==
  \E T : /\ datagrams \in Seq(T)
         /\ \A d \in T : Carries(c, f, enc, d)

(* Taking a datagram out of the channel.                                   *)
LEMMA ChannelHead ==
  ASSUME NEW c, NEW f, NEW enc, NEW ch, ChannelCarries(c, f, enc, ch), ch # <<>>
  PROVE  Carries(c, f, enc, Head(ch)) /\ ChannelCarries(c, f, enc, Tail(ch))
<1>1. PICK T : ch \in Seq(T) /\ \A d \in T : Carries(c, f, enc, d)
  BY DEF ChannelCarries
<1>2. Head(ch) \in T /\ Tail(ch) \in Seq(T)
  BY <1>1, HeadTailProperties
<1> QED
  BY <1>1, <1>2 DEF ChannelCarries

(* The data packets, followed by the parity packets.                       *)
LEMMA ChannelJoins ==
  ASSUME NEW c, NEW f, NEW enc, NEW a \in Nat, NEW b \in Nat, NEW g, NEW h,
         DOMAIN g = 1 .. a, DOMAIN h = 1 .. b,
         g = [j \in 1 .. a |-> g[j]], h = [j \in 1 .. b |-> h[j]],
         \A j \in 1 .. a : Carries(c, f, enc, g[j]), \A j \in 1 .. b : Carries(c, f, enc, h[j])
  PROVE  ChannelCarries(c, f, enc, g \o h)
<1> DEFINE T == {g[j] : j \in 1 .. a} \cup {h[j] : j \in 1 .. b}
<1>1. g \in [1 .. a -> T] /\ h \in [1 .. b -> T]
  OBVIOUS
<1>2. \A d \in T : Carries(c, f, enc, d)
  OBVIOUS
<1> HIDE DEF T
<1>3. g \in Seq(T) /\ h \in Seq(T)
  BY <1>1, SeqDef
<1>4. g \o h \in Seq(T)
  BY <1>3, ConcatProperties
<1> QED
  BY <1>2, <1>4 DEF ChannelCarries

(* encode_payload writes the frame, and sends what it wrote.               *)
LEMMA EncodeCarries ==
  ASSUME CanOpen(config), NEW n \in 0 .. WIRE_FRAMES - 1, NEW sizes,
         SenderHolds(config, n, sizes, tx), NEW size \in Nat \ {0},
         num_data_stripes(size) <= config.max_data_stripes,
         NEW parity \in 0 .. config.max_fec_stripes,
         NEW plan, PlanHolds(plan, num_data_stripes(size), parity), NEW sqn
  PROVE  LET enc == HeaderEncoded(size)
             data == DataDatagrams(enc, size, plan)
             coded == CodeEncoded(enc, size, data)
             after == [coded EXCEPT !.sqn = sqn, !.next_session_index = n + 1]
         IN  /\ Wrote(config, n, size, tx, after)
             /\ coded.next_session_index = n
             /\ ChannelCarries(config, n, after, data \o ParityDatagrams(coded, plan))
<1> DEFINE enc == HeaderEncoded(size)
           data == DataDatagrams(enc, size, plan)
           coded == CodeEncoded(enc, size, data)
           after == [coded EXCEPT !.sqn = sqn, !.next_session_index = n + 1]
           par == ParityDatagrams(coded, plan)
           data_n == plan.data_pkts
           parity_n == plan.parity_pkts
<1>1. /\ Wrote(config, n, size, tx, after) /\ coded.next_session_index = n
      /\ HeaderReady(n, enc, after) /\ HeaderReady(n, coded, after)
      /\ RowsReady(n, coded, after) /\ FrameHeld(config, n, size, after)
  <2>1. /\ Wrote(config, n, size, tx, after)
        /\ RowsHeld(coded, n)
        /\ \A q \in 0 .. config.max_fec_stripes - 1 :
             first_pos_of_frame(n, TRUE) + q \in DOMAIN after.rows
        /\ enc.next_session_index = n /\ coded.next_session_index = n
        /\ enc.header_ts = n /\ coded.header_ts = n /\ coded.ts = n + 1
        /\ coded.rows = after.rows
        /\ enc.size_cols = after.size_cols /\ coded.size_cols = after.size_cols
        /\ enc.size_rows = after.size_rows /\ coded.size_rows = after.size_rows
        /\ after.size_cols[Slot(n)] = At(after.size_cols, Slot(n))
        /\ header_rows_of_frame(n) \subseteq DOMAIN after.size_rows
    <3>1. n \in Nat
      BY DEF WIRE_FRAMES
    <3> QED
      BY <3>1, EncodeWrites
  <2> HIDE DEF after, coded, enc
  <2> QED
    BY <2>1 DEF HeaderReady, RowsReady, Wrote
<1>2. DOMAIN data = 1 .. data_n /\ data = [j \in 1 .. data_n |-> data[j]]
  BY DEF DataDatagrams
<1>3. DOMAIN par = 1 .. parity_n /\ par = [j \in 1 .. parity_n |-> par[j]]
  BY DEF ParityDatagrams
<1> HIDE DEF enc, coded, after
<1>4. \A j \in 1 .. data_n : Carries(config, n, after, data[j])
  BY <1>1, DataIsCarried
<1>5. \A j \in 1 .. parity_n : Carries(config, n, after, par[j])
  BY <1>1, ParityIsCarried
<1>6. data_n \in Nat /\ parity_n \in Nat
  BY DEF PlanHolds
<1> HIDE DEF data, par, data_n, parity_n
<1>7. ChannelCarries(config, n, after, data \o par)
  BY <1>2, <1>3, <1>4, <1>5, <1>6, ChannelJoins
<1> QED
  BY <1>1, <1>7 DEF enc, data, coded, after, par

-----------------------------------------------------------------------------
(* The receiver.  A grid whose known places hold what the sender's hold.   *)
GridSame(W, m, unknown, grid, theirs) ==
  DOMAIN grid \subseteq Cells(W, m) /\ Same(Cells(W, m), unknown, grid, theirs)

(* The same, as long as the sender has moved on: for the frames from ..    *)
(* to, which both have.                                                    *)
GridSameFor(W, m, from, to, unknown, grid, theirs) ==
  DOMAIN grid \subseteq Cells(W, m) /\ SameFor(W, m, from, to, unknown, grid, theirs)

(* What is the same everywhere is the same for each frame, whatever the    *)
(* sender writes next.                                                     *)
LEMMA SameLater ==
  ASSUME NEW W \in Nat \ {0}, NEW m \in Nat, NEW from \in Int, NEW to \in Int,
         NEW unknown, NEW grid, NEW theirs, GridSame(W, m, unknown, grid, theirs)
  PROVE  GridSameFor(W, m, from, to, unknown, grid, theirs)
BY SameForAll DEF GridSame, GridSameFor

(* The receiver enters the frames that the sender has: the grids are the   *)
(* same everywhere.                                                        *)
LEMMA GridAdvances ==
  ASSUME NEW W \in Nat \ {0}, NEW m \in Nat, NEW n \in Int, NEW to \in Int,
         NEW unknown, NEW grid, NEW theirs, NEW now,
         GridSameFor(W, m, n - W, to, unknown, grid, theirs),
         (unknown \cup Entered(W, m, to + 1, n - 1)) \cap Cells(W, m) \subseteq now
  PROVE  GridSame(W, m, now, Cleared(grid, Entered(W, m, to + 1, n - 1)), theirs)
<1>1. Same(Cells(W, m), now, Cleared(grid, Entered(W, m, to + 1, n - 1)), theirs)
  BY ReceiverKeeps DEF GridSameFor
<1>2. DOMAIN Cleared(grid, Entered(W, m, to + 1, n - 1)) \subseteq Cells(W, m)
  BY ClearedDomain DEF GridSameFor
<1> QED
  BY <1>1, <1>2 DEF GridSame

(* The same for rows, which are known when they are placed.                *)
LEMMA RowsAdvance ==
  ASSUME NEW W \in Nat \ {0}, NEW m \in Nat, NEW n \in Int, NEW to \in Int,
         NEW grid, NEW theirs, NEW now,
         GridSameFor(W, m, n - W, to, Unplaced(W, m, grid), grid, theirs),
         now = Cleared(grid, Entered(W, m, to + 1, n - 1))
  PROVE  GridSame(W, m, Unplaced(W, m, now), now, theirs)
<1> DEFINE unknown == Unplaced(W, m, grid)
           entered == Entered(W, m, to + 1, n - 1)
           after == Unplaced(W, m, now)
<1>1. DOMAIN now = DOMAIN grid \ entered
  BY ClearedDomain
<1>2. (unknown \cup entered) \cap Cells(W, m) \subseteq after
  BY <1>1 DEF Unplaced
<1> HIDE DEF unknown, after
<1>3. GridSame(W, m, after, Cleared(grid, Entered(W, m, to + 1, n - 1)), theirs)
  BY <1>2, GridAdvances DEF unknown
<1> QED
  BY <1>3 DEF after

(* Placing what the sender has keeps the grids the same.                   *)
LEMMA GridPlaced ==
  ASSUME NEW W, NEW m, NEW unknown, NEW grid, NEW theirs, NEW contents, NEW now,
         GridSame(W, m, unknown, grid, theirs), unknown \ DOMAIN contents \subseteq now,
         DOMAIN contents \subseteq Cells(W, m),
         \A i \in DOMAIN contents : contents[i] = At(theirs, i)
  PROVE  GridSame(W, m, now, Placed(grid, contents), theirs)
<1> DEFINE S == Cells(W, m)
<1>1. Same(S, now, Placed(grid, contents), theirs)
  BY PlacingKeeps DEF GridSame
<1>2. DOMAIN Placed(grid, contents) = DOMAIN contents \cup DOMAIN grid
  BY PlacedDomain
<1> QED
  BY <1>1, <1>2 DEF GridSame

(* The same for rows.                                                      *)
LEMMA RowsPlaced ==
  ASSUME NEW W, NEW m, NEW grid, NEW theirs, NEW contents, NEW now,
         GridSame(W, m, Unplaced(W, m, grid), grid, theirs), now = Placed(grid, contents),
         DOMAIN contents \subseteq Cells(W, m),
         \A i \in DOMAIN contents : contents[i] = At(theirs, i)
  PROVE  GridSame(W, m, Unplaced(W, m, now), now, theirs)
<1> DEFINE unknown == Unplaced(W, m, grid)
           after == Unplaced(W, m, now)
<1>1. unknown \ DOMAIN contents \subseteq after
  BY PlacedDomain DEF Unplaced
<1> HIDE DEF unknown, after
<1>2. GridSame(W, m, after, Placed(grid, contents), theirs)
  BY <1>1, GridPlaced DEF unknown
<1> QED
  BY <1>2 DEF after

(* Solving places the positions solved.                                    *)
SolvedHas(grid, positions, after) == DOMAIN after = DOMAIN grid \cup positions

(* The positions of a grid after solving.                                  *)
LEMMA SolvedDomain ==
  ASSUME NEW unknown, NEW grid, NEW theirs, NEW positions
  PROVE  SolvedHas(grid, positions, SolvedColumns(grid, unknown, theirs, positions))
<1> DEFINE contents ==
             [i \in positions |-> IF Agree(grid, unknown, theirs) THEN At(theirs, i) ELSE Garbled]
           after == SolvedColumns(grid, unknown, theirs, positions)
<1>1. DOMAIN contents = positions /\ after = Placed(grid, contents)
  BY DEF SolvedColumns
<1> HIDE DEF contents, after
<1>2. DOMAIN Placed(grid, contents) = positions \cup DOMAIN grid
  BY <1>1, PlacedDomain
<1>3. DOMAIN after = positions \cup DOMAIN grid
  BY <1>1, <1>2, Zenon
<1> QED
  BY <1>3 DEF SolvedHas, after

(* When all that is known agrees, solving yields what the sender has.      *)
LEMMA GridSolved ==
  ASSUME NEW W, NEW m, NEW unknown, NEW grid, NEW theirs, NEW positions, NEW now,
         GridSame(W, m, unknown, grid, theirs), DOMAIN theirs \subseteq Cells(W, m),
         positions \subseteq Cells(W, m), unknown \ positions \subseteq now
  PROVE  GridSame(W, m, now, SolvedColumns(grid, unknown, theirs, positions), theirs)
<1> DEFINE S == Cells(W, m)
<1>1. Same(S, unknown, grid, theirs) /\ DOMAIN grid \subseteq S /\ DOMAIN theirs \subseteq S
  BY DEF GridSame
<1>2. unknown \ positions \subseteq now /\ positions \subseteq S
  OBVIOUS
<1> HIDE DEF S
<1>3. Same(S, now, SolvedColumns(grid, unknown, theirs, positions), theirs)
  BY <1>1, <1>2, SolvingKeeps
<1>4. DOMAIN SolvedColumns(grid, unknown, theirs, positions) \subseteq S
  <2> DEFINE after == SolvedColumns(grid, unknown, theirs, positions)
  <2>1. SolvedHas(grid, positions, after)
    BY SolvedDomain
  <2> HIDE DEF after
  <2>2. DOMAIN after \subseteq S
    BY <1>1, <1>2, <2>1 DEF SolvedHas
  <2> QED
    BY <2>2 DEF after
<1> QED
  BY <1>3, <1>4 DEF GridSame, S

-----------------------------------------------------------------------------
(* The receiver.                                                           *)
ReceiverFields ==
  {"ts", "cols", "rows", "size_cols", "size_rows", "erased", "size_erased", "ring", "sizes",
   "received"}

(* Once the slots of the frames up to the sender's are cleared.            *)
CodesAgree(c, enc, dec) ==
  /\ GridSame(window_frames(c), c.max_data_stripes, dec.erased, dec.cols, enc.cols)
  /\ GridSame(window_frames(c), c.max_fec_stripes,
              Unplaced(window_frames(c), c.max_fec_stripes, dec.rows), dec.rows, enc.rows)
  /\ GridSame(window_frames(c), 1, dec.size_erased, dec.size_cols, enc.size_cols)
  /\ GridSame(window_frames(c), max_pkts_per_frame(c),
              Unplaced(window_frames(c), max_pkts_per_frame(c), dec.size_rows),
              dec.size_rows, enc.size_rows)

(* Between datagrams, when the sender may be n frames on.                  *)
CodesAgreeFor(c, n, enc, dec) ==
  /\ GridSameFor(window_frames(c), c.max_data_stripes, n - window_frames(c), dec.ts,
                 dec.erased, dec.cols, enc.cols)
  /\ GridSameFor(window_frames(c), c.max_fec_stripes, n - window_frames(c), dec.ts,
                 Unplaced(window_frames(c), c.max_fec_stripes, dec.rows), dec.rows, enc.rows)
  /\ GridSameFor(window_frames(c), 1, n - window_frames(c), dec.ts,
                 dec.size_erased, dec.size_cols, enc.size_cols)
  /\ GridSameFor(window_frames(c), max_pkts_per_frame(c), n - window_frames(c), dec.ts,
                 Unplaced(window_frames(c), max_pkts_per_frame(c), dec.size_rows),
                 dec.size_rows, enc.size_rows)

(* What the receiver has of frames: those in the ring, and their sizes.    *)
FramesKnown(c, sizes, dec) ==
  /\ DOMAIN dec = ReceiverFields
  /\ dec.erased \cap DOMAIN dec.cols = {}
  /\ \A g \in dec.ring : g \in Nat /\ g <= dec.ts /\ dec.ts - g < window_frames(c)
  /\ \A g \in DOMAIN dec.sizes : g \in Nat /\ g <= dec.ts /\ dec.sizes[g] = sizes[g + 1]

(* The receiver at the sender's frame f.                                   *)
Abreast(f, sizes, dec) ==
  dec.ts = f /\ FramesKnown(config, sizes, dec) /\ CodesAgree(config, tx, dec)

(* It stays so for the frames both have, whatever the sender writes next.  *)
LEMMA AbreastLater ==
  ASSUME CanOpen(config), NEW n \in Int, NEW dec, dec.ts \in Int, CodesAgree(config, tx, dec)
  PROVE  CodesAgreeFor(config, n, tx, dec)
<1> DEFINE W == window_frames(config)
           M == config.max_data_stripes
           F == config.max_fec_stripes
           H == max_pkts_per_frame(config)
           m == 1
           from == n - W
           to == dec.ts
           rows == Unplaced(W, F, dec.rows)
           size_rows == Unplaced(W, H, dec.size_rows)
<1>1. /\ W \in Nat \ {0} /\ M \in Nat /\ F \in Nat /\ H \in Nat /\ m \in Nat
      /\ from \in Int /\ to \in Int
  BY Layout
<1>2. /\ GridSame(W, M, dec.erased, dec.cols, tx.cols) /\ GridSame(W, F, rows, dec.rows, tx.rows)
      /\ GridSame(W, m, dec.size_erased, dec.size_cols, tx.size_cols)
      /\ GridSame(W, H, size_rows, dec.size_rows, tx.size_rows)
  BY DEF CodesAgree
<1> HIDE DEF W, M, F, H, m, from, to, rows, size_rows
<1>3. GridSameFor(W, M, from, to, dec.erased, dec.cols, tx.cols)
  BY <1>1, <1>2, SameLater
<1>4. GridSameFor(W, F, from, to, rows, dec.rows, tx.rows)
  BY <1>1, <1>2, SameLater
<1>5. GridSameFor(W, m, from, to, dec.size_erased, dec.size_cols, tx.size_cols)
  BY <1>1, <1>2, SameLater
<1>6. GridSameFor(W, H, from, to, size_rows, dec.size_rows, tx.size_rows)
  BY <1>1, <1>2, SameLater
<1> QED
  BY <1>3, <1>4, <1>5, <1>6 DEF CodesAgreeFor, W, M, F, H, m, from, to, rows, size_rows

(* The receiver between datagrams.                                         *)
ReceiverHolds(c, n, sizes, enc, dec) ==
  /\ dec.ts \in Int /\ dec.ts < n
  /\ FramesKnown(c, sizes, dec)
  /\ CodesAgreeFor(c, n, enc, dec)

(* updated_ts and advance_to_wire_frame, and the ring.                     *)
Opening(f) == LET dec == Advanced(f) IN [dec EXCEPT !.ring = RingWith(dec, f)]

(* The columns and rows that advance_to_wire_frame clears.                 *)
LEMMA EnteredColumns ==
  ASSUME NEW to, NEW f
  PROVE  /\ UNION {cols_of_frame(t) : t \in to .. f}
              = Entered(NumFrames, config.max_data_stripes, to, f)
         /\ UNION {rows_of_frame(t) : t \in to .. f}
              = Entered(NumFrames, config.max_fec_stripes, to, f)
         /\ UNION {header_rows_of_frame(t) : t \in to .. f}
              = Entered(NumFrames, HeaderRows, to, f)
BY Regions DEF Entered

(* The sizes that it clears.                                               *)
LEMMA EnteredSlots ==
  ASSUME CanOpen(config), NEW to \in Int, NEW f \in Int
  PROVE  {Slot(t) : t \in to .. f} = Entered(NumFrames, 1, to, f)
<1>1. NumFrames \in Nat \ {0}
  BY Layout DEF NumFrames
<1>2. \A t \in to .. f : Region(NumFrames, 1, t) = {Slot(t)}
  BY <1>1, SizeRegion
<1> QED
  BY <1>2 DEF Entered

(* advance_to_wire_frame and the ring, field by field.                     *)
LEMMA OpeningFields ==
  ASSUME NEW f, DOMAIN rx = ReceiverFields
  PROVE  LET dec == Opening(f)
             entered == rx.ts + 1 .. f
             columns == UNION {cols_of_frame(t) : t \in entered}
             slots == {Slot(t) : t \in entered}
         IN  /\ DOMAIN dec = ReceiverFields
             /\ dec.ts = f /\ dec.cols = Cleared(rx.cols, columns)
             /\ dec.rows = Cleared(rx.rows, UNION {rows_of_frame(t) : t \in entered})
             /\ dec.erased = rx.erased \cup columns
             /\ dec.size_cols = Cleared(rx.size_cols, slots)
             /\ dec.size_rows = Cleared(rx.size_rows, UNION {header_rows_of_frame(t) : t \in entered})
             /\ dec.size_erased = rx.size_erased \cup slots
             /\ dec.sizes = rx.sizes /\ dec.received = rx.received
             /\ dec.ring = {g \in rx.ring \cup (IF rx.ring = {} THEN {}
                                                ELSE {h \in 0 .. f : \A g \in rx.ring : h > g})
                                  \cup {f} : f - g < NumFrames}
<1> DEFINE entered == rx.ts + 1 .. f
           columns == UNION {cols_of_frame(t) : t \in entered}
           slots == {Slot(t) : t \in entered}
           parity_rows == UNION {rows_of_frame(t) : t \in entered}
           size_rows == UNION {header_rows_of_frame(t) : t \in entered}
           cols1 == Cleared(rx.cols, columns)
           rows1 == Cleared(rx.rows, parity_rows)
           size_cols1 == Cleared(rx.size_cols, slots)
           size_rows1 == Cleared(rx.size_rows, size_rows)
           erased1 == rx.erased \cup columns
           size_erased1 == rx.size_erased \cup slots
           dec == Advanced(f)
           ring == RingWith(dec, f)
           opened == [dec EXCEPT !.ring = ring]
<1>1. dec = [rx EXCEPT !.ts = f, !.cols = cols1, !.rows = rows1, !.erased = erased1,
                       !.size_cols = size_cols1, !.size_rows = size_rows1,
                       !.size_erased = size_erased1]
  BY DEF Advanced
<1> HIDE DEF dec, cols1, rows1, erased1, size_cols1, size_rows1, size_erased1
<1>2. /\ DOMAIN dec = ReceiverFields /\ dec.ts = f /\ dec.cols = cols1 /\ dec.rows = rows1
      /\ dec.erased = erased1 /\ dec.size_cols = size_cols1 /\ dec.size_rows = size_rows1
      /\ dec.size_erased = size_erased1 /\ dec.sizes = rx.sizes /\ dec.received = rx.received
      /\ dec.ring = rx.ring
  BY <1>1 DEF ReceiverFields
<1>3. ring = {g \in rx.ring \cup (IF rx.ring = {} THEN {}
                                  ELSE {h \in 0 .. f : \A g \in rx.ring : h > g})
                    \cup {f} : f - g < NumFrames}
  BY <1>2 DEF RingWith
<1> HIDE DEF ring
<1>4. /\ DOMAIN opened = ReceiverFields /\ opened.ts = f /\ opened.cols = cols1
      /\ opened.rows = rows1 /\ opened.erased = erased1 /\ opened.size_cols = size_cols1
      /\ opened.size_rows = size_rows1 /\ opened.size_erased = size_erased1
      /\ opened.sizes = rx.sizes /\ opened.received = rx.received /\ opened.ring = ring
  BY <1>2 DEF ReceiverFields
<1>5. opened = Opening(f)
  BY DEF Opening, dec, ring
<1> HIDE DEF opened
<1> QED
  BY <1>3, <1>4, <1>5 DEF cols1, rows1, erased1, size_cols1, size_rows1, size_erased1

(* Entering the sender's frame.                                            *)
LEMMA OpeningAbreast ==
  ASSUME CanOpen(config), NEW n \in Nat, NEW sizes, ReceiverHolds(config, n, sizes, tx, rx),
         NEW f \in Nat, n = f + 1
  PROVE  Abreast(f, sizes, Opening(f))
<1> DEFINE W == window_frames(config)
           M == config.max_data_stripes
           F == config.max_fec_stripes
           H == max_pkts_per_frame(config)
           m == 1
           to == rx.ts
           dec == Opening(f)
           columns == Entered(W, M, to + 1, n - 1)
           parity_rows == Entered(W, F, to + 1, n - 1)
           slots == Entered(W, m, to + 1, n - 1)
           size_rows == Entered(W, H, to + 1, n - 1)
<1>1. /\ W \in Nat \ {0} /\ M \in Nat /\ F \in Nat /\ H \in Nat /\ m \in Nat
      /\ to \in Int /\ to < n /\ n \in Int /\ n - 1 = f /\ to <= f
  BY Layout DEF ReceiverHolds
<1>2. /\ UNION {cols_of_frame(t) : t \in to + 1 .. f} = columns
      /\ UNION {rows_of_frame(t) : t \in to + 1 .. f} = parity_rows
      /\ UNION {header_rows_of_frame(t) : t \in to + 1 .. f} = size_rows
      /\ {Slot(t) : t \in to + 1 .. f} = slots
  <2>1. /\ UNION {cols_of_frame(t) : t \in to + 1 .. f} = columns
        /\ UNION {rows_of_frame(t) : t \in to + 1 .. f} = parity_rows
        /\ UNION {header_rows_of_frame(t) : t \in to + 1 .. f} = size_rows
    BY <1>1, EnteredColumns DEF NumFrames, HeaderRows
  <2>2. {Slot(t) : t \in to + 1 .. f} = slots
    <3>1. to + 1 \in Int /\ f \in Int
      BY <1>1
    <3>2. {Slot(t) : t \in to + 1 .. f} = Entered(NumFrames, 1, to + 1, f)
      BY <3>1, EnteredSlots
    <3> QED
      BY <1>1, <3>2 DEF NumFrames
  <2> QED
    BY <2>1, <2>2
<1>3. /\ DOMAIN dec = ReceiverFields
      /\ dec.ts = f /\ dec.cols = Cleared(rx.cols, columns)
      /\ dec.rows = Cleared(rx.rows, parity_rows)
      /\ dec.erased = rx.erased \cup columns
      /\ dec.size_cols = Cleared(rx.size_cols, slots)
      /\ dec.size_rows = Cleared(rx.size_rows, size_rows)
      /\ dec.size_erased = rx.size_erased \cup slots
      /\ dec.sizes = rx.sizes
  <2>1. DOMAIN rx = ReceiverFields
    BY DEF ReceiverHolds, FramesKnown
  <2> HIDE DEF columns, parity_rows, slots, size_rows, dec
  <2> QED
    BY <1>2, <2>1, OpeningFields DEF dec
<1>4. \A g \in dec.ring : g \in Nat /\ g <= f /\ f - g < W
  <2> SUFFICES ASSUME NEW g \in dec.ring PROVE g \in Nat /\ g <= f /\ f - g < W
    OBVIOUS
  <2>1. DOMAIN rx = ReceiverFields /\ \A h \in rx.ring : h \in Nat /\ h <= to
    BY DEF ReceiverHolds, FramesKnown
  <2>2. /\ g \in rx.ring \cup (IF rx.ring = {} THEN {}
                                 ELSE {h \in 0 .. f : \A e \in rx.ring : h > e}) \cup {f}
        /\ f - g < W
    <3> DEFINE all == rx.ring \cup (IF rx.ring = {} THEN {}
                                 ELSE {h \in 0 .. f : \A e \in rx.ring : h > e}) \cup {f}
    <3>1. dec.ring = {h \in all : f - h < NumFrames}
      <4>1. DOMAIN rx = ReceiverFields
        BY <2>1
      <4> HIDE DEF dec
      <4> QED
        BY <4>1, OpeningFields DEF dec
    <3> HIDE DEF all, dec
    <3>2. g \in all /\ f - g < NumFrames
      BY <3>1
    <3> QED
      BY <3>2 DEF all, NumFrames
  <2> HIDE DEF dec, W, to
  <2>3. g \in rx.ring \/ g \in 0 .. f
    BY <2>2
  <2> QED
    BY <1>1, <2>1, <2>2, <2>3
<1> HIDE DEF dec
<1>5. /\ GridSameFor(W, M, n - W, to, rx.erased, rx.cols, tx.cols)
      /\ GridSameFor(W, F, n - W, to, Unplaced(W, F, rx.rows), rx.rows, tx.rows)
      /\ GridSameFor(W, m, n - W, to, rx.size_erased, rx.size_cols, tx.size_cols)
      /\ GridSameFor(W, H, n - W, to, Unplaced(W, H, rx.size_rows), rx.size_rows, tx.size_rows)
  BY DEF ReceiverHolds, CodesAgreeFor
<1>6. dec.erased \cap DOMAIN dec.cols = {}
  <2>1. rx.erased \cap DOMAIN rx.cols = {}
    BY DEF ReceiverHolds, FramesKnown
  <2>2. DOMAIN dec.cols = DOMAIN rx.cols \ columns
    <3> HIDE DEF columns
    <3> QED
      BY <1>3, ClearedDomain
  <2> HIDE DEF columns
  <2> QED
    BY <1>3, <2>1, <2>2
<1>7. \A g \in DOMAIN dec.sizes : g \in Nat /\ g <= f /\ dec.sizes[g] = sizes[g + 1]
  <2>1. \A g \in DOMAIN rx.sizes : g \in Nat /\ g <= to /\ rx.sizes[g] = sizes[g + 1]
    BY DEF ReceiverHolds, FramesKnown
  <2> HIDE DEF to
  <2> QED
    BY <1>1, <1>3, <2>1
<1>8. FramesKnown(config, sizes, dec)
  BY <1>3, <1>4, <1>6, <1>7 DEF FramesKnown
<1> HIDE DEF W, M, F, H, m, to
<1>9. GridSame(W, M, dec.erased, dec.cols, tx.cols)
  <2> DEFINE now == dec.erased
  <2>1. (rx.erased \cup Entered(W, M, to + 1, n - 1)) \cap Cells(W, M) \subseteq now
    BY <1>3
  <2> HIDE DEF now
  <2>2. GridSame(W, M, now, Cleared(rx.cols, Entered(W, M, to + 1, n - 1)), tx.cols)
    BY <1>1, <1>5, <2>1, GridAdvances
  <2> QED
    BY <1>3, <2>2, Zenon DEF now, columns
<1>10. GridSame(W, m, dec.size_erased, dec.size_cols, tx.size_cols)
  <2> DEFINE now == dec.size_erased
  <2>1. (rx.size_erased \cup Entered(W, m, to + 1, n - 1)) \cap Cells(W, m) \subseteq now
    BY <1>3
  <2> HIDE DEF now
  <2>2. GridSame(W, m, now, Cleared(rx.size_cols, Entered(W, m, to + 1, n - 1)), tx.size_cols)
    BY <1>1, <1>5, <2>1, GridAdvances
  <2> QED
    BY <1>3, <2>2, Zenon DEF now, slots
<1>11. GridSame(W, F, Unplaced(W, F, dec.rows), dec.rows, tx.rows)
  BY <1>1, <1>3, <1>5, RowsAdvance
<1>12. GridSame(W, H, Unplaced(W, H, dec.size_rows), dec.size_rows, tx.size_rows)
  BY <1>1, <1>3, <1>5, RowsAdvance
<1>13. CodesAgree(config, tx, dec)
  BY <1>9, <1>10, <1>11, <1>12 DEF CodesAgree, W, M, F, H, m
<1> QED
  BY <1>3, <1>8, <1>13 DEF Abreast, dec

(* The positions of a frame are positions of the grid.                     *)
LEMMA RegionInCells ==
  ASSUME NEW W \in Nat \ {0}, NEW m \in Nat, NEW f \in Int
  PROVE  Region(W, m, f) \subseteq Cells(W, m)
BY RegionsCover DEF Covered

(* decode_sizes_of_frames puts the size, or the row, in its place.         *)
LEMMA HeaderPlacedKeeps ==
  ASSUME CanOpen(config), NEW f \in Nat, NEW sizes, NEW dec, Abreast(f, sizes, dec),
         NEW d, HeaderCarried(config, f, tx, d)
  PROVE  LET after == HeaderPlaced(dec, d)
         IN  /\ Abreast(f, sizes, after)
             /\ after.ring = dec.ring /\ after.received = dec.received
             /\ d.pos_in_frame = 0 =>
                  Slot(f) \in DOMAIN after.size_cols /\ Slot(f) \notin after.size_erased
<1> DEFINE W == window_frames(config)
           H == max_pkts_per_frame(config)
           m == 1
           after == HeaderPlaced(dec, d)
<1>1. /\ W \in Nat \ {0} /\ H \in Nat \ {0} /\ H \in Nat /\ m \in Nat /\ f \in Int
      /\ W = NumFrames /\ H = HeaderRows
  BY Layout DEF NumFrames, HeaderRows
<1>2. DOMAIN dec = ReceiverFields /\ dec.ts = f /\ d.frame_num = f
  BY DEF Abreast, FramesKnown, HeaderCarried
<1>3. /\ GridSame(W, m, dec.size_erased, dec.size_cols, tx.size_cols)
      /\ GridSame(W, H, Unplaced(W, H, dec.size_rows), dec.size_rows, tx.size_rows)
  BY DEF Abreast, CodesAgree
<1>4. CASE d.pos_in_frame = 0
  <2> DEFINE contents == Only(Slot(f), d.sizes)
             cols == Placed(dec.size_cols, contents)
             erased == dec.size_erased \ {Slot(f)}
  <2>1. after = [dec EXCEPT !.size_cols = cols, !.size_erased = erased]
    BY <1>2, <1>4 DEF HeaderPlaced
  <2>2. DOMAIN contents = {Slot(f)} /\ contents[Slot(f)] = d.sizes
    BY DEF Only
  <2>3. contents[Slot(f)] = At(tx.size_cols, Slot(f))
    BY <1>1, <1>4, <2>2 DEF HeaderCarried, Slot
  <2>4. {Slot(f)} \subseteq Cells(W, m)
    <3>1. Region(W, 1, f) = {Slot(f)}
      BY <1>1, SizeRegion
    <3>2. Region(W, m, f) = {Slot(f)}
      BY <3>1
    <3> HIDE DEF m, W
    <3>3. Region(W, m, f) \subseteq Cells(W, m)
      BY <1>1, RegionInCells
    <3> QED
      BY <3>2, <3>3
  <2>5. DOMAIN cols = {Slot(f)} \cup DOMAIN dec.size_cols
    <3> HIDE DEF contents
    <3> QED
      BY <2>2, PlacedDomain
  <2> HIDE DEF contents
  <2>6. GridSame(W, m, erased, cols, tx.size_cols)
    <3>1. dec.size_erased \ DOMAIN contents \subseteq erased
      BY <2>2
    <3>2. DOMAIN contents \subseteq Cells(W, m)
      BY <2>2, <2>4
    <3>3. \A i \in DOMAIN contents : contents[i] = At(tx.size_cols, i)
      BY <2>2, <2>3
    <3> HIDE DEF erased, W, m
    <3> QED
      BY <1>3, <3>1, <3>2, <3>3, GridPlaced
  <2> HIDE DEF cols, erased
  <2>7. /\ DOMAIN after = ReceiverFields /\ after.ts = dec.ts /\ after.cols = dec.cols
        /\ after.rows = dec.rows /\ after.erased = dec.erased /\ after.size_rows = dec.size_rows
        /\ after.ring = dec.ring /\ after.sizes = dec.sizes /\ after.received = dec.received
        /\ after.size_cols = cols /\ after.size_erased = erased
    BY <1>2, <2>1 DEF ReceiverFields
  <2> HIDE DEF after
  <2>8. FramesKnown(config, sizes, after)
    BY <2>7 DEF FramesKnown, Abreast
  <2>9. CodesAgree(config, tx, after)
    BY <2>6, <2>7 DEF CodesAgree, Abreast
  <2>10. Slot(f) \in DOMAIN after.size_cols /\ Slot(f) \notin after.size_erased
    BY <2>5, <2>7 DEF erased
  <2> QED
    BY <1>2, <2>7, <2>8, <2>9, <2>10 DEF Abreast, after
<1>5. CASE d.pos_in_frame # 0
  <2> DEFINE row == header_row(f, d.pos_in_frame)
             contents == Only(row, d.sizes)
             rows == Placed(dec.size_rows, contents)
  <2>1. after = [dec EXCEPT !.size_rows = rows]
    BY <1>2, <1>5 DEF HeaderPlaced
  <2>2. DOMAIN contents = {row} /\ contents[row] = d.sizes
    BY DEF Only
  <2>3. contents[row] = At(tx.size_rows, row)
    <3>1. d.sizes = At(tx.size_rows, (f % W) * H + ((d.pos_in_frame - 1) % H))
      BY <1>5 DEF HeaderCarried
    <3>2. row = (f % W) * H + ((d.pos_in_frame - 1) % H)
      BY <1>1 DEF header_row, Slot
    <3> QED
      BY <2>2, <3>1, <3>2, Zenon
  <2>4. row \in Cells(W, H)
    <3> DEFINE r == (d.pos_in_frame - 1) % H
    <3>1. r \in 0 .. H - 1
      <4>1. d.pos_in_frame - 1 \in Int
        BY DEF HeaderCarried
      <4> HIDE DEF H
      <4> QED
        BY <1>1, <4>1, IntDivision
    <3>2. row = (f % W) * H + r
      BY <1>1 DEF header_row, Slot
    <3> HIDE DEF r, H, W, row
    <3>3. row \in Region(W, H, f)
      BY <1>1, <3>1, <3>2, InRegion
    <3> QED
      BY <1>1, <3>3, RegionInCells
  <2> HIDE DEF contents, row
  <2>6. GridSame(W, H, Unplaced(W, H, rows), rows, tx.size_rows)
    <3>1. DOMAIN contents \subseteq Cells(W, H)
      BY <2>2, <2>4
    <3>2. \A i \in DOMAIN contents : contents[i] = At(tx.size_rows, i)
      BY <2>2, <2>3
    <3>3. rows = Placed(dec.size_rows, contents)
      OBVIOUS
    <3> HIDE DEF rows, W, H
    <3> QED
      BY <1>3, <3>1, <3>2, <3>3, RowsPlaced
  <2> HIDE DEF rows
  <2>7. /\ DOMAIN after = ReceiverFields /\ after.ts = dec.ts /\ after.cols = dec.cols
        /\ after.rows = dec.rows /\ after.erased = dec.erased /\ after.size_cols = dec.size_cols
        /\ after.ring = dec.ring /\ after.sizes = dec.sizes /\ after.received = dec.received
        /\ after.size_rows = rows /\ after.size_erased = dec.size_erased
    BY <1>2, <2>1 DEF ReceiverFields
  <2> HIDE DEF after
  <2>8. FramesKnown(config, sizes, after)
    BY <2>7 DEF FramesKnown, Abreast
  <2>9. CodesAgree(config, tx, after)
    BY <2>6, <2>7 DEF CodesAgree, Abreast
  <2> QED
    BY <1>2, <1>5, <2>7, <2>8, <2>9 DEF Abreast, after
<1> QED
  BY <1>4, <1>5

(* Positions of the window are numbers.                                    *)
LEMMA DecodedPositions ==
  ASSUME config.tau \in Nat, NEW missing, NEW known
  PROVE  Theory!Decode(missing, known) \subseteq Int
<1>1. \A p \in Theory!Window : p \in Int
  BY DEF Theory!Window, Theory!NumFrames
<1>2. Theory!Theoretical(missing, known).recovered \subseteq Int
  <2> DEFINE th == Theory!AddFrames(missing, known)
             gone == {p \in Theory!Window : th.missing[p] = 0}
  <2>1. Theory!Theoretical(missing, known) = Theory!Outcome(th.missing, th.unusable)
    BY DEF Theory!Theoretical, Theory!OutcomeOf
  <2> HIDE DEF th
  <2>2. Theory!Outcome(th.missing, th.unusable).recovered = gone
    BY DEF Theory!Outcome
  <2> QED
    BY <1>1, <2>1, <2>2
<1> QED
  BY <1>2 DEF Theory!Decode, Theory!DecodeAs, Theory!SolveWanted

(* Those of the second pass too.                                           *)
LEMMA DecodedTwicePositions ==
  ASSUME config.tau \in Nat, NEW missing, NEW known
  PROVE  Theory!DecodeTwice(missing, known) \subseteq Int
BY DecodedPositions DEF Theory!DecodeTwice, Theory!DecodeAgain

(* The slot of a position is the slot of its frame.                        *)
LEMMA SlotOfPosition ==
  ASSUME CanOpen(config), NEW ts \in Int, NEW p \in Int
  PROVE  /\ Slot(FrameAt(ts, p)) = SlotAt(ts, p)
         /\ Region(NumFrames, 1, SlotAt(ts, p)) = {SlotAt(ts, p)}
         /\ SlotAt(ts, p) \in Int
<1> DEFINE W == NumFrames
           s == SlotAt(ts, p)
<1>1. W \in Nat \ {0}
  BY Layout DEF NumFrames
<1>2. s \in 0 .. W - 1
  <2>1. ts + p \in Int
    OBVIOUS
  <2> HIDE DEF W
  <2>2. (ts + p) % W \in 0 .. W - 1
    BY <1>1, <2>1, IntDivision
  <2> QED
    BY <2>2 DEF SlotAt, W
<1>3. Slot(FrameAt(ts, p)) = s
  <2> HIDE DEF W
  <2>1. (ts + p) % W = (ts - (W - p)) % W
    BY <1>1, PositionIsFrame
  <2> QED
    BY <2>1 DEF Slot, FrameAt, SlotAt, W
<1>4. Region(W, 1, s) = {s}
  <2>1. s \in Int /\ s = W * 0 + s
    BY <1>1, <1>2
  <2>2. s % W = s
    <3> DEFINE z == 0
    <3>1. z \in Int /\ s = W * z + s
      BY <1>1, <1>2
    <3> HIDE DEF W, s, z
    <3> QED
      BY <1>1, <1>2, <2>1, <3>1, RemainderUnique
  <2>3. Region(W, 1, s) = {Slot(s)}
    BY <1>1, <2>1, SizeRegion
  <2> QED
    BY <2>2, <2>3 DEF Slot
<1> QED
  BY <1>2, <1>3, <1>4

(* decode_headers: the sizes it solves and stores are those sent.          *)
LEMMA HeaderDecodedKeeps ==
  ASSUME CanOpen(config), NEW f \in Nat, NEW n \in Nat, n = f + 1, NEW sizes,
         SenderHolds(config, n, sizes, tx), NEW dec, Abreast(f, sizes, dec),
         NEW d, d.frame_num = f,
         d.pos_in_frame = 0 => Slot(f) \in DOMAIN dec.size_cols /\ Slot(f) \notin dec.size_erased
  PROVE  LET after == HeaderDecoded(dec, d)
         IN  /\ Abreast(f, sizes, after)
             /\ after.ring = dec.ring /\ after.received = dec.received
<1> DEFINE W == window_frames(config)
           m == 1
           after == HeaderDecoded(dec, d)
           positions == HeaderSolvable(dec)
           slots == {SlotAt(dec.ts, p) : p \in positions}
           cols == SolvedColumns(dec.size_cols, dec.size_erased, tx.size_cols, slots)
           learned == {FrameAt(dec.ts, p) : p \in positions}
                        \cup (IF d.pos_in_frame = 0 THEN {d.frame_num} ELSE {})
           contents == [g \in learned \cap dec.ring |-> cols[Slot(g)].len]
           known == Placed(dec.sizes, contents)
           erased == dec.size_erased \ slots
<1>1. W \in Nat \ {0} /\ m \in Nat /\ f \in Int /\ W = NumFrames /\ config.tau \in Nat
  <2>1. config.tau \in Nat
    BY ConfigFields DEF CanOpen
  <2> QED
    BY <2>1, Layout DEF NumFrames
<1>2. DOMAIN dec = ReceiverFields /\ dec.ts = f
  BY DEF Abreast, FramesKnown
<1>3. positions \subseteq Int
  BY <1>1, DecodedPositions DEF HeaderSolvable
<1>4. after = [dec EXCEPT !.size_cols = cols, !.size_erased = erased, !.sizes = known]
  BY DEF HeaderDecoded
<1> HIDE DEF positions
<1>5. /\ \A p \in positions : Slot(FrameAt(dec.ts, p)) = SlotAt(dec.ts, p)
      /\ slots \subseteq Cells(W, m)
  <2> SUFFICES ASSUME NEW p \in positions
               PROVE  /\ Slot(FrameAt(dec.ts, p)) = SlotAt(dec.ts, p)
                      /\ SlotAt(dec.ts, p) \in Cells(W, m)
    OBVIOUS
  <2> DEFINE s == SlotAt(dec.ts, p)
  <2>1. p \in Int /\ dec.ts \in Int
    BY <1>1, <1>2, <1>3
  <2>2. Slot(FrameAt(dec.ts, p)) = s /\ Region(NumFrames, 1, s) = {s} /\ s \in Int
    BY <2>1, SlotOfPosition
  <2>3. Region(W, m, s) = {s}
    BY <1>1, <2>2
  <2> HIDE DEF s, W, m
  <2>4. Region(W, m, s) \subseteq Cells(W, m)
    BY <1>1, <2>2, RegionInCells
  <2>5. s \in Cells(W, m)
    BY <2>3, <2>4
  <2> QED
    BY <2>2, <2>5 DEF s
<1>6. /\ GridSame(W, m, erased, cols, tx.size_cols)
      /\ DOMAIN cols = DOMAIN dec.size_cols \cup slots
  <2>1. GridSame(W, m, dec.size_erased, dec.size_cols, tx.size_cols)
    BY DEF Abreast, CodesAgree
  <2>2. DOMAIN tx.size_cols \subseteq Cells(W, m)
    BY DEF SenderHolds
  <2>3. dec.size_erased \ slots \subseteq erased
    OBVIOUS
  <2> DEFINE unknown == dec.size_erased
             grid == dec.size_cols
             theirs == tx.size_cols
  <2>4. GridSame(W, m, unknown, grid, theirs) /\ DOMAIN theirs \subseteq Cells(W, m)
        /\ unknown \ slots \subseteq erased /\ slots \subseteq Cells(W, m)
        /\ cols = SolvedColumns(grid, unknown, theirs, slots)
    BY <1>5, <2>1, <2>2
  <2> HIDE DEF W, m, slots, erased, cols, unknown, grid, theirs
  <2>5. GridSame(W, m, erased, SolvedColumns(grid, unknown, theirs, slots), theirs)
    BY <2>4, GridSolved
  <2>6. GridSame(W, m, erased, cols, theirs)
    BY <2>4, <2>5, Zenon
  <2>7. DOMAIN cols = DOMAIN grid \cup slots
    <3>1. SolvedHas(grid, slots, SolvedColumns(grid, unknown, theirs, slots))
      BY SolvedDomain
    <3>2. SolvedHas(grid, slots, cols)
      BY <2>4, <3>1, Zenon
    <3> QED
      BY <3>2 DEF SolvedHas
  <2> QED
    BY <2>6, <2>7 DEF grid, theirs
<1>7. \A g \in learned : Slot(g) \in DOMAIN cols /\ Slot(g) \notin erased
  <2> SUFFICES ASSUME NEW g \in learned PROVE Slot(g) \in DOMAIN cols /\ Slot(g) \notin erased
    OBVIOUS
  <2>1. CASE g \in {FrameAt(dec.ts, p) : p \in positions}
    <3>1. Slot(g) \in slots
      BY <1>5, <2>1
    <3> HIDE DEF slots, cols
    <3> QED
      BY <1>6, <3>1
  <2>2. CASE d.pos_in_frame = 0 /\ g = f
    <3>1. Slot(g) \in DOMAIN dec.size_cols /\ Slot(g) \notin dec.size_erased
      BY <2>2
    <3> HIDE DEF slots, cols
    <3> QED
      BY <1>6, <3>1
  <2> QED
    BY <2>1, <2>2
<1>8. ASSUME NEW g \in learned \cap dec.ring
      PROVE  g \in Nat /\ g <= f /\ contents[g] = sizes[g + 1]
  <2>1. g \in Nat /\ g <= f /\ f - g < W
    BY <1>2 DEF Abreast, FramesKnown
  <2>2. At(tx.size_cols, Slot(g)) = BytesOf(<<"size", g>>, sizes[g + 1])
    <3>1. g \in 0 .. n - 1 /\ n - g <= W
      <4> HIDE DEF W
      <4> QED
        BY <1>1, <2>1
    <3>2. FrameHeld(config, g, sizes[g + 1], tx)
      BY <3>1 DEF SenderHolds
    <3> QED
      BY <1>1, <3>2 DEF FrameHeld, Slot
  <2>3. At(cols, Slot(g)) = At(tx.size_cols, Slot(g))
    <3>1. Slot(g) \in Cells(W, m)
      <4>1. Slot(g) \in DOMAIN cols
        BY <1>7
      <4> HIDE DEF cols
      <4> QED
        BY <1>6, <4>1 DEF GridSame
    <3>2. Slot(g) \notin erased
      BY <1>7
    <3> HIDE DEF cols, erased, W, m
    <3> QED
      BY <1>6, <3>1, <3>2 DEF GridSame, Same
  <2>4. contents[g] = cols[Slot(g)].len
    <3> HIDE DEF cols, learned
    <3> QED
      OBVIOUS
  <2>5. cols[Slot(g)] = BytesOf(<<"size", g>>, sizes[g + 1])
    <3>1. Slot(g) \in DOMAIN cols
      BY <1>7
    <3> HIDE DEF cols
    <3> QED
      BY <2>2, <2>3, <3>1 DEF At
  <2> HIDE DEF contents, cols
  <2> QED
    BY <2>1, <2>4, <2>5 DEF BytesOf
<1>9. DOMAIN contents = learned \cap dec.ring
  OBVIOUS
<1> HIDE DEF cols, erased, learned, contents
<1>10. \A g \in DOMAIN known : g \in Nat /\ g <= f /\ known[g] = sizes[g + 1]
  <2>1. \A g \in DOMAIN dec.sizes : g \in Nat /\ g <= f /\ dec.sizes[g] = sizes[g + 1]
    BY <1>2 DEF Abreast, FramesKnown
  <2>2. DOMAIN known = DOMAIN contents \cup DOMAIN dec.sizes
    BY PlacedDomain
  <2> SUFFICES ASSUME NEW g \in DOMAIN known
               PROVE  g \in Nat /\ g <= f /\ known[g] = sizes[g + 1]
    OBVIOUS
  <2>3. CASE g \in DOMAIN contents
    BY <1>8, <1>9, <2>3 DEF Placed
  <2>4. CASE g \notin DOMAIN contents
    BY <2>1, <2>2, <2>4 DEF Placed
  <2> QED
    BY <2>3, <2>4
<1> HIDE DEF known
<1>11. /\ DOMAIN after = ReceiverFields /\ after.ts = dec.ts /\ after.cols = dec.cols
       /\ after.rows = dec.rows /\ after.erased = dec.erased /\ after.size_rows = dec.size_rows
       /\ after.ring = dec.ring /\ after.received = dec.received
       /\ after.size_cols = cols /\ after.size_erased = erased /\ after.sizes = known
  BY <1>2, <1>4 DEF ReceiverFields
<1> HIDE DEF after
<1>12. FramesKnown(config, sizes, after)
  BY <1>2, <1>10, <1>11 DEF FramesKnown, Abreast
<1>13. CodesAgree(config, tx, after)
  BY <1>6, <1>11 DEF CodesAgree, Abreast
<1> QED
  BY <1>2, <1>11, <1>12, <1>13 DEF Abreast, after

(* add_packet: the stripes of a datagram, from their first place on.       *)
StripesFrom(start, d) ==
  [i \in start .. start + d.payload_len \div StripeSize - 1 |->
     SliceOf(d.payload, (i - start) * StripeSize, StripeSize)]

(* The stripes of a datagram are those that the grid has in their places.  *)
InPlace(m, f, grid, stripes) ==
  /\ DOMAIN stripes \subseteq Region(NumFrames, m, f)
  /\ \A i \in DOMAIN stripes : stripes[i] = At(grid, i)

(* The receiver computes the places that the sender encoded in.            *)
LEMMA StripesInPlace ==
  ASSUME CanOpen(config), NEW m \in Nat, NEW f \in Nat, NEW d, NEW grid,
         StripesCarried(config, m, f, d, grid), NEW base, base = (f % window_frames(config)) * m
  PROVE  InPlace(m, f, grid, StripesFrom(base + d.stripe_pos_in_frame, d))
<1> DEFINE W == window_frames(config)
           s == stripe_size(config)
           p == d.stripe_pos_in_frame
           count == d.payload_len \div s
           start == base + p
           stripes == StripesFrom(start, d)
<1>1. /\ W \in Nat \ {0} /\ s \in Nat \ {0} /\ f \in Int /\ W = NumFrames /\ s = StripeSize
  BY Layout DEF NumFrames, StripeSize
<1>2. /\ p \in Nat /\ count \in Nat
      /\ \A q \in 0 .. count - 1 :
           /\ p + q \in 0 .. m - 1
           /\ SliceOf(d.payload, q * s, s) = At(grid, base + (p + q))
  BY DEF StripesCarried
<1>3. base \in Nat
  <2> DEFINE a == f % W
  <2>1. a \in Nat
    <3> HIDE DEF W
    <3>1. f % W \in 0 .. W - 1
      BY <1>1, IntDivision
    <3> QED
      BY <1>1, <3>1
  <2>2. base = a * m
    OBVIOUS
  <2> HIDE DEF a
  <2>3. a * m \in Nat
    BY <2>1, Z3
  <2> QED
    BY <2>2, <2>3
<1>4. DOMAIN stripes = start .. start + count - 1
  BY <1>1 DEF StripesFrom
<1>5. ASSUME NEW i \in start .. start + count - 1
      PROVE  i \in Region(NumFrames, m, f) /\ stripes[i] = At(grid, i)
  <2> DEFINE q == i - start
  <2>1. q \in 0 .. count - 1 /\ i = base + (p + q)
    <3> HIDE DEF p, count
    <3> QED
      BY <1>2, <1>3, <1>5
  <2>2. stripes[i] = SliceOf(d.payload, q * s, s)
    <3>1. stripes[i] = SliceOf(d.payload, (i - start) * StripeSize, StripeSize)
      BY <1>1, <1>4 DEF StripesFrom
    <3> QED
      BY <1>1, <3>1, Zenon
  <2> HIDE DEF q, s, p, count, stripes
  <2>3. p + q \in 0 .. m - 1 /\ SliceOf(d.payload, q * s, s) = At(grid, base + (p + q))
    BY <1>2, <2>1
  <2>4. base + (p + q) \in Region(NumFrames, m, f)
    BY <1>1, <2>3 DEF Region, W
  <2> QED
    BY <2>1, <2>2, <2>3, <2>4
<1> HIDE DEF stripes, start, count
<1> QED
  BY <1>4, <1>5 DEF InPlace, stripes, start, p

(* add_packet places columns or rows that the sender has.                  *)
LEMMA PacketAddedKeeps ==
  ASSUME CanOpen(config), NEW f \in Nat, NEW sizes, NEW dec, Abreast(f, sizes, dec),
         NEW d, Carries(config, f, tx, d)
  PROVE  LET after == PacketAdded(dec, d)
         IN  Abreast(f, sizes, after) /\ after.ring = dec.ring
<1> DEFINE W == window_frames(config)
           M == config.max_data_stripes
           F == config.max_fec_stripes
           after == PacketAdded(dec, d)
           start == first_pos_of_frame(f, d.is_parity) + d.stripe_pos_in_frame
           stripes == StripesFrom(start, d)
           before == IF f \in DOMAIN dec.received THEN dec.received[f] ELSE 0
<1>1. W \in Nat \ {0} /\ M \in Nat /\ F \in Nat /\ f \in Int /\ W = NumFrames
  BY Layout DEF NumFrames
<1>2. DOMAIN dec = ReceiverFields /\ dec.ts = f /\ d.frame_num = f
  BY DEF Abreast, FramesKnown, Carries, HeaderCarried
<1>3. /\ GridSame(W, M, dec.erased, dec.cols, tx.cols)
      /\ GridSame(W, F, Unplaced(W, F, dec.rows), dec.rows, tx.rows)
  BY DEF Abreast, CodesAgree
<1>4. CASE d.is_parity = TRUE
  <2> DEFINE rows == Placed(dec.rows, stripes)
  <2>1. after = [dec EXCEPT !.rows = rows]
    BY <1>2, <1>4 DEF PacketAdded, StripesFrom
  <2>2. StripesCarried(config, F, f, d, tx.rows)
    BY <1>4 DEF Carries
  <2>3. DOMAIN stripes \subseteq Region(NumFrames, F, f)
        /\ \A i \in DOMAIN stripes : stripes[i] = At(tx.rows, i)
    <3> DEFINE base == first_pos_of_frame(f, d.is_parity)
    <3>1. base = (f % window_frames(config)) * F
      BY <1>1, <1>4 DEF first_pos_of_frame, Slot
    <3>2. InPlace(F, f, tx.rows, StripesFrom(base + d.stripe_pos_in_frame, d))
      <4> HIDE DEF base, F
      <4> QED
        BY <1>1, <2>2, <3>1, StripesInPlace
    <3> QED
      BY <3>2 DEF InPlace
  <2> HIDE DEF stripes
  <2>4. DOMAIN stripes \subseteq Cells(W, F)
    <3> HIDE DEF W, F
    <3>1. Region(W, F, f) \subseteq Cells(W, F)
      BY <1>1, RegionInCells
    <3> QED
      BY <1>1, <2>3, <3>1
  <2>5. GridSame(W, F, Unplaced(W, F, rows), rows, tx.rows)
    <3>1. rows = Placed(dec.rows, stripes)
      OBVIOUS
    <3> HIDE DEF rows, W, F
    <3> QED
      BY <1>3, <2>3, <2>4, <3>1, RowsPlaced
  <2> HIDE DEF rows
  <2>6. /\ DOMAIN after = ReceiverFields /\ after.ts = dec.ts /\ after.cols = dec.cols
        /\ after.rows = rows /\ after.erased = dec.erased /\ after.size_rows = dec.size_rows
        /\ after.ring = dec.ring /\ after.size_cols = dec.size_cols
        /\ after.size_erased = dec.size_erased /\ after.sizes = dec.sizes
    BY <1>2, <2>1 DEF ReceiverFields
  <2> HIDE DEF after
  <2>7. FramesKnown(config, sizes, after)
    BY <1>2, <2>6 DEF FramesKnown, Abreast
  <2>8. CodesAgree(config, tx, after)
    BY <2>5, <2>6 DEF CodesAgree, Abreast
  <2> QED
    BY <1>2, <2>6, <2>7, <2>8 DEF Abreast, after
<1>5. CASE d.is_parity = FALSE
  <2> DEFINE cols == Placed(dec.cols, stripes)
             erased == dec.erased \ DOMAIN stripes
             received == Placed(dec.received, Only(f, before + d.payload_len))
  <2>1. after = [dec EXCEPT !.cols = cols, !.erased = erased, !.received = received]
    BY <1>2, <1>5 DEF PacketAdded, StripesFrom
  <2>2. StripesCarried(config, M, f, d, tx.cols)
    BY <1>5 DEF Carries
  <2>3. DOMAIN stripes \subseteq Region(NumFrames, M, f)
        /\ \A i \in DOMAIN stripes : stripes[i] = At(tx.cols, i)
    <3> DEFINE base == first_pos_of_frame(f, d.is_parity)
    <3>1. base = (f % window_frames(config)) * M
      BY <1>1, <1>5 DEF first_pos_of_frame, Slot
    <3>2. InPlace(M, f, tx.cols, StripesFrom(base + d.stripe_pos_in_frame, d))
      <4> HIDE DEF base, M
      <4> QED
        BY <1>1, <2>2, <3>1, StripesInPlace
    <3> QED
      BY <3>2 DEF InPlace
  <2> HIDE DEF stripes
  <2>4. DOMAIN stripes \subseteq Cells(W, M)
    <3> HIDE DEF W, M
    <3>1. Region(W, M, f) \subseteq Cells(W, M)
      BY <1>1, RegionInCells
    <3> QED
      BY <1>1, <2>3, <3>1
  <2>5. GridSame(W, M, erased, cols, tx.cols)
    <3>1. dec.erased \ DOMAIN stripes \subseteq erased
      OBVIOUS
    <3> HIDE DEF erased, W, M
    <3> QED
      BY <1>3, <2>3, <2>4, <3>1, GridPlaced
  <2>6. erased \cap DOMAIN cols = {}
    <3>1. dec.erased \cap DOMAIN dec.cols = {}
      BY DEF Abreast, FramesKnown
    <3>2. DOMAIN cols = DOMAIN stripes \cup DOMAIN dec.cols
      BY PlacedDomain
    <3> HIDE DEF cols
    <3> QED
      BY <3>1, <3>2
  <2> HIDE DEF cols, erased, received
  <2>7. /\ DOMAIN after = ReceiverFields /\ after.ts = dec.ts /\ after.cols = cols
        /\ after.rows = dec.rows /\ after.erased = erased /\ after.size_rows = dec.size_rows
        /\ after.ring = dec.ring /\ after.size_cols = dec.size_cols
        /\ after.size_erased = dec.size_erased /\ after.sizes = dec.sizes
    BY <1>2, <2>1 DEF ReceiverFields
  <2> HIDE DEF after
  <2>8. FramesKnown(config, sizes, after)
    BY <1>2, <2>6, <2>7 DEF FramesKnown, Abreast
  <2>9. CodesAgree(config, tx, after)
    BY <2>5, <2>7 DEF CodesAgree, Abreast
  <2> QED
    BY <1>2, <2>7, <2>8, <2>9 DEF Abreast, after
<1> QED
  BY <1>4, <1>5 DEF Carries

-----------------------------------------------------------------------------
(* The columns that a frame of known size does not use are zero at both.   *)
Sizes(c, n, sizes) ==
  \A g \in 0 .. n - 1 : /\ sizes[g + 1] \in Nat \ {0}
                        /\ CeilDiv(sizes[g + 1], stripe_size(c)) <= c.max_data_stripes

(* The columns that a frame of known size does not use are zeros at the    *)
(* sender.                                                                 *)
LEMMA UnusedAreZero ==
  ASSUME CanOpen(config), NEW f \in Nat, NEW n \in Nat, n = f + 1, NEW sizes, Sizes(config, n, sizes),
         SenderHolds(config, n, sizes, tx), NEW dec, Abreast(f, sizes, dec), NEW i \in Unused(dec)
  PROVE  At(tx.cols, i) = Zeros
<1> DEFINE W == window_frames(config)
           M == config.max_data_stripes
<1>1. W \in Nat \ {0} /\ M \in Nat /\ W = NumFrames
  BY Layout DEF NumFrames
<1>2. PICK g \in DOMAIN dec.sizes \cap dec.ring :
        /\ i \in cols_of_frame(g)
        /\ i - first_pos_of_frame(g, FALSE) >= num_data_stripes(dec.sizes[g])
  BY DEF Unused
<1>3. g \in Nat /\ g <= f /\ f - g < W /\ dec.sizes[g] = sizes[g + 1]
  BY DEF Abreast, FramesKnown
<1>4. FrameHeld(config, g, sizes[g + 1], tx)
  <2>1. g \in 0 .. n - 1 /\ n - g <= W
    <3> HIDE DEF W
    <3> QED
      BY <1>1, <1>3
  <2> QED
    BY <2>1 DEF SenderHolds
<1> DEFINE base == (g % W) * M
           k == CeilDiv(sizes[g + 1], stripe_size(config))
<1>5. first_pos_of_frame(g, FALSE) = base /\ num_data_stripes(dec.sizes[g]) = k
  BY <1>1, <1>3 DEF first_pos_of_frame, Slot, num_data_stripes, StripeSize
<1>6. PICK q \in 0 .. M - 1 : i = base + q
  BY <1>2, <1>5 DEF cols_of_frame
<1>7. base \in Nat
  <2> HIDE DEF M, W
  <2>1. q \in 0 .. M - 1 /\ g \in Int
    BY <1>3, <1>6
  <2> QED
    BY <1>1, <2>1, InRegion
<1>8. i - base = q /\ i - base >= k
  <2>1. i - base >= k
    BY <1>2, <1>5
  <2> HIDE DEF base, k, M
  <2> QED
    BY <1>1, <1>6, <1>7, <2>1
<1>9. At(tx.cols, base + q) = Stripe(config, g, sizes[g + 1], q)
  BY <1>4, <1>6 DEF FrameHeld
<1>10. Stripe(config, g, sizes[g + 1], q) = Zeros
  <2>1. q >= k
    BY <1>8
  <2>2. ~ (q < k)
    <3>1. k \in Nat
      <4>1. g \in 0 .. n - 1
        BY <1>3
      <4>2. sizes[g + 1] \in Nat \ {0} /\ stripe_size(config) \in Nat \ {0}
        BY <4>1, Layout DEF Sizes
      <4> QED
        BY <4>2, StripesHold
    <3> HIDE DEF k, M
    <3> QED
      BY <1>1, <1>6, <2>1, <3>1
  <2> QED
    BY <2>2 DEF Stripe
<1> QED
  BY <1>6, <1>9, <1>10

(* try_decode                                                              *)
LEMMA DecodedKeeps ==
  ASSUME CanOpen(config), NEW f \in Nat, NEW n \in Nat, n = f + 1, NEW sizes, Sizes(config, n, sizes),
         SenderHolds(config, n, sizes, tx), NEW dec, Abreast(f, sizes, dec)
  PROVE  LET after == Decoded(dec)
         IN  Abreast(f, sizes, after) /\ after.ring = dec.ring
<1> DEFINE W == window_frames(config)
           M == config.max_data_stripes
           after == Decoded(dec)
           unknown == dec.erased \ Unused(dec)
           missing == [p \in 1 .. NumFrames |->
                         Cardinality(unknown \cap cols_of_frame(SlotAt(dec.ts, p)))]
           known == [p \in 1 .. NumFrames |->
                       Cardinality(DOMAIN dec.rows \cap rows_of_frame(SlotAt(dec.ts, p)))]
           positions == IF HasWork(missing, known) THEN Theory!DecodeTwice(missing, known) ELSE {}
           solved == unknown \cap UNION {cols_of_frame(SlotAt(dec.ts, p)) : p \in positions}
           cols == SolvedColumns(dec.cols, unknown, tx.cols, solved)
           erased == unknown \ solved
<1>1. /\ W \in Nat \ {0} /\ M \in Nat /\ W = NumFrames /\ config.tau \in Nat /\ f \in Int
  <2>1. config.tau \in Nat
    BY ConfigFields DEF CanOpen
  <2> QED
    BY <2>1, Layout DEF NumFrames
<1>2. DOMAIN dec = ReceiverFields /\ dec.ts = f
  BY DEF Abreast, FramesKnown
<1>3. positions \subseteq Int
  <2> HIDE DEF missing, known
  <2> QED
    BY <1>1, DecodedTwicePositions
<1>4. after = [dec EXCEPT !.cols = cols, !.erased = erased]
  BY DEF Decoded
<1> HIDE DEF positions
<1>5. solved \subseteq Cells(W, M) /\ solved \subseteq unknown
  <2>1. \A p \in positions : cols_of_frame(SlotAt(dec.ts, p)) \subseteq Cells(W, M)
    <3> SUFFICES ASSUME NEW p \in positions
                 PROVE  cols_of_frame(SlotAt(dec.ts, p)) \subseteq Cells(W, M)
      OBVIOUS
    <3> DEFINE s == SlotAt(dec.ts, p)
    <3>1. p \in Int /\ dec.ts \in Int
      BY <1>1, <1>2, <1>3
    <3>2. s \in Int
      BY <3>1, SlotOfPosition
    <3>3. cols_of_frame(s) = Region(W, M, s)
      <4>1. cols_of_frame(s) = Region(NumFrames, M, s)
        BY Regions
      <4> QED
        BY <1>1, <4>1
    <3> HIDE DEF s, W, M
    <3>4. cols_of_frame(s) \subseteq Cells(W, M)
      BY <1>1, <3>2, <3>3, RegionInCells
    <3> QED
      BY <3>4 DEF s
  <2> HIDE DEF unknown, W, M
  <2> QED
    BY <2>1
<1> HIDE DEF solved, missing, known
<1>6. GridSame(W, M, unknown, dec.cols, tx.cols) /\ DOMAIN tx.cols \subseteq Cells(W, M)
  <2>1. GridSame(W, M, dec.erased, dec.cols, tx.cols)
    BY DEF Abreast, CodesAgree
  <2>2. DOMAIN tx.cols \subseteq Cells(W, M)
    BY DEF SenderHolds
  <2>3. ASSUME NEW i \in Cells(W, M) \ unknown PROVE At(dec.cols, i) = At(tx.cols, i)
    <3>1. CASE i \in dec.erased
      <4>1. i \in Unused(dec)
        BY <3>1
      <4>2. At(tx.cols, i) = Zeros
        BY <4>1, UnusedAreZero
      <4>3. i \notin DOMAIN dec.cols
        BY <3>1 DEF Abreast, FramesKnown
      <4> QED
        BY <4>2, <4>3, AtOutside
    <3>2. CASE i \notin dec.erased
      <4> HIDE DEF W, M
      <4> QED
        BY <2>1, <3>2 DEF GridSame, Same
    <3> QED
      BY <3>1, <3>2
  <2> HIDE DEF unknown, W, M
  <2> QED
    BY <2>1, <2>2, <2>3 DEF GridSame, Same
<1>7. GridSame(W, M, erased, cols, tx.cols) /\ DOMAIN cols = DOMAIN dec.cols \cup solved
  <2> DEFINE grid == dec.cols
             theirs == tx.cols
  <2>1. GridSame(W, M, unknown, grid, theirs) /\ DOMAIN theirs \subseteq Cells(W, M)
        /\ solved \subseteq Cells(W, M) /\ unknown \ solved \subseteq erased
        /\ cols = SolvedColumns(grid, unknown, theirs, solved)
    BY <1>5, <1>6
  <2> HIDE DEF W, M, unknown, erased, cols, grid, theirs
  <2>2. GridSame(W, M, erased, SolvedColumns(grid, unknown, theirs, solved), theirs)
    BY <2>1, GridSolved
  <2>3. SolvedHas(grid, solved, SolvedColumns(grid, unknown, theirs, solved))
    BY SolvedDomain
  <2>4. GridSame(W, M, erased, cols, theirs) /\ SolvedHas(grid, solved, cols)
    BY <2>1, <2>2, <2>3, Zenon
  <2> QED
    BY <2>4 DEF SolvedHas, grid, theirs
<1>8. erased \cap DOMAIN cols = {}
  <2>1. dec.erased \cap DOMAIN dec.cols = {}
    BY DEF Abreast, FramesKnown
  <2> HIDE DEF cols
  <2> QED
    BY <1>7, <2>1
<1> HIDE DEF cols, erased
<1>9. /\ DOMAIN after = ReceiverFields /\ after.ts = dec.ts /\ after.cols = cols
      /\ after.rows = dec.rows /\ after.erased = erased /\ after.size_rows = dec.size_rows
      /\ after.ring = dec.ring /\ after.size_cols = dec.size_cols
      /\ after.size_erased = dec.size_erased /\ after.sizes = dec.sizes
  BY <1>2, <1>4 DEF ReceiverFields
<1> HIDE DEF after
<1>10. FramesKnown(config, sizes, after)
  BY <1>2, <1>8, <1>9 DEF FramesKnown, Abreast
<1>11. CodesAgree(config, tx, after)
  BY <1>7, <1>9 DEF CodesAgree, Abreast
<1> QED
  BY <1>2, <1>9, <1>10, <1>11 DEF Abreast, after

(* receive_datagram                                                        *)
LEMMA IngestedAbreast ==
  ASSUME CanOpen(config), NEW n \in Nat, NEW sizes, Sizes(config, n, sizes),
         SenderHolds(config, n, sizes, tx), ReceiverHolds(config, n, sizes, tx, rx),
         NEW f \in Nat, n = f + 1, NEW d, Carries(config, f, tx, d)
  PROVE  Abreast(f, sizes, Ingested(d))
<1> DEFINE opened == Opening(f)
           placed == HeaderPlaced(opened, d)
           header == HeaderDecoded(placed, d)
           added == PacketAdded(header, d)
<1>1. d.frame_num = f /\ HeaderCarried(config, f, tx, d)
  BY DEF Carries, HeaderCarried
<1>2. Abreast(f, sizes, opened)
  BY OpeningAbreast
<1>3. Ingested(d) = Decoded(added)
  BY <1>1 DEF Ingested, Opening
<1> HIDE DEF opened
<1>4. /\ Abreast(f, sizes, placed)
      /\ d.pos_in_frame = 0 =>
           Slot(f) \in DOMAIN placed.size_cols /\ Slot(f) \notin placed.size_erased
  BY <1>1, <1>2, HeaderPlacedKeeps
<1> HIDE DEF placed
<1>5. Abreast(f, sizes, header)
  BY <1>1, <1>4, HeaderDecodedKeeps
<1> HIDE DEF header
<1>6. Abreast(f, sizes, added)
  BY <1>5, PacketAddedKeeps
<1> HIDE DEF added
<1>7. Abreast(f, sizes, Decoded(added))
  BY <1>6, DecodedKeeps
<1> QED
  BY <1>3, <1>7

(* A piece that fills its stripe is read back whole.                       *)
LEMMA WholePiece ==
  ASSUME NEW src, NEW size \in Nat, NEW s \in Nat \ {0}, NEW q \in Nat, q * s < size
  PROVE  SliceOf(Cut(src, size, s, q), 0, AtMost(s, size - q * s)) = Cut(src, size, s, q)
<1> DEFINE from == q * s
           len == AtMost(s, size - from)
           zero == 0
<1>1. from \in Nat
  BY Z3
<1>2. len \in Nat /\ zero < len /\ zero \in Nat
  <2>1. from < size
    OBVIOUS
  <2> HIDE DEF from
  <2> QED
    BY <1>1, <2>1 DEF AtMost
<1>3. AtMost(len, len - zero) = len /\ from + zero = from
  <2> HIDE DEF from, len
  <2> QED
    BY <1>1, <1>2 DEF AtMost
<1>4. Cut(src, size, s, q) = [src |-> src, from |-> from, len |-> len]
  BY DEF Cut
<1>5. SliceOf([src |-> src, from |-> from, len |-> len], zero, len)
        = [src |-> src, from |-> from + zero, len |-> AtMost(len, len - zero)]
  <2> HIDE DEF from, len, zero
  <2> QED
    BY <1>1, <1>2, SliceInside
<1>6. SliceOf([src |-> src, from |-> from, len |-> len], zero, len)
        = [src |-> src, from |-> from, len |-> len]
  BY <1>3, <1>5, Zenon
<1>7. SliceOf(Cut(src, size, s, q), zero, len) = Cut(src, size, s, q)
  BY <1>4, <1>6, Zenon
<1> QED
  BY <1>7

-----------------------------------------------------------------------------
(* take_recovered_frame                                                    *)
SentAs(sizes, e) ==
  /\ e.frame \in Nat /\ e.frame < Len(sizes) /\ e.len = sizes[e.frame + 1]
  /\ e.payload = Payload(e.frame, sizes[e.frame + 1])

(* What is handed over is what was sent, joined from its stripes.          *)
LEMMA HandedIsSent ==
  ASSUME CanOpen(config), NEW f \in Nat, NEW n \in Nat, n = f + 1, NEW sizes, Sizes(config, n, sizes),
         Len(sizes) = n, SenderHolds(config, n, sizes, tx), NEW dec, Abreast(f, sizes, dec),
         NEW e \in Handed(dec)
  PROVE  SentAs(sizes, e)
<1> DEFINE W == window_frames(config)
           M == config.max_data_stripes
           s == StripeSize
           g == e.frame
           size == sizes[g + 1]
           k == num_data_stripes(size)
           base == first_pos_of_frame(g, FALSE)
           src == <<"frame", g>>
<1>1. /\ W \in Nat \ {0} /\ M \in Nat /\ W = NumFrames /\ s \in Nat \ {0}
      /\ s = stripe_size(config)
  BY Layout DEF NumFrames, StripeSize
<1>2. /\ g \in dec.ring /\ is_frame_recovered(dec, g)
      /\ e.payload = recovered_frame(dec, g) /\ e.len = recovered_len(dec, g)
  BY DEF Handed
<1>3. /\ g \in Nat /\ g <= f /\ f - g < W /\ g \in DOMAIN dec.sizes /\ dec.sizes[g] = size
      /\ g \in 0 .. n - 1 /\ n - g <= W
  <2>1. g \in Nat /\ g <= f /\ f - g < W
    BY <1>2 DEF Abreast, FramesKnown
  <2>2. g \in DOMAIN dec.sizes /\ dec.sizes[g] = size
    BY <1>2 DEF is_frame_recovered, Abreast, FramesKnown
  <2> HIDE DEF W, g, size
  <2> QED
    BY <1>1, <2>1, <2>2
<1>4. FrameHeld(config, g, size, tx)
  BY <1>3 DEF SenderHolds
<1>5. size \in Nat \ {0} /\ CeilDiv(size, stripe_size(config)) <= M
  BY <1>3 DEF Sizes
<1>6. e.len = size
  <2> HIDE DEF g, size, s
  <2>1. recovered_len(dec, g) = SumFunction([i \in 0 .. num_data_stripes(size) - 1 |->
                                               final_pos_within_stripe(size, i) + 1])
    BY <1>3 DEF recovered_len
  <2>2. SumFunction([i \in 0 .. num_data_stripes(size) - 1 |->
                       final_pos_within_stripe(size, i) + 1]) = size
    BY <1>1, <1>5, StripesAddUp DEF s
  <2>3. recovered_len(dec, g) = size
    BY <2>1, <2>2, Zenon
  <2> QED
    BY <1>2, <2>3 DEF g
<1>7. /\ k \in Nat \ {0} /\ (k - 1) * s < size /\ size <= k * s
      /\ k = CeilDiv(size, stripe_size(config)) /\ k <= M
  BY <1>1, <1>5, StripesHold DEF num_data_stripes
<1>8. base = (g % W) * M /\ base \in Nat
  <2>1. base = (g % W) * M
    BY <1>1 DEF first_pos_of_frame, Slot
  <2>2. (g % W) * M \in Nat
    <3>1. g \in Int
      BY <1>3
    <3> DEFINE a == g % W
    <3>2. a \in Nat
      <4> HIDE DEF g, W
      <4>1. g % W \in 0 .. W - 1
        BY <1>1, <3>1, IntDivision
      <4> QED
        BY <1>1, <4>1
    <3> HIDE DEF a
    <3>3. a * M \in Nat
      BY <1>1, <3>2, Z3
    <3> QED
      BY <3>3 DEF a
  <2> QED
    BY <2>1, <2>2
<1>9. ASSUME NEW q \in 0 .. k - 1
      PROVE  SliceOf(At(dec.cols, base + q), 0, final_pos_within_stripe(size, q) + 1)
               = Cut(src, size, s, q)
  <2> DEFINE i == base + q
  <2>1. i \notin dec.erased
    <3>1. \A j \in 0 .. num_data_stripes(dec.sizes[g]) - 1 : base + j \notin dec.erased
      BY <1>2 DEF is_frame_recovered
    <3> QED
      BY <1>3, <3>1
  <2>2. q \in 0 .. M - 1 /\ q \in Nat
    <3> HIDE DEF k, M
    <3> QED
      BY <1>1, <1>7
  <2>3. i \in Cells(W, M)
    <3>1. g \in Int
      BY <1>3
    <3> HIDE DEF g, base, W, M
    <3>2. i \in Region(W, M, g)
      BY <1>1, <1>8, <2>2, <3>1, InRegion
    <3> QED
      BY <1>1, <3>1, <3>2, RegionInCells
  <2>4. At(dec.cols, i) = At(tx.cols, i)
    <3>1. Same(Cells(W, M), dec.erased, dec.cols, tx.cols)
      BY DEF Abreast, CodesAgree, GridSame
    <3> HIDE DEF i, W, M
    <3> QED
      BY <2>1, <2>3, <3>1 DEF Same
  <2>5. At(tx.cols, i) = Stripe(config, g, size, q)
    <3> HIDE DEF g, size, base
    <3> QED
      BY <1>4, <1>8, <2>2 DEF FrameHeld
  <2>6. Stripe(config, g, size, q) = Cut(src, size, s, q)
    <3>1. q < CeilDiv(size, stripe_size(config))
      <4> HIDE DEF k
      <4> QED
        BY <1>7, <2>2
    <3> QED
      BY <1>1, <3>1 DEF Stripe
  <2>7. final_pos_within_stripe(size, q) + 1 = AtMost(s, size - q * s)
    <3> HIDE DEF size
    <3> QED
      BY <1>1, <1>5, FinalPosition
  <2>8. q * s < size /\ size \in Nat
    <3> HIDE DEF k, size, s
    <3> QED
      BY <1>1, <1>5, <1>7, StripeInside
  <2>9. SliceOf(Cut(src, size, s, q), 0, AtMost(s, size - q * s)) = Cut(src, size, s, q)
    <3> HIDE DEF src, size, s
    <3> QED
      BY <1>1, <2>2, <2>8, WholePiece
  <2> HIDE DEF i, s, src, size
  <2>10. At(dec.cols, i) = Cut(src, size, s, q)
    BY <2>4, <2>5, <2>6, Zenon
  <2> QED
    BY <2>7, <2>9, <2>10, Zenon DEF i
<1>10. recovered_frame(dec, g) = Joined([i \in 1 .. k |-> Cut(src, size, s, i - 1)])
  <2> DEFINE pieces == [i \in 1 .. k |->
                          SliceOf(At(dec.cols, base + i - 1), 0,
                                  final_pos_within_stripe(size, i - 1) + 1)]
  <2>1. recovered_frame(dec, g) = Joined(pieces)
    <3> HIDE DEF g, s
    <3> QED
      BY <1>3 DEF recovered_frame
  <2>2. ASSUME NEW i \in 1 .. k
        PROVE  SliceOf(At(dec.cols, base + i - 1), 0, final_pos_within_stripe(size, i - 1) + 1)
                 = Cut(src, size, s, i - 1)
    <3> DEFINE q == i - 1
    <3>1. q \in 0 .. k - 1
      <4> HIDE DEF k
      <4> QED
        BY <1>7
    <3>2. base + q = base + i - 1
      <4>1. i \in Int
        BY <1>7
      <4> HIDE DEF base
      <4> QED
        BY <1>8, <4>1
    <3> HIDE DEF q
    <3>3. SliceOf(At(dec.cols, base + q), 0, final_pos_within_stripe(size, q) + 1)
            = Cut(src, size, s, q)
      BY <1>9, <3>1
    <3> QED
      BY <3>2, <3>3, Zenon DEF q
  <2>3. pieces = [i \in 1 .. k |-> Cut(src, size, s, i - 1)]
    <3> HIDE DEF k, base, src, s, size
    <3> QED
      BY <2>2
  <2> HIDE DEF pieces, k, g, src, size, s
  <2> QED
    BY <2>1, <2>3, Zenon
<1>11. e.payload = Payload(g, size)
  <2>1. Joined([i \in 1 .. k |-> Cut(src, size, s, i - 1)]) = BytesOf(src, size)
    <3> HIDE DEF k, src, size, s
    <3> QED
      BY <1>1, <1>5, <1>7, JoinedCuts
  <2> HIDE DEF k, size, s
  <2> QED
    BY <1>2, <1>10, <2>1 DEF Payload
<1> QED
  BY <1>3, <1>6, <1>11 DEF SentAs

-----------------------------------------------------------------------------
(* The session while it is open: both ends hold the same frames, and what  *)
(* is in the channel is of the last one.                                   *)
InSession(c, sizes, enc, dec, ch, frames) ==
  /\ CanOpen(c)
  /\ sizes \in Seq(Nat) /\ Len(sizes) <= MAX_FRAMES /\ Sizes(c, Len(sizes), sizes)
  /\ SenderHolds(c, Len(sizes), sizes, enc)
  /\ ReceiverHolds(c, Len(sizes), sizes, enc, dec)
  /\ ChannelCarries(c, Len(sizes) - 1, enc, ch)
  /\ ch # <<>> => Len(sizes) > 0
  /\ \A e \in frames : SentAs(sizes, e)

(* The invariant.  Before a session is open nothing was sent.              *)
SessionHolds ==
  IF status = "open" THEN InSession(config, sent, tx, rx, channel, out)
  ELSE sent = <<>> /\ channel = <<>> /\ out = {}

(* The constructors open a session that holds.                             *)
LEMMA OpenHolds ==
  ASSUME NEW c, CanOpen(c)
  PROVE  InSession(c, <<>>, NewEncoder, NewDecoder, <<>>, {})
<1> DEFINE empty == <<>>
           none == 0
<1>1. empty \in Seq(Nat) /\ Len(empty) = none /\ none \in Nat /\ none <= MAX_FRAMES
      /\ DOMAIN empty = {} /\ none - 1 = -1 /\ -1 \in Int /\ -1 < none
  BY TransmissionAssumption
<1>2. Sizes(c, none, empty)
  BY DEF Sizes
<1>3. SenderHolds(c, none, empty, NewEncoder)
  BY <1>1 DEF SenderHolds, NewEncoder, SenderFields
<1>4. ReceiverHolds(c, none, empty, NewEncoder, NewDecoder)
  <2>1. FramesKnown(c, empty, NewDecoder)
    BY <1>1 DEF FramesKnown, NewDecoder, ReceiverFields
  <2>2. CodesAgreeFor(c, none, NewEncoder, NewDecoder)
    BY <1>1 DEF CodesAgreeFor, GridSameFor, SameFor, Same, NewEncoder, NewDecoder
  <2> QED
    BY <1>1, <2>1, <2>2 DEF ReceiverHolds, NewDecoder
<1>5. ChannelCarries(c, none - 1, NewEncoder, empty)
  <2> DEFINE T == {}
  <2>1. empty \in Seq(T) /\ \A d \in T : Carries(c, none - 1, NewEncoder, d)
    OBVIOUS
  <2> HIDE DEF T, empty, none
  <2> QED
    BY <2>1, Zenon DEF ChannelCarries
<1> HIDE DEF none
<1>6. InSession(c, empty, NewEncoder, NewDecoder, empty, {})
  <2> HIDE DEF empty
  <2> QED
    BY <1>1, <1>2, <1>3, <1>4, <1>5 DEF InSession, empty
<1> QED
  BY <1>6

(* encode_payload, seen from the receiver.                                 *)
LEMMA ReceiverStays ==
  ASSUME NEW c, CanOpen(c), NEW n \in Nat, NEW size, NEW sizes, NEW more, NEW before, NEW after,
         NEW dec, ReceiverHolds(c, n, sizes, before, dec), Wrote(c, n, size, before, after),
         \A f \in 0 .. n - 1 : more[f + 1] = sizes[f + 1]
  PROVE  ReceiverHolds(c, n + 1, more, after, dec)
<1> DEFINE W == window_frames(c)
           M == c.max_data_stripes
           F == c.max_fec_stripes
           H == max_pkts_per_frame(c)
           m == 1
           to == dec.ts
           rows == Unplaced(W, F, dec.rows)
           size_rows == Unplaced(W, H, dec.size_rows)
<1>1. /\ W \in Nat \ {0} /\ M \in Nat /\ F \in Nat /\ H \in Nat /\ m \in Nat
      /\ to \in Int /\ to < n /\ n \in Int
  BY Layout DEF ReceiverHolds
<1>2. /\ GridSameFor(W, M, n - W, to, dec.erased, dec.cols, before.cols)
      /\ GridSameFor(W, F, n - W, to, rows, dec.rows, before.rows)
      /\ GridSameFor(W, m, n - W, to, dec.size_erased, dec.size_cols, before.size_cols)
      /\ GridSameFor(W, H, n - W, to, size_rows, dec.size_rows, before.size_rows)
  BY DEF ReceiverHolds, CodesAgreeFor
<1>3. /\ WritesFrame(W, M, n, before.cols, after.cols)
      /\ WritesFrame(W, F, n, before.rows, after.rows)
      /\ WritesFrame(W, m, n, before.size_cols, after.size_cols)
      /\ WritesFrame(W, H, n, before.size_rows, after.size_rows)
  BY DEF Wrote
<1>4. FramesKnown(c, more, dec)
  <2>1. FramesKnown(c, sizes, dec)
    BY DEF ReceiverHolds
  <2>2. \A g \in DOMAIN dec.sizes : g \in Nat /\ g <= dec.ts /\ dec.sizes[g] = sizes[g + 1]
    BY <2>1 DEF FramesKnown
  <2>3. \A g \in DOMAIN dec.sizes : g \in 0 .. n - 1
    BY <1>1, <2>2
  <2>4. \A g \in DOMAIN dec.sizes : g \in Nat /\ g <= dec.ts /\ dec.sizes[g] = more[g + 1]
    BY <2>2, <2>3
  <2> QED
    BY <2>1, <2>4 DEF FramesKnown
<1> HIDE DEF W, M, F, H, m, to, rows, size_rows
<1> DEFINE from == (n + 1) - W
<1>0. n + 1 - W = from
  BY <1>1
<1> HIDE DEF from
<1>5. GridSameFor(W, M, from, to, dec.erased, dec.cols, after.cols)
  BY <1>0, <1>1, <1>2, <1>3, SenderKeeps DEF GridSameFor
<1>6. GridSameFor(W, F, from, to, rows, dec.rows, after.rows)
  BY <1>0, <1>1, <1>2, <1>3, SenderKeeps DEF GridSameFor
<1>7. GridSameFor(W, m, from, to, dec.size_erased, dec.size_cols, after.size_cols)
  BY <1>0, <1>1, <1>2, <1>3, SenderKeeps DEF GridSameFor
<1>8. GridSameFor(W, H, from, to, size_rows, dec.size_rows, after.size_rows)
  BY <1>0, <1>1, <1>2, <1>3, SenderKeeps DEF GridSameFor
<1>9. CodesAgreeFor(c, n + 1, after, dec)
  BY <1>5, <1>6, <1>7, <1>8 DEF CodesAgreeFor, W, M, F, H, m, to, rows, size_rows, from
<1>10. to < n + 1
  BY <1>1
<1> QED
  BY <1>1, <1>4, <1>9, <1>10 DEF ReceiverHolds, to

(* encode_payload: the plan fits the code, and the packets are its own.    *)
LEMMA EncodePlans ==
  ASSUME Sound, CanOpen(config), NEW size \in FrameSizes \ {0}, Encodes(size),
         NEW parity \in 0 .. config.max_fec_stripes, Encode(size, parity)
  PROVE  LET plan == specs_for_stripes(num_data_stripes(size), parity, MaxStripesPerPkt)
             enc == HeaderEncoded(size)
             data == DataDatagrams(enc, size, plan)
             coded == CodeEncoded(enc, size, data)
         IN  /\ size \in Nat \ {0} /\ Fits(plan)
             /\ num_data_stripes(size) <= config.max_data_stripes
             /\ parity \in 0 .. config.max_fec_stripes
             /\ PlanHolds(plan, num_data_stripes(size), parity)
             /\ channel' = data \o ParityDatagrams(coded, plan) /\ sent' = Append(sent, size)
<1> DEFINE plan == specs_for_stripes(num_data_stripes(size), parity, MaxStripesPerPkt)
           enc == HeaderEncoded(size)
           data == DataDatagrams(enc, size, plan)
           coded == CodeEncoded(enc, size, data)
<1>1. status = "open" /\ size \in 1 .. config.max_frame_size
  BY DEF Encodes, Ready
<1>2. size \in Nat \ {0}
  BY TransmissionAssumption
<1>3. Fits(plan)
  <2>1. config.max_frame_size \in Nat
    BY Layout
  <2>2. size \in Nat /\ size <= config.max_frame_size
    BY <1>1, <1>2, <2>1
  <2> QED
    BY <1>1, <2>2, EncodeFits
<1>4. plan.data = num_data_stripes(size) /\ plan.parity = parity
  BY DEF specs_for_stripes
<1>5. num_data_stripes(size) \in Nat /\ config.max_fec_stripes \in Nat
      /\ MaxStripesPerPkt \in Nat \ {0}
  BY <1>2, Layout, StripesHold DEF num_data_stripes, StripeSize, MaxStripesPerPkt
<1>6. parity \in Nat
  BY <1>5
<1>7. num_data_stripes(size) <= config.max_data_stripes /\ parity <= config.max_fec_stripes
  <2> HIDE DEF plan
  <2> QED
    BY <1>3, <1>4 DEF Fits
<1>8. PlanHolds(plan, num_data_stripes(size), parity)
  BY <1>5, <1>6, PlanDivides
<1>9. channel' = data \o ParityDatagrams(coded, plan) /\ sent' = Append(sent, size)
  BY <1>3 DEF Encode
<1>10. parity \in 0 .. config.max_fec_stripes
  BY <1>5, <1>6, <1>7
<1> QED
  BY <1>2, <1>3, <1>7, <1>8, <1>9, <1>10

(* encode_payload keeps it.                                                *)
LEMMA EncodeKeeps ==
  ASSUME MAX_FRAMES <= WIRE_FRAMES, Sound, SessionHolds,
         NEW size \in FrameSizes \ {0}, Encodes(size),
         NEW parity \in 0 .. config.max_fec_stripes, Encode(size, parity)
  PROVE  InSession(config, sent', tx', rx, channel', out)
<1> DEFINE n == Len(sent)
           plan == specs_for_stripes(num_data_stripes(size), parity, MaxStripesPerPkt)
           enc == HeaderEncoded(size)
           data == DataDatagrams(enc, size, plan)
           coded == CodeEncoded(enc, size, data)
           sqn == coded.sqn + plan.data_pkts + plan.parity_pkts
           after == [coded EXCEPT !.sqn = sqn, !.next_session_index = n + 1]
           ch == data \o ParityDatagrams(coded, plan)
<1>1. /\ status = "open" /\ channel = <<>> /\ size \in 1 .. config.max_frame_size
      /\ tx.next_session_index < MAX_FRAMES
  BY DEF Encodes, Ready
<1>2. InSession(config, sent, tx, rx, channel, out)
  BY <1>1 DEF SessionHolds
<1>3. CanOpen(config) /\ SenderHolds(config, n, sent, tx) /\ sent \in Seq(Nat)
  BY <1>2 DEF InSession
<1>4. n \in Nat /\ n < MAX_FRAMES /\ n \in 0 .. WIRE_FRAMES - 1 /\ size \in Nat \ {0}
  <2>1. n \in Nat
    BY <1>3, LenProperties
  <2>2. tx.next_session_index = n
    BY <1>3 DEF SenderHolds
  <2>3. MAX_FRAMES \in Nat /\ FrameSizes \subseteq Nat
    BY TransmissionAssumption
  <2>4. size \in Nat /\ size # 0
    BY <2>3
  <2> HIDE DEF n
  <2>5. n < MAX_FRAMES
    BY <1>1, <2>2
  <2>6. n < WIRE_FRAMES /\ WIRE_FRAMES \in Nat
    BY <2>1, <2>3, <2>5 DEF WIRE_FRAMES
  <2> QED
    BY <2>1, <2>4, <2>5, <2>6
<1>5. /\ Fits(plan) /\ num_data_stripes(size) <= config.max_data_stripes
      /\ parity \in 0 .. config.max_fec_stripes
      /\ PlanHolds(plan, num_data_stripes(size), parity)
  BY <1>3, EncodePlans
<1>8. /\ Wrote(config, n, size, tx, after) /\ coded.next_session_index = n
      /\ ChannelCarries(config, n, after, ch)
  <2> HIDE DEF plan, sqn, n
  <2> QED
    BY <1>3, <1>4, <1>5, EncodeCarries
<1>9. tx' = after /\ channel' = ch /\ sent' = Append(sent, size)
  <2>1. /\ channel' = ch /\ sent' = Append(sent, size)
        /\ tx' = [coded EXCEPT !.sqn = coded.sqn + plan.data_pkts + plan.parity_pkts,
                               !.next_session_index = coded.next_session_index + 1]
    BY <1>5 DEF Encode
  <2> HIDE DEF coded, ch, plan
  <2> QED
    BY <1>8, <2>1
<1> HIDE DEF plan, enc, data, coded, after, ch, n
<1> DEFINE more == Append(sent, size)
<1>10. /\ more \in Seq(Nat) /\ Len(more) = n + 1
       /\ more[n + 1] = size /\ \A f \in 0 .. n - 1 : more[f + 1] = sent[f + 1]
  BY <1>3, <1>4, AppendProperties DEF n
<1> HIDE DEF more
<1>11. SenderHolds(config, n + 1, more, after)
  BY <1>3, <1>4, <1>8, <1>10, WroteHolds
<1>12. ReceiverHolds(config, n + 1, more, after, rx)
  <2>1. ReceiverHolds(config, n, sent, tx, rx)
    BY <1>2 DEF InSession, n
  <2> QED
    BY <1>3, <1>4, <1>8, <1>10, <2>1, ReceiverStays
<1>13. Sizes(config, n + 1, more)
  <2>1. Sizes(config, n, sent)
    BY <1>2 DEF InSession, n
  <2>2. CeilDiv(size, stripe_size(config)) <= config.max_data_stripes
    BY <1>5 DEF num_data_stripes, StripeSize
  <2>3. ASSUME NEW g \in 0 .. (n + 1) - 1
        PROVE  more[g + 1] \in Nat \ {0}
               /\ CeilDiv(more[g + 1], stripe_size(config)) <= config.max_data_stripes
    <3>1. CASE g = n
      BY <1>4, <1>10, <2>2, <3>1
    <3>2. CASE g # n
      <4>1. g \in 0 .. n - 1
        BY <1>4, <3>2
      <4> QED
        BY <1>10, <2>1, <4>1 DEF Sizes
    <3> QED
      BY <3>1, <3>2
  <2> QED
    BY <2>3 DEF Sizes
<1>14. \A e \in out : SentAs(more, e)
  <2> SUFFICES ASSUME NEW e \in out PROVE SentAs(more, e)
    OBVIOUS
  <2>1. e.frame \in Nat /\ e.frame < n /\ e.len = sent[e.frame + 1]
        /\ e.payload = Payload(e.frame, sent[e.frame + 1])
    BY <1>2 DEF InSession, SentAs, n
  <2>2. e.frame \in 0 .. n - 1 /\ e.frame < n + 1
    BY <1>4, <2>1
  <2>3. more[e.frame + 1] = sent[e.frame + 1]
    BY <1>10, <2>2
  <2> QED
    BY <1>10, <2>1, <2>2, <2>3 DEF SentAs
<1>15. n + 1 <= MAX_FRAMES /\ n + 1 > 0 /\ (n + 1) - 1 = n
  BY <1>4, TransmissionAssumption
<1>16. InSession(config, more, after, rx, ch, out)
  <2> DEFINE k == n + 1
  <2>1. Len(more) = k /\ k <= MAX_FRAMES /\ k > 0 /\ k - 1 = n
    BY <1>10, <1>15
  <2>2. /\ SenderHolds(config, k, more, after) /\ ReceiverHolds(config, k, more, after, rx)
        /\ Sizes(config, k, more)
    BY <1>11, <1>12, <1>13
  <2> HIDE DEF k
  <2>3. ChannelCarries(config, k - 1, after, ch)
    BY <1>8, <2>1
  <2> QED
    BY <1>3, <1>10, <1>14, <2>1, <2>2, <2>3 DEF InSession
<1> QED
  BY <1>9, <1>16, Zenon DEF more

(* receive_datagram keeps it.                                              *)
LEMMA ReceiveKeeps ==
  ASSUME MAX_FRAMES <= WIRE_FRAMES, SessionHolds, status = "open", Receive
  PROVE  InSession(config, sent, tx, rx', channel', out')
<1> DEFINE n == Len(sent)
           f == n - 1
           head == Head(channel)
           d == from_bytes(to_bytes(head))
           dec == Ingested(d)
<1>1. InSession(config, sent, tx, rx, channel, out)
  BY DEF SessionHolds
<1>2. channel # <<>> /\ rx' = dec /\ out' = out \cup Handed(rx') /\ channel' = Tail(channel)
  BY DEF Receive
<1>3. /\ CanOpen(config) /\ sent \in Seq(Nat) /\ n <= MAX_FRAMES /\ n > 0
      /\ Sizes(config, n, sent) /\ SenderHolds(config, n, sent, tx)
      /\ ReceiverHolds(config, n, sent, tx, rx) /\ ChannelCarries(config, f, tx, channel)
  BY <1>1, <1>2 DEF InSession
<1>4. n \in Nat /\ f \in Nat /\ n = f + 1 /\ f \in 0 .. WIRE_FRAMES - 1 /\ f \in Int
  <2>1. n \in Nat
    BY <1>3, LenProperties
  <2>2. MAX_FRAMES \in Nat
    BY TransmissionAssumption
  <2> HIDE DEF n
  <2> QED
    BY <1>3, <2>1, <2>2 DEF WIRE_FRAMES
<1>5. Carries(config, f, tx, head) /\ ChannelCarries(config, f, tx, Tail(channel))
  <2> HIDE DEF f
  <2> QED
    BY <1>2, <1>3, ChannelHead
<1> HIDE DEF head, f
<1>6. Carries(config, f, tx, d)
  BY <1>4, <1>5, WireCarries
<1> HIDE DEF d
<1>7. Abreast(f, sent, dec)
  <2> HIDE DEF n
  <2> QED
    BY <1>3, <1>4, <1>6, IngestedAbreast
<1> HIDE DEF dec
<1>8. \A e \in Handed(dec) : SentAs(sent, e)
  <2> SUFFICES ASSUME NEW e \in Handed(dec) PROVE SentAs(sent, e)
    OBVIOUS
  <2> QED
    BY <1>3, <1>4, <1>7, HandedIsSent
<1>9. \A e \in out \cup Handed(dec) : SentAs(sent, e)
  BY <1>1, <1>8 DEF InSession
<1>10. ReceiverHolds(config, n, sent, tx, dec)
  <2>1. dec.ts = f /\ FramesKnown(config, sent, dec) /\ CodesAgree(config, tx, dec)
    BY <1>7 DEF Abreast
  <2>2. dec.ts \in Int /\ dec.ts < n /\ n \in Int
    BY <1>4, <2>1
  <2> HIDE DEF n
  <2>3. CodesAgreeFor(config, n, tx, dec)
    BY <1>3, <2>1, <2>2, AbreastLater
  <2> QED
    BY <2>1, <2>2, <2>3 DEF ReceiverHolds
<1>11. InSession(config, sent, tx, dec, Tail(channel), out \cup Handed(dec))
  BY <1>3, <1>5, <1>9, <1>10 DEF InSession, f
<1> QED
  BY <1>2, <1>11, Zenon

(* The invariant holds at first.                                           *)
LEMMA InitSession == Init => SessionHolds
BY DEF Init, SessionHolds

(* Every step keeps the invariant.                                         *)
LEMMA NextSession ==
  MAX_FRAMES <= WIRE_FRAMES /\ Sound /\ SessionHolds /\ [Next]_vars => SessionHolds'
<1> SUFFICES ASSUME MAX_FRAMES <= WIRE_FRAMES, Sound, SessionHolds, [Next]_vars
             PROVE  SessionHolds'
  OBVIOUS
<1>1. ASSUME status # "open", status' # "open", UNCHANGED <<sent, channel, out>>
      PROVE  SessionHolds'
  BY <1>1 DEF SessionHolds
<1>2. ASSUME UNCHANGED <<status, config, tx, rx, sent, channel, out>>
      PROVE  SessionHolds'
  BY <1>2, Zenon DEF SessionHolds
<1>3. ASSUME NEW field \in DOMAIN Settings, NEW value \in Settings[field], Set(field, value)
      PROVE  SessionHolds'
  BY <1>1, <1>3 DEF Set, session_vars
<1>4. CASE Build
  <2>1. status = "building" /\ status' \in {"built", "refused"}
    BY <1>4 DEF Build
  <2>2. UNCHANGED <<sent, channel, out>>
    BY <1>4 DEF Build, session_vars
  <2> QED
    BY <1>1, <2>1, <2>2
<1>5. ASSUME NEW checks \in BOOLEAN, Open(checks) PROVE SessionHolds'
  <2>1. /\ status = "built" /\ status' = Opened(config, checks)
        /\ tx' = NewEncoder /\ rx' = NewDecoder
        /\ UNCHANGED <<config, sent, channel, out>>
    BY <1>5 DEF Open
  <2>2. CASE status' = "open"
    <3>1. max_pkts_per_frame(config) # 0
      BY <2>1, <2>2 DEF Opened
    <3>2. CanOpen(config)
      BY <2>1, <3>1 DEF CanOpen, Sound
    <3>3. sent = <<>> /\ channel = <<>> /\ out = {}
      BY <2>1 DEF SessionHolds
    <3>4. InSession(config, <<>>, NewEncoder, NewDecoder, <<>>, {})
      BY <3>2, OpenHolds
    <3>5. InSession(config', sent', tx', rx', channel', out')
      BY <2>1, <3>3, <3>4, Zenon
    <3> QED
      BY <2>2, <3>5 DEF SessionHolds
  <2>3. CASE status' # "open"
    BY <1>1, <2>1, <2>3
  <2> QED
    BY <2>2, <2>3
<1>6. ASSUME NEW level \in Feedback, apply_feedback(level) PROVE SessionHolds'
  BY <1>2, <1>6 DEF apply_feedback
<1>7. ASSUME NEW size \in FrameSizes, Refuse(size) PROVE SessionHolds'
  BY <1>2, <1>7 DEF Refuse
<1>8. ASSUME NEW size \in FrameSizes \ {0}, encode_payload(size)
      PROVE  SessionHolds'
  <2>1. CASE Panics(size)
    BY <1>2, <2>1 DEF Panics
  <2>2. CASE Proceeds(size)
    <3> DEFINE parity == Emitted(num_data_stripes(size))
    <3>1. /\ parity \in 0 .. config.max_fec_stripes /\ Encodes(size) /\ Encode(size, parity)
      BY <2>2, ProceedsInBounds DEF Proceeds
    <3> HIDE DEF parity
    <3>2. InSession(config, sent', tx', rx, channel', out)
      BY <3>1, EncodeKeeps
    <3>3. status = "open" /\ UNCHANGED <<status, config, rx, out>>
      BY <3>1, Zenon DEF Encode, Encodes, Ready
    <3> QED
      BY <3>2, <3>3, Zenon DEF SessionHolds
  <2> QED
    BY <1>8, <2>1, <2>2, PanicsOrProceeds
<1>9. ASSUME channel # <<>>
      PROVE  status = "open" /\ InSession(config, sent, tx, rx, channel, out)
  BY <1>9, Zenon DEF SessionHolds
<1>10. CASE Lose
  <2>1. /\ channel # <<>> /\ channel' = Tail(channel)
        /\ UNCHANGED <<status, config, tx, rx, sent, out>>
    BY <1>10 DEF Lose
  <2>2. status = "open" /\ InSession(config, sent, tx, rx, channel, out)
    BY <1>9, <2>1
  <2>3. InSession(config, sent, tx, rx, Tail(channel), out)
    <3>1. ChannelCarries(config, Len(sent) - 1, tx, Tail(channel))
      BY <2>1, <2>2, ChannelHead DEF InSession
    <3> QED
      BY <2>1, <2>2, <3>1, Zenon DEF InSession
  <2> QED
    BY <2>1, <2>2, <2>3, Zenon DEF SessionHolds
<1>11. CASE Receive
  <2>1. channel # <<>> /\ UNCHANGED <<status, config, tx, sent>>
    BY <1>11 DEF Receive
  <2>2. status = "open"
    BY <1>9, <2>1
  <2>3. InSession(config, sent, tx, rx', channel', out')
    BY <1>11, <2>2, ReceiveKeeps
  <2> QED
    BY <2>1, <2>2, <2>3, Zenon DEF SessionHolds
<1>12. CASE UNCHANGED vars
  BY <1>2, <1>12 DEF vars
<1> QED
  BY <1>3, <1>4, <1>5, <1>6, <1>7, <1>8, <1>10, <1>11, <1>12, Zenon DEF Next

(* Where both ends have the same frames, they agree on every position.     *)
LEMMA SameEverywhere ==
  ASSUME NEW W \in Nat \ {0}, NEW m \in Nat, NEW n \in Int, NEW to, to = n - 1, NEW unknown,
         NEW mine, NEW theirs, GridSameFor(W, m, n - W, to, unknown, mine, theirs)
  PROVE  Same(Cells(W, m), unknown, mine, theirs)
<1> SUFFICES ASSUME NEW i \in Cells(W, m) \ unknown PROVE At(mine, i) = At(theirs, i)
  BY DEF Same
<1>1. PICK g \in n - W .. n - 1 : i \in Region(W, m, g)
  BY RegionsCover DEF Covered
<1> QED
  BY <1>1 DEF GridSameFor, SameFor, Same

(* The columns agree where they are known.                                 *)
LEMMA ColumnsAgree ==
  ASSUME NEW W, NEW m, NEW unknown, NEW mine, NEW theirs, Same(Cells(W, m), unknown, mine, theirs),
         DOMAIN mine \subseteq Cells(W, m), DOMAIN theirs \subseteq Cells(W, m)
  PROVE  Agree(mine, unknown, theirs)
BY DEF Agree, Same

(* The rows that the receiver has are those of the sender.                 *)
LEMMA RowsAgree ==
  ASSUME NEW W, NEW m, NEW mine, NEW theirs,
         Same(Cells(W, m), Unplaced(W, m, mine), mine, theirs), DOMAIN mine \subseteq Cells(W, m),
         NEW i \in DOMAIN mine
  PROVE  mine[i] = At(theirs, i)
BY DEF Same, Unplaced, At

(* GridsAgree from the invariant.                                          *)
LEMMA SessionAgrees == SessionHolds => GridsAgree
<1> SUFFICES ASSUME SessionHolds, status = "open", rx.ts >= 0, rx.ts = tx.ts - 1
             PROVE  /\ Agree(rx.cols, rx.erased, tx.cols)
                    /\ \A i \in DOMAIN rx.rows : rx.rows[i] = At(tx.rows, i)
                    /\ Agree(rx.size_cols, rx.size_erased, tx.size_cols)
                    /\ \A i \in DOMAIN rx.size_rows : rx.size_rows[i] = At(tx.size_rows, i)
  BY DEF GridsAgree
<1> DEFINE n == Len(sent)
           W == window_frames(config)
           M == config.max_data_stripes
           F == config.max_fec_stripes
           H == max_pkts_per_frame(config)
           m == 1
           to == rx.ts
<1>1. /\ CanOpen(config) /\ sent \in Seq(Nat) /\ SenderHolds(config, n, sent, tx)
      /\ ReceiverHolds(config, n, sent, tx, rx)
  BY DEF SessionHolds, InSession
<1>2. /\ W \in Nat \ {0} /\ M \in Nat /\ F \in Nat /\ H \in Nat /\ m \in Nat
      /\ n \in Nat /\ n \in Int
  <2>1. n \in Nat
    BY <1>1, LenProperties
  <2> HIDE DEF n
  <2> QED
    BY <1>1, <2>1, Layout
<1>3. to = n - 1 /\ DOMAIN tx.cols \subseteq Cells(W, M) /\ DOMAIN tx.size_cols \subseteq Cells(W, m)
  <2>1. tx.ts = n
    BY <1>1 DEF SenderHolds
  <2> QED
    BY <1>1, <2>1 DEF SenderHolds
<1>4. /\ GridSameFor(W, M, n - W, to, rx.erased, rx.cols, tx.cols)
      /\ GridSameFor(W, F, n - W, to, Unplaced(W, F, rx.rows), rx.rows, tx.rows)
      /\ GridSameFor(W, m, n - W, to, rx.size_erased, rx.size_cols, tx.size_cols)
      /\ GridSameFor(W, H, n - W, to, Unplaced(W, H, rx.size_rows), rx.size_rows, tx.size_rows)
  BY <1>1 DEF ReceiverHolds, CodesAgreeFor
<1> HIDE DEF n, W, M, F, H, m, to
<1>5. Agree(rx.cols, rx.erased, tx.cols)
  BY <1>2, <1>3, <1>4, SameEverywhere, ColumnsAgree DEF GridSameFor
<1>6. Agree(rx.size_cols, rx.size_erased, tx.size_cols)
  BY <1>2, <1>3, <1>4, SameEverywhere, ColumnsAgree DEF GridSameFor
<1>7. ASSUME NEW i \in DOMAIN rx.rows PROVE rx.rows[i] = At(tx.rows, i)
  BY <1>2, <1>3, <1>4, SameEverywhere, RowsAgree DEF GridSameFor
<1>8. ASSUME NEW i \in DOMAIN rx.size_rows PROVE rx.size_rows[i] = At(tx.size_rows, i)
  BY <1>2, <1>3, <1>4, SameEverywhere, RowsAgree DEF GridSameFor
<1> QED
  BY <1>5, <1>6, <1>7, <1>8

(* PayloadReassembled from the invariant.                                  *)
LEMMA SessionReassembles == SessionHolds => PayloadReassembled
BY DEF SessionHolds, InSession, SentAs, PayloadReassembled

-----------------------------------------------------------------------------
(* The recovery decision never marks the newest frame of the window as     *)
(* recovered without a parity stripe of its own: what the steps before the *)
(* newest do leaves its count of missing stripes alone.                    *)
CountsWith(k) == {c \in [1 .. NumFrames -> Nat] : c[NumFrames] = k}

(* States of the simulation with k stripes missing of the newest frame.    *)
SimulatedWith(k) == [missing : CountsWith(k), unusable : [1 .. NumFrames -> BOOLEAN]]

(* The window of the recovery decision is the receiver's.                  *)
LEMMA TheoryWindow ==
  ASSUME config.tau \in Nat
  PROVE  /\ Theory!NumFrames = NumFrames /\ Theory!Window = 1 .. NumFrames
         /\ NumFrames \in Nat \ {0}
BY DEF Theory!NumFrames, Theory!Window, NumFrames, window_frames

(* decode_streaming_code, from one of the older frames.                    *)
LEMMA DecodeFromKeeps ==
  ASSUME config.tau \in Nat, NEW k, NEW th \in SimulatedWith(k), NEW r, NEW n,
         NEW start \in 1 .. NumFrames, start # NumFrames
  PROVE  Theory!DecodeFrom(r, n, th, start) \in SimulatedWith(k)
<1>1. NumFrames \in Nat \ {0}
  BY TheoryWindow
<1> HIDE DEF NumFrames
<1>2. th.missing \in CountsWith(k) /\ th.unusable \in [1 .. NumFrames -> BOOLEAN]
  BY DEF SimulatedWith
<1>3. Theory!Tried(th.missing, Theory!NetParities(r, th.unusable), n, start) \in CountsWith(k)
  <2>1. [th.missing EXCEPT ![start] = 0] \in CountsWith(k)
    BY <1>1, <1>2 DEF CountsWith
  <2> QED
    BY <1>2, <2>1 DEF Theory!Tried
<1>4. ASSUME NEW m PROVE Theory!MarkUnusable(m, start, n, th.unusable) \in [1 .. NumFrames -> BOOLEAN]
  <2> DEFINE marked(q) == th.unusable[q]
                 \/ (m[start] > 0 /\ q \in start .. Theory!AtMost(n, start + config.tau))
  <2>1. Theory!MarkUnusable(m, start, n, th.unusable) = [q \in 1 .. NumFrames |-> marked(q)]
    BY <1>2 DEF Theory!MarkUnusable
  <2>2. \A q \in 1 .. NumFrames : marked(q) \in BOOLEAN
    OBVIOUS
  <2> HIDE DEF marked
  <2> QED
    BY <2>1, <2>2
<1> QED
  BY <1>3, <1>4 DEF Theory!DecodeFrom, Theory!Marked, SimulatedWith

(* decode_streaming_code, all steps of a pass over older frames.           *)
LEMMA PassKeeps ==
  ASSUME config.tau \in Nat, NEW k, NEW r, NEW m \in CountsWith(k),
         NEW unusable \in [1 .. NumFrames -> BOOLEAN], NEW n \in 1 .. NumFrames, n # NumFrames
  PROVE  Theory!DecodeStreamingCode(r, n, m, unusable) \in CountsWith(k)
<1> DEFINE pass[start \in 0 .. n] ==
             IF start = 0 THEN [missing |-> m, unusable |-> unusable]
             ELSE Theory!DecodeFrom(r, n, pass[start - 1], start)
           States == SimulatedWith(k)
<1>0. n \in Nat /\ NumFrames \in Nat \ {0} /\ n < NumFrames
  BY TheoryWindow
<1>a. \A i \in 1 .. n : i \in 1 .. NumFrames /\ i # NumFrames
  <2> HIDE DEF NumFrames
  <2> QED
    BY <1>0
<1>b. \A i \in 1 .. n, x \in States : Theory!DecodeFrom(r, n, x, i) \in States
  BY <1>a, DecodeFromKeeps
<1>1. pass[n].missing \in CountsWith(k)
  <2> DEFINE base == [missing |-> m, unusable |-> unusable]
             Step == [x \in (1 .. n) \X States |-> Theory!DecodeFrom(r, n, x[2], x[1])]
             Good == {i \in 0 .. n : pass[i] \in States}
  <2>1. base \in States
    BY DEF SimulatedWith
  <2> HIDE DEF States
  <2>2. \A i \in 1 .. n, x \in States : Step[<<i, x>>] = Theory!DecodeFrom(r, n, x, i)
    OBVIOUS
  <2>3. \A i \in 1 .. n, x \in States : Step[<<i, x>>] \in States
    BY <1>b, <2>2
  <2>4. \E h \in [0 .. n -> States] : Follows(h, n, base, Step)
    <3> HIDE DEF base, Step, Good, pass
    <3>1. StepsStayIn(n, States, Step)
      BY <2>3 DEF StepsStayIn
    <3> QED
      BY <1>0, <2>1, <3>1, RecursionExists
  <2>5. PICK h \in [0 .. n -> States] :
           h[0] = base /\ \A i \in 1 .. n : h[i] = Theory!DecodeFrom(r, n, h[i - 1], i)
    <3>1. \A i \in 1 .. n : i - 1 \in 0 .. n
      BY <1>0
    <3> HIDE DEF base, Step
    <3> QED
      BY <2>2, <2>4, <3>1 DEF Follows
  <2>6. h = [start \in 0 .. n |->
               IF start = 0 THEN [missing |-> m, unusable |-> unusable]
               ELSE Theory!DecodeFrom(r, n, h[start - 1], start)]
    BY <1>0, <2>5
  <2>7. pass = [start \in 0 .. n |->
               IF start = 0 THEN [missing |-> m, unusable |-> unusable]
               ELSE Theory!DecodeFrom(r, n, pass[start - 1], start)]
    BY <2>6
  <2> HIDE DEF pass
  <2>8. 0 \in Good
    BY <1>0, <2>1, <2>7
  <2>9. \A i \in 0 .. n - 1 : i \in Good => i + 1 \in Good
    <3> SUFFICES ASSUME NEW i \in 0 .. n - 1, pass[i] \in States
                 PROVE  i + 1 \in 0 .. n /\ pass[i + 1] \in States
      OBVIOUS
    <3>1. i + 1 \in 0 .. n /\ i + 1 # 0 /\ (i + 1) - 1 = i /\ i + 1 \in 1 .. n
      BY <1>0
    <3>2. pass[i + 1] = Theory!DecodeFrom(r, n, pass[i], i + 1)
      BY <2>7, <3>1
    <3> QED
      BY <1>b, <3>1, <3>2
  <2>10. n \in Good
    <3>1. n \in 0 .. n
      BY <1>0
    <3> HIDE DEF Good
    <3> QED
      BY <1>0, <2>8, <2>9, <3>1, CountUp
  <2> QED
    BY <2>10 DEF SimulatedWith, States
<1>2. Theory!DecodeStreamingCode(r, n, m, unusable) =
        IF r[n] = 0 THEN m
        ELSE IF \A j \in 1 .. n - 1 : m[j] = 0
        THEN IF m[n] <= r[n] THEN [m EXCEPT ![n] = 0] ELSE m
        ELSE pass[n].missing
  BY DEF Theory!DecodeStreamingCode
<1> HIDE DEF pass, NumFrames
<1>3. [m EXCEPT ![n] = 0] \in CountsWith(k)
  BY <1>0 DEF CountsWith
<1> QED
  BY <1>1, <1>2, <1>3

(* add_frame.                                                              *)
LEMMA AddFrameKeeps ==
  ASSUME config.tau \in Nat, NEW k, NEW r, NEW th \in SimulatedWith(k), NEW n \in 1 .. NumFrames,
         n = NumFrames => r[n] = 0
  PROVE  Theory!AddFrame(r, th, n) \in SimulatedWith(k)
<1> DEFINE u == [th.unusable EXCEPT ![n] = n <= config.tau \/ r[n] = 0]
<1>1. th.missing \in CountsWith(k) /\ th.unusable \in [1 .. NumFrames -> BOOLEAN]
  BY DEF SimulatedWith
<1>2. u \in [1 .. NumFrames -> BOOLEAN]
  BY <1>1
<1> HIDE DEF u
<1>3. Theory!DecodeStreamingCode(r, n, th.missing, u) \in CountsWith(k)
  <2>1. CASE n = NumFrames
    BY <1>1, <2>1 DEF Theory!DecodeStreamingCode
  <2>2. CASE n # NumFrames
    BY <1>1, <1>2, <2>2, PassKeeps
  <2> QED
    BY <2>1, <2>2
<1> QED
  BY <1>2, <1>3 DEF Theory!AddFrame, SimulatedWith, u

(* add_frames: without a parity stripe of its own, the newest frame keeps  *)
(* its missing stripes.                                                    *)
LEMMA AddFramesKeeps ==
  ASSUME config.tau \in Nat, NEW k, NEW m \in CountsWith(k), NEW r, r[NumFrames] = 0
  PROVE  Theory!AddFrames(m, r) \in SimulatedWith(k)
<1> DEFINE N == NumFrames
           States == SimulatedWith(k)
           added[n \in 0 .. N] ==
             IF n = 0 THEN [missing |-> m, unusable |-> [q \in 1 .. N |-> FALSE]]
             ELSE Theory!AddFrame(r, added[n - 1], n)
           base == [missing |-> m, unusable |-> [q \in 1 .. N |-> FALSE]]
           Step == [x \in (1 .. N) \X States |-> Theory!AddFrame(r, x[2], x[1])]
           Good == {i \in 0 .. N : added[i] \in States}
<1>0. N \in Nat
  BY TheoryWindow
<1>1. base \in States
  BY DEF SimulatedWith
<1>b. \A i \in 1 .. N, x \in States : Theory!AddFrame(r, x, i) \in States
  BY AddFrameKeeps
<1>10. Theory!AddFrames(m, r) = added[N]
  BY TheoryWindow DEF Theory!AddFrames
<1> HIDE DEF States, N
<1>2. \A i \in 1 .. N, x \in States : Step[<<i, x>>] = Theory!AddFrame(r, x, i)
  OBVIOUS
<1>3. \A i \in 1 .. N, x \in States : Step[<<i, x>>] \in States
  BY <1>b, <1>2
<1>4. \E h \in [0 .. N -> States] : Follows(h, N, base, Step)
  <2> HIDE DEF base, Step, Good, added
  <2>1. StepsStayIn(N, States, Step)
    BY <1>3 DEF StepsStayIn
  <2> QED
    BY <1>0, <1>1, <2>1, RecursionExists
<1>5. PICK h \in [0 .. N -> States] :
         h[0] = base /\ \A i \in 1 .. N : h[i] = Theory!AddFrame(r, h[i - 1], i)
  <2>1. \A i \in 1 .. N : i - 1 \in 0 .. N
    BY <1>0
  <2> HIDE DEF base, Step
  <2> QED
    BY <1>2, <1>4, <2>1 DEF Follows
<1>6. h = [n \in 0 .. N |->
             IF n = 0 THEN [missing |-> m, unusable |-> [q \in 1 .. N |-> FALSE]]
             ELSE Theory!AddFrame(r, h[n - 1], n)]
  BY <1>0, <1>5
<1>7. added = [n \in 0 .. N |->
             IF n = 0 THEN [missing |-> m, unusable |-> [q \in 1 .. N |-> FALSE]]
             ELSE Theory!AddFrame(r, added[n - 1], n)]
  BY <1>6
<1> HIDE DEF added
<1>8. 0 \in Good
  BY <1>0, <1>1, <1>7
<1>9. \A i \in 0 .. N - 1 : i \in Good => i + 1 \in Good
  <2> SUFFICES ASSUME NEW i \in 0 .. N - 1, added[i] \in States
               PROVE  i + 1 \in 0 .. N /\ added[i + 1] \in States
    OBVIOUS
  <2>1. i + 1 \in 0 .. N /\ i + 1 \in 1 .. N /\ i + 1 # 0 /\ (i + 1) - 1 = i
    BY <1>0
  <2>2. added[i + 1] = Theory!AddFrame(r, added[i], i + 1)
    BY <1>7, <2>1
  <2> QED
    BY <1>b, <2>1, <2>2
<1>11. N \in Good
  <2>1. N \in 0 .. N
    BY <1>0
  <2> HIDE DEF Good
  <2> QED
    BY <1>0, <1>8, <1>9, <2>1, CountUp
<1> QED
  BY <1>10, <1>11 DEF States

(* decode does not recover the newest frame then.                          *)
LEMMA DecodeSkipsNewest ==
  ASSUME config.tau \in Nat, NEW k \in Nat \ {0}, NEW m \in CountsWith(k), NEW r, r[NumFrames] = 0
  PROVE  NumFrames \notin Theory!Decode(m, r) /\ Theory!Decode(m, r) \subseteq 1 .. NumFrames
<1> DEFINE th == Theory!AddFrames(m, r)
           gone == {p \in 1 .. NumFrames : th.missing[p] = 0}
<1>1. th.missing[NumFrames] = k
  BY AddFramesKeeps DEF SimulatedWith, CountsWith
<1>2. Theory!Theoretical(m, r) = Theory!Outcome(th.missing, th.unusable)
  BY DEF Theory!Theoretical, Theory!OutcomeOf
<1> HIDE DEF th
<1>3. Theory!Outcome(th.missing, th.unusable).recovered = gone
  BY TheoryWindow DEF Theory!Outcome
<1>4. Theory!Theoretical(m, r).recovered = gone /\ NumFrames \notin gone
  BY <1>1, <1>2, <1>3
<1> HIDE DEF gone
<1>5. gone \subseteq 1 .. NumFrames
  BY DEF gone
<1> HIDE DEF NumFrames
<1> QED
  BY <1>4, <1>5 DEF Theory!Decode, Theory!DecodeAs, Theory!SolveWanted

(* Neither does the second pass.                                           *)
LEMMA DecodeTwiceSkipsNewest ==
  ASSUME config.tau \in Nat, NEW k \in Nat \ {0}, NEW m \in CountsWith(k), NEW r, r[NumFrames] = 0
  PROVE  /\ NumFrames \notin Theory!DecodeTwice(m, r)
         /\ Theory!DecodeTwice(m, r) \subseteq 1 .. NumFrames
<1> DEFINE first == Theory!Decode(m, r)
           rest == Theory!Solved(m, first)
<1>1. NumFrames \notin first /\ first \subseteq 1 .. NumFrames
  BY DecodeSkipsNewest
<1>2. Theory!Window = 1 .. NumFrames /\ NumFrames \in 1 .. NumFrames
  <2>1. Theory!Window = 1 .. NumFrames /\ NumFrames \in Nat \ {0}
    BY TheoryWindow
  <2> HIDE DEF NumFrames
  <2> QED
    BY <2>1
<1> HIDE DEF first
<1>3. rest \in CountsWith(k)
  <2>1. rest = [d \in 1 .. NumFrames |-> IF d \in first THEN 0 ELSE m[d]]
    BY <1>2 DEF Theory!Solved
  <2> HIDE DEF NumFrames, rest
  <2> QED
    BY <1>1, <1>2, <2>1 DEF CountsWith
<1>4. /\ NumFrames \notin Theory!Decode(rest, r)
      /\ Theory!Decode(rest, r) \subseteq 1 .. NumFrames
  <2> HIDE DEF rest
  <2> QED
    BY <1>3, DecodeSkipsNewest
<1> QED
  BY <1>1, <1>4 DEF Theory!DecodeTwice, Theory!DecodeAgain, first, rest

-----------------------------------------------------------------------------
(* A column of frame f that the receiver does not know, while it has no    *)
(* parity stripe of that frame.                                            *)
Waits(c, f, last, dec) ==
  /\ (f % window_frames(c)) * c.max_data_stripes + last \in dec.erased
  /\ DOMAIN dec.rows \cap Region(window_frames(c), c.max_fec_stripes, f) = {}

(* The columns of a frame are finitely many.                               *)
LEMMA FrameIsFinite ==
  ASSUME NEW f, config.max_data_stripes \in Nat, NEW S
  PROVE  Cardinality(S \cap cols_of_frame(f)) \in Nat
         /\ (Cardinality(S \cap cols_of_frame(f)) = 0 => S \cap cols_of_frame(f) = {})
<1> DEFINE M == config.max_data_stripes
           g == [i \in 0 .. M - 1 |-> first_pos_of_frame(f, FALSE) + i]
           T == S \cap cols_of_frame(f)
<1>1. IsFiniteSet(0 .. M - 1)
  BY FS_Interval
<1>2. IsFiniteSet({g[i] : i \in 0 .. M - 1})
  <2> HIDE DEF g, M
  <2> QED
    BY <1>1, FiniteImage
<1>3. cols_of_frame(f) = {g[i] : i \in 0 .. M - 1}
  BY DEF cols_of_frame
<1>4. IsFiniteSet(T)
  BY <1>2, <1>3, FS_Subset
<1> HIDE DEF T
<1>5. Cardinality(T) \in Nat /\ (Cardinality(T) = 0 => T = {})
  BY <1>4, FS_CardinalityType, FS_EmptySet
<1> QED
  BY <1>5 DEF T

(* updated_ts: entering the frame clears its columns and rows; a frame     *)
(* entered before is left as it is.                                        *)
LEMMA OpeningWaits ==
  ASSUME CanOpen(config), NEW f \in Nat, DOMAIN rx = ReceiverFields, rx.ts \in Int, rx.ts <= f,
         NEW last \in 0 .. config.max_data_stripes - 1,
         rx.ts = f => Waits(config, f, last, rx)
  PROVE  Waits(config, f, last, Opening(f)) /\ Opening(f).received = rx.received
<1> DEFINE W == window_frames(config)
           M == config.max_data_stripes
           F == config.max_fec_stripes
           dec == Opening(f)
           entered == rx.ts + 1 .. f
           columns == UNION {cols_of_frame(t) : t \in entered}
           rows == UNION {rows_of_frame(t) : t \in entered}
           x == (f % W) * M + last
<1>1. /\ W \in Nat \ {0} /\ M \in Nat /\ F \in Nat /\ W = NumFrames /\ f \in Int
      /\ last \in 0 .. M - 1
  BY Layout DEF NumFrames
<1>2. /\ dec.rows = Cleared(rx.rows, rows) /\ dec.erased = rx.erased \cup columns
      /\ dec.received = rx.received
  BY OpeningFields
<1>3. x \in cols_of_frame(f)
  <2>1. x \in Region(W, M, f)
    <3> HIDE DEF W, M
    <3> QED
      BY <1>1, InRegion
  <2> QED
    BY <1>1, <2>1, Regions
<1>4. rows_of_frame(f) = Region(W, F, f)
  BY <1>1, Regions
<1>5. DOMAIN dec.rows = DOMAIN rx.rows \ rows
  BY <1>2, ClearedDomain
<1> HIDE DEF W, M, F, dec, x
<1>6. x \in dec.erased /\ DOMAIN dec.rows \cap rows_of_frame(f) = {}
  <2>1. CASE rx.ts = f
    <3>1. x \in rx.erased /\ DOMAIN rx.rows \cap rows_of_frame(f) = {}
      BY <1>4, <2>1 DEF Waits, W, M, F, x
    <3> QED
      BY <1>2, <1>5, <3>1
  <2>2. CASE rx.ts # f
    <3>1. f \in entered
      BY <2>2
    <3>2. x \in columns /\ rows_of_frame(f) \subseteq rows
      BY <1>3, <3>1
    <3> QED
      BY <1>2, <1>5, <3>2
  <2> QED
    BY <2>1, <2>2
<1> QED
  BY <1>2, <1>4, <1>6 DEF Waits, W, M, F, x, dec

(* The header code touches neither the columns nor the rows.               *)
LEMMA HeaderWaits ==
  ASSUME NEW c, NEW f, NEW last, NEW dec, DOMAIN dec = ReceiverFields, NEW d
  PROVE  LET placed == HeaderPlaced(dec, d)
             header == HeaderDecoded(placed, d)
         IN  /\ header.erased = dec.erased /\ header.rows = dec.rows
             /\ header.received = dec.received
<1> DEFINE placed == HeaderPlaced(dec, d)
           header == HeaderDecoded(placed, d)
<1>1. /\ DOMAIN placed = ReceiverFields /\ placed.erased = dec.erased
      /\ placed.rows = dec.rows /\ placed.received = dec.received
  <2> DEFINE cols == Placed(dec.size_cols, Only(Slot(d.frame_num), d.sizes))
             gone == dec.size_erased \ {Slot(d.frame_num)}
             rows == Placed(dec.size_rows, Only(header_row(d.frame_num, d.pos_in_frame), d.sizes))
  <2>1. placed = IF d.pos_in_frame = 0 THEN [dec EXCEPT !.size_cols = cols, !.size_erased = gone]
                 ELSE [dec EXCEPT !.size_rows = rows]
    BY DEF HeaderPlaced
  <2> HIDE DEF cols, gone, rows, placed
  <2>2. CASE d.pos_in_frame = 0
    BY <2>1, <2>2 DEF ReceiverFields
  <2>3. CASE d.pos_in_frame # 0
    BY <2>1, <2>3 DEF ReceiverFields
  <2> QED
    BY <2>2, <2>3
<1> HIDE DEF placed
<1>2. header.erased = placed.erased /\ header.rows = placed.rows
      /\ header.received = placed.received
  <2> DEFINE positions == HeaderSolvable(placed)
             slots == {SlotAt(placed.ts, p) : p \in positions}
             cols == SolvedColumns(placed.size_cols, placed.size_erased, tx.size_cols, slots)
             learned == {FrameAt(placed.ts, p) : p \in positions}
                          \cup (IF d.pos_in_frame = 0 THEN {d.frame_num} ELSE {})
             gone == placed.size_erased \ slots
             sizes == Placed(placed.sizes, [g \in learned \cap placed.ring |-> cols[Slot(g)].len])
  <2>1. header = [placed EXCEPT !.size_cols = cols, !.size_erased = gone, !.sizes = sizes]
    BY DEF HeaderDecoded
  <2> HIDE DEF cols, gone, sizes, header
  <2> QED
    BY <1>1, <2>1 DEF ReceiverFields
<1> HIDE DEF header
<1> QED
  BY <1>1, <1>2 DEF header, placed

(* add_packet, field by field.                                             *)
LEMMA PacketAddedFields ==
  ASSUME NEW dec, DOMAIN dec = ReceiverFields, NEW d
  PROVE  LET after == PacketAdded(dec, d)
             start == first_pos_of_frame(d.frame_num, d.is_parity) + d.stripe_pos_in_frame
             before == IF d.frame_num \in DOMAIN dec.received THEN dec.received[d.frame_num] ELSE 0
         IN  /\ d.is_parity = TRUE => after.received = dec.received
             /\ d.is_parity = FALSE =>
                  /\ after.rows = dec.rows
                  /\ after.erased = dec.erased \ (start .. start + d.payload_len \div StripeSize - 1)
                  /\ after.received = Placed(dec.received, Only(d.frame_num, before + d.payload_len))
<1> DEFINE after == PacketAdded(dec, d)
           start == first_pos_of_frame(d.frame_num, d.is_parity) + d.stripe_pos_in_frame
           stripes == StripesFrom(start, d)
           before == IF d.frame_num \in DOMAIN dec.received THEN dec.received[d.frame_num] ELSE 0
           rows == Placed(dec.rows, stripes)
           cols == Placed(dec.cols, stripes)
           erased == dec.erased \ DOMAIN stripes
           received == Placed(dec.received, Only(d.frame_num, before + d.payload_len))
<1>1. d.is_parity = TRUE => after = [dec EXCEPT !.rows = rows]
  BY DEF PacketAdded, StripesFrom
<1>2. d.is_parity = FALSE =>
        after = [dec EXCEPT !.cols = cols, !.erased = erased, !.received = received]
  BY DEF PacketAdded, StripesFrom
<1>3. DOMAIN stripes = start .. start + d.payload_len \div StripeSize - 1
  BY DEF StripesFrom
<1> HIDE DEF rows, cols, received, after, stripes
<1>4. d.is_parity = TRUE => after.received = dec.received
  BY <1>1 DEF ReceiverFields
<1>5. d.is_parity = FALSE => after.rows = dec.rows /\ after.erased = erased
                             /\ after.received = received
  BY <1>2 DEF ReceiverFields
<1> QED
  BY <1>3, <1>4, <1>5 DEF after, received

(* try_decode: a column that the frame uses stays unknown.                 *)
LEMMA DecodedWaits ==
  ASSUME CanOpen(config), NEW f \in Nat, NEW dec, DOMAIN dec = ReceiverFields, dec.ts = f,
         \A g \in dec.ring : g \in Nat /\ g <= f /\ f - g < window_frames(config),
         NEW last \in 0 .. config.max_data_stripes - 1, Waits(config, f, last, dec),
         f \in DOMAIN dec.sizes => /\ num_data_stripes(dec.sizes[f]) \in Nat
                                   /\ last < num_data_stripes(dec.sizes[f])
  PROVE  Waits(config, f, last, Decoded(dec)) /\ Decoded(dec).received = dec.received
<1> DEFINE W == window_frames(config)
           M == config.max_data_stripes
           F == config.max_fec_stripes
           after == Decoded(dec)
           x == (f % W) * M + last
           unknown == dec.erased \ Unused(dec)
           missing == [p \in 1 .. NumFrames |->
                         Cardinality(unknown \cap cols_of_frame(SlotAt(dec.ts, p)))]
           known == [p \in 1 .. NumFrames |->
                       Cardinality(DOMAIN dec.rows \cap rows_of_frame(SlotAt(dec.ts, p)))]
           positions == IF HasWork(missing, known) THEN Theory!DecodeTwice(missing, known) ELSE {}
           solved == unknown \cap UNION {cols_of_frame(SlotAt(dec.ts, p)) : p \in positions}
           cols == SolvedColumns(dec.cols, unknown, tx.cols, solved)
           erased == unknown \ solved
<1>1. /\ W \in Nat \ {0} /\ M \in Nat /\ W = NumFrames /\ config.tau \in Nat /\ f \in Int
      /\ last \in 0 .. M - 1
  <2>1. config.tau \in Nat
    BY ConfigFields DEF CanOpen
  <2> QED
    BY <2>1, Layout DEF NumFrames
<1>2. x \in Region(W, M, f) /\ (f % W) * M \in Nat
  <2> HIDE DEF W, M
  <2> QED
    BY <1>1, InRegion
<1>3. Apart(W, M)
  <2> HIDE DEF W, M
  <2> QED
    BY <1>1, RegionsApart
<1>4. \A g \in Int : cols_of_frame(g) = Region(W, M, g)
  BY <1>1, Regions
<1>5. x \in dec.erased /\ DOMAIN dec.rows \cap rows_of_frame(f) = {}
  <2>1. rows_of_frame(f) = Region(W, F, f)
    BY <1>1, Regions
  <2> QED
    BY <2>1 DEF Waits
<1>6. x \notin Unused(dec)
  <2> SUFFICES ASSUME NEW g \in DOMAIN dec.sizes \cap dec.ring, x \in cols_of_frame(g),
                      x - first_pos_of_frame(g, FALSE) >= num_data_stripes(dec.sizes[g])
               PROVE  FALSE
    BY DEF Unused
  <2>1. g \in Int /\ g <= f /\ f - g < W
    OBVIOUS
  <2>2. g = f
    <3> SUFFICES ASSUME g < f PROVE FALSE
      BY <1>1, <2>1
    <3>1. x \in Region(W, M, g)
      BY <1>4, <2>1
    <3> HIDE DEF x, W, M
    <3> QED
      BY <1>1, <1>2, <1>3, <2>1, <3>1 DEF Apart
  <2>3. first_pos_of_frame(f, FALSE) = (f % W) * M
    BY <1>1 DEF first_pos_of_frame, Slot
  <2> DEFINE base == (f % W) * M
             size == num_data_stripes(dec.sizes[f])
  <2>4. (base + last) - base >= size /\ last < size /\ base \in Nat /\ size \in Nat
    BY <1>2, <2>2, <2>3
  <2>5. last \in Int
    BY <1>1
  <2> HIDE DEF base, size
  <2>6. (base + last) - base = last
    BY <2>4, <2>5
  <2>7. last >= size /\ last < size
    BY <2>4, <2>6
  <2> QED
    BY <2>4, <2>5, <2>7
<1> HIDE DEF x
<1>7. x \in unknown /\ x \in cols_of_frame(f)
  BY <1>2, <1>4, <1>5, <1>6
<1>8. NumFrames \in 1 .. NumFrames /\ NumFrames \in Nat \ {0}
  <2> HIDE DEF NumFrames
  <2> QED
    BY <1>1
<1>9. \A p \in 1 .. NumFrames :
        /\ SlotAt(dec.ts, p) \in Int
        /\ p = NumFrames => SlotAt(dec.ts, p) % W = f % W
        /\ p # NumFrames => x \notin cols_of_frame(SlotAt(dec.ts, p))
  <2> SUFFICES ASSUME NEW p \in 1 .. NumFrames
               PROVE  /\ SlotAt(dec.ts, p) \in Int
                      /\ p = NumFrames => SlotAt(dec.ts, p) % W = f % W
                      /\ p # NumFrames => x \notin cols_of_frame(SlotAt(dec.ts, p))
    OBVIOUS
  <2> DEFINE s == SlotAt(f, p)
             g == f - (W - p)
  <2>1. p \in Int /\ g \in Int /\ p <= W /\ p > 0
    BY <1>1
  <2>2. FrameAt(f, p) = g
    BY <1>1 DEF FrameAt
  <2>3. s \in Int /\ Slot(g) = s
    BY <1>1, <2>1, <2>2, SlotOfPosition
  <2>4. s % W = s
    <3>1. g % W \in 0 .. W - 1 /\ s = g % W
      <4>1. g % W \in 0 .. W - 1
        <5> HIDE DEF W, g
        <5> QED
          BY <1>1, <2>1, IntDivision
      <4>2. s = g % W
        BY <1>1, <2>3 DEF Slot
      <4> QED
        BY <4>1, <4>2
    <3>2. 0 \in Int /\ W * 0 = 0 /\ s \in 0 .. W - 1 /\ s \in Int
      BY <1>1, <2>3, <3>1, Z3
    <3>3. s = W * 0 + s
      BY <3>2
    <3> HIDE DEF W, s, g
    <3> QED
      BY <1>1, <3>2, <3>3, RemainderUnique
  <2>5. s = g % W
    BY <1>1, <2>3 DEF Slot
  <2>6. p = NumFrames => s % W = f % W
    <3> SUFFICES ASSUME p = W PROVE s % W = f % W
      BY <1>1
    <3>1. g = f
      BY <1>1, <2>1
    <3> HIDE DEF W, s, g
    <3> QED
      BY <2>4, <2>5, <3>1
  <2>7. p # NumFrames => x \notin cols_of_frame(s)
    <3> SUFFICES ASSUME p # W PROVE x \notin cols_of_frame(s)
      BY <1>1
    <3>1. cols_of_frame(s) = Region(W, M, s)
      BY <1>4, <2>3
    <3>2. Region(W, M, s) = Region(W, M, g)
      <4> HIDE DEF W, M, s, g
      <4> QED
        BY <2>4, <2>5 DEF Region
    <3>3. g < f /\ f - g < W
      BY <1>1, <2>1
    <3> HIDE DEF W, M, s, g
    <3> QED
      BY <1>1, <1>2, <1>3, <2>1, <3>1, <3>2, <3>3 DEF Apart
  <2> QED
    BY <2>3, <2>6, <2>7
<1>10. /\ cols_of_frame(SlotAt(dec.ts, NumFrames)) = cols_of_frame(f)
       /\ rows_of_frame(SlotAt(dec.ts, NumFrames)) = rows_of_frame(f)
  <2> DEFINE s == SlotAt(dec.ts, NumFrames)
  <2>1. s \in Int /\ s % W = f % W
    BY <1>8, <1>9
  <2>2. /\ cols_of_frame(s) = Region(W, M, s) /\ rows_of_frame(s) = Region(W, F, s)
        /\ cols_of_frame(f) = Region(W, M, f) /\ rows_of_frame(f) = Region(W, F, f)
    BY <1>1, Regions
  <2> HIDE DEF s, W, M, F
  <2> QED
    BY <2>1, <2>2 DEF Region, s
<1>11. /\ missing \in CountsWith(missing[NumFrames]) /\ missing[NumFrames] \in Nat \ {0}
  <2>1. \A p \in 1 .. NumFrames : Cardinality(unknown \cap cols_of_frame(SlotAt(dec.ts, p))) \in Nat
    <3> HIDE DEF unknown
    <3> QED
      BY <1>1, FrameIsFinite
  <2>2. missing \in [1 .. NumFrames -> Nat]
    <3> HIDE DEF unknown, NumFrames
    <3> QED
      BY <2>1
  <2>3. missing[NumFrames] = Cardinality(unknown \cap cols_of_frame(f))
    <3> HIDE DEF unknown
    <3> QED
      BY <1>8, <1>10
  <2>4. Cardinality(unknown \cap cols_of_frame(f)) \in Nat \ {0}
    <3> HIDE DEF unknown
    <3> QED
      BY <1>1, <1>7, FrameIsFinite
  <2> HIDE DEF missing
  <2> QED
    BY <2>2, <2>3, <2>4 DEF CountsWith
<1>12. known[NumFrames] = 0
  <2>1. known[NumFrames] = Cardinality(DOMAIN dec.rows \cap rows_of_frame(f))
    BY <1>8, <1>10
  <2> HIDE DEF known
  <2> QED
    BY <1>5, <2>1, FS_EmptySet
<1>13. positions \subseteq 1 .. NumFrames /\ NumFrames \notin positions
  <2> DEFINE k == missing[NumFrames]
  <2>1. missing \in CountsWith(k) /\ k \in Nat \ {0}
    BY <1>11
  <2> HIDE DEF missing, known, k, NumFrames
  <2> QED
    BY <1>1, <1>12, <2>1, DecodeTwiceSkipsNewest
<1>14. after = [dec EXCEPT !.cols = cols, !.erased = erased]
  BY DEF Decoded
<1> HIDE DEF positions, unknown, missing, known, cols
<1>15. x \notin solved
  <2> HIDE DEF NumFrames
  <2> QED
    BY <1>9, <1>13
<1> HIDE DEF solved
<1>16. x \in erased
  BY <1>7, <1>15
<1> HIDE DEF erased, after
<1>17. after.erased = erased /\ after.rows = dec.rows /\ after.received = dec.received
  BY <1>14 DEF ReceiverFields
<1> QED
  BY <1>16, <1>17 DEF Waits, x, after

(* The bytes of a frame's data packets that were received.                 *)
Delivered(dec, f) == IF f \in DOMAIN dec.received THEN dec.received[f] ELSE 0

(* receive_datagram, of what counts the data packets.                      *)
LEMMA IngestedCounts ==
  ASSUME CanOpen(config), NEW n \in Nat, NEW sizes, Sizes(config, n, sizes),
         SenderHolds(config, n, sizes, tx), ReceiverHolds(config, n, sizes, tx, rx),
         NEW f \in Nat, n = f + 1, NEW d, Carries(config, f, tx, d)
  PROVE  LET after == Ingested(d)
         IN  /\ d.is_parity = TRUE => after.received = rx.received
             /\ d.is_parity = FALSE =>
                  /\ after.received = Placed(rx.received, Only(f, Delivered(rx, f) + d.payload_len))
                  /\ \A last \in Nat :
                       /\ last < num_data_stripes(sizes[n])
                       /\ d.stripe_pos_in_frame \in Nat
                       /\ d.payload_len \div StripeSize \in Nat
                       /\ d.stripe_pos_in_frame + d.payload_len \div StripeSize <= last
                       /\ rx.ts = f => Waits(config, f, last, rx)
                       => Waits(config, f, last, after)
<1> DEFINE W == window_frames(config)
           M == config.max_data_stripes
           F == config.max_fec_stripes
           opened == Opening(f)
           header == HeaderDecoded(HeaderPlaced(opened, d), d)
           added == PacketAdded(header, d)
           after == Ingested(d)
<1>1. d.frame_num = f /\ HeaderCarried(config, f, tx, d)
  BY DEF Carries, HeaderCarried
<1>2. after = Decoded(added)
  BY <1>1 DEF Ingested, Opening
<1>3. Abreast(f, sizes, opened) /\ DOMAIN rx = ReceiverFields /\ rx.ts \in Int /\ rx.ts <= f
  <2>1. DOMAIN rx = ReceiverFields /\ rx.ts \in Int /\ rx.ts < n
    BY DEF ReceiverHolds, FramesKnown
  <2> QED
    BY <2>1, OpeningAbreast
<1>4. opened.received = rx.received /\ DOMAIN opened = ReceiverFields
  BY <1>3, OpeningFields
<1>5. header.erased = opened.erased /\ header.rows = opened.rows /\ header.received = opened.received
  <2> HIDE DEF opened
  <2> QED
    BY <1>4, HeaderWaits
<1>6. Abreast(f, sizes, header) /\ DOMAIN header = ReceiverFields
  <2> DEFINE placed == HeaderPlaced(opened, d)
  <2>1. /\ Abreast(f, sizes, placed)
        /\ d.pos_in_frame = 0 =>
             Slot(f) \in DOMAIN placed.size_cols /\ Slot(f) \notin placed.size_erased
    <3> HIDE DEF opened
    <3> QED
      BY <1>1, <1>3, HeaderPlacedKeeps
  <2> HIDE DEF placed
  <2>2. Abreast(f, sizes, HeaderDecoded(placed, d))
    BY <1>1, <2>1, HeaderDecodedKeeps
  <2> QED
    BY <2>2 DEF placed, Abreast, FramesKnown
<1> DEFINE start == first_pos_of_frame(f, d.is_parity) + d.stripe_pos_in_frame
           before == IF f \in DOMAIN header.received THEN header.received[f] ELSE 0
<1>7. /\ d.is_parity = TRUE => added.received = header.received
      /\ d.is_parity = FALSE =>
           /\ added.rows = header.rows
           /\ added.erased = header.erased \ (start .. start + d.payload_len \div StripeSize - 1)
           /\ added.received = Placed(header.received, Only(f, before + d.payload_len))
  <2> HIDE DEF header
  <2> QED
    BY <1>1, <1>6, PacketAddedFields
<1>8. Abreast(f, sizes, added)
  <2> HIDE DEF header
  <2> QED
    BY <1>6, PacketAddedKeeps
<1> HIDE DEF header, added
<1>9. after.received = added.received
  <2> DEFINE unknown == added.erased \ Unused(added)
             cols == Decoded(added).cols
             erased == Decoded(added).erased
  <2>1. DOMAIN added = ReceiverFields
    BY <1>8 DEF Abreast, FramesKnown
  <2>2. \A c, e : [added EXCEPT !.cols = c, !.erased = e].received = added.received
    BY <2>1 DEF ReceiverFields
  <2>3. \E c, e : Decoded(added) = [added EXCEPT !.cols = c, !.erased = e]
    BY Zenon DEF Decoded
  <2> QED
    BY <1>2, <2>2, <2>3
<1>10. ASSUME d.is_parity = FALSE, NEW last \in Nat, last < num_data_stripes(sizes[n]),
              d.stripe_pos_in_frame \in Nat, d.payload_len \div StripeSize \in Nat,
              d.stripe_pos_in_frame + d.payload_len \div StripeSize <= last,
              rx.ts = f => Waits(config, f, last, rx)
       PROVE  Waits(config, f, last, after)
  <2>1. sizes[n] \in Nat \ {0} /\ num_data_stripes(sizes[n]) \in Nat
        /\ num_data_stripes(sizes[n]) <= M
    <3>1. f \in 0 .. n - 1 /\ f + 1 = n
      OBVIOUS
    <3>2. sizes[n] \in Nat \ {0} /\ CeilDiv(sizes[n], stripe_size(config)) <= M
      BY <3>1 DEF Sizes
    <3> QED
      BY <3>2, Layout, StripesHold DEF num_data_stripes, StripeSize
  <2>2. last \in 0 .. M - 1 /\ M \in Nat
    <3>1. M \in Nat
      BY Layout
    <3> DEFINE k == num_data_stripes(sizes[n])
    <3> HIDE DEF M, k
    <3> QED
      BY <1>10, <2>1, <3>1 DEF k
  <2>3. Waits(config, f, last, opened)
    BY <1>3, <1>10, <2>2, OpeningWaits
  <2> DEFINE x == (f % W) * M + last
             rows == Region(W, F, f)
  <2>4. x \in header.erased /\ DOMAIN header.rows \cap rows = {}
    BY <1>5, <2>3 DEF Waits
  <2>5. x \notin start .. start + d.payload_len \div StripeSize - 1
    <3> DEFINE base == (f % W) * M
               p == d.stripe_pos_in_frame
               k == d.payload_len \div StripeSize
    <3>1. base \in Nat
      <4>1. W \in Nat \ {0} /\ f \in Int
        BY Layout
      <4> HIDE DEF W, M
      <4> QED
        BY <2>2, <4>1, InRegion
    <3>2. start = base + p
      BY <1>10 DEF first_pos_of_frame, Slot, NumFrames
    <3>3. p \in Nat /\ k \in Nat /\ p + k <= last
      BY <1>10
    <3> HIDE DEF base, p, k, start
    <3>4. base + last \notin base + p .. base + p + k - 1
      BY <3>1, <3>3
    <3> QED
      BY <3>2, <3>4 DEF base, k
  <2> HIDE DEF x, rows, start
  <2>6. x \in added.erased /\ DOMAIN added.rows \cap rows = {}
    BY <1>7, <1>10, <2>4, <2>5
  <2>7. Waits(config, f, last, added)
    BY <2>6 DEF Waits, x, rows
  <2>8. /\ DOMAIN added = ReceiverFields /\ added.ts = f
        /\ \A g \in added.ring : g \in Nat /\ g <= f /\ f - g < window_frames(config)
        /\ f \in DOMAIN added.sizes => added.sizes[f] = sizes[n]
    BY <1>8 DEF Abreast, FramesKnown
  <2>9. f \in DOMAIN added.sizes => /\ num_data_stripes(added.sizes[f]) \in Nat
                                    /\ last < num_data_stripes(added.sizes[f])
    BY <1>10, <2>1, <2>8
  <2> QED
    BY <1>2, <2>2, <2>7, <2>8, <2>9, DecodedWaits
<1> HIDE DEF after, opened
<1>11. before = Delivered(rx, f)
  BY <1>4, <1>5 DEF Delivered
<1> HIDE DEF before
<1>12. d.is_parity = FALSE =>
         after.received = Placed(rx.received, Only(f, Delivered(rx, f) + d.payload_len))
  BY <1>4, <1>5, <1>7, <1>9, <1>11
<1>13. d.is_parity = TRUE => after.received = rx.received
  BY <1>4, <1>5, <1>7, <1>9
<1> QED
  BY <1>10, <1>12, <1>13 DEF after

-----------------------------------------------------------------------------
(* No data packet of the frame was dropped.                                *)
Whole(dropped, f) == \A l \in dropped : l.frame = f => l.is_parity

(* What is on its way: r data packets of unit bytes, then parity packets.  *)
(* Only the last data packet carries the column `last` of the frame, and   *)
(* pkts of them are just enough for its size.                              *)
OnWire(c, size, ch, unit, pkts, r, last) ==
  /\ unit \in Nat /\ pkts \in Nat \ {0} /\ last \in Nat /\ r \in Nat /\ r <= Len(ch)
  /\ unit * (pkts - 1) < size /\ size <= unit * pkts
  /\ unit \div stripe_size(c) \in Nat /\ last < CeilDiv(size, stripe_size(c))
  /\ \A i \in 1 .. Len(ch) :
       /\ i > r => ch[i].is_parity = TRUE
       /\ i <= r => /\ ch[i].is_parity = FALSE
                    /\ ch[i].payload_len = unit /\ ch[i].stripe_pos_in_frame \in Nat
       /\ i < r => ch[i].stripe_pos_in_frame + unit \div stripe_size(c) <= last

(* got of the pkts arrived, r may still; the rest was dropped.             *)
Counted(c, f, dec, dropped, frames, unit, pkts, r, got, last) ==
  /\ got \in Nat /\ Delivered(dec, f) = unit * got /\ got + r <= pkts
  /\ got + r = pkts <=> Whole(dropped, f)
  /\ r > 0 => /\ \A e \in frames : e.frame # f
              /\ dec.ts = f => Waits(c, f, last, dec)

(* The last frame, of which packets may be on their way.                   *)
InFlight(c, f, size, ch, dec, dropped, frames) ==
  \E unit, pkts, r, got, last :
    /\ OnWire(c, size, ch, unit, pkts, r, last)
    /\ Counted(c, f, dec, dropped, frames, unit, pkts, r, got, last)

(* Nothing of the frame is on its way any more.                            *)
Settled(dec, dropped, size, f) == Delivered(dec, f) >= size <=> Whole(dropped, f)

(* The bytes of the frames sent, those of the earlier ones settled.        *)
CountsHold(c, n, sizes, ch, dec, dropped, frames) ==
  /\ \A l \in dropped : l.frame \in Int /\ l.frame < n
  /\ \A g \in DOMAIN dec.received : g \in Int /\ g < n
  /\ \A f \in 0 .. n - 2 : Settled(dec, dropped, sizes[f + 1], f)
  /\ n > 0 => InFlight(c, n - 1, sizes[n], ch, dec, dropped, frames)
  /\ \A e \in frames : e.direct <=> Whole(dropped, e.frame)

(* Taking a datagram out of the channel.                                   *)
LEMMA TakenFromWire ==
  ASSUME NEW T, NEW ch \in Seq(T), ch # <<>>, NEW c, NEW size, NEW unit, NEW pkts, NEW r, NEW last,
         OnWire(c, size, ch, unit, pkts, r, last)
  PROVE  LET head == Head(ch)
         IN  \/ /\ head.is_parity = FALSE /\ r > 0 /\ head.payload_len = unit
                /\ head.stripe_pos_in_frame \in Nat
                /\ r > 1 => head.stripe_pos_in_frame + unit \div stripe_size(c) <= last
                /\ OnWire(c, size, Tail(ch), unit, pkts, r - 1, last)
             \/ /\ head.is_parity = TRUE /\ r = 0
                /\ OnWire(c, size, Tail(ch), unit, pkts, r, last)
<1> DEFINE head == Head(ch)
           tail == Tail(ch)
           k == unit \div stripe_size(c)
<1>1. /\ head = ch[1] /\ Len(ch) \in Nat /\ Len(ch) > 0 /\ Len(tail) = Len(ch) - 1
      /\ \A i \in 1 .. Len(ch) - 1 : tail[i] = ch[i + 1]
  <2>1. Len(ch) \in Nat /\ Len(ch) > 0
    BY EmptySeq, LenProperties
  <2>2. head = ch[1] /\ Len(tail) = Len(ch) - 1
    BY HeadTailProperties
  <2>3. \A i \in 1 .. Len(ch) - 1 : tail[i] = ch[i + 1]
    BY HeadTailProperties
  <2> QED
    BY <2>1, <2>2, <2>3
<1>2. /\ r \in Nat /\ r <= Len(ch)
      /\ \A i \in 1 .. Len(ch) :
           /\ i > r => ch[i].is_parity = TRUE
           /\ i <= r => /\ ch[i].is_parity = FALSE
                        /\ ch[i].payload_len = unit /\ ch[i].stripe_pos_in_frame \in Nat
           /\ i < r => ch[i].stripe_pos_in_frame + k <= last
  BY DEF OnWire
<1> HIDE DEF head, tail, k
<1>3. CASE r > 0
  <2>1. /\ head.is_parity = FALSE /\ head.payload_len = unit
        /\ head.stripe_pos_in_frame \in Nat
        /\ r > 1 => head.stripe_pos_in_frame + k <= last
    BY <1>1, <1>2, <1>3
  <2> DEFINE q == r - 1
  <2>2. /\ q \in Nat /\ q <= Len(tail)
        /\ \A i \in 1 .. Len(tail) :
             /\ i > q => tail[i].is_parity = TRUE
             /\ i <= q => /\ tail[i].is_parity = FALSE
                          /\ tail[i].payload_len = unit /\ tail[i].stripe_pos_in_frame \in Nat
             /\ i < q => tail[i].stripe_pos_in_frame + k <= last
    <3>1. q \in Nat /\ q <= Len(tail)
      BY <1>1, <1>2, <1>3
    <3> SUFFICES ASSUME NEW i \in 1 .. Len(tail)
                 PROVE  /\ i > q => tail[i].is_parity = TRUE
                        /\ i <= q => /\ tail[i].is_parity = FALSE
                                     /\ tail[i].payload_len = unit
                                     /\ tail[i].stripe_pos_in_frame \in Nat
                        /\ i < q => tail[i].stripe_pos_in_frame + k <= last
      BY <3>1
    <3>2. /\ i + 1 \in 1 .. Len(ch) /\ tail[i] = ch[i + 1]
          /\ (i > q => i + 1 > r) /\ (i <= q => i + 1 <= r) /\ (i < q => i + 1 < r)
      BY <1>1, <1>2
    <3> HIDE DEF q
    <3> QED
      BY <1>2, <3>2
  <2> HIDE DEF q
  <2>3. OnWire(c, size, tail, unit, pkts, q, last)
    BY <2>2 DEF OnWire, k
  <2> QED
    BY <1>3, <2>1, <2>3 DEF head, tail, k, q
<1>4. CASE r = 0
  <2>1. head.is_parity = TRUE
    BY <1>1, <1>2, <1>4
  <2>2. /\ r <= Len(tail)
        /\ \A i \in 1 .. Len(tail) :
             /\ i > r => tail[i].is_parity = TRUE
             /\ i <= r => /\ tail[i].is_parity = FALSE
                          /\ tail[i].payload_len = unit /\ tail[i].stripe_pos_in_frame \in Nat
             /\ i < r => tail[i].stripe_pos_in_frame + k <= last
    BY <1>1, <1>2, <1>4
  <2>3. OnWire(c, size, tail, unit, pkts, r, last)
    BY <2>2 DEF OnWire, k
  <2> QED
    BY <1>4, <2>1, <2>3 DEF head, tail
<1>5. r \in Nat
  BY <1>2
<1>6. r > 0 \/ r = 0
  BY <1>5
<1> QED
  BY <1>3, <1>4, <1>6, Zenon

(* The bytes received reach the size with the last data packet, not        *)
(* before.                                                                 *)
LEMMA AllArrived ==
  ASSUME NEW c, NEW size \in Nat, NEW ch, NEW unit, NEW pkts, NEW r, NEW last,
         OnWire(c, size, ch, unit, pkts, r, last), NEW got \in Nat, got <= pkts
  PROVE  unit * got >= size <=> got = pkts
<1>1. /\ unit \in Nat /\ pkts \in Nat \ {0}
      /\ unit * (pkts - 1) < size /\ size <= unit * pkts
  BY DEF OnWire
<1>2. CASE got = pkts
  BY <1>1, <1>2, Zenon
<1>3. CASE got # pkts
  <2> DEFINE p == pkts - 1
  <2>1. p \in Nat /\ got <= p
    BY <1>1, <1>3
  <2>2. unit * got \in Nat /\ unit * p \in Nat /\ unit * got <= unit * p
    BY <1>1, <2>1, MultiplesGrow
  <2> DEFINE a == unit * got
             b == unit * p
  <2>3. a \in Nat /\ b \in Nat /\ a <= b /\ b < size
    BY <1>1, <2>2
  <2> HIDE DEF a, b
  <2>4. ~ (a >= size)
    BY <2>3
  <2> QED
    BY <1>3, <2>4 DEF a
<1> QED
  BY <1>2, <1>3

(* build_data_datagrams and interleave_datagrams: the data packets come    *)
(* first, and the last of them alone reaches the last column.              *)
LEMMA SentOnWire ==
  ASSUME CanOpen(config), NEW size \in Nat \ {0}, NEW plan, NEW parity,
         PlanHolds(plan, num_data_stripes(size), parity), NEW enc, NEW coded
  PROVE  \E unit, pkts, last :
           OnWire(config, size, DataDatagrams(enc, size, plan) \o ParityDatagrams(coded, plan),
                  unit, pkts, pkts, last)
<1> DEFINE data == DataDatagrams(enc, size, plan)
           par == ParityDatagrams(coded, plan)
           ch == data \o par
           k == plan.stripes_per_pkt
           s == StripeSize
           unit == k * s
           pkts == plan.data_pkts
           more == plan.parity_pkts
           count == num_data_stripes(size)
           last == (pkts - 1) * k
<1>1. /\ s \in Nat \ {0} /\ k \in Nat \ {0} /\ count \in Nat \ {0}
      /\ pkts \in Nat /\ more \in Nat /\ pkts * k = count
      /\ (count - 1) * s < size /\ size <= count * s
      /\ s = stripe_size(config) /\ count = CeilDiv(size, stripe_size(config))
  <2>1. s \in Nat \ {0} /\ s = stripe_size(config)
    BY Layout DEF StripeSize
  <2> QED
    BY <2>1, StripesHold DEF num_data_stripes, PlanHolds
<1>2. /\ DOMAIN data = 1 .. pkts /\ data = [j \in 1 .. pkts |-> data[j]]
      /\ \A j \in 1 .. pkts : /\ data[j].is_parity = FALSE /\ data[j].payload_len = unit
                              /\ data[j].stripe_pos_in_frame = (j - 1) * k
  BY DEF DataDatagrams, Datagram, stripe_pos
<1>3. /\ DOMAIN par = 1 .. more /\ par = [j \in 1 .. more |-> par[j]]
      /\ \A j \in 1 .. more : par[j].is_parity = TRUE
  BY DEF ParityDatagrams, Datagram
<1> HIDE DEF data, par, k, s, pkts, more, count
<1>4. /\ pkts # 0 /\ k * s \in Nat \ {0} /\ size <= pkts * (k * s)
      /\ \A j \in 0 .. pkts - 1 : j * (k * s) < size
  BY <1>1, PacketsReach
<1>5. pkts \in Nat \ {0} /\ pkts - 1 \in 0 .. pkts - 1
  BY <1>1, <1>4
<1>6. unit \in Nat /\ unit * (pkts - 1) < size /\ size <= unit * pkts
  <2> DEFINE p == pkts - 1
  <2>1. unit \in Nat /\ p \in Nat /\ p * unit < size /\ size <= pkts * unit
    BY <1>4, <1>5
  <2> HIDE DEF unit, p
  <2>2. p * unit = unit * p
    BY <2>1, Z3
  <2>3. pkts * unit = unit * pkts
    BY <1>5, <2>1, Z3
  <2>4. unit * p < size /\ size <= unit * pkts
    BY <2>1, <2>2, <2>3, Zenon
  <2> QED
    BY <2>1, <2>4 DEF p
<1>7. unit \div s = k
  BY <1>1, ExactQuotient
<1>8. last \in Nat /\ last < count
  <2>1. 0 \in 0 .. k - 1
    BY <1>1
  <2>2. (pkts - 1) * k \in Nat /\ (pkts - 1) * k + 0 \in 0 .. count - 1
    BY <1>1, <1>5, <2>1, PacketInFrame
  <2> HIDE DEF last
  <2>3. last \in Nat /\ last + 0 \in 0 .. count - 1
    BY <2>2 DEF last
  <2> QED
    BY <1>1, <2>3
<1>9. ASSUME NEW j \in 1 .. pkts
      PROVE  (j - 1) * k \in Nat /\ (j < pkts => (j - 1) * k + k <= last)
  <2>1. j \in Nat /\ j - 1 \in Nat /\ (j < pkts => j <= pkts - 1)
    BY <1>1
  <2>2. (j - 1) * k \in Nat
    BY <1>1, <2>1, Z3
  <2>3. ASSUME j < pkts PROVE (j - 1) * k + k <= last
    <3>1. pkts - 1 \in Nat /\ j <= pkts - 1
      BY <1>5, <2>1, <2>3
    <3>2. k * j <= k * (pkts - 1)
      BY <1>1, <2>1, <3>1, MultiplesGrow
    <3>3. k * j = (j - 1) * k + k /\ k * (pkts - 1) = (pkts - 1) * k
      BY <1>1, <2>1, Z3
    <3> QED
      BY <3>2, <3>3, Zenon
  <2> QED
    BY <2>2, <2>3
<1> HIDE DEF last, unit
<1>10. /\ Len(ch) = pkts + more
       /\ \A i \in 1 .. Len(ch) : ch[i] = IF i <= pkts THEN data[i] ELSE par[i - pkts]
  <2> DEFINE T == {data[j] : j \in 1 .. pkts} \cup {par[j] : j \in 1 .. more}
  <2>1. data \in [1 .. pkts -> T] /\ par \in [1 .. more -> T]
    BY <1>2, <1>3
  <2> HIDE DEF T
  <2>2. data \in Seq(T) /\ par \in Seq(T)
    BY <1>1, <2>1, SeqDef
  <2>3. Len(data) = pkts /\ Len(par) = more
    BY <1>1, <1>2, <1>3, <2>2, LenProperties
  <2> QED
    BY <2>2, <2>3, ConcatProperties
<1> HIDE DEF ch
<1>11. ASSUME NEW i \in 1 .. Len(ch)
       PROVE  /\ i > pkts => ch[i].is_parity = TRUE
              /\ i <= pkts => /\ ch[i].is_parity = FALSE
                              /\ ch[i].payload_len = unit /\ ch[i].stripe_pos_in_frame \in Nat
              /\ i < pkts => ch[i].stripe_pos_in_frame + k <= last
  <2>1. CASE i <= pkts
    <3>1. i \in 1 .. pkts /\ ch[i] = data[i]
      BY <1>1, <1>10, <2>1
    <3>2. ch[i].is_parity = FALSE /\ ch[i].payload_len = unit
          /\ ch[i].stripe_pos_in_frame = (i - 1) * k
      BY <1>2, <3>1
    <3>3. (i - 1) * k \in Nat /\ (i < pkts => (i - 1) * k + k <= last)
      BY <1>9, <3>1
    <3> DEFINE y == (i - 1) * k
    <3>4. ch[i].stripe_pos_in_frame = y /\ y \in Nat /\ (i < pkts => y + k <= last)
      BY <3>2, <3>3
    <3> HIDE DEF y
    <3>5. ~ (i > pkts)
      BY <1>1, <2>1
    <3> QED
      BY <3>2, <3>4, <3>5
  <2>2. CASE ~ (i <= pkts)
    <3>1. i > pkts /\ ~ (i < pkts) /\ i - pkts \in 1 .. more /\ ch[i] = par[i - pkts]
      BY <1>1, <1>10, <2>2
    <3>2. ch[i].is_parity = TRUE
      BY <1>3, <3>1
    <3> QED
      BY <2>2, <3>1, <3>2
  <2> QED
    BY <2>1, <2>2
<1>12. pkts <= Len(ch)
  BY <1>1, <1>10
<1>13. OnWire(config, size, ch, unit, pkts, pkts, last)
  BY <1>1, <1>5, <1>6, <1>7, <1>8, <1>11, <1>12 DEF OnWire
<1> QED
  BY <1>13 DEF ch, data, par

(* The first packets of a frame leave the sender.                          *)
LEMMA EncodeCounts ==
  ASSUME NEW c, NEW n \in Nat, NEW sizes, NEW more, NEW dec, NEW dropped, NEW frames, NEW ch,
         CountsHold(c, n, sizes, <<>>, dec, dropped, frames), NEW size \in Nat \ {0},
         \A f \in 0 .. n - 1 : sizes[f + 1] \in Nat /\ more[f + 1] = sizes[f + 1],
         more[n + 1] = size, dec.ts \in Int, dec.ts < n,
         \A e \in frames : e.frame \in Int /\ e.frame < n,
         \E unit, pkts, last : OnWire(c, size, ch, unit, pkts, pkts, last)
  PROVE  CountsHold(c, n + 1, more, ch, dec, dropped, frames)
<1>1. /\ \A l \in dropped : l.frame \in Int /\ l.frame < n
      /\ \A g \in DOMAIN dec.received : g \in Int /\ g < n
      /\ \A f \in 0 .. n - 2 : Settled(dec, dropped, sizes[f + 1], f)
      /\ n > 0 => InFlight(c, n - 1, sizes[n], <<>>, dec, dropped, frames)
      /\ \A e \in frames : e.direct <=> Whole(dropped, e.frame)
  BY Zenon DEF CountsHold
<1>2. ASSUME n > 0 PROVE Settled(dec, dropped, sizes[n], n - 1)
  <2> DEFINE none == <<>>
  <2>1. PICK unit, pkts, r, got, last :
          /\ OnWire(c, sizes[n], none, unit, pkts, r, last)
          /\ Counted(c, n - 1, dec, dropped, frames, unit, pkts, r, got, last)
    BY <1>1, <1>2, Zenon DEF InFlight
  <2>2. r = 0
    BY <2>1 DEF OnWire
  <2> HIDE DEF none
  <2>3. sizes[n] \in Nat
    <3>1. n - 1 \in 0 .. n - 1 /\ (n - 1) + 1 = n
      BY <1>2
    <3> QED
      BY <3>1
  <2>4. got \in Nat /\ Delivered(dec, n - 1) = unit * got /\ got + r <= pkts
        /\ (got + r = pkts <=> Whole(dropped, n - 1)) /\ pkts \in Nat
    BY <2>1 DEF Counted, OnWire
  <2>5. got <= pkts /\ got + r = got
    BY <2>2, <2>4
  <2>6. unit * got >= sizes[n] <=> got = pkts
    BY <2>1, <2>3, <2>4, <2>5, AllArrived
  <2> QED
    BY <2>4, <2>5, <2>6, Zenon DEF Settled
<1>3. ASSUME NEW f \in 0 .. (n + 1) - 2
      PROVE  Settled(dec, dropped, more[f + 1], f)
  <2>1. CASE f = n - 1
    <3>1. n > 0 /\ f \in 0 .. n - 1 /\ f + 1 = n
      BY <2>1
    <3>2. more[f + 1] = sizes[n]
      BY <3>1
    <3> QED
      BY <1>2, <2>1, <3>1, <3>2
  <2>2. CASE f # n - 1
    <3>1. f \in 0 .. n - 2 /\ f \in 0 .. n - 1
      BY <2>2
    <3> QED
      BY <1>1, <3>1
  <2> QED
    BY <2>1, <2>2
<1>4. InFlight(c, n, size, ch, dec, dropped, frames)
  <2>1. PICK unit, pkts, last : OnWire(c, size, ch, unit, pkts, pkts, last)
    OBVIOUS
  <2>2. unit \in Nat /\ pkts \in Nat
    BY <2>1 DEF OnWire
  <2> DEFINE got == 0
  <2>3. n \notin DOMAIN dec.received
    BY <1>1
  <2>4. Delivered(dec, n) = 0 /\ unit * got = 0
    BY <2>2, <2>3 DEF Delivered
  <2>5. Whole(dropped, n)
    BY <1>1 DEF Whole
  <2>6. got \in Nat /\ got + pkts = pkts /\ got + pkts <= pkts
    BY <2>2
  <2>7. dec.ts # n /\ \A e \in frames : e.frame # n
    OBVIOUS
  <2>8. Delivered(dec, n) = unit * got
    BY <2>4
  <2> HIDE DEF got
  <2>9. Counted(c, n, dec, dropped, frames, unit, pkts, pkts, got, last)
    BY <2>5, <2>6, <2>7, <2>8 DEF Counted
  <2> QED
    BY <2>1, <2>9 DEF InFlight
<1>5. /\ \A l \in dropped : l.frame \in Int /\ l.frame < n + 1
      /\ \A g \in DOMAIN dec.received : g \in Int /\ g < n + 1
  BY <1>1
<1>6. (n + 1) - 1 = n
  OBVIOUS
<1> DEFINE m == n + 1
<1>7. /\ \A l \in dropped : l.frame \in Int /\ l.frame < m
      /\ \A g \in DOMAIN dec.received : g \in Int /\ g < m
      /\ \A f \in 0 .. m - 2 : Settled(dec, dropped, more[f + 1], f)
      /\ m - 1 = n /\ more[m] = size
  BY <1>3, <1>5, <1>6
<1> HIDE DEF m
<1>8. CountsHold(c, m, more, ch, dec, dropped, frames)
  BY <1>1, <1>4, <1>7 DEF CountsHold
<1> QED
  BY <1>8 DEF m

(* The channel drops a datagram of the last frame.                         *)
LEMMA LoseCounts ==
  ASSUME NEW c, NEW n \in Nat \ {0}, NEW sizes, NEW dec, NEW dropped, NEW frames, NEW T,
         NEW ch \in Seq(T), ch # <<>>, CountsHold(c, n, sizes, ch, dec, dropped, frames),
         NEW l, l.frame = n - 1, l.is_parity = Head(ch).is_parity
  PROVE  CountsHold(c, n, sizes, Tail(ch), dec, dropped \cup {l}, frames)
<1> DEFINE f == n - 1
           more == dropped \cup {l}
           head == Head(ch)
           tail == Tail(ch)
<1>1. /\ \A k \in dropped : k.frame \in Int /\ k.frame < n
      /\ \A g \in DOMAIN dec.received : g \in Int /\ g < n
      /\ \A g \in 0 .. n - 2 : Settled(dec, dropped, sizes[g + 1], g)
      /\ InFlight(c, f, sizes[n], ch, dec, dropped, frames)
      /\ \A e \in frames : e.direct <=> Whole(dropped, e.frame)
  <2>1. n > 0
    OBVIOUS
  <2> QED
    BY <2>1, Zenon DEF CountsHold
<1>2. PICK unit, pkts, r, got, last :
        /\ OnWire(c, sizes[n], ch, unit, pkts, r, last)
        /\ Counted(c, f, dec, dropped, frames, unit, pkts, r, got, last)
  BY <1>1, Zenon DEF InFlight
<1>3. \/ head.is_parity = FALSE /\ r > 0 /\ OnWire(c, sizes[n], tail, unit, pkts, r - 1, last)
      \/ head.is_parity = TRUE /\ r = 0 /\ OnWire(c, sizes[n], tail, unit, pkts, r, last)
  <2> DEFINE size == sizes[n]
  <2>1. OnWire(c, size, ch, unit, pkts, r, last)
    BY <1>2
  <2> HIDE DEF size
  <2> QED
    BY <2>1, TakenFromWire, Zenon DEF size
<1>4. \A g : g # f => (Whole(more, g) <=> Whole(dropped, g))
  BY DEF Whole
<1>5. \A k \in more : k.frame \in Int /\ k.frame < n
  BY <1>1
<1>6. \A g \in 0 .. n - 2 : Settled(dec, more, sizes[g + 1], g)
  <2>1. \A g \in 0 .. n - 2 : g # f
    OBVIOUS
  <2> QED
    BY <1>1, <1>4, <2>1, Zenon DEF Settled
<1>7. /\ got \in Nat /\ Delivered(dec, f) = unit * got /\ got + r <= pkts
      /\ got + r = pkts <=> Whole(dropped, f)
      /\ r > 0 => /\ \A e \in frames : e.frame # f
                  /\ dec.ts = f => Waits(c, f, last, dec)
      /\ pkts \in Nat /\ r \in Nat
  BY <1>2 DEF Counted, OnWire
<1> HIDE DEF f, more, tail
<1>8. InFlight(c, f, sizes[n], tail, dec, more, frames)
      /\ \A e \in frames : e.direct <=> Whole(more, e.frame)
  <2>1. CASE head.is_parity = FALSE /\ r > 0
             /\ OnWire(c, sizes[n], tail, unit, pkts, r - 1, last)
    <3>1. ~ Whole(more, f)
      BY <2>1 DEF Whole, more, f
    <3> DEFINE q == r - 1
    <3>2. q \in Nat /\ got + q <= pkts /\ got + q # pkts
      BY <1>7, <2>1
    <3>3. OnWire(c, sizes[n], tail, unit, pkts, q, last)
      BY <2>1
    <3> HIDE DEF q
    <3>4. Counted(c, f, dec, more, frames, unit, pkts, q, got, last)
      BY <1>7, <2>1, <3>1, <3>2 DEF Counted
    <3>5. InFlight(c, f, sizes[n], tail, dec, more, frames)
      BY <3>3, <3>4, Zenon DEF InFlight
    <3>6. \A e \in frames : e.frame # f
      BY <1>7, <2>1
    <3> QED
      BY <1>1, <1>4, <3>5, <3>6
  <2>2. CASE head.is_parity = TRUE /\ r = 0
             /\ OnWire(c, sizes[n], tail, unit, pkts, r, last)
    <3>1. \A g : Whole(more, g) <=> Whole(dropped, g)
      BY <2>2 DEF Whole, more
    <3>2. Counted(c, f, dec, more, frames, unit, pkts, r, got, last)
      BY <1>2, <3>1, Zenon DEF Counted
    <3>3. InFlight(c, f, sizes[n], tail, dec, more, frames)
      BY <2>2, <3>2, Zenon DEF InFlight
    <3> QED
      BY <1>1, <3>1, <3>3
  <2> QED
    BY <1>3, <2>1, <2>2, Zenon
<1> QED
  BY <1>1, <1>5, <1>6, <1>8 DEF CountsHold, f, more, tail

(* take_recovered_frame: a frame is direct when its bytes were received.   *)
LEMMA HandedIsDirect ==
  ASSUME NEW f \in Nat, NEW n \in Nat, n = f + 1, NEW sizes, Sizes(config, n, sizes),
         NEW dec, Abreast(f, sizes, dec), NEW e \in Handed(dec)
  PROVE  /\ e.frame \in 0 .. f /\ is_frame_recovered(dec, e.frame)
         /\ e.direct <=> Delivered(dec, e.frame) >= sizes[e.frame + 1]
         /\ e.frame \in DOMAIN dec.sizes /\ dec.sizes[e.frame] = sizes[e.frame + 1]
<1> DEFINE g == e.frame
           size == sizes[g + 1]
<1>1. /\ g \in dec.ring /\ is_frame_recovered(dec, g)
      /\ e.direct <=> all_data_received(dec, g)
  <2>1. PICK k \in dec.ring :
          /\ is_frame_recovered(dec, k)
          /\ e = [frame |-> k, payload |-> recovered_frame(dec, k), len |-> recovered_len(dec, k),
                  direct |-> all_data_received(dec, k)]
    BY Zenon DEF Handed
  <2>2. e.frame = k
    BY <2>1
  <2>3. e.direct = all_data_received(dec, k)
    BY <2>1, Zenon
  <2> QED
    BY <2>1, <2>2, <2>3, Zenon
<1>2. /\ g \in Nat /\ g <= f /\ g \in DOMAIN dec.sizes /\ dec.sizes[g] = size
  <2>1. g \in Nat /\ g <= f
    BY <1>1 DEF Abreast, FramesKnown
  <2>2. g \in DOMAIN dec.sizes /\ dec.sizes[g] = size
    BY <1>1 DEF is_frame_recovered, Abreast, FramesKnown
  <2> QED
    BY <2>1, <2>2
<1>3. g \in 0 .. f /\ g \in 0 .. n - 1
  <2> HIDE DEF g
  <2> QED
    BY <1>2
<1>4. size \in Nat \ {0}
  BY <1>3 DEF Sizes
<1> HIDE DEF g, size
<1>5. all_data_received(dec, g) <=> Delivered(dec, g) >= size
  <2>1. CASE g \in DOMAIN dec.received
    BY <1>2, <2>1 DEF all_data_received, Delivered
  <2>2. CASE g \notin DOMAIN dec.received
    <3>1. Delivered(dec, g) = 0 /\ ~ (0 >= size)
      BY <1>4, <2>2 DEF Delivered
    <3>2. ~ (Delivered(dec, g) >= size)
      BY <3>1
    <3> QED
      BY <2>2, <3>2 DEF all_data_received
  <2> QED
    BY <2>1, <2>2
<1>6. e.direct <=> Delivered(dec, g) >= size
  BY <1>1, <1>5, Zenon
<1> QED
  BY <1>1, <1>2, <1>3, <1>6, Zenon DEF g, size

(* What is handed over next is counted too.                                *)
LEMMA HandedCounts ==
  ASSUME CanOpen(config), NEW f \in Nat, NEW n \in Nat, n = f + 1, NEW sizes,
         Sizes(config, n, sizes), NEW dec, Abreast(f, sizes, dec), NEW ch, NEW dropped,
         \A l \in dropped : l.frame \in Int /\ l.frame < n,
         \A g \in DOMAIN dec.received : g \in Int /\ g < n,
         \A g \in 0 .. n - 2 : Settled(dec, dropped, sizes[g + 1], g),
         \A e \in out : e.direct <=> Whole(dropped, e.frame),
         NEW unit, NEW pkts, NEW r, NEW got, NEW last,
         OnWire(config, sizes[n], ch, unit, pkts, r, last),
         Counted(config, f, dec, dropped, out, unit, pkts, r, got, last),
         r > 0 => Waits(config, f, last, dec)
  PROVE  CountsHold(config, n, sizes, ch, dec, dropped, out \cup Handed(dec))
<1> DEFINE frames == out \cup Handed(dec)
           size == sizes[n]
<1>1. /\ got \in Nat /\ Delivered(dec, f) = unit * got /\ got + r <= pkts
      /\ got + r = pkts <=> Whole(dropped, f)
      /\ r > 0 => /\ \A e \in out : e.frame # f
                  /\ dec.ts = f => Waits(config, f, last, dec)
      /\ pkts \in Nat /\ r \in Nat
      /\ last \in Nat /\ last < CeilDiv(size, stripe_size(config))
  BY DEF Counted, OnWire
<1>2. size \in Nat \ {0} /\ num_data_stripes(size) = CeilDiv(size, stripe_size(config))
      /\ num_data_stripes(size) \in Nat
  <2>1. f \in 0 .. n - 1 /\ f + 1 = n
    OBVIOUS
  <2>2. size \in Nat \ {0}
    BY <2>1 DEF Sizes
  <2> HIDE DEF size
  <2> QED
    BY <2>2, Layout, StripesHold DEF num_data_stripes, StripeSize
<1> HIDE DEF size
<1>3. ASSUME r > 0, NEW e \in Handed(dec) PROVE e.frame # f
  <2> SUFFICES ASSUME e.frame = f PROVE FALSE
    OBVIOUS
  <2>1. /\ is_frame_recovered(dec, f) /\ f \in DOMAIN dec.sizes /\ dec.sizes[f] = size
    <3>1. is_frame_recovered(dec, e.frame) /\ e.frame \in DOMAIN dec.sizes
          /\ dec.sizes[e.frame] = sizes[e.frame + 1]
      BY HandedIsDirect
    <3> QED
      BY <3>1 DEF size
  <2>2. last \in 0 .. num_data_stripes(size) - 1
    <3> DEFINE k == num_data_stripes(size)
    <3>1. k \in Nat /\ last \in Nat /\ last < k
      BY <1>1, <1>2
    <3> HIDE DEF k
    <3>2. last \in 0 .. k - 1
      BY <3>1
    <3> QED
      BY <3>2 DEF k
  <2>3. first_pos_of_frame(f, FALSE) + last \notin dec.erased
    BY <2>1, <2>2 DEF is_frame_recovered
  <2>4. first_pos_of_frame(f, FALSE) + last \in dec.erased
    BY <1>3 DEF Waits, first_pos_of_frame, Slot, NumFrames
  <2> QED
    BY <2>3, <2>4
<1>4. ASSUME NEW e \in Handed(dec) PROVE e.direct <=> Whole(dropped, e.frame)
  <2> DEFINE g == e.frame
  <2>1. g \in 0 .. f /\ (e.direct <=> Delivered(dec, g) >= sizes[g + 1])
    BY HandedIsDirect
  <2>2. CASE g = f
    <3>1. ~ (r > 0)
      BY <1>3, <2>2
    <3>2. r = 0 /\ got <= pkts /\ got + r = got
      BY <1>1, <3>1
    <3>3. unit * got >= size <=> got = pkts
      <4>1. OnWire(config, size, ch, unit, pkts, r, last)
        BY DEF size
      <4> QED
        BY <1>1, <1>2, <3>2, <4>1, AllArrived
    <3>4. sizes[g + 1] = size
      BY <2>2 DEF size
    <3> HIDE DEF g
    <3>5. Delivered(dec, g) = unit * got
      BY <1>1, <2>2
    <3> QED
      BY <1>1, <2>1, <2>2, <3>2, <3>3, <3>4, <3>5, Zenon DEF g
  <2>3. CASE g # f
    <3>1. g \in 0 .. n - 2
      <4> HIDE DEF g
      <4> QED
        BY <2>1, <2>3
    <3>2. Settled(dec, dropped, sizes[g + 1], g)
      BY <3>1
    <3> QED
      BY <2>1, <3>2, Zenon DEF Settled
  <2> QED
    BY <2>2, <2>3
<1>5. \A e \in frames : e.direct <=> Whole(dropped, e.frame)
  BY <1>4, Zenon
<1>6. Counted(config, f, dec, dropped, frames, unit, pkts, r, got, last)
  <2>1. r > 0 => \A e \in frames : e.frame # f
    BY <1>1, <1>3
  <2> HIDE DEF frames
  <2> QED
    BY <1>1, <2>1, Zenon DEF Counted
<1> HIDE DEF frames
<1>7. InFlight(config, f, sizes[n], ch, dec, dropped, frames)
  BY <1>6, Zenon DEF InFlight
<1>8. n - 1 = f
  OBVIOUS
<1>9. InFlight(config, n - 1, sizes[n], ch, dec, dropped, frames)
  BY <1>7, <1>8
<1>10. CountsHold(config, n, sizes, ch, dec, dropped, frames)
  BY <1>5, <1>9, Zenon DEF CountsHold
<1> QED
  BY <1>10 DEF frames

(* receive_datagram keeps the count.                                       *)
LEMMA ReceiveCounts ==
  ASSUME CanOpen(config), NEW n \in Nat, NEW sizes, Sizes(config, n, sizes),
         SenderHolds(config, n, sizes, tx), ReceiverHolds(config, n, sizes, tx, rx),
         NEW f \in Nat, n = f + 1, NEW T, NEW ch \in Seq(T), ch # <<>>, NEW dropped,
         CountsHold(config, n, sizes, ch, rx, dropped, out), NEW d, Carries(config, f, tx, d),
         d.is_parity = Head(ch).is_parity, d.payload_len = Head(ch).payload_len,
         d.stripe_pos_in_frame = Head(ch).stripe_pos_in_frame
  PROVE  CountsHold(config, n, sizes, Tail(ch), Ingested(d), dropped, out \cup Handed(Ingested(d)))
<1> DEFINE size == sizes[n]
           tail == Tail(ch)
           after == Ingested(d)
<1>1. /\ \A l \in dropped : l.frame \in Int /\ l.frame < n
      /\ \A g \in DOMAIN rx.received : g \in Int /\ g < n
      /\ \A g \in 0 .. n - 2 : Settled(rx, dropped, sizes[g + 1], g)
      /\ InFlight(config, n - 1, size, ch, rx, dropped, out)
      /\ \A e \in out : e.direct <=> Whole(dropped, e.frame)
  <2>1. n > 0
    OBVIOUS
  <2> QED
    BY <2>1, Zenon DEF CountsHold
<1>2. n - 1 = f
  OBVIOUS
<1>3. PICK unit, pkts, r, got, last :
        /\ OnWire(config, size, ch, unit, pkts, r, last)
        /\ Counted(config, f, rx, dropped, out, unit, pkts, r, got, last)
  BY <1>1, <1>2, Zenon DEF InFlight
<1>4. /\ got \in Nat /\ Delivered(rx, f) = unit * got /\ got + r <= pkts
      /\ got + r = pkts <=> Whole(dropped, f)
      /\ r > 0 => /\ \A e \in out : e.frame # f
                  /\ rx.ts = f => Waits(config, f, last, rx)
      /\ pkts \in Nat /\ r \in Nat /\ unit \in Nat /\ last \in Nat
      /\ unit \div stripe_size(config) \in Nat
      /\ last < CeilDiv(size, stripe_size(config))
  BY <1>3 DEF Counted, OnWire
<1>5. \/ /\ d.is_parity = FALSE /\ r > 0 /\ d.payload_len = unit
         /\ d.stripe_pos_in_frame \in Nat
         /\ r > 1 => d.stripe_pos_in_frame + unit \div stripe_size(config) <= last
         /\ OnWire(config, size, tail, unit, pkts, r - 1, last)
      \/ /\ d.is_parity = TRUE /\ r = 0
         /\ OnWire(config, size, tail, unit, pkts, r, last)
  <2> HIDE DEF size
  <2>1. \/ /\ Head(ch).is_parity = FALSE /\ r > 0 /\ Head(ch).payload_len = unit
           /\ Head(ch).stripe_pos_in_frame \in Nat
           /\ r > 1 => Head(ch).stripe_pos_in_frame + unit \div stripe_size(config) <= last
           /\ OnWire(config, size, tail, unit, pkts, r - 1, last)
        \/ /\ Head(ch).is_parity = TRUE /\ r = 0
           /\ OnWire(config, size, tail, unit, pkts, r, last)
    BY <1>3, TakenFromWire, Zenon
  <2> QED
    BY <2>1
<1>6. /\ d.is_parity = TRUE => after.received = rx.received
      /\ d.is_parity = FALSE =>
           /\ after.received = Placed(rx.received, Only(f, Delivered(rx, f) + d.payload_len))
           /\ \A p \in Nat :
                /\ p < num_data_stripes(size)
                /\ d.stripe_pos_in_frame \in Nat
                /\ d.payload_len \div StripeSize \in Nat
                /\ d.stripe_pos_in_frame + d.payload_len \div StripeSize <= p
                /\ rx.ts = f => Waits(config, f, p, rx)
                => Waits(config, f, p, after)
  BY IngestedCounts
<1>7. Abreast(f, sizes, after)
  BY IngestedAbreast
<1> HIDE DEF size, tail, after
<1>8. CASE d.is_parity = TRUE /\ r = 0 /\ OnWire(config, size, tail, unit, pkts, r, last)
  <2>1. after.received = rx.received
    BY <1>6, <1>8
  <2>2. \A g : Delivered(after, g) = Delivered(rx, g)
    BY <2>1 DEF Delivered
  <2>3. \A g \in 0 .. n - 2 : Settled(after, dropped, sizes[g + 1], g)
    BY <1>1, <2>2, Zenon DEF Settled
  <2>4. Counted(config, f, after, dropped, out, unit, pkts, r, got, last)
    BY <1>4, <1>8, <2>2 DEF Counted
  <2>5. ~ (r > 0)
    BY <1>8
  <2>6. \A g \in DOMAIN after.received : g \in Int /\ g < n
    BY <1>1, <2>1
  <2>7. OnWire(config, sizes[n], tail, unit, pkts, r, last)
    BY <1>8 DEF size
  <2> QED
    BY <1>1, <1>7, <2>3, <2>4, <2>5, <2>6, <2>7, HandedCounts DEF tail, after
<1>9. CASE /\ d.is_parity = FALSE /\ r > 0 /\ d.payload_len = unit
           /\ d.stripe_pos_in_frame \in Nat
           /\ r > 1 => d.stripe_pos_in_frame + unit \div stripe_size(config) <= last
           /\ OnWire(config, size, tail, unit, pkts, r - 1, last)
  <2> DEFINE q == r - 1
             more == got + 1
  <2>1. after.received = Placed(rx.received, Only(f, Delivered(rx, f) + unit))
    BY <1>6, <1>9
  <2>2. /\ DOMAIN after.received = DOMAIN rx.received \cup {f}
        /\ after.received[f] = Delivered(rx, f) + unit
        /\ \A g \in DOMAIN rx.received : g # f => after.received[g] = rx.received[g]
    BY <2>1 DEF Placed, Only
  <2>3. Delivered(after, f) = unit * more
    <3>1. Delivered(after, f) = unit * got + unit
      BY <1>4, <2>2 DEF Delivered
    <3>2. unit * (got + 1) = unit * got + unit
      BY <1>4, NextMultiple
    <3> QED
      BY <3>1, <3>2
  <2>4. \A g : g # f => Delivered(after, g) = Delivered(rx, g)
    BY <2>2 DEF Delivered
  <2>5. \A g \in 0 .. n - 2 : Settled(after, dropped, sizes[g + 1], g)
    <3>1. \A g \in 0 .. n - 2 : g # f
      OBVIOUS
    <3> QED
      BY <1>1, <2>4, <3>1, Zenon DEF Settled
  <2>6. /\ q \in Nat /\ more \in Nat /\ more + q <= pkts /\ more + q = got + r
        /\ q > 0 => r > 1
    BY <1>4, <1>9
  <2>7. q > 0 => Waits(config, f, last, after)
    <3> SUFFICES ASSUME q > 0 PROVE Waits(config, f, last, after)
      OBVIOUS
    <3>1. num_data_stripes(size) = CeilDiv(size, stripe_size(config))
          /\ StripeSize = stripe_size(config)
      BY DEF num_data_stripes, StripeSize
    <3>2. rx.ts = f => Waits(config, f, last, rx)
      BY <1>4, <1>9
    <3> HIDE DEF q
    <3> QED
      BY <1>4, <1>6, <1>9, <2>6, <3>1, <3>2
  <2>8. \A g \in DOMAIN after.received : g \in Int /\ g < n
    BY <1>1, <2>2
  <2>9. OnWire(config, sizes[n], tail, unit, pkts, q, last)
    BY <1>9 DEF size
  <2> HIDE DEF q, more
  <2>10. Counted(config, f, after, dropped, out, unit, pkts, q, more, last)
    BY <1>4, <1>9, <2>3, <2>6, <2>7 DEF Counted
  <2> QED
    BY <1>1, <1>7, <2>5, <2>7, <2>8, <2>9, <2>10, HandedCounts DEF tail, after
<1> QED
  BY <1>5, <1>8, <1>9, Zenon

-----------------------------------------------------------------------------
(* The invariant: the bytes of every frame are counted.                    *)
SessionCounts ==
  IF status = "open" THEN CountsHold(config, Len(sent), sent, channel, rx, lost, out)
  ELSE lost = {}

(* The constructors have nothing to count.                                 *)
LEMMA OpenCounts == ASSUME NEW c PROVE CountsHold(c, 0, <<>>, <<>>, NewDecoder, {}, {})
BY DEF CountsHold, NewDecoder

(* encode_payload keeps the count.                                         *)
LEMMA EncodeKeepsCounts ==
  ASSUME Sound, SessionHolds, SessionCounts, NEW size \in FrameSizes \ {0}, Encodes(size),
         NEW parity \in 0 .. config.max_fec_stripes, Encode(size, parity)
  PROVE  CountsHold(config, Len(sent'), sent', channel', rx, lost, out)
<1> DEFINE n == Len(sent)
           more == Append(sent, size)
           ch == channel'
<1>1. status = "open" /\ channel = <<>>
  BY DEF Encodes, Ready
<1>2. /\ CanOpen(config) /\ sent \in Seq(Nat) /\ Sizes(config, n, sent)
      /\ ReceiverHolds(config, n, sent, tx, rx) /\ \A e \in out : SentAs(sent, e)
  BY <1>1 DEF SessionHolds, InSession
<1>3. CountsHold(config, n, sent, <<>>, rx, lost, out)
  BY <1>1, Zenon DEF SessionCounts
<1>4. /\ size \in Nat \ {0} /\ sent' = more
      /\ \E unit, pkts, last : OnWire(config, size, ch, unit, pkts, pkts, last)
  <2> DEFINE plan == specs_for_stripes(num_data_stripes(size), parity, MaxStripesPerPkt)
             enc == HeaderEncoded(size)
             data == DataDatagrams(enc, size, plan)
             coded == CodeEncoded(enc, size, data)
  <2>1. /\ size \in Nat \ {0} /\ PlanHolds(plan, num_data_stripes(size), parity)
        /\ ch = data \o ParityDatagrams(coded, plan) /\ sent' = more
    BY <1>2, EncodePlans
  <2> HIDE DEF plan, enc, coded, ch, more
  <2> QED
    BY <1>2, <2>1, SentOnWire
<1>5. n \in Nat
  BY <1>2, LenProperties
<1>6. /\ Len(more) = n + 1 /\ more[n + 1] = size
      /\ \A f \in 0 .. n - 1 : sent[f + 1] \in Nat /\ more[f + 1] = sent[f + 1]
  <2>1. Len(more) = n + 1 /\ more[n + 1] = size /\ \A i \in 1 .. n : more[i] = sent[i]
    BY <1>2, <1>4, AppendProperties
  <2>2. \A f \in 0 .. n - 1 : sent[f + 1] \in Nat
    BY <1>2 DEF Sizes
  <2> HIDE DEF n, more
  <2> QED
    BY <1>5, <2>1, <2>2
<1>7. rx.ts \in Int /\ rx.ts < n /\ \A e \in out : e.frame \in Int /\ e.frame < n
  BY <1>2 DEF ReceiverHolds, SentAs
<1> HIDE DEF n, more, ch
<1>8. CountsHold(config, n + 1, more, ch, rx, lost, out)
  BY <1>3, <1>4, <1>5, <1>6, <1>7, EncodeCounts
<1> QED
  BY <1>4, <1>6, <1>8 DEF ch

(* The channel keeps the count.                                            *)
LEMMA LoseKeepsCounts ==
  ASSUME SessionHolds, SessionCounts, status = "open", Lose
  PROVE  CountsHold(config, Len(sent), sent, channel', rx, lost', out)
<1> DEFINE n == Len(sent)
           l == [frame |-> tx.next_session_index - 1, pos |-> Head(channel).pos_in_frame,
                 is_parity |-> Head(channel).is_parity]
<1>1. channel # <<>> /\ channel' = Tail(channel) /\ lost' = lost \cup {l}
  BY DEF Lose
<1>2. /\ sent \in Seq(Nat) /\ n > 0 /\ SenderHolds(config, n, sent, tx)
      /\ ChannelCarries(config, n - 1, tx, channel)
  BY <1>1 DEF SessionHolds, InSession
<1>3. PICK T : channel \in Seq(T)
  BY <1>2 DEF ChannelCarries
<1>4. n \in Nat \ {0}
  <2>1. n \in Nat
    BY <1>2, LenProperties
  <2> HIDE DEF n
  <2> QED
    BY <1>2, <2>1
<1>5. l.frame = n - 1 /\ l.is_parity = Head(channel).is_parity
  BY <1>2 DEF SenderHolds
<1>6. CountsHold(config, n, sent, channel, rx, lost, out)
  BY Zenon DEF SessionCounts
<1> HIDE DEF n, l
<1>7. CountsHold(config, n, sent, Tail(channel), rx, lost \cup {l}, out)
  BY <1>1, <1>3, <1>4, <1>5, <1>6, LoseCounts
<1> QED
  BY <1>1, <1>7, Zenon DEF n

(* receive_datagram keeps the count.                                       *)
LEMMA ReceiveKeepsCounts ==
  ASSUME MAX_FRAMES <= WIRE_FRAMES, SessionHolds, SessionCounts, status = "open", Receive
  PROVE  CountsHold(config, Len(sent), sent, channel', rx', lost, out')
<1> DEFINE n == Len(sent)
           f == n - 1
           head == Head(channel)
           d == from_bytes(to_bytes(head))
<1>1. channel # <<>> /\ rx' = Ingested(d) /\ out' = out \cup Handed(rx') /\ channel' = Tail(channel)
  BY DEF Receive
<1>2. /\ CanOpen(config) /\ sent \in Seq(Nat) /\ n <= MAX_FRAMES /\ n > 0
      /\ Sizes(config, n, sent) /\ SenderHolds(config, n, sent, tx)
      /\ ReceiverHolds(config, n, sent, tx, rx) /\ ChannelCarries(config, f, tx, channel)
  BY <1>1 DEF SessionHolds, InSession
<1>3. n \in Nat /\ f \in Nat /\ n = f + 1 /\ f \in 0 .. WIRE_FRAMES - 1
  <2>1. n \in Nat
    BY <1>2, LenProperties
  <2>2. MAX_FRAMES \in Nat
    BY TransmissionAssumption
  <2> HIDE DEF n
  <2> QED
    BY <1>2, <2>1, <2>2 DEF WIRE_FRAMES
<1>4. PICK T : channel \in Seq(T)
  BY <1>2 DEF ChannelCarries
<1>5. Carries(config, f, tx, head)
  BY <1>1, <1>2, ChannelHead
<1> HIDE DEF head, f
<1>6. /\ d.is_parity = head.is_parity /\ d.payload_len = head.payload_len
      /\ d.stripe_pos_in_frame = head.stripe_pos_in_frame
  <2>1. (head.is_parity = TRUE \/ head.is_parity = FALSE) /\ head.frame_num \in 0 .. WIRE_FRAMES - 1
    BY <1>3, <1>5 DEF Carries, HeaderCarried
  <2> QED
    BY <2>1, WireKeeps
<1>7. Carries(config, f, tx, d)
  BY <1>3, <1>5, WireCarries
<1>8. CountsHold(config, n, sent, channel, rx, lost, out)
  BY Zenon DEF SessionCounts
<1> HIDE DEF n, d
<1>9. CountsHold(config, n, sent, Tail(channel), Ingested(d), lost, out \cup Handed(Ingested(d)))
  BY <1>1, <1>2, <1>3, <1>4, <1>6, <1>7, <1>8, ReceiveCounts DEF head
<1> QED
  BY <1>1, <1>9, Zenon DEF n

(* The count holds at first.                                               *)
LEMMA InitCounts == Init => SessionCounts
BY DEF Init, SessionCounts

(* Every step keeps the count.                                             *)
LEMMA NextCounts ==
  MAX_FRAMES <= WIRE_FRAMES /\ Sound /\ SessionHolds /\ SessionCounts /\ [Next]_vars
    => SessionCounts'
<1> SUFFICES ASSUME MAX_FRAMES <= WIRE_FRAMES, Sound, SessionHolds, SessionCounts, [Next]_vars
             PROVE  SessionCounts'
  OBVIOUS
<1>1. ASSUME status # "open", status' # "open", UNCHANGED lost
      PROVE  SessionCounts'
  BY <1>1 DEF SessionCounts
<1>2. ASSUME UNCHANGED <<status, config, rx, sent, channel, lost, out>>
      PROVE  SessionCounts'
  BY <1>2, Zenon DEF SessionCounts
<1>3. ASSUME NEW field \in DOMAIN Settings, NEW value \in Settings[field], Set(field, value)
      PROVE  SessionCounts'
  BY <1>1, <1>3 DEF Set, session_vars
<1>4. CASE Build
  <2>1. status = "building" /\ status' \in {"built", "refused"}
    BY <1>4 DEF Build
  <2>2. UNCHANGED lost
    BY <1>4 DEF Build, session_vars
  <2> QED
    BY <1>1, <2>1, <2>2
<1>5. ASSUME NEW checks \in BOOLEAN, Open(checks) PROVE SessionCounts'
  <2>1. status = "built" /\ rx' = NewDecoder /\ UNCHANGED <<config, sent, channel, lost, out>>
    BY <1>5 DEF Open
  <2>2. sent = <<>> /\ channel = <<>> /\ out = {} /\ lost = {}
    BY <2>1 DEF SessionHolds, SessionCounts
  <2>3. CASE status' = "open"
    <3>1. CountsHold(config, 0, <<>>, <<>>, NewDecoder, {}, {})
      BY OpenCounts
    <3>2. Len(sent) = 0
      BY <2>2
    <3>3. CountsHold(config', Len(sent'), sent', channel', rx', lost', out')
      BY <2>1, <2>2, <3>1, <3>2, Zenon
    <3> QED
      BY <2>3, <3>3 DEF SessionCounts
  <2>4. CASE status' # "open"
    BY <1>1, <2>1, <2>4
  <2> QED
    BY <2>3, <2>4
<1>6. ASSUME NEW level \in Feedback, apply_feedback(level) PROVE SessionCounts'
  BY <1>2, <1>6 DEF apply_feedback
<1>7. ASSUME NEW size \in FrameSizes, Refuse(size) PROVE SessionCounts'
  BY <1>2, <1>7 DEF Refuse
<1>8. ASSUME NEW size \in FrameSizes \ {0}, encode_payload(size)
      PROVE  SessionCounts'
  <2>1. CASE Panics(size)
    BY <1>2, <2>1 DEF Panics
  <2>2. CASE Proceeds(size)
    <3> DEFINE parity == Emitted(num_data_stripes(size))
    <3>1. /\ parity \in 0 .. config.max_fec_stripes /\ Encodes(size) /\ Encode(size, parity)
      BY <2>2, ProceedsInBounds DEF Proceeds
    <3> HIDE DEF parity
    <3>2. CountsHold(config, Len(sent'), sent', channel', rx, lost, out)
      BY <3>1, EncodeKeepsCounts
    <3>3. status = "open" /\ UNCHANGED <<status, config, rx, lost, out>>
      BY <3>1, Zenon DEF Encode, Encodes, Ready
    <3> QED
      BY <3>2, <3>3, Zenon DEF SessionCounts
  <2> QED
    BY <1>8, <2>1, <2>2, PanicsOrProceeds
<1>9. ASSUME channel # <<>> PROVE status = "open"
  BY <1>9, Zenon DEF SessionHolds
<1>10. CASE Lose
  <2>1. channel # <<>> /\ UNCHANGED <<status, config, rx, sent, out>>
    BY <1>10 DEF Lose
  <2>2. status = "open"
    BY <1>9, <2>1
  <2>3. CountsHold(config, Len(sent), sent, channel', rx, lost', out)
    BY <1>10, <2>2, LoseKeepsCounts
  <2> QED
    BY <2>1, <2>2, <2>3, Zenon DEF SessionCounts
<1>11. CASE Receive
  <2>1. channel # <<>> /\ UNCHANGED <<status, config, sent, lost>>
    BY <1>11 DEF Receive
  <2>2. status = "open"
    BY <1>9, <2>1
  <2>3. CountsHold(config, Len(sent), sent, channel', rx', lost, out')
    BY <1>11, <2>2, ReceiveKeepsCounts
  <2> QED
    BY <2>1, <2>2, <2>3, Zenon DEF SessionCounts
<1>12. CASE UNCHANGED vars
  BY <1>2, <1>12 DEF vars
<1> QED
  BY <1>3, <1>4, <1>5, <1>6, <1>7, <1>8, <1>10, <1>11, <1>12, Zenon DEF Next

(* DirectMeansComplete from the two invariants.                            *)
LEMMA SessionIsCounted == SessionHolds /\ SessionCounts => DirectMeansComplete
<1> SUFFICES ASSUME SessionHolds, SessionCounts, NEW e \in out
             PROVE  e.direct <=> Whole(lost, e.frame)
  BY Zenon DEF DirectMeansComplete, Whole
<1>1. status = "open"
  BY DEF SessionHolds
<1>2. CountsHold(config, Len(sent), sent, channel, rx, lost, out)
  BY <1>1, Zenon DEF SessionCounts
<1> QED
  BY <1>2, Zenon DEF CountsHold

-----------------------------------------------------------------------------
(***************************************************************************)
(* FrameWindow::pos_in_block_code, BlockCode::place_payload and            *)
(* updated_ts, for every configuration that opens, every sequence of       *)
(* payload sizes and every loss: once the receiver is at the sender's      *)
(* frame, the two hold the same bytes in the same places of both codes,    *)
(* across the reuse of slots.                                              *)
(***************************************************************************)
THEOREM GridsAgreeAlways ==
  ASSUME MAX_FRAMES <= WIRE_FRAMES
  PROVE  Spec => []GridsAgree
BY InitSound, NextSound, InitSession, NextSession, SessionAgrees, PTL DEF Spec

(***************************************************************************)
(* take_recovered_frame, for every configuration that opens, every         *)
(* sequence of payload sizes and every loss: a frame is handed over with   *)
(* the bytes and the length that encode_payload was given, whichever of    *)
(* its stripes were received and whichever were solved, and never before   *)
(* it was sent.                                                            *)
(***************************************************************************)
THEOREM PayloadReassembledAlways ==
  ASSUME MAX_FRAMES <= WIRE_FRAMES
  PROVE  Spec => []PayloadReassembled
BY InitSound, NextSound, InitSession, NextSession, SessionReassembles, PTL DEF Spec

(***************************************************************************)
(* RecoveredFrame, direct_reception, for every configuration that opens,   *)
(* every sequence of payload sizes and every loss: it is true exactly when *)
(* no data datagram of the frame was lost.  The bytes counted include the  *)
(* zeros that fill the last packet up, and reach the size with the last    *)
(* packet only; the frame is not handed over before that packet is         *)
(* received or lost.                                                       *)
(***************************************************************************)
THEOREM DirectMeansCompleteAlways ==
  ASSUME MAX_FRAMES <= WIRE_FRAMES
  PROVE  Spec => []DirectMeansComplete
BY InitSound, NextSound, InitSession, NextSession, InitCounts, NextCounts, SessionIsCounted,
   PTL DEF Spec

=============================================================================
