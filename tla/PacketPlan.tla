----------------------------- MODULE PacketPlan -----------------------------
(***************************************************************************)
(* What src/packetization.rs computes for one frame: how many parity       *)
(* stripes a level of feedback asks for, how a floor tops them up, and how *)
(* stripes are split into packets.                                         *)
(*                                                                         *)
(* The numbers are u16.  The sums wrap, as in a build without overflow     *)
(* checks; TopUpOverflows and PacketSumOverflows say when a build with     *)
(* them panics instead.                                                    *)
(***************************************************************************)
EXTENDS Integers, Sequences, Functions

U16 == 65536

SaturatingSub(a, b) == IF a >= b THEN a - b ELSE 0
AtLeast(a, b) == IF a >= b THEN a ELSE b
AtMost(a, b) == IF a <= b THEN a ELSE b

CeilDiv(a, b) == (a + b - 1) \div b
num_parity_stripes_high(num_data) == CeilDiv(num_data, 2)

Feedback == {"None", "High", "Low"}

(* parity_ratio and num_parity_stripes                                     *)
ParityStripes(feedback, num_data) ==
  CASE feedback = "None" -> 0
    [] feedback = "High" -> CeilDiv(num_data, 2)
    [] feedback = "Low" -> CeilDiv(num_data, 4)

(* target_burst_protection: the floor for a window of 2 * tau + 1 frames   *)
(* that is to make up for `burst` lost packets.                            *)
k_min(burst, window_frames) == CeilDiv(burst * window_frames, (window_frames + 1) \div 2)

-----------------------------------------------------------------------------
(* The sliding window of plan_frame: [data, parity] of the last frames.    *)

(* Without its oldest frame, when it is full.                              *)
WithoutOldest(window, window_len) ==
  IF Len(window) = window_len THEN Tail(window) ELSE window

Column(window, field) == [i \in DOMAIN window |-> window[i][field]]

(* The sums over a window.                                                 *)
Totals(window) == [data |-> SumFunction(Column(window, "data")),
                   parity |-> SumFunction(Column(window, "parity"))]

(* Mutant: the credit is computed without the floor.                       *)
TargetWithoutFloor(num_data, feedback, kept, floor) ==
  ParityStripes(feedback, kept.data + num_data)

(* What the window should have with this frame: packetization.rs 123, 124. *)
Target(num_data, feedback, kept, floor) ==
  ParityStripes(feedback, kept.data + num_data) + floor

(* An even share of the floor, and what this frame has with it.            *)
per_frame_extra(floor, window_len) == CeilDiv(floor, window_len)
WithShare(num_data, feedback, floor, window_len) ==
  ParityStripes(feedback, num_data) + per_frame_extra(floor, window_len)

TopUpOverflows(num_data, feedback, kept, floor, window_len) ==
  \/ Target(num_data, feedback, kept, floor) >= U16
  \/ WithShare(num_data, feedback, floor, window_len) >= U16

(* The parity of a frame before the clamp: what the window lacks, at least *)
(* an even share of the floor.                                             *)
TopUp(num_data, feedback, kept, floor, window_len) ==
  LET base == ParityStripes(feedback, num_data)
      target == Target(num_data, feedback, kept, floor) % U16
  IN  AtLeast(base + SaturatingSub(target, kept.parity + base),
              WithShare(num_data, feedback, floor, window_len) % U16)

-----------------------------------------------------------------------------
(* Mutant: packets as large as fit the data stripes alone.                 *)
LargestForData(num_data, num_parity, most) ==
  CHOOSE n \in 1 .. most :
    /\ num_data % n = 0
    /\ \A m \in n + 1 .. most : num_data % m # 0

(* specs_for_stripes: as many stripes a packet as divide both counts, or   *)
(* one when that leaves too few packets.                                   *)
LargestCommon(num_data, num_parity, most) ==
  CHOOSE n \in 1 .. most :
    /\ num_data % n = 0 /\ num_parity % n = 0
    /\ \A m \in n + 1 .. most : num_data % m # 0 \/ num_parity % m # 0

(* The sum that is compared below; it overflows with one stripe a packet   *)
(* only, when the comparison decides nothing.                              *)
PacketSumOverflows(num_data, num_parity, most) ==
  LET n == LargestCommon(num_data, num_parity, most)
  IN  num_data \div n + num_parity \div n >= U16

MIN_PKTS == 6

stripes_per_pkt(num_data, num_parity, most) ==
  LET n == LargestCommon(num_data, num_parity, most)
  IN  IF num_data \div n + num_parity \div n < MIN_PKTS THEN 1 ELSE n

specs_for_stripes(num_data, num_parity, most) ==
  LET n == stripes_per_pkt(num_data, num_parity, most)
  IN  [data |-> num_data, parity |-> num_parity, stripes_per_pkt |-> n,
       data_pkts |-> num_data \div n, parity_pkts |-> num_parity \div n]

=============================================================================
