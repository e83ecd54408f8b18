--------------------------- MODULE Packetization ---------------------------
(***************************************************************************)
(* How many parity stripes the sender gives each frame, and how it splits  *)
(* the stripes into packets: StreamingPacketization of                     *)
(* src/packetization.rs, in a session that could be opened.                *)
(*                                                                         *)
(* The sums are those of a build without overflow checks.  One with them   *)
(* behaves the same up to the call that would overflow, and panics there,  *)
(* which Transmission has.                                                 *)
(***************************************************************************)
EXTENDS PacketPlan, SequencesExt

CONSTANTS
  WINDOW,               (* window_frames: 2 * tau + 1.                     *)
  MAX_DATA,             (* max_data_stripes                                *)
  MAX_FEC,              (* max_fec_stripes                                 *)
  MAX_STRIPES_PER_PKT,  (* max_pkt_size / stripe_size                      *)
  MIN_PARITIES,         (* The values of min_window_parity considered.     *)
  PARITY_DELAYS         (* The values of parity_delay considered.          *)

(* ConfigBuilder::build refuses a max_fec_stripes that is too small for a  *)
(* frame of the maximum size; MAX_DATA is that frame's number of stripes.  *)
(* Encoder::new refuses codes with more rows and columns than their field  *)
(* has elements, at most U16.  The floor is any u16.                       *)
ASSUME PacketizationAssumption ==
  /\ WINDOW \in Nat \ {0} /\ MAX_DATA \in Nat \ {0} /\ MAX_FEC \in Nat
  /\ MAX_STRIPES_PER_PKT \in Nat \ {0}
  /\ num_parity_stripes_high(MAX_DATA) <= MAX_FEC
  /\ WINDOW * (MAX_DATA + MAX_FEC) <= U16
  /\ MIN_PARITIES \subseteq 0 .. U16 - 1 /\ PARITY_DELAYS \subseteq Nat

VARIABLES
  min_window_parity, delayed_parity, window_history,
  window_data_sum, window_parity_sum,
  plan,      \* The last plan: [data, parity, stripes_per_pkt, data_pkts, parity_pkts].
  on_wire    \* History: the parity stripes of the last WINDOW plans.

window_vars == <<window_history, window_data_sum, window_parity_sum>>
plan_vars == <<min_window_parity, delayed_parity, window_vars, plan, on_wire>>

-----------------------------------------------------------------------------
(* The sliding window without its oldest frame, when it is full.           *)
Full == Len(window_history) = WINDOW
Kept == WithoutOldest(window_history, WINDOW)

(* Mutant: the parity of the frame that leaves is not subtracted.          *)
ParityNotSubtracted == window_parity_sum

KeptData == IF Full THEN window_data_sum - Head(window_history).data ELSE window_data_sum
KeptParity == IF Full THEN window_parity_sum - Head(window_history).parity
              ELSE window_parity_sum

KeptTotals == [data |-> KeptData, parity |-> KeptParity]

(* Mutant: the adjusted count is not clamped.                              *)
AdjustedUnclamped(num_data, feedback) ==
  TopUp(num_data, feedback, KeptTotals, min_window_parity, WINDOW)

(* Mutant: no even share of the floor.                                     *)
AdjustedWithoutShare(num_data, feedback) ==
  LET base == ParityStripes(feedback, num_data)
      target == Target(num_data, feedback, KeptTotals, min_window_parity)
  IN  AtMost(base + SaturatingSub(target, KeptParity + base), MAX_FEC)

(* The parity of this frame: what the window lacks, at least an even share *)
(* of the floor, at most what the code has rows for.                       *)
Adjusted(num_data, feedback) ==
  AtMost(TopUp(num_data, feedback, KeptTotals, min_window_parity, WINDOW), MAX_FEC)

-----------------------------------------------------------------------------
NoPlan == [data |-> 0, parity |-> 0, stripes_per_pkt |-> 1, data_pkts |-> 0, parity_pkts |-> 0]

PlanInit ==
  /\ min_window_parity \in MIN_PARITIES
  /\ \E delay \in PARITY_DELAYS : delayed_parity = [i \in 1 .. delay |-> 0]
  /\ window_history = <<>> /\ window_data_sum = 0 /\ window_parity_sum = 0
  /\ plan = NoPlan
  /\ on_wire = <<>>

Slide(seq, x) == IF Len(seq) = WINDOW THEN Append(Tail(seq), x) ELSE Append(seq, x)

(* The parity planned now goes out parity_delay frames later.              *)
Emit(num_data, produced) ==
  LET queue == Append(delayed_parity, produced)
  IN  /\ delayed_parity' = Tail(queue)
      /\ plan' = specs_for_stripes(num_data, Head(queue), MAX_STRIPES_PER_PKT)
      /\ on_wire' = Slide(on_wire, Head(queue))

PlanWithFloor(num_data, feedback) ==
  LET produced == Adjusted(num_data, feedback)
  IN  /\ min_window_parity > 0
      /\ window_history' = Append(Kept, [data |-> num_data, parity |-> produced])
      /\ window_data_sum' = KeptData + num_data
      /\ window_parity_sum' = KeptParity + produced
      /\ Emit(num_data, produced)
      /\ UNCHANGED min_window_parity

PlanByRatio(num_data, feedback) ==
  /\ min_window_parity = 0
  /\ Emit(num_data, ParityStripes(feedback, num_data))
  /\ UNCHANGED <<min_window_parity, window_vars>>

PlanNext ==
  \E num_data \in 1 .. MAX_DATA, feedback \in Feedback :
    PlanWithFloor(num_data, feedback) \/ PlanByRatio(num_data, feedback)

PlanSpec == PlanInit /\ [][PlanNext]_plan_vars

-----------------------------------------------------------------------------
PlanTypeOK ==
  /\ min_window_parity \in MIN_PARITIES
  /\ delayed_parity \in Seq(0 .. MAX_FEC)
  /\ window_history \in Seq([data : 1 .. MAX_DATA, parity : 0 .. MAX_FEC])
  /\ Len(window_history) <= WINDOW
  /\ window_data_sum \in 0 .. U16 - 1 /\ window_parity_sum \in 0 .. U16 - 1

Entries(field) == Column(window_history, field)

(* The running sums are the sums over the window's frames, however often   *)
(* it slid.                                                                *)
SumsMatchHistory ==
  /\ window_data_sum = SumFunction(Entries("data"))
  /\ window_parity_sum = SumFunction(Entries("parity"))

(* Only in a window of one frame does a sum that wraps cost it its floor:  *)
(* in a longer one the even share of a floor so large fills the frame.     *)
FloorFits ==
  WINDOW > 1 \/ num_parity_stripes_high(MAX_DATA) + min_window_parity < U16

(* config.rs, min_window_parity: the parity planned for the last           *)
(* window_frames frames never falls below it, or below max_fec_stripes     *)
(* when it is larger, whatever the sizes of the frames and the feedback,   *)
(* and whether or not its sums wrap.                                       *)
Floor == AtMost(min_window_parity, MAX_FEC)

WindowFloor == window_history # <<>> /\ FloorFits => window_parity_sum >= Floor

(* target_burst_protection: with the floor that build computes for a       *)
(* burst, any tau + 1 consecutive frames, those whose parity covers the    *)
(* first of them, are planned as many parity stripes as the burst has      *)
(* packets, whatever larger frames brought to the window before them: what *)
(* makes up for the burst if each of its packets carries one stripe.       *)
tau == (WINDOW - 1) \div 2

(* A frame may carry its even share; the bursts that the floor is for.     *)
ShareFits == per_frame_extra(min_window_parity, WINDOW) <= MAX_FEC
ProtectedBursts ==
  {burst \in 1 .. min_window_parity : k_min(burst, WINDOW) <= min_window_parity}

ParityCovering(i) == SumFunctionOnSet(Entries("parity"), i .. i + tau)

StripeBurstIsCovered ==
  FloorFits /\ ShareFits =>
    \A burst \in ProtectedBursts :
      \A i \in 1 .. Len(window_history) - tau : ParityCovering(i) >= burst

(* config.rs 345-347, target_burst_protection: "the sliding window is      *)
(* guaranteed to carry enough parity equations to recover a burst of       *)
(* burst_packets consecutive packet losses".  The stripes that the burst   *)
(* takes from a frame are no more than the parity that covers the frame.   *)
(* Packets that carry several stripes refute it.                           *)
StripesLost(burst, frame) ==
  AtMost(burst * stripes_per_pkt(frame.data, frame.parity, MAX_STRIPES_PER_PKT), frame.data)

PacketBurstIsCovered ==
  FloorFits /\ ShareFits /\ delayed_parity = <<>> =>
    \A burst \in ProtectedBursts :
      \A i \in 1 .. Len(window_history) - tau :
        ParityCovering(i) >= StripesLost(burst, window_history[i])

(* README, min_window_parity: the floor holds for the parity on the wire   *)
(* too, delayed as it is, from the first frame whose parity was planned.   *)
WireFloor ==
  Len(on_wire) > Len(delayed_parity) /\ FloorFits => SumFunction(on_wire) >= Floor

(* encoder.rs: the code is never handed more parity stripes than its       *)
(* matrix has rows, delayed or not, topped up or not.                      *)
ParityFitsCode == plan.parity <= MAX_FEC

(* The packets of a frame carry each of its stripes once and fit the       *)
(* packet size, also when the parity count was planned for another frame.  *)
PacketsCarryPlan ==
  /\ plan.data_pkts * plan.stripes_per_pkt = plan.data
  /\ plan.parity_pkts * plan.stripes_per_pkt = plan.parity
  /\ plan.stripes_per_pkt \in 1 .. MAX_STRIPES_PER_PKT

=============================================================================
