----------------------------- MODULE LossReport -----------------------------
(***************************************************************************)
(* The frames that collect in Decoder::feedback_frames between two loss    *)
(* reports (src/codec/decoder.rs), and the report that would be built of   *)
(* them.                                                                   *)
(***************************************************************************)
EXTENDS LossMetrics

CONSTANTS
  MAX_PACKETS,   (* Bound: the packets of a frame.                         *)
  MAX_WINDOW     (* Bound: the frames purged between two reports.          *)

ASSUME ReportAssumption == MAX_PACKETS \in Nat \ {0} /\ MAX_WINDOW \in Nat

(* The code counts positions in u16 and looks up to a u8 further; it does  *)
(* not check that they fit.  A frame takes less than twice its packets.    *)
ASSUME PositionsAssumption == 2 * MAX_PACKETS * MAX_WINDOW <= 2^16 - 2^8

VARIABLE feedback_frames

(* The ways a frame of up to MAX_PACKETS packets can end: some of them     *)
(* arrived, in some order, and with all of them it was decoded.            *)
Arrivals(n) == {s \in SeqOf(0 .. n - 1, n) : IsInjective(s)}

Endings ==
  UNION {{[packets |-> n, arrived |-> s, decoded |-> d] : s \in Arrivals(n), d \in BOOLEAN}
           : n \in 1 .. MAX_PACKETS}

PurgedFrames == {f \in Endings : Len(f.arrived) = f.packets => f.decoded}

ReportInit == feedback_frames = <<>>

(* Decoder::purge_frame, of what it does to feedback_frames.               *)
collect_frame(f) ==
  /\ Len(feedback_frames) < MAX_WINDOW
  /\ feedback_frames' = Append(feedback_frames, f)

(* Decoder::maybe_emit_loss_report, when the timer expired.                *)
emit_loss_report == feedback_frames' = <<>>

ReportNext == (\E f \in PurgedFrames : collect_frame(f)) \/ emit_loss_report

ReportSpec == ReportInit /\ [][ReportNext]_feedback_frames

-----------------------------------------------------------------------------
(* No frame shows a loss, and none came out of order.                      *)
Spotless == \A f \in Range(feedback_frames) : InOrder(f) /\ Noticeable(f) = 0

info == loss_info(feedback_frames)
metrics == compute_loss_metrics(info)

(* pad_for_pkt_pos and LossComputer: each such loss is in the packet       *)
(* bitmap, within the part of it that belongs to its frame, and nothing    *)
(* else is when the packets of the frame arrived in order.                 *)
LossesAreMarked ==
  \A p \in DOMAIN feedback_frames :
    LET f == feedback_frames[p]
        marked == sum_bool(info.packet_losses, FramePackets(info, p))
    IN  /\ marked >= Noticeable(f)
        /\ InOrder(f) => marked = Noticeable(f)
        /\ marked > 0 => info.frame_losses[p]

(* get_bursts_and_guardspaces: the one pass over a bitmap finds the runs   *)
(* of losses and of receptions, those at its ends included, so that their  *)
(* mean lengths and the share of short guard spaces are what they say.     *)
HistogramsAreRuns ==
  \A losses \in {info.packet_losses, info.frame_losses} :
    LET found == get_bursts_and_guardspaces(losses)
        good == Runs(losses, FALSE)
    IN  /\ SameRatio(compute_mean_length(found.bursts), MeanOf(Runs(losses, TRUE)))
        /\ SameRatio(compute_mean_length(found.guardspaces), MeanOf(good))
        /\ SameRatio(compute_multi_frame_insufficient_guardspace(found.guardspaces),
                     [lost |-> Cardinality({r \in good : RunLength(r) < TAU}),
                      of |-> Max({Cardinality(good), 1})])

(* get_rfc_densities: the share of losses within the bursts of RFC 3611    *)
(* and outside of them; a single loss is no burst.                         *)
DensitiesAreRfc(losses, g_min) ==
  LET rfc == get_rfc_densities(losses, g_min)
      inside == UNION {r[1] .. r[2] : r \in RfcBursts(losses, g_min)}
  IN  /\ SameRatio(rfc.burst, RatioIn(losses, inside))
      /\ SameRatio(rfc.gap, RatioIn(losses, (DOMAIN losses) \ inside))

DensitiesMatchRfc ==
  /\ DensitiesAreRfc(info.packet_losses, G_MIN_PACKET)
  /\ DensitiesAreRfc(info.frame_losses, G_MIN_FRAME)

(* get_positions_consecutive_losses: the multi-frame bursts are the runs   *)
(* of at least MULTI_FRAME_BURST frames that each miss a packet.           *)
BurstsSpanFrames ==
  LET lossy == [p \in DOMAIN info.indices |->
                  sum_bool(info.packet_losses, FramePackets(info, p)) > 0]
      found == get_positions_consecutive_losses(info)
  IN  /\ {<<b[1], b[1] + b[2] - 1>> : b \in Range(found)}
            = {r \in Runs(lossy, TRUE) : RunLength(r) >= MULTI_FRAME_BURST}
      /\ \A j, k \in DOMAIN found : j < k => found[j][1] < found[k][1]
      /\ Len(metrics.multi_frame_losses) = Len(found)

=============================================================================
