---------------------------- MODULE LossMetrics ----------------------------
(***************************************************************************)
(* The loss report: src/loss/computer.rs flattens the purged frames into   *)
(* bitmaps, src/loss/metrics/ measures the bitmaps.  Positions count from  *)
(* 1 here and from 0 in the code; a ratio is a record [lost, of].          *)
(***************************************************************************)
EXTENDS Integers, SequencesExt

CONSTANTS
  G_MIN_PACKET,        (* Receptions that end a burst of packets.          *)
  G_MIN_FRAME,         (* Receptions that end a burst of frames.           *)
  MULTI_FRAME_BURST,   (* Frames that make a multi-frame burst.            *)
  TAU                  (* The least guard space between frame bursts.      *)

ASSUME MetricsAssumption ==
  /\ G_MIN_PACKET \in Nat \ {0} /\ G_MIN_FRAME \in Nat \ {0}
  /\ MULTI_FRAME_BURST \in Nat \ {0} /\ TAU \in Nat \ {0}

-----------------------------------------------------------------------------
(* A frame that was purged: the packets sent for it, the positions of      *)
(* those that arrived, in order of arrival, and whether it was decoded.    *)

Marks(n) == [k \in 1 .. Max({n, 0}) |-> TRUE]

(* Mutant: pad_for_pkt_pos marks the position of the packet itself.        *)
MissingPaddedTooFar(arrived) ==
  LET missing[k \in 0 .. Len(arrived)] ==
        IF k = 0 THEN <<>>
        ELSE Append(missing[k - 1] \o Marks(arrived[k] + 1 - Len(missing[k - 1])), FALSE)
  IN  missing[Len(arrived)]

(* ReceiveFrame::add_pkt for each arrival: pad_for_pkt_pos marks as        *)
(* missing what comes before, up to the packet's position, and the packet  *)
(* is pushed behind.  No mark is ever taken back.                          *)
is_missing(arrived) ==
  LET missing[k \in 0 .. Len(arrived)] ==
        IF k = 0 THEN <<>>
        ELSE Append(missing[k - 1] \o Marks(arrived[k] - Len(missing[k - 1])), FALSE)
  IN  missing[Len(arrived)]

(* LossComputer with pre_fec set.  A frame without packets is a placeholder *)
(* and counts as one lost packet.                                          *)
has_pkts(f) == f.arrived # <<>>
packet_losses(f) == IF has_pkts(f) THEN is_missing(f.arrived) ELSE <<TRUE>>
frame_loss(f) == ~ f.decoded \/ \E k \in DOMAIN packet_losses(f) : packet_losses(f)[k]

loss_info(frames) ==
  LET starts[k \in 0 .. Len(frames)] ==
        IF k = 0 THEN 1 ELSE starts[k - 1] + Len(packet_losses(frames[k]))
  IN  [indices |-> [k \in DOMAIN frames |-> starts[k - 1]],
       packet_losses |-> FlattenSeq([k \in DOMAIN frames |-> packet_losses(frames[k])]),
       frame_losses |-> [k \in DOMAIN frames |-> frame_loss(frames[k])]]

-----------------------------------------------------------------------------
(* burst.rs                                                                *)

sum_bool(losses, positions) == Cardinality({k \in positions : losses[k]})

(* *histogram.entry(len).or_insert(0) += 1                                 *)
Counted(histogram, len) == histogram (+) SetToBag({len})

(* One turn of the loop of get_bursts_and_guardspaces.  s.bursts and       *)
(* s.guardspaces are histograms of lengths.                                *)
ScanLoss(s, loss, i) ==
  LET ends == s.curr_burst /\ ~ loss
      starts == ~ s.curr_burst /\ loss
  IN  [curr_burst |-> loss,
       start |-> IF starts THEN i ELSE s.start,
       buffer_start |-> IF ends THEN i ELSE s.buffer_start,
       bursts |-> IF ends THEN Counted(s.bursts, i - s.start) ELSE s.bursts,
       guardspaces |-> IF starts /\ i > s.buffer_start
                       THEN Counted(s.guardspaces, i - s.buffer_start) ELSE s.guardspaces]

Scanned(losses) ==
  LET scan[i \in 0 .. Len(losses)] ==
        IF i = 0 THEN [curr_burst |-> FALSE, start |-> 1, buffer_start |-> 1,
                       bursts |-> EmptyBag, guardspaces |-> EmptyBag]
        ELSE ScanLoss(scan[i - 1], losses[i], i)
  IN  scan[Len(losses)]

(* Mutant: what the bitmap ends with is not counted.                       *)
WithoutLast(losses) ==
  [bursts |-> Scanned(losses).bursts, guardspaces |-> Scanned(losses).guardspaces]

get_bursts_and_guardspaces(losses) ==
  LET s == Scanned(losses)
      end == Len(losses) + 1
  IN  CASE losses = <<>> -> [bursts |-> EmptyBag, guardspaces |-> EmptyBag]
        [] losses # <<>> /\ s.curr_burst ->
             [bursts |-> Counted(s.bursts, end - s.start), guardspaces |-> s.guardspaces]
        [] losses # <<>> /\ ~ s.curr_burst ->
             [bursts |-> s.bursts, guardspaces |-> Counted(s.guardspaces, end - s.buffer_start)]

(* Mutant: one reception too many may be within a burst.                   *)
BurstEndTooFar(losses, g_min, i) ==
  Min({j \in i .. Len(losses) + 1 :
         sum_bool(losses, j .. Min({j + g_min, Len(losses)})) = 0}) - 1

(* Where the burst that begins at i ends: before the first g_min           *)
(* positions in a row without a loss.                                      *)
BurstEnd(losses, g_min, i) ==
  Min({j \in i .. Len(losses) + 1 :
         sum_bool(losses, j .. Min({j + g_min - 1, Len(losses)})) = 0}) - 1

get_burst_indices(losses, g_min) ==
  LET from[i \in 1 .. Len(losses) + 1] ==
        IF i > Len(losses) THEN <<>>
        ELSE IF ~ losses[i] THEN from[i + 1]
        ELSE <<<<i, BurstEnd(losses, g_min, i)>>>> \o from[BurstEnd(losses, g_min, i) + 1]
  IN  from[1]

eliminate_singleton_bursts(bursts) ==
  LET kept[k \in 0 .. Len(bursts)] ==
        IF k = 0 THEN <<>>
        ELSE IF bursts[k][2] > bursts[k][1] THEN Append(kept[k - 1], bursts[k])
        ELSE kept[k - 1]
  IN  kept[Len(bursts)]

-----------------------------------------------------------------------------
(* gap.rs                                                                  *)

density_over_ranges(losses, ranges) ==
  LET covered == UNION {r[1] .. r[2] : r \in Range(ranges)}
  IN  [lost |-> sum_bool(losses, covered), of |-> Max({Cardinality(covered), 1})]

guardspace_ranges(bursts, length) ==
  LET before == IF bursts[1][1] > 1 THEN <<<<1, bursts[1][1] - 1>>>> ELSE <<>>
      between == [k \in 1 .. Len(bursts) - 1 |-> <<bursts[k][2] + 1, bursts[k + 1][1] - 1>>]
      after == IF Last(bursts)[2] < length THEN <<<<Last(bursts)[2] + 1, length>>>> ELSE <<>>
  IN  before \o between \o after

get_rfc_densities(losses, g_min) ==
  LET bursts == eliminate_singleton_bursts(get_burst_indices(losses, g_min))
      lost == sum_bool(losses, DOMAIN losses)
      None == [lost |-> 0, of |-> 1]
  IN  CASE lost = 0 -> [burst |-> None, gap |-> None]
        [] lost > 0 /\ bursts = <<>> ->
             [burst |-> None, gap |-> [lost |-> lost, of |-> Max({Len(losses), 1})]]
        [] lost > 0 /\ bursts # <<>> ->
             [burst |-> density_over_ranges(losses, bursts),
              gap |-> density_over_ranges(losses, guardspace_ranges(bursts, Len(losses)))]

-----------------------------------------------------------------------------
(* multi_frame.rs                                                          *)

FramePackets(info, p) ==
  info.indices[p] .. (IF p < Len(info.indices) THEN info.indices[p + 1] - 1
                      ELSE Len(info.packet_losses))

(* The number of frames with a loss, one after the other, from frame p on. *)
consecutive_burst_info(info, p) ==
  LET run[q \in 1 .. Len(info.indices) + 1] ==
        IF q > Len(info.indices) \/ sum_bool(info.packet_losses, FramePackets(info, q)) = 0
        THEN 0 ELSE 1 + run[q + 1]
  IN  run[p]

(* Mutant: the last frames of the window are left out.                     *)
PositionsButLast(info) ==
  LET from[p \in 1 .. Len(info.indices) + 1] ==
        IF p + MULTI_FRAME_BURST > Len(info.indices) THEN <<>>
        ELSE IF consecutive_burst_info(info, p) >= MULTI_FRAME_BURST
        THEN <<<<p, consecutive_burst_info(info, p)>>>> \o from[p + consecutive_burst_info(info, p)]
        ELSE from[p + 1]
  IN  from[1]

(* The multi-frame bursts: <<first frame, frames>>.                        *)
get_positions_consecutive_losses(info) ==
  LET from[p \in 1 .. Len(info.indices) + 1] ==
        IF p + MULTI_FRAME_BURST - 1 > Len(info.indices) THEN <<>>
        ELSE IF consecutive_burst_info(info, p) >= MULTI_FRAME_BURST
        THEN <<<<p, consecutive_burst_info(info, p)>>>> \o from[p + consecutive_burst_info(info, p)]
        ELSE from[p + 1]
  IN  from[1]

(* What compute_multi_frame_loss_fraction averages, burst by burst.        *)
multi_frame_losses(info) ==
  LET Fraction(b) ==
        LET packets == UNION {FramePackets(info, q) : q \in b[1] .. b[1] + b[2] - 1}
        IN  [lost |-> sum_bool(info.packet_losses, packets), of |-> Cardinality(packets)]
  IN  [k \in DOMAIN get_positions_consecutive_losses(info) |->
         Fraction(get_positions_consecutive_losses(info)[k])]

-----------------------------------------------------------------------------
(* mod.rs                                                                  *)

compute_mean_length(histogram) ==
  [lost |-> SumFunction([len \in DOMAIN histogram |-> len * histogram[len]]),
   of |-> Max({SumFunction(histogram), 1})]

compute_loss_fraction(losses) ==
  [lost |-> sum_bool(losses, DOMAIN losses), of |-> Max({Len(losses), 1})]

compute_multi_frame_insufficient_guardspace(guardspaces) ==
  [lost |-> SumFunctionOnSet(guardspaces, {len \in DOMAIN guardspaces : len < TAU}),
   of |-> Max({SumFunction(guardspaces), 1})]

compute_loss_metrics(info) ==
  LET packets == get_bursts_and_guardspaces(info.packet_losses)
      frames == get_bursts_and_guardspaces(info.frame_losses)
  IN  [packet_rfc |-> get_rfc_densities(info.packet_losses, G_MIN_PACKET),
       frame_rfc |-> get_rfc_densities(info.frame_losses, G_MIN_FRAME),
       mean_burst_length |-> compute_mean_length(packets.bursts),
       mean_frame_burst_length |-> compute_mean_length(frames.bursts),
       loss_fraction |-> compute_loss_fraction(info.packet_losses),
       frame_loss_fraction |-> compute_loss_fraction(info.frame_losses),
       multi_frame_losses |-> multi_frame_losses(info),
       mean_guardspace_length |-> compute_mean_length(packets.guardspaces),
       mean_frame_guardspace_length |-> compute_mean_length(frames.guardspaces),
       multi_frame_insufficient_guardspace |->
         compute_multi_frame_insufficient_guardspace(frames.guardspaces)]

-----------------------------------------------------------------------------
(* What the report is meant to say, without loops.                         *)

InOrder(f) == \A j, k \in DOMAIN f.arrived : j < k => f.arrived[j] < f.arrived[k]

(* The losses a receiver can tell from what arrived: a packet with a later *)
(* one of the same frame, or the whole frame.                              *)
Noticeable(f) ==
  IF f.arrived = <<>> THEN 1
  ELSE Cardinality((0 .. Max(Range(f.arrived))) \ Range(f.arrived))

Runs(losses, lost) ==
  {r \in (DOMAIN losses) \X (DOMAIN losses) :
     /\ r[1] <= r[2]
     /\ \A k \in r[1] .. r[2] : losses[k] = lost
     /\ r[1] = 1 \/ losses[r[1] - 1] # lost
     /\ r[2] = Len(losses) \/ losses[r[2] + 1] # lost}

RunLength(r) == r[2] - r[1] + 1

(* RFC 3611: a burst starts and ends with a loss, holds fewer than g_min   *)
(* receptions in a row, and is as long as can be.                          *)
RfcBursts(losses, g_min) ==
  LET lost == {k \in DOMAIN losses : losses[k]}
      Near(a, b) == \A k \in lost : k \in a .. b - 1 => \E n \in lost : n \in k + 1 .. k + g_min
  IN  {r \in lost \X lost :
         /\ r[1] < r[2]
         /\ Near(r[1], r[2])
         /\ ~ \E k \in lost : k \in r[1] - g_min .. r[1] - 1
         /\ ~ \E k \in lost : k \in r[2] + 1 .. r[2] + g_min}

SameRatio(x, y) == x.lost * y.of = y.lost * x.of

RatioIn(losses, positions) ==
  [lost |-> sum_bool(losses, positions), of |-> Max({Cardinality(positions), 1})]

MeanOf(runs) ==
  [lost |-> SumFunction([r \in runs |-> RunLength(r)]), of |-> Max({Cardinality(runs), 1})]

=============================================================================
