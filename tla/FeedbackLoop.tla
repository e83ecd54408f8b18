---------------------------- MODULE FeedbackLoop ----------------------------
(***************************************************************************)
(* The loop that adapts the redundancy: the receiver reports the losses of *)
(* the frames it purged (src/codec/decoder.rs), FeedbackManager and a      *)
(* BandwidthPredictor choose a level (src/predictor.rs), its wire byte     *)
(* (src/feedback.rs) travels back over a channel that loses and reorders,  *)
(* and the sender applies it (src/codec/encoder.rs).                       *)
(***************************************************************************)
EXTENDS LossReport, BagsExt

CONSTANTS
  FrameEndings,          (* The ways the frames of this stream end.        *)
  high_redundancy_byte, redundancy_step_factor, feedback_history_len,
  MAX_IN_FLIGHT          (* Bound: the feedback datagrams on their way.    *)

ASSUME LoopAssumption ==
  /\ high_redundancy_byte \in 0 .. 255 /\ redundancy_step_factor \in 1 .. 255
  /\ feedback_history_len \in Nat \ {0}
  /\ MAX_IN_FLIGHT \in Nat \ {0} /\ FrameEndings \subseteq PurgedFrames

Feedback == {"None", "High", "Low"}
Predictors == {"HighBandwidthPredictor", "LowBandwidthPredictor"}

VARIABLES
  weather,           (* Environment: "mixed", and then for good "calm",    *)
                     (* no packet is lost, or "stormy", each frame is      *)
                     (* noticed to lose some.                              *)
  predictor, manager_feedback, history,   (* FeedbackManager               *)
  in_flight,         (* The bag of feedback bytes on their way.            *)
  encoder_feedback,  (* Encoder::current_feedback                          *)
  recommended        (* History: the levels recommended so far.            *)

vars == <<weather, feedback_frames, predictor, manager_feedback, history, in_flight,
          encoder_feedback, recommended>>
manager_vars == <<predictor, manager_feedback, history, recommended>>

-----------------------------------------------------------------------------
(* FeedbackCodec                                                           *)

low_redundancy_byte ==
  IF high_redundancy_byte * redundancy_step_factor <= 255
  THEN high_redundancy_byte * redundancy_step_factor ELSE 255

encode(feedback) ==
  CASE feedback = "None" -> 0
    [] feedback = "High" -> high_redundancy_byte
    [] feedback = "Low" -> low_redundancy_byte

Bytes == {encode(f) : f \in Feedback}

(* build accepts a high byte of 0 or 255 and a factor of 1, with which two *)
(* levels have the same byte and decode knows only the first of them.      *)
BytesDiffer == \A f, g \in Feedback : encode(f) = encode(g) => f = g

(* Mutant: every byte but 0 is taken for High.                             *)
DecodeNonZero(byte) == IF byte = 0 THEN {"None"} ELSE {"High"}

(* Mutant: only the high byte is known.                                    *)
DecodeHighOnly(byte) ==
  IF byte = 0 THEN {"None"} ELSE IF byte = high_redundancy_byte THEN {"High"} ELSE {}

(* The level, or nothing for an unknown byte.                              *)
decode(byte) ==
  IF byte = 0 THEN {"None"}
  ELSE IF byte = high_redundancy_byte THEN {"High"}
  ELSE IF byte = low_redundancy_byte THEN {"Low"} ELSE {}

-----------------------------------------------------------------------------
(* The predictors and FeedbackManager::handle_report.  A report is what a  *)
(* predictor asks of it: the byte of the level in force, whether packets   *)
(* were lost, whether guard space was short.                               *)

(* Mutant: a loss alone does not count, short guard space does.            *)
RecommendByGuardspace(who, report) ==
  IF report.short THEN "High" ELSE "None"

recommend(who, report) ==
  IF ~ report.lost THEN "None"
  ELSE IF who = "HighBandwidthPredictor" \/ report.short THEN "High" ELSE "Low"

(* Decoder::build_loss_report, as the set of all [frames, report].         *)
build_loss_report ==
  {LET measured == compute_loss_metrics(loss_info(frames))
   IN  [frames |-> frames,
        report |-> [redundancy_wire_byte |-> 0,
                    lost |-> measured.loss_fraction.lost > 0,
                    short |-> measured.multi_frame_insufficient_guardspace.lost > 0]]
     : frames \in BoundedSeq(FrameEndings, MAX_WINDOW)}

Remembered(report) ==
  IF Len(history) >= feedback_history_len THEN Append(Tail(history), report)
  ELSE Append(history, report)

(* Mutant: the wire byte of the new level is put into the report.          *)
HandleInjectingNew(report) ==
  LET level == recommend(predictor, report)
  IN  /\ history' = Remembered([report EXCEPT !.redundancy_wire_byte = encode(level)])
      /\ manager_feedback' = level
      /\ recommended' = recommended \cup {level}

handle_report(report) ==
  LET level == recommend(predictor, report)
  IN  /\ history' = Remembered([report EXCEPT !.redundancy_wire_byte = encode(manager_feedback)])
      /\ manager_feedback' = level
      /\ recommended' = recommended \cup {level}

-----------------------------------------------------------------------------
Init ==
  /\ weather = "mixed"
  /\ ReportInit
  /\ predictor \in Predictors
  /\ manager_feedback = "None" /\ history = <<>>
  /\ in_flight = EmptyBag
  /\ encoder_feedback = "None"
  /\ recommended = {}

Complete(f) == Len(f.arrived) = f.packets

purge_frame(f) ==
  /\ weather = "calm" => Complete(f) /\ InOrder(f)
  /\ weather = "stormy" => Noticeable(f) > 0
  /\ collect_frame(f)
  /\ UNCHANGED <<weather, manager_vars, in_flight, encoder_feedback>>

(* Mutant: the frames of a report are kept for the next.                   *)
FramesKept == feedback_frames

FramesAfterReport == <<>>

(* The timer expired: maybe_emit_loss_report, handle_report, and the level *)
(* is sent.  `kept` says that the channel does not lose it.  In a storm    *)
(* some frame leaves the window in every interval.                         *)
Report(kept) ==
  /\ weather = "stormy" => feedback_frames # <<>>
  /\ feedback_frames' = FramesAfterReport
  /\ \E built \in build_loss_report :
       built.frames = feedback_frames /\ handle_report(built.report)
  /\ kept => BagCardinality(in_flight) < MAX_IN_FLIGHT
  /\ in_flight' = IF kept THEN BagAdd(in_flight, encode(manager_feedback')) ELSE in_flight
  /\ UNCHANGED <<weather, predictor, encoder_feedback>>

(* Encoder::apply_feedback, of any datagram on its way.                    *)
apply_feedback(byte) ==
  /\ BagIn(byte, in_flight)
  /\ in_flight' = BagRemove(in_flight, byte)
  /\ encoder_feedback' = IF decode(byte) = {} THEN encoder_feedback
                         ELSE CHOOSE level \in decode(byte) : TRUE
  /\ UNCHANGED <<weather, feedback_frames, manager_vars>>

WeatherSettles ==
  /\ weather = "mixed"
  /\ weather' \in {"calm", "stormy"}
  /\ UNCHANGED <<feedback_frames, manager_vars, in_flight, encoder_feedback>>

Next ==
  \/ \E f \in FrameEndings : purge_frame(f)
  \/ \E kept \in BOOLEAN : Report(kept)
  \/ \E byte \in Bytes : apply_feedback(byte)
  \/ WeatherSettles

Spec == Init /\ [][Next]_vars

(* Frames come and the timer expires; not every feedback datagram is lost, *)
(* and one that is on its way is not held back for ever.                   *)
Fairness ==
  /\ WF_vars(\E f \in FrameEndings : purge_frame(f))
  /\ SF_vars(Report(TRUE))
  /\ SF_vars(\E byte \in Bytes : apply_feedback(byte))

FairSpec == Spec /\ Fairness

-----------------------------------------------------------------------------
(* The level that the sender uses has the byte of one that the predictor   *)
(* recommended, whatever bytes are lost or overtake each other; it is that *)
(* level, unless the configuration gives two levels one byte.              *)
LevelWasRecommended ==
  /\ encode(encoder_feedback) \in {encode(level) : level \in recommended \cup {"None"}}
  /\ BytesDiffer => encoder_feedback \in recommended \cup {"None"}

(* handle_report: the history a predictor learns from is a chain, each     *)
(* report carries the byte of the level the report before it led to, the   *)
(* level now in force is what the last one led to, and the history stays   *)
(* in its limit.                                                           *)
HistoryIsChain ==
  /\ Len(history) <= feedback_history_len
  /\ \A k \in 1 .. Len(history) - 1 :
       history[k + 1].redundancy_wire_byte = encode(recommend(predictor, history[k]))
  /\ history # <<>> => manager_feedback = recommend(predictor, Last(history))

Reports == \E kept \in BOOLEAN : Report(kept)

(* A report raises the redundancy if and only if the receiver could notice *)
(* a loss in the frames purged since the one before, or took packets that  *)
(* came out of order for a loss.                                           *)
NoticedLossRaises ==
  [][Reports => (manager_feedback' = "None" <=> Spotless)]_vars

(* When the losses are over the sender comes back to no redundancy, and    *)
(* late feedback from before does not raise it again for good.             *)
CalmsDown == <>(weather = "calm") => <>[](encoder_feedback = "None")

(* While losses go on, and the receiver notices them, the sender raises    *)
(* its redundancy and keeps it up, although feedback is lost: with a high  *)
(* byte other than 0, which stands for no redundancy.                      *)
ReactsToLoss == <>(weather = "stormy") => <>[](encoder_feedback # "None")

=============================================================================
