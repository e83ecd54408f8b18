------------------------ MODULE FeedbackLoop_proofs ------------------------
(***************************************************************************)
(* Whatever bytes the channel loses, holds back or reorders, the sender    *)
(* uses no level the receiver's predictor did not recommend; and the       *)
(* predictor recommends what the losses in the report ask for.             *)
(***************************************************************************)
EXTENDS LossReport_proofs, FeedbackLoop

(* FeedbackCodec: a byte is decoded to a level that has it, for every high *)
(* byte and step factor.                                                   *)
LEMMA CodecKeepsByte ==
  ASSUME NEW level \in Feedback
  PROVE  \E heard \in Feedback :
           decode(encode(level)) = {heard} /\ encode(heard) = encode(level)
<1>1. {"None", "High", "Low"} = Feedback
  BY DEF Feedback
<1>2. encode("None") = 0 /\ encode("High") = high_redundancy_byte
      /\ encode("Low") = low_redundancy_byte
  BY DEF encode
<1>3. CASE encode(level) = 0
  BY <1>1, <1>2, <1>3 DEF decode
<1>4. CASE encode(level) # 0 /\ encode(level) = high_redundancy_byte
  BY <1>1, <1>2, <1>4 DEF decode
<1>5. CASE encode(level) # 0 /\ encode(level) # high_redundancy_byte
  <2>1. encode(level) = low_redundancy_byte
    BY <1>1, <1>2, <1>5
  <2> QED
    BY <1>1, <1>2, <1>5, <2>1 DEF decode
<1> QED
  BY <1>3, <1>4, <1>5

(* FeedbackCodec: the three bytes differ for a high byte that is neither 0 *)
(* nor 255 and a factor above 1, as by default.                            *)
THEOREM BytesUsuallyDiffer ==
  high_redundancy_byte \in 1 .. 254 /\ redundancy_step_factor > 1 => BytesDiffer
<1> SUFFICES ASSUME high_redundancy_byte \in 1 .. 254, redundancy_step_factor > 1
             PROVE  BytesDiffer
  OBVIOUS
<1>1. redundancy_step_factor \in Nat /\ redundancy_step_factor >= 2
  BY LoopAssumption
<1>2. high_redundancy_byte * redundancy_step_factor >= high_redundancy_byte * 2
  BY <1>1
<1>3. low_redundancy_byte \in Int /\ low_redundancy_byte > high_redundancy_byte
  BY <1>1, <1>2 DEF low_redundancy_byte
<1>4. /\ high_redundancy_byte # 0 /\ low_redundancy_byte # 0
      /\ low_redundancy_byte # high_redundancy_byte
  BY <1>3
<1> QED
  BY <1>4 DEF BytesDiffer, Feedback, encode

(* The inductive invariant: also the bytes on their way are of levels that *)
(* were recommended.                                                       *)
Advertised ==
  /\ recommended \subseteq Feedback /\ encoder_feedback \in Feedback
  /\ DOMAIN in_flight \subseteq {encode(level) : level \in recommended}
  /\ encode(encoder_feedback) \in {encode(level) : level \in recommended \cup {"None"}}

LEMMA RecommendedLevel ==
  ASSUME NEW who, NEW report
  PROVE  recommend(who, report) \in Feedback
BY DEF recommend, Feedback

LEMMA InitAdvertised == Init => Advertised
BY DEF Init, Advertised, EmptyBag, SetToBag, Feedback

(* A report adds at most the byte of a level it recommends.                *)
LEMMA ReportAdvertises ==
  ASSUME Advertised, NEW kept \in BOOLEAN, Report(kept)
  PROVE  Advertised'
<1>1. PICK report : handle_report(report)
  BY DEF Report
<1>2. /\ recommended' = recommended \cup {manager_feedback'}
      /\ manager_feedback' \in Feedback
  BY <1>1, RecommendedLevel DEF handle_report
<1>3. DOMAIN in_flight' \subseteq DOMAIN in_flight \cup {encode(manager_feedback')}
  BY DEF Report, BagAdd
<1>4. encoder_feedback' = encoder_feedback
  BY DEF Report
<1>5. QED
  BY <1>2, <1>3, <1>4 DEF Advertised

(* A byte that arrives is of a recommended level, and decodes to one that  *)
(* has it.                                                                 *)
LEMMA ApplyAdvertises ==
  ASSUME Advertised, NEW byte \in Bytes, apply_feedback(byte)
  PROVE  Advertised'
<1>1. byte \in DOMAIN in_flight
  BY DEF apply_feedback, BagIn, BagToSet
<1>2. PICK level \in recommended : byte = encode(level)
  BY <1>1 DEF Advertised
<1>3. PICK heard \in Feedback : decode(byte) = {heard} /\ encode(heard) = byte
  BY <1>2, CodecKeepsByte DEF Advertised
<1>4. encoder_feedback' = heard
  BY <1>3 DEF apply_feedback
<1>5. DOMAIN in_flight' \subseteq DOMAIN in_flight
  BY DEF apply_feedback, BagRemove
<1>6. recommended' = recommended
  BY DEF apply_feedback, manager_vars
<1>7. QED
  BY <1>2, <1>3, <1>4, <1>5, <1>6 DEF Advertised

(* THEOREM.  FeedbackManager::handle_report, FeedbackCodec and             *)
(* Encoder::apply_feedback: the level of the sender has the byte of one    *)
(* that was recommended, for every high byte and step factor that build    *)
(* accepts, every predictor history and every channel; where the three     *)
(* bytes differ (BytesUsuallyDiffer) it is that level.                     *)
THEOREM LevelWasRecommendedAlways == Spec => []LevelWasRecommended
<1>1. Init => Advertised
  BY InitAdvertised
<1>2. Advertised /\ [Next]_vars => Advertised'
  <2> SUFFICES ASSUME Advertised, [Next]_vars PROVE Advertised'
    OBVIOUS
  <2>1. CASE \E f \in FrameEndings : purge_frame(f)
    BY <2>1 DEF purge_frame, manager_vars, Advertised
  <2>2. CASE \E kept \in BOOLEAN : Report(kept)
    BY <2>2, ReportAdvertises
  <2>3. CASE \E byte \in Bytes : apply_feedback(byte)
    BY <2>3, ApplyAdvertises
  <2>4. CASE WeatherSettles
    BY <2>4 DEF WeatherSettles, manager_vars, Advertised
  <2>5. CASE UNCHANGED vars
    BY <2>5 DEF vars, Advertised
  <2>6. QED
    BY <2>1, <2>2, <2>3, <2>4, <2>5 DEF Next
<1>3. Advertised => LevelWasRecommended
  <2> SUFFICES ASSUME Advertised PROVE LevelWasRecommended
    OBVIOUS
  <2>1. PICK level \in recommended \cup {"None"} : encode(encoder_feedback) = encode(level)
    BY DEF Advertised
  <2>2. level \in Feedback /\ encoder_feedback \in Feedback
    BY <2>1 DEF Advertised, Feedback
  <2>3. BytesDiffer => encoder_feedback = level
    BY <2>1, <2>2 DEF BytesDiffer
  <2> QED
    BY <2>1, <2>3 DEF LevelWasRecommended
<1>4. QED
  BY <1>1, <1>2, <1>3, PTL DEF Spec

-----------------------------------------------------------------------------
(* What a predictor is given and what it remembers.                        *)
ReportType == [redundancy_wire_byte : Bytes, lost : BOOLEAN, short : BOOLEAN]

(* The chain is not inductive without the level whose byte will be put     *)
(* into the next report.                                                   *)
Chained ==
  /\ history \in Seq(ReportType) /\ manager_feedback \in Feedback
  /\ HistoryIsChain

(* build_loss_report leaves the byte 0, for handle_report to overwrite.    *)
LEMMA BuiltIsReport ==
  ASSUME NEW built \in build_loss_report
  PROVE  built.report \in ReportType
<1>1. PICK frames : LET m == compute_loss_metrics(loss_info(frames))
                    IN  built.report = [redundancy_wire_byte |-> 0,
                                        lost |-> m.loss_fraction.lost > 0,
                                        short |-> m.multi_frame_insufficient_guardspace.lost > 0]
  BY DEF build_loss_report
<1>2. 0 \in Bytes
  BY DEF Bytes, Feedback, encode
<1> QED
  BY <1>1, <1>2 DEF ReportType

(* A recommendation is made from the losses, not from the byte.            *)
LEMMA ByteIsNotRead ==
  ASSUME NEW report \in ReportType, NEW level \in Feedback, NEW who
  PROVE  LET marked == [report EXCEPT !.redundancy_wire_byte = encode(level)]
         IN  /\ marked \in ReportType
             /\ marked.redundancy_wire_byte = encode(level)
             /\ recommend(who, marked) = recommend(who, report)
<1> DEFINE marked == [report EXCEPT !.redundancy_wire_byte = encode(level)]
<1>1. encode(level) \in Bytes
  BY DEF Bytes
<1>2. /\ marked \in ReportType /\ marked.redundancy_wire_byte = encode(level)
      /\ marked.lost = report.lost /\ marked.short = report.short
  BY <1>1 DEF ReportType
<1> HIDE DEF marked
<1>3. recommend(who, marked) = recommend(who, report)
  BY <1>2 DEF recommend
<1> QED
  BY <1>2, <1>3 DEF marked

(* A report appended to the chain continues it, whether or not the oldest  *)
(* report has to go.                                                       *)
LEMMA ReportChains ==
  ASSUME Chained, NEW kept \in BOOLEAN, Report(kept)
  PROVE  Chained'
<1>1. PICK report \in ReportType : handle_report(report)
  BY BuiltIsReport DEF Report
<1> DEFINE marked == [report EXCEPT !.redundancy_wire_byte = encode(manager_feedback)]
           older == IF Len(history) >= feedback_history_len THEN Tail(history) ELSE history
           n == Len(older)
<1>2. /\ history \in Seq(ReportType) /\ manager_feedback \in Feedback
      /\ Len(history) \in Nat /\ Len(history) <= feedback_history_len
      /\ feedback_history_len \in Nat /\ feedback_history_len > 0
  BY LoopAssumption DEF Chained, HistoryIsChain
<1>3. /\ marked \in ReportType
      /\ marked.redundancy_wire_byte = encode(manager_feedback)
      /\ recommend(predictor, marked) = recommend(predictor, report)
  BY <1>2, ByteIsNotRead
<1>4. /\ predictor' = predictor /\ manager_feedback' = recommend(predictor, marked)
      /\ history' = Append(older, marked) /\ manager_feedback' \in Feedback
  BY <1>1, <1>3, RecommendedLevel DEF Report, handle_report, Remembered
<1> HIDE DEF marked
<1>5. /\ older \in Seq(ReportType) /\ n \in Nat /\ n < feedback_history_len
      /\ \A k \in 1 .. n - 1 :
           older[k + 1].redundancy_wire_byte = encode(recommend(predictor, older[k]))
      /\ n > 0 => manager_feedback = recommend(predictor, older[n])
  <2>1. \A k \in 1 .. Len(history) - 1 :
          history[k + 1].redundancy_wire_byte = encode(recommend(predictor, history[k]))
    BY DEF Chained, HistoryIsChain
  <2>2. ASSUME Len(history) > 0
        PROVE  manager_feedback = recommend(predictor, history[Len(history)])
    <3>1. history # <<>>
      BY <2>2
    <3> QED
      BY <3>1 DEF Chained, HistoryIsChain, Last
  <2>3. CASE ~ (Len(history) >= feedback_history_len)
    <3>1. older = history
      BY <2>3
    <3>2. n = Len(history)
      BY <3>1
    <3> HIDE DEF older, n
    <3>3. older \in Seq(ReportType) /\ n \in Nat /\ n < feedback_history_len
      BY <1>2, <2>3, <3>1, <3>2
    <3>4. \A k \in 1 .. n - 1 :
            older[k + 1].redundancy_wire_byte = encode(recommend(predictor, older[k]))
      BY <2>1, <3>1, <3>2
    <3>5. n > 0 => manager_feedback = recommend(predictor, older[n])
      BY <2>2, <3>1, <3>2
    <3> QED
      BY <3>3, <3>4, <3>5
  <2>4. CASE Len(history) >= feedback_history_len
    <3>1. /\ older = Tail(history) /\ older \in Seq(ReportType) /\ n = Len(history) - 1
          /\ \A k \in 1 .. n : older[k] = history[k + 1]
      BY <1>2, <2>4
    <3> HIDE DEF older, n
    <3>2. n \in Nat /\ n < feedback_history_len
      BY <1>2, <2>4, <3>1
    <3>3. ASSUME NEW k \in 1 .. n - 1
          PROVE  older[k + 1].redundancy_wire_byte = encode(recommend(predictor, older[k]))
      <4>1. k + 1 \in 1 .. Len(history) - 1 /\ k \in 1 .. n /\ k + 1 \in 1 .. n
        BY <1>2, <3>1, <3>2, <3>3
      <4> QED
        BY <2>1, <3>1, <4>1
    <3>4. ASSUME n > 0 PROVE manager_feedback = recommend(predictor, older[n])
      <4>1. older[n] = history[Len(history)]
        BY <1>2, <3>1, <3>2, <3>4
      <4> QED
        BY <1>2, <2>2, <2>4, <4>1
    <3> QED
      BY <3>1, <3>2, <3>3, <3>4
  <2> QED
    BY <2>3, <2>4
<1> HIDE DEF older
<1>6. /\ history' \in Seq(ReportType) /\ Len(history') = n + 1
      /\ \A k \in 1 .. n : history'[k] = older[k]
      /\ history'[n + 1] = marked
  BY <1>3, <1>4, <1>5
<1> HIDE DEF n
<1>7. ASSUME NEW k \in 1 .. Len(history') - 1
      PROVE  history'[k + 1].redundancy_wire_byte = encode(recommend(predictor', history'[k]))
  <2>1. CASE k < n
    <3>1. k \in 1 .. n - 1 /\ k \in 1 .. n /\ k + 1 \in 1 .. n
      BY <1>5, <1>6, <1>7, <2>1
    <3> QED
      BY <1>4, <1>5, <1>6, <3>1
  <2>2. CASE k = n
    BY <1>3, <1>4, <1>5, <1>6, <1>7, <2>2
  <2> QED
    BY <1>5, <1>6, <1>7, <2>1, <2>2
<1>8. Last(history') = marked /\ Len(history') <= feedback_history_len
  BY <1>2, <1>5, <1>6 DEF Last
<1> QED
  BY <1>4, <1>6, <1>7, <1>8 DEF Chained, HistoryIsChain

(* THEOREM.  FeedbackManager::handle_report: what a predictor learns from  *)
(* is a chain, for every length of the history and every predictor: each   *)
(* report carries the byte of the level its predecessor led to, the level  *)
(* in force is what the last one led to, and the oldest goes when the      *)
(* limit is met.                                                           *)
THEOREM HistoryIsChainAlways == Spec => []HistoryIsChain
<1>1. Init => Chained
  <2> SUFFICES ASSUME Init PROVE Chained
    OBVIOUS
  <2>1. history = <<>> /\ manager_feedback = "None" /\ feedback_history_len \in Nat
    BY LoopAssumption DEF Init
  <2> QED
    BY <2>1 DEF Chained, HistoryIsChain, Feedback
<1>2. Chained /\ [Next]_vars => Chained'
  <2> SUFFICES ASSUME Chained, [Next]_vars PROVE Chained'
    OBVIOUS
  <2>1. CASE \E kept \in BOOLEAN : Report(kept)
    BY <2>1, ReportChains
  <2>2. CASE UNCHANGED manager_vars
    BY <2>2 DEF manager_vars, Chained, HistoryIsChain
  <2> QED
    BY <2>1, <2>2
    DEF Next, purge_frame, apply_feedback, WeatherSettles, vars, manager_vars
<1>3. Chained => HistoryIsChain
  BY DEF Chained
<1> QED
  BY <1>1, <1>2, <1>3, PTL DEF Spec

-----------------------------------------------------------------------------
(* THEOREM.  The loop drives the report: each of its steps collects a      *)
(* frame, empties the list for a report, or leaves the list alone, so that *)
(* what is proved of reports holds of those the loop is fed with.          *)
THEOREM LoopDrivesReport == Spec => ReportSpec
<1>1. Init => ReportInit
  BY DEF Init
<1>2. [Next]_vars => [ReportNext]_feedback_frames
  <2> SUFFICES ASSUME [Next]_vars PROVE [ReportNext]_feedback_frames
    OBVIOUS
  <2>1. ASSUME NEW f \in FrameEndings, purge_frame(f)
        PROVE  ReportNext
    <3>1. f \in PurgedFrames /\ collect_frame(f)
      BY <2>1, LoopAssumption DEF purge_frame
    <3> QED
      BY <3>1 DEF ReportNext
  <2>2. ASSUME NEW kept \in BOOLEAN, Report(kept)
        PROVE  ReportNext
    BY <2>2 DEF Report, FramesAfterReport, emit_loss_report, ReportNext
  <2>3. ASSUME NEW byte \in Bytes, apply_feedback(byte)
        PROVE  UNCHANGED feedback_frames
    BY <2>3 DEF apply_feedback
  <2>4. CASE WeatherSettles
    BY <2>4 DEF WeatherSettles
  <2>5. CASE UNCHANGED vars
    BY <2>5 DEF vars
  <2> QED
    BY <2>1, <2>2, <2>3, <2>4, <2>5 DEF Next
<1> QED
  BY <1>1, <1>2, PTL DEF Spec, ReportSpec

(* THEOREM.  Every report the loop is fed with marks the losses, counts    *)
(* the runs, and gives the densities and the bursts that LossReport means, *)
(* for every stream, predictor and channel.                                *)
THEOREM LoopReportsAreTrue ==
  Spec => [](LossesAreMarked /\ HistogramsAreRuns /\ DensitiesMatchRfc /\ BurstsSpanFrames)
BY LoopDrivesReport, LossesAreMarkedAlways, HistogramsAreRunsAlways, DensitiesMatchRfcAlways,
   BurstsSpanFramesAlways, PTL

(* THEOREM.  Whatever the predictor, the wire bytes and the stream: a      *)
(* report recommends redundancy if and only if a frame collected since the *)
(* one before shows a loss, or came out of order, which is_missing takes   *)
(* for a loss.                                                             *)
THEOREM NoticedLossRaisesAlways == Spec => NoticedLossRaises
<1>1. ASSUME Collected, NEW kept \in BOOLEAN, Report(kept)
      PROVE  manager_feedback' = "None" <=> Spotless
  <2>1. PICK built \in build_loss_report :
              built.frames = feedback_frames /\ handle_report(built.report)
    BY <1>1 DEF Report
  <2> DEFINE measured == compute_loss_metrics(loss_info(feedback_frames))
  <2>2. built.report.lost = (measured.loss_fraction.lost > 0)
    BY <2>1 DEF build_loss_report
  <2>3. manager_feedback' = recommend(predictor, built.report)
    BY <2>1 DEF handle_report
  <2>4. manager_feedback' = "None" <=> ~ built.report.lost
    BY <2>3 DEF recommend
  <2> HIDE DEF measured
  <2>5. measured.loss_fraction.lost > 0 <=> ~ Spotless
    BY <1>1, LossIsSeen DEF measured
  <2> QED
    BY <2>2, <2>4, <2>5, Zenon
<1>2. Collected => [Reports => (manager_feedback' = "None" <=> Spotless)]_vars
  BY <1>1, Zenon DEF Reports
<1>3. Spec => []Collected
  BY CollectedAlways, LoopDrivesReport, PTL
<1> QED
  BY <1>2, <1>3, PTL DEF NoticedLossRaises

=============================================================================
