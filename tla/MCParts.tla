------------------------------ MODULE MCParts ------------------------------
(***************************************************************************)
(* Four parts that keep their own state and are each checked alone:        *)
(* SessionTracker, SeqFilter, Packetization and LossReport.  A behaviour   *)
(* is one of the part that Init chooses; the others stay as they start.    *)
(***************************************************************************)
EXTENDS SessionTracker, SeqFilter, Packetization, LossReport

VARIABLE part   \* The part that moves.

Parts == {"tracker", "filter", "plan", "report"}

vars == <<part, tracker_vars, filter_vars, plan_vars, feedback_frames>>

Init ==
  /\ part \in Parts
  /\ TrackerInit /\ FilterInit /\ PlanInit /\ ReportInit
  /\ part # "plan" => min_window_parity = 0 /\ delayed_parity = <<>>

Next ==
  \/ /\ part = "tracker" /\ TrackerNext
     /\ UNCHANGED <<part, filter_vars, plan_vars, feedback_frames>>
  \/ /\ part = "filter" /\ FilterNext
     /\ UNCHANGED <<part, tracker_vars, plan_vars, feedback_frames>>
  \/ /\ part = "plan" /\ PlanNext
     /\ UNCHANGED <<part, tracker_vars, filter_vars, feedback_frames>>
  \/ /\ part = "report" /\ ReportNext
     /\ UNCHANGED <<part, tracker_vars, filter_vars, plan_vars>>

Spec == Init /\ [][Next]_vars

=============================================================================
