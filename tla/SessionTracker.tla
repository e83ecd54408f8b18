--------------------------- MODULE SessionTracker ---------------------------
(***************************************************************************)
(* SessionIndexTracker of src/codec/session.rs over a stream of datagrams: *)
(* the decoder resolves the wire number of every datagram that is not a    *)
(* duplicate, also of those it then refuses, and the result is the base of *)
(* the next resolution.                                                    *)
(***************************************************************************)
EXTENDS Session

CONSTANTS
  MAX_GAP,      (* Frames the stream may jump ahead: a burst of losses.    *)
  MAX_LATE,     (* Frames a datagram may arrive late.                      *)
  MAX_SESSION   (* Bound: the last frame sent.                             *)

ASSUME TrackerAssumption ==
  /\ MAX_GAP \in Nat /\ MAX_LATE \in Nat /\ MAX_SESSION \in Nat
  /\ MAX_GAP <= HALF_FRAME_SPACE

VARIABLES
  last_session,   (* SessionIndexTracker                                   *)
  arrived,        (* History: the frame of the last datagram.              *)
  newest          (* History: the newest frame of any datagram.            *)

tracker_vars == <<last_session, arrived, newest>>

TrackerInit ==
  /\ last_session = NoSession /\ arrived = NoSession /\ newest = NoSession

(* A datagram of this frame arrives.  The first one is of the first lap.   *)
Arrive(frame) ==
  /\ last_session' = resolve_wire(last_session, wire_frame_num(frame))
  /\ arrived' = frame
  /\ newest' = IF frame > newest THEN frame ELSE newest

First == /\ newest = NoSession
         /\ \E frame \in 0 .. MAX_FRAME_NUM : Arrive(frame)

Later == /\ newest # NoSession
         /\ \E frame \in 0 .. MAX_SESSION :
              /\ frame - newest <= MAX_GAP
              /\ newest - frame <= MAX_LATE
              /\ Arrive(frame)

TrackerNext == First \/ Later

TrackerSpec == TrackerInit /\ [][TrackerNext]_tracker_vars

-----------------------------------------------------------------------------
TrackerTypeOK ==
  /\ last_session \in Nat \cup {NoSession}
  /\ arrived \in Nat \cup {NoSession} /\ newest \in Nat \cup {NoSession}

(* Frames that arrive in order, with gaps of up to half the wire space,    *)
(* are given their own session index through every wrap (session.rs 42-63).*)
TrackerFollows == last_session = arrived

(* resolve_wire: of the sessions with this wire number it is the closest   *)
(* to the last one seen, which the comment on SessionIndexTracker says.    *)
Distance(a, b) == IF a > b THEN a - b ELSE b - a

ResolvesClosest ==
  [][last_session # NoSession =>
       \A lap \in {-1, 1} :
         LET other == last_session' + lap * FRAME_SPACE
         IN  other >= 0 =>
               Distance(last_session', last_session) <= Distance(other, last_session)]_tracker_vars

=============================================================================
