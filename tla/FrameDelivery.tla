--------------------------- MODULE FrameDelivery ---------------------------
(***************************************************************************)
(* What a receiver session promises its application, whatever the channel  *)
(* does: a frame is handed over at most once and only if it was sent; every*)
(* frame the receiver gives up on gets one verdict, in session order, that *)
(* says truly whether the frame was handed over; and a verdict is final.   *)
(***************************************************************************)
EXTENDS Integers

VARIABLES
  offered,    (* Frames the sender has encoded: sessions 0 .. offered - 1. *)
  delivered,  (* Sessions handed to the application.                       *)
  verdicts    (* [session, decoded] of the frames that were closed.        *)

vars == <<offered, delivered, verdicts>>

Closed(v) == {x.session : x \in v}

Init == offered \in Nat /\ delivered = {} /\ verdicts = {}

Offer ==
  /\ offered' = offered + 1
  /\ UNCHANGED <<delivered, verdicts>>

(* One call into the receiver: frames are closed, then others delivered.   *)
Advance ==
  /\ verdicts \subseteq verdicts'
  /\ \A x \in verdicts' \ verdicts :
       /\ x.session \in 0 .. offered - 1
       /\ x.decoded <=> x.session \in delivered
       /\ \A y \in verdicts : y.session < x.session
       /\ \A y \in verdicts' : y.session = x.session => y = x
  /\ delivered \subseteq delivered'
  /\ delivered' \ delivered \subseteq (0 .. offered - 1) \ Closed(verdicts')
  /\ UNCHANGED offered

Next == Offer \/ Advance

Spec == Init /\ [][Next]_vars

=============================================================================
