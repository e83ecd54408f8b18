--------------------------- MODULE MCFeedbackLoop ---------------------------
(* Model values for FeedbackLoop: a frame that arrived, one that was lost, *)
(* one whose last packet was lost, and one whose packets arrived in the    *)
(* wrong order.                                                            *)
EXTENDS FeedbackLoop

Arrived == [packets |-> 1, arrived |-> <<0>>, decoded |-> TRUE]
Lost == [packets |-> 1, arrived |-> <<>>, decoded |-> FALSE]
TailLost == [packets |-> 2, arrived |-> <<0>>, decoded |-> FALSE]

Swapped == [packets |-> 2, arrived |-> <<1, 0>>, decoded |-> TRUE]

Frames == {Arrived, Lost, TailLost, Swapped}

=============================================================================
