--------------------------- MODULE MCMatrixDecode ---------------------------
(* Bounds of MatrixDecode: tau = 1, four data and two parity stripes a     *)
(* frame, and losses within the two newest frames.                         *)
EXTENDS MatrixDecode

(* Every combination of these losses and arrivals on the plainest machine, *)
(* at a timeslot where the newest two frames have the slots 2 and 0.       *)
Patterns ==
  {[w |-> 8, simd |-> FALSE, clmul |-> FALSE, timeslot |-> 0,
    lost |-> lost, arrived |-> arrived] :
     lost \in SUBSET {1, 8, 11}, arrived \in SUBSET {0, 1, 4, 5}}

(* One loss in each of the newest two frames, on every kind of machine, in *)
(* every alignment of the window.                                          *)
Newest(timeslot) == {4 * ((timeslot + p) % 3) + p : p \in {2, 3}}

Machines ==
  {[w |-> w, simd |-> simd, clmul |-> clmul, timeslot |-> timeslot,
    lost |-> Newest(timeslot), arrived |-> 0 .. 5] :
     w \in {8, 32}, simd \in BOOLEAN, clmul \in BOOLEAN, timeslot \in 0 .. 2}

(* Two losses in each of them.                                             *)
Heavy ==
  [w |-> 32, simd |-> FALSE, clmul |-> TRUE, timeslot |-> 0,
   lost |-> {0, 3, 8, 11}, arrived |-> 0 .. 5]

MCSetups == Patterns \cup Machines \cup {Heavy}
=============================================================================
