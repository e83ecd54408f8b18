----------------------------- MODULE MCDecoder -----------------------------
(* Model values for Decoder, and a stream in which one frame is larger.    *)
EXTENDS Decoder

SmallAndLarge == {[data |-> 1, parity |-> 1], [data |-> 2, parity |-> 1]}
LargeShape == {[data |-> 2, parity |-> 1]}

(* Only the second frame is large: the others leave a column of the code   *)
(* empty, which is known to be zero only once their size is known.         *)
SecondIsLarge == \A d \in sent' : d.size = IF d.frame = FIRST_FRAME + 1 THEN 2 ELSE 1

SizedSpec == Init /\ [][Next /\ SecondIsLarge]_vars

=============================================================================
