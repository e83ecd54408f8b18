--------------------------- MODULE ErasureWindow ---------------------------
(***************************************************************************)
(* The erasure bookkeeping of one BlockCode window over time: frames enter *)
(* it, data and parity stripes arrive in any order, and StreamingCode::    *)
(* decode runs after every arrival, as Decoder::try_decode makes it do.    *)
(*                                                                         *)
(* Only window patterns a receiver can get into are reached: an old frame  *)
(* that still misses stripes is one that every earlier decode left so.     *)
(***************************************************************************)
EXTENDS Recovery

CONSTANTS
  MAX_DATA,   (* Data stripes of a frame: max_data_stripes.                *)
  MAX_FEC     (* Parity stripes of a frame: max_fec_stripes.               *)

ASSUME StripesAssumption == MAX_DATA \in Nat \ {0} /\ MAX_FEC \in Nat

VARIABLES
  missing,    (* Erased data columns of each frame of the window.          *)
  received,   (* Parity rows of each frame that are not erased.            *)
  solved,     (* The positions the last decode solved.                     *)
  before      (* History: `missing` as the last decode found it.           *)

vars == <<missing, received, solved, before>>

(* Before the first frame every column is a known zero.                    *)
Init ==
  /\ missing = [p \in Window |-> 0]
  /\ received = [p \in Window |-> 0]
  /\ solved = {}
  /\ before = missing

(* StreamingCode::decode on the window (m, r).                             *)
DecodeWindow(m, r) ==
  /\ before' = m
  /\ solved' = DecodeTwice(m, r)
  /\ missing' = Solved(m, solved')
  /\ received' = r

(* update_timeslot erases the slot of the oldest frame for the next one.   *)
Slide(f, newest) == [p \in Window |-> IF p = NumFrames THEN newest ELSE f[p + 1]]

(* The first stripe of the next frame arrives, after m were lost or are    *)
(* still on their way.                                                     *)
NextFrame(m) == DecodeWindow(Slide(missing, m), Slide(received, 0))

DataArrives(p) ==
  /\ missing[p] > 0
  /\ DecodeWindow([missing EXCEPT ![p] = @ - 1], received)

(* Mutant: a row that is already there counts again.                       *)
ParityArrivesAgain(p) ==
  DecodeWindow(missing, [received EXCEPT ![p] = @ + 1])

ParityArrives(p) ==
  /\ received[p] < MAX_FEC
  /\ DecodeWindow(missing, [received EXCEPT ![p] = @ + 1])

Next ==
  \/ \E m \in 0 .. MAX_DATA : NextFrame(m)
  \/ \E p \in Window : DataArrives(p)
  \/ \E p \in Window : ParityArrives(p)

Spec == Init /\ [][Next]_vars

-----------------------------------------------------------------------------
TypeOK ==
  /\ missing \in [Window -> 0 .. MAX_DATA]
  /\ received \in [Window -> 0 .. MAX_FEC]
  /\ solved \subseteq Window
  /\ before \in [Window -> 0 .. MAX_DATA]

(***************************************************************************)
(* Reference: the frames that the received stripes determine.  A set of    *)
(* frames is determined when the parities that cover no missing frame      *)
(* outside it, and look back no further than the window, can solve it.     *)
(***************************************************************************)
MissingIn(m) == {p \in Window : m[p] > 0}

Determined(m, r) ==
  UNION {S \in SUBSET MissingIn(m) :
           Solvable([d \in Window |-> IF d \in S THEN m[d] ELSE 0],
                    [p \in Window |->
                       IF p > Delay /\ \A d \in MissingIn(m) : Covers(p, d) => d \in S
                       THEN r[p] ELSE 0])}

(* Soundness of the whole decision (theoretical.rs, flow_decode.rs): a     *)
(* frame is marked recovered only if the stripes that arrived determine    *)
(* its data, whatever was lost before and in whatever order they came.     *)
SolvedIsDetermined == solved \subseteq Determined(before, received)

(* The parities BlockCode::decode may retain cover no column that stays    *)
(* unknown: a retained row with an unsolved erased column would be used as *)
(* if that column were zero and would corrupt what it solves.              *)
RetainedCoversNoUnknown ==
  LET th == Theoretical(before, received)
  IN  \A p \in {q \in Window : ~ th.unusable[q]} :
        \A d \in Window : Covers(p, d) /\ before[d] > 0 => d \in th.recovered

(* A frame that a decode finds alone in missing data is solved by it as    *)
(* soon as the parities of the frames from it to Delay later hold enough   *)
(* stripes: neither the simulation nor the flow search gives it up.        *)
LoneLossSolved ==
  \A d \in Window :
    /\ MissingIn(before) = {d}
    /\ before[d] <= SumOver(received, {p \in Delay + 1 .. NumFrames : Covers(p, d)})
    => d \in solved

(* streaming/mod.rs 276: decode_until_fixed_point, as its name says, goes  *)
(* on until decoding again solves nothing.  Its body decodes twice at      *)
(* most; from tau = 3 on there are windows that a third pass would carry   *)
(* further.                                                                *)
DecodeIsFixedPoint == Decode(missing, received) = {}

=============================================================================
