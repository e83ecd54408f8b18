------------------------------ MODULE Recovery ------------------------------
(***************************************************************************)
(* Which erased stripes a window of the block code solves:                 *)
(* src/fec/streaming/theoretical.rs, flow_decode.rs, recovery.rs and the   *)
(* decision part of BlockCode::decode in src/fec/block_code.rs.            *)
(*                                                                         *)
(* A window is NumFrames frames in time order: position 1 is the oldest,   *)
(* NumFrames the newest.  A frame is its number of missing data stripes    *)
(* and its number of received parity stripes.  A parity stripe of position *)
(* p is a combination of the data of positions p - Delay .. p.  The code   *)
(* splits stripes into u and v kinds; every StreamingCode is built with    *)
(* the ratio (1, 0), so all stripes are v and the u counts are 0.          *)
(***************************************************************************)
EXTENDS Integers, FiniteSets, Functions, SequencesExt

CONSTANT Delay   (* tau: frames of look-back of a parity stripe.           *)

ASSUME DelayAssumption == Delay \in Nat

NumFrames == 2 * Delay + 1          \* num_frames_for_delay
Window == 1 .. NumFrames

AtMost(a, b) == IF a <= b THEN a ELSE b
SumOver(f, S) == SumFunctionOnSet(f, S)

(***************************************************************************)
(* StreamingCodeTheoretical.  `missing` and `received` are functions on    *)
(* Window; a state th = [n, missing, unusable] is the object after the     *)
(* frames 1 .. n were added.                                               *)
(***************************************************************************)

(* Mutant: only the parity of the undecoded frame itself is marked.        *)
MarkOwnSlot(missing, pos, n, unusable) ==
  [unusable EXCEPT ![pos] = @ \/ missing[pos] > 0]

(* mark_unusable_slots: parities that cover an undecoded frame.            *)
MarkUnusable(missing, pos, n, unusable) ==
  [q \in DOMAIN unusable |->
     unusable[q] \/ (missing[pos] > 0 /\ q \in pos .. AtMost(n, pos + Delay))]

(* net_v_parities                                                          *)
NetParities(received, unusable) ==
  [q \in Window |-> IF unusable[q] THEN 0 ELSE received[q]]

(* decode_v_deficit: 0 as soon as a prefix of the frames start ..          *)
(* start + Delay - 1 has as many usable parities as losses.                *)
Short(missing, net, frames) == SumOver(missing, frames) - SumOver(net, frames)

Deficit(missing, net, n, start) ==
  LET end == AtMost(n, start + Delay - 1)
  IN  IF start > end \/ \E p \in start .. end : Short(missing, net, start .. p) <= 0
      THEN 0 ELSE Short(missing, net, start .. end)

(* Mutant: the parity of the last frame of the look-ahead is not used.      *)
DecodableBeforeDeadline(missing, net, n, start) == Deficit(missing, net, n, start) = 0

(* decoding_availabilities: can position start be decoded, by the frames   *)
(* before its deadline or with the parities of the frame at the deadline?  *)
Decodable(missing, net, n, start) ==
  LET deficit == Deficit(missing, net, n, start)
      deadline == start + Delay
  IN  \/ deficit = 0
      \/ deadline <= n /\ deficit + missing[deadline] <= net[deadline]

(* decode_from; the unusable parities it marks are a scratch copy.         *)
Tried(missing, net, n, start) ==
  IF Decodable(missing, net, n, start) THEN [missing EXCEPT ![start] = 0] ELSE missing

Marked(missing, n, start, unusable) ==
  [missing |-> missing, unusable |-> MarkUnusable(missing, start, n, unusable)]

DecodeFrom(received, n, th, start) ==
  Marked(Tried(th.missing, NetParities(received, th.unusable), n, start),
         n, start, th.unusable)

(* decode_streaming_code, after frame n was added: position by position,   *)
(* from the oldest on.                                                     *)
DecodeStreamingCode(received, n, missing, unusable) ==
  LET pass[start \in 0 .. n] ==
        IF start = 0 THEN [missing |-> missing, unusable |-> unusable]
        ELSE DecodeFrom(received, n, pass[start - 1], start)
  IN  IF received[n] = 0 THEN missing
      ELSE IF \A j \in 1 .. n - 1 : missing[j] = 0
      THEN IF missing[n] <= received[n] THEN [missing EXCEPT ![n] = 0] ELSE missing
      ELSE pass[n].missing

AddFrame(received, th, n) ==
  LET unusable == [th.unusable EXCEPT ![n] = n <= Delay \/ received[n] = 0]
  IN  [missing |-> DecodeStreamingCode(received, n, th.missing, unusable),
       unusable |-> unusable]

(* add_frames: the whole window, then set_unusable.                        *)
Outcome(missing, unusable) ==
  LET marked[pos \in 0 .. NumFrames] ==
        IF pos = 0 THEN unusable
        ELSE MarkUnusable(missing, pos, NumFrames, marked[pos - 1])
  IN  [recovered |-> {p \in Window : missing[p] = 0}, unusable |-> marked[NumFrames]]

AddFrames(missing, received) ==
  LET added[n \in 0 .. NumFrames] ==
        IF n = 0 THEN [missing |-> missing, unusable |-> [q \in Window |-> FALSE]]
        ELSE AddFrame(received, added[n - 1], n)
  IN  added[NumFrames]

OutcomeOf(th) == Outcome(th.missing, th.unusable)
Theoretical(missing, received) == OutcomeOf(AddFrames(missing, received))

(***************************************************************************)
(* FlowGraph.  Parity position p (Delay+1 .. NumFrames) is the node        *)
(* <<"p", p>>, with its usable parities as excess; data position d is      *)
(* <<"d", d>>, with its recovered stripes as negative excess.  The graph   *)
(* state is [excess, cap].                                                 *)
(***************************************************************************)
ParityNodes == {<<"p", p>> : p \in Delay + 1 .. NumFrames}
DataNodes == {<<"d", d>> : d \in Window}
Nodes == ParityNodes \cup DataNodes
Covers(p, d) == d \in p - Delay .. p

ConstructGraph(demand, usable) ==
  [excess |-> [x \in Nodes |-> IF x[1] = "p" THEN usable[x[2]] ELSE -demand[x[2]]],
   cap |-> [e \in Nodes \X Nodes |->
              IF e[1][1] = "p" /\ e[2][1] = "d" /\ Covers(e[1][2], e[2][2])
              THEN usable[e[1][2]] ELSE 0]]

(* Edges are scanned newest first: by descending position.  Nodes that are *)
(* scanned together are of one kind.                                       *)
Order(x) == IF x[1] = "p" THEN x[2] ELSE NumFrames + x[2]

Descending(S) ==
  [k \in 1 .. Cardinality(S) |->
     CHOOSE x \in S : Cardinality({y \in S : Order(y) > Order(x)}) = k - 1]
Ascending(S) ==
  [k \in 1 .. Cardinality(S) |->
     CHOOSE x \in S : Cardinality({y \in S : Order(y) < Order(x)}) = k - 1]

(* One pop of the breadth-first search of FlowGraph::maxflow: `path`       *)
(* maps every node found to the path that leads to it.                     *)
Extended(bfs, x, found) ==
  [queue |-> bfs.queue \o Descending(found),
   path |-> [y \in DOMAIN bfs.path \cup found |->
               IF y \in found THEN Append(bfs.path[x], y) ELSE bfs.path[y]]]

Visit(g, bfs, i) ==
  IF i > Len(bfs.queue) THEN bfs
  ELSE Extended(bfs, bfs.queue[i],
                {y \in Nodes \ DOMAIN bfs.path : g.cap[<<bfs.queue[i], y>>] > 0})

SearchFrom(g, roots) ==
  LET bfs[i \in 0 .. Cardinality(Nodes)] ==
        IF i = 0 THEN [queue |-> Ascending(roots), path |-> [x \in roots |-> <<x>>]]
        ELSE Visit(g, bfs[i - 1], i)
  IN  bfs[Cardinality(Nodes)]

Search(g) == SearchFrom(g, {x \in Nodes : g.excess[x] > 0})

(* Mutant: residual capacities moved once per augmentation.                *)
AugmentByOnce(amount) == amount

(* augment is called for (u, v, c) and again for (v, u, -c), and each call *)
(* updates both directions of the edge.                                    *)
AugmentBy(amount) == 2 * amount

Hops(path) == {<<path[i], path[i + 1]>> : i \in 1 .. Len(path) - 1}
Back(e) == <<e[2], e[1]>>

Push(g, path) ==
  LET from == path[1]
      to == path[Len(path)]
      amount == Min({g.excess[from], -g.excess[to]} \cup {g.cap[e] : e \in Hops(path)})
      moved == AugmentBy(amount)
  IN  [excess |-> [g.excess EXCEPT ![from] = @ - amount, ![to] = @ + amount],
       cap |-> [e \in DOMAIN g.cap |->
                  IF e \in Hops(path) THEN g.cap[e] - moved
                  ELSE IF Back(e) \in Hops(path) THEN g.cap[e] + moved
                  ELSE g.cap[e]]]

(* The first popped node with unmet demand ends the augmenting path.       *)
AugmentAlong(g, bfs) ==
  LET sinks == {i \in DOMAIN bfs.queue : g.excess[bfs.queue[i]] < 0}
  IN  IF sinks = {} THEN g ELSE Push(g, bfs.path[bfs.queue[Min(sinks)]])

Augment(g) == AugmentAlong(g, Search(g))

(* maxflow: every augmentation meets at least one unit of demand.          *)
MaxFlow(demand, usable) ==
  LET steps == SumOver(demand, Window)
      flow[i \in 0 .. steps] ==
        IF i = 0 THEN ConstructGraph(demand, usable) ELSE Augment(flow[i - 1])
  IN  flow[steps]

(* get_used_parity_counts                                                  *)
Drained(usable, g) ==
  [p \in Window |-> IF p <= Delay THEN 0 ELSE usable[p] - g.excess[<<"p", p>>]]

UsedParities(cols, usable) == Drained(usable, MaxFlow(cols, usable))

(***************************************************************************)
(* Linear algebra, generically: rows[p] parity stripes of each position p  *)
(* determine cols[d] unknown stripes of each position d, all other data    *)
(* being known, when the stripes can be matched to parities that cover     *)
(* them (Hall's condition).                                                *)
(***************************************************************************)
Solvable(cols, rows) ==
  \A S \in SUBSET {d \in Window : cols[d] > 0} :
     SumOver(cols, S) <= SumOver(rows, {p \in Window : \E d \in S : Covers(p, d)})

(***************************************************************************)
(* can_recover, then BlockCode::decode: the erased stripes of the frames   *)
(* Theoretical calls recovered, solved together from the used parities, or *)
(* nothing when those do not determine them.  Returns the solved positions.*)
(***************************************************************************)
SolveWanted(missing, wanted, usable) ==
  LET cols == [d \in Window |-> IF d \in wanted THEN missing[d] ELSE 0]
  IN  IF Solvable(cols, UsedParities(cols, usable)) THEN wanted ELSE {}

DecodeAs(missing, received, th) ==
  SolveWanted(missing, {d \in th.recovered : missing[d] > 0},
              NetParities(received, th.unusable))

Decode(missing, received) == DecodeAs(missing, received, Theoretical(missing, received))

Solved(missing, positions) ==
  [d \in Window |-> IF d \in positions THEN 0 ELSE missing[d]]

(* Mutant: no second pass.                                                 *)
DecodeOnce(missing, received) == Decode(missing, received)

(* StreamingCode::decode_until_fixed_point: a second pass if the first one *)
(* solved anything.                                                        *)
DecodeAgain(missing, received, first) ==
  IF first = {} THEN {}
  ELSE first \cup Decode(Solved(missing, first), received)

DecodeTwice(missing, received) ==
  DecodeAgain(missing, received, Decode(missing, received))

=============================================================================
