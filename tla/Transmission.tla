---------------------------- MODULE Transmission ----------------------------
(***************************************************************************)
(* One session from its configuration to the bytes handed over: the        *)
(* builder (src/config.rs), Encoder and Decoder opened with what it built, *)
(* the frames cut into stripes and datagrams (src/codec/encoder.rs), the   *)
(* datagrams written to the wire and read back (src/datagram.rs), and the  *)
(* stripes placed in the receiver's code and joined again                  *)
(* (src/fec/streaming/mod.rs and stripes.rs, src/fec/header.rs).           *)
(*                                                                         *)
(* The channel drops datagrams and keeps their order; Decoder has late,    *)
(* duplicate and reordered ones, and the ring.  Which lost stripes are     *)
(* solved is what Recovery decides.                                        *)
(*                                                                         *)
(* Bytes are told apart by where they come from: [src, from, len] is the   *)
(* bytes from .. from + len - 1 of a source, followed by zeros up to the   *)
(* size of whatever holds them.                                            *)
(***************************************************************************)
EXTENDS Configuration, FiniteSets

CONSTANTS
  Settings,      (* The values each setter of the builder is called with.  *)
  MAX_SETTINGS,  (* Bound: fields of the builder that differ from default. *)
  FrameSizes,    (* The payload sizes given to encode_payload.             *)
  MAX_FRAMES,    (* Bound: frames encoded.                                 *)
  MAX_LOST,      (* Bound: datagrams the channel drops.                    *)
  MAX_GRID       (* Bound: columns of a code that is run.                  *)

ASSUME TransmissionAssumption ==
  /\ DOMAIN Settings \subseteq DOMAIN Fields
  /\ \A field \in DOMAIN Settings : Settings[field] \subseteq Fields[field]
  /\ MAX_SETTINGS \in Nat /\ MAX_FRAMES \in Nat /\ MAX_LOST \in Nat /\ MAX_GRID \in Nat
  /\ FrameSizes \subseteq Nat

VARIABLES
  status,    \* building, built, refused, open, error or panic
  config,    \* The builder, then the Config it built.
  feedback,  \* Encoder.current_feedback
  planner,   \* Encoder.packetization: [checks, window, delayed].
  tx,        \* The rest of the encoder.
  result,    \* What the last encode_payload returned.
  channel,   \* The datagrams of that call that were not sent yet.
  rx,        \* The decoder.
  sent,      \* History: the sizes of the payloads encoded.
  lost,      \* History: the datagrams dropped, [frame, pos, is_parity].
  out        \* History: the frames handed over, [frame, payload, len, direct].

vars == <<status, config, feedback, planner, tx, result, channel, rx, sent, lost, out>>

WIRE_FRAMES == 32768     \* MAX_FRAME_NUM + 1 of datagram.rs

-----------------------------------------------------------------------------
(* Bytes.                                                                  *)

Zeros == [src |-> <<"none">>, from |-> 0, len |-> 0]
Garbled == [src |-> <<"garbled">>, from |-> 0, len |-> 0]
BytesOf(src, n) == [src |-> src, from |-> 0, len |-> n]

(* n bytes of b from offset on.                                            *)
SliceOf(b, offset, n) ==
  IF b.len <= offset THEN Zeros
  ELSE [src |-> b.src, from |-> b.from + offset, len |-> AtMost(n, b.len - offset)]

(* The first of the pieces, continued by the others.                       *)
Joined(pieces) ==
  LET n == Len(pieces)
  IN  IF \A i \in 2 .. n : /\ pieces[i].src = pieces[1].src
                           /\ pieces[i].from = pieces[i - 1].from + pieces[i - 1].len
      THEN [pieces[1] EXCEPT !.len = pieces[n].from + pieces[n].len - pieces[1].from]
      ELSE Garbled

Payload(frame, size) == BytesOf(<<"frame", frame>>, size)

-----------------------------------------------------------------------------
(* The layout of the two codes, for the configuration of the session.      *)

NumFrames == window_frames(config)
StripeSize == stripe_size(config)
HeaderRows == max_pkts_per_frame(config)
Slot(frame) == frame % NumFrames

(* Mutant: data slots are spaced as the parity slots are.                  *)
SameSpacing(frame, is_parity) == Slot(frame) * config.max_fec_stripes

(* first_pos_of_frame_in_block_code                                        *)
first_pos_of_frame(frame, is_parity) ==
  Slot(frame) * (IF is_parity THEN config.max_fec_stripes ELSE config.max_data_stripes)

cols_of_frame(frame) ==
  {first_pos_of_frame(frame, FALSE) + i : i \in 0 .. config.max_data_stripes - 1}
rows_of_frame(frame) ==
  {first_pos_of_frame(frame, TRUE) + i : i \in 0 .. config.max_fec_stripes - 1}
header_rows_of_frame(frame) == {Slot(frame) * HeaderRows + i : i \in 0 .. HeaderRows - 1}

(* The header code's row in a packet that is not its frame's first.        *)
header_row(frame, pos) == Slot(frame) * HeaderRows + ((pos - 1) % HeaderRows)

num_data_stripes(size) == CeilDiv(size, StripeSize)

final_pos_within_stripe(size, stripe) ==
  IF stripe = num_data_stripes(size) - 1 /\ size % StripeSize # 0
  THEN (size % StripeSize) - 1 ELSE StripeSize - 1

(* A grid has the positions whose contents were placed; the others are     *)
(* zero.                                                                   *)
At(grid, i) == IF i \in DOMAIN grid THEN grid[i] ELSE Zeros
Cleared(grid, positions) == [i \in DOMAIN grid \ positions |-> grid[i]]
Placed(grid, contents) ==
  [i \in DOMAIN contents \cup DOMAIN grid |->
     IF i \in DOMAIN contents THEN contents[i] ELSE grid[i]]
Only(i, content) == [j \in {i} |-> content]

-----------------------------------------------------------------------------
(* The encoder: cols and rows are its payload code's grids, size_cols and  *)
(* size_rows its header code's.                                            *)

NewEncoder ==
  [next_session_index |-> 0, sqn |-> 0, header_ts |-> -1, ts |-> 0,
   cols |-> <<>>, rows |-> <<>>, size_cols |-> <<>>, size_rows |-> <<>>]

MaxStripesPerPkt == config.max_pkt_size \div StripeSize

(* StreamingPacketization::new.  checks: the build has overflow checks.    *)
NewPlanner(checks) ==
  [checks |-> checks, window |-> <<>>, delayed |-> [i \in 1 .. config.parity_delay |-> 0]]

Floor == config.min_window_parity
Kept == Totals(WithoutOldest(planner.window, NumFrames))

(* plan_frame: by the ratio alone, or topped up to the floor of the window *)
(* and cut to the rows of the code.                                        *)
Produced(num_data) ==
  IF Floor = 0 THEN ParityStripes(feedback, num_data)
  ELSE AtMost(TopUp(num_data, feedback, Kept, Floor, NumFrames), config.max_fec_stripes)

(* What it emits: the parity of parity_delay frames ago.                   *)
Emitted(num_data) == Head(Append(planner.delayed, Produced(num_data)))

PlannerAfter(num_data) ==
  [planner EXCEPT
    !.window = IF Floor = 0 THEN @
               ELSE Append(WithoutOldest(@, NumFrames),
                           [data |-> num_data, parity |-> Produced(num_data)]),
    !.delayed = Tail(Append(@, Produced(num_data)))]

(* A sum of plan_frame or specs_for_stripes does not fit u16.              *)
PlanOverflows(num_data) ==
  \/ Floor > 0 /\ TopUpOverflows(num_data, feedback, Kept, Floor, NumFrames)
  \/ PacketSumOverflows(num_data, Emitted(num_data), MaxStripesPerPkt)

(* encode_sizes_of_frames at packet 0: the header code moves on, takes the *)
(* size and computes its rows.                                             *)
HeaderEncoded(size) ==
  LET ts == tx.header_ts + 1
  IN  [tx EXCEPT
        !.header_ts = ts,
        !.size_cols = Placed(@, Only(Slot(ts), BytesOf(<<"size", ts>>, size))),
        !.size_rows = Placed(@, [i \in header_rows_of_frame(ts) |->
                                   BytesOf(<<"sizes", ts, i>>, 8)])]

(* Mutant: a packet's place is its number.                                 *)
PlacedByNumber(index, stripes) == index

stripe_pos(index, stripes) == index * stripes

(* A packet of the frame: the index-th data or parity packet.              *)
Datagram(enc, plan, is_parity, index, payload) ==
  LET pos == IF is_parity THEN plan.data_pkts + index ELSE index
  IN  [seq_num |-> enc.sqn + pos, is_parity |-> is_parity,
       frame_num |-> enc.next_session_index % WIRE_FRAMES,
       sizes |-> IF pos = 0 THEN enc.size_cols[Slot(enc.header_ts)]
                 ELSE enc.size_rows[header_row(enc.header_ts, pos)],
       pos_in_frame |-> pos, stripe_pos_in_frame |-> stripe_pos(index, plan.stripes_per_pkt),
       payload |-> payload, payload_len |-> plan.stripes_per_pkt * StripeSize]

(* build_data_datagrams: the payload cut at multiples of the packet size;  *)
(* the last packet is filled up with zeros.                                *)
DataDatagrams(enc, size, plan) ==
  LET datagram_size == plan.stripes_per_pkt * StripeSize
  IN  [j \in 1 .. plan.data_pkts |->
         Datagram(enc, plan, FALSE, j - 1,
                  SliceOf(Payload(enc.next_session_index, size),
                          (j - 1) * datagram_size, datagram_size))]

(* StreamingCode::encode: the frame, put together from its packets, is     *)
(* placed stripe by stripe, and the rows of its slot are computed.         *)
CodeEncoded(enc, size, datagrams) ==
  LET frame == Joined([j \in DOMAIN datagrams |-> datagrams[j].payload])
      first == first_pos_of_frame(enc.ts, FALSE)
      first_row == first_pos_of_frame(enc.ts, TRUE)
      placed == [i \in first .. first + num_data_stripes(size) - 1 |->
                   SliceOf(frame, (i - first) * StripeSize,
                           final_pos_within_stripe(size, i - first) + 1)]
  IN  [enc EXCEPT
        !.ts = @ + 1,
        !.cols = Placed(Cleared(@, cols_of_frame(enc.ts)), placed),
        !.rows = Placed(@, [i \in rows_of_frame(enc.ts) |->
                   SliceOf(BytesOf(<<"parity", enc.ts>>, config.max_fec_stripes * StripeSize),
                           (i - first_row) * StripeSize, StripeSize)])]

(* parity_payloads_into and interleave_datagrams: the rows of the frame,   *)
(* from its first on, cut at multiples of the packet size.                 *)
ParityDatagrams(enc, plan) ==
  LET first_row == first_pos_of_frame(enc.ts - 1, TRUE)
      bytes == Joined([r \in 1 .. plan.parity |-> enc.rows[first_row + r - 1]])
      datagram_size == plan.stripes_per_pkt * StripeSize
  IN  [j \in 1 .. plan.parity_pkts |->
         Datagram(enc, plan, TRUE, j - 1,
                  SliceOf(bytes, (j - 1) * datagram_size, datagram_size))]

(* What StreamingCode::encode needs: columns and rows for the plan.        *)
Fits(plan) == plan.data <= config.max_data_stripes /\ plan.parity <= config.max_fec_stripes

-----------------------------------------------------------------------------
(* The wire: write_header and parse_header.                                *)

encode_parity_frame(is_parity, frame_num) ==
  (IF is_parity THEN WIRE_FRAMES ELSE 0) + (frame_num % WIRE_FRAMES)

decode_parity_frame(word) ==
  [is_parity |-> word \div WIRE_FRAMES # 0, frame_num |-> word % WIRE_FRAMES]

write_header(d) ==
  [seq_num |-> d.seq_num, word |-> encode_parity_frame(d.is_parity, d.frame_num),
   sizes |-> d.sizes, pos_in_frame |-> d.pos_in_frame,
   stripe_pos_in_frame |-> d.stripe_pos_in_frame]

parse_header(h) ==
  LET w == decode_parity_frame(h.word)
  IN  [seq_num |-> h.seq_num, is_parity |-> w.is_parity, frame_num |-> w.frame_num,
       sizes |-> h.sizes, pos_in_frame |-> h.pos_in_frame,
       stripe_pos_in_frame |-> h.stripe_pos_in_frame]

to_bytes(d) ==
  [header |-> write_header(d), payload |-> d.payload, payload_len |-> d.payload_len]

from_bytes(b) ==
  LET h == parse_header(b.header)
  IN  [seq_num |-> h.seq_num, is_parity |-> h.is_parity, frame_num |-> h.frame_num,
       sizes |-> h.sizes, pos_in_frame |-> h.pos_in_frame,
       stripe_pos_in_frame |-> h.stripe_pos_in_frame,
       payload |-> b.payload, payload_len |-> b.payload_len]

-----------------------------------------------------------------------------
(* The decoder: the same four grids, the columns it does not know, the     *)
(* sessions in its ring, and what it knows of their frames.                *)

NewDecoder ==
  [ts |-> -1, cols |-> <<>>, rows |-> <<>>, size_cols |-> <<>>, size_rows |-> <<>>,
   erased |-> {}, size_erased |-> {}, ring |-> {}, sizes |-> <<>>, received |-> <<>>]

(* The window in time order: position p is a frame, and a slot.            *)
FrameAt(ts, p) == ts - (NumFrames - p)
SlotAt(ts, p) == (ts + p) % NumFrames

Theory == INSTANCE Recovery WITH Delay <- config.tau

(* Without an erased column or a known row, BlockCode::decode has nothing  *)
(* to do.                                                                  *)
HasWork(missing, known) ==
  (\E p \in DOMAIN missing : missing[p] > 0) /\ (\E p \in DOMAIN known : known[p] > 0)

(* Solving yields what was sent when all that is known belongs together.   *)
Agree(grid, erased, theirs) ==
  \A i \in (DOMAIN grid \cup DOMAIN theirs) \ erased : At(grid, i) = At(theirs, i)

SolvedColumns(grid, erased, theirs, positions) ==
  Placed(grid, [i \in positions |-> IF Agree(grid, erased, theirs) THEN At(theirs, i) ELSE Garbled])

(* updated_ts and advance_to_wire_frame: the slots of the frames entered   *)
(* are cleared.                                                            *)
Advanced(frame) ==
  LET entered == rx.ts + 1 .. frame
      columns == UNION {cols_of_frame(t) : t \in entered}
  IN  [rx EXCEPT
        !.ts = frame,
        !.cols = Cleared(@, columns),
        !.rows = Cleared(@, UNION {rows_of_frame(t) : t \in entered}),
        !.erased = @ \cup columns,
        !.size_cols = Cleared(@, {Slot(t) : t \in entered}),
        !.size_rows = Cleared(@, UNION {header_rows_of_frame(t) : t \in entered}),
        !.size_erased = @ \cup {Slot(t) : t \in entered}]

(* purge_expired, fill_missing_frames and frame_mut: before the first      *)
(* datagram there is nothing to fill.                                      *)
RingWith(dec, frame) ==
  LET skipped == IF dec.ring = {} THEN {} ELSE {f \in 0 .. frame : \A g \in dec.ring : f > g}
  IN  {f \in dec.ring \cup skipped \cup {frame} : frame - f < NumFrames}

(* decode_sizes_of_frames: the size or the row is placed, then the header  *)
(* code solves what it can.                                                *)
HeaderPlaced(dec, d) ==
  IF d.pos_in_frame = 0
  THEN [dec EXCEPT !.size_cols = Placed(@, Only(Slot(d.frame_num), d.sizes)),
                   !.size_erased = @ \ {Slot(d.frame_num)}]
  ELSE [dec EXCEPT !.size_rows =
          Placed(@, Only(header_row(d.frame_num, d.pos_in_frame), d.sizes))]

HeaderSolvable(dec) ==
  LET missing == [p \in 1 .. NumFrames |->
                    IF SlotAt(dec.ts, p) \in dec.size_erased THEN 1 ELSE 0]
      known == [p \in 1 .. NumFrames |->
                  Cardinality(DOMAIN dec.size_rows \cap header_rows_of_frame(SlotAt(dec.ts, p)))]
  IN  IF HasWork(missing, known) THEN Theory!Decode(missing, known) ELSE {}

(* decode_headers: the sizes learned are stored in the ring.               *)
HeaderDecoded(dec, d) ==
  LET positions == HeaderSolvable(dec)
      slots == {SlotAt(dec.ts, p) : p \in positions}
      cols == SolvedColumns(dec.size_cols, dec.size_erased, tx.size_cols, slots)
      learned == {FrameAt(dec.ts, p) : p \in positions}
                   \cup (IF d.pos_in_frame = 0 THEN {d.frame_num} ELSE {})
  IN  [dec EXCEPT
        !.size_cols = cols, !.size_erased = @ \ slots,
        !.sizes = Placed(@, [f \in learned \cap dec.ring |-> cols[Slot(f)].len])]

(* add_packet, stripe by stripe from the place the datagram names, and     *)
(* the bytes that all_data_received counts.                                *)
PacketAdded(dec, d) ==
  LET start == first_pos_of_frame(d.frame_num, d.is_parity) + d.stripe_pos_in_frame
      stripes == [i \in start .. start + d.payload_len \div StripeSize - 1 |->
                    SliceOf(d.payload, (i - start) * StripeSize, StripeSize)]
      before == IF d.frame_num \in DOMAIN dec.received THEN dec.received[d.frame_num] ELSE 0
  IN  IF d.is_parity THEN [dec EXCEPT !.rows = Placed(@, stripes)]
      ELSE [dec EXCEPT
             !.cols = Placed(@, stripes), !.erased = @ \ DOMAIN stripes,
             !.received = Placed(@, Only(d.frame_num, before + d.payload_len))]

(* try_decode: the columns a frame of known size does not use are zero;    *)
(* then two passes.                                                        *)
Unused(dec) ==
  UNION {{i \in cols_of_frame(f) :
            i - first_pos_of_frame(f, FALSE) >= num_data_stripes(dec.sizes[f])}
           : f \in DOMAIN dec.sizes \cap dec.ring}

Decoded(dec) ==
  LET unknown == dec.erased \ Unused(dec)
      missing == [p \in 1 .. NumFrames |->
                    Cardinality(unknown \cap cols_of_frame(SlotAt(dec.ts, p)))]
      known == [p \in 1 .. NumFrames |->
                  Cardinality(DOMAIN dec.rows \cap rows_of_frame(SlotAt(dec.ts, p)))]
      positions == IF HasWork(missing, known) THEN Theory!DecodeTwice(missing, known) ELSE {}
      solved == unknown \cap UNION {cols_of_frame(SlotAt(dec.ts, p)) : p \in positions}
  IN  [dec EXCEPT !.cols = SolvedColumns(@, unknown, tx.cols, solved),
                  !.erased = unknown \ solved]

Ingested(d) ==
  LET dec == Advanced(d.frame_num)
      opened == [dec EXCEPT !.ring = RingWith(dec, d.frame_num)]
  IN  Decoded(PacketAdded(HeaderDecoded(HeaderPlaced(opened, d), d), d))

(* take_recovered_frame                                                    *)
is_frame_recovered(dec, frame) ==
  /\ frame \in DOMAIN dec.sizes
  /\ \A i \in 0 .. num_data_stripes(dec.sizes[frame]) - 1 :
       first_pos_of_frame(frame, FALSE) + i \notin dec.erased

recovered_frame(dec, frame) ==
  LET size == dec.sizes[frame]
  IN  Joined([i \in 1 .. num_data_stripes(size) |->
                SliceOf(At(dec.cols, first_pos_of_frame(frame, FALSE) + i - 1),
                        0, final_pos_within_stripe(size, i - 1) + 1)])

(* Mutant: a packet short of the frame's size is enough.                   *)
MostDataReceived(dec, frame) ==
  /\ frame \in DOMAIN dec.received
  /\ dec.received[frame] + StripeSize >= dec.sizes[frame]

all_data_received(dec, frame) ==
  /\ frame \in DOMAIN dec.received
  /\ dec.received[frame] >= dec.sizes[frame]

recovered_len(dec, frame) ==
  LET size == dec.sizes[frame]
  IN  SumFunction([i \in 0 .. num_data_stripes(size) - 1 |->
                     final_pos_within_stripe(size, i) + 1])

Handed(dec) ==
  {[frame |-> f, payload |-> recovered_frame(dec, f), len |-> recovered_len(dec, f),
    direct |-> all_data_received(dec, f)]
     : f \in {g \in dec.ring : /\ is_frame_recovered(dec, g)
                               /\ \A e \in out : e.frame # g}}

-----------------------------------------------------------------------------
Init ==
  /\ status = "building" /\ config = Defaults
  /\ feedback = "None" /\ planner = <<>> /\ tx = <<>> /\ result = "none" /\ channel = <<>>
  /\ rx = <<>> /\ sent = <<>> /\ lost = {} /\ out = {}

session_vars == <<feedback, planner, tx, result, channel, rx, sent, lost, out>>

(* The setters of ConfigBuilder, in any order.                             *)
Set(field, value) ==
  /\ status = "building"
  /\ config' = [config EXCEPT ![field] = value]
  /\ Cardinality({f \in DOMAIN Defaults : config'[f] # Defaults[f]}) <= MAX_SETTINGS
  /\ UNCHANGED <<status, session_vars>>

Build ==
  /\ status = "building"
  /\ IF Refusal(config) = "None"
     THEN status' = "built" /\ config' = Built(config)
     ELSE status' = "refused" /\ UNCHANGED config
  /\ UNCHANGED session_vars

(* Encoder::new and Decoder::new                                           *)
Open(checks) ==
  /\ status = "built"
  /\ status' = Opened(config, checks)
  /\ planner' = NewPlanner(checks) /\ tx' = NewEncoder /\ rx' = NewDecoder
  /\ UNCHANGED <<config, feedback, result, channel, sent, lost, out>>

(* The sender acts between frames; a panic is the end of it.               *)
Ready ==
  status = "open" /\ result # "panic" /\ channel = <<>> /\ Cols(config) <= MAX_GRID

apply_feedback(level) ==
  /\ Ready
  /\ feedback' = level
  /\ UNCHANGED <<status, config, planner, tx, result, channel, rx, sent, lost, out>>

Refuse(size) ==
  /\ Ready
  /\ size = 0 \/ size > config.max_frame_size
  /\ result' = "PayloadTooLarge"
  /\ UNCHANGED <<status, config, feedback, planner, tx, channel, rx, sent, lost, out>>

(* The rest of encode_payload, once the frame has its plan.  When the code *)
(* cannot take it, the header code and the sequence number have moved      *)
(* already.                                                                *)
Encode(size, parity) ==
  LET plan == specs_for_stripes(num_data_stripes(size), parity, MaxStripesPerPkt)
      enc == HeaderEncoded(size)
      data == DataDatagrams(enc, size, plan)
      coded == CodeEncoded(enc, size, data)
  IN  /\ IF Fits(plan)
         THEN /\ result' = "ok"
              /\ tx' = [coded EXCEPT !.sqn = @ + plan.data_pkts + plan.parity_pkts,
                                     !.next_session_index = @ + 1]
              /\ sent' = Append(sent, size)
              /\ channel' = data \o ParityDatagrams(coded, plan)
         ELSE /\ result' = "failed"
              /\ tx' = [enc EXCEPT !.sqn = @ + plan.data_pkts]
              /\ UNCHANGED <<channel, sent>>
      /\ UNCHANGED <<status, config, feedback, rx, lost, out>>

Encodes(size) ==
  /\ Ready /\ size \in 1 .. config.max_frame_size
  /\ tx.next_session_index < MAX_FRAMES

encode_payload(size) ==
  /\ Encodes(size)
  /\ IF planner.checks /\ PlanOverflows(num_data_stripes(size))
     THEN /\ result' = "panic"
          /\ UNCHANGED <<status, config, feedback, planner, tx, channel, rx, sent, lost, out>>
     ELSE /\ planner' = PlannerAfter(num_data_stripes(size))
          /\ Encode(size, Emitted(num_data_stripes(size)))

Lose ==
  /\ channel # <<>> /\ Cardinality(lost) < MAX_LOST
  /\ lost' = lost \cup {[frame |-> tx.next_session_index - 1,
                         pos |-> Head(channel).pos_in_frame,
                         is_parity |-> Head(channel).is_parity]}
  /\ channel' = Tail(channel)
  /\ UNCHANGED <<status, config, feedback, planner, tx, result, rx, sent, out>>

(* receive_datagram                                                        *)
Receive ==
  /\ channel # <<>>
  /\ rx' = Ingested(from_bytes(to_bytes(Head(channel))))
  /\ out' = out \cup Handed(rx')
  /\ channel' = Tail(channel)
  /\ UNCHANGED <<status, config, feedback, planner, tx, result, sent, lost>>

Next ==
  \/ \E field \in DOMAIN Settings : \E value \in Settings[field] : Set(field, value)
  \/ Build
  \/ \E checks \in BOOLEAN : Open(checks)
  \/ \E level \in Feedback : apply_feedback(level)
  \/ \E size \in FrameSizes : Refuse(size)
  \/ \E size \in FrameSizes \ {0} : encode_payload(size)
  \/ Lose
  \/ Receive

Spec == Init /\ [][Next]_vars

-----------------------------------------------------------------------------
(***************************************************************************)
(* Encoder::encode_payload: a configuration that build accepts and the     *)
(* constructors open has codes that fit their u16 indices, and every       *)
(* payload up to its max_frame_size is encoded, at every feedback level,   *)
(* whatever the floor and the delay make of its parity.  The one way out   *)
(* is a sum of plan_frame that a build with overflow checks stops at, and  *)
(* it takes a floor that, with the stripes of a window, does not fit u16.  *)
(***************************************************************************)
FloorTooLarge ==
  Cols(config) + num_parity_stripes_high(Cols(config)) + Floor >= U16

AcceptedNeverFails ==
  status = "open" => /\ Cols(config) < U16 /\ Rows(config) < U16
                     /\ Rows(config) + Cols(config) <= max_field_elements(config.w)
                     /\ result # "failed"
                     /\ result = "panic" => planner.checks /\ Floor > 0 /\ FloorTooLarge

(***************************************************************************)
(* config.rs on min_window_parity: a frame is topped up (up to             *)
(* max_fec_stripes), so a floor of any size is only ever cut.              *)
(***************************************************************************)
FloorIsCapped == result # "panic"

(***************************************************************************)
(* Once the receiver is at the sender's frame, the two hold the same bytes *)
(* in the same places of both codes: the place that a datagram names, the  *)
(* place that its frame's stripes were encoded in, and the zeros of the    *)
(* columns not used are those of one layout, across slot reuse.            *)
(***************************************************************************)
GridsAgree ==
  status = "open" /\ rx.ts >= 0 /\ rx.ts = tx.ts - 1 =>
    /\ Agree(rx.cols, rx.erased, tx.cols)
    /\ \A i \in DOMAIN rx.rows : rx.rows[i] = At(tx.rows, i)
    /\ Agree(rx.size_cols, rx.size_erased, tx.size_cols)
    /\ \A i \in DOMAIN rx.size_rows : rx.size_rows[i] = At(tx.size_rows, i)

(***************************************************************************)
(* A frame is handed over as the payload that was given to encode_payload, *)
(* byte for byte and with its length, and never before its first datagram  *)
(* was sent: across packets of several stripes, the zeros that fill the    *)
(* last one up, lost stripes and sizes that were solved.                   *)
(***************************************************************************)
PayloadReassembled ==
  \A e \in out : /\ e.frame < Len(sent) /\ e.len = sent[e.frame + 1]
                 /\ e.payload = Payload(e.frame, sent[e.frame + 1])

(***************************************************************************)
(* RecoveredFrame, direct_reception: true exactly when no data datagram of *)
(* the frame was lost, although the bytes counted include the zeros that   *)
(* fill the last one up.                                                   *)
(***************************************************************************)
DirectMeansComplete ==
  \A e \in out :
    e.direct <=> \A l \in lost : l.frame = e.frame => l.is_parity

=============================================================================
