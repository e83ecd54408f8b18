------------------------------ MODULE Decoder ------------------------------
(***************************************************************************)
(* The receiver session, src/codec/decoder.rs, fed by the sender session   *)
(* src/codec/encoder.rs through a channel that loses, duplicates, delays   *)
(* and reorders datagrams.                                                 *)
(*                                                                         *)
(* A datagram carries one stripe.  The fields frame and size of a datagram *)
(* are history: the decoder reads wire, seq, pos, stripe, is_parity, and   *)
(* the frame size when pos is 0 (sizes_of_frames_encoding).                *)
(***************************************************************************)
EXTENDS BlockCode, SeqDedup

CONSTANTS
  MAX_DATA,     (* max_data_stripes                                        *)
  MAX_FEC,      (* max_fec_stripes                                         *)
  HEADER_ROWS,  (* max_pkts_per_frame of the header code                   *)
  Shapes,       (* The frames the sender may send: [data, parity] stripes. *)
  FIRST_FRAME,  (* The frame the sender is at when the receiver starts.    *)
  MAX_FRAMES,   (* Bound: the frames that are sent from then on.           *)
  MAX_LAG       (* Bound: how many frames late a datagram may arrive.      *)

ASSUME DecoderAssumption ==
  /\ MAX_DATA \in Nat \ {0} /\ MAX_FEC \in Nat /\ HEADER_ROWS \in Nat \ {0}
  /\ Shapes \subseteq [data : 1 .. MAX_DATA, parity : 0 .. MAX_FEC]
  /\ FIRST_FRAME \in Nat /\ MAX_FRAMES \in Nat /\ MAX_LAG \in Nat

VARIABLES
  (* Encoder *)
  next_session_index, sqn,
  sent,                  \* The datagrams given to the channel so far.
  (* Decoder *)
  seen_seq, last_session, received_first, last_session_index,
  frames_ring, feedback_frames, code, header_code,
  (* History *)
  delivered,   \* The FrameRecovered events: [session, frame, intact].
  again,       \* Sessions with more than one FrameRecovered event.
  reported     \* The frames that were in some LossReportReady event.

encoder_vars == <<next_session_index, sqn, sent>>
tracking_vars == <<last_session, received_first, last_session_index>>
code_vars == <<code, header_code>>
history_vars == <<delivered, again, reported>>
vars == <<encoder_vars, seen_seq, tracking_vars, frames_ring, feedback_frames,
          code_vars, history_vars>>

-----------------------------------------------------------------------------
(* ReceiveFrame, src/codec/receive_frame.rs.  `data` and `parity` are the  *)
(* positions in the frame of the packets in pkts; the entries of pkts that *)
(* stand for a missing packet are in LossMetrics.                          *)

NoSize == 0
WrongSize == MAX_DATA + 1   \* What a damaged header column holds.

Vacant ==
  [occupied |-> FALSE, session_index |-> 0, frame_size |-> NoSize, first_sqn |-> 0,
   data |-> {}, parity |-> {}, is_dummy |-> FALSE,
   is_decoded |-> FALSE, delivered |-> FALSE]

reset_for(session, placeholder) ==
  [Vacant EXCEPT !.occupied = TRUE, !.session_index = session, !.is_dummy = placeholder]

frame_num(f) == wire_frame_num(f.session_index)

add_pkt(f, d) ==
  [f EXCEPT !.is_dummy = FALSE,
            !.first_sqn = saturating_sub(d.seq, d.pos),
            !.data = IF d.is_parity THEN @ ELSE @ \cup {d.pos},
            !.parity = IF d.is_parity THEN @ \cup {d.pos} ELSE @]

seq_nums(f) == {f.first_sqn + pos : pos \in f.data \cup f.parity}
all_data_received(f) == f.frame_size # NoSize /\ Cardinality(f.data) >= f.frame_size

(* What is final when a frame is purged: is_decoded().                     *)
Verdict(f) ==
  [session |-> f.session_index, decoded |-> f.is_decoded \/ all_data_received(f)]

-----------------------------------------------------------------------------
(* The ring: slot_index, frame_occupied, and the steps of ingest_datagram. *)

slot_index(session) == session % NumFrames
Occupied(ring, session) ==
  /\ ring[slot_index(session)].occupied
  /\ ring[slot_index(session)].session_index = session

frame_expired(new, old) == frame_expired_session(new, old, NumFrames)

(* purge_expired: from the oldest frame on, while it is out of the window. *)
Expired(ring, session) ==
  {i \in Slots : ring[i].occupied /\ frame_expired(session, ring[i].session_index)}

Purge(ring, session) ==
  [i \in Slots |-> IF i \in Expired(ring, session) THEN Vacant ELSE ring[i]]

(* The k-th frame purged is the one with k - 1 expired frames before it.    *)
PurgedVerdicts(ring, session) ==
  LET gone == Expired(ring, session)
      Older(i) == {j \in gone : ring[j].session_index < ring[i].session_index}
  IN  [k \in 1 .. Cardinality(gone) |->
         Verdict(ring[CHOOSE i \in gone : Cardinality(Older(i)) = k - 1])]

(* Mutant: purge_frame does not forget the sequence numbers.               *)
NoPurgedSeqs(ring, session) == {}

PurgedSeqs(ring, session) == UNION {seq_nums(ring[i]) : i \in Expired(ring, session)}

(* fill_missing_frames: placeholders for the sessions skipped.  Of two     *)
(* skipped sessions of the same slot the later one overwrites the earlier, *)
(* which leaves those of the last NumFrames.                               *)
Skipped(ring, session) ==
  {s \in last_session_index + 1 .. session - 1 :
     /\ received_first
     /\ session - s <= NumFrames
     /\ ~ Occupied(ring, s)}

(* Mutant: the frame just before the new one gets no placeholder.          *)
FillAllButLast(ring, session) ==
  [i \in Slots |->
     IF \E s \in Skipped(ring, session) : slot_index(s) = i /\ s < session - 1
     THEN reset_for(CHOOSE s \in Skipped(ring, session) : slot_index(s) = i, TRUE)
     ELSE ring[i]]

Fill(ring, session) ==
  [i \in Slots |->
     IF \E s \in Skipped(ring, session) : slot_index(s) = i
     THEN reset_for(CHOOSE s \in Skipped(ring, session) : slot_index(s) = i, TRUE)
     ELSE ring[i]]

(* frame_mut                                                               *)
Occupy(ring, session) ==
  IF Occupied(ring, session) THEN ring
  ELSE [ring EXCEPT ![slot_index(session)] = reset_for(session, FALSE)]

Opened(session) == Occupy(Fill(Purge(frames_ring, session), session), session)

-----------------------------------------------------------------------------
(* decode_headers.  A recovered size comes with its wire number, which is  *)
(* turned into a session near the current one.                             *)

SizeOf(frame) ==
  IF \E d \in sent : d.frame = frame
  THEN (CHOOSE d \in sent : d.frame = frame).size ELSE WrongSize

HeaderPlaced(hc, d) ==
  LET ahead == Advance(hc, d.wire, d.frame, 1)
      slot == DecoderSlot(d.wire)
  IN  IF d.pos = 0 THEN PlaceData(ahead, slot, 1, d.frame)
      ELSE PlaceParity(ahead, slot, (d.pos - 1) % HEADER_ROWS, d.frame)

absolute_frame_num(hc, p) == (hc.ts - (NumFrames - p)) % TS_SPACE

HeaderSession(current, wire) ==
  LET session == session_from_parts(session_epoch(current), wire)
  IN  IF session > current /\ session - current > HALF_FRAME_SPACE
      THEN session - FRAME_SPACE ELSE session

(* The header code after d, and the sizes it then yields.                  *)
ReceiveHeader(hc, d, current) ==
  LET placed == HeaderPlaced(hc, d)
      positions == Decode(MissingColumns(placed), KnownRows(placed))
      solved == Solve(placed, positions)
      Size(p) == IF SlotAt(placed, p) \in solved.damaged THEN WrongSize
                 ELSE SizeOf(FrameAt(placed, p))
      own == IF d.pos = 0 THEN {[session |-> HeaderSession(current, d.wire), size |-> d.size]}
             ELSE {}
  IN  [code |-> solved,
       sizes |-> own \cup
         {[session |-> HeaderSession(current, absolute_frame_num(placed, p)),
           size |-> Size(p)] : p \in positions}]

UpdateSizes(ring, sizes) ==
  [i \in Slots |->
     IF ring[i].occupied /\ \E h \in sizes : h.session = ring[i].session_index
     THEN [ring[i] EXCEPT !.frame_size =
             (CHOOSE h \in sizes : h.session = ring[i].session_index).size]
     ELSE ring[i]]

-----------------------------------------------------------------------------
(* StreamingCode::add_packet and try_decode                                *)

AddPacket(bc, d) ==
  LET ahead == Advance(bc, d.wire, d.frame, MAX_DATA)
      slot == DecoderSlot(d.wire)
  IN  IF d.is_parity THEN PlaceParity(ahead, slot, d.stripe, d.frame)
      ELSE PlaceData(ahead, slot, d.stripe, d.frame)

(* frame_sizes_scratch: of two ring frames with the same code slot, the    *)
(* one later in the ring counts.                                           *)
UsedColumns(ring) ==
  [s \in Slots |->
     LET here == {i \in Slots : ring[i].occupied /\ DecoderSlot(frame_num(ring[i])) = s}
         last == CHOOSE i \in here : \A j \in here : j <= i
     IN  IF here = {} \/ ring[last].frame_size = NoSize THEN MAX_DATA
         ELSE ring[last].frame_size]

DecodeFrames(bc, ring) ==
  LET padded == Pad(bc, UsedColumns(ring), MAX_DATA)
  IN  Solve(padded, DecodeTwice(MissingColumns(padded), KnownRows(padded)))

(* Mutant: the oldest frame of the window counts as expired.               *)
ExpiredEarly(wire, ts) ==
  LET dist == (ts - wire) % TS_SPACE
  IN  dist <= MAX_FRAME_NUM \div 2 /\ dist >= NumFrames - 1

expired_frame(wire, ts) ==
  LET dist == (ts - wire) % TS_SPACE
  IN  dist <= MAX_FRAME_NUM \div 2 /\ dist >= NumFrames

is_frame_recovered(bc, f) ==
  /\ f.frame_size \in 1 .. MAX_DATA
  /\ bc.ts # NoTimeslot
  /\ ~ expired_frame(frame_num(f), bc.ts)
  /\ 1 .. f.frame_size \cap bc.erased[DecoderSlot(frame_num(f))] = {}

(* Mutant: only frames received in full count as decoded.                  *)
MarkNoneDecoded(ring, bc) == ring

MarkDecoded(ring, bc) ==
  [i \in Slots |-> IF ring[i].occupied /\ is_frame_recovered(bc, ring[i])
                   THEN [ring[i] EXCEPT !.is_decoded = TRUE] ELSE ring[i]]

-----------------------------------------------------------------------------
(* emit_pending: drain_recovered, then the loss report when it is due.     *)

(* Mutant: take_recovered_frame does not look at the delivered flag.       *)
DeliverableAgain(ring, bc) ==
  {i \in Slots : ring[i].occupied /\ is_frame_recovered(bc, ring[i])}

Deliverable(ring, bc) ==
  {i \in Slots : /\ ring[i].occupied
                 /\ ~ ring[i].delivered
                 /\ is_frame_recovered(bc, ring[i])}

Recovered(ring, bc) ==
  {[session |-> ring[i].session_index,
    frame |-> FrameIn(bc, DecoderSlot(frame_num(ring[i]))),
    intact |-> Intact(bc, DecoderSlot(frame_num(ring[i])))]
     : i \in Deliverable(ring, bc)}

Sessions(events) == {e.session : e \in events}

EmitPending(ring, bc, feedback, due) ==
  /\ frames_ring' = [i \in Slots |-> IF i \in Deliverable(ring, bc)
                                     THEN [ring[i] EXCEPT !.delivered = TRUE]
                                     ELSE ring[i]]
  /\ delivered' = delivered \cup Recovered(ring, bc)
  /\ again' = again \cup (Sessions(delivered) \cap Sessions(Recovered(ring, bc)))
  /\ feedback_frames' = IF due THEN <<>> ELSE feedback
  /\ reported' = IF due THEN reported \cup Range(feedback) ELSE reported

-----------------------------------------------------------------------------
Init ==
  /\ next_session_index = FIRST_FRAME /\ sqn = 0 /\ sent = {}
  /\ seen_seq = EmptyDedup
  /\ last_session = NoSession /\ received_first = FALSE /\ last_session_index = 0
  /\ frames_ring = [i \in Slots |-> Vacant]
  /\ feedback_frames = <<>>
  /\ code = EmptyCode /\ header_code = EmptyCode
  /\ delivered = {} /\ again = {} /\ reported = {}

(* encode_payload of a frame of shape.data data stripes, with shape.parity *)
(* parity stripes planned for it.  All its datagrams go to the channel.    *)
Datagrams(session, first, shape) ==
  {[seq |-> first + pos, wire |-> wire_frame_num(session), pos |-> pos,
    is_parity |-> pos >= shape.data,
    stripe |-> IF pos >= shape.data THEN pos - shape.data + 1 ELSE pos + 1,
    frame |-> session, size |-> shape.data]
     : pos \in 0 .. shape.data + shape.parity - 1}

Encode(shape) ==
  /\ next_session_index < FIRST_FRAME + MAX_FRAMES
  /\ sent' = sent \cup Datagrams(next_session_index, sqn, shape)
  /\ sqn' = sqn + shape.data + shape.parity
  /\ next_session_index' = next_session_index + 1
  /\ UNCHANGED <<seen_seq, tracking_vars, frames_ring, feedback_frames, code_vars,
                 history_vars>>

(* The datagrams the channel may still hand over, in any order, any number *)
(* of times, or never.                                                     *)
InFlight == {d \in sent : next_session_index - d.frame <= MAX_LAG}

(* receive_datagram, split by the status it returns.                       *)
Duplicate(d, due) ==
  /\ ~ insert(seen_seq, d.seq).ok
  /\ seen_seq' = insert(seen_seq, d.seq).state
  /\ EmitPending(frames_ring, code, feedback_frames, due)
  /\ UNCHANGED <<encoder_vars, tracking_vars, code_vars>>

(* Mutant: late sessions are not refused.                                  *)
NeverOutOfWindow(session) == FALSE

(* Two reasons to refuse a session: it left the window, or its slot holds  *)
(* a newer frame.                                                          *)
OutOfWindow(session) ==
  /\ received_first
  /\ \/ is_out_of_window_session(session, last_session_index, NumFrames)
     \/ LET f == frames_ring[slot_index(session)]
        IN  f.occupied /\ session < f.session_index

Refuse(d, session, due) ==
  /\ OutOfWindow(session)
  /\ seen_seq' = remove(insert(seen_seq, d.seq).state, d.seq)
  /\ last_session' = session
  /\ EmitPending(frames_ring, code, feedback_frames, due)
  /\ UNCHANGED <<encoder_vars, received_first, last_session_index, code_vars>>

(* The ring with the datagram added, before decoding.                      *)
Added(d, session, sizes) ==
  [UpdateSizes(Opened(session), sizes) EXCEPT ![slot_index(session)] = add_pkt(@, d)]

Accept(d, session, due) ==
  LET header == ReceiveHeader(header_code, d, session)
      ring == Added(d, session, header.sizes)
      bc == DecodeFrames(AddPacket(code, d), ring)
  IN  /\ ~ OutOfWindow(session)
      /\ seen_seq' = RemoveAll(insert(seen_seq, d.seq).state,
                               PurgedSeqs(frames_ring, session))
      /\ last_session' = session
      /\ header_code' = header.code
      /\ code' = bc
      /\ received_first' = TRUE
      /\ last_session_index' = IF session > last_session_index THEN session
                               ELSE last_session_index
      /\ EmitPending(MarkDecoded(ring, bc), bc,
                     feedback_frames \o PurgedVerdicts(frames_ring, session), due)
      /\ UNCHANGED encoder_vars

Receive(d, due) ==
  \/ Duplicate(d, due)
  \/ /\ insert(seen_seq, d.seq).ok
     /\ LET session == resolve_wire(last_session, d.wire)
        IN  Refuse(d, session, due) \/ Accept(d, session, due)

Poll(due) ==
  /\ EmitPending(frames_ring, code, feedback_frames, due)
  /\ UNCHANGED <<encoder_vars, seen_seq, tracking_vars, code_vars>>

Next ==
  \/ \E shape \in Shapes : Encode(shape)
  \/ \E d \in InFlight, due \in BOOLEAN : Receive(d, due)
  \/ \E due \in BOOLEAN : Poll(due)

Spec == Init /\ [][Next]_vars

-----------------------------------------------------------------------------
Verdicts == Range(feedback_frames) \cup reported
InRing(s) == Occupied(frames_ring, s)

(***************************************************************************)
(* The three sliding windows are one window: the ring by session, the      *)
(* payload code and the header code by timeslot all end at the last        *)
(* session accepted, and no frame stays in the ring once it is out of it.  *)
(***************************************************************************)
WindowsAgree ==
  received_first =>
    /\ code.ts = wire_frame_num(last_session_index)
    /\ header_code.ts = code.ts
    /\ InRing(last_session_index)
    /\ \A i \in Slots : frames_ring[i].occupied =>
         /\ slot_index(frames_ring[i].session_index) = i
         /\ last_session_index - frames_ring[i].session_index \in 0 .. NumFrames - 1

(* A slot of either code never mixes stripes of two frames, which a late   *)
(* datagram or a slot taken over uncleared would cause: every frame given  *)
(* to the application consists of the bytes that were sent for it.         *)
SlotsUnmixed ==
  \A c \in {code, header_code} : c.ts # NoTimeslot => Consistent(c)

DeliveredIntact ==
  \A e \in delivered : e.intact /\ wire_frame_num(e.frame) = wire_frame_num(e.session)

(* No frame is given to the application twice, late duplicates and slot    *)
(* reuse included.                                                         *)
DeliveredOnce == again = {}

(* Nothing that arrived is withheld: a frame of the window all of whose    *)
(* data stripes were accepted has been delivered before the call returns,  *)
(* in whatever order they and the frame's size came.                       *)
CompleteIsDelivered ==
  \A i \in Slots :
    LET f == frames_ring[i]
    IN  f.occupied /\ f.data # {} /\ Cardinality(f.data) = SizeOf(f.session_index)
          => f.delivered

(* Verdicts are given in session order, one per frame, never to a frame    *)
(* that is still in the ring, say "decoded" exactly of the frames that     *)
(* were delivered, and no delivered frame leaves the ring without one.     *)
VerdictsAreFinal ==
  /\ \A i, j \in DOMAIN feedback_frames :
       i < j => feedback_frames[i].session < feedback_frames[j].session
  /\ \A v \in reported, w \in Range(feedback_frames) : v.session < w.session
  /\ \A v \in Verdicts : /\ ~ InRing(v.session)
                         /\ v.decoded <=> v.session \in Sessions(delivered)
  /\ \A s \in Sessions(delivered) : InRing(s) \/ \E v \in Verdicts : v.session = s

(* loss/mod.rs: frame_losses has an entry per frame.  The frames a burst   *)
(* of losses skips, if the ring has room for them, are in it, where the    *)
(* loss report will find them, or were in it before the window moved on.   *)
SkippedAreCounted ==
  [][\A s \in last_session_index + 1 .. last_session_index' :
       received_first /\ last_session_index' - last_session_index <= NumFrames
         => \/ InRing(s)'
            \/ \E v \in Verdicts' : v.session = s]_vars

(* The duplicate filter knows the packets of the frames in the ring and    *)
(* no others: a packet is added to its frame once, and the sequence        *)
(* numbers of a purged frame are forgotten with it.                        *)
DedupMatchesRing ==
  {seen_seq.base + o : o \in seen_seq.bits}
    = UNION {seq_nums(frames_ring[i]) : i \in {j \in Slots : frames_ring[j].occupied}}

(* The receiver session implements FrameDelivery.                          *)
Delivery ==
  INSTANCE FrameDelivery WITH
    offered <- next_session_index,
    delivered <- Sessions(delivered),
    verdicts <- Verdicts

ImplementsDelivery == Delivery!Spec

=============================================================================
