---------------------------- MODULE Configuration ----------------------------
(***************************************************************************)
(* A session's configuration: the builder of src/config.rs, what build     *)
(* accepts, and whether Encoder::new and Decoder::new can open a session   *)
(* with it (Config::streaming_code and header_code, src/codec/mod.rs).     *)
(*                                                                         *)
(* The feedback bytes are in FeedbackLoop.                                 *)
(***************************************************************************)
EXTENDS PacketPlan

NoBurst == -1

Defaults ==
  [tau |-> 3, w |-> 32, packet_size |-> 8, max_data_stripes |-> 64, max_fec_stripes |-> 32,
   max_frame_size |-> 16383, max_pkt_size |-> 1500, parity_delay |-> 0,
   min_window_parity |-> 0, target_burst |-> NoBurst]

TAU_MAX == 8

(* What a setter can be given: Tau::new refuses a larger tau.              *)
Fields ==
  [tau |-> 0 .. TAU_MAX, w |-> {8, 32}, packet_size |-> 1 .. U16 - 1,
   max_data_stripes |-> 1 .. U16 - 1, max_fec_stripes |-> 0 .. U16 - 1,
   max_frame_size |-> Nat, max_pkt_size |-> 1 .. U16 - 1, parity_delay |-> 0 .. U16 - 1,
   min_window_parity |-> 0 .. U16 - 1, target_burst |-> {NoBurst} \cup 0 .. U16 - 1]

stripe_size(c) == c.w * c.packet_size
window_frames(c) == 2 * c.tau + 1

-----------------------------------------------------------------------------
(* Mutant: build does not ask for the parity rows of a frame of the        *)
(* maximum size.                                                           *)
RefusalWithoutFec(b) ==
  LET required_data == CeilDiv(b.max_frame_size, stripe_size(b))
  IN  IF stripe_size(b) > b.max_pkt_size THEN "StripeLargerThanPacket"
      ELSE IF required_data > b.max_data_stripes THEN "InsufficientDataStripes"
      ELSE "None"

(* The checks of build, in their order.  ParityCapacityOverflow is no      *)
(* outcome: the product of a stripe size that fits a packet and a u16      *)
(* fits u32.                                                               *)
Refusal(b) ==
  LET required_data == CeilDiv(b.max_frame_size, stripe_size(b))
  IN  IF stripe_size(b) > b.max_pkt_size THEN "StripeLargerThanPacket"
      ELSE IF required_data > b.max_data_stripes THEN "InsufficientDataStripes"
      ELSE IF num_parity_stripes_high(required_data) > b.max_fec_stripes
      THEN "InsufficientFecStripes"
      ELSE "None"

(* build: the floor follows from the last tau that was set, cut to u16.    *)
Built(b) ==
  IF b.target_burst = NoBurst THEN b
  ELSE [b EXCEPT !.min_window_parity = k_min(b.target_burst, window_frames(b)) % U16]

-----------------------------------------------------------------------------
(* The dimensions of the payload code's matrix: u16 products.              *)
Cols(c) == c.max_data_stripes * window_frames(c)
Rows(c) == c.max_fec_stripes * window_frames(c)
n_cols(c) == Cols(c) % U16
n_rows(c) == Rows(c) % U16

max_field_elements(w) == IF w = 8 THEN 256 ELSE U16

(* header_matrix_config: the rows of the frame-size code are the largest   *)
(* multiple of the window length that 255 elements allow; rows per frame.  *)
max_pkts_per_frame(c) == (255 \div window_frames(c)) \div window_frames(c)

(* Encoder::new and Decoder::new.  With overflow checks a product that     *)
(* does not fit panics.  Without, it wraps, and is then no multiple of the *)
(* window length, so that some row or column belongs to no frame, which    *)
(* zero_by_frame expects never to happen.                                  *)
Opened(c, checks) ==
  IF checks /\ (Cols(c) >= U16 \/ Rows(c) >= U16) THEN "panic"
  ELSE IF \/ n_rows(c) = 0 \/ n_cols(c) = 0
          \/ c.packet_size % 8 # 0
          \/ n_cols(c) + n_rows(c) > max_field_elements(c.w) THEN "error"
  ELSE IF n_cols(c) % window_frames(c) # 0 \/ n_rows(c) % window_frames(c) # 0 THEN "panic"
  ELSE IF max_pkts_per_frame(c) = 0 THEN "error"
  ELSE "open"

=============================================================================
