--------------------------- MODULE MCTransmission ---------------------------
(* Model values for Transmission.                                          *)
EXTENDS Transmission

SomeSettings ==
  [tau |-> {0, 1, 7, 8}, w |-> {8}, packet_size |-> {4, 48},
   max_data_stripes |-> {8, 65535}, max_fec_stripes |-> {0, 2, 4, 9363},
   max_frame_size |-> {0, 2048}, max_pkt_size |-> {600},
   parity_delay |-> {1}, min_window_parity |-> {65535}, target_burst |-> {2}]

(* The default configuration, with the largest floor.                      *)
LargestFloor == [min_window_parity |-> {U16 - 1}]

=============================================================================
