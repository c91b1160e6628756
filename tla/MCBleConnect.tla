---------------------------- MODULE MCBleConnect ----------------------------
(***************************************************************************)
(* Model-checking instance of BleConnect.  The configuration lists tape 1   *)
(* twice, in both forms, tape 2 once, tape 3 in lower case, and one text    *)
(* that is no address.  Delay and back-off are scaled so that the back-off  *)
(* of a first retry is longer than the delay; the descriptors run out after *)
(* two or three connections.                                                *)
(***************************************************************************)
EXTENDS BleConnect

MCConfigTapes ==
  <<Text(1, "raw", TRUE), Text(1, "colon", TRUE), Text(2, "colon", TRUE),
    Text(3, "colon", FALSE), Text(4, "other", TRUE)>>
=============================================================================
