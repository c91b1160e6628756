---------------------------- MODULE MCTapeFormat ----------------------------
(***************************************************************************)
(* Model-checking instance of TapeFormat.  Every byte of a reading but one  *)
(* holds Base, so that a field read from a wrong byte, or in a wrong order, *)
(* shows; the values of that one lie at the limits of signed and unsigned.  *)
(***************************************************************************)
EXTENDS TapeFormat

MCRssis == {-80, 127}
=============================================================================
