------------------------------ MODULE MCUplink ------------------------------
(***************************************************************************)
(* Model-checking instance of Uplink: one advertisement, so four requests   *)
(* that share a handle.  With a text of 211 the URL has room to spare after *)
(* a base of 299, fills its buffer after one of 300 and is too long after   *)
(* one of 301; a base of 512 does not fit by itself.                        *)
(***************************************************************************)
EXTENDS Uplink

MCRequests == (1..Queue!BurstLen) \X (1..MaxAdverts)
MCBaseLens == {299, 300, 301, 512}
MCTextLens == {211}
=============================================================================
