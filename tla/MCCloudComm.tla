----------------------------- MODULE MCCloudComm -----------------------------
(***************************************************************************)
(* Model-checking instance of CloudComm: any sequence of calls until        *)
(* MaxSent requests have gone out.  The lengths lie around those at which a *)
(* text, a URL or a base is just short enough or just too long.             *)
(***************************************************************************)
EXTENDS CloudComm

MaxSent == 2

MCNext == Next /\ Len(sent') <= MaxSent
MCSpec == Init /\ [][MCNext]_commVars

\* 256 and 511: with a cut text, and by itself, the base fills the buffer.
MCBaseLens == {100, 255, 256, 299, 300, 511, 512}
MCTextLens == {1, 211, 212, 255, 256}
=============================================================================
