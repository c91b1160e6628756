-------------------------- MODULE MCAdvertPipeline --------------------------
(***************************************************************************)
(* Model-checking instance of AdvertPipeline: a listed and an unlisted     *)
(* tape, one reading of the type that is forwarded and one that is not.     *)
(* HoldSecs is 1 instead of 30, so that three reports of a tape can be      *)
(* processed, one held off and one let through late before MaxTime.        *)
(***************************************************************************)
EXTENDS AdvertPipeline

CONSTANTS listedTape, otherTape

MCTapes == {listedTape, otherTape}
MCListed == {listedTape}
MCReadings == {"warm", "light"}
MCQuartzType == [r \in MCReadings |-> IF r = "warm" THEN "TMP117" ELSE "OPT3110"]
MCRssis == {-81, -80, -61}
=============================================================================
