--------------------------- MODULE PacketChannel ---------------------------
(***************************************************************************)
(* What the queue between the two threads promises: a first-in first-out   *)
(* channel.  Packets are numbered by the order in which they are put in.   *)
(* While the channel is open every packet put in is taken out; once closed *)
(* it may still be emptied, but packets may also stay in it for ever.      *)
(* CloudQueue implements this specification.                               *)
(***************************************************************************)
EXTENDS Integers, Sequences

VARIABLES put,    \* how many packets have been put in
          got,    \* the packets taken out, in order
          open    \* FALSE once shutdown has been asked for

vars == <<put, got, open>>

Init == put = 0 /\ got = <<>> /\ open = TRUE

\* The producer is not told of the shutdown between two packets of a burst.
Put == put' = put + 1 /\ UNCHANGED <<got, open>>

Take ==
  /\ Len(got) < put
  /\ got' = Append(got, Len(got) + 1)
  /\ UNCHANGED <<put, open>>

Close == open /\ open' = FALSE /\ UNCHANGED <<put, got>>

Next == Put \/ Take \/ Close

Safe == Init /\ [][Next]_vars

\* A packet in an open channel is taken out.
Spec == Safe /\ WF_vars(open /\ Take)
=============================================================================
