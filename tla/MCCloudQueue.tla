---------------------------- MODULE MCCloudQueue ----------------------------
(***************************************************************************)
(* Model-checking instance of CloudQueue.  Two advertisements make eight    *)
(* packets, so the queue grows, is drained and is found empty again while   *)
(* the other thread is at every possible place; two SIGINTs let a second    *)
(* one arrive during or after the shutdown the first one began.             *)
(***************************************************************************)
EXTENDS CloudQueue
=============================================================================
