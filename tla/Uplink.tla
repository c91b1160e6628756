------------------------------- MODULE Uplink -------------------------------
(***************************************************************************)
(* The cloud thread with its requests in detail: CloudQueue and CloudComm   *)
(* together.  Where CloudQueue has one step for a request, here the request *)
(* is a call of CloudComm that takes many steps, may be cut short by any    *)
(* failure, and may hang until its time-out, while the scan thread, main()  *)
(* and the SIGINT handler go on.                                            *)
(***************************************************************************)
EXTENDS CloudComm

CONSTANTS MaxAdverts, MaxSignals    \* CloudQueue's bounds

VARIABLES keepRunning, queue, mutex, waiting, scanPc, pushed, cloudPc, blePkt,
          seqNumber, handled, mainPc, sigPc, signals, missedNotify

Queue == INSTANCE CloudQueue

\* The packets' data are the packets with the numbers they may carry.
ASSUME UplinkAssumption ==
  /\ MaxAdverts \in Nat /\ MaxSignals \in Nat
  /\ Requests = (1..Queue!MaxPackets) \X (1..MaxAdverts)

queueVars == <<keepRunning, queue, mutex, waiting, scanPc, pushed, cloudPc, blePkt,
               seqNumber, handled, mainPc, sigPc, signals, missedNotify>>

UplinkInit == Init /\ Queue!Init

\* The rest of the program moves between two steps of a request.
ScanStep    == Queue!ScanThread /\ UNCHANGED commVars
WakeStep    == Queue!SpuriousWakeup /\ UNCHANGED commVars
SigClearStep  == Queue!SigClear /\ UNCHANGED commVars
SigNotifyStep == Queue!SigNotify /\ UNCHANGED commVars
MainStep    == Queue!MainStep /\ UNCHANGED commVars

\* The cloud thread outside sendDataUrlToCloud.
LoopStep ==
  /\ \/ Queue!CloudCheck \/ Queue!CloudLock \/ Queue!CloudPredicate
     \/ Queue!CloudBlock \/ Queue!CloudWake \/ Queue!CloudPop
     \/ Queue!CloudDrained \/ Queue!CloudUrl \/ Queue!CloudRelock
  /\ UNCHANGED commVars

\* A packet's data: the packet, and the number C its text carries.
Request(n) == <<n, seqNumber[Queue!TypeOf(n)]>>

\* The cloud thread calls sendDataUrlToCloud.
StartRequest ==
  /\ cloudPc = "send"
  /\ Begin(Request(blePkt))
  /\ UNCHANGED queueVars

CallSteps == CallStep /\ UNCHANGED queueVars
OutsideSteps == Outside /\ UNCHANGED queueVars
TimeoutStep == TransferTimesOut /\ UNCHANGED queueVars

\* The call returns; the cloud thread does not look at its result.
EndRequest == Queue!CloudSend /\ Return

CrashStep == Queue!CloudCrash /\ Crash

CloudStep == LoopStep \/ StartRequest \/ CallSteps \/ EndRequest

UplinkNext ==
  \/ ScanStep \/ WakeStep \/ SigClearStep \/ SigNotifyStep \/ MainStep
  \/ CloudStep \/ OutsideSteps \/ TimeoutStep \/ CrashStep

uplinkVars == <<commVars, queueVars>>

UplinkSpec == UplinkInit /\ [][UplinkNext]_uplinkVars

(***************************************************************************)
(* Threads are scheduled, as in CloudQueue, and a time-out that is set      *)
(* fires.  Nothing is promised of the network: a request may never arrive.   *)
(***************************************************************************)
UplinkFairSpec ==
  /\ UplinkSpec
  /\ WF_uplinkVars(ScanStep) /\ WF_uplinkVars(CloudStep)
  /\ WF_uplinkVars(TimeoutStep)
  /\ WF_uplinkVars(SigNotifyStep) /\ WF_uplinkVars(MainStep)

-----------------------------------------------------------------------------
(* Properties.                                                             *)

\* What the program asks of the network: requests for packets in the order they
\* were pushed, none for a packet twice, whatever has failed, none that was not
\* popped, and the packets of the k-th advertisement all with the number k.  The
\* network may repeat and reorder them: a type and a number tell packets apart
\* (main.cpp:445-543, 836-865).
SentInOrder ==
  /\ \A i, j \in 1..Len(sent) : i < j => sent[i].of[1] < sent[j].of[1]
  /\ \A i \in 1..Len(sent) :
       LET n == sent[i].of[1]
       IN  /\ n \in 1..Len(handled)
           /\ sent[i].of[2] = ((n - 1) \div Queue!BurstLen) + 1

\* The cloud thread has done with the n-th packet it has popped.
DoneWith(n) == n < Len(handled) \/ cloudPc \notin {"url", "send", "dead"}

\* No packet is lost without a failure in its own call, which that call tells its
\* caller, and no failure of an earlier call costs a later packet: when the cloud
\* thread has done with a packet, something has failed in its call, or the service
\* has its request, with the whole text if it can be sent.  The packets that are
\* lost all the same stay lost: the cloud thread does not look at the result
\* (main.cpp:846-863, cloudComm.cpp:83-197).
PacketsAccounted ==
  /\ callPc = "done" => (result = 1 <=> failing)
  /\ \A n \in 1..Len(handled) : DoneWith(n) =>
       \/ \E r \in failed : r[1] = n
       \/ \E i \in received :
            sent[i].of[1] = n /\ (sent[i].part = "whole" \/ Unsendable(sent[i].text))

\* With its requests in detail the program still is what CloudQueue says,
\* fairness included: whatever fails and however long the service is silent,
\* every request ends, so CloudQueue's liveness and shutdown hold.
QueueSpec == Queue!FairSpec

=============================================================================
