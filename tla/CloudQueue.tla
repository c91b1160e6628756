----------------------------- MODULE CloudQueue -----------------------------
(***************************************************************************)
(* The hand-over of BLE packets from the scan thread to the cloud thread,  *)
(* and the shutdown protocol around it (src/main.cpp): bleDataQueue, its    *)
(* mutex and condition variable, the atomic keepRunning, the SIGINT        *)
(* handler and main()'s two joins.                                         *)
(*                                                                         *)
(* A packet is identified by the order in which it is pushed: the n-th     *)
(* packet pushed is the number n.  One accepted advertisement pushes the   *)
(* packets of Burst, in that order, with no test of keepRunning between    *)
(* them.  How an advertisement comes to be accepted is AdvertPipeline's    *)
(* subject, and when the scan thread reads them is BleScan's.              *)
(***************************************************************************)
EXTENDS Integers, Sequences

CONSTANTS MaxAdverts,   \* bound: advertisements the scan thread accepts
          MaxSignals    \* bound: SIGINTs delivered to the process

ASSUME BoundsAssumption == MaxAdverts \in Nat /\ MaxSignals \in Nat

\* The packets one accepted TMP117 advertisement turns into, in push order.
Burst == <<"TMP117", "OPT3110", "IAT", "DPD">>
BurstLen == 4
PacketTypes == {"TMP117", "OPT3110", "IAT", "DPD"}

\* BleDataPacket.blePktType of the n-th packet pushed.
TypeOf(n) == Burst[((n - 1) % BurstLen) + 1]

MaxPackets == BurstLen * MaxAdverts

VARIABLES
  keepRunning,    \* std::atomic<bool> keepRunning
  queue,          \* bleDataQueue
  mutex,          \* owner of bleQueueMutex: "free", "scan" or "cloud"
  waiting,        \* TRUE while the cloud thread is in bleQueueCondVar's wait set
  scanPc,         \* where the scan thread is
  pushed,         \* how many packets the scan thread has pushed
  cloudPc,        \* where the cloud thread is
  blePkt,         \* the cloud thread's local blePkt (0 before the first pop)
  seqNumber,      \* createBleDataUrlExtension's static seqNumber[]
  handled,        \* history: the packets popped, in the order they were popped
  mainPc,         \* where main() is
  sigPc,          \* where the SIGINT handler is ("idle": not running)
  signals,        \* how many SIGINTs have been delivered
  missedNotify    \* history: a handler's notify_all fell between the cloud
                  \* thread's test of its predicate and its going to sleep

scanVars  == <<scanPc, pushed>>
cloudVars == <<cloudPc, blePkt, seqNumber, handled>>
sigVars   == <<sigPc, signals, missedNotify>>
vars == <<keepRunning, queue, mutex, waiting, scanVars, cloudVars, mainPc, sigVars>>

ScanPcs  == {"loop", "work", "lock", "push", "notify", "unlock", "exit", "dead"}
CloudPcs == {"check", "lock", "pred", "block", "wait", "drain", "url", "send",
             "relock", "exit", "dead"}
MainPcs  == {"running", "joinCloud", "joinScan", "done", "dead"}
SigPcs   == {"idle", "notify", "dead"}

Init ==
  /\ keepRunning = TRUE
  /\ queue = <<>>
  /\ mutex = "free"
  /\ waiting = FALSE
  /\ scanPc = "loop" /\ pushed = 0
  /\ cloudPc = "check" /\ blePkt = 0
  /\ seqNumber = [t \in PacketTypes |-> 0]
  /\ handled = <<>>
  /\ mainPc = "running"
  /\ sigPc = "idle" /\ signals = 0 /\ missedNotify = FALSE

-----------------------------------------------------------------------------
(* Scan thread: the producer.                                              *)

\* One of the scan thread's tests of keepRunning.
ScanCheck ==
  /\ scanPc = "loop"
  /\ scanPc' = IF keepRunning THEN "work" ELSE "exit"
  /\ UNCHANGED <<keepRunning, queue, mutex, waiting, pushed, cloudVars, mainPc, sigVars>>

\* The round accepts no advertisement and returns to a loop head.
ScanNothing ==
  /\ scanPc = "work"
  /\ scanPc' = "loop"
  /\ UNCHANGED <<keepRunning, queue, mutex, waiting, pushed, cloudVars, mainPc, sigVars>>

\* An advertisement passes the checks: its burst of packets follows.
ScanAccept ==
  /\ scanPc = "work"
  /\ pushed < MaxPackets
  /\ scanPc' = "lock"
  /\ UNCHANGED <<keepRunning, queue, mutex, waiting, pushed, cloudVars, mainPc, sigVars>>

SendLock ==
  /\ scanPc = "lock"
  /\ mutex = "free"
  /\ mutex' = "scan"
  /\ scanPc' = "push"
  /\ UNCHANGED <<keepRunning, queue, waiting, pushed, cloudVars, mainPc, sigVars>>

SendPush ==
  /\ scanPc = "push"
  /\ queue' = Append(queue, pushed + 1)
  /\ pushed' = pushed + 1
  /\ scanPc' = "notify"
  /\ UNCHANGED <<keepRunning, mutex, waiting, cloudVars, mainPc, sigVars>>

\* Seeded fault: notify_one is forgotten.
NotifyForgotten ==
  /\ scanPc = "notify"
  /\ scanPc' = "unlock"
  /\ UNCHANGED <<keepRunning, queue, mutex, waiting, pushed, cloudVars, mainPc, sigVars>>

\* notify_one: there is one waiter at most, and it is taken out of the wait set.
SendNotify ==
  /\ scanPc = "notify"
  /\ waiting' = FALSE
  /\ scanPc' = "unlock"
  /\ UNCHANGED <<keepRunning, queue, mutex, pushed, cloudVars, mainPc, sigVars>>

\* Seeded fault: the rest of a burst is given up once SIGINT has come.
UnlockAbandonsBurst ==
  /\ scanPc = "unlock"
  /\ mutex' = "free"
  /\ scanPc' = IF pushed % BurstLen = 0 \/ ~keepRunning THEN "loop" ELSE "lock"
  /\ UNCHANGED <<keepRunning, queue, waiting, pushed, cloudVars, mainPc, sigVars>>

\* The lock_guard goes out of scope; the next packet of the burst follows, if any.
SendUnlock ==
  /\ scanPc = "unlock"
  /\ mutex' = "free"
  /\ scanPc' = IF pushed % BurstLen = 0 THEN "loop" ELSE "lock"
  /\ UNCHANGED <<keepRunning, queue, waiting, pushed, cloudVars, mainPc, sigVars>>

ScanThread ==
  \/ ScanCheck \/ ScanNothing \/ ScanAccept
  \/ SendLock \/ SendPush \/ SendNotify \/ SendUnlock

-----------------------------------------------------------------------------
(* Cloud thread: the consumer.                                             *)

CloudCheck ==
  /\ cloudPc = "check"
  /\ cloudPc' = IF keepRunning THEN "lock" ELSE "exit"
  /\ UNCHANGED <<keepRunning, queue, mutex, waiting, scanVars, blePkt, seqNumber,
                 handled, mainPc, sigVars>>

\* The unique_lock's constructor, and the re-lock inside wait() after a wake-up.
CloudLock ==
  /\ cloudPc = "lock"
  /\ mutex = "free"
  /\ mutex' = "cloud"
  /\ cloudPc' = "pred"
  /\ UNCHANGED <<keepRunning, queue, waiting, scanVars, blePkt, seqNumber, handled,
                 mainPc, sigVars>>

\* Seeded fault: the predicate looks at the queue alone.
PredicateIgnoresShutdown ==
  /\ cloudPc = "pred"
  /\ cloudPc' = IF queue # <<>> THEN "drain" ELSE "block"
  /\ UNCHANGED <<keepRunning, queue, mutex, waiting, scanVars, blePkt, seqNumber,
                 handled, mainPc, sigVars>>

\* wait() evaluates its predicate, holding the mutex.
CloudPredicate ==
  /\ cloudPc = "pred"
  /\ cloudPc' = IF queue # <<>> \/ ~keepRunning THEN "drain" ELSE "block"
  /\ UNCHANGED <<keepRunning, queue, mutex, waiting, scanVars, blePkt, seqNumber,
                 handled, mainPc, sigVars>>

\* wait() releases the mutex and joins the wait set in one step.
CloudBlock ==
  /\ cloudPc = "block"
  /\ mutex' = "free"
  /\ waiting' = TRUE
  /\ cloudPc' = "wait"
  /\ UNCHANGED <<keepRunning, queue, scanVars, blePkt, seqNumber, handled, mainPc,
                 sigVars>>

\* A condition variable may wake its waiter without a notification.
SpuriousWakeup ==
  /\ cloudPc = "wait"
  /\ waiting
  /\ waiting' = FALSE
  /\ UNCHANGED <<keepRunning, queue, mutex, scanVars, cloudVars, mainPc, sigVars>>

CloudWake ==
  /\ cloudPc = "wait"
  /\ ~waiting
  /\ cloudPc' = "lock"
  /\ UNCHANGED <<keepRunning, queue, mutex, waiting, scanVars, blePkt, seqNumber,
                 handled, mainPc, sigVars>>

\* Seeded fault: front() is copied and pop() is forgotten.
PopForgotten ==
  /\ cloudPc = "drain"
  /\ queue # <<>>
  /\ Len(handled) < MaxPackets
  /\ blePkt' = Head(queue)
  /\ handled' = Append(handled, Head(queue))
  /\ mutex' = "free"
  /\ cloudPc' = "url"
  /\ UNCHANGED <<keepRunning, queue, waiting, scanVars, seqNumber, mainPc, sigVars>>

\* front(), pop() and unlock().
CloudPop ==
  /\ cloudPc = "drain"
  /\ queue # <<>>
  /\ blePkt' = Head(queue)
  /\ queue' = Tail(queue)
  /\ handled' = Append(handled, Head(queue))
  /\ mutex' = "free"
  /\ cloudPc' = "url"
  /\ UNCHANGED <<keepRunning, waiting, scanVars, seqNumber, mainPc, sigVars>>

\* The inner loop ends with the queue empty; the unique_lock goes out of scope.
CloudDrained ==
  /\ cloudPc = "drain"
  /\ queue = <<>>
  /\ mutex' = "free"
  /\ cloudPc' = "check"
  /\ UNCHANGED <<keepRunning, queue, waiting, scanVars, blePkt, seqNumber, handled,
                 mainPc, sigVars>>

\* Seeded fault: one counter serves all the packet types.
SharedCounter ==
  /\ cloudPc = "url"
  /\ seqNumber' = [t \in PacketTypes |-> seqNumber[t] + 1]
  /\ cloudPc' = "send"
  /\ UNCHANGED <<keepRunning, queue, mutex, waiting, scanVars, blePkt, handled,
                 mainPc, sigVars>>

\* createBleDataUrlExtension: the request carries C = ++seqNumber[type].
CloudUrl ==
  /\ cloudPc = "url"
  /\ seqNumber' = [seqNumber EXCEPT ![TypeOf(blePkt)] = @ + 1]
  /\ cloudPc' = "send"
  /\ UNCHANGED <<keepRunning, queue, mutex, waiting, scanVars, blePkt, handled,
                 mainPc, sigVars>>

\* sendDataUrlToCloud returns, with a result that nobody looks at.
CloudSend ==
  /\ cloudPc = "send"
  /\ cloudPc' = "relock"
  /\ UNCHANGED <<keepRunning, queue, mutex, waiting, scanVars, blePkt, seqNumber,
                 handled, mainPc, sigVars>>

\* The reply has a body: curlReqWriteCb strncat()s it over the std::string
\* object whose address it is given (cloudComm.cpp:72-76).  This is undefined;
\* the process may die on a wild pointer, and then every thread is gone.
CloudCrash ==
  /\ cloudPc = "send"
  /\ cloudPc' = "dead" /\ scanPc' = "dead" /\ mainPc' = "dead" /\ sigPc' = "dead"
  /\ UNCHANGED <<keepRunning, queue, mutex, waiting, pushed, blePkt, seqNumber,
                 handled, signals, missedNotify>>

\* Seeded fault: lock.lock() after the request is forgotten.
RelockForgotten ==
  /\ cloudPc = "relock"
  /\ cloudPc' = "drain"
  /\ UNCHANGED <<keepRunning, queue, mutex, waiting, scanVars, blePkt, seqNumber,
                 handled, mainPc, sigVars>>

CloudRelock ==
  /\ cloudPc = "relock"
  /\ mutex = "free"
  /\ mutex' = "cloud"
  /\ cloudPc' = "drain"
  /\ UNCHANGED <<keepRunning, queue, waiting, scanVars, blePkt, seqNumber, handled,
                 mainPc, sigVars>>

CloudThread ==
  \/ CloudCheck \/ CloudLock \/ CloudPredicate \/ CloudBlock \/ CloudWake
  \/ CloudPop \/ CloudDrained \/ CloudUrl \/ CloudSend \/ CloudRelock

-----------------------------------------------------------------------------
(* SIGINT handler and main thread.                                         *)

\* keyboardIrqHandler clears the flag; it does not take bleQueueMutex.
SigClear ==
  /\ sigPc = "idle"
  /\ signals < MaxSignals
  /\ mainPc # "done"
  /\ keepRunning' = FALSE
  /\ signals' = signals + 1
  /\ sigPc' = "notify"
  /\ UNCHANGED <<queue, mutex, waiting, scanVars, cloudVars, mainPc, missedNotify>>

\* bleQueueCondVar.notify_all().  No thread of the program waits on
\* tapeListCondVar, so the handler's second notify_all has no effect.
SigNotify ==
  /\ sigPc = "notify"
  /\ waiting' = FALSE
  /\ missedNotify' = (missedNotify \/ cloudPc = "block")
  /\ sigPc' = "idle"
  /\ UNCHANGED <<keepRunning, queue, mutex, scanVars, cloudVars, mainPc, signals>>

\* main() leaves its sleep loop, then joins the threads in order.
MainStep ==
  /\ \/ mainPc = "running" /\ ~keepRunning /\ mainPc' = "joinCloud"
     \/ mainPc = "joinCloud" /\ cloudPc = "exit" /\ mainPc' = "joinScan"
     \/ mainPc = "joinScan" /\ scanPc = "exit" /\ mainPc' = "done"
  /\ UNCHANGED <<keepRunning, queue, mutex, waiting, scanVars, cloudVars, sigVars>>

Next ==
  \/ ScanThread \/ CloudThread \/ SpuriousWakeup \/ CloudCrash
  \/ SigClear \/ SigNotify \/ MainStep

Spec == Init /\ [][Next]_vars

(***************************************************************************)
(* Each thread is scheduled.  A handler that has started runs to its end.  *)
(* No SIGINT, spurious wake-up or crash is promised.  Weak fairness is      *)
(* enough for the mutex because a burst is finite and the number of bursts *)
(* is bounded: the scan thread cannot hold the other off for ever.         *)
(***************************************************************************)
FairSpec ==
  /\ Spec
  /\ WF_vars(ScanThread) /\ WF_vars(CloudThread)
  /\ WF_vars(SigNotify) /\ WF_vars(MainStep)

-----------------------------------------------------------------------------
(* Properties.                                                             *)

\* The type invariant.  A request number never exceeds the number of
\* advertisements accepted.
TypeOK ==
  /\ keepRunning \in BOOLEAN
  /\ queue \in Seq(Nat)
  /\ mutex \in {"free", "scan", "cloud"}
  /\ waiting \in BOOLEAN
  /\ scanPc \in ScanPcs
  /\ pushed \in 0..MaxPackets
  /\ cloudPc \in CloudPcs
  /\ blePkt \in 0..MaxPackets
  /\ seqNumber \in [PacketTypes -> 0..MaxAdverts]
  /\ handled \in Seq(Nat)
  /\ mainPc \in MainPcs
  /\ sigPc \in SigPcs
  /\ signals \in 0..MaxSignals
  /\ missedNotify \in BOOLEAN

\* The places where a thread reads or changes bleDataQueue.
ScanInside  == scanPc \in {"push", "notify", "unlock"}
CloudInside == cloudPc \in {"pred", "block", "drain"}

\* std::queue is not thread safe: the two threads are never both at a place
\* where they use bleDataQueue, although the cloud thread gives the mutex up
\* around every request and takes it back in the middle of its loop.
QueueExclusive == ~(ScanInside /\ CloudInside)

\* No packet waits for a wake-up that has already gone by: if the cloud
\* thread sleeps and the queue holds a packet, the scan thread is just about
\* to notify it (main.cpp:546-548, push and notify under the mutex).
NoLostPacketWakeup == waiting /\ queue # <<>> => scanPc = "notify"

\* What has been popped followed by what is still queued is exactly what was
\* pushed, in push order: nothing is lost, repeated or overtaken between
\* sendBleDataPacket and the cloud thread, whatever the requests do.
FifoNoLoss == handled \o queue = [n \in 1..pushed |-> n]

\* SIGINT never splits a burst: the scan thread ends only between bursts.
WholeBursts == scanPc = "exit" => pushed % BurstLen = 0

\* How many requests have been numbered.
Numbered == IF cloudPc = "url" THEN Len(handled) - 1 ELSE Len(handled)

\* The counter of every packet type is the number of packets of that type
\* whose request was built: the four packets of the k-th advertisement all
\* carry C = k, so the cloud can tell which requests belong together.
RequestNumbers ==
  \A i \in 1..BurstLen :
    seqNumber[Burst[i]] = (Numbered + BurstLen - i) \div BurstLen

\* The process has ended, by itself or by the crash.
Ended == mainPc \in {"done", "dead"}

(***************************************************************************)
(* What is left to do after a SIGINT: no more steps than this, of all       *)
(* threads and handlers together.                                          *)
(***************************************************************************)

\* The packets still to come of the burst under way, or that may begin.
ToPush ==
  IF scanPc = "work" THEN BurstLen
  ELSE IF \/ scanPc \in {"lock", "push"}
          \/ scanPc \in {"notify", "unlock"} /\ (pushed % BurstLen) # 0
    THEN BurstLen - (pushed % BurstLen)
    ELSE 0

\* How far each of them is from its end, packets not counted.
ScanRank  == [loop |-> 1, work |-> 2, lock |-> 1, push |-> 0, notify |-> 3, unlock |-> 2,
              exit |-> 0, dead |-> 0]
CloudRank == [block |-> 7, wait |-> 5, lock |-> 4, pred |-> 3, url |-> 5, send |-> 4,
              relock |-> 3, drain |-> 2, check |-> 1, exit |-> 0, dead |-> 0]
MainRank  == [running |-> 3, joinCloud |-> 2, joinScan |-> 1, done |-> 0, dead |-> 0]
SigRank   == [notify |-> 1, idle |-> 0, dead |-> 0]

ScanWork  == ScanRank[scanPc] + 8 * ToPush
CloudWork == CloudRank[cloudPc] + (IF waiting THEN 1 ELSE 0)
OtherWork == MainRank[mainPc] + SigRank[sigPc] + 2 * (MaxSignals - signals)

\* A packet takes the scan thread four steps and, from the queue, the cloud
\* thread four.
ShutdownWork == ScanWork + CloudWork + OtherWork + 4 * Len(queue)

\* After a SIGINT every step of anybody, a spurious wake-up included, brings
\* the end nearer: no loop is entered again, no burst begins after the one that
\* may, and the queue is drained once (main.cpp:623, 702-817, 839-863, 908-919).
ShutdownProgress == [][~keepRunning => ShutdownWork' < ShutdownWork]_vars

\* After a SIGINT the program ends, unless the handler's notify_all fell in
\* the one gap where the cloud thread cannot receive it (main.cpp:842-844,
\* the predicate tested and the mutex not yet given up).
ShutdownUnlessMissed == (~keepRunning) ~> (Ended \/ missedNotify)

\* What the handler's message promises ("Received signal:%d, exiting...",
\* main.cpp:868): a SIGINT ends the program.
ShutdownCompletes == (~keepRunning) ~> Ended

(***************************************************************************)
(* What the queue is for: a first-in first-out channel between the threads, *)
(* open until the SIGINT or the crash.                                     *)
(***************************************************************************)
Channel == INSTANCE PacketChannel
             WITH put <- pushed, got <- handled, open <- keepRunning /\ ~Ended

\* CloudQueue implements the channel: its steps (Safe), and that an open
\* channel is emptied (Spec).
ChannelSafe == Channel!Safe
ChannelSpec == Channel!Spec

=============================================================================
