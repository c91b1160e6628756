---------------------------- MODULE UplinkProofs ----------------------------
(***************************************************************************)
(* Proofs about Uplink for every number of advertisements and SIGINTs:      *)
(* the program with its requests in detail takes CloudQueue's steps, so it   *)
(* inherits CloudQueue's invariant; its requests go out in order, and every *)
(* packet it has done with is accounted for.                                *)
(***************************************************************************)
EXTENDS Uplink, CloudCommProofs, TLAPS

QueueProofs == INSTANCE CloudQueueProofs

-----------------------------------------------------------------------------
(* Uplink implements CloudQueue.                                           *)

\* Every step is a step of CloudQueue, or leaves its variables alone.
LEMMA StepImplements == UplinkNext => Queue!Next \/ UNCHANGED queueVars
<1>1. SUFFICES ASSUME UplinkNext PROVE Queue!Next \/ UNCHANGED queueVars
  OBVIOUS
<1>2. CASE ScanStep \/ WakeStep \/ SigClearStep \/ SigNotifyStep \/ MainStep
  BY <1>2 DEF ScanStep, WakeStep, SigClearStep, SigNotifyStep, MainStep, Queue!Next
<1>3. CASE LoopStep \/ EndRequest
  BY <1>3 DEF LoopStep, EndRequest, Queue!Next, Queue!CloudThread
<1>4. CASE StartRequest \/ CallSteps \/ OutsideSteps \/ TimeoutStep
  BY <1>4 DEF StartRequest, CallSteps, OutsideSteps, TimeoutStep
<1>5. CASE CrashStep
  BY <1>5 DEF CrashStep, Queue!Next
<1>6. QED
  BY <1>1, <1>2, <1>3, <1>4, <1>5 DEF UplinkNext, CloudStep

\* Whatever the network does to a request, the threads, the queue and the
\* shutdown behave as CloudQueue says.
THEOREM ImplementsQueue == UplinkSpec => Queue!Spec
<1>1. UplinkInit => Queue!Init
  BY DEF UplinkInit
<1>2. [UplinkNext]_uplinkVars => [Queue!Next]_(Queue!vars)
  <2>1. UNCHANGED queueVars => UNCHANGED Queue!vars
    BY DEF queueVars, Queue!vars, Queue!scanVars, Queue!cloudVars, Queue!sigVars
  <2>2. QED
    BY <2>1, StepImplements DEF uplinkVars
<1>3. QED
  BY <1>1, <1>2, PTL DEF UplinkSpec, Queue!Spec

(* CloudQueue's invariant, proved in CloudQueueProofs, holds in Uplink too. *)

\* The module is instantiated twice; both instances are the same formulas.
LEMMA SameInit == Queue!Init => QueueProofs!Init
  BY DEF Queue!Init, QueueProofs!Init, Queue!PacketTypes, QueueProofs!PacketTypes

LEMMA SameStep == Queue!Next => QueueProofs!Next
<1>1. Queue!ScanThread => QueueProofs!ScanThread
  BY DEF Queue!ScanThread, QueueProofs!ScanThread, Queue!ScanCheck,
         QueueProofs!ScanCheck, Queue!ScanNothing, QueueProofs!ScanNothing,
         Queue!ScanAccept, QueueProofs!ScanAccept, Queue!SendLock,
         QueueProofs!SendLock, Queue!SendPush, QueueProofs!SendPush,
         Queue!SendNotify, QueueProofs!SendNotify, Queue!SendUnlock,
         QueueProofs!SendUnlock, Queue!MaxPackets, QueueProofs!MaxPackets,
         Queue!BurstLen, QueueProofs!BurstLen, Queue!scanVars, QueueProofs!scanVars,
         Queue!cloudVars, QueueProofs!cloudVars, Queue!sigVars, QueueProofs!sigVars,
         Queue!vars, QueueProofs!vars
<1>2. Queue!CloudThread => QueueProofs!CloudThread
  BY DEF Queue!CloudThread, QueueProofs!CloudThread, Queue!CloudCheck,
         QueueProofs!CloudCheck, Queue!CloudLock, QueueProofs!CloudLock,
         Queue!CloudPredicate, QueueProofs!CloudPredicate, Queue!CloudBlock,
         QueueProofs!CloudBlock, Queue!CloudWake, QueueProofs!CloudWake,
         Queue!CloudPop, QueueProofs!CloudPop, Queue!CloudDrained,
         QueueProofs!CloudDrained, Queue!CloudUrl, QueueProofs!CloudUrl,
         Queue!CloudSend, QueueProofs!CloudSend, Queue!CloudRelock,
         QueueProofs!CloudRelock, Queue!TypeOf, QueueProofs!TypeOf, Queue!Burst,
         QueueProofs!Burst, Queue!MaxPackets, QueueProofs!MaxPackets, Queue!BurstLen,
         QueueProofs!BurstLen, Queue!scanVars, QueueProofs!scanVars, Queue!cloudVars,
         QueueProofs!cloudVars, Queue!sigVars, QueueProofs!sigVars, Queue!vars,
         QueueProofs!vars
<1>3. Queue!Next => Queue!ScanThread \/ Queue!CloudThread \/ QueueProofs!Next
  BY DEF Queue!Next, QueueProofs!Next,
         Queue!SpuriousWakeup, QueueProofs!SpuriousWakeup, Queue!CloudCrash,
         QueueProofs!CloudCrash, Queue!SigClear, QueueProofs!SigClear,
         Queue!SigNotify, QueueProofs!SigNotify, Queue!MainStep,
         QueueProofs!MainStep, Queue!MaxPackets, QueueProofs!MaxPackets,
         Queue!BurstLen, QueueProofs!BurstLen, Queue!scanVars, QueueProofs!scanVars,
         Queue!cloudVars, QueueProofs!cloudVars, Queue!sigVars, QueueProofs!sigVars,
         Queue!vars, QueueProofs!vars
<1>4. QED
  BY <1>1, <1>2, <1>3 DEF QueueProofs!Next

LEMMA SameNext == [Queue!Next]_(Queue!vars) => [QueueProofs!Next]_(QueueProofs!vars)
<1>1. UNCHANGED Queue!vars => UNCHANGED QueueProofs!vars
  BY DEF Queue!scanVars, QueueProofs!scanVars, Queue!cloudVars,
         QueueProofs!cloudVars, Queue!sigVars, QueueProofs!sigVars, Queue!vars,
         QueueProofs!vars
<1>2. QED
  BY <1>1, SameStep

LEMMA QueueInvariance == UplinkSpec => []QueueProofs!IInv
<1>1. Queue!Init => QueueProofs!IInv
  BY SameInit, QueueProofs!InitIInv, UplinkAssumption
<1>2. QueueProofs!IInv /\ [Queue!Next]_(Queue!vars) => QueueProofs!IInv'
  BY SameNext, QueueProofs!StepIInv, UplinkAssumption
<1>3. QED
  BY <1>1, <1>2, ImplementsQueue, PTL DEF Queue!Spec

-----------------------------------------------------------------------------
(* What the program asks of the network.                                   *)

\* While a call runs the cloud thread is inside it, about its own packet.
InCall ==
  /\ callPc # "idle" /\ callPc # "dead" => cloudPc = "send" /\ urlBuff.of = Request(blePkt)
  /\ callPc = "dead" => cloudPc = "dead"

\* The packet being handled has not been sent before its call performs its request;
\* all that has been sent was popped before it.
NotYetSent == cloudPc = "url" \/ (cloudPc = "send" /\ callPc \in {"idle"} \cup BeforeTransfer)
Newest ==
  \A i \in 1..Len(sent) :
    sent[i].of[1] <= Len(handled) /\ (NotYetSent => sent[i].of[1] < Len(handled))

\* What PacketsAccounted says of the packets that have been handled.
Failed(n) == \E r \in failed : r[1] = n
Delivered(n) == \E i \in received : sent[i].of[1] = n
                                  /\ (sent[i].part = "whole" \/ Unsendable(sent[i].text))
HandledAccounted == \A n \in 1..Len(handled) : DoneWith(n) => Failed(n) \/ Delivered(n)

\* The URLs sent are such as createCloudDataUrl makes.
SentUrls == \A i \in 1..Len(sent) : sent[i].part = "whole" \/ Unsendable(sent[i].text)

ProgramIInv == InCall /\ Newest /\ SentInOrder /\ SentUrls /\ HandledAccounted

UplinkIInv ==
  /\ IInv
  /\ QueueProofs!IInv
  /\ ProgramIInv

LEMMA InitUplink == UplinkInit => UplinkIInv
<1>1. SUFFICES ASSUME UplinkInit PROVE UplinkIInv
  OBVIOUS
<1>2. IInv /\ QueueProofs!IInv
  BY <1>1, InitIInv, SameInit, QueueProofs!InitIInv, UplinkAssumption DEF UplinkInit
<1>3. sent = <<>> /\ callPc = "idle" /\ handled = <<>>
  BY <1>1 DEF UplinkInit, Init, Queue!Init
<1>4. InCall /\ Newest /\ SentInOrder /\ SentUrls /\ HandledAccounted
  BY <1>3 DEF InCall, Newest, SentInOrder, SentUrls, HandledAccounted
<1>5. QED
  BY <1>2, <1>4 DEF UplinkIInv, ProgramIInv

\* The packet whose request is made: its number, and the number C it carries.
LEMMA CurrentPacket ==
  ASSUME QueueProofs!IInv, cloudPc = "send"
  PROVE  /\ blePkt = Len(handled) /\ blePkt \in 1..Queue!MaxPackets
         /\ Request(blePkt) = <<blePkt, ((blePkt - 1) \div 4) + 1>>
         /\ Request(blePkt) \in Requests
<1>1. /\ blePkt = Len(handled) /\ Len(handled) > 0
      /\ blePkt \in 0..Queue!MaxPackets
      /\ seqNumber \in [Queue!PacketTypes -> 0..MaxAdverts]
      /\ Queue!MaxPackets \in Nat
  BY UplinkAssumption
     DEF QueueProofs!IInv, QueueProofs!TypeOK, QueueProofs!Current, Queue!MaxPackets,
         QueueProofs!MaxPackets, Queue!PacketTypes, QueueProofs!PacketTypes,
         Queue!BurstLen, QueueProofs!BurstLen
<1>2. blePkt \in 1..Queue!MaxPackets
  BY <1>1
<1>3. DEFINE k == ((blePkt - 1) % 4) + 1
<1>4. k \in 1..4 /\ (blePkt + 4 - k) \div 4 = ((blePkt - 1) \div 4) + 1
  BY <1>2
<1>5. seqNumber[Queue!Burst[k]] = (Len(handled) + 4 - k) \div 4
  BY <1>4 DEF QueueProofs!IInv, QueueProofs!RequestNumbers, QueueProofs!Numbered,
         QueueProofs!BurstLen, QueueProofs!Burst, Queue!Burst
<1>6. Queue!TypeOf(blePkt) = Queue!Burst[k]
  BY DEF Queue!TypeOf, Queue!BurstLen
<1>7. seqNumber[Queue!TypeOf(blePkt)] = ((blePkt - 1) \div 4) + 1
  BY <1>1, <1>4, <1>5, <1>6
<1>8. Queue!Burst[k] \in Queue!PacketTypes
  BY <1>4 DEF Queue!Burst, Queue!PacketTypes
<1>9. ((blePkt - 1) \div 4) + 1 \in 1..MaxAdverts
  <2>1. ((blePkt - 1) \div 4) + 1 \in 0..MaxAdverts
    BY <1>1, <1>6, <1>7, <1>8
  <2>2. QED
    BY <1>2, <2>1
<1>10. QED
  BY <1>1, <1>2, <1>7, <1>9, UplinkAssumption DEF Request

\* What the three parts about the requests sent say of an unchanged call.
LEMMA SentKept ==
  ASSUME UplinkIInv, UNCHANGED <<sent, handled, baseLen>>, NotYetSent' => NotYetSent
  PROVE  Newest' /\ SentInOrder' /\ SentUrls'
BY DEF UplinkIInv, ProgramIInv, Newest, SentInOrder, SentUrls, Unsendable, BytesNeeded

\* Nothing that accounts for a packet is taken back.
LEMMA AccountKept ==
  ASSUME UplinkIInv, UNCHANGED <<sent, baseLen>>, failed \subseteq failed', received \subseteq received',
         NEW n, Failed(n) \/ Delivered(n)
  PROVE  Failed(n)' \/ Delivered(n)'
<1>1. CASE Failed(n)
  BY <1>1 DEF Failed
<1>2. CASE Delivered(n)
  BY <1>2 DEF Delivered, Unsendable, BytesNeeded
<1>3. QED
  BY <1>1, <1>2

\* A packet that the thread has not just done with stays accounted for.
LEMMA HandledKept ==
  ASSUME UplinkIInv, UNCHANGED <<sent, baseLen, handled>>, failed \subseteq failed',
         received \subseteq received', \A n \in 1..Len(handled) : DoneWith(n)' => DoneWith(n)
  PROVE  HandledAccounted'
<1>1. SUFFICES ASSUME NEW n \in 1..Len(handled'), DoneWith(n)' PROVE Failed(n)' \/ Delivered(n)'
  BY DEF HandledAccounted
<1>2. n \in 1..Len(handled) /\ DoneWith(n)
  BY <1>1
<1>3. Failed(n) \/ Delivered(n)
  BY <1>2 DEF UplinkIInv, ProgramIInv, HandledAccounted
<1>4. QED
  BY <1>3, AccountKept

\* A step of CloudQueue that leaves the call alone.
LEMMA QueueStepKeeps ==
  ASSUME UplinkIInv, ScanStep \/ WakeStep \/ SigClearStep \/ SigNotifyStep \/ MainStep
  PROVE  ProgramIInv'
<1>1. UNCHANGED <<baseLen, callPc, urlBuff, sent, received, failed>>
  BY DEF ScanStep, WakeStep, SigClearStep, SigNotifyStep, MainStep, commVars, callVars, history
<1>2. UNCHANGED <<cloudPc, blePkt, seqNumber, handled>>
  BY DEF ScanStep, WakeStep, SigClearStep, SigNotifyStep, MainStep,
         Queue!ScanThread, Queue!ScanCheck, Queue!ScanNothing, Queue!ScanAccept,
         Queue!SendLock, Queue!SendPush, Queue!SendNotify, Queue!SendUnlock,
         Queue!SpuriousWakeup, Queue!SigClear, Queue!SigNotify, Queue!MainStep,
         Queue!cloudVars
<1>3. InCall'
  BY <1>1, <1>2 DEF UplinkIInv, ProgramIInv, InCall, Request
<1>4. Newest' /\ SentInOrder' /\ SentUrls'
  BY <1>1, <1>2, SentKept DEF NotYetSent
<1>5. HandledAccounted'
  BY <1>1, <1>2, HandledKept DEF DoneWith
<1>6. QED
  BY <1>3, <1>4, <1>5 DEF ProgramIInv

\* A step of the cloud thread outside its request.
LEMMA LoopStepKeeps ==
  ASSUME UplinkIInv, LoopStep
  PROVE  ProgramIInv'
<1>1. UNCHANGED <<baseLen, callPc, urlBuff, sent, received, failed>>
  BY DEF LoopStep, commVars, callVars, history
<1>2. cloudPc \notin {"send", "dead"} /\ callPc = "idle"
  BY DEF LoopStep, Queue!CloudCheck, Queue!CloudLock, Queue!CloudPredicate,
         Queue!CloudBlock, Queue!CloudWake, Queue!CloudPop, Queue!CloudDrained,
         Queue!CloudUrl, Queue!CloudRelock, UplinkIInv, ProgramIInv, InCall
<1>3. handled \in Seq(Nat)
  BY DEF UplinkIInv, QueueProofs!IInv, QueueProofs!TypeOK
<1>4. InCall'
  BY <1>1, <1>2 DEF InCall
<1>5. CASE Queue!CloudPop
  <2>1. handled' = Append(handled, Head(queue)) /\ cloudPc' = "url" /\ cloudPc # "url"
    BY <1>5 DEF Queue!CloudPop
  <2>2. Len(handled') = Len(handled) + 1 /\ Len(handled) \in Nat
    BY <1>3, <2>1
  <2>3. \A i \in 1..Len(sent) : /\ sent[i].of[1] \in 1..Len(handled)
                               /\ sent[i].of[2] = ((sent[i].of[1] - 1) \div Queue!BurstLen) + 1
    BY DEF UplinkIInv, ProgramIInv, SentInOrder
  <2>4. Newest'
    BY <1>1, <2>2, <2>3 DEF Newest
  <2>5. SentInOrder'
    <3>1. \A i \in 1..Len(sent) : sent[i].of[1] \in 1..Len(handled')
      BY <2>2, <2>3
    <3>2. \A i, j \in 1..Len(sent) : i < j => sent[i].of[1] < sent[j].of[1]
      BY DEF UplinkIInv, ProgramIInv, SentInOrder
    <3>3. QED
      BY <1>1, <2>3, <3>1, <3>2 DEF SentInOrder
  <2>6. SentUrls'
    BY <1>1 DEF UplinkIInv, ProgramIInv, SentUrls, Unsendable, BytesNeeded
  <2>7. HandledAccounted'
    <3>1. SUFFICES ASSUME NEW n \in 1..Len(handled'), DoneWith(n)' PROVE Failed(n)' \/ Delivered(n)'
      BY DEF HandledAccounted
    <3>2. n \in 1..Len(handled)
      BY <2>1, <2>2, <3>1 DEF DoneWith
    <3>3. DoneWith(n)
      BY <1>2, <2>1 DEF DoneWith
    <3>4. Failed(n) \/ Delivered(n)
      BY <3>2, <3>3 DEF UplinkIInv, ProgramIInv, HandledAccounted
    <3>5. QED
      BY <1>1, <3>4, AccountKept
  <2>8. QED
    BY <1>4, <2>4, <2>5, <2>6, <2>7 DEF ProgramIInv
<1>6. CASE ~Queue!CloudPop
  <2>1. /\ UNCHANGED handled /\ cloudPc' # "url" /\ cloudPc' # "dead"
        /\ cloudPc = "url" => cloudPc' = "send"
        /\ cloudPc' = "send" => cloudPc = "url"
    BY <1>6 DEF LoopStep, Queue!CloudCheck, Queue!CloudLock, Queue!CloudPredicate,
         Queue!CloudBlock, Queue!CloudWake, Queue!CloudDrained,
         Queue!CloudUrl, Queue!CloudRelock, Queue!cloudVars
  <2>2. Newest' /\ SentInOrder' /\ SentUrls'
    BY <1>1, <2>1, SentKept DEF NotYetSent
  <2>3. HandledAccounted'
    BY <1>1, <1>2, <2>1, HandledKept DEF DoneWith
  <2>4. QED
    BY <1>4, <2>2, <2>3 DEF ProgramIInv
<1>7. QED
  BY <1>5, <1>6

\* A request goes out: it is the current packet's, newer than all before it.
LEMMA PerformKeepsOrder ==
  ASSUME UplinkIInv, Perform, UNCHANGED queueVars
  PROVE  ProgramIInv'
<1>1. /\ cloudPc = "send" /\ urlBuff.of = Request(blePkt) /\ sent' = Append(sent, urlBuff)
      /\ callPc = "perform" /\ callPc' = "transfer"
      /\ UNCHANGED <<baseLen, urlBuff, received, failed, cloudPc, blePkt, seqNumber, handled>>
  BY DEF Perform, UplinkIInv, ProgramIInv, InCall, IInv, OptionsSet, AfterUrl, queueVars
<1>2. /\ blePkt = Len(handled) /\ blePkt \in Nat \ {0}
      /\ Request(blePkt) = <<blePkt, ((blePkt - 1) \div 4) + 1>>
  BY <1>1, CurrentPacket DEF UplinkIInv
<1>3. urlBuff.of[1] = blePkt /\ urlBuff.of[2] = ((blePkt - 1) \div 4) + 1
  BY <1>1, <1>2
<1>4. InCall'
  BY <1>1 DEF InCall, Request
<1>5. \A i \in 1..Len(sent) : sent[i].of[1] < blePkt
  BY <1>1, <1>2 DEF UplinkIInv, ProgramIInv, Newest, NotYetSent, BeforeTransfer
<1>6. sent \in Seq(Urls) /\ urlBuff \in Urls /\ received \subseteq 1..Len(sent)
  BY DEF UplinkIInv, IInv, TypeOK
<1>7. /\ Len(sent') = Len(sent) + 1 /\ Len(sent) \in Nat
      /\ \A i \in 1..Len(sent) : sent'[i] = sent[i]
      /\ sent'[Len(sent) + 1] = urlBuff
  BY <1>1, <1>6
<1>8. \A i \in 1..Len(sent') : i \in 1..Len(sent) \/ i = Len(sent) + 1
  BY <1>7
<1>9. Newest'
  <2>1. ~NotYetSent'
    BY <1>1 DEF NotYetSent, BeforeTransfer, OptionPcs
  <2>2. ASSUME NEW i \in 1..Len(sent')
        PROVE  sent'[i].of[1] <= Len(handled')
    <3>1. CASE i \in 1..Len(sent)
      BY <1>1, <1>7, <3>1 DEF UplinkIInv, ProgramIInv, Newest
    <3>2. CASE i = Len(sent) + 1
      BY <1>1, <1>2, <1>3, <1>7, <3>2
    <3>3. QED
      BY <1>8, <3>1, <3>2
  <2>3. QED
    BY <2>1, <2>2 DEF Newest
<1>10. SentInOrder'
  <2>1. ASSUME NEW i \in 1..Len(sent'), NEW j \in 1..Len(sent'), i < j
        PROVE  sent'[i].of[1] < sent'[j].of[1]
    <3>1. i \in 1..Len(sent)
      BY <1>7, <2>1
    <3>2. CASE j \in 1..Len(sent)
      BY <1>7, <2>1, <3>1, <3>2 DEF UplinkIInv, ProgramIInv, SentInOrder
    <3>3. CASE j = Len(sent) + 1
      BY <1>3, <1>5, <1>7, <3>1, <3>3
    <3>4. QED
      BY <1>8, <3>2, <3>3
  <2>2. ASSUME NEW i \in 1..Len(sent')
        PROVE  /\ sent'[i].of[1] \in 1..Len(handled')
               /\ sent'[i].of[2] = ((sent'[i].of[1] - 1) \div Queue!BurstLen) + 1
    <3>1. CASE i \in 1..Len(sent)
      <4>1. /\ sent[i].of[1] \in 1..Len(handled)
            /\ sent[i].of[2] = ((sent[i].of[1] - 1) \div Queue!BurstLen) + 1
        BY <3>1 DEF UplinkIInv, ProgramIInv, SentInOrder
      <4>2. QED
        BY <1>1, <1>7, <3>1, <4>1
    <3>2. CASE i = Len(sent) + 1
      <4>1. sent'[i].of[1] = blePkt /\ sent'[i].of[2] = ((blePkt - 1) \div 4) + 1
        BY <1>3, <1>7, <3>2
      <4>2. blePkt \in 1..Len(handled')
        BY <1>1, <1>2
      <4>3. QED
        BY <4>1, <4>2 DEF Queue!BurstLen
    <3>3. QED
      BY <1>8, <3>1, <3>2
  <2>3. QED
    BY <2>1, <2>2 DEF SentInOrder
<1>11. SentUrls'
  <2>1. urlBuff.part = "whole" \/ Unsendable(urlBuff.text)
    BY <1>1 DEF UplinkIInv, IInv, UrlFits
  <2>2. \A i \in 1..Len(sent) : sent[i].part = "whole" \/ Unsendable(sent[i].text)
    BY DEF UplinkIInv, ProgramIInv, SentUrls
  <2>3. QED
    BY <1>1, <1>7, <1>8, <2>1, <2>2 DEF SentUrls, Unsendable, BytesNeeded
<1>12. HandledAccounted'
  <2>1. SUFFICES ASSUME NEW n \in 1..Len(handled'), DoneWith(n)' PROVE Failed(n)' \/ Delivered(n)'
    BY DEF HandledAccounted
  <2>2. n \in 1..Len(handled) /\ DoneWith(n)
    BY <1>1, <2>1 DEF DoneWith
  <2>3. CASE Failed(n)
    BY <1>1, <2>3 DEF Failed
  <2>4. CASE Delivered(n)
    BY <1>1, <1>6, <1>7, <2>4 DEF Delivered, Unsendable, BytesNeeded
  <2>5. QED
    BY <2>2, <2>3, <2>4 DEF UplinkIInv, ProgramIInv, HandledAccounted
<1>13. QED
  BY <1>4, <1>9, <1>10, <1>11, <1>12 DEF ProgramIInv

\* The other steps of a request, and the arrival of one at any time.
LEMMA CallKeeps ==
  ASSUME UplinkIInv, (CallSteps \/ OutsideSteps \/ TimeoutStep) /\ ~Perform
  PROVE  ProgramIInv'
<1>1. UNCHANGED queueVars
  BY DEF CallSteps, OutsideSteps, TimeoutStep
<1>2. CASE \E i \in 1..Len(sent) : Arrive(i)
  <2>1. UNCHANGED <<baseLen, callPc, urlBuff, sent, failed>> /\ received \subseteq received'
    BY <1>2 DEF Arrive, callVars
  <2>2. InCall'
    BY <1>1, <2>1 DEF UplinkIInv, ProgramIInv, InCall, Request, queueVars
  <2>3. Newest' /\ SentInOrder' /\ SentUrls'
    BY <1>1, <2>1, SentKept DEF NotYetSent, queueVars
  <2>4. HandledAccounted'
    BY <1>1, <2>1, HandledKept DEF DoneWith, queueVars
  <2>5. QED
    BY <2>2, <2>3, <2>4 DEF ProgramIInv
<1>3. CASE ~(\E i \in 1..Len(sent) : Arrive(i))
  <2>1. /\ UNCHANGED <<baseLen, urlBuff, sent, received, failed>>
        /\ callPc \notin {"idle", "dead"} /\ callPc' \notin {"idle", "dead"}
        /\ callPc' \in BeforeTransfer => callPc \in BeforeTransfer
    BY <1>3 DEF CallSteps, OutsideSteps, TimeoutStep, CallStep, Outside, BeforeTransfer,
         GlobalInit, EasyInit, SetOption, AfterOption, OptionPcs, PrintReply, history,
         GlobalInitFails, EasyInitFails, SetOptionFails, ReplyBody, Reply, TransferFails,
         TransferTimesOut, Discard
  <2>2. InCall'
    BY <1>1, <2>1 DEF UplinkIInv, ProgramIInv, InCall, Request, queueVars
  <2>3. Newest' /\ SentInOrder' /\ SentUrls'
    BY <1>1, <2>1, SentKept DEF NotYetSent, queueVars
  <2>4. HandledAccounted'
    BY <1>1, <2>1, HandledKept DEF DoneWith, queueVars
  <2>5. QED
    BY <2>2, <2>3, <2>4 DEF ProgramIInv
<1>4. QED
  BY <1>2, <1>3

LEMMA StartKeeps ==
  ASSUME UplinkIInv, StartRequest
  PROVE  ProgramIInv'
<1>1. /\ cloudPc = "send" /\ callPc = "idle" /\ UNCHANGED queueVars
      /\ UNCHANGED <<baseLen, sent, received, failed>> /\ callPc' \in {"setUrl", "global"}
  BY DEF StartRequest, Begin, history
<1>2. PICK text \in TextLens : urlBuff' = DataUrl(Request(blePkt), text)
  BY DEF StartRequest, Begin
<1>3. urlBuff'.of = Request(blePkt)
  BY <1>1, <1>2, CurrentPacket, UrlMade DEF UplinkIInv, IInv, TypeOK
<1>4. InCall'
  BY <1>1, <1>3 DEF InCall, Request, queueVars
<1>5. Newest' /\ SentInOrder' /\ SentUrls'
  BY <1>1, SentKept DEF NotYetSent, queueVars
<1>6. HandledAccounted'
  BY <1>1, HandledKept DEF DoneWith, queueVars
<1>7. QED
  BY <1>4, <1>5, <1>6 DEF ProgramIInv

\* The call returns, and its packet is accounted for.
LEMMA EndRequestKeeps ==
  ASSUME UplinkIInv, EndRequest
  PROVE  ProgramIInv'
<1>1. /\ callPc = "done" /\ callPc' = "idle" /\ UNCHANGED <<baseLen, sent, received, handled>>
      /\ failed' = IF failing THEN failed \cup {urlBuff.of} ELSE failed
      /\ cloudPc = "send" /\ cloudPc' \notin {"url", "send", "dead"}
  BY DEF EndRequest, Queue!CloudSend, Return
<1>2. InCall'
  BY <1>1 DEF InCall
<1>3. Newest' /\ SentInOrder' /\ SentUrls'
  BY <1>1, SentKept DEF NotYetSent
<1>4. /\ urlBuff.of = Request(blePkt) /\ Request(blePkt)[1] = blePkt /\ blePkt = Len(handled)
  BY <1>1, CurrentPacket DEF UplinkIInv, ProgramIInv, InCall
<1>5. failed \subseteq failed'
  BY <1>1
<1>6. Failed(Len(handled))' \/ Delivered(Len(handled))
  <2>1. CASE failing = TRUE
    BY <1>1, <1>4, <2>1 DEF Failed
  <2>2. CASE Arrived /\ LastSent
    <3>1. sent[Len(sent)].of[1] = Len(handled) /\ Len(sent) \in received /\ Len(sent) \in 1..Len(sent)
      BY <1>4, <2>2 DEF Arrived, LastSent, UplinkIInv, IInv, TypeOK
    <3>2. sent[Len(sent)].part = "whole" \/ Unsendable(sent[Len(sent)].text)
      BY <3>1 DEF UplinkIInv, ProgramIInv, SentUrls
    <3>3. QED
      BY <3>1, <3>2 DEF Delivered
  <2>3. QED
    BY <1>1, <2>1, <2>2 DEF UplinkIInv, IInv, FailedOrArrived
<1>7. HandledAccounted'
  <2>1. SUFFICES ASSUME NEW n \in 1..Len(handled'), DoneWith(n)' PROVE Failed(n)' \/ Delivered(n)'
    BY DEF HandledAccounted
  <2>2. CASE n = Len(handled)
    <3>1. CASE Failed(Len(handled))'
      BY <1>1, <2>2, <3>1 DEF Failed
    <3>2. CASE Delivered(Len(handled))
      BY <1>1, <2>2, <3>2 DEF Delivered, Unsendable, BytesNeeded
    <3>3. QED
      BY <1>6, <3>1, <3>2
  <2>3. CASE n # Len(handled)
    <3>1. n \in 1..Len(handled) /\ DoneWith(n)
      <4>1. handled \in Seq(Nat)
        BY DEF UplinkIInv, QueueProofs!IInv, QueueProofs!TypeOK
      <4>2. QED
        BY <1>1, <2>1, <2>3, <4>1 DEF DoneWith
    <3>2. Failed(n) \/ Delivered(n)
      BY <3>1 DEF UplinkIInv, ProgramIInv, HandledAccounted
    <3>3. QED
      BY <1>1, <1>5, <3>2, AccountKept
  <2>4. QED
    BY <2>2, <2>3
<1>8. QED
  BY <1>2, <1>3, <1>7 DEF ProgramIInv

LEMMA CrashKeeps ==
  ASSUME UplinkIInv, CrashStep
  PROVE  ProgramIInv'
<1>1. /\ callPc' = "dead" /\ UNCHANGED <<baseLen, sent, received, failed, handled>>
      /\ cloudPc = "send" /\ cloudPc' = "dead"
  BY DEF CrashStep, Queue!CloudCrash, Crash, history
<1>2. InCall'
  BY <1>1 DEF InCall
<1>3. Newest' /\ SentInOrder' /\ SentUrls'
  BY <1>1, SentKept DEF NotYetSent
<1>4. HandledAccounted'
  BY <1>1, HandledKept DEF DoneWith
<1>5. QED
  BY <1>2, <1>3, <1>4 DEF ProgramIInv

\* The invariant is inductive.
LEMMA StepUplink == UplinkIInv /\ [UplinkNext]_uplinkVars => UplinkIInv'
<1>1. SUFFICES ASSUME UplinkIInv, [UplinkNext]_uplinkVars PROVE UplinkIInv'
  OBVIOUS
<1>2. QueueProofs!IInv'
  <2>1. [Queue!Next]_(Queue!vars)
    BY <1>1, StepImplements
       DEF uplinkVars, queueVars, Queue!vars, Queue!scanVars, Queue!cloudVars, Queue!sigVars
  <2>2. QED
    BY <1>1, <2>1, SameNext, QueueProofs!StepIInv, UplinkAssumption DEF UplinkIInv
<1>3. IInv'
  <2>1. [Next]_commVars
    <3>1. StartRequest => Next
      BY <1>1, CurrentPacket DEF StartRequest, UplinkIInv, Next
    <3>2. LoopStep \/ ScanStep \/ WakeStep \/ SigClearStep \/ SigNotifyStep \/ MainStep
            => UNCHANGED commVars
      BY DEF LoopStep, ScanStep, WakeStep, SigClearStep, SigNotifyStep, MainStep
    <3>3. CallSteps \/ OutsideSteps \/ TimeoutStep \/ EndRequest \/ CrashStep => Next
      BY DEF CallSteps, OutsideSteps, TimeoutStep, EndRequest, CrashStep, Next
    <3>4. QED
      BY <1>1, <3>1, <3>2, <3>3 DEF UplinkNext, CloudStep, uplinkVars
  <2>2. QED
    BY <1>1, <2>1, StepIInv DEF UplinkIInv
<1>4. ProgramIInv'
  <2>1. CASE ScanStep \/ WakeStep \/ SigClearStep \/ SigNotifyStep \/ MainStep
    BY <1>1, <2>1, QueueStepKeeps
  <2>2. CASE LoopStep
    BY <1>1, <2>2, LoopStepKeeps
  <2>3. CASE (CallSteps \/ OutsideSteps \/ TimeoutStep) /\ Perform
    BY <1>1, <2>3, PerformKeepsOrder DEF CallSteps, OutsideSteps, TimeoutStep
  <2>4. CASE (CallSteps \/ OutsideSteps \/ TimeoutStep) /\ ~Perform
    BY <1>1, <2>4, CallKeeps
  <2>5. CASE StartRequest \/ EndRequest \/ CrashStep
    BY <1>1, <2>5, StartKeeps, EndRequestKeeps, CrashKeeps
  <2>6. CASE UNCHANGED uplinkVars
    <3>1. UNCHANGED <<commVars, queueVars>>
      BY <2>6 DEF uplinkVars
    <3>2. InCall'
      BY <1>1, <3>1 DEF commVars, callVars, queueVars, UplinkIInv, ProgramIInv, InCall, Request
    <3>3. Newest' /\ SentInOrder' /\ SentUrls'
      BY <1>1, <3>1, SentKept DEF commVars, callVars, history, queueVars, NotYetSent
    <3>4. HandledAccounted'
      BY <1>1, <3>1, HandledKept DEF commVars, history, queueVars, DoneWith
    <3>5. QED
      BY <3>2, <3>3, <3>4 DEF ProgramIInv
  <2>7. QED
    BY <1>1, <2>1, <2>2, <2>3, <2>4, <2>5, <2>6 DEF UplinkNext, CloudStep
<1>5. QED
  BY <1>2, <1>3, <1>4 DEF UplinkIInv

\* For any number of advertisements and any failures, the program asks for the
\* packets in the order they were pushed, for none twice, each with the number of
\* its advertisement.
THEOREM InOrder == UplinkSpec => []SentInOrder
<1>1. UplinkIInv => SentInOrder
  BY DEF UplinkIInv, ProgramIInv
<1>2. QED
  BY <1>1, InitUplink, StepUplink, PTL DEF UplinkSpec

\* For any number of advertisements, lengths and failures, and however late, often or
\* disordered requests arrive, a packet that the cloud thread has done with has met
\* a failure in its own call, which said so, or the service has its URL.
THEOREM AllAccounted == UplinkSpec => []PacketsAccounted
<1>1. UplinkIInv => PacketsAccounted
  <2>1. SUFFICES ASSUME UplinkIInv PROVE PacketsAccounted
    OBVIOUS
  <2>2. callPc = "done" => (result = 1 <=> failing)
    BY <2>1 DEF UplinkIInv, IInv, FailedOrArrived
  <2>3. HandledAccounted
    BY <2>1 DEF UplinkIInv, ProgramIInv
  <2>4. QED
    BY <2>2, <2>3 DEF PacketsAccounted, HandledAccounted, Failed, Delivered
<1>2. QED
  BY <1>1, InitUplink, StepUplink, PTL DEF UplinkSpec

\* The cloud thread's requests are calls of CloudComm: what is proved of one
\* sequence of calls holds while the other threads run.
THEOREM RequestsDisciplined ==
  UplinkSpec => [](TypeOK /\ HandleDiscipline /\ OwnRequest /\ UrlFits)
<1>1. UplinkIInv => TypeOK /\ HandleDiscipline /\ UrlFits
  BY DEF UplinkIInv, IInv
<1>2. UplinkIInv => OwnRequest
  <2>1. SUFFICES ASSUME IInv, callPc = "transfer"
                 PROVE  opts = [url |-> urlBuff, timeout |-> TRUE, write |-> TRUE, data |-> "own"]
    BY DEF UplinkIInv, OwnRequest
  <2>2. /\ opts.url = urlBuff /\ opts.timeout = TRUE /\ opts.write = TRUE /\ opts.data = "own"
        /\ opts \in [url : Urls, timeout : BOOLEAN, write : BOOLEAN,
                     data : {"none", "own", "dangling"}]
    BY <2>1 DEF IInv, OptionsSet, AfterUrl, TypeOK
  <2>3. QED
    BY <2>2
<1>3. QED
  BY <1>1, <1>2, InitUplink, StepUplink, PTL DEF UplinkSpec

-----------------------------------------------------------------------------
(* The shutdown, with the requests in detail.                              *)

\* The cloud thread's current request is part of the work that is left: before
\* it has begun it counts for twelve, and its end takes at least one step off
\* CloudQueue's work.
QueueWork  == QueueProofs!ShutdownWork
UplinkWork == 13 * QueueWork + CallWork

\* After a SIGINT every step of the program, of libcurl and of a reply brings the
\* program's end nearer; requests that arrive at the service, late or again, do not
\* put it off (main.cpp:839-863, 908-919, cloudComm.cpp:97-197).
UplinkProgress ==
  [][~keepRunning => UplinkWork' < UplinkWork]_<<libVars, callVars, queueVars>>

\* It stops moving before its end only because of a missed notify_all: in a
\* request, the next step is the program's own or the time-out's
\* (main.cpp:842-844, 867-872, cloudComm.cpp:138-166).
UplinkHangsOnlyIfMissed ==
  /\ QueueProofs!HangsOnlyIfMissed
  /\ cloudPc = "send" => callPc # "dead" /\ CallCanMove

\* A step inside a request leaves CloudQueue's work alone.
LEMMA WorkKept == UNCHANGED queueVars => QueueWork' = QueueWork
BY DEF queueVars, QueueWork, QueueProofs!ShutdownWork, QueueProofs!ScanWork, QueueProofs!CloudWork,
       QueueProofs!OtherWork, QueueProofs!ToPush, QueueProofs!MaxPackets, QueueProofs!BurstLen,
       QueueProofs!ScanRank, QueueProofs!CloudRank, QueueProofs!MainRank, QueueProofs!SigRank

QueueWorkNat == QueueWork \in Nat
LEMMA WorkCounted == QueueProofs!TypeOK => QueueWorkNat
<1>1. SUFFICES ASSUME QueueProofs!TypeOK PROVE QueueWorkNat
  OBVIOUS
<1>2. QueueProofs!WorkNat
  BY <1>1, QueueProofs!WorkIsNat, UplinkAssumption
<1>3. QED
  BY <1>2 DEF QueueProofs!WorkNat, QueueProofs!ShutdownWork, QueueWork, QueueWorkNat

\* A shorter queue work outweighs a request that begins.
LEMMA Outweighs ==
  ASSUME NEW q \in Nat, NEW r \in Nat, NEW c \in 0..12, NEW d \in 0..12,
         r < q \/ (r = q /\ d < c)
  PROVE  13 * r + d < 13 * q + c
<1>1. CASE r < q
  <2>1. 13 * r + 13 <= 13 * q
    BY <1>1
  <2>2. QED
    BY <2>1
<1>2. QED
  BY <1>1

LEMMA UplinkShrinks ==
  ASSUME UplinkIInv, UplinkIInv', UplinkNext, ~keepRunning,
         ~UNCHANGED <<libVars, callVars, queueVars>>
  PROVE  UplinkWork' < UplinkWork
<1>0. UplinkWork = 13 * QueueWork + CallWork /\ UplinkWork' = 13 * QueueWork' + CallWork'
  BY DEF UplinkWork
<1>1. QueueWork \in Nat /\ QueueWork' \in Nat
  <2>1. QueueProofs!TypeOK /\ QueueProofs!TypeOK'
    BY DEF UplinkIInv, QueueProofs!IInv
  <2>2. QueueWorkNat /\ QueueWorkNat'
    BY <2>1, WorkCounted, PTL
  <2>3. QED
    BY <2>2 DEF QueueWorkNat
<1>2. CallWork \in 0..12 /\ CallWork' \in 0..12
  <2>1. TypeOK /\ TypeOK'
    BY DEF UplinkIInv, IInv
  <2>2. CallWorkAt /\ CallWorkAt'
    BY <2>1, CallWorks, PTL
  <2>3. QED
    BY <2>2 DEF CallWorkAt
<1>3. CASE Queue!Next
  <2>1. QueueProofs!Next
    BY <1>3, SameStep
  <2>2. QueueProofs!ShutdownWork' < QueueProofs!ShutdownWork
    BY <2>1, QueueProofs!WorkShrinks, UplinkAssumption DEF UplinkIInv
  <2>3. QueueWork' < QueueWork
    BY <2>2 DEF QueueWork
  <2>4. QED
    BY <1>0, <1>1, <1>2, <2>3, Outweighs
<1>4. CASE StartRequest \/ CallSteps \/ OutsideSteps \/ TimeoutStep
  <2>1. UNCHANGED queueVars
    BY <1>4 DEF StartRequest, CallSteps, OutsideSteps, TimeoutStep
  <2>2. CallWork' < CallWork
    <3>1. Next
      BY <1>4, CurrentPacket DEF StartRequest, CallSteps, OutsideSteps, TimeoutStep, UplinkIInv, Next
    <3>2. ~UNCHANGED <<libVars, callVars>>
      BY <2>1
    <3>3. callPc' # "idle"
      BY <1>4, <3>2 DEF StartRequest, Begin, CallSteps, OutsideSteps, TimeoutStep, CallStep, Outside,
         GlobalInit, EasyInit, SetOption, AfterOption, OptionPcs, Perform, PrintReply,
         GlobalInitFails, EasyInitFails, SetOptionFails, Arrive, ReplyBody, Reply, TransferFails,
         TransferTimesOut, Discard
    <3>4. QED
      BY <3>1, <3>2, <3>3, CallShrinks DEF UplinkIInv, IInv
  <2>3. QueueWork' = QueueWork
    BY <2>1, WorkKept
  <2>4. QED
    BY <1>0, <1>1, <1>2, <2>2, <2>3, Outweighs
<1>5. QED
  <2>1. ScanStep \/ WakeStep \/ SigClearStep \/ SigNotifyStep \/ MainStep \/ LoopStep \/ EndRequest
          \/ CrashStep => Queue!Next
    BY DEF ScanStep, WakeStep, SigClearStep, SigNotifyStep, MainStep, LoopStep, EndRequest,
       CrashStep, Queue!Next, Queue!CloudThread
  <2>2. QED
    BY <1>3, <1>4, <2>1 DEF UplinkNext, CloudStep

\* With every request in detail the shutdown still takes a bounded number of
\* steps, whatever fails and however many packets are queued.
THEOREM ShutdownBounded == UplinkSpec => UplinkProgress
<1>1. UplinkIInv /\ UplinkIInv' /\ [UplinkNext]_uplinkVars
        => [~keepRunning => UplinkWork' < UplinkWork]_<<libVars, callVars, queueVars>>
  BY UplinkShrinks DEF uplinkVars, commVars
<1>2. QED
  BY <1>1, InitUplink, StepUplink, PTL DEF UplinkSpec, UplinkProgress

\* A service that never answers does not keep the program from its end.
THEOREM NoOtherHang == UplinkSpec => []UplinkHangsOnlyIfMissed
<1>1. UplinkSpec => []QueueProofs!HangsOnlyIfMissed
  <2>1. UplinkSpec => QueueProofs!Spec
    <3>1. UplinkSpec => Queue!Spec
      BY ImplementsQueue
    <3>2. QED
      BY <3>1, SameInit, SameNext, PTL DEF Queue!Spec, QueueProofs!Spec
  <2>2. QueueProofs!Spec => []QueueProofs!HangsOnlyIfMissed
    BY QueueProofs!NoOtherHang, UplinkAssumption
  <2>3. QED
    BY <2>1, <2>2, PTL
<1>2. UplinkIInv => (cloudPc = "send" => callPc # "dead" /\ CallCanMove)
  <2>1. IInv => CallCanMove
    BY DEF IInv, TypeOK, CallPcs, HandleDiscipline, UsesHandle, OptionsSet, AfterUrl, CallCanMove
  <2>2. QED
    BY <2>1 DEF UplinkIInv, ProgramIInv, InCall
<1>3. QueueProofs!HangsOnlyIfMissed /\ UplinkIInv => UplinkHangsOnlyIfMissed
  BY <1>2 DEF UplinkHangsOnlyIfMissed
<1>4. QED
  BY <1>1, <1>3, InitUplink, StepUplink, PTL DEF UplinkSpec
=============================================================================
