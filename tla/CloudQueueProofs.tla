-------------------------- MODULE CloudQueueProofs --------------------------
(***************************************************************************)
(* Proofs about CloudQueue for every number of advertisements and SIGINTs. *)
(* Everything follows from one inductive invariant, IInv, whose named      *)
(* parts say why each property holds.                                      *)
(***************************************************************************)
EXTENDS CloudQueue, SequenceTheorems, TLAPS

\* The mutex is held exactly where the code is between lock and unlock.
LockOwner ==
  cloudPc # "dead" => /\ mutex = "scan" <=> ScanInside
                      /\ mutex = "cloud" <=> CloudInside

\* The crash takes every thread with it.
AllDead == cloudPc = "dead" => scanPc = "dead" /\ mainPc = "dead" /\ sigPc = "dead"
NoneDead == cloudPc # "dead" => scanPc # "dead" /\ mainPc # "dead" /\ sigPc # "dead"

\* The cloud thread is in the wait set only while it waits, and it only goes
\* to sleep on an empty queue.
Sleep ==
  /\ waiting => cloudPc = "wait"
  /\ cloudPc = "block" => queue = <<>>

\* FifoNoLoss, element by element.
Order ==
  /\ Len(queue) + Len(handled) = pushed
  /\ \A i \in 1..Len(handled) : handled[i] = i
  /\ \A i \in 1..Len(queue) : queue[i] = Len(handled) + i

\* A packet is being handled only when one has been popped, and it is the last.
Current ==
  cloudPc \in {"url", "send"} => Len(handled) > 0 /\ blePkt = Len(handled)

\* The scan thread is between bursts at its loop head, and has room for the
\* next packet while a burst lasts.
BurstPos ==
  /\ scanPc \in {"loop", "work", "exit"} => pushed % BurstLen = 0
  /\ scanPc \in {"lock", "push"} => pushed < MaxPackets

\* main() joins only after a SIGINT, and in order.
Joining ==
  /\ mainPc \in {"joinCloud", "joinScan", "done"} => ~keepRunning
  /\ mainPc \in {"joinScan", "done"} => cloudPc = "exit"

IInv ==
  /\ TypeOK
  /\ LockOwner
  /\ AllDead
  /\ NoneDead
  /\ Sleep
  /\ NoLostPacketWakeup
  /\ Order
  /\ Current
  /\ BurstPos
  /\ Joining
  /\ RequestNumbers

-----------------------------------------------------------------------------

\* The requests are counted by the packets popped and the place of the cloud
\* thread: a step that leaves them alone leaves RequestNumbers alone.
LEMMA NumbersKept ==
  ASSUME RequestNumbers, UNCHANGED <<seqNumber, handled>>,
         (cloudPc = "url") <=> (cloudPc' = "url")
  PROVE  RequestNumbers'
BY DEF RequestNumbers, Numbered

\* One more packet is one more packet of exactly one type.
LEMMA OneMore ==
  ASSUME NEW n \in Nat \ {0}, NEW i \in 1..4
  PROVE  (n + 4 - i) \div 4 =
           IF i = ((n - 1) % 4) + 1 THEN (n - 1 + 4 - i) \div 4 + 1
                                    ELSE (n - 1 + 4 - i) \div 4
OBVIOUS

\* A burst that has not ended leaves room for its next packet.
LEMMA RoomLeft ==
  ASSUME NEW m \in Nat, NEW p \in 0..(4 * m), p % 4 # 0
  PROVE  p < 4 * m
OBVIOUS

\* Moving one element from one sequence to the other keeps their joint length.
LEMMA MoveOne ==
  ASSUME NEW a \in Nat, NEW b \in Nat
  PROVE  (a - 1) + (b + 1) = a + b
OBVIOUS

\* The program starts with the invariant.
LEMMA InitIInv == Init => IInv
<1> SUFFICES ASSUME Init PROVE IInv
  OBVIOUS
<1>1. TypeOK
  <2>1. MaxPackets \in Nat /\ 0 \in 0..MaxAdverts /\ 0 \in 0..MaxSignals
    BY BoundsAssumption DEF MaxPackets, BurstLen
  <2>2. seqNumber \in [PacketTypes -> 0..MaxAdverts]
    BY <2>1 DEF Init
  <2>3. keepRunning \in BOOLEAN /\ waiting \in BOOLEAN /\ missedNotify \in BOOLEAN
    BY DEF Init
  <2>4. QED
    BY <2>1, <2>2, <2>3 DEF Init, TypeOK, ScanPcs, CloudPcs, MainPcs, SigPcs
<1>2. LockOwner /\ AllDead /\ NoneDead /\ Sleep /\ NoLostPacketWakeup /\ Current /\ Joining
  BY DEF Init, LockOwner, AllDead, NoneDead, Sleep, NoLostPacketWakeup, Current,
         Joining, ScanInside, CloudInside
<1>3. Order /\ BurstPos
  BY DEF Init, Order, BurstPos, BurstLen
<1>4. RequestNumbers
  BY DEF Init, RequestNumbers, Numbered, Burst, BurstLen, PacketTypes
<1>5. QED
  BY <1>1, <1>2, <1>3, <1>4 DEF IInv

\* No step of any thread, of the handler or of the crash breaks it.
LEMMA StepIInv == IInv /\ [Next]_vars => IInv'
<1> SUFFICES ASSUME IInv, [Next]_vars PROVE IInv'
  OBVIOUS
<1> USE BoundsAssumption DEF IInv, scanVars, cloudVars, sigVars
<1>1. CASE ScanCheck
  <2> USE <1>1 DEF ScanCheck
  <2>1. TypeOK'
    BY DEF TypeOK, ScanPcs, CloudPcs, MainPcs, SigPcs
  <2>2. /\ LockOwner' /\ AllDead' /\ NoneDead' /\ Joining'
        /\ Sleep' /\ NoLostPacketWakeup' /\ BurstPos'
    BY DEF LockOwner, AllDead, NoneDead, Joining, Sleep, NoLostPacketWakeup, BurstPos,
           ScanInside, CloudInside
  <2>3. Order' /\ Current' /\ RequestNumbers'
    BY NumbersKept DEF Order, Current
  <2>4. QED
    BY <2>1, <2>2, <2>3
<1>2. CASE ScanNothing
  <2> USE <1>2 DEF ScanNothing
  <2>1. TypeOK'
    BY DEF TypeOK, ScanPcs, CloudPcs, MainPcs, SigPcs
  <2>2. /\ LockOwner' /\ AllDead' /\ NoneDead' /\ Joining'
        /\ Sleep' /\ NoLostPacketWakeup' /\ BurstPos'
    BY DEF LockOwner, AllDead, NoneDead, Joining, Sleep, NoLostPacketWakeup, BurstPos,
           ScanInside, CloudInside
  <2>3. Order' /\ Current' /\ RequestNumbers'
    BY NumbersKept DEF Order, Current
  <2>4. QED
    BY <2>1, <2>2, <2>3
<1>3. CASE ScanAccept
  <2> USE <1>3 DEF ScanAccept
  <2>1. TypeOK'
    BY DEF TypeOK, ScanPcs, CloudPcs, MainPcs, SigPcs
  <2>2. /\ LockOwner' /\ AllDead' /\ NoneDead' /\ Joining'
        /\ Sleep' /\ NoLostPacketWakeup' /\ BurstPos'
    BY DEF LockOwner, AllDead, NoneDead, Joining, Sleep, NoLostPacketWakeup, BurstPos,
           ScanInside, CloudInside
  <2>3. Order' /\ Current' /\ RequestNumbers'
    BY NumbersKept DEF Order, Current
  <2>4. QED
    BY <2>1, <2>2, <2>3
<1>4. CASE SendLock
  <2> USE <1>4 DEF SendLock
  <2>1. TypeOK'
    BY DEF TypeOK, ScanPcs, CloudPcs, MainPcs, SigPcs
  <2>2. /\ LockOwner' /\ AllDead' /\ NoneDead' /\ Joining'
        /\ Sleep' /\ NoLostPacketWakeup' /\ BurstPos'
    BY DEF LockOwner, AllDead, NoneDead, Joining, Sleep, NoLostPacketWakeup, BurstPos,
           ScanInside, CloudInside
  <2>3. Order' /\ Current' /\ RequestNumbers'
    BY NumbersKept DEF Order, Current
  <2>4. QED
    BY <2>1, <2>2, <2>3
<1>5. CASE SendPush
  <2> USE <1>5 DEF SendPush
  <2>1. TypeOK'
    <3>1. MaxPackets \in Nat /\ pushed \in 0..MaxPackets /\ pushed < MaxPackets
      BY DEF TypeOK, BurstPos, MaxPackets, BurstLen
    <3>2. pushed + 1 \in 0..MaxPackets /\ pushed + 1 \in Nat
      BY <3>1
    <3>3. queue' \in Seq(Nat)
      BY <3>2, AppendProperties DEF TypeOK
    <3>4. QED
      BY <3>2, <3>3 DEF TypeOK, ScanPcs, CloudPcs, MainPcs, SigPcs
  <2>2. /\ LockOwner' /\ AllDead' /\ NoneDead' /\ Joining'
        /\ Sleep' /\ NoLostPacketWakeup' /\ BurstPos'
    BY DEF LockOwner, AllDead, NoneDead, Joining, Sleep, NoLostPacketWakeup, BurstPos,
           ScanInside, CloudInside
  <2>3. Order'
    <3>1. queue \in Seq(Nat) /\ handled \in Seq(Nat) /\ pushed + 1 \in Nat
      BY DEF TypeOK
    <3>2. /\ Len(queue') = Len(queue) + 1
          /\ \A i \in 1..Len(queue) : queue'[i] = queue[i]
          /\ queue'[Len(queue) + 1] = pushed + 1
      BY <3>1, AppendProperties
    <3>3. QED
      BY <3>1, <3>2 DEF Order
  <2>4. Current' /\ RequestNumbers'
    BY NumbersKept DEF Current
  <2>5. QED
    BY <2>1, <2>2, <2>3, <2>4
<1>6. CASE SendNotify
  <2> USE <1>6 DEF SendNotify
  <2>1. TypeOK'
    BY ZenonT(60) DEF TypeOK, ScanPcs, CloudPcs, MainPcs, SigPcs
  <2>2. /\ LockOwner' /\ AllDead' /\ NoneDead' /\ Joining'
        /\ Sleep' /\ NoLostPacketWakeup' /\ BurstPos'
    BY DEF LockOwner, AllDead, NoneDead, Joining, Sleep, NoLostPacketWakeup, BurstPos,
           ScanInside, CloudInside
  <2>3. Order' /\ Current' /\ RequestNumbers'
    BY NumbersKept DEF Order, Current
  <2>4. QED
    BY <2>1, <2>2, <2>3
<1>7. CASE SendUnlock
  <2> USE <1>7 DEF SendUnlock
  <2>1. TypeOK'
    BY DEF TypeOK, ScanPcs, CloudPcs, MainPcs, SigPcs
  <2>2. LockOwner' /\ AllDead' /\ NoneDead' /\ Joining'
    BY DEF LockOwner, AllDead, NoneDead, Joining, ScanInside, CloudInside
  <2>3. Sleep' /\ NoLostPacketWakeup' /\ BurstPos'
    <3>1. pushed % BurstLen # 0 => pushed < MaxPackets
      BY RoomLeft DEF TypeOK, MaxPackets, BurstLen
    <3>2. QED
      BY <3>1 DEF Sleep, NoLostPacketWakeup, BurstPos, LockOwner, ScanInside, CloudInside
  <2>4. Order' /\ Current'
    BY DEF Order, Current
  <2>5. RequestNumbers'
    BY NumbersKept
  <2>6. QED
    BY <2>1, <2>2, <2>3, <2>4, <2>5
<1>8. CASE CloudCheck
  <2> USE <1>8 DEF CloudCheck
  <2>1. TypeOK'
    BY DEF TypeOK, ScanPcs, CloudPcs, MainPcs, SigPcs
  <2>2. /\ LockOwner' /\ AllDead' /\ NoneDead' /\ Joining'
        /\ Sleep' /\ NoLostPacketWakeup' /\ BurstPos'
    BY DEF LockOwner, AllDead, NoneDead, Joining, Sleep, NoLostPacketWakeup, BurstPos,
           ScanInside, CloudInside
  <2>3. Order' /\ Current' /\ RequestNumbers'
    BY NumbersKept DEF Order, Current
  <2>4. QED
    BY <2>1, <2>2, <2>3
<1>9. CASE CloudLock
  <2> USE <1>9 DEF CloudLock
  <2>1. TypeOK'
    BY DEF TypeOK, ScanPcs, CloudPcs, MainPcs, SigPcs
  <2>2. /\ LockOwner' /\ AllDead' /\ NoneDead' /\ Joining'
        /\ Sleep' /\ NoLostPacketWakeup' /\ BurstPos'
    BY DEF LockOwner, AllDead, NoneDead, Joining, Sleep, NoLostPacketWakeup, BurstPos,
           ScanInside, CloudInside
  <2>3. Order' /\ Current' /\ RequestNumbers'
    BY NumbersKept DEF Order, Current
  <2>4. QED
    BY <2>1, <2>2, <2>3
<1>10. CASE CloudPredicate
  <2> USE <1>10 DEF CloudPredicate
  <2>1. TypeOK'
    BY DEF TypeOK, ScanPcs, CloudPcs, MainPcs, SigPcs
  <2>2. /\ LockOwner' /\ AllDead' /\ NoneDead' /\ Joining'
        /\ Sleep' /\ NoLostPacketWakeup' /\ BurstPos'
    BY DEF LockOwner, AllDead, NoneDead, Joining, Sleep, NoLostPacketWakeup, BurstPos,
           ScanInside, CloudInside
  <2>3. Order' /\ Current' /\ RequestNumbers'
    BY NumbersKept DEF Order, Current
  <2>4. QED
    BY <2>1, <2>2, <2>3
<1>11. CASE CloudBlock
  <2> USE <1>11 DEF CloudBlock
  <2>1. TypeOK'
    BY DEF TypeOK, ScanPcs, CloudPcs, MainPcs, SigPcs
  <2>2. /\ LockOwner' /\ AllDead' /\ NoneDead' /\ Joining'
        /\ Sleep' /\ NoLostPacketWakeup' /\ BurstPos'
    BY DEF LockOwner, AllDead, NoneDead, Joining, Sleep, NoLostPacketWakeup, BurstPos,
           ScanInside, CloudInside
  <2>3. Order' /\ Current' /\ RequestNumbers'
    BY NumbersKept DEF Order, Current
  <2>4. QED
    BY <2>1, <2>2, <2>3
<1>12. CASE CloudWake
  <2> USE <1>12 DEF CloudWake
  <2>1. TypeOK'
    BY DEF TypeOK, ScanPcs, CloudPcs, MainPcs, SigPcs
  <2>2. /\ LockOwner' /\ AllDead' /\ NoneDead' /\ Joining'
        /\ Sleep' /\ NoLostPacketWakeup' /\ BurstPos'
    BY DEF LockOwner, AllDead, NoneDead, Joining, Sleep, NoLostPacketWakeup, BurstPos,
           ScanInside, CloudInside
  <2>3. Order' /\ Current' /\ RequestNumbers'
    BY NumbersKept DEF Order, Current
  <2>4. QED
    BY <2>1, <2>2, <2>3
<1>13. CASE CloudPop
  <2> USE <1>13 DEF CloudPop, TypeOK, LockOwner, AllDead, NoneDead, Sleep,
        NoLostPacketWakeup, Order, Current, BurstPos, Joining, ScanInside, CloudInside,
        ScanPcs, CloudPcs, MainPcs, SigPcs, BurstLen, MaxPackets
  <2>1. Len(queue) > 0 /\ Head(queue) = Len(handled) + 1
    OBVIOUS
  <2>2. /\ queue' \in Seq(Nat) /\ Len(queue') = Len(queue) - 1
        /\ \A j \in 1..Len(queue') : queue'[j] = queue[j + 1]
    BY <2>1
  <2>3. /\ handled' \in Seq(Nat) /\ Len(handled') = Len(handled) + 1
        /\ \A j \in 1..Len(handled) : handled'[j] = handled[j]
        /\ handled'[Len(handled) + 1] = Len(handled) + 1
    BY <2>1
  <2>4. Order'
    <3>1. Len(queue') + Len(handled') = pushed'
      <4>1. pushed' = pushed /\ Len(queue) + Len(handled) = pushed
        OBVIOUS
      <4>2. Len(queue) \in Nat /\ Len(handled) \in Nat
        OBVIOUS
      <4>3. Len(queue') = Len(queue) - 1 /\ Len(handled') = Len(handled) + 1
        BY <2>2, <2>3
      <4>4. QED
        BY <4>1, <4>2, <4>3, MoveOne
    <3>2. \A j \in 1..Len(handled') : handled'[j] = j
      BY <2>3
    <3>3. \A j \in 1..Len(queue') : queue'[j] = Len(handled') + j
      BY <2>2, <2>3
    <3>4. QED
      BY <3>1, <3>2, <3>3
  <2>5. TypeOK'
    <3>1. blePkt' \in 0..MaxPackets
      BY <2>1
    <3>2. QED
      BY <2>2, <2>3, <3>1
  <2>6. RequestNumbers'
    <3>1. Numbered' = Numbered
      BY <2>3 DEF Numbered
    <3>2. QED
      BY <3>1 DEF RequestNumbers
  <2>7. Current' /\ Sleep' /\ NoLostPacketWakeup'
    BY <2>1, <2>3
  <2>8. QED
    BY <2>4, <2>5, <2>6, <2>7
<1>14. CASE CloudDrained
  <2> USE <1>14 DEF CloudDrained
  <2>1. TypeOK'
    BY DEF TypeOK, ScanPcs, CloudPcs, MainPcs, SigPcs
  <2>2. /\ LockOwner' /\ AllDead' /\ NoneDead' /\ Joining'
        /\ Sleep' /\ NoLostPacketWakeup' /\ BurstPos'
    BY DEF LockOwner, AllDead, NoneDead, Joining, Sleep, NoLostPacketWakeup, BurstPos,
           ScanInside, CloudInside
  <2>3. Order' /\ Current' /\ RequestNumbers'
    BY NumbersKept DEF Order, Current
  <2>4. QED
    BY <2>1, <2>2, <2>3
<1>15. CASE CloudUrl
  <2> USE <1>15 DEF CloudUrl, TypeOK, LockOwner, AllDead, NoneDead, Sleep,
        NoLostPacketWakeup, Order, Current, BurstPos, Joining, ScanInside, CloudInside,
        ScanPcs, CloudPcs, MainPcs, SigPcs, BurstLen, MaxPackets
  <2>1. Numbered' = Numbered + 1 /\ blePkt = Numbered + 1 /\ Numbered \in Nat
    BY DEF Numbered
  <2>2. ASSUME NEW i \in 1..4
        PROVE  seqNumber'[Burst[i]] = (Numbered' + 4 - i) \div 4
    <3>1. Burst[i] \in PacketTypes
      BY DEF Burst, PacketTypes
    <3>2. Burst[i] = TypeOf(blePkt) <=> i = ((blePkt - 1) % 4) + 1
      <4> DEFINE k == ((blePkt - 1) % 4) + 1
      <4>1. k \in 1..4
        BY <2>1
      <4> HIDE DEF k
      <4>2. Burst[i] = Burst[k] <=> i = k
        BY <4>1 DEF Burst
      <4>3. QED
        BY <4>2 DEF k, TypeOf
    <3>3. seqNumber'[Burst[i]] =
            IF i = ((blePkt - 1) % 4) + 1 THEN seqNumber[Burst[i]] + 1
                                          ELSE seqNumber[Burst[i]]
      BY <3>1, <3>2
    <3>4. seqNumber[Burst[i]] = (Numbered + 4 - i) \div 4
      BY DEF RequestNumbers
    <3>5. Numbered = blePkt - 1 /\ Numbered' = blePkt /\ blePkt \in Nat \ {0}
      BY <2>1
    <3>6. (blePkt + 4 - i) \div 4 =
            IF i = ((blePkt - 1) % 4) + 1 THEN (blePkt - 1 + 4 - i) \div 4 + 1
                                          ELSE (blePkt - 1 + 4 - i) \div 4
      BY <3>5, OneMore
    <3>7. QED
      BY <3>3, <3>4, <3>5, <3>6
  <2>3. RequestNumbers'
    BY <2>2 DEF RequestNumbers
  <2>4. \A t \in PacketTypes : seqNumber'[t] \in 0..MaxAdverts
    <3>1. Numbered' <= 4 * MaxAdverts
      BY <2>1 DEF Numbered
    <3>2. ASSUME NEW i \in 1..4
          PROVE  (Numbered' + 4 - i) \div 4 \in 0..MaxAdverts
      BY <2>1, <3>1
    <3>3. \A t \in PacketTypes : \E i \in 1..4 : t = Burst[i]
      BY DEF PacketTypes, Burst
    <3>4. TAKE t \in PacketTypes
    <3>5. PICK i \in 1..4 : t = Burst[i]
      BY <3>3
    <3>6. QED
      BY <2>2, <3>2, <3>5
  <2>5. seqNumber' \in [PacketTypes -> 0..MaxAdverts]
    BY <2>4
  <2>6. TypeOK'
    BY <2>5
  <2>7. QED
    BY <2>3, <2>6
<1>16. CASE CloudSend
  <2> USE <1>16 DEF CloudSend
  <2>1. TypeOK'
    BY DEF TypeOK, ScanPcs, CloudPcs, MainPcs, SigPcs
  <2>2. /\ LockOwner' /\ AllDead' /\ NoneDead' /\ Joining'
        /\ Sleep' /\ NoLostPacketWakeup' /\ BurstPos'
    BY DEF LockOwner, AllDead, NoneDead, Joining, Sleep, NoLostPacketWakeup, BurstPos,
           ScanInside, CloudInside
  <2>3. Order' /\ Current' /\ RequestNumbers'
    BY NumbersKept DEF Order, Current
  <2>4. QED
    BY <2>1, <2>2, <2>3
<1>17. CASE CloudRelock
  <2> USE <1>17 DEF CloudRelock
  <2>1. TypeOK'
    BY DEF TypeOK, ScanPcs, CloudPcs, MainPcs, SigPcs
  <2>2. /\ LockOwner' /\ AllDead' /\ NoneDead' /\ Joining'
        /\ Sleep' /\ NoLostPacketWakeup' /\ BurstPos'
    BY DEF LockOwner, AllDead, NoneDead, Joining, Sleep, NoLostPacketWakeup, BurstPos,
           ScanInside, CloudInside
  <2>3. Order' /\ Current' /\ RequestNumbers'
    BY NumbersKept DEF Order, Current
  <2>4. QED
    BY <2>1, <2>2, <2>3
<1>18. CASE SpuriousWakeup
  <2> USE <1>18 DEF SpuriousWakeup
  <2>1. TypeOK'
    BY ZenonT(60) DEF TypeOK, ScanPcs, CloudPcs, MainPcs, SigPcs
  <2>2. /\ LockOwner' /\ AllDead' /\ NoneDead' /\ Joining'
        /\ Sleep' /\ NoLostPacketWakeup' /\ BurstPos'
    BY DEF LockOwner, AllDead, NoneDead, Joining, Sleep, NoLostPacketWakeup, BurstPos,
           ScanInside, CloudInside
  <2>3. Order' /\ Current' /\ RequestNumbers'
    BY NumbersKept DEF Order, Current
  <2>4. QED
    BY <2>1, <2>2, <2>3
<1>19. CASE CloudCrash
  <2> USE <1>19 DEF CloudCrash
  <2>1. TypeOK'
    BY DEF TypeOK, ScanPcs, CloudPcs, MainPcs, SigPcs
  <2>2. /\ LockOwner' /\ AllDead' /\ NoneDead' /\ Joining'
        /\ Sleep' /\ NoLostPacketWakeup' /\ BurstPos'
    BY DEF LockOwner, AllDead, NoneDead, Joining, Sleep, NoLostPacketWakeup, BurstPos,
           ScanInside, CloudInside
  <2>3. Order' /\ Current' /\ RequestNumbers'
    BY NumbersKept DEF Order, Current
  <2>4. QED
    BY <2>1, <2>2, <2>3
<1>20. CASE SigClear
  <2> USE <1>20 DEF SigClear
  <2>1. TypeOK'
    <3>1. keepRunning' \in BOOLEAN
      OBVIOUS
    <3>2. QED
      BY <3>1 DEF TypeOK, ScanPcs, CloudPcs, MainPcs, SigPcs
  <2>2. /\ LockOwner' /\ AllDead' /\ NoneDead' /\ Joining'
        /\ Sleep' /\ NoLostPacketWakeup' /\ BurstPos'
    BY DEF LockOwner, AllDead, NoneDead, Joining, Sleep, NoLostPacketWakeup, BurstPos,
           ScanInside, CloudInside
  <2>3. Order' /\ Current' /\ RequestNumbers'
    BY NumbersKept DEF Order, Current
  <2>4. QED
    BY <2>1, <2>2, <2>3
<1>21. CASE SigNotify
  <2> USE <1>21 DEF SigNotify
  <2>1. TypeOK'
    <3>1. missedNotify' \in BOOLEAN /\ waiting' \in BOOLEAN
      BY DEF TypeOK
    <3>2. QED
      BY <3>1 DEF TypeOK, ScanPcs, CloudPcs, MainPcs, SigPcs
  <2>2. /\ LockOwner' /\ AllDead' /\ NoneDead' /\ Joining'
        /\ Sleep' /\ NoLostPacketWakeup' /\ BurstPos'
    BY DEF LockOwner, AllDead, NoneDead, Joining, Sleep, NoLostPacketWakeup, BurstPos,
           ScanInside, CloudInside
  <2>3. Order' /\ Current' /\ RequestNumbers'
    BY NumbersKept DEF Order, Current
  <2>4. QED
    BY <2>1, <2>2, <2>3
<1>22. CASE MainStep
  <2> USE <1>22 DEF MainStep
  <2>1. TypeOK'
    BY DEF TypeOK, ScanPcs, CloudPcs, MainPcs, SigPcs
  <2>2. /\ LockOwner' /\ AllDead' /\ NoneDead' /\ Joining'
        /\ Sleep' /\ NoLostPacketWakeup' /\ BurstPos'
    BY DEF LockOwner, AllDead, NoneDead, Joining, Sleep, NoLostPacketWakeup, BurstPos,
           ScanInside, CloudInside
  <2>3. Order' /\ Current' /\ RequestNumbers'
    BY NumbersKept DEF Order, Current
  <2>4. QED
    BY <2>1, <2>2, <2>3
<1>23. CASE UNCHANGED vars
  <2> USE <1>23 DEF vars
  <2>1. TypeOK'
    BY DEF TypeOK, ScanPcs, CloudPcs, MainPcs, SigPcs
  <2>2. /\ LockOwner' /\ AllDead' /\ NoneDead' /\ Joining'
        /\ Sleep' /\ NoLostPacketWakeup' /\ BurstPos'
    BY DEF LockOwner, AllDead, NoneDead, Joining, Sleep, NoLostPacketWakeup, BurstPos,
           ScanInside, CloudInside
  <2>3. Order' /\ Current' /\ RequestNumbers'
    BY NumbersKept DEF Order, Current
  <2>4. QED
    BY <2>1, <2>2, <2>3
<1>24. QED
  BY <1>1, <1>2, <1>3, <1>4, <1>5, <1>6, <1>7, <1>8, <1>9, <1>10, <1>11, <1>12,
     <1>13, <1>14, <1>15, <1>16, <1>17, <1>18, <1>19, <1>20, <1>21, <1>22, <1>23
  DEF Next, ScanThread, CloudThread

\* So it always holds.
LEMMA Invariance == Spec => []IInv
BY InitIInv, StepIInv, PTL DEF Spec

-----------------------------------------------------------------------------
(* The properties.                                                         *)

\* Every variable keeps its type; in particular no request counter passes the
\* number of advertisements accepted (main.cpp:445-549).
THEOREM TypeCorrect == Spec => []TypeOK
<1>1. IInv => TypeOK
  BY DEF IInv
<1>2. QED
  BY <1>1, Invariance, PTL

\* The two threads never use bleDataQueue at the same time
\* (main.cpp:546-548 and 841-849).
THEOREM Exclusion == Spec => []QueueExclusive
<1>1. IInv => QueueExclusive
  BY DEF IInv, LockOwner, AllDead, QueueExclusive, ScanInside, CloudInside
<1>2. QED
  BY <1>1, Invariance, PTL

\* The cloud thread never sleeps on a packet whose notify_one has gone by
\* (main.cpp:548 against 842-844).
THEOREM NoLostWakeup == Spec => []NoLostPacketWakeup
<1>1. IInv => NoLostPacketWakeup
  BY DEF IInv
<1>2. QED
  BY <1>1, Invariance, PTL

\* The cloud thread pops exactly the packets pushed, once each and in order
\* (main.cpp:547 against 848-849).
THEOREM Fifo == Spec => []FifoNoLoss
<1>1. IInv => FifoNoLoss
  <2> SUFFICES ASSUME IInv PROVE handled \o queue = [n \in 1..pushed |-> n]
    BY DEF FifoNoLoss
  <2> DEFINE s == handled \o queue
             t == [n \in 1..pushed |-> n]
  <2>1. handled \in Seq(Nat) /\ queue \in Seq(Nat) /\ pushed \in Nat
    BY BoundsAssumption DEF IInv, TypeOK, MaxPackets, BurstLen
  <2>2. s \in Seq(Nat) /\ Len(s) = pushed
    BY <2>1 DEF IInv, Order
  <2>3. \A i \in 1..pushed : s[i] = i
    BY <2>1 DEF IInv, Order
  <2>4. t \in Seq(Nat) /\ Len(t) = pushed
    BY <2>1
  <2>5. \A i \in 1..pushed : t[i] = i
    OBVIOUS
  <2> HIDE DEF s, t
  <2>6. s = t
    BY <2>2, <2>3, <2>4, <2>5, SeqEqual
  <2>7. QED
    BY <2>6 DEF s, t
<1>2. QED
  BY <1>1, Invariance, PTL

\* SIGINT never splits the packets of one advertisement (main.cpp:702-817).
THEOREM Whole == Spec => []WholeBursts
<1>1. IInv => WholeBursts
  BY DEF IInv, BurstPos, WholeBursts
<1>2. QED
  BY <1>1, Invariance, PTL

\* The packets of the k-th advertisement all carry C = k (main.cpp:450-543).
THEOREM Numbering == Spec => []RequestNumbers
<1>1. IInv => RequestNumbers
  BY DEF IInv
<1>2. QED
  BY <1>1, Invariance, PTL

-----------------------------------------------------------------------------
(* CloudQueue implements the safety part of PacketChannel.                 *)

\* Every step of the program is a step of the channel, or none of its business.
LEMMA StepChannel == IInv /\ [Next]_vars => [Channel!Next]_(Channel!vars)
<1> SUFFICES ASSUME IInv, [Next]_vars PROVE [Channel!Next]_(Channel!vars)
  OBVIOUS
<1> USE DEF Channel!Next, Channel!vars
<1> DEFINE open == keepRunning /\ ~Ended
<1>1. CASE SendPush
  BY <1>1 DEF SendPush, Channel!Put, Ended, cloudVars, sigVars
<1>2. CASE CloudPop
  <2>1. Len(handled) < pushed /\ Head(queue) = Len(handled) + 1
    BY <1>2 DEF CloudPop, IInv, TypeOK, Order
  <2>2. QED
    BY <1>2, <2>1 DEF CloudPop, Channel!Take, Ended, scanVars, sigVars
<1>3. CASE CloudCrash
  <2>1. UNCHANGED <<pushed, handled>> /\ ~open'
    BY <1>3 DEF CloudCrash, Ended
  <2>2. QED
    BY <2>1 DEF Channel!Close
<1>4. CASE SigClear
  <2>1. UNCHANGED <<pushed, handled>> /\ ~open'
    BY <1>4 DEF SigClear, scanVars, cloudVars
  <2>2. QED
    BY <2>1 DEF Channel!Close
<1>5. CASE MainStep
  <2>1. UNCHANGED <<pushed, handled>> /\ open' = open
    BY <1>5 DEF MainStep, Ended, scanVars, cloudVars, IInv, Joining
  <2>2. QED
    BY <2>1
<1>6. CASE \/ ScanCheck \/ ScanNothing \/ ScanAccept \/ SendLock \/ SendNotify \/ SendUnlock
  BY <1>6 DEF ScanCheck, ScanNothing, ScanAccept, SendLock, SendNotify, SendUnlock,
              Ended, cloudVars
<1>7. CASE \/ CloudCheck \/ CloudLock \/ CloudPredicate \/ CloudBlock \/ CloudWake
           \/ CloudDrained \/ CloudUrl \/ CloudSend \/ CloudRelock \/ SpuriousWakeup
  BY <1>7 DEF CloudCheck, CloudLock, CloudPredicate, CloudBlock, CloudWake, CloudDrained,
              CloudUrl, CloudSend, CloudRelock, SpuriousWakeup, Ended, scanVars, cloudVars
<1>8. CASE SigNotify
  BY <1>8 DEF SigNotify, Ended, scanVars, cloudVars
<1>9. CASE UNCHANGED vars
  BY <1>9 DEF vars, Ended, scanVars, cloudVars
<1>10. QED
  BY <1>1, <1>2, <1>3, <1>4, <1>5, <1>6, <1>7, <1>8, <1>9
  DEF Next, ScanThread, CloudThread

\* The queue between the threads is a first-in first-out channel: a packet goes
\* in, the oldest comes out, and nothing else happens to it.
THEOREM Implements == Spec => ChannelSafe
<1>1. Init => Channel!Init
  BY DEF Init, Channel!Init, Ended
<1>2. QED
  BY <1>1, Invariance, StepChannel, PTL DEF Spec, ChannelSafe, Channel!Safe

-----------------------------------------------------------------------------
(* After a SIGINT.                                                         *)

\* What is left is a natural number, so there is an end to what can be taken
\* from it.
WorkNat == ScanWork \in Nat /\ CloudWork \in Nat /\ OtherWork \in Nat /\ Len(queue) \in Nat

LEMMA WorkIsNat == TypeOK => WorkNat
<1> SUFFICES ASSUME TypeOK PROVE WorkNat
  OBVIOUS
<1>1. ScanWork \in Nat
  <2>1. pushed \in Nat /\ pushed % 4 \in 0..3
    BY BoundsAssumption DEF TypeOK, MaxPackets, BurstLen
  <2>2. ToPush \in Nat
    BY <2>1 DEF ToPush, BurstLen
  <2>3. ScanRank[scanPc] \in Nat
    BY DEF TypeOK, ScanPcs, ScanRank
  <2>4. QED
    BY <2>2, <2>3 DEF ScanWork
<1>2. CloudWork \in Nat
  <2>1. CloudRank[cloudPc] \in Nat
    BY DEF TypeOK, CloudPcs, CloudRank
  <2>2. QED
    BY <2>1 DEF CloudWork
<1>3. OtherWork \in Nat
  <2>1. MainRank[mainPc] \in Nat
    BY DEF TypeOK, MainPcs, MainRank
  <2>2. SigRank[sigPc] \in Nat
    BY DEF TypeOK, SigPcs, SigRank
  <2>3. 2 * (MaxSignals - signals) \in Nat
    BY BoundsAssumption DEF TypeOK
  <2>4. QED
    BY <2>1, <2>2, <2>3 DEF OtherWork
<1>4. Len(queue) \in Nat
  BY DEF TypeOK
<1>5. QED
  BY <1>1, <1>2, <1>3, <1>4 DEF WorkNat

\* Four terms, of which one or two change.
LEMMA Less ==
  ASSUME NEW a \in Nat, NEW b \in Nat, NEW c \in Nat, NEW l \in Nat,
         NEW x \in Nat, NEW y \in Nat, NEW z \in Nat, NEW m \in Nat,
         \/ x + 4 * m < a + 4 * l /\ y <= b /\ z <= c
         \/ y + 4 * m < b + 4 * l /\ x <= a /\ z <= c
         \/ z < c /\ x <= a /\ y <= b /\ m = l
  PROVE  x + y + z + 4 * m < a + b + c + 4 * l
OBVIOUS

\* The scan thread's steps: a push puts into the queue, where it counts for
\* four, what counted for eight before.
LEMMA ScanProgresses ==
  ASSUME IInv, ~keepRunning, ScanThread
  PROVE  /\ ScanWork' + 4 * Len(queue') < ScanWork + 4 * Len(queue)
         /\ CloudWork' <= CloudWork /\ OtherWork' = OtherWork
<1>1. /\ pushed \in Nat /\ pushed % 4 \in 0..3
  BY BoundsAssumption DEF IInv, TypeOK, MaxPackets, BurstLen
<1>2. OtherWork' = OtherWork
  <2>1. UNCHANGED <<mainPc, sigPc, signals>>
    BY DEF ScanThread, ScanCheck, ScanNothing, ScanAccept, SendLock, SendPush, SendNotify,
           SendUnlock, sigVars
  <2>2. QED
    BY <2>1 DEF OtherWork
<1>3. CloudWork' <= CloudWork
  <2>1. cloudPc' = cloudPc /\ (waiting' = waiting \/ waiting' = FALSE)
    BY DEF ScanThread, ScanCheck, ScanNothing, ScanAccept, SendLock, SendPush, SendNotify,
           SendUnlock, cloudVars
  <2>2. CloudRank[cloudPc] \in Nat
    BY DEF IInv, TypeOK, CloudPcs, CloudRank
  <2>3. QED
    BY <2>1, <2>2 DEF CloudWork
<1>4. Len(queue) \in Nat
  BY DEF IInv, TypeOK
<1>5. CASE SendPush
  <2>1. Len(queue') = Len(queue) + 1
    BY <1>5, AppendProperties DEF SendPush, IInv, TypeOK
  <2>2. scanPc = "push" /\ scanPc' = "notify" /\ pushed' = pushed + 1
    BY <1>5 DEF SendPush
  <2>3. ScanRank[scanPc] = 0 /\ ScanRank[scanPc'] = 3
    BY <2>2 DEF ScanRank
  <2>4. ToPush \in Nat /\ ToPush' = ToPush - 1
    <3>1. ToPush = 4 - (pushed % 4)
      BY <2>2 DEF ToPush, BurstLen
    <3>2. ToPush' = IF (pushed + 1) % 4 # 0 THEN 4 - ((pushed + 1) % 4) ELSE 0
      BY <2>2 DEF ToPush, BurstLen
    <3>3. (pushed + 1) % 4 = IF pushed % 4 = 3 THEN 0 ELSE (pushed % 4) + 1
      BY <1>1
    <3>4. QED
      BY <1>1, <3>1, <3>2, <3>3
  <2>5. ScanWork = 8 * ToPush /\ ScanWork' = 3 + 8 * (ToPush - 1)
    BY <2>3, <2>4 DEF ScanWork
  <2>6. QED
    BY <1>2, <1>3, <1>4, <2>1, <2>4, <2>5
<1>6. CASE ~SendPush
  <2>1. /\ Len(queue') = Len(queue) /\ pushed' = pushed
        /\ \/ scanPc = "loop" /\ scanPc' = "exit"
           \/ scanPc = "work" /\ scanPc' = "loop"
           \/ scanPc = "work" /\ scanPc' = "lock"
           \/ scanPc = "lock" /\ scanPc' = "push"
           \/ scanPc = "notify" /\ scanPc' = "unlock"
           \/ scanPc = "unlock" /\ scanPc' = IF pushed % 4 = 0 THEN "loop" ELSE "lock"
    BY <1>6 DEF ScanThread, ScanCheck, ScanNothing, ScanAccept, SendLock, SendNotify,
                SendUnlock, BurstLen
  <2>2. ToPush' <= ToPush /\ ToPush \in Nat /\ ToPush' \in Nat
    BY <1>1, <2>1 DEF ToPush, BurstLen
  <2>3. /\ ScanRank[scanPc'] < ScanRank[scanPc]
        /\ ScanRank[scanPc'] \in Nat /\ ScanRank[scanPc] \in Nat
    BY <2>1 DEF ScanRank
  <2>4. ScanWork' < ScanWork
    BY <2>2, <2>3 DEF ScanWork
  <2>5. ScanWork \in Nat /\ ScanWork' \in Nat
    BY <2>2, <2>3 DEF ScanWork
  <2>6. QED
    BY <1>2, <1>3, <1>4, <2>1, <2>4, <2>5
<1>7. QED
  BY <1>5, <1>6

\* The cloud thread's steps: it never goes back to sleep, and a pop takes four
\* off.
LEMMA CloudProgresses ==
  ASSUME IInv, ~keepRunning, CloudThread \/ SpuriousWakeup
  PROVE  /\ CloudWork' + 4 * Len(queue') < CloudWork + 4 * Len(queue)
         /\ ScanWork' = ScanWork /\ OtherWork' = OtherWork
<1>1. /\ UNCHANGED <<scanPc, pushed, mainPc, sigPc, signals>>
      /\ waiting \in BOOLEAN /\ Len(queue) \in Nat
  BY DEF CloudThread, SpuriousWakeup, CloudCheck, CloudLock, CloudPredicate, CloudBlock,
         CloudWake, CloudPop, CloudDrained, CloudUrl, CloudSend, CloudRelock, scanVars,
         sigVars, IInv, TypeOK
<1>2. ScanWork' = ScanWork /\ OtherWork' = OtherWork
  BY <1>1 DEF ScanWork, ToPush, OtherWork
<1>3. CASE CloudPop
  <2>1. Len(queue') = Len(queue) - 1
    BY <1>3 DEF CloudPop, IInv, TypeOK
  <2>2. cloudPc = "drain" /\ cloudPc' = "url" /\ waiting' = waiting
    BY <1>3 DEF CloudPop
  <2>3. CloudRank[cloudPc] = 2 /\ CloudRank[cloudPc'] = 5
    BY <2>2 DEF CloudRank
  <2>4. CloudWork' = CloudWork + 3 /\ CloudWork \in Nat
    BY <1>1, <2>2, <2>3 DEF CloudWork
  <2>5. QED
    BY <1>1, <1>2, <2>1, <2>4
<1>4. CASE SpuriousWakeup
  <2>1. cloudPc = "wait" /\ cloudPc' = "wait" /\ waiting /\ ~waiting' /\ queue' = queue
    BY <1>4 DEF SpuriousWakeup, cloudVars
  <2>2. CloudRank["wait"] = 5
    BY DEF CloudRank
  <2>3. CloudWork = 6 /\ CloudWork' = 5
    BY <2>1, <2>2 DEF CloudWork
  <2>4. QED
    BY <1>1, <1>2, <2>1, <2>3
<1>5. CASE CloudBlock
  <2>1. cloudPc = "block" /\ cloudPc' = "wait" /\ waiting' /\ queue' = queue
    BY <1>5 DEF CloudBlock
  <2>2. CloudRank["block"] = 7 /\ CloudRank["wait"] = 5
    BY DEF CloudRank
  <2>3. CloudWork \in Nat /\ CloudWork >= 7 /\ CloudWork' = 6
    BY <1>1, <2>1, <2>2 DEF CloudWork
  <2>4. QED
    BY <1>1, <1>2, <2>1, <2>3
<1>6. CASE CloudThread /\ ~CloudPop /\ ~CloudBlock
  <2>1. /\ queue' = queue /\ waiting' = waiting
        /\ \/ cloudPc = "check" /\ cloudPc' = "exit"
           \/ cloudPc = "lock" /\ cloudPc' = "pred"
           \/ cloudPc = "pred" /\ cloudPc' = "drain"
           \/ cloudPc = "wait" /\ cloudPc' = "lock"
           \/ cloudPc = "drain" /\ cloudPc' = "check"
           \/ cloudPc = "url" /\ cloudPc' = "send"
           \/ cloudPc = "send" /\ cloudPc' = "relock"
           \/ cloudPc = "relock" /\ cloudPc' = "drain"
    BY <1>6 DEF CloudThread, CloudCheck, CloudLock, CloudPredicate, CloudWake, CloudDrained,
                CloudUrl, CloudSend, CloudRelock
  <2>2. /\ CloudRank[cloudPc'] < CloudRank[cloudPc]
        /\ CloudRank[cloudPc'] \in Nat /\ CloudRank[cloudPc] \in Nat
    BY <2>1 DEF CloudRank
  <2>3. CloudWork' < CloudWork /\ CloudWork \in Nat /\ CloudWork' \in Nat
    BY <1>1, <2>1, <2>2 DEF CloudWork
  <2>4. QED
    BY <1>1, <1>2, <2>1, <2>3
<1>7. QED
  BY <1>3, <1>4, <1>5, <1>6

\* main()'s, the handlers' and the crash.
LEMMA OthersProgress ==
  ASSUME IInv, ~keepRunning, CloudCrash \/ SigClear \/ SigNotify \/ MainStep
  PROVE  /\ OtherWork' < OtherWork /\ ScanWork' <= ScanWork /\ CloudWork' <= CloudWork
         /\ Len(queue') = Len(queue)
<1>1. /\ ScanWork \in Nat /\ CloudWork \in Nat /\ MainRank[mainPc] \in Nat
      /\ SigRank[sigPc] \in Nat /\ signals \in Int /\ MaxSignals \in Int
  <2>1. MainRank[mainPc] \in Nat
    BY DEF IInv, TypeOK, MainPcs, MainRank
  <2>2. SigRank[sigPc] \in Nat
    BY DEF IInv, TypeOK, SigPcs, SigRank
  <2>3. QED
    BY <2>1, <2>2, WorkIsNat, BoundsAssumption DEF IInv, TypeOK, WorkNat
<1>2. CASE SigClear \/ SigNotify
  <2>1. /\ UNCHANGED <<scanPc, pushed, cloudPc, mainPc, queue>>
        /\ waiting' = waiting \/ waiting' = FALSE
        /\ \/ sigPc = "idle" /\ sigPc' = "notify" /\ signals' = signals + 1
           \/ sigPc = "notify" /\ sigPc' = "idle" /\ signals' = signals
    BY <1>2 DEF SigClear, SigNotify, scanVars, cloudVars
  <2>2. ScanWork' = ScanWork
    BY <2>1 DEF ScanWork, ToPush
  <2>3. CloudWork' <= CloudWork
    <3>1. CloudRank[cloudPc] \in Nat
      BY DEF IInv, TypeOK, CloudPcs, CloudRank
    <3>2. QED
      BY <2>1, <3>1 DEF CloudWork
  <2>4. SigRank["idle"] = 0 /\ SigRank["notify"] = 1
    BY DEF SigRank
  <2>5. OtherWork' < OtherWork
    BY <1>1, <2>1, <2>4 DEF OtherWork
  <2>6. QED
    BY <1>1, <2>1, <2>2, <2>3, <2>5
<1>3. CASE MainStep
  <2>1. UNCHANGED <<scanPc, pushed, cloudPc, queue, waiting, sigPc, signals>>
    BY <1>3 DEF MainStep, scanVars, cloudVars, sigVars
  <2>2. ScanWork' = ScanWork /\ CloudWork' = CloudWork
    BY <2>1 DEF ScanWork, ToPush, CloudWork
  <2>3. MainRank[mainPc'] < MainRank[mainPc] /\ MainRank[mainPc'] \in Nat
    BY <1>3 DEF MainStep, MainRank
  <2>4. OtherWork' < OtherWork
    BY <1>1, <2>1, <2>3 DEF OtherWork
  <2>5. QED
    BY <1>1, <2>1, <2>2, <2>4
<1>4. CASE CloudCrash
  <2>1. /\ scanPc' = "dead" /\ cloudPc = "send" /\ cloudPc' = "dead" /\ mainPc' = "dead"
        /\ sigPc' = "dead" /\ UNCHANGED <<queue, waiting, signals>>
    BY <1>4 DEF CloudCrash
  <2>2. ScanWork' <= ScanWork
    <3>1. ScanRank["dead"] = 0
      BY DEF ScanRank
    <3>2. ScanWork' = 0
      BY <2>1, <3>1 DEF ScanWork, ToPush
    <3>3. QED
      BY <1>1, <3>2
  <2>3. CloudWork' <= CloudWork
    <3>1. CloudRank["send"] = 4 /\ CloudRank["dead"] = 0
      BY DEF CloudRank
    <3>2. QED
      BY <2>1, <3>1 DEF CloudWork
  <2>4. OtherWork' < OtherWork
    <3>1. mainPc \in {"running", "joinCloud"}
      BY <2>1 DEF IInv, TypeOK, MainPcs, Joining, NoneDead
    <3>2. MainRank[mainPc] > 0 /\ MainRank["dead"] = 0 /\ SigRank["dead"] = 0
      BY <3>1 DEF MainRank, SigRank
    <3>3. QED
      BY <1>1, <2>1, <3>2 DEF OtherWork
  <2>5. QED
    BY <2>1, <2>2, <2>3, <2>4
<1>5. QED
  BY <1>2, <1>3, <1>4

\* Every step takes something off.
LEMMA WorkShrinks ==
  ASSUME IInv, ~keepRunning, Next
  PROVE  ShutdownWork' < ShutdownWork
<1>1. /\ ScanWork \in Nat /\ CloudWork \in Nat /\ OtherWork \in Nat /\ Len(queue) \in Nat
  BY WorkIsNat DEF IInv, WorkNat
<1>2. /\ ScanWork' \in Nat /\ CloudWork' \in Nat /\ OtherWork' \in Nat
      /\ Len(queue') \in Nat
  <2>1. TypeOK'
    BY StepIInv DEF IInv
  <2>2. WorkNat'
    BY <2>1, WorkIsNat, PTL
  <2>3. QED
    BY <2>2 DEF WorkNat
<1>3. \/ /\ ScanWork' + 4 * Len(queue') < ScanWork + 4 * Len(queue)
         /\ CloudWork' <= CloudWork /\ OtherWork' <= OtherWork
      \/ /\ CloudWork' + 4 * Len(queue') < CloudWork + 4 * Len(queue)
         /\ ScanWork' <= ScanWork /\ OtherWork' <= OtherWork
      \/ /\ OtherWork' < OtherWork /\ ScanWork' <= ScanWork /\ CloudWork' <= CloudWork
         /\ Len(queue') = Len(queue)
  <2>1. CASE ScanThread
    BY <1>1, <2>1, ScanProgresses
  <2>2. CASE CloudThread \/ SpuriousWakeup
    BY <1>1, <2>2, CloudProgresses
  <2>3. CASE CloudCrash \/ SigClear \/ SigNotify \/ MainStep
    BY <2>3, OthersProgress
  <2>4. QED
    BY <2>1, <2>2, <2>3 DEF Next
<1>4. ScanWork' + CloudWork' + OtherWork' + 4 * Len(queue')
        < ScanWork + CloudWork + OtherWork + 4 * Len(queue)
  BY <1>1, <1>2, <1>3, Less
<1>5. QED
  BY <1>4 DEF ShutdownWork

\* After a SIGINT the program takes a bounded number of steps, whatever the
\* order: each takes something off a natural number (main.cpp:623, 702-817,
\* 839-863, 908-919).
THEOREM Terminates == Spec => ShutdownProgress
<1>1. IInv /\ [Next]_vars => [~keepRunning => ShutdownWork' < ShutdownWork]_vars
  BY WorkShrinks
<1>2. QED
  BY <1>1, Invariance, PTL DEF Spec, ShutdownProgress

\* The cloud thread sleeps, once a handler has run, only if its notify_all fell
\* in the gap between the predicate's test and the sleep.
AsleepOnlyIfMissed ==
  ~keepRunning /\ sigPc = "idle" /\ (cloudPc = "block" \/ waiting) => missedNotify

\* A step that one of the program's own threads can take.
CanMove ==
  \/ scanPc \in {"loop", "work", "push", "notify", "unlock"}
  \/ scanPc = "lock" /\ mutex = "free"
  \/ cloudPc \in {"check", "pred", "block", "drain", "url", "send"}
  \/ cloudPc \in {"lock", "relock"} /\ mutex = "free"
  \/ cloudPc = "wait" /\ ~waiting
  \/ mainPc = "running" /\ ~keepRunning
  \/ mainPc = "joinCloud" /\ cloudPc = "exit"
  \/ mainPc = "joinScan" /\ scanPc = "exit"

\* After a SIGINT the program stops moving only when it has ended, unless the
\* handler's notify_all was missed: nobody waits on anybody else for ever.
HangsOnlyIfMissed ==
  ~keepRunning /\ sigPc = "idle" => CanMove \/ Ended \/ missedNotify

LEMMA AsleepInit == Init => AsleepOnlyIfMissed
BY DEF Init, AsleepOnlyIfMissed

LEMMA AsleepStep == IInv /\ AsleepOnlyIfMissed /\ [Next]_vars => AsleepOnlyIfMissed'
<1> SUFFICES ASSUME IInv, AsleepOnlyIfMissed, [Next]_vars PROVE AsleepOnlyIfMissed'
  OBVIOUS
<1> USE DEF AsleepOnlyIfMissed, scanVars, cloudVars, sigVars
<1>1. CASE ScanThread
  BY <1>1 DEF ScanThread, ScanCheck, ScanNothing, ScanAccept, SendLock, SendPush, SendNotify,
              SendUnlock
<1>2. CASE CloudThread \/ SpuriousWakeup
  BY <1>2 DEF CloudThread, SpuriousWakeup, CloudCheck, CloudLock, CloudPredicate, CloudBlock,
              CloudWake, CloudPop, CloudDrained, CloudUrl, CloudSend, CloudRelock, IInv, Sleep
<1>3. CASE CloudCrash \/ SigClear \/ MainStep
  BY <1>3 DEF CloudCrash, SigClear, MainStep
<1>4. CASE SigNotify
  BY <1>4 DEF SigNotify, IInv, TypeOK
<1>5. CASE UNCHANGED vars
  BY <1>5 DEF vars
<1>6. QED
  BY <1>1, <1>2, <1>3, <1>4, <1>5 DEF Next

\* With Terminates: a program that SIGINT has reached comes to its end, or the
\* missed notify_all of ShutdownCompletes's counterexample is why it does not
\* (main.cpp:842-844, 867-872, 908-919).
THEOREM NoOtherHang == Spec => []HangsOnlyIfMissed
<1>1. IInv /\ AsleepOnlyIfMissed => HangsOnlyIfMissed
  <2>1. SUFFICES ASSUME IInv, AsleepOnlyIfMissed, ~keepRunning, sigPc = "idle", ~Ended,
                        ~missedNotify
                 PROVE  CanMove
    BY DEF HangsOnlyIfMissed
  <2>2. /\ scanPc \in ScanPcs /\ cloudPc \in CloudPcs /\ mainPc \in MainPcs
        /\ waiting \in BOOLEAN /\ mutex \in {"free", "scan", "cloud"}
    BY <2>1 DEF IInv, TypeOK
  <2>3. cloudPc # "dead" /\ scanPc # "dead" /\ mainPc \notin {"done", "dead"}
    BY <2>1 DEF IInv, AllDead, NoneDead, Ended
  <2>4. ~waiting
    BY <2>1 DEF AsleepOnlyIfMissed
  <2>5. mutex = "scan" <=> ScanInside
    BY <2>1, <2>3 DEF IInv, LockOwner
  <2>6. mutex = "cloud" <=> CloudInside
    BY <2>1, <2>3 DEF IInv, LockOwner
  <2>7. CASE scanPc # "exit"
    <3>1. CASE scanPc = "lock" /\ mutex = "cloud"
      BY <2>6, <3>1 DEF CanMove, CloudInside
    <3>2. CASE ~(scanPc = "lock" /\ mutex = "cloud")
      <4>1. mutex = "scan" => scanPc \in {"push", "notify", "unlock"}
        BY <2>5 DEF ScanInside
      <4>2. QED
        BY <2>2, <2>3, <2>7, <3>2, <4>1 DEF CanMove, ScanPcs
    <3>3. QED
      BY <3>1, <3>2
  <2>8. CASE scanPc = "exit" /\ cloudPc # "exit"
    BY <2>2, <2>3, <2>4, <2>5, <2>6, <2>8 DEF CanMove, CloudPcs, CloudInside, ScanInside
  <2>9. CASE scanPc = "exit" /\ cloudPc = "exit"
    BY <2>1, <2>2, <2>3, <2>9 DEF CanMove, MainPcs
  <2>10. QED
    BY <2>7, <2>8, <2>9
<1>2. QED
  BY <1>1, AsleepInit, AsleepStep, Invariance, PTL DEF Spec
=============================================================================
