-------------------------- MODULE BleConnectProofs --------------------------
(***************************************************************************)
(* Proofs about BleConnect for any configuration, any number of tapes and   *)
(* descriptors, and any delay and back-off.                                 *)
(***************************************************************************)
EXTENDS BleConnect, WellFoundedInduction, FiniteSetTheorems, TLAPS

\* A set of numbers has a least one, if it has any: the next tape of the map,
\* the lowest free descriptor.
LessThan == {p \in Nat \X Nat : p[1] < p[2]}

LEMMA LeastExists ==
  ASSUME NEW T, T \subseteq Nat, T # {}
  PROVE  \E m \in T : \A n \in T : m <= n
<1>1. IsWellFoundedOn(LessThan, Nat)
  BY NatLessThanWellFounded DEF OpToRel, LessThan
<1>2. \E m \in T : \A n \in T : ~(<<n, m>> \in LessThan)
  BY <1>1, WFMin, Zenon
<1> PICK m \in T : \A n \in T : ~(<<n, m>> \in LessThan)
  BY <1>2
<1>3. ASSUME NEW n \in T PROVE m <= n
  <2>1. n \in Nat /\ m \in Nat /\ <<n, m>> \in Nat \X Nat
    OBVIOUS
  <2>2. <<n, m>>[1] = n /\ <<n, m>>[2] = m
    OBVIOUS
  <2>3. ~(n < m)
    BY <2>1, <2>2 DEF LessThan
  <2>4. QED
    BY <2>1, <2>3
<1>4. QED
  BY <1>3

-----------------------------------------------------------------------------
(* The inductive invariant.                                                *)

\* A thread at work on a tape works on one of the list.
OnTape ==
  /\ connPc \in AttemptPcs => it \in Tapes
  /\ scanPc # "idle" => scanTape \in Tapes
  /\ HasSocket => sock \in 0..(FdLimit - 1)

\* A record's time is the end of its last attempt.
SameTime == \A t \in Tapes : tapeList[t].lastSent = ended[t]

\* A check that no attempt has overlapped: its tape is not being attempted,
\* and what it has read of the record still holds.
CheckHolds ==
  scanPc # "idle" /\ ~raced =>
    /\ ~Attempting(scanTape)
    /\ scanNow <= now
    /\ scanPc \in {"delay", "mark"} =>
         now - ended[scanTape] >= tapeList[scanTape].backOff
    /\ scanPc = "mark" => now - ended[scanTape] >= Delay

\* A mark set during the tape's own attempt comes from a check it overlaps.
MarkedDuring == \A t \in Tapes : Attempting(t) /\ tapeList[t].found => t \in early

ConnIInv ==
  /\ TypeOK
  /\ OnTape
  /\ SameTime
  /\ CheckHolds
  /\ MarkedDuring
  /\ CooldownKept
  /\ SocketsAccounted

-----------------------------------------------------------------------------

\* The tape the loop comes to next, and the descriptor socket() returns.
LEMMA NextTapeLater == Later # {} => NextTape \in Tapes
<1>1. SUFFICES ASSUME Later # {} PROVE NextTape \in Tapes
  OBVIOUS
<1>2. Later \subseteq Nat
  BY ConnectAssumption DEF Later, Tapes
<1>3. \E m \in Later : \A n \in Later : m <= n
  BY <1>1, <1>2, LeastExists
<1>4. NextTape \in Later
  BY <1>3 DEF NextTape
<1>5. QED
  BY <1>4 DEF Later

LEMMA LowestFreeFree == FreeFds # {} => LowestFree \in FreeFds
<1>1. SUFFICES ASSUME FreeFds # {} PROVE LowestFree \in FreeFds
  OBVIOUS
<1>2. FreeFds \subseteq Nat
  BY ConnectAssumption DEF FreeFds
<1>3. \E m \in FreeFds : \A n \in FreeFds : m <= n
  BY <1>1, <1>2, LeastExists
<1>4. QED
  BY <1>3 DEF LowestFree

\* What a result makes of a record is a record.
LEMMA RecordKept ==
  ASSUME NEW r \in Record, NEW m \in Nat
  PROVE  /\ [r EXCEPT !.lastSent = m] \in Record
         /\ [r EXCEPT !.found = TRUE] \in Record /\ [r EXCEPT !.found = FALSE] \in Record
         /\ Succeeded(r) \in Record /\ Retried(r) \in Record
         /\ Succeeded(r).found = r.found /\ Succeeded(r).lastSent = r.lastSent
         /\ Retried(r).found = r.found /\ Retried(r).lastSent = r.lastSent
<1>1. r.retry + 1 \in Nat /\ Lesser(BackOffCap, (r.retry + 1) * BackOffStep) \in Nat
  <2>1. r.retry + 1 \in Nat /\ BackOffStep \in Nat /\ BackOffCap \in Nat
    BY ConnectAssumption DEF Record
  <2>2. (r.retry + 1) * BackOffStep \in Nat
    BY <2>1
  <2>3. QED
    BY <2>1, <2>2 DEF Lesser
<1>2. Succeeded(r) \in Record /\ Succeeded(r).found = r.found
      /\ Succeeded(r).lastSent = r.lastSent
  BY DEF Record, Succeeded
<1>3. Retried(r) \in Record /\ Retried(r).found = r.found
      /\ Retried(r).lastSent = r.lastSent
  <2>1. Retried(r) = [r EXCEPT !.connected = FALSE, !.retry = r.retry + 1,
                        !.backOff = Lesser(BackOffCap, (r.retry + 1) * BackOffStep)]
    BY DEF Retried, Record
  <2>2. QED
    BY <1>1, <2>1 DEF Record
<1>4. [r EXCEPT !.lastSent = m] \in Record
  BY DEF Record
<1>5. [r EXCEPT !.found = TRUE] \in Record /\ [r EXCEPT !.found = FALSE] \in Record
  BY DEF Record
<1>6. QED
  BY <1>2, <1>3, <1>4, <1>5

\* The program starts with the invariant.
LEMMA InitConn == Init => ConnIInv
<1>1. SUFFICES ASSUME Init PROVE ConnIInv
  OBVIOUS
<1>2. NewRecord \in Record /\ LongAgo \in Int
  BY ConnectAssumption DEF NewRecord, Record, LongAgo
<1>3. tapeList \in [Tapes -> Record] /\ ended \in [Tapes -> Int]
  BY <1>1, <1>2 DEF Init
<1>4. openFds \subseteq 0..(FdLimit - 1) \cup {0, 1, 2} /\ openFds = Inherited
  BY <1>1 DEF Init, Inherited
<1>5. TypeOK
  <2>1. /\ now \in 0..MaxTime /\ scanNow \in 0..MaxTime /\ sock \in -1..(FdLimit - 1)
        /\ it \in Tapes \cup {0} /\ scanTape \in Tapes \cup {0}
    BY <1>1, ConnectAssumption DEF Init
  <2>2. /\ connPc \in ConnPcs /\ scanPc \in ScanPcs /\ sigPc \in {"idle", "notify", "done"}
        /\ early \subseteq Tapes /\ lost \subseteq 0..(FdLimit - 1)
    BY <1>1 DEF Init, ConnPcs, ScanPcs
  <2>3. /\ keepRunning \in BOOLEAN /\ waiting \in BOOLEAN /\ missed \in BOOLEAN
        /\ raced \in BOOLEAN /\ stdinOpen \in BOOLEAN
    BY <1>1 DEF Init
  <2>4. QED
    BY <1>3, <1>4, <2>1, <2>2, <2>3 DEF TypeOK
<1>6. \A t \in Tapes : /\ tapeList[t].found = FALSE
                       /\ tapeList[t].lastSent = LongAgo /\ ended[t] = LongAgo
  BY <1>1 DEF Init, NewRecord
<1>7. QED
  BY <1>1, <1>4, <1>5, <1>6 DEF Init, ConnIInv, OnTape, SameTime, CheckHolds, MarkedDuring,
     CooldownKept, SocketsAccounted, HasSocket, AttemptPcs

-----------------------------------------------------------------------------
(* Each group of actions preserves the invariant.                          *)

\* Steps that touch neither the records nor an attempt.
LEMMA QuietKeeps ==
  ASSUME ConnIInv,
         \/ ConnCheck \/ ConnPredicate \/ ConnBlock \/ ConnWake
         \/ SpuriousWakeup \/ SigClear \/ SigNotify
  PROVE  ConnIInv'
<1>1. /\ UNCHANGED <<now, stdinOpen, tapeList, it, sock, openFds, scanVars, raced, early,
                     ended, lost>>
      /\ connPc' = connPc \/ {connPc, connPc'} \cap AttemptPcs = {}
      /\ connPc' \in ConnPcs /\ sigPc' \in {"idle", "notify", "done"}
      /\ keepRunning' \in BOOLEAN /\ waiting' \in BOOLEAN /\ missed' \in BOOLEAN
  BY DEF ConnCheck, ConnPredicate, ConnBlock, ConnWake, SpuriousWakeup, SigClear, SigNotify,
     clockVars, connVars, scanVars, histVars, ConnIInv, TypeOK, ConnPcs, AttemptPcs
<1>2. TypeOK'
  BY <1>1 DEF ConnIInv, TypeOK, scanVars
<1>3. \A t : Attempting(t)' <=> Attempting(t)
  BY <1>1 DEF Attempting
<1>4. HasSocket' <=> HasSocket
  BY <1>1 DEF HasSocket, AttemptPcs
<1>5. OnTape' /\ SocketsAccounted'
  BY <1>1, <1>4 DEF ConnIInv, OnTape, SocketsAccounted, scanVars, HasSocket, Inherited, AttemptPcs
<1>6. SameTime' /\ CheckHolds' /\ MarkedDuring' /\ CooldownKept'
  BY <1>1, <1>3 DEF ConnIInv, SameTime, CheckHolds, MarkedDuring, CooldownKept, scanVars
<1>7. QED
  BY <1>2, <1>5, <1>6 DEF ConnIInv

\* A second passes.
LEMMA TickKeeps ==
  ASSUME ConnIInv, Tick
  PROVE  ConnIInv'
<1>1. /\ now' = now + 1 /\ now \in Nat /\ now' \in 0..MaxTime
      /\ UNCHANGED <<keepRunning, sigPc, stdinOpen, tapeList, waiting, connPc, it, sock,
                     openFds, scanPc, scanTape, scanNow, missed, raced, early, ended, lost>>
  BY ConnectAssumption DEF Tick, connVars, scanVars, histVars, ConnIInv, TypeOK
<1>2. TypeOK'
  BY <1>1 DEF ConnIInv, TypeOK
<1>3. OnTape' /\ SocketsAccounted' /\ SameTime' /\ MarkedDuring'
  BY <1>1 DEF ConnIInv, OnTape, SocketsAccounted, SameTime, MarkedDuring, Attempting,
     HasSocket, Inherited
<1>4. \A t \in Tapes : ended[t] \in Int /\ tapeList[t].backOff \in Nat
  BY DEF ConnIInv, TypeOK, Record
<1>5. CheckHolds'
  BY <1>1, <1>4, ConnectAssumption DEF ConnIInv, CheckHolds, OnTape, Attempting, TypeOK
<1>6. CooldownKept'
  BY <1>1, <1>4, ConnectAssumption DEF ConnIInv, CooldownKept
<1>7. QED
  BY <1>2, <1>3, <1>5, <1>6 DEF ConnIInv

\* The scan thread's check, read by read.
LEMMA CheckKeeps ==
  ASSUME ConnIInv, (\E t \in Tapes : Hear(t)) \/ CheckDelay \/ Notify
  PROVE  ConnIInv'
<1>1. /\ UNCHANGED <<clockVars, tapeList, connVars, early, ended, lost>>
      /\ waiting' \in BOOLEAN /\ missed' \in BOOLEAN
  BY DEF Hear, CheckDelay, Notify, ConnIInv, TypeOK, AttemptPcs
<1>2. /\ scanPc' \in ScanPcs /\ scanTape' \in Tapes \cup {0} /\ scanNow' \in 0..MaxTime
      /\ raced' \in BOOLEAN /\ (scanPc' # "idle" => scanTape' \in Tapes)
  <2>1. CASE \E t \in Tapes : Hear(t)
    BY <2>1 DEF Hear, ScanPcs, Attempting, ConnIInv, TypeOK
  <2>2. CASE CheckDelay
    <3>1. scanTape \in Tapes /\ scanNow \in 0..MaxTime /\ raced \in BOOLEAN /\ 0 \in 0..MaxTime
      BY <2>2, ConnectAssumption DEF CheckDelay, ConnIInv, TypeOK, OnTape
    <3>2. \/ scanPc' = "mark" /\ UNCHANGED <<scanTape, scanNow, raced>>
          \/ scanPc' = "idle" /\ scanTape' = 0 /\ scanNow' = 0 /\ raced' = FALSE
      BY <2>2 DEF CheckDelay, CheckReturns
    <3>3. CASE scanPc' = "mark" /\ UNCHANGED <<scanTape, scanNow, raced>>
      BY <3>1, <3>3 DEF ScanPcs
    <3>4. CASE scanPc' = "idle" /\ scanTape' = 0 /\ scanNow' = 0 /\ raced' = FALSE
      BY <3>1, <3>4 DEF ScanPcs
    <3>5. QED
      BY <3>2, <3>3, <3>4
  <2>3. CASE Notify
    BY <2>3 DEF Notify, ScanPcs, ConnIInv, TypeOK
  <2>4. QED
    BY <2>1, <2>2, <2>3
<1>3. TypeOK'
  BY <1>1, <1>2 DEF ConnIInv, TypeOK, clockVars, connVars
<1>4. OnTape' /\ SocketsAccounted' /\ SameTime' /\ MarkedDuring' /\ CooldownKept'
  BY <1>1, <1>2 DEF ConnIInv, OnTape, SocketsAccounted, SameTime, MarkedDuring, CooldownKept,
     Attempting, HasSocket, Inherited, clockVars, connVars
<1>5. CheckHolds'
  <2>1. CASE \E t \in Tapes : Hear(t)
    <3>1. PICK t \in Tapes : Hear(t)
      BY <2>1
    <3>2. now - ended[t] >= tapeList[t].backOff
      BY <3>1 DEF Hear, BackOffOver, ConnIInv, SameTime
    <3>3. /\ scanPc' = "delay" /\ scanTape' = t /\ scanNow' = now
          /\ raced' = Attempting(t) /\ UNCHANGED <<now, tapeList, ended, connPc, it>>
          /\ now \in Nat
      BY <3>1 DEF Hear, clockVars, connVars, ConnIInv, TypeOK
    <3>4. ~raced' => ~Attempting(scanTape)'
      BY <3>3 DEF Attempting
    <3>5. scanNow' <= now' /\ now' - ended'[scanTape'] >= tapeList'[scanTape'].backOff
      BY <3>2, <3>3
    <3>6. QED
      BY <3>3, <3>4, <3>5 DEF CheckHolds
  <2>2. CASE CheckDelay
    <3>1. CASE scanPc' = "idle"
      BY <3>1 DEF CheckHolds
    <3>2. CASE scanPc' # "idle"
      <4>1. /\ scanPc = "delay" /\ scanPc' = "mark" /\ UNCHANGED <<scanTape, scanNow, raced>>
            /\ scanNow - tapeList[scanTape].lastSent >= Delay
        BY <2>2, <3>2 DEF CheckDelay, CheckReturns
      <4>2. /\ scanTape \in Tapes /\ ended[scanTape] \in Int /\ now \in Int /\ scanNow \in Int
            /\ Delay \in Nat /\ tapeList[scanTape].lastSent = ended[scanTape]
        BY <4>1, ConnectAssumption DEF ConnIInv, OnTape, TypeOK, SameTime
      <4>3. ~raced => scanNow <= now /\ ~Attempting(scanTape)
                      /\ now - ended[scanTape] >= tapeList[scanTape].backOff
        BY <4>1 DEF ConnIInv, CheckHolds
      <4>4. ~raced => now - ended[scanTape] >= Delay
        BY <4>1, <4>2, <4>3
      <4>5. QED
        BY <1>1, <4>1, <4>3, <4>4 DEF CheckHolds, Attempting, clockVars, connVars
    <3>3. QED
      BY <3>1, <3>2
  <2>3. CASE Notify
    BY <2>3 DEF Notify, CheckHolds
  <2>4. QED
    BY <2>1, <2>2, <2>3
<1>6. QED
  BY <1>3, <1>4, <1>5 DEF ConnIInv

LEMMA MarkKeeps ==
  ASSUME ConnIInv, Mark
  PROVE  ConnIInv'
<1>1. /\ scanTape \in Tapes /\ scanPc = "mark" /\ scanPc' = "notify"
      /\ tapeList' = [tapeList EXCEPT ![scanTape].found = TRUE]
      /\ early' = (IF raced THEN early \cup {scanTape} ELSE early)
      /\ UNCHANGED <<now, keepRunning, sigPc, stdinOpen, waiting, connPc, it, sock, openFds,
                     scanTape, scanNow, missed, raced, ended, lost>>
  BY DEF Mark, ConnIInv, OnTape, clockVars, connVars
<1>2. \A t \in Tapes : /\ tapeList'[t] \in Record
                       /\ tapeList'[t].lastSent = tapeList[t].lastSent
                       /\ tapeList'[t].backOff = tapeList[t].backOff
                       /\ t # scanTape => tapeList'[t] = tapeList[t]
  BY <1>1 DEF ConnIInv, TypeOK, Record
<1>3. tapeList' \in [Tapes -> Record]
  BY <1>1, <1>2 DEF ConnIInv, TypeOK
<1>4. TypeOK'
  BY <1>1, <1>3 DEF ConnIInv, TypeOK, ScanPcs
<1>5. OnTape' /\ SocketsAccounted' /\ SameTime' /\ CheckHolds'
  BY <1>1, <1>2 DEF ConnIInv, OnTape, SocketsAccounted, SameTime, CheckHolds, Attempting,
     HasSocket, Inherited
<1>6. CASE raced
  <2>1. MarkedDuring' /\ CooldownKept'
    BY <1>1, <1>2, <1>6 DEF ConnIInv, MarkedDuring, CooldownKept, Attempting
  <2>2. QED
    BY <1>4, <1>5, <2>1 DEF ConnIInv
<1>7. CASE ~raced
  <2>1. /\ ~Attempting(scanTape) /\ now - ended[scanTape] >= tapeList[scanTape].backOff
        /\ now - ended[scanTape] >= Delay
    BY <1>1, <1>7 DEF ConnIInv, CheckHolds
  <2>2. MarkedDuring' /\ CooldownKept'
    BY <1>1, <1>2, <1>7, <2>1 DEF ConnIInv, MarkedDuring, CooldownKept, Attempting
  <2>3. QED
    BY <1>4, <1>5, <2>2 DEF ConnIInv
<1>8. QED
  BY <1>6, <1>7

\* The connect thread's loop over the tapes.
LEMMA RoundKeeps ==
  ASSUME ConnIInv, SkipTape \/ RoundOver
  PROVE  ConnIInv'
<1>1. /\ it' \in Tapes \cup {0} /\ connPc = "next" /\ connPc' \in {"next", "check"}
      /\ UNCHANGED <<clockVars, tapeList, waiting, sock, openFds, scanVars, histVars>>
  BY NextTapeLater DEF SkipTape, RoundOver
<1>2. TypeOK'
  BY <1>1 DEF ConnIInv, TypeOK, ConnPcs, clockVars, scanVars, histVars
<1>3. OnTape' /\ SocketsAccounted' /\ SameTime' /\ CheckHolds' /\ MarkedDuring' /\ CooldownKept'
  BY <1>1 DEF ConnIInv, OnTape, SocketsAccounted, SameTime, CheckHolds, MarkedDuring, CooldownKept,
     Attempting, HasSocket, Inherited, AttemptPcs, clockVars, scanVars, histVars
<1>4. QED
  BY <1>2, <1>3 DEF ConnIInv

LEMMA StartAttemptKeeps ==
  ASSUME ConnIInv, StartAttempt
  PROVE  ConnIInv'
<1>1. /\ NextTape \in Tapes /\ it' = NextTape /\ connPc = "next" /\ connPc' = "socket"
      /\ tapeList' = [tapeList EXCEPT ![NextTape].found = FALSE]
      /\ raced' = (raced \/ (scanPc # "idle" /\ scanTape = NextTape))
      /\ early' = early \ {NextTape}
      /\ UNCHANGED <<now, keepRunning, sigPc, stdinOpen, waiting, sock, openFds, scanPc, scanTape,
                     scanNow, missed, ended, lost>>
  BY NextTapeLater DEF StartAttempt, clockVars, scanVars
<1>2. \A t \in Tapes : /\ tapeList'[t] \in Record
                       /\ tapeList'[t].lastSent = tapeList[t].lastSent
                       /\ tapeList'[t].backOff = tapeList[t].backOff
                       /\ t # NextTape => tapeList'[t] = tapeList[t]
                       /\ t = NextTape => tapeList'[t].found = FALSE
  BY <1>1 DEF ConnIInv, TypeOK, Record
<1>3. tapeList' \in [Tapes -> Record]
  BY <1>1, <1>2 DEF ConnIInv, TypeOK
<1>4. raced' \in BOOLEAN /\ early' \subseteq Tapes
  BY <1>1 DEF ConnIInv, TypeOK
<1>5. TypeOK'
  BY <1>1, <1>3, <1>4 DEF ConnIInv, TypeOK, ConnPcs, AttemptPcs
<1>6. OnTape' /\ SocketsAccounted' /\ SameTime'
  BY <1>1, <1>2 DEF ConnIInv, OnTape, SocketsAccounted, SameTime, HasSocket, Inherited
<1>7. CheckHolds'
  <2>1. SUFFICES ASSUME (scanPc # "idle" /\ ~raced)' PROVE CheckHolds'
    BY DEF CheckHolds
  <2>2. scanPc # "idle" /\ ~raced /\ scanTape # NextTape /\ scanTape \in Tapes
    BY <1>1, <2>1 DEF ConnIInv, OnTape
  <2>3. QED
    BY <1>1, <1>2, <2>2 DEF ConnIInv, CheckHolds, Attempting
<1>8. MarkedDuring' /\ CooldownKept'
  BY <1>1, <1>2 DEF ConnIInv, MarkedDuring, CooldownKept, Attempting, AttemptPcs
<1>9. QED
  BY <1>5, <1>6, <1>7, <1>8 DEF ConnIInv

\* The socket of an attempt.
LEMMA SocketKeeps ==
  ASSUME ConnIInv, OpenSocket \/ OpenSocketFails \/ SetUpFails \/ Connected
  PROVE  ConnIInv'
<1>1. /\ connPc \in AttemptPcs /\ connPc' \in AttemptPcs
      /\ UNCHANGED <<clockVars, tapeList, waiting, it, scanVars, missed, raced, early, ended>>
  BY DEF OpenSocket, OpenSocketFails, SetUpFails, Connected, AttemptFails, AttemptPcs, histVars
<1>2. /\ sock' \in -1..(FdLimit - 1) /\ openFds' \subseteq 0..(FdLimit - 1) \cup {0, 1, 2}
      /\ lost' \subseteq 0..(FdLimit - 1)
      /\ HasSocket' => sock' \in 0..(FdLimit - 1)
      /\ SocketsAccounted'
  <2>1. CASE OpenSocket
    <3>1. LowestFree \in 0..(FdLimit - 1) /\ LowestFree \notin openFds
      BY <2>1, LowestFreeFree DEF OpenSocket, FreeFds
    <3>2. /\ sock' = LowestFree /\ openFds' = openFds \cup {LowestFree} /\ connPc' = "open"
          /\ lost' = lost /\ stdinOpen' = stdinOpen
          /\ openFds = Inherited \cup lost
      BY <2>1 DEF OpenSocket, histVars, clockVars, ConnIInv, SocketsAccounted, HasSocket
    <3>3. SocketsAccounted'
      BY <3>1, <3>2 DEF SocketsAccounted, HasSocket, Inherited
    <3>4. QED
      BY <3>1, <3>2, <3>3, ConnectAssumption DEF ConnIInv, TypeOK
  <2>2. CASE OpenSocketFails
    BY <2>2, ConnectAssumption DEF OpenSocketFails, AttemptFails, ConnIInv, TypeOK, HasSocket,
       SocketsAccounted, Inherited, clockVars
  <2>3. CASE SetUpFails
    <3>1. /\ sock' = -1 /\ openFds' = openFds \ {sock} /\ connPc' = "time"
          /\ lost' = lost /\ stdinOpen' = stdinOpen
          /\ openFds = Inherited \cup lost \cup {sock} /\ sock \notin Inherited \cup lost
      BY <2>3 DEF SetUpFails, AttemptFails, clockVars, ConnIInv, SocketsAccounted, HasSocket
    <3>2. openFds' = Inherited \cup lost
      BY <3>1
    <3>3. SocketsAccounted'
      BY <3>1, <3>2 DEF SocketsAccounted, HasSocket, Inherited
    <3>4. QED
      BY <3>1, <3>3, ConnectAssumption DEF ConnIInv, TypeOK, HasSocket
  <2>4. CASE Connected
    <3>1. /\ UNCHANGED <<sock, openFds, stdinOpen>> /\ connPc' = "time"
          /\ lost' = lost \cup {sock} /\ openFds = Inherited \cup lost \cup {sock}
          /\ sock \in 0..(FdLimit - 1)
      BY <2>4 DEF Connected, clockVars, ConnIInv, SocketsAccounted, HasSocket, OnTape
    <3>2. SocketsAccounted'
      BY <3>1 DEF SocketsAccounted, HasSocket, Inherited
    <3>3. QED
      BY <3>1, <3>2 DEF ConnIInv, TypeOK, HasSocket
  <2>5. QED
    BY <2>1, <2>2, <2>3, <2>4
<1>3. TypeOK'
  BY <1>1, <1>2 DEF ConnIInv, TypeOK, ConnPcs, clockVars, scanVars
<1>4. OnTape' /\ SameTime' /\ CheckHolds' /\ MarkedDuring' /\ CooldownKept'
  BY <1>1, <1>2 DEF ConnIInv, OnTape, SameTime, CheckHolds, MarkedDuring, CooldownKept,
     Attempting, clockVars, scanVars
<1>5. QED
  BY <1>2, <1>3, <1>4 DEF ConnIInv

\* The attempt's result goes into the record: whoever has marked the tape
\* meanwhile overlaps the attempt.
LEMMA StatusKeeps ==
  ASSUME ConnIInv, StatusTime \/ StatusRetry
  PROVE  ConnIInv'
<1>1. /\ it \in Tapes /\ Attempting(it) /\ now \in Nat
      /\ UNCHANGED <<clockVars, waiting, it, openFds, scanVars, missed, raced, early, lost>>
      /\ connPc' \in {"retry", "next"} /\ sock' \in {sock, -1} /\ connPc # "open"
  BY DEF StatusTime, StatusRetry, Attempting, AttemptPcs, histVars, ConnIInv, OnTape, TypeOK
<1>2. /\ tapeList' \in [Tapes -> Record] /\ ended' \in [Tapes -> Int]
      /\ tapeList'[it].lastSent = ended'[it] /\ tapeList'[it].found = tapeList[it].found
      /\ \A t \in Tapes \ {it} : tapeList'[t] = tapeList[t] /\ ended'[t] = ended[t]
  <2>1. tapeList[it] \in Record
    BY <1>1 DEF ConnIInv, TypeOK
  <2>2. CASE StatusTime
    <3>1. tapeList' = [tapeList EXCEPT ![it] = [tapeList[it] EXCEPT !.lastSent = now]]
      BY <2>2 DEF StatusTime, ConnIInv, TypeOK
    <3>2. [tapeList[it] EXCEPT !.lastSent = now] \in Record
      BY <1>1, <2>1, RecordKept
    <3>3. ended' = [ended EXCEPT ![it] = now]
      BY <2>2 DEF StatusTime
    <3>4. tapeList'[it].lastSent = now /\ tapeList'[it].found = tapeList[it].found
      BY <1>1, <2>1, <3>1 DEF ConnIInv, TypeOK, Record
    <3>5. QED
      BY <1>1, <3>1, <3>2, <3>3, <3>4 DEF ConnIInv, TypeOK
  <2>3. CASE StatusRetry
    <3>1. PICK r \in {Succeeded(tapeList[it]), Retried(tapeList[it])} :
            tapeList' = [tapeList EXCEPT ![it] = r]
      BY <2>3 DEF StatusRetry
    <3>2. r \in Record /\ r.found = tapeList[it].found /\ r.lastSent = tapeList[it].lastSent
      BY <1>1, <2>1, <3>1, RecordKept
    <3>3. ended' = ended
      BY <2>3 DEF StatusRetry, histVars
    <3>4. QED
      BY <1>1, <3>1, <3>2, <3>3 DEF ConnIInv, TypeOK, SameTime
  <2>4. QED
    BY <2>2, <2>3
<1>3. TypeOK'
  BY <1>1, <1>2, ConnectAssumption DEF ConnIInv, TypeOK, ConnPcs, AttemptPcs, clockVars, scanVars
<1>4. OnTape' /\ SocketsAccounted'
  BY <1>1 DEF ConnIInv, OnTape, SocketsAccounted, HasSocket, Inherited, clockVars, scanVars
<1>5. SameTime'
  BY <1>1, <1>2 DEF ConnIInv, SameTime
<1>6. CheckHolds'
  <2>1. SUFFICES ASSUME (scanPc # "idle" /\ ~raced)' PROVE CheckHolds'
    BY DEF CheckHolds
  <2>2. scanPc # "idle" /\ ~raced /\ scanTape \in Tapes \ {it}
    BY <1>1, <2>1 DEF ConnIInv, OnTape, CheckHolds, scanVars
  <2>3. QED
    BY <1>1, <1>2, <2>2 DEF ConnIInv, CheckHolds, Attempting, AttemptPcs, clockVars, scanVars
<1>7. tapeList[it].found => it \in early
  BY <1>1 DEF ConnIInv, MarkedDuring
<1>8. MarkedDuring' /\ CooldownKept'
  BY <1>1, <1>2, <1>7 DEF ConnIInv, MarkedDuring, CooldownKept, Attempting, AttemptPcs, clockVars
<1>9. QED
  BY <1>3, <1>4, <1>5, <1>6, <1>8 DEF ConnIInv

\* The invariant is inductive.
LEMMA StepConn == ConnIInv /\ [Next]_vars => ConnIInv'
<1>1. SUFFICES ASSUME ConnIInv, [Next]_vars PROVE ConnIInv'
  OBVIOUS
<1>2. CASE (\E t \in Tapes : Hear(t)) \/ ScanThread
  BY <1>1, <1>2, CheckKeeps, MarkKeeps DEF ScanThread
<1>3. CASE ConnectThread
  BY <1>1, <1>3, QuietKeeps, RoundKeeps, StartAttemptKeeps, SocketKeeps, StatusKeeps
     DEF ConnectThread
<1>4. CASE SpuriousWakeup \/ Tick \/ SigClear \/ SigNotify
  BY <1>1, <1>4, QuietKeeps, TickKeeps
<1>5. CASE UNCHANGED vars
  BY <1>1, <1>5 DEF vars, clockVars, connVars, scanVars, histVars, ConnIInv, TypeOK, OnTape,
     SameTime, CheckHolds, MarkedDuring, CooldownKept, SocketsAccounted, Attempting, HasSocket,
     Inherited
<1>6. QED
  BY <1>1, <1>2, <1>3, <1>4, <1>5 DEF Next

\* So it holds in whatever order the two threads move.
LEMMA ConnInvariance == Spec => []ConnIInv
  BY InitConn, StepConn, PTL DEF Spec

-----------------------------------------------------------------------------
(* The theorems.                                                           *)

\* Every variable keeps its type: a record stays a record, whatever the two
\* threads write to it, and retries and back-offs never go below zero.
THEOREM TypeCorrect == Spec => []TypeOK
<1>1. ConnIInv => TypeOK
  BY DEF ConnIInv
<1>2. QED
  BY <1>1, ConnInvariance, PTL

\* For any number of descriptors, a failed attempt leaves none open, and a
\* successful one leaves exactly its own.
THEOREM Accounted == Spec => []SocketsAccounted
<1>1. ConnIInv => SocketsAccounted
  BY DEF ConnIInv
<1>2. QED
  BY <1>1, ConnInvariance, PTL

\* Although the scan thread reads without the mutex, a mark whose check no
\* attempt has overlapped keeps its distance, for any delay and back-off.
THEOREM DistanceKept == Spec => []CooldownKept
<1>1. ConnIInv => CooldownKept
  BY DEF ConnIInv
<1>2. QED
  BY <1>1, ConnInvariance, PTL

-----------------------------------------------------------------------------
(* No mark waits for a thread that sleeps: what MarkAttempted rests on.    *)

Marked == \E t \in Tapes : tapeList[t].found

\* The wait set holds the connect thread only while it waits.
WaitsAsleep == waiting => connPc = "wait"

\* A thread that sleeps, or is about to, while a tape is marked has lost a
\* notify_one to the gap of wait(), or the notify_one is still to come: a mark
\* is stranded in no other way (ble.cpp:101-103, 232-237).
MarkNotStranded ==
  Marked /\ (connPc = "block" \/ waiting) => missed \/ scanPc = "notify"

SleepInv == WaitsAsleep /\ MarkNotStranded

\* The connect thread's steps in a round, none of which sleeps.
RoundStep ==
  \/ SkipTape \/ StartAttempt \/ RoundOver
  \/ OpenSocket \/ OpenSocketFails \/ SetUpFails \/ Connected
  \/ StatusTime \/ StatusRetry

LEMMA InitSleep == Init => SleepInv
  BY DEF Init, SleepInv, WaitsAsleep, MarkNotStranded

\* The invariant is inductive: the predicate is looked at before the thread
\* sleeps, and whoever marks a tape after that has yet to notify.
LEMMA StepSleep == SleepInv /\ [Next]_vars => SleepInv'
<1>1. SUFFICES ASSUME SleepInv, [Next]_vars PROVE SleepInv'
  OBVIOUS
<1> USE DEF SleepInv, WaitsAsleep, MarkNotStranded, Marked
<1>2. CASE (\E t \in Tapes : Hear(t)) \/ CheckDelay
  <2>1. UNCHANGED <<tapeList, waiting, connPc, missed>> /\ scanPc # "notify"
    BY <1>2 DEF Hear, CheckDelay, connVars
  <2>2. QED
    BY <1>1, <2>1
<1>3. CASE Mark
  BY <1>1, <1>3 DEF Mark, connVars
<1>4. CASE Notify
  BY <1>1, <1>4 DEF Notify, connVars
<1>5. CASE RoundStep
  <2>1. /\ connPc \in AttemptPcs \cup {"next"} /\ waiting' = waiting
        /\ connPc' \in AttemptPcs \cup {"next", "check"}
    BY <1>5 DEF RoundStep, SkipTape, StartAttempt, RoundOver, OpenSocket, OpenSocketFails,
       SetUpFails, Connected, AttemptFails, StatusTime, StatusRetry, AttemptPcs
  <2>2. ~waiting
    BY <1>1, <2>1 DEF AttemptPcs
  <2>3. QED
    BY <2>1, <2>2 DEF AttemptPcs
<1>6. CASE ConnCheck \/ ConnPredicate \/ ConnBlock \/ ConnWake
  BY <1>1, <1>6 DEF ConnCheck, ConnPredicate, ConnBlock, ConnWake, scanVars, histVars
<1>7. CASE SpuriousWakeup \/ Tick \/ SigClear \/ SigNotify
  BY <1>1, <1>7 DEF SpuriousWakeup, Tick, SigClear, SigNotify, connVars, scanVars, histVars
<1>8. CASE UNCHANGED vars
  BY <1>1, <1>8 DEF vars, connVars, scanVars, histVars
<1>9. QED
  BY <1>1, <1>2, <1>3, <1>4, <1>5, <1>6, <1>7, <1>8 DEF Next, ScanThread, ConnectThread, RoundStep

\* A sleeping thread leaves a mark behind only when it has missed its
\* notification: the safety core of MarkAttempted.
THEOREM NotStranded == Spec => []MarkNotStranded
<1>1. SleepInv => MarkNotStranded
  BY DEF SleepInv
<1>2. QED
  BY <1>1, InitSleep, StepSleep, PTL DEF Spec

-----------------------------------------------------------------------------
(* A round comes to its end: what EndsAfterRound rests on.                 *)

\* What is left of an attempt, and of a round.
Stage == [next |-> 0, retry |-> 1, time |-> 2, open |-> 3, socket |-> 4]
InRound == connPc \in AttemptPcs \cup {"next"}
RoundWork == 5 * Cardinality(Later) + Stage[connPc]

\* In a round every step of the connect thread brings its end nearer, and no
\* step of another puts it off: no number of marks, ticks or signals keeps the
\* thread from its test of keepRunning (ble.cpp:228-263).
RoundProgress ==
  [][InRound => IF ConnectThread THEN InRound' => RoundWork' < RoundWork
                                 ELSE InRound' /\ RoundWork' = RoundWork]_vars

LEMMA Stages ==
  /\ Stage["next"] = 0 /\ Stage["retry"] = 1 /\ Stage["time"] = 2
  /\ Stage["open"] = 3 /\ Stage["socket"] = 4
  BY DEF Stage

\* Going on to the next tape leaves fewer tapes.
LEMMA FewerLater ==
  ASSUME ConnIInv, Later # {}, it' = NextTape
  PROVE  /\ Cardinality(Later) \in Nat /\ Cardinality(Later') \in Nat
         /\ Cardinality(Later') < Cardinality(Later)
<1>1. IsFiniteSet(Later) /\ Later \subseteq Nat /\ it \in Nat
  <2>1. IsFiniteSet(Addresses) /\ Addresses \subseteq Nat
    BY ConnectAssumption
  <2>2. Later \in SUBSET Addresses
    BY DEF Later, Tapes
  <2>3. IsFiniteSet(Later)
    BY <2>1, <2>2, FS_Subset
  <2>4. QED
    BY <2>1, <2>2, <2>3 DEF ConnIInv, TypeOK, Tapes
<1>2. NextTape \in Later
  <2>1. \E m \in Later : \A n \in Later : m <= n
    BY <1>1, LeastExists
  <2>2. QED
    BY <2>1 DEF NextTape
<1>3. Later' \in SUBSET (Later \ {NextTape})
  <2>1. Later' = {t \in Tapes : t > NextTape}
    BY DEF Later, Tapes, Keys
  <2>2. NextTape \in Tapes /\ NextTape > it /\ NextTape \in Nat
    BY <1>1, <1>2 DEF Later
  <2>3. Tapes \subseteq Nat
    BY ConnectAssumption DEF Tapes
  <2>4. ASSUME NEW t \in Later' PROVE t \in Later \ {NextTape}
    BY <1>1, <2>1, <2>2, <2>3, <2>4 DEF Later
  <2>5. QED
    BY <2>4
<1>4. /\ IsFiniteSet(Later \ {NextTape})
      /\ Cardinality(Later \ {NextTape}) = Cardinality(Later) - 1
  BY <1>1, <1>2, FS_RemoveElement
<1>5. /\ IsFiniteSet(Later') /\ Cardinality(Later') <= Cardinality(Later \ {NextTape})
  BY <1>3, <1>4, FS_Subset
<1>6. Cardinality(Later) \in Nat /\ Cardinality(Later') \in Nat
  BY <1>1, <1>5, FS_CardinalityType
<1>7. QED
  BY <1>4, <1>5, <1>6

\* The work left is a number.
LEMMA LaterCounts == ConnIInv => Cardinality(Later) \in Nat
<1>1. SUFFICES ASSUME ConnIInv PROVE Cardinality(Later) \in Nat
  OBVIOUS
<1>2. IsFiniteSet(Addresses) /\ Later \in SUBSET Addresses
  BY ConnectAssumption DEF Later, Tapes
<1>3. IsFiniteSet(Later)
  BY <1>2, FS_Subset
<1>4. QED
  BY <1>3, FS_CardinalityType

\* A round has an end, whoever marks tapes meanwhile, for any number of tapes:
\* the safety core of EndsAfterRound.
THEOREM RoundEnds == Spec => RoundProgress
<1> DEFINE Step ==
      InRound => IF ConnectThread THEN InRound' => RoundWork' < RoundWork
                                  ELSE InRound' /\ RoundWork' = RoundWork
<1>1. ConnIInv /\ [Next]_vars => [Step]_vars
  <2>1. SUFFICES ASSUME ConnIInv, Next, InRound PROVE Step
    OBVIOUS
  <2>2. Cardinality(Later) \in Nat
    BY <2>1, LaterCounts
  <2>3. ASSUME it' = it PROVE Later' = Later
    BY <2>3 DEF Later, Tapes, Keys
  <2>4. CASE SkipTape \/ StartAttempt
    <3>1. /\ Later # {} /\ it' = NextTape /\ connPc = "next" /\ connPc' \in {"next", "socket"}
      BY <2>4 DEF SkipTape, StartAttempt
    <3>2. Cardinality(Later') \in Nat /\ Cardinality(Later') < Cardinality(Later)
      BY <2>1, <3>1, FewerLater
    <3>3. Stage[connPc] = 0 /\ Stage[connPc'] \in 0..4
      BY <3>1, Stages
    <3>4. RoundWork' < RoundWork
      BY <2>2, <3>2, <3>3 DEF RoundWork
    <3>5. QED
      BY <2>4, <3>4 DEF ConnectThread
  <2>5. CASE OpenSocket \/ OpenSocketFails \/ SetUpFails \/ Connected \/ StatusTime \/ StatusRetry
    <3>1. it' = it
      BY <2>5 DEF OpenSocket, OpenSocketFails, SetUpFails, Connected, AttemptFails, StatusTime,
         StatusRetry
    <3>2. Stage[connPc] \in Nat /\ Stage[connPc'] \in Nat /\ Stage[connPc'] < Stage[connPc]
      BY <2>5, Stages DEF OpenSocket, OpenSocketFails, SetUpFails, Connected, AttemptFails,
         StatusTime, StatusRetry
    <3>3. RoundWork' < RoundWork
      BY <2>2, <2>3, <3>1, <3>2 DEF RoundWork
    <3>4. QED
      BY <2>5, <3>3 DEF ConnectThread
  <2>6. CASE ConnCheck \/ ConnPredicate \/ ConnBlock \/ ConnWake \/ RoundOver
    BY <2>1, <2>6 DEF ConnCheck, ConnPredicate, ConnBlock, ConnWake, RoundOver, InRound,
       AttemptPcs, ConnectThread
  <2>7. CASE \/ (\E t \in Tapes : Hear(t)) \/ ScanThread
             \/ SpuriousWakeup \/ Tick \/ SigClear \/ SigNotify
    <3>1. it' = it /\ connPc' = connPc
      BY <2>7 DEF Hear, ScanThread, CheckDelay, Mark, Notify, SpuriousWakeup, Tick, SigClear,
         SigNotify, connVars
    <3>2. ~ConnectThread
      <4>1. ~SkipTape
        BY <2>1, <2>2, <3>1, FewerLater, <2>3 DEF SkipTape
      <4>2. ConnectThread => SkipTape
        BY <3>1
           DEF ConnectThread, ConnCheck, ConnPredicate, ConnBlock, ConnWake, StartAttempt,
               RoundOver, OpenSocket, OpenSocketFails, SetUpFails, Connected, AttemptFails,
               StatusTime, StatusRetry
      <4>3. QED
        BY <4>1, <4>2
    <3>3. QED
      BY <2>1, <2>3, <3>1, <3>2 DEF InRound, RoundWork
  <2>8. QED
    BY <2>1, <2>4, <2>5, <2>6, <2>7 DEF Next, ConnectThread
<1>2. QED
  BY <1>1, ConnInvariance, PTL DEF Spec, RoundProgress
=============================================================================
