---------------------------- MODULE BleScanProofs ---------------------------
(***************************************************************************)
(* Proofs about BleScan for any window length, and any number of failing    *)
(* HCI calls, reports and calls of the exported functions.                  *)
(***************************************************************************)
EXTENDS BleScan, TLAPS

\* A try of initBleScan under way is one of the three.
TriesLeft == pc["scan"] \in {"open", "configure", "enable"} => retry < RetryLimit

\* The thread's socket is one that it has opened.
OwnSocket == HoldsDevice => fd \in Fds

\* A controller scans outside a window only because a call has failed.
Quiet == faults = 0 /\ ctrl = "scanning" => InWindow

\* No options have been stored yet: no thread is past startBleScan's copy.
NotCopied ==
  /\ bleScanState = "idle"
  /\ pc["scan"] \in {"begin", "loop", "open", "configure", "enable", "startCheck", "startCopy",
                     "exit"}
  /\ pc["api"] \notin {"startClear", "startArm"}

\* With the scan thread alone, the only options ever stored are main()'s.
Alone ==
  /\ asked["scan"] = Continuous(ScanTime)
  /\ apiCalls = 0 => /\ pc["api"] = "none"
                     /\ scanOptions = Continuous(ScanTime) \/ NotCopied

\* Until a one-shot scan is asked for, all options stored are continuous.
Continuing ==
  ~oneShotAsked =>
    /\ pc["api"] \in {"startCheck", "startCopy"} => asked["api"].continuous = TRUE
    /\ scanOptions.continuous = TRUE \/ NotCopied

ScanIInv ==
  /\ TypeOK
  /\ TriesLeft
  /\ OwnSocket
  /\ DescriptorDiscipline
  /\ WindowIsScanning
  /\ Quiet
  /\ Alone
  /\ Continuing
  /\ OnlyOneShotEnds

-----------------------------------------------------------------------------
(* The controller.                                                         *)

HciStates == [ctrl : {"down", "idle", "scanning"}, faults : 0..MaxFaults]

\* A failing call has no effect but the count of failures.
LEMMA FailingCounts ==
  ASSUME NEW h \in HciStates, NEW g \in Failing(h)
  PROVE  g \in HciStates /\ g.ctrl = h.ctrl /\ g.faults > 0
<1>1. h.faults < MaxFaults /\ g = [h EXCEPT !.faults = @ + 1]
  BY DEF Failing
<1>2. QED
  BY <1>1, ScanAssumption DEF HciStates

\* A command without an answer leaves the controller as it was or has reached
\* its state.
LEMMA UnansweredCounts ==
  ASSUME NEW h \in HciStates, NEW c \in {"idle", "scanning"}, NEW g \in Unanswered(h, c)
  PROVE  g \in HciStates /\ g.faults > 0
<1>1. CASE g \in Failing(h)
  BY <1>1, FailingCounts
<1>2. CASE g \notin Failing(h)
  <2>1. PICK k \in Failing(h) : g = [k EXCEPT !.ctrl = c]
    BY <1>2 DEF Unanswered
  <2>2. QED
    BY <2>1, FailingCounts DEF HciStates
<1>3. QED
  BY <1>1, <1>2

\* Bringing the adapter up never makes it scan; it keeps the failures counted.
LEMMA UpCounts ==
  ASSUME NEW h \in HciStates, NEW g \in HciDevUp(h)
  PROVE  /\ g \in HciStates /\ (h.faults > 0 => g.faults > 0)
         /\ g.ctrl = "scanning" => h.ctrl = "scanning"
<1>1. CASE g \in Failing(h)
  BY <1>1, FailingCounts
<1>2. CASE g = [h EXCEPT !.ctrl = IF @ = "down" THEN "idle" ELSE @]
  BY <1>2 DEF HciStates
<1>3. QED
  BY <1>1, <1>2 DEF HciDevUp

\* A reset leaves a controller that does not scan, unless a call has failed.
LEMMA ResetCounts ==
  ASSUME NEW h \in HciStates, NEW g \in HciDevReset(h)
  PROVE  g \in HciStates /\ (g.faults = 0 => g.ctrl # "scanning")
<1>1. PICK k \in HciDevDown(h) : g \in HciDevUp(k)
  BY DEF HciDevReset
<1>2. k \in HciStates /\ (k.faults > 0 \/ k.ctrl = "down")
  <2>1. CASE k \in Failing(h)
    BY <2>1, FailingCounts
  <2>2. CASE k = [h EXCEPT !.ctrl = "down"]
    BY <2>2 DEF HciStates
  <2>3. QED
    BY <2>1, <2>2 DEF HciDevDown
<1>3. QED
  BY <1>1, <1>2, UpCounts

\* The state as the library sees it.
LEMMA HciIsState ==
  ASSUME TypeOK
  PROVE  Hci \in HciStates /\ Hci.ctrl = ctrl /\ Hci.faults = faults
  BY DEF TypeOK, Hci, HciStates

\* A thread's move changes its own place only.
LEMMA Moves ==
  ASSUME TypeOK
  PROVE  /\ \A p \in ScanPcs : Go("scan", p) =>
              /\ pc' \in [Threads -> ScanPcs \cup ApiPcs]
              /\ pc'["scan"] = p /\ pc'["api"] = pc["api"]
         /\ \A p \in ApiPcs : Go("api", p) =>
              /\ pc' \in [Threads -> ScanPcs \cup ApiPcs]
              /\ pc'["api"] = p /\ pc'["scan"] = pc["scan"]
  BY DEF TypeOK, Go, Threads

\* A failed try leads to the next one, or out of initBleScan.
LEMMA NextTryCounts ==
  ASSUME TypeOK, TriesLeft, pc["scan"] \in {"open", "configure", "enable"}, NextTry
  PROVE  /\ pc' \in [Threads -> ScanPcs \cup ApiPcs] /\ pc'["api"] = pc["api"]
         /\ pc'["scan"] \in {"open", "loop"} /\ retry' \in 0..RetryLimit
         /\ pc'["scan"] = "open" => retry' < RetryLimit
<1>1. retry \in 0..RetryLimit /\ retry < RetryLimit /\ retry' = retry + 1
  BY DEF TypeOK, TriesLeft, NextTry
<1>2. CASE retry + 1 < RetryLimit
  <2>1. Go("scan", "open")
    BY <1>2 DEF NextTry
  <2>2. QED
    BY <1>1, <1>2, <2>1, Moves DEF RetryLimit, ScanPcs
<1>3. CASE ~(retry + 1 < RetryLimit)
  <2>1. Go("scan", "loop")
    BY <1>3 DEF NextTry
  <2>2. QED
    BY <1>1, <2>1, Moves DEF RetryLimit, ScanPcs
<1>4. QED
  BY <1>2, <1>3

\* The program starts with the invariant.
LEMMA InitScan == Init => ScanIInv
<1>1. SUFFICES ASSUME Init PROVE ScanIInv
  OBVIOUS
<1>2. TypeOK
  <2>1. pc \in [Threads -> ScanPcs \cup ApiPcs] /\ pc["scan"] = "begin" /\ pc["api"] = "none"
    <3>1. pc = [t \in {"scan", "api"} |-> IF t = "scan" THEN "begin" ELSE "none"]
      BY <1>1 DEF Init
    <3>2. QED
      BY <3>1 DEF Threads, ScanPcs, ApiPcs
  <2>2. asked \in [Threads -> Options]
    <3>1. asked = [t \in {"scan", "api"} |->
                     IF t = "scan" THEN Continuous(ScanTime) ELSE Cleared]
      BY <1>1 DEF Init
    <3>2. Continuous(ScanTime) \in Options /\ Cleared \in Options
      BY ScanAssumption DEF Continuous, Cleared, Options
    <3>3. QED
      BY <3>1, <3>2 DEF Threads
  <2>3. scanOptions \in Options
    BY <1>1, ScanAssumption DEF Init, Cleared, Options
  <2>4. keepRunning \in BOOLEAN /\ scanStopRequested \in BOOLEAN /\ oneShotAsked \in BOOLEAN
    BY <1>1 DEF Init
  <2>5. QED
    BY <1>1, <2>1, <2>2, <2>3, <2>4, ScanAssumption
       DEF Init, TypeOK, ScanPcs, ApiPcs, Fds, RetryLimit
<1>3. QED
  BY <1>1, <1>2 DEF Init, ScanIInv, TriesLeft, OwnSocket, DescriptorDiscipline, WindowIsScanning,
     Quiet, Alone, Continuing, OnlyOneShotEnds, NotCopied, HoldsDevice, InWindow

-----------------------------------------------------------------------------
(* Each group of actions preserves the invariant.                          *)

\* The tries of initBleScan, up to the enable command.
LEMMA TryKeeps ==
  ASSUME ScanIInv, BringUp \/ ScanLoop \/ OpenDev \/ OpenDevFails \/ Configure
  PROVE  ScanIInv'
<1> USE DEF ScanIInv, TriesLeft, OwnSocket, DescriptorDiscipline, WindowIsScanning, Quiet,
        Alone, Continuing, NotCopied, OnlyOneShotEnds, HoldsDevice, InWindow, ScanPcs,
        hciVars, fdVars, stateVars, airVars, apiVars
<1>1. Hci \in HciStates /\ Hci.ctrl = ctrl /\ Hci.faults = faults
  BY HciIsState
<1>2. CASE BringUp
  <2>1. PICK h \in HciStates : Becomes(h) /\ (h.faults = 0 => h.ctrl # "scanning")
    <3>1. ASSUME NEW h \in HciDevUp(Hci)
          PROVE  h \in HciStates /\ (h.faults = 0 => h.ctrl # "scanning")
      <4>1. /\ h \in HciStates /\ (Hci.faults > 0 => h.faults > 0)
            /\ h.ctrl = "scanning" => Hci.ctrl = "scanning"
        BY <1>1, <3>1, UpCounts
      <4>2. Hci.faults = 0 => Hci.ctrl # "scanning"
        BY <1>1, <1>2 DEF BringUp, At
      <4>3. QED
        BY <1>1, <4>1, <4>2 DEF HciStates
    <3>2. ASSUME NEW g \in Failing(Hci), NEW h \in HciDevReset(g)
          PROVE  h \in HciStates /\ (h.faults = 0 => h.ctrl # "scanning")
      BY <1>1, <3>2, FailingCounts, ResetCounts
    <3>3. QED
      BY <1>2, <3>1, <3>2 DEF BringUp
  <2>2. ctrl' \in {"down", "idle", "scanning"} /\ faults' \in 0..MaxFaults
    BY <2>1 DEF Becomes, HciStates
  <2>3. faults' = 0 => ctrl' # "scanning"
    BY <2>1 DEF Becomes
  <2>4. /\ pc' \in [Threads -> ScanPcs \cup ApiPcs]
        /\ pc["scan"] = "begin" /\ pc'["scan"] = "loop" /\ pc'["api"] = pc["api"]
    BY <1>2, Moves DEF BringUp, At
  <2>5. TypeOK'
    BY <1>2, <2>2, <2>4 DEF BringUp, TypeOK
  <2>6. QED
    BY <1>2, <2>3, <2>4, <2>5 DEF BringUp
<1>3. CASE ScanLoop
  <2>1. /\ pc' \in [Threads -> ScanPcs \cup ApiPcs]
        /\ pc["scan"] = "loop" /\ pc'["api"] = pc["api"]
        /\ pc'["scan"] \in {"open", "exit"} /\ (pc'["scan"] = "exit" => ~keepRunning)
    BY <1>3, Moves DEF ScanLoop, At
  <2>2. TypeOK'
    BY <1>3, <2>1 DEF ScanLoop, TypeOK, RetryLimit
  <2>3. QED
    BY <1>3, <2>1, <2>2 DEF ScanLoop, RetryLimit
<1>4. CASE OpenDev
  <2>1. /\ pc' \in [Threads -> ScanPcs \cup ApiPcs]
        /\ pc["scan"] = "open" /\ pc'["scan"] = "configure" /\ pc'["api"] = pc["api"]
    BY <1>4, Moves DEF OpenDev, At
  <2>2. fd' \in Fds /\ openFds' = {fd'}
    BY <1>4, <2>1 DEF OpenDev
  <2>3. TypeOK'
    BY <1>4, <2>1, <2>2 DEF OpenDev, TypeOK
  <2>4. QED
    BY <1>4, <2>1, <2>2, <2>3 DEF OpenDev
<1>5. CASE OpenDevFails
  <2>1. ctrl' \in {"down", "idle", "scanning"} /\ faults' \in 0..MaxFaults
        /\ (faults' = 0 => ctrl' # "scanning")
    <3>1. PICK g \in Failing(Hci) : \E h \in HciDevReset(g) : Becomes(h)
      BY <1>5 DEF OpenDevFails
    <3>2. PICK h \in HciDevReset(g) : Becomes(h)
      BY <3>1
    <3>3. h \in HciStates /\ (h.faults = 0 => h.ctrl # "scanning")
      BY <1>1, <3>2, FailingCounts, ResetCounts
    <3>4. QED
      BY <3>2, <3>3 DEF Becomes, HciStates
  <2>2. /\ pc' \in [Threads -> ScanPcs \cup ApiPcs]
        /\ pc["scan"] = "open" /\ pc'["api"] = pc["api"]
        /\ pc'["scan"] \in {"open", "loop"} /\ retry' \in 0..RetryLimit
        /\ pc'["scan"] = "open" => retry' < RetryLimit
    BY <1>5, NextTryCounts DEF OpenDevFails, At
  <2>3. TypeOK'
    BY <1>5, <2>1, <2>2 DEF OpenDevFails, TypeOK
  <2>4. QED
    BY <1>5, <2>1, <2>2, <2>3 DEF OpenDevFails
<1>6. CASE Configure
  <2>1. /\ pc' \in [Threads -> ScanPcs \cup ApiPcs]
        /\ pc["scan"] = "configure" /\ pc'["scan"] = "enable" /\ pc'["api"] = pc["api"]
    BY <1>6, Moves DEF Configure, At
  <2>2. TypeOK'
    BY <1>6, <2>1 DEF Configure, TypeOK
  <2>3. QED
    BY <1>6, <2>1, <2>2 DEF Configure
<1>7. QED
  BY <1>2, <1>3, <1>4, <1>5, <1>6

\* A failed set-up leaves no socket, and the next try or none.
LEMMA SetupFailureKeeps ==
  ASSUME ScanIInv, ConfigureFails \/ EnableFails
  PROVE  ScanIInv'
<1> USE DEF ScanIInv, TriesLeft, OwnSocket, DescriptorDiscipline, WindowIsScanning, Quiet,
        Alone, Continuing, NotCopied, OnlyOneShotEnds, HoldsDevice, InWindow, ScanPcs,
        stateVars, airVars, apiVars
<1>1. Hci \in HciStates /\ Hci.ctrl = ctrl /\ Hci.faults = faults
  BY HciIsState
<1>2. PICK H \in SUBSET HciStates : SetupFails(H)
  <2>1. Failing(Hci) \subseteq HciStates /\ {Hci} \subseteq HciStates
        /\ Unanswered(Hci, "scanning") \subseteq HciStates
    BY <1>1, FailingCounts, UnansweredCounts
  <2>2. QED
    BY <2>1 DEF ConfigureFails, EnableFails
<1>3. pc["scan"] \in {"configure", "enable"}
  BY DEF ConfigureFails, EnableFails, At
<1>4. ctrl' \in {"down", "idle", "scanning"} /\ faults' \in 0..MaxFaults
      /\ (faults' = 0 => ctrl' # "scanning")
  <2>1. PICK g \in H : \E h \in HciDevReset(g) : Becomes(h)
    BY <1>2 DEF SetupFails
  <2>2. PICK h \in HciDevReset(g) : Becomes(h)
    BY <2>1
  <2>3. h \in HciStates /\ (h.faults = 0 => h.ctrl # "scanning")
    BY <2>2, ResetCounts
  <2>4. QED
    BY <2>2, <2>3 DEF Becomes, HciStates
<1>5. /\ pc' \in [Threads -> ScanPcs \cup ApiPcs] /\ pc'["api"] = pc["api"]
      /\ pc'["scan"] \in {"open", "loop"} /\ retry' \in 0..RetryLimit
      /\ pc'["scan"] = "open" => retry' < RetryLimit
  BY <1>2, <1>3, NextTryCounts DEF SetupFails
<1>6. openFds' = {}
  BY <1>2, <1>3 DEF SetupFails
<1>7. TypeOK'
  BY <1>2, <1>4, <1>5, <1>6 DEF SetupFails, TypeOK
<1>8. QED
  BY <1>2, <1>3, <1>4, <1>5, <1>6, <1>7 DEF SetupFails

\* The window: enable, read, disable.  Only the enable begins one.
LEMMA WindowKeeps ==
  ASSUME ScanIInv, Enable \/ WindowTick \/ WindowOver \/ ReadEvent \/ ReadEnds
                     \/ Disable \/ DisableFails \/ AfterWindow
  PROVE  ScanIInv'
<1> USE DEF ScanIInv, TriesLeft, OwnSocket, DescriptorDiscipline, WindowIsScanning, Quiet,
        Alone, Continuing, NotCopied, OnlyOneShotEnds, HoldsDevice, InWindow, ScanPcs,
        hciVars, fdVars, stateVars, airVars, apiVars
<1>1. Hci \in HciStates /\ Hci.ctrl = ctrl /\ Hci.faults = faults
  BY HciIsState
<1>2. CASE Enable
  <2>1. /\ pc' \in [Threads -> ScanPcs \cup ApiPcs]
        /\ pc["scan"] = "enable" /\ pc'["scan"] = "startCheck" /\ pc'["api"] = pc["api"]
    BY <1>2, Moves DEF Enable, At
  <2>2. TypeOK'
    BY <1>2, <2>1, ScanAssumption DEF Enable, TypeOK
  <2>3. QED
    BY <1>2, <2>1, <2>2 DEF Enable
<1>3. CASE WindowTick
  <2>1. scanOptions.duration \in 0..MaxDuration
    BY DEF TypeOK, Options
  <2>2. elapsedSec' \in 0..MaxDuration
    BY <1>3, <2>1, ScanAssumption DEF WindowTick, TypeOK
  <2>3. TypeOK'
    BY <1>3, <2>2 DEF WindowTick, TypeOK
  <2>4. QED
    BY <1>3, <2>3 DEF WindowTick
<1>4. CASE WindowOver
  <2>1. /\ pc' \in [Threads -> ScanPcs \cup ApiPcs]
        /\ pc["scan"] = "elapse" /\ pc'["scan"] = "read" /\ pc'["api"] = pc["api"]
    BY <1>4, Moves DEF WindowOver, At
  <2>2. TypeOK'
    BY <1>4, <2>1 DEF WindowOver, TypeOK
  <2>3. QED
    BY <1>4, <2>1, <2>2 DEF WindowOver
<1>5. CASE ReadEvent
  <2>1. TypeOK'
    BY <1>5 DEF ReadEvent, TypeOK
  <2>2. QED
    BY <1>5, <2>1 DEF ReadEvent
<1>6. CASE ReadEnds
  <2>1. /\ pc' \in [Threads -> ScanPcs \cup ApiPcs]
        /\ pc["scan"] = "read" /\ pc'["scan"] = "disable" /\ pc'["api"] = pc["api"]
    BY <1>6, Moves DEF ReadEnds, At
  <2>2. ctrl' = ctrl /\ faults' \in 0..MaxFaults /\ (faults' = 0 => faults = 0)
    BY <1>1, <1>6, FailingCounts DEF ReadEnds, TypeOK, Becomes, HciStates
  <2>3. TypeOK'
    BY <1>6, <2>1, <2>2 DEF ReadEnds, TypeOK
  <2>4. QED
    BY <1>6, <2>1, <2>2, <2>3 DEF ReadEnds
<1>7. CASE Disable \/ DisableFails
  <2>1. /\ pc' \in [Threads -> ScanPcs \cup ApiPcs]
        /\ pc["scan"] = "disable" /\ pc'["scan"] = "closed" /\ pc'["api"] = pc["api"]
    BY <1>7, Moves DEF Disable, DisableFails, CloseDev, At
  <2>2. /\ ctrl' \in {"down", "idle", "scanning"} /\ faults' \in 0..MaxFaults
        /\ faults' = 0 => ctrl' # "scanning"
    <3>1. CASE Disable
      BY <3>1 DEF Disable, TypeOK
    <3>2. CASE DisableFails
      BY <1>1, <3>2, UnansweredCounts DEF DisableFails, Becomes, HciStates
    <3>3. QED
      BY <1>7, <3>1, <3>2
  <2>3. openFds' = {} /\ bleScanState' \in {"idle", bleScanState}
    BY <1>7, <2>1 DEF Disable, DisableFails, CloseDev
  <2>4. TypeOK'
    BY <1>7, <2>1, <2>2, <2>3 DEF Disable, DisableFails, CloseDev, TypeOK
  <2>5. QED
    BY <1>7, <2>1, <2>2, <2>3, <2>4 DEF Disable, DisableFails, CloseDev
<1>8. CASE AfterWindow
  <2>1. pc["scan"] = "closed"
    BY <1>8 DEF AfterWindow, At
  <2>2. CASE scanOptions.continuous
    <3>1. /\ pc' \in [Threads -> ScanPcs \cup ApiPcs]
          /\ pc'["scan"] = "loop" /\ pc'["api"] = pc["api"]
      BY <1>8, <2>2, Moves DEF AfterWindow
    <3>2. TypeOK'
      BY <1>8, <2>2, <3>1 DEF AfterWindow, TypeOK
    <3>3. QED
      BY <1>8, <2>1, <2>2, <3>1, <3>2 DEF AfterWindow
  <2>3. CASE ~scanOptions.continuous
    <3>1. /\ pc' \in [Threads -> ScanPcs \cup ApiPcs]
          /\ pc'["scan"] = "exit" /\ pc'["api"] = pc["api"]
      BY <1>8, <2>3, Moves DEF AfterWindow
    <3>2. oneShotAsked = TRUE /\ apiCalls # 0
      <4>1. ~NotCopied /\ scanOptions.continuous # TRUE
        BY <2>1, <2>3
      <4>2. Continuous(ScanTime).continuous = TRUE
        BY DEF Continuous
      <4>3. ~(~oneShotAsked) /\ apiCalls # 0
        BY <4>1, <4>2 DEF Continuing, Alone
      <4>4. QED
        BY <4>3 DEF TypeOK
    <3>3. TypeOK'
      <4>1. Cleared \in Options
        BY ScanAssumption DEF Cleared, Options
      <4>2. QED
        BY <1>8, <2>3, <3>1, <4>1 DEF AfterWindow, TypeOK
    <3>4. QED
      BY <1>8, <2>1, <2>3, <3>1, <3>2, <3>3 DEF AfterWindow
  <2>4. QED
    BY <2>2, <2>3
<1>9. QED
  BY <1>2, <1>3, <1>4, <1>5, <1>6, <1>7, <1>8

\* startBleScan, by either thread.
LEMMA StartKeeps ==
  ASSUME ScanIInv, NEW t \in Threads, StartBleScan(t)
  PROVE  ScanIInv'
<1> USE DEF ScanIInv, TriesLeft, OwnSocket, DescriptorDiscipline, WindowIsScanning, Quiet,
        Alone, Continuing, NotCopied, OnlyOneShotEnds, HoldsDevice, InWindow, ScanPcs, ApiPcs,
        hciVars, fdVars, airVars, apiVars
<1>1. t = "scan" \/ t = "api"
  BY DEF Threads
<1>2. CASE StartCheck(t)
  <2>1. /\ pc' \in [Threads -> ScanPcs \cup ApiPcs] /\ pc[t] = "startCheck"
        /\ pc'[t] = IF bleScanState = "idle" THEN "startCopy" ELSE Returned(t)
        /\ pc'[Other(t)] = pc[Other(t)]
    BY <1>1, <1>2, Moves DEF StartCheck, At, Other, Returned
  <2>2. CASE t = "scan"
    <3>1. /\ pc'["scan"] = IF bleScanState = "idle" THEN "startCopy" ELSE "elapse"
          /\ pc["scan"] = "startCheck" /\ pc'["api"] = pc["api"]
      BY <2>1, <2>2 DEF Other, Returned
    <3>2. TypeOK'
      BY <1>2, <2>1, <3>1 DEF StartCheck, TypeOK, stateVars
    <3>3. QED
      BY <1>2, <3>1, <3>2 DEF StartCheck, stateVars
  <2>3. CASE t = "api"
    <3>1. /\ pc'["api"] = IF bleScanState = "idle" THEN "startCopy" ELSE "none"
          /\ pc["api"] = "startCheck" /\ pc'["scan"] = pc["scan"]
      BY <2>1, <2>3 DEF Other, Returned
    <3>2. TypeOK'
      BY <1>2, <2>1, <3>1 DEF StartCheck, TypeOK, stateVars
    <3>3. QED
      BY <1>2, <3>1, <3>2 DEF StartCheck, stateVars
  <2>4. QED
    BY <1>1, <2>2, <2>3
<1>3. CASE StartCopy(t)
  <2>1. /\ pc' \in [Threads -> ScanPcs \cup ApiPcs] /\ pc[t] = "startCopy"
        /\ pc'[t] = "startClear" /\ pc'[Other(t)] = pc[Other(t)]
        /\ Other(t) \in Threads
    BY <1>1, <1>3, Moves DEF StartCopy, At, Other, Threads
  <2>2. PICK o \in {asked[t], asked[Other(t)]} :
          /\ scanOptions'.continuous = o.continuous
          /\ o = asked[t] \/ pc[Other(t)] = "startCopy"
    BY <1>3 DEF StartCopy, At
  <2>3. PICK d \in {asked[t], asked[Other(t)]} :
          /\ scanOptions'.duration = d.duration
          /\ d = asked[t] \/ pc[Other(t)] = "startCopy"
    BY <1>3 DEF StartCopy, At
  <2>4. scanOptions' = [continuous |-> o.continuous, duration |-> d.duration]
    BY <1>3, <2>2, <2>3 DEF StartCopy
  <2>5. o \in Options /\ d \in Options
    BY <2>1 DEF TypeOK
  <2>6. scanOptions' \in Options
    BY <2>4, <2>5 DEF Options
  <2>7. ~oneShotAsked => o.continuous = TRUE
    <3>1. Continuous(ScanTime).continuous = TRUE
      BY DEF Continuous
    <3>2. QED
      BY <1>1, <2>1, <2>2, <3>1 DEF Other
  <2>8. apiCalls = 0 => t = "scan" /\ scanOptions' = Continuous(ScanTime)
    <3>1. ASSUME apiCalls = 0 PROVE t = "scan" /\ o = asked["scan"] /\ d = asked["scan"]
      BY <1>1, <2>1, <2>2, <2>3, <3>1 DEF Other
    <3>2. QED
      BY <2>4, <3>1 DEF Continuous
  <2>9. TypeOK' /\ scanOptions'.continuous = o.continuous
    BY <1>1, <1>3, <2>1, <2>2, <2>6 DEF StartCopy, TypeOK, Other
  <2>10. QED
    BY <1>1, <1>3, <2>1, <2>7, <2>8, <2>9 DEF StartCopy, Other
<1>4. CASE StartClear(t)
  <2>1. /\ pc' \in [Threads -> ScanPcs \cup ApiPcs] /\ pc[t] = "startClear"
        /\ pc'[t] = "startArm" /\ pc'[Other(t)] = pc[Other(t)]
    BY <1>1, <1>4, Moves DEF StartClear, At, Other
  <2>2. TypeOK'
    BY <1>1, <1>4, <2>1 DEF StartClear, TypeOK, Other
  <2>3. QED
    BY <1>1, <1>4, <2>1, <2>2 DEF StartClear, Other
<1>5. CASE StartArm(t)
  <2>1. /\ pc' \in [Threads -> ScanPcs \cup ApiPcs] /\ pc[t] = "startArm"
        /\ pc'[t] = Returned(t) /\ pc'[Other(t)] = pc[Other(t)]
    BY <1>1, <1>5, Moves DEF StartArm, At, Other, Returned
  <2>2. TypeOK'
    BY <1>1, <1>5, <2>1 DEF StartArm, TypeOK, Other, Returned
  <2>3. QED
    BY <1>1, <1>5, <2>1, <2>2 DEF StartArm, Other, Returned
<1>6. QED
  BY <1>2, <1>3, <1>4, <1>5 DEF StartBleScan

\* The other thread's other steps, the air and SIGINT.
LEMMA OthersKeep ==
  ASSUME ScanIInv, \/ ApiStartOneShot \/ ApiStartContinuous \/ ApiStop
                   \/ StopCheck \/ StopRequest \/ StopIdle \/ Deliver \/ SigInt
  PROVE  ScanIInv'
<1> USE DEF ScanIInv, TriesLeft, OwnSocket, DescriptorDiscipline, WindowIsScanning, Quiet,
        Alone, Continuing, NotCopied, OnlyOneShotEnds, HoldsDevice, InWindow, ApiPcs,
        hciVars, fdVars, stateVars, airVars, apiVars
<1>1. CASE ApiStartOneShot \/ ApiStartContinuous
  <2>1. /\ pc' \in [Threads -> ScanPcs \cup ApiPcs]
        /\ pc["api"] = "none" /\ pc'["api"] = "startCheck" /\ pc'["scan"] = pc["scan"]
    BY <1>1, Moves DEF ApiStartOneShot, ApiStartContinuous, ApiCall, At
  <2>2. apiCalls' \in 1..MaxApiCalls
    BY <1>1, ScanAssumption DEF ApiStartOneShot, ApiStartContinuous, ApiCall, TypeOK
  <2>3. PICK o \in Options : asked' = [asked EXCEPT !["api"] = o]
                              /\ (ApiStartOneShot \/ o.continuous = TRUE)
    BY <1>1 DEF ApiStartOneShot, ApiStartContinuous, OneShot, Continuous, Options
  <2>4. asked' \in [Threads -> Options] /\ asked'["api"] = o /\ asked'["scan"] = asked["scan"]
    BY <2>3 DEF TypeOK, Threads
  <2>5. TypeOK'
    <3>1. oneShotAsked' \in BOOLEAN
      BY <1>1 DEF ApiStartOneShot, ApiStartContinuous, TypeOK
    <3>2. QED
      BY <1>1, <2>1, <2>2, <2>4, <3>1 DEF ApiStartOneShot, ApiStartContinuous, ApiCall, TypeOK
  <2>6. (~oneShotAsked' => ~oneShotAsked /\ asked'["api"].continuous = TRUE)
        /\ (oneShotAsked => oneShotAsked')
    BY <1>1, <2>3, <2>4 DEF ApiStartOneShot, ApiStartContinuous
  <2>7. QED
    BY <1>1, <2>1, <2>2, <2>4, <2>5, <2>6 DEF ApiStartOneShot, ApiStartContinuous, ApiCall
<1>2. CASE ApiStop
  <2>1. /\ pc' \in [Threads -> ScanPcs \cup ApiPcs]
        /\ pc["api"] = "none" /\ pc'["api"] = "stopCheck" /\ pc'["scan"] = pc["scan"]
    BY <1>2, Moves DEF ApiStop, ApiCall, At
  <2>2. apiCalls' \in 1..MaxApiCalls
    BY <1>2, ScanAssumption DEF ApiStop, ApiCall, TypeOK
  <2>3. TypeOK'
    BY <1>2, <2>1, <2>2 DEF ApiStop, ApiCall, TypeOK
  <2>4. QED
    BY <1>2, <2>1, <2>2, <2>3 DEF ApiStop, ApiCall
<1>3. CASE StopCheck \/ StopRequest \/ StopIdle
  <2>1. /\ pc' \in [Threads -> ScanPcs \cup ApiPcs]
        /\ pc["api"] \in {"stopCheck", "stopRequest", "stopIdle"}
        /\ pc'["api"] \in {"stopRequest", "stopIdle", "none"} /\ pc'["scan"] = pc["scan"]
    BY <1>3, Moves DEF StopCheck, StopRequest, StopIdle, At
  <2>2. bleScanState' \in {"idle", bleScanState} /\ scanStopRequested' \in BOOLEAN
        /\ UNCHANGED <<keepRunning, asked, hciVars, fdVars, retry, scanOptions, elapsedSec,
                       airVars, apiVars>>
    BY <1>3 DEF StopCheck, StopRequest, StopIdle, TypeOK
  <2>3. TypeOK'
    BY <2>1, <2>2 DEF TypeOK
  <2>4. QED
    BY <2>1, <2>2, <2>3
<1>4. CASE Deliver
  <2>1. TypeOK'
    BY <1>4, ScanAssumption DEF Deliver, TypeOK
  <2>2. QED
    BY <1>4, <2>1 DEF Deliver
<1>5. CASE SigInt
  <2>1. TypeOK'
    BY <1>5 DEF SigInt, TypeOK
  <2>2. QED
    BY <1>5, <2>1 DEF SigInt
<1>6. QED
  BY <1>1, <1>2, <1>3, <1>4, <1>5

\* The invariant is inductive.
LEMMA StepScan == ScanIInv /\ [Next]_vars => ScanIInv'
<1>1. SUFFICES ASSUME ScanIInv, [Next]_vars PROVE ScanIInv'
  OBVIOUS
<1>2. CASE ScanThread
  <2>1. "scan" \in Threads
    BY DEF Threads
  <2>2. QED
    BY <1>1, <1>2, <2>1, TryKeeps, SetupFailureKeeps, WindowKeeps, StartKeeps DEF ScanThread
<1>3. CASE ApiThread
  <2>1. "api" \in Threads
    BY DEF Threads
  <2>2. QED
    BY <1>1, <1>3, <2>1, OthersKeep, StartKeeps DEF ApiThread
<1>4. CASE Deliver \/ SigInt
  BY <1>1, <1>4, OthersKeep
<1>5. CASE UNCHANGED vars
  BY <1>1, <1>5 DEF vars, hciVars, fdVars, stateVars, airVars, apiVars, ScanIInv, TypeOK,
     TriesLeft, OwnSocket, DescriptorDiscipline, WindowIsScanning, Quiet, Alone, Continuing,
     NotCopied, OnlyOneShotEnds, HoldsDevice, InWindow
<1>6. QED
  BY <1>1, <1>2, <1>3, <1>4, <1>5 DEF Next

\* So it holds whatever fails and whoever calls.
LEMMA ScanInvariance == Spec => []ScanIInv
  BY InitScan, StepScan, PTL DEF Spec

-----------------------------------------------------------------------------
(* The theorems.                                                           *)

\* Every variable keeps its type; in particular no more than two descriptors
\* are ever needed, and initBleScan tries three times at most.
THEOREM TypeCorrect == Spec => []TypeOK
<1>1. ScanIInv => TypeOK
  BY DEF ScanIInv
<1>2. QED
  BY <1>1, ScanInvariance, PTL

\* Whatever calls fail, the scan thread has open exactly the socket it works on.
THEOREM NoLeak == Spec => []DescriptorDiscipline
<1>1. ScanIInv => DescriptorDiscipline
  BY DEF ScanIInv
<1>2. QED
  BY <1>1, ScanInvariance, PTL

\* A window is never kept over a controller that does not scan.
THEOREM WindowScans == Spec => []WindowIsScanning
<1>1. ScanIInv => WindowIsScanning
  BY DEF ScanIInv
<1>2. QED
  BY <1>1, ScanInvariance, PTL

\* If the exported functions are not called, every window is main()'s, however
\* many disables have failed.
THEOREM WindowTimed == Spec => []WindowAsConfigured
<1>1. ScanIInv => WindowAsConfigured
  BY DEF ScanIInv, Alone, NotCopied, WindowAsConfigured
<1>2. QED
  BY <1>1, ScanInvariance, PTL

\* The thread ends by itself only after a one-shot scan was asked for.
THEOREM EndsAsAsked == Spec => []OnlyOneShotEnds
<1>1. ScanIInv => OnlyOneShotEnds
  BY DEF ScanIInv
<1>2. QED
  BY <1>1, ScanInvariance, PTL

\* With no failed call the controller is quiet when the thread has ended.
THEOREM EndsQuiet == Spec => []QuietAtExit
<1>1. ScanIInv => QuietAtExit
  BY DEF ScanIInv, Quiet, InWindow, HoldsDevice, QuietAtExit
<1>2. QED
  BY <1>1, ScanInvariance, PTL

-----------------------------------------------------------------------------
(* No window and no shutdown takes for ever: the work that is left.        *)

\* The places of the scan thread in the order in which it may pass them.
LEMMA Ranks ==
  /\ Rank["begin"] = 2 /\ Rank["loop"] = 1 /\ Rank["exit"] = 0 /\ Rank["closed"] = 2
  /\ Rank["open"] = 12 /\ Rank["configure"] = 11 /\ Rank["enable"] = 10
  /\ Rank["startCheck"] = 9 /\ Rank["startCopy"] = 8 /\ Rank["startClear"] = 7
  /\ Rank["startArm"] = 6 /\ Rank["elapse"] = 5 /\ Rank["read"] = 4 /\ Rank["disable"] = 3
  BY DEF Rank

\* The rounds of initBleScan that are left.
TriesWork == IF pc["scan"] \in {"open", "configure", "enable"} THEN 3 * (RetryLimit - retry) ELSE 0

\* What is left of a window but for the place: seconds, now and after the resets
\* that may still come, and reports.
TimeWork == SecondsLeft + MaxDuration * Resets
AirWork  == 2 * (MaxReports - arrived) + pending

WorkNat ==
  /\ Rank[pc["scan"]] \in Nat /\ TriesWork \in Nat /\ AirWork \in Nat
  /\ SecondsLeft \in 0..MaxDuration /\ Resets \in Nat /\ TimeWork \in Nat
  /\ WindowWork = Rank[pc["scan"]] + TimeWork + AirWork
  /\ ExitWork = Rank[pc["scan"]] + TriesWork

\* One reset fewer makes up for the longest duration.
LEMMA OneFewer ==
  ASSUME NEW d \in Nat, NEW a \in Nat, NEW b \in Nat, NEW s \in 0..d, NEW t \in 0..d,
         (b = a /\ t <= s) \/ b < a
  PROVE  t + d * b <= s + d * a
<1>1. d * a \in Int /\ d * b \in Int
  OBVIOUS
<1>2. CASE b = a
  BY <1>1, <1>2
<1>3. CASE b < a
  <2>1. d * (a - b - 1) \in Nat
    BY <1>3
  <2>2. d * (a - b - 1) = d * a - d * b - d
    OBVIOUS
  <2>3. QED
    BY <1>1, <2>1, <2>2
<1>4. QED
  BY <1>2, <1>3

\* They are numbers, so a work that shrinks with every step comes to an end.
LEMMA WorkIsNat == TypeOK => WorkNat
<1> SUFFICES ASSUME TypeOK PROVE WorkNat
  OBVIOUS
<1>1. Rank[pc["scan"]] \in Nat
  BY Ranks DEF TypeOK, ScanPcs
<1>2. TriesWork \in Nat
  BY DEF TypeOK, TriesWork, RetryLimit
<1>3. AirWork \in Nat
  BY ScanAssumption DEF TypeOK, AirWork
<1>4. SecondsLeft \in 0..MaxDuration
  <2>1. scanOptions.duration \in 0..MaxDuration
    BY DEF TypeOK, Options
  <2>2. QED
    BY <2>1, ScanAssumption DEF TypeOK, SecondsLeft
<1>5. Resets \in Nat
  <2>1. StartSteps("scan") \in Nat /\ StartSteps("api") \in Nat
    BY DEF StartSteps
  <2>2. QED
    BY <2>1, ScanAssumption DEF TypeOK, Resets
<1>6. TimeWork \in Nat
  <2>1. MaxDuration * Resets \in Nat
    BY <1>5, ScanAssumption
  <2>2. QED
    BY <1>4, <2>1, ScanAssumption DEF TimeWork
<1>7. WindowWork = Rank[pc["scan"]] + TimeWork + AirWork
  <2>1. MaxDuration * Resets \in Nat /\ 2 * (MaxReports - arrived) \in Int /\ pending \in Int
    BY <1>5, ScanAssumption DEF TypeOK
  <2>2. QED
    BY <1>1, <1>4, <2>1 DEF WindowWork, TimeWork, AirWork
<1>8. ExitWork = Rank[pc["scan"]] + TriesWork
  BY DEF ExitWork, TriesWork
<1>9. QED
  BY <1>1, <1>2, <1>3, <1>4, <1>5, <1>6, <1>7, <1>8 DEF WorkNat

\* The time left does not grow: nothing is set anew, or that uses a reset up.
LEMMA TimeKept ==
  ASSUME WorkNat, WorkNat',
         \/ Resets' = Resets /\ SecondsLeft' <= SecondsLeft
         \/ Resets' < Resets
  PROVE  TimeWork' <= TimeWork
  BY OneFewer, ScanAssumption DEF WorkNat, TimeWork

\* A start by either thread uses a reset up whenever it stores a duration or wipes
\* a stop out, and sets nothing anew when it does neither.
LEMMA StartUsesResets ==
  ASSUME TypeOK, TypeOK', NEW t \in Threads, StartBleScan(t)
  PROVE  (Resets' = Resets /\ SecondsLeft' <= SecondsLeft) \/ Resets' < Resets
<1>0. /\ apiCalls' = apiCalls /\ elapsedSec' = elapsedSec /\ keepRunning' = keepRunning
      /\ pc'[Other(t)] = pc[Other(t)] /\ Other(t) \in Threads \ {t}
      /\ Threads = {"scan", "api"}
  <2>1. UNCHANGED <<apiCalls, elapsedSec, keepRunning>>
    BY DEF StartBleScan, StartCheck, StartCopy, StartClear, StartArm, apiVars
  <2>2. \E p : Go(t, p)
    BY DEF StartBleScan, StartCheck, StartCopy, StartClear, StartArm
  <2>3. QED
    BY <2>1, <2>2 DEF Go, Other, Threads, TypeOK
<1>1. /\ StartSteps("scan") \in Nat /\ StartSteps("api") \in Nat
      /\ StartSteps("scan")' \in Nat /\ StartSteps("api")' \in Nat
      /\ StartSteps(Other(t))' = StartSteps(Other(t))
  <2>1. \A u \in Threads : StartSteps(u) \in Nat /\ StartSteps(u)' \in Nat
    BY DEF StartSteps
  <2>2. QED
    BY <1>0, <2>1 DEF StartSteps
<1>2. apiCalls \in Int /\ MaxApiCalls \in Int
  BY ScanAssumption DEF TypeOK
<1>3. /\ StartSteps(t)' = StartSteps(t) => Resets' = Resets
      /\ StartSteps(t)' < StartSteps(t) => Resets' < Resets
  <2>1. CASE t = "scan"
    BY <1>0, <1>1, <1>2, <2>1 DEF Resets, Other
  <2>2. CASE t = "api"
    BY <1>0, <1>1, <1>2, <2>2 DEF Resets, Other
  <2>3. QED
    BY <1>0, <2>1, <2>2
<1>4. CASE StartCheck(t) \/ StartArm(t)
  <2>1. /\ StartSteps(t)' = StartSteps(t) \/ StartSteps(t)' < StartSteps(t)
        /\ UNCHANGED <<scanOptions, scanStopRequested>>
    BY <1>4 DEF StartCheck, StartArm, At, Go, Returned, StartSteps, TypeOK, Threads, stateVars
  <2>2. SecondsLeft' = SecondsLeft
    BY <1>0, <2>1 DEF SecondsLeft
  <2>3. QED
    BY <1>3, <2>1, <2>2, WorkIsNat DEF WorkNat
<1>6. CASE StartCopy(t) \/ StartClear(t)
  <2>1. StartSteps(t)' < StartSteps(t)
    BY <1>6 DEF StartCopy, StartClear, At, Go, StartSteps, TypeOK, Threads
  <2>2. QED
    BY <1>3, <2>1
<1>7. QED
  BY <1>4, <1>6 DEF StartBleScan

\* In a window the scan thread goes on to a later place, or counts a second, or
\* reads a report.
LEMMA WindowShrinks ==
  ASSUME ScanIInv, TypeOK', ScanThread, InWindow, InWindow'
  PROVE  WindowWork' < WindowWork
<1> TypeOK
  BY DEF ScanIInv
<1>0. WorkNat /\ WorkNat'
  BY WorkIsNat, PTL
<1>1. /\ Rank[pc["scan"]] \in Nat /\ TimeWork \in Nat /\ AirWork \in Nat
      /\ WindowWork = Rank[pc["scan"]] + TimeWork + AirWork
      /\ Rank[pc'["scan"]] \in Nat /\ TimeWork' \in Nat /\ AirWork' \in Nat
      /\ WindowWork' = Rank[pc'["scan"]] + TimeWork' + AirWork'
  BY <1>0 DEF WorkNat
<1>2. pc["scan"] \in {"startCheck", "startCopy", "startClear", "startArm", "elapse", "read",
                      "disable"}
  BY DEF InWindow, HoldsDevice
<1>3. pc'["scan"] \notin {"begin", "loop", "open", "configure", "enable", "closed", "exit"}
  BY DEF InWindow, HoldsDevice
<1>4. CASE StartBleScan("scan")
  <2>1. UNCHANGED <<arrived, pending>>
    BY <1>4 DEF StartBleScan, StartCheck, StartCopy, StartClear, StartArm, airVars
  <2>2. TimeWork' <= TimeWork /\ AirWork' = AirWork
    <3>1. "scan" \in Threads
      BY DEF Threads
    <3>2. QED
      BY <1>0, <1>4, <2>1, <3>1, StartUsesResets, TimeKept DEF AirWork
  <2>3. Rank[pc'["scan"]] < Rank[pc["scan"]]
    BY <1>4, Moves, Ranks
       DEF StartBleScan, StartCheck, StartCopy, StartClear, StartArm, At, Returned, ScanPcs
  <2>4. QED
    BY <1>1, <2>2, <2>3
<1>5. CASE WindowTick
  <2>1. TimeWork' < TimeWork
    <3>1. Resets' = Resets
      BY <1>5 DEF WindowTick, Resets, StartSteps, apiVars
    <3>2. scanOptions.duration \in Int /\ elapsedSec \in Int
      BY DEF TypeOK, Options
    <3>3. SecondsLeft' < SecondsLeft
      BY <1>5, <3>2 DEF WindowTick, SecondsLeft, stateVars
    <3>4. SecondsLeft \in Int /\ SecondsLeft' \in Int /\ MaxDuration * Resets \in Int
      BY <1>0, ScanAssumption DEF WorkNat
    <3>5. QED
      BY <3>1, <3>3, <3>4 DEF TimeWork
  <2>2. AirWork' = AirWork /\ pc'["scan"] = pc["scan"]
    BY <1>5 DEF WindowTick, AirWork, airVars
  <2>3. QED
    BY <1>1, <2>1, <2>2
<1>6. CASE WindowOver \/ ReadEnds
  <2>1. TimeWork' = TimeWork /\ AirWork' = AirWork
    <3>1. StartSteps("scan")' = StartSteps("scan") /\ StartSteps("api")' = StartSteps("api")
      BY <1>6, Moves DEF WindowOver, ReadEnds, At, ScanPcs, StartSteps
    <3>2. UNCHANGED <<keepRunning, scanStopRequested, scanOptions, elapsedSec, apiCalls,
                      arrived, pending>>
      BY <1>6 DEF WindowOver, ReadEnds, stateVars, airVars, apiVars
    <3>3. QED
      BY <3>1, <3>2 DEF TimeWork, SecondsLeft, Resets, AirWork
  <2>2. Rank[pc'["scan"]] < Rank[pc["scan"]]
    BY <1>6, Moves, Ranks DEF WindowOver, ReadEnds, At, ScanPcs
  <2>3. QED
    BY <1>1, <2>1, <2>2
<1>7. CASE ReadEvent
  <2>1. AirWork' < AirWork
    BY <1>7, ScanAssumption DEF ReadEvent, AirWork, TypeOK
  <2>2. TimeWork' = TimeWork /\ pc'["scan"] = pc["scan"]
    BY <1>7 DEF ReadEvent, TimeWork, SecondsLeft, Resets, StartSteps, stateVars, apiVars
  <2>3. QED
    BY <1>1, <2>1, <2>2
<1>8. ~(Disable \/ DisableFails)
  BY <1>3, Moves DEF Disable, DisableFails, CloseDev, ScanPcs
<1>9. ~(BringUp \/ ScanLoop \/ OpenDev \/ OpenDevFails \/ Configure \/ ConfigureFails
        \/ Enable \/ EnableFails \/ AfterWindow)
  BY <1>2 DEF At, BringUp, ScanLoop, OpenDev, OpenDevFails, Configure, ConfigureFails, Enable,
     EnableFails, AfterWindow
<1>10. QED
  BY <1>4, <1>5, <1>6, <1>7, <1>8, <1>9 DEF ScanThread

\* After SIGINT the scan thread reads no more and waits no more: it goes on to
\* a later place, or to the next of its three tries.
LEMMA ExitShrinks ==
  ASSUME ScanIInv, TypeOK', ScanThread, ~keepRunning
  PROVE  ExitWork' < ExitWork
<1> TypeOK /\ TriesLeft
  BY DEF ScanIInv
<1>0. WorkNat /\ WorkNat'
  BY WorkIsNat, PTL
<1>1. /\ Rank[pc["scan"]] \in Nat /\ TriesWork \in Nat
      /\ ExitWork = Rank[pc["scan"]] + TriesWork
      /\ Rank[pc'["scan"]] \in Nat /\ TriesWork' \in Nat
      /\ ExitWork' = Rank[pc'["scan"]] + TriesWork'
  BY <1>0 DEF WorkNat
<1>2. CASE OpenDevFails \/ ConfigureFails \/ EnableFails
  <2>1. pc["scan"] \in {"open", "configure", "enable"} /\ NextTry
    BY <1>2 DEF OpenDevFails, ConfigureFails, EnableFails, SetupFails, At
  <2>2. retry' = retry + 1 /\ pc'["scan"] \in {"open", "loop"}
    BY <2>1, NextTryCounts DEF NextTry
  <2>3. TriesWork' <= TriesWork - 3
    BY <2>1, <2>2 DEF TriesWork, TypeOK, TriesLeft, RetryLimit
  <2>4. Rank[pc'["scan"]] <= Rank[pc["scan"]] + 2
    BY <2>1, <2>2, Ranks
  <2>5. QED
    BY <1>1, <2>3, <2>4
<1>3. CASE OpenDev \/ Configure \/ Enable
  <2>1. pc["scan"] \in {"open", "configure", "enable"} /\ retry' = retry
    BY <1>3 DEF OpenDev, Configure, Enable, At
  <2>2. TriesWork' <= TriesWork
    BY <2>1, <1>1 DEF TriesWork
  <2>3. Rank[pc'["scan"]] < Rank[pc["scan"]]
    BY <1>3, Moves, Ranks DEF OpenDev, Configure, Enable, At, ScanPcs
  <2>4. QED
    BY <1>1, <2>2, <2>3
<1>4. CASE \/ BringUp \/ ScanLoop \/ StartBleScan("scan") \/ WindowOver \/ ReadEnds
           \/ Disable \/ DisableFails \/ AfterWindow
  <2>1. /\ pc'["scan"] \notin {"open", "configure", "enable"}
        /\ Rank[pc'["scan"]] < Rank[pc["scan"]]
    <3>1. CASE BringUp \/ ScanLoop
      BY <3>1, Moves, Ranks DEF BringUp, ScanLoop, At, ScanPcs
    <3>2. CASE StartBleScan("scan")
      BY <3>2, Moves, Ranks
         DEF StartBleScan, StartCheck, StartCopy, StartClear, StartArm, At, Returned, ScanPcs
    <3>3. CASE WindowOver \/ ReadEnds \/ Disable \/ DisableFails \/ AfterWindow
      BY <3>3, Moves, Ranks
         DEF WindowOver, ReadEnds, Disable, DisableFails, CloseDev, AfterWindow, At, ScanPcs
    <3>4. QED
      BY <1>4, <3>1, <3>2, <3>3
  <2>2. TriesWork' = 0
    BY <2>1 DEF TriesWork
  <2>3. QED
    BY <1>1, <2>1, <2>2
<1>5. ~(WindowTick \/ ReadEvent)
  BY DEF WindowTick, ReadEvent
<1>6. QED
  BY <1>2, <1>3, <1>4, <1>5 DEF ScanThread

\* No other step puts the end off: a start of the other thread uses its resets up,
\* a stop and SIGINT leave no second, and a report that comes is one fewer to come.
LEMMA OthersAddNothing ==
  ASSUME ScanIInv, TypeOK', ApiThread \/ Deliver \/ SigInt
  PROVE  WindowWork' <= WindowWork /\ ExitWork' <= ExitWork
<1> TypeOK
  BY DEF ScanIInv
<1>0. WorkNat /\ WorkNat'
  BY WorkIsNat, PTL
<1>1. /\ Rank[pc["scan"]] \in Nat /\ TriesWork \in Nat /\ TimeWork \in Nat /\ AirWork \in Nat
      /\ WindowWork = Rank[pc["scan"]] + TimeWork + AirWork
      /\ ExitWork = Rank[pc["scan"]] + TriesWork
      /\ Rank[pc'["scan"]] \in Nat /\ TriesWork' \in Nat /\ TimeWork' \in Nat /\ AirWork' \in Nat
      /\ WindowWork' = Rank[pc'["scan"]] + TimeWork' + AirWork'
      /\ ExitWork' = Rank[pc'["scan"]] + TriesWork'
  BY <1>0 DEF WorkNat
<1>2. pc'["scan"] = pc["scan"] /\ retry' = retry
  <2>1. CASE ApiStartOneShot \/ ApiStartContinuous \/ ApiStop
    BY <2>1, Moves DEF ApiStartOneShot, ApiStartContinuous, ApiStop, ApiCall, ApiPcs
  <2>2. CASE StartBleScan("api")
    BY <2>2, Moves
       DEF StartBleScan, StartCheck, StartCopy, StartClear, StartArm, Returned, ApiPcs
  <2>3. CASE StopCheck \/ StopRequest \/ StopIdle
    BY <2>3, Moves DEF StopCheck, StopRequest, StopIdle, ApiPcs
  <2>4. CASE Deliver \/ SigInt
    BY <2>4 DEF Deliver, SigInt
  <2>5. QED
    BY <2>1, <2>2, <2>3, <2>4 DEF ApiThread
<1>3. TriesWork' = TriesWork /\ TimeWork' <= TimeWork
  <2>1. CASE ApiStartOneShot \/ ApiStartContinuous \/ ApiStop
    <3>1. apiCalls' = apiCalls + 1 /\ apiCalls \in Int /\ MaxApiCalls \in Int
      BY <2>1, ScanAssumption DEF ApiStartOneShot, ApiStartContinuous, ApiStop, ApiCall, TypeOK
    <3>2. /\ pc["api"] = "none" /\ pc'["api"] \in {"startCheck", "stopCheck"}
          /\ pc'["scan"] = pc["scan"]
      BY <2>1, Moves DEF ApiStartOneShot, ApiStartContinuous, ApiStop, ApiCall, At, ApiPcs
    <3>3. /\ StartSteps("scan")' = StartSteps("scan") /\ StartSteps("scan") \in Nat
          /\ StartSteps("api") = 0 /\ StartSteps("api")' \in {0, 2}
      BY <3>2 DEF StartSteps
    <3>4. Resets' = Resets \/ Resets' < Resets
      BY <3>1, <3>3 DEF Resets
    <3>5. SecondsLeft' = SecondsLeft
      BY <2>1 DEF ApiStartOneShot, ApiStartContinuous, ApiStop, ApiCall, SecondsLeft, stateVars
    <3>6. QED
      BY <1>0, <1>2, <3>4, <3>5, TimeKept DEF WorkNat, TriesWork
  <2>2. CASE StartBleScan("api")
    <3>1. "api" \in Threads
      BY DEF Threads
    <3>2. QED
      BY <1>0, <1>2, <2>2, <3>1, StartUsesResets, TimeKept DEF TriesWork
  <2>3. CASE StopCheck \/ StopRequest \/ StopIdle
    <3>1. Resets' = Resets
      <4>1. /\ pc["api"] \in {"stopCheck", "stopRequest", "stopIdle"}
            /\ pc'["api"] \in {"stopRequest", "stopIdle", "none"}
        BY <2>3, Moves DEF StopCheck, StopRequest, StopIdle, At, ApiPcs
      <4>2. apiCalls' = apiCalls
        BY <2>3 DEF StopCheck, StopRequest, StopIdle, apiVars
      <4>3. QED
        BY <1>2, <4>1, <4>2 DEF Resets, StartSteps
    <3>2. /\ UNCHANGED <<keepRunning, scanOptions, elapsedSec>>
          /\ scanStopRequested' = scanStopRequested \/ scanStopRequested' = TRUE
      BY <2>3 DEF StopCheck, StopRequest, StopIdle, stateVars
    <3>3. SecondsLeft' = SecondsLeft \/ SecondsLeft' = 0
      <4>1. CASE scanStopRequested' = scanStopRequested
        BY <3>2, <4>1 DEF SecondsLeft
      <4>2. CASE scanStopRequested' = TRUE
        BY <4>2 DEF SecondsLeft
      <4>3. QED
        BY <3>2, <4>1, <4>2
    <3>4. QED
      BY <1>0, <1>2, <3>1, <3>3, TimeKept, ScanAssumption DEF WorkNat, TriesWork
  <2>4. CASE Deliver \/ SigInt
    <3>1. Resets' = Resets
      BY <2>4 DEF Deliver, SigInt, Resets, StartSteps, apiVars
    <3>2. /\ UNCHANGED <<scanOptions, scanStopRequested, elapsedSec>>
          /\ keepRunning' = keepRunning \/ keepRunning' = FALSE
      BY <2>4 DEF Deliver, SigInt, stateVars
    <3>3. SecondsLeft' = SecondsLeft \/ SecondsLeft' = 0
      <4>1. CASE keepRunning' = keepRunning
        BY <3>2, <4>1 DEF SecondsLeft
      <4>2. CASE keepRunning' = FALSE
        BY <4>2 DEF SecondsLeft
      <4>3. QED
        BY <3>2, <4>1, <4>2
    <3>4. QED
      BY <1>0, <1>2, <3>1, <3>3, TimeKept, ScanAssumption DEF WorkNat, TriesWork
  <2>5. QED
    BY <2>1, <2>2, <2>3, <2>4 DEF ApiThread
<1>4. AirWork' <= AirWork
  <2>1. CASE Deliver
    BY <2>1, ScanAssumption DEF Deliver, AirWork, TypeOK
  <2>2. CASE ApiThread \/ SigInt
    <3>1. UNCHANGED <<arrived, pending>>
      BY <2>2 DEF ApiThread, ApiStartOneShot, ApiStartContinuous, ApiStop, ApiCall, StartBleScan,
         StartCheck, StartCopy, StartClear, StartArm, StopCheck, StopRequest, StopIdle, SigInt,
         airVars
    <3>2. QED
      BY <1>1, <3>1 DEF AirWork
  <2>3. QED
    BY <2>1, <2>2
<1>5. QED
  BY <1>1, <1>2, <1>3, <1>4

\* Every window, and after SIGINT the thread, ends within the work that is left
\* of it, whatever fails and whatever is on the air.  Another caller's start adds at
\* most two of the longest duration to a window and nothing to a shutdown.
THEOREM Progress == Spec => ScanProgress
<1> DEFINE Step ==
      /\ InWindow /\ InWindow' =>
           WindowWork' <= WindowWork /\ (ScanThread => WindowWork' < WindowWork)
      /\ ~keepRunning =>
           ExitWork' <= ExitWork /\ (ScanThread => ExitWork' < ExitWork)
<1>1. ScanIInv /\ ScanIInv' /\ [Next]_vars => [Step]_vars
  <2>1. SUFFICES ASSUME ScanIInv, ScanIInv', Next PROVE Step
    OBVIOUS
  <2>2. TypeOK /\ TypeOK'
    BY <2>1 DEF ScanIInv
  <2>3. WorkNat /\ WorkNat'
    BY <2>2, WorkIsNat, PTL
  <2>4. /\ WindowWork \in Int /\ ExitWork \in Int
        /\ WindowWork' \in Int /\ ExitWork' \in Int
    BY <2>3 DEF WorkNat
  <2>5. CASE ScanThread
    BY <2>1, <2>2, <2>4, <2>5, WindowShrinks, ExitShrinks
  <2>6. CASE ~ScanThread
    BY <2>1, <2>2, <2>6, OthersAddNothing DEF Next
  <2>7. QED
    BY <2>5, <2>6
<1>2. QED
  BY <1>1, ScanInvariance, StepScan, PTL DEF Spec, ScanProgress
=============================================================================
