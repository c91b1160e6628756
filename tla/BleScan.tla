------------------------------ MODULE BleScan ------------------------------
(***************************************************************************)
(* The scan thread's life with the HCI controller (src/main.cpp): bringing *)
(* the adapter up, initBleScan's retries, the timed window, the read loop, *)
(* disabling and closing, and the scan state that the exported functions   *)
(* startOneShotScan, startContinuousScan and stopBleScan share with it.    *)
(*                                                                         *)
(* The controller and the HCI library are external: a call may fail (at    *)
(* most MaxFaults times), and a command that fails for want of an answer   *)
(* may have been executed.  The exported functions are called from one     *)
(* other thread, at most MaxApiCalls times; nothing in the repository      *)
(* calls them, so MaxApiCalls = 0 is the program as it is built.  What is  *)
(* done with a report that has been read is AdvertPipeline's subject.      *)
(***************************************************************************)
EXTENDS Integers, FiniteSets

CONSTANTS ScanTime,     \* bleScanTime, main()'s first argument, in seconds
          MaxDuration,  \* the longest window asked for; 2^32 - 1 in the code
          MaxFaults,    \* bound: HCI calls that fail
          MaxReports,   \* bound: reports the controller delivers per window (its
                        \* duplicate filter is on, main.cpp:144)
          MaxApiCalls   \* bound: calls of the exported functions

ASSUME ScanAssumption ==
  /\ MaxDuration \in Nat /\ ScanTime \in 0..MaxDuration /\ MaxFaults \in Nat
  /\ MaxReports \in Nat /\ MaxApiCalls \in Nat

RetryLimit == 3     \* BLE_SCAN_INIT_RETRY_LIMIT

\* struct BleScanOptions: sleepDurationSec only sets how long a sleep lasts,
\* and callback is never called.
Options == [continuous : BOOLEAN, duration : 0..MaxDuration]
Cleared       == [continuous |-> FALSE, duration |-> 0]
OneShot(d)    == [continuous |-> FALSE, duration |-> d]
Continuous(d) == [continuous |-> TRUE,  duration |-> d]

Threads == {"scan", "api"}
Fds == 1..2         \* one more than the program should ever have open

VARIABLES
  keepRunning,        \* std::atomic<bool> keepRunning
  pc,                 \* where the two threads are
  asked,              \* the options each thread passes to startBleScan
  ctrl,               \* external: the controller is "down", "idle" or "scanning"
  faults,             \* how many HCI calls have failed
  fd, openFds,        \* the scan thread's fd; the HCI sockets that are open
  retry,              \* initBleScan's retry_count
  bleScanState,       \* "idle" or "scanning"
  scanStopRequested,
  scanOptions,
  elapsedSec,
  arrived, pending,   \* reports of this window: delivered, and not yet read
  apiCalls,           \* how many calls of the exported functions were made
  oneShotAsked        \* history: a one-shot scan has been asked for

hciVars   == <<ctrl, faults>>
fdVars    == <<fd, openFds>>
stateVars == <<bleScanState, scanStopRequested, scanOptions>>
airVars   == <<arrived, pending>>
apiVars   == <<apiCalls, oneShotAsked>>
vars == <<keepRunning, pc, asked, hciVars, fdVars, retry, stateVars, elapsedSec,
          airVars, apiVars>>

ScanPcs == {"begin", "loop", "open", "configure", "enable", "startCheck", "startCopy",
            "startClear", "startArm", "elapse", "read", "disable", "closed", "exit"}
ApiPcs  == {"none", "startCheck", "startCopy", "startClear", "startArm",
            "stopCheck", "stopRequest", "stopIdle"}

Init ==
  /\ keepRunning = TRUE
  /\ pc = [scan |-> "begin", api |-> "none"]
  /\ asked = [scan |-> Continuous(ScanTime), api |-> Cleared]
  /\ ctrl \in {"down", "idle"} /\ faults = 0
  /\ fd = -1 /\ openFds = {}
  /\ retry = 0
  /\ bleScanState = "idle" /\ scanStopRequested = FALSE /\ scanOptions = Cleared
  /\ elapsedSec = 0
  /\ arrived = 0 /\ pending = 0
  /\ apiCalls = 0 /\ oneShotAsked = FALSE

At(t, p) == pc[t] = p
Go(t, p) == pc' = [pc EXCEPT ![t] = p]

-----------------------------------------------------------------------------
(* The controller: what a sequence of HCI calls may leave behind.          *)

Hci == [ctrl |-> ctrl, faults |-> faults]
Becomes(h) == ctrl' = h.ctrl /\ faults' = h.faults

\* A call that fails, with no effect.
Failing(h) == IF h.faults < MaxFaults THEN {[h EXCEPT !.faults = @ + 1]} ELSE {}

\* A command that fails for want of an answer, and may have reached state c.
Unanswered(h, c) == Failing(h) \cup {[g EXCEPT !.ctrl = c] : g \in Failing(h)}

HciDevDown(h) == {[h EXCEPT !.ctrl = "down"]} \cup Failing(h)

\* EALREADY counts as success.
HciDevUp(h) ==
  {[h EXCEPT !.ctrl = IF @ = "down" THEN "idle" ELSE @]} \cup Failing(h)

\* hciDevReset looks at neither result.
HciDevReset(h) == UNION {HciDevUp(g) : g \in HciDevDown(h)}

\* bleScanThreadFunc's first lines: up, and one reset if that failed.
BringUp ==
  /\ At("scan", "begin")
  /\ \/ \E h \in HciDevUp(Hci) \ Failing(Hci) : Becomes(h)
     \/ \E g \in Failing(Hci) : \E h \in HciDevReset(g) : Becomes(h)
  /\ Go("scan", "loop")
  /\ UNCHANGED <<keepRunning, asked, fdVars, retry, stateVars, elapsedSec, airVars,
                 apiVars>>

-----------------------------------------------------------------------------
(* initBleScan.                                                            *)

\* Seeded fault: while (true).
LoopForever ==
  /\ At("scan", "loop")
  /\ Go("scan", "open")
  /\ retry' = 0
  /\ UNCHANGED <<keepRunning, asked, hciVars, fdVars, stateVars, elapsedSec, airVars,
                 apiVars>>

\* while (keepRunning) of bleScanThreadFunc, and the head of initBleScan.
ScanLoop ==
  /\ At("scan", "loop")
  /\ Go("scan", IF keepRunning THEN "open" ELSE "exit")
  /\ retry' = 0
  /\ UNCHANGED <<keepRunning, asked, hciVars, fdVars, stateVars, elapsedSec, airVars,
                 apiVars>>

\* The next round of the for loop; after the last one initBleScan returns
\* false, and the thread sleeps and goes back to its own loop.
NextTry ==
  /\ retry' = retry + 1
  /\ Go("scan", IF retry + 1 < RetryLimit THEN "open" ELSE "loop")

OpenDev ==
  /\ At("scan", "open")
  /\ \E n \in Fds \ openFds :
       /\ \A m \in Fds \ openFds : n <= m
       /\ fd' = n
       /\ openFds' = openFds \cup {n}
  /\ Go("scan", "configure")
  /\ UNCHANGED <<keepRunning, asked, hciVars, retry, stateVars, elapsedSec, airVars,
                 apiVars>>

OpenDevFails ==
  /\ At("scan", "open")
  /\ fd' = -1
  /\ \E g \in Failing(Hci) : \E h \in HciDevReset(g) : Becomes(h)
  /\ NextTry
  /\ UNCHANGED <<keepRunning, asked, openFds, stateVars, elapsedSec, airVars, apiVars>>

\* fcntl, configureHciFilter and setScanFilters.  The controller takes scan
\* parameters only while it is up and not scanning.
Configure ==
  /\ At("scan", "configure")
  /\ ctrl = "idle"
  /\ Go("scan", "enable")
  /\ UNCHANGED <<keepRunning, asked, hciVars, fdVars, retry, stateVars, elapsedSec,
                 airVars,
                 apiVars>>

\* Seeded fault: a failed set-up is retried without closing the socket.
SetupLeaks(H) ==
  /\ \E g \in H : \E h \in HciDevReset(g) : Becomes(h)
  /\ NextTry
  /\ UNCHANGED <<keepRunning, asked, fdVars, stateVars, elapsedSec, airVars, apiVars>>

\* Seeded fault: a failed set-up is retried without resetting the adapter.
SetupNoReset(H) ==
  /\ \E g \in H : Becomes(g)
  /\ openFds' = openFds \ {fd}
  /\ NextTry
  /\ UNCHANGED <<keepRunning, asked, fd, stateVars, elapsedSec, airVars, apiVars>>

\* A failed set-up: close(fd), hciDevReset(), and the next try.
SetupFails(H) ==
  /\ \E g \in H : \E h \in HciDevReset(g) : Becomes(h)
  /\ openFds' = openFds \ {fd}
  /\ NextTry
  /\ UNCHANGED <<keepRunning, asked, fd, stateVars, elapsedSec, airVars, apiVars>>

ConfigureFails ==
  /\ At("scan", "configure")
  /\ SetupFails(IF ctrl = "idle" THEN Failing(Hci) ELSE {Hci})

\* Seeded fault: the result of the enable command is not looked at.
EnableUnchecked ==
  /\ At("scan", "enable")
  /\ \E h \in {[Hci EXCEPT !.ctrl = "scanning"]} \cup Failing(Hci) : Becomes(h)
  /\ arrived' = 0 /\ pending' = 0
  /\ elapsedSec' = 0
  /\ Go("scan", "startCheck")
  /\ UNCHANGED <<keepRunning, asked, fdVars, retry, stateVars, apiVars>>

\* Success: startContinuousScan and elapsedSec = 0 follow.
Enable ==
  /\ At("scan", "enable")
  /\ ctrl' = "scanning"
  /\ arrived' = 0 /\ pending' = 0
  /\ elapsedSec' = 0
  /\ Go("scan", "startCheck")
  /\ UNCHANGED <<keepRunning, asked, faults, fdVars, retry, stateVars, apiVars>>

EnableFails ==
  /\ At("scan", "enable")
  /\ SetupFails(Unanswered(Hci, "scanning"))
-----------------------------------------------------------------------------
(* startBleScan, called by either thread.                                  *)

Other(t) == IF t = "scan" THEN "api" ELSE "scan"

\* Where the caller goes when startBleScan returns, whatever it returns.
Returned(t) == IF t = "scan" THEN "elapse" ELSE "none"

StartCheck(t) ==
  /\ At(t, "startCheck")
  /\ Go(t, IF bleScanState = "idle" THEN "startCopy" ELSE Returned(t))
  /\ UNCHANGED <<keepRunning, asked, hciVars, fdVars, retry, stateVars, elapsedSec,
                 airVars,
                 apiVars>>

\* scanOptions = options.  Nothing orders two copies: if both threads have
\* passed the check, each field may end up with either thread's value.
StartCopy(t) ==
  /\ At(t, "startCopy")
  /\ LET from == {asked[t]} \cup
                 (IF At(Other(t), "startCopy") THEN {asked[Other(t)]} ELSE {})
     IN  scanOptions' \in [continuous : {o.continuous : o \in from},
                           duration : {o.duration : o \in from}]
  /\ Go(t, "startClear")
  /\ UNCHANGED <<keepRunning, asked, hciVars, fdVars, retry, bleScanState,
                 scanStopRequested, elapsedSec, airVars, apiVars>>

StartClear(t) ==
  /\ At(t, "startClear")
  /\ scanStopRequested' = FALSE
  /\ Go(t, "startArm")
  /\ UNCHANGED <<keepRunning, asked, hciVars, fdVars, retry, bleScanState, scanOptions,
                 elapsedSec, airVars, apiVars>>

StartArm(t) ==
  /\ At(t, "startArm")
  /\ bleScanState' = "scanning"
  /\ Go(t, Returned(t))
  /\ UNCHANGED <<keepRunning, asked, hciVars, fdVars, retry, scanStopRequested,
                 scanOptions, elapsedSec, airVars, apiVars>>

StartBleScan(t) == StartCheck(t) \/ StartCopy(t) \/ StartClear(t) \/ StartArm(t)

-----------------------------------------------------------------------------
(* The window: elapsed loop, read loop, disable and close.                 *)

\* Seeded fault: a second passes and is not counted.
TickForgotten ==
  /\ At("scan", "elapse")
  /\ elapsedSec < scanOptions.duration
  /\ keepRunning /\ ~scanStopRequested
  /\ UNCHANGED vars

\* Seeded fault: scanStopRequested is not looked at.
StopIgnored ==
  /\ At("scan", "elapse")
  /\ elapsedSec < scanOptions.duration
  /\ keepRunning
  /\ elapsedSec' = elapsedSec + 1
  /\ UNCHANGED <<keepRunning, pc, asked, hciVars, fdVars, retry, stateVars, airVars,
                 apiVars>>

\* Seeded fault: one second too many.
OneSecondTooMany ==
  /\ At("scan", "elapse")
  /\ elapsedSec <= scanOptions.duration
  /\ keepRunning /\ ~scanStopRequested
  /\ elapsedSec' = elapsedSec + 1
  /\ UNCHANGED <<keepRunning, pc, asked, hciVars, fdVars, retry, stateVars, airVars,
                 apiVars>>

WindowTick ==
  /\ At("scan", "elapse")
  /\ elapsedSec < scanOptions.duration
  /\ keepRunning /\ ~scanStopRequested
  /\ elapsedSec' = elapsedSec + 1
  /\ UNCHANGED <<keepRunning, pc, asked, hciVars, fdVars, retry, stateVars, airVars,
                 apiVars>>

WindowOver ==
  /\ At("scan", "elapse")
  /\ elapsedSec >= scanOptions.duration \/ ~keepRunning \/ scanStopRequested
  /\ Go("scan", "read")
  /\ UNCHANGED <<keepRunning, asked, hciVars, fdVars, retry, stateVars, elapsedSec,
                 airVars,
                 apiVars>>

\* One event is read; whatever it is, the loop goes on.
ReadEvent ==
  /\ At("scan", "read")
  /\ keepRunning
  /\ pending > 0
  /\ pending' = pending - 1
  /\ UNCHANGED <<keepRunning, pc, asked, hciVars, fdVars, retry, stateVars,
                 elapsedSec, arrived,
                 apiVars>>

\* SIGINT, or nothing to read from the non-blocking socket, or a read error.
ReadEnds ==
  /\ At("scan", "read")
  /\ \/ (~keepRunning \/ pending = 0) /\ UNCHANGED hciVars
     \/ keepRunning /\ (\E h \in Failing(Hci) : Becomes(h))
  /\ Go("scan", "disable")
  /\ UNCHANGED <<keepRunning, asked, fdVars, retry, stateVars, elapsedSec, airVars,
                 apiVars>>

\* close(fd): what has not been read goes with the socket.
CloseDev ==
  /\ openFds' = openFds \ {fd}
  /\ pending' = 0
  /\ Go("scan", "closed")
  /\ UNCHANGED <<keepRunning, asked, fd, retry, scanStopRequested, scanOptions,
                 elapsedSec,
                 arrived, apiVars>>

\* Seeded fault: the controller is not disabled when SIGINT has come.
DisableNotAtExit ==
  /\ At("scan", "disable")
  /\ ctrl' = IF keepRunning THEN "idle" ELSE ctrl
  /\ bleScanState' = "idle"
  /\ UNCHANGED faults
  /\ CloseDev

Disable ==
  /\ At("scan", "disable")
  /\ ctrl' = "idle"
  /\ bleScanState' = "idle"
  /\ UNCHANGED faults
  /\ CloseDev

\* The result is not looked at; bleScanState stays what it was.
DisableFails ==
  /\ At("scan", "disable")
  /\ \E h \in Unanswered(Hci, "idle") : Becomes(h)
  /\ UNCHANGED bleScanState
  /\ CloseDev

\* Seeded fault: the options are cleared before they are looked at.
ClearedTooEarly ==
  /\ At("scan", "closed")
  /\ scanOptions' = Cleared
  /\ Go("scan", IF scanOptions.continuous THEN "loop" ELSE "exit")
  /\ UNCHANGED <<keepRunning, asked, hciVars, fdVars, retry, bleScanState,
                 scanStopRequested, elapsedSec, airVars, apiVars>>

\* Seeded fault: a scan that was stopped ends the thread as well.
StopEndsThread ==
  /\ At("scan", "closed")
  /\ IF scanOptions.continuous /\ ~scanStopRequested
     THEN Go("scan", "loop") /\ UNCHANGED scanOptions
     ELSE Go("scan", "exit") /\ scanOptions' = Cleared
  /\ UNCHANGED <<keepRunning, asked, hciVars, fdVars, retry, bleScanState,
                 scanStopRequested, elapsedSec, airVars, apiVars>>

\* A continuous scan sleeps and starts again; a one-shot scan clears its
\* options and ends the thread.
AfterWindow ==
  /\ At("scan", "closed")
  /\ IF scanOptions.continuous
     THEN Go("scan", "loop") /\ UNCHANGED scanOptions
     ELSE Go("scan", "exit") /\ scanOptions' = Cleared
  /\ UNCHANGED <<keepRunning, asked, hciVars, fdVars, retry, bleScanState,
                 scanStopRequested, elapsedSec, airVars, apiVars>>

ScanThread ==
  \/ BringUp \/ ScanLoop \/ OpenDev \/ OpenDevFails \/ Configure \/ ConfigureFails
  \/ Enable \/ EnableFails \/ StartBleScan("scan")
  \/ WindowTick \/ WindowOver \/ ReadEvent \/ ReadEnds
  \/ Disable \/ DisableFails \/ AfterWindow

-----------------------------------------------------------------------------
(* The other thread's calls, the air, and SIGINT.                          *)

ApiCall ==
  /\ At("api", "none")
  /\ apiCalls < MaxApiCalls
  /\ apiCalls' = apiCalls + 1
  /\ UNCHANGED <<keepRunning, hciVars, fdVars, retry, stateVars, elapsedSec, airVars>>

ApiStartOneShot ==
  /\ ApiCall
  /\ \E d \in 0..MaxDuration : asked' = [asked EXCEPT !["api"] = OneShot(d)]
  /\ Go("api", "startCheck")
  /\ oneShotAsked' = TRUE

ApiStartContinuous ==
  /\ ApiCall
  /\ \E d \in 0..MaxDuration : asked' = [asked EXCEPT !["api"] = Continuous(d)]
  /\ Go("api", "startCheck")
  /\ UNCHANGED oneShotAsked

ApiStop ==
  /\ ApiCall
  /\ Go("api", "stopCheck")
  /\ UNCHANGED <<asked, oneShotAsked>>

\* stopBleScan: the state is checked, then the request and the state stored.
StopCheck ==
  /\ At("api", "stopCheck")
  /\ Go("api", IF bleScanState = "scanning" THEN "stopRequest" ELSE "none")
  /\ UNCHANGED <<keepRunning, asked, hciVars, fdVars, retry, stateVars, elapsedSec,
                 airVars,
                 apiVars>>

StopRequest ==
  /\ At("api", "stopRequest")
  /\ scanStopRequested' = TRUE
  /\ Go("api", "stopIdle")
  /\ UNCHANGED <<keepRunning, asked, hciVars, fdVars, retry, bleScanState, scanOptions,
                 elapsedSec, airVars, apiVars>>

StopIdle ==
  /\ At("api", "stopIdle")
  /\ bleScanState' = "idle"
  /\ Go("api", "none")
  /\ UNCHANGED <<keepRunning, asked, hciVars, fdVars, retry, scanStopRequested,
                 scanOptions,
                 elapsedSec, airVars, apiVars>>

ApiThread ==
  \/ ApiStartOneShot \/ ApiStartContinuous \/ ApiStop
  \/ StartBleScan("api") \/ StopCheck \/ StopRequest \/ StopIdle

\* The controller delivers a report to the open socket.
Deliver ==
  /\ ctrl = "scanning" /\ openFds # {}
  /\ arrived < MaxReports
  /\ arrived' = arrived + 1 /\ pending' = pending + 1
  /\ UNCHANGED <<keepRunning, pc, asked, hciVars, fdVars, retry, stateVars,
                 elapsedSec, apiVars>>

SigInt ==
  /\ keepRunning
  /\ keepRunning' = FALSE
  /\ UNCHANGED <<pc, asked, hciVars, fdVars, retry, stateVars, elapsedSec, airVars,
                 apiVars>>

Next == ScanThread \/ ApiThread \/ Deliver \/ SigInt

Spec == Init /\ [][Next]_vars

(***************************************************************************)
(* The scan thread is scheduled and its sleeps end.  A command that could  *)
(* succeed or fail may do either; only the number of failures is bounded.  *)
(* Nothing is promised of the other thread, the air or SIGINT.             *)
(***************************************************************************)
FairSpec == Spec /\ WF_vars(ScanThread)

-----------------------------------------------------------------------------
(* Properties.                                                             *)

\* The type invariant.
TypeOK ==
  /\ keepRunning \in BOOLEAN
  /\ pc \in [Threads -> ScanPcs \cup ApiPcs]
  /\ pc["scan"] \in ScanPcs /\ pc["api"] \in ApiPcs
  /\ asked \in [Threads -> Options]
  /\ ctrl \in {"down", "idle", "scanning"} /\ faults \in 0..MaxFaults
  /\ fd \in {-1} \cup Fds /\ openFds \subseteq Fds
  /\ retry \in 0..RetryLimit
  /\ bleScanState \in {"idle", "scanning"}
  /\ scanStopRequested \in BOOLEAN
  /\ scanOptions \in Options
  /\ elapsedSec \in 0..MaxDuration
  /\ arrived \in 0..MaxReports /\ pending \in 0..arrived
  /\ apiCalls \in 0..MaxApiCalls /\ oneShotAsked \in BOOLEAN

\* Where the scan thread works on an HCI socket it has opened.
HoldsDevice == pc["scan"] \in {"configure", "enable", "startCheck", "startCopy", "startClear",
                               "startArm", "elapse", "read", "disable"}

\* The window proper: from the successful enable to the disable.
InWindow == HoldsDevice /\ pc["scan"] \notin {"configure", "enable"}

\* The thread has exactly the socket it works on open, and none elsewhere: no
\* path through the retries, the reset and the window leaks a descriptor or
\* works on a closed one (main.cpp:160-191 and 820-821).
DescriptorDiscipline == openFds = IF HoldsDevice THEN {fd} ELSE {}

\* In a window the controller is scanning: whatever failed, was left scanning
\* or went down before, a window never opens over a controller that is not.
WindowIsScanning == InWindow => ctrl = "scanning"

\* Without calls of the exported functions every window is timed by main()'s
\* arguments, also when a failed disable left bleScanState "scanning" and
\* startContinuousScan was refused for it (main.cpp:153-155 and 194-197).
WindowAsConfigured ==
  pc["scan"] \in {"elapse", "read"} /\ apiCalls = 0 => scanOptions = Continuous(ScanTime)

\* The thread ends before SIGINT only after a one-shot scan was asked for.
OnlyOneShotEnds == pc["scan"] = "exit" /\ keepRunning => oneShotAsked

\* If no HCI call failed, the controller is not left scanning at the end.  (A
\* controller that an earlier process left scanning is no initial state here.)
QuietAtExit == pc["scan"] = "exit" /\ faults = 0 => ctrl # "scanning"

(***************************************************************************)
(* How far the scan thread is from the end of its window, and, once SIGINT  *)
(* has come, from its own end.                                              *)
(***************************************************************************)

Rank == [begin |-> 2, open |-> 12, configure |-> 11, enable |-> 10, startCheck |-> 9,
         startCopy |-> 8, startClear |-> 7, startArm |-> 6, elapse |-> 5, read |-> 4,
         disable |-> 3, closed |-> 2, loop |-> 1, exit |-> 0]

\* The seconds that the elapsed loop would still count as things are.
SecondsLeft ==
  IF keepRunning /\ ~scanStopRequested /\ elapsedSec < scanOptions.duration
    THEN scanOptions.duration - elapsedSec ELSE 0

\* The steps that may still set them anew: a start stores its duration, then wipes
\* a stop out; another thread may make more calls.
StartSteps(t) == CASE pc[t] \in {"startCheck", "startCopy"} -> 2
                   [] pc[t] = "startClear" -> 1
                   [] OTHER -> 0
Resets == 2 * (MaxApiCalls - apiCalls) + StartSteps("scan") + StartSteps("api")

\* A second may pass, or be set anew; a report may still come and be read.
WindowWork ==
  Rank[pc["scan"]] + SecondsLeft + MaxDuration * Resets + 2 * (MaxReports - arrived) + pending

\* A try of initBleScan may fail and be followed by the next.
ExitWork ==
  Rank[pc["scan"]]
  + (IF pc["scan"] \in {"open", "configure", "enable"} THEN 3 * (RetryLimit - retry) ELSE 0)

\* In a window every step of the scan thread brings the window's end nearer, and
\* after SIGINT every step brings the thread's end nearer.  No report, no signal
\* and no stop puts either off; a call of another thread prolongs a window by no
\* more than two of the longest duration, as its start stores its options and
\* wipes a stop out, and the shutdown not at all (main.cpp:161-229, 623-671,
\* 820-834).
ScanProgress ==
  [][/\ InWindow /\ InWindow' =>
          WindowWork' <= WindowWork /\ (ScanThread => WindowWork' < WindowWork)
     /\ ~keepRunning =>
          ExitWork' <= ExitWork /\ (ScanThread => ExitWork' < ExitWork)]_vars

\* Every window ends: a bounded number of seconds and of reports, whoever
\* stops, restarts or re-times the scan meanwhile.
WindowEnds == InWindow ~> ~InWindow

\* SIGINT ends the thread wherever it is, in a window or among the retries.
ScanThreadEnds == (~keepRunning) ~> (pc["scan"] = "exit")

\* The failures being finitely many, windows keep coming: a controller left
\* down, or left scanning by a disable that failed, is brought back by the
\* reset inside the retries (main.cpp:178-184).
WindowsKeepComing == []<>(InWindow \/ pc["scan"] = "exit")
=============================================================================
