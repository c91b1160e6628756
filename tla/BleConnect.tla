----------------------------- MODULE BleConnect -----------------------------
(***************************************************************************)
(* Connections to connectable tapes (src/ble.cpp): the scan thread's       *)
(* checkIfConnectableTape marks a tape it has heard, bleConnectThreadFunc   *)
(* waits for marks and attempts a connection to each marked tape.  They     *)
(* share bleConnectCfg.tapeList; the connect thread holds tapeListMutex     *)
(* except while it connects, and the scan thread never takes it.            *)
(*                                                                         *)
(* main() does not start the thread (main.cpp:906) and the scan does not    *)
(* call the check (main.cpp:684): this is what the two do once they run.    *)
(***************************************************************************)
EXTENDS Integers, Sequences, FiniteSets

CONSTANTS
  ConfigTapes,   \* ble_connectable_tapes, as the configuration file has them
  Addresses,     \* the addresses in radio range; numbers, in the map's order
  Delay,         \* readTapeAgainDelaySecs
  BackOffStep,   \* 5 in the code: seconds of back-off per retry
  BackOffCap,    \* 60 in the code
  FdLimit,       \* the process's limit on file descriptors
  MaxTime        \* bound: seconds the model runs

ASSUME ConnectAssumption ==
  /\ Addresses \subseteq Nat \ {0} /\ IsFiniteSet(Addresses)
  /\ Delay \in Nat /\ BackOffStep \in Nat /\ BackOffCap \in Nat
  /\ FdLimit \in Nat /\ MaxTime \in Nat

-----------------------------------------------------------------------------
(* The list of tapes.  An address in text has an address, a form and a case.*)

Invalid == [addr |-> -1, form |-> "invalid", upper |-> FALSE]
Text(a, form, upper) == [addr |-> a, form |-> form, upper |-> upper]

\* formatMacAddrStr: raw text gets its colons, invalid text is cleared, and
\* the case of the digits stays as it is.
FormatMacAddrStr(s) ==
  IF s.form = "colon" THEN s
  ELSE IF s.form = "raw" THEN [s EXCEPT !.form = "colon"]
  ELSE Invalid

\* ba2str writes a heard address with colons and upper-case digits.
Heard(a) == Text(a, "colon", TRUE)

\* The keys readSysConfigFile puts in tapeList: text that cannot be formatted
\* is skipped, a tape that is listed twice has one record.
Keys ==
  {FormatMacAddrStr(ConfigTapes[i]) : i \in DOMAIN ConfigTapes} \ {Invalid}

\* The tapes with a record that a heard address leads to.
Tapes == {a \in Addresses : FormatMacAddrStr(Heard(a)) \in Keys}

-----------------------------------------------------------------------------

LongAgo == -(Delay + BackOffCap)   \* lastSentTimeSecs = 0, decades before now

Record == [lastSent : Int, found : BOOLEAN, connected : BOOLEAN, retry : Nat,
           backOff : Nat]
NewRecord == [lastSent |-> LongAgo, found |-> FALSE, connected |-> FALSE,
              retry |-> 0, backOff |-> 0]

VARIABLES
  now,          \* time(nullptr)
  keepRunning,
  sigPc,        \* the SIGINT handler: "idle", "notify" or, once done, "done"
  tapeList,     \* the records, by tape
  waiting,      \* TRUE while the connect thread is in tapeListCondVar's wait set
  connPc,       \* where the connect thread is
  it,           \* the tape its loop has come to (0: before the first)
  sock,         \* connectToBleTape's sock, then its return value
  stdinOpen,    \* whether the program was started with standard input open
  openFds,      \* the file descriptors in use
  scanPc,       \* where the scan thread is in checkIfConnectableTape
  scanTape,     \* the tape it has looked up
  scanNow,      \* its local variable now
  missed,       \* history: a notify_one fell between the connect thread's
                \* test of its predicate and its sleep, and none has woken it since
  raced,        \* history: the check under way has overlapped an attempt of its tape
  early,        \* history: the tapes marked by such a check since their last attempt
  ended,        \* history: when the last attempt of a tape has ended
  lost          \* history: the sockets that successful attempts have returned

clockVars == <<now, keepRunning, sigPc, stdinOpen>>
connVars  == <<connPc, it, sock, openFds>>
scanVars  == <<scanPc, scanTape, scanNow>>
histVars  == <<missed, raced, early, ended, lost>>
vars == <<clockVars, tapeList, waiting, connVars, scanVars, histVars>>

AttemptPcs == {"socket", "open", "time", "retry"}
ConnPcs == {"check", "pred", "block", "wait", "next", "exit"} \cup AttemptPcs
ScanPcs == {"idle", "delay", "mark", "notify"}

\* The descriptors the program starts with; standard input may be closed.
Inherited == IF stdinOpen THEN {0, 1, 2} ELSE {1, 2}

Init ==
  /\ now = 0 /\ keepRunning = TRUE /\ sigPc = "idle"
  /\ tapeList = [t \in Tapes |-> NewRecord]
  /\ waiting = FALSE
  /\ connPc = "check" /\ it = 0 /\ sock = -1
  /\ stdinOpen \in BOOLEAN /\ openFds = Inherited
  /\ scanPc = "idle" /\ scanTape = 0 /\ scanNow = 0
  /\ missed = FALSE /\ raced = FALSE /\ early = {}
  /\ ended = [t \in Tapes |-> LongAgo]
  /\ lost = {}

Attempting(t) == connPc \in AttemptPcs /\ it = t

-----------------------------------------------------------------------------
(* Scan thread: checkIfConnectableTape.                                    *)

\* Seeded fault: the back-off is not looked at.
BackOffIgnored(t) == TRUE

\* The first condition of the test, on what the record holds at this moment.
BackOffOver(t) == now - tapeList[t].lastSent >= tapeList[t].backOff

\* A tape with a record is heard.  Anything else leaves no trace.
Hear(t) ==
  /\ scanPc = "idle"
  /\ BackOffOver(t)
  /\ scanPc' = "delay" /\ scanTape' = t /\ scanNow' = now
  /\ raced' = Attempting(t)
  /\ UNCHANGED <<clockVars, tapeList, waiting, connVars, missed, early, ended, lost>>

\* checkIfConnectableTape returns; its locals are gone.
CheckReturns == scanPc' = "idle" /\ scanTape' = 0 /\ scanNow' = 0 /\ raced' = FALSE

\* The second condition reads the record again.
CheckDelay ==
  /\ scanPc = "delay"
  /\ IF scanNow - tapeList[scanTape].lastSent >= Delay
       THEN scanPc' = "mark" /\ UNCHANGED <<scanTape, scanNow, raced>>
       ELSE CheckReturns
  /\ UNCHANGED <<clockVars, tapeList, waiting, connVars, missed, early, ended, lost>>

Mark ==
  /\ scanPc = "mark"
  /\ tapeList' = [tapeList EXCEPT ![scanTape].found = TRUE]
  /\ early' = IF raced THEN early \cup {scanTape} ELSE early
  /\ scanPc' = "notify"
  /\ UNCHANGED <<clockVars, waiting, connVars, scanTape, scanNow, missed, raced, ended,
                 lost>>

\* Seeded fault: notify_one is forgotten.
MarkNotNotified ==
  /\ scanPc = "notify"
  /\ CheckReturns
  /\ UNCHANGED <<clockVars, tapeList, waiting, connVars, missed, early, ended, lost>>

\* notify_one, without the mutex.
Notify ==
  /\ scanPc = "notify"
  /\ waiting' = FALSE
  /\ missed' = (missed \/ connPc = "block")
  /\ scanPc' = "idle"
  /\ UNCHANGED <<clockVars, tapeList, connVars, scanTape, scanNow, raced, early, ended,
                 lost>>

ScanThread == CheckDelay \/ Mark \/ Notify

-----------------------------------------------------------------------------
(* Connect thread: bleConnectThreadFunc.                                   *)

\* Seeded fault: the loop does not test keepRunning.
CheckIgnoresStop ==
  /\ connPc = "check"
  /\ connPc' = "pred"
  /\ UNCHANGED <<clockVars, tapeList, waiting, it, sock, openFds, scanVars, histVars>>

\* The loop's test of keepRunning; then the mutex, which is free.
ConnCheck ==
  /\ connPc = "check"
  /\ connPc' = IF keepRunning THEN "pred" ELSE "exit"
  /\ UNCHANGED <<clockVars, tapeList, waiting, it, sock, openFds, scanVars, histVars>>

\* wait()'s predicate: a tape is marked.  It does not look at keepRunning.
ConnPredicate ==
  /\ connPc = "pred"
  /\ connPc' = IF \E t \in Tapes : tapeList[t].found THEN "next" ELSE "block"
  /\ UNCHANGED <<clockVars, tapeList, waiting, it, sock, openFds, scanVars, histVars>>

ConnBlock ==
  /\ connPc = "block"
  /\ waiting' = TRUE
  /\ connPc' = "wait"
  /\ UNCHANGED <<clockVars, tapeList, it, sock, openFds, scanVars, histVars>>

SpuriousWakeup ==
  /\ waiting
  /\ waiting' = FALSE
  /\ UNCHANGED <<clockVars, tapeList, connVars, scanVars, histVars>>

ConnWake ==
  /\ connPc = "wait"
  /\ ~waiting
  /\ connPc' = "pred"
  /\ missed' = FALSE
  /\ UNCHANGED <<clockVars, tapeList, waiting, it, sock, openFds, scanVars, raced, early,
                 ended, lost>>

\* The next tape of the map, marked or not.
Later == {t \in Tapes : t > it}
NextTape == CHOOSE t \in Later : \A u \in Later : t <= u

SkipTape ==
  /\ connPc = "next"
  /\ Later # {}
  /\ ~tapeList[NextTape].found
  /\ it' = NextTape
  /\ UNCHANGED <<clockVars, tapeList, waiting, connPc, sock, openFds, scanVars, histVars>>

\* A marked tape: its mark is cleared, the mutex given up, the attempt begins.
StartAttempt ==
  /\ connPc = "next"
  /\ Later # {}
  /\ tapeList[NextTape].found
  /\ it' = NextTape
  /\ tapeList' = [tapeList EXCEPT ![NextTape].found = FALSE]
  /\ connPc' = "socket"
  /\ raced' = (raced \/ (scanPc # "idle" /\ scanTape = NextTape))
  /\ early' = early \ {NextTape}
  /\ UNCHANGED <<clockVars, waiting, sock, openFds, scanVars, missed, ended, lost>>

RoundOver ==
  /\ connPc = "next"
  /\ Later = {}
  /\ connPc' = "check" /\ it' = 0
  /\ UNCHANGED <<clockVars, tapeList, waiting, sock, openFds, scanVars, histVars>>

-----------------------------------------------------------------------------
(* connectToBleTape, called without the mutex.                             *)

FreeFds == 0..(FdLimit - 1) \ openFds
LowestFree == CHOOSE f \in FreeFds : \A g \in FreeFds : f <= g

\* The attempt fails: -1 is returned.
AttemptFails ==
  /\ sock' = -1
  /\ connPc' = "time"
  /\ UNCHANGED <<clockVars, tapeList, waiting, it, scanVars, missed, raced, early, ended,
                 lost>>

OpenSocket ==
  /\ connPc = "socket"
  /\ FreeFds # {}
  /\ sock' = LowestFree
  /\ openFds' = openFds \cup {LowestFree}
  /\ connPc' = "open"
  /\ UNCHANGED <<clockVars, tapeList, waiting, it, scanVars, histVars>>

OpenSocketFails ==
  /\ connPc = "socket"
  /\ AttemptFails
  /\ UNCHANGED openFds

\* Seeded fault: one of the failing paths does not close the socket.
OnePathLeaks ==
  /\ connPc = "open"
  /\ AttemptFails
  /\ openFds' \in {openFds, openFds \ {sock}}

\* bind, setsockopt or connect fails: each of the three closes the socket.
SetUpFails ==
  /\ connPc = "open"
  /\ AttemptFails
  /\ openFds' = openFds \ {sock}

\* All three succeed: the open socket is returned.
Connected ==
  /\ connPc = "open"
  /\ connPc' = "time"
  /\ lost' = lost \cup {sock}
  /\ UNCHANGED <<clockVars, tapeList, waiting, it, sock, openFds, scanVars, missed, raced,
                 early, ended>>

\* bool isTapeConnected = connectToBleTape(...): any value but 0 is true.
IsTapeConnected == sock # 0

\* Seeded fault: the time is taken for a success only.
TimeOfSuccess ==
  /\ connPc = "time"
  /\ tapeList' = IF sock > 0 THEN [tapeList EXCEPT ![it].lastSent = now] ELSE tapeList
  /\ ended' = [ended EXCEPT ![it] = now]
  /\ connPc' = "retry"
  /\ UNCHANGED <<clockVars, waiting, it, sock, openFds, scanVars, missed, raced, early, lost>>

\* updateTapeConnectionStatus, under the mutex that the scan thread does not
\* take: the time first, then the rest.
StatusTime ==
  /\ connPc = "time"
  /\ tapeList' = [tapeList EXCEPT ![it].lastSent = now]
  /\ ended' = [ended EXCEPT ![it] = now]
  /\ connPc' = "retry"
  /\ UNCHANGED <<clockVars, waiting, it, sock, openFds, scanVars, missed, raced, early, lost>>

Lesser(a, b) == IF a < b THEN a ELSE b

\* Seeded fault: the retries are counted down.
RetriesLeft(r) ==
  [r EXCEPT !.connected = FALSE, !.retry = @ - 1,
            !.backOff = Lesser(BackOffCap, (r.retry + 1) * BackOffStep)]

Succeeded(r) == [r EXCEPT !.connected = TRUE, !.retry = 0, !.backOff = 0]
Retried(r) ==
  [r EXCEPT !.connected = FALSE, !.retry = @ + 1,
            !.backOff = Lesser(BackOffCap, (r.retry + 1) * BackOffStep)]

StatusRetry ==
  /\ connPc = "retry"
  /\ tapeList' = [tapeList EXCEPT ![it] =
                    IF IsTapeConnected THEN Succeeded(@) ELSE Retried(@)]
  /\ connPc' = "next" /\ sock' = -1
  /\ UNCHANGED <<clockVars, waiting, it, openFds, scanVars, histVars>>

ConnectThread ==
  \/ ConnCheck \/ ConnPredicate \/ ConnBlock \/ ConnWake
  \/ SkipTape \/ StartAttempt \/ RoundOver
  \/ OpenSocket \/ OpenSocketFails \/ SetUpFails \/ Connected
  \/ StatusTime \/ StatusRetry

-----------------------------------------------------------------------------

Tick ==
  /\ now < MaxTime
  /\ now' = now + 1
  /\ UNCHANGED <<keepRunning, sigPc, stdinOpen, tapeList, waiting, connVars, scanVars, histVars>>

SigClear ==
  /\ sigPc = "idle"
  /\ keepRunning' = FALSE
  /\ sigPc' = "notify"
  /\ UNCHANGED <<now, stdinOpen, tapeList, waiting, connVars, scanVars, histVars>>

\* tapeListCondVar.notify_all()
SigNotify ==
  /\ sigPc = "notify"
  /\ waiting' = FALSE
  /\ sigPc' = "done"
  /\ UNCHANGED <<now, keepRunning, stdinOpen, tapeList, connVars, scanVars, histVars>>

Next ==
  \/ \E t \in Tapes : Hear(t)
  \/ ScanThread \/ ConnectThread \/ SpuriousWakeup
  \/ Tick \/ SigClear \/ SigNotify

Spec == Init /\ [][Next]_vars

(***************************************************************************)
(* Both threads are scheduled, socket calls return (connect() has the       *)
(* kernel's time-out), a handler that has started ends.  Nothing is         *)
(* promised of the tapes, the clock, SIGINT or spurious wake-ups.           *)
(***************************************************************************)
FairSpec ==
  /\ Spec
  /\ WF_vars(ScanThread) /\ WF_vars(ConnectThread) /\ WF_vars(SigNotify)

-----------------------------------------------------------------------------
(* Properties.                                                             *)

\* The type invariant.
TypeOK ==
  /\ now \in 0..MaxTime /\ keepRunning \in BOOLEAN
  /\ sigPc \in {"idle", "notify", "done"}
  /\ tapeList \in [Tapes -> Record]
  /\ waiting \in BOOLEAN
  /\ connPc \in ConnPcs /\ it \in Tapes \cup {0} /\ sock \in -1..(FdLimit - 1)
  /\ openFds \subseteq 0..(FdLimit - 1) \cup {0, 1, 2}
  /\ scanPc \in ScanPcs /\ scanTape \in Tapes \cup {0} /\ scanNow \in 0..MaxTime
  /\ missed \in BOOLEAN /\ raced \in BOOLEAN /\ early \subseteq Tapes
  /\ stdinOpen \in BOOLEAN /\ ended \in [Tapes -> Int]
  /\ lost \subseteq 0..(FdLimit - 1)

\* A mark that did not race with an attempt keeps its distance from the last
\* one: the tape's delay and its back-off are over, counted from when that
\* attempt really ended, although the scan thread reads the record without
\* the mutex while the connect thread writes it (ble.cpp:95-101, 209-224).
CooldownKept ==
  \A t \in Tapes :
    tapeList[t].found /\ t \notin early =>
      /\ now - ended[t] >= Delay
      /\ now - ended[t] >= tapeList[t].backOff

HasSocket == connPc = "open"

\* Every failing path of connectToBleTape closes its own socket and no other.
\* A success leaves one open for good, as bleConnectThreadFunc turns it into a
\* bool: the descriptors lost are those, and no more (ble.cpp:127-194, 252).
SocketsAccounted ==
  /\ openFds = Inherited \cup lost \cup (IF HasSocket THEN {sock} ELSE {})
  /\ HasSocket => sock \notin Inherited \cup lost

\* A marked tape is attempted, unless the thread has ended or a notify_one
\* fell into the gap of wait(), where nobody receives it: then the mark waits
\* until a tape is heard again (ble.cpp:101-103, 232-237).
MarkAttempted ==
  \A t \in Tapes : tapeList[t].found ~> (~tapeList[t].found \/ missed \/ connPc = "exit")

\* A thread that SIGINT finds at work, or that a mark sets to work after it,
\* ends when its round is over, even if marks keep coming; one that sleeps with
\* no mark stays, as its predicate does not look at keepRunning (ble.cpp:228-263).
EndsAfterRound ==
  (~keepRunning /\ connPc \in AttemptPcs \cup {"next"}) ~> connPc = "exit"

\* What ble.h says of the thread: "Connection results update the tape's retry
\* count, backoff delay": a failed attempt is followed by a back-off.
FailureBacksOff ==
  [][sock = -1 /\ connPc = "retry" /\ connPc' = "next" => tapeList'[it].backOff > 0]_vars

=============================================================================
