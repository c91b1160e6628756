# A TLA+ model of the Turquoise BLE gateway firmware

The repository is one Linux program. It scans for the BLE advertisements of
"white tapes" (battery sensors), turns them into packets and reports each packet
to a cloud service with an HTTP request. This directory holds TLA+ modules that
model its concurrent core, TLC configurations that check them on small instances,
and proofs that TLAPS checks for every instance. Line numbers are those of
`src/main.cpp` in the repository unless another file is named.

## 1. The system

| Component | State | Operations | Interacts through |
|---|---|---|---|
| Start-up, `main()` | arguments, `keepRunning` | `sysInit`, thread creation, a sleep loop, two joins (887-920) | `keepRunning`, joins |
| SIGINT handler | - | `keyboardIrqHandler` (867-872) | `keepRunning`, `notify_all` without the mutex |
| Scan thread | the HCI socket, `bleScanState`, `scanStopRequested`, `scanOptions`, `scanResults` | `bleScanThreadFunc` (603-834) and what it calls | HCI controller; pushes packets |
| Exported scan control | `bleScanState`, `scanStopRequested`, `scanOptions` | `startOneShotScan`, `startContinuousScan`, `stopBleScan` (193-229) | shares its state with the scan thread |
| Advertisement pipeline | `scanResults` | `isValidWhiteTapeBleSource`, `checkAndUpdateBleStats`, `isNotDuplicateBleData`, `parseBleDataPacket` (310-427, 561-600) | runs inside the scan thread |
| Packet queue | `bleDataQueue`, `bleQueueMutex`, `bleQueueCondVar` | `sendBleDataPacket` (545-549), the drain loop (837-864) | scan thread to cloud thread |
| Cloud thread | `seqNumber[]` | the drain loop, `createBleDataUrlExtension` (445-543) | pops packets; calls cloud communication |
| Cloud communication | the static `curl` handle and `initialized` flag, URL and reply buffers | `sendDataUrlToCloud` and its helpers (cloudComm.cpp:17-196) | libcurl, the cloud service |
| Tape formats | - | `parseBleDataPacket`, the parsers of four layouts (tapeFormat.cpp, tapeFormat.h) | pure functions, called in the scan thread |
| Connect thread | `bleConnectCfg.tapeList`, `tapeListMutex`, `tapeListCondVar` | `checkIfConnectableTape`, `bleConnectThreadFunc` (ble.cpp) | not started by `main()` (906), not called by the scan (684) |
| Configuration | `gwCfg`, `urlCfg`, `bleConnectCfg` | `readSysConfigFile`, `getIfaceMacAddress` (config.cpp) | read before the threads start |

What is hard here: the queue's mutex is given up around every request, in the
middle of the drain loop; SIGINT changes the wait predicate without the mutex; HCI
calls fail halfway, and a command that reports a failure may have been executed; the
scan state is two atomics and a plain struct shared by several callers; the
duplicates check depends on time and on fields nobody has initialised; a request may fail
at any of eight libcurl calls and the next one starts from what it left; a tape's record
is read by one thread without the mutex under which the other writes it; four layouts are
parsed with offsets that are written out by hand.

What makes each part correct:

* *queue*: packets come out once each and in order; no packet is stranded by a lost
  wake-up; the two threads never use `std::queue` at once; the packets of one
  advertisement stay together and carry one number; a SIGINT ends the program;
* *scan cycle*: no descriptor leaks; a window is a scanning one, of the configured
  length, and ends; a failed call is recovered from; SIGINT ends the thread;
* *pipeline*: the statistics are those of the tape; two processed reports of a tape are
  apart in time and differ; nothing but a duplicate is dropped; what is processed
  is sent;
* *cloud communication*: the curl handle is valid whenever it is used; a request has its
  own URL and reply buffer; the URL fits and has the packet's text; every request ends;
  packets are asked for once and in order; none is lost without a failure in its own call;
* *tape formats*: each field is read where the format has it; the cloud is told what the
  tape says;
* *connect thread*: a heard tape is attempted, not too soon after the last attempt; a
  failed connection is retried after its back-off; sockets do not leak.

## 2. The modules

| Module | Models | Notes |
|---|---|---|
| `CloudQueue` | queue, mutex, condition variable, cloud thread, SIGINT handler, joins | the core |
| `PacketChannel` | what the queue promises: a FIFO channel | abstract; implemented by `CloudQueue` |
| `MCCloudQueue` | the instance TLC checks | |
| `CloudQueueProofs` | theorems about `CloudQueue` | TLAPS |
| `BleScan` | the scan thread and the HCI controller, and the exported scan control | |
| `BleScanProofs` | theorems about `BleScan` | TLAPS |
| `AdvertPipeline`, `MCAdvertPipeline` | what happens to one report | |
| `AdvertPipelineProofs` | theorems about `AdvertPipeline` | TLAPS |
| `TapeFormat`, `MCTapeFormat` | the bytes of a report, the parsers, the request parameters | |
| `TapeFormatProofs` | theorems about `TapeFormat`, for any bytes | TLAPS |
| `CloudComm`, `MCCloudComm` | one request after the other over one curl handle | |
| `CloudCommProofs` | theorems about `CloudComm` | TLAPS |
| `Uplink`, `MCUplink` | `CloudQueue` and `CloudComm` together | implements `CloudQueue` |
| `UplinkProofs` | theorems about `Uplink`, from those about its two parts | TLAPS |
| `BleConnect`, `MCBleConnect` | connectable tapes: marks, attempts, sockets, SIGINT | code that is not called yet |
| `BleConnectProofs` | theorems about `BleConnect` | TLAPS |

Each module has some operators commented "Seeded fault". They are not part of any
specification: each is a plausible mistake in the definition that follows it, kept to
show that a property notices it.

### CloudQueue

`scanPc`, `cloudPc`, `mainPc` and `sigPc` say where the four actors are; one action is
one step of one of them that another can observe. `mutex` and `waiting` are the mutex's
owner and the condition variable's wait set (the cloud thread is its only waiter).
`wait(lock, pred)` is `CloudPredicate` (test under the mutex), `CloudBlock` (release and
sleep, in one step), `SpuriousWakeup`, `CloudWake`, and again `CloudLock`. A packet is
the number of its push; `handled` is the history of pops and `pushed` counts the pushes,
so that FIFO delivery is one equation. An accepted advertisement pushes the packets of
`Burst` one `sendBleDataPacket` at a time (702-817). `CloudUrl` increments the counter of
the packet's type. A request may have three outcomes the cloud thread does not tell apart
(`CloudSend`), or its reply may have a body: `curlReqWriteCb` then `strncat`s it over the
bytes of a `std::string` object (cloudComm.cpp:72-76), which is undefined, and the
process may die with all its threads (`CloudCrash`). `missedNotify` is a history
variable: a handler's `notify_all` fell in the gap between the predicate and the sleep.

Not in the state: the second condition variable the handler notifies (nobody waits on
it), the contents of a packet, and the sleeps of `main()` (`MainStep` may take any time).

### BleScan

`ctrl` is the controller, `openFds` and `fd` the sockets and the thread's local variable,
`pc` the place of the scan thread and of one other thread that calls the exported
functions. HCI calls are operators from a controller state to the set of states they may
leave: `HciDevUp`, `HciDevDown`, `HciDevReset` follow 55-105, `Failing` is a call that
fails and does nothing, `Unanswered` one that fails after it may have been executed.
`initBleScan` is `OpenDev`, `Configure`, `Enable` and their failing counterparts, all of which
end in `SetupFails` (close, reset, next try). `startBleScan` is four steps, as its check,
its struct copy and its two atomic stores are; two concurrent copies may tear the
options. A caller may ask for any duration up to `MaxDuration`, `main()`'s own included. The
elapsed loop counts seconds and reads the duration anew in every round (637), so a start that
follows a stop re-times the window that is running. The read loop reads what the controller has
delivered, then disable, close and what `isBleContScanEnabled` decides.

The controller takes scan parameters only when it is up and not scanning: this is the
one thing the model assumes of it beyond what the code shows.

### AdvertPipeline

One action per outcome of a report: not listed (573-576), dropped (599), processed
(590-597); a report that is not from a white tape in range changes nothing. A tape's
address is listed or not, its data is a reading, `QuartzType` says which packet type the
reading's tape ID stands for. The two uninitialised fields of a new record are chosen from
everything that makes a difference: a time long past or far ahead, and any data. The
clock is read a second time for the record (593), so `ReportProcessed` may see it tick.
The data compared are 24 bytes: in a report of length 30 the last one is the RSSI byte
that follows the data, hence `ProcData`. `accepted`, `heard`, `processed` and `sent` are
history variables.

### TapeFormat

A report is `info->length` and the bytes of `info->data`; a tape says `Base` in every byte
of its reading but one. The tape's address goes with it, as it becomes the `id` of a
request. The getters of tapeFormat.h, the four parsers and `getEvtFlag_*` are operators of
the same names. Numbers keep their width: a `uint32_t` is
a pair of halves (TLC's integers have 32 bits with the sign), `%d` of one is signed, the
light of an OPT3110 loses the fraction of the temperature it is read as, the time stamp of a
DPD loses its upper half. Temperatures are in hundredths, voltages in tenths. `Process` and
`Drop` are the comparison of 24 bytes with what was processed last, the parse, the burst
with its three made-up packets (711-816), which go out under the address of the real tape,
and the parameters of the requests, in both formats. `Layout` is what the comments of the
header's structs say of every field but the address and the strength, which are not among
the 24 bytes; `Deviating` and `Unreadable` name where the parsers differ from it, so
that `FieldsAsDocumented` is about everything else. A report that comes within the hold-off,
`AdvertPipeline`'s subject, changes nothing here: `heard` is the last report outside it, and
changed data that a tape sends within 30 seconds of a processed report only counts when it is
still sent afterwards. The 50 or 55 that stands for an event flag of 0 is part of `Layout`; in
the G1 format the flag goes out as the raw byte, 0 included.

### CloudComm

`callPc` is the place within `sendDataUrlToCloud`. `initialized` and `curl` are its
statics; `handles`, `globals` and `opts` are libcurl's side: how many handles and global
initialisations are alive and what the handle holds. libcurl may fail at every call whose
result the code looks at. `Discard` is what each error path with a handle does. A URL is
whose data it has, how much of it (`Parts`) and its length; `DataLen` is the cut by the
caller's buffer of 256, `DataFits` the test against the buffer of 512. CURLOPT_WRITEDATA
is the address of a local variable: `Return` turns it into a dangling one. Outside the program
are `Arrive`, `ReplyBody`, `Reply`, `TransferFails`; only `TransferTimesOut` is sure to end a
request. `sent`, `received` and `failed` are history variables: the requests performed, which of
them the service has, and the packets in whose call something has failed. `Arrive` may bring
any request that was sent at any time: after its call has timed out, after later requests, or
never, and once or again (libcurl sends a GET a second time when the kept connection was
dead), so `received` is a set and no property is about the order at the service. A reply
can only follow its own request's arrival.
After `ReplyBody` the process may die at any later use of the string (`Crash`).

### Uplink

`Uplink` extends `CloudComm` and instantiates `CloudQueue` over variables of the same names.
A packet's data is the packet's number and its request number. The cloud thread's call is
`StartRequest`, the steps of `CloudComm` and `EndRequest`, which is `CloudQueue`'s one
step `CloudSend` and `Return` together; all other steps of `CloudQueue` may come in between.
`SentInOrder` is what the program asks of the network, `PacketsAccounted` what becomes of
the packets: the cloud thread ignores a failed request (856), so a packet may be lost, but
only by a failure in its own call, or its text if it is too long to be sent (finding 6).
`QueueSpec`, the whole of `CloudQueue.FairSpec`, is what has to hold of it.

### BleConnect

`main()` starts no connect thread (906) and the scan does not call
`checkIfConnectableTape` (684); the module is about these two functions as they run once
they are called, the rest of the scan being any order of calls. `Keys` is what
`readSysConfigFile` puts in the list; addresses in lower case stay so and are never found
(`Tapes`). The check is four steps, as none of it is under the mutex: the two conditions
(`Hear`, `CheckDelay`), `Mark`, `Notify`. The thread's loop is one action per step another
actor can observe; `connectToBleTape` runs without the mutex and takes the lowest free
descriptor, which is 0 if the program was started with standard input closed. The
update of a record is two steps, `StatusTime` and `StatusRetry`, as the scan thread may
read between them. `IsTapeConnected` is the conversion of the returned socket to `bool`.

A check that overlaps an attempt of its own tape (`raced`) may mark the tape on the
strength of the time of the attempt before: the mark is cleared before the attempt (248)
and the time is set after it (203). Such marks are kept apart (`early`), as
`CooldownKept` cannot hold for them; the comment at ble.cpp:247 says the cleared mark is to
"disable multiple connection attempts going forward".

## 3. What TLC checks

| Run | Instance | States | Shows |
|---|---|---|---|
| `cloud_queue` | 2 advertisements (8 packets), 2 SIGINTs | 18 000 | the queue properties, `PacketChannel`, every step after SIGINT brings the end nearer, shutdown unless the notification is missed |
| `ble_scan` | 1-second windows, durations 0 to 2, 3 failing calls, 1 report a window, 2 calls by another thread | 483 000 | the scan cycle's properties under failures and races, what brings the end of a window and of the thread nearer and how far a caller can put it off |
| `adverts` | 2 tapes, 2 readings, RSSI -81, -80, -61, hold-off 1, time 3, 3 reports a tape | 197 000 | statistics and duplicates check |
| `uplink` | 1 advertisement (4 requests), 1 SIGINT, base URL of 299, 300, 301 or 512, text of 211 | 383 000 | the properties of requests, and `CloudQueue.FairSpec` |
| `ble_connect` | 3 addresses in 5 configuration entries, 2 seconds, 4 descriptors | 780 000 | marks, attempts, sockets, the end of the thread |
| `tape_format` | 5 types, lengths 30 and 31, every byte 0, 18, 127 or 255, strengths -80 and 127, both formats | 5 800 | parsers, comparison, parameters |
| `shutdown_hang` | 1 advertisement, 1 SIGINT | | finding 1 |
| `first_report`, `unsent` | as `adverts` | | findings 2 and 3 |
| `connect_backoff` | as `ble_connect` | | finding 4 |
| `header_layout` | as `tape_format` | | finding 5 |
| `url_off_by_one` | 2 requests, 7 lengths of the base URL and 5 of the text | | finding 6 |

*Bounds.* Two bursts of four packets let the cloud thread be anywhere in one burst, or
between the two, while the scan thread is anywhere in the other; a second SIGINT meets
every state the first left. Three failures exhaust one full round of the three tries, or
spread over a try, the reset within it and the following disable. Two calls of
the exported functions are a start racing the scan thread's own, or a start and a stop.
Three reports of a tape are a first one, one held off and one processed again; with
`HoldSecs = 1` instead of 30 the clock gets past the hold-off twice. -80 is the
threshold itself and -81 just below it. The proofs do without these bounds.

Four requests are a first one, one over a kept handle, one after a failure of that and one
more; a failure needs two, and a late arrival one after it. With a text of 211 the URL has
room to spare after a base of 299, fills its buffer after one of 300 and is too long after
one of 301; a base of 512 does not fit alone. Texts that the caller's buffer cuts are
in `MCCloudComm`'s lengths, and in the proof of `UrlFits`. In `ble_scan` durations are
shorter than, equal to and longer than `main()`'s, so that a start can lengthen a window
as well as cut it; two calls are the stop and the start this takes. The behaviours without
calls of the exported functions are the program as it is built. In
`ble_connect` the delay is 1 and the back-off of a first retry 2 seconds, so that each of
the two conditions can be the one that holds a tape off; a third address is configured in
lower case; four descriptors, two or three of them inherited, run out after one or two
connections. In `tape_format` one odd byte at a time shows a field that is read from another
byte or in another order; 0 is the event flag that is rewritten, 127 and 255 lie on both
sides of the sign; -80 is the weakest strength in range and 127 the value for "not available",
which the range check lets pass. The parsers are per report and the comparison per pair
of reports, which the run has all of.

*Fairness.* `CloudQueue.FairSpec`: every thread takes a step when it can, and a handler
that has started runs to its end. Threads are scheduled by the kernel, a request has a
timeout, so `CloudSend` is not held up for ever. Weak fairness suffices for the mutex
because the number of bursts is bounded. Nothing is promised of SIGINT, of spurious
wake-ups or of the crash. `BleScan.FairSpec`: the scan thread takes steps; its sleeps end.
Whether a call fails is not subject to fairness, only the number of failures is bounded,
so `WindowsKeepComing` reads: once the failures stop, windows come again. Nothing is
promised of the air or of the other thread. `UplinkFairSpec`: the threads are scheduled,
and a time-out that is set fires (CURLOPT_TIMEOUT, 30 seconds); the service and the
network promise nothing. `BleConnect.FairSpec`: both threads are scheduled, and socket
calls return. `EndsAfterRound` holds although marks may keep coming, as the loop goes
through the map once before it looks at `keepRunning`.

That every packet is attempted while the program runs is part of `ChannelSpec`
(`PacketChannel`'s fairness). `ShutdownProgress` and `ScanProgress` are action properties
that need no fairness: each names a natural number that no step after SIGINT (or, for the
scan thread, within a window) may raise and that the threads' steps lower; in a window the
starts that another thread may still make are part of the number. A
livelock, a loop entered again or an event that is consumed without progress would break
them, where a liveness property would only show that some step is not taken.

*Deadlock* is not checked: the program stops, and a stopped system has no next step.
Whether it stops where it should is `ShutdownUnlessMissed`, `ScanThreadEnds` and
`EndsAfterRound`. `tape_format` checks deadlock: the next report can always be taken.

### Findings

1. `ShutdownCompletes` is violated. The handler changes the predicate and notifies without
   `bleQueueMutex` (869-870). If that happens between the predicate's test and the sleep
   (842-844), nobody wakes the cloud thread; the scan thread ends, nothing is pushed
   any more, and `main()` waits in its first join. `ShutdownUnlessMissed` shows that this
   is the only way: without the missed notification every SIGINT ends the program. A
   second SIGINT also helps.
2. `FirstReportProcessed` is violated: the record of a new tape is not initialised (419),
   and the duplicates check compares with what happens to be there.
3. `ProcessedIsSent` is violated: reports of types other than TMP117 are marked as
   processed and never queued (702).
4. `FailureBacksOff` is violated: `bool isTapeConnected = connectToBleTape(...)`
   (ble.cpp:252) is true for the -1 of a failed attempt. The retry count and the back-off
   are never used, save for a socket with the number 0, which counts as a failure. The
   socket of a success is lost in the same conversion; `SocketsAccounted` shows that these are
   the only descriptors that are never closed.
5. `HeaderLayout` is violated: a temperature's signed byte is read as unsigned
   (tapeFormat.h:372-376 against 140), and the fields in `Deviating` are not read from the
   bytes the header names: the light of an OPT3110, temperatures and acceleration of an
   IAT, and of a DPD everything but the FID and the event flag. `FieldsAsDocumented`
   shows that all the others are, temperatures below zero apart. Two comments contradict the
   structs' own: tapeFormat.h:104 puts the event flag in byte 22, tapeFormat.h:290 gives a
   DPD the tape ID 0xFFB3 (line 46: 0xFFB0). The offsets that the DPD parser uses are
   those of `BlePacket_IOS_SensorADV`, a struct nothing uses.
6. `LeftOutOnlyIfTooSmall` is violated: the test of the URL buffer counts the terminator
   twice (cloudComm.cpp:46, main.cpp:856), so a text that would fill the buffer to its last
   byte is left out with the message that the buffer is too small. `UrlFits` shows that
   this one length is all that is lost, and that no URL overflows. Whatever the reason, a
   text that is left out leaves the base URL (cloudComm.cpp:99), which is requested without
   any data; its success is taken for the packet's.

## 4. What TLAPS proves

Assumptions: only the named ones of the modules (the bounds are natural numbers, the
signal strengths are 8-bit values, listed tapes are tapes, a request is a packet's number and
its advertisement's, addresses are positive numbers and finitely many).

*CloudQueueProofs*, for any number of advertisements and SIGINTs: the type invariant,
`QueueExclusive`, `NoLostPacketWakeup`, `FifoNoLoss`, `WholeBursts`, `RequestNumbers`, and that
every behaviour is one of `PacketChannel`'s safety part. None of the properties is
inductive by itself. The invariant `IInv` adds: the mutex is held exactly at the places
between lock and unlock (`LockOwner`), which gives exclusion; the cloud thread is in the
wait set only when it waits, and goes to sleep only on an empty queue (`Sleep`), which
needs exclusion and gives the wake-up property; the element-wise form of FIFO (`Order`),
from which refinement follows as well; the packet at hand is the last one popped
(`Current`), without which the counters could not be related to the pops; the scan thread
is between bursts at its loop head and has room within one (`BurstPos`); the crash takes
all threads (`AllDead`, `NoneDead`), without which a dead owner could hold the mutex.

Two more theorems are the safety core of `ShutdownUnlessMissed`, which itself is out of
the prover's reach. `Terminates` is `ShutdownProgress`: after SIGINT every step of any
thread lowers `ShutdownWork`, the sum of what each thread still has to do, of four
steps for a packet in the queue and of the SIGINTs that may still come. `NoOtherHang`: as long as
the program has not ended and no notification was missed, some thread can move
(`CanMove` lists the guards of the threads' steps). It rests on the invariant
`AsleepOnlyIfMissed`: once the handler is done, the cloud thread is asleep, or about to be, only
if the notification was missed. What is left to fairness is that a thread that can
move does.

*AdvertPipelineProofs*, for any tapes, readings, signal strengths and hold-off time: the
type invariant, `AverageWithinHeard`, `HoldOff` and `DropsAreDuplicates`. The invariant adds
that a record remembers the last processed report (`Remembers`: its data, and its time or
the second after) and that the sum of a record lies between its count times the weakest
and the strongest signal (`Balanced`); the lemmas about the truncating quotient carry
that to the average.

*BleScanProofs*, for any window length and any number of failing HCI calls, reports and
calls by the other thread: the type invariant, `DescriptorDiscipline`, `WindowIsScanning`,
`WindowAsConfigured`, `OnlyOneShotEnds`, `QuietAtExit` and `ScanProgress`, for any durations
other callers ask for. The first lemmas say what
each HCI operator may leave behind. The invariant adds: the tries are within `RetryLimit` wherever
another may follow (`TriesLeft`); the thread's descriptor is one that it has opened
(`OwnSocket`), without which closing it could leave another open; without a failed call
the controller scans only in a window (`Quiet`); and what the shared options can be:
with no other caller main()'s, or not stored yet (`Alone`), and continuous until a
one-shot scan is asked for (`Continuing`), however two copies tear. `Progress` is
`ScanProgress`: the seconds and reports a window has left, and the tries `initBleScan` has
left, bound it. A start by another thread sets the seconds anew, once with its duration and
once when it wipes a stop out: `Resets` counts the steps that may still do so, each worth the
longest duration (`TimeKept`, `StartUsesResets`). The signal, the air and a stop leave both
numbers alone or lower them, and nothing another thread does touches the work after SIGINT.

*CloudCommProofs*, for any lengths of URL and text and any failing calls: the type
invariant, `HandleDiscipline`, `OwnRequest` and `UrlFits`. The invariant adds that a
handle is only made when there is none (`MakingHandle`), which options have been set by each
place of the call (`OptionsSet`: the argument that a kept handle never performs with an
old option), what the URL at hand is about (`AboutPacket`), and that a call which is about to
return has failed and says so, or that its request, the last one sent and with the URL it has
made, is with the service (`FailedOrArrived`). `UrlFits` compares the lengths with the sizes
of the buffers and not with the code's test; the two differ at one length. `CallEnds`: every step
that changes a call lowers `CallWork`, so that no error path repeats anything, and
`CallNeverStuck`: a call always has a next step that is the program's own, or one that a time-out
it has set (or an empty URL) brings. It needs `OptionsSet`: without CURLOPT_TIMEOUT
a silent service would hold the thread.

*UplinkProofs*: every step of `Uplink` is one of `CloudQueue` or leaves its variables alone
(`ImplementsQueue`), so the invariant of `CloudQueueProofs` holds of it and is
used rather than proved again; likewise every step is one of `CloudComm` or leaves its
variables alone, so the properties of a call hold in the composition
(`RequestsDisciplined`). `SentInOrder` needs both: a call runs exactly while the cloud thread
is sending, about the packet at hand (`InCall`), and everything that has been sent was
popped before what has not (`Newest`); with the queue's FIFO order the order of the requests
follows. It is about the program alone: nothing in it rests on how the network delivers.
`PacketsAccounted` (`AllAccounted`) needs that a URL that was sent is one `DataUrl` makes
(`SentUrls`) and that an arrival is never taken back. The two variants compose too:
`ShutdownBounded` is that every step but an arrival lowers `13 * QueueWork + CallWork` (a call is
12 steps at most, and its end takes at least one off `QueueWork`), and `NoOtherHang` is `CloudQueue`'s with `CallCanMove`
in the place of the atomic request.

*BleConnectProofs*, for any addresses, delays, back-offs and descriptor limits: the type
invariant, `SocketsAccounted` and `CooldownKept`. The invariant adds that a record's time
is the end of its last attempt (`SameTime`), and what a check that no attempt has
overlapped may rely on between its unprotected steps (`CheckHolds`: its tape is not being
attempted and what it has read still holds); a mark that appears during its tape's attempt
is one of the others (`MarkedDuring`). That the loop finds a next tape, and `socket()` a
lowest free descriptor, is the well-foundedness of the natural numbers (`LeastExists`).
`NotStranded` is the safety core of `MarkAttempted`: the connect thread is not asleep, or on
its way to sleep, over a marked tape unless the scan thread is about to notify or its
notification fell between the predicate and the sleep. `RoundEnds` is that of `EndsAfterRound`: in a round every step of the
connect thread lowers the number of tapes that are left (and, within an attempt, of
its stages), and no mark, check, tick or signal changes that number.

*TapeFormatProofs*, for any bytes: `AnyBytes` states the four properties of `TapeFormat` of a
tape that may say anything under its own ID, in every report something else;
TLC's reports, which differ from a base in one byte, are a case of that (`AnyReports`), and
`TypeCorrect`, `Documented`, `UpToDate` and `Resend` are the properties as the
run checks them. The lemmas say for each getter and each parser what it makes
of the bytes (`ReadU16`, `ReadU32`, `ReadTemperature`, `ReadLimePid`; `TMP117Documented` and
its three siblings; `FieldWidths`). The invariant `FormatInv`: either nothing has been
processed, or packet and requests are those of some report of the tape (`ParsedFrom`)
which has the same 24 bytes as the one heard last. The second half is what dropping a report
preserves; from there to the cloud's view it is `SameBytes` (equal 24 bytes are equal byte by
byte) and the parsers' lemmas, which allow the report that was parsed and the one heard last to be
two, outside the bytes that `Unreadable` names.

Only model-checked: the liveness properties as such (`ShutdownUnlessMissed`, `ScanThreadEnds`,
`WindowsKeepComing`, `WindowEnds`, `MarkAttempted`, `EndsAfterRound`, and the fairness part of
`ChannelSpec` and `QueueSpec`), as fairness is out of the prover's reach here. What the
proofs contribute to them is named above: a number that the steps lower, and that a
step is possible. The guards in `CanMove` and `CallCanMove` are written out, since ENABLED is
out of reach as well.

## 5. What is not modelled

Argument parsing, `sysInit` and the reading of the configuration file and of the gateway's
address: sequential, before any thread starts, and input and output throughout.
`getQaurtzEventFlag`, `UpdateEventFlagForQuartz` and `printBlePacketData`, which nobody calls
or which do nothing. The contents of an HTTP reply and its status, which is printed and
otherwise ignored: a packet the service refuses counts as received. What the service makes of requests
that arrive twice or out of order. The source address that
`connectToBleTape` binds to: `str2ba` is given an address without colons there
(ble.cpp:38, 152), and what the kernel makes of the result is not in the repository; a
`bind` or `connect` may fail in the model at any time. The kernel's socket
buffer; the locks inside the C library that make `printf` in a signal handler unsafe;
wall-clock time stepping back; events with more than one report.

## 6. Plan

1. `Gateway`: `BleScan` and `CloudQueue` composed, so that a window's reports become bursts and
   shutdown is followed through both threads; it implements `CloudQueue` under a mapping
   of the scan thread's places.
2. Abstract specifications besides `PacketChannel`, each with its refinement proved: for
   `BleScan` a machine that is either idle or in a window; for `Uplink` a channel that asks
   for each packet at most once and in order; for `BleConnect` a retry schedule per tape.
