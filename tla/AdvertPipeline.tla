--------------------------- MODULE AdvertPipeline ---------------------------
(***************************************************************************)
(* What bleScanThreadFunc does with one advertising report (src/main.cpp): *)
(* is it a white tape in range, the tape's statistics, the duplicates      *)
(* check against what was last processed, and the burst of packets that    *)
(* goes to the queue.  The steps of one report are one action: no other     *)
(* thread touches their state, and only the clock moves between them.       *)
(***************************************************************************)
EXTENDS Integers

CONSTANTS
  Tapes,        \* the tapes in radio range
  Listed,       \* those whose MAC address isNotDuplicateBleData knows
  Readings,     \* what a tape's data bytes may say
  QuartzType,   \* QuartzType[r]: the packet type a reading's tape ID stands for
  Rssis,        \* signal strengths, in dBm
  HoldSecs,     \* 30 in the code: how long a tape's data is held off
  MaxTime,      \* bound: seconds the model runs
  MaxSeen       \* bound: reports counted per tape

Threshold == -80      \* BLE_RSSI_THRESHOLD

PacketTypes == {"TMP117", "OPT3110", "IAT", "DPD", "Unknown"}

ASSUME AdvertAssumption ==
  /\ Listed \subseteq Tapes
  /\ QuartzType \in [Readings -> PacketTypes]
  /\ Rssis \subseteq -128..127
  /\ HoldSecs \in Nat /\ MaxTime \in Nat /\ MaxSeen \in Nat \ {0}

Sources == {"white", "other"}   \* what the identifier bytes say
Lengths == {29, 30, 31}         \* info->length; 29 stands for anything shorter than 30

\* A report.  After info->length bytes of data comes one byte of RSSI.
Reports == [tape : Tapes, source : Sources, length : Lengths, reading : Readings,
            rssi : Rssis]

\* The 24 bytes from info->data[7] that the duplicates check compares.  In a
\* report of length 30 the last of them is the RSSI byte.
DataByte == 0
ProcData(a) == <<a.reading, IF a.length = 30 THEN a.rssi ELSE DataByte>>
AllProcData == Readings \X ({DataByte} \cup Rssis)

\* What an uninitialised lastProcTimeSecs may hold: long past, or far ahead.
Garbage == {-(HoldSecs + 1), MaxTime + 1}
Times == (0..MaxTime) \cup Garbage

Record == [seenCount : 1..MaxSeen, totalRssi : Int, avgRssi : Int,
           lastProcTimeSecs : Times, lastProcBleData : AllProcData]

VARIABLES
  now,          \* time(nullptr)
  scanResults,  \* the records of the tapes heard so far, by tape
  heard,        \* history: weakest and strongest RSSI counted, by tape
  accepted,     \* history: when a tape's last processed report passed, and its data
  processed,    \* history: how many reports have passed the duplicates check
  sent          \* history: how many bursts of packets have been queued

vars == <<now, scanResults, heard, accepted, processed, sent>>

Init ==
  /\ now = 0
  /\ scanResults = <<>>
  /\ heard = <<>>
  /\ accepted = <<>>
  /\ processed = 0 /\ sent = 0

\* Map f with the value of key k set to v, whether or not it had one.
Store(f, k, v) == [x \in DOMAIN f \cup {k} |-> IF x = k THEN v ELSE f[x]]

-----------------------------------------------------------------------------
(* One report.                                                             *)

\* Seeded fault: the signal strength is not looked at.
RangeUnchecked(a) == a.source = "white" /\ a.length >= 30

\* getBleDataSource and isValidWhiteTapeBleSource.
ValidSource(a) == a.source = "white" /\ a.length >= 30 /\ a.rssi >= Threshold

\* int / int rounds towards zero.
Quotient(n, d) == IF n >= 0 THEN n \div d ELSE -((-n) \div d)

\* Seeded fault: the average is taken over the reports before this one.
AveragedTooEarly(r, rssi) ==
  [r EXCEPT !.seenCount = @ + 1, !.totalRssi = @ + rssi,
            !.avgRssi = Quotient(r.totalRssi + rssi, r.seenCount)]

Counted(r, rssi) ==
  [r EXCEPT !.seenCount = @ + 1, !.totalRssi = @ + rssi,
            !.avgRssi = Quotient(r.totalRssi + rssi, r.seenCount + 1)]

\* A new record: the two fields about processing are not initialised.
NewRecord(rssi) ==
  {[seenCount |-> 1, totalRssi |-> rssi, avgRssi |-> rssi,
    lastProcTimeSecs |-> g, lastProcBleData |-> d] : g \in Garbage, d \in AllProcData}

\* Seeded fault: a tape that is known gets a new record at every report.
AlwaysNewRecord(a) == NewRecord(a.rssi)

\* checkAndUpdateBleStats: what the tape's record may be after it.
Stats(a) ==
  IF a.tape \in DOMAIN scanResults THEN {Counted(scanResults[a.tape], a.rssi)}
                                   ELSE NewRecord(a.rssi)

\* Seeded fault: either condition is enough.
EitherCondition(r, a) ==
  \/ now - r.lastProcTimeSecs > HoldSecs
  \/ r.lastProcBleData # ProcData(a)

\* isNotDuplicateBleData's two conditions.
NotDuplicate(r, a) ==
  /\ now - r.lastProcTimeSecs > HoldSecs
  /\ r.lastProcBleData # ProcData(a)

Hear(a, r) ==
  /\ scanResults' = Store(scanResults, a.tape, r)
  /\ heard' = Store(heard, a.tape,
       IF a.tape \notin DOMAIN heard THEN [low |-> a.rssi, high |-> a.rssi]
       ELSE [low  |-> IF a.rssi < heard[a.tape].low THEN a.rssi ELSE heard[a.tape].low,
             high |-> IF a.rssi > heard[a.tape].high THEN a.rssi ELSE heard[a.tape].high])

Room(a) == a.tape \in DOMAIN scanResults => scanResults[a.tape].seenCount < MaxSeen

\* A tape whose address is not listed is counted and no more.
ReportUnlisted(a) ==
  /\ ValidSource(a) /\ Room(a)
  /\ a.tape \notin Listed
  /\ \E r \in Stats(a) : Hear(a, r)
  /\ UNCHANGED <<now, accepted, processed, sent>>

ReportDropped(a) ==
  /\ ValidSource(a) /\ Room(a)
  /\ a.tape \in Listed
  /\ \E r \in Stats(a) : ~NotDuplicate(r, a) /\ Hear(a, r)
  /\ UNCHANGED <<now, accepted, processed, sent>>

\* The report is processed.  time(nullptr) is read again for the record, a
\* moment after the check; only a TMP117 reading is parsed into a burst.
ReportProcessed(a) ==
  /\ ValidSource(a) /\ Room(a)
  /\ a.tape \in Listed
  /\ \E r \in Stats(a) :
       /\ NotDuplicate(r, a)
       /\ now' \in {now, now + 1} /\ now' <= MaxTime
       /\ Hear(a, [r EXCEPT !.lastProcTimeSecs = now', !.lastProcBleData = ProcData(a)])
  /\ accepted' = Store(accepted, a.tape, [at |-> now, data |-> ProcData(a)])
  /\ processed' = processed + 1
  /\ sent' = IF QuartzType[a.reading] = "TMP117" THEN sent + 1 ELSE sent

Tick ==
  /\ now < MaxTime
  /\ now' = now + 1
  /\ UNCHANGED <<scanResults, heard, accepted, processed, sent>>

\* A report from another source, too short or too weak changes nothing.
Next ==
  \/ \E a \in Reports : ReportUnlisted(a) \/ ReportDropped(a) \/ ReportProcessed(a)
  \/ Tick

Spec == Init /\ [][Next]_vars

-----------------------------------------------------------------------------
(* Properties.                                                             *)

InRange == {r \in Rssis : r >= Threshold}

\* The type invariant.  Only tapes in range are counted.
TypeOK ==
  /\ now \in 0..MaxTime
  /\ DOMAIN scanResults \subseteq Tapes
  /\ scanResults \in [DOMAIN scanResults -> Record]
  /\ DOMAIN heard = DOMAIN scanResults
  /\ heard \in [DOMAIN heard -> [low : InRange, high : InRange]]
  /\ DOMAIN accepted \subseteq DOMAIN scanResults \cap Listed
  /\ accepted \in [DOMAIN accepted -> [at : 0..MaxTime, data : AllProcData]]
  /\ processed \in Nat
  /\ sent \in 0..processed

\* A tape's average lies between the weakest and the strongest signal counted
\* for it, through the truncating division of negative numbers.
AverageWithinHeard ==
  \A t \in DOMAIN scanResults :
    heard[t].low <= scanResults[t].avgRssi /\ scanResults[t].avgRssi <= heard[t].high

\* main.cpp:586-589: two reports of a tape are processed only more than
\* HoldSecs apart, and with different data, however many come in between.
HoldOff ==
  [][\A t \in DOMAIN accepted :
       accepted'[t] # accepted[t] =>
         /\ now - accepted[t].at > HoldSecs
         /\ accepted'[t].data # accepted[t].data]_vars

\* A report says something else than the last processed one, and late enough.
IsNews(a) ==
  /\ a.tape \in DOMAIN accepted
  /\ now - accepted[a.tape].at > HoldSecs + 1
  /\ ProcData(a) # accepted[a.tape].data

\* A processed tape's report is dropped only as a duplicate: it says what was
\* last processed, or comes too soon after it (a second more than HoldSecs at
\* most, as the clock is read again after the check).
DropsAreDuplicates == [][\A a \in Reports : IsNews(a) => ~ReportDropped(a)]_vars

\* What a duplicates check means (ble.h:37-40, main.cpp:586-589): it compares
\* with what was last processed.  So the first valid report of a listed tape,
\* which is a duplicate of nothing, is processed.
FirstReportProcessed == DOMAIN scanResults \cap Listed \subseteq DOMAIN accepted

\* main.cpp:699-701: the data that passes the checks goes to the queue.
ProcessedIsSent == sent = processed
=============================================================================
