------------------------ MODULE AdvertPipelineProofs ------------------------
(***************************************************************************)
(* Proofs about AdvertPipeline for every set of tapes, readings and signal  *)
(* strengths and every hold-off time.                                      *)
(***************************************************************************)
EXTENDS AdvertPipeline, TLAPS

\* The record of a tape whose report has been processed remembers that report:
\* its data, and the time at which it passed the check or the second after.
Remembers ==
  \A t \in DOMAIN accepted :
    /\ scanResults[t].lastProcBleData = accepted[t].data
    /\ scanResults[t].lastProcTimeSecs \in {accepted[t].at, accepted[t].at + 1}

\* The sum of a record's signal strengths, and so their average, lies between
\* the bounds h of what was counted.
Fits(r, h) ==
  /\ h.low * r.seenCount <= r.totalRssi /\ r.totalRssi <= h.high * r.seenCount
  /\ h.low <= r.avgRssi /\ r.avgRssi <= h.high

Balanced == \A t \in DOMAIN scanResults : Fits(scanResults[t], heard[t])

PipelineInv == TypeOK /\ Remembers /\ Balanced

-----------------------------------------------------------------------------
(* Lemmas about the operators.                                             *)

\* Storing a value of the right type keeps the type of the map.
LEMMA StoreType ==
  ASSUME NEW S, NEW f, f \in [DOMAIN f -> S], NEW k, NEW v \in S
  PROVE  Store(f, k, v) \in [DOMAIN Store(f, k, v) -> S]
BY DEF Store

\* The truncating quotient is an integer.
LEMMA QuotientInt ==
  ASSUME NEW n \in Int, NEW d \in Nat \ {0}
  PROVE  Quotient(n, d) \in Int
BY DEF Quotient

\* Multiplication by a count is monotonic, and distributes.
LEMMA CountTimes ==
  ASSUME NEW a \in Int, NEW b \in Int, a <= b, NEW c \in Nat
  PROVE  a * c <= b * c /\ a * (c + 1) = a * c + a /\ (-a) * c = -(a * c)
OBVIOUS

\* A floored quotient stays under a bound, and over one.
LEMMA FloorBounds ==
  ASSUME NEW m \in Int, NEW k \in Int, NEW d \in Nat \ {0}
  PROVE  /\ m <= k * d => m \div d <= k
         /\ k * d <= m => k <= m \div d
OBVIOUS

\* The truncating quotient of a sum lies between the bounds of its terms.
LEMMA QuotientBounds ==
  ASSUME NEW n \in Int, NEW d \in Nat \ {0}, NEW l \in Int, NEW h \in Int,
         l * d <= n, n <= h * d
  PROVE  l <= Quotient(n, d) /\ Quotient(n, d) <= h
<1>1. CASE n >= 0
  BY <1>1, FloorBounds DEF Quotient
<1>2. CASE n < 0
  <2>1. (-h) * d <= -n /\ -n <= (-l) * d
    BY CountTimes
  <2>2. (-n) \div d <= -l /\ -h <= (-n) \div d
    BY <2>1, FloorBounds
  <2>3. (-n) \div d \in Int
    OBVIOUS
  <2>4. QED
    BY <1>2, <2>2, <2>3 DEF Quotient
<1>3. QED
  BY <1>1, <1>2

\* One more term between widened bounds keeps the sum and its quotient there.
LEMMA WidenedSum ==
  ASSUME NEW l0 \in Int, NEW h0 \in Int, NEW l \in Int, NEW h \in Int,
         NEW T \in Int, NEW s \in Int, NEW c \in Nat,
         l0 * c <= T, T <= h0 * c, l <= l0, h0 <= h, l <= s, s <= h
  PROVE  /\ l * (c + 1) <= T + s /\ T + s <= h * (c + 1)
         /\ l <= Quotient(T + s, c + 1) /\ Quotient(T + s, c + 1) <= h
<1>1. l * c <= l0 * c /\ l * (c + 1) = l * c + l
  BY CountTimes
<1>2. h0 * c <= h * c /\ h * (c + 1) = h * c + h
  BY CountTimes
<1>3. l * (c + 1) <= T + s /\ T + s <= h * (c + 1)
  BY <1>1, <1>2
<1>4. T + s \in Int /\ c + 1 \in Nat \ {0}
  OBVIOUS
<1>5. QED
  BY <1>3, <1>4, QuotientBounds

\* A signal strength is an integer.
LEMMA RssiInt == Rssis \subseteq Int /\ InRange \subseteq Int
<1>1. Rssis \subseteq -128..127
  BY AdvertAssumption
<1>2. \A x \in -128..127 : x \in Int
  OBVIOUS
<1>3. InRange \subseteq Rssis
  BY DEF InRange
<1>4. QED
  BY <1>1, <1>2, <1>3

\* Counting a report keeps the sum and the average within the widened bounds.
LEMMA CountedFits ==
  ASSUME NEW r \in Record, NEW s \in Rssis, r.seenCount < MaxSeen,
         NEW h \in [low : InRange, high : InRange], Fits(r, h),
         NEW g \in [low : InRange, high : InRange],
         g.low <= h.low, g.low <= s, h.high <= g.high, s <= g.high
  PROVE  Fits(Counted(r, s), g)
<1>1. r.seenCount \in Nat /\ r.totalRssi \in Int
  BY DEF Record
<1>2. s \in Int /\ g.low \in Int /\ g.high \in Int /\ h.low \in Int /\ h.high \in Int
  BY RssiInt
<1>3. h.low * r.seenCount <= r.totalRssi /\ r.totalRssi <= h.high * r.seenCount
  BY DEF Fits
<1> DEFINE c == r.seenCount
           T == r.totalRssi
           l0 == h.low
           h0 == h.high
           l == g.low
           u == g.high
<1>4. /\ l * (c + 1) <= T + s /\ T + s <= u * (c + 1)
      /\ l <= Quotient(T + s, c + 1) /\ Quotient(T + s, c + 1) <= u
  <2>1. /\ c \in Nat /\ T \in Int /\ s \in Int
        /\ l \in Int /\ u \in Int /\ l0 \in Int /\ h0 \in Int
        /\ l0 * c <= T /\ T <= h0 * c
        /\ l <= l0 /\ h0 <= u /\ l <= s /\ s <= u
    BY <1>1, <1>2, <1>3
  <2> HIDE DEF c, T, l0, h0, l, u
  <2>2. QED
    BY <2>1, WidenedSum
<1>5. /\ Counted(r, s).seenCount = r.seenCount + 1
      /\ Counted(r, s).totalRssi = r.totalRssi + s
      /\ Counted(r, s).avgRssi = Quotient(r.totalRssi + s, r.seenCount + 1)
  BY DEF Counted, Record
<1>6. QED
  BY <1>4, <1>5 DEF Fits

\* Counting a report touches nothing that the duplicates check reads.
LEMMA CountedKeeps ==
  ASSUME NEW r \in Record, NEW s \in Rssis, r.seenCount < MaxSeen
  PROVE  /\ Counted(r, s) \in Record
         /\ Counted(r, s).lastProcTimeSecs = r.lastProcTimeSecs
         /\ Counted(r, s).lastProcBleData = r.lastProcBleData
<1>1. s \in Int /\ MaxSeen \in Nat
  BY AdvertAssumption
<1>2. r.totalRssi + s \in Int /\ r.seenCount + 1 \in 1..MaxSeen
  BY <1>1 DEF Record
<1>3. Quotient(r.totalRssi + s, r.seenCount + 1) \in Int
  BY <1>2, QuotientInt
<1>4. QED
  BY <1>2, <1>3 DEF Record, Counted

\* A new record has the type of a record, whatever its two uninitialised fields.
LEMMA NewRecordType ==
  ASSUME NEW s \in Rssis, NEW r \in NewRecord(s)
  PROVE  r \in Record
<1>1. s \in Int /\ 1 \in 1..MaxSeen
  BY AdvertAssumption
<1>2. QED
  BY <1>1 DEF NewRecord, Record, Times

\* What checkAndUpdateBleStats leaves in the tape's record.
LEMMA StatsFacts ==
  ASSUME TypeOK, NEW a \in Reports, Room(a), NEW r \in Stats(a)
  PROVE  /\ r \in Record
         /\ a.tape \in DOMAIN scanResults =>
              /\ r.lastProcTimeSecs = scanResults[a.tape].lastProcTimeSecs
              /\ r.lastProcBleData = scanResults[a.tape].lastProcBleData
<1>1. a.rssi \in Rssis
  BY DEF Reports
<1>2. CASE a.tape \in DOMAIN scanResults
  <2>1. scanResults[a.tape] \in Record /\ scanResults[a.tape].seenCount < MaxSeen
    BY <1>2 DEF TypeOK, Room
  <2>2. r = Counted(scanResults[a.tape], a.rssi)
    BY <1>2 DEF Stats
  <2>3. QED
    BY <1>1, <2>1, <2>2, CountedKeeps
<1>3. CASE a.tape \notin DOMAIN scanResults
  BY <1>1, <1>3, NewRecordType DEF Stats
<1>4. QED
  BY <1>2, <1>3

\* Hearing a report stores one record and widens one tape's range.
LEMMA HearFacts ==
  ASSUME TypeOK, NEW a \in Reports, ValidSource(a), NEW r \in Record, Hear(a, r)
  PROVE  /\ DOMAIN scanResults' = DOMAIN scanResults \cup {a.tape}
         /\ scanResults'[a.tape] = r
         /\ \A t \in DOMAIN scanResults \ {a.tape} : scanResults'[t] = scanResults[t]
         /\ scanResults' \in [DOMAIN scanResults' -> Record]
         /\ DOMAIN heard' = DOMAIN scanResults'
         /\ heard' \in [DOMAIN heard' -> [low : InRange, high : InRange]]
         /\ heard'[a.tape].low <= a.rssi /\ a.rssi <= heard'[a.tape].high
         /\ a.tape \in DOMAIN heard =>
              /\ heard'[a.tape].low <= heard[a.tape].low
              /\ heard[a.tape].high <= heard'[a.tape].high
         /\ \A t \in DOMAIN heard \ {a.tape} : heard'[t] = heard[t]
<1> DEFINE h == IF a.tape \notin DOMAIN heard THEN [low |-> a.rssi, high |-> a.rssi]
                ELSE [low  |-> IF a.rssi < heard[a.tape].low
                               THEN a.rssi ELSE heard[a.tape].low,
                      high |-> IF a.rssi > heard[a.tape].high
                               THEN a.rssi ELSE heard[a.tape].high]
<1>1. a.rssi \in InRange
  BY DEF Reports, ValidSource, InRange
<1>2. h \in [low : InRange, high : InRange]
  BY <1>1 DEF TypeOK
<1>3. scanResults' = Store(scanResults, a.tape, r) /\ heard' = Store(heard, a.tape, h)
  BY DEF Hear
<1>4. scanResults \in [DOMAIN scanResults -> Record] /\ DOMAIN heard = DOMAIN scanResults
      /\ heard \in [DOMAIN heard -> [low : InRange, high : InRange]]
  BY DEF TypeOK
<1>10. /\ h.low <= a.rssi /\ a.rssi <= h.high
       /\ a.tape \in DOMAIN heard => h.low <= heard[a.tape].low /\ heard[a.tape].high <= h.high
  <2>1. a.rssi \in Int
    BY <1>1, RssiInt
  <2>2. a.tape \in DOMAIN heard => heard[a.tape].low \in Int /\ heard[a.tape].high \in Int
    BY <1>4, RssiInt
  <2>3. QED
    BY <2>1, <2>2
<1> HIDE DEF h
<1>5. scanResults' \in [DOMAIN scanResults' -> Record]
  BY <1>3, <1>4, StoreType
<1>6. heard' \in [DOMAIN heard' -> [low : InRange, high : InRange]]
  BY <1>2, <1>3, <1>4, StoreType
<1>7. /\ DOMAIN scanResults' = DOMAIN scanResults \cup {a.tape}
      /\ scanResults'[a.tape] = r
      /\ \A t \in DOMAIN scanResults \ {a.tape} : scanResults'[t] = scanResults[t]
  BY <1>3 DEF Store
<1>8. /\ DOMAIN heard' = DOMAIN heard \cup {a.tape}
      /\ heard'[a.tape] = h
      /\ \A t \in DOMAIN heard \ {a.tape} : heard'[t] = heard[t]
  BY <1>3 DEF Store
<1>9. QED
  BY <1>4, <1>5, <1>6, <1>7, <1>8, <1>10

\* What is counted of a report keeps every tape's sum and average in bounds.
LEMMA BalanceKept ==
  ASSUME TypeOK, Balanced, NEW a \in Reports, ValidSource(a), Room(a),
         NEW r \in Stats(a), NEW q \in Record, Hear(a, q),
         q.seenCount = r.seenCount, q.totalRssi = r.totalRssi, q.avgRssi = r.avgRssi
  PROVE  Balanced'
<1>1. /\ DOMAIN scanResults' = DOMAIN scanResults \cup {a.tape}
      /\ scanResults'[a.tape] = q
      /\ \A t \in DOMAIN scanResults \ {a.tape} : scanResults'[t] = scanResults[t]
      /\ DOMAIN heard' = DOMAIN scanResults'
      /\ heard' \in [DOMAIN heard' -> [low : InRange, high : InRange]]
      /\ heard'[a.tape].low <= a.rssi /\ a.rssi <= heard'[a.tape].high
      /\ a.tape \in DOMAIN heard =>
           /\ heard'[a.tape].low <= heard[a.tape].low
           /\ heard[a.tape].high <= heard'[a.tape].high
      /\ \A t \in DOMAIN heard \ {a.tape} : heard'[t] = heard[t]
  BY HearFacts
<1>2. a.rssi \in Rssis /\ heard'[a.tape] \in [low : InRange, high : InRange]
  BY <1>1 DEF Reports
<1>3. Fits(r, heard'[a.tape])
  <2>1. CASE a.tape \in DOMAIN scanResults
    <3>1. /\ scanResults[a.tape] \in Record /\ scanResults[a.tape].seenCount < MaxSeen
          /\ heard[a.tape] \in [low : InRange, high : InRange] /\ a.tape \in DOMAIN heard
          /\ Fits(scanResults[a.tape], heard[a.tape])
      BY <2>1 DEF TypeOK, Room, Balanced
    <3>2. r = Counted(scanResults[a.tape], a.rssi)
      BY <2>1 DEF Stats
    <3>3. QED
      BY <1>1, <1>2, <3>1, <3>2, CountedFits
  <2>2. CASE a.tape \notin DOMAIN scanResults
    <3>1. r.seenCount = 1 /\ r.totalRssi = a.rssi /\ r.avgRssi = a.rssi
      BY <2>2 DEF Stats, NewRecord
    <3>2. heard'[a.tape].low \in Int /\ heard'[a.tape].high \in Int
      BY <1>2, RssiInt
    <3>3. QED
      BY <1>1, <3>1, <3>2 DEF Fits
  <2>3. QED
    BY <2>1, <2>2
<1>4. Fits(q, heard'[a.tape])
  BY <1>3 DEF Fits
<1>5. ASSUME NEW t \in DOMAIN scanResults \ {a.tape}
      PROVE  Fits(scanResults'[t], heard'[t])
  BY <1>1 DEF Balanced, TypeOK
<1>6. QED
  BY <1>1, <1>4, <1>5 DEF Balanced

-----------------------------------------------------------------------------
(* The invariant.                                                          *)

\* The program starts with the invariant.
LEMMA InitInv == Init => PipelineInv
BY AdvertAssumption DEF Init, PipelineInv, TypeOK, Remembers, Balanced

\* A report that is only counted leaves the remembered reports alone.
LEMMA CountedOnly ==
  ASSUME PipelineInv, NEW a \in Reports, ValidSource(a), Room(a),
         NEW r \in Stats(a), Hear(a, r), UNCHANGED <<now, accepted, processed, sent>>
  PROVE  PipelineInv'
<1>1. TypeOK /\ Remembers /\ Balanced
  BY DEF PipelineInv
<1>2. /\ r \in Record
      /\ a.tape \in DOMAIN scanResults =>
           /\ r.lastProcTimeSecs = scanResults[a.tape].lastProcTimeSecs
           /\ r.lastProcBleData = scanResults[a.tape].lastProcBleData
  BY <1>1, StatsFacts
<1>3. /\ DOMAIN scanResults' = DOMAIN scanResults \cup {a.tape}
      /\ scanResults'[a.tape] = r
      /\ \A t \in DOMAIN scanResults \ {a.tape} : scanResults'[t] = scanResults[t]
      /\ scanResults' \in [DOMAIN scanResults' -> Record]
      /\ DOMAIN heard' = DOMAIN scanResults'
      /\ heard' \in [DOMAIN heard' -> [low : InRange, high : InRange]]
  BY <1>1, <1>2, HearFacts
<1>4. a.tape \in Tapes
  BY DEF Reports
<1>5. TypeOK'
  BY <1>1, <1>3, <1>4 DEF TypeOK
<1>6. Remembers'
  BY <1>1, <1>2, <1>3 DEF TypeOK, Remembers
<1>7. Balanced'
  BY <1>1, <1>2, BalanceKept
<1>8. QED
  BY <1>5, <1>6, <1>7 DEF PipelineInv

\* A report that is processed becomes the remembered one.
LEMMA ProcessedRemembered ==
  ASSUME PipelineInv, NEW a \in Reports, ReportProcessed(a)
  PROVE  PipelineInv'
<1>1. TypeOK /\ Remembers /\ Balanced /\ ValidSource(a) /\ Room(a) /\ a.tape \in Listed
  BY DEF PipelineInv, ReportProcessed
<1>2. PICK r \in Stats(a) :
        /\ NotDuplicate(r, a)
        /\ now' \in {now, now + 1} /\ now' <= MaxTime
        /\ Hear(a, [r EXCEPT !.lastProcTimeSecs = now', !.lastProcBleData = ProcData(a)])
  BY DEF ReportProcessed
<1> DEFINE q == [r EXCEPT !.lastProcTimeSecs = now', !.lastProcBleData = ProcData(a)]
<1>3. r \in Record
  BY <1>1, StatsFacts
<1>4. now \in 0..MaxTime /\ now' \in 0..MaxTime
  BY <1>1, <1>2, AdvertAssumption DEF TypeOK
<1>5. ProcData(a) \in AllProcData
  BY DEF ProcData, AllProcData, Reports
<1>6. /\ q \in Record
      /\ q.lastProcTimeSecs = now'
      /\ q.lastProcBleData = ProcData(a)
      /\ q.seenCount = r.seenCount /\ q.totalRssi = r.totalRssi /\ q.avgRssi = r.avgRssi
  BY <1>3, <1>4, <1>5 DEF Record, Times
<1>7. Hear(a, q)
  BY <1>2
<1> HIDE DEF q
<1>8. /\ DOMAIN scanResults' = DOMAIN scanResults \cup {a.tape}
      /\ scanResults'[a.tape] = q
      /\ \A t \in DOMAIN scanResults \ {a.tape} : scanResults'[t] = scanResults[t]
      /\ scanResults' \in [DOMAIN scanResults' -> Record]
      /\ DOMAIN heard' = DOMAIN scanResults'
      /\ heard' \in [DOMAIN heard' -> [low : InRange, high : InRange]]
  BY <1>1, <1>6, <1>7, HearFacts
<1> DEFINE v == [at |-> now, data |-> ProcData(a)]
<1>9. accepted' = Store(accepted, a.tape, v) /\ v \in [at : 0..MaxTime, data : AllProcData]
  BY <1>4, <1>5 DEF ReportProcessed
<1>10. v.at = now /\ v.data = ProcData(a)
  OBVIOUS
<1> HIDE DEF v
<1>11. accepted' \in [DOMAIN accepted' -> [at : 0..MaxTime, data : AllProcData]]
  BY <1>1, <1>9, StoreType DEF TypeOK
<1>12. /\ DOMAIN accepted' = DOMAIN accepted \cup {a.tape}
       /\ accepted'[a.tape] = v
       /\ \A t \in DOMAIN accepted \ {a.tape} : accepted'[t] = accepted[t]
  BY <1>9 DEF Store
<1>13. processed' \in Nat /\ sent' \in 0..processed'
  BY <1>1 DEF TypeOK, ReportProcessed
<1>14. a.tape \in Tapes
  BY DEF Reports
<1>15. DOMAIN scanResults' \subseteq Tapes /\ DOMAIN accepted' \subseteq DOMAIN scanResults' \cap Listed
  BY <1>1, <1>8, <1>12, <1>14 DEF TypeOK
<1>16. TypeOK'
  BY <1>4, <1>8, <1>11, <1>13, <1>15 DEF TypeOK
<1>17. Remembers'
  BY <1>1, <1>2, <1>6, <1>8, <1>10, <1>12 DEF TypeOK, Remembers
<1>18. Balanced'
  BY <1>1, <1>6, <1>7, BalanceKept
<1>19. QED
  BY <1>16, <1>17, <1>18 DEF PipelineInv

\* No report and no tick of the clock breaks the invariant.
LEMMA StepInv == PipelineInv /\ [Next]_vars => PipelineInv'
<1> SUFFICES ASSUME PipelineInv, [Next]_vars PROVE PipelineInv'
  OBVIOUS
<1>1. CASE UNCHANGED vars
  BY <1>1 DEF vars, PipelineInv, TypeOK, Remembers, Balanced
<1>2. ASSUME NEW a \in Reports, ReportUnlisted(a) PROVE PipelineInv'
  BY <1>2, CountedOnly DEF ReportUnlisted
<1>3. ASSUME NEW a \in Reports, ReportDropped(a) PROVE PipelineInv'
  BY <1>3, CountedOnly DEF ReportDropped
<1>4. ASSUME NEW a \in Reports, ReportProcessed(a) PROVE PipelineInv'
  BY <1>4, ProcessedRemembered
<1>5. CASE Tick
  BY <1>5, AdvertAssumption DEF Tick, PipelineInv, TypeOK, Remembers, Balanced
<1>6. QED
  BY <1>1, <1>2, <1>3, <1>4, <1>5 DEF Next

\* So it always holds.
LEMMA Invariance == Spec => []PipelineInv
BY InitInv, StepInv, PTL DEF Spec

-----------------------------------------------------------------------------
(* The properties.                                                         *)

\* Every variable keeps its type: only tapes in range are counted, only listed
\* ones are processed (main.cpp:392, 573-576).
THEOREM TypeCorrect == Spec => []TypeOK
<1>1. PipelineInv => TypeOK
  BY DEF PipelineInv
<1>2. QED
  BY <1>1, Invariance, PTL

\* A tape's average lies between the weakest and the strongest signal counted
\* for it, although int division truncates (main.cpp:416).
THEOREM AverageBounded == Spec => []AverageWithinHeard
<1>1. PipelineInv => AverageWithinHeard
  BY DEF PipelineInv, Balanced, Fits, AverageWithinHeard
<1>2. QED
  BY <1>1, Invariance, PTL

\* Two reports of a tape are processed only more than HoldSecs apart and with
\* different data (main.cpp:586-594).
THEOREM HeldOff == Spec => HoldOff
<1> DEFINE Apart == \A t \in DOMAIN accepted :
                      accepted'[t] # accepted[t] =>
                        /\ now - accepted[t].at > HoldSecs
                        /\ accepted'[t].data # accepted[t].data
<1>1. PipelineInv /\ [Next]_vars => [Apart]_vars
  <2> SUFFICES ASSUME PipelineInv, Next, NEW t \in DOMAIN accepted,
                      accepted'[t] # accepted[t]
               PROVE  /\ now - accepted[t].at > HoldSecs
                      /\ accepted'[t].data # accepted[t].data
    OBVIOUS
  <2>1. PICK a \in Reports : ReportProcessed(a)
    BY DEF Next, ReportUnlisted, ReportDropped, Tick
  <2>2. TypeOK /\ Remembers /\ Room(a)
    BY <2>1 DEF PipelineInv, ReportProcessed
  <2>3. accepted' = Store(accepted, a.tape, [at |-> now, data |-> ProcData(a)])
    BY <2>1 DEF ReportProcessed
  <2>4. a.tape = t /\ accepted'[t].data = ProcData(a)
    BY <2>3 DEF Store
  <2>5. PICK r \in Stats(a) : NotDuplicate(r, a)
    BY <2>1 DEF ReportProcessed
  <2>6. /\ r.lastProcTimeSecs \in {accepted[t].at, accepted[t].at + 1}
        /\ r.lastProcBleData = accepted[t].data
    BY <2>2, <2>4, StatsFacts DEF Remembers, TypeOK
  <2>7. /\ now - r.lastProcTimeSecs > HoldSecs
        /\ r.lastProcBleData # ProcData(a)
    BY <2>5 DEF NotDuplicate
  <2>8. now \in Int /\ accepted[t].at \in Int /\ HoldSecs \in Int
    BY <2>2, AdvertAssumption DEF TypeOK
  <2>9. now - accepted[t].at > HoldSecs
    BY <2>6, <2>7, <2>8
  <2>10. QED
    BY <2>4, <2>6, <2>7, <2>9
<1>2. QED
  BY <1>1, Invariance, PTL DEF Spec, HoldOff

\* A report of a processed tape that says something else, and late enough, is
\* not dropped (main.cpp:590-599).
THEOREM DropsJustified == Spec => DropsAreDuplicates
<1>1. PipelineInv /\ [Next]_vars => [\A a \in Reports : IsNews(a) => ~ReportDropped(a)]_vars
  <2> SUFFICES ASSUME PipelineInv, NEW a \in Reports, IsNews(a), ReportDropped(a)
               PROVE  FALSE
    OBVIOUS
  <2>1. TypeOK /\ Remembers /\ Room(a) /\ a.tape \in DOMAIN accepted
    BY DEF PipelineInv, ReportDropped, IsNews
  <2>2. PICK r \in Stats(a) : ~NotDuplicate(r, a)
    BY DEF ReportDropped
  <2>3. /\ r.lastProcTimeSecs \in {accepted[a.tape].at, accepted[a.tape].at + 1}
        /\ r.lastProcBleData = accepted[a.tape].data
    BY <2>1, StatsFacts DEF Remembers, TypeOK
  <2>4. now \in Int /\ accepted[a.tape].at \in Int /\ HoldSecs \in Int
    BY <2>1, AdvertAssumption DEF TypeOK
  <2>5. now - r.lastProcTimeSecs > HoldSecs /\ r.lastProcBleData # ProcData(a)
    BY <2>3, <2>4 DEF IsNews
  <2>6. QED
    BY <2>2, <2>5 DEF NotDuplicate
<1>2. QED
  BY <1>1, Invariance, PTL DEF Spec, DropsAreDuplicates

=============================================================================
