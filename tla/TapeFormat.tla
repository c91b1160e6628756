----------------------------- MODULE TapeFormat -----------------------------
(***************************************************************************)
(* From the bytes a white tape advertises to the parameters of a request:  *)
(* the duplicates check's comparison (main.cpp:590-594), parseBleDataPacket *)
(* and its parsers (tapeFormat.cpp), the burst of bleScanThreadFunc with    *)
(* its three made-up packets (main.cpp:702-817), and the parameters that    *)
(* createBleDataUrlExtension writes (main.cpp:445-543).                     *)
(*                                                                         *)
(* A report that comes in the hold-off, which AdvertPipeline models, leaves *)
(* every variable as it is and is no step here.  A temperature is in        *)
(* hundredths, a voltage in tenths, a 32-bit number is the pair of its      *)
(* 16-bit halves.                                                           *)
(***************************************************************************)
EXTENDS Integers, Sequences

CONSTANTS
  Base,        \* what every reading byte holds, save one
  Values,      \* what that one may hold
  Rssis,       \* signal strengths in range, in dBm
  Mac          \* the tape's address

Byte == 0..255

ASSUME FormatAssumption == Base \in Byte /\ Values \subseteq Byte /\ Rssis \subseteq -80..127

QuartzTypes == {"TMP117", "OPT3110", "IAT", "DPD"}
PacketTypes == QuartzTypes \cup {"Unknown"}

\* QUARTZ_SENSOR_*_TAPE_ID, and an ID of none of the sensors.
TapeIdOf ==
  [TMP117 |-> 65532, OPT3110 |-> 65530, IAT |-> 65457, DPD |-> 65456, Unknown |-> 65459]

-----------------------------------------------------------------------------
(* A report: info->bdaddr, info->length, and info->data with the RSSI byte   *)
(* that follows.                                                            *)

Start == 7                           \* QUARTZ_BLE_ADV_PKT_DATA_START_IDX
PacketLen == 24                      \* WHITE_TAPE_DATA_PACKET_LEN
ReadingBytes == 2..20 \cup {23}      \* payload bytes that say something new

\* What a white tape of a type says, payload[k] being Base save payload[p] = v:
\* flags, length, manufacturer 0x0059, then FID 0x5258 and the tape ID.  In a
\* report of length 30 the last payload byte is missing.
Data(type, length, p, v, rssi) ==
  [i \in 0..31 |->
     CASE i = 0 -> 2 [] i = 1 -> 1 [] i = 2 -> 6
       [] i = 3 -> length - 4 [] i = 4 -> 255
       [] i = 5 -> 89 [] i = 6 -> 0
       [] i = Start -> 82 [] i = Start + 1 -> 88
       [] i = length -> rssi % 256
       [] i > length -> 0
       [] i = Start + 21 -> TapeIdOf[type] \div 256
       [] i = Start + 22 -> TapeIdOf[type] % 256
       [] i = Start + p /\ i < length -> v
       [] OTHER -> Base]

Report(type, length, p, v, rssi) ==
  [bdaddr |-> Mac, length |-> length, data |-> Data(type, length, p, v, rssi)]

-----------------------------------------------------------------------------
(* The getters of tapeFormat.h.                                            *)

Signed(n, width) == IF n < 2 ^ (width - 1) THEN n ELSE n - 2 ^ width

U16At(d, i) == 256 * d[i] + d[i + 1]

getTimestampU16(d, offset) == U16At(d, Start + offset)
getRecordSequence(d, offset) == U16At(d, Start + offset)

\* Seeded fault: info->data is read without the start, as other fields are.
WithoutStart(d, offset) == U16At(d, offset)

getLightData(d, offset) == U16At(d, Start + offset)
getFid(d) == U16At(d, Start)
getTapeId(d) == U16At(d, Start + 21)
getTimestampU32(d, offset) == <<U16At(d, Start + offset), U16At(d, Start + offset + 2)>>

\* The only number with its lowest byte first.
getLimePid(d, offset) ==
  d[Start + offset] + 256 * d[Start + offset + 1] + 65536 * d[Start + offset + 2]

\* Both bytes count as unsigned.
getTemperatureData(d, offset) == 100 * d[Start + offset] + d[Start + offset + 1]
getBatVoltage(d) == d[Start + 23]
getLimeBat(d) == d[Start + 18]

\* Seeded fault: the sign of the strength is lost.
RssiUnsigned(a) == a.data[a.length]

getTapeRssi(a) == Signed(a.data[a.length], 8)

-----------------------------------------------------------------------------
(* parseBleDataPacket.                                                     *)

getBlePacketType(d) ==
  IF \E t \in QuartzTypes : TapeIdOf[t] = getTapeId(d)
    THEN CHOOSE t \in QuartzTypes : TapeIdOf[t] = getTapeId(d)
    ELSE "Unknown"

NormalMode == [TMP117 |-> 50, OPT3110 |-> 55, IAT |-> 55, DPD |-> 55]

getEvtFlag(type, d) == IF d[Start + 2] = 0 THEN NormalMode[type] ELSE d[Start + 2]

ParseTMP117(a) ==
  LET d == a.data IN
  [mac_addr |-> a.bdaddr,
   fid    |-> getFid(d),                 evt_flag |-> getEvtFlag("TMP117", d),
   t0     |-> getTemperatureData(d, 3),  t0_ts    |-> getTimestampU16(d, 5),
   t1     |-> getTemperatureData(d, 7),  t1_ts    |-> getTimestampU16(d, 9),
   t2     |-> getTemperatureData(d, 11), t2_ts    |-> getTimestampU16(d, 13),
   pid    |-> getLimePid(d, 15),         lime_bat |-> getLimeBat(d),
   seqId  |-> getRecordSequence(d, 19),  tapeId   |-> getTapeId(d),
   bat    |-> getBatVoltage(d),          rssi     |-> getTapeRssi(a)]

\* The light, a uint16_t, is assigned from a temperature: its fraction is cut.
ParseOPT3110(a) ==
  LET d == a.data IN
  [mac_addr |-> a.bdaddr,
   fid    |-> getFid(d),                          evt_flag |-> getEvtFlag("OPT3110", d),
   t0     |-> getTemperatureData(d, 3),           t0_ts    |-> getTimestampU16(d, 5),
   l0     |-> getTemperatureData(d, 7) \div 100,  l0_ts    |-> getTimestampU16(d, 9),
   l1     |-> getTemperatureData(d, 11) \div 100, l1_ts    |-> getTimestampU16(d, 13),
   pid    |-> getLimePid(d, 15),                  lime_bat |-> getLimeBat(d),
   seqId  |-> getRecordSequence(d, 19),           tapeId   |-> getTapeId(d),
   bat    |-> getBatVoltage(d),                   rssi     |-> getTapeRssi(a)]

\* t0, t1 and the acceleration are read from info->data without the start.
ParseIAT(a) ==
  LET d == a.data IN
  [mac_addr |-> a.bdaddr,
   fid    |-> getFid(d),             evt_flag |-> getEvtFlag("IAT", d),
   t0     |-> 100 * d[3],            t1       |-> 100 * d[4],
   t1_ts  |-> getTimestampU32(d, 5), l0       |-> getLightData(d, 9),
   l0_ts  |-> getTimestampU32(d, 11),
   a0_val |-> Signed(d[15], 8),      a0_count |-> d[16],
   ts     |-> getTimestampU32(d, 17), tapeId  |-> getTapeId(d),
   bat    |-> getBatVoltage(d),      rssi     |-> getTapeRssi(a)]

\* tagMacId and t0 are read without the start too; ts is cut to 16 bits.
ParseDPD(a) ==
  LET d == a.data IN
  [macId  |-> a.bdaddr,
   fid    |-> getFid(d),             evtFlag |-> getEvtFlag("DPD", d),
   tagMacId |-> [k \in 1..6 |-> d[2 + k]],
   t0     |-> 100 * d[9],            l0      |-> getLightData(d, 11),
   l0Ts   |-> getTimestampU32(d, 13), ts     |-> getTimestampU32(d, 15)[2],
   tapeId |-> getTapeId(d),          bat     |-> getBatVoltage(d),
   rssi   |-> getTapeRssi(a)]

\* The 24 bytes from Start, as the comparison and bleBuff take them.
PacketBytes(d) == [k \in 1..PacketLen |-> d[Start + k - 1]]

NoFields == <<>>

\* The packet of a report; one of an unknown type has its type and no more.
\* bleBuff is filled, as it is read, in the G1 format only.
Parse(a) ==
  LET type == getBlePacketType(a.data) IN
  [blePktType |-> type,
   bleBuff |-> PacketBytes(a.data),
   fields |-> CASE type = "TMP117"  -> ParseTMP117(a)
                [] type = "OPT3110" -> ParseOPT3110(a)
                [] type = "IAT"     -> ParseIAT(a)
                [] type = "DPD"     -> ParseDPD(a)
                [] type = "Unknown" -> NoFields]

-----------------------------------------------------------------------------
(* createBleDataUrlExtension: the parameters that tell whose data it is and  *)
(* what it says.                                                            *)

\* %d of a uint32_t.
PrintedInt(halves) == <<Signed(halves[1], 16), halves[2]>>

RawParams(pkt) ==
  [G1 |-> pkt.bleBuff, rssi0 |-> pkt.fields.rssi, st |-> SubSeq(pkt.bleBuff, 1, 2),
   id |-> IF pkt.blePktType = "DPD" THEN pkt.fields.macId ELSE pkt.fields.mac_addr]

FieldParams(pkt) ==
  LET f == pkt.fields IN
  CASE pkt.blePktType = "TMP117" ->
         [id |-> f.mac_addr,
          ts |-> f.t0_ts, rssi |-> f.rssi, e0 |-> f.evt_flag, t0 |-> f.t0, t1 |-> f.t1,
          t1ts |-> f.t1_ts, t2 |-> f.t2, t2ts |-> f.t2_ts, pid |-> f.pid,
          seqId |-> f.seqId, tapeId |-> f.tapeId, bat |-> f.bat]
    [] pkt.blePktType = "OPT3110" ->
         [id |-> f.mac_addr,
          ts |-> f.t0_ts, rssi |-> f.rssi, e0 |-> f.evt_flag, t0 |-> f.t0, l0 |-> f.l0,
          l0ts |-> f.l0_ts, l1 |-> f.l1, l1ts |-> f.l1_ts, pid |-> f.pid,
          lbat |-> f.lime_bat, seqId |-> f.seqId, tapeId |-> f.tapeId, bat |-> f.bat]
    [] pkt.blePktType = "IAT" ->
         [id |-> f.mac_addr,
          ts |-> PrintedInt(f.t1_ts), rssi |-> f.rssi, e0 |-> f.evt_flag, t0 |-> f.t0,
          t1 |-> f.t1, l0 |-> f.l0, l0ts |-> PrintedInt(f.l0_ts), a0v |-> f.a0_val,
          a0c |-> f.a0_count, tapeId |-> f.tapeId, bat |-> f.bat]
    [] pkt.blePktType = "DPD" ->
         [id |-> f.macId,
          ts |-> f.ts, rssi |-> f.rssi, e0 |-> f.evtFlag, t0 |-> f.t0, l0 |-> f.l0,
          l0ts |-> PrintedInt(f.l0Ts), tapeId |-> f.tapeId, bat |-> f.bat]

\* The packets made up after a TMP117 packet: under its address, with bytes 0 to
\* 6 zero.
MadeUp(bdaddr, payload, rssi) ==
  [bdaddr |-> bdaddr, length |-> 31,
   data |-> [i \in 0..31 |-> IF i < Start THEN 0
                             ELSE IF i = 31 THEN rssi ELSE payload[i - Start + 1]]]

MadeUpOPT3110(bdaddr) ==
  MadeUp(bdaddr, <<82, 88, 0, 22, 58, 18, 52, 86, 120, 19, 87, 87, 155, 36, 104,
                   18, 52, 86, 151, 0, 2, 255, 250, 32>>, 59)
MadeUpIAT(bdaddr) ==
  MadeUp(bdaddr, <<82, 88, 0, 22, 61, 18, 52, 86, 120, 19, 87, 18, 52, 86, 120,
                   18, 52, 18, 52, 86, 120, 255, 177, 31>>, 60)
MadeUpDPD(bdaddr) ==
  MadeUp(bdaddr, <<82, 88, 0, 22, 61, 18, 52, 86, 120, 19, 87, 18, 52, 86, 120,
                   18, 52, 18, 52, 86, 120, 255, 176, 30>>, 61)

\* The packets that a processed report puts in the queue.
Burst(a) ==
  IF Parse(a).blePktType = "TMP117"
    THEN <<Parse(a), Parse(MadeUpOPT3110(a.bdaddr)), Parse(MadeUpIAT(a.bdaddr)),
           Parse(MadeUpDPD(a.bdaddr))>>
    ELSE <<>>

-----------------------------------------------------------------------------

VARIABLES
  tape,             \* the tape in range: its type and the length of its reports
  isCurlReqFormatG1,
  heard,            \* history: its last report outside the hold-off
  lastProcBleData,  \* the bytes that were last processed; <<>>: not initialised
  blePacketData,    \* the packet they were parsed into
  requests          \* the parameters of the requests that followed

vars == <<tape, isCurlReqFormatG1, heard, lastProcBleData, blePacketData, requests>>

TapeKinds == [type : PacketTypes, length : {30, 31}]
NoPacket == [blePktType |-> "Unknown", bleBuff |-> <<>>, fields |-> NoFields]

Init ==
  /\ tape \in TapeKinds
  /\ isCurlReqFormatG1 \in BOOLEAN
  /\ heard = <<>> /\ lastProcBleData = <<>> /\ blePacketData = NoPacket /\ requests = <<>>

AllReports == [t \in TapeKinds |->
  {Report(t.type, t.length, p, v, r) : p \in ReadingBytes, v \in Values \cup {Base}, r \in Rssis}]

Reports == AllReports[tape]

\* The requests for the packets that a processed report puts in the queue.
RequestsFor(a) ==
  LET burst == Burst(a) IN
  [k \in DOMAIN burst |-> IF isCurlReqFormatG1 THEN RawParams(burst[k])
                                               ELSE FieldParams(burst[k])]

\* Seeded fault: the last byte is not compared.
LastByteForgotten(d) == SubSeq(PacketBytes(d), 1, PacketLen - 1)

\* Seeded fault: one byte too many is compared.
OneByteTooMany(d) == Append(PacketBytes(d), d[Start + PacketLen])

\* The bytes of the memcmp and the memcpy.
Compared(d) == PacketBytes(d)

\* The report is processed, and the packets it leads to are sent.  The first
\* one may differ from the uninitialised record, or not.
Process(a) ==
  /\ lastProcBleData # Compared(a.data)
  /\ heard' = a
  /\ lastProcBleData' = Compared(a.data)
  /\ blePacketData' = Parse(a)
  /\ requests' = RequestsFor(a)
  /\ UNCHANGED <<tape, isCurlReqFormatG1>>

Drop(a) ==
  /\ lastProcBleData \in {Compared(a.data), <<>>}
  /\ heard' = a
  /\ UNCHANGED <<tape, isCurlReqFormatG1, lastProcBleData, blePacketData, requests>>

Next == \E a \in Reports : Process(a) \/ Drop(a)

Spec == Init /\ [][Next]_vars

-----------------------------------------------------------------------------
(* What tapeFormat.h documents: "Byte [first:last]" of the payload, and how  *)
(* the bytes of a field are to be read.  The fields left out are the address *)
(* and the RSSI, which are no part of the 24 bytes.                         *)

Layout == [
  TMP117 |->
    [fid |-> <<0, 1, "uint">>, evt_flag |-> <<2, 2, "flag", 50>>,
     t0 |-> <<3, 4, "temp">>, t0_ts |-> <<5, 6, "uint">>,
     t1 |-> <<7, 8, "temp">>, t1_ts |-> <<9, 10, "uint">>,
     t2 |-> <<11, 12, "temp">>, t2_ts |-> <<13, 14, "uint">>,
     pid |-> <<15, 17, "lime">>, lime_bat |-> <<18, 18, "uint">>,
     seqId |-> <<19, 20, "uint">>, tapeId |-> <<21, 22, "uint">>, bat |-> <<23, 23, "uint">>],
  OPT3110 |->
    [fid |-> <<0, 1, "uint">>, evt_flag |-> <<2, 2, "flag", 55>>,
     t0 |-> <<3, 4, "temp">>, t0_ts |-> <<5, 6, "uint">>,
     l0 |-> <<7, 8, "uint">>, l0_ts |-> <<9, 10, "uint">>,
     l1 |-> <<11, 12, "uint">>, l1_ts |-> <<13, 14, "uint">>,
     pid |-> <<15, 17, "lime">>, lime_bat |-> <<18, 18, "uint">>,
     seqId |-> <<19, 20, "uint">>, tapeId |-> <<21, 22, "uint">>, bat |-> <<23, 23, "uint">>],
  IAT |->
    [fid |-> <<0, 1, "uint">>, evt_flag |-> <<2, 2, "flag", 55>>,
     t0 |-> <<3, 3, "degrees">>, t1 |-> <<4, 4, "degrees">>, t1_ts |-> <<5, 8, "uint">>,
     l0 |-> <<9, 10, "uint">>, l0_ts |-> <<11, 14, "uint">>,
     a0_val |-> <<15, 15, "int">>, a0_count |-> <<16, 16, "uint">>, ts |-> <<17, 20, "uint">>,
     tapeId |-> <<21, 22, "uint">>, bat |-> <<23, 23, "uint">>],
  DPD |->
    [fid |-> <<0, 1, "uint">>, evtFlag |-> <<2, 2, "flag", 55>>, tagMacId |-> <<3, 8, "bytes">>,
     t0 |-> <<9, 9, "degrees">>, l0 |-> <<10, 11, "uint">>, l0Ts |-> <<12, 15, "uint">>,
     ts |-> <<16, 19, "cut">>, tapeId |-> <<20, 21, "uint">>, bat |-> <<22, 23, "volts">>],
  Unknown |-> <<>>]

\* The documented value of the bytes that place names, of the payload of a report:
\* a flag of 0 is the normal mode; LIME's bytes, whose order the header leaves open,
\* come lowest first; four bytes kept in a uint16_t are cut; a battery of an integer
\* and a fraction byte counts tenths.
Read(d, place) ==
  LET b == [k \in 0..(31 - Start) |-> d[Start + k]]
      first == place[1]
      U16(k) == 256 * b[k] + b[k + 1]
  IN CASE place[3] = "temp"    -> 100 * Signed(b[first], 8) + b[first + 1]
       [] place[3] = "degrees" -> 100 * b[first]
       [] place[3] = "int"     -> Signed(b[first], 8)
       [] place[3] = "bytes"   -> [k \in 1..(place[2] - first + 1) |-> b[first + k - 1]]
       [] place[3] = "lime"    -> b[first] + 256 * b[first + 1] + 65536 * b[first + 2]
       [] place[3] = "flag"    -> IF b[first] = 0 THEN place[4] ELSE b[first]
       [] place[3] = "cut"     -> U16(first + 2)
       [] place[3] = "volts"   -> 10 * b[first] + b[first + 1]
       [] OTHER -> CASE place[2] - first = 0 -> b[first]
                     [] place[2] - first = 1 -> U16(first)
                     [] place[2] - first = 3 -> <<U16(first), U16(first + 2)>>

\* Field f of the packet is what the header says of report a.
AsDocumented(pkt, a, f) == pkt.fields[f] = Read(a.data, Layout[pkt.blePktType][f])

\* Where the parsers and the header differ, whatever the reading.
Deviating == [TMP117 |-> {}, OPT3110 |-> {"l0", "l1"}, IAT |-> {"t0", "t1", "a0_val", "a0_count"},
              DPD |-> {"tagMacId", "t0", "l0", "l0Ts", "ts", "tapeId", "bat"},
              Unknown |-> {}]

\* A temperature below zero, and the battery of a report that lacks its byte,
\* are not read as documented either.
Unreadable(type, f, a) ==
  LET place == Layout[type][f] IN
  \/ place[3] = "temp" /\ a.data[Start + place[1]] >= 128
  \/ f = "bat" /\ a.length < 31

-----------------------------------------------------------------------------
(* Properties.                                                             *)

U16 == 0..(2 ^ 16 - 1)
Int8 == -128..127
U32Pair == U16 \X U16

\* The fields f of a packet have the widths they are declared with.
Wide(type, f) ==
  /\ f.fid \in U16 /\ f.tapeId \in U16 /\ f.rssi \in Int8
  /\ type \in {"TMP117", "OPT3110"} => f.seqId \in U16
  /\ type = "IAT" => f.ts \in U32Pair /\ f.a0_val \in Int8
  /\ type = "DPD" => f.ts \in U16 /\ f.l0Ts \in U32Pair

\* The type invariant.
TypeOK ==
  /\ tape \in TapeKinds /\ isCurlReqFormatG1 \in BOOLEAN
  /\ blePacketData.blePktType \in PacketTypes
  /\ Len(requests) \in {0, 4}
  /\ blePacketData.fields # NoFields => Wide(blePacketData.blePktType, blePacketData.fields)

LastProcessed == heard # <<>> /\ lastProcBleData = Compared(heard.data)

\* All fields but those of Deviating are read from the bytes, in the order and with
\* the meaning, that the header documents (tapeFormat.h:136-293): of a TMP117 all, of
\* an OPT3110 all but the lights, of an IAT all but the temperatures and the
\* acceleration, of a DPD the FID and the event flag only.  The packet is that of the
\* report heard last or of one that had the same bytes.
FieldsAsDocumented ==
  LastProcessed =>
    \A f \in DOMAIN Layout[blePacketData.blePktType] \ Deviating[blePacketData.blePktType] :
      Unreadable(blePacketData.blePktType, f, heard) \/ AsDocumented(blePacketData, heard, f)

ParamField == [ts |-> "t0_ts", e0 |-> "evt_flag", t0 |-> "t0", t1 |-> "t1", t1ts |-> "t1_ts",
               t2 |-> "t2", t2ts |-> "t2_ts", pid |-> "pid", seqId |-> "seqId",
               tapeId |-> "tapeId", bat |-> "bat"]

\* The tape ID that a request tells.
ToldTapeId(r) == IF isCurlReqFormatG1 THEN U16At(r.G1, 22) ELSE r.tapeId

\* Of the last requests that bear a tape's address as their id exactly one, the
\* first, names its sensor, and that one tells what the tape said in its last report
\* outside the hold-off, however many reports were dropped as duplicates since: the
\* comparison covers every byte a parameter is made from (main.cpp:445-475, 590-594;
\* tapeFormat.cpp:99-125).  The three that follow it have made-up readings.
CloudUpToDate ==
  requests # <<>> =>
    /\ \A k \in DOMAIN requests :
         /\ requests[k].id = heard.bdaddr
         /\ ToldTapeId(requests[k]) = TapeIdOf[tape.type] <=> k = 1
    /\ IF isCurlReqFormatG1
         THEN \A k \in 1..(heard.length - Start) : requests[1].G1[k] = heard.data[Start + k - 1]
         ELSE \A p \in DOMAIN ParamField :
                LET f == ParamField[p]
                IN \/ Unreadable("TMP117", f, heard)
                   \/ requests[1][p] = Read(heard.data, Layout.TMP117[f])

\* A full report that says what was last processed is no news, at whatever
\* strength it is heard: it makes no request (main.cpp:586-600).  Of a report of
\* length 30 this is not so: the 24th byte compared is its strength.
ResendDropped ==
  [][tape.length = 31 /\ PacketBytes(heard'.data) = blePacketData.bleBuff
       => UNCHANGED <<blePacketData, requests>>]_vars

\* What tapeFormat.h:136-293 says of each field that is read from the 24 bytes:
\* "Byte [3]: Current Temp t0" and so on.
HeaderLayout ==
  LastProcessed =>
    \A f \in DOMAIN Layout[blePacketData.blePktType] :
      heard.length < 31 \/ AsDocumented(blePacketData, heard, f)

=============================================================================
