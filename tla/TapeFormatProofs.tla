-------------------------- MODULE TapeFormatProofs --------------------------
(***************************************************************************)
(* Proofs about TapeFormat.  TLC's reports differ from a base in one byte;  *)
(* here a tape may say any bytes, each report other ones, and Spec is the   *)
(* case of it that TLC runs (ReportsOfTape, AnyReports).                    *)
(***************************************************************************)
EXTENDS TapeFormat, TLAPS

\* What info->data and the RSSI byte may hold, whoever has sent it.
Bytes == [0..31 -> Byte]
Adverts == [bdaddr : {Mac}, length : {30, 31}, data : Bytes]

\* What the tape t may say: anything, under its own ID.
SaidBy(t) == {a \in Adverts : a.length = t.length /\ getTapeId(a.data) = TapeIdOf[t.type]}

\* TapeFormat with all the reports that a tape could make.
AnyNext == \E a \in SaidBy(tape) : Process(a) \/ Drop(a)
AnySpec == Init /\ [][AnyNext]_vars

-----------------------------------------------------------------------------
(* The reports of a tape.                                                  *)

\* What a tape says is bytes, with its type's ID in the place of the ID.
LEMMA DataBytes ==
  ASSUME NEW type \in PacketTypes, NEW length \in {30, 31}, NEW p \in ReadingBytes,
         NEW v \in Byte, NEW rssi \in Rssis
  PROVE  /\ Data(type, length, p, v, rssi) \in Bytes
         /\ getTapeId(Data(type, length, p, v, rssi)) = TapeIdOf[type]
<1> DEFINE d == Data(type, length, p, v, rssi)
<1>1. Base \in Byte /\ rssi \in -80..127 /\ p \in 0..23 /\ p # 21 /\ p # 22
  BY FormatAssumption DEF ReadingBytes
<1>2. TapeIdOf[type] \in {65532, 65530, 65457, 65456, 65459}
  BY DEF TapeIdOf, PacketTypes, QuartzTypes
<1>3. TapeIdOf[type] \div 256 \in Byte /\ TapeIdOf[type] % 256 \in Byte
  BY <1>2 DEF Byte
<1>4. ASSUME NEW i \in 0..31 PROVE d[i] \in Byte
  <2> DEFINE hi == TapeIdOf[type] \div 256
             lo == TapeIdOf[type] % 256
  <2>1. d[i] \in {2, 1, 6, length - 4, 255, 89, 0, 82, 88, rssi % 256, hi, lo, v, Base}
    BY DEF Data
  <2> HIDE DEF d, hi, lo
  <2>2. length - 4 \in Byte /\ rssi % 256 \in Byte
    BY <1>1 DEF Byte
  <2>3. hi \in Byte /\ lo \in Byte
    BY <1>3 DEF hi, lo
  <2>4. {2, 1, 6, 255, 89, 0, 82, 88} \subseteq Byte
    BY DEF Byte
  <2> DEFINE r == rssi % 256
             n == length - 4
  <2>5. d[i] \in {2, 1, 6, 255, 89, 0, 82, 88} \cup {n, r, hi, lo, v, Base}
    BY <2>1
  <2>6. n \in Byte /\ r \in Byte
    BY <2>2
  <2> HIDE DEF r, n
  <2>7. QED
    BY <1>1, <2>3, <2>4, <2>5, <2>6
<1>5. d[28] = TapeIdOf[type] \div 256 /\ d[29] = TapeIdOf[type] % 256
  BY <1>1 DEF Data, Start
<1>6. getTapeId(d) = 256 * d[28] + d[29]
  BY DEF getTapeId, U16At, Start
<1>7. getTapeId(d) = TapeIdOf[type]
  BY <1>2, <1>5, <1>6
<1>8. d \in Bytes
  BY <1>4 DEF Data, Bytes
<1>9. QED
  BY <1>7, <1>8

LEMMA ReportsOfTape ==
  ASSUME tape \in TapeKinds, NEW a \in Reports
  PROVE  a \in SaidBy(tape)
<1>1. tape.type \in PacketTypes /\ tape.length \in {30, 31}
  BY DEF TapeKinds
<1>2. Reports = {Report(tape.type, tape.length, p, v, r) :
                   p \in ReadingBytes, v \in Values \cup {Base}, r \in Rssis}
  BY DEF Reports, AllReports
<1>3. PICK p \in ReadingBytes, v \in Values \cup {Base}, r \in Rssis :
        a = Report(tape.type, tape.length, p, v, r)
  BY <1>2
<1>4. v \in Byte
  BY FormatAssumption
<1>5. QED
  BY <1>1, <1>3, <1>4, DataBytes DEF Report, Adverts, SaidBy

\* No two types have the same ID: the packet's type is the tape's.
LEMMA TypeOfId ==
  ASSUME NEW type \in PacketTypes, NEW d, getTapeId(d) = TapeIdOf[type]
  PROVE  getBlePacketType(d) = type
<1>1. \A t, u \in PacketTypes : TapeIdOf[t] = TapeIdOf[u] => t = u
  BY DEF TapeIdOf, PacketTypes, QuartzTypes
<1>2. CASE type \in QuartzTypes
  BY <1>1, <1>2 DEF getBlePacketType, PacketTypes
<1>3. CASE type = "Unknown"
  BY <1>1, <1>3 DEF getBlePacketType, PacketTypes, QuartzTypes
<1>4. QED
  BY <1>2, <1>3 DEF PacketTypes

LEMMA PacketTypeKnown ==
  ASSUME NEW d PROVE getBlePacketType(d) \in PacketTypes
<1>1. CASE \E t \in QuartzTypes : TapeIdOf[t] = getTapeId(d)
  BY <1>1 DEF getBlePacketType, PacketTypes
<1>2. CASE ~(\E t \in QuartzTypes : TapeIdOf[t] = getTapeId(d))
  BY <1>2 DEF getBlePacketType, PacketTypes
<1>3. QED
  BY <1>1, <1>2

-----------------------------------------------------------------------------
(* The getters and the header's way to read the same bytes.                *)

\* Wherever one looks there is a byte.
LEMMA AdvertByte ==
  ASSUME NEW a \in Adverts, NEW k \in 0..31
  PROVE  a.data[k] \in Byte /\ a.data[k] \in Int
<1>1. a.data \in [0..31 -> Byte]
  BY DEF Adverts, Bytes
<1>2. a.data[k] \in Byte
  BY <1>1
<1>3. QED
  BY <1>2 DEF Byte

\* Two reports with the same packet: the 24 bytes that are compared.
SamePacket(a, h) == \A k \in 0..23 : a.data[Start + k] = h.data[Start + k]

\* Bytes are compared one by one.
LEMMA SameBytes ==
  ASSUME NEW a \in Adverts, NEW h \in Adverts, PacketBytes(a.data) = PacketBytes(h.data)
  PROVE  SamePacket(a, h)
<1>1. SUFFICES ASSUME NEW k \in 0..23 PROVE a.data[Start + k] = h.data[Start + k]
  BY DEF SamePacket
<1>2. k + 1 \in 1..24 /\ Start + (k + 1) - 1 = Start + k
  BY DEF Start
<1>3. /\ PacketBytes(a.data)[k + 1] = a.data[Start + (k + 1) - 1]
      /\ PacketBytes(h.data)[k + 1] = h.data[Start + (k + 1) - 1]
  BY <1>2 DEF PacketBytes, PacketLen
<1>4. QED
  BY <1>2, <1>3

LEMMA ReadByte ==
  ASSUME NEW a \in Adverts, NEW h \in Adverts, SamePacket(a, h), NEW i \in 0..23
  PROVE  a.data[Start + i] = Read(h.data, <<i, i, "uint">>)
BY DEF SamePacket, Read, Start

\* An event flag, of which 0 is the normal mode n.
LEMMA ReadFlag ==
  ASSUME NEW a \in Adverts, NEW h \in Adverts, SamePacket(a, h), NEW n
  PROVE  (IF a.data[Start + 2] = 0 THEN n ELSE a.data[Start + 2])
           = Read(h.data, <<2, 2, "flag", n>>)
BY DEF SamePacket, Read, Start

LEMMA ReadU16 ==
  ASSUME NEW a \in Adverts, NEW h \in Adverts, SamePacket(a, h),
         NEW i \in 0..22
  PROVE  U16At(a.data, Start + i) = Read(h.data, <<i, i + 1, "uint">>)
<1>1. a.data[7 + i] = h.data[7 + i] /\ a.data[7 + (i + 1)] = h.data[7 + (i + 1)]
  BY DEF SamePacket, Start
<1>2. U16At(a.data, Start + i) = 256 * a.data[7 + i] + a.data[7 + (i + 1)]
  BY DEF U16At, Start
<1>3. Read(h.data, <<i, i + 1, "uint">>) = 256 * h.data[7 + i] + h.data[7 + (i + 1)]
  BY DEF Read, Start
<1>4. QED
  BY <1>1, <1>2, <1>3

LEMMA ReadU32 ==
  ASSUME NEW a \in Adverts, NEW h \in Adverts, SamePacket(a, h),
         NEW i \in 0..20
  PROVE  getTimestampU32(a.data, i) = Read(h.data, <<i, i + 3, "uint">>)
<1>1. ASSUME NEW k \in i..(i + 3) PROVE a.data[7 + k] = h.data[7 + k]
  BY DEF SamePacket, Start
<1>2. getTimestampU32(a.data, i) =
        <<256 * a.data[7 + i] + a.data[7 + (i + 1)],
          256 * a.data[7 + (i + 2)] + a.data[7 + (i + 3)]>>
  BY DEF getTimestampU32, U16At, Start
<1>3. Read(h.data, <<i, i + 3, "uint">>) =
        <<256 * h.data[7 + i] + h.data[7 + (i + 1)],
          256 * h.data[7 + (i + 2)] + h.data[7 + (i + 3)]>>
  BY DEF Read, Start
<1>4. QED
  BY <1>1, <1>2, <1>3

\* A temperature that is not below zero is read as documented.
LEMMA ReadTemperature ==
  ASSUME NEW a \in Adverts, NEW h \in Adverts, SamePacket(a, h),
         NEW i \in 0..22, ~(h.data[Start + i] >= 128)
  PROVE  getTemperatureData(a.data, i) = Read(h.data, <<i, i + 1, "temp">>)
<1>1. /\ a.data[7 + i] = h.data[7 + i] /\ a.data[7 + (i + 1)] = h.data[7 + (i + 1)]
      /\ h.data[7 + i] \in Int /\ h.data[7 + i] < 128
  <2>1. /\ 7 + i \in 0..31 /\ h.data[Start + i] = h.data[7 + i]
        /\ a.data[7 + i] = h.data[7 + i] /\ a.data[7 + (i + 1)] = h.data[7 + (i + 1)]
    BY DEF SamePacket, Start
  <2>2. QED
    BY <2>1, AdvertByte
<1>2. getTemperatureData(a.data, i) = 100 * a.data[7 + i] + a.data[7 + (i + 1)]
  BY DEF getTemperatureData, Start
<1>3. Read(h.data, <<i, i + 1, "temp">>) = 100 * Signed(h.data[7 + i], 8) + h.data[7 + (i + 1)]
  BY DEF Read, Start
<1>4. QED
  BY <1>1, <1>2, <1>3 DEF Signed

LEMMA ReadLimePid ==
  ASSUME NEW a \in Adverts, NEW h \in Adverts, SamePacket(a, h),
         NEW i \in 0..21
  PROVE  getLimePid(a.data, i) = Read(h.data, <<i, i + 2, "lime">>)
<1>1. /\ a.data[7 + i] = h.data[7 + i] /\ a.data[7 + (i + 1)] = h.data[7 + (i + 1)]
      /\ a.data[7 + (i + 2)] = h.data[7 + (i + 2)]
  BY DEF SamePacket, Start
<1>2. getLimePid(a.data, i) =
        a.data[7 + i] + 256 * a.data[7 + (i + 1)] + 65536 * a.data[7 + (i + 2)]
  BY DEF getLimePid, Start
<1>3. Read(h.data, <<i, i + 2, "lime">>) =
        h.data[7 + i] + 256 * h.data[7 + (i + 1)] + 65536 * h.data[7 + (i + 2)]
  BY DEF Read, Start
<1>4. QED
  BY <1>1, <1>2, <1>3

-----------------------------------------------------------------------------
(* The parsers and the header's layout.                                    *)

\* Every field of a packet of type TMP117, save those that deviate, is what the
\* header says of the report.
LEMMA TMP117Documented ==
  ASSUME NEW a \in Adverts, NEW h \in Adverts, SamePacket(a, h),
         NEW pkt, pkt.blePktType = "TMP117", pkt.fields = ParseTMP117(a),
         NEW f \in DOMAIN Layout["TMP117"] \ Deviating["TMP117"]
  PROVE  Unreadable("TMP117", f, h) \/ AsDocumented(pkt, h, f)
<1> DEFINE place == Layout["TMP117"][f]
<1>1. f \in {"fid", "t0_ts", "t1_ts", "t2_ts", "seqId", "tapeId", "lime_bat", "bat", "pid",
             "t0", "t1", "t2", "evt_flag"}
  BY DEF Layout, Deviating
<1>2. CASE f \in {"fid", "t0_ts", "t1_ts", "t2_ts", "seqId", "tapeId"}
  <2>1. /\ place[1] \in 0..22 /\ place = <<place[1], place[1] + 1, "uint">>
        /\ pkt.fields[f] = U16At(a.data, Start + place[1])
    BY <1>2 DEF Layout, ParseTMP117, getFid, getTapeId, getTimestampU16, getRecordSequence,
       Start
  <2>2. \A i \in 0..22 : U16At(a.data, Start + i) = Read(h.data, <<i, i + 1, "uint">>)
    BY ReadU16
  <2>3. pkt.fields[f] = Read(h.data, place)
    BY <2>1, <2>2
  <2>4. QED
    BY <2>3 DEF AsDocumented
<1>3. CASE f \in {"lime_bat", "bat"}
  <2>1. /\ place[1] \in 0..23 /\ place = <<place[1], place[1], "uint">>
        /\ pkt.fields[f] = a.data[Start + place[1]]
    BY <1>3 DEF Layout, ParseTMP117, getLimeBat, getBatVoltage
  <2>2. \A i \in 0..23 : a.data[Start + i] = Read(h.data, <<i, i, "uint">>)
    BY ReadByte
  <2>3. pkt.fields[f] = Read(h.data, place)
    BY <2>1, <2>2
  <2>4. QED
    BY <2>3 DEF AsDocumented
<1>4. CASE f = "pid"
  <2>1. /\ place[1] \in 0..21 /\ place = <<place[1], place[1] + 2, "lime">>
        /\ pkt.fields[f] = getLimePid(a.data, place[1])
    BY <1>4 DEF Layout, ParseTMP117
  <2>2. \A i \in 0..21 : getLimePid(a.data, i) = Read(h.data, <<i, i + 2, "lime">>)
    BY ReadLimePid
  <2>3. pkt.fields[f] = Read(h.data, place)
    BY <2>1, <2>2
  <2>4. QED
    BY <2>3 DEF AsDocumented
<1>5. CASE f \in {"t0", "t1", "t2"}
  <2>1. /\ place[1] \in 0..22 /\ place = <<place[1], place[1] + 1, "temp">>
        /\ pkt.fields[f] = getTemperatureData(a.data, place[1])
    BY <1>5 DEF Layout, ParseTMP117
  <2>2. CASE h.data[Start + place[1]] >= 128
    BY <2>1, <2>2 DEF Unreadable
  <2>3. CASE ~(h.data[Start + place[1]] >= 128)
    <3>1. getTemperatureData(a.data, place[1])
            = Read(h.data, <<place[1], place[1] + 1, "temp">>)
      BY <2>1, <2>3, ReadTemperature
    <3>2. pkt.fields[f] = Read(h.data, place)
      BY <2>1, <3>1
    <3>3. QED
      BY <3>2 DEF AsDocumented
  <2>4. QED
    BY <2>2, <2>3
<1>6. CASE f = "evt_flag"
  <2>1. place = <<2, 2, "flag", 50>> /\ pkt.fields[f] = getEvtFlag("TMP117", a.data)
    BY <1>6 DEF Layout, ParseTMP117
  <2>2. pkt.fields[f] = Read(h.data, place)
    BY <2>1, ReadFlag DEF getEvtFlag, NormalMode
  <2>3. QED
    BY <2>2 DEF AsDocumented
<1>7. QED
  BY <1>1, <1>2, <1>3, <1>4, <1>5, <1>6

\* Every field of a packet of type OPT3110, save those that deviate, is what the
\* header says of the report.
LEMMA OPT3110Documented ==
  ASSUME NEW a \in Adverts, NEW h \in Adverts, SamePacket(a, h),
         NEW pkt, pkt.blePktType = "OPT3110", pkt.fields = ParseOPT3110(a),
         NEW f \in DOMAIN Layout["OPT3110"] \ Deviating["OPT3110"]
  PROVE  Unreadable("OPT3110", f, h) \/ AsDocumented(pkt, h, f)
<1> DEFINE place == Layout["OPT3110"][f]
<1>1. f \in {"fid", "t0_ts", "l0_ts", "l1_ts", "seqId", "tapeId", "lime_bat", "bat", "pid",
             "t0", "evt_flag"}
  BY DEF Layout, Deviating
<1>2. CASE f \in {"fid", "t0_ts", "l0_ts", "l1_ts", "seqId", "tapeId"}
  <2>1. /\ place[1] \in 0..22 /\ place = <<place[1], place[1] + 1, "uint">>
        /\ pkt.fields[f] = U16At(a.data, Start + place[1])
    BY <1>2 DEF Layout, ParseOPT3110, getFid, getTapeId, getTimestampU16, getRecordSequence,
       Start
  <2>2. \A i \in 0..22 : U16At(a.data, Start + i) = Read(h.data, <<i, i + 1, "uint">>)
    BY ReadU16
  <2>3. pkt.fields[f] = Read(h.data, place)
    BY <2>1, <2>2
  <2>4. QED
    BY <2>3 DEF AsDocumented
<1>3. CASE f \in {"lime_bat", "bat"}
  <2>1. /\ place[1] \in 0..23 /\ place = <<place[1], place[1], "uint">>
        /\ pkt.fields[f] = a.data[Start + place[1]]
    BY <1>3 DEF Layout, ParseOPT3110, getLimeBat, getBatVoltage
  <2>2. \A i \in 0..23 : a.data[Start + i] = Read(h.data, <<i, i, "uint">>)
    BY ReadByte
  <2>3. pkt.fields[f] = Read(h.data, place)
    BY <2>1, <2>2
  <2>4. QED
    BY <2>3 DEF AsDocumented
<1>4. CASE f = "pid"
  <2>1. /\ place[1] \in 0..21 /\ place = <<place[1], place[1] + 2, "lime">>
        /\ pkt.fields[f] = getLimePid(a.data, place[1])
    BY <1>4 DEF Layout, ParseOPT3110
  <2>2. \A i \in 0..21 : getLimePid(a.data, i) = Read(h.data, <<i, i + 2, "lime">>)
    BY ReadLimePid
  <2>3. pkt.fields[f] = Read(h.data, place)
    BY <2>1, <2>2
  <2>4. QED
    BY <2>3 DEF AsDocumented
<1>5. CASE f = "t0"
  <2>1. /\ place[1] \in 0..22 /\ place = <<place[1], place[1] + 1, "temp">>
        /\ pkt.fields[f] = getTemperatureData(a.data, place[1])
    BY <1>5 DEF Layout, ParseOPT3110
  <2>2. CASE h.data[Start + place[1]] >= 128
    BY <2>1, <2>2 DEF Unreadable
  <2>3. CASE ~(h.data[Start + place[1]] >= 128)
    <3>1. getTemperatureData(a.data, place[1])
            = Read(h.data, <<place[1], place[1] + 1, "temp">>)
      BY <2>1, <2>3, ReadTemperature
    <3>2. pkt.fields[f] = Read(h.data, place)
      BY <2>1, <3>1
    <3>3. QED
      BY <3>2 DEF AsDocumented
  <2>4. QED
    BY <2>2, <2>3
<1>6. CASE f = "evt_flag"
  <2>1. place = <<2, 2, "flag", 55>> /\ pkt.fields[f] = getEvtFlag("OPT3110", a.data)
    BY <1>6 DEF Layout, ParseOPT3110
  <2>2. pkt.fields[f] = Read(h.data, place)
    BY <2>1, ReadFlag DEF getEvtFlag, NormalMode
  <2>3. QED
    BY <2>2 DEF AsDocumented
<1>7. QED
  BY <1>1, <1>2, <1>3, <1>4, <1>5, <1>6

\* Every field of a packet of type IAT, save those that deviate, is what the
\* header says of the report.
LEMMA IATDocumented ==
  ASSUME NEW a \in Adverts, NEW h \in Adverts, SamePacket(a, h),
         NEW pkt, pkt.blePktType = "IAT", pkt.fields = ParseIAT(a),
         NEW f \in DOMAIN Layout["IAT"] \ Deviating["IAT"]
  PROVE  Unreadable("IAT", f, h) \/ AsDocumented(pkt, h, f)
<1> DEFINE place == Layout["IAT"][f]
<1>1. f \in {"fid", "l0", "tapeId", "bat", "t1_ts", "l0_ts", "ts", "evt_flag"}
  BY DEF Layout, Deviating
<1>2. CASE f \in {"fid", "l0", "tapeId"}
  <2>1. /\ place[1] \in 0..22 /\ place = <<place[1], place[1] + 1, "uint">>
        /\ pkt.fields[f] = U16At(a.data, Start + place[1])
    BY <1>2 DEF Layout, ParseIAT, getFid, getTapeId, getLightData, Start
  <2>2. \A i \in 0..22 : U16At(a.data, Start + i) = Read(h.data, <<i, i + 1, "uint">>)
    BY ReadU16
  <2>3. pkt.fields[f] = Read(h.data, place)
    BY <2>1, <2>2
  <2>4. QED
    BY <2>3 DEF AsDocumented
<1>3. CASE f = "bat"
  <2>1. /\ place[1] \in 0..23 /\ place = <<place[1], place[1], "uint">>
        /\ pkt.fields[f] = a.data[Start + place[1]]
    BY <1>3 DEF Layout, ParseIAT, getBatVoltage
  <2>2. \A i \in 0..23 : a.data[Start + i] = Read(h.data, <<i, i, "uint">>)
    BY ReadByte
  <2>3. pkt.fields[f] = Read(h.data, place)
    BY <2>1, <2>2
  <2>4. QED
    BY <2>3 DEF AsDocumented
<1>4. CASE f \in {"t1_ts", "l0_ts", "ts"}
  <2>1. /\ place[1] \in 0..20 /\ place = <<place[1], place[1] + 3, "uint">>
        /\ pkt.fields[f] = getTimestampU32(a.data, place[1])
    BY <1>4 DEF Layout, ParseIAT
  <2>2. \A i \in 0..20 : getTimestampU32(a.data, i) = Read(h.data, <<i, i + 3, "uint">>)
    BY ReadU32
  <2>3. pkt.fields[f] = Read(h.data, place)
    BY <2>1, <2>2
  <2>4. QED
    BY <2>3 DEF AsDocumented
<1>5. CASE f = "evt_flag"
  <2>1. place = <<2, 2, "flag", 55>> /\ pkt.fields[f] = getEvtFlag("IAT", a.data)
    BY <1>5 DEF Layout, ParseIAT
  <2>2. pkt.fields[f] = Read(h.data, place)
    BY <2>1, ReadFlag DEF getEvtFlag, NormalMode
  <2>3. QED
    BY <2>2 DEF AsDocumented
<1>6. QED
  BY <1>1, <1>2, <1>3, <1>4, <1>5

\* Every field of a packet of type DPD, save those that deviate, is what the
\* header says of the report.
LEMMA DPDDocumented ==
  ASSUME NEW a \in Adverts, NEW h \in Adverts, SamePacket(a, h),
         NEW pkt, pkt.blePktType = "DPD", pkt.fields = ParseDPD(a),
         NEW f \in DOMAIN Layout["DPD"] \ Deviating["DPD"]
  PROVE  Unreadable("DPD", f, h) \/ AsDocumented(pkt, h, f)
<1> DEFINE place == Layout["DPD"][f]
<1>1. f \in {"fid", "evtFlag"}
  BY DEF Layout, Deviating
<1>2. CASE f = "fid"
  <2>1. /\ place[1] \in 0..22 /\ place = <<place[1], place[1] + 1, "uint">>
        /\ pkt.fields[f] = U16At(a.data, Start + place[1])
    BY <1>2 DEF Layout, ParseDPD, getFid, Start
  <2>2. \A i \in 0..22 : U16At(a.data, Start + i) = Read(h.data, <<i, i + 1, "uint">>)
    BY ReadU16
  <2>3. pkt.fields[f] = Read(h.data, place)
    BY <2>1, <2>2
  <2>4. QED
    BY <2>3 DEF AsDocumented
<1>3. CASE f = "evtFlag"
  <2>1. place = <<2, 2, "flag", 55>> /\ pkt.fields[f] = getEvtFlag("DPD", a.data)
    BY <1>3 DEF Layout, ParseDPD
  <2>2. pkt.fields[f] = Read(h.data, place)
    BY <2>1, ReadFlag DEF getEvtFlag, NormalMode
  <2>3. QED
    BY <2>2 DEF AsDocumented
<1>4. QED
  BY <1>1, <1>2, <1>3

-----------------------------------------------------------------------------
(* The width of the fields, and the requests.                              *)

\* A number of two bytes fits a uint16_t, a byte with a sign an int8_t.
LEMMA TwoBytes ==
  ASSUME NEW x \in 0..255, NEW y \in 0..255
  PROVE  256 * x + y \in U16
BY DEF U16

LEMMA U16Width ==
  ASSUME NEW a \in Adverts, NEW i \in 0..30
  PROVE  U16At(a.data, i) \in U16
<1>0. i \in 0..31 /\ i + 1 \in 0..31
  OBVIOUS
<1>1. a.data[i] \in 0..255 /\ a.data[i + 1] \in 0..255
  <2>1. a.data[i] \in Byte
    BY <1>0, AdvertByte
  <2>2. a.data[i + 1] \in Byte
    BY <1>0, AdvertByte
  <2>3. QED
    BY <2>1, <2>2 DEF Byte
<1>2. 256 * a.data[i] + a.data[i + 1] \in U16
  BY <1>1, TwoBytes
<1>3. QED
  BY <1>2 DEF U16At

LEMMA SignedByte ==
  ASSUME NEW n \in Byte
  PROVE  Signed(n, 8) \in -128..127
BY DEF Signed, Byte

\* A parsed packet has fields of the declared widths, whatever the bytes are.
LEMMA FieldWidths ==
  ASSUME NEW a \in Adverts, Parse(a).fields # NoFields
  PROVE  Wide(Parse(a).blePktType, Parse(a).fields)
<1> DEFINE d == a.data
           type == getBlePacketType(d)
<1>1. /\ getFid(d) \in U16 /\ getTapeId(d) \in U16
      /\ getRecordSequence(d, 19) \in U16
  <2>1. /\ U16At(d, 7) \in U16 /\ U16At(d, 28) \in U16
        /\ U16At(d, 26) \in U16
    BY U16Width
  <2>2. Start = 7 /\ Start + 21 = 28 /\ Start + 19 = 26
    BY DEF Start
  <2>3. QED
    BY <2>1, <2>2 DEF getFid, getTapeId, getRecordSequence
<1>2. getTapeRssi(a) \in Int8 /\ Signed(d[15], 8) \in Int8
  <2>1. a.length \in 0..31
    BY DEF Adverts
  <2>2. QED
    BY <2>1, AdvertByte, SignedByte DEF getTapeRssi, Int8
<1>3. ASSUME NEW i \in {13, 15, 17} PROVE getTimestampU32(d, i) \in U32Pair
  <2>1. U16At(d, Start + i) \in U16 /\ U16At(d, Start + i + 2) \in U16
    <3>1. Start + i \in 0..30 /\ Start + i + 2 \in 0..30
      BY DEF Start
    <3>2. QED
      BY <3>1, U16Width
  <2>2. QED
    BY <2>1 DEF getTimestampU32, U32Pair
<1>4. getTimestampU32(d, 15)[2] \in U16
  BY <1>3 DEF U32Pair
<1>5. CASE type = "TMP117"
  BY <1>1, <1>2, <1>5 DEF Parse, ParseTMP117, Wide
<1>6. CASE type = "OPT3110"
  BY <1>1, <1>2, <1>6 DEF Parse, ParseOPT3110, Wide
<1>7. CASE type = "IAT"
  BY <1>1, <1>2, <1>3, <1>7 DEF Parse, ParseIAT, Wide
<1>8. CASE type = "DPD"
  BY <1>1, <1>2, <1>3, <1>4, <1>8 DEF Parse, ParseDPD, Wide
<1>9. CASE type = "Unknown"
  BY <1>9 DEF Parse
<1>10. QED
  BY <1>5, <1>6, <1>7, <1>8, <1>9, PacketTypeKnown DEF PacketTypes, QuartzTypes

\* The requests for a packet tell this tape ID and bear this address.
Names(pkt, tapeId, bdaddr) ==
  /\ RawParams(pkt).id = bdaddr /\ U16At(RawParams(pkt).G1, 22) = tapeId
  /\ FieldParams(pkt).id = bdaddr /\ FieldParams(pkt).tapeId = tapeId

\* The tape ID in the bytes of a packet is where it is in the report.
LEMMA BuffId ==
  ASSUME NEW d
  PROVE  U16At(PacketBytes(d), 22) = 256 * d[28] + d[29]
<1>1. /\ 22 \in 1..24 /\ 23 \in 1..24 /\ 22 + 1 = 23
      /\ 7 + 22 - 1 = 28 /\ 7 + 23 - 1 = 29
  OBVIOUS
<1>2. PacketBytes(d)[22] = d[28] /\ PacketBytes(d)[23] = d[29]
  BY <1>1 DEF PacketBytes, PacketLen, Start
<1>3. QED
  BY <1>1, <1>2 DEF U16At

\* The ID of a made-up packet is in its payload.
LEMMA MadeUpBytes ==
  ASSUME NEW bdaddr, NEW payload, NEW rssi
  PROVE  /\ MadeUp(bdaddr, payload, rssi).bdaddr = bdaddr
         /\ MadeUp(bdaddr, payload, rssi).data[28] = payload[22]
         /\ MadeUp(bdaddr, payload, rssi).data[29] = payload[23]
BY DEF MadeUp, Start

\* The made-up packets are of the three other types, under the tape's address.
LEMMA MadeUpOthers ==
  ASSUME NEW bdaddr
  PROVE  /\ Names(Parse(MadeUpOPT3110(bdaddr)), 65530, bdaddr)
         /\ Names(Parse(MadeUpIAT(bdaddr)), 65457, bdaddr)
         /\ Names(Parse(MadeUpDPD(bdaddr)), 65456, bdaddr)
<1>1. Names(Parse(MadeUpOPT3110(bdaddr)), 65530, bdaddr)
  <2> DEFINE m == MadeUpOPT3110(bdaddr)
  <2>1. m.data[28] = 255 /\ m.data[29] = 250 /\ m.bdaddr = bdaddr
    BY MadeUpBytes DEF MadeUpOPT3110
  <2> HIDE DEF m
  <2>2. getTapeId(m.data) = 65530
    BY <2>1 DEF getTapeId, U16At, Start
  <2>3. getBlePacketType(m.data) = "OPT3110"
    <3>1. getTapeId(m.data) = TapeIdOf["OPT3110"]
      BY <2>2 DEF TapeIdOf
    <3>2. "OPT3110" \in PacketTypes
      BY DEF PacketTypes, QuartzTypes
    <3>3. QED
      BY <3>1, <3>2, TypeOfId
  <2>4. Parse(m).blePktType = "OPT3110" /\ Parse(m).fields = ParseOPT3110(m)
    BY <2>3 DEF Parse
  <2>5. U16At(Parse(m).bleBuff, 22) = 65530
    BY <2>1, BuffId DEF Parse
  <2>6. RawParams(Parse(m)).id = bdaddr /\ U16At(RawParams(Parse(m)).G1, 22) = 65530
    BY <2>1, <2>4, <2>5 DEF RawParams, ParseOPT3110
  <2>7. FieldParams(Parse(m)).id = bdaddr /\ FieldParams(Parse(m)).tapeId = 65530
    BY <2>1, <2>2, <2>4 DEF FieldParams, ParseOPT3110
  <2>8. QED
    BY <2>4, <2>6, <2>7 DEF m, Names
<1>2. Names(Parse(MadeUpIAT(bdaddr)), 65457, bdaddr)
  <2> DEFINE m == MadeUpIAT(bdaddr)
  <2>1. m.data[28] = 255 /\ m.data[29] = 177 /\ m.bdaddr = bdaddr
    BY MadeUpBytes DEF MadeUpIAT
  <2> HIDE DEF m
  <2>2. getTapeId(m.data) = 65457
    BY <2>1 DEF getTapeId, U16At, Start
  <2>3. getBlePacketType(m.data) = "IAT"
    <3>1. getTapeId(m.data) = TapeIdOf["IAT"]
      BY <2>2 DEF TapeIdOf
    <3>2. "IAT" \in PacketTypes
      BY DEF PacketTypes, QuartzTypes
    <3>3. QED
      BY <3>1, <3>2, TypeOfId
  <2>4. Parse(m).blePktType = "IAT" /\ Parse(m).fields = ParseIAT(m)
    BY <2>3 DEF Parse
  <2>5. U16At(Parse(m).bleBuff, 22) = 65457
    BY <2>1, BuffId DEF Parse
  <2>6. RawParams(Parse(m)).id = bdaddr /\ U16At(RawParams(Parse(m)).G1, 22) = 65457
    BY <2>1, <2>4, <2>5 DEF RawParams, ParseIAT
  <2>7. FieldParams(Parse(m)).id = bdaddr /\ FieldParams(Parse(m)).tapeId = 65457
    BY <2>1, <2>2, <2>4 DEF FieldParams, ParseIAT
  <2>8. QED
    BY <2>4, <2>6, <2>7 DEF m, Names
<1>3. Names(Parse(MadeUpDPD(bdaddr)), 65456, bdaddr)
  <2> DEFINE m == MadeUpDPD(bdaddr)
  <2>1. m.data[28] = 255 /\ m.data[29] = 176 /\ m.bdaddr = bdaddr
    BY MadeUpBytes DEF MadeUpDPD
  <2> HIDE DEF m
  <2>2. getTapeId(m.data) = 65456
    BY <2>1 DEF getTapeId, U16At, Start
  <2>3. getBlePacketType(m.data) = "DPD"
    <3>1. getTapeId(m.data) = TapeIdOf["DPD"]
      BY <2>2 DEF TapeIdOf
    <3>2. "DPD" \in PacketTypes
      BY DEF PacketTypes, QuartzTypes
    <3>3. QED
      BY <3>1, <3>2, TypeOfId
  <2>4. Parse(m).blePktType = "DPD" /\ Parse(m).fields = ParseDPD(m)
    BY <2>3 DEF Parse
  <2>5. U16At(Parse(m).bleBuff, 22) = 65456
    BY <2>1, BuffId DEF Parse
  <2>6. RawParams(Parse(m)).id = bdaddr /\ U16At(RawParams(Parse(m)).G1, 22) = 65456
    BY <2>1, <2>4, <2>5 DEF RawParams, ParseDPD
  <2>7. FieldParams(Parse(m)).id = bdaddr /\ FieldParams(Parse(m)).tapeId = 65456
    BY <2>1, <2>2, <2>4 DEF FieldParams, ParseDPD
  <2>8. QED
    BY <2>4, <2>6, <2>7 DEF m, Names
<1>4. QED
  BY <1>1, <1>2, <1>3

\* A report leads to requests if it is a TMP117's, and then to four: its own and
\* one for each made-up packet, of which only the first tells the ID of a TMP117.
LEMMA RequestsOfBurst ==
  ASSUME NEW a \in Adverts
  PROVE  /\ Parse(a).blePktType # "TMP117" => RequestsFor(a) = <<>>
         /\ Parse(a).blePktType = "TMP117" =>
              /\ Len(RequestsFor(a)) = 4 /\ DOMAIN RequestsFor(a) = 1..4
              /\ RequestsFor(a)[1] = IF isCurlReqFormatG1 THEN RawParams(Parse(a))
                                                          ELSE FieldParams(Parse(a))
              /\ \A k \in 1..4 :
                   /\ RequestsFor(a)[k].id = a.bdaddr
                   /\ ToldTapeId(RequestsFor(a)[k]) = TapeIdOf["TMP117"] <=> k = 1
<1>1. CASE Parse(a).blePktType # "TMP117"
  BY <1>1 DEF RequestsFor, Burst
<1>2. CASE Parse(a).blePktType = "TMP117"
  <2> DEFINE p1 == Parse(a)
             p2 == Parse(MadeUpOPT3110(a.bdaddr))
             p3 == Parse(MadeUpIAT(a.bdaddr))
             p4 == Parse(MadeUpDPD(a.bdaddr))
             told == RequestsFor(a)
  <2>1. Burst(a) = <<p1, p2, p3, p4>>
    BY <1>2 DEF Burst
  <2>2. Names(p1, 65532, a.bdaddr)
    <3>1. getTapeId(a.data) = 65532
      <4>1. getBlePacketType(a.data) = "TMP117"
        BY <1>2 DEF Parse
      <4>2. \E t \in QuartzTypes : TapeIdOf[t] = getTapeId(a.data)
        BY <4>1 DEF getBlePacketType
      <4>3. getBlePacketType(a.data) \in QuartzTypes
            /\ TapeIdOf[getBlePacketType(a.data)] = getTapeId(a.data)
        BY <4>2 DEF getBlePacketType
      <4>4. QED
        BY <4>1, <4>3 DEF TapeIdOf
    <3>2. p1.fields = ParseTMP117(a) /\ p1.bleBuff = PacketBytes(a.data)
      BY <1>2 DEF Parse
    <3>3. U16At(p1.bleBuff, 22) = 65532
      BY <3>1, <3>2, BuffId DEF getTapeId, U16At, Start
    <3>4. RawParams(p1).id = a.bdaddr /\ U16At(RawParams(p1).G1, 22) = 65532
      BY <1>2, <3>2, <3>3 DEF RawParams, ParseTMP117
    <3>5. FieldParams(p1).id = a.bdaddr /\ FieldParams(p1).tapeId = 65532
      BY <1>2, <3>1, <3>2 DEF FieldParams, ParseTMP117
    <3>6. QED
      BY <3>4, <3>5 DEF Names
  <2>3. /\ Names(p2, 65530, a.bdaddr) /\ Names(p3, 65457, a.bdaddr)
        /\ Names(p4, 65456, a.bdaddr)
    BY MadeUpOthers
  <2>4. p1.blePktType = "TMP117"
    BY <1>2
  <2> HIDE DEF p1, p2, p3, p4
  <2>5. /\ DOMAIN told = 1..4 /\ Len(told) = 4
        /\ told[1] = IF isCurlReqFormatG1 THEN RawParams(p1) ELSE FieldParams(p1)
        /\ told[2] = IF isCurlReqFormatG1 THEN RawParams(p2) ELSE FieldParams(p2)
        /\ told[3] = IF isCurlReqFormatG1 THEN RawParams(p3) ELSE FieldParams(p3)
        /\ told[4] = IF isCurlReqFormatG1 THEN RawParams(p4) ELSE FieldParams(p4)
    BY <2>1 DEF RequestsFor
  <2> HIDE DEF told
  <2>6. ASSUME NEW k \in 1..4
        PROVE  /\ told[k].id = a.bdaddr
               /\ ToldTapeId(told[k]) = 65532 <=> k = 1
    <3>1. k = 1 \/ k = 2 \/ k = 3 \/ k = 4
      OBVIOUS
    <3>2. CASE isCurlReqFormatG1
      BY <2>2, <2>3, <2>5, <3>1, <3>2 DEF ToldTapeId, Names
    <3>3. CASE ~isCurlReqFormatG1
      BY <2>2, <2>3, <2>5, <3>1, <3>3 DEF ToldTapeId, Names
    <3>4. QED
      BY <3>2, <3>3
  <2>7. TapeIdOf["TMP117"] = 65532
    BY DEF TapeIdOf
  <2>8. QED
    BY <2>4, <2>5, <2>6, <2>7 DEF told, p1
<1>3. QED
  BY <1>1, <1>2

-----------------------------------------------------------------------------
(* The invariant, and what it implies.                                     *)

\* The packet and the requests are those of the report a.
ParsedFrom(a) ==
  /\ lastProcBleData = PacketBytes(a.data)
  /\ blePacketData = Parse(a)
  /\ requests = RequestsFor(a)

\* Either nothing has been processed, or the packet and the requests are those
\* of one of the tape's reports, and the one heard last has the same 24 bytes.
FormatInv ==
  /\ tape \in TapeKinds /\ isCurlReqFormatG1 \in BOOLEAN
  /\ \/ /\ lastProcBleData = <<>> /\ blePacketData = NoPacket /\ requests = <<>>
     \/ /\ heard \in SaidBy(tape) /\ lastProcBleData = PacketBytes(heard.data)
        /\ \E a \in SaidBy(tape) : ParsedFrom(a)

\* A comparison is never with nothing.
LEMMA PacketBytesNotEmpty ==
  ASSUME NEW d PROVE PacketBytes(d) # <<>>
<1>1. DOMAIN PacketBytes(d) = 1..24
  BY DEF PacketBytes, PacketLen
<1>2. 1 \in DOMAIN PacketBytes(d) /\ 1 \notin DOMAIN <<>>
  BY <1>1
<1>3. QED
  BY <1>2

LEMMA FormatInit ==
  ASSUME Init PROVE FormatInv
BY DEF Init, FormatInv

LEMMA FormatStep ==
  ASSUME FormatInv, [AnyNext]_vars
  PROVE  FormatInv'
<1>1. CASE UNCHANGED vars
  BY <1>1 DEF FormatInv, vars, ParsedFrom, RequestsFor
<1>2. CASE AnyNext
  <2>1. PICK a \in SaidBy(tape) : Process(a) \/ Drop(a)
    BY <1>2 DEF AnyNext
  <2>2. CASE Process(a)
    <3>1. /\ SaidBy(tape)' = SaidBy(tape) /\ tape' \in TapeKinds /\ isCurlReqFormatG1' \in BOOLEAN
      BY <2>2 DEF Process, FormatInv
    <3>2. ParsedFrom(a)'
      BY <2>2 DEF Process, ParsedFrom, Compared, RequestsFor
    <3>3. heard' = a /\ lastProcBleData' = PacketBytes(a.data)
      BY <2>2 DEF Process, Compared
    <3>4. QED
      BY <3>1, <3>2, <3>3 DEF FormatInv
  <2>3. CASE Drop(a)
    <3>1. /\ SaidBy(tape)' = SaidBy(tape) /\ tape' \in TapeKinds /\ isCurlReqFormatG1' \in BOOLEAN
          /\ heard' = a
      BY <2>3 DEF Drop, FormatInv
    <3>2. ASSUME NEW b PROVE ParsedFrom(b)' <=> ParsedFrom(b)
      BY <2>3 DEF Drop, ParsedFrom, RequestsFor
    <3>3. CASE lastProcBleData = <<>>
      <4>1. blePacketData = NoPacket /\ requests = <<>>
        BY <3>3, PacketBytesNotEmpty DEF FormatInv
      <4>2. QED
        BY <2>3, <3>1, <3>3, <4>1 DEF Drop, FormatInv, NoPacket
    <3>4. CASE lastProcBleData # <<>>
      <4>1. lastProcBleData = PacketBytes(a.data)
        BY <2>3, <3>4 DEF Drop, Compared
      <4>2. \E b \in SaidBy(tape) : ParsedFrom(b)
        BY <3>4 DEF FormatInv
      <4>3. lastProcBleData' = lastProcBleData
        BY <2>3 DEF Drop
      <4>4. QED
        BY <3>1, <3>2, <4>1, <4>2, <4>3 DEF FormatInv
    <3>5. QED
      BY <3>3, <3>4
  <2>4. QED
    BY <2>1, <2>2, <2>3
<1>3. QED
  BY <1>1, <1>2

\* What a processed report makes known: the report a whose packet it is, of the
\* tape's type, with the 24 bytes of the one heard last.
LEMMA ProcessedReport ==
  ASSUME FormatInv, lastProcBleData # <<>>
  PROVE  /\ heard \in Adverts /\ heard.length = tape.length
         /\ \E a \in Adverts :
              /\ ParsedFrom(a) /\ SamePacket(a, heard)
              /\ getBlePacketType(a.data) = tape.type
<1>1. tape \in TapeKinds /\ tape.type \in PacketTypes
  BY DEF FormatInv, TapeKinds
<1>2. /\ heard \in SaidBy(tape) /\ lastProcBleData = PacketBytes(heard.data)
  BY DEF FormatInv
<1>3. PICK a \in SaidBy(tape) : ParsedFrom(a)
  BY DEF FormatInv
<1>4. /\ heard \in Adverts /\ heard.length = tape.length /\ a \in Adverts
      /\ getTapeId(a.data) = TapeIdOf[tape.type]
  BY <1>2, <1>3 DEF SaidBy
<1>5. SamePacket(a, heard)
  BY <1>2, <1>3, <1>4, SameBytes DEF ParsedFrom
<1>6. getBlePacketType(a.data) = tape.type
  BY <1>1, <1>4, TypeOfId
<1>7. QED
  BY <1>3, <1>4, <1>5, <1>6

LEMMA FormatTypes ==
  ASSUME FormatInv PROVE TypeOK
<1>1. CASE lastProcBleData = <<>>
  <2>1. blePacketData = NoPacket /\ requests = <<>>
    BY <1>1, PacketBytesNotEmpty DEF FormatInv
  <2>2. blePacketData.blePktType = "Unknown" /\ blePacketData.fields = NoFields
        /\ Len(requests) = 0
    BY <2>1 DEF NoPacket
  <2>3. QED
    BY <2>2 DEF FormatInv, TypeOK, PacketTypes
<1>2. CASE lastProcBleData # <<>>
  <2>1. PICK a \in Adverts : ParsedFrom(a)
    BY <1>2, ProcessedReport
  <2>2. blePacketData = Parse(a) /\ requests = RequestsFor(a)
    BY <2>1 DEF ParsedFrom
  <2>3. blePacketData.blePktType \in PacketTypes
    BY <2>2, PacketTypeKnown DEF Parse
  <2>4. Len(requests) \in {0, 4}
    BY <2>2, RequestsOfBurst
  <2>5. blePacketData.fields # NoFields => Wide(blePacketData.blePktType, blePacketData.fields)
    BY <2>1, <2>2, FieldWidths
  <2>6. QED
    BY <2>3, <2>4, <2>5 DEF FormatInv, TypeOK
<1>3. QED
  BY <1>1, <1>2

LEMMA FormatDocumented ==
  ASSUME FormatInv PROVE FieldsAsDocumented
<1>1. SUFFICES ASSUME LastProcessed,
                      NEW f \in DOMAIN Layout[blePacketData.blePktType]
                                  \ Deviating[blePacketData.blePktType]
               PROVE  \/ Unreadable(blePacketData.blePktType, f, heard)
                      \/ AsDocumented(blePacketData, heard, f)
  BY DEF FieldsAsDocumented
<1>2. lastProcBleData # <<>>
  BY <1>1, PacketBytesNotEmpty DEF LastProcessed, Compared
<1>3. heard \in Adverts
  BY <1>2, ProcessedReport
<1>4. PICK a \in Adverts : ParsedFrom(a) /\ SamePacket(a, heard)
  BY <1>2, ProcessedReport
<1>5. blePacketData.blePktType = getBlePacketType(a.data) /\ blePacketData = Parse(a)
  BY <1>4 DEF ParsedFrom, Parse
<1>6. CASE blePacketData.blePktType = "TMP117"
  <2>1. blePacketData.fields = ParseTMP117(a)
    BY <1>5, <1>6 DEF Parse
  <2>2. QED
    BY <1>1, <1>3, <1>4, <1>6, <2>1, TMP117Documented
<1>7. CASE blePacketData.blePktType = "OPT3110"
  <2>1. blePacketData.fields = ParseOPT3110(a)
    BY <1>5, <1>7 DEF Parse
  <2>2. QED
    BY <1>1, <1>3, <1>4, <1>7, <2>1, OPT3110Documented
<1>8. CASE blePacketData.blePktType = "IAT"
  <2>1. blePacketData.fields = ParseIAT(a)
    BY <1>5, <1>8 DEF Parse
  <2>2. QED
    BY <1>1, <1>3, <1>4, <1>8, <2>1, IATDocumented
<1>9. CASE blePacketData.blePktType = "DPD"
  <2>1. blePacketData.fields = ParseDPD(a)
    BY <1>5, <1>9 DEF Parse
  <2>2. QED
    BY <1>1, <1>3, <1>4, <1>9, <2>1, DPDDocumented
<1>10. CASE blePacketData.blePktType = "Unknown"
  BY <1>1, <1>10 DEF Layout
<1>11. QED
  BY <1>5, <1>6, <1>7, <1>8, <1>9, <1>10, PacketTypeKnown DEF PacketTypes, QuartzTypes

\* Requests follow the packet of a TMP117 report only.
LEMMA RequestsOfTape ==
  ASSUME FormatInv, requests # <<>>
  PROVE  /\ heard \in Adverts /\ tape.type = "TMP117"
         /\ \E a \in Adverts :
              /\ SamePacket(a, heard) /\ PacketBytes(a.data) = PacketBytes(heard.data)
              /\ Parse(a).blePktType = "TMP117" /\ Parse(a).fields = ParseTMP117(a)
              /\ Parse(a).bleBuff = PacketBytes(a.data)
              /\ requests = RequestsFor(a)
<1>1. lastProcBleData # <<>> /\ lastProcBleData = PacketBytes(heard.data)
  BY PacketBytesNotEmpty DEF FormatInv
<1>2. heard \in Adverts
  BY <1>1, ProcessedReport
<1>3. PICK a \in Adverts : /\ ParsedFrom(a) /\ SamePacket(a, heard)
                           /\ getBlePacketType(a.data) = tape.type
  BY <1>1, ProcessedReport
<1>4. requests = RequestsFor(a) /\ PacketBytes(a.data) = PacketBytes(heard.data)
  BY <1>1, <1>3 DEF ParsedFrom
<1>5. Parse(a).blePktType = "TMP117"
  BY <1>4, RequestsOfBurst
<1>6. Parse(a).fields = ParseTMP117(a) /\ Parse(a).bleBuff = PacketBytes(a.data)
      /\ tape.type = "TMP117"
  BY <1>3, <1>5 DEF Parse
<1>7. QED
  BY <1>2, <1>3, <1>4, <1>5, <1>6

LEMMA FormatUpToDate ==
  ASSUME FormatInv PROVE CloudUpToDate
<1>1. SUFFICES ASSUME requests # <<>>
               PROVE  /\ \A k \in DOMAIN requests :
                           /\ requests[k].id = heard.bdaddr
                           /\ ToldTapeId(requests[k]) = TapeIdOf[tape.type] <=> k = 1
                      /\ IF isCurlReqFormatG1
                           THEN \A k \in 1..(heard.length - Start) :
                                  requests[1].G1[k] = heard.data[Start + k - 1]
                           ELSE \A p \in DOMAIN ParamField :
                                  LET f == ParamField[p]
                                  IN \/ Unreadable("TMP117", f, heard)
                                     \/ requests[1][p] = Read(heard.data, Layout.TMP117[f])
  BY DEF CloudUpToDate
<1>2. heard \in Adverts /\ tape.type = "TMP117"
  BY <1>1, RequestsOfTape
<1>3. PICK a \in Adverts :
        /\ SamePacket(a, heard) /\ PacketBytes(a.data) = PacketBytes(heard.data)
        /\ Parse(a).blePktType = "TMP117" /\ Parse(a).fields = ParseTMP117(a)
        /\ Parse(a).bleBuff = PacketBytes(a.data)
        /\ requests = RequestsFor(a)
  BY <1>1, RequestsOfTape
<1>4. /\ requests[1] = IF isCurlReqFormatG1 THEN RawParams(Parse(a)) ELSE FieldParams(Parse(a))
      /\ DOMAIN requests = 1..4
      /\ \A k \in 1..4 : /\ requests[k].id = a.bdaddr
                         /\ ToldTapeId(requests[k]) = TapeIdOf["TMP117"] <=> k = 1
  BY <1>3, RequestsOfBurst
<1>5. a.bdaddr = heard.bdaddr
  BY <1>2 DEF Adverts
<1>6. CASE isCurlReqFormatG1
  <2>1. requests[1].G1 = PacketBytes(heard.data)
    BY <1>3, <1>4, <1>6 DEF RawParams
  <2>2. heard.length - Start \in 0..24
    BY <1>2 DEF Adverts, Start
  <2>3. \A k \in 1..(heard.length - Start) : requests[1].G1[k] = heard.data[Start + k - 1]
    BY <2>1, <2>2 DEF PacketBytes, PacketLen
  <2>4. QED
    BY <1>2, <1>4, <1>5, <1>6, <2>3
<1>7. CASE ~isCurlReqFormatG1
  <2>1. ASSUME NEW p \in DOMAIN ParamField
        PROVE  \/ Unreadable("TMP117", ParamField[p], heard)
               \/ requests[1][p] = Read(heard.data, Layout.TMP117[ParamField[p]])
    <3> DEFINE f == ParamField[p]
    <3>1. f \in DOMAIN Layout["TMP117"] \ Deviating["TMP117"]
      BY DEF ParamField, Layout, Deviating
    <3>2. requests[1][p] = Parse(a).fields[f]
      <4>1. requests[1] = FieldParams(Parse(a))
        BY <1>4, <1>7
      <4>2. FieldParams(Parse(a))[p] = ParseTMP117(a)[f]
        BY <1>3 DEF FieldParams, ParseTMP117, ParamField
      <4>3. QED
        BY <1>3, <4>1, <4>2
    <3>3. Unreadable("TMP117", f, heard) \/ AsDocumented(Parse(a), heard, f)
      BY <1>2, <1>3, <3>1, TMP117Documented
    <3>4. QED
      BY <1>3, <3>2, <3>3 DEF AsDocumented
  <2>2. QED
    BY <1>2, <1>4, <1>5, <1>7, <2>1
<1>8. QED
  BY <1>6, <1>7

\* The comparison is with the bytes of the packet itself.
LEMMA FormatResend ==
  ASSUME FormatInv, [AnyNext]_vars, PacketBytes(heard'.data) = blePacketData.bleBuff
  PROVE  UNCHANGED <<blePacketData, requests>>
<1>1. CASE UNCHANGED vars
  BY <1>1 DEF vars
<1>2. CASE AnyNext
  <2>1. PICK a \in SaidBy(tape) : Process(a) \/ Drop(a)
    BY <1>2 DEF AnyNext
  <2>2. heard' = a
    BY <2>1 DEF Process, Drop
  <2>3. blePacketData.bleBuff = lastProcBleData
    <3>1. CASE lastProcBleData = <<>>
      BY <3>1, PacketBytesNotEmpty DEF FormatInv, NoPacket
    <3>2. CASE lastProcBleData # <<>>
      <4>1. PICK b \in SaidBy(tape) : ParsedFrom(b)
        BY <3>2 DEF FormatInv
      <4>2. Parse(b).bleBuff = PacketBytes(b.data)
        BY DEF Parse
      <4>3. QED
        BY <4>1, <4>2 DEF ParsedFrom
    <3>3. QED
      BY <3>1, <3>2
  <2>4. ~Process(a)
    BY <2>2, <2>3 DEF Process, Compared
  <2>5. QED
    BY <2>1, <2>4 DEF Drop
<1>3. QED
  BY <1>1, <1>2

-----------------------------------------------------------------------------
(* The theorems.                                                           *)

LEMMA FormatInvariant == AnySpec => []FormatInv
<1>1. Init => FormatInv
  BY FormatInit
<1>2. FormatInv /\ [AnyNext]_vars => FormatInv'
  BY FormatStep
<1>3. QED
  BY <1>1, <1>2, PTL DEF AnySpec

\* Whatever bytes a tape says, and however often it changes them: the widths of
\* the packet, which fields come from where the header says, which of the last
\* requests tells what, and that a repeated full report makes none
\* (tapeFormat.cpp:48-206, main.cpp:445-543, 586-600, 689-817).
THEOREM AnyBytes ==
  AnySpec => /\ [](TypeOK /\ FieldsAsDocumented /\ CloudUpToDate)
             /\ ResendDropped
<1>1. FormatInv => TypeOK /\ FieldsAsDocumented /\ CloudUpToDate
  BY FormatTypes, FormatDocumented, FormatUpToDate
<1>2. FormatInv /\ [AnyNext]_vars =>
        [tape.length = 31 /\ PacketBytes(heard'.data) = blePacketData.bleBuff
           => UNCHANGED <<blePacketData, requests>>]_vars
  BY FormatResend
<1>3. QED
  BY <1>1, <1>2, FormatInvariant, PTL DEF AnySpec, ResendDropped

KnownTape == tape \in TapeKinds

\* TLC's reports are among them.
LEMMA AnyReports == Spec => AnySpec
<1>1. Init => KnownTape
  BY DEF Init, KnownTape
<1>2. KnownTape /\ [Next]_vars => KnownTape' /\ [AnyNext]_vars
  <2>1. SUFFICES ASSUME tape \in TapeKinds, [Next]_vars
                 PROVE  tape' \in TapeKinds /\ [AnyNext]_vars
    BY DEF KnownTape
  <2>2. CASE UNCHANGED vars
    BY <2>1, <2>2 DEF vars
  <2>3. CASE Next
    <3>1. PICK a \in Reports : Process(a) \/ Drop(a)
      BY <2>3 DEF Next
    <3>2. a \in SaidBy(tape)
      BY <2>1, ReportsOfTape
    <3>3. tape' = tape
      BY <3>1 DEF Process, Drop
    <3>4. QED
      BY <2>1, <3>1, <3>2, <3>3 DEF AnyNext
  <2>4. QED
    BY <2>1, <2>2, <2>3
<1>3. QED
  BY <1>1, <1>2, PTL DEF Spec, AnySpec

\* A parsed packet has the declared widths and leads to no request or to four
\* (tapeFormat.cpp:99-205, main.cpp:702-817).
THEOREM TypeCorrect == Spec => []TypeOK
BY AnyBytes, AnyReports, PTL

\* The fields of a TMP117, of an OPT3110 but the lights, of an IAT but the
\* temperatures and the acceleration, and of a DPD the FID and the event flag, are
\* what tapeFormat.h:136-293 says of the bytes of the report heard last, also when
\* that one was dropped as a duplicate of the one that was parsed.  A temperature
\* below zero and the battery of a report without its byte are left out.
THEOREM Documented == Spec => []FieldsAsDocumented
BY AnyBytes, AnyReports, PTL

\* Of the last four requests under the address of a TMP117 tape the first, and no
\* other, names a TMP117, and it tells what the tape's last report outside the
\* hold-off said: none that the duplicates check drops says anything else
\* (main.cpp:445-475, 590-594, 702-817).
THEOREM UpToDate == Spec => []CloudUpToDate
BY AnyBytes, AnyReports, PTL

\* A full report that says what was last processed makes no request, at whatever
\* strength it is heard (main.cpp:586-600).
THEOREM Resend == Spec => ResendDropped
BY AnyBytes, AnyReports, PTL

=============================================================================
