----------------------- MODULE FirmwareUpdate_proofs -----------------------
(***************************************************************************)
(* Theorems about FirmwareUpdate, for any files, any number of sectors and *)
(* any number of power failures, and about ResetLimit, for any limit.      *)
(***************************************************************************)
EXTENDS FirmwareUpdate, ResetLimit, TLAPS

-----------------------------------------------------------------------------
(* Sectors and files.                                                      *)

\* A file has at least one sector and fits its area (IF_Nvm.h:45).
LEMMA FileSectorsRange ==
    ASSUME NEW i \in Images
    PROVE  FileSectors(i) \in 1 .. MaxSectors
BY AreaAssumption DEF FileSectors

\* The area starts with the sector that carries the header.
LEMMA HeaderSector == 1 \in Sectors
BY AreaAssumption DEF Sectors

\* The number of sectors decrypted stays inside the area.
LEMMA DecryptRange ==
    ASSUME NEW img \in Images \cup {NoImage, Junk}, NEW n \in DecryptSectors(img)
    PROVE  n \in 0 .. MaxSectors
BY FileSectorsRange, AreaAssumption, BootAssumption DEF DecryptSectors, Sectors

\* A torn write leaves an area.
LEMMA TornWriteType ==
    ASSUME NEW area \in Area, NEW k, NEW c \in Content,
           NEW result \in TornWrite(area, k, c)
    PROVE  result \in Area
<1>1. Blank \in Content
  BY DEF Blank, Content
<1>2. [c EXCEPT !.whole = FALSE] \in Content
  BY DEF Content
<1> QED
  BY <1>1, <1>2 DEF TornWrite, Area

\* What a boot step leaves of a file's sectors copied from another area is
\* as good as the original.
LEMMA CopyIntact ==
    ASSUME NEW a \in Area, NEW b \in Area, b[1].img \in Images,
           Copied(a, b, FileSectors(b[1].img))
    PROVE  /\ Intact(a) <=> Intact(b)
           /\ a[1].img = b[1].img
<1>1. a[1] = b[1]
  BY FileSectorsRange DEF Copied
<1> QED
  BY <1>1 DEF Copied, Intact

-----------------------------------------------------------------------------
(* Types.                                                                  *)

LEMMA BootStepTyped ==
    ASSUME BootTypeOK, BootStep
    PROVE  BootTypeOK'
<1> USE DEF BootTypeOK, FlashTypeOK, Booting, Up, LoopDone, flashVars
<1>1. CASE Start
  <2>1. enc[1].img \in Images \cup {NoImage, Junk}
    BY HeaderSector DEF Area, Content
  <2>2. resets' \in 0 .. BlankByte
    BY <1>1, BootAssumption DEF Start, ReadResetTimes
  <2> QED BY <1>1, <2>1, <2>2, DecryptRange DEF Start
<1>2. CASE DecryptSector
  BY <1>2, AreaAssumption DEF DecryptSector, Area, Sectors
<1>3. CASE DecryptOverrun
  <2>1. flag' \in BOOLEAN
    BY <1>3, Zenon DEF DecryptOverrun
  <2>2. raw' \in Area
    BY <1>3 DEF DecryptOverrun
  <2> QED BY <1>3, <2>1, <2>2, AreaAssumption DEF DecryptOverrun
<1>4. CASE DecryptDone
  BY <1>4, AreaAssumption DEF DecryptDone
<1>5. CASE CheckRawGood
  BY <1>5, FileSectorsRange, AreaAssumption DEF CheckRawGood, CheckRawDownloadFile, Intact
<1>6. CASE CheckRawBad
  BY <1>6 DEF CheckRawBad
<1>7. CASE CheckRawFault
  BY <1>7 DEF CheckRawFault
<1>8. CASE CopySector
  BY <1>8, AreaAssumption DEF CopySector, Area, Sectors
<1>9. CASE CopyDone
  BY <1>9, AreaAssumption DEF CopyDone
<1>10. CASE CheckRun
  BY <1>10 DEF CheckRun
<1>11. CASE EraseFlag
  BY <1>11 DEF EraseFlag
<1>12. CASE Jump
  BY <1>12, AreaAssumption DEF Jump
<1> QED
  BY <1>1, <1>2, <1>3, <1>4, <1>5, <1>6, <1>7, <1>8, <1>9, <1>10, <1>11, <1>12
     DEF BootStep

LEMMA RestartTyped ==
    ASSUME BootTypeOK, Restart
    PROVE  /\ pc' \in Booting \cup Up
           /\ idx' \in 1 .. MaxSectors + 1
           /\ todo' \in 0 .. MaxSectors
           /\ erasing' \in BOOLEAN
           /\ resets' \in 0 .. BlankByte
           /\ running' \in Images \cup {NoImage}
<1>1. pc' \in Booting \cup Up
  BY DEF Restart, Booting
<1>2. idx' \in 1 .. MaxSectors + 1 /\ todo' \in 0 .. MaxSectors
  BY AreaAssumption DEF Restart, LoopDone
<1>3. erasing' \in BOOLEAN
  BY DEF Restart
<1>4. resets' \in 0 .. BlankByte
  BY DEF BootTypeOK, Restart
<1>5. running' \in Images \cup {NoImage}
  BY DEF Restart
<1> QED
  BY <1>1, <1>2, <1>3, <1>4, <1>5

LEMMA PowerFailsTyped ==
    ASSUME BootTypeOK, PowerFails
    PROVE  BootTypeOK'
<1>1. Restart
  BY DEF PowerFails
<1>2. raw' \in Area
  <2>1. CASE pc = "decrypt" /\ idx <= todo
    <3>1. enc[idx] \in Content
      BY <2>1, AreaAssumption DEF BootTypeOK, FlashTypeOK, Area, Sectors
    <3> QED BY <2>1, <3>1, TornWriteType DEF PowerFails, BootTypeOK, FlashTypeOK
  <2>2. CASE ~ (pc = "decrypt" /\ idx <= todo)
    BY <2>2 DEF PowerFails, BootTypeOK, FlashTypeOK
  <2> QED BY <2>1, <2>2
<1>3. run' \in Area
  <2>1. CASE pc = "copy" /\ idx <= todo
    <3>1. raw[idx] \in Content
      BY <2>1, AreaAssumption DEF BootTypeOK, FlashTypeOK, Area, Sectors
    <3> QED BY <2>1, <3>1, TornWriteType DEF PowerFails, BootTypeOK, FlashTypeOK
  <2>2. CASE ~ (pc = "copy" /\ idx <= todo)
    BY <2>2 DEF PowerFails, BootTypeOK, FlashTypeOK
  <2> QED BY <2>1, <2>2
<1>4. flag' \in BOOLEAN
  <2>1. CASE pc = "erase"
    BY <2>1, Zenon DEF PowerFails, BootTypeOK, FlashTypeOK
  <2>2. CASE pc # "erase"
    BY <2>2, Zenon DEF PowerFails, BootTypeOK, FlashTypeOK
  <2> QED BY <2>1, <2>2
<1>5. enc' \in Area
  BY DEF PowerFails, BootTypeOK, FlashTypeOK
<1> QED
  BY <1>1, <1>2, <1>3, <1>4, <1>5, RestartTyped DEF BootTypeOK, FlashTypeOK

\* What port p writes is an area again.
LEMMA WrittenAreaType ==
    ASSUME FlashTypeOK, NEW p \in Ports, sess[p].file \in Images \cup {NoImage}
    PROVE  WrittenArea(p) \in Area
<1>1. BufContent(p) \in Content
  BY DEF BufContent, Whole, Torn, Scrambled, Blank, Content
<1>2. Scrambled \in Content /\ Torn(sess[p].file) \in Content
  BY DEF Scrambled, Torn, Content
<1> DEFINE start == WriteStart(p)
           k == (start \div 2) + 1
<1> HIDE DEF start, k
<1>3. [enc EXCEPT ![k] = BufContent(p)] \in Area
  BY <1>1 DEF FlashTypeOK, Area
<1>4. [j \in Sectors |-> IF j = k THEN Scrambled
                         ELSE IF j = k + 1 THEN Torn(sess[p].file) ELSE enc[j]] \in Area
  BY <1>2 DEF FlashTypeOK, Area
<1> QED
  BY <1>3, <1>4 DEF WrittenArea, start, k

\* No file has more frames than an area has half sectors.
LEMMA ChunksRange ==
    ASSUME NEW f \in Files
    PROVE  Chunks(f) \in 1 .. MaxFrames
BY AreaAssumption DEF Chunks, Files, MaxFrames

\* A transfer's record, on its own.
SessionOK(s) ==
    /\ s \in Sessions
    /\ s.file \in Images => s.pos = s.exp
    /\ s.file \in AlienFiles => s.fill = 0
    /\ s.at # "write" => s.fill \in 0 .. 1
    /\ s.at # "idle" => s.file \in Images

LEMMA SessionsOK ==
    DownloadTypeOK /\ TransferInv <=>
        /\ sess = [p \in Ports |-> sess[p]]
        /\ \A p \in Ports : SessionOK(sess[p])
BY DEF DownloadTypeOK, TransferInv, SessionOK

LEMMA NoSessionOK == SessionOK(NoSession)
BY AreaAssumption, DownloadAssumption DEF SessionOK, NoSession, Sessions, MaxFrames, Files

LEMMA TransferTyped ==
    ASSUME FlashTypeOK, DownloadTypeOK, TransferInv, DownloadStep
    PROVE  /\ FlashTypeOK'
           /\ DownloadTypeOK'
           /\ TransferInv'
           /\ UNCHANGED <<raw, run>>
           /\ flag => flag'
<1>0. PICK p \in Ports : Frame(p) \/ ReadProcessData(p) \/ Handle(p)
  BY DEF DownloadStep
<1> DEFINE s == sess[p]
<1>1. /\ SessionOK(s)
      /\ \A q \in Ports : SessionOK(sess[q])
      /\ sess \in [Ports -> Sessions]
  BY SessionsOK DEF DownloadTypeOK
\* a step that replaces p's record by another one that is in order
<1>2. ASSUME NEW t, SessionOK(t), sess' = [sess EXCEPT ![p] = t]
      PROVE  DownloadTypeOK' /\ TransferInv'
  <2>1. sess' \in [Ports -> Sessions]
    BY <1>1, <1>2 DEF SessionOK
  <2>2. \A q \in Ports : SessionOK(sess'[q])
    BY <1>1, <1>2
  <2> QED BY <2>1, <2>2 DEF DownloadTypeOK, TransferInv, SessionOK
<1>3. ASSUME NEW no \in 0 .. MaxFrames, NEW f \in Files, AlienFrame(p, no, f)
      PROVE  DownloadTypeOK' /\ TransferInv'
  <2> DEFINE o == Opened(p, no, f)
             t == [o EXCEPT !.exp = no + 1]
  <2>1. no + 1 \in 0 .. MaxFrames
    BY <1>3, ChunksRange, AreaAssumption DEF AlienFrame, MaxFrames
  <2>2. f \in AlienFiles /\ f \notin Images
    BY <1>3, DownloadAssumption DEF AlienFrame
  <2>3. SessionOK(o) /\ o.file = f /\ o.at = "idle"
    <3>1. CASE no = 0
      BY <3>1, <2>2, NoSessionOK DEF Opened, NoSession, SessionOK, Sessions
    <3>2. CASE no # 0
      BY <3>2, <1>3, <1>1 DEF Opened, AlienFrame, Expected
    <3> QED BY <3>1, <3>2
  <2>4. SessionOK(t)
    BY <2>1, <2>2, <2>3 DEF SessionOK, Sessions
  <2> QED BY <2>4, <1>3, <1>2 DEF AlienFrame
<1>4. ASSUME NEW no \in 0 .. MaxFrames, NEW f \in Files, NEW last \in BOOLEAN,
             AcceptFrame(p, no, f, last)
      PROVE  DownloadTypeOK' /\ TransferInv'
  <2> DEFINE o == Opened(p, no, f)
  <2>1. no + 1 \in 0 .. MaxFrames
    BY <1>4, ChunksRange, AreaAssumption DEF AcceptFrame, MaxFrames
  <2>2. f \in Images /\ f \notin AlienFiles
    BY <1>4, DownloadAssumption DEF AcceptFrame
  <2>3. SessionOK(o) /\ o.file = f /\ o.at = "idle" /\ o.exp = no
    <3>1. CASE no = 0
      BY <3>1, <2>2, NoSessionOK DEF Opened, NoSession, SessionOK, Sessions
    <3>2. CASE no # 0
      BY <3>2, <1>4, <1>1 DEF Opened, AcceptFrame, Expected
    <3> QED BY <3>1, <3>2
  <2>4. /\ o.at = "idle" /\ o.exp = no /\ o.pos = no /\ o.fill \in 0 .. 1
        /\ o.kept \in BOOLEAN /\ o.file = f
    BY <2>2, <2>3 DEF SessionOK, Sessions
  <2> HIDE DEF o
  <2>5. Stored(o, last) \in Sessions
    BY <2>1, <2>4 DEF Stored, Sessions
  <2>6. SessionOK(Stored(o, last))
    BY <2>2, <2>4, <2>5 DEF SessionOK, Stored
  <2> QED BY <2>6, <1>4, <1>2 DEF AcceptFrame, o
<1>5. ASSUME NEW no \in 0 .. MaxFrames, NEW f \in Files, NEW last \in BOOLEAN,
             AlienFrame(p, no, f) \/ AcceptFrame(p, no, f, last)
      PROVE  UNCHANGED flashVars
  BY <1>5 DEF AlienFrame, AcceptFrame
<1>6. CASE Frame(p)
  BY <1>6, <1>3, <1>4, <1>5 DEF Frame, flashVars, FlashTypeOK
<1>7. CASE ReadProcessData(p)
  <2>1. UNCHANGED flashVars
    BY <1>7 DEF ReadProcessData
  <2>2. CASE p = "bsip"
    <3> DEFINE t == [s EXCEPT !.kept = (s.fill = 0)]
    <3>1. SessionOK(t)
      BY <1>1 DEF SessionOK, Sessions
    <3>2. sess' = [sess EXCEPT ![p] = t]
      BY <1>7, <2>2 DEF ReadProcessData
    <3> QED BY <3>1, <3>2, <1>2, <2>1 DEF flashVars, FlashTypeOK
  <2>3. CASE p # "bsip"
    <3>1. sess' = [sess EXCEPT ![p] = NoSession]
      BY <1>7, <2>3 DEF ReadProcessData
    <3> QED BY <3>1, NoSessionOK, <1>2, <2>1 DEF flashVars, FlashTypeOK
  <2> QED BY <2>2, <2>3
<1>8. CASE WriteSector(p)
  <2>1. PICK t : /\ t = [s EXCEPT !.fill = 0, !.kept = TRUE,
                                  !.at = IF s.last THEN "length" ELSE "idle"]
                 /\ sess' = [sess EXCEPT ![p] = t]
    BY <1>8, Zenon DEF WriteSector
  <2>2. PICK a \in {"length", "idle"} :
           t = [at |-> a, exp |-> s.exp, pos |-> s.pos, fill |-> 0,
                kept |-> TRUE, file |-> s.file, last |-> s.last]
    BY <2>1, <1>1 DEF SessionOK, Sessions
  <2>3. s.file \in Images
    BY <1>8, <1>1 DEF WriteSector, SessionOK
  <2>4. SessionOK(t)
    <3>1. t \in Sessions
      BY <2>2, <1>1 DEF SessionOK, Sessions
    <3> QED BY <2>2, <2>3, <3>1, <1>1, DownloadAssumption DEF SessionOK
  <2>5. enc' = WrittenArea(p) /\ UNCHANGED <<raw, run, flag>>
    BY <1>8 DEF WriteSector
  <2>6. enc' \in Area
    BY <2>3, <2>5, WrittenAreaType
  <2> QED BY <1>2, <2>1, <2>4, <2>5, <2>6 DEF FlashTypeOK
<1>9. CASE FlushSector(p)
  <2> DEFINE t == [s EXCEPT !.at = "length"]
  <2>1. s.file \in Images /\ s.fill \in 0 .. 1
    BY <1>9, <1>1 DEF FlushSector, SessionOK
  <2>2. SessionOK(t)
    BY <2>1, <1>1 DEF SessionOK, Sessions
  <2>3. sess' = [sess EXCEPT ![p] = t] /\ UNCHANGED <<raw, run, flag>>
    BY <1>9 DEF FlushSector
  <2>4. enc' \in Area
    BY <2>1, <1>9, WrittenAreaType DEF FlushSector, FlashTypeOK
  <2> QED BY <1>2, <2>2, <2>3, <2>4 DEF FlashTypeOK
<1>10. CASE CheckLength(p) \/ CheckCrc(p)
  <2>1. UNCHANGED flashVars /\ s.at \in {"length", "crc"}
    BY <1>10 DEF CheckLength, CheckCrc
  <2>2. s.file \in Images /\ s.fill \in 0 .. 1
    BY <2>1, <1>1 DEF SessionOK
  <2>3. CASE \E a \in {"crc", "setflag"} : sess' = [sess EXCEPT ![p].at = a]
    <3>1. PICK a \in {"crc", "setflag"} : sess' = [sess EXCEPT ![p].at = a]
      BY <2>3
    <3> DEFINE t == [s EXCEPT !.at = a]
    <3>2. SessionOK(t)
      BY <2>2, <1>1 DEF SessionOK, Sessions
    <3>3. sess' = [sess EXCEPT ![p] = t]
      BY <3>1
    <3> QED BY <3>2, <3>3, <1>2, <2>1 DEF flashVars, FlashTypeOK
  <2>4. CASE Return(p)
    <3>1. PICK t : /\ t = [s EXCEPT !.at = "idle", !.last = FALSE]
                   /\ sess' = [sess EXCEPT ![p] = t]
      BY <2>4, Zenon DEF Return
    <3>2. t = [at |-> "idle", exp |-> s.exp, pos |-> s.pos, fill |-> s.fill,
               kept |-> s.kept, file |-> s.file, last |-> FALSE]
      BY <3>1, <1>1 DEF SessionOK, Sessions
    <3>3. t \in Sessions
      BY <3>2, <1>1 DEF SessionOK, Sessions
    <3>4. SessionOK(t)
      BY <3>2, <3>3, <2>2, <1>1 DEF SessionOK
    <3> QED BY <3>1, <3>4, <1>2, <2>1 DEF flashVars, FlashTypeOK
  <2> QED BY <2>3, <2>4, <1>10 DEF CheckLength, CheckCrc
<1>11. CASE WriteDownloadFlag(p)
  <2>1. flag' = TRUE /\ UNCHANGED <<enc, raw, run>> /\ s.at = "setflag"
    BY <1>11 DEF WriteDownloadFlag
  <2>2. /\ sess' = [q \in Ports |-> sess'[q]]
        /\ \A q \in Ports :
             sess'[q] = [sess[q] EXCEPT
                !.fill = IF q = "fgip" THEN 0 ELSE @,
                !.kept = @ /\ ~ (q = "fgip" /\ sess[q].at = "write"),
                !.at   = IF q = p THEN "idle" ELSE @,
                !.last = IF q = p THEN FALSE ELSE @]
    BY <1>11 DEF WriteDownloadFlag
  <2>3. ASSUME NEW q \in Ports
        PROVE  SessionOK(sess'[q])
    <3> DEFINE r == sess[q]
    <3>1. PICK n, m, a, l :
             /\ n = IF q = "fgip" THEN 0 ELSE r.fill
             /\ m = (r.kept /\ ~ (q = "fgip" /\ r.at = "write"))
             /\ a = IF q = p THEN "idle" ELSE r.at
             /\ l = IF q = p THEN FALSE ELSE r.last
      OBVIOUS
    <3>2. SessionOK(r) /\ r \in Sessions
      BY <1>1 DEF SessionOK
    <3>3. sess'[q] = [r EXCEPT !.fill = n, !.kept = m, !.at = a, !.last = l]
      BY <2>2, <3>1, <3>2 DEF Sessions
    <3>4. sess'[q] = [at |-> a, exp |-> r.exp, pos |-> r.pos, fill |-> n,
                      kept |-> m, file |-> r.file, last |-> l]
      BY <3>3, <3>2 DEF Sessions
    <3>5. /\ m \in BOOLEAN
          /\ l \in BOOLEAN
          /\ n \in 0 .. 2
          /\ a \in {"idle", "write", "flush", "length", "crc", "setflag"}
      <4>1. m \in BOOLEAN
        BY <3>1
      <4>2. r.last \in BOOLEAN
        BY <3>2 DEF Sessions
      <4>3. l \in BOOLEAN
        BY <4>2, <3>1, Zenon
      <4>4. /\ n \in 0 .. 2
            /\ a \in {"idle", "write", "flush", "length", "crc", "setflag"}
        BY <3>1, <3>2 DEF Sessions
      <4> QED BY <4>1, <4>3, <4>4
    <3>6. sess'[q] \in Sessions
      BY <3>2, <3>4, <3>5 DEF Sessions
    <3> QED BY <3>1, <3>2, <3>4, <3>6, <2>1 DEF SessionOK
  <2>4. DownloadTypeOK' /\ TransferInv'
    <3>1. sess' \in [Ports -> Sessions]
      BY <2>2, <2>3 DEF SessionOK
    <3> QED BY <3>1, <2>3 DEF DownloadTypeOK, TransferInv, SessionOK
  <2> QED BY <2>1, <2>4 DEF FlashTypeOK
<1> QED
  BY <1>0, <1>6, <1>7, <1>8, <1>9, <1>10, <1>11 DEF Handle, flashVars

\* A reset leaves no transfer behind.
LEMMA ForgottenOK ==
    ASSUME ForgetSessions
    PROVE  DownloadTypeOK' /\ TransferInv'
BY NoSessionOK DEF ForgetSessions, NoSessions, DownloadTypeOK, TransferInv, SessionOK

LEMMA DownloadTornTyped ==
    ASSUME FlashTypeOK, DownloadTypeOK, TransferInv, DownloadTorn
    PROVE  FlashTypeOK'
<1>1. CASE /\ flag' = FALSE
           /\ UNCHANGED <<enc, raw, run>>
  BY <1>1 DEF FlashTypeOK
<1>2. ASSUME NEW p \in Ports, sess[p].at \in {"write", "flush"},
             enc' \in TornWrite(enc, (WriteStart(p) \div 2) + 1,
                        WrittenArea(p)[(WriteStart(p) \div 2) + 1]),
             UNCHANGED <<raw, run, flag>>
      PROVE  FlashTypeOK'
  <2> DEFINE k == (WriteStart(p) \div 2) + 1
  <2>1. WrittenArea(p) \in Area
    BY <1>2, WrittenAreaType DEF TransferInv
  <2> HIDE DEF k
  <2>2. CASE k \in Sectors
    <3>1. WrittenArea(p)[k] \in Content
      BY <2>1, <2>2 DEF Area
    <3>2. enc' \in Area
      BY <1>2, <3>1, TornWriteType DEF FlashTypeOK, k
    <3> QED BY <1>2, <3>2 DEF FlashTypeOK
  <2>3. CASE k \notin Sectors
    <3>1. enc' \in {enc, [enc EXCEPT ![k] = Blank],
                    [enc EXCEPT ![k] = [WrittenArea(p)[k] EXCEPT !.whole = FALSE]]}
      BY <1>2 DEF TornWrite, k
    <3>2. enc' \in Area
      BY <3>1, <2>3 DEF FlashTypeOK, Area
    <3> QED BY <1>2, <3>2 DEF FlashTypeOK
  <2> QED BY <2>2, <2>3
<1> QED
  BY <1>1, <1>2 DEF DownloadTorn

\* TypeOK and what the transfers' types rest on, in every step.
LEMMA TypedStep ==
    ASSUME TypeOK, TransferInv, [Next]_vars
    PROVE  TypeOK' /\ TransferInv'
<1> USE DEF TypeOK
<1>1. CASE Boot
  <2>1. BootTypeOK'
    BY <1>1, BootStepTyped DEF Boot
  <2> QED BY <1>1, <2>1 DEF Boot, DownloadTypeOK, TransferInv
<1>2. CASE Confirm
  BY <1>2, BootAssumption
     DEF Confirm, ClearResetTimes, BootTypeOK, FlashTypeOK, flashVars,
         DownloadTypeOK, TransferInv
<1>3. CASE Transfer
  <2>1. FlashTypeOK' /\ DownloadTypeOK' /\ TransferInv'
    BY <1>3, TransferTyped DEF Transfer, BootTypeOK
  <2> QED BY <1>3, <2>1 DEF Transfer, BootTypeOK, bootVars
<1>4. CASE ResetRunning
  BY <1>4, ForgottenOK, RestartTyped
     DEF ResetRunning, Reset, BootTypeOK, FlashTypeOK, flashVars
<1>5. CASE ResetHung
  BY <1>5, RestartTyped
     DEF ResetHung, WatchdogReset, BootTypeOK, FlashTypeOK, flashVars,
         DownloadTypeOK, TransferInv
<1>6. CASE PowerLoss
  <2>1. DownloadTypeOK' /\ TransferInv' /\ losses' \in 0 .. MaxPowerLosses
    BY <1>6, ForgottenOK, PowerAssumption DEF PowerLoss
  <2>2. CASE PowerFails
    BY <2>1, <2>2, PowerFailsTyped
  <2>3. CASE Reset
    BY <2>1, <2>3, RestartTyped DEF Reset, BootTypeOK, FlashTypeOK, flashVars
  <2>4. CASE pc \in Up /\ Restart /\ DownloadTorn
    BY <2>1, <2>4, RestartTyped, DownloadTornTyped DEF BootTypeOK
  <2> QED BY <1>6, <2>2, <2>3, <2>4 DEF PowerLoss
<1>7. CASE UNCHANGED vars
  BY <1>7 DEF vars, bootVars, flashVars, BootTypeOK, FlashTypeOK, DownloadTypeOK,
              TransferInv
<1> QED
  BY <1>1, <1>2, <1>3, <1>4, <1>5, <1>6, <1>7 DEF Next

-----------------------------------------------------------------------------
(* The boot.                                                               *)

\* BootImage is determined by the pending download if it is good and by the
\* running area otherwise.
LEMMA BootImagePending ==
    ASSUME flag, PendingGood
    PROVE  BootImage = Pending[1].img
BY DEF BootImage, PendingGood

LEMMA BootImageRunning ==
    ASSUME ~ (flag /\ PendingGood)
    PROVE  BootImage = IF CheckRunningFile THEN run[1].img ELSE NoImage
BY DEF BootImage, PendingGood

\* The decrypting loop keeps what the boot will make of the download: it
\* overwrites sectors that the download decides.
LEMMA DecryptSectorKeeps ==
    ASSUME BootTypeOK, BootInv, DecryptSector
    PROVE  BootInv' /\ BootImage' = BootImage
<1>1. /\ pc = "decrypt" /\ pc' = "decrypt" /\ idx' = idx + 1 /\ idx <= todo
      /\ UNCHANGED <<enc, run, flag, todo, running>>
      /\ raw' = [raw EXCEPT ![idx] = enc[idx]]
  BY DEF DecryptSector
<1>2. idx \in 1 .. MaxSectors /\ todo \in 0 .. MaxSectors /\ raw \in Area /\ flag
  BY <1>1, AreaAssumption DEF BootTypeOK, FlashTypeOK, BootInv
<1>3. Copied(raw', enc', idx' - 1)
  BY <1>1, <1>2, AreaAssumption DEF BootInv, Copied, Area, Sectors
<1>4. enc[1].img # NoImage
  BY <1>1, <1>2, BootAssumption, AreaAssumption DEF BootInv, DecryptSectors
<1>5. BootImage' = BootImage
  BY <1>1, <1>4 DEF BootImage, Pending, Intact, CheckRunningFile
<1>6. BootInv'
  BY <1>1, <1>3 DEF BootInv, DecryptSectors
<1> QED BY <1>5, <1>6

\* The copying loop leaves the pending download alone.
LEMMA CopySectorKeeps ==
    ASSUME BootTypeOK, BootInv, CopySector
    PROVE  BootInv' /\ BootImage' = BootImage
<1>1. /\ pc = "copy" /\ pc' = "copy" /\ idx' = idx + 1 /\ idx <= todo
      /\ UNCHANGED <<enc, raw, flag, todo, running>>
      /\ run' = [run EXCEPT ![idx] = raw[idx]]
  BY DEF CopySector
<1>2. idx \in 1 .. MaxSectors /\ todo \in 0 .. MaxSectors /\ run \in Area
  BY <1>1, AreaAssumption DEF BootTypeOK, FlashTypeOK
<1>3. flag /\ PendingGood
  BY <1>1 DEF BootInv
<1>4. flag' /\ PendingGood' /\ Pending' = Pending
  BY <1>1, <1>3 DEF PendingGood, Pending, Intact
<1>5. BootImage' = BootImage
  BY <1>3, <1>4 DEF BootImage, PendingGood
<1>6. Copied(run', raw', idx' - 1)
  BY <1>1, <1>2, AreaAssumption DEF BootInv, Copied, Area, Sectors
<1>7. CheckRawDownloadFile'
  BY <1>1 DEF BootInv, CheckRawDownloadFile, Intact
<1>8. BootInv'
  BY <1>1, <1>4, <1>6, <1>7 DEF BootInv
<1> QED BY <1>5, <1>8

\* The copy of a good download is a good application.
LEMMA CopyDoneKeeps ==
    ASSUME BootTypeOK, BootInv, CopyDone
    PROVE  BootInv' /\ BootImage' = BootImage
<1>1. /\ pc = "copy" /\ pc' = "checkrun" /\ idx > todo /\ erasing' = TRUE
      /\ UNCHANGED <<enc, raw, run, flag, running>>
  BY DEF CopyDone, flashVars
<1>2. /\ flag /\ PendingGood /\ CheckRawDownloadFile
      /\ raw[1].img = Pending[1].img
      /\ todo = FileSectors(raw[1].img)
      /\ Copied(run, raw, idx - 1)
  BY <1>1 DEF BootInv
<1>3. Copied(run, raw, FileSectors(raw[1].img))
  BY <1>1, <1>2, AreaAssumption DEF Copied, BootTypeOK
<1>4. CheckRunningFile /\ run[1].img = raw[1].img
  BY <1>2, <1>3, CopyIntact
     DEF CheckRawDownloadFile, CheckRunningFile, BootTypeOK, FlashTypeOK, Intact
<1>5. BootImage' = BootImage
  BY <1>1 DEF BootImage, Pending, Intact, CheckRunningFile
<1>6. BootInv'
  BY <1>1, <1>2, <1>4 DEF BootInv, CheckRunningFile, PendingGood, Pending, Intact
<1> QED BY <1>5, <1>6

\* After decryption the raw area is good exactly if the pending download is.
LEMMA DecryptedAsPending ==
    ASSUME BootTypeOK, BootInv, pc = "checkraw"
    PROVE  /\ CheckRawDownloadFile <=> PendingGood
           /\ PendingGood => raw[1].img = Pending[1].img
           /\ enc[1].img \in Images => raw[1].img \in Images
<1>1. CASE enc[1].img = NoImage
  BY <1>1, AreaAssumption DEF CheckRawDownloadFile, PendingGood, Pending
<1>2. CASE enc[1].img \in Images
  <2>1. Copied(raw, enc, FileSectors(enc[1].img)) /\ Pending = enc
    BY <1>2, AreaAssumption DEF BootInv, DecryptSectors, Pending
  <2>2. (Intact(raw) <=> Intact(enc)) /\ raw[1].img = enc[1].img
    BY <1>2, <2>1, CopyIntact DEF BootTypeOK, FlashTypeOK
  <2> QED BY <1>2, <2>1, <2>2 DEF CheckRawDownloadFile, PendingGood
<1>3. CASE enc[1].img = Junk
  <2>1. PICK n \in Sectors : Copied(raw, enc, n)
    BY <1>3, AreaAssumption DEF BootInv, DecryptSectors
  <2>2. raw[1] = enc[1]
    BY <2>1, AreaAssumption DEF Copied, Sectors
  <2> QED
    BY <1>3, <2>2, AreaAssumption
       DEF CheckRawDownloadFile, PendingGood, Pending, Intact
<1> QED
  <2>1. enc[1].img \in Images \cup {NoImage, Junk}
    BY HeaderSector DEF BootTypeOK, FlashTypeOK, Area, Content
  <2> QED BY <1>1, <1>2, <1>3, <2>1

LEMMA CheckRawKeeps ==
    ASSUME BootTypeOK, BootInv, CheckRawGood \/ CheckRawBad \/ CheckRawFault
    PROVE  BootInv' /\ BootImage' = BootImage
<1>1. pc = "checkraw" /\ UNCHANGED flashVars /\ running' = running
  BY DEF CheckRawGood, CheckRawBad, CheckRawFault
<1>2. flag /\ idx = 1
  BY <1>1 DEF BootInv
<1>3. BootImage' = BootImage
  BY <1>1 DEF BootImage, Pending, Intact, CheckRunningFile, flashVars
<1>4. CASE CheckRawGood
  <2>1. PendingGood /\ raw[1].img = Pending[1].img /\ CheckRawDownloadFile
    BY <1>1, <1>4, DecryptedAsPending DEF CheckRawGood
  <2>2. idx' = 1 /\ Copied(run', raw', idx' - 1)
    BY <1>2, <1>4 DEF CheckRawGood, Copied
  <2> QED
    BY <1>1, <1>2, <1>3, <1>4, <2>1, <2>2
       DEF BootInv, CheckRawGood, flashVars, PendingGood, Pending, Intact,
           CheckRawDownloadFile, FileSectors
<1>5. CASE CheckRawBad
  <2>1. ~ PendingGood
    BY <1>1, <1>5, DecryptedAsPending DEF CheckRawBad
  <2> QED
    BY <1>1, <1>2, <1>3, <1>5, <2>1
       DEF BootInv, CheckRawBad, flashVars, PendingGood, Pending, Intact
<1>6. CASE CheckRawFault
  <2>1. enc[1].img \notin Images
    BY <1>1, <1>6, DecryptedAsPending, AreaAssumption DEF CheckRawFault
  <2> QED
    BY <1>1, <1>3, <1>6, <2>1 DEF BootInv, CheckRawFault, flashVars
<1> QED BY <1>4, <1>5, <1>6

\* The flag is erased only when the running area holds what it promised.
LEMMA EraseFlagKeeps ==
    ASSUME BootTypeOK, BootInv, EraseFlag
    PROVE  BootInv' /\ BootImage' = BootImage
<1>1. /\ pc = "erase" /\ pc' = "jump" /\ flag' = FALSE
      /\ UNCHANGED <<enc, raw, run, running>>
  BY DEF EraseFlag
<1>2. /\ flag /\ CheckRunningFile
      /\ PendingGood => run[1].img = Pending[1].img
  BY <1>1 DEF BootInv
<1>3. BootImage = run[1].img
  BY <1>2, BootImagePending, BootImageRunning
<1>4. BootImage' = run[1].img
  BY <1>1, <1>2 DEF BootImage, CheckRunningFile, Intact
<1>5. BootInv'
  BY <1>1, <1>2 DEF BootInv, CheckRunningFile, Intact
<1> QED BY <1>3, <1>4, <1>5

\* The remaining steps write no file area, or end in a fault.
LEMMA QuietStepKeeps ==
    ASSUME BootTypeOK, BootInv,
           Start \/ DecryptDone \/ CheckRun \/ Jump
    PROVE  BootInv' /\ BootImage' = BootImage
<1>1. UNCHANGED flashVars
  BY DEF Start, DecryptDone, CheckRun, Jump
<1>2. BootImage' = BootImage
  BY <1>1 DEF BootImage, Pending, Intact, CheckRunningFile, flashVars
<1>3. CheckRunningFile' = CheckRunningFile
  BY <1>1 DEF CheckRunningFile, Intact, flashVars
<1>4. CASE Start
  <2>1. pc = "boot" /\ idx = 1 /\ idx' = 1 /\ running' = running /\ running = NoImage
    BY <1>4 DEF Start, BootInv
  <2>2. Copied(raw', enc', idx' - 1)
    BY <2>1 DEF Copied
  <2>3. erasing' = erasing
    BY <1>4 DEF Start
  <2>4. \/ pc' = "stay"
        \/ pc' = "decrypt" /\ flag' /\ todo' \in DecryptSectors(enc'[1].img)
        \/ pc' = "checkrun" /\ ~ flag'
    BY <1>1, <1>4 DEF Start, flashVars
  <2>5. ~ erasing
    BY <2>1 DEF BootInv
  <2> QED BY <1>2, <2>1, <2>2, <2>3, <2>4, <2>5 DEF BootInv
<1>5. CASE DecryptDone
  <2>1. /\ pc = "decrypt" /\ pc' = "checkraw" /\ idx > todo /\ idx' = 1
        /\ running' = running
    BY <1>5 DEF DecryptDone, LoopDone
  <2>2. /\ flag /\ todo \in DecryptSectors(enc[1].img)
        /\ Copied(raw, enc, idx - 1)
    BY <2>1 DEF BootInv
  <2>3. Copied(raw, enc, todo)
    BY <2>1, <2>2, AreaAssumption DEF Copied, BootTypeOK
  <2>4. Copied(raw', enc', todo) /\ todo \in DecryptSectors(enc'[1].img) /\ flag'
    BY <1>1, <2>2, <2>3 DEF Copied, flashVars
  <2> QED BY <1>2, <2>1, <2>4 DEF BootInv
<1>6. CASE CheckRun
  <2>1. /\ pc = "checkrun" /\ running' = running
        /\ pc' = IF ~ CheckRunningFile THEN "stay"
                 ELSE IF erasing THEN "erase" ELSE "jump"
    BY <1>6 DEF CheckRun
  <2> QED
    BY <1>1, <1>2, <1>3, <2>1
       DEF BootInv, flashVars, PendingGood, Pending, Intact
<1>7. CASE Jump
  BY <1>1, <1>2, <1>3, <1>7 DEF Jump, BootInv, flashVars
<1> QED BY <1>4, <1>5, <1>6, <1>7

\* A scrambled header is never a good download's.
LEMMA OverrunKeeps ==
    ASSUME BootTypeOK, BootInv, DecryptOverrun
    PROVE  BootInv' /\ BootImage' = BootImage
<1>1. /\ pc = "decrypt" /\ pc' = "hang" /\ enc[1].img = Junk
      /\ UNCHANGED <<enc, run, running>>
  BY DEF DecryptOverrun
<1>2. ~ PendingGood /\ ~ PendingGood'
  BY <1>1, AreaAssumption DEF PendingGood, Pending, Intact
<1>3. BootImage = IF CheckRunningFile THEN run[1].img ELSE NoImage
  BY <1>2, BootImageRunning
<1>4. BootImage' = IF CheckRunningFile' THEN run'[1].img ELSE NoImage
  BY <1>2 DEF BootImage, PendingGood
<1>5. CheckRunningFile' = CheckRunningFile
  BY <1>1 DEF CheckRunningFile, Intact
<1>6. BootInv'
  BY <1>1, AreaAssumption DEF BootInv
<1> QED BY <1>1, <1>3, <1>4, <1>5, <1>6

LEMMA BootStepKeeps ==
    ASSUME BootTypeOK, BootInv, BootStep
    PROVE  BootInv' /\ BootImage' = BootImage
BY DecryptSectorKeeps, CopySectorKeeps, CopyDoneKeeps, CheckRawKeeps,
   EraseFlagKeeps, QuietStepKeeps, OverrunKeeps DEF BootStep

\* A power failure during the boot.  The sector in hand is torn, but its
\* content was decided by another area, which is still there.
LEMMA PowerFailsKeeps ==
    ASSUME BootTypeOK, BootInv, PowerFails
    PROVE  BootInv' /\ BootImage' = BootImage
<1>1. /\ pc' = "boot" /\ idx' = 1 /\ running' = NoImage /\ erasing' = FALSE
      /\ enc' = enc
  BY DEF PowerFails, Restart, LoopDone
<1>2. BootInv'
  BY <1>1 DEF BootInv
<1>3. CASE pc = "decrypt" /\ idx <= todo
  <2>1. run' = run /\ flag' \in {flag}
    BY <1>3 DEF PowerFails
  <2>2. enc[1].img # NoImage
    BY <1>3, BootAssumption, AreaAssumption DEF BootInv, DecryptSectors, BootTypeOK
  <2> QED
    BY <1>1, <1>2, <2>1, <2>2 DEF BootImage, Pending, Intact, CheckRunningFile
<1>4. CASE pc = "copy" /\ idx <= todo
  <2>1. raw' = raw /\ flag' \in {flag}
    BY <1>4 DEF PowerFails
  <2>2. flag /\ PendingGood
    BY <1>4 DEF BootInv
  <2> QED
    BY <1>1, <1>2, <2>1, <2>2 DEF BootImage, Pending, PendingGood, Intact
<1>5. CASE pc = "erase"
  <2>1. raw' = raw /\ run' = run
    BY <1>5 DEF PowerFails
  <2>2. flag' = flag \/ flag' = FALSE
    BY <1>5, Zenon DEF PowerFails
  <2>3. /\ flag /\ CheckRunningFile
        /\ PendingGood => run[1].img = Pending[1].img
    BY <1>5 DEF BootInv
  <2>4. BootImage = run[1].img
    BY <2>3, BootImagePending, BootImageRunning
  <2>5. CASE flag' = flag
    BY <1>1, <1>2, <2>1, <2>5 DEF BootImage, Pending, Intact, CheckRunningFile
  <2>6. CASE flag' = FALSE
    <3>1. BootImage' = run[1].img
      BY <1>1, <2>1, <2>3, <2>6 DEF BootImage, Intact, CheckRunningFile
    <3> QED BY <1>2, <2>4, <3>1
  <2> QED BY <2>2, <2>5, <2>6
<1>6. CASE /\ ~ (pc = "decrypt" /\ idx <= todo)
           /\ ~ (pc = "copy" /\ idx <= todo)
           /\ pc # "erase"
  <2>1. raw' = raw /\ run' = run
    BY <1>6 DEF PowerFails
  <2>2. flag' = flag
    BY <1>6, Zenon DEF PowerFails
  <2> QED
    BY <1>1, <1>2, <2>1, <2>2 DEF BootImage, Pending, Intact, CheckRunningFile
<1> QED BY <1>3, <1>4, <1>5, <1>6

-----------------------------------------------------------------------------
(* The inductive invariant.                                                *)

LEMMA HoldingArea ==
    ASSUME NEW i \in Images
    PROVE  Holding(i) \in Area
BY DEF Holding, Area, Content, Whole, Blank

LEMMA InitInv == Init => IInv
<1> SUFFICES ASSUME Init PROVE IInv
  OBVIOUS
<1>1. Erased \in Area
  BY DEF Erased, Area, Content, Blank
<1>2. run \in Area
  BY <1>1, HoldingArea, AreaAssumption DEF Init
<1>3. FlashTypeOK
  BY <1>1, <1>2 DEF Init, FlashTypeOK
<1>4. BootTypeOK
  <2>1. pc \in Booting /\ idx \in 1 .. MaxSectors + 1 /\ todo \in 0 .. MaxSectors
    BY AreaAssumption DEF Init, Booting
  <2>2. resets \in 0 .. BlankByte
    BY BootAssumption DEF Init
  <2>3. erasing \in BOOLEAN /\ running \in Images \cup {NoImage}
    BY DEF Init
  <2> QED BY <1>3, <2>1, <2>2, <2>3 DEF BootTypeOK
<1>5. DownloadTypeOK /\ TransferInv
  BY NoSessionOK DEF Init, NoSessions, DownloadTypeOK, TransferInv, SessionOK
<1>6. BootInv
  BY DEF Init, BootInv
<1> QED
  BY <1>4, <1>5, <1>6, PowerAssumption DEF Init, IInv, TypeOK

\* A step that starts the processor anew establishes the invariant of the boot.
LEMMA RestartInv ==
    ASSUME Restart
    PROVE  BootInv'
BY DEF Restart, LoopDone, BootInv

\* The tasks never write the running area.
LEMMA UpKeepsRun ==
    ASSUME IInv, Next, pc \in Up
    PROVE  run' = run
<1>1. ~ BootStep /\ ~ WatchdogReset /\ ~ PowerFails
  BY DEF BootStep, Up, Booting, Start, DecryptSector, DecryptOverrun, DecryptDone,
         CheckRawGood, CheckRawBad, CheckRawFault, CopySector, CopyDone, CheckRun,
         EraseFlag, Jump, WatchdogReset, PowerFails
<1>2. CASE Confirm
  BY <1>2 DEF Confirm, ClearResetTimes, flashVars
<1>3. CASE Transfer
  BY <1>3, TransferTyped DEF Transfer, IInv, TypeOK, BootTypeOK
<1>4. CASE ResetRunning \/ PowerLoss
  BY <1>1, <1>4 DEF ResetRunning, PowerLoss, Reset, flashVars, DownloadTorn
<1> QED
  BY <1>1, <1>2, <1>3, <1>4 DEF Next, Boot, ResetHung

LEMMA StepInv == IInv /\ [Next]_vars => IInv'
<1> SUFFICES ASSUME IInv, [Next]_vars PROVE BootInv'
  BY TypedStep DEF IInv
<1> USE DEF IInv, TypeOK
<1>1. CASE Boot
  BY <1>1, BootStepKeeps DEF Boot
<1>2. CASE Confirm
  BY <1>2 DEF Confirm, ClearResetTimes, BootInv, flashVars, PendingGood, Pending, Up,
              Intact, CheckRunningFile
<1>3. CASE Transfer
  <2>1. pc \in Up /\ UNCHANGED bootVars
    BY <1>3 DEF Transfer
  <2>2. run' = run
    BY <1>3, <2>1, UpKeepsRun DEF Next
  <2> QED
    BY <2>1, <2>2 DEF Up, bootVars, BootInv, CheckRunningFile, Intact
<1>4. CASE ResetRunning \/ ResetHung
  BY <1>4, RestartInv DEF ResetRunning, Reset, ResetHung, WatchdogReset
<1>5. CASE PowerLoss
  BY <1>5, RestartInv, PowerFailsKeeps DEF PowerLoss, Reset
<1>6. CASE UNCHANGED vars
  BY <1>6 DEF vars, bootVars, flashVars, BootInv, PendingGood, Pending,
              CheckRunningFile, CheckRawDownloadFile, Intact, Copied, FileSectors
<1> QED
  BY <1>1, <1>2, <1>3, <1>4, <1>5, <1>6 DEF Next

\* IInv holds in every reachable state.
THEOREM Invariance == Spec => []IInv
BY InitInv, StepInv, PTL DEF Spec

\* Every variable keeps its type (TypeOK): in particular no loop index or
\* frame count leaves its area, for any number of sectors.
THEOREM TypeCorrect == Spec => []TypeOK
<1>1. IInv => TypeOK
  BY DEF IInv
<1> QED
  BY <1>1, Invariance, PTL

\* A transfer of an MCU file has stored as many chunks as it has counted
\* frames, and no other writes to the download area, for any files and ports.
THEOREM TransferCorrect == Spec => []TransferInv
<1>1. IInv => TransferInv
  BY DEF IInv
<1> QED
  BY <1>1, Invariance, PTL

-----------------------------------------------------------------------------
(* What the update promises.                                               *)

\* An application in control is a whole file that the running area holds.
THEOREM AppCorrect == Spec => []AppIsIntact
<1>1. IInv => AppIsIntact
  BY DEF IInv, BootInv, AppIsIntact
<1> QED
  BY <1>1, Invariance, PTL

\* A boot faults over no download whose header was completely written.
THEOREM HangCorrect == Spec => []HangNeedsTornHeader
<1>1. IInv => HangNeedsTornHeader
  BY DEF IInv, BootInv, HangNeedsTornHeader
<1> QED
  BY <1>1, Invariance, PTL

\* Steps of a booting board.
LEMMA BootingSteps ==
    ASSUME IInv, Next, pc \in Booting
    PROVE  /\ BootStep \/ WatchdogReset \/ PowerFails
           /\ BootImage' = BootImage
<1>1. pc \notin Up
  BY DEF Up, Booting
<1>2. BootStep \/ WatchdogReset \/ PowerFails
  BY <1>1 DEF Next, Boot, Confirm, ClearResetTimes, Transfer, ResetRunning, Reset,
              ResetHung, PowerLoss
<1>3. CASE WatchdogReset
  BY <1>3 DEF WatchdogReset, flashVars, BootImage, Pending, Intact, CheckRunningFile
<1> QED
  BY <1>2, <1>3, BootStepKeeps, PowerFailsKeeps DEF IInv, TypeOK

\* Booting, interrupted or not, never changes which application will start.
THEOREM BootAtomic == Spec => BootKeepsImage
<1>1. IInv /\ [Next]_vars => [(pc \in Booting) => BootImage' = BootImage]_vars
  BY BootingSteps
<1> QED
  BY <1>1, Invariance, PTL DEF Spec, BootKeepsImage

\* While tasks run the running area decides whether there is an application.
LEMMA UpKeepsImage ==
    ASSUME IInv, Next, pc \in Up, CheckRunningFile
    PROVE  BootImage' \in Images
<1>1. CheckRunningFile' /\ run'[1].img \in Images
  BY UpKeepsRun DEF CheckRunningFile, Intact
<1>2. CASE flag' /\ PendingGood'
  BY <1>2 DEF BootImage, PendingGood, Intact
<1>3. CASE ~ (flag' /\ PendingGood')
  BY <1>1, <1>3 DEF BootImage, PendingGood
<1> QED BY <1>2, <1>3

\* The last bootable application is lost only in a bootloader that stayed
\* over an already broken running area.
THEOREM LossCorrect == Spec => LossNeedsBrokenRun
<1>1. ASSUME IInv, Next, BootImage # NoImage, BootImage' = NoImage
      PROVE  pc = "stay" /\ ~ CheckRunningFile
  <2>1. pc \notin Booting
    BY <1>1, BootingSteps
  <2>2. pc \in Up
    BY <1>1, <2>1 DEF IInv, TypeOK, BootTypeOK
  <2>3. ~ CheckRunningFile
    BY <1>1, <2>2, UpKeepsImage, AreaAssumption
  <2>4. pc # "app"
    BY <1>1, <2>3 DEF IInv, BootInv
  <2> QED BY <2>2, <2>3, <2>4 DEF Up
<1>2. IInv /\ [Next]_vars =>
        [BootImage # NoImage /\ BootImage' = NoImage =>
           pc = "stay" /\ ~ CheckRunningFile]_vars
  BY <1>1
<1> QED
  BY <1>2, Invariance, PTL DEF Spec, LossNeedsBrokenRun

\* The bootloader keeps the board only after too many resets or with no
\* application whose vectors it could jump to.
THEOREM StayCorrect == Spec => StayHasReason
<1>1. ASSUME IInv, Next, pc # "stay", pc' = "stay"
      PROVE  resets' >= ResetMax \/ BootImage \notin Bootable
  <2>1. pc \in Booting
    BY <1>1 DEF Next, Confirm, ClearResetTimes, Transfer, bootVars, ResetRunning,
                Reset, Restart, ResetHung, WatchdogReset, PowerLoss, PowerFails,
                Boot, BootStep, Start, DecryptSector, DecryptOverrun, DecryptDone,
                CheckRawGood, CheckRawBad, CheckRawFault, CopySector, CopyDone,
                CheckRun, EraseFlag, Jump, Booting
  <2>2. Start \/ CheckRun \/ Jump
    BY <1>1, <2>1, BootingSteps
       DEF BootStep, DecryptSector, DecryptOverrun, DecryptDone, CheckRawGood,
           CheckRawBad, CheckRawFault, CopySector, CopyDone, EraseFlag,
           WatchdogReset, PowerFails, Restart
  <2>3. CASE Start
    BY <1>1, <2>3 DEF Start
  <2>4. CASE CheckRun
    <3>1. pc = "checkrun" /\ ~ CheckRunningFile
      BY <1>1, <2>4 DEF CheckRun
    <3>2. ~ (flag /\ PendingGood)
      BY <1>1, <3>1 DEF IInv, BootInv
    <3>3. BootImage = NoImage
      BY <3>1, <3>2, BootImageRunning
    <3> QED BY <3>3, AreaAssumption
  <2>5. CASE Jump
    <3>1. pc = "jump" /\ run[1].img \notin Bootable
      BY <1>1, <2>5 DEF Jump
    <3>2. ~ flag /\ CheckRunningFile
      BY <1>1, <3>1 DEF IInv, BootInv
    <3>3. BootImage = run[1].img
      BY <3>2, BootImageRunning
    <3> QED BY <3>1, <3>3
  <2> QED BY <2>2, <2>3, <2>4, <2>5
<1>2. IInv /\ [Next]_vars =>
        [pc # "stay" /\ pc' = "stay" =>
           resets' >= ResetMax \/ BootImage \notin Bootable]_vars
  BY <1>1
<1> QED
  BY <1>2, Invariance, PTL DEF Spec, StayHasReason

-----------------------------------------------------------------------------
(* The flash, the loops and the transfers implement SafeUpdate.            *)

LEMMA BootImageType == IInv => BootImage \in Images \cup {NoImage}
BY DEF IInv, BootImage, Intact, CheckRunningFile

LEMMA InitImplements == Init /\ IInv => Safe!Init
BY BootImageType DEF Init, Safe!Init, Booting

\* A step of a booting board: the promised application is started, or the
\* board stays, or the abstract state is as it was.
LEMMA BootingImplements ==
    ASSUME IInv, Next, pc \in Booting
    PROVE  [Safe!Next]_(Safe!vars)
<1>1. BootImage' = BootImage
  BY BootingSteps
<1>2. running = NoImage
  BY DEF IInv, BootInv, Booting
<1>3. BootStep \/ WatchdogReset \/ PowerFails
  BY BootingSteps
<1>4. CASE pc' = "app"
  <2>1. Jump
    BY <1>3, <1>4 DEF BootStep, Start, DecryptSector, DecryptOverrun, DecryptDone,
         CheckRawGood, CheckRawBad, CheckRawFault, CopySector, CopyDone, CheckRun,
         EraseFlag, WatchdogReset, PowerFails, Restart
  <2>2. running' = run[1].img /\ pc = "jump"
    BY <1>4, <2>1 DEF Jump
  <2>3. ~ flag /\ CheckRunningFile
    BY <2>2 DEF IInv, BootInv
  <2>4. BootImage = run[1].img /\ BootImage \in Images
    BY <2>3, BootImageRunning DEF CheckRunningFile, Intact
  <2>5. Safe!RunApp
    BY <1>1, <1>4, <2>2, <2>4 DEF Safe!RunApp, Booting
  <2> QED BY <2>5 DEF Safe!Next
<1>5. CASE pc' # "app"
  <2>1. running' = NoImage
    BY <1>2, <1>3, <1>5 DEF BootStep, Start, DecryptSector, DecryptOverrun,
         DecryptDone, CheckRawGood, CheckRawBad, CheckRawFault, CopySector, CopyDone,
         CheckRun, EraseFlag, Jump, WatchdogReset, PowerFails, Restart
  <2>2. CASE pc' = "stay"
    BY <1>1, <1>2, <2>1, <2>2 DEF Safe!Stay, Safe!Next, Booting
  <2>3. CASE pc' \in Booting
    BY <1>1, <1>2, <2>1, <2>3 DEF Safe!vars
  <2>4. pc' \in Booting \cup Up
    BY TypedStep DEF IInv, TypeOK, BootTypeOK
  <2> QED BY <1>5, <2>2, <2>3, <2>4 DEF Up
<1> QED BY <1>4, <1>5

\* A step of a board whose tasks run: a download changes the promise, or a
\* reset ends it, and an application keeps something to start.
LEMMA UpImplements ==
    ASSUME IInv, IInv', Next, pc \in Up
    PROVE  [Safe!Next]_(Safe!vars)
<1>1. BootImage' \in Images \cup {NoImage}
  BY BootImageType DEF BootImage, IInv, Intact, CheckRunningFile
<1>2. pc = "app" => BootImage' # NoImage
  BY UpKeepsImage, AreaAssumption DEF IInv, BootInv
<1>3. pc \notin Booting /\ pc \in {"app", "stay"}
  BY DEF Up, Booting
<1>4. Safe!Promise
  BY <1>1, <1>2, <1>3 DEF Safe!Promise
<1>5. CASE Confirm \/ Transfer
  <2>1. pc' = pc /\ running' = running
    BY <1>5 DEF Confirm, ClearResetTimes, Transfer, bootVars
  <2> QED BY <1>3, <1>4, <2>1 DEF Safe!Download, Safe!Next
<1>6. CASE ~ (Confirm \/ Transfer)
  <2>1. pc' = "boot" /\ running' = NoImage
    BY <1>3, <1>6 DEF Next, Boot, BootStep, Start, DecryptSector, DecryptOverrun,
         DecryptDone, CheckRawGood, CheckRawBad, CheckRawFault, CopySector, CopyDone,
         CheckRun, EraseFlag, Jump, ResetRunning, Reset, ResetHung, WatchdogReset,
         PowerLoss, PowerFails, Restart
  <2> QED BY <1>3, <1>4, <2>1 DEF Safe!Reset, Safe!Next, Booting
<1> QED BY <1>5, <1>6

\* The firmware update as coded does what SafeUpdate promises: booting,
\* however often it is interrupted, ends in the application it set out to
\* start, and a running application is never left without one to boot.
THEOREM Implements == Spec => SafeSpec
<1>1. IInv /\ IInv' /\ [Next]_vars => [Safe!Next]_(Safe!vars)
  <2> SUFFICES ASSUME IInv, IInv', [Next]_vars PROVE [Safe!Next]_(Safe!vars)
    OBVIOUS
  <2>1. CASE Next
    BY <2>1, BootingImplements, UpImplements DEF IInv, TypeOK, BootTypeOK
  <2>2. CASE UNCHANGED vars
    BY <2>2 DEF vars, flashVars, bootVars, Safe!vars, BootImage, Pending, Intact,
                CheckRunningFile, FileSectors
  <2> QED BY <2>1, <2>2
<1> QED
  BY <1>1, InitImplements, Invariance, PTL DEF Spec, SafeSpec, Safe!Spec

-----------------------------------------------------------------------------
(* The limit on consecutive resets, for any limit, any width of the byte   *)
(* and any application: the byte keeps up with the starts until it reads   *)
(* as erased, and never runs ahead of them.                                *)

CounterType == resets \in 0 .. BlankByte /\ boots \in 0 .. MaxBoots

\* The byte is the number of starts, until it has counted as far as an erased
\* byte; a new board's erased byte stands for none.
KeepsUp == boots <= BlankByte => resets = boots \/ (boots = 0 /\ resets = BlankByte)

\* Once a start is counted the byte is no more than the starts, and beyond the
\* first step no boot has passed the limit, but one that stays.
Behind ==
  /\ pc # "boot" => resets <= boots
  /\ pc \notin {"boot", "stay"} => resets < ResetMax

LimitInv == CounterType /\ KeepsUp /\ Behind

\* What a step may do to the byte and the program counter: count a start, clear
\* the byte while the tasks run, begin anew, or go on past the first step.
LEMMA LimitSteps ==
  ASSUME LimitNext
  PROVE  \/ Start
         \/ pc \in Up /\ resets # 0 /\ resets' = 0 /\ pc' = pc
         \/ pc' = "boot" /\ resets' = resets
         \/ /\ pc \notin {"boot", "stay"} /\ pc' # "boot" /\ resets' = resets
<1>1. CASE BootStep /\ ~ Start
  BY <1>1 DEF BootStep, DecryptSector, DecryptOverrun, DecryptDone, CheckRawGood,
     CheckRawBad, CheckRawFault, CopySector, CopyDone, CheckRun, EraseFlag, Jump,
     bootVars
<1>2. CASE ClearResetTimes
  BY <1>2 DEF ClearResetTimes
<1>3. CASE Reset \/ WatchdogReset \/ PowerFails
  BY <1>3 DEF Reset, WatchdogReset, PowerFails, Restart
<1> QED BY <1>1, <1>2, <1>3 DEF LimitNext, BootNext

\* Every step keeps the relation, if the history counts further than the byte.
LEMMA LimitStep ==
  ASSUME MaxBoots > BlankByte
  PROVE  LimitInv /\ [LimitNext]_limitVars => LimitInv'
<1> SUFFICES ASSUME LimitInv, [LimitNext]_limitVars PROVE LimitInv' OBVIOUS
<1> USE BootAssumption, BootsAssumption DEF LimitInv, CounterType, KeepsUp, Behind
<1>1. CASE LimitNext /\ Start
  <2>1. pc = "boot" /\ pc' # "boot" BY <1>1 DEF Start
  <2>2. resets' = (IF resets = BlankByte THEN 0 ELSE resets) + 1
    BY <1>1 DEF Start, ReadResetTimes
  <2>3. boots' = IF boots < MaxBoots THEN boots + 1 ELSE boots
    BY <1>1, <2>1 DEF LimitNext, Counted
  <2>4. pc' # "stay" => resets' < ResetMax BY <1>1 DEF Start
  <2>5. CounterType' BY <2>2, <2>3
  <2>6. KeepsUp' BY <2>2, <2>3
  <2>7. resets' <= boots'
    <3>1. CASE boots <= BlankByte BY <2>2, <2>3, <3>1
    <3>2. CASE boots > BlankByte BY <2>2, <2>3, <3>2
    <3> QED BY <3>1, <3>2
  <2> QED BY <2>1, <2>4, <2>5, <2>6, <2>7
<1>2. CASE LimitNext /\ pc \in Up /\ resets # 0 /\ resets' = 0 /\ pc' = pc
  <2>1. pc # "boot" BY <1>2 DEF Up
  <2>2. boots' = 0 BY <1>2, <2>1 DEF LimitNext, Counted
  <2> QED BY <1>2, <2>1, <2>2
<1>3. CASE LimitNext /\ pc' = "boot" /\ resets' = resets
  <2>1. boots' = boots BY <1>3 DEF LimitNext, Counted
  <2> QED BY <1>3, <2>1
<1>4. CASE /\ LimitNext
           /\ pc \notin {"boot", "stay"} /\ pc' # "boot" /\ resets' = resets
  <2>1. boots' = boots BY <1>4 DEF LimitNext, Counted
  <2> QED BY <1>4, <2>1
<1>5. CASE UNCHANGED limitVars
  BY <1>5 DEF limitVars, bootVars
<1> QED BY <1>1, <1>2, <1>3, <1>4, <1>5, LimitSteps

LEMMA LimitInvariant ==
  ASSUME MaxBoots > BlankByte
  PROVE  LimitSpec => []LimitInv
<1>1. LimitInit => LimitInv
  BY BootAssumption, BootsAssumption
     DEF LimitInit, BootInit, LimitInv, CounterType, KeepsUp, Behind
<1>2. LimitInv /\ [LimitNext]_limitVars => LimitInv' BY LimitStep
<1> QED BY <1>1, <1>2, PTL DEF LimitSpec

\* From the limit up to the value that reads as erased, no application is
\* started: for every limit, and however resets, faults and power failures fall
\* between the starts.
THEOREM LimitHolds ==
  ASSUME MaxBoots > BlankByte
  PROVE  LimitSpec => []ResetLimitHolds
<1>1. LimitInv => ResetLimitHolds
  BY BootAssumption, BootsAssumption
     DEF LimitInv, CounterType, KeepsUp, Behind, ResetLimitHolds
<1> QED BY <1>1, LimitInvariant, PTL

\* An application is locked out only after as many starts as the limit says.
THEOREM LimitNotEarly ==
  ASSUME MaxBoots > BlankByte
  PROVE  LimitSpec => []NeverEarly
<1>1. LimitInv => NeverEarly
  BY BootAssumption, BootsAssumption
     DEF LimitInv, CounterType, Behind, NeverEarly, Up
<1> QED BY <1>1, LimitInvariant, PTL
=============================================================================
