-------------------------- MODULE EepromBus_proofs --------------------------
(***************************************************************************)
(* Proofs about writing to the EEPROM, for any size of a page and of a     *)
(* block, any write time and any number of saves: a save that returns has  *)
(* arrived, and HwTest is told of success only when its byte is written.   *)
(*                                                                         *)
(* The invariant: once Port's first stop condition is out, the EEPROM      *)
(* follows Port byte by byte, and what Port has sent is in its page or its *)
(* memory.  Until then it may follow HwTest, and after it HwTest finds it  *)
(* idle, so that HwTest's next byte is not answered.                       *)
(***************************************************************************)
EXTENDS EepromBus, TLAPS

Places == Sending \cup Idle \cup {"page", "start", "end", "fail"}

BusType ==
  /\ pc \in [Tasks -> Places]
  /\ i \in [Tasks -> Nat] /\ polls \in [Tasks -> Nat]
  /\ clocked \in [Tasks -> BOOLEAN]
  /\ result \in [Tasks -> {"none", "ok", "failed"}]
  /\ dev \in Sending \cup {"idle"} /\ bits \in BOOLEAN
  /\ busy \in 0..WriteTime
  /\ bits => dev # "idle"
  /\ \A t \in Tasks : clocked[t] => pc[t] \in Sending

\* Port's bytes before the next one are in the page or in the memory.
Sent == \A a \in Block : a < UsAddr("Port") =>
          IF a \in DOMAIN page THEN page[a] = saves ELSE mem[a] = saves

\* The EEPROM has whole bytes for its page, which a stop condition writes.
Full == dev = "data" /\ ~bits /\ page # <<>> /\ Sent /\ Resets \notin DOMAIN page

PortInv ==
  /\ i["Port"] \in 0..Size["Port"]
  /\ pc["Port"] \in Sending \cup {"page", "start"} => i["Port"] < Size["Port"]
  /\ pc["Port"] # "fail"
  /\ pc["Port"] \in Idle => \A a \in Block : mem[a] = saves
  /\ pc["Port"] = "page" /\ i["Port"] # 0 => Full
  /\ pc["Port"] = "end" => i["Port"] = Size["Port"] /\ Full
  /\ pc["Port"] \in {"start", "address", "high", "low"} => page = <<>> /\ Sent
  /\ pc["Port"] = "data" =>
       dev = "data" /\ ptr = UsAddr("Port") /\ Sent /\ Resets \notin DOMAIN page
  /\ pc["Port"] \in {"high", "low"} => dev = pc["Port"]
  /\ pc["Port"] = "address" => dev \in {"address", "idle"}
  /\ clocked["Port"] => bits = (dev # "idle")
  /\ pc["Port"] = "start" => polls["Port"] + busy <= WriteTime
  /\ pc["Port"] = "address" /\ dev = "idle" =>
       polls["Port"] + busy <= WriteTime /\ polls["Port"] < WriteTime

\* Port has not sent a stop condition since HwTest's last step.
Undisturbed == pc["Port"] \in Idle \/ (pc["Port"] = "page" /\ i["Port"] = 0)

HwTestInv ==
  /\ i["HwTest"] # 0 =>
       \/ i["HwTest"] = 1 /\ pc["HwTest"] \in {"end", "delay"}
       \/ pc["HwTest"] = "off" /\ result["HwTest"] # "none"
  /\ Resets \in DOMAIN page => page[Resets] = 0
  /\ Undisturbed => DOMAIN page \subseteq {Resets}
  /\ Undisturbed /\ pc["HwTest"] \in Sending =>
       /\ dev \in {pc["HwTest"], "idle"}
       /\ dev = "data" => ptr = Resets
  /\ pc["HwTest"] = "end" =>
       \/ Undisturbed /\ dev = "data" /\ ~bits /\ Resets \in DOMAIN page
       \/ mem[Resets] = 0
  /\ pc["HwTest"] = "delay" \/ result["HwTest"] = "ok" => mem[Resets] = 0

BusInv == BusType /\ PortInv /\ HwTestInv

-----------------------------------------------------------------------------
(* Constants, and where the two tasks write.                               *)

\* The counter is no byte of the block, and the block ends where Port's last
\* byte is.
LEMMA Layout ==
  /\ PageSize \in Nat \ {0} /\ WriteTime \in Nat \ {0} /\ Polls \in Nat
  /\ First["Port"] = PageSize /\ First["HwTest"] = Resets /\ Resets = 0
  /\ Size["Port"] \in Nat \ {0} /\ Size["HwTest"] = 1
  /\ Resets \in Addresses /\ Resets \notin Block /\ Block \subseteq Addresses
  /\ \A a \in Block : a \in Nat /\ PageSize <= a /\ a < PageSize + Size["Port"]
<1>0. {PageSize, BlockPages, WriteTime, Polls, Saves} \subseteq Nat \ {0}
  BY EepromAssumption
<1> DEFINE n == PageSize * BlockPages
           m == PageSize * (BlockPages + 1)
<1>1. n \in Nat \ {0} /\ m = PageSize + n
  <2>1. PageSize \in Nat /\ PageSize > 0 /\ BlockPages \in Nat /\ BlockPages > 0 BY <1>0
  <2>2. PageSize * BlockPages > 0 BY <2>1
  <2>3. PageSize * (BlockPages + 1) = PageSize * BlockPages + PageSize BY <2>1
  <2>4. QED BY <2>1, <2>2, <2>3
<1>2. Size["Port"] = n /\ Size["HwTest"] = 1 /\ First["Port"] = PageSize /\ First["HwTest"] = 0
  BY DEF Size, First, Tasks, Resets
<1>3. Block = PageSize .. m - 1 /\ Addresses = 0 .. m - 1 BY DEF Block, Addresses
<1> HIDE DEF n, m
<1>4. QED BY <1>0, <1>1, <1>2, <1>3 DEF Resets

\* A write gives up only after more polls than the EEPROM needs for a page.
LEMMA PatientEnough == Polls > WriteTime
<1>1. Saves \in Nat /\ WriteTime \in Nat /\ Polls \in Nat BY EepromAssumption
<1>2. (Saves + 1) * (WriteTime + 1) = Saves * (WriteTime + 1) + WriteTime + 1 BY <1>1
<1>3. Saves * (WriteTime + 1) \in Nat BY <1>1
<1> DEFINE k == Saves * (WriteTime + 1)
<1>4. k \in Nat /\ Polls > k + WriteTime + 1 BY <1>2, <1>3, EepromAssumption
<1> HIDE DEF k
<1>5. QED BY <1>1, <1>4

LEMMA EmptyPage == DOMAIN <<>> = {}
  OBVIOUS

LEMMA Both == "Port" \in Tasks /\ "HwTest" \in Tasks /\ "Port" # "HwTest"
  BY DEF Tasks

LEMMA BusInit == Init => BusInv
<1> SUFFICES ASSUME Init PROVE BusInv OBVIOUS
<1> USE Layout, EmptyPage, Both
<1>1. BusType
  <2>1. pc \in [Tasks -> Places] /\ result \in [Tasks -> {"none", "ok", "failed"}]
    BY DEF Init, Places, Idle
  <2>2. i \in [Tasks -> Nat] /\ polls \in [Tasks -> Nat] /\ clocked \in [Tasks -> BOOLEAN]
    BY DEF Init
  <2>3. dev = "idle" /\ ~bits /\ bits \in BOOLEAN
    <3>1. dev = "idle" /\ bits = FALSE BY DEF Init
    <3>2. QED BY <3>1
  <2>6. busy \in 0..WriteTime BY DEF Init
  <2>4. \A t \in Tasks : ~clocked[t] BY DEF Init
  <2>5. QED BY <2>1, <2>2, <2>3, <2>4, <2>6 DEF BusType
<1>2. PortInv
  <2>1. i["Port"] = 0 /\ pc["Port"] = "off" /\ ~clocked["Port"] BY DEF Init
  <2>2. \A a \in Block : mem[a] = saves BY DEF Init
  <2>3. QED BY <2>1, <2>2 DEF PortInv, Idle, Sending
<1>3. HwTestInv
  <2>1. i["HwTest"] = 0 /\ pc["HwTest"] = "off" /\ result["HwTest"] = "none" BY DEF Init
  <2>2. DOMAIN page = {} BY DEF Init
  <2>3. QED BY <2>1, <2>2 DEF HwTestInv, Sending
<1>4. QED BY <1>1, <1>2, <1>3 DEF BusInv

-----------------------------------------------------------------------------
(* Every step keeps the types.                                             *)
LEMMA Followed ==
  \A d \in Sending :
    /\ Following[d] \in Sending /\ Following[d] # "address"
    /\ d = "address" => Following[d] = "high"
    /\ d = "high" => Following[d] = "low"
    /\ d \in {"low", "data"} => Following[d] = "data"
  BY DEF Following, Sending

\* A stop condition leaves the EEPROM idle, and what it writes is its page.
LEMMA Stopped ==
  ASSUME BusType, Stop
  PROVE  /\ dev' = "idle" /\ bits' = FALSE /\ page' = <<>> /\ busy' \in 0..WriteTime
         /\ dev = "data" /\ ~bits /\ page # <<>> =>
              \A a \in Addresses : mem'[a] = IF a \in DOMAIN page THEN page[a] ELSE mem[a]
         /\ \A a \in Addresses :
              mem'[a] = mem[a] \/ (a \in DOMAIN page /\ mem'[a] = page[a])
<1> USE Layout
<1>1. CASE dev = "data" /\ ~bits /\ page # <<>>
  BY <1>1 DEF Stop
<1>2. CASE ~(dev = "data" /\ ~bits /\ page # <<>>)
  <2>1. mem' = mem /\ busy' = busy BY <1>2 DEF Stop
  <2>2. dev' = "idle" /\ bits' = FALSE /\ page' = <<>> BY DEF Stop
  <2>3. QED BY <1>2, <2>1, <2>2 DEF BusType
<1>3. QED BY <1>1, <1>2

LEMMA TypeStep == BusType /\ [Next]_vars => BusType'
<1> SUFFICES ASSUME BusType, [Next]_vars PROVE BusType' OBVIOUS
<1> USE Layout DEF BusType
<1>1. ASSUME NEW t \in Tasks, NewPage(t) PROVE BusType'
  BY <1>1, Stopped DEF NewPage, At, Goto, Places, Sending
<1>2. ASSUME NEW t \in Tasks, I2C_Start(t) PROVE BusType'
  BY <1>2 DEF I2C_Start, At, Goto, StartBit, Places, Sending
<1>3. ASSUME NEW t \in Tasks, I2C_SendByte(t) PROVE BusType'
  BY <1>3 DEF I2C_SendByte
<1>4. ASSUME NEW t \in Tasks, Acked(t) PROVE BusType'
  <2>1. pc[t] \in Sending /\ dev \in Sending BY <1>4 DEF Acked
  <2>2. dev' \in Sending /\ bits' = FALSE /\ busy' = busy
    BY <1>4, <2>1, Followed DEF Acked, Take
  <2>3. AfterByte(t) \in Places /\ Following[pc[t]] \in Places
    BY <2>1, Followed DEF AfterByte, Places, Sending
  <2>4. pc' \in [Tasks -> Places] /\ i' \in [Tasks -> Nat]
    BY <1>4, <2>3 DEF Acked, Goto
  <2>5. clocked' \in [Tasks -> BOOLEAN]
        /\ \A u \in Tasks : clocked'[u] => u # t /\ clocked[u] /\ pc'[u] = pc[u]
    BY <1>4 DEF Acked, Goto
  <2>6. QED BY <1>4, <2>2, <2>4, <2>5 DEF Acked
<1>5. ASSUME NEW t \in Tasks, NotAcked(t) PROVE BusType'
  <2>1. bits' = FALSE /\ dev' = dev /\ busy' \in 0..WriteTime BY <1>5 DEF NotAcked, Ignore
  <2>2. polls' \in [Tasks -> Nat] /\ pc' \in [Tasks -> Places]
    BY <1>5 DEF NotAcked, Goto, Places
  <2>3. clocked' \in [Tasks -> BOOLEAN]
        /\ \A u \in Tasks : clocked'[u] => u # t /\ clocked[u] /\ pc'[u] = pc[u]
    BY <1>5 DEF NotAcked, Goto
  <2>4. QED BY <1>5, <2>1, <2>2, <2>3 DEF NotAcked
<1>6. ASSUME NEW t \in Tasks, I2C_Stop(t) PROVE BusType'
  BY <1>6, Stopped DEF I2C_Stop, At, Goto, Places, Idle, Sending
<1>7. ASSUME NEW t \in Tasks, DelayEnds(t) PROVE BusType'
  BY <1>7 DEF DelayEnds, At, Goto, Places, Idle, Sending
<1>8. ASSUME NEW t \in Tasks, CmdFail(t) PROVE BusType'
  BY <1>8, Stopped DEF CmdFail, At, Goto, Places, Idle, Sending
<1>9. CASE SaveBlock
  BY <1>9, Both DEF SaveBlock, Goto, devVars, Places, Sending
<1>10. CASE ClearResets
  BY <1>10, Both DEF ClearResets, At, Goto, devVars, Places, Sending
<1>11. CASE Elapse
  BY <1>11 DEF Elapse, taskVars
<1>12. CASE UNCHANGED vars
  BY <1>12 DEF vars, taskVars, devVars
<1>13. QED
  BY <1>1, <1>2, <1>3, <1>4, <1>5, <1>6, <1>7, <1>8, <1>9, <1>10, <1>11, <1>12
     DEF Next, WriteBytes

-----------------------------------------------------------------------------
(* HwTest's steps.  It runs only while Port is idle, so that they find the *)
(* EEPROM idle or following HwTest.                                        *)

\* Port's part of the invariant, which is about the block, is not disturbed.
LEMMA PortRests ==
  ASSUME BusInv, pc["Port"] \in Idle, pc'["Port"] = pc["Port"], i'["Port"] = i["Port"],
         clocked'["Port"] = clocked["Port"], saves' = saves,
         \A a \in Block : mem'[a] = mem[a]
  PROVE  PortInv' /\ Undisturbed /\ Undisturbed'
<1>1. ~clocked["Port"] BY Both DEF BusInv, BusType, Idle, Sending
<1>2. PortInv' BY <1>1 DEF BusInv, PortInv, Idle, Sending
<1>3. QED BY <1>2 DEF Undisturbed

\* A stop condition of HwTest's writes at most its own byte.
LEMMA HwTestStop ==
  ASSUME BusInv, Stop, Undisturbed
  PROVE  /\ \A a \in Block : mem'[a] = mem[a]
         /\ mem'[Resets] = mem[Resets] \/ mem'[Resets] = 0
         /\ DOMAIN page' = {} /\ dev' = "idle"
<1>1. DOMAIN page \subseteq {Resets} /\ (Resets \in DOMAIN page => page[Resets] = 0)
  BY DEF BusInv, HwTestInv
<1>2. \A a \in Addresses :
         mem'[a] = mem[a] \/ (a \in DOMAIN page /\ mem'[a] = page[a])
  BY Stopped DEF BusInv
<1>3. dev' = "idle" /\ DOMAIN page' = {} BY Stopped, EmptyPage DEF BusInv
<1>4. QED BY <1>1, <1>2, <1>3, Layout

LEMMA HwTestNewPage == BusInv /\ NewPage("HwTest") => PortInv' /\ HwTestInv'
<1> SUFFICES ASSUME BusInv, NewPage("HwTest") PROVE PortInv' /\ HwTestInv' OBVIOUS
<1>1. pc["Port"] \in Idle /\ pc["HwTest"] = "page" BY DEF NewPage, At, Runs
<1>2. /\ pc'["Port"] = pc["Port"] /\ pc'["HwTest"] = "start"
      /\ UNCHANGED <<i, clocked, result, saves>> /\ Stop
  BY Both DEF NewPage, Goto, BusInv, BusType
<1>3. \A a \in Block : mem'[a] = mem[a]
  BY <1>1, <1>2, HwTestStop DEF Undisturbed
<1>4. PortInv' /\ Undisturbed /\ Undisturbed' BY <1>1, <1>2, <1>3, PortRests
<1>5. HwTestInv'
  BY <1>1, <1>2, <1>4, HwTestStop DEF BusInv, HwTestInv, Sending
<1>6. QED BY <1>4, <1>5

LEMMA HwTestStart == BusInv /\ I2C_Start("HwTest") => PortInv' /\ HwTestInv'
<1> SUFFICES ASSUME BusInv, I2C_Start("HwTest") PROVE PortInv' /\ HwTestInv' OBVIOUS
<1>1. pc["Port"] \in Idle /\ pc["HwTest"] = "start" BY DEF I2C_Start, At, Runs
<1>2. /\ pc'["Port"] = pc["Port"] /\ pc'["HwTest"] = "address"
      /\ UNCHANGED <<i, clocked, result, saves, mem>>
      /\ dev' \in {"idle", "address"} /\ page' = <<>>
  BY Both DEF I2C_Start, Goto, BusInv, BusType, StartBit
<1>3. PortInv' /\ Undisturbed /\ Undisturbed' BY <1>1, <1>2, PortRests
<1>4. DOMAIN page' = {} BY <1>2, EmptyPage
<1>5. HwTestInv' BY <1>1, <1>2, <1>3, <1>4 DEF BusInv, HwTestInv, Sending
<1>6. QED BY <1>3, <1>5

LEMMA HwTestSendByte == BusInv /\ I2C_SendByte("HwTest") => PortInv' /\ HwTestInv'
<1> SUFFICES ASSUME BusInv, I2C_SendByte("HwTest") PROVE PortInv' /\ HwTestInv' OBVIOUS
<1>1. pc["Port"] \in Idle /\ pc["HwTest"] \in Sending BY DEF I2C_SendByte, Runs
<1>2. clocked'["Port"] = clocked["Port"] /\ UNCHANGED <<pc, i, result, saves, dev, ptr, page, mem>>
  BY Both DEF I2C_SendByte, BusInv, BusType
<1>3. PortInv' /\ Undisturbed /\ Undisturbed' BY <1>1, <1>2, PortRests
<1>4. HwTestInv' BY <1>1, <1>2, <1>3 DEF BusInv, HwTestInv, Sending
<1>5. QED BY <1>3, <1>4

LEMMA HwTestAcked == BusInv /\ Acked("HwTest") => PortInv' /\ HwTestInv'
<1> SUFFICES ASSUME BusInv, Acked("HwTest") PROVE PortInv' /\ HwTestInv' OBVIOUS
<1> USE Both, Layout
<1>1. pc["Port"] \in Idle /\ pc["HwTest"] \in Sending /\ dev = pc["HwTest"] /\ i["HwTest"] = 0
  <2>1. pc["Port"] \in Idle /\ clocked["HwTest"] /\ bits BY DEF Acked, Runs
  <2>2. pc["HwTest"] \in Sending /\ dev # "idle" BY <2>1 DEF BusInv, BusType
  <2>3. QED BY <2>1, <2>2 DEF BusInv, HwTestInv, Undisturbed, Sending
<1>2. /\ pc'["Port"] = pc["Port"] /\ i'["Port"] = i["Port"] /\ bits' = FALSE
      /\ clocked'["Port"] = clocked["Port"] /\ UNCHANGED <<result, saves, mem>>
  BY DEF Acked, Goto, BusInv, BusType, Take
<1>3. PortInv' /\ Undisturbed /\ Undisturbed' BY <1>1, <1>2, PortRests
<1>4. UsAddr("HwTest") = Resets /\ Value("HwTest") = 0 /\ AfterByte("HwTest") = "end"
  BY <1>1 DEF UsAddr, Value, AfterByte
<1>5. CASE pc["HwTest"] = "data"
  <2>1. dev' = "data" /\ ptr = Resets
    BY <1>1, <1>3, <1>5, Followed DEF Acked, Take, BusInv, HwTestInv
  <2>2. DOMAIN page' = DOMAIN page \cup {Resets} /\ page'[Resets] = 0
    BY <1>1, <1>4, <1>5, <2>1 DEF Acked, Take
  <2>3. i'["HwTest"] = 1 /\ pc'["HwTest"] = "end"
    BY <1>1, <1>4, <1>5 DEF Acked, Goto, BusInv, BusType
  <2>4. QED
    BY <1>1, <1>2, <1>3, <2>1, <2>2, <2>3 DEF BusInv, HwTestInv, Sending
<1>6. CASE pc["HwTest"] # "data"
  <2>1. dev' = pc'["HwTest"] /\ pc'["HwTest"] \in Sending /\ page' = page
    BY <1>1, <1>6, Followed DEF Acked, Take, Goto, BusInv, BusType
  <2>2. dev' = "data" => ptr' = Resets
    BY <1>1, <1>4, <1>6, Followed DEF Acked, Take, Sending
  <2>3. i'["HwTest"] = 0 BY <1>1, <1>6 DEF Acked
  <2>4. QED
    BY <1>1, <1>2, <1>3, <2>1, <2>2, <2>3 DEF BusInv, HwTestInv, Sending
<1>7. QED BY <1>5, <1>6

LEMMA HwTestNotAcked == BusInv /\ NotAcked("HwTest") => PortInv' /\ HwTestInv'
<1> SUFFICES ASSUME BusInv, NotAcked("HwTest") PROVE PortInv' /\ HwTestInv' OBVIOUS
<1>1. pc["Port"] \in Idle /\ pc["HwTest"] \in Sending
  BY Both DEF NotAcked, Runs, BusInv, BusType
<1>2. /\ pc'["Port"] = pc["Port"] /\ clocked'["Port"] = clocked["Port"]
      /\ pc'["HwTest"] \in {"fail", "start"}
      /\ UNCHANGED <<i, result, saves, dev, ptr, page, mem>>
  BY Both DEF NotAcked, Goto, BusInv, BusType, Ignore
<1>3. PortInv' /\ Undisturbed /\ Undisturbed' BY <1>1, <1>2, PortRests
<1>4. HwTestInv' BY <1>1, <1>2, <1>3 DEF BusInv, HwTestInv, Sending
<1>5. QED BY <1>3, <1>4

LEMMA HwTestI2C_Stop == BusInv /\ I2C_Stop("HwTest") => PortInv' /\ HwTestInv'
<1> SUFFICES ASSUME BusInv, I2C_Stop("HwTest") PROVE PortInv' /\ HwTestInv' OBVIOUS
<1>1. pc["Port"] \in Idle /\ pc["HwTest"] = "end" BY DEF I2C_Stop, At, Runs
<1>2. /\ pc'["Port"] = pc["Port"] /\ pc'["HwTest"] = "delay"
      /\ UNCHANGED <<i, clocked, result, saves>> /\ Stop
  BY Both DEF I2C_Stop, Goto, BusInv, BusType
<1>3. \A a \in Block : mem'[a] = mem[a]
  BY <1>1, <1>2, HwTestStop DEF Undisturbed
<1>4. PortInv' /\ Undisturbed /\ Undisturbed' BY <1>1, <1>2, <1>3, PortRests
<1>5. mem'[Resets] = 0
  <2>1. CASE mem[Resets] = 0 BY <1>2, <1>4, <2>1, HwTestStop
  <2>2. CASE dev = "data" /\ ~bits /\ Resets \in DOMAIN page
    <3>1. page[Resets] = 0 BY <2>2 DEF BusInv, HwTestInv
    <3>2. page # <<>> BY <2>2, EmptyPage
    <3>3. QED BY <1>2, <2>2, <3>1, <3>2, Stopped, Layout DEF BusInv
  <2>3. QED BY <1>1, <2>1, <2>2 DEF BusInv, HwTestInv
<1>6. HwTestInv'
  BY <1>1, <1>2, <1>4, <1>5, HwTestStop DEF BusInv, HwTestInv, Sending
<1>7. QED BY <1>4, <1>6

LEMMA HwTestDelayEnds == BusInv /\ DelayEnds("HwTest") => PortInv' /\ HwTestInv'
<1> SUFFICES ASSUME BusInv, DelayEnds("HwTest") PROVE PortInv' /\ HwTestInv' OBVIOUS
<1>1. pc["Port"] \in Idle /\ pc["HwTest"] = "delay" BY DEF DelayEnds, At, Runs
<1>2. /\ pc'["Port"] = pc["Port"] /\ pc'["HwTest"] = "off" /\ result'["HwTest"] = "ok"
      /\ UNCHANGED <<i, clocked, saves, dev, ptr, page, mem>>
  BY Both DEF DelayEnds, Goto, BusInv, BusType
<1>3. PortInv' /\ Undisturbed /\ Undisturbed' BY <1>1, <1>2, PortRests
<1>4. HwTestInv' BY <1>1, <1>2, <1>3 DEF BusInv, HwTestInv, Sending
<1>5. QED BY <1>3, <1>4

LEMMA HwTestCmdFail == BusInv /\ CmdFail("HwTest") => PortInv' /\ HwTestInv'
<1> SUFFICES ASSUME BusInv, CmdFail("HwTest") PROVE PortInv' /\ HwTestInv' OBVIOUS
<1>1. pc["Port"] \in Idle /\ pc["HwTest"] = "fail" BY DEF CmdFail, At, Runs
<1>2. /\ pc'["Port"] = pc["Port"] /\ pc'["HwTest"] = "off" /\ result'["HwTest"] = "failed"
      /\ UNCHANGED <<i, clocked, saves>> /\ Stop
  BY Both DEF CmdFail, Goto, BusInv, BusType
<1>3. \A a \in Block : mem'[a] = mem[a]
  BY <1>1, <1>2, HwTestStop DEF Undisturbed
<1>4. PortInv' /\ Undisturbed /\ Undisturbed' BY <1>1, <1>2, <1>3, PortRests
<1>5. HwTestInv'
  BY <1>1, <1>2, <1>4, HwTestStop DEF BusInv, HwTestInv, Sending
<1>6. QED BY <1>4, <1>5

LEMMA ClearResetsKeeps == BusInv /\ ClearResets => PortInv' /\ HwTestInv'
<1> SUFFICES ASSUME BusInv, ClearResets PROVE PortInv' /\ HwTestInv' OBVIOUS
<1>1. pc["Port"] \in Idle /\ pc["HwTest"] = "off" /\ result["HwTest"] = "none"
  BY DEF ClearResets, At, Runs
<1>2. /\ pc'["Port"] = pc["Port"] /\ pc'["HwTest"] = "page"
      /\ UNCHANGED <<i, clocked, result, saves, dev, ptr, page, mem>>
  BY Both DEF ClearResets, Goto, BusInv, BusType, devVars
<1>3. PortInv' /\ Undisturbed /\ Undisturbed' BY <1>1, <1>2, PortRests
<1>4. HwTestInv' BY <1>1, <1>2, <1>3 DEF BusInv, HwTestInv, Sending
<1>5. QED BY <1>3, <1>4

-----------------------------------------------------------------------------
(* Port's steps.                                                           *)

\* HwTest's part of the invariant, while Port holds the bus: a torn write has
\* been ended by Port's stop condition, and the counter is not written.
LEMMA HwTestWaits ==
  ASSUME BusInv, ~Undisturbed', UNCHANGED <<i["HwTest"], pc["HwTest"], result["HwTest"]>>,
         Resets \in DOMAIN page' => page'[Resets] = 0,
         ~Undisturbed \/ pc["HwTest"] # "end" \/ mem'[Resets] = 0,
         mem'[Resets] = mem[Resets] \/ mem'[Resets] = 0
  PROVE  HwTestInv'
  BY DEF BusInv, HwTestInv

\* A stop condition writes whole what Port has sent.
LEMMA Written ==
  ASSUME BusInv, Stop, Full, UNCHANGED <<i["Port"], saves>>
  PROVE  /\ \A a \in Block : a < UsAddr("Port") => mem'[a] = saves
         /\ mem'[Resets] = mem[Resets]
<1>1. \A a \in Addresses : mem'[a] = IF a \in DOMAIN page THEN page[a] ELSE mem[a]
  BY Stopped DEF BusInv, Full
<1>2. QED BY <1>1, Layout DEF Full, Sent

LEMMA PortNewPage == BusInv /\ NewPage("Port") => PortInv' /\ HwTestInv'
<1> SUFFICES ASSUME BusInv, NewPage("Port") PROVE PortInv' /\ HwTestInv' OBVIOUS
<1> USE Both
<1>1. pc["Port"] = "page" /\ ~clocked["Port"]
  BY DEF NewPage, At, BusInv, BusType, Sending
<1>2. /\ pc'["Port"] = "start" /\ pc'["HwTest"] = pc["HwTest"] /\ polls'["Port"] = 0
      /\ UNCHANGED <<i, clocked, result, saves>> /\ Stop
  BY DEF NewPage, Goto, BusInv, BusType
<1>3. dev' = "idle" /\ page' = <<>> /\ DOMAIN page' = {} /\ busy' \in 0..WriteTime
  BY <1>2, Stopped, EmptyPage DEF BusInv
<1>4. /\ i["Port"] \in 0..Size["Port"] /\ i["Port"] < Size["Port"]
      /\ i["Port"] # 0 => Full
  BY <1>1 DEF BusInv, PortInv
<1>5. Sent'
  <2>1. CASE i["Port"] = 0
    BY <1>2, <2>1, Layout DEF Sent, UsAddr
  <2>2. CASE i["Port"] # 0
    <3>1. \A a \in Block : a < UsAddr("Port") => mem'[a] = saves
      BY <1>2, <1>4, <2>2, Written
    <3>2. QED BY <1>2, <1>3, <3>1 DEF Sent, UsAddr
  <2>3. QED BY <2>1, <2>2
<1>6. PortInv'
  <2>1. polls'["Port"] + busy' <= WriteTime
    <3>1. busy' \in Int /\ busy' <= WriteTime BY <1>3, Layout
    <3>2. polls'["Port"] = 0 BY <1>2
    <3>3. QED BY <3>1, <3>2
  <2>2. QED BY <1>1, <1>2, <1>3, <1>4, <1>5, <2>1 DEF PortInv, Idle, Sending
<1>7. HwTestInv'
  <2>1. \A a \in Addresses :
          mem'[a] = mem[a] \/ (a \in DOMAIN page /\ mem'[a] = page[a])
    BY <1>2, Stopped DEF BusInv
  <2>2. Resets \in DOMAIN page => page[Resets] = 0 BY DEF BusInv, HwTestInv
  <2>3. mem'[Resets] = mem[Resets] \/ mem'[Resets] = 0 BY <2>1, <2>2, Layout
  <2>4. ~Undisturbed' BY <1>2 DEF Undisturbed, Idle
  <2>5. pc["HwTest"] = "end" => mem'[Resets] = 0
    <3>1. SUFFICES ASSUME pc["HwTest"] = "end", mem[Resets] # 0 PROVE mem'[Resets] = 0
      BY <2>3
    <3>2. dev = "data" /\ ~bits /\ Resets \in DOMAIN page BY <3>1 DEF BusInv, HwTestInv
    <3>3. page # <<>> BY <3>2, EmptyPage
    <3>4. QED BY <1>2, <2>2, <3>2, <3>3, Stopped, Layout DEF BusInv
  <2>6. QED BY <1>2, <1>3, <2>3, <2>4, <2>5, HwTestWaits
<1>8. QED BY <1>6, <1>7

LEMMA PortStart == BusInv /\ I2C_Start("Port") => PortInv' /\ HwTestInv'
<1> SUFFICES ASSUME BusInv, I2C_Start("Port") PROVE PortInv' /\ HwTestInv' OBVIOUS
<1> USE Both
<1>1. pc["Port"] = "start" /\ ~clocked["Port"]
  BY DEF I2C_Start, At, BusInv, BusType, Sending
<1>2. /\ pc'["Port"] = "address" /\ pc'["HwTest"] = pc["HwTest"]
      /\ UNCHANGED <<i, clocked, polls, result, saves, mem, busy>>
      /\ page' = <<>> /\ DOMAIN page' = {}
      /\ dev' = IF busy > 0 THEN "idle" ELSE "address"
  BY EmptyPage DEF I2C_Start, Goto, StartBit, BusInv, BusType
<1>3. /\ page = <<>> /\ Sent /\ polls["Port"] + busy <= WriteTime
      /\ i["Port"] \in 0..Size["Port"] /\ i["Port"] < Size["Port"]
  BY <1>1 DEF BusInv, PortInv
<1>4. Sent' BY <1>2, <1>3 DEF Sent, UsAddr
<1>5. polls["Port"] \in Nat /\ busy \in Nat BY Layout DEF BusInv, BusType
<1>6. PortInv'
  BY <1>1, <1>2, <1>3, <1>4, <1>5, Layout DEF PortInv, Idle, Sending
<1>7. ~Undisturbed /\ ~Undisturbed' BY <1>1, <1>2 DEF Undisturbed, Idle
<1>8. HwTestInv' BY <1>2, <1>7, HwTestWaits
<1>9. QED BY <1>6, <1>8

LEMMA PortSendByte == BusInv /\ I2C_SendByte("Port") => PortInv' /\ HwTestInv'
<1> SUFFICES ASSUME BusInv, I2C_SendByte("Port") PROVE PortInv' /\ HwTestInv' OBVIOUS
<1> USE Both
<1>1. pc["Port"] \in Sending BY DEF I2C_SendByte
<1>2. /\ UNCHANGED <<pc, i, polls, result, saves, dev, ptr, page, busy, mem>>
      /\ bits' = (dev # "idle")
  BY DEF I2C_SendByte
<1>3. (Sent' <=> Sent) /\ UsAddr("Port")' = UsAddr("Port") BY <1>2 DEF Sent, UsAddr
<1>4. PortInv'
  <2>1. clocked'["Port"] => bits' = (dev' # "idle") BY <1>2
  <2>2. QED BY <1>1, <1>2, <1>3, <2>1, Layout DEF BusInv, PortInv, Idle, Sending
<1>5. ~Undisturbed /\ ~Undisturbed' BY <1>1, <1>2 DEF Undisturbed, Idle, Sending
<1>6. HwTestInv' BY <1>2, <1>5, HwTestWaits DEF BusInv, HwTestInv
<1>7. QED BY <1>4, <1>6

\* An acknowledged byte: the EEPROM was where Port is, and both go on.
LEMMA PortAcked == BusInv /\ Acked("Port") => PortInv' /\ HwTestInv'
<1> SUFFICES ASSUME BusInv, Acked("Port") PROVE PortInv' /\ HwTestInv' OBVIOUS
<1> USE Both
<1>1. /\ pc["Port"] \in Sending /\ dev = pc["Port"]
      /\ i["Port"] \in 0..Size["Port"] /\ i["Port"] < Size["Port"] /\ Sent
  <2>1. clocked["Port"] /\ bits BY DEF Acked
  <2>2. pc["Port"] \in Sending /\ dev # "idle" BY <2>1 DEF BusInv, BusType
  <2>3. QED BY <2>2 DEF BusInv, PortInv, Sending
<1>2. /\ pc'["HwTest"] = pc["HwTest"] /\ i'["HwTest"] = i["HwTest"]
      /\ ~clocked'["Port"] /\ bits' = FALSE /\ UNCHANGED <<polls, result, saves, mem, busy>>
  BY DEF Acked, Goto, BusInv, BusType, Take
<1>3. ~Undisturbed BY <1>1 DEF Undisturbed, Idle, Sending
<1>4. Value("Port") = saves /\ UsAddr("Port") \in Nat /\ UsAddr("Port") # Resets
  BY <1>1, Layout DEF Value, UsAddr
<1>5. CASE pc["Port"] = "data"
  <2>1. ptr = UsAddr("Port") /\ Resets \notin DOMAIN page
    BY <1>5 DEF BusInv, PortInv
  <2>2. /\ dev' = "data" /\ ptr' = Wrapped(ptr)
        /\ page' = [b \in DOMAIN page \cup {ptr} |-> IF b = ptr THEN saves ELSE page[b]]
    BY <1>1, <1>4, <1>5, Followed DEF Acked, Take
  <2>3. Resets \notin DOMAIN page' /\ page' # <<>>
    <3>1. DOMAIN page' = DOMAIN page \cup {ptr} BY <2>2
    <3>2. QED BY <1>4, <2>1, <3>1, EmptyPage
  <2>4. i'["Port"] = i["Port"] + 1 /\ pc'["Port"] = AfterByte("Port")
    BY <1>5 DEF Acked, Goto, BusInv, BusType
  <2>5. UsAddr("Port")' = UsAddr("Port") + 1
    BY <1>1, <2>4, Layout DEF UsAddr
  <2>6. Sent'
    <3>1. SUFFICES ASSUME NEW a \in Block, a < UsAddr("Port") + 1
                   PROVE  IF a \in DOMAIN page' THEN page'[a] = saves ELSE mem[a] = saves
      BY <1>2, <2>5 DEF Sent
    <3>2. CASE a = ptr BY <2>2, <3>2
    <3>3. CASE a # ptr
      <4>1. a < UsAddr("Port") BY <1>4, <2>1, <3>1, <3>3, Layout
      <4>2. QED BY <1>1, <2>2, <3>3, <4>1 DEF Sent
    <3>4. QED BY <3>2, <3>3
  <2>7. PortInv'
    <3>1. CASE i["Port"] + 1 = Size["Port"]
      <4>1. pc'["Port"] = "end" BY <2>4, <3>1 DEF AfterByte
      <4>2. QED
        BY <1>1, <1>2, <2>2, <2>3, <2>4, <2>6, <3>1, <4>1, Layout
           DEF PortInv, Full, Idle, Sending
    <3>2. CASE i["Port"] + 1 # Size["Port"] /\ (UsAddr("Port") + 1) % PageSize = 0
      <4>1. pc'["Port"] = "page" BY <2>4, <3>2 DEF AfterByte
      <4>2. QED
        BY <1>1, <1>2, <2>2, <2>3, <2>4, <2>6, <3>2, <4>1, Layout
           DEF PortInv, Full, Idle, Sending
    <3>3. CASE i["Port"] + 1 # Size["Port"] /\ (UsAddr("Port") + 1) % PageSize # 0
      <4>1. pc'["Port"] = "data" BY <2>4, <3>3 DEF AfterByte
      <4>2. ptr' = UsAddr("Port")' BY <2>1, <2>2, <2>5, <3>3 DEF Wrapped
      <4>3. QED
        BY <1>1, <1>2, <2>2, <2>3, <2>4, <2>6, <3>3, <4>1, <4>2, Layout
           DEF PortInv, Idle, Sending
    <3>4. QED BY <3>1, <3>2, <3>3
  <2>8. ~Undisturbed'
    <3>1. pc'["Port"] \in {"end", "page", "data"} /\ i'["Port"] # 0
      BY <1>1, <2>4 DEF AfterByte
    <3>2. QED BY <3>1 DEF Undisturbed, Idle
  <2>9. HwTestInv' BY <1>2, <1>3, <2>3, <2>8, HwTestWaits
  <2>10. QED BY <2>7, <2>9
<1>6. CASE pc["Port"] # "data"
  <2>1. /\ page = <<>> /\ page' = page /\ i' = i
        /\ dev' = Following[dev] /\ pc'["Port"] = Following[pc["Port"]]
        /\ dev = "low" => ptr' = UsAddr("Port")
    BY <1>1, <1>6 DEF Acked, Take, Goto, BusInv, BusType, PortInv, Sending
  <2>2. pc'["Port"] \in {"high", "low", "data"} /\ dev' = pc'["Port"]
        /\ (pc'["Port"] = "data" => dev = "low")
    BY <1>1, <1>6, <2>1, Followed DEF Sending
  <2>3. Sent' BY <1>1, <1>2, <2>1 DEF Sent, UsAddr
  <2>4. DOMAIN page' = {} BY <2>1, EmptyPage
  <2>5. UsAddr("Port")' = UsAddr("Port") BY <2>1 DEF UsAddr
  <2>6. PortInv'
    BY <1>1, <1>2, <2>1, <2>2, <2>3, <2>4, <2>5 DEF PortInv, Idle, Sending
  <2>7. ~Undisturbed' BY <2>2 DEF Undisturbed, Idle
  <2>8. HwTestInv' BY <1>2, <1>3, <2>4, <2>7, HwTestWaits
  <2>9. QED BY <2>6, <2>8
<1>7. QED BY <1>5, <1>6

\* Only Port's address byte goes unanswered, and not for long enough to fail.
LEMMA PortNotAcked == BusInv /\ NotAcked("Port") => PortInv' /\ HwTestInv'
<1> SUFFICES ASSUME BusInv, NotAcked("Port") PROVE PortInv' /\ HwTestInv' OBVIOUS
<1> USE Both
<1>1. pc["Port"] = "address" /\ dev = "idle"
  <2>1. clocked["Port"] /\ ~bits BY DEF NotAcked
  <2>2. pc["Port"] \in Sending /\ dev = "idle"
    BY <2>1 DEF BusInv, BusType, PortInv
  <2>3. QED BY <2>2 DEF BusInv, PortInv, Sending
<1>2. /\ polls["Port"] \in Nat /\ busy \in 0..WriteTime
      /\ polls["Port"] + busy <= WriteTime /\ polls["Port"] < WriteTime
      /\ i["Port"] \in 0..Size["Port"] /\ i["Port"] < Size["Port"] /\ page = <<>> /\ Sent
  BY <1>1 DEF BusInv, BusType, PortInv, Sending
<1>3. polls'["Port"] = polls["Port"] + 1 /\ pc'["Port"] = "start"
  <2>1. polls["Port"] + 1 # Polls BY <1>2, PatientEnough, Layout
  <2>2. QED BY <1>1, <2>1 DEF NotAcked, Goto, BusInv, BusType
<1>4. /\ pc'["HwTest"] = pc["HwTest"] /\ ~clocked'["Port"]
      /\ busy' = IF busy > 0 THEN busy - 1 ELSE 0
      /\ UNCHANGED <<i, result, saves, dev, ptr, page, mem>>
  BY DEF NotAcked, Goto, BusInv, BusType, Ignore
<1>5. polls'["Port"] + busy' <= WriteTime BY <1>2, <1>3, <1>4, Layout
<1>6. Sent' BY <1>2, <1>4 DEF Sent, UsAddr
<1>7. PortInv' BY <1>2, <1>3, <1>4, <1>5, <1>6 DEF PortInv, Idle, Sending
<1>8. ~Undisturbed /\ ~Undisturbed' BY <1>1, <1>3 DEF Undisturbed, Idle
<1>9. HwTestInv' BY <1>4, <1>8, HwTestWaits DEF BusInv, HwTestInv
<1>10. QED BY <1>7, <1>9

LEMMA PortStop == BusInv /\ I2C_Stop("Port") => PortInv' /\ HwTestInv'
<1> SUFFICES ASSUME BusInv, I2C_Stop("Port") PROVE PortInv' /\ HwTestInv' OBVIOUS
<1> USE Both
<1>1. pc["Port"] = "end" /\ ~clocked["Port"]
  BY DEF I2C_Stop, At, BusInv, BusType, Sending
<1>2. /\ pc'["Port"] = "delay" /\ pc'["HwTest"] = pc["HwTest"]
      /\ UNCHANGED <<i, clocked, result, saves>> /\ Stop
  BY DEF I2C_Stop, Goto, BusInv, BusType
<1>3. i["Port"] = Size["Port"] /\ Full BY <1>1 DEF BusInv, PortInv
<1>4. mem'[Resets] = mem[Resets] /\ \A a \in Block : mem'[a] = saves
  BY <1>2, <1>3, Written, Layout DEF UsAddr
<1>5. PortInv' BY <1>1, <1>2, <1>3, <1>4, Layout DEF PortInv, Idle, Sending
<1>6. ~Undisturbed BY <1>1 DEF Undisturbed, Idle
<1>7. dev' = "idle" /\ DOMAIN page' = {} BY <1>2, Stopped, EmptyPage DEF BusInv
<1>8. HwTestInv' BY <1>2, <1>4, <1>6, <1>7 DEF BusInv, HwTestInv, Sending
<1>9. QED BY <1>5, <1>8

LEMMA PortDelayEnds == BusInv /\ DelayEnds("Port") => PortInv' /\ HwTestInv'
<1> SUFFICES ASSUME BusInv, DelayEnds("Port") PROVE PortInv' /\ HwTestInv' OBVIOUS
<1> USE Both
<1>1. pc["Port"] = "delay" /\ ~clocked["Port"]
  BY DEF DelayEnds, At, BusInv, BusType, Sending
<1>2. /\ pc'["Port"] = "off" /\ pc'["HwTest"] = pc["HwTest"]
      /\ result'["HwTest"] = result["HwTest"]
      /\ UNCHANGED <<i, clocked, saves, dev, bits, ptr, page, mem>>
  BY DEF DelayEnds, Goto, BusInv, BusType
<1>3. PortInv' BY <1>1, <1>2 DEF BusInv, PortInv, Idle, Sending
<1>4. Undisturbed /\ Undisturbed' BY <1>1, <1>2 DEF Undisturbed, Idle
<1>5. HwTestInv' BY <1>2, <1>4 DEF BusInv, HwTestInv
<1>6. QED BY <1>3, <1>5

LEMMA SaveBlockKeeps == BusInv /\ SaveBlock => PortInv' /\ HwTestInv'
<1> SUFFICES ASSUME BusInv, SaveBlock PROVE PortInv' /\ HwTestInv' OBVIOUS
<1> USE Both
<1>1. pc["Port"] = "off" /\ ~clocked["Port"]
  BY DEF SaveBlock, BusInv, BusType, Sending
<1>2. /\ pc'["Port"] = "page" /\ i'["Port"] = 0
      /\ pc'["HwTest"] = pc["HwTest"] /\ i'["HwTest"] = i["HwTest"]
      /\ UNCHANGED <<clocked, result, dev, bits, ptr, page, busy, mem>>
  BY DEF SaveBlock, Goto, devVars, BusInv, BusType
<1>3. PortInv' BY <1>1, <1>2, Layout DEF PortInv, Idle, Sending
<1>4. Undisturbed /\ Undisturbed' BY <1>1, <1>2 DEF Undisturbed, Idle
<1>5. HwTestInv' BY <1>2, <1>4 DEF BusInv, HwTestInv
<1>6. QED BY <1>3, <1>5

LEMMA ElapseKeeps == BusInv /\ Elapse => PortInv' /\ HwTestInv'
<1> SUFFICES ASSUME BusInv, Elapse PROVE PortInv' /\ HwTestInv' OBVIOUS
<1>1. busy' = 0 /\ busy \in Nat /\ polls["Port"] \in Nat
  BY Both, Layout DEF Elapse, BusInv, BusType
<1>2. UNCHANGED <<pc, i, clocked, polls, result, saves, dev, bits, ptr, page, mem>>
  BY DEF Elapse, taskVars
<1>3. (Sent' <=> Sent) /\ (Full' <=> Full) BY <1>2 DEF Full, Sent, UsAddr
<1>4. PortInv' BY <1>1, <1>2, <1>3, Layout DEF BusInv, PortInv, UsAddr
<1>5. HwTestInv' BY <1>2 DEF BusInv, HwTestInv, Undisturbed
<1>6. QED BY <1>4, <1>5

-----------------------------------------------------------------------------
LEMMA BusStep == BusInv /\ [Next]_vars => BusInv'
<1> SUFFICES ASSUME BusInv, [Next]_vars PROVE PortInv' /\ HwTestInv'
  BY TypeStep DEF BusInv
<1>1. CASE WriteBytes("Port")
  <2>1. ~CmdFail("Port") BY <1>1 DEF CmdFail, At, BusInv, PortInv
  <2>2. QED
    BY <1>1, <2>1, PortNewPage, PortStart, PortSendByte, PortAcked, PortNotAcked, PortStop,
       PortDelayEnds DEF WriteBytes
<1>2. CASE WriteBytes("HwTest")
  BY <1>2, HwTestNewPage, HwTestStart, HwTestSendByte, HwTestAcked, HwTestNotAcked,
     HwTestI2C_Stop, HwTestDelayEnds, HwTestCmdFail DEF WriteBytes
<1>3. CASE UNCHANGED vars
  <2>1. UNCHANGED <<pc, i, clocked, polls, result, saves, dev, bits, ptr, page, busy, mem>>
    BY <1>3 DEF vars, taskVars, devVars
  <2>2. (Sent' <=> Sent) /\ (Full' <=> Full) BY <2>1 DEF Full, Sent, UsAddr
  <2>3. QED BY <2>1, <2>2 DEF BusInv, PortInv, HwTestInv, Undisturbed, UsAddr
<1>4. QED
  BY <1>1, <1>2, <1>3, SaveBlockKeeps, ClearResetsKeeps, ElapseKeeps DEF Next, Tasks

THEOREM BusInvariance == Spec => []BusInv
<1>1. QED BY BusInit, BusStep, PTL DEF Spec

\* A save that has returned has saved every byte of the block, whatever HwTest
\* was doing on the bus when it began (IF_At24c256_WriteBytes).
THEOREM SaveCorrect == Spec => []SaveArrives
<1>1. BusInv => SaveArrives BY DEF BusInv, PortInv, SaveArrives
<1>2. QED BY <1>1, BusInvariance, PTL

\* HwTest's call returns success only when the counter of resets is cleared,
\* however often Port has preempted it.
THEOREM OkCorrect == Spec => []OkIsCleared
<1>1. BusInv => OkIsCleared BY DEF BusInv, HwTestInv, OkIsCleared
<1>2. QED BY <1>1, BusInvariance, PTL

\* No write of the block gives up: the EEPROM is asked for longer than it takes
\* to write a page, and answers every byte after its address.
THEOREM PortNeverFails == Spec => [](pc["Port"] # "fail")
<1>1. BusInv => pc["Port"] # "fail" BY DEF BusInv, PortInv
<1>2. QED BY <1>1, BusInvariance, PTL
=============================================================================
