----------------------------- MODULE EepromBus -----------------------------
(***************************************************************************)
(* Writing to the EEPROM over the two-wire bus that the processor drives   *)
(* pin by pin.  Two tasks write, without a lock: Port saves a block of     *)
(* parameters, page by page; HwTest, of lower priority, clears once the    *)
(* counter of resets, a byte in a page of its own.  Port preempts HwTest   *)
(* between any two of its steps, and HwTest runs when Port has none, which *)
(* includes the 5 ms for which a write waits at its end.                   *)
(*                                                                         *)
(* A byte takes two steps, its bits and the clock of its acknowledgement.  *)
(* A finer grain shows nothing else: Port's first stop condition leaves    *)
(* both wires high, so what HwTest still sends of a byte can begin no more *)
(* than an address byte whose ninth clock never comes.                     *)
(*                                                                         *)
(* External: the EEPROM.  It gives way to the processor's push-pull output *)
(* on the data wire, and stops answering while it writes a page.           *)
(***************************************************************************)
EXTENDS Naturals, FiniteSets, Functions

CONSTANTS
  PageSize,   \* bytes in a page
  BlockPages, \* pages of the parameter block
  WriteTime,  \* polls for which the EEPROM writes a page
  Polls,      \* polls after which a write gives up (1000)
  Saves       \* bound: saves of the block

ASSUME EepromAssumption ==
  /\ {PageSize, BlockPages, WriteTime, Polls, Saves} \subseteq Nat \ {0}
  /\ Polls > (Saves + 1) * (WriteTime + 1)

Tasks == {"Port", "HwTest"}
Resets == 0                                  \* SYSTEM_RESET_TIMES_ADDR
Block == PageSize .. PageSize * (BlockPages + 1) - 1
Addresses == 0 .. PageSize * (BlockPages + 1) - 1
First == [t \in Tasks |-> IF t = "Port" THEN PageSize ELSE Resets]
Size == [t \in Tasks |-> IF t = "Port" THEN PageSize * BlockPages ELSE 1]

VARIABLES
  pc,     \* where a task is in IF_At24c256_WriteBytes
  i,      \* the byte of the buffer it is at
  clocked,\* whether that byte's bits are out and its acknowledgement is due
  polls,  \* how often it has polled for this page
  result, \* what the last call returned
  saves,  \* the saves begun; the value of the block's bytes
  dev,    \* what the EEPROM takes the next byte for
  bits,   \* whether it has the bits of a byte
  ptr,    \* its address counter
  page,   \* the bytes it has for its page
  busy,   \* polls until it has written a page
  mem     \* its memory

taskVars == <<pc, i, clocked, polls, result, saves>>
devVars == <<dev, bits, ptr, page, busy, mem>>
vars == <<taskVars, devVars>>

Sending == {"address", "high", "low", "data"}
Idle == {"off", "delay"}

TypeOK ==
  /\ pc \in [Tasks -> Sending \cup Idle \cup {"page", "start", "end", "fail"}]
  /\ \A t \in Tasks : i[t] \in 0..Size[t] /\ (pc[t] \in Sending => i[t] < Size[t])
  /\ clocked \in [Tasks -> BOOLEAN]
  /\ polls \in [Tasks -> 0..Polls]
  /\ result \in [Tasks -> {"none", "ok", "failed"}]
  /\ saves \in 0..Saves
  /\ dev \in Sending \cup {"idle"}
  /\ bits \in BOOLEAN
  /\ ptr \in Addresses
  /\ DOMAIN page \subseteq Addresses
  /\ Cardinality({a \div PageSize : a \in DOMAIN page}) <= 1
  /\ busy \in 0..WriteTime
  /\ mem \in [Addresses -> 0..(Saves + 1)]

\* HwTest's byte is 0; the counter has another value before.
Value(t) == IF t = "Port" THEN saves ELSE 0

Init ==
  /\ pc = [t \in Tasks |-> "off"]
  /\ i = [t \in Tasks |-> 0]
  /\ clocked = [t \in Tasks |-> FALSE]
  /\ polls = [t \in Tasks |-> 0]
  /\ result = [t \in Tasks |-> "none"]
  /\ saves = 0
  /\ dev = "idle" /\ bits = FALSE /\ ptr = 0 /\ page = <<>> /\ busy = 0
  /\ mem = [a \in Addresses |-> IF a = Resets THEN Saves + 1 ELSE 0]

-----------------------------------------------------------------------------
(* The EEPROM.                                                             *)
\* A stop condition: whole bytes are written, a torn byte undoes its page.
Stop ==
  /\ dev' = "idle" /\ bits' = FALSE /\ page' = <<>>
  /\ IF dev = "data" /\ ~bits /\ page # <<>>
     THEN /\ mem' = [a \in Addresses |-> IF a \in DOMAIN page THEN page[a] ELSE mem[a]]
          /\ busy' = WriteTime
     ELSE UNCHANGED <<mem, busy>>
  /\ UNCHANGED ptr

\* A start condition, which an EEPROM that writes does not see.
StartBit ==
  /\ dev' = IF busy > 0 THEN "idle" ELSE "address"
  /\ bits' = FALSE /\ page' = <<>>
  /\ UNCHANGED <<ptr, busy, mem>>

Following == [address |-> "high", high |-> "low", low |-> "data", data |-> "data"]
Wrapped(a) == IF (a + 1) % PageSize = 0 THEN a + 1 - PageSize ELSE a + 1

\* It acknowledges a byte of the address a and the value v, and takes it.
Take(a, v) ==
  /\ dev' = Following[dev] /\ bits' = FALSE
  /\ ptr' = IF dev = "low" THEN a ELSE IF dev = "data" THEN Wrapped(ptr) ELSE ptr
  /\ page' = IF dev = "data"
             THEN [b \in DOMAIN page \cup {ptr} |-> IF b = ptr THEN v ELSE page[b]]
             ELSE page
  /\ UNCHANGED <<busy, mem>>

\* It does not answer; the time of a poll passes.
Ignore ==
  /\ busy' = IF busy > 0 THEN busy - 1 ELSE 0
  /\ bits' = FALSE
  /\ UNCHANGED <<dev, ptr, page, mem>>

-----------------------------------------------------------------------------
(* IF_At24c256_WriteBytes.                                                 *)
Runs(t) == t = "HwTest" => pc["Port"] \in Idle
At(t, where) == Runs(t) /\ pc[t] = where
Goto(t, where) == pc' = [pc EXCEPT ![t] = where]
UsAddr(t) == First[t] + i[t]

NewPage(t) ==
  /\ At(t, "page")
  /\ Stop
  /\ polls' = [polls EXCEPT ![t] = 0]
  /\ Goto(t, "start")
  /\ UNCHANGED <<i, clocked, result, saves>>

I2C_Start(t) ==
  /\ At(t, "start")
  /\ StartBit
  /\ Goto(t, "address")
  /\ UNCHANGED <<i, clocked, polls, result, saves>>

I2C_SendByte(t) ==
  /\ Runs(t) /\ pc[t] \in Sending /\ ~clocked[t]
  /\ clocked' = [clocked EXCEPT ![t] = TRUE]
  /\ bits' = (dev # "idle")
  /\ UNCHANGED <<pc, i, polls, result, saves, dev, ptr, page, busy, mem>>

AfterByte(t) ==
  IF i[t] + 1 = Size[t] THEN "end"
  ELSE IF (UsAddr(t) + 1) % PageSize = 0 THEN "page" ELSE "data"

Acked(t) ==
  /\ Runs(t) /\ clocked[t] /\ bits
  /\ clocked' = [clocked EXCEPT ![t] = FALSE]
  /\ Take(UsAddr(t), Value(t))
  /\ IF pc[t] = "data"
     THEN i' = [i EXCEPT ![t] = @ + 1] /\ Goto(t, AfterByte(t))
     ELSE UNCHANGED i /\ Goto(t, Following[pc[t]])
  /\ UNCHANGED <<polls, result, saves>>

\* Mutant of NotAcked: the EEPROM is asked once whether it is ready.
NotAckedOnce(t) ==
  /\ Runs(t) /\ clocked[t] /\ ~bits
  /\ clocked' = [clocked EXCEPT ![t] = FALSE]
  /\ Ignore
  /\ Goto(t, "fail")
  /\ UNCHANGED <<i, polls, result, saves>>

\* Mutant of NotAcked: only the poll for the address looks at the answer.
NotAckedGoOn(t) ==
  /\ Runs(t) /\ clocked[t] /\ ~bits
  /\ clocked' = [clocked EXCEPT ![t] = FALSE]
  /\ Ignore
  /\ IF pc[t] = "data"
     THEN i' = [i EXCEPT ![t] = @ + 1] /\ Goto(t, AfterByte(t))
     ELSE UNCHANGED i /\ Goto(t, IF pc[t] = "address" THEN "start" ELSE Following[pc[t]])
  /\ UNCHANGED <<polls, result, saves>>

\* Mutant of NotAcked: whatever was not answered is sent again.
NotAckedRepeat(t) ==
  /\ Runs(t) /\ clocked[t] /\ ~bits
  /\ clocked' = [clocked EXCEPT ![t] = FALSE]
  /\ Ignore
  /\ UNCHANGED <<pc, i, polls, result, saves>>

\* Without an answer the address is tried again, any other byte ends the write.
NotAcked(t) ==
  /\ Runs(t) /\ clocked[t] /\ ~bits
  /\ clocked' = [clocked EXCEPT ![t] = FALSE]
  /\ Ignore
  /\ \/ /\ pc[t] = "address"
        /\ polls' = [polls EXCEPT ![t] = @ + 1]
        /\ Goto(t, IF polls[t] + 1 = Polls THEN "fail" ELSE "start")
     \/ pc[t] # "address" /\ Goto(t, "fail") /\ UNCHANGED polls
  /\ UNCHANGED <<i, result, saves>>

I2C_Stop(t) ==
  /\ At(t, "end")
  /\ Stop
  /\ Goto(t, "delay")
  /\ UNCHANGED <<i, clocked, polls, result, saves>>

\* delay_ms gives the processor to the other tasks; the page is written.
DelayEnds(t) ==
  /\ At(t, "delay")
  /\ busy' = 0
  /\ Goto(t, "off") /\ result' = [result EXCEPT ![t] = "ok"]
  /\ UNCHANGED <<i, clocked, polls, saves, dev, bits, ptr, page, mem>>

CmdFail(t) ==
  /\ At(t, "fail")
  /\ Stop
  /\ Goto(t, "off") /\ result' = [result EXCEPT ![t] = "failed"]
  /\ UNCHANGED <<i, clocked, polls, saves>>

WriteBytes(t) ==
  \/ NewPage(t) \/ I2C_Start(t) \/ I2C_SendByte(t) \/ Acked(t) \/ NotAcked(t)
  \/ I2C_Stop(t) \/ DelayEnds(t) \/ CmdFail(t)

-----------------------------------------------------------------------------
\* Port saves the block.  What the call returns, nobody looks at.
SaveBlock ==
  /\ pc["Port"] = "off" /\ saves < Saves
  /\ saves' = saves + 1
  /\ i' = [i EXCEPT !["Port"] = 0] /\ Goto("Port", "page")
  /\ UNCHANGED <<clocked, polls, result, devVars>>

\* Once, 10 seconds after power-up.
ClearResets ==
  /\ At("HwTest", "off") /\ result["HwTest"] = "none"
  /\ Goto("HwTest", "page")
  /\ UNCHANGED <<i, clocked, polls, result, saves, devVars>>

\* Time enough for a page passes.
Elapse ==
  /\ busy > 0 /\ busy' = 0
  /\ UNCHANGED <<taskVars, dev, bits, ptr, page, mem>>

Next ==
  \/ \E t \in Tasks : WriteBytes(t)
  \/ SaveBlock \/ ClearResets \/ Elapse

Spec == Init /\ [][Next]_vars

FairSpec == Spec /\ WF_vars(\E t \in Tasks : WriteBytes(t))

-----------------------------------------------------------------------------
\* Whatever HwTest was doing when Port began, a save that has returned has
\* saved the whole block.
SaveArrives == pc["Port"] \in Idle => \A a \in Block : mem[a] = saves

\* Success is reported only of a counter that is cleared, even when Port's stop
\* condition has ended the write.
OkIsCleared == result["HwTest"] = "ok" => mem[Resets] = 0

\* A write that has begun returns, however often Port preempts HwTest.
WritesReturn == \A t \in Tasks : (pc[t] # "off") ~> (pc[t] = "off")

\* After HwTest's call the counter of resets is cleared.
ResetsCleared == result["HwTest"] # "none" => mem[Resets] = 0
=============================================================================
