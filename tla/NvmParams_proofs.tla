-------------------------- MODULE NvmParams_proofs --------------------------
(***************************************************************************)
(* Proofs about the saving of parameters, for any blocks, any length of    *)
(* the queue and any number of settings: three tasks that clear each       *)
(* other's flags lose no save by it.                                       *)
(*                                                                         *)
(* The invariant: a loop that has sent a flag's command and has yet to     *)
(* clear the flag may do so, because the block is safe without it.  In the *)
(* Port task the command is still in the queue, which only this task       *)
(* empties; in DebugHMI it may have been executed meanwhile, but then only *)
(* UserHMI can have changed the block since, and that sends by itself.     *)
(***************************************************************************)
EXTENDS NvmParams, FiniteSetTheorems, TLAPS

Actions == Ids \cup {Reset}

\* The user block's two copies share a place in the EEPROM.
Saves == {"fs", "now"} \X (Blocks \ {"user"})

Value(i)  == IF i[1] = "now" THEN now[i[2]] ELSE fs[i[2]]
Stored(i) == IF i[1] = "now" THEN nvm[i[2]] ELSE fsNvm[i[2]]

\* What the RAM may hold, which is never the content of an erased block.
InRam == [n : 0 .. MaxSets, of : {"now", "fs"}] \cup {Zero, Torn}

NvmType ==
    /\ now \in [Blocks -> InRam] /\ fs \in [Blocks -> InRam]
    /\ nvm \in [Blocks -> InRam \cup {Blank}] /\ fsNvm \in [Blocks -> InRam \cup {Blank}]
    /\ factory \in BOOLEAN /\ mixed \in BOOLEAN
    /\ flags \subseteq Actions
    /\ queue \in Seq(Ids \cup {Reset})
    /\ dbg \in [at : {"idle", "dob", "fsflag", "now", "nowflag", "copied"},
                blk : Blocks \cup {None}]
    /\ dbg.at \in {"fsflag", "now", "nowflag"} => dbg.blk \in Blocks
    /\ pos \in [Loopers -> Nat] /\ sent \in [Loopers -> BOOLEAN]
    /\ writing \in Ids \cup {None}
    /\ sets \in 0 .. MaxSets

\* DebugHMI has changed the block and is about to raise the flag.
Raising(i) ==
    IF i[1] = "now"
    THEN dbg.at = "copied" \/ (dbg.at = "nowflag" /\ dbg.blk = i[2])
    ELSE dbg.at = "fsflag" /\ dbg.blk = i[2]

\* The block is saved, or will be without its flag, or its save was refused.
Sure(i) ==
    \/ Value(i) = Checked(Stored(i)) /\ writing # i
    \/ writing = i /\ ~ mixed
    \/ i \in ToSet(queue)
    \/ i \in dropped
    \/ i = <<"now", "parts">> /\ Value(i) = Zero

KeptInv == \A i \in Saves : i \in flags \/ Raising(i) \/ Sure(i)

\* The flag that a loop has sent and will clear.
Clears(t) == Order[pos[t]]

LoopInv ==
    /\ \A t \in Loopers : sent[t] => pos[t] # 0
    /\ pos["debug"] # 0 => dbg.at = "idle"
    /\ sent["port"] => Clears("port") \in ToSet(queue) \cup dropped
    /\ sent["debug"] => \A i \in Saves : i = Clears("debug") => Sure(i)

IInv == NvmType /\ KeptInv /\ LoopInv

-----------------------------------------------------------------------------
(* Sequences of commands.                                                  *)

LEMMA ActionsFinite ==
    ASSUME NEW fl \in SUBSET Actions
    PROVE  Cardinality(fl) \in Nat
<1>1. IsFiniteSet({"parts", "common", "internal", "user"})
  <2>1. IsFiniteSet({} \cup {"parts"}) BY FS_EmptySet, FS_AddElement
  <2>2. IsFiniteSet({} \cup {"parts"} \cup {"common"}) BY <2>1, FS_AddElement
  <2>3. IsFiniteSet({} \cup {"parts"} \cup {"common"} \cup {"internal"})
    BY <2>2, FS_AddElement
  <2>4. IsFiniteSet({} \cup {"parts"} \cup {"common"} \cup {"internal"} \cup {"user"})
    BY <2>3, FS_AddElement
  <2>5. {"parts", "common", "internal", "user"}
          = {} \cup {"parts"} \cup {"common"} \cup {"internal"} \cup {"user"}
    OBVIOUS
  <2> QED BY <2>4, <2>5
<1>2. IsFiniteSet(Blocks) BY <1>1, FS_Subset, BlocksAssumption
<1>3. IsFiniteSet({"fs", "now"})
  <2>1. IsFiniteSet({} \cup {"fs"}) BY FS_EmptySet, FS_AddElement
  <2>2. IsFiniteSet({} \cup {"fs"} \cup {"now"}) BY <2>1, FS_AddElement
  <2>3. {"fs", "now"} = {} \cup {"fs"} \cup {"now"} OBVIOUS
  <2> QED BY <2>2, <2>3
<1>4. IsFiniteSet(Ids) BY <1>2, <1>3, FS_Product DEF Ids
<1>5. IsFiniteSet(Actions) BY <1>4, FS_AddElement DEF Actions
<1> QED BY <1>5, FS_Subset, FS_CardinalityType

\* What is sent is in the queue or refused, and what was in it stays.
LEMMA SentFacts ==
    ASSUME NEW S, NEW q \in Seq(S), NEW cs \in Seq(S)
    PROVE  /\ Sent(q, cs) \in Seq(S)
           /\ ToSet(q) \subseteq ToSet(Sent(q, cs))
           /\ ToSet(cs) \subseteq ToSet(Sent(q, cs)) \cup Refused(q, cs)
<1> DEFINE room == QueueLength - Len(q)
           k == IF room < Len(cs) THEN room ELSE Len(cs)
           s == SubSeq(cs, 1, k)
<1> USE QueueAssumption
<1>1. k \in Int /\ k <= Len(cs) OBVIOUS
<1>2. s \in Seq(S) /\ Len(s) = IF 1 <= k THEN k ELSE 0 BY <1>1
<1>3. Sent(q, cs) = q \o s BY DEF Sent
<1>4. q \o s \in Seq(S) /\ Len(q \o s) = Len(q) + Len(s) BY <1>2
<1>5. \A j \in 1 .. Len(q) : (q \o s)[j] = q[j] BY <1>2
<1>6. ASSUME NEW j \in 1 .. Len(cs)
      PROVE  cs[j] \in ToSet(q \o s) \/ cs[j] \in Refused(q, cs)
  <2>1. CASE j <= k
    <3>1. s[j] = cs[j] /\ j \in 1 .. Len(s) BY <1>1, <1>2, <2>1
    <3>2. (q \o s)[Len(q) + j] = cs[j] /\ Len(q) + j \in 1 .. Len(q \o s)
      BY <1>2, <1>4, <3>1
    <3>3. DOMAIN (q \o s) = 1 .. Len(q \o s) BY <1>4
    <3>4. \E i \in DOMAIN (q \o s) : (q \o s)[i] = cs[j] BY <3>2, <3>3, Zenon
    <3>5. cs[j] \in {(q \o s)[i] : i \in DOMAIN (q \o s)} BY <3>4, Zenon
    <3> QED BY <3>5, Zenon DEF ToSet
  <2>2. CASE ~ (j <= k)
    <3>1. j \in (QueueLength - Len(q)) + 1 .. Len(cs) BY <2>2
    <3> QED BY <3>1 DEF Refused
  <2> QED BY <2>1, <2>2
<1>7. ToSet(q) \subseteq ToSet(q \o s) BY <1>4, <1>5 DEF ToSet
<1>8. ToSet(cs) \subseteq ToSet(q \o s) \cup Refused(q, cs) BY <1>6 DEF ToSet
<1> QED BY <1>3, <1>4, <1>7, <1>8


LEMMA RunLoopFacts ==
    ASSUME NvmType, NEW fl \in SUBSET Actions, RunLoop(fl)
    PROVE  /\ queue' \in Seq(Actions)
           /\ ToSet(queue) \subseteq ToSet(queue')
           /\ fl \subseteq ToSet(queue') \cup dropped'
           /\ dropped \subseteq ToSet(queue') \cup dropped'
           /\ flags' = {}
<1>1. PICK cs \in InOrder(fl) : /\ queue' = Sent(queue, cs)
                                /\ dropped' = (dropped \ fl) \cup Refused(queue, cs)
                                /\ flags' = {}
  BY DEF RunLoop
<1>2. cs \in [1 .. Cardinality(fl) -> fl] /\ fl \subseteq ToSet(cs)
  BY DEF InOrder
<1>3. cs \in Seq(Actions) BY <1>2, ActionsFinite
<1>4. queue \in Seq(Actions) BY DEF NvmType, Actions
<1> QED BY <1>1, <1>2, <1>3, <1>4, SentFacts

LEMMA SendFlagFacts ==
    ASSUME NvmType, NEW t \in Loopers, SendFlag(t)
    PROVE  /\ queue' \in Seq(Actions)
           /\ ToSet(queue) \subseteq ToSet(queue')
           /\ dropped \subseteq ToSet(queue') \cup dropped'
           /\ Clears(t) \in ToSet(queue') \cup dropped'
<1> DEFINE cs == <<Clears(t)>>
<1>1. /\ Clears(t) \in flags /\ queue' = Sent(queue, cs)
      /\ dropped' = (dropped \ {Clears(t)}) \cup Refused(queue, cs)
  BY DEF SendFlag, Clears
<1>2. queue \in Seq(Actions) /\ Clears(t) \in Actions BY <1>1 DEF NvmType, Actions
<1>3. cs \in Seq(Actions) /\ cs[1] = Clears(t) /\ DOMAIN cs = {1} BY <1>2
<1>4. Clears(t) \in ToSet(cs) BY <1>3 DEF ToSet
<1> QED BY <1>1, <1>2, <1>3, <1>4, SentFacts

\* Taking a command leaves the others.
LEMMA TakeFacts ==
    ASSUME NvmType, queue # <<>>, queue' = Tail(queue)
    PROVE  /\ queue' \in Seq(Actions) /\ Head(queue) \in Actions
           /\ \A i \in ToSet(queue) : i = Head(queue) \/ i \in ToSet(queue')
<1>1. queue \in Seq(Actions) BY DEF NvmType, Actions
<1>2. /\ queue' \in Seq(Actions) /\ Head(queue) \in Actions
      /\ Len(queue') = Len(queue) - 1
  BY <1>1
<1>3. ASSUME NEW j \in 1 .. Len(queue)
      PROVE  queue[j] = Head(queue) \/ queue[j] \in ToSet(queue')
  <2>1. CASE j = 1 BY <1>1, <2>1
  <2>2. CASE j # 1
    <3>1. Tail(queue)[j - 1] = queue[j] /\ j - 1 \in 1 .. Len(queue) - 1
      BY <1>1, <2>2
    <3>2. j - 1 \in DOMAIN queue' BY <1>2, <3>1
    <3> QED BY <3>1, <3>2 DEF ToSet
  <2> QED BY <2>1, <2>2
<1> QED BY <1>2, <1>3 DEF ToSet


-----------------------------------------------------------------------------
(* The invariant is kept.                                                  *)

LEMMA SavesAre ==
    ASSUME NEW i \in Saves
    PROVE  /\ i = <<i[1], i[2]>> /\ i[1] \in {"fs", "now"}
           /\ i[2] \in Blocks /\ i[2] # "user" /\ i \in Ids /\ i \in Actions
BY DEF Saves, Ids, Actions

\* A block stays safe as long as nothing touches it and no command is lost.
LEMMA SureFrame ==
    ASSUME NEW i \in Saves, Sure(i),
           Value(i)' = Value(i), Stored(i)' = Stored(i), writing' = writing,
           writing = i => mixed' = mixed,
           i \in ToSet(queue) \cup dropped => i \in ToSet(queue') \cup dropped'
    PROVE  Sure(i)'
BY DEF Sure, Checked

\* UserHMI runs the loop to its end: every flag's command is sent or refused.
LEMMA AfterRunLoop ==
    ASSUME IInv, NEW fl \in SUBSET Actions, flags \subseteq fl, RunLoop(fl),
           \A i \in Saves \ fl : Value(i)' = Value(i) /\ (writing = i => mixed' = mixed),
           UNCHANGED <<nvm, fsNvm, dbg, pos, sent, writing>>
    PROVE  KeptInv' /\ LoopInv'
<1>1. /\ ToSet(queue) \subseteq ToSet(queue')
      /\ fl \subseteq ToSet(queue') \cup dropped'
      /\ dropped \subseteq ToSet(queue') \cup dropped'
      /\ flags' = {}
  BY RunLoopFacts DEF IInv
<1>2. ASSUME NEW i \in Saves, i \in fl \/ Sure(i) PROVE Sure(i)'
  <2>1. CASE i \in fl BY <1>1, <2>1 DEF Sure
  <2>2. CASE i \notin fl
    <3>1. Stored(i)' = Stored(i) BY DEF Stored
    <3> QED BY <1>1, <1>2, <2>2, <3>1, SureFrame
  <2> QED BY <2>1, <2>2
<1>3. ASSUME NEW i \in Saves PROVE (i \in flags \/ Raising(i) \/ Sure(i))'
  <2>1. i \in flags \/ Raising(i) \/ Sure(i) BY DEF IInv, KeptInv
  <2>2. Raising(i)' = Raising(i) BY DEF Raising
  <2> QED BY <1>2, <2>1, <2>2
<1>4. KeptInv' BY <1>3 DEF KeptInv
<1>5. \A t \in Loopers : Clears(t)' = Clears(t) BY DEF Clears
<1>6. "port" \in Loopers /\ "debug" \in Loopers BY DEF Loopers
<1>7. LoopInv' BY <1>1, <1>2, <1>5, <1>6 DEF IInv, LoopInv
<1> QED BY <1>4, <1>7

LEMMA FreshInRam ==
    ASSUME NvmType, sets < MaxSets, NEW area \in {"now", "fs"}
    PROVE  Fresh(area) \in InRam /\ sets + 1 \in 0 .. MaxSets
BY QueueAssumption DEF NvmType, Fresh, InRam

LEMMA UserStep == IInv /\ User => IInv'
<1> SUFFICES ASSUME IInv, User PROVE IInv' OBVIOUS
<1>0. NvmType BY DEF IInv
<1> USE DEF blockVars, taskVars
<1>1. CASE \E b \in Blocks : UserSet(b)
  <2>1. PICK b \in Blocks : UserSet(b) BY <1>1
  <2> DEFINE fl == flags \cup SetFlags(b)
  <2>2. fl \in SUBSET Actions /\ flags \subseteq fl
    BY <1>0, <2>1 DEF NvmType, SetFlags, Actions, Ids
  <2>3. RunLoop(fl) BY <2>1 DEF UserSet
  <2>4. ASSUME NEW i \in Saves \ fl
        PROVE  Value(i)' = Value(i) /\ (writing = i => mixed' = mixed)
    <3>1. i = <<i[1], i[2]>> /\ i[1] \in {"fs", "now"} /\ i[2] \in Blocks BY SavesAre
    <3>2. i \notin SetFlags(b) BY <2>4
    <3>3. i # <<"now", b>> /\ (factory => i # <<"fs", b>>) BY <3>2 DEF SetFlags
    <3>4. Value(i)' = Value(i)
      BY <1>0, <2>1, <3>1, <3>3 DEF UserSet, Value, NvmType
    <3>5. writing = i => mixed' = mixed
      BY <1>0, <2>1, <3>2 DEF UserSet, Touches, NvmType
    <3> QED BY <3>4, <3>5
  <2>5. UNCHANGED <<nvm, fsNvm, dbg, pos, sent, writing>> BY <2>1 DEF UserSet
  <2>6. KeptInv' /\ LoopInv' BY <2>2, <2>3, <2>4, <2>5, AfterRunLoop
  <2>7. queue' \in Seq(Actions) /\ flags' = {} BY <1>0, <2>2, <2>3, RunLoopFacts
  <2>8. NvmType'
    <3>1. Fresh("now") \in InRam /\ Fresh("fs") \in InRam /\ sets + 1 \in 0 .. MaxSets
      BY <1>0, <2>1, FreshInRam DEF UserSet
    <3>2. mixed' \in BOOLEAN BY <2>1 DEF UserSet, Touches
    <3> QED BY <1>0, <2>1, <2>7, <3>1, <3>2 DEF UserSet, NvmType, Actions
  <2> QED BY <2>6, <2>8 DEF IInv
<1>2. CASE UserResume
  <2> DEFINE fl == flags \cup {"now"} \X Blocks
  <2>1. fl \in SUBSET Actions /\ flags \subseteq fl BY <1>0 DEF NvmType, Actions, Ids
  <2>2. RunLoop(fl) BY <1>2 DEF UserResume
  <2>3. ASSUME NEW i \in Saves \ fl
        PROVE  Value(i)' = Value(i) /\ (writing = i => mixed' = mixed)
    <3>1. i[1] # "now" /\ i \notin {"now"} \X Blocks BY SavesAre
    <3> QED BY <1>0, <1>2, <3>1 DEF UserResume, Copy, Touches, Value, NvmType
  <2>4. UNCHANGED <<nvm, fsNvm, dbg, pos, sent, writing>> BY <1>2 DEF UserResume
  <2>5. KeptInv' /\ LoopInv' BY <2>1, <2>2, <2>3, <2>4, AfterRunLoop
  <2>6. queue' \in Seq(Actions) /\ flags' = {} BY <1>0, <2>1, <2>2, RunLoopFacts
  <2>7. NvmType'
    <3>1. sets' \in 0 .. MaxSets /\ mixed' \in BOOLEAN
      BY <1>0, <1>2, QueueAssumption DEF UserResume, Copy, Touches, NvmType
    <3> QED BY <1>0, <1>2, <2>6, <3>1 DEF UserResume, Copy, NvmType, Actions
  <2> QED BY <2>5, <2>7 DEF IInv
<1>3. CASE UserReset \/ UserFactory
  <2>1. PICK fl \in {flags \cup {Reset}, flags} : RunLoop(fl)
    BY <1>3 DEF UserReset, UserFactory
  <2>2. fl \in SUBSET Actions /\ flags \subseteq fl
    BY <1>0, <2>1 DEF NvmType, Actions, Ids
  <2>3. /\ UNCHANGED <<now, fs, nvm, fsNvm, dbg, pos, sent, writing, mixed, sets>>
        /\ factory' \in BOOLEAN
    BY <1>0, <1>3 DEF UserReset, UserFactory, NvmType
  <2>4. \A i \in Saves : Value(i)' = Value(i) BY <2>3 DEF Value
  <2>5. KeptInv' /\ LoopInv' BY <2>1, <2>2, <2>3, <2>4, AfterRunLoop
  <2>6. queue' \in Seq(Actions) /\ flags' = {} BY <1>0, <2>1, <2>2, RunLoopFacts
  <2>7. NvmType' BY <1>0, <2>3, <2>6 DEF NvmType, Actions
  <2> QED BY <2>5, <2>7 DEF IInv
<1> QED BY <1>1, <1>2, <1>3 DEF User

\* A statement of DebugHMI's handler, which runs no loop meanwhile.
LEMMA AfterStatement ==
    ASSUME IInv, pos["debug"] = 0,
           UNCHANGED <<nvm, fsNvm, queue, dropped, writing, sent, pos>>,
           flags \subseteq flags',
           \A i \in Saves :
              \/ i \in flags' \/ Raising(i)'
              \/ ~ Raising(i) /\ Value(i)' = Value(i) /\ (writing = i => mixed' = mixed)
    PROVE  KeptInv' /\ LoopInv'
<1>1. ASSUME NEW i \in Saves PROVE (i \in flags \/ Raising(i) \/ Sure(i))'
  <2>1. CASE i \in flags' \/ Raising(i)' BY <2>1
  <2>2. CASE ~ (i \in flags' \/ Raising(i)')
    <3>1. ~ Raising(i) /\ Value(i)' = Value(i) /\ (writing = i => mixed' = mixed)
      BY <2>2
    <3>2. Sure(i) BY <2>2, <3>1 DEF IInv, KeptInv
    <3>3. Stored(i)' = Stored(i) BY DEF Stored
    <3> QED BY <3>1, <3>2, <3>3, SureFrame
  <2> QED BY <2>1, <2>2
<1>2. "port" \in Loopers /\ "debug" \in Loopers BY DEF Loopers
<1>3. ~ sent["debug"] BY <1>2 DEF IInv, LoopInv
<1>4. \A t \in Loopers : Clears(t)' = Clears(t) BY DEF Clears
<1>5. LoopInv' BY <1>2, <1>3, <1>4 DEF IInv, LoopInv
<1> QED BY <1>1, <1>5 DEF KeptInv

LEMMA DebugStep == IInv /\ Debug => IInv'
<1> SUFFICES ASSUME IInv, Debug PROVE IInv' OBVIOUS
<1>0. NvmType /\ "debug" \in Loopers BY DEF IInv, Loopers
<1>a. dbg.at # "idle" => pos["debug"] = 0 BY DEF IInv, LoopInv
<1>b. \A i \in Saves : /\ i = <<i[1], i[2]>> /\ i[1] \in {"fs", "now"}
                       /\ i[2] \in Blocks /\ i \in Ids
  BY SavesAre
<1> USE DEF blockVars
<1>1. CASE \E b \in Blocks : DebugSet(b)
  <2>1. PICK b \in Blocks : DebugSet(b) BY <1>1
  <2>2. pos["debug"] = 0 BY <2>1 DEF DebugSet, Handling
  <2>3. \A i \in Saves : ~ Raising(i) BY <2>1 DEF DebugSet, Handling, Raising
  <2>4. ASSUME NEW i \in Saves
        PROVE  Raising(i)' \/ (Value(i)' = Value(i) /\ (writing = i => mixed' = mixed))
    <3>1. CASE factory /\ i = <<"fs", b>>
      <4>1. dbg' = [at |-> "fsflag", blk |-> b] BY <2>1, <3>1 DEF DebugSet
      <4> QED BY <3>1, <4>1 DEF Raising
    <3>2. CASE ~ (factory /\ i = <<"fs", b>>)
      <4>1. Value(i)' = Value(i)
        BY <1>0, <1>b, <2>1, <3>2 DEF DebugSet, Value, NvmType
      <4>2. writing = i => mixed' = mixed
        BY <1>0, <2>1, <3>2 DEF DebugSet, Touches, NvmType
      <4> QED BY <4>1, <4>2
    <3> QED BY <3>1, <3>2
  <2>5. UNCHANGED <<nvm, fsNvm, queue, dropped, writing, sent, pos, flags>>
    BY <2>1 DEF DebugSet
  <2>6. KeptInv' /\ LoopInv' BY <2>2, <2>3, <2>4, <2>5, AfterStatement
  <2>7. NvmType'
    <3>1. Fresh("fs") \in InRam /\ sets' \in 0 .. MaxSets
      BY <1>0, <2>1, FreshInRam DEF DebugSet
    <3>2. fs' \in [Blocks -> InRam] BY <1>0, <2>1, <3>1 DEF DebugSet, NvmType
    <3>3. mixed' \in BOOLEAN BY <1>0, <2>1 DEF DebugSet, Touches, NvmType
    <3>4. dbg' \in {[at |-> "fsflag", blk |-> b], [at |-> "now", blk |-> b]}
      BY <2>1 DEF DebugSet
    <3> QED BY <1>0, <2>1, <3>1, <3>2, <3>3, <3>4 DEF DebugSet, NvmType
  <2> QED BY <2>6, <2>7 DEF IInv
<1>2. CASE DebugFsFlag \/ DebugNowFlag
  <2>1. pos["debug"] = 0 BY <1>2, <1>a DEF DebugFsFlag, DebugNowFlag
  <2>2. PICK a \in {"fs", "now"} :
          /\ flags' = flags \cup {<<a, dbg.blk>>} /\ dbg.blk \in Blocks
          /\ dbg.at = IF a = "fs" THEN "fsflag" ELSE "nowflag"
    BY <1>0, <1>2 DEF DebugFsFlag, DebugNowFlag, NvmType
  <2>3. UNCHANGED <<now, fs, nvm, fsNvm, factory, queue, dropped, pos, sent, writing,
                    mixed, sets>>
    BY <1>2 DEF DebugFsFlag, DebugNowFlag
  <2>4. ASSUME NEW i \in Saves
        PROVE  i \in flags' \/ (~ Raising(i) /\ Value(i)' = Value(i))
    <3>1. i = <<a, dbg.blk>> \/ ~ Raising(i) BY <1>b, <2>2 DEF Raising
    <3>2. Value(i)' = Value(i) BY <2>3 DEF Value
    <3> QED BY <2>2, <3>1, <3>2
  <2>5. KeptInv' /\ LoopInv' BY <2>1, <2>2, <2>3, <2>4, AfterStatement
  <2>6. /\ dbg' \in [at : {"now", "dob"}, blk : Blocks \cup {None}]
        /\ dbg'.at = "now" => dbg'.blk \in Blocks
    BY <1>0, <1>2, <2>2 DEF DebugFsFlag, DebugNowFlag, NvmType
  <2>7. <<a, dbg.blk>> \in Actions BY <2>2 DEF Actions, Ids
  <2>8. NvmType' BY <1>0, <2>2, <2>3, <2>6, <2>7 DEF NvmType, Actions
  <2> QED BY <2>5, <2>8 DEF IInv
<1>3. CASE DebugNow
  <2>1. pos["debug"] = 0 /\ dbg.blk \in Blocks BY <1>0, <1>3, <1>a DEF DebugNow, NvmType
  <2>2. dbg' = [dbg EXCEPT !.at = "nowflag"] BY <1>3 DEF DebugNow
  <2>3. dbg'.at = "nowflag" /\ dbg'.blk = dbg.blk BY <1>0, <2>2 DEF NvmType
  <2>4. ASSUME NEW i \in Saves
        PROVE  \/ Raising(i)'
               \/ ~ Raising(i) /\ Value(i)' = Value(i) /\ (writing = i => mixed' = mixed)
    <3>1. CASE i = <<"now", dbg.blk>> BY <2>3, <3>1 DEF Raising
    <3>2. CASE i # <<"now", dbg.blk>>
      <4>1. ~ Raising(i) BY <1>3 DEF DebugNow, Raising
      <4>2. Value(i)' = Value(i) BY <1>0, <1>b, <1>3, <3>2 DEF DebugNow, Value, NvmType
      <4>3. writing = i => mixed' = mixed
        BY <1>0, <1>3, <3>2 DEF DebugNow, Touches, NvmType
      <4> QED BY <4>1, <4>2, <4>3
    <3> QED BY <3>1, <3>2
  <2>5. UNCHANGED <<nvm, fsNvm, queue, dropped, writing, sent, pos, flags>>
    BY <1>3 DEF DebugNow
  <2>6. KeptInv' /\ LoopInv' BY <2>1, <2>4, <2>5, AfterStatement
  <2>7. NvmType'
    <3>1. [n |-> sets, of |-> "now"] \in InRam BY <1>0 DEF NvmType, InRam
    <3>2. now' \in [Blocks -> InRam] BY <1>0, <1>3, <3>1 DEF DebugNow, NvmType
    <3>3. mixed' \in BOOLEAN BY <1>3 DEF DebugNow, Touches
    <3> QED BY <1>0, <1>3, <2>1, <2>2, <2>3, <3>2, <3>3 DEF DebugNow, NvmType
  <2> QED BY <2>6, <2>7 DEF IInv
<1>4. CASE DebugResume
  <2>1. pos["debug"] = 0 BY <1>4 DEF DebugResume, Handling
  <2>2. dbg' = [at |-> "copied", blk |-> None] BY <1>4 DEF DebugResume
  <2>3. ASSUME NEW i \in Saves
        PROVE  \/ Raising(i)'
               \/ ~ Raising(i) /\ Value(i)' = Value(i) /\ (writing = i => mixed' = mixed)
    <3>1. CASE i[1] = "now" BY <2>2, <3>1 DEF Raising
    <3>2. CASE i[1] # "now"
      <4>1. ~ Raising(i) BY <1>4 DEF DebugResume, Handling, Raising
      <4>2. Value(i)' = Value(i) BY <1>4, <3>2 DEF DebugResume, Value
      <4>3. i \notin {"now"} \X Blocks BY <3>2
      <4>4. writing = i => mixed' = mixed
        BY <1>0, <1>4, <4>3 DEF DebugResume, Copy, Touches, NvmType
      <4> QED BY <4>1, <4>2, <4>4
    <3> QED BY <3>1, <3>2
  <2>4. UNCHANGED <<nvm, fsNvm, queue, dropped, writing, sent, pos, flags>>
    BY <1>4 DEF DebugResume
  <2>5. KeptInv' /\ LoopInv' BY <2>1, <2>3, <2>4, AfterStatement
  <2>6. NvmType'
    <3>1. sets' \in 0 .. MaxSets /\ mixed' \in BOOLEAN /\ now' \in [Blocks -> InRam]
      BY <1>0, <1>4, QueueAssumption DEF DebugResume, Copy, Touches, NvmType
    <3> QED BY <1>0, <1>4, <2>2, <3>1 DEF DebugResume, NvmType
  <2> QED BY <2>5, <2>6 DEF IInv
<1>5. CASE DebugResumeFlags \/ DebugReset \/ DebugFactory
  <2>1. pos["debug"] = 0
    BY <1>5, <1>a DEF DebugResumeFlags, DebugReset, DebugFactory, Handling
  <2>2. /\ UNCHANGED <<now, fs, nvm, fsNvm, queue, dropped, pos, sent, writing, mixed, sets>>
        /\ dbg' = [at |-> "dob", blk |-> None]
        /\ factory' \in BOOLEAN
    BY <1>0, <1>5 DEF DebugResumeFlags, DebugReset, DebugFactory, NvmType
  <2>3. flags' \in {flags, flags \cup {Reset}, flags \cup {"now"} \X Blocks}
    BY <1>5 DEF DebugResumeFlags, DebugReset, DebugFactory
  <2>4. ASSUME NEW i \in Saves
        PROVE  i \in flags' \/ (~ Raising(i) /\ Value(i)' = Value(i))
    <3>1. Value(i)' = Value(i) BY <2>2 DEF Value
    <3>2. CASE Raising(i)
      <4>1. DebugResumeFlags /\ i[1] = "now"
        BY <1>5, <3>2 DEF Raising, DebugReset, DebugFactory, DebugResumeFlags, Handling
      <4> QED BY <1>b, <4>1 DEF DebugResumeFlags
    <3> QED BY <3>1, <3>2
  <2>5. KeptInv' /\ LoopInv' BY <2>1, <2>2, <2>3, <2>4, AfterStatement
  <2>6. NvmType' BY <1>0, <2>2, <2>3 DEF NvmType, Actions, Ids
  <2> QED BY <2>5, <2>6 DEF IInv
<1>6. CASE DebugAnswer
  <2>1. pos["debug"] = 0 /\ ~ sent["debug"]
    BY <1>0, <1>6, <1>a DEF DebugAnswer, IInv, LoopInv
  <2>2. /\ UNCHANGED <<now, fs, nvm, fsNvm, factory, flags, queue, dropped, sent,
                       writing, mixed, sets>>
        /\ dbg' = [at |-> "idle", blk |-> None] /\ dbg.at = "dob"
        /\ pos' = [pos EXCEPT !["debug"] = 1]
    BY <1>6 DEF DebugAnswer
  <2>3. KeptInv'
    <3>1. ASSUME NEW i \in Saves PROVE (i \in flags \/ Sure(i))'
      <4>1. ~ Raising(i) BY <2>2 DEF Raising
      <4>2. Sure(i)' = Sure(i) BY <2>2 DEF Sure, Value, Stored, Checked
      <4> QED BY <2>2, <4>1, <4>2 DEF IInv, KeptInv
    <3> QED BY <3>1 DEF KeptInv
  <2>4. Clears("port")' = Clears("port") BY <1>0, <2>2 DEF Clears, NvmType, Loopers
  <2>5. \A t \in Loopers : sent'[t] => pos'[t] # 0
    BY <1>0, <2>1, <2>2 DEF IInv, LoopInv, NvmType
  <2>6. LoopInv' BY <2>1, <2>2, <2>4, <2>5 DEF IInv, LoopInv
  <2>7. NvmType' BY <1>0, <2>2 DEF NvmType
  <2> QED BY <2>3, <2>6, <2>7 DEF IInv
<1> QED BY <1>1, <1>2, <1>3, <1>4, <1>5, <1>6 DEF Debug

LEMMA LoopStep ==
    ASSUME IInv, NEW t \in Loopers, Loop(t)
    PROVE  IInv'
<1>0. NvmType /\ "debug" \in Loopers /\ "port" \in Loopers BY DEF IInv, Loopers
<1>1. UNCHANGED <<now, fs, nvm, fsNvm, factory, dbg, writing, mixed, sets>>
  BY DEF Loop, SendFlag, ClearFlag, SkipFlag, blockVars
<1>2. ASSUME NEW i \in Saves
      PROVE  Value(i)' = Value(i) /\ Stored(i)' = Stored(i) /\ Raising(i)' = Raising(i)
  BY <1>1 DEF Value, Stored, Raising
<1>3. t \in {"debug", "port"} BY DEF Loopers
<1>4. CASE SendFlag(t)
  <2>1. /\ queue' \in Seq(Actions)
        /\ ToSet(queue) \subseteq ToSet(queue')
        /\ dropped \subseteq ToSet(queue') \cup dropped'
        /\ Clears(t) \in ToSet(queue') \cup dropped'
    BY <1>0, <1>4, SendFlagFacts
  <2>2. /\ pos[t] # 0 /\ flags' = flags /\ pos' = pos
        /\ sent' = [sent EXCEPT ![t] = TRUE]
    BY <1>4 DEF SendFlag
  <2>3. ASSUME NEW i \in Saves, Sure(i) PROVE Sure(i)'
    BY <1>1, <1>2, <2>1, <2>3, SureFrame
  <2>4. KeptInv' BY <1>2, <2>2, <2>3 DEF IInv, KeptInv
  <2>5. \A s \in Loopers : Clears(s)' = Clears(s) BY <2>2 DEF Clears
  <2>6. ASSUME NEW i \in Saves, i \in ToSet(queue') \cup dropped' PROVE Sure(i)'
    BY <2>6 DEF Sure
  <2>7. \A s \in Loopers : sent'[s] => pos'[s] # 0
    BY <1>0, <2>2 DEF IInv, LoopInv, NvmType
  <2>8. pos'["debug"] # 0 => dbg'.at = "idle" BY <1>1, <2>2 DEF IInv, LoopInv
  <2>9. sent'["port"] => Clears("port")' \in ToSet(queue') \cup dropped'
    <3>1. CASE t = "port" BY <1>0, <2>1, <2>5, <3>1
    <3>2. CASE t # "port"
      <4>1. sent'["port"] = sent["port"] BY <1>0, <2>2, <3>2 DEF NvmType
      <4> QED BY <1>0, <2>1, <2>5, <4>1 DEF IInv, LoopInv
    <3> QED BY <3>1, <3>2
  <2>10. sent'["debug"] => \A i \in Saves : i = Clears("debug")' => Sure(i)'
    <3>1. CASE t = "debug" BY <1>0, <2>1, <2>5, <2>6, <3>1
    <3>2. CASE t # "debug"
      <4>1. sent'["debug"] = sent["debug"] BY <1>0, <2>2, <3>2 DEF NvmType
      <4> QED BY <1>0, <2>3, <2>5, <4>1 DEF IInv, LoopInv
    <3> QED BY <3>1, <3>2
  <2>11. LoopInv' BY <2>7, <2>8, <2>9, <2>10 DEF LoopInv
  <2>12. NvmType' BY <1>0, <1>1, <2>1, <2>2 DEF NvmType, Actions
  <2> QED BY <2>4, <2>11, <2>12 DEF IInv
<1>5. CASE ClearFlag(t) \/ SkipFlag(t)
  <2>1. UNCHANGED <<queue, dropped>> BY <1>5 DEF ClearFlag, SkipFlag
  <2>2. /\ sent'[t] = FALSE /\ sent' \in [Loopers -> BOOLEAN]
        /\ \A s \in Loopers \ {t} : sent'[s] = sent[s] /\ pos'[s] = pos[s]
        /\ pos[t] # 0
    <3>1. Advance(t) BY <1>5 DEF ClearFlag, SkipFlag
    <3>2. pos' = [pos EXCEPT ![t] = IF pos[t] = Len(Order) THEN 0 ELSE pos[t] + 1]
      BY <3>1 DEF Advance
    <3>3. pos[t] # 0 BY <1>5 DEF ClearFlag, SkipFlag, IInv, LoopInv
    <3>4. /\ sent' \in [Loopers -> BOOLEAN] /\ sent'[t] = FALSE
          /\ \A s \in Loopers \ {t} : sent'[s] = sent[s]
      <4>1. CASE ClearFlag(t) BY <1>0, <4>1 DEF ClearFlag, NvmType
      <4>2. CASE SkipFlag(t) BY <1>0, <4>2 DEF SkipFlag, NvmType
      <4> QED BY <1>5, <4>1, <4>2
    <3>5. \A s \in Loopers \ {t} : pos'[s] = pos[s] BY <1>0, <3>2 DEF NvmType
    <3> QED BY <3>3, <3>4, <3>5
  <2>3. pos' \in [Loopers -> Nat]
    <3>1. Advance(t) BY <1>5 DEF ClearFlag, SkipFlag
    <3>2. (IF pos[t] = Len(Order) THEN 0 ELSE pos[t] + 1) \in Nat BY <1>0 DEF NvmType
    <3> QED BY <1>0, <3>1, <3>2 DEF Advance, NvmType
  <2>4. ASSUME NEW i \in Saves PROVE Sure(i)' = Sure(i)
    BY <1>1, <1>2, <2>1 DEF Sure
  <2>5. \A s \in Loopers \ {t} : Clears(s)' = Clears(s) BY <2>2 DEF Clears
  <2>6. ASSUME NEW i \in Saves PROVE (i \in flags \/ Raising(i) \/ Sure(i))'
    <3>1. CASE i \in flags'
      BY <3>1
    <3>2. CASE i \in flags \ flags'
      <4>1. ClearFlag(t) /\ i = Clears(t) /\ sent[t]
        BY <1>5, <3>2 DEF ClearFlag, SkipFlag, Clears
      <4>2. Sure(i)
        <5>1. CASE t = "debug" BY <4>1, <5>1 DEF IInv, LoopInv
        <5>2. CASE t = "port" BY <4>1, <5>2 DEF IInv, LoopInv, Sure
        <5> QED BY <1>3, <5>1, <5>2
      <4> QED BY <2>4, <4>2
    <3>3. CASE i \notin flags
      BY <1>2, <2>4, <3>3 DEF IInv, KeptInv
    <3> QED BY <3>1, <3>2, <3>3
  <2>7. KeptInv' BY <2>6 DEF KeptInv
  <2>8. pos'["debug"] # 0 => dbg'.at = "idle"
    <3>1. pos["debug"] # 0 \/ pos'["debug"] = pos["debug"] BY <1>0, <2>2
    <3> QED BY <1>1, <3>1 DEF IInv, LoopInv
  <2>9. LoopInv' BY <1>0, <2>1, <2>2, <2>4, <2>5, <2>8 DEF IInv, LoopInv
  <2>10. flags' \subseteq flags BY <1>5 DEF ClearFlag, SkipFlag
  <2>11. NvmType' BY <1>0, <1>1, <2>1, <2>2, <2>3, <2>10 DEF NvmType
  <2> QED BY <2>7, <2>9, <2>11 DEF IInv
<1> QED BY <1>4, <1>5 DEF Loop

LEMMA RestartStep == IInv /\ Restart => IInv'
<1> SUFFICES ASSUME IInv, Restart PROVE IInv' OBVIOUS
<1> USE DEF Restart
<1>1. Blank \notin InRam BY ValuesAssumption DEF InRam
<1>2. \A b \in Blocks : Checked(nvm[b]) \in InRam /\ Checked(fsNvm[b]) \in InRam
  BY DEF IInv, NvmType, Checked, InRam
<1>3. LoadNow \in [Blocks -> InRam] /\ LoadFs \in [Blocks -> InRam]
  BY <1>2 DEF LoadNow, LoadFs, InRam
<1>4. NvmType'
  <2>1. [t \in Loopers |-> 0] \in [Loopers -> Nat] OBVIOUS
  <2>2. [t \in Loopers |-> FALSE] \in [Loopers -> BOOLEAN] OBVIOUS
  <2>3. <<>> \in Seq(Actions) OBVIOUS
  <2> QED BY <1>3, <2>1, <2>2, <2>3 DEF IInv, NvmType, Actions
<1>5. ASSUME NEW i \in Saves PROVE Sure(i)'
  <2>1. i = <<i[1], i[2]>> /\ i[2] \in Blocks /\ writing' # i
    BY SavesAre, ValuesAssumption DEF Ids
  <2>2. CASE i[1] # "now" BY <2>1, <2>2 DEF Sure, Value, Stored, LoadFs
  <2>3. CASE i[1] = "now"
    <3>1. now'[i[2]] = Checked(nvm[i[2]]) \/ (i[2] = "parts" /\ now'[i[2]] = Zero)
      BY <2>1 DEF LoadNow
    <3> QED BY <2>1, <2>3, <3>1 DEF Sure, Value, Stored
  <2> QED BY <2>2, <2>3
<1>6. LoopInv' BY DEF LoopInv, Loopers
<1> QED BY <1>4, <1>5, <1>6 DEF IInv, KeptInv

\* A save in the Port task, whose loop is not under way.
LEMMA SaveStep == IInv /\ (BeginSave \/ EndSave) => IInv'
<1> SUFFICES ASSUME IInv, BeginSave \/ EndSave PROVE IInv' OBVIOUS
<1>0. NvmType /\ "debug" \in Loopers /\ "port" \in Loopers BY DEF IInv, Loopers
<1>1. UNCHANGED <<now, fs, factory, flags, dropped, dbg, pos, sent, sets>>
  BY DEF BeginSave, EndSave
<1>2. \A i \in Saves : Value(i)' = Value(i) /\ Raising(i)' = Raising(i)
  BY <1>1 DEF Value, Raising
<1>3. \A t \in Loopers : Clears(t)' = Clears(t) BY <1>1 DEF Clears
<1>a. Blank \notin InRam BY ValuesAssumption DEF InRam
<1>b. ASSUME NEW i \in Saves, NEW id \in Ids, NEW c, StoreNow(id, c), i # id
      PROVE  Stored(i)' = Stored(i)
  <2>1. i = <<i[1], i[2]>> /\ id = <<id[1], id[2]>> /\ id[1] \in {"fs", "now"}
        /\ i[1] \in {"fs", "now"} /\ i[2] # "user" /\ i[2] \in Blocks
    BY SavesAre DEF Ids
  <2> QED BY <1>0, <1>b, <2>1 DEF Stored, StoreNow, NvmType
<1>c. ASSUME NEW id \in Ids, NEW c \in InRam, StoreNow(id, c)
      PROVE  /\ nvm' \in [Blocks -> InRam \cup {Blank}]
             /\ fsNvm' \in [Blocks -> InRam \cup {Blank}]
  <2>1. /\ nvm \in [Blocks -> InRam \cup {Blank}]
        /\ fsNvm \in [Blocks -> InRam \cup {Blank}]
    BY <1>0 DEF NvmType
  <2>2. CASE nvm' = [nvm EXCEPT ![id[2]] = c] /\ UNCHANGED fsNvm BY <2>1, <2>2
  <2>3. CASE fsNvm' = [fsNvm EXCEPT ![id[2]] = c] /\ UNCHANGED nvm BY <2>1, <2>3
  <2> QED BY <1>c, <2>2, <2>3 DEF StoreNow
<1>4. CASE BeginSave
  <2>1. /\ writing = None /\ queue # <<>> /\ Head(queue) # Reset /\ queue' = Tail(queue)
        /\ writing' = Head(queue) /\ mixed' = FALSE /\ StoreNow(Head(queue), Torn)
        /\ pos["port"] = 0
    BY <1>4 DEF BeginSave
  <2>2. /\ queue' \in Seq(Actions) /\ Head(queue) \in Ids
        /\ \A i \in ToSet(queue) : i = Head(queue) \/ i \in ToSet(queue')
    BY <1>0, <2>1, TakeFacts DEF Actions
  <2>3. ASSUME NEW i \in Saves, Sure(i) PROVE Sure(i)'
    <3>1. CASE i = Head(queue) BY <2>1, <3>1 DEF Sure
    <3>2. CASE i # Head(queue)
      <4>1. Stored(i)' = Stored(i) BY <1>b, <2>1, <2>2, <3>2
      <4>2. writing # i BY <2>1, SavesAre, ValuesAssumption DEF Ids
      <4> QED BY <1>1, <1>2, <2>1, <2>2, <2>3, <3>2, <4>1, <4>2 DEF Sure, Checked
    <3> QED BY <3>1, <3>2
  <2>4. KeptInv' BY <1>1, <1>2, <2>3 DEF IInv, KeptInv
  <2>5. ~ sent["port"] BY <1>0, <2>1 DEF IInv, LoopInv
  <2>6. LoopInv' BY <1>0, <1>1, <1>3, <2>3, <2>5 DEF IInv, LoopInv
  <2>7. NvmType'
    <3>1. Torn \in InRam BY DEF InRam
    <3> QED BY <1>0, <1>1, <1>c, <2>1, <2>2, <3>1 DEF NvmType, Actions
  <2> QED BY <2>4, <2>6, <2>7 DEF IInv
<1>5. CASE EndSave
  <2> DEFINE c == IF mixed THEN Torn
                  ELSE IF writing[1] = "now" THEN now[writing[2]] ELSE fs[writing[2]]
  <2>1. /\ writing \in Ids /\ writing' = None /\ mixed' = FALSE /\ queue' = queue
        /\ StoreNow(writing, c)
    BY <1>0, <1>5 DEF EndSave, NvmType
  <2>2. c \in InRam BY <1>0, <2>1 DEF NvmType, Ids, InRam
  <2>3. ASSUME NEW i \in Saves, Sure(i) PROVE Sure(i)'
    <3>0. i = <<i[1], i[2]>> /\ i[1] \in {"fs", "now"} /\ i[2] \in Blocks
          /\ i[2] # "user" /\ writing' # i
      BY <2>1, SavesAre, ValuesAssumption DEF Ids
    <3>1. CASE i = writing /\ ~ mixed
      <4>1. c = Value(i) BY <3>1 DEF Value
      <4>2. Stored(i)' = Value(i)
        BY <1>0, <2>1, <3>0, <3>1, <4>1 DEF StoreNow, Stored, NvmType
      <4>3. Checked(Stored(i)') = Value(i) BY <1>a, <2>2, <4>1, <4>2 DEF Checked
      <4> QED BY <1>2, <3>0, <4>3 DEF Sure, Checked
    <3>2. CASE i = writing /\ mixed
      BY <1>1, <1>2, <2>1, <2>3, <3>2 DEF Sure
    <3>3. CASE i # writing
      <4>1. Stored(i)' = Stored(i) BY <1>b, <2>1, <3>3
      <4> QED BY <1>1, <1>2, <2>1, <2>3, <3>0, <3>3, <4>1 DEF Sure, Checked
    <3> QED BY <3>1, <3>2, <3>3
  <2>4. KeptInv' BY <1>1, <1>2, <2>3 DEF IInv, KeptInv
  <2>5. LoopInv' BY <1>0, <1>1, <1>3, <2>1, <2>3 DEF IInv, LoopInv
  <2>6. NvmType' BY <1>0, <1>1, <1>c, <2>1, <2>2 DEF NvmType
  <2> QED BY <2>4, <2>5, <2>6 DEF IInv
<1> QED BY <1>4, <1>5

LEMMA StartPortLoop == IInv /\ PortLoop => IInv'
<1> SUFFICES ASSUME IInv, PortLoop PROVE IInv' OBVIOUS
<1>0. NvmType /\ "debug" \in Loopers /\ "port" \in Loopers BY DEF IInv, Loopers
<1>1. /\ UNCHANGED <<now, fs, nvm, fsNvm, factory, flags, queue, dropped, dbg, sent,
                     writing, mixed, sets>>
      /\ pos["port"] = 0 /\ pos' = [pos EXCEPT !["port"] = 1]
  BY DEF PortLoop, blockVars
<1>2. ~ sent["port"] BY <1>0, <1>1 DEF IInv, LoopInv
<1>3. pos'["debug"] = pos["debug"] /\ pos'["port"] = 1 /\ pos' \in [Loopers -> Nat]
  BY <1>0, <1>1 DEF NvmType
<1>4. \A i \in Saves : Sure(i)' = Sure(i) /\ Raising(i)' = Raising(i)
  BY <1>1 DEF Sure, Raising, Value, Stored, Checked
<1>5. KeptInv' BY <1>1, <1>4 DEF IInv, KeptInv
<1>6. Clears("debug")' = Clears("debug") BY <1>3 DEF Clears
<1>7. LoopInv' BY <1>0, <1>1, <1>2, <1>3, <1>4, <1>6 DEF IInv, LoopInv, Loopers
<1>8. NvmType' BY <1>0, <1>1, <1>3 DEF NvmType
<1> QED BY <1>5, <1>7, <1>8 DEF IInv

LEMMA StepInv == IInv /\ [Next]_vars => IInv'
<1> SUFFICES ASSUME IInv, [Next]_vars PROVE IInv' OBVIOUS
<1>1. CASE ExecuteReset \/ PowerLoss BY <1>1, RestartStep DEF ExecuteReset, PowerLoss
<1>2. CASE UNCHANGED vars
  BY <1>2 DEF vars, blockVars, taskVars, IInv, NvmType, KeptInv, LoopInv, Sure,
              Raising, Value, Stored, Checked, Clears
<1> QED
  BY <1>1, <1>2, UserStep, DebugStep, LoopStep, StartPortLoop, SaveStep DEF Next, Port

LEMMA InitInv == Init => IInv
<1> SUFFICES ASSUME Init PROVE IInv OBVIOUS
<1>1. {Blank, Zero} \subseteq InRam \cup {Blank} BY DEF InRam
<1>2. \A c \in {Blank, Zero} : Checked(c) \in InRam BY DEF Checked, InRam
<1>3. nvm \in [Blocks -> {Blank, Zero}] /\ fsNvm \in [Blocks -> {Blank, Zero}]
  BY DEF Init
<1>4. LoadNow \in [Blocks -> InRam] /\ LoadFs \in [Blocks -> InRam]
  BY <1>2, <1>3 DEF LoadNow, LoadFs, InRam
<1>5. NvmType
  <2>1. [t \in Loopers |-> 0] \in [Loopers -> Nat] OBVIOUS
  <2>2. [t \in Loopers |-> FALSE] \in [Loopers -> BOOLEAN] OBVIOUS
  <2>3. <<>> \in Seq(Actions) OBVIOUS
  <2>4. nvm \in [Blocks -> InRam \cup {Blank}] /\ fsNvm \in [Blocks -> InRam \cup {Blank}]
    BY <1>1, <1>3
  <2>5. 0 \in 0 .. MaxSets BY QueueAssumption
  <2> QED BY <1>4, <2>1, <2>2, <2>3, <2>4, <2>5 DEF Init, NvmType, Actions
<1>6. ASSUME NEW i \in Saves PROVE Sure(i)
  <2>1. i = <<i[1], i[2]>> /\ i[2] \in Blocks /\ writing # i
    BY SavesAre, ValuesAssumption DEF Ids, Init
  <2>2. CASE i[1] # "now" BY <2>1, <2>2 DEF Init, Sure, Value, Stored, LoadFs
  <2>3. CASE i[1] = "now"
    <3>1. now[i[2]] = Checked(nvm[i[2]]) \/ (i[2] = "parts" /\ now[i[2]] = Zero)
      BY <2>1 DEF Init, LoadNow
    <3> QED BY <2>1, <2>3, <3>1 DEF Sure, Value, Stored
  <2> QED BY <2>2, <2>3
<1>7. LoopInv BY DEF Init, LoopInv, Loopers
<1> QED BY <1>5, <1>6, <1>7 DEF IInv, KeptInv

\* The invariant holds for any blocks, any length of the queue, and any number
\* of settings, restarts and power failures.
THEOREM NvmInvariance == Spec => []IInv
BY InitInv, StepInv, PTL DEF Spec

-----------------------------------------------------------------------------
\* A block in force that was set is in the EEPROM or on its way there, unless
\* the queue was full when its command was sent.
THEOREM SavedCorrect == Spec => []SavedOrPending
<1>1. IInv => SavedOrPending
  <2> SUFFICES ASSUME IInv, NEW b \in Blocks \ {"user"}
               PROVE  \/ now[b] = Checked(nvm[b])
                      \/ Pending(<<"now", b>>)
                      \/ <<"now", b>> \in dropped
                      \/ dbg = [at |-> "nowflag", blk |-> b] \/ dbg.at = "copied"
                      \/ b = "parts" /\ now[b] = Zero
    BY DEF SavedOrPending
  <2>1. <<"now", b>> \in Saves BY DEF Saves
  <2>2. dbg.at = "nowflag" /\ dbg.blk = b => dbg = [at |-> "nowflag", blk |-> b]
    BY DEF IInv, NvmType
  <2> QED BY <2>1, <2>2 DEF IInv, KeptInv, Raising, Sure, Value, Stored, Pending
<1> QED BY <1>1, NvmInvariance, PTL

\* The same of the factory's copies.
THEOREM FactorySavedCorrect == Spec => []FactorySavedOrPending
<1>1. IInv => FactorySavedOrPending
  <2> SUFFICES ASSUME IInv, NEW b \in Blocks \ {"user"}
               PROVE  \/ fs[b] = Checked(fsNvm[b])
                      \/ Pending(<<"fs", b>>)
                      \/ <<"fs", b>> \in dropped
                      \/ dbg = [at |-> "fsflag", blk |-> b]
    BY DEF FactorySavedOrPending
  <2>1. <<"fs", b>> \in Saves BY DEF Saves
  <2>2. dbg.at = "fsflag" /\ dbg.blk = b => dbg = [at |-> "fsflag", blk |-> b]
    BY DEF IInv, NvmType
  <2> QED BY <2>1, <2>2 DEF IInv, KeptInv, Raising, Sure, Value, Stored, Pending
<1> QED BY <1>1, NvmInvariance, PTL
=============================================================================
