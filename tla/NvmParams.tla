------------------------------ MODULE NvmParams ------------------------------
(***************************************************************************)
(* The configuration parameters (SL/Nvm/params_impl.c): each block is kept *)
(* twice in RAM, as the factory's and as the one in force, and both have a *)
(* copy in the serial EEPROM.  A setter changes RAM and raises a flag; a   *)
(* loop turns flags into commands of the queue CmdQueue, and the Port task *)
(* takes a command from it every 50 ms and writes the block.               *)
(*                                                                         *)
(* The loop (IF_Param_ExecuteActionsAfterRsp) runs in three tasks: UserHMI *)
(* (priority 3, BSIP), DebugHMI and Port (both priority 2, time-sliced).   *)
(* UserHMI interrupts the others anywhere and is not interrupted by them.  *)
(***************************************************************************)
EXTENDS Integers, Sequences, FiniteSets, SequencesExt

CONSTANTS
    Blocks,         \* the parameter blocks
    QueueLength,    \* QUEUE_LENGTH of CmdQueue
    MaxSets,        \* bound on the settings a run makes, for model checking
    Blank, Zero, Torn, None     \* erased, initialised, half-written; no block

ASSUME BlocksAssumption ==
    Blocks \subseteq {"parts", "common", "internal", "user"}
ASSUME QueueAssumption == QueueLength \in Nat \ {0} /\ MaxSets \in Nat
ASSUME ValuesAssumption ==
    /\ Blank \notin {Zero, Torn} \cup [n : 0 .. MaxSets, of : {"now", "fs"}]
    /\ None \notin {"fs", "now"} \X Blocks

VARIABLES
    now, fs,        \* PartsParam .. UserParam; Fs_PartsParam .. Fs_UserParam
    nvm, fsNvm,     \* the EEPROM's copies
    factory,        \* DevCmdParam.FactoryMode
    flags,          \* the members of ActionsRSP that are ON
    queue,          \* CmdQueue
    dropped,        \* commands the full queue refused last time
    dbg,            \* DebugHMI: the statement of its setter, and the block
    pos, sent,      \* DebugHMI's and Port's loop: index, and sent but not cleared
    writing, mixed, \* the save in progress; its block changed meanwhile
    sets            \* settings made so far

blockVars == <<now, fs, nvm, fsNvm, factory>>
taskVars  == <<dbg, pos, sent, writing, mixed>>
vars == <<blockVars, flags, queue, dropped, taskVars, sets>>

-----------------------------------------------------------------------------
\* A block's content: by the setting that made it and the copy it was made in.
Contents == [n : 1 .. MaxSets, of : {"now", "fs"}] \cup {Blank, Zero, Torn}

Ids   == {"fs", "now"} \X Blocks
Reset == <<"set", "reset">>

\* ActionsRSPEnum, in its order.
Order ==
    SelectSeq(<< <<"fs", "parts">>, <<"fs", "common">>, <<"fs", "internal">>,
                 <<"fs", "user">>, <<"now", "parts">>, <<"now", "common">>,
                 <<"now", "internal">>, <<"now", "user">>, Reset >>,
              LAMBDA i : i \in Ids \cup {Reset})

Loopers == {"debug", "port"}

TypeOK ==
    /\ now \in [Blocks -> Contents] /\ fs \in [Blocks -> Contents]
    /\ nvm \in [Blocks -> Contents] /\ fsNvm \in [Blocks -> Contents]
    /\ factory \in BOOLEAN
    /\ flags \subseteq Ids \cup {Reset}
    /\ queue \in Seq(Ids \cup {Reset}) /\ Len(queue) <= QueueLength
    /\ dropped \subseteq Ids \cup {Reset}
    /\ dbg \in [at : {"idle", "dob", "fsflag", "now", "nowflag", "copied"},
                blk : Blocks \cup {None}]
    /\ pos \in [Loopers -> 0 .. Len(Order)]
    /\ sent \in [Loopers -> BOOLEAN]
    /\ writing \in Ids \cup {None}
    /\ mixed \in BOOLEAN
    /\ sets \in 0 .. MaxSets

-----------------------------------------------------------------------------
\* Check_PartsParam and its like: an erased block is given default values.
Checked(c) == IF c = Blank THEN Zero ELSE c

\* Check_CommonParam gives the defaults to PartsParam instead, which
\* Params_Init has already read.
WipesParts == "common" \in Blocks /\ nvm["common"] = Blank

\* Params_Init.  A blank common block reads as Zero here; in the code it keeps
\* 0xFF in all fields but two.  Both are contents no setting has made.
LoadNow ==
    [b \in Blocks |-> IF b = "parts" /\ WipesParts THEN Zero ELSE Checked(nvm[b])]

LoadFs == [b \in Blocks |-> Checked(fsNvm[b])]

\* A board whose EEPROM is new, or was initialised by an earlier use.
Init ==
    /\ nvm \in [Blocks -> {Blank, Zero}]
    /\ fsNvm = nvm
    /\ now = LoadNow
    /\ fs = LoadFs
    /\ factory = FALSE
    /\ flags = {}
    /\ queue = <<>>
    /\ dropped = {}
    /\ dbg = [at |-> "idle", blk |-> None]
    /\ pos = [t \in Loopers |-> 0]
    /\ sent = [t \in Loopers |-> FALSE]
    /\ writing = None
    /\ mixed = FALSE
    /\ sets = 0

-----------------------------------------------------------------------------
\* xQueueSend without waiting, its result ignored: q with as many of the
\* commands cs as fit.
Sent(q, cs) ==
    LET room == QueueLength - Len(q)
    IN q \o SubSeq(cs, 1, IF room < Len(cs) THEN room ELSE Len(cs))

Refused(q, cs) == { cs[k] : k \in (QueueLength - Len(q)) + 1 .. Len(cs) }

\* The commands of the flags fl in the order in which the loop meets them: one
\* sequence.
Position(i) == CHOOSE k \in DOMAIN Order : Order[k] = i
InOrder(fl) ==
    { cs \in [1 .. Cardinality(fl) -> fl] :
        /\ fl \subseteq ToSet(cs)
        /\ \A j, k \in DOMAIN cs : j < k => Position(cs[j]) < Position(cs[k]) }

\* IF_Param_ExecuteActionsAfterRsp in UserHMI, which nothing interrupts,
\* after its handler raised the flags fl.
RunLoop(fl) ==
    \E cs \in InOrder(fl) :
        /\ queue' = Sent(queue, cs)
        /\ dropped' = (dropped \ fl) \cup Refused(queue, cs)
        /\ flags' = {}

\* The flags a setter of block b raises.
SetFlags(b) == {<<"now", b>>} \cup IF factory THEN {<<"fs", b>>} ELSE {}

\* One setting makes the block's next content, in each copy it changes.
Fresh(area) == [n |-> sets + 1, of |-> area]

\* The block that a save of id reads is changed while it is being written.
Touches(ids) == mixed' = (mixed \/ writing \in ids)

\* IF_NvmParam_SetPartsParams and its like, on UART1.
UserSet(b) ==
    /\ sets < MaxSets
    /\ sets' = sets + 1
    /\ fs' = IF factory THEN [fs EXCEPT ![b] = Fresh("fs")] ELSE fs
    /\ now' = [now EXCEPT ![b] = Fresh("now")]
    /\ Touches(SetFlags(b))
    /\ RunLoop(flags \cup SetFlags(b))
    /\ UNCHANGED <<nvm, fsNvm, factory, dbg, pos, sent, writing>>

\* IF_CmdParam_ResumeFactorySettings: every block is copied, then flagged.
Copy ==
    /\ sets < MaxSets
    /\ sets' = sets + 1
    /\ now' = fs
    /\ Touches({"now"} \X Blocks)

UserResume ==
    /\ Copy
    /\ RunLoop(flags \cup {"now"} \X Blocks)
    /\ UNCHANGED <<fs, nvm, fsNvm, factory, dbg, pos, sent, writing>>

\* IF_CmdParam_SetResetDevice, after a download or on command.
UserReset ==
    /\ RunLoop(flags \cup {Reset})
    /\ UNCHANGED <<blockVars, taskVars, sets>>

\* IF_CmdParam_SetFactoryMode; every telegram ends in the loop.
UserFactory ==
    /\ factory' = ~ factory
    /\ RunLoop(flags)
    /\ UNCHANGED <<now, fs, nvm, fsNvm, taskVars, sets>>

-----------------------------------------------------------------------------
\* DebugHMI handles a telegram of several data objects, one after another.
\* Each statement of a setter may be followed by the Port task or UserHMI.
Handling == pos["debug"] = 0 /\ dbg.at \in {"idle", "dob"}

DebugSet(b) ==
    /\ Handling
    /\ sets < MaxSets
    /\ sets' = sets + 1
    /\ IF factory
       THEN /\ fs' = [fs EXCEPT ![b] = Fresh("fs")]
            /\ Touches({<<"fs", b>>})
            /\ dbg' = [at |-> "fsflag", blk |-> b]
       ELSE /\ dbg' = [at |-> "now", blk |-> b]
            /\ UNCHANGED <<fs, mixed>>
    /\ UNCHANGED <<now, nvm, fsNvm, factory, flags, queue, dropped, pos, sent, writing>>

DebugFsFlag ==
    /\ dbg.at = "fsflag"
    /\ flags' = flags \cup {<<"fs", dbg.blk>>}
    /\ dbg' = [dbg EXCEPT !.at = "now"]
    /\ UNCHANGED <<blockVars, queue, dropped, pos, sent, writing, mixed, sets>>

DebugNow ==
    /\ dbg.at = "now"
    /\ now' = [now EXCEPT ![dbg.blk] = [n |-> sets, of |-> "now"]]
    /\ Touches({<<"now", dbg.blk>>})
    /\ dbg' = [dbg EXCEPT !.at = "nowflag"]
    /\ UNCHANGED <<fs, nvm, fsNvm, factory, flags, queue, dropped, pos, sent, writing, sets>>

DebugNowFlag ==
    /\ dbg.at = "nowflag"
    /\ flags' = flags \cup {<<"now", dbg.blk>>}
    /\ dbg' = [at |-> "dob", blk |-> None]
    /\ UNCHANGED <<blockVars, queue, dropped, pos, sent, writing, mixed, sets>>

DebugResume ==
    /\ Handling
    /\ Copy
    /\ dbg' = [at |-> "copied", blk |-> None]
    /\ UNCHANGED <<fs, nvm, fsNvm, factory, flags, queue, dropped, pos, sent, writing>>

DebugResumeFlags ==
    /\ dbg.at = "copied"
    /\ flags' = flags \cup {"now"} \X Blocks
    /\ dbg' = [at |-> "dob", blk |-> None]
    /\ UNCHANGED <<blockVars, queue, dropped, pos, sent, writing, mixed, sets>>

DebugReset ==
    /\ Handling
    /\ flags' = flags \cup {Reset}
    /\ dbg' = [at |-> "dob", blk |-> None]
    /\ UNCHANGED <<blockVars, queue, dropped, pos, sent, writing, mixed, sets>>

DebugFactory ==
    /\ Handling
    /\ factory' = ~ factory
    /\ dbg' = [at |-> "dob", blk |-> None]
    /\ UNCHANGED <<now, fs, nvm, fsNvm, flags, queue, dropped, pos, sent, writing,
                   mixed, sets>>

\* The telegram is answered; the loop follows.
DebugAnswer ==
    /\ dbg.at = "dob"
    /\ dbg' = [at |-> "idle", blk |-> None]
    /\ pos' = [pos EXCEPT !["debug"] = 1]
    /\ UNCHANGED <<blockVars, flags, queue, dropped, sent, writing, mixed, sets>>

-----------------------------------------------------------------------------
\* The loop in DebugHMI and Port: a flag that is ON is sent, test and sending
\* in one step; a loop that sends in between makes it a second command only,
SendFlag(t) ==
    /\ pos[t] # 0
    /\ ~ sent[t]
    /\ Order[pos[t]] \in flags
    /\ queue' = Sent(queue, <<Order[pos[t]]>>)
    /\ dropped' = (dropped \ {Order[pos[t]]}) \cup Refused(queue, <<Order[pos[t]]>>)
    /\ sent' = [sent EXCEPT ![t] = TRUE]
    /\ UNCHANGED <<blockVars, flags, dbg, pos, writing, mixed, sets>>

Advance(t) ==
    pos' = [pos EXCEPT ![t] = IF @ = Len(Order) THEN 0 ELSE @ + 1]

\* Mutant of ClearFlag: the loop clears every flag, also one raised since.
ClearFlagAll(t) ==
    /\ sent[t]
    /\ flags' = {}
    /\ sent' = [sent EXCEPT ![t] = FALSE]
    /\ Advance(t)
    /\ UNCHANGED <<blockVars, queue, dropped, dbg, writing, mixed, sets>>

\* and then cleared;
ClearFlag(t) ==
    /\ sent[t]
    /\ flags' = flags \ {Order[pos[t]]}
    /\ sent' = [sent EXCEPT ![t] = FALSE]
    /\ Advance(t)
    /\ UNCHANGED <<blockVars, queue, dropped, dbg, writing, mixed, sets>>

\* one that is OFF is passed over.
SkipFlag(t) ==
    /\ pos[t] # 0
    /\ ~ sent[t]
    /\ Order[pos[t]] \notin flags
    /\ Advance(t)
    /\ UNCHANGED <<blockVars, flags, queue, dropped, dbg, sent, writing, mixed, sets>>

\* The Port task, every 20 ms: IF_SL_ExecuteAction.
PortLoop ==
    /\ pos["port"] = 0
    /\ writing = None
    /\ flags # {}
    /\ pos' = [pos EXCEPT !["port"] = 1]
    /\ UNCHANGED <<blockVars, flags, queue, dropped, dbg, sent, writing, mixed, sets>>

-----------------------------------------------------------------------------
\* Mutant of StoreNow: every block goes to the place in force.
StoreNowAlways(id, c) ==
    /\ nvm' = [nvm EXCEPT ![id[2]] = c]
    /\ UNCHANGED fsNvm

\* Where IF_NvmParamsRW writes: Write_FS_UserMask goes to the block in force.
StoreNow(id, c) ==
    IF id[1] = "now" \/ id[2] = "user"
    THEN nvm' = [nvm EXCEPT ![id[2]] = c] /\ UNCHANGED fsNvm
    ELSE fsNvm' = [fsNvm EXCEPT ![id[2]] = c] /\ UNCHANGED nvm

\* The Port task, every 50 ms: Module_Cmd_Execute takes one command.  The
\* EEPROM takes a block in several pages.
BeginSave ==
    /\ pos["port"] = 0
    /\ writing = None
    /\ queue # <<>>
    /\ Head(queue) # Reset
    /\ queue' = Tail(queue)
    /\ writing' = Head(queue)
    /\ mixed' = FALSE
    /\ StoreNow(Head(queue), Torn)
    /\ UNCHANGED <<now, fs, factory, flags, dropped, dbg, pos, sent, sets>>

EndSave ==
    /\ writing # None
    /\ StoreNow(writing,
                IF mixed THEN Torn
                ELSE IF writing[1] = "now" THEN now[writing[2]] ELSE fs[writing[2]])
    /\ writing' = None
    /\ mixed' = FALSE
    /\ UNCHANGED <<now, fs, factory, flags, queue, dropped, dbg, pos, sent, sets>>

\* Params_Init after a reset of the processor; RAM is lost.
Restart ==
    /\ now' = LoadNow
    /\ fs' = LoadFs
    /\ factory' = FALSE
    /\ flags' = {}
    /\ queue' = <<>>
    /\ dropped' = {}
    /\ dbg' = [at |-> "idle", blk |-> None]
    /\ pos' = [t \in Loopers |-> 0]
    /\ sent' = [t \in Loopers |-> FALSE]
    /\ writing' = None
    /\ mixed' = FALSE
    /\ UNCHANGED <<nvm, fsNvm, sets>>

\* CMD_DEVICERESET.
ExecuteReset ==
    /\ pos["port"] = 0
    /\ writing = None
    /\ queue # <<>>
    /\ Head(queue) = Reset
    /\ Restart

\* Power may fail at any moment, in the middle of a save too.
PowerLoss == Restart

-----------------------------------------------------------------------------
User ==
    \/ \E b \in Blocks : UserSet(b)
    \/ UserResume \/ UserReset \/ UserFactory

Debug ==
    \/ \E b \in Blocks : DebugSet(b)
    \/ DebugFsFlag \/ DebugNow \/ DebugNowFlag
    \/ DebugResume \/ DebugResumeFlags \/ DebugReset \/ DebugFactory \/ DebugAnswer

Loop(t) == SendFlag(t) \/ ClearFlag(t) \/ SkipFlag(t)

Port == PortLoop \/ BeginSave \/ EndSave \/ ExecuteReset

Next ==
    \/ User
    \/ Debug
    \/ \E t \in Loopers : Loop(t)
    \/ Port
    \/ PowerLoss

Spec == Init /\ [][Next]_vars

-----------------------------------------------------------------------------
\* A save that is still on its way.
Pending(i) == i \in flags \/ i \in ToSet(queue) \/ writing = i

\* A parameter that was set is in the EEPROM or on its way there, unless the
\* queue was full: the three tasks that run the loop clear each other's flags
\* and lose no save by it (params_impl.c:2540-2618).  The user block, whose two
\* copies share a place, is apart, and so are parts that the boot wiped.
SavedOrPending ==
    \A b \in Blocks \ {"user"} :
        \/ now[b] = Checked(nvm[b])
        \/ Pending(<<"now", b>>)
        \/ <<"now", b>> \in dropped
        \/ dbg = [at |-> "nowflag", blk |-> b] \/ dbg.at = "copied"
        \/ b = "parts" /\ now[b] = Zero

\* The same of the factory's copies, the user block apart.
FactorySavedOrPending ==
    \A b \in Blocks \ {"user"} :
        \/ fs[b] = Checked(fsNvm[b])
        \/ Pending(<<"fs", b>>)
        \/ <<"fs", b>> \in dropped
        \/ dbg = [at |-> "fsflag", blk |-> b]

\* Nothing is on its way and nothing was refused.
Settled ==
    /\ flags = {} /\ queue = <<>> /\ dropped = {}
    /\ dbg.at = "idle" /\ writing = None

\* PT_ModuleOutput.c:76 on CMD_SAVE_FSUSERPARAM: the factory's user block in
\* memory is saved to the EEPROM.
FactoryUserKept ==
    Settled /\ "user" \in Blocks => fs["user"] = Checked(fsNvm["user"])

\* params_impl.c:181: a block that is all 0xFF has its values initialised -
\* and no other; so what is stored of the parts is what is read.
PartsKept ==
    Settled /\ "parts" \in Blocks =>
        now["parts"] = Checked(nvm["parts"]) \/ nvm["parts"] = Torn

=============================================================================
