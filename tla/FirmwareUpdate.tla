--------------------------- MODULE FirmwareUpdate ---------------------------
(***************************************************************************)
(* The whole firmware update: the bootloader, the two download ports, the  *)
(* flash they share, resets, and power failures at any moment.             *)
(***************************************************************************)
EXTENDS Bootloader, Download

CONSTANT MaxPowerLosses     \* bound on power failures, for model checking

ASSUME PowerAssumption == MaxPowerLosses \in Nat

VARIABLE losses             \* power failures so far

vars == <<flashVars, bootVars, sess, losses>>

-----------------------------------------------------------------------------
\* A reset clears the RAM the transfers live in.
ForgetSessions == sess' = NoSessions

\* A board as it leaves the factory: the bootloader with or without an
\* application, nothing ever downloaded.
Init ==
    /\ enc = Erased
    /\ raw = Erased
    /\ run \in {Erased} \cup {Holding(i) : i \in Decryptable}
    /\ flag = FALSE
    /\ pc = "boot"
    /\ idx = 1
    /\ todo = 0
    /\ erasing = FALSE
    /\ resets \in {0, BlankByte}
    /\ running = NoImage
    /\ sess = NoSessions
    /\ losses = 0

\* The bootloader runs before the tasks exist.
Boot ==
    /\ BootStep
    /\ UNCHANGED <<sess, losses>>

\* Ten seconds up.
Confirm ==
    /\ ClearResetTimes
    /\ UNCHANGED <<sess, losses>>

\* Both programs serve the ports.
Transfer ==
    /\ pc \in Up
    /\ DownloadStep
    /\ UNCHANGED <<bootVars, losses>>

\* IF_CmdParam_SetResetDevice after a download, or the watchdog.
ResetRunning ==
    /\ Reset
    /\ ForgetSessions
    /\ UNCHANGED losses

ResetHung ==
    /\ WatchdogReset
    /\ UNCHANGED <<sess, losses>>

PowerLoss ==
    /\ losses < MaxPowerLosses
    /\ losses' = losses + 1
    /\ ForgetSessions
    /\ \/ PowerFails
       \/ Reset
       \/ pc \in Up /\ Restart /\ DownloadTorn

Next ==
    \/ Boot \/ Confirm \/ Transfer
    \/ ResetRunning \/ ResetHung \/ PowerLoss

Spec == Init /\ [][Next]_vars

\* The processor executes the bootloader, the watchdog is external, and an
\* application that crashes early does crash.
FairSpec ==
    /\ Spec
    /\ WF_vars(Boot)
    /\ WF_vars(ResetHung)
    /\ WF_vars(running \in Crashy /\ ResetRunning)

-----------------------------------------------------------------------------
TypeOK ==
    /\ BootTypeOK
    /\ DownloadTypeOK
    /\ losses \in 0 .. MaxPowerLosses

\* The application in control is a whole file that the running area still
\* holds: nothing the download does touches it, and no interrupted copy runs
\* (Boot.c, CrcCheckForAppAndRun).
AppIsIntact ==
    pc = "app" => CheckRunningFile /\ run[1].img = running

\* While the board boots, nothing changes which application the boot ends
\* in: not the decryption, not the copy, not a power failure inside either,
\* not the watchdog (Boot.c, IF_Bootloader).
BootKeepsImage ==
    [][(pc \in Booting) => BootImage' = BootImage]_vars

\* A board that has an application to start loses it only in the bootloader
\* that stayed, and only when the running area was already broken: a
\* download under a good application never leaves nothing to boot.
LossNeedsBrokenRun ==
    [][BootImage # NoImage /\ BootImage' = NoImage =>
         pc = "stay" /\ ~ CheckRunningFile]_vars

\* The bootloader keeps the board to itself only after too many resets or
\* with nothing it could start.
StayHasReason ==
    [][pc # "stay" /\ pc' = "stay" =>
         resets' >= ResetMax \/ BootImage \notin Bootable]_vars

\* A boot can only fault over a download header that is no file's: erased by
\* a write that power interrupted, or overwritten by the other port's
\* transfer (Nvm.c:281-315: the length of such a header has no bound).
HangNeedsTornHeader ==
    pc = "hang" => enc[1].img \notin Images

\* Every boot comes to an end.
BootTerminates == pc \in Booting ~> pc \in Up

\* An application that keeps failing early is stopped: the board ends up
\* waiting in the bootloader, unless a download replaced the application.
CrashLoopCaught ==
    running \in Crashy ~> pc = "stay" \/ BootImage \notin Crashy

-----------------------------------------------------------------------------
\* The inductive invariant behind them.

\* The pending download is one the boot will accept.
PendingGood == Intact(Pending) /\ Pending[1].img \in Decryptable

\* The first n sectors of area are copies of those of from.
Copied(area, from, n) == \A k \in 1 .. n : area[k] = from[k]

\* At each step of the boot, what the steps before it have achieved.  An
\* interrupted boot is repeated from the start because the flag stays set
\* until the running area holds the pending download.
BootInv ==
    /\ pc = "boot" => idx = 1 /\ ~ erasing
    /\ pc = "decrypt" =>
         /\ flag
         /\ todo \in DecryptSectors(enc[1].img)
         /\ Copied(raw, enc, idx - 1)
    /\ pc = "checkraw" =>
         /\ flag
         /\ idx = 1
         /\ \/ enc[1].img = NoImage
            \/ \E n \in DecryptSectors(enc[1].img) : Copied(raw, enc, n)
    /\ pc = "copy" =>
         /\ flag
         /\ PendingGood
         /\ CheckRawDownloadFile
         /\ raw[1].img = Pending[1].img
         /\ todo = FileSectors(raw[1].img)
         /\ Copied(run, raw, idx - 1)
    /\ (pc = "checkrun" /\ ~ erasing) => ~ flag
    /\ (pc = "checkrun" /\ erasing) \/ pc = "erase" =>
         /\ flag
         /\ PendingGood => CheckRunningFile /\ run[1].img = Pending[1].img
    /\ pc \in {"erase", "jump", "app"} => CheckRunningFile
    /\ pc = "jump" => ~ flag
    /\ pc = "app" => run[1].img = running
    /\ pc = "hang" => enc[1].img \notin Images
    /\ pc # "app" => running = NoImage

\* A transfer of a file that passes the first checks has stored as many
\* chunks as it has counted frames, and only such a transfer writes.
TransferInv ==
    \A p \in Ports :
        /\ sess[p].file \in Images => sess[p].pos = sess[p].exp
        /\ sess[p].file \in AlienFiles => sess[p].fill = 0
        /\ sess[p].at # "write" => sess[p].fill \in 0 .. 1
        /\ sess[p].at # "idle" => sess[p].file \in Images

IInv == TypeOK /\ BootInv /\ TransferInv

-----------------------------------------------------------------------------
\* The abstract specification.
Safe == INSTANCE SafeUpdate WITH
    image <- BootImage,
    mode  <- IF pc \in Booting THEN "booting" ELSE pc

SafeSpec == Safe!Spec

=============================================================================
