----------------------------- MODULE Bootloader -----------------------------
(***************************************************************************)
(* The bootloader (SL/Boot/Boot.c and the firmware half of SL/Nvm/Nvm.c):  *)
(* what happens between a reset and the jump to the application.           *)
(*                                                                         *)
(* Every flash sector the bootloader rewrites is a step of its own, so     *)
(* that power can fail between any two of them and in the middle of each.  *)
(* The reset counter is one byte of the serial EEPROM.                     *)
(***************************************************************************)
EXTENDS FlashAreas

CONSTANTS
    Crashy,         \* applications that never run for ten seconds
    ResetMax,       \* SYSTEM_RESET_MAX_TIMES
    BlankByte,      \* an erased EEPROM byte and the largest: 255
    ErasedSectors   \* 0xFFFFFFFF / FLASH_SECTOR_SIZE, an erased header's length

ASSUME BootAssumption ==
    /\ Crashy \subseteq Images
    /\ BlankByte \in Nat
    /\ ResetMax \in 1 .. BlankByte
    /\ ErasedSectors \in Nat
    /\ (ErasedSectors + 1) % 65536 = 0

VARIABLES
    pc,             \* where the program is
    idx,            \* loop variable i of the decrypting and copying loops, from 1
    todo,           \* sectorNum of the same loops
    erasing,        \* bEraseDownloadFlag of CrcCheckForAppAndRun
    resets,         \* the byte at SYSTEM_RESET_TIMES_ADDR
    running         \* the application in control, NoImage if none

bootVars == <<pc, idx, todo, erasing, resets, running>>

Booting == {"boot", "decrypt", "checkraw", "copy", "checkrun", "erase", "jump", "hang"}
Up      == {"app", "stay"}      \* the tasks run: the application's or the bootloader's

-----------------------------------------------------------------------------
\* Mutant of DecryptSectors: the loop stops one sector early.
DecryptSectorsShort(img) ==
    IF img \in Images THEN {FileSectors(img) - 1}
    ELSE IF img = NoImage THEN {(ErasedSectors + 1) % 65536}
    ELSE Sectors

\* The 16-bit sectorNum that IF_NvmParam_EncryptDownloadFile computes from
\* the length in the header.  An erased header's wraps to no sector at all;
\* a scrambled one's is any number.
DecryptSectors(img) ==
    IF img \in Images THEN {FileSectors(img)}
    ELSE IF img = NoImage THEN {(ErasedSectors + 1) % 65536}
    ELSE Sectors

BootTypeOK ==
    /\ FlashTypeOK
    /\ pc \in Booting \cup Up
    /\ idx \in 1 .. MaxSectors + 1
    /\ todo \in 0 .. MaxSectors
    /\ erasing \in BOOLEAN
    /\ resets \in 0 .. BlankByte
    /\ running \in Images \cup {NoImage}

-----------------------------------------------------------------------------
\* Mutants of ReadResetTimes: reading counts as well; the byte is never read.
ReadResetTimesCounts == IF resets = BlankByte THEN 0 ELSE resets + 1
ReadResetTimesNever == 0

\* Read_SystemResetTimes: an erased byte counts as no reset.
ReadResetTimes == IF resets = BlankByte THEN 0 ELSE resets

\* The local variables of a loop that ended.
LoopDone == idx' = 1 /\ todo' = 0

\* Mutant of Start: one reset too many is allowed.
StartLate ==
    /\ pc = "boot"
    /\ resets' = ReadResetTimes + 1
    /\ \/ /\ resets' > ResetMax
          /\ pc' = "stay"
          /\ UNCHANGED todo
       \/ /\ resets' <= ResetMax
          /\ flag
          /\ pc' = "decrypt"
          /\ todo' \in DecryptSectors(enc[1].img)
       \/ /\ resets' <= ResetMax
          /\ ~ flag
          /\ pc' = "checkrun"
          /\ UNCHANGED todo
    /\ UNCHANGED <<flashVars, idx, erasing, running>>

\* Mutant of Start: a boot that was interrupted is not taken up again.
StartOnce ==
    /\ pc = "boot"
    /\ resets' = ReadResetTimes + 1
    /\ \/ /\ resets' >= ResetMax
          /\ pc' = "stay"
          /\ UNCHANGED todo
       \/ /\ resets' = 1 /\ ResetMax > 1
          /\ flag
          /\ pc' = "decrypt"
          /\ todo' \in DecryptSectors(enc[1].img)
       \/ /\ resets' < ResetMax
          /\ ~ flag \/ resets' > 1
          /\ pc' = "checkrun"
          /\ UNCHANGED todo
    /\ UNCHANGED <<flashVars, idx, erasing, running>>

\* IF_Bootloader up to its first loop: count this start, and unless there
\* were too many choose between the pending download and the application.
Start ==
    /\ pc = "boot"
    /\ resets' = ReadResetTimes + 1
    /\ \/ /\ resets' >= ResetMax
          /\ pc' = "stay"
          /\ UNCHANGED todo
       \/ /\ resets' < ResetMax
          /\ flag
          /\ pc' = "decrypt"
          /\ todo' \in DecryptSectors(enc[1].img)
       \/ /\ resets' < ResetMax
          /\ ~ flag
          /\ pc' = "checkrun"
          /\ UNCHANGED todo
    /\ UNCHANGED <<flashVars, idx, erasing, running>>

\* Mutants of DecryptSector: the address of the running area; a loop variable
\* that stays.
DecryptIntoRun ==
    /\ pc = "decrypt"
    /\ idx <= todo
    /\ run' = [run EXCEPT ![idx] = enc[idx]]
    /\ idx' = idx + 1
    /\ UNCHANGED <<enc, raw, flag, pc, todo, erasing, resets, running>>

DecryptForever ==
    /\ pc = "decrypt"
    /\ idx <= todo
    /\ raw' = [raw EXCEPT ![idx] = enc[idx]]
    /\ UNCHANGED <<enc, run, flag, bootVars>>

\* One turn of the loop in IF_NvmParam_EncryptDownloadFile.
DecryptSector ==
    /\ pc = "decrypt"
    /\ idx <= todo
    /\ raw' = [raw EXCEPT ![idx] = enc[idx]]
    /\ idx' = idx + 1
    /\ UNCHANGED <<enc, run, flag, pc, todo, erasing, resets, running>>

\* The same loop on a scrambled length: it passes the end of the area, may
\* pass the flag's sector, and faults where the flash ends.
DecryptOverrun ==
    /\ pc = "decrypt"
    /\ enc[1].img = Junk
    /\ raw' = enc
    /\ flag' \in {flag, FALSE}
    /\ pc' = "hang"
    /\ LoopDone
    /\ UNCHANGED <<enc, run, erasing, resets, running>>

DecryptDone ==
    /\ pc = "decrypt"
    /\ idx > todo
    /\ pc' = "checkraw"
    /\ LoopDone
    /\ UNCHANGED <<flashVars, erasing, resets, running>>

\* Mutant of CheckRawGood: the flag is erased before the copy.
CheckRawEager ==
    /\ pc = "checkraw"
    /\ CheckRawDownloadFile
    /\ pc' = "copy"
    /\ todo' = FileSectors(raw[1].img)
    /\ flag' = FALSE
    /\ UNCHANGED <<enc, raw, run, idx, erasing, resets, running>>

\* IF_NvmParam_CheckRawDownloadFile: a good file is copied,
CheckRawGood ==
    /\ pc = "checkraw"
    /\ CheckRawDownloadFile
    /\ pc' = "copy"
    /\ todo' = FileSectors(raw[1].img)
    /\ UNCHANGED <<flashVars, idx, erasing, resets, running>>

\* (mutant of CheckRawBad: a bad file ends the boot)
CheckRawGivesUp ==
    /\ pc = "checkraw"
    /\ raw[1].img # NoImage
    /\ ~ CheckRawDownloadFile
    /\ pc' = "stay"
    /\ UNCHANGED <<flashVars, idx, todo, erasing, resets, running>>

\* a bad one is not, and the flag will go either way;
CheckRawBad ==
    /\ pc = "checkraw"
    /\ raw[1].img # NoImage
    /\ ~ CheckRawDownloadFile
    /\ pc' = "checkrun"
    /\ erasing' = TRUE
    /\ UNCHANGED <<flashVars, idx, todo, resets, running>>

\* the length of an erased (or scrambled) header takes the CRC past the end
\* of the flash: a fault, whose handler loops until the watchdog resets.
CheckRawFault ==
    /\ pc = "checkraw"
    /\ raw[1].img \in {NoImage, Junk}
    /\ pc' = "hang"
    /\ UNCHANGED <<flashVars, idx, todo, erasing, resets, running>>

\* One turn of the loop in IF_NvmParam_CopyRawFileToRunningArea.
CopySector ==
    /\ pc = "copy"
    /\ idx <= todo
    /\ run' = [run EXCEPT ![idx] = raw[idx]]
    /\ idx' = idx + 1
    /\ UNCHANGED <<enc, raw, flag, pc, todo, erasing, resets, running>>

CopyDone ==
    /\ pc = "copy"
    /\ idx > todo
    /\ pc' = "checkrun"
    /\ erasing' = TRUE
    /\ LoopDone
    /\ UNCHANGED <<flashVars, resets, running>>

\* Mutant of CheckRun: what was just copied is not checked.
CheckRunTrusting ==
    /\ pc = "checkrun"
    /\ pc' = IF erasing THEN "erase"
             ELSE IF CheckRunningFile THEN "jump" ELSE "stay"
    /\ erasing' = FALSE
    /\ UNCHANGED <<flashVars, idx, todo, resets, running>>

\* CrcCheckForAppAndRun: without a good application the bootloader stays.
CheckRun ==
    /\ pc = "checkrun"
    /\ pc' = IF ~ CheckRunningFile THEN "stay"
             ELSE IF erasing THEN "erase" ELSE "jump"
    /\ erasing' = FALSE
    /\ UNCHANGED <<flashVars, idx, todo, resets, running>>

\* IF_NvmParam_EraseDownloadFlag.
EraseFlag ==
    /\ pc = "erase"
    /\ flag' = FALSE
    /\ pc' = "jump"
    /\ UNCHANGED <<enc, raw, run, idx, todo, erasing, resets, running>>

\* JumpToUserApplication and app_load: both return when a vector is not one.
Jump ==
    /\ pc = "jump"
    /\ IF run[1].img \in Bootable
       THEN pc' = "app" /\ running' = run[1].img
       ELSE pc' = "stay" /\ UNCHANGED running
    /\ UNCHANGED <<flashVars, idx, todo, erasing, resets>>

BootStep ==
    \/ Start
    \/ DecryptSector \/ DecryptOverrun \/ DecryptDone
    \/ CheckRawGood \/ CheckRawBad \/ CheckRawFault
    \/ CopySector \/ CopyDone
    \/ CheckRun \/ EraseFlag \/ Jump

-----------------------------------------------------------------------------
\* IF_SL_Nvm_WriteSystemResetTimes, ten seconds after power-up, in the
\* application and in the bootloader that stayed.
ClearResetTimes ==
    /\ pc \in Up
    /\ running \notin Crashy
    /\ resets # 0
    /\ resets' = 0
    /\ UNCHANGED <<flashVars, pc, idx, todo, erasing, running>>

\* What any reset does to the processor.
Restart ==
    /\ pc' = "boot"
    /\ running' = NoImage
    /\ LoopDone
    /\ erasing' = FALSE
    /\ UNCHANGED resets

\* A reset while the tasks run: commanded, by the watchdog, by power.
Reset ==
    /\ pc \in Up
    /\ Restart
    /\ UNCHANGED flashVars

\* The external watchdog ends a fault handler's loop.
WatchdogReset ==
    /\ pc = "hang"
    /\ Restart
    /\ UNCHANGED flashVars

\* Power fails during a boot step; the sector being rewritten may be torn.
PowerFails ==
    /\ pc \in Booting
    /\ Restart
    /\ raw' \in IF pc = "decrypt" /\ idx <= todo
                THEN TornWrite(raw, idx, enc[idx]) ELSE {raw}
    /\ run' \in IF pc = "copy" /\ idx <= todo
                THEN TornWrite(run, idx, raw[idx]) ELSE {run}
    /\ flag' \in IF pc = "erase" THEN {flag, FALSE} ELSE {flag}
    /\ UNCHANGED enc

-----------------------------------------------------------------------------
BootInit ==
    /\ FlashTypeOK
    /\ pc = "boot"
    /\ idx = 1
    /\ todo = 0
    /\ erasing = FALSE
    /\ resets \in {0, BlankByte}
    /\ running = NoImage

BootNext ==
    \/ BootStep
    \/ ClearResetTimes
    \/ Reset \/ WatchdogReset \/ PowerFails

BootSpec == BootInit /\ [][BootNext]_<<flashVars, bootVars>>

-----------------------------------------------------------------------------
\* The application the next complete boot starts, as the flash stands: the
\* pending download if the decrypted copy made from it will be accepted,
\* otherwise the one in the running area.
Pending == IF enc[1].img = NoImage THEN raw ELSE enc

BootImage ==
    IF flag /\ Intact(Pending) /\ Pending[1].img \in Decryptable
    THEN Pending[1].img
    ELSE IF CheckRunningFile THEN run[1].img ELSE NoImage

=============================================================================
