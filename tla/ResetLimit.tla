----------------------------- MODULE ResetLimit -----------------------------
(***************************************************************************)
(* The limit on consecutive resets (IF_NvmParam_CheckSystemResetTimes).    *)
(* The byte in the EEPROM is compared with a history variable that counts  *)
(* the same starts without the byte's limits.                              *)
(***************************************************************************)
EXTENDS Bootloader

CONSTANT MaxBoots       \* where the history variable stops counting

ASSUME BootsAssumption == MaxBoots \in Nat

VARIABLE boots          \* starts since the counter was last cleared

limitVars == <<flashVars, bootVars, boots>>

LimitInit ==
    /\ BootInit
    /\ boots = 0

\* Every start counts, every clearing of the byte clears the history.
Counted ==
    IF pc = "boot" /\ pc' # "boot"
    THEN boots' = IF boots < MaxBoots THEN boots + 1 ELSE boots
    ELSE IF resets' = 0 /\ resets # 0 THEN boots' = 0
    ELSE UNCHANGED boots

LimitNext ==
    /\ BootNext
    /\ Counted

LimitSpec == LimitInit /\ [][LimitNext]_limitVars

-----------------------------------------------------------------------------
\* As Boot.c:96 and Nvm.c:364 say it: the tenth reset in a row, and every one
\* after it, runs the bootloader and not the application.
TenthResetStays == boots >= ResetMax => pc \notin {"jump", "app"}

\* What the byte can do: it holds until it has counted as far as an erased
\* byte, which is read back as no reset at all.
ResetLimitHolds ==
    boots \in ResetMax .. BlankByte => pc \notin {"jump", "app"}

\* The byte never claims more resets than there were, so an application that
\* survives ten seconds is not locked out.
NeverEarly ==
    (pc \in Up /\ resets >= ResetMax) => boots >= ResetMax

=============================================================================
