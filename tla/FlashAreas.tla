----------------------------- MODULE FlashAreas -----------------------------
(***************************************************************************)
(* The on-chip flash as the firmware update sees it (SL/Nvm/IF_Nvm.h):     *)
(* three file areas of MaxSectors sectors each - the encrypted download    *)
(* (enc), its decrypted copy (raw) and the running application (run) - and *)
(* one sector that holds the download flag.                                *)
(*                                                                         *)
(* A sector is abstracted to what the CRC checks can tell apart: the file  *)
(* whose data its first bytes carry, and whether the sector is that file's *)
(* sector to the last byte.  The first sector of a file carries its header *)
(* (CRCs, length, encryption flag).  A file is measured in chunks of half  *)
(* a sector; one chunk stands for the run of frames that carries it.       *)
(***************************************************************************)
EXTENDS Integers

CONSTANTS
    Images,         \* application files that pass the signature and length checks
    FileChunks,     \* [Images -> Nat]: length of each file in half sectors
    Decryptable,    \* files whose header names an encryption the bootloader undoes
    Bootable,       \* files whose first two words are a stack and a flash address
    MaxSectors,     \* sectors of one area (MAX_APP_FILE_SIZE / 2048)
    NoImage,        \* header of an erased sector
    Junk            \* header overwritten with shifted data

ASSUME AreaAssumption ==
    /\ MaxSectors \in Nat \ {0}
    /\ FileChunks \in [Images -> 1 .. 2 * MaxSectors - 1]
    /\ Decryptable \subseteq Images
    /\ Bootable \subseteq Images
    /\ NoImage \notin Images
    /\ Junk \notin Images
    /\ NoImage # Junk

VARIABLES
    enc,            \* DOWNLOAD_ENCRYPTED_APP_START_ADDR, sectors 200 ..
    raw,            \* DOWNLOAD_RAW_APP_START_ADDR, sectors 300 ..
    run,            \* RUNNING_APP_START_ADDR, sectors 100 ..
    flag            \* TRUE iff DOWNLOAD_APP_FLAG_ADDR holds 0x11223344

flashVars == <<enc, raw, run, flag>>

-----------------------------------------------------------------------------
Sectors == 1 .. MaxSectors
Content == [img : Images \cup {NoImage, Junk}, whole : BOOLEAN]
Area    == [Sectors -> Content]

Blank     == [img |-> NoImage, whole |-> FALSE]     \* erased, 0xFF throughout
Scrambled == [img |-> Junk, whole |-> FALSE]        \* rewritten with misread data
Whole(i)  == [img |-> i, whole |-> TRUE]            \* a complete sector of file i
Torn(i)   == [img |-> i, whole |-> FALSE]           \* begins like file i, then not

Erased    == [k \in Sectors |-> Blank]

\* Sectors a file occupies: its length over the sector size, rounded up.
FileSectors(i) == (FileChunks[i] + 1) \div 2

\* What a CRC over the length in the area's own header accepts: the header is
\* a file's and every sector of that file is in place.
Intact(area) ==
    /\ area[1].img \in Images
    /\ \A k \in 1 .. FileSectors(area[1].img) : area[k] = Whole(area[1].img)

\* The area with file i in its first sectors and nothing behind it.
Holding(i) == [k \in Sectors |-> IF k <= FileSectors(i) THEN Whole(i) ELSE Blank]

\* IF_NvmParam_CheckDownloadFile: the CRC of the download as received.
CheckDownloadFile == Intact(enc)

\* IF_NvmParam_CheckRawDownloadFile: the CRC of the decrypted code.  A file
\* whose header names an unknown encryption is copied undecrypted and fails it.
CheckRawDownloadFile == Intact(raw) /\ raw[1].img \in Decryptable

\* IF_NvmParam_CheckRunningFile.
CheckRunningFile == Intact(run) /\ run[1].img \in Decryptable

-----------------------------------------------------------------------------
\* What power loss may leave of area while sector k is being rewritten as c:
\* nothing done yet, the sector erased, or erased and programmed in part.
TornWrite(area, k, c) ==
    { area,
      [area EXCEPT ![k] = Blank],
      [area EXCEPT ![k] = [c EXCEPT !.whole = FALSE]] }

FlashTypeOK ==
    /\ enc \in Area
    /\ raw \in Area
    /\ run \in Area
    /\ flag \in BOOLEAN

=============================================================================
