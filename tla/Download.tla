------------------------------ MODULE Download ------------------------------
(***************************************************************************)
(* Receiving a firmware file over the two host ports: BSIP on UART1        *)
(* (Dealwith_Debug_FirmwareUpdate in bsip_layer7.c, task UserHMI) and      *)
(* FGIPv2 on UART2 (Dealwith_Datablock_Firmware in fgipv2_layer7.c, task   *)
(* DebugHMI).  Both run the same stop-and-wait protocol of numbered        *)
(* frames into the same flash area, and neither knows of the other.        *)
(*                                                                         *)
(* A frame is one chunk of a file.  The handlers are split at their flash  *)
(* writes: UserHMI has the higher priority, so BSIP may run to its end     *)
(* between any two steps of FGIPv2, and FGIPv2 never runs inside BSIP.     *)
(* A flash write itself runs with the interrupts off.                      *)
(*                                                                         *)
(* Assumed of the host: it never sends a frame beyond the end of its file  *)
(* (no < Chunks(f)).  Neither handler bounds DownloadFileIndex.            *)
(***************************************************************************)
EXTENDS FlashAreas

CONSTANTS
    Ports,          \* the ports a host is connected to
    AlienFiles      \* files refused for their signature or header length

ASSUME DownloadAssumption ==
    /\ Ports \subseteq {"bsip", "fgip"}
    /\ AlienFiles \cap (Images \cup {NoImage, Junk}) = {}

VARIABLE sess               \* per port, the state of the transfer

Files  == Images \cup AlienFiles
Chunks(f) == IF f \in Images THEN FileChunks[f] ELSE 2

MaxFrames == 2 * MaxSectors

\* A transfer: where its handler stands, ExpectedFrameNo, DownloadFileIndex
\* and the fill of its buffer in chunks, whether the buffer still holds what
\* was received, the file, and the last mark of the frame in hand.
Sessions == [at   : {"idle", "write", "flush", "length", "crc", "setflag"},
             exp  : 0 .. MaxFrames,
             pos  : 0 .. MaxFrames,
             fill : 0 .. 2,
             kept : BOOLEAN,
             file : Files \cup {NoImage},
             last : BOOLEAN]

NoSession == [at |-> "idle", exp |-> 0, pos |-> 0, fill |-> 0,
              kept |-> TRUE, file |-> NoImage, last |-> FALSE]

DownloadTypeOK == sess \in [Ports -> Sessions]

NoSessions == [p \in Ports |-> NoSession]

-----------------------------------------------------------------------------
\* Task priorities: DebugHMI runs only while UserHMI waits for a frame.
MayRun(p) == \A q \in Ports : (p = "fgip" /\ q = "bsip") => sess[q].at = "idle"

\* Mutant of Opened: a new transfer keeps the counts of the one before it.
OpenedStale(p, no, f) ==
    IF no = 0 THEN [sess[p] EXCEPT !.file = f] ELSE sess[p]

\* The transfer as frame no of file f finds it: frame 0 starts it anew.
Opened(p, no, f) ==
    IF no = 0 THEN [NoSession EXCEPT !.file = f] ELSE sess[p]

\* Any other frame must be the one expected.  A frame that is not - repeated,
\* lost before it, out of a transfer - is refused and changes nothing.
Expected(p, no, f) ==
    \/ no = 0
    \/ no = sess[p].exp /\ f = sess[p].file

\* The frame is counted before it is looked at; a file whose signature or
\* length is refused never gets past the 32nd byte, so neither do its later
\* frames.  no < Chunks(f) is the host's, not the handler's.
AlienFrame(p, no, f) ==
    /\ MayRun(p)
    /\ sess[p].at = "idle"
    /\ f \in AlienFiles
    /\ no < Chunks(f)
    /\ Expected(p, no, f)
    /\ sess' = [sess EXCEPT ![p] = [Opened(p, no, f) EXCEPT !.exp = no + 1]]
    /\ UNCHANGED flashVars

\* Transfer s with one more chunk in the buffer.  A full buffer is written at
\* once; a last frame writes what is left.
Stored(s, last) ==
    [at   |-> IF s.fill = 1 THEN "write" ELSE IF last THEN "flush" ELSE "idle",
     exp  |-> s.exp + 1,
     pos  |-> s.pos + 1,
     fill |-> s.fill + 1,
     kept |-> s.kept,
     file |-> s.file,
     last |-> last]

\* The expected frame of an application file; no < Chunks(f) as above.
AcceptFrame(p, no, f, last) ==
    /\ MayRun(p)
    /\ sess[p].at = "idle"
    /\ f \in Images
    /\ no < Chunks(f)
    /\ Expected(p, no, f)
    /\ sess' = [sess EXCEPT ![p] = Stored(Opened(p, no, f), last)]
    /\ UNCHANGED flashVars

-----------------------------------------------------------------------------
\* The chunk of the file, counted from 0, whose place port p writes to.
WriteStart(p) ==
    IF sess[p].at = "write" THEN sess[p].pos - 2 ELSE sess[p].pos - sess[p].fill

\* What the sector holds after port p's buffer was written on its boundary.
\* The buffer is complete when it is full or ends with the file; one that was
\* lost holds the image of the flag's sector (FGIPv2), whose bytes read as a
\* header of length zero.
BufContent(p) ==
    IF sess[p].kept
    THEN IF sess[p].fill = 2 \/ sess[p].pos = Chunks(sess[p].file)
         THEN Whole(sess[p].file) ELSE Torn(sess[p].file)
    ELSE Blank

\* IF_Flash_write of a full sector's length.  Off a sector boundary it also
\* rewrites the other halves of two sectors, with misread data.
WrittenArea(p) ==
    LET k == (WriteStart(p) \div 2) + 1
    IN IF WriteStart(p) % 2 = 0
       THEN [enc EXCEPT ![k] = BufContent(p)]
       ELSE [j \in Sectors |->
               IF j = k THEN Scrambled
               ELSE IF j = k + 1 THEN Torn(sess[p].file) ELSE enc[j]]

\* Mutant of WriteSector: the buffer is not emptied.
WriteSectorKeeps(p) ==
    /\ MayRun(p)
    /\ sess[p].at = "write"
    /\ enc' = WrittenArea(p)
    /\ sess' = [sess EXCEPT ![p].at = IF sess[p].last THEN "length" ELSE "idle"]
    /\ UNCHANGED <<raw, run, flag>>

\* IF_NvmParam_WriteDownloadFile in the receiving loop, then the next byte.
WriteSector(p) ==
    /\ MayRun(p)
    /\ sess[p].at = "write"
    /\ enc' = WrittenArea(p)
    /\ sess' = [sess EXCEPT ![p] =
         [@ EXCEPT !.fill = 0,
                   !.kept = TRUE,
                   !.at   = IF sess[p].last THEN "length" ELSE "idle"]]
    /\ UNCHANGED <<raw, run, flag>>

\* The same call after a last frame that left the buffer part full; here the
\* buffer is not emptied.
FlushSector(p) ==
    /\ MayRun(p)
    /\ sess[p].at = "flush"
    /\ enc' = IF sess[p].fill = 0 THEN enc ELSE WrittenArea(p)
    /\ sess' = [sess EXCEPT ![p].at = "length"]
    /\ UNCHANGED <<raw, run, flag>>

\* The handler returns to its loop.
Return(p) ==
    sess' = [sess EXCEPT ![p] = [@ EXCEPT !.at = "idle", !.last = FALSE]]

\* DownloadFileIndex against the length in the header as it is in flash.
LengthMatches(p) ==
    enc[1].img \in Images /\ sess[p].pos = FileChunks[enc[1].img]

CheckLength(p) ==
    /\ MayRun(p)
    /\ sess[p].at = "length"
    /\ IF LengthMatches(p)
       THEN sess' = [sess EXCEPT ![p].at = "crc"]
       ELSE Return(p)
    /\ UNCHANGED flashVars

CheckCrc(p) ==
    /\ MayRun(p)
    /\ sess[p].at = "crc"
    /\ IF CheckDownloadFile
       THEN sess' = [sess EXCEPT ![p].at = "setflag"]
       ELSE Return(p)
    /\ UNCHANGED flashVars

\* IF_NvmParam_WriteDownloadFlag clears NvmFlash for its own use: that is the
\* buffer of FGIPv2, whichever port set the flag, and a write FGIPv2 is about
\* to make writes the cleared buffer.
WriteDownloadFlag(p) ==
    /\ MayRun(p)
    /\ sess[p].at = "setflag"
    /\ flag' = TRUE
    /\ sess' = [q \in Ports |->
         [sess[q] EXCEPT !.fill = IF q = "fgip" THEN 0 ELSE @,
                         !.kept = @ /\ ~ (q = "fgip" /\ sess[q].at = "write"),
                         !.at   = IF q = p THEN "idle" ELSE @,
                         !.last = IF q = p THEN FALSE ELSE @]]
    /\ UNCHANGED <<enc, raw, run>>

\* A request for process data uses the file buffer, and FGIPv2 gives up the
\* transfer.  BSIP never comes to answering such a request (module BsipTx).
ReadProcessData(p) ==
    /\ p = "fgip"
    /\ MayRun(p)
    /\ sess[p].at = "idle"
    /\ sess' = [sess EXCEPT ![p] = NoSession]
    /\ UNCHANGED flashVars

Frame(p) ==
    \E no \in 0 .. MaxFrames :
        \E f \in Files :
           \/ AlienFrame(p, no, f)
           \/ \E last \in BOOLEAN : AcceptFrame(p, no, f, last)

Handle(p) ==
    \/ WriteSector(p) \/ FlushSector(p)
    \/ CheckLength(p) \/ CheckCrc(p) \/ WriteDownloadFlag(p)

DownloadStep ==
    \E p \in Ports : Frame(p) \/ ReadProcessData(p) \/ Handle(p)

\* Power fails while p's handler stands before or in a flash write.
DownloadTorn ==
    /\ UNCHANGED <<raw, run>>
    /\ \/ \E p \in Ports :
             /\ MayRun(p)
             /\ \/ sess[p].at = "write"
                \/ sess[p].at = "flush" /\ sess[p].fill # 0
             /\ LET k == (WriteStart(p) \div 2) + 1
                IN enc' \in TornWrite(enc, k, WrittenArea(p)[k])
             /\ UNCHANGED flag
       \/ \E p \in Ports :
             /\ MayRun(p)
             /\ sess[p].at = "setflag"
             /\ flag' = FALSE
             /\ UNCHANGED enc

=============================================================================
