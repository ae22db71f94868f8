---------------------------- MODULE XmlFileRing ----------------------------
(***************************************************************************)
(* A ring of XML files shared by one writing and one reading thread        *)
(* (struct XML_FILE: XMLFile[], readpos, writepos, sem_read, sem_write).   *)
(* The program has two of them:                                            *)
(*                                                                         *)
(*   gXML_Send_File   written by ReportUp_main_proc, read by               *)
(*                    GPRS_Upsend_main_proc;                               *)
(*   gXML_Rcv_File    written by TaskUpRecGprs, read by XML_main_proc.     *)
(*                                                                         *)
(* Both writers fill the file at writepos BEFORE they wait for a free slot *)
(* on sem_write, so the slot they fill is not protected by the semaphore:  *)
(* what keeps it from being a slot the reader still uses is that           *)
(* sem_write starts at one less than the number of files.                  *)
(***************************************************************************)
EXTENDS Naturals, Sequences

CONSTANTS
    XML_BUF_FILE_NUM,   \* files in the ring (15 in the program)
    Documents,          \* what a file may contain
    NoDocument          \* a file never written, a document not read yet

ASSUME RingSize == XML_BUF_FILE_NUM \in Nat /\ XML_BUF_FILE_NUM >= 2

VARIABLES
    XMLFile,            \* the contents of the files
    writepos, readpos,
    sem_read, sem_write,
    writer,             \* where the writing thread is in its loop
    reader,             \* where the reading thread is in its loop
    loaded              \* what the reader has read of the file at readpos

ringVars == <<XMLFile, writepos, readpos, sem_read, sem_write, writer, reader,
              loaded>>

Positions == 0 .. XML_BUF_FILE_NUM - 1

-----------------------------------------------------------------------------
(* Faulty variants of the definitions below, one plausible mistake each.  No *)
(* specification uses them: they are what the properties must tell from the  *)
(* code.                                                                     *)

\* the position never wraps
FollowingUnwrapped(p) == p + 1

\* sem_write counts every file of the ring
RingInitAllSlots ==
    /\ XMLFile = [p \in Positions |-> NoDocument]
    /\ writepos = 0
    /\ readpos = 0
    /\ sem_read = 0
    /\ sem_write = XML_BUF_FILE_NUM
    /\ writer = "idle"
    /\ reader = "idle"
    /\ loaded = NoDocument

\* a full ring is only logged, as the message before sem_wait does
CommitNoWait ==
    /\ writer = "written"
    /\ sem_write' = IF sem_write > 0 THEN sem_write - 1 ELSE 0
    /\ writepos' = (writepos + 1) % XML_BUF_FILE_NUM
    /\ writer' = "placed"
    /\ UNCHANGED <<XMLFile, readpos, sem_read, reader, loaded>>

\* sem_post(&sem_read) is skipped
PostReadForgotten ==
    /\ writer = "placed"
    /\ writer' = "idle"
    /\ UNCHANGED <<XMLFile, writepos, readpos, sem_read, sem_write, reader,
                   loaded>>

\* the slot is given back as soon as the reader has it
WaitReadReleasing ==
    /\ reader = "idle"
    /\ sem_read > 0
    /\ sem_read' = sem_read - 1
    /\ sem_write' = sem_write + 1
    /\ reader' = "reading"
    /\ UNCHANGED <<XMLFile, writepos, readpos, writer, loaded>>

-----------------------------------------------------------------------------

\* The position after p.
Following(p) == (p + 1) % XML_BUF_FILE_NUM

RingTypeOK ==
    /\ XMLFile \in [Positions -> Documents \cup {NoDocument}]
    /\ writepos \in Positions
    /\ readpos \in Positions
    /\ sem_read \in 0 .. XML_BUF_FILE_NUM - 1
    /\ sem_write \in 0 .. XML_BUF_FILE_NUM - 1
    /\ writer \in {"idle", "written", "placed"}
    /\ reader \in {"idle", "reading", "loaded", "done"}
    /\ loaded \in Documents \cup {NoDocument}

\* XMLFileInit: one slot is never handed out.
RingInit ==
    /\ XMLFile = [p \in Positions |-> NoDocument]
    /\ writepos = 0
    /\ readpos = 0
    /\ sem_read = 0
    /\ sem_write = XML_BUF_FILE_NUM - 1
    /\ writer = "idle"
    /\ reader = "idle"
    /\ loaded = NoDocument

-----------------------------------------------------------------------------
(* The writing thread *)

\* The file at writepos is created anew.  The receiving thread does so again,
\* over the same file, when the end of a document never arrived (UpGetEnd
\* timed out) and another one starts.
WriteFile(d) ==
    /\ writer \in {"idle", "written"}
    /\ XMLFile' = [XMLFile EXCEPT ![writepos] = d]
    /\ writer' = "written"
    /\ UNCHANGED <<writepos, readpos, sem_read, sem_write, reader, loaded>>

\* sem_wait(&sem_write), then writepos moves on.  Only this thread uses
\* writepos, so the two statements are one step.
Commit ==
    /\ writer = "written"
    /\ sem_write > 0
    /\ sem_write' = sem_write - 1
    /\ writepos' = Following(writepos)
    /\ writer' = "placed"
    /\ UNCHANGED <<XMLFile, readpos, sem_read, reader, loaded>>

\* sem_post(&sem_read)
PostRead ==
    /\ writer = "placed"
    /\ sem_read' = sem_read + 1
    /\ writer' = "idle"
    /\ UNCHANGED <<XMLFile, writepos, readpos, sem_write, reader, loaded>>

-----------------------------------------------------------------------------
(* The reading thread *)

\* sem_wait(&sem_read)
WaitRead ==
    /\ reader = "idle"
    /\ sem_read > 0
    /\ sem_read' = sem_read - 1
    /\ reader' = "reading"
    /\ UNCHANGED <<XMLFile, writepos, readpos, sem_write, writer, loaded>>

\* The file at readpos is read; a document sent in packets is read piece by
\* piece, the ring may move in between.
LoadFile ==
    /\ reader \in {"reading", "loaded"}
    /\ loaded' = XMLFile[readpos]
    /\ reader' = "loaded"
    /\ UNCHANGED <<XMLFile, writepos, readpos, sem_read, sem_write, writer>>

AdvanceRead ==
    /\ reader = "loaded"
    /\ readpos' = Following(readpos)
    /\ loaded' = NoDocument
    /\ reader' = "done"
    /\ UNCHANGED <<XMLFile, writepos, sem_read, sem_write, writer>>

\* sem_post(&sem_write)
PostWrite ==
    /\ reader = "done"
    /\ sem_write' = sem_write + 1
    /\ reader' = "idle"
    /\ UNCHANGED <<XMLFile, writepos, readpos, sem_read, writer, loaded>>

-----------------------------------------------------------------------------

RingNext ==
    \/ \E d \in Documents : WriteFile(d)
    \/ Commit
    \/ PostRead
    \/ WaitRead
    \/ LoadFile
    \/ AdvanceRead
    \/ PostWrite

\* The reader is a thread of its own and goes on with every file it was given
\* (XML_main_proc may have to wait for the uplink's turn before it gives the
\* slot back; see TurnComesBack in Uplink).  The writer reaches its sem_post
\* once it has its slot.
RingFairness ==
    /\ WF_ringVars(PostRead)
    /\ WF_ringVars(WaitRead)
    /\ WF_ringVars(LoadFile /\ reader = "reading")
    /\ WF_ringVars(AdvanceRead)
    /\ WF_ringVars(PostWrite)

RingSpec == RingInit /\ [][RingNext]_ringVars

RingFairSpec == RingSpec /\ RingFairness

-----------------------------------------------------------------------------
(* Properties *)

\* Number of documents placed in the ring and not yet passed by the reader.
Unread ==
    IF writepos >= readpos THEN writepos - readpos
                           ELSE writepos + XML_BUF_FILE_NUM - readpos

\* The slots that hold those documents.
UnreadSlots ==
    IF writepos >= readpos
    THEN readpos .. writepos - 1
    ELSE Positions \ (writepos .. readpos - 1)

\* How far p is in front of the reader.
Ahead(p) == IF p >= readpos THEN p - readpos
                            ELSE p + XML_BUF_FILE_NUM - readpos

\* The files the reader has, or may still be let to by sem_read.
ReadersFiles ==
    {p \in Positions :
        Ahead(p) < sem_read
                     + (IF writer = "placed" THEN 1 ELSE 0)
                     + (IF reader \in {"reading", "loaded"} THEN 1 ELSE 0)}

\* The file a writer creates anew without holding a slot of sem_write is never
\* one that waits to be read or is being read: makexml and UpGetStart truncate
\* only files whose contents nobody needs any more.
WriterOffUnread == writepos \notin ReadersFiles

\* What the reader sent or parsed is still what the file says when it moves
\* on: the file did not change under a document sent in packets.
ReadIsStable == reader = "loaded" => loaded = XMLFile[readpos]

\* The two semaphores account for every slot: free slots, documents waiting,
\* and the one slot the reader has left but not yet given back.
SlotsConserved ==
    /\ sem_write + Unread + (IF reader = "done" THEN 1 ELSE 0)
         = XML_BUF_FILE_NUM - 1
    /\ sem_read + (IF writer = "placed" THEN 1 ELSE 0)
                + (IF reader \in {"reading", "loaded"} THEN 1 ELSE 0)
         = Unread

\* The ring as a channel: the documents in UnreadSlots in reading order.
RingQueue ==
    [i \in 1 .. Unread |->
        XMLFile[IF readpos + i - 1 < XML_BUF_FILE_NUM
                THEN readpos + i - 1
                ELSE readpos + i - 1 - XML_BUF_FILE_NUM]]

Fifo == INSTANCE DocFifo WITH
    queue <- RingQueue, out <- loaded, Capacity <- XML_BUF_FILE_NUM - 1

\* The ring is the bounded channel of whole documents: none lost, repeated,
\* reordered or changed once placed.
RingIsFifo == Fifo!Spec

\* Every file that was placed is read, however slow the reader is.
EveryFileRead ==
    \A p \in Positions :
        (p \in UnreadSlots) ~> (readpos = p /\ reader = "loaded")
=============================================================================
