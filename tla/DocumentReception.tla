------------------------- MODULE DocumentReception -------------------------
(***************************************************************************)
(* How a document of the server gets into a file.                          *)
(*                                                                         *)
(*   GPRS module --AT^SISR--> Fun_GprsIpd_xmz --UpRecQueue_Gprs--> UpGetStart,*)
(*                            (thread GPRS_Rec)                    UpGetEnd   *)
(*                                                       (TaskUpRecGprs)      *)
(*                                                                         *)
(* The module announces data that comes in with "^SISR: 1, 1"; the program  *)
(* then reads until an answer is empty.  While a file is transferred        *)
(* (gUpdateBegin) it reads without waiting for announcements.  The bytes    *)
(* read go into a byte queue; the other thread searches them for the head   *)
(* and for the tail of a document and writes what is between into a file.   *)
(*                                                                         *)
(* The thread that takes the bytes off the serial port, the AT queues and   *)
(* who may use them are in GprsLink: one AT^SISR with its answer is a step  *)
(* here.  Indices are the C ones, from 0.                                  *)
(***************************************************************************)
EXTENDS DataQueue, SequencesExt

CONSTANTS
    Nul,           \* the byte 0
    XMLHead,       \* "<?xml version"
    XMLEnd,        \* "</root>"
    Bodies,        \* what the documents sent have between the two, in order
    Garbage,       \* what len may hold before it is set
    Pieces,        \* how many bytes of them the network may bring at a time
    Broken,        \* after how many bytes an answer may break off
    MaxRec,        \* MAX_REC_MC52i_BYTENUM: bytes of one answer (1500)
    LongRead,      \* an answer longer than this starts reading on (400)
    IdleReads,     \* more empty answers than this in a row end it (5)
    RecSize,       \* sizeof(gGprsRec) (1024)
    MaxTroubles    \* bound of the model: failed reads and timeouts

ASSUME SizesFit ==
    /\ MaxRec \in Nat \ {0}
    /\ RecSize \in Nat \ {0, 1}
    /\ LongRead \in Nat
    /\ IdleReads \in Nat
    /\ Garbage \subseteq 0 .. MaxRec
    /\ MaxTroubles \in Nat

ASSUME BreaksFit == Broken \subseteq Nat

ASSUME TextsAreBytes ==
    /\ Nul \in Bytes
    /\ XMLHead \in Seq(Bytes) /\ Len(XMLHead) >= 2
    /\ XMLEnd \in Seq(Bytes) /\ Len(XMLEnd) >= 2
    /\ \A k \in 2 .. Len(XMLHead) : XMLHead[k] # XMLHead[1]
    /\ \A k \in 2 .. Len(XMLEnd) : XMLEnd[k] # XMLEnd[1]
    /\ \A k \in 1 .. Len(XMLHead) : XMLHead[k] # Nul
    /\ \A k \in 1 .. Len(XMLEnd) : XMLEnd[k] # Nul
    /\ Bodies \in Seq(Seq(Bytes))

\* s is found in t, beginning at some place.
Occurs(s, t) ==
    \E k \in 0 .. Len(t) - Len(s) : SubSeq(t, k + 1, k + Len(s)) = s

\* A document is text that has the end of XMLEnd at its own end only.
ASSUME BodiesArePlain ==
    \A k \in DOMAIN Bodies :
        /\ ~Occurs(<<Nul>>, Bodies[k])
        /\ ~Occurs(Tail(XMLEnd), Front(Bodies[k] \o XMLEnd))

\* It has a head at its beginning only.
HeadsArePlain ==
    \A k \in DOMAIN Bodies :
        ~Occurs(Tail(XMLHead), Bodies[k] \o XMLEnd \o Front(XMLHead))

VARIABLES
    wire,          \* bytes on their way to the module
    net,           \* bytes in the module's buffer
    sent,          \* ghost: the documents the server has sent
    urc,           \* announcements in USART3RecQueue_AtIPD
    rx,            \* where Fun_GprsIpd_xmz is
    gRecBuf, len,  \* the answer read and its length
    err,           \* the result of the last GprsGetIPDATA_jh
    Count,         \* empty answers in a row
    gUpdateBegin,
    wi,            \* the byte of gRecBuf UpRecQueueWrite is at
    sem,           \* QueueSems[UP_COMMU_DEV_GPRS]
    task,          \* what TaskUpRecGprs is looking for
    i,             \* how many bytes of it the matcher takes for found
    pend,          \* TaskUpRecGprs is in OSSemPend
    gGprsRec, j,   \* the part of the document not in the file yet
    file,          \* the file at gXML_Rcv_File.writepos
    received,      \* the files handed on to XML_main_proc
    seen,          \* ghost: what the matcher has been given since it began
    spoiled,       \* ghost: bytes of the server were lost or others put in
    faults, timeouts

moduleVars == <<wire, net, sent, urc>>
answerVars == <<gRecBuf, len, err, Count, gUpdateBegin, wi>>
matchVars == <<task, i, pend, gGprsRec, j, file, received, seen>>
ghostVars == <<spoiled, faults, timeouts>>
receptionVars == <<queueVars, moduleVars, rx, answerVars, sem, matchVars,
                   ghostVars>>

RecOffsets == 0 .. MaxRec - 1
FileOffsets == 0 .. RecSize - 1

\* strlen: the bytes before the first Nul.
Text(buffer) ==
    LET n == CHOOSE k \in 0 .. RecSize :
                /\ k = RecSize \/ buffer[k] = Nul
                /\ \A m \in 0 .. k - 1 : buffer[m] # Nul
    IN  [k \in 1 .. n |-> buffer[k - 1]]

Document(b) == XMLHead \o b \o XMLEnd

ReceptionTypeOK ==
    /\ QueueTypeOK
    /\ wire \in Seq(Bytes)
    /\ net \in Seq(Bytes)
    /\ sent \in Seq(Seq(Bytes))
    /\ urc \in Nat
    /\ rx \in {"top", "listen", "first", "second", "count", "write"}
    /\ gRecBuf \in [RecOffsets -> Bytes]
    /\ len \in 0 .. MaxRec
    /\ err \in BOOLEAN
    /\ Count \in 0 .. 255
    /\ gUpdateBegin \in BOOLEAN
    /\ wi \in 0 .. MaxRec
    /\ sem \in Nat
    /\ task \in {"start", "end", "hand"}
    /\ i \in Nat
    /\ pend \in BOOLEAN
    /\ gGprsRec \in [FileOffsets -> Bytes]
    /\ j \in 0 .. RecSize - 2
    /\ file \in Seq(Bytes)
    /\ received \in Seq(Seq(Bytes))
    /\ seen \in Seq(Bytes)
    /\ spoiled \in BOOLEAN
    /\ faults \in 0 .. MaxTroubles
    /\ timeouts \in 0 .. MaxTroubles

\* len is a local variable without an initial value.
ReceptionInit ==
    /\ QueueInit
    /\ DataTemp = Nul
    /\ wire = <<>> /\ net = <<>> /\ sent = <<>> /\ urc = 0
    /\ rx = "top"
    /\ gRecBuf = [k \in RecOffsets |-> Nul]
    /\ len \in Garbage
    /\ err = FALSE
    /\ Count = 0
    /\ gUpdateBegin = FALSE
    /\ wi = 0
    /\ sem = 0
    /\ task = "start" /\ i = 0 /\ pend = FALSE
    /\ gGprsRec = [k \in FileOffsets |-> Nul] /\ j = 0
    /\ file = <<>> /\ received = <<>> /\ seen = <<>>
    /\ spoiled = FALSE /\ faults = 0 /\ timeouts = 0

-----------------------------------------------------------------------------
(* Faulty variants of the definitions below, one plausible mistake each.  No *)
(* specification uses them: they are what the properties must tell from the  *)
(* code.                                                                     *)

\* announcements are flushed before listening for them too
BeginFlushingAlways ==
    /\ rx = "top"
    /\ rx' = IF gUpdateBegin THEN "first" ELSE "listen"
    /\ urc' = 0
    /\ err' = IF gUpdateBegin THEN FALSE ELSE err
    /\ UNCHANGED <<queueVars, wire, net, sent, gRecBuf, len, Count,
                   gUpdateBegin, wi, sem, matchVars, ghostVars>>

\* the reader is posted to only for answers that have bytes and end the round
PostAtEndOnly ==
    /\ rx = "write" /\ wi = len
    /\ sem' = IF len = 0 THEN sem + 1 ELSE sem
    /\ gRecBuf' = IF len > 0 THEN [k \in RecOffsets |-> Nul] ELSE gRecBuf
    /\ rx' = IF ~err /\ len > 0 THEN "first" ELSE "top"
    /\ wi' = 0
    /\ UNCHANGED <<queueVars, moduleVars, len, err, Count, gUpdateBegin,
                   matchVars, ghostVars>>

\* a mismatch begins again with the first byte of the pattern
NextIndexFromZero(p, b, at) == IF b = p[at + 1] THEN at + 1 ELSE 0

\* the file of a document begun anew is not truncated
HeadByteAppending ==
    LET b == Buf[Out]
        n == IF b = XMLHead[i + 1] THEN i + 1 ELSE 1
    IN  /\ task = "start" /\ ~pend
        /\ QueueRead
        /\ IF n = Len(XMLHead)
           THEN /\ task' = "end"
                /\ file' = file \o XMLHead
                /\ i' = 0
                /\ seen' = <<>>
           ELSE /\ UNCHANGED <<task, file>>
                /\ i' = n
                /\ seen' = Append(seen, b)
        /\ UNCHANGED <<moduleVars, rx, answerVars, sem, pend, gGprsRec, j,
                       received, ghostVars>>

\* an answer of full length is taken for the last one
PostAndStopWhenLong ==
    /\ rx = "write" /\ wi = len
    /\ sem' = sem + 1
    /\ gRecBuf' = IF len > 0 THEN [k \in RecOffsets |-> Nul] ELSE gRecBuf
    /\ rx' = IF ~err /\ len \in 1 .. MaxRec - 1 THEN "first" ELSE "top"
    /\ wi' = 0
    /\ UNCHANGED <<queueVars, moduleVars, len, err, Count, gUpdateBegin,
                   matchVars, ghostVars>>

-----------------------------------------------------------------------------
(* The server and the module *)

\* The server sends its next document (external).
Send ==
    /\ Len(sent) < Len(Bodies)
    /\ LET d == Document(Bodies[Len(sent) + 1])
       IN  /\ wire' = wire \o d
           /\ sent' = Append(sent, d)
    /\ UNCHANGED <<queueVars, net, urc, rx, answerVars, sem, matchVars,
                   ghostVars>>

\* n bytes come in (external).  The module announces them only when its buffer
\* had been read empty.
Deliver(n) ==
    /\ n \in 1 .. Len(wire)
    /\ net' = net \o SubSeq(wire, 1, n)
    /\ wire' = SubSeq(wire, n + 1, Len(wire))
    /\ urc' = IF net = <<>> THEN urc + 1 ELSE urc
    /\ UNCHANGED <<queueVars, sent, rx, answerVars, sem, matchVars, ghostVars>>

-----------------------------------------------------------------------------
(* Fun_GprsIpd_xmz *)

\* The head of the loop: a transfer reads on at once, and forgets the
\* announcements.
Begin ==
    /\ rx = "top"
    /\ IF gUpdateBegin
       THEN rx' = "first" /\ urc' = 0 /\ err' = FALSE
       ELSE rx' = "listen" /\ UNCHANGED <<urc, err>>
    /\ UNCHANGED <<queueVars, wire, net, sent, gRecBuf, len, Count,
                   gUpdateBegin, wi, sem, matchVars, ghostVars>>

\* GprsGetIPDATA_xmz finds an announcement.
Listen ==
    /\ rx = "listen"
    /\ urc > 0
    /\ urc' = urc - 1
    /\ err' = FALSE
    /\ rx' = "first"
    /\ UNCHANGED <<queueVars, wire, net, sent, gRecBuf, len, Count,
                   gUpdateBegin, wi, sem, matchVars, ghostVars>>

\* GprsGetHead gives up after 5000 bytes, perhaps in the middle of an
\* announcement.
GiveUpListening ==
    /\ rx = "listen"
    /\ faults + timeouts < MaxTroubles
    /\ faults' = faults + 1
    /\ urc' \in {urc, urc - 1} \cap Nat
    /\ err' = TRUE
    /\ rx' = "top"
    /\ UNCHANGED <<queueVars, wire, net, sent, gRecBuf, len, Count,
                   gUpdateBegin, wi, sem, matchVars, spoiled, timeouts>>

Answered == IF Len(net) < MaxRec THEN Len(net) ELSE MaxRec

\* The first k bytes of the module's buffer are stored in gRecBuf.
Stored(k) ==
    [p \in RecOffsets |-> IF p < k THEN net[p + 1] ELSE gRecBuf[p]]

\* GprsGetIPDATA_jh that returns 0.
ReadOk ==
    /\ rx \in {"first", "second"}
    /\ gRecBuf' = Stored(Answered)
    /\ len' = Answered
    /\ net' = SubSeq(net, Answered + 1, Len(net))
    /\ err' = FALSE
    /\ rx' = "count"
    /\ UNCHANGED <<queueVars, wire, sent, urc, Count, gUpdateBegin, wi, sem,
                   matchVars, ghostVars>>

\* GprsGetIPDATA_jh that returns an error: the module has not answered
\* (taken = 0) or its answer is lost after k bytes.  *StrLen is set only when
\* the length cannot be read; otherwise len stays what it was.  The second of
\* two attempts that fail does not count as another fault.
ReadFails(taken, k) ==
    /\ \/ rx = "first" /\ faults + timeouts < MaxTroubles /\ faults' = faults + 1
       \/ rx = "second" /\ err /\ faults' = faults
    /\ k <= taken /\ (taken > 0 => k < taken)
    /\ gRecBuf' = Stored(k)
    /\ len' \in IF k = 0 THEN {0, len} ELSE {len}
    /\ net' = SubSeq(net, taken + 1, Len(net))
    /\ spoiled' = (spoiled \/ taken > 0)
    /\ err' = TRUE
    /\ rx' = IF rx = "first" THEN "second" ELSE "count"
    /\ UNCHANGED <<queueVars, wire, sent, urc, Count, gUpdateBegin, wi, sem,
                   matchVars, timeouts>>

\* Whether to read on without announcements.  A long answer begins it, a row
\* of empty answers ends it.
CountAnswer ==
    LET empty == IF len = 0 THEN (Count + 1) % 256 ELSE 0
    IN  /\ rx = "count"
        /\ Count' = empty
        /\ gUpdateBegin' = IF empty > IdleReads THEN FALSE
                           ELSE gUpdateBegin \/ len > LongRead
        /\ spoiled' = (spoiled \/ (err /\ len > 0))
        /\ rx' = "write"
        /\ wi' = 0
        /\ UNCHANGED <<queueVars, moduleVars, gRecBuf, len, err, sem,
                       matchVars, faults, timeouts>>

\* One byte of UpRecQueueWrite, which does not look at QUEUE_FULL.
WriteByte ==
    /\ rx = "write" /\ wi < len
    /\ \/ QueueWrite(gRecBuf[wi]) /\ UNCHANGED spoiled
       \/ NData = MaxData /\ spoiled' = TRUE /\ UNCHANGED queueVars
    /\ wi' = wi + 1
    /\ UNCHANGED <<moduleVars, rx, gRecBuf, len, err, Count, gUpdateBegin, sem,
                   matchVars, faults, timeouts>>

\* UpRecQueueWrite posts, also when there was nothing to write; the buffer is
\* cleared and the module asked again unless it had no more.
PostAndClear ==
    /\ rx = "write" /\ wi = len
    /\ sem' = sem + 1
    /\ gRecBuf' = IF len > 0 THEN [k \in RecOffsets |-> Nul] ELSE gRecBuf
    /\ rx' = IF ~err /\ len > 0 THEN "first" ELSE "top"
    /\ wi' = 0
    /\ UNCHANGED <<queueVars, moduleVars, len, err, Count, gUpdateBegin,
                   matchVars, ghostVars>>

\* The server asks which packets are missing (CommandDeal.c).
PackLostQuery ==
    /\ gUpdateBegin
    /\ gUpdateBegin' = FALSE
    /\ UNCHANGED <<queueVars, moduleVars, rx, gRecBuf, len, err, Count, wi,
                   sem, matchVars, ghostVars>>

-----------------------------------------------------------------------------
(* TaskUpRecGprs *)

Pattern == IF task = "start" THEN XMLHead ELSE XMLEnd

\* The loop variable of UpGetStart and UpGetEnd after byte b.  A mismatch sets
\* it to 0 and continues: the loop's own increment makes it 1.
NextIndex(p, b, at) == IF b = p[at + 1] THEN at + 1 ELSE 1

\* fwrite(gGprsRec, 1, strlen(gGprsRec)) with byte b at offset j.
BufferWith(b) == [gGprsRec EXCEPT ![j] = b]

\* UpGetStart takes a byte; at the end of the head it begins the file.
HeadByte ==
    LET b == Buf[Out]
        n == NextIndex(XMLHead, b, i)
    IN  /\ task = "start" /\ ~pend
        /\ QueueRead
        /\ IF n = Len(XMLHead)
           THEN /\ task' = "end"
                /\ file' = XMLHead
                /\ i' = 0
                /\ seen' = <<>>
           ELSE /\ UNCHANGED <<task, file>>
                /\ i' = n
                /\ seen' = Append(seen, b)
        /\ UNCHANGED <<moduleVars, rx, answerVars, sem, pend, gGprsRec, j,
                       received, ghostVars>>

\* UpGetEnd takes a byte; a full buffer goes to the file, and at the end of the
\* tail so does the rest.
TailByte ==
    LET b == Buf[Out]
        n == NextIndex(XMLEnd, b, i)
        whole == n = Len(XMLEnd)
        full == j + 1 = RecSize - 1
    IN  /\ task = "end" /\ ~pend
        /\ QueueRead
        /\ seen' = Append(seen, b)
        /\ i' = n
        /\ task' = IF whole THEN "hand" ELSE "end"
        /\ IF full \/ whole
           THEN /\ file' = file \o Text(BufferWith(b))
                /\ gGprsRec' = [k \in FileOffsets |-> Nul]
                /\ j' = 0
           ELSE /\ gGprsRec' = BufferWith(b)
                /\ j' = j + 1
                /\ UNCHANGED file
        /\ UNCHANGED <<moduleVars, rx, answerVars, sem, pend, received,
                       ghostVars>>

\* Both find the queue empty and wait.
WaitByte ==
    /\ task \in {"start", "end"} /\ ~pend
    /\ NData = 0
    /\ pend' = TRUE
    /\ UNCHANGED <<queueVars, moduleVars, rx, answerVars, sem, task, i,
                   gGprsRec, j, file, received, seen, ghostVars>>

PendOk ==
    /\ pend
    /\ sem > 0
    /\ sem' = sem - 1
    /\ pend' = FALSE
    /\ UNCHANGED <<queueVars, moduleVars, rx, answerVars, task, i, gGprsRec, j,
                   file, received, seen, ghostVars>>

\* 20 s without a post end UpGetEnd (UpGetStart waits without a limit).  The
\* loop begins again with a head; gGprsRec stays as it is.
PendTimeout ==
    /\ pend /\ task = "end"
    /\ sem = 0
    /\ faults + timeouts < MaxTroubles
    /\ timeouts' = timeouts + 1
    /\ pend' = FALSE
    /\ task' = "start" /\ i' = 0 /\ j' = 0
    /\ seen' = <<>>
    /\ UNCHANGED <<queueVars, moduleVars, rx, answerVars, sem, gGprsRec, file,
                   received, spoiled, faults>>

\* The file goes to XML_main_proc through the ring of XmlFileRing.
HandOver ==
    /\ task = "hand"
    /\ received' = Append(received, file)
    /\ file' = <<>>
    /\ task' = "start" /\ i' = 0
    /\ seen' = <<>>
    /\ UNCHANGED <<queueVars, moduleVars, rx, answerVars, sem, pend, gGprsRec,
                   j, ghostVars>>

-----------------------------------------------------------------------------

Module == \E n \in Pieces : Deliver(IF n < Len(wire) THEN n ELSE Len(wire))

Receiver ==
    \/ Begin \/ Listen \/ ReadOk \/ CountAnswer \/ WriteByte \/ PostAndClear

Fails ==
    \/ GiveUpListening
    \/ \E taken \in {0, Answered} : \E k \in Broken \cup {0} : ReadFails(taken, k)

Reader == HeadByte \/ TailByte \/ WaitByte \/ PendOk \/ HandOver

ReceptionNext ==
    \/ Send
    \/ Module
    \/ Receiver
    \/ Fails
    \/ PackLostQuery
    \/ Reader
    \/ PendTimeout

ReceptionSpec == ReceptionInit /\ [][ReceptionNext]_receptionVars

\* The network brings what was sent, and no thread is kept from running.
ReceptionFairSpec ==
    /\ ReceptionSpec
    /\ WF_receptionVars(Module)
    /\ WF_receptionVars(Receiver)
    /\ WF_receptionVars(Reader)

-----------------------------------------------------------------------------
(* Properties *)

\* The reader that waits is woken for every byte: while there are bytes in the
\* queue it has a post coming or taken for granted, although posts are counted
\* by answers and waits by bytes.
ReaderWoken == pend /\ NData > 0 => sem > 0 \/ rx = "write"

\* Both matchers go on with index 1 after a mismatch, as if the first byte had
\* been seen.  Still they stop at the first place where the pattern ends, never
\* behind it; all they may do is take the pattern without its first byte.
MatchersExact ==
    /\ task = "start" => ~Occurs(XMLHead, seen)
    /\ task = "end" => ~Occurs(XMLEnd, seen)
    /\ task = "hand" => /\ IsSuffix(Tail(XMLEnd), seen)
                        /\ ~Occurs(XMLEnd, Front(seen))

\* Cut into answers, bytes, and buffers of RecSize, the documents arrive whole
\* and in order.  After a timeout, which leaves part of the abandoned document
\* in gGprsRec, what is handed on still begins with a whole document.
DocumentsIntact ==
    ~spoiled =>
        /\ timeouts = 0 => IsPrefix(received, sent)
        /\ \A k \in DOMAIN received : \E m \in DOMAIN sent :
              IsPrefix(sent[m], received[k])

\* Nobody listens in vain: when the receiver waits for an announcement while
\* the module holds bytes, the announcement is there, unless the last attempt
\* to read or to listen ended in an error.  Flushing the announcements of a
\* transfer (gUpdateBegin) does not lose one that is still needed.
DeafOnlyAfterError ==
    net # <<>> /\ urc = 0 /\ rx = "listen" => err

\* Every document sent is handed on, if no read failed, no byte was refused by
\* the full queue and the wait for the rest of a document did not time out.
EveryDocumentHanded ==
    \A k \in DOMAIN Bodies :
        Len(sent) >= k ~>
            Len(received) >= k \/ spoiled \/ faults > 0 \/ timeouts > 0
=============================================================================
