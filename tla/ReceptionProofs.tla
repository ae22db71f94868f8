-------------------------- MODULE ReceptionProofs --------------------------
(***************************************************************************)
(* What holds of the reception of documents for every document, size of     *)
(* answer, of buffer and of queue.                                         *)
(***************************************************************************)
EXTENDS DocumentReception, DataQueueProofs, SequenceTheorems,
        WellFoundedInduction, TLAPS

USE DEF queueVars, moduleVars, answerVars, matchVars, ghostVars,
        receptionVars, RecOffsets, FileOffsets, Offsets

\* A piece of a sequence of bytes, also an empty one.
LEMMA PieceOfSeq ==
    ASSUME NEW S, NEW s \in Seq(S), NEW m \in Nat \ {0}, NEW n \in 0 .. Len(s)
    PROVE  SubSeq(s, m, n) \in Seq(S)
<1>1. \A k \in m .. n : s[k] \in S
  BY LenProperties, ElementOfSeq, SMT
<1>2. m \in Int /\ n \in Int
  BY LenProperties, SMT
<1> QED
  BY <1>1, <1>2, SubSeqProperties

\* strlen finds an end: a Nul or the end of the buffer.
LEMMA EndOfText ==
    ASSUME NEW buffer \in [FileOffsets -> Bytes]
    PROVE  \E k \in 0 .. RecSize :
              /\ k = RecSize \/ buffer[k] = Nul
              /\ \A m \in 0 .. k - 1 : buffer[m] # Nul
<1> DEFINE Nuls == {k \in FileOffsets : buffer[k] = Nul}
<1>1. CASE Nuls = {}
  BY <1>1, SizesFit, SMT
<1>2. CASE Nuls # {}
  <2>1. Nuls \subseteq Nat
    BY SizesFit, SMT
  <2> DEFINE Less == OpToRel(<, Nat)
  <2>2. \A m, n \in Nat : m < n => <<m, n>> \in Less
    BY DEF OpToRel
  <2>3. IsWellFoundedOn(Less, Nat)
    BY NatLessThanWellFounded
  <2> HIDE DEF Less
  <2>4. PICK k \in Nuls : \A m \in Nuls : ~(<<m, k>> \in Less)
    BY <1>2, <2>1, <2>3, WFMin
  <2>5. ASSUME NEW m \in Nuls
        PROVE  k <= m
    <3>1. m \in Nat /\ k \in Nat
      BY <2>1
    <3>2. ~(m < k)
      BY <2>2, <2>4, <3>1, Zenon
    <3> QED
      BY <3>1, <3>2, SMT
  <2> QED
    BY <2>1, <2>5, SizesFit, SMT
<1> QED
  BY <1>1, <1>2

\* What it counts is a sequence of bytes.
LEMMA TextIsSeq ==
    ASSUME NEW buffer \in [FileOffsets -> Bytes]
    PROVE  Text(buffer) \in Seq(Bytes)
<1> DEFINE End(k) == /\ k = RecSize \/ buffer[k] = Nul
                     /\ \A m \in 0 .. k - 1 : buffer[m] # Nul
           n == CHOOSE k \in 0 .. RecSize : End(k)
<1>1. n \in 0 .. RecSize
  <2>1. \E k \in 0 .. RecSize : End(k)
    BY EndOfText
  <2> QED
    BY <2>1
<1>2. Text(buffer) = [k \in 1 .. n |-> buffer[k - 1]]
  BY DEF Text
<1> HIDE DEF n
<1>3. \A k \in 1 .. n : buffer[k - 1] \in Bytes
  BY <1>1, SizesFit, SMT
<1> QED
  BY <1>1, <1>2, <1>3, SizesFit, SMT

-----------------------------------------------------------------------------
(* Types *)

\* What a step of the reception does to the byte queue is an operation of it.
LEMMA StepOfQueue ==
    ASSUME ReceptionTypeOK, [ReceptionNext]_receptionVars
    PROVE  [QueueNext]_queueVars
<1> USE DEF ReceptionTypeOK
<1>1. CASE Send
  BY <1>1 DEF Send
<1>2. CASE Module
  BY <1>2 DEF Module, Deliver
<1>3. CASE Receiver
  <2>1. ASSUME WriteByte
        PROVE  [QueueNext]_queueVars
    <3>1. CASE QueueWrite(gRecBuf[wi])
      <4>1. gRecBuf[wi] \in Bytes
        BY <2>1, SizesFit, SMT DEF WriteByte
      <4> QED
        BY <3>1, <4>1 DEF QueueNext
    <3> QED
      BY <2>1, <3>1 DEF WriteByte
  <2> QED
    BY <1>3, <2>1
       DEF Receiver, Begin, Listen, ReadOk, CountAnswer, PostAndClear
<1>4. CASE Fails
  BY <1>4 DEF Fails, GiveUpListening, ReadFails
<1>5. CASE PackLostQuery
  BY <1>5 DEF PackLostQuery
<1>6. CASE Reader
  BY <1>6 DEF Reader, HeadByte, TailByte, WaitByte, PendOk, HandOver, QueueNext
<1>7. CASE PendTimeout
  BY <1>7 DEF PendTimeout
<1>8. CASE UNCHANGED receptionVars
  BY <1>8
<1> QED
  BY <1>1, <1>2, <1>3, <1>4, <1>5, <1>6, <1>7, <1>8 DEF ReceptionNext

\* Bytes are sent and delivered as bytes.
LEMMA ServerTypes ==
    ASSUME ReceptionTypeOK, Send \/ Module, QueueTypeOK'
    PROVE  ReceptionTypeOK'
<1> USE DEF ReceptionTypeOK
<1>1. CASE Send
  <2>1. Len(sent) \in Nat /\ Len(sent) + 1 \in DOMAIN Bodies
    <3>1. PICK n \in Nat : n = Len(sent)
      BY LenProperties
    <3>2. PICK l \in Nat : l = Len(Bodies) /\ DOMAIN Bodies = 1 .. l
      BY TextsAreBytes, LenProperties
    <3>3. n < l
      BY <1>1, <3>1, <3>2 DEF Send
    <3> QED
      BY <3>1, <3>2, <3>3
  <2>2. Bodies[Len(sent) + 1] \in Seq(Bytes)
    <3>1. Bodies \in Seq(Seq(Bytes))
      BY TextsAreBytes
    <3>2. \A k \in DOMAIN Bodies : Bodies[k] \in Seq(Bytes)
      BY <3>1, LenProperties, ElementOfSeq
    <3> QED
      BY <2>1, <3>2
  <2> DEFINE d == Document(Bodies[Len(sent) + 1])
  <2>3. d \in Seq(Bytes)
    BY <2>2, TextsAreBytes, ConcatProperties DEF Document
  <2>4. wire' = wire \o d /\ sent' = Append(sent, d)
    BY <1>1 DEF Send
  <2> HIDE DEF d
  <2>5. wire' \in Seq(Bytes) /\ sent' \in Seq(Seq(Bytes))
    BY <2>3, <2>4, ConcatProperties, AppendProperties
  <2> QED
    BY <1>1, <2>5 DEF Send
<1>2. ASSUME NEW n, Deliver(n)
      PROVE  ReceptionTypeOK'
  <2>1. n \in 1 .. Len(wire) /\ Len(wire) \in Nat
    BY <1>2, LenProperties DEF Deliver
  <2>2. SubSeq(wire, 1, n) \in Seq(Bytes)
    BY <2>1, PieceOfSeq, SMT
  <2>3. SubSeq(wire, n + 1, Len(wire)) \in Seq(Bytes)
    BY <2>1, PieceOfSeq, SMT
  <2>4. net' \in Seq(Bytes) /\ wire' \in Seq(Bytes)
    BY <1>2, <2>2, <2>3, ConcatProperties DEF Deliver
  <2>5. urc' \in Nat
    BY <1>2, SMT DEF Deliver
  <2> QED
    BY <1>2, <2>4, <2>5 DEF Deliver
<1> QED
  BY <1>1, <1>2 DEF Module

\* An answer has at most MaxRec bytes and leaves the rest with the module.
LEMMA AnswerTypes ==
    ASSUME ReceptionTypeOK
    PROVE  /\ Answered \in 0 .. MaxRec /\ Answered <= Len(net)
           /\ \A k \in 0 .. Answered :
                  /\ Stored(k) \in [RecOffsets -> Bytes]
                  /\ SubSeq(net, k + 1, Len(net)) \in Seq(Bytes)
<1> USE DEF ReceptionTypeOK
<1>1. Len(net) \in Nat
  BY LenProperties
<1>2. Answered \in 0 .. MaxRec /\ Answered <= Len(net)
  BY <1>1, SizesFit, SMT DEF Answered
<1>3. ASSUME NEW k \in 0 .. Answered
      PROVE  /\ Stored(k) \in [RecOffsets -> Bytes]
             /\ SubSeq(net, k + 1, Len(net)) \in Seq(Bytes)
  <2>1. k \in Nat /\ k <= Len(net)
    BY <1>1, <1>2, <1>3, SMT
  <2>2. \A q \in 0 .. MaxRec - 1 : q < k => net[q + 1] \in Bytes
    BY <1>1, <2>1, SizesFit, SMT
  <2>3. Stored(k) \in [RecOffsets -> Bytes]
    BY <2>2 DEF Stored
  <2>4. SubSeq(net, k + 1, Len(net)) \in Seq(Bytes)
    <3>1. Len(net) \in 0 .. Len(net) /\ k + 1 \in Nat \ {0}
      BY <1>1, <2>1, SMT
    <3> QED
      BY <3>1, PieceOfSeq
  <2> QED
    BY <2>3, <2>4
<1> QED
  BY <1>2, <1>3

\* Fun_GprsIpd_xmz keeps the length of the answer and the place it writes from
\* within gRecBuf, also when a read fails.
LEMMA ReceiverTypes ==
    ASSUME ReceptionTypeOK, Receiver \/ Fails \/ PackLostQuery, QueueTypeOK'
    PROVE  ReceptionTypeOK'
<1> USE SizesFit DEF ReceptionTypeOK
<1>1. CASE Begin
  <2>1. urc' \in Nat /\ err' \in BOOLEAN
    <3>1. urc' \in {urc, 0}
      BY <1>1, Zenon DEF Begin
    <3>2. err' \in BOOLEAN
      BY <1>1, Zenon DEF Begin
    <3> QED
      BY <3>1, <3>2, SMT
  <2>2. rx' \in {"first", "listen"}
    BY <1>1 DEF Begin
  <2> QED
    BY <1>1, <2>1, <2>2 DEF Begin
<1>2. CASE Listen
  <2>1. urc' \in Nat
    BY <1>2, SMT DEF Listen
  <2> QED
    BY <1>2, <2>1 DEF Listen
<1>3. CASE ReadOk
  <2>1. Answered \in 0 .. Answered
    BY AnswerTypes, SMT
  <2>2. /\ gRecBuf' \in [RecOffsets -> Bytes] /\ len' \in 0 .. MaxRec
        /\ net' \in Seq(Bytes)
    BY <1>3, <2>1, AnswerTypes DEF ReadOk
  <2> QED
    BY <1>3, <2>2 DEF ReadOk
<1>4. CASE CountAnswer
  <2>1. Count' \in 0 .. 255 /\ wi' \in 0 .. MaxRec
    BY <1>4, SMT DEF CountAnswer
  <2>2. gUpdateBegin' \in BOOLEAN /\ spoiled' \in BOOLEAN
    BY <1>4, Zenon DEF CountAnswer
  <2> QED
    BY <1>4, <2>1, <2>2 DEF CountAnswer
<1>5. CASE WriteByte
  <2>1. wi' \in 0 .. MaxRec
    BY <1>5, SMT DEF WriteByte
  <2>2. spoiled' \in BOOLEAN
    BY <1>5 DEF WriteByte
  <2>3. UNCHANGED <<moduleVars, rx, gRecBuf, len, err, Count, gUpdateBegin, sem,
                    matchVars, faults, timeouts>>
    BY <1>5 DEF WriteByte
  <2> QED
    BY <2>1, <2>2, <2>3
<1>6. CASE PostAndClear
  <2>1. sem' \in Nat /\ wi' \in 0 .. MaxRec
    BY <1>6, SMT DEF PostAndClear
  <2>2. gRecBuf' \in [RecOffsets -> Bytes]
    <3>1. Nul \in Bytes
      BY TextsAreBytes
    <3> QED
      BY <1>6, <3>1 DEF PostAndClear
  <2> QED
    BY <1>6, <2>1, <2>2 DEF PostAndClear
<1>7. CASE GiveUpListening
  <2>1. faults' \in 0 .. MaxTroubles /\ urc' \in Nat
    BY <1>7, SMT DEF GiveUpListening
  <2> QED
    BY <1>7, <2>1 DEF GiveUpListening
<1>8. ASSUME NEW taken \in {0, Answered}, NEW k \in Broken \cup {0},
             ReadFails(taken, k)
      PROVE  ReceptionTypeOK'
  <2>1. taken \in 0 .. Answered
    BY AnswerTypes, SMT
  <2>2. k \in 0 .. Answered
    BY <1>8, <2>1, AnswerTypes, BreaksFit, SMT DEF ReadFails
  <2>3. gRecBuf' \in [RecOffsets -> Bytes] /\ net' \in Seq(Bytes)
    BY <1>8, <2>1, <2>2, AnswerTypes DEF ReadFails
  <2>4. len' \in 0 .. MaxRec
    <3>1. len' \in {0, len}
      BY <1>8, Zenon DEF ReadFails
    <3>2. len \in 0 .. MaxRec /\ 0 \in 0 .. MaxRec
      BY SizesFit
    <3> HIDE DEF ReceptionTypeOK
    <3> QED
      BY <3>1, <3>2
  <2>6. faults' \in 0 .. MaxTroubles
    <3>1. faults' = faults \/ (faults + timeouts < MaxTroubles /\ faults' = faults + 1)
      BY <1>8, Zenon DEF ReadFails
    <3>2. /\ faults \in 0 .. MaxTroubles /\ timeouts \in 0 .. MaxTroubles
          /\ MaxTroubles \in Nat
      BY SizesFit
    <3> HIDE DEF ReceptionTypeOK
    <3> QED
      BY <3>1, <3>2
  <2>5. spoiled' \in BOOLEAN
    BY <1>8, Zenon DEF ReadFails
  <2> QED
    BY <1>8, <2>3, <2>4, <2>5, <2>6 DEF ReadFails
<1>9. CASE PackLostQuery
  BY <1>9 DEF PackLostQuery
<1> QED
  BY <1>1, <1>2, <1>3, <1>4, <1>5, <1>6, <1>7, <1>8, <1>9 DEF Receiver, Fails

\* The matchers keep the place they write to within gGprsRec.
LEMMA ReaderTypes ==
    ASSUME ReceptionTypeOK, Reader \/ PendTimeout, QueueTypeOK'
    PROVE  ReceptionTypeOK'
<1> USE SizesFit DEF ReceptionTypeOK
<1>1. QueueRead => Buf[Out] \in Bytes
  BY DEF QueueTypeOK
<1>2. \A p \in Seq(Bytes), b \in Bytes : NextIndex(p, b, i) \in Nat
  BY SMT DEF NextIndex
<1>3. CASE HeadByte
  <2>1. Buf[Out] \in Bytes
    BY <1>1, <1>3 DEF HeadByte
  <2>2. Append(seen, Buf[Out]) \in Seq(Bytes) /\ <<>> \in Seq(Bytes)
    BY <2>1, AppendProperties, EmptySeq
  <2>3. NextIndex(XMLHead, Buf[Out], i) \in Nat
    BY <1>2, <2>1, TextsAreBytes
  <2>4. seen' \in Seq(Bytes) /\ i' \in Nat /\ file' \in Seq(Bytes)
    <3>1. CASE NextIndex(XMLHead, Buf[Out], i) = Len(XMLHead)
      BY <1>3, <2>2, <3>1, TextsAreBytes DEF HeadByte
    <3>2. CASE NextIndex(XMLHead, Buf[Out], i) # Len(XMLHead)
      BY <1>3, <2>2, <2>3, <3>2 DEF HeadByte
    <3> QED
      BY <3>1, <3>2
  <2> QED
    BY <1>3, <2>4 DEF HeadByte
<1>4. CASE TailByte
  <2>1. Buf[Out] \in Bytes
    BY <1>1, <1>4 DEF TailByte
  <2>2. seen' \in Seq(Bytes)
    BY <1>4, <2>1, AppendProperties DEF TailByte
  <2>3. i' \in Nat
    BY <1>2, <1>4, <2>1, TextsAreBytes DEF TailByte
  <2>4. BufferWith(Buf[Out]) \in [FileOffsets -> Bytes]
    BY <2>1 DEF BufferWith
  <2>5. file \o Text(BufferWith(Buf[Out])) \in Seq(Bytes)
    BY <2>4, TextIsSeq, ConcatProperties
  <2>6. file' \in Seq(Bytes)
    BY <1>4, <2>5 DEF TailByte
  <2>7. gGprsRec' \in [FileOffsets -> Bytes]
    <3>1. Nul \in Bytes
      BY TextsAreBytes
    <3> QED
      BY <1>4, <2>4, <3>1 DEF TailByte
  <2>8. j' \in 0 .. RecSize - 2
    <3>1. j' = 0 \/ (j' = j + 1 /\ j + 1 # RecSize - 1)
      <4>1. CASE \/ j + 1 = RecSize - 1
                 \/ NextIndex(XMLEnd, Buf[Out], i) = Len(XMLEnd)
        BY <1>4, <4>1, Zenon DEF TailByte
      <4>2. CASE ~(\/ j + 1 = RecSize - 1
                   \/ NextIndex(XMLEnd, Buf[Out], i) = Len(XMLEnd))
        BY <1>4, <4>2, Zenon DEF TailByte
      <4> QED
        BY <4>1, <4>2
    <3>2. PICK o \in 0 .. RecSize - 2 : o = j
      OBVIOUS
    <3>3. RecSize \in Nat /\ RecSize >= 2
      BY SizesFit
    <3> HIDE DEF ReceptionTypeOK
    <3>4. j' = 0 \/ (j' = o + 1 /\ o + 1 # RecSize - 1)
      BY <3>1, <3>2, Zenon
    <3>5. 0 \in 0 .. RecSize - 2 /\ (o + 1 # RecSize - 1 => o + 1 \in 0 .. RecSize - 2)
      BY <3>3
    <3> QED
      BY <3>4, <3>5, Zenon
  <2> QED
    BY <1>4, <2>2, <2>3, <2>6, <2>7, <2>8 DEF TailByte
<1>5. CASE WaitByte
  BY <1>5 DEF WaitByte
<1>6. CASE PendOk
  <2>1. sem' \in Nat
    BY <1>6, SMT DEF PendOk
  <2> QED
    BY <1>6, <2>1 DEF PendOk
<1>7. CASE HandOver
  BY <1>7, AppendProperties, EmptySeq DEF HandOver
<1>8. CASE PendTimeout
  <2>1. /\ i' \in Nat /\ j' \in 0 .. RecSize - 2
        /\ timeouts' \in 0 .. MaxTroubles
    BY <1>8, SMT DEF PendTimeout
  <2> QED
    BY <1>8, <2>1, EmptySeq DEF PendTimeout
<1> QED
  BY <1>3, <1>4, <1>5, <1>6, <1>7, <1>8 DEF Reader

\* For every size of answers, buffer and queue: lengths and places stay within
\* the arrays they are used on (gRecBuf in gprs_mana.c, gGprsRec in commap.c).
THEOREM ReceptionTypeCorrect == ReceptionSpec => []ReceptionTypeOK
<1>1. ReceptionInit => ReceptionTypeOK
  <2> SUFFICES ASSUME ReceptionInit
               PROVE  ReceptionTypeOK
    OBVIOUS
  <2>1. QueueTypeOK
    BY RoomForBytes, SMT DEF ReceptionInit, QueueInit, QueueTypeOK
  <2>2. /\ len \in 0 .. MaxRec /\ j \in 0 .. RecSize - 2 /\ wi \in 0 .. MaxRec
        /\ faults \in 0 .. MaxTroubles /\ timeouts \in 0 .. MaxTroubles
        /\ Count \in 0 .. 255 /\ urc \in Nat /\ sem \in Nat /\ i \in Nat
    BY SizesFit, SMT DEF ReceptionInit
  <2> QED
    BY <2>1, <2>2, TextsAreBytes, EmptySeq DEF ReceptionInit, ReceptionTypeOK
<1>2. ReceptionTypeOK /\ [ReceptionNext]_receptionVars => ReceptionTypeOK'
  <2> SUFFICES ASSUME ReceptionTypeOK, [ReceptionNext]_receptionVars
               PROVE  ReceptionTypeOK'
    OBVIOUS
  <2>1. QueueTypeOK'
    BY StepOfQueue, QueueTypeStep DEF ReceptionTypeOK
  <2>2. CASE UNCHANGED receptionVars
    BY <2>2 DEF ReceptionTypeOK, QueueTypeOK
  <2> QED
    BY <2>1, <2>2, ServerTypes, ReceiverTypes, ReaderTypes DEF ReceptionNext
<1> QED
  BY <1>1, <1>2, PTL DEF ReceptionSpec

\* Whatever the receiver and the reader of documents do, the queue between them
\* is a first-in first-out channel that refuses bytes only when it is full.
THEOREM ReceptionQueueIsFifo == ReceptionSpec => QueueIsFifo
<1>1. ReceptionInit => QueueInit
  BY DEF ReceptionInit
<1> QED
  BY <1>1, StepOfQueue, ReceptionTypeCorrect, QueueImplementsFifo, PTL
     DEF ReceptionSpec, QueueSpec

-----------------------------------------------------------------------------
(* The two sides do not wait for each other in vain *)

\* The thread that writes bytes posts after the last one, whatever posts were
\* taken in between.
LEMMA ReaderWokenStep ==
    ASSUME ReceptionTypeOK, ReaderWoken, [ReceptionNext]_receptionVars
    PROVE  ReaderWoken'
<1> USE DEF ReceptionTypeOK, QueueTypeOK, ReaderWoken
<1>1. CASE Send
  BY <1>1 DEF Send
<1>2. CASE Module
  BY <1>2 DEF Module, Deliver
<1>3. CASE Begin
  BY <1>3 DEF Begin
<1>4. CASE Listen
  BY <1>4 DEF Listen
<1>5. CASE ReadOk
  BY <1>5 DEF ReadOk
<1>6. CASE CountAnswer
  BY <1>6 DEF CountAnswer
<1>7. CASE WriteByte
  BY <1>7 DEF WriteByte
<1>8. CASE PostAndClear
  <2>1. sem' > 0
    BY <1>8, SMT DEF PostAndClear
  <2> QED
    BY <2>1
<1>9. CASE Fails
  BY <1>9 DEF Fails, GiveUpListening, ReadFails
<1>10. CASE PackLostQuery
  BY <1>10 DEF PackLostQuery
<1>11. CASE HeadByte \/ TailByte
  BY <1>11 DEF HeadByte, TailByte
<1>12. CASE WaitByte
  BY <1>12, SMT DEF WaitByte
<1>13. CASE PendOk \/ PendTimeout
  BY <1>13 DEF PendOk, PendTimeout
<1>14. CASE HandOver
  BY <1>14 DEF HandOver
<1>15. CASE UNCHANGED receptionVars
  BY <1>15
<1> QED
  BY <1>1, <1>2, <1>3, <1>4, <1>5, <1>6, <1>7, <1>8, <1>9, <1>10, <1>11, <1>12,
     <1>13, <1>14, <1>15 DEF ReceptionNext, Receiver, Reader

\* TaskUpRecGprs does not sleep beside bytes: UpRecQueueWrite posts once for
\* many bytes, UpGetStart and UpGetEnd wait once for many bytes (commap.c).
THEOREM ReaderIsWoken == ReceptionSpec => []ReaderWoken
<1>1. ReceptionInit => ReaderWoken
  BY DEF ReceptionInit, ReaderWoken
<1> QED
  BY <1>1, ReaderWokenStep, ReceptionTypeCorrect, PTL DEF ReceptionSpec

\* The receiver is about to listen, if nothing changes its mind.
Listens == rx \in {"top", "listen"} \/ (rx \in {"count", "write"} /\ len = 0)

\* Bytes that came in since the module's buffer was read empty have been
\* announced.
AnnouncedInv == ~err /\ Listens /\ net # <<>> => urc > 0

LEMMA AnnouncedStep ==
    ASSUME ReceptionTypeOK, AnnouncedInv, [ReceptionNext]_receptionVars
    PROVE  AnnouncedInv'
<1> USE DEF ReceptionTypeOK, AnnouncedInv, Listens
<1>1. CASE Send
  BY <1>1 DEF Send
<1>2. ASSUME NEW n, Deliver(n)
      PROVE  AnnouncedInv'
  <2>1. CASE net = <<>>
    <3>1. urc' > 0
      BY <1>2, <2>1, SMT DEF Deliver
    <3> QED
      BY <3>1
  <2>2. CASE net # <<>>
    BY <1>2, <2>2 DEF Deliver
  <2> QED
    BY <2>1, <2>2
<1>3. CASE Begin
  BY <1>3, Zenon DEF Begin
<1>4. CASE Listen
  BY <1>4 DEF Listen
<1>5. CASE ReadOk
  <2>1. len' = 0 => net' = <<>>
    <3> SUFFICES ASSUME len' = 0
                 PROVE  net' = <<>>
      OBVIOUS
    <3>1. Answered = 0
      BY <1>5 DEF ReadOk
    <3>2. Len(net) = 0
      BY <3>1, LenProperties, SizesFit, SMT DEF Answered
    <3>3. net = <<>>
      BY <3>2, EmptySeq
    <3>4. net' = SubSeq(<<>>, 1, 0)
      BY <1>5, <3>1, <3>2, <3>3 DEF ReadOk
    <3> QED
      BY <3>4, SMT
  <2> QED
    BY <1>5, <2>1 DEF ReadOk
<1>6. CASE CountAnswer
  BY <1>6 DEF CountAnswer
<1>7. CASE WriteByte
  BY <1>7 DEF WriteByte
<1>8. CASE PostAndClear
  <2>1. ~err /\ Listens' => len = 0
    BY <1>8, SMT DEF PostAndClear
  <2> QED
    BY <1>8, <2>1 DEF PostAndClear
<1>9. CASE Fails
  BY <1>9 DEF Fails, GiveUpListening, ReadFails
<1>10. CASE PackLostQuery
  BY <1>10 DEF PackLostQuery
<1>11. CASE Reader
  BY <1>11 DEF Reader, HeadByte, TailByte, WaitByte, PendOk, HandOver
<1>12. CASE PendTimeout
  BY <1>12 DEF PendTimeout
<1>13. CASE UNCHANGED receptionVars
  BY <1>13
<1> QED
  BY <1>1, <1>2, <1>3, <1>4, <1>5, <1>6, <1>7, <1>8, <1>9, <1>10, <1>11, <1>12,
     <1>13 DEF ReceptionNext, Receiver, Module

\* Fun_GprsIpd_xmz waits for an announcement in vain only after an error: the
\* flush at the head of a round of a file transfer loses none that is needed.
THEOREM AnnouncementsSuffice == ReceptionSpec => []DeafOnlyAfterError
<1>1. ReceptionInit => AnnouncedInv
  BY DEF ReceptionInit, AnnouncedInv
<1>2. ReceptionTypeOK /\ AnnouncedInv => DeafOnlyAfterError
  BY SMT DEF ReceptionTypeOK, AnnouncedInv, Listens, DeafOnlyAfterError
<1> QED
  BY <1>1, <1>2, AnnouncedStep, ReceptionTypeCorrect, PTL DEF ReceptionSpec

-----------------------------------------------------------------------------
(* The matchers find every head and every tail *)

\* The last m bytes of s are the first m of p.
EndsWith(s, p, m) ==
    /\ m <= Len(s)
    /\ \A k \in 1 .. m : s[Len(s) - m + k] = p[k]

\* What a matcher that is at index at knows of the bytes s it was given: how
\* much of p they end with, if any; and they do end with what it takes for
\* found, save the first byte.
Tracks(p, s, at) ==
    /\ at \in 0 .. Len(p) - 1
    /\ \A m \in 1 .. Len(p) - 1 : EndsWith(s, p, m) => at = m
    /\ \A k \in 2 .. at : Len(s) - at + k > 0 /\ s[Len(s) - at + k] = p[k]

\* XMLHead and XMLEnd have their first byte nowhere else.
Plain(p) ==
    /\ p \in Seq(Bytes) /\ Len(p) >= 2
    /\ \A k \in 2 .. Len(p) : p[k] # p[1]

\* Occurs, byte by byte.
LEMMA OccursByBytes ==
    ASSUME NEW p \in Seq(Bytes), NEW t \in Seq(Bytes), Len(p) > 0
    PROVE  Occurs(p, t) <=>
             \E k \in 0 .. Len(t) - Len(p) : \A q \in 1 .. Len(p) : t[k + q] = p[q]
<1>1. Len(p) \in Nat /\ Len(t) \in Nat
  BY LenProperties
<1>2. ASSUME NEW k \in 0 .. Len(t) - Len(p)
      PROVE  SubSeq(t, k + 1, k + Len(p)) = p <=>
             \A q \in 1 .. Len(p) : t[k + q] = p[q]
  <2> DEFINE u == SubSeq(t, k + 1, k + Len(p))
  <2>1. \A x \in k + 1 .. k + Len(p) : t[x] \in Bytes
    BY <1>1, <1>2, ElementOfSeq, SMT
  <2>2. /\ u \in Seq(Bytes)
        /\ Len(u) = IF k + 1 <= k + Len(p) THEN (k + Len(p)) - (k + 1) + 1 ELSE 0
        /\ \A q \in 1 .. (k + Len(p)) - (k + 1) + 1 : u[q] = t[(k + 1) + q - 1]
    BY <1>1, <1>2, <2>1, SubSeqProperties
  <2> HIDE DEF u
  <2>3. Len(u) = Len(p) /\ \A q \in 1 .. Len(p) : u[q] = t[k + q]
    BY <1>1, <1>2, <2>2, SMT
  <2>4. u = p <=> \A q \in 1 .. Len(p) : u[q] = p[q]
    BY <2>2, <2>3, SeqEqual
  <2> QED
    BY <2>3, <2>4 DEF u
<1> QED
  BY <1>2 DEF Occurs

\* A matcher that has seen nothing.
LEMMA MatcherBegins ==
    ASSUME NEW p, Plain(p)
    PROVE  ~Occurs(p, <<>>) /\ Tracks(p, <<>>, 0)
<1>1. Len(p) \in Nat /\ Len(p) >= 2 /\ Len(<<>>) = 0
  BY LenProperties, EmptySeq DEF Plain
<1>2. ~Occurs(p, <<>>)
  BY <1>1, SMT DEF Occurs
<1>3. Tracks(p, <<>>, 0)
  BY <1>1, SMT DEF Tracks, EndsWith
<1> QED
  BY <1>2, <1>3

\* After a byte b: whatever s ended with before, the new index says what it
\* ends with now.
LEMMA MatcherTracks ==
    ASSUME NEW p, Plain(p), NEW s \in Seq(Bytes), NEW b \in Bytes, NEW at,
           Tracks(p, s, at),
           NextIndex(p, b, at) # Len(p)
    PROVE  Tracks(p, Append(s, b), NextIndex(p, b, at))
<1> DEFINE t == Append(s, b)
           n == NextIndex(p, b, at)
<1>1. Len(p) \in Nat /\ Len(p) >= 2 /\ Len(s) \in Nat /\ at \in 0 .. Len(p) - 1
  BY LenProperties DEF Plain, Tracks
<1>2. /\ Len(t) = Len(s) + 1 /\ t[Len(s) + 1] = b
      /\ \A k \in 1 .. Len(s) : t[k] = s[k]
  BY AppendProperties
<1>3. n \in 1 .. Len(p) - 1
  BY <1>1, SMT DEF NextIndex
<1> HIDE DEF t
<1>4. ASSUME NEW m \in 1 .. Len(p) - 1, EndsWith(t, p, m)
      PROVE  n = m
  <2>1. b = p[m]
    BY <1>1, <1>2, <1>4, SMT DEF EndsWith
  <2>2. CASE m = 1
    BY <1>1, <2>1, <2>2, SMT DEF NextIndex, Plain
  <2>3. CASE m # 1
    <3>1. EndsWith(s, p, m - 1)
      <4>1. m - 1 <= Len(s)
        BY <1>1, <1>2, <1>4, SMT DEF EndsWith
      <4>2. ASSUME NEW k \in 1 .. m - 1
            PROVE  s[Len(s) - (m - 1) + k] = p[k]
        <5>1. /\ Len(s) - (m - 1) + k = Len(t) - m + k
              /\ Len(s) - (m - 1) + k \in 1 .. Len(s)
              /\ k \in 1 .. m
          BY <1>1, <1>2, <1>4, <4>1, <4>2, SMT
        <5>2. t[Len(t) - m + k] = p[k]
          BY <1>4, <5>1 DEF EndsWith
        <5> QED
          BY <1>2, <5>1, <5>2
      <4> QED
        BY <4>1, <4>2 DEF EndsWith
    <3>2. m - 1 \in 1 .. Len(p) - 1
      BY <1>1, <2>3, SMT
    <3>3. at = m - 1
      BY <3>1, <3>2 DEF Tracks
    <3> QED
      BY <1>1, <2>1, <3>3, SMT DEF NextIndex
  <2> QED
    BY <2>2, <2>3
<1>5. ASSUME NEW k \in 2 .. n
      PROVE  Len(t) - n + k > 0 /\ t[Len(t) - n + k] = p[k]
  <2>1. n = at + 1 /\ b = p[at + 1]
    BY <1>1, <1>5, SMT DEF NextIndex
  <2>2. CASE k = n
    BY <1>1, <1>2, <2>1, <2>2, SMT
  <2>3. CASE k # n
    <3>1. k \in 2 .. at
      BY <1>1, <1>5, <2>1, <2>3, SMT
    <3>2. Len(s) - at + k > 0 /\ s[Len(s) - at + k] = p[k]
      BY <3>1 DEF Tracks
    <3>3. Len(t) - n + k = Len(s) - at + k /\ Len(s) - at + k \in 1 .. Len(s)
      BY <1>1, <1>2, <2>1, <3>1, <3>2, SMT
    <3> QED
      BY <1>2, <3>2, <3>3
  <2> QED
    BY <2>2, <2>3
<1>6. n \in 0 .. Len(p) - 1
  BY <1>1, <1>3, SMT
<1> HIDE DEF n
<1>7. Tracks(p, t, n)
  BY <1>4, <1>5, <1>6 DEF Tracks
<1> QED
  BY <1>7 DEF t, n

\* No occurrence goes unnoticed.
LEMMA MatcherMissesNone ==
    ASSUME NEW p, Plain(p), NEW s \in Seq(Bytes), NEW b \in Bytes, NEW at,
           Tracks(p, s, at), ~Occurs(p, s),
           NextIndex(p, b, at) # Len(p)
    PROVE  ~Occurs(p, Append(s, b))
<1> DEFINE t == Append(s, b)
<1> SUFFICES ASSUME Occurs(p, t)
             PROVE  FALSE
  OBVIOUS
<1>1. Len(p) \in Nat /\ Len(p) >= 2 /\ Len(s) \in Nat /\ p \in Seq(Bytes)
  BY LenProperties DEF Plain
<1>2. /\ t \in Seq(Bytes) /\ Len(t) = Len(s) + 1 /\ t[Len(s) + 1] = b
      /\ \A k \in 1 .. Len(s) : t[k] = s[k]
  BY AppendProperties
<1> HIDE DEF t
<1>0. Len(p) > 0
  BY <1>1, SMT
<1>3. PICK k \in 0 .. Len(t) - Len(p) : \A q \in 1 .. Len(p) : t[k + q] = p[q]
  BY <1>0, <1>1, <1>2, OccursByBytes
<1>4. CASE k < Len(t) - Len(p)
  <2>1. k \in 0 .. Len(s) - Len(p)
    BY <1>1, <1>2, <1>4, SMT
  <2>2. ASSUME NEW q \in 1 .. Len(p)
        PROVE  s[k + q] = p[q]
    <3>1. k + q \in 1 .. Len(s)
      BY <1>1, <2>1, <2>2, SMT
    <3>2. t[k + q] = s[k + q]
      BY <1>2, <3>1
    <3> QED
      BY <1>3, <2>2, <3>2
  <2> QED
    BY <1>0, <1>1, <2>1, <2>2, OccursByBytes
<1>5. CASE k = Len(t) - Len(p)
  <2>1. EndsWith(s, p, Len(p) - 1)
    <3>1. PICK n \in Nat : n = Len(s)
      BY <1>1
    <3>2. PICK l \in Nat : l = Len(p) /\ l >= 2
      BY <1>1
    <3>3. k = n + 1 - l /\ l - 1 <= n
      BY <1>2, <1>3, <1>5, <3>1, <3>2
    <3>4. ASSUME NEW q \in 1 .. l - 1 PROVE s[n - (l - 1) + q] = p[q]
      <4>1. n - (l - 1) + q = k + q /\ k + q \in 1 .. n /\ q \in 1 .. l
        BY <3>3
      <4> QED
        BY <1>2, <1>3, <3>1, <3>2, <4>1
    <3> QED
      BY <3>1, <3>2, <3>3, <3>4 DEF EndsWith
  <2>2. at = Len(p) - 1
    BY <1>1, <2>1, SMT DEF Tracks
  <2>3. b = p[Len(p)]
    BY <1>1, <1>2, <1>3, <1>5, SMT
  <2>4. NextIndex(p, b, at) = Len(p)
    BY <1>1, <2>2, <2>3, SMT DEF NextIndex
  <2> QED
    BY <2>4
<1>6. k < Len(t) - Len(p) \/ k = Len(t) - Len(p)
  <2>1. Len(t) \in Nat
    BY <1>2, LenProperties
  <2> QED
    BY <1>1, <2>1
<1> QED
  BY <1>4, <1>5, <1>6

\* IsSuffix, byte by byte.
LEMMA SuffixByBytes ==
    ASSUME NEW u \in Seq(Bytes), NEW t \in Seq(Bytes), Len(u) <= Len(t),
           \A k \in 1 .. Len(u) : t[Len(t) - Len(u) + k] = u[k]
    PROVE  IsSuffix(u, t)
<1>1. Len(u) \in Nat /\ Len(t) \in Nat
  BY LenProperties
<1>2. \A v \in Seq(Bytes) :
         /\ Reverse(v) \in Seq(Bytes) /\ Len(Reverse(v)) = Len(v)
         /\ \A k \in 1 .. Len(v) : Reverse(v)[k] = v[Len(v) - k + 1]
  <2> SUFFICES ASSUME NEW v \in Seq(Bytes)
               PROVE  /\ Reverse(v) \in Seq(Bytes)
                      /\ Len(Reverse(v)) = Len(v)
                      /\ \A k \in 1 .. Len(v) :
                            Reverse(v)[k] = v[Len(v) - k + 1]
    OBVIOUS
  <2>1. Len(v) \in Nat
    BY LenProperties
  <2>2. \A k \in 1 .. Len(v) : v[(Len(v) - k) + 1] \in Bytes
    BY <2>1, ElementOfSeq, SMT
  <2>3. Reverse(v) \in [1 .. Len(v) -> Bytes]
    BY <2>2 DEF Reverse
  <2>4. Reverse(v) \in Seq(Bytes) /\ Len(Reverse(v)) = Len(v)
    <3>1. PICK n \in Nat : n = Len(v)
      BY <2>1
    <3>2. PICK x : x = Reverse(v) /\ x \in [1 .. n -> Bytes]
      BY <2>3, <3>1
    <3>3. x \in Seq(Bytes) /\ Len(x) = n
      BY <3>1, <3>2
    <3> QED
      BY <3>1, <3>2, <3>3
  <2> QED
    BY <2>4 DEF Reverse
<1> DEFINE ru == Reverse(u)
           rt == Reverse(t)
<1>3. /\ ru \in Seq(Bytes) /\ Len(ru) = Len(u)
      /\ rt \in Seq(Bytes) /\ Len(rt) = Len(t)
  BY <1>2
<1>4. \A k \in 1 .. Len(u) : ru[k] = rt[k]
  <2> SUFFICES ASSUME NEW k \in 1 .. Len(u)
               PROVE  ru[k] = rt[k]
    OBVIOUS
  <2>1. k \in 1 .. Len(t) /\ Len(u) - k + 1 \in 1 .. Len(u)
    BY <1>1, SMT
  <2>2. Len(t) - Len(u) + (Len(u) - k + 1) = Len(t) - k + 1
    BY <1>1, SMT
  <2>3. ru[k] = u[Len(u) - k + 1] /\ rt[k] = t[Len(t) - k + 1]
    BY <1>2, <2>1
  <2> QED
    BY <2>1, <2>2, <2>3
<1> HIDE DEF ru, rt
<1>5. SubSeq(ru, 1, Len(ru)) = SubSeq(rt, 1, Len(ru))
  <2>1. \A k \in 1 .. Len(u) : ru[k] \in Bytes /\ rt[k] \in Bytes
    BY <1>1, <1>3, ElementOfSeq, SMT
  <2>2. /\ SubSeq(ru, 1, Len(u)) \in Seq(Bytes)
        /\ SubSeq(rt, 1, Len(u)) \in Seq(Bytes)
        /\ Len(SubSeq(ru, 1, Len(u))) = Len(u)
        /\ Len(SubSeq(rt, 1, Len(u))) = Len(u)
        /\ \A k \in 1 .. Len(u) : /\ SubSeq(ru, 1, Len(u))[k] = ru[k]
                                   /\ SubSeq(rt, 1, Len(u))[k] = rt[k]
    BY <1>1, <1>3, <2>1, SubSeqProperties, SMT
  <2>3. \A k \in 1 .. Len(u) :
           SubSeq(ru, 1, Len(u))[k] = SubSeq(rt, 1, Len(u))[k]
    BY <1>4, <2>2
  <2> QED
    BY <1>3, <2>2, <2>3, SeqEqual
<1> QED
  BY <1>3, <1>5 DEF IsSuffix, IsPrefix, ru, rt

\* A matcher that stops has at least the pattern without its first byte.
LEMMA MatcherStops ==
    ASSUME NEW p, Plain(p), NEW s \in Seq(Bytes), NEW b \in Bytes, NEW at,
           Tracks(p, s, at),
           NextIndex(p, b, at) = Len(p)
    PROVE  /\ IsSuffix(Tail(p), Append(s, b))
           /\ Front(Append(s, b)) = s
<1> DEFINE t == Append(s, b)
           u == Tail(p)
<1>1. /\ Len(p) \in Nat /\ Len(p) >= 2 /\ Len(s) \in Nat /\ p \in Seq(Bytes)
      /\ at \in 0 .. Len(p) - 1
  BY LenProperties DEF Plain, Tracks
<1>2. /\ t \in Seq(Bytes) /\ Len(t) = Len(s) + 1 /\ t[Len(s) + 1] = b
      /\ \A k \in 1 .. Len(s) : t[k] = s[k]
  BY AppendProperties
<1>3. p # <<>>
  BY <1>1, EmptySeq, SMT
<1>4. /\ u \in Seq(Bytes) /\ Len(u) = Len(p) - 1
      /\ \A k \in 1 .. Len(u) : u[k] = p[k + 1]
  BY <1>1, <1>3, HeadTailProperties
<1> HIDE DEF t, u
<1>5. at = Len(p) - 1 /\ b = p[Len(p)]
  <2>1. b = p[at + 1] /\ at + 1 = Len(p)
    <3>1. NextIndex(p, b, at) # 1
      BY <1>1, SMT
    <3> QED
      BY <3>1 DEF NextIndex
  <2> QED
    BY <1>1, <2>1, SMT
<1>6. \A k \in 2 .. at : Len(s) - at + k > 0 /\ s[Len(s) - at + k] = p[k]
  BY DEF Tracks
<1>7. Len(u) <= Len(t)
  <2>1. CASE Len(p) = 2
    BY <1>1, <1>2, <1>4, <2>1, SMT
  <2>2. CASE Len(p) # 2
    <3>1. 2 \in 2 .. at
      BY <1>1, <1>5, <2>2, SMT
    <3>2. Len(s) - at + 2 > 0
      BY <1>6, <3>1
    <3> QED
      BY <1>1, <1>2, <1>4, <1>5, <3>2, SMT
  <2> QED
    BY <2>1, <2>2
<1>8. ASSUME NEW k \in 1 .. Len(u)
      PROVE  t[Len(t) - Len(u) + k] = u[k]
  <2>1. CASE k = Len(u)
    BY <1>1, <1>2, <1>4, <1>5, <2>1, SMT
  <2>2. CASE k # Len(u)
    <3>1. /\ k + 1 \in 2 .. at
          /\ Len(t) - Len(u) + k = Len(s) - at + (k + 1)
      BY <1>1, <1>2, <1>4, <1>5, <1>8, <2>2, SMT
    <3>2. Len(s) - at + (k + 1) > 0 /\ s[Len(s) - at + (k + 1)] = p[k + 1]
      BY <1>6, <3>1
    <3>3. Len(s) - at + (k + 1) \in 1 .. Len(s)
      BY <1>1, <1>5, <3>1, <3>2, SMT
    <3> QED
      BY <1>2, <1>4, <3>1, <3>2, <3>3
  <2> QED
    BY <2>1, <2>2
<1>9. IsSuffix(u, t)
  BY <1>2, <1>4, <1>7, <1>8, SuffixByBytes
<1>10. Front(t) = s
  <2>1. \A k \in 1 .. Len(s) : t[k] \in Bytes
    BY <1>1, <1>2, ElementOfSeq, SMT
  <2>2. /\ SubSeq(t, 1, Len(s)) \in Seq(Bytes)
        /\ Len(SubSeq(t, 1, Len(s))) = Len(s)
        /\ \A k \in 1 .. Len(s) : SubSeq(t, 1, Len(s))[k] = t[k]
    BY <1>1, <2>1, SubSeqProperties, SMT
  <2>3. SubSeq(t, 1, Len(s)) = s
    BY <1>2, <2>2, SeqEqual
  <2>4. Len(t) - 1 = Len(s)
    BY <1>1, <1>2, SMT
  <2> QED
    BY <2>3, <2>4 DEF Front
<1> QED
  BY <1>9, <1>10 DEF t, u

\* What both matchers rely on.
MatchInv ==
    /\ task = "start" => ~Occurs(XMLHead, seen) /\ Tracks(XMLHead, seen, i)
    /\ task = "end" => ~Occurs(XMLEnd, seen) /\ Tracks(XMLEnd, seen, i)
    /\ task = "hand" => /\ IsSuffix(Tail(XMLEnd), seen)
                        /\ ~Occurs(XMLEnd, Front(seen))

LEMMA MatchStep ==
    ASSUME ReceptionTypeOK, MatchInv, [ReceptionNext]_receptionVars
    PROVE  MatchInv'
<1>1. Plain(XMLHead) /\ Plain(XMLEnd)
  BY TextsAreBytes DEF Plain
<1>2. seen \in Seq(Bytes) /\ (QueueRead => Buf[Out] \in Bytes)
  BY DEF ReceptionTypeOK, QueueTypeOK
<1>3. CASE HeadByte
  <2>1. Buf[Out] \in Bytes /\ task = "start"
    BY <1>2, <1>3 DEF HeadByte
  <2>2. Tracks(XMLHead, seen, i) /\ ~Occurs(XMLHead, seen)
    BY <2>1 DEF MatchInv
  <2>3. CASE NextIndex(XMLHead, Buf[Out], i) = Len(XMLHead)
    <3>1. task' = "end" /\ i' = 0 /\ seen' = <<>>
      BY <1>3, <2>3 DEF HeadByte
    <3> QED
      BY <1>1, <3>1, MatcherBegins DEF MatchInv
  <2>4. CASE NextIndex(XMLHead, Buf[Out], i) # Len(XMLHead)
    <3>1. /\ task' = "start" /\ i' = NextIndex(XMLHead, Buf[Out], i)
          /\ seen' = Append(seen, Buf[Out])
      BY <1>3, <2>1, <2>4 DEF HeadByte
    <3>2. Tracks(XMLHead, seen', i')
      BY <1>1, <1>2, <2>1, <2>2, <2>4, <3>1, MatcherTracks
    <3>3. ~Occurs(XMLHead, seen')
      BY <1>1, <1>2, <2>1, <2>2, <2>4, <3>1, MatcherMissesNone
    <3> QED
      BY <3>1, <3>2, <3>3 DEF MatchInv
  <2> QED
    BY <2>3, <2>4
<1>4. CASE TailByte
  <2>1. Buf[Out] \in Bytes /\ task = "end"
    BY <1>2, <1>4 DEF TailByte
  <2>2. Tracks(XMLEnd, seen, i) /\ ~Occurs(XMLEnd, seen)
    BY <2>1 DEF MatchInv
  <2>3. /\ seen' = Append(seen, Buf[Out]) /\ i' = NextIndex(XMLEnd, Buf[Out], i)
        /\ task' = IF NextIndex(XMLEnd, Buf[Out], i) = Len(XMLEnd)
                   THEN "hand" ELSE "end"
    BY <1>4 DEF TailByte
  <2>4. CASE NextIndex(XMLEnd, Buf[Out], i) = Len(XMLEnd)
    <3>1. IsSuffix(Tail(XMLEnd), seen') /\ Front(seen') = seen
      BY <1>1, <1>2, <2>1, <2>2, <2>3, <2>4, MatcherStops
    <3> QED
      BY <2>2, <2>3, <2>4, <3>1 DEF MatchInv
  <2>5. CASE NextIndex(XMLEnd, Buf[Out], i) # Len(XMLEnd)
    <3>1. Tracks(XMLEnd, seen', i')
      BY <1>1, <1>2, <2>1, <2>2, <2>3, <2>5, MatcherTracks
    <3>2. ~Occurs(XMLEnd, seen')
      BY <1>1, <1>2, <2>1, <2>2, <2>3, <2>5, MatcherMissesNone
    <3> QED
      BY <2>3, <2>5, <3>1, <3>2 DEF MatchInv
  <2> QED
    BY <2>4, <2>5
<1>5. CASE HandOver \/ PendTimeout
  <2>1. task' = "start" /\ i' = 0 /\ seen' = <<>>
    BY <1>5 DEF HandOver, PendTimeout
  <2> QED
    BY <1>1, <2>1, MatcherBegins DEF MatchInv
<1>6. CASE UNCHANGED <<task, i, seen>>
  BY <1>6 DEF MatchInv
<1> QED
  BY <1>3, <1>4, <1>5, <1>6
     DEF ReceptionNext, Module, Receiver, Fails, Reader, Send, Deliver, Begin,
         Listen, GiveUpListening, ReadOk, ReadFails, CountAnswer, WriteByte,
         PostAndClear, PackLostQuery, WaitByte, PendOk

\* UpGetStart and UpGetEnd, which go on with index 1 after a mismatch, miss no
\* head and no tail, whatever bytes come: the two texts have their first byte
\* nowhere else.
THEOREM MatchersMissNothing == ReceptionSpec => []MatchersExact
<1>1. ReceptionInit => MatchInv
  <2>1. Plain(XMLHead)
    BY TextsAreBytes DEF Plain
  <2> QED
    BY <2>1, MatcherBegins DEF ReceptionInit, MatchInv
<1>2. MatchInv => MatchersExact
  BY DEF MatchInv, MatchersExact
<1> QED
  BY <1>1, <1>2, MatchStep, ReceptionTypeCorrect, PTL DEF ReceptionSpec

-----------------------------------------------------------------------------
(* Documents arrive whole and in order                                       *)

H == Len(XMLHead)
E == Len(XMLEnd)

\* What the receiver has read and not written to the queue yet: how many bytes,
\* from where in gRecBuf.
HeldLen == IF rx = "write" THEN len - wi
           ELSE IF rx = "count" /\ ~err THEN len ELSE 0
HeldFrom == IF rx = "write" THEN wi ELSE 0

HeldInv == rx = "write" => wi <= len

SentInv ==
    /\ Len(sent) <= Len(Bodies)
    /\ \A k \in 1 .. Len(sent) : sent[k] = Document(Bodies[k])

\* t is what has been sent so far, end to end; document k begins behind start[k].
Cut(t, start) ==
    /\ t \in Seq(Bytes)
    /\ start \in [1 .. Len(sent) + 1 -> Nat]
    /\ start[1] = 0 /\ start[Len(sent) + 1] = Len(t)
    /\ \A k \in 1 .. Len(sent) + 1 : start[k] <= Len(t)
    /\ \A k \in 1 .. Len(sent) :
          /\ start[k + 1] = start[k] + Len(sent[k])
          /\ \A p \in 1 .. Len(sent[k]) : t[start[k] + p] = sent[k][p]

\* The first pos bytes of t have been read from the queue; the others are in
\* the queue, in gRecBuf, with the module or before it, in order.
Flow(t, pos) ==
    /\ pos + NData + HeldLen + Len(net) + Len(wire) = Len(t)
    /\ \A p \in 1 .. NData : Content[p] = t[pos + p]
    /\ \A p \in 1 .. HeldLen : gRecBuf[HeldFrom + p - 1] = t[pos + NData + p]
    /\ \A p \in 1 .. Len(net) : net[p] = t[pos + NData + HeldLen + p]
    /\ \A p \in 1 .. Len(wire) :
          wire[p] = t[pos + NData + HeldLen + Len(net) + p]

\* s is what the first pos bytes of t end with.
Latest(s, t, pos) ==
    /\ Len(s) <= pos
    /\ \A p \in 1 .. Len(s) : s[p] = t[pos - Len(s) + p]

\* Where TaskUpRecGprs is: it looks for the head of document m, or has found it
\* and looks for the tail.  Before a timeout it looks for the head from the
\* end of the last document, later it may begin inside of that.
Where(t, start, m, pos) ==
    /\ m \in 1 .. Len(sent) + 1
    /\ pos \in Nat
    /\ Latest(seen, t, pos)
    /\ task = "start" =>
          /\ pos - Len(seen) <= start[m] /\ pos < start[m] + H
          /\ \/ pos - Len(seen) = start[m]
             \/ /\ HeadsArePlain /\ timeouts > 0
                /\ m > 1 /\ start[m - 1] + H <= pos - Len(seen)
    /\ task = "end" =>
          /\ m <= Len(sent)
          /\ pos = start[m] + H + Len(seen) /\ pos < start[m + 1]
    /\ task = "hand" => m <= Len(sent) /\ pos = start[m + 1]
    /\ timeouts = 0 => m = Len(received) + 1

\* What it has put into the file and into gGprsRec.  The rest of the buffer is
\* empty, or after a timeout what the abandoned document left there.
Gathered(t, start, m, pos) ==
    /\ gGprsRec[RecSize - 1] = Nul
    /\ timeouts = 0 => \A q \in j .. RecSize - 1 : gGprsRec[q] = Nul
    /\ task # "end" => j = 0
    /\ task = "end" =>
          /\ Len(file) + j = pos - start[m]
          /\ \A p \in 1 .. Len(file) : file[p] = t[start[m] + p]
          /\ \A q \in 0 .. j - 1 :
                gGprsRec[q] = t[start[m] + Len(file) + q + 1]
    /\ task = "hand" =>
          /\ Len(sent[m]) <= Len(file)
          /\ \A p \in 1 .. Len(sent[m]) : file[p] = sent[m][p]
          /\ timeouts = 0 => Len(file) = Len(sent[m])

HandedOn ==
    /\ \A k \in 1 .. Len(received) : \E m \in 1 .. Len(sent) :
          IsPrefix(sent[m], received[k])
    /\ timeouts = 0 =>
          /\ Len(received) <= Len(sent)
          /\ \A k \in 1 .. Len(received) : received[k] = sent[k]

InOrder(t, start, m, pos) ==
    /\ Cut(t, start) /\ Flow(t, pos)
    /\ Where(t, start, m, pos) /\ Gathered(t, start, m, pos)

\* No byte got lost or came from elsewhere, and a head is where it belongs or
\* was looked for there only.
Sound == ~spoiled /\ (timeouts = 0 \/ HeadsArePlain)

IntactInv ==
    /\ SentInv /\ HeldInv
    /\ Sound => HandedOn /\ \E t, start, m, pos : InOrder(t, start, m, pos)

\* The texts, as bytes.
LEMMA TextBytes ==
    /\ XMLHead \in Seq(Bytes) /\ H \in Nat /\ H >= 2
    /\ XMLEnd \in Seq(Bytes) /\ E \in Nat /\ E >= 2
    /\ \A k \in 1 .. Len(Bodies) :
          Bodies[k] \in Seq(Bytes) /\ Len(Bodies[k]) \in Nat
BY TextsAreBytes, LenProperties DEF H, E

\* A document, byte by byte.
LEMMA DocumentBytes ==
    ASSUME NEW k \in 1 .. Len(Bodies)
    PROVE  /\ Document(Bodies[k]) \in Seq(Bytes)
           /\ Len(Document(Bodies[k])) = H + Len(Bodies[k]) + E
           /\ \A p \in 1 .. H : Document(Bodies[k])[p] = XMLHead[p]
           /\ \A p \in 1 .. Len(Bodies[k]) :
                 Document(Bodies[k])[H + p] = Bodies[k][p]
           /\ \A p \in 1 .. E :
                 Document(Bodies[k])[H + Len(Bodies[k]) + p] = XMLEnd[p]
<1> DEFINE b == Bodies[k]
           a == XMLHead \o b
           d == a \o XMLEnd
<1>1. b \in Seq(Bytes) /\ Len(b) \in Nat
  BY TextBytes
<1> HIDE DEF b
<1>2. /\ a \in Seq(Bytes) /\ Len(a) = H + Len(b)
      /\ \A p \in 1 .. H + Len(b) :
            a[p] = IF p <= H THEN XMLHead[p] ELSE b[p - H]
  BY <1>1, TextBytes, ConcatProperties DEF H
<1> HIDE DEF a
<1>3. /\ d \in Seq(Bytes) /\ Len(d) = H + Len(b) + E
      /\ \A p \in 1 .. H + Len(b) + E :
            d[p] = IF p <= H + Len(b) THEN a[p] ELSE XMLEnd[p - (H + Len(b))]
  <2>1. /\ d \in Seq(Bytes) /\ Len(d) = Len(a) + Len(XMLEnd)
        /\ \A p \in 1 .. Len(a) + Len(XMLEnd) :
              d[p] = IF p <= Len(a) THEN a[p] ELSE XMLEnd[p - Len(a)]
    BY <1>2, TextBytes, ConcatProperties
  <2> HIDE DEF d
  <2> QED
    BY <1>2, <2>1 DEF E
<1>4. d = Document(b)
  BY DEF Document, a
<1> HIDE DEF d
<1>5. \A p \in 1 .. H : d[p] = XMLHead[p]
  BY <1>1, <1>2, <1>3, TextBytes, SMT
<1>6. \A p \in 1 .. Len(b) : d[H + p] = b[p]
  <2> SUFFICES ASSUME NEW p \in 1 .. Len(b) PROVE d[H + p] = b[p]
    OBVIOUS
  <2>1. /\ H + p \in 1 .. H + Len(b) /\ H + p \in 1 .. H + Len(b) + E
        /\ ~(H + p <= H) /\ H + p <= H + Len(b) /\ (H + p) - H = p
    BY <1>1, TextBytes, SMT
  <2> QED
    BY <1>2, <1>3, <2>1
<1>7. \A p \in 1 .. E : d[H + Len(b) + p] = XMLEnd[p]
  <2> SUFFICES ASSUME NEW p \in 1 .. E PROVE d[H + Len(b) + p] = XMLEnd[p]
    OBVIOUS
  <2>1. /\ H + Len(b) + p \in 1 .. H + Len(b) + E
        /\ ~(H + Len(b) + p <= H + Len(b))
        /\ (H + Len(b) + p) - (H + Len(b)) = p
    BY <1>1, TextBytes, SMT
  <2> QED
    BY <1>3, <2>1
<1> QED
  BY <1>3, <1>4, <1>5, <1>6, <1>7 DEF b

\* No byte of a document ends what strlen counts.
LEMMA DocumentHasNoNul ==
    ASSUME NEW k \in 1 .. Len(Bodies),
           NEW p \in 1 .. Len(Document(Bodies[k]))
    PROVE  Document(Bodies[k])[p] # Nul
<1> DEFINE b == Bodies[k]
           d == Document(b)
<1>1. b \in Seq(Bytes) /\ Len(b) \in Nat
  BY TextBytes
<1>2. /\ Len(d) = H + Len(b) + E
      /\ \A q \in 1 .. H : d[q] = XMLHead[q]
      /\ \A q \in 1 .. Len(b) : d[H + q] = b[q]
      /\ \A q \in 1 .. E : d[H + Len(b) + q] = XMLEnd[q]
  BY DocumentBytes
<1>3. \A q \in 1 .. Len(b) : b[q] # Nul
  <2> SUFFICES ASSUME NEW q \in 1 .. Len(b), b[q] = Nul PROVE FALSE
    OBVIOUS
  <2>1. <<Nul>> \in Seq(Bytes) /\ Len(<<Nul>>) = 1 /\ <<Nul>>[1] = Nul
    BY TextsAreBytes
  <2>2. q - 1 \in 0 .. Len(b) - 1 /\ (q - 1) + 1 = q
    BY <1>1, SMT
  <2>3. \A r \in 1 .. 1 : b[(q - 1) + r] = <<Nul>>[r]
    BY <1>1, <2>1, <2>2
  <2> DEFINE z == <<Nul>>
  <2> HIDE DEF z
  <2>4. Occurs(z, b)
    <3>1. z \in Seq(Bytes) /\ Len(z) = 1 /\ Len(z) > 0
      BY <2>1 DEF z
    <3>2. q - 1 \in 0 .. Len(b) - Len(z)
      BY <2>2, <3>1
    <3>3. \A r \in 1 .. Len(z) : b[(q - 1) + r] = z[r]
      BY <2>3, <3>1 DEF z
    <3> QED
      BY <1>1, <3>1, <3>2, <3>3, OccursByBytes
  <2>5. k \in DOMAIN Bodies
    BY TextsAreBytes
  <2> QED
    BY <2>4, <2>5, BodiesArePlain DEF z
<1> HIDE DEF b, d
<1>0. p \in 1 .. Len(d)
  BY DEF d, b
<1>4. CASE p <= H
  <2>1. p \in 1 .. H
    BY <1>0, <1>1, <1>2, <1>4, TextBytes
  <2> QED
    BY <1>2, <2>1, TextsAreBytes DEF H, d, b
<1>5. CASE p > H /\ p <= H + Len(b)
  <2>1. p - H \in 1 .. Len(b) /\ H + (p - H) = p
    BY <1>1, <1>5, TextBytes
  <2>2. d[p] = b[p - H]
    BY <1>2, <2>1
  <2> QED
    BY <1>3, <2>1, <2>2 DEF d, b
<1>6. CASE p > H + Len(b)
  <2>1. p \in 1 .. H + Len(b) + E
    BY <1>2 DEF d, b
  <2>2. p - (H + Len(b)) \in 1 .. E /\ H + Len(b) + (p - (H + Len(b))) = p
    BY <1>1, <1>6, <2>1, TextBytes
  <2>3. d[p] = XMLEnd[p - (H + Len(b))]
    BY <1>2, <2>2
  <2> QED
    BY <2>2, <2>3, TextsAreBytes DEF E, d, b
<1> QED
  BY <1>1, <1>4, <1>5, <1>6, <1>2, TextBytes DEF d, b

\* Tail and Front, byte by byte.
LEMMA TailAndFront ==
    ASSUME NEW s \in Seq(Bytes), Len(s) > 0
    PROVE  /\ Tail(s) \in Seq(Bytes) /\ Len(Tail(s)) = Len(s) - 1
           /\ \A p \in 1 .. Len(s) - 1 : Tail(s)[p] = s[p + 1]
           /\ Front(s) \in Seq(Bytes) /\ Len(Front(s)) = Len(s) - 1
           /\ \A p \in 1 .. Len(s) - 1 : Front(s)[p] = s[p]
<1>1. s # <<>> /\ Len(s) \in Nat
  BY EmptySeq, LenProperties
<1>2. /\ Tail(s) \in Seq(Bytes) /\ Len(Tail(s)) = Len(s) - 1
      /\ \A p \in 1 .. Len(s) - 1 : Tail(s)[p] = s[p + 1]
  BY <1>1, HeadTailProperties
<1> DEFINE n == Len(s) - 1
<1>3. n \in Nat /\ \A x \in 1 .. n : s[x] \in Bytes
  BY <1>1, ElementOfSeq, SMT
<1> HIDE DEF n
<1>4. /\ SubSeq(s, 1, n) \in Seq(Bytes)
      /\ Len(SubSeq(s, 1, n)) = n
      /\ \A p \in 1 .. n : SubSeq(s, 1, n)[p] = s[p]
  BY <1>3, SubSeqProperties, SMT
<1> QED
  BY <1>2, <1>4 DEF Front, n

\* What follows the head of a document.
LEMMA BodyBytes ==
    ASSUME NEW k \in 1 .. Len(Bodies)
    PROVE  LET w == Bodies[k] \o XMLEnd
           IN  /\ w \in Seq(Bytes)
               /\ Len(w) = Len(Document(Bodies[k])) - H /\ Len(w) >= E
               /\ \A p \in 1 .. Len(w) : w[p] = Document(Bodies[k])[H + p]
<1> DEFINE b == Bodies[k]
           w == b \o XMLEnd
           d == Document(b)
<1>1. b \in Seq(Bytes) /\ Len(b) \in Nat
  BY TextBytes
<1>2. /\ Len(d) = H + Len(b) + E
      /\ \A q \in 1 .. Len(b) : d[H + q] = b[q]
      /\ \A q \in 1 .. E : d[H + Len(b) + q] = XMLEnd[q]
  BY DocumentBytes
<1>3. /\ w \in Seq(Bytes) /\ Len(w) = Len(b) + E
      /\ \A p \in 1 .. Len(b) + E :
            w[p] = IF p <= Len(b) THEN b[p] ELSE XMLEnd[p - Len(b)]
  BY <1>1, TextBytes, ConcatProperties DEF E
<1> HIDE DEF b, w, d
<1>4. ASSUME NEW p \in 1 .. Len(b) + E
      PROVE  w[p] = d[H + p]
  <2>1. CASE p <= Len(b)
    <3>1. p \in 1 .. Len(b)
      BY <1>1, <2>1, TextBytes
    <3> QED
      BY <1>2, <1>3, <2>1, <3>1
  <2>2. CASE p > Len(b)
    <3>1. p - Len(b) \in 1 .. E /\ H + Len(b) + (p - Len(b)) = H + p
          /\ ~(p <= Len(b))
      BY <1>1, <2>2, TextBytes
    <3>2. d[H + p] = XMLEnd[p - Len(b)]
      BY <1>2, <3>1
    <3> QED
      BY <1>3, <3>1, <3>2
  <2> QED
    BY <1>1, <2>1, <2>2, TextBytes
<1>5. Len(w) = Len(d) - H /\ Len(w) >= E
  BY <1>1, <1>2, <1>3, TextBytes
<1>6. \A p \in 1 .. Len(w) : w[p] = d[H + p]
  BY <1>3, <1>4
<1> QED
  BY <1>3, <1>5, <1>6 DEF b, w, d

\* The end of XMLEnd is at the end of a document only.
LEMMA TailAtEndOnly ==
    ASSUME NEW k \in 1 .. Len(Bodies),
           NEW x \in H + E - 1 .. Len(Document(Bodies[k])),
           \A q \in 2 .. E : Document(Bodies[k])[x - E + q] = XMLEnd[q]
    PROVE  x = Len(Document(Bodies[k]))
<1> DEFINE d == Document(Bodies[k])
           w == Bodies[k] \o XMLEnd
           f == Front(w)
           u == Tail(XMLEnd)
<1>1. /\ w \in Seq(Bytes) /\ Len(w) = Len(d) - H /\ Len(w) >= E
      /\ \A p \in 1 .. Len(w) : w[p] = d[H + p]
  BY BodyBytes
<1>2. /\ k \in DOMAIN Bodies /\ d \in Seq(Bytes) /\ Len(d) \in Nat
      /\ x \in H + E - 1 .. Len(d)
      /\ \A q \in 2 .. E : d[x - E + q] = XMLEnd[q]
  BY DocumentBytes, TextsAreBytes, LenProperties
<1>3. /\ u \in Seq(Bytes) /\ Len(u) = E - 1 /\ Len(u) > 0
      /\ \A p \in 1 .. E - 1 : u[p] = XMLEnd[p + 1]
  <2>1. Len(XMLEnd) > 0 /\ E = Len(XMLEnd)
    BY TextBytes DEF E
  <2> QED
    BY <2>1, TextBytes, TailAndFront
<1>4. ~Occurs(u, f)
  BY <1>2, BodiesArePlain
<1> HIDE DEF w
<1>5. /\ f \in Seq(Bytes) /\ Len(f) = Len(w) - 1
      /\ \A p \in 1 .. Len(w) - 1 : f[p] = w[p]
  <2>1. Len(w) > 0
    BY <1>1, TextBytes
  <2> QED
    BY <1>1, <2>1, TailAndFront
<1> HIDE DEF d, f, u
<1>6. ASSUME x # Len(d) PROVE FALSE
  <2> DEFINE o == x - H - (E - 1)
  <2>1. o \in 0 .. Len(f) - Len(u)
    <3>1. Len(f) = Len(d) - H - 1 /\ Len(u) = E - 1
      BY <1>1, <1>2, <1>3, <1>5, TextBytes
    <3>2. /\ x \in Int /\ H + E - 1 <= x /\ x < Len(d)
          /\ H \in Nat /\ E \in Nat /\ Len(d) \in Nat
      BY <1>2, <1>6, TextBytes
    <3> HIDE DEF o
    <3>3. o = x - H - (E - 1)
      BY DEF o
    <3> QED
      BY <3>1, <3>2, <3>3
  <2>2. ASSUME NEW p \in 1 .. Len(u) PROVE f[o + p] = u[p]
    <3>0. PICK n \in Nat : n = Len(w) - 1 /\ n = Len(f)
      BY <1>1, <1>5, TextBytes, LenProperties
    <3>1. /\ o + p \in 1 .. Len(w) - 1 /\ o + p \in 1 .. Len(w)
          /\ H + (o + p) = x - E + (p + 1) /\ p + 1 \in 2 .. E
          /\ p \in 1 .. E - 1
      <4>1. /\ p \in 1 .. E - 1 /\ E \in Nat /\ H \in Nat /\ x \in Int
            /\ o = x - H - (E - 1)
        BY <1>2, <1>3, TextBytes
      <4>2. o \in 0 .. n - (E - 1)
        BY <1>3, <2>1, <3>0
      <4> HIDE DEF o
      <4>3. /\ o + p \in 1 .. n /\ o + p \in 1 .. n + 1
            /\ H + (o + p) = x - E + (p + 1) /\ p + 1 \in 2 .. E
        BY <4>1, <4>2
      <4>4. Len(w) = n + 1
        BY <1>1, <3>0, TextBytes, LenProperties
      <4> QED
        BY <3>0, <4>1, <4>3, <4>4
    <3>2. f[o + p] = d[x - E + (p + 1)]
      BY <1>1, <1>5, <3>1
    <3> QED
      BY <1>2, <1>3, <3>1, <3>2
  <2> HIDE DEF o
  <2> QED
    BY <1>3, <1>4, <1>5, <2>1, <2>2, OccursByBytes
<1> QED
  BY <1>6 DEF d

\* The bytes sent are those of the documents.
LEMMA BytesOfDocuments ==
    ASSUME ReceptionTypeOK, SentInv, NEW t, NEW start, Cut(t, start),
           NEW k \in 1 .. Len(sent)
    PROVE  /\ k \in 1 .. Len(Bodies) /\ sent[k] = Document(Bodies[k])
           /\ start[k] \in Nat /\ start[k + 1] \in Nat
           /\ start[k + 1] = start[k] + Len(sent[k])
           /\ Len(sent[k]) \in Nat /\ Len(sent[k]) >= H + E
           /\ \A p \in 1 .. Len(sent[k]) :
                 t[start[k] + p] = sent[k][p] /\ sent[k][p] # Nul
           /\ \A p \in 1 .. H : t[start[k] + p] = XMLHead[p]
<1>1. Len(sent) \in Nat /\ Len(Bodies) \in Nat
  BY TextsAreBytes, LenProperties DEF ReceptionTypeOK
<1>2. k \in 1 .. Len(Bodies) /\ sent[k] = Document(Bodies[k])
  BY <1>1 DEF SentInv
<1>3. /\ start[k] \in Nat /\ start[k + 1] \in Nat
      /\ start[k + 1] = start[k] + Len(sent[k])
      /\ \A p \in 1 .. Len(sent[k]) : t[start[k] + p] = sent[k][p]
  <2>1. k \in 1 .. Len(sent) + 1 /\ k + 1 \in 1 .. Len(sent) + 1
    BY <1>1
  <2> QED
    BY <2>1 DEF Cut
<1>4. /\ sent[k] \in Seq(Bytes)
      /\ Len(sent[k]) = H + Len(Bodies[k]) + E
      /\ \A p \in 1 .. H : sent[k][p] = XMLHead[p]
  BY <1>2, DocumentBytes
<1>5. Len(sent[k]) \in Nat /\ Len(sent[k]) >= H + E
  BY <1>2, <1>4, TextBytes
<1>6. \A p \in 1 .. Len(sent[k]) : sent[k][p] # Nul
  BY <1>2, DocumentHasNoNul
<1>7. \A p \in 1 .. H : p \in 1 .. Len(sent[k])
  BY <1>5, TextBytes
<1> QED
  BY <1>2, <1>3, <1>4, <1>5, <1>6, <1>7

\* The first x bytes of t end with p, or with all of it but its first byte.
Ends(p, t, x) == \A q \in 2 .. Len(p) : t[x - Len(p) + q] = p[q]

\* Behind its first a bytes t has the bytes of d.
Holds(t, a, d) == \A p \in 1 .. Len(d) : t[a + p] = d[p]

\* Behind the first z of its first x bytes t goes on like the head.
HeadFollows(t, z, x) == \A p \in 1 .. H : z + p <= x => t[z + p] = XMLHead[p]

\* Behind the head of a document there is no other up to that of the next.
LEMMA HeadAtBeginningOnly ==
    ASSUME HeadsArePlain, NEW k \in 1 .. Len(Bodies), NEW t, NEW a \in Nat,
           NEW z \in Nat, z = a + Len(Document(Bodies[k])),
           NEW x \in Nat, a + H + H - 1 <= x, x < z + H,
           Holds(t, a, Document(Bodies[k])), HeadFollows(t, z, x),
           Ends(XMLHead, t, x)
    PROVE  FALSE
<1> DEFINE d == Document(Bodies[k])
           w == Bodies[k] \o XMLEnd
           g == Front(XMLHead)
           f == w \o g
           u == Tail(XMLHead)
<1>2. /\ w \in Seq(Bytes) /\ Len(w) = Len(d) - H /\ Len(w) >= E
      /\ \A p \in 1 .. Len(w) : w[p] = d[H + p]
  BY BodyBytes
<1>3. ~Occurs(u, f)
  BY TextsAreBytes DEF HeadsArePlain
<1>4. /\ g \in Seq(Bytes) /\ Len(g) = H - 1
      /\ \A p \in 1 .. H - 1 : g[p] = XMLHead[p]
      /\ u \in Seq(Bytes) /\ Len(u) = H - 1 /\ Len(u) > 0
      /\ \A p \in 1 .. H - 1 : u[p] = XMLHead[p + 1]
  <2>1. H = Len(XMLHead) /\ H \in Nat /\ H >= 2
    BY TextBytes DEF H
  <2>2. XMLHead \in Seq(Bytes) /\ Len(XMLHead) > 0
    BY <2>1, TextBytes
  <2>3. /\ u \in Seq(Bytes) /\ Len(u) = Len(XMLHead) - 1
        /\ \A p \in 1 .. Len(XMLHead) - 1 : u[p] = XMLHead[p + 1]
    BY <2>2, TailAndFront
  <2>4. /\ g \in Seq(Bytes) /\ Len(g) = Len(XMLHead) - 1
        /\ \A p \in 1 .. Len(XMLHead) - 1 : g[p] = XMLHead[p]
    BY <2>2, TailAndFront
  <2> HIDE DEF u, g
  <2>5. H - 1 > 0
    BY <2>1
  <2> QED
    BY <2>1, <2>3, <2>4, <2>5
<1> HIDE DEF w, g, u
<1>5. /\ f \in Seq(Bytes) /\ Len(f) = Len(w) + Len(g)
      /\ \A p \in 1 .. Len(w) + Len(g) :
            f[p] = IF p <= Len(w) THEN w[p] ELSE g[p - Len(w)]
  <2>1. w \in Seq(Bytes) /\ g \in Seq(Bytes)
    BY <1>2, <1>4
  <2> QED
    BY <2>1, ConcatProperties
<1> HIDE DEF f
<1>6. PICK n \in Nat : n = Len(w)
  BY <1>2, LenProperties
<1>7. Len(d) = n + H /\ H \in Nat /\ H >= 2 /\ z = a + H + n
  <2>1. d \in Seq(Bytes) /\ Len(d) \in Nat
    BY DocumentBytes
  <2> QED
    BY <1>2, <1>6, <2>1, TextBytes
<1>8. ASSUME NEW p \in 1 .. n + H - 1, a + H + p <= x
      PROVE  f[p] = t[a + H + p]
  <2>0. p \in 1 .. Len(w) + Len(g)
    BY <1>4, <1>6, <1>7
  <2>1. CASE p <= n
    <3>1. /\ p \in 1 .. n /\ H + p \in 1 .. n + H
          /\ a + (H + p) = a + H + p
      BY <1>7, <2>1
    <3>2. t[a + H + p] = d[H + p]
      BY <1>7, <3>1 DEF Holds
    <3> QED
      BY <1>2, <1>5, <1>6, <2>0, <2>1, <3>1, <3>2
  <2>2. CASE p > n
    <3>1. /\ p - n \in 1 .. H - 1 /\ p - n \in 1 .. H
          /\ z + (p - n) = a + H + p /\ ~(p <= n)
      BY <1>7, <2>2
    <3>2. t[z + (p - n)] = XMLHead[p - n]
      BY <1>8, <3>1 DEF HeadFollows
    <3> QED
      BY <1>4, <1>5, <1>6, <2>0, <3>1, <3>2
  <2> QED
    BY <2>1, <2>2
<1> DEFINE o == x - a - H - (H - 1)
<1>9. o \in 0 .. n /\ n = Len(f) - Len(u)
  <2>1. o \in 0 .. n
    BY <1>7
  <2> HIDE DEF o
  <2>2. Len(f) = n + (H - 1) /\ Len(u) = H - 1
    BY <1>4, <1>5, <1>6
  <2> QED
    BY <1>7, <2>1, <2>2
<1>10. ASSUME NEW p \in 1 .. Len(u) PROVE f[o + p] = u[p]
  <2>0. p \in 1 .. H - 1
    BY <1>4
  <2>1. /\ o + p \in 1 .. n + H - 1
        /\ a + H + (o + p) = x - H + (p + 1)
        /\ a + H + (o + p) <= x
        /\ p + 1 \in 2 .. H
    <3>1. /\ o \in 0 .. n /\ o = x - a - H - (H - 1) /\ H \in Nat /\ n \in Nat
          /\ a \in Nat /\ x \in Nat
      BY <1>7, <1>9
    <3> HIDE DEF o
    <3> QED
      BY <2>0, <3>1
  <2> HIDE DEF o
  <2>2. f[o + p] = t[x - H + (p + 1)]
    BY <1>8, <2>1
  <2> QED
    BY <1>4, <2>0, <2>1, <2>2 DEF Ends, H
<1> HIDE DEF o
<1> QED
  BY <1>3, <1>4, <1>5, <1>9, <1>10, OccursByBytes

\* One byte more.
LEMMA LatestByte ==
    ASSUME NEW s \in Seq(Bytes), NEW t, NEW pos \in Nat, Latest(s, t, pos),
           t[pos + 1] \in Bytes
    PROVE  Latest(Append(s, t[pos + 1]), t, pos + 1)
<1> DEFINE b == t[pos + 1]
           v == Append(s, b)
<1> HIDE DEF b
<1>1. /\ Len(v) = Len(s) + 1 /\ v[Len(s) + 1] = b
      /\ \A q \in 1 .. Len(s) : v[q] = s[q]
  BY AppendProperties DEF b
<1>2. PICK n \in Nat : n = Len(s)
  BY LenProperties
<1> HIDE DEF v
<1>3. n <= pos /\ \A p \in 1 .. n : s[p] = t[pos - n + p]
  BY <1>2 DEF Latest
<1>4. ASSUME NEW p \in 1 .. n + 1 PROVE v[p] = t[(pos + 1) - (n + 1) + p]
  <2>1. CASE p = n + 1
    <3>1. (pos + 1) - (n + 1) + p = pos + 1
      BY <2>1
    <3> QED
      BY <1>1, <1>2, <2>1, <3>1 DEF b
  <2>2. CASE p # n + 1
    <3>1. p \in 1 .. n /\ (pos + 1) - (n + 1) + p = pos - n + p
      BY <2>2
    <3> QED
      BY <1>1, <1>2, <1>3, <3>1
  <2> QED
    BY <2>1, <2>2
<1>5. Len(v) = n + 1 /\ n + 1 <= pos + 1
  BY <1>1, <1>2, <1>3
<1> QED
  BY <1>4, <1>5 DEF Latest, v, b

\* A matcher that stops after a byte of t has at least the pattern without its
\* first byte there.
LEMMA StopsAtEnd ==
    ASSUME NEW p, Plain(p), NEW s \in Seq(Bytes), NEW t, NEW pos \in Nat,
           Latest(s, t, pos), t[pos + 1] \in Bytes,
           NEW at, Tracks(p, s, at), NextIndex(p, t[pos + 1], at) = Len(p)
    PROVE  Len(p) <= Len(s) + 2 /\ Ends(p, t, pos + 1)
<1>1. PICK n \in Nat : n = Len(s)
  BY LenProperties
<1>2. PICK l \in Nat : l = Len(p) /\ l >= 2
  BY LenProperties DEF Plain
<1>3. at = l - 1 /\ t[pos + 1] = p[l]
  <2>1. at \in 0 .. l - 1
    BY <1>2 DEF Tracks
  <2>2. NextIndex(p, t[pos + 1], at) # 1
    BY <1>2
  <2>3. t[pos + 1] = p[at + 1] /\ at + 1 = l
    BY <1>2, <2>2 DEF NextIndex
  <2> QED
    BY <2>1, <2>3
<1>4. \A k \in 2 .. l - 1 : n - (l - 1) + k > 0 /\ s[n - (l - 1) + k] = p[k]
  BY <1>1, <1>3 DEF Tracks
<1>5. n <= pos /\ \A q \in 1 .. n : s[q] = t[pos - n + q]
  BY <1>1 DEF Latest
<1>6. l <= n + 2
  <2>1. CASE l = 2
    BY <2>1
  <2>2. CASE l # 2
    <3>1. 2 \in 2 .. l - 1
      BY <1>2, <2>2
    <3>2. n - (l - 1) + 2 > 0
      BY <1>4, <3>1
    <3> QED
      BY <3>2
  <2> QED
    BY <2>1, <2>2
<1>7. ASSUME NEW q \in 2 .. l PROVE t[(pos + 1) - l + q] = p[q]
  <2>1. CASE q = l
    <3>1. (pos + 1) - l + q = pos + 1
      BY <2>1
    <3> QED
      BY <1>3, <2>1, <3>1
  <2>2. CASE q # l
    <3>1. q \in 2 .. l - 1
      BY <2>2
    <3>2. n - (l - 1) + q > 0 /\ s[n - (l - 1) + q] = p[q]
      BY <1>4, <3>1
    <3>3. /\ n - (l - 1) + q \in 1 .. n
          /\ pos - n + (n - (l - 1) + q) = (pos + 1) - l + q
      BY <3>1, <3>2
    <3> QED
      BY <1>5, <3>2, <3>3
  <2> QED
    BY <2>1, <2>2
<1> QED
  BY <1>1, <1>2, <1>6, <1>7 DEF Ends

\* A matcher that goes on after a byte of t does not have the pattern there.
LEMMA GoesOnBefore ==
    ASSUME NEW p, Plain(p), NEW s \in Seq(Bytes), NEW t, NEW pos \in Nat,
           Latest(s, t, pos), t[pos + 1] \in Bytes,
           ~Occurs(p, Append(s, t[pos + 1])), Len(p) <= Len(s) + 1,
           \A q \in 1 .. Len(p) : t[pos + 1 - Len(p) + q] = p[q]
    PROVE  FALSE
<1> DEFINE v == Append(s, t[pos + 1])
<1>1. PICK n \in Nat : n = Len(s)
  BY LenProperties
<1>2. PICK l \in Nat : l = Len(p) /\ l >= 2
  BY LenProperties DEF Plain
<1>3. v \in Seq(Bytes) /\ Len(v) = n + 1
  BY <1>1, AppendProperties
<1>4. Latest(v, t, pos + 1)
  BY LatestByte
<1>5. ~Occurs(p, v)
  OBVIOUS
<1> HIDE DEF v
<1>6. /\ l <= n + 1
      /\ \A q \in 1 .. l : t[pos + 1 - l + q] = p[q]
      /\ \A q \in 1 .. n + 1 : v[q] = t[(pos + 1) - (n + 1) + q]
  BY <1>1, <1>2, <1>3, <1>4 DEF Latest
<1> DEFINE o == n + 1 - l
<1>7. o \in 0 .. Len(v) - Len(p)
  BY <1>2, <1>3, <1>6
<1>8. ASSUME NEW q \in 1 .. l PROVE v[o + q] = p[q]
  <2>1. /\ o + q \in 1 .. n + 1
        /\ (pos + 1) - (n + 1) + (o + q) = pos + 1 - l + q
    BY <1>6
  <2> HIDE DEF o
  <2> QED
    BY <1>6, <2>1
<1> HIDE DEF o
<1>9. p \in Seq(Bytes) /\ Len(p) > 0
  BY <1>2 DEF Plain
<1> QED
  BY <1>2, <1>3, <1>5, <1>7, <1>8, <1>9, OccursByBytes

\* The matcher of the head, somewhere in t.
LEMMA AtHead ==
    ASSUME ReceptionTypeOK, SentInv, task = "start",
           NEW t, NEW start, Cut(t, start), NEW m, NEW pos,
           Where(t, start, m, pos), pos < Len(t)
    PROVE  /\ Plain(XMLHead) /\ Len(XMLHead) = H
           /\ seen \in Seq(Bytes) /\ Latest(seen, t, pos)
           /\ Len(t) \in Nat /\ pos \in Nat /\ t[pos + 1] \in Bytes
           /\ start[m] \in Nat
           /\ pos < start[m] + H /\ pos - Len(seen) <= start[m]
           /\ start[m] < Len(t) => m \in 1 .. Len(sent)
           /\ m \in 1 .. Len(sent) + 1
<1>1. Plain(XMLHead) /\ Len(XMLHead) = H
  BY TextsAreBytes DEF Plain, H
<1>2. seen \in Seq(Bytes) /\ Len(sent) \in Nat
  BY LenProperties DEF ReceptionTypeOK
<1>3. /\ Latest(seen, t, pos) /\ pos \in Nat /\ m \in 1 .. Len(sent) + 1
      /\ pos < start[m] + H /\ pos - Len(seen) <= start[m]
  BY DEF Where
<1>4. t \in Seq(Bytes) /\ Len(t) \in Nat /\ start[m] \in Nat
  BY <1>3, LenProperties DEF Cut
<1>5. t[pos + 1] \in Bytes
  BY <1>3, <1>4, ElementOfSeq
<1>6. start[m] < Len(t) => m # Len(sent) + 1
  BY <1>4 DEF Cut
<1>7. start[m] < Len(t) => m \in 1 .. Len(sent)
  <2>1. m # Len(sent) + 1 => m \in 1 .. Len(sent)
    BY <1>2, <1>3
  <2> QED
    BY <1>6, <2>1, Zenon
<1> QED
  BY <1>1, <1>2, <1>3, <1>4, <1>5, <1>7, Zenon

\* UpGetStart stops behind the head of document m ...
LEMMA HeadFound ==
    ASSUME ReceptionTypeOK, SentInv, MatchInv, task = "start",
           NEW t, NEW start, Cut(t, start), NEW m, NEW pos,
           Where(t, start, m, pos), pos < Len(t),
           NextIndex(XMLHead, t[pos + 1], i) = Len(XMLHead)
    PROVE  m \in 1 .. Len(sent) /\ pos + 1 = start[m] + H
<1>1. PICK z \in Nat : z = start[m]
  BY AtHead
<1>2. PICK n \in Nat : n = Len(seen)
  BY LenProperties, AtHead
<1>3. PICK l \in Nat : l = Len(t)
  BY AtHead
<1>4. /\ pos \in Nat /\ pos < l /\ pos < z + H /\ H \in Nat /\ H >= 2
      /\ (z < l => m \in 1 .. Len(sent)) /\ m \in 1 .. Len(sent) + 1
  BY <1>1, <1>3, AtHead, TextBytes
<1>5. H <= n + 2 /\ Ends(XMLHead, t, pos + 1)
  <2>1. Tracks(XMLHead, seen, i)
    BY DEF MatchInv
  <2> QED
    BY <1>2, <2>1, AtHead, StopsAtEnd
<1>6. m \in 1 .. Len(sent) => \A p \in 1 .. H : t[z + p] = XMLHead[p]
  BY <1>1, BytesOfDocuments
<1>7. CASE pos - n = z
  <2>1. m \in 1 .. Len(sent)
    BY <1>4, <1>7
  <2>2. ASSUME pos + 1 # z + H PROVE FALSE
    <3>1. pos + 1 = z + H - 1
      BY <1>4, <1>5, <1>7, <2>2
    <3>2. (pos + 1) - H + 2 = z + 1
      BY <1>4, <3>1
    <3>3. t[(pos + 1) - H + 2] = XMLHead[2]
      BY <1>4, <1>5 DEF Ends, H
    <3>4. t[z + 1] = XMLHead[1]
      BY <1>4, <1>6, <2>1
    <3>5. XMLHead[2] # XMLHead[1]
      <4>1. 2 \in 2 .. Len(XMLHead)
        BY <1>4 DEF H
      <4> QED
        BY <4>1, TextsAreBytes, Zenon
    <3> QED
      BY <3>2, <3>3, <3>4, <3>5, Zenon
  <2> QED
    BY <1>1, <2>1, <2>2
<1>8. CASE pos - n # z
  <2>1. HeadsArePlain /\ m > 1 /\ start[m - 1] + H <= pos - n
    BY <1>1, <1>2, <1>8 DEF Where
  <2>2. m - 1 \in 1 .. Len(sent) /\ m = (m - 1) + 1
    <3>1. Len(sent) \in Nat
      BY LenProperties DEF ReceptionTypeOK
    <3> QED
      BY <1>4, <2>1, <3>1
  <2> DEFINE k == m - 1
  <2> HIDE DEF k
  <2>3. /\ k \in 1 .. Len(Bodies) /\ sent[k] = Document(Bodies[k])
        /\ start[k] \in Nat /\ start[k + 1] = start[k] + Len(sent[k])
        /\ \A p \in 1 .. Len(sent[k]) : t[start[k] + p] = sent[k][p]
    <3>1. k \in 1 .. Len(sent)
      BY <2>2 DEF k
    <3>2. /\ k \in 1 .. Len(Bodies) /\ sent[k] = Document(Bodies[k])
          /\ start[k] \in Nat /\ start[k + 1] = start[k] + Len(sent[k])
      BY <3>1, BytesOfDocuments
    <3>3. \A p \in 1 .. Len(sent[k]) :
             t[start[k] + p] = sent[k][p] /\ sent[k][p] # Nul
      BY <3>1, BytesOfDocuments
    <3> QED
      BY <3>2, <3>3
  <2>4. PICK a \in Nat : a = start[k]
    BY <2>3
  <2>5. z = a + Len(Document(Bodies[k]))
    BY <1>1, <2>2, <2>3, <2>4 DEF k
  <2>6. Holds(t, a, Document(Bodies[k]))
    BY <2>3, <2>4 DEF Holds
  <2>7. a + H <= pos - n
    BY <2>1, <2>4 DEF k
  <2>8. HeadFollows(t, z, pos + 1)
    <3> SUFFICES ASSUME NEW p \in 1 .. H, z + p <= pos + 1
                 PROVE  t[z + p] = XMLHead[p]
      BY DEF HeadFollows
    <3>1. z < l
      BY <1>4
    <3> QED
      BY <1>4, <1>6, <3>1
  <2>9. a + H + H - 1 <= pos + 1
    BY <1>4, <1>5, <2>7
  <2>10. ~(pos + 1 < z + H)
    <3> SUFFICES ASSUME pos + 1 < z + H PROVE FALSE
      OBVIOUS
    <3>1. HeadsArePlain /\ k \in 1 .. Len(Bodies) /\ pos + 1 \in Nat
      BY <1>4, <2>1, <2>3
    <3>2. Ends(XMLHead, t, pos + 1)
      BY <1>5
    <3> QED
      BY <2>5, <2>6, <2>8, <2>9, <3>1, <3>2, HeadAtBeginningOnly
  <2>11. pos + 1 = z + H /\ z < l
    BY <1>4, <2>10
  <2> QED
    BY <1>1, <1>4, <2>11
<1> QED
  BY <1>7, <1>8

\* ... and goes on before.
LEMMA HeadNotFound ==
    ASSUME ReceptionTypeOK, SentInv, task = "start",
           NEW t, NEW start, Cut(t, start), NEW m, NEW pos,
           Where(t, start, m, pos), pos < Len(t),
           ~Occurs(XMLHead, Append(seen, t[pos + 1]))
    PROVE  pos + 1 < start[m] + H
<1>1. PICK z \in Nat : z = start[m]
  BY AtHead
<1>2. PICK n \in Nat : n = Len(seen)
  BY LenProperties, AtHead
<1>3. PICK l \in Nat : l = Len(t)
  BY AtHead
<1>4. /\ pos \in Nat /\ pos < l /\ pos < z + H /\ H \in Nat /\ H >= 2
      /\ (z < l => m \in 1 .. Len(sent)) /\ pos - n <= z
  BY <1>1, <1>2, <1>3, AtHead, TextBytes
<1>5. ASSUME ~(pos + 1 < z + H) PROVE FALSE
  <2>1. pos + 1 = z + H /\ z < l /\ H <= n + 1
    BY <1>4, <1>5
  <2>0. m \in 1 .. Len(sent)
    BY <1>4, <2>1
  <2>2. \A p \in 1 .. H : t[z + p] = XMLHead[p]
    BY <1>1, <2>0, BytesOfDocuments
  <2>3. \A q \in 1 .. H : t[pos + 1 - H + q] = XMLHead[q]
    <3> SUFFICES ASSUME NEW q \in 1 .. H PROVE t[pos + 1 - H + q] = XMLHead[q]
      OBVIOUS
    <3>1. pos + 1 - H + q = z + q
      BY <1>4, <2>1
    <3> QED
      BY <2>2, <3>1
  <2>4. /\ Plain(XMLHead) /\ seen \in Seq(Bytes) /\ Latest(seen, t, pos)
        /\ t[pos + 1] \in Bytes
    BY AtHead
  <2>5. Len(XMLHead) <= Len(seen) + 1
    BY <1>2, <2>1 DEF H
  <2>6. \A q \in 1 .. Len(XMLHead) : t[pos + 1 - Len(XMLHead) + q] = XMLHead[q]
    BY <2>3 DEF H
  <2> QED
    BY <1>4, <2>4, <2>5, <2>6, GoesOnBefore
<1> QED
  BY <1>1, <1>5

\* The matcher of the tail, inside of document m.
LEMMA AtTail ==
    ASSUME ReceptionTypeOK, SentInv, task = "end",
           NEW t, NEW start, Cut(t, start), NEW m, NEW pos,
           Where(t, start, m, pos), pos < Len(t)
    PROVE  /\ Plain(XMLEnd) /\ Len(XMLEnd) = E
           /\ seen \in Seq(Bytes) /\ Len(seen) \in Nat /\ Latest(seen, t, pos)
           /\ pos \in Nat /\ t[pos + 1] \in Bytes
           /\ m \in 1 .. Len(sent)
           /\ pos = start[m] + H + Len(seen) /\ pos < start[m + 1]
<1>1. Plain(XMLEnd) /\ Len(XMLEnd) = E
  BY TextsAreBytes DEF Plain, E
<1>2. seen \in Seq(Bytes) /\ Len(seen) \in Nat /\ Len(sent) \in Nat
  BY LenProperties DEF ReceptionTypeOK
<1>3. /\ Latest(seen, t, pos) /\ pos \in Nat
      /\ m \in 1 .. Len(sent) + 1 /\ m <= Len(sent)
      /\ pos = start[m] + H + Len(seen) /\ pos < start[m + 1]
  BY DEF Where
<1>4. t \in Seq(Bytes) /\ Len(t) \in Nat
  BY LenProperties DEF Cut
<1>5. t[pos + 1] \in Bytes
  BY <1>3, <1>4, ElementOfSeq
<1>6. m \in 1 .. Len(sent)
  BY <1>2, <1>3
<1> QED
  BY <1>1, <1>2, <1>3, <1>5, <1>6

\* UpGetEnd stops at the end of document m ...
LEMMA TailFound ==
    ASSUME ReceptionTypeOK, SentInv, MatchInv, task = "end",
           NEW t, NEW start, Cut(t, start), NEW m, NEW pos,
           Where(t, start, m, pos), pos < Len(t),
           NextIndex(XMLEnd, t[pos + 1], i) = Len(XMLEnd)
    PROVE  pos + 1 = start[m + 1]
<1>1. m \in 1 .. Len(sent)
  BY AtTail
<1> DEFINE d == Document(Bodies[m])
<1>2. /\ m \in 1 .. Len(Bodies)
      /\ start[m] \in Nat /\ start[m + 1] = start[m] + Len(d)
      /\ \A p \in 1 .. Len(d) : t[start[m] + p] = d[p]
      /\ Len(d) \in Nat
  <2>1. sent[m] = d
    BY <1>1, BytesOfDocuments
  <2> HIDE DEF d
  <2>2. /\ start[m] \in Nat /\ start[m + 1] = start[m] + Len(sent[m])
        /\ \A p \in 1 .. Len(sent[m]) : t[start[m] + p] = sent[m][p]
        /\ Len(sent[m]) \in Nat /\ m \in 1 .. Len(Bodies)
    BY <1>1, BytesOfDocuments
  <2> QED
    BY <2>1, <2>2
<1> HIDE DEF d
<1>3. PICK z \in Nat : z = start[m]
  BY <1>2
<1>4. PICK n \in Nat : n = Len(seen)
  BY AtTail
<1>5. PICK c \in Nat : c = Len(d)
  BY <1>2
<1>6. /\ pos \in Nat /\ pos = z + H + n /\ pos < z + c
      /\ H \in Nat /\ E \in Nat /\ E >= 2 /\ H >= 2
  <2>1. pos = start[m] + H + Len(seen) /\ pos < start[m + 1] /\ pos \in Nat
    BY AtTail
  <2>2. pos = z + H + n
    BY <1>3, <1>4, <2>1, Zenon
  <2>3. start[m + 1] = z + c
    BY <1>2, <1>3, <1>5, Zenon
  <2>4. pos < z + c
    BY <2>1, <2>3, Zenon
  <2> QED
    BY <2>1, <2>2, <2>4, TextBytes
<1>7. E <= n + 2 /\ Ends(XMLEnd, t, pos + 1)
  <2>1. Tracks(XMLEnd, seen, i)
    BY DEF MatchInv
  <2> QED
    BY <1>4, <2>1, AtTail, StopsAtEnd
<1>8. PICK x \in Nat : x = H + n + 1
  BY <1>6
<1>9. x \in H + E - 1 .. Len(d)
  BY <1>5, <1>6, <1>7, <1>8
<1>10. ASSUME NEW q \in 2 .. E PROVE d[x - E + q] = XMLEnd[q]
  <2>1. x - E + q \in 1 .. Len(d) /\ z + (x - E + q) = (pos + 1) - E + q
    BY <1>5, <1>6, <1>7, <1>8
  <2>2. d[x - E + q] = t[z + (x - E + q)]
    BY <1>2, <1>3, <2>1
  <2>3. t[(pos + 1) - E + q] = XMLEnd[q]
    BY <1>7 DEF Ends, E
  <2> QED
    BY <2>1, <2>2, <2>3
<1>11. x = Len(d)
  BY <1>2, <1>9, <1>10, TailAtEndOnly DEF d
<1>12. pos + 1 = z + c
  BY <1>5, <1>6, <1>8, <1>11
<1> QED
  BY <1>2, <1>3, <1>5, <1>12

\* ... and goes on before.
LEMMA TailNotFound ==
    ASSUME ReceptionTypeOK, SentInv, task = "end",
           NEW t, NEW start, Cut(t, start), NEW m, NEW pos,
           Where(t, start, m, pos), pos < Len(t),
           ~Occurs(XMLEnd, Append(seen, t[pos + 1]))
    PROVE  pos + 1 < start[m + 1]
<1>1. m \in 1 .. Len(sent)
  BY AtTail
<1> DEFINE d == Document(Bodies[m])
           e == Len(Bodies[m])
<1>2. /\ m \in 1 .. Len(Bodies)
      /\ start[m] \in Nat /\ start[m + 1] = start[m] + Len(d)
      /\ \A p \in 1 .. Len(d) : t[start[m] + p] = d[p]
  <2>1. sent[m] = d
    BY <1>1, BytesOfDocuments
  <2> HIDE DEF d
  <2>2. /\ start[m] \in Nat /\ start[m + 1] = start[m] + Len(sent[m])
        /\ \A p \in 1 .. Len(sent[m]) : t[start[m] + p] = sent[m][p]
        /\ m \in 1 .. Len(Bodies)
    BY <1>1, BytesOfDocuments
  <2> QED
    BY <2>1, <2>2
<1>3. /\ Len(d) = H + e + E /\ e \in Nat
      /\ \A p \in 1 .. E : d[H + e + p] = XMLEnd[p]
  BY <1>2, DocumentBytes, TextBytes
<1> HIDE DEF d, e
<1>4. PICK z \in Nat : z = start[m]
  BY <1>2
<1>5. PICK n \in Nat : n = Len(seen)
  BY AtTail
<1>6. /\ pos \in Nat /\ pos = z + H + n /\ pos < z + H + e + E
      /\ H \in Nat /\ E \in Nat /\ E >= 2 /\ H >= 2
  <2>1. pos = start[m] + H + Len(seen) /\ pos < start[m + 1] /\ pos \in Nat
    BY AtTail
  <2>2. pos = z + H + n
    BY <1>4, <1>5, <2>1, Zenon
  <2>3. start[m + 1] = z + (H + e + E)
    BY <1>2, <1>3, <1>4, Zenon
  <2>4. pos < z + (H + e + E)
    BY <2>1, <2>3, Zenon
  <2> QED
    BY <1>3, <2>1, <2>2, <2>4, TextBytes
<1>7. ASSUME ~(pos + 1 < z + H + e + E) PROVE FALSE
  <2>1. pos + 1 = z + H + e + E /\ E <= n + 1
    BY <1>3, <1>6, <1>7
  <2>2. ASSUME NEW q \in 1 .. E PROVE t[pos + 1 - E + q] = XMLEnd[q]
    <3>1. /\ pos + 1 - E + q = z + (H + e + q)
          /\ H + e + q \in 1 .. Len(d)
      BY <1>3, <1>6, <2>1
    <3>2. t[z + (H + e + q)] = d[H + e + q]
      BY <1>2, <1>4, <3>1
    <3> QED
      BY <1>3, <3>1, <3>2
  <2>3. /\ Plain(XMLEnd) /\ seen \in Seq(Bytes) /\ Latest(seen, t, pos)
        /\ t[pos + 1] \in Bytes
    BY AtTail
  <2>4. Len(XMLEnd) <= Len(seen) + 1
    BY <1>5, <2>1 DEF E
  <2>5. \A q \in 1 .. Len(XMLEnd) : t[pos + 1 - Len(XMLEnd) + q] = XMLEnd[q]
    BY <2>2 DEF E
  <2> QED
    BY <1>6, <2>3, <2>4, <2>5, GoesOnBefore
<1>8. pos + 1 < z + H + e + E
  BY <1>7
<1>9. start[m + 1] = z + (H + e + E)
  BY <1>2, <1>3, <1>4, Zenon
<1>10. pos + 1 < z + (H + e + E)
  BY <1>3, <1>6, <1>8
<1> QED
  BY <1>9, <1>10

\* strlen of a buffer whose first k bytes are not Nul.
LEMMA TextBegins ==
    ASSUME NEW buffer \in [FileOffsets -> Bytes], NEW k \in 0 .. RecSize,
           \A q \in 0 .. k - 1 : buffer[q] # Nul
    PROVE  /\ Text(buffer) \in Seq(Bytes)
           /\ Len(Text(buffer)) >= k /\ Len(Text(buffer)) <= RecSize
           /\ \A p \in 1 .. Len(Text(buffer)) : Text(buffer)[p] = buffer[p - 1]
           /\ \A q \in FileOffsets : buffer[q] = Nul => Len(Text(buffer)) <= q
<1> DEFINE End(l) == /\ l = RecSize \/ buffer[l] = Nul
                     /\ \A q \in 0 .. l - 1 : buffer[q] # Nul
           n == CHOOSE l \in 0 .. RecSize : End(l)
<1>1. n \in 0 .. RecSize /\ End(n)
  <2>1. \E l \in 0 .. RecSize : End(l)
    BY EndOfText
  <2> QED
    BY <2>1
<1>2. Text(buffer) = [l \in 1 .. n |-> buffer[l - 1]]
  BY DEF Text
<1> HIDE DEF n
<1>3. Len(Text(buffer)) = n
  BY <1>1, <1>2, SizesFit
<1>4. n >= k
  BY <1>1, SizesFit
<1>5. \A q \in FileOffsets : buffer[q] = Nul => n <= q
  BY <1>1, SizesFit
<1> QED
  BY <1>1, <1>2, <1>3, <1>4, <1>5, TextIsSeq, SizesFit

\* A sequence cut in two.
LEMMA CutInTwo ==
    ASSUME NEW S, NEW s \in Seq(S), NEW n \in 0 .. Len(s)
    PROVE  /\ Len(SubSeq(s, 1, n)) = n
           /\ \A p \in 1 .. n : SubSeq(s, 1, n)[p] = s[p]
           /\ Len(SubSeq(s, n + 1, Len(s))) = Len(s) - n
           /\ \A p \in 1 .. Len(s) - n : SubSeq(s, n + 1, Len(s))[p] = s[n + p]
<1>1. PICK l \in Nat : l = Len(s)
  BY LenProperties
<1>2. \A k \in 1 .. l : s[k] \in S
  BY <1>1, ElementOfSeq
<1> DEFINE a == SubSeq(s, 1, n)
           z == SubSeq(s, n + 1, l)
<1>3. /\ Len(a) = IF 1 <= n THEN n - 1 + 1 ELSE 0
      /\ \A p \in 1 .. n - 1 + 1 : a[p] = s[1 + p - 1]
  <2>1. \A k \in 1 .. n : s[k] \in S
    BY <1>1, <1>2
  <2>2. 1 \in Int /\ n \in Int
    BY <1>1
  <2> QED
    BY <2>1, <2>2, SubSeqProperties
<1>4. /\ Len(z) = IF n + 1 <= l THEN l - (n + 1) + 1 ELSE 0
      /\ \A p \in 1 .. l - (n + 1) + 1 : z[p] = s[(n + 1) + p - 1]
  <2>1. \A k \in n + 1 .. l : s[k] \in S
    BY <1>1, <1>2
  <2>2. n + 1 \in Int /\ l \in Int
    BY <1>1
  <2> QED
    BY <2>1, <2>2, SubSeqProperties
<1> HIDE DEF a, z
<1>5. Len(a) = n /\ \A p \in 1 .. n : a[p] = s[p]
  <2>1. ASSUME NEW p \in 1 .. n PROVE a[p] = s[p]
    <3>1. p \in 1 .. n - 1 + 1 /\ 1 + p - 1 = p
      BY <1>1
    <3> QED
      BY <1>3, <3>1
  <2> QED
    BY <1>1, <1>3, <2>1
<1>6. Len(z) = l - n /\ \A p \in 1 .. l - n : z[p] = s[n + p]
  <2>1. ASSUME NEW p \in 1 .. l - n PROVE z[p] = s[n + p]
    <3>1. p \in 1 .. l - (n + 1) + 1 /\ (n + 1) + p - 1 = n + p
      BY <1>1
    <3> QED
      BY <1>4, <3>1
  <2> QED
    BY <1>1, <1>4, <2>1
<1> QED
  BY <1>1, <1>5, <1>6 DEF a, z

\* How many bytes are where.
LEMMA FlowLengths ==
    ASSUME ReceptionTypeOK, HeldInv
    PROVE  /\ NData \in Nat /\ HeldLen \in Nat /\ HeldFrom \in Nat
           /\ Len(net) \in Nat /\ Len(wire) \in Nat
BY LenProperties, RoomForBytes, SizesFit
   DEF ReceptionTypeOK, QueueTypeOK, HeldInv, HeldLen, HeldFrom

\* Nothing moves.
LEMMA FlowStays ==
    ASSUME NEW t, NEW pos, Flow(t, pos),
           UNCHANGED <<queueVars, net, wire, gRecBuf>>,
           HeldLen' = HeldLen, HeldLen = 0 \/ HeldFrom' = HeldFrom,
           HeldLen \in Nat
    PROVE  Flow(t, pos)'
<1>1. Content' = Content
  BY DEF Content
<1>2. \A p \in 1 .. HeldLen : gRecBuf'[HeldFrom' + p - 1] = t[pos + NData + p]
  BY DEF Flow
<1> HIDE DEF Content, HeldLen, HeldFrom
<1> QED
  BY <1>1, <1>2 DEF Flow

\* The bytes read from the module.
LEMMA FlowOfRead ==
    ASSUME ReceptionTypeOK, HeldInv, NEW t, NEW pos \in Nat, Flow(t, pos), ReadOk
    PROVE  Flow(t, pos)'
<1>1. PICK nd \in Nat : nd = NData
  BY FlowLengths
<1>2. PICK l \in Nat : l = Len(net)
  BY FlowLengths
<1>3. PICK w \in Nat : w = Len(wire)
  BY FlowLengths
<1>4. PICK a \in 0 .. l : a = Answered /\ a <= MaxRec
  BY <1>2, SizesFit DEF Answered
<1>5. HeldLen = 0
  BY DEF HeldLen, ReadOk
<1>6. /\ pos + nd + l + w = Len(t)
      /\ \A p \in 1 .. nd : Content[p] = t[pos + p]
      /\ \A p \in 1 .. l : net[p] = t[pos + nd + p]
      /\ \A p \in 1 .. w : wire[p] = t[pos + nd + l + p]
  <2>1. pos + nd + 0 = pos + nd
    OBVIOUS
  <2> QED
    BY <1>1, <1>2, <1>3, <1>5, <2>1 DEF Flow
<1>7. /\ rx' = "count" /\ ~err' /\ len' = a /\ NData' = nd /\ wire' = wire
      /\ Content' = Content
      /\ gRecBuf' = Stored(a) /\ net' = SubSeq(net, a + 1, Len(net))
  BY <1>1, <1>4 DEF ReadOk, Content
<1>8. HeldLen' = a /\ HeldFrom' = 0
  BY <1>7 DEF HeldLen, HeldFrom
<1>9. Len(net') = l - a /\ \A p \in 1 .. l - a : net'[p] = net[a + p]
  <2>1. net \in Seq(Bytes) /\ a \in 0 .. Len(net)
    BY <1>2, <1>4 DEF ReceptionTypeOK
  <2> QED
    BY <1>2, <1>7, <2>1, CutInTwo
<1>10. ASSUME NEW p \in 1 .. a PROVE gRecBuf'[0 + p - 1] = t[pos + nd + p]
  <2>1. 0 + p - 1 \in RecOffsets /\ 0 + p - 1 < a /\ (0 + p - 1) + 1 = p /\ p \in 1 .. l
    BY <1>4, SizesFit
  <2>2. gRecBuf'[0 + p - 1] = net[p]
    BY <1>7, <2>1 DEF Stored
  <2> QED
    BY <1>6, <2>1, <2>2
<1>11. ASSUME NEW p \in 1 .. l - a PROVE net'[p] = t[pos + nd + a + p]
  <2>1. a + p \in 1 .. l /\ pos + nd + (a + p) = pos + nd + a + p
    BY <1>4
  <2> QED
    BY <1>6, <1>9, <2>1
<1>12. pos + nd + a + (l - a) + w = Len(t)
  BY <1>6
<1>13. \A p \in 1 .. w : wire[p] = t[pos + nd + a + (l - a) + p]
  <2>1. pos + nd + a + (l - a) = pos + nd + l
    OBVIOUS
  <2> QED
    BY <1>6, <2>1
<1> QED
  BY <1>3, <1>6, <1>7, <1>8, <1>9, <1>10, <1>11, <1>12, <1>13 DEF Flow

\* A byte goes from the answer to the queue.
LEMMA FlowOfWrite ==
    ASSUME ReceptionTypeOK, PointersAgree, HeldInv,
           NEW t, NEW pos \in Nat, Flow(t, pos), WriteByte, NData < MaxData
    PROVE  Flow(t, pos)'
<1>1. PICK nd \in Nat : nd = NData
  BY FlowLengths
<1>2. PICK h \in Nat : h = HeldLen
  BY FlowLengths
<1>3. PICK l \in Nat : l = Len(net)
  BY FlowLengths
<1>4. PICK w \in Nat : w = Len(wire)
  BY FlowLengths
<1>5. PICK f \in Nat : f = wi
  BY DEF ReceptionTypeOK
<1>6. PICK g : g = gRecBuf
  OBVIOUS
<1>7. /\ rx = "write" /\ rx' = "write" /\ wi' = f + 1 /\ wi < len
      /\ len' = len /\ net' = net /\ wire' = wire /\ gRecBuf' = g
      /\ QueueWrite(g[f])
  BY <1>5, <1>6, RoomForBytes DEF WriteByte, ReceptionTypeOK, QueueTypeOK
<1>8. /\ h > 0 /\ HeldFrom = f /\ HeldLen' = h - 1 /\ HeldFrom' = f + 1
  <2>1. h = len - f /\ len \in Nat /\ f < len
    BY <1>2, <1>5, <1>7, SizesFit DEF HeldLen, ReceptionTypeOK
  <2>2. HeldLen' = len - (f + 1) /\ HeldFrom' = f + 1 /\ HeldFrom = f
    BY <1>5, <1>7 DEF HeldLen, HeldFrom
  <2> QED
    BY <2>1, <2>2
<1>9. g[f] \in Bytes
  BY <1>5, <1>6, <1>7, SizesFit DEF ReceptionTypeOK
<1>10. Content' = Append(Content, g[f]) /\ NData' = nd + 1
  <2>1. QueueTypeOK
    BY DEF ReceptionTypeOK
  <2> QED
    BY <1>1, <1>7, <1>9, <2>1, WriteAppends DEF QueueWrite
<1>11. Content \in Seq(Bytes) /\ Len(Content) = nd
  BY <1>1, ContentIsSeq DEF ReceptionTypeOK
<1>12. /\ pos + nd + h + l + w = Len(t)
       /\ \A p \in 1 .. nd : Content[p] = t[pos + p]
       /\ \A p \in 1 .. h : g[f + p - 1] = t[pos + nd + p]
       /\ \A p \in 1 .. l : net[p] = t[pos + nd + h + p]
       /\ \A p \in 1 .. w : wire[p] = t[pos + nd + h + l + p]
  BY <1>1, <1>2, <1>3, <1>4, <1>6, <1>8 DEF Flow
<1>13. ASSUME NEW p \in 1 .. nd + 1 PROVE Content'[p] = t[pos + p]
  <2>1. CASE p = nd + 1
    <3>1. Content'[p] = g[f]
      BY <1>9, <1>10, <1>11, <2>1, AppendProperties
    <3>2. 1 \in 1 .. h /\ f + 1 - 1 = f /\ pos + nd + 1 = pos + p
      BY <1>8, <2>1
    <3> QED
      BY <1>12, <3>1, <3>2
  <2>2. CASE p # nd + 1
    <3>1. p \in 1 .. nd
      BY <2>2
    <3>2. Content'[p] = Content[p]
      BY <1>9, <1>10, <1>11, <3>1, AppendProperties
    <3> QED
      BY <1>12, <3>1, <3>2
  <2> QED
    BY <2>1, <2>2
<1>14. ASSUME NEW p \in 1 .. h - 1
       PROVE  g[(f + 1) + p - 1] = t[pos + (nd + 1) + p]
  <2>1. /\ p + 1 \in 1 .. h /\ (f + 1) + p - 1 = f + (p + 1) - 1
        /\ pos + (nd + 1) + p = pos + nd + (p + 1)
    BY <1>8
  <2> QED
    BY <1>12, <2>1
<1>15. pos + (nd + 1) + (h - 1) = pos + nd + h
  BY <1>8
<1>16. /\ pos + NData' + HeldLen' = pos + nd + h
       /\ Len(net') = l /\ Len(wire') = w
  BY <1>3, <1>4, <1>7, <1>8, <1>10, <1>15, Zenon
<1>17. /\ \A p \in 1 .. NData' : Content'[p] = t[pos + p]
       /\ \A p \in 1 .. HeldLen' :
             gRecBuf'[HeldFrom' + p - 1] = t[pos + NData' + p]
  BY <1>7, <1>8, <1>10, <1>13, <1>14, Zenon
<1>18. /\ \A p \in 1 .. l : net'[p] = t[pos + nd + h + p]
       /\ \A p \in 1 .. w : wire'[p] = t[pos + nd + h + l + p]
  BY <1>7, <1>12, Zenon
<1> QED
  BY <1>12, <1>16, <1>17, <1>18, Zenon DEF Flow

\* A byte is taken from the queue: it is the next one sent.
LEMMA FlowOfQueueRead ==
    ASSUME ReceptionTypeOK, PointersAgree, HeldInv,
           NEW t, NEW pos \in Nat, Flow(t, pos), QueueRead,
           UNCHANGED <<net, wire, gRecBuf, rx, len, wi, err>>
    PROVE  /\ Buf[Out] = t[pos + 1] /\ pos < Len(t)
           /\ Flow(t, pos + 1)'
<1>1. PICK nd \in Nat : nd = NData
  BY FlowLengths
<1>2. PICK h \in Nat : h = HeldLen
  BY FlowLengths
<1>3. PICK l \in Nat : l = Len(net)
  BY FlowLengths
<1>4. PICK w \in Nat : w = Len(wire)
  BY FlowLengths
<1>5. PICK f \in Nat : f = HeldFrom
  BY FlowLengths
<1>6. nd > 0 /\ NData' = nd - 1
  BY <1>1 DEF QueueRead
<1>7. HeldLen' = h /\ HeldFrom' = f
  BY <1>2, <1>5 DEF HeldLen, HeldFrom
<1>8. QueueTypeOK
  BY DEF ReceptionTypeOK
<1>9. /\ Content # <<>> /\ Content \in Seq(Bytes) /\ Len(Content) = nd
      /\ Content' = Tail(Content) /\ Buf[Out] = Content[1]
  <2>1. Head(Content) = Content[1]
    BY <1>8, ContentIsSeq DEF QueueTypeOK
  <2> QED
    BY <1>1, <1>8, <2>1, ReadTakesHead, ContentIsSeq DEF QueueRead
<1>10. /\ pos + nd + h + l + w = Len(t)
       /\ \A p \in 1 .. nd : Content[p] = t[pos + p]
       /\ \A p \in 1 .. h : gRecBuf[f + p - 1] = t[pos + nd + p]
       /\ \A p \in 1 .. l : net[p] = t[pos + nd + h + p]
       /\ \A p \in 1 .. w : wire[p] = t[pos + nd + h + l + p]
  BY <1>1, <1>2, <1>3, <1>4, <1>5 DEF Flow
<1>11. Buf[Out] = t[pos + 1] /\ pos < Len(t)
  <2>1. 1 \in 1 .. nd
    BY <1>6
  <2>2. Content[1] = t[pos + 1]
    BY <1>10, <2>1
  <2>3. pos < pos + nd + h + l + w
    BY <1>6
  <2> QED
    BY <1>9, <1>10, <2>2, <2>3, Zenon
<1>12. ASSUME NEW p \in 1 .. nd - 1 PROVE Content'[p] = t[(pos + 1) + p]
  <2>1. p + 1 \in 1 .. nd /\ pos + (p + 1) = (pos + 1) + p /\ p \in 1 .. Len(Content) - 1
    BY <1>9
  <2>2. Content'[p] = Content[p + 1]
    BY <1>9, <2>1, HeadTailProperties
  <2> QED
    BY <1>10, <2>1, <2>2
<1>13. (pos + 1) + (nd - 1) = pos + nd
  OBVIOUS
<1>14. Flow(t, pos + 1)'
  BY <1>3, <1>4, <1>6, <1>7, <1>10, <1>12, <1>13 DEF Flow
<1> QED
  BY <1>11, <1>14

\* Bytes come in.
LEMMA FlowOfDelivery ==
    ASSUME ReceptionTypeOK, HeldInv,
           NEW t, NEW pos \in Nat, Flow(t, pos), NEW k, Deliver(k)
    PROVE  Flow(t, pos)'
<1>1. PICK x \in Nat : x = pos + NData + HeldLen
  BY FlowLengths
<1>2. PICK l \in Nat : l = Len(net)
  BY FlowLengths
<1>3. PICK w \in Nat : w = Len(wire)
  BY FlowLengths
<1>4. k \in 1 .. w /\ k \in 0 .. Len(wire)
  BY <1>3 DEF Deliver
<1> DEFINE a == SubSeq(wire, 1, k)
           z == SubSeq(wire, k + 1, Len(wire))
<1>5. /\ a \in Seq(Bytes) /\ Len(a) = k /\ Len(z) = w - k
      /\ \A p \in 1 .. k : a[p] = wire[p]
      /\ \A p \in 1 .. w - k : z[p] = wire[k + p]
  <2>1. wire \in Seq(Bytes)
    BY DEF ReceptionTypeOK
  <2>2. a \in Seq(Bytes)
    BY <1>3, <1>4, <2>1, PieceOfSeq
  <2> QED
    BY <1>3, <1>4, <2>1, <2>2, CutInTwo
<1>6. net' = net \o a /\ wire' = z
  BY DEF Deliver
<1> HIDE DEF a, z
<1>7. /\ Len(net') = l + k
      /\ \A p \in 1 .. l + k : net'[p] = IF p <= l THEN net[p] ELSE a[p - l]
  <2>1. net \in Seq(Bytes)
    BY DEF ReceptionTypeOK
  <2> QED
    BY <1>2, <1>5, <1>6, <2>1, ConcatProperties
<1>8. /\ x + l + w = Len(t)
      /\ \A p \in 1 .. l : net[p] = t[x + p]
      /\ \A p \in 1 .. w : wire[p] = t[x + l + p]
  BY <1>1, <1>2, <1>3 DEF Flow
<1>9. ASSUME NEW p \in 1 .. l + k PROVE net'[p] = t[x + p]
  <2>1. CASE p <= l
    <3>1. p \in 1 .. l
      BY <2>1
    <3>2. net'[p] = net[p]
      BY <1>7, <2>1
    <3> QED
      BY <1>8, <3>1, <3>2
  <2>2. CASE ~(p <= l)
    <3>1. p - l \in 1 .. k /\ p - l \in 1 .. w /\ x + l + (p - l) = x + p
      BY <1>4, <2>2
    <3>2. net'[p] = wire[p - l]
      BY <1>5, <1>7, <2>2, <3>1
    <3> QED
      BY <1>8, <3>1, <3>2
  <2> QED
    BY <2>1, <2>2
<1>10. ASSUME NEW p \in 1 .. w - k PROVE wire'[p] = t[x + (l + k) + p]
  <2>1. k + p \in 1 .. w /\ x + l + (k + p) = x + (l + k) + p
    BY <1>4
  <2> QED
    BY <1>5, <1>6, <1>8, <2>1
<1>11. x + (l + k) + (w - k) = Len(t)
  BY <1>4, <1>8
<1>12. Content' = Content /\ NData' = NData /\ gRecBuf' = gRecBuf
       /\ HeldLen' = HeldLen /\ HeldFrom' = HeldFrom
  BY DEF Deliver, Content, HeldLen, HeldFrom
<1> HIDE DEF Content
<1>13. /\ \A p \in 1 .. NData : Content[p] = t[pos + p]
       /\ \A p \in 1 .. HeldLen : gRecBuf[HeldFrom + p - 1] = t[pos + NData + p]
  BY DEF Flow
<1>14. /\ pos + NData' + HeldLen' = x /\ Len(net') = l + k
       /\ Len(wire') = w - k
  BY <1>1, <1>5, <1>6, <1>7, <1>12
<1> QED
  BY <1>9, <1>10, <1>11, <1>12, <1>13, <1>14 DEF Flow

\* What the receiver does with its variables leaves no more to be written than
\* there is.
LEMMA HeldStep ==
    ASSUME ReceptionTypeOK, HeldInv, [ReceptionNext]_receptionVars
    PROVE  HeldInv'
<1>1. wi \in Nat /\ len \in Nat
  BY SizesFit DEF ReceptionTypeOK
<1>2. CASE CountAnswer
  BY <1>1, <1>2, SizesFit DEF CountAnswer, HeldInv
<1>3. CASE WriteByte
  BY <1>1, <1>3 DEF WriteByte, HeldInv
<1>4. CASE rx' # "write" \/ UNCHANGED <<rx, wi, len>>
  BY <1>4 DEF HeldInv
<1> QED
  BY <1>2, <1>3, <1>4
     DEF ReceptionNext, Module, Receiver, Fails, Reader, Send, Deliver, Begin,
         Listen, GiveUpListening, ReadOk, ReadFails, PostAndClear,
         PackLostQuery, HeadByte, TailByte, WaitByte, PendOk, PendTimeout,
         HandOver

\* What is sent are the documents, one after the other.
LEMMA SentStep ==
    ASSUME ReceptionTypeOK, SentInv, [ReceptionNext]_receptionVars
    PROVE  SentInv'
<1>1. CASE Send
  <2>1. PICK n \in Nat : n = Len(sent)
    BY LenProperties DEF ReceptionTypeOK
  <2> DEFINE d == Document(Bodies[n + 1])
  <2>2. /\ n < Len(Bodies) /\ sent' = Append(sent, d)
    BY <1>1, <2>1 DEF Send
  <2>3. n + 1 \in 1 .. Len(Bodies)
    BY <2>1, <2>2, TextsAreBytes, LenProperties
  <2>4. d \in Seq(Bytes)
    BY <2>3, DocumentBytes
  <2>5. /\ Len(sent') = n + 1 /\ sent'[n + 1] = d
        /\ \A k \in 1 .. n : sent'[k] = sent[k]
    BY <2>1, <2>2, <2>4, AppendProperties DEF ReceptionTypeOK
  <2>6. ASSUME NEW k \in 1 .. n + 1
        PROVE  sent'[k] = Document(Bodies[k])
    <3>1. CASE k = n + 1
      BY <2>5, <3>1
    <3>2. CASE k # n + 1
      <4>1. k \in 1 .. n
        BY <2>1, <3>2
      <4> QED
        BY <2>1, <2>5, <4>1 DEF SentInv
    <3> QED
      BY <3>1, <3>2
  <2> QED
    BY <2>3, <2>5, <2>6 DEF SentInv
<1>2. CASE UNCHANGED sent
  BY <1>2 DEF SentInv
<1> QED
  BY <1>1, <1>2
     DEF ReceptionNext, Module, Receiver, Fails, Reader, Deliver, Begin,
         Listen, GiveUpListening, ReadOk, ReadFails, CountAnswer, WriteByte,
         PostAndClear, PackLostQuery, HeadByte, TailByte, WaitByte, PendOk,
         PendTimeout, HandOver

\* An attempt to read that fails but takes nothing leaves all as it was.
LEMMA FlowOfFailedRead ==
    ASSUME ReceptionTypeOK, HeldInv, NEW t, NEW pos \in Nat, Flow(t, pos),
           NEW k \in Nat, ReadFails(0, k)
    PROVE  Flow(t, pos)'
<1>1. k = 0
  BY DEF ReadFails
<1>2. gRecBuf' = gRecBuf
  <2>1. gRecBuf' = [p \in RecOffsets |-> gRecBuf[p]]
    <3>1. \A p \in RecOffsets : ~(p < 0)
      BY SizesFit
    <3> QED
      BY <1>1, <3>1 DEF ReadFails, Stored
  <2> QED
    BY <2>1 DEF ReceptionTypeOK
<1>3. net' = net
  <2>1. net \in Seq(Bytes) /\ net' = SubSeq(net, 0 + 1, Len(net))
    BY DEF ReadFails, ReceptionTypeOK
  <2>2. PICK l \in Nat : l = Len(net)
    BY FlowLengths
  <2>3. /\ Len(net') = l /\ \A p \in 1 .. l : net'[p] = net[p]
    <3>1. 0 \in 0 .. Len(net)
      BY <2>2
    <3>2. Len(net') = l - 0 /\ \A p \in 1 .. l - 0 : net'[p] = net[0 + p]
      BY <2>1, <2>2, <3>1, CutInTwo
    <3> QED
      BY <2>2, <3>2
  <2>4. net' \in Seq(Bytes)
    <3>1. 1 \in Nat \ {0} /\ l \in 0 .. Len(net)
      BY <2>2
    <3> QED
      BY <2>1, <2>2, <3>1, PieceOfSeq
  <2> QED
    BY <2>1, <2>2, <2>3, <2>4, SeqEqual
<1>4. HeldLen = 0 /\ HeldLen' = 0
  BY DEF ReadFails, HeldLen
<1>5. UNCHANGED <<queueVars, net, wire, gRecBuf>>
  BY <1>2, <1>3 DEF ReadFails
<1> QED
  BY <1>4, <1>5, FlowStays

\* As long as nothing is lost, the bytes keep their order on the way from the
\* module through gRecBuf into the queue.
LEMMA ReceiverFlow ==
    ASSUME ReceptionTypeOK, PointersAgree, HeldInv,
           NEW t, NEW pos \in Nat, Flow(t, pos),
           Module \/ Receiver \/ Fails \/ PackLostQuery, ~spoiled'
    PROVE  Flow(t, pos)'
<1>1. CASE Module
  BY <1>1, FlowOfDelivery DEF Module
<1>2. CASE ReadOk
  BY <1>2, FlowOfRead
<1>3. CASE WriteByte
  <2>1. NData < MaxData
    BY <1>3 DEF WriteByte, QueueWrite
  <2> QED
    BY <1>3, <2>1, FlowOfWrite
<1>4. CASE CountAnswer
  <2>1. ~(err /\ len > 0) /\ len \in Nat /\ rx = "count" /\ rx' = "write"
        /\ len' = len /\ wi' = 0
    BY <1>4, SizesFit DEF CountAnswer, ReceptionTypeOK
  <2>2. HeldLen' = HeldLen /\ HeldFrom' = HeldFrom
    BY <2>1 DEF HeldLen, HeldFrom
  <2>3. UNCHANGED <<queueVars, net, wire, gRecBuf>>
    BY <1>4 DEF CountAnswer
  <2> QED
    BY <2>2, <2>3, FlowLengths, FlowStays
<1>5. CASE PostAndClear
  <2>1. HeldLen = 0 /\ HeldLen' = 0
    BY <1>5, SizesFit DEF PostAndClear, HeldLen, ReceptionTypeOK
  <2>2. CASE gRecBuf' = gRecBuf
    BY <1>5, <2>1, <2>2, FlowStays DEF PostAndClear
  <2>3. Content' = Content
    BY <1>5 DEF PostAndClear, Content
  <2>4. NData' = NData /\ net' = net /\ wire' = wire
    BY <1>5 DEF PostAndClear
  <2>5. \A p \in 1 .. 0 : FALSE
    OBVIOUS
  <2> HIDE DEF Content, HeldLen, HeldFrom
  <2> QED
    BY <2>1, <2>3, <2>4, <2>5 DEF Flow
<1>6. CASE Begin \/ Listen \/ GiveUpListening
  <2>1. HeldLen = 0 /\ HeldLen' = 0
    BY <1>6 DEF Begin, Listen, GiveUpListening, HeldLen
  <2>2. UNCHANGED <<queueVars, net, wire, gRecBuf>>
    BY <1>6 DEF Begin, Listen, GiveUpListening
  <2> QED
    BY <2>1, <2>2, FlowStays
<1>7. CASE PackLostQuery
  <2>1. HeldLen' = HeldLen /\ HeldFrom' = HeldFrom
    BY <1>7 DEF PackLostQuery, HeldLen, HeldFrom
  <2>2. UNCHANGED <<queueVars, net, wire, gRecBuf>>
    BY <1>7 DEF PackLostQuery
  <2> QED
    BY <2>1, <2>2, FlowLengths, FlowStays
<1>8. ASSUME NEW taken \in {0, Answered}, NEW k \in Broken \cup {0},
             ReadFails(taken, k)
      PROVE  Flow(t, pos)'
  <2>1. Answered \in Nat
    BY FlowLengths, SizesFit DEF Answered
  <2>2. taken = 0
    <3>1. ~(taken > 0)
      BY <1>8, Zenon DEF ReadFails
    <3>2. taken \in Nat
      BY <2>1
    <3> QED
      BY <3>1, <3>2
  <2>3. k \in Nat
    BY BreaksFit
  <2> QED
    BY <1>8, <2>2, <2>3, FlowOfFailedRead
<1> QED
  BY <1>1, <1>2, <1>3, <1>4, <1>5, <1>6, <1>7, <1>8 DEF Receiver, Fails

\* Nothing of the documents and of TaskUpRecGprs changes.
LEMMA TheRestStays ==
    ASSUME NEW t, NEW start, NEW m, NEW pos,
           Cut(t, start), Where(t, start, m, pos), Gathered(t, start, m, pos),
           UNCHANGED <<sent, task, seen, gGprsRec, j, file, received, timeouts>>
    PROVE  Cut(t, start)' /\ Where(t, start, m, pos)' /\ Gathered(t, start, m, pos)'
<1>1. Cut(t, start)'
  BY DEF Cut
<1>2. Where(t, start, m, pos)'
  BY DEF Where, Latest
<1>3. Gathered(t, start, m, pos)'
  BY DEF Gathered
<1> QED
  BY <1>1, <1>2, <1>3

\* The network and the receiver leave the reader where it is.
LEMMA OthersKeepOrder ==
    ASSUME ReceptionTypeOK, PointersAgree, HeldInv,
           NEW t, NEW start, NEW m, NEW pos, InOrder(t, start, m, pos),
           \/ Module \/ Receiver \/ Fails \/ PackLostQuery
           \/ WaitByte \/ PendOk \/ UNCHANGED receptionVars,
           ~spoiled'
    PROVE  InOrder(t, start, m, pos)'
<1>1. /\ Cut(t, start) /\ Flow(t, pos) /\ Where(t, start, m, pos)
      /\ Gathered(t, start, m, pos)
  BY DEF InOrder
<1>2. pos \in Nat
  BY <1>1 DEF Where
<1>3. Flow(t, pos)'
  <2>1. CASE Module \/ Receiver \/ Fails \/ PackLostQuery
    BY <1>1, <1>2, <2>1, ReceiverFlow
  <2>2. CASE WaitByte \/ PendOk \/ UNCHANGED receptionVars
    <3>1. HeldLen' = HeldLen /\ HeldFrom' = HeldFrom
      BY <2>2 DEF WaitByte, PendOk, HeldLen, HeldFrom
    <3>2. UNCHANGED <<queueVars, net, wire, gRecBuf>>
      BY <2>2 DEF WaitByte, PendOk
    <3> QED
      BY <1>1, <3>1, <3>2, FlowLengths, FlowStays
  <2> QED
    BY <2>1, <2>2
<1>4. UNCHANGED <<sent, task, seen, gGprsRec, j, file, received, timeouts>>
  BY DEF Module, Receiver, Fails, Deliver, Begin, Listen, GiveUpListening,
         ReadOk, ReadFails, CountAnswer, WriteByte, PostAndClear,
         PackLostQuery, WaitByte, PendOk
<1>5. Cut(t, start)' /\ Where(t, start, m, pos)' /\ Gathered(t, start, m, pos)'
  BY <1>1, <1>4, TheRestStays
<1> QED
  BY <1>3, <1>5 DEF InOrder

\* The reader is in the midst of what has been sent.
LEMMA PlaceInSent ==
    ASSUME ReceptionTypeOK, HeldInv,
           NEW t, NEW start, NEW m, NEW pos, InOrder(t, start, m, pos)
    PROVE  /\ t \in Seq(Bytes) /\ Len(t) \in Nat /\ pos \in Nat /\ pos <= Len(t)
           /\ m \in 1 .. Len(sent) + 1 /\ Len(sent) \in Nat
           /\ start[m] \in Nat /\ start[m] <= Len(t)
<1>1. t \in Seq(Bytes) /\ Len(t) \in Nat /\ Len(sent) \in Nat
  BY LenProperties DEF InOrder, Cut, ReceptionTypeOK
<1>2. pos \in Nat /\ m \in 1 .. Len(sent) + 1
  BY DEF InOrder, Where
<1>3. pos + NData + HeldLen + Len(net) + Len(wire) = Len(t)
  BY DEF InOrder, Flow
<1>4. pos <= Len(t)
  BY <1>1, <1>2, <1>3, FlowLengths
<1>5. start[m] \in Nat /\ start[m] <= Len(t)
  BY <1>2 DEF InOrder, Cut
<1> QED
  BY <1>1, <1>2, <1>4, <1>5

\* A sequence with another behind it.
LEMMA PutBehind ==
    ASSUME NEW S, NEW s \in Seq(S), NEW d \in Seq(S)
    PROVE  /\ s \o d \in Seq(S) /\ Len(s \o d) = Len(s) + Len(d)
           /\ Len(s) \in Nat /\ Len(d) \in Nat
           /\ \A p \in 1 .. Len(s) : (s \o d)[p] = s[p]
           /\ \A p \in 1 .. Len(d) : (s \o d)[Len(s) + p] = d[p]
<1> DEFINE v == s \o d
<1>1. PICK n \in Nat : n = Len(s)
  BY LenProperties
<1>2. PICK l \in Nat : l = Len(d)
  BY LenProperties
<1>3. /\ v \in Seq(S) /\ Len(v) = n + l
      /\ \A p \in 1 .. n + l : v[p] = IF p <= n THEN s[p] ELSE d[p - n]
  BY <1>1, <1>2, ConcatProperties
<1> HIDE DEF v
<1>4. ASSUME NEW p \in 1 .. n PROVE v[p] = s[p]
  <2>1. p \in 1 .. n + l /\ p <= n
    OBVIOUS
  <2> QED
    BY <1>3, <2>1
<1>5. ASSUME NEW p \in 1 .. l PROVE v[n + p] = d[p]
  <2>1. n + p \in 1 .. n + l /\ ~(n + p <= n) /\ (n + p) - n = p
    OBVIOUS
  <2> QED
    BY <1>3, <2>1
<1> QED
  BY <1>1, <1>2, <1>3, <1>4, <1>5 DEF v

\* One document more, behind what has been sent.
Longer(start, n, l) == [k \in 1 .. n + 2 |-> IF k <= n + 1 THEN start[k] ELSE l]

\* The next document sent: what the reader has seen stays where it is.
LEMMA SendKeepsOrder ==
    ASSUME ReceptionTypeOK, SentInv, HeldInv,
           NEW t, NEW start, NEW m, NEW pos, InOrder(t, start, m, pos), Send
    PROVE  \E u, b : InOrder(u, b, m, pos)'
<1>1. PICK n \in Nat : n = Len(sent)
  BY PlaceInSent
<1>2. PICK l \in Nat : l = Len(t)
  BY PlaceInSent
<1> DEFINE d == Document(Bodies[n + 1])
           u == t \o d
           b == Longer(start, n, l + Len(d))
<1>3. /\ d \in Seq(Bytes) /\ wire' = wire \o d /\ sent' = Append(sent, d)
  <2>1. n + 1 \in 1 .. Len(Bodies)
    BY <1>1, TextsAreBytes, LenProperties DEF Send
  <2> QED
    BY <1>1, <2>1, DocumentBytes DEF Send
<1> HIDE DEF d
<1>4. PICK c \in Nat : c = Len(d)
  BY <1>3, LenProperties
<1>5. /\ u \in Seq(Bytes) /\ Len(u) = l + c
      /\ \A p \in 1 .. l : u[p] = t[p]
      /\ \A p \in 1 .. c : u[l + p] = d[p]
  BY <1>2, <1>3, <1>4, PlaceInSent, PutBehind
<1> HIDE DEF u
<1>6. /\ Len(sent') = n + 1 /\ sent'[n + 1] = d
      /\ \A k \in 1 .. n : sent'[k] = sent[k]
  BY <1>1, <1>3, AppendProperties DEF ReceptionTypeOK
<1>7. /\ b \in [1 .. n + 2 -> Nat] /\ b[n + 2] = l + c
      /\ \A k \in 1 .. n + 1 : b[k] = start[k]
  <2>1. \A k \in 1 .. n + 1 : start[k] \in Nat
    BY <1>1 DEF InOrder, Cut
  <2> QED
    BY <1>4, <2>1 DEF Longer
<1> HIDE DEF b
<1>8. /\ start[1] = 0 /\ start[n + 1] = l
      /\ \A k \in 1 .. n + 1 : start[k] \in Nat /\ start[k] <= l
      /\ \A k \in 1 .. n : start[k + 1] = start[k] + Len(sent[k])
      /\ \A k \in 1 .. n : \A p \in 1 .. Len(sent[k]) :
            t[start[k] + p] = sent[k][p]
  BY <1>1, <1>2 DEF InOrder, Cut
<1>9. Cut(u, b)'
  <2>1. b[1] = 0 /\ b[(n + 1) + 1] = l + c
    BY <1>7, <1>8
  <2>2. \A k \in 1 .. (n + 1) + 1 : b[k] <= l + c
    <3> SUFFICES ASSUME NEW k \in 1 .. (n + 1) + 1 PROVE b[k] <= l + c
      OBVIOUS
    <3>1. CASE k = n + 2
      BY <1>7, <3>1
    <3>2. CASE k # n + 2
      <4>1. k \in 1 .. n + 1
        BY <3>2
      <4>2. start[k] \in Nat /\ start[k] <= l /\ b[k] = start[k]
        BY <1>7, <1>8, <4>1
      <4> QED
        BY <4>2
    <3> QED
      BY <3>1, <3>2
  <2>3. ASSUME NEW k \in 1 .. n + 1
        PROVE  /\ b[k + 1] = b[k] + Len(sent'[k])
               /\ \A p \in 1 .. Len(sent'[k]) : u[b[k] + p] = sent'[k][p]
    <3>1. CASE k = n + 1
      <4>1. b[k] = l /\ sent'[k] = d /\ b[k + 1] = l + c
        BY <1>6, <1>7, <1>8, <3>1
      <4> QED
        BY <1>4, <1>5, <4>1
    <3>2. CASE k # n + 1
      <4>1. k \in 1 .. n /\ k \in 1 .. n + 1 /\ k + 1 \in 1 .. n + 1
        BY <3>2
      <4>2. /\ b[k] = start[k] /\ b[k + 1] = start[k + 1]
            /\ sent'[k] = sent[k]
            /\ start[k + 1] = start[k] + Len(sent[k])
            /\ start[k + 1] \in Nat /\ start[k + 1] <= l
        BY <1>6, <1>7, <1>8, <4>1
      <4>3. PICK z \in Nat : z = start[k]
        BY <1>8, <4>1
      <4>4. PICK e \in Nat : e = Len(sent[k])
        BY <1>1, <4>1, LenProperties, ElementOfSeq DEF ReceptionTypeOK
      <4>5. z + e <= l
        BY <4>2, <4>3, <4>4
      <4>6. ASSUME NEW p \in 1 .. e PROVE u[z + p] = sent[k][p]
        <5>1. z + p \in 1 .. l
          BY <4>5
        <5>2. u[z + p] = t[z + p]
          BY <1>5, <5>1
        <5>3. t[z + p] = sent[k][p]
          BY <1>8, <4>1, <4>3, <4>4
        <5> QED
          BY <5>2, <5>3
      <4> QED
        BY <4>2, <4>3, <4>4, <4>6
    <3> QED
      BY <3>1, <3>2
  <2>4. b \in [1 .. (n + 1) + 1 -> Nat]
    BY <1>7
  <2> QED
    BY <1>5, <1>6, <2>1, <2>2, <2>3, <2>4 DEF Cut
<1>10. pos \in Nat /\ pos <= l /\ m \in 1 .. n + 1
  BY <1>1, <1>2, PlaceInSent
<1>11. Flow(u, pos)'
  <2>1. PICK x \in Nat : x = pos + NData + HeldLen + Len(net)
    BY <1>10, FlowLengths
  <2>2. PICK w \in Nat : w = Len(wire)
    BY FlowLengths
  <2>3. x + w = l /\ \A p \in 1 .. w : wire[p] = t[x + p]
    BY <1>2, <2>1, <2>2 DEF InOrder, Flow
  <2>4. /\ Len(wire') = w + c
        /\ \A p \in 1 .. w : wire'[p] = wire[p]
        /\ \A p \in 1 .. c : wire'[w + p] = d[p]
    BY <1>3, <1>4, <2>2, PutBehind DEF ReceptionTypeOK
  <2>5. ASSUME NEW p \in 1 .. w + c PROVE wire'[p] = u[x + p]
    <3>1. CASE p <= w
      <4>1. p \in 1 .. w /\ x + p \in 1 .. l
        BY <2>3, <3>1
      <4> QED
        BY <1>5, <2>3, <2>4, <4>1
    <3>2. CASE ~(p <= w)
      <4>1. PICK r \in 1 .. c : r = p - w
        BY <3>2
      <4>2. p = w + r /\ x + p = l + r
        BY <2>3, <4>1
      <4> QED
        BY <1>5, <2>4, <4>2
    <3> QED
      BY <3>1, <3>2
  <2>6. /\ Content' = Content /\ NData' = NData /\ HeldLen' = HeldLen
        /\ HeldFrom' = HeldFrom /\ gRecBuf' = gRecBuf /\ net' = net
    BY DEF Send, Content, HeldLen, HeldFrom
  <2> HIDE DEF Content, HeldLen, HeldFrom
  <2>7. /\ \A p \in 1 .. NData : Content[p] = u[pos + p]
        /\ \A p \in 1 .. HeldLen : gRecBuf[HeldFrom + p - 1] = u[pos + NData + p]
        /\ \A p \in 1 .. Len(net) : net[p] = u[pos + NData + HeldLen + p]
    <3>1. PICK nd \in Nat : nd = NData
      BY FlowLengths
    <3>2. PICK h \in Nat : h = HeldLen
      BY FlowLengths
    <3>3. PICK y \in Nat : y = Len(net)
      BY FlowLengths
    <3>4. pos + nd + h + y <= l
      BY <2>1, <2>3, <3>1, <3>2, <3>3
    <3>5. /\ \A p \in 1 .. nd : Content[p] = t[pos + p]
          /\ \A p \in 1 .. h : gRecBuf[HeldFrom + p - 1] = t[pos + nd + p]
          /\ \A p \in 1 .. y : net[p] = t[pos + nd + h + p]
      BY <3>1, <3>2, <3>3 DEF InOrder, Flow
    <3>6. /\ \A p \in 1 .. nd : pos + p \in 1 .. l
          /\ \A p \in 1 .. h : pos + nd + p \in 1 .. l
          /\ \A p \in 1 .. y : pos + nd + h + p \in 1 .. l
      BY <1>10, <3>4
    <3> QED
      BY <1>5, <3>1, <3>2, <3>3, <3>5, <3>6
  <2>8. /\ pos + NData' + HeldLen' + Len(net') = x /\ Len(wire') = w + c
        /\ x + (w + c) = Len(u)
    <3>1. pos + NData' + HeldLen' + Len(net') = x
      BY <2>1, <2>6, Zenon
    <3>2. x + (w + c) = l + c
      BY <2>3
    <3> QED
      BY <1>5, <2>4, <3>1, <3>2
  <2> QED
    BY <2>5, <2>6, <2>7, <2>8 DEF Flow
<1>12. UNCHANGED <<task, seen, gGprsRec, j, file, received, timeouts>>
  BY DEF Send
<1>13. Where(u, b, m, pos)'
  <2>1. Where(t, start, m, pos)
    BY DEF InOrder
  <2>2. Latest(seen, u, pos)
    <3>1. PICK y \in Nat : y = Len(seen)
      BY LenProperties DEF ReceptionTypeOK
    <3>2. y <= pos /\ \A p \in 1 .. y : seen[p] = t[pos - y + p]
      BY <2>1, <3>1 DEF Where, Latest
    <3>3. \A p \in 1 .. y : pos - y + p \in 1 .. l
      BY <1>10, <3>2
    <3> QED
      BY <1>5, <3>1, <3>2, <3>3 DEF Latest
  <2>3. m \in 1 .. (n + 1) + 1 /\ b[m] = start[m]
    BY <1>7, <1>10
  <2>4. m > 1 => b[m - 1] = start[m - 1]
    BY <1>7, <1>10
  <2>5. m <= n => m <= n + 1 /\ b[m + 1] = start[m + 1]
    BY <1>7, <1>10
  <2>6. Latest(seen, u, pos)'
    BY <1>12, <2>2 DEF Latest
  <2> QED
    BY <1>1, <1>6, <1>10, <1>12, <2>1, <2>3, <2>4, <2>5, <2>6 DEF Where
<1>14. Gathered(u, b, m, pos)'
  <2>1. Gathered(t, start, m, pos) /\ Where(t, start, m, pos)
    BY DEF InOrder
  <2>2. PICK z \in Nat : z = start[m] /\ z = b[m]
    BY <1>7, <1>8, <1>10
  <2>3. task \in {"end", "hand"} => m <= n /\ sent'[m] = sent[m]
    BY <1>1, <1>6, <1>10, <2>1 DEF Where
  <2>4. ASSUME task = "end"
        PROVE  /\ Len(file) + j = pos - z
               /\ \A p \in 1 .. Len(file) : file[p] = u[z + p]
               /\ \A q \in 0 .. j - 1 : gGprsRec[q] = u[z + Len(file) + q + 1]
    <3>1. PICK y \in Nat : y = Len(file)
      BY LenProperties DEF ReceptionTypeOK
    <3>2. PICK o \in Nat : o = j
      BY SizesFit DEF ReceptionTypeOK
    <3>3. /\ y + o = pos - z
          /\ \A p \in 1 .. y : file[p] = t[z + p]
          /\ \A q \in 0 .. o - 1 : gGprsRec[q] = t[z + y + q + 1]
      BY <2>1, <2>2, <2>4, <3>1, <3>2 DEF Gathered
    <3>4. /\ \A p \in 1 .. y : z + p \in 1 .. l
          /\ \A q \in 0 .. o - 1 : z + y + q + 1 \in 1 .. l
      BY <1>10, <3>3
    <3> QED
      BY <1>5, <3>1, <3>2, <3>3, <3>4
  <2> QED
    BY <1>12, <2>1, <2>2, <2>3, <2>4 DEF Gathered
<1> QED
  BY <1>9, <1>11, <1>13, <1>14 DEF InOrder

\* What both matchers take from the queue.
LEMMA ReadsNext ==
    ASSUME ReceptionTypeOK, PointersAgree, HeldInv,
           NEW t, NEW start, NEW m, NEW pos, InOrder(t, start, m, pos),
           HeadByte \/ TailByte
    PROVE  /\ Buf[Out] = t[pos + 1] /\ t[pos + 1] \in Bytes /\ pos < Len(t)
           /\ Flow(t, pos + 1)' /\ Cut(t, start)'
<1>1. pos \in Nat /\ Flow(t, pos) /\ Cut(t, start)
  BY DEF InOrder, Where
<1>2. QueueRead /\ UNCHANGED <<net, wire, gRecBuf, rx, len, wi, err, sent>>
  BY DEF HeadByte, TailByte
<1>3. Buf[Out] = t[pos + 1] /\ pos < Len(t) /\ Flow(t, pos + 1)'
  BY <1>1, <1>2, FlowOfQueueRead
<1>4. Cut(t, start)'
  BY <1>1, <1>2 DEF Cut
<1>5. t[pos + 1] \in Bytes
  BY <1>3 DEF ReceptionTypeOK, QueueTypeOK
<1> QED
  BY <1>3, <1>4, <1>5

\* UpGetStart with one byte more.
LEMMA HeadByteKeepsOrder ==
    ASSUME ReceptionTypeOK, PointersAgree, HeldInv, SentInv, MatchInv, MatchInv',
           NEW t, NEW start, NEW m, NEW pos, InOrder(t, start, m, pos), HeadByte
    PROVE  InOrder(t, start, m, pos + 1)'
<1> DEFINE b == t[pos + 1]
<1>1. /\ Buf[Out] = b /\ b \in Bytes /\ pos < Len(t)
      /\ Flow(t, pos + 1)' /\ Cut(t, start)'
  BY ReadsNext
<1>2. /\ task = "start" /\ Cut(t, start) /\ Where(t, start, m, pos)
      /\ Gathered(t, start, m, pos) /\ pos \in Nat /\ m \in 1 .. Len(sent) + 1
  BY DEF HeadByte, InOrder, Where
<1>3. UNCHANGED <<sent, gGprsRec, j, received, timeouts>>
  BY DEF HeadByte
<1>4. CASE NextIndex(XMLHead, b, i) = Len(XMLHead)
  <2>1. task' = "end" /\ file' = XMLHead /\ seen' = <<>>
    BY <1>1, <1>4 DEF HeadByte
  <2>2. m \in 1 .. Len(sent) /\ pos + 1 = start[m] + H
    BY <1>1, <1>2, <1>4, HeadFound
  <2>3. PICK z \in Nat : z = start[m]
    BY <1>2, PlaceInSent
  <2>4. /\ start[m + 1] = z + Len(sent[m])
        /\ Len(sent[m]) \in Nat /\ Len(sent[m]) >= H + E
        /\ \A p \in 1 .. H : t[z + p] = XMLHead[p]
    BY <1>2, <2>2, <2>3, BytesOfDocuments
  <2>5. pos + 1 < start[m + 1]
    <3>1. PICK c \in Nat : c = Len(sent[m]) /\ c >= H + E
      BY <2>4
    <3>2. pos + 1 < z + c
      BY <2>2, <2>3, <3>1, TextBytes
    <3> QED
      BY <2>4, <3>1, <3>2
  <2>6. Where(t, start, m, pos + 1)'
    <3>1. Latest(<<>>, t, pos + 1)
      <4>1. Len(<<>>) = 0
        BY EmptySeq
      <4> QED
        BY <1>2, <4>1 DEF Latest
    <3>2. Latest(seen, t, pos + 1)'
      BY <2>1, <3>1 DEF Latest
    <3>3. /\ m <= Len(sent) /\ pos + 1 = start[m] + H + Len(<<>>)
      <4>1. Len(<<>>) = 0 /\ start[m] + H + 0 = start[m] + H /\ m <= Len(sent)
        BY <2>2, <2>3, EmptySeq, TextBytes, PlaceInSent
      <4> QED
        BY <2>2, <4>1
    <3>4. timeouts = 0 => m = Len(received) + 1
      BY <1>2 DEF Where
    <3>5. pos + 1 \in Nat
      BY <1>2
    <3> QED
      BY <1>2, <1>3, <2>1, <2>5, <3>2, <3>3, <3>4, <3>5 DEF Where
  <2>7. Gathered(t, start, m, pos + 1)'
    <3>1. j = 0 /\ Len(file') = H
      BY <1>2, <2>1 DEF Gathered, H
    <3>2. Len(file') + 0 = (pos + 1) - z
      BY <1>2, <2>2, <2>3, <3>1, TextBytes
    <3>3. \A p \in 1 .. Len(file') : file'[p] = t[z + p]
      BY <2>1, <2>4, <3>1
    <3>4. \A q \in 0 .. 0 - 1 : FALSE
      OBVIOUS
    <3> QED
      BY <1>2, <1>3, <2>1, <2>3, <3>1, <3>2, <3>3, <3>4 DEF Gathered
  <2> QED
    BY <1>1, <2>6, <2>7 DEF InOrder
<1>5. CASE NextIndex(XMLHead, b, i) # Len(XMLHead)
  <2>1. task' = "start" /\ file' = file /\ seen' = Append(seen, b)
    BY <1>1, <1>2, <1>5 DEF HeadByte
  <2>2. pos + 1 < start[m] + H
    <3>1. ~Occurs(XMLHead, Append(seen, b))
      BY <2>1 DEF MatchInv
    <3> QED
      BY <1>1, <1>2, <3>1, HeadNotFound
  <2>3. Latest(Append(seen, b), t, pos + 1)
    BY <1>1, <1>2, LatestByte DEF Where, ReceptionTypeOK
  <2>4. PICK y \in Nat : y = Len(seen) /\ Len(Append(seen, b)) = y + 1
    BY <1>1, LenProperties, AppendProperties DEF ReceptionTypeOK
  <2>5. (pos + 1) - (y + 1) = pos - y /\ pos + 1 \in Nat
    BY <1>2
  <2>6. Where(t, start, m, pos + 1)'
    <3>1. Latest(seen, t, pos + 1)'
      BY <2>1, <2>3 DEF Latest
    <3>2. (pos + 1) - Len(seen') = pos - Len(seen)
      BY <2>1, <2>4, <2>5
    <3> HIDE DEF b
    <3> QED
      BY <1>2, <1>3, <2>1, <2>2, <2>5, <3>1, <3>2 DEF Where
  <2>7. Gathered(t, start, m, pos + 1)'
    BY <1>2, <1>3, <2>1 DEF Gathered
  <2> QED
    BY <1>1, <2>6, <2>7 DEF InOrder
<1> QED
  BY <1>4, <1>5

\* The buffer with the next byte of the document in it.
LEMMA BufferOfDocument ==
    ASSUME ReceptionTypeOK, SentInv, task = "end",
           NEW t, NEW start, Cut(t, start), NEW m \in 1 .. Len(sent),
           NEW pos \in Nat, Gathered(t, start, m, pos), pos < start[m + 1],
           t[pos + 1] \in Bytes
    PROVE  LET b == t[pos + 1]
               B == BufferWith(b)
           IN  /\ B \in [FileOffsets -> Bytes] /\ B[RecSize - 1] = Nul
               /\ \A q \in 0 .. j : /\ B[q] = t[start[m] + Len(file) + q + 1]
                                    /\ B[q] # Nul
               /\ timeouts = 0 => \A q \in j + 1 .. RecSize - 1 : B[q] = Nul
<1> DEFINE b == t[pos + 1]
           B == BufferWith(b)
<1>1. PICK z \in Nat : z = start[m]
  BY BytesOfDocuments
<1>2. PICK c \in Nat : c = Len(sent[m])
  BY BytesOfDocuments
<1>3. PICK y \in Nat : y = Len(file)
  BY LenProperties DEF ReceptionTypeOK
<1>4. PICK o \in Nat : o = j /\ o <= RecSize - 2
  BY SizesFit DEF ReceptionTypeOK
<1>5. y + o = pos - z /\ \A q \in 0 .. o - 1 : gGprsRec[q] = t[z + y + q + 1]
  BY <1>1, <1>3, <1>4 DEF Gathered
<1>6. pos < z + c
  BY <1>1, <1>2, BytesOfDocuments
<1>7. \A p \in 1 .. c : t[z + p] # Nul
  <2>1. \A p \in 1 .. c : t[z + p] = sent[m][p] /\ sent[m][p] # Nul
    BY <1>1, <1>2, BytesOfDocuments
  <2> QED
    BY <2>1
<1>8. /\ B \in [FileOffsets -> Bytes] /\ B[o] = b
      /\ \A q \in FileOffsets : q # o => B[q] = gGprsRec[q]
  <2>1. gGprsRec \in [FileOffsets -> Bytes] /\ o \in FileOffsets /\ b \in Bytes
    BY <1>4, SizesFit DEF ReceptionTypeOK
  <2> HIDE DEF b
  <2> QED
    BY <1>4, <2>1 DEF BufferWith
<1> HIDE DEF B, b
<1>9. RecSize - 1 \in FileOffsets /\ RecSize - 1 # o
  BY <1>4, SizesFit
<1>10. B[RecSize - 1] = Nul
  BY <1>8, <1>9 DEF Gathered
<1>11. ASSUME NEW q \in 0 .. o PROVE B[q] = t[z + y + q + 1] /\ B[q] # Nul
  <2>1. B[q] = t[z + y + q + 1]
    <3>1. CASE q = o
      <4>1. z + y + q + 1 = pos + 1
        BY <1>5, <3>1
      <4> QED
        BY <1>8, <3>1, <4>1 DEF b
    <3>2. CASE q # o
      <4>1. q \in 0 .. o - 1 /\ q \in FileOffsets
        BY <1>4, <3>2, SizesFit
      <4> QED
        BY <1>5, <1>8, <3>2, <4>1
    <3> QED
      BY <3>1, <3>2
  <2>2. PICK p \in 1 .. c : p = y + q + 1
    BY <1>5, <1>6
  <2>3. z + y + q + 1 = z + p
    BY <2>2
  <2> QED
    BY <1>7, <2>1, <2>3
<1>12. ASSUME timeouts = 0, NEW q \in o + 1 .. RecSize - 1 PROVE B[q] = Nul
  <2>1. q \in j .. RecSize - 1 /\ q \in FileOffsets /\ q # o
    BY <1>4, SizesFit
  <2>2. gGprsRec[q] = Nul
    BY <1>12, <2>1 DEF Gathered
  <2> QED
    BY <1>8, <2>1, <2>2
<1> QED
  BY <1>1, <1>3, <1>4, <1>8, <1>10, <1>11, <1>12 DEF B, b

\* What of the buffer goes to the file.
LEMMA TextOfBuffer ==
    ASSUME NEW B \in [FileOffsets -> Bytes], NEW o \in 0 .. RecSize - 2,
           \A q \in 0 .. o : B[q] # Nul, B[RecSize - 1] = Nul
    PROVE  /\ Text(B) \in Seq(Bytes) /\ Len(Text(B)) \in Nat
           /\ Len(Text(B)) >= o + 1
           /\ \A p \in 1 .. o + 1 : Text(B)[p] = B[p - 1]
           /\ o + 1 = RecSize - 1 => Len(Text(B)) = o + 1
           /\ (\A q \in o + 1 .. RecSize - 1 : B[q] = Nul) => Len(Text(B)) = o + 1
<1>1. o + 1 \in 0 .. RecSize /\ \A q \in 0 .. (o + 1) - 1 : B[q] # Nul
  BY SizesFit
<1>2. /\ Text(B) \in Seq(Bytes) /\ Len(Text(B)) >= o + 1
      /\ \A p \in 1 .. Len(Text(B)) : Text(B)[p] = B[p - 1]
      /\ \A q \in FileOffsets : B[q] = Nul => Len(Text(B)) <= q
  BY <1>1, TextBegins
<1>3. PICK l \in Nat : l = Len(Text(B))
  BY <1>2, LenProperties
<1>4. l <= RecSize - 1
  <2>1. RecSize - 1 \in FileOffsets
    BY SizesFit
  <2> QED
    BY <1>2, <1>3, <2>1
<1>5. ASSUME \A q \in o + 1 .. RecSize - 1 : B[q] = Nul PROVE l <= o + 1
  <2>1. o + 1 \in o + 1 .. RecSize - 1 /\ o + 1 \in FileOffsets
    BY SizesFit
  <2> QED
    BY <1>2, <1>3, <1>5, <2>1
<1> QED
  BY <1>2, <1>3, <1>4, <1>5, SizesFit

\* What the flush of the buffer leaves in the file.
LEMMA FileOfDocument ==
    ASSUME NEW f \in Seq(Bytes), NEW x \in Seq(Bytes), NEW t, NEW z \in Nat,
           NEW o \in Nat, Len(x) >= o + 1,
           \A p \in 1 .. Len(f) : f[p] = t[z + p],
           \A p \in 1 .. o + 1 : x[p] = t[z + Len(f) + (p - 1) + 1]
    PROVE  /\ f \o x \in Seq(Bytes) /\ Len(f \o x) = Len(f) + Len(x)
           /\ \A p \in 1 .. Len(f) + o + 1 : (f \o x)[p] = t[z + p]
<1> DEFINE v == f \o x
<1>1. PICK y \in Nat : y = Len(f)
  BY LenProperties
<1>2. PICK l \in Nat : l = Len(x) /\ l >= o + 1
  BY LenProperties
<1>3. /\ v \in Seq(Bytes) /\ Len(v) = y + l
      /\ \A p \in 1 .. y : v[p] = f[p]
      /\ \A p \in 1 .. l : v[y + p] = x[p]
  BY <1>1, <1>2, PutBehind
<1> HIDE DEF v
<1>4. ASSUME NEW p \in 1 .. y + o + 1 PROVE v[p] = t[z + p]
  <2>1. CASE p <= y
    <3>1. p \in 1 .. y
      BY <2>1
    <3> QED
      BY <1>1, <1>3, <3>1
  <2>2. CASE ~(p <= y)
    <3>1. PICK r \in 1 .. o + 1 : r = p - y
      BY <2>2
    <3>2. p = y + r /\ r \in 1 .. l /\ z + y + (r - 1) + 1 = z + p
      BY <1>2, <3>1
    <3>3. x[r] = t[z + y + (r - 1) + 1]
      BY <1>1, <3>1
    <3> QED
      BY <1>3, <3>2, <3>3
  <2> QED
    BY <2>1, <2>2
<1> QED
  BY <1>1, <1>2, <1>3, <1>4 DEF v

\* UpGetEnd with one byte more: the byte goes through gGprsRec into the file,
\* and the file ends with the document.
LEMMA TailByteGathers ==
    ASSUME ReceptionTypeOK, SentInv, task = "end",
           NEW t, NEW start, Cut(t, start), NEW m \in 1 .. Len(sent),
           NEW pos \in Nat, Gathered(t, start, m, pos), pos < start[m + 1],
           t[pos + 1] \in Bytes, Buf[Out] = t[pos + 1], TailByte,
           task' = "hand" => pos + 1 = start[m + 1]
    PROVE  Gathered(t, start, m, pos + 1)'
<1> DEFINE b == t[pos + 1]
           B == BufferWith(b)
           x == Text(B)
<1>1. PICK z \in Nat : z = start[m]
  BY BytesOfDocuments
<1>2. PICK y \in Nat : y = Len(file)
  BY LenProperties DEF ReceptionTypeOK
<1>3. PICK o \in 0 .. RecSize - 2 : o = j
  BY DEF ReceptionTypeOK
<1>4. /\ B \in [FileOffsets -> Bytes] /\ B[RecSize - 1] = Nul
      /\ \A q \in 0 .. o : B[q] = t[z + y + q + 1] /\ B[q] # Nul
      /\ timeouts = 0 => \A q \in o + 1 .. RecSize - 1 : B[q] = Nul
  <2>1. /\ B \in [FileOffsets -> Bytes] /\ B[RecSize - 1] = Nul
        /\ \A q \in 0 .. j : /\ B[q] = t[start[m] + Len(file) + q + 1]
                             /\ B[q] # Nul
        /\ timeouts = 0 => \A q \in j + 1 .. RecSize - 1 : B[q] = Nul
    BY BufferOfDocument
  <2> HIDE DEF B
  <2> QED
    BY <1>1, <1>2, <1>3, <2>1
<1>5. /\ task' \in {"end", "hand"} /\ UNCHANGED <<timeouts, sent>>
      /\ \/ /\ o + 1 = RecSize - 1 \/ task' = "hand"
            /\ file' = file \o x /\ j' = 0
            /\ gGprsRec' = [k \in FileOffsets |-> Nul]
         \/ /\ task' = "end" /\ file' = file /\ j' = o + 1 /\ gGprsRec' = B
  BY <1>3 DEF TailByte
<1> HIDE DEF B, b
<1>6. /\ y + o = pos - z /\ \A p \in 1 .. y : file[p] = t[z + p]
  BY <1>1, <1>2, <1>3 DEF Gathered
<1>7. /\ x \in Seq(Bytes) /\ Len(x) \in Nat /\ Len(x) >= o + 1
      /\ \A p \in 1 .. o + 1 : x[p] = B[p - 1]
      /\ o + 1 = RecSize - 1 => Len(x) = o + 1
      /\ timeouts = 0 => Len(x) = o + 1
  <2>1. \A q \in 0 .. o : B[q] # Nul
    BY <1>4
  <2> QED
    BY <1>4, <2>1, TextOfBuffer
<1> HIDE DEF x
<1>8. RecSize - 1 \in FileOffsets /\ RecSize \in Nat
  BY SizesFit
<1>9. CASE file' = file \o x /\ j' = 0 /\ gGprsRec' = [k \in FileOffsets |-> Nul]
  <2>1. /\ Len(file') = y + Len(x)
        /\ \A p \in 1 .. y + o + 1 : file'[p] = t[z + p]
    <3>1. ASSUME NEW p \in 1 .. o + 1 PROVE x[p] = t[z + Len(file) + (p - 1) + 1]
      <4>1. p - 1 \in 0 .. o
        OBVIOUS
      <4> QED
        BY <1>2, <1>4, <1>7, <4>1
    <3>2. \A p \in 1 .. Len(file) : file[p] = t[z + p]
      BY <1>2, <1>6
    <3>3. file \in Seq(Bytes) /\ o \in Nat
      BY <1>8 DEF ReceptionTypeOK
    <3> QED
      <4>1. /\ Len(file \o x) = Len(file) + Len(x)
            /\ \A p \in 1 .. Len(file) + o + 1 : (file \o x)[p] = t[z + p]
        <5>1. x \in Seq(Bytes) /\ Len(x) >= o + 1
          BY <1>7
        <5> QED
          BY <3>1, <3>2, <3>3, <5>1, FileOfDocument
      <4> QED
        BY <1>2, <1>9, <4>1
  <2>2. /\ gGprsRec'[RecSize - 1] = Nul
        /\ \A q \in 0 .. RecSize - 1 : gGprsRec'[q] = Nul
    BY <1>8, <1>9
  <2>3. CASE task' = "hand"
    <3>1. PICK c \in Nat : c = Len(sent[m])
      BY BytesOfDocuments
    <3>2. z + c = pos + 1
      BY <1>1, <2>3, <3>1, BytesOfDocuments
    <3>3. c = y + o + 1 /\ c <= y + Len(x)
      BY <1>6, <1>7, <3>2
    <3>4. \A p \in 1 .. c : file'[p] = sent[m][p]
      <4>1. \A p \in 1 .. c : t[z + p] = sent[m][p]
        BY <1>1, <3>1, BytesOfDocuments
      <4> QED
        BY <2>1, <3>3, <4>1
    <3>5. timeouts = 0 => Len(file') = c
      <4>1. timeouts = 0 => Len(file') = y + (o + 1)
        BY <1>7, <2>1, Zenon
      <4>2. c = y + (o + 1)
        BY <3>3
      <4> QED
        BY <4>1, <4>2, Zenon
    <3> QED
      BY <1>5, <1>9, <2>1, <2>2, <2>3, <3>1, <3>3, <3>4, <3>5 DEF Gathered
  <2>4. CASE task' # "hand"
    <3>1. task' = "end" /\ Len(x) = o + 1
      <4>1. o + 1 # 0
        BY <1>3
      <4>2. task' = "end"
        BY <1>5, <2>4
      <4>3. o + 1 = RecSize - 1
        BY <1>5, <1>9, <2>4, <4>1
      <4> QED
        BY <1>7, <4>2, <4>3
    <3>2. Len(file') = y + o + 1 /\ y + o + 1 + 0 = (pos + 1) - z
      BY <1>6, <2>1, <3>1
    <3>3. \A q \in 0 .. 0 - 1 : FALSE
      OBVIOUS
    <3> QED
      BY <1>1, <1>5, <1>9, <2>1, <2>2, <3>1, <3>2, <3>3 DEF Gathered
  <2> QED
    BY <2>3, <2>4
<1>10. CASE task' = "end" /\ file' = file /\ j' = o + 1 /\ gGprsRec' = B
  <2>1. y + (o + 1) = (pos + 1) - z
    BY <1>6
  <2>2. \A q \in 0 .. (o + 1) - 1 : B[q] = t[z + y + q + 1]
    BY <1>4
  <2> QED
    BY <1>1, <1>2, <1>4, <1>5, <1>6, <1>10, <2>1, <2>2 DEF Gathered
<1> QED
  BY <1>5, <1>9, <1>10

\* The place in the document, too.
LEMMA TailByteKeepsOrder ==
    ASSUME ReceptionTypeOK, PointersAgree, HeldInv, SentInv, MatchInv, MatchInv',
           NEW t, NEW start, NEW m, NEW pos, InOrder(t, start, m, pos), TailByte
    PROVE  InOrder(t, start, m, pos + 1)'
<1> DEFINE b == t[pos + 1]
<1>1. /\ Buf[Out] = b /\ b \in Bytes /\ pos < Len(t)
      /\ Flow(t, pos + 1)' /\ Cut(t, start)'
  BY ReadsNext
<1>2. /\ task = "end" /\ Cut(t, start) /\ Where(t, start, m, pos)
      /\ Gathered(t, start, m, pos) /\ pos \in Nat
  BY DEF TailByte, InOrder, Where
<1>3. /\ UNCHANGED <<sent, received, timeouts>> /\ seen' = Append(seen, b)
      /\ task' = IF NextIndex(XMLEnd, b, i) = Len(XMLEnd) THEN "hand" ELSE "end"
  BY <1>1 DEF TailByte
<1>4. /\ m \in 1 .. Len(sent) /\ pos = start[m] + H + Len(seen)
      /\ pos < start[m + 1]
  BY <1>1, <1>2, AtTail
<1>5. task' = "hand" => pos + 1 = start[m + 1]
  BY <1>1, <1>2, <1>3, TailFound
<1>6. task' = "end" => pos + 1 < start[m + 1]
  <2> SUFFICES ASSUME task' = "end" PROVE pos + 1 < start[m + 1]
    OBVIOUS
  <2>1. ~Occurs(XMLEnd, Append(seen, b))
    BY <1>3 DEF MatchInv
  <2> QED
    BY <1>1, <1>2, <2>1, TailNotFound
<1>7. Gathered(t, start, m, pos + 1)'
  BY <1>1, <1>2, <1>4, <1>5, TailByteGathers
<1>8. Where(t, start, m, pos + 1)'
  <2>1. Latest(Append(seen, b), t, pos + 1)
    BY <1>1, <1>2, LatestByte DEF Where, ReceptionTypeOK
  <2>2. Latest(seen, t, pos + 1)'
    BY <1>3, <2>1 DEF Latest
  <2>3. PICK y \in Nat : y = Len(seen) /\ Len(Append(seen, b)) = y + 1
    BY <1>1, LenProperties, AppendProperties DEF ReceptionTypeOK
  <2>4. PICK z \in Nat : z = start[m]
    BY <1>4, BytesOfDocuments, <1>2
  <2>5. pos + 1 = z + H + (y + 1) /\ pos + 1 \in Nat
    <3>1. pos = z + H + y
      BY <1>4, <2>3, <2>4
    <3> QED
      BY <1>2, <3>1, TextBytes
  <2>6. pos + 1 = start[m] + H + Len(seen')
    BY <1>3, <2>3, <2>4, <2>5
  <2>7. m \in 1 .. Len(sent) + 1 /\ m <= Len(sent)
    BY <1>2, <1>4 DEF Where
  <2>8. timeouts = 0 => m = Len(received) + 1
    BY <1>2 DEF Where
  <2> HIDE DEF b
  <2> QED
    BY <1>3, <1>5, <1>6, <2>2, <2>5, <2>6, <2>7, <2>8 DEF Where
<1> QED
  BY <1>1, <1>7, <1>8 DEF InOrder

\* IsPrefix, one by one.
LEMMA PrefixByBytes ==
    ASSUME NEW S, NEW s \in Seq(S), NEW v \in Seq(S), Len(s) <= Len(v),
           \A k \in 1 .. Len(s) : s[k] = v[k]
    PROVE  IsPrefix(s, v)
<1>1. PICK n \in Nat : n = Len(s)
  BY LenProperties
<1>2. PICK l \in Nat : l = Len(v)
  BY LenProperties
<1> DEFINE a == SubSeq(s, 1, n)
           b == SubSeq(v, 1, n)
<1>3. a \in Seq(S) /\ b \in Seq(S) /\ 1 \in Nat \ {0}
  <2>1. 1 \in Nat \ {0} /\ n \in 0 .. Len(s) /\ n \in 0 .. Len(v)
    BY <1>1, <1>2
  <2> QED
    BY <2>1, PieceOfSeq
<1>4. /\ Len(a) = n /\ \A p \in 1 .. n : a[p] = s[p]
      /\ Len(b) = n /\ \A p \in 1 .. n : b[p] = v[p]
  <2>1. n \in 0 .. Len(s) /\ n \in 0 .. Len(v)
    BY <1>1, <1>2
  <2> QED
    BY <2>1, CutInTwo
<1> HIDE DEF a, b
<1>5. a = b
  BY <1>1, <1>3, <1>4, SeqEqual
<1> QED
  BY <1>1, <1>5 DEF IsPrefix, a, b

\* The reader gives a document up and begins with the head of the next, in the
\* midst of this one.
LEMMA PendTimeoutKeepsOrder ==
    ASSUME ReceptionTypeOK, HeldInv, SentInv, HeadsArePlain,
           NEW t, NEW start, NEW m, NEW pos, InOrder(t, start, m, pos),
           PendTimeout
    PROVE  InOrder(t, start, m + 1, pos)'
<1>1. /\ task = "end" /\ Cut(t, start) /\ Where(t, start, m, pos)
      /\ Gathered(t, start, m, pos) /\ Flow(t, pos) /\ pos \in Nat
  BY DEF PendTimeout, InOrder, Where
<1>2. /\ task' = "start" /\ seen' = <<>> /\ j' = 0 /\ timeouts' = timeouts + 1
      /\ UNCHANGED <<queueVars, sent, net, wire, rx, gRecBuf, len, wi, err,
                     gGprsRec, file, received>>
  BY DEF PendTimeout
<1>3. Flow(t, pos)'
  <2>1. HeldLen' = HeldLen /\ HeldFrom' = HeldFrom
    BY <1>2 DEF HeldLen, HeldFrom
  <2> QED
    BY <1>1, <1>2, <2>1, FlowLengths, FlowStays
<1>4. Cut(t, start)'
  BY <1>1, <1>2 DEF Cut
<1>5. PICK n \in Nat : n = Len(seen)
  BY LenProperties DEF ReceptionTypeOK
<1>6. m \in 1 .. Len(sent) /\ m + 1 \in 1 .. Len(sent) + 1 /\ m + 1 > 1
  <2>1. m \in 1 .. Len(sent) + 1 /\ m <= Len(sent)
    BY <1>1 DEF Where
  <2> QED
    BY <2>1, PlaceInSent
<1>7. PICK z \in Nat : z = start[m]
  BY <1>1, <1>6, BytesOfDocuments
<1>8. PICK x \in Nat : x = start[m + 1]
  BY <1>1, <1>6, BytesOfDocuments
<1>9. pos = z + H + n /\ pos < x
  BY <1>1, <1>5, <1>7, <1>8 DEF Where
<1>10. timeouts' > 0 /\ timeouts' # 0
  BY <1>2, SizesFit DEF ReceptionTypeOK
<1>11. Where(t, start, m + 1, pos)'
  <2>1. Len(<<>>) = 0 /\ pos - 0 = pos
    BY <1>1, EmptySeq
  <2>2. Latest(<<>>, t, pos)
    BY <1>1, <2>1 DEF Latest
  <2>3. Latest(seen, t, pos)'
    BY <1>2, <2>2 DEF Latest
  <2>4. pos - Len(seen') = pos
    BY <1>2, <2>1
  <2>5. pos <= x /\ pos < x + H /\ z + H <= pos
    BY <1>9, TextBytes
  <2>6. (m + 1) - 1 = m
    BY <1>6
  <2> QED
    BY <1>1, <1>2, <1>6, <1>7, <1>8, <1>10, <2>3, <2>4, <2>5, <2>6 DEF Where
<1>12. Gathered(t, start, m + 1, pos)'
  BY <1>1, <1>2, <1>10 DEF Gathered
<1> QED
  BY <1>3, <1>4, <1>11, <1>12 DEF InOrder

\* The file of a document goes on, and the next is looked for behind it.
LEMMA HandOverKeepsOrder ==
    ASSUME ReceptionTypeOK, HeldInv, SentInv,
           NEW t, NEW start, NEW m, NEW pos, InOrder(t, start, m, pos),
           HandOver
    PROVE  InOrder(t, start, m + 1, pos)'
<1>1. /\ task = "hand" /\ Cut(t, start) /\ Where(t, start, m, pos)
      /\ Gathered(t, start, m, pos) /\ Flow(t, pos) /\ pos \in Nat
  BY DEF HandOver, InOrder, Where
<1>2. /\ task' = "start" /\ seen' = <<>> /\ received' = Append(received, file)
      /\ UNCHANGED <<queueVars, sent, net, wire, rx, gRecBuf, len, wi, err,
                     gGprsRec, j, timeouts>>
  BY DEF HandOver
<1>3. Flow(t, pos)'
  <2>1. HeldLen' = HeldLen /\ HeldFrom' = HeldFrom
    BY <1>2 DEF HeldLen, HeldFrom
  <2> QED
    BY <1>1, <1>2, <2>1, FlowLengths, FlowStays
<1>4. Cut(t, start)'
  BY <1>1, <1>2 DEF Cut
<1>5. m \in 1 .. Len(sent) /\ m + 1 \in 1 .. Len(sent) + 1
  <2>1. m \in 1 .. Len(sent) + 1 /\ m <= Len(sent)
    BY <1>1 DEF Where
  <2> QED
    BY <2>1, PlaceInSent
<1>6. pos = start[m + 1]
  BY <1>1 DEF Where
<1>7. timeouts = 0 => m + 1 = Len(received') + 1
  <2>1. Len(received') = Len(received) + 1
    BY <1>2, AppendProperties DEF ReceptionTypeOK
  <2> QED
    BY <1>1, <2>1 DEF Where
<1>8. Where(t, start, m + 1, pos)'
  <2>1. Len(<<>>) = 0 /\ pos - 0 = pos
    BY <1>1, EmptySeq
  <2>2. Latest(<<>>, t, pos)
    BY <1>1, <2>1 DEF Latest
  <2>3. Latest(seen, t, pos)'
    BY <1>2, <2>2 DEF Latest
  <2>4. pos - Len(seen') = pos
    BY <1>2, <2>1
  <2>5. pos <= pos /\ pos < pos + H
    BY <1>1, TextBytes
  <2> QED
    BY <1>1, <1>2, <1>5, <1>6, <1>7, <2>3, <2>4, <2>5 DEF Where
<1>9. Gathered(t, start, m + 1, pos)'
  BY <1>1, <1>2 DEF Gathered
<1> QED
  BY <1>3, <1>4, <1>8, <1>9 DEF InOrder

\* ... and what was handed on is what was sent.
LEMMA HandOverHandsOn ==
    ASSUME ReceptionTypeOK, SentInv, HandedOn,
           NEW t, NEW start, NEW m, NEW pos, InOrder(t, start, m, pos),
           HandOver
    PROVE  HandedOn'
<1>1. /\ task = "hand" /\ Where(t, start, m, pos) /\ Gathered(t, start, m, pos)
      /\ UNCHANGED <<sent, timeouts>> /\ received' = Append(received, file)
  BY DEF HandOver, InOrder
<1>2. PICK n \in Nat : n = Len(received)
  BY LenProperties DEF ReceptionTypeOK
<1>3. /\ Len(received') = n + 1 /\ received'[n + 1] = file
      /\ \A k \in 1 .. n : received'[k] = received[k]
  BY <1>1, <1>2, AppendProperties DEF ReceptionTypeOK
<1>4. m \in 1 .. Len(sent)
  <2>1. m \in 1 .. Len(sent) + 1 /\ m <= Len(sent) /\ Len(sent) \in Nat
    BY <1>1, LenProperties DEF Where, ReceptionTypeOK
  <2> QED
    BY <2>1
<1>5. /\ sent[m] \in Seq(Bytes) /\ file \in Seq(Bytes)
      /\ Len(sent[m]) <= Len(file)
      /\ \A p \in 1 .. Len(sent[m]) : sent[m][p] = file[p]
      /\ timeouts = 0 => Len(file) = Len(sent[m]) /\ m = n + 1
  <2>1. sent[m] \in Seq(Bytes) /\ file \in Seq(Bytes)
    BY <1>4, ElementOfSeq DEF ReceptionTypeOK
  <2> QED
    BY <1>1, <1>2, <2>1 DEF Gathered, Where
<1>6. IsPrefix(sent[m], file)
  BY <1>5, PrefixByBytes
<1>7. timeouts = 0 => file = sent[m]
  BY <1>5, SeqEqual
<1>8. ASSUME NEW k \in 1 .. n + 1
      PROVE  \E r \in 1 .. Len(sent) : IsPrefix(sent[r], received'[k])
  <2>1. CASE k = n + 1
    BY <1>3, <1>4, <1>6, <2>1
  <2>2. CASE k # n + 1
    <3>1. k \in 1 .. n
      BY <2>2
    <3> QED
      BY <1>2, <1>3, <3>1 DEF HandedOn
  <2> QED
    BY <2>1, <2>2
<1>9. ASSUME timeouts = 0
      PROVE  /\ n + 1 <= Len(sent)
             /\ \A k \in 1 .. n + 1 : received'[k] = sent[k]
  <2>1. m = n + 1 /\ file = sent[m]
    BY <1>5, <1>7, <1>9
  <2>2. n + 1 <= Len(sent)
    BY <1>4, <2>1
  <2>3. ASSUME NEW k \in 1 .. n + 1 PROVE received'[k] = sent[k]
    <3>1. CASE k = n + 1
      BY <1>3, <2>1, <3>1
    <3>2. CASE k # n + 1
      <4>1. k \in 1 .. n
        BY <3>2
      <4> QED
        BY <1>2, <1>3, <1>9, <4>1 DEF HandedOn
    <3> QED
      BY <3>1, <3>2
  <2> QED
    BY <2>2, <2>3
<1> QED
  BY <1>1, <1>3, <1>8, <1>9 DEF HandedOn

\* What was handed on is not touched again.
LEMMA OthersKeepHandedOn ==
    ASSUME ReceptionTypeOK, HandedOn, [ReceptionNext]_receptionVars, ~HandOver
    PROVE  HandedOn'
<1>1. received' = received /\ (timeouts' = 0 => timeouts = 0)
  <2>1. timeouts \in Nat
    BY SizesFit DEF ReceptionTypeOK
  <2>2. CASE PendTimeout
    BY <2>1, <2>2 DEF PendTimeout
  <2>3. CASE ~PendTimeout
    BY <2>3
       DEF ReceptionNext, Module, Receiver, Fails, Reader, Send, Deliver,
           Begin, Listen, GiveUpListening, ReadOk, ReadFails, CountAnswer,
           WriteByte, PostAndClear, PackLostQuery, HeadByte, TailByte,
           WaitByte, PendOk
  <2> QED
    BY <2>2, <2>3
<1>2. PICK n \in Nat : n = Len(sent)
  BY LenProperties DEF ReceptionTypeOK
<1>3. PICK l \in Nat : l = Len(sent') /\ n <= l /\ \A k \in 1 .. n : sent'[k] = sent[k]
  <2>1. CASE Send
    <3>1. n + 1 \in 1 .. Len(Bodies)
      BY <1>2, <2>1, TextsAreBytes, LenProperties DEF Send
    <3>2. Document(Bodies[n + 1]) \in Seq(Bytes)
      BY <3>1, DocumentBytes
    <3>3. sent' = Append(sent, Document(Bodies[n + 1]))
      BY <1>2, <2>1 DEF Send
    <3> QED
      BY <1>2, <3>2, <3>3, AppendProperties DEF ReceptionTypeOK
  <2>2. CASE sent' = sent
    BY <1>2, <2>2
  <2> QED
    BY <2>1, <2>2
       DEF ReceptionNext, Module, Receiver, Fails, Reader, Deliver,
           Begin, Listen, GiveUpListening, ReadOk, ReadFails, CountAnswer,
           WriteByte, PostAndClear, PackLostQuery, HeadByte, TailByte,
           WaitByte, PendOk, HandOver, PendTimeout
<1>4. ASSUME NEW k \in 1 .. Len(received)
      PROVE  \E m \in 1 .. l : IsPrefix(sent'[m], received[k])
  <2>1. PICK m \in 1 .. n : IsPrefix(sent[m], received[k])
    BY <1>2 DEF HandedOn
  <2>2. m \in 1 .. l /\ sent'[m] = sent[m]
    BY <1>3
  <2> QED
    BY <2>1, <2>2
<1>5. ASSUME timeouts = 0
      PROVE  /\ Len(received) <= l
             /\ \A k \in 1 .. Len(received) : received[k] = sent'[k]
  <2>1. PICK y \in Nat : y = Len(received)
    BY LenProperties DEF ReceptionTypeOK
  <2>2. y <= n /\ \A k \in 1 .. y : received[k] = sent[k]
    BY <1>2, <1>5, <2>1 DEF HandedOn
  <2>3. \A k \in 1 .. y : k \in 1 .. n
    BY <2>2
  <2> QED
    BY <1>3, <2>1, <2>2, <2>3
<1> QED
  BY <1>1, <1>3, <1>4, <1>5 DEF HandedOn

\* The bytes of the server keep their order through all steps.
LEMMA IntactStep ==
    ASSUME ReceptionTypeOK, PointersAgree, MatchInv, MatchInv', IntactInv,
           [ReceptionNext]_receptionVars
    PROVE  IntactInv'
<1>1. SentInv /\ HeldInv /\ SentInv' /\ HeldInv'
  BY SentStep, HeldStep DEF IntactInv
<1> SUFFICES ASSUME Sound'
             PROVE  HandedOn' /\ (\E t, start, m, pos : InOrder(t, start, m, pos)')
  BY <1>1 DEF IntactInv
<1>2. ~spoiled' /\ (timeouts' = 0 \/ HeadsArePlain)
  BY DEF Sound
<1>3. Sound
  <2>1. timeouts \in Nat
    BY SizesFit DEF ReceptionTypeOK
  <2>2. CASE PendTimeout
    <3>1. spoiled' = spoiled /\ timeouts' # 0
      BY <2>1, <2>2 DEF PendTimeout
    <3> QED
      BY <1>2, <3>1 DEF Sound
  <2>3. CASE ~PendTimeout
    <3>1. timeouts' = timeouts
      BY <2>3
         DEF ReceptionNext, Module, Receiver, Fails, Reader, Send, Deliver,
             Begin, Listen, GiveUpListening, ReadOk, ReadFails, CountAnswer,
             WriteByte, PostAndClear, PackLostQuery, HeadByte, TailByte,
             WaitByte, PendOk, HandOver
    <3>2. ~spoiled
      <4>1. CASE CountAnswer
        BY <1>2, <4>1, Zenon DEF CountAnswer
      <4>2. CASE \E taken \in {0, Answered} :
                    \E k \in Broken \cup {0} : ReadFails(taken, k)
        BY <1>2, <4>2, Zenon DEF ReadFails
      <4>3. CASE WriteByte
        BY <1>2, <4>3, Zenon DEF WriteByte
      <4>4. CASE spoiled' = spoiled
        BY <1>2, <4>4
      <4> QED
        BY <2>3, <4>1, <4>2, <4>3, <4>4
           DEF ReceptionNext, Module, Receiver, Fails, Reader, Send, Deliver,
               Begin, Listen, GiveUpListening, ReadOk, PostAndClear,
               PackLostQuery, HeadByte, TailByte, WaitByte, PendOk, HandOver
    <3> QED
      BY <1>2, <3>1, <3>2 DEF Sound
  <2> QED
    BY <2>2, <2>3
<1>4. HandedOn
  BY <1>3 DEF IntactInv
<1>5. PICK t, start, m, pos : InOrder(t, start, m, pos)
  BY <1>3 DEF IntactInv
<1>6. CASE Send
  <2>1. HandedOn'
    <3>1. ~HandOver
      <4>1. sent' # sent
        <5>1. PICK n \in Nat : n = Len(sent)
          BY LenProperties DEF ReceptionTypeOK
        <5>2. n + 1 \in 1 .. Len(Bodies)
          BY <1>6, <5>1, TextsAreBytes, LenProperties DEF Send
        <5>3. Document(Bodies[n + 1]) \in Seq(Bytes)
          BY <5>2, DocumentBytes
        <5>4. Len(sent') = n + 1
          BY <1>6, <5>1, <5>3, AppendProperties DEF Send, ReceptionTypeOK
        <5> QED
          BY <5>1, <5>4
      <4> QED
        BY <4>1 DEF HandOver
    <3> QED
      BY <1>4, <3>1, OthersKeepHandedOn
  <2>2. \E u, b : InOrder(u, b, m, pos)'
    BY <1>1, <1>5, <1>6, SendKeepsOrder
  <2> QED
    BY <2>1, <2>2
<1>7. CASE HandOver
  <2>1. HandedOn'
    BY <1>1, <1>4, <1>5, <1>7, HandOverHandsOn
  <2>2. InOrder(t, start, m + 1, pos)'
    BY <1>1, <1>5, <1>7, HandOverKeepsOrder
  <2> QED
    BY <2>1, <2>2
<1>8. CASE HeadByte
  <2>1. ~HandOver
    BY <1>8 DEF HeadByte, HandOver
  <2>2. InOrder(t, start, m, pos + 1)'
    BY <1>1, <1>5, <1>8, HeadByteKeepsOrder
  <2> QED
    BY <1>4, <2>1, <2>2, OthersKeepHandedOn
<1>9. CASE TailByte
  <2>1. ~HandOver
    BY <1>9 DEF TailByte, HandOver
  <2>2. InOrder(t, start, m, pos + 1)'
    BY <1>1, <1>5, <1>9, TailByteKeepsOrder
  <2> QED
    BY <1>4, <2>1, <2>2, OthersKeepHandedOn
<1>10. CASE PendTimeout
  <2>1. ~HandOver
    BY <1>10 DEF PendTimeout, HandOver
  <2>2. timeouts' # 0
    BY <1>10, SizesFit DEF PendTimeout, ReceptionTypeOK
  <2>3. InOrder(t, start, m + 1, pos)'
    BY <1>1, <1>2, <1>5, <1>10, <2>2, PendTimeoutKeepsOrder
  <2> QED
    BY <1>4, <2>1, <2>3, OthersKeepHandedOn
<1>11. CASE /\ ~HandOver
            /\ \/ Module \/ Receiver \/ Fails \/ PackLostQuery
               \/ WaitByte \/ PendOk \/ UNCHANGED receptionVars
  <2>1. InOrder(t, start, m, pos)'
    BY <1>1, <1>2, <1>5, <1>11, OthersKeepOrder
  <2> QED
    BY <1>4, <1>11, <2>1, OthersKeepHandedOn
<1> QED
  BY <1>6, <1>7, <1>8, <1>9, <1>10, <1>11 DEF ReceptionNext, Reader

\* Before anything is sent.
LEMMA IntactInit ==
    ASSUME ReceptionInit
    PROVE  IntactInv
<1> DEFINE start == [k \in 1 .. 1 |-> 0]
<1>1. /\ sent = <<>> /\ received = <<>> /\ seen = <<>> /\ wire = <<>>
      /\ net = <<>> /\ Len(<<>>) = 0 /\ rx = "top" /\ task = "start" /\ j = 0
      /\ timeouts = 0 /\ NData = 0
  BY EmptySeq DEF ReceptionInit, QueueInit
<1>2. SentInv /\ HeldInv
  BY <1>1, TextsAreBytes, LenProperties DEF SentInv, HeldInv
<1>3. HandedOn
  BY <1>1 DEF HandedOn
<1>4. Cut(<<>>, start)
  BY <1>1 DEF Cut
<1>5. Flow(<<>>, 0)
  <2>1. HeldLen = 0
    BY <1>1 DEF HeldLen
  <2> HIDE DEF HeldLen, HeldFrom
  <2> QED
    BY <1>1, <2>1 DEF Flow
<1>6. Where(<<>>, start, 1, 0)
  <2>1. Latest(seen, <<>>, 0)
    BY <1>1 DEF Latest
  <2> QED
    <3>1. /\ start[1] = 0 /\ 0 - 0 = 0 /\ 0 < 0 + H /\ 1 \in 1 .. 0 + 1
          /\ 1 = 0 + 1 /\ 0 \in Nat /\ 0 <= 0
      BY TextBytes
    <3> HIDE DEF start
    <3>2. /\ 0 - Len(seen) = start[1] /\ 0 - Len(seen) <= start[1]
          /\ 0 < start[1] + H
      BY <1>1, <3>1
    <3>3. 1 \in 1 .. Len(sent) + 1 /\ (timeouts = 0 => 1 = Len(received) + 1)
      BY <1>1, <3>1
    <3> QED
      BY <1>1, <2>1, <3>1, <3>2, <3>3 DEF Where
<1>7. Gathered(<<>>, start, 1, 0)
  <2>1. \A q \in FileOffsets : gGprsRec[q] = Nul
    BY DEF ReceptionInit
  <2> QED
    BY <1>1, <2>1, SizesFit DEF Gathered
<1> HIDE DEF start
<1>8. InOrder(<<>>, start, 1, 0)
  BY <1>4, <1>5, <1>6, <1>7 DEF InOrder
<1> QED
  BY <1>2, <1>3, <1>8 DEF IntactInv

\* The invariants of the queue, of the matchers and of the order of the bytes.
LEMMA OrderIsKept == ReceptionSpec => [](ReceptionTypeOK /\ IntactInv)
<1>1. ReceptionInit => PointersAgree
  BY RoomForBytes DEF ReceptionInit, QueueInit, PointersAgree, Wrapped
<1>2. ReceptionInit => MatchInv
  <2>1. Plain(XMLHead)
    BY TextsAreBytes DEF Plain
  <2> QED
    BY <2>1, MatcherBegins DEF ReceptionInit, MatchInv
<1>3. ASSUME ReceptionTypeOK, PointersAgree, [ReceptionNext]_receptionVars
      PROVE  PointersAgree'
  <2>1. [QueueNext]_queueVars
    BY <1>3, StepOfQueue
  <2> QED
    BY <1>3, <2>1, PointersStep DEF ReceptionTypeOK
<1>4. ReceptionTypeOK /\ MatchInv /\ [ReceptionNext]_receptionVars => MatchInv'
  BY MatchStep
<1>5. /\ ReceptionTypeOK /\ PointersAgree /\ MatchInv /\ MatchInv' /\ IntactInv
      /\ [ReceptionNext]_receptionVars
      => IntactInv'
  BY IntactStep
<1>6. ReceptionInit => IntactInv
  BY IntactInit
<1>7. ReceptionSpec => []ReceptionTypeOK
  BY ReceptionTypeCorrect
<1> QED
  BY <1>1, <1>2, <1>3, <1>4, <1>5, <1>6, <1>7, PTL DEF ReceptionSpec

\* While no byte was lost and no wait timed out, the files handed on are the
\* documents sent, none missing, none twice, each byte for byte: the answers of
\* the module, the byte queue, the two matchers and the buffer of fwrite cut the
\* stream in four ways, and none of the cuts shows.
THEOREM DocumentsInOrder ==
    ReceptionSpec => [](~spoiled /\ timeouts = 0 => IsPrefix(received, sent))
<1>1. ReceptionTypeOK /\ IntactInv /\ ~spoiled /\ timeouts = 0
        => IsPrefix(received, sent)
  <2> SUFFICES ASSUME ReceptionTypeOK, IntactInv, ~spoiled, timeouts = 0
               PROVE  IsPrefix(received, sent)
    OBVIOUS
  <2>1. HandedOn
    BY DEF IntactInv, Sound
  <2> QED
    BY <2>1, PrefixByBytes DEF HandedOn, ReceptionTypeOK
<1> QED
  BY <1>1, OrderIsKept, PTL

\* A document abandoned after a timeout leaves its rest in gGprsRec and its tail
\* in the queue; still every file handed on begins with a whole document, if a
\* document has the text of a head at its beginning only.
THEOREM DocumentsAreIntact ==
    ASSUME HeadsArePlain
    PROVE  ReceptionSpec => []DocumentsIntact
<1>1. ReceptionTypeOK /\ IntactInv => DocumentsIntact
  <2> SUFFICES ASSUME ReceptionTypeOK, IntactInv, ~spoiled
               PROVE  /\ timeouts = 0 => IsPrefix(received, sent)
                      /\ \A k \in DOMAIN received : \E m \in DOMAIN sent :
                            IsPrefix(sent[m], received[k])
    BY DEF DocumentsIntact
  <2>1. HandedOn
    BY DEF IntactInv, Sound
  <2>2. timeouts = 0 => IsPrefix(received, sent)
    BY <2>1, PrefixByBytes DEF HandedOn, ReceptionTypeOK
  <2>3. DOMAIN received = 1 .. Len(received) /\ DOMAIN sent = 1 .. Len(sent)
    BY LenProperties DEF ReceptionTypeOK
  <2> QED
    BY <2>1, <2>2, <2>3 DEF HandedOn
<1> QED
  BY <1>1, OrderIsKept, PTL
=============================================================================
