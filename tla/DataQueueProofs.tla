-------------------------- MODULE DataQueueProofs --------------------------
(***************************************************************************)
(* For every set of bytes and every size, the byte queue of DataQueue is a  *)
(* first-in first-out channel.  The invariant behind it: the two pointers   *)
(* are as far apart as the count says (PointersAgree), so that the place    *)
(* written to is the one behind the youngest byte.                         *)
(***************************************************************************)
EXTENDS DataQueue, SequenceTheorems, TLAPS

USE DEF queueVars, Offsets

\* Pointers stay in the array.
LEMMA WrappedInOffsets ==
    ASSUME NEW p \in 0 .. 2 * MaxData - 1
    PROVE  Wrapped(p) \in Offsets
BY RoomForBytes, SMT DEF Wrapped

\* No operation takes the queue out of its types.
LEMMA QueueTypeStep ==
    ASSUME QueueTypeOK, [QueueNext]_queueVars
    PROVE  QueueTypeOK'
<1> USE RoomForBytes DEF QueueTypeOK
<1>1. ASSUME NEW d \in Bytes, QueueWrite(d)
      PROVE  QueueTypeOK'
  BY <1>1, SMT DEF QueueWrite, Wrapped
<1>2. CASE QueueRead
  BY <1>2, SMT DEF QueueRead, Wrapped
<1>3. CASE QueueFlush
  BY <1>3, SMT DEF QueueFlush
<1>4. CASE UNCHANGED queueVars
  BY <1>4
<1> QED
  BY <1>1, <1>2, <1>3, <1>4 DEF QueueNext

\* The queue's types: a pointer never leaves Buf, the count never exceeds it
\* (queue.c, QueueWrite and QueueRead).
THEOREM QueueTypeCorrect == QueueSpec => []QueueTypeOK
<1>1. QueueInit => QueueTypeOK
  BY RoomForBytes, SMT DEF QueueInit, QueueTypeOK
<1> QED
  BY <1>1, QueueTypeStep, PTL DEF QueueSpec

\* The count agrees with the distance of the two pointers.
LEMMA PointersStep ==
    ASSUME QueueTypeOK, PointersAgree, [QueueNext]_queueVars
    PROVE  PointersAgree'
<1> USE RoomForBytes DEF QueueTypeOK, PointersAgree, Wrapped
<1>1. ASSUME NEW d \in Bytes, QueueWrite(d)
      PROVE  PointersAgree'
  BY <1>1, SMT DEF QueueWrite
<1>2. CASE QueueRead
  BY <1>2, SMT DEF QueueRead
<1>3. CASE QueueFlush
  BY <1>3, SMT DEF QueueFlush
<1>4. CASE UNCHANGED queueVars
  BY <1>4, SMT
<1> QED
  BY <1>1, <1>2, <1>3, <1>4 DEF QueueNext

\* The distance of In and Out is NData: queue.c keeps all three by hand.
THEOREM QueuePointersAgree == QueueSpec => []PointersAgree
<1>1. QueueInit => PointersAgree
  BY RoomForBytes, SMT DEF QueueInit, PointersAgree, Wrapped
<1> QED
  BY <1>1, QueueTypeCorrect, PointersStep, PTL DEF QueueSpec

-----------------------------------------------------------------------------

\* The k-th byte of the queue lies in the array.
LEMMA PlaceInBuf ==
    ASSUME QueueTypeOK, NEW k \in 1 .. NData
    PROVE  Wrapped(Out + k - 1) \in Offsets
BY RoomForBytes, SMT DEF QueueTypeOK, Wrapped

\* Content is a sequence of as many bytes as the count says.
LEMMA ContentIsSeq ==
    ASSUME QueueTypeOK
    PROVE  /\ Content \in Seq(Bytes)
           /\ Len(Content) = NData
<1>1. Content \in [1 .. NData -> Bytes]
  BY PlaceInBuf DEF Content, QueueTypeOK
<1>2. NData \in Nat
  BY RoomForBytes, SMT DEF QueueTypeOK
<1> QED
  BY <1>1, <1>2, SMT

\* The place written to is not one of the bytes in the queue.
LEMMA InIsFree ==
    ASSUME QueueTypeOK, PointersAgree, NData < MaxData, NEW k \in 1 .. NData
    PROVE  Wrapped(Out + k - 1) # In
BY RoomForBytes, SMT DEF QueueTypeOK, PointersAgree, Wrapped

\* A write puts the byte behind the others.
LEMMA WriteAppends ==
    ASSUME QueueTypeOK, PointersAgree, NEW d \in Bytes, QueueWrite(d)
    PROVE  Content' = Append(Content, d)
<1>1. /\ NData \in Nat /\ NData' = NData + 1 /\ Out' = Out
      /\ Buf' = [Buf EXCEPT ![In] = d] /\ In \in Offsets
      /\ Buf \in [Offsets -> Bytes]
  BY RoomForBytes, SMT DEF QueueWrite, QueueTypeOK
<1>2. ASSUME NEW k \in 1 .. NData
      PROVE  Buf'[Wrapped(Out + k - 1)] = Buf[Wrapped(Out + k - 1)]
  BY <1>1, <1>2, InIsFree, PlaceInBuf DEF QueueWrite
<1>3. Buf'[Wrapped(Out + (NData + 1) - 1)] = d
  <2>1. Out + (NData + 1) - 1 = Out + NData
    BY <1>1, SMT DEF QueueTypeOK
  <2> QED
    BY <1>1, <2>1 DEF PointersAgree
<1>4. Content' = [k \in 1 .. NData + 1 |-> Buf'[Wrapped(Out + k - 1)]]
  BY <1>1 DEF Content, Wrapped
<1>5. Append(Content, d) =
        [k \in 1 .. NData + 1 |-> IF k \in 1 .. NData THEN Content[k] ELSE d]
  <2>1. /\ Append(Content, d) \in Seq(Bytes)
        /\ Len(Append(Content, d)) = NData + 1
        /\ \A k \in 1 .. NData + 1 : Append(Content, d)[k] =
                IF k \in 1 .. NData THEN Content[k] ELSE d
    BY <1>1, ContentIsSeq, SMT
  <2>2. Append(Content, d) \in [1 .. NData + 1 -> Bytes]
    BY <2>1, LenProperties
  <2> QED
    BY <2>1, <2>2
<1>6. ASSUME NEW k \in 1 .. NData + 1
      PROVE  Buf'[Wrapped(Out + k - 1)] =
             IF k \in 1 .. NData THEN Content[k] ELSE d
  <2>1. CASE k \in 1 .. NData
    BY <2>1, <1>2 DEF Content
  <2>2. CASE k = NData + 1
    BY <2>2, <1>1, <1>3, SMT
  <2> QED
    BY <1>1, <2>1, <2>2, SMT
<1> QED
  BY <1>4, <1>5, <1>6

\* A read takes the oldest byte.
LEMMA ReadTakesHead ==
    ASSUME QueueTypeOK, PointersAgree, QueueRead
    PROVE  /\ Content # <<>>
           /\ DataTemp' = Head(Content)
           /\ Content' = Tail(Content)
<1>1. /\ NData \in Nat \ {0} /\ NData' = NData - 1 /\ Buf' = Buf
      /\ Out \in Offsets /\ Out' = Wrapped(Out + 1) /\ DataTemp' = Buf[Out]
      /\ NData <= MaxData
  BY RoomForBytes, SMT DEF QueueRead, QueueTypeOK
<1>2. Content \in Seq(Bytes) /\ Len(Content) = NData
  BY ContentIsSeq
<1>3. Content[1] = Buf[Out]
  <2>1. 1 \in 1 .. NData /\ Wrapped(Out + 1 - 1) = Out
    BY RoomForBytes, <1>1, SMT DEF Wrapped
  <2> QED
    BY <2>1 DEF Content
<1>4. ASSUME NEW k \in 1 .. NData - 1
      PROVE  Wrapped(Wrapped(Out + 1) + k - 1) = Wrapped(Out + (k + 1) - 1)
  BY RoomForBytes, <1>1, <1>4, SMT DEF Wrapped
<1>5. Content' = [k \in 1 .. NData - 1 |-> Buf[Wrapped(Wrapped(Out + 1) + k - 1)]]
  BY <1>1 DEF Content, Wrapped
<1>6. Tail(Content) = [k \in 1 .. NData - 1 |-> Content[k + 1]]
  <2>1. Content # <<>>
    BY <1>1, <1>2, SMT
  <2>2. /\ Tail(Content) \in Seq(Bytes)
        /\ Len(Tail(Content)) = NData - 1
        /\ \A k \in 1 .. NData - 1 : Tail(Content)[k] = Content[k + 1]
    BY <1>2, <2>1, HeadTailProperties
  <2>3. Tail(Content) \in [1 .. NData - 1 -> Bytes]
    BY <2>2, LenProperties
  <2> QED
    BY <2>2, <2>3
<1>7. ASSUME NEW k \in 1 .. NData - 1
      PROVE  Content[k + 1] = Buf[Wrapped(Out + (k + 1) - 1)]
  <2>1. k + 1 \in 1 .. NData
    BY <1>1, SMT
  <2> QED
    BY <2>1 DEF Content
<1>8. Content' = Tail(Content)
  BY <1>4, <1>5, <1>6, <1>7
<1> QED
  BY <1>1, <1>2, <1>3, <1>8, SMT

\* The queue implements the channel: QueueWrite puts, QueueRead gets and
\* QueueFlush flushes; a byte refused is one put to a full channel.
THEOREM QueueImplementsFifo == QueueSpec => QueueIsFifo
<1>1. QueueInit => Fifo!Init
  <2> SUFFICES ASSUME QueueInit PROVE Fifo!Init
    OBVIOUS
  <2>1. NData = 0 /\ DataTemp \in Bytes
    BY DEF QueueInit
  <2>2. Content = <<>>
    BY <2>1, SMT DEF Content
  <2> QED
    BY <2>1, <2>2 DEF Fifo!Init
<1>2. QueueTypeOK /\ PointersAgree /\ [QueueNext]_queueVars
        => [Fifo!Next]_(Fifo!byteVars)
  <2> SUFFICES ASSUME QueueTypeOK, PointersAgree, [QueueNext]_queueVars
               PROVE  [Fifo!Next]_(Fifo!byteVars)
    OBVIOUS
  <2>1. ASSUME NEW d \in Bytes, QueueWrite(d)
        PROVE  Fifo!Next
    <3>1. Len(Content) < MaxData /\ DataTemp' = DataTemp
      BY <2>1, ContentIsSeq DEF QueueWrite
    <3>2. Fifo!Put(d)
      BY <2>1, <3>1, WriteAppends DEF Fifo!Put
    <3> QED
      BY <3>2 DEF Fifo!Next
  <2>2. CASE QueueRead
    BY <2>2, ReadTakesHead DEF Fifo!Get, Fifo!Next
  <2>3. CASE QueueFlush
    <3>1. NData' = 0 /\ DataTemp' = DataTemp
      BY <2>3 DEF QueueFlush
    <3>2. Content' = <<>>
      BY <3>1, SMT DEF Content
    <3> QED
      BY <3>1, <3>2 DEF Fifo!Flush, Fifo!Next
  <2>4. CASE UNCHANGED queueVars
    BY <2>4 DEF Content, Wrapped, Fifo!byteVars
  <2> QED
    BY <2>1, <2>2, <2>3, <2>4 DEF QueueNext
<1> QED
  BY <1>1, <1>2, QueueTypeCorrect, QueuePointersAgree, PTL
     DEF QueueSpec, QueueIsFifo, Fifo!Spec
=============================================================================
