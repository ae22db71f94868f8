----------------------------- MODULE DataQueue -----------------------------
(***************************************************************************)
(* The byte queues of queue.c (struct DataQueue): memory, a position to     *)
(* write at, a position to read from and a count.  The program has three:   *)
(*                                                                         *)
(*   USART3RecQueue_At     the module's answers, for who runs AT commands  *)
(*   USART3RecQueue_AtIPD  the same bytes, searched for announced data     *)
(*   UpRecQueue_Gprs       the bytes of the server's documents             *)
(*                                                                         *)
(* Every operation runs between OS_ENTER_CRITICAL and OS_EXIT_CRITICAL, one *)
(* semaphore for the whole program, and is one step here.  A pointer is an  *)
(* offset into Buf; ReadEmpty and WriteFull are NULL for all three queues.  *)
(***************************************************************************)
EXTENDS Naturals, Sequences

CONSTANTS
    Bytes,
    MaxData       \* bytes the queue has room for (about 10^6 in the program)

ASSUME RoomForBytes == MaxData \in Nat \ {0}

VARIABLES
    Buf,
    Out, In,
    NData,
    DataTemp      \* what QueueRead stored through Ret last

queueVars == <<Buf, Out, In, NData, DataTemp>>

Offsets == 0 .. MaxData - 1

-----------------------------------------------------------------------------
(* Faulty variants of the definitions below, one plausible mistake each.  No *)
(* specification uses them: they are what the properties must tell from the  *)
(* code.                                                                     *)

\* room for one byte more than there is
QueueWriteOneTooMany(d) ==
    /\ NData <= MaxData
    /\ Buf' = [Buf EXCEPT ![In] = d]
    /\ In' = IF In + 1 >= MaxData THEN 0 ELSE In + 1
    /\ NData' = NData + 1
    /\ UNCHANGED <<Out, DataTemp>>

-----------------------------------------------------------------------------

QueueTypeOK ==
    /\ Buf \in [Offsets -> Bytes]
    /\ Out \in Offsets
    /\ In \in Offsets
    /\ NData \in 0 .. MaxData
    /\ DataTemp \in Bytes

\* A pointer that has reached End starts again at Buf.
Wrapped(p) == IF p >= MaxData THEN p - MaxData ELSE p

\* QueueCreate; the memory is a static array.
QueueInit ==
    /\ \E zero \in Bytes :
          /\ Buf = [p \in Offsets |-> zero]
          /\ DataTemp = zero
    /\ Out = 0
    /\ In = 0
    /\ NData = 0

\* QueueWrite that returns QUEUE_OK.  QUEUE_FULL changes nothing: the byte is
\* gone.
QueueWrite(d) ==
    /\ NData < MaxData
    /\ Buf' = [Buf EXCEPT ![In] = d]
    /\ In' = Wrapped(In + 1)
    /\ NData' = NData + 1
    /\ UNCHANGED <<Out, DataTemp>>

\* QueueRead that returns QUEUE_OK.  QUEUE_EMPTY changes nothing.
QueueRead ==
    /\ NData > 0
    /\ DataTemp' = Buf[Out]
    /\ Out' = Wrapped(Out + 1)
    /\ NData' = NData - 1
    /\ UNCHANGED <<Buf, In>>

QueueFlush ==
    /\ Out' = 0
    /\ In' = 0
    /\ NData' = 0
    /\ UNCHANGED <<Buf, DataTemp>>

QueueNext ==
    \/ \E d \in Bytes : QueueWrite(d)
    \/ QueueRead
    \/ QueueFlush

QueueSpec == QueueInit /\ [][QueueNext]_queueVars

-----------------------------------------------------------------------------
(* Properties *)

\* The count agrees with the distance of the two pointers.
PointersAgree == In = Wrapped(Out + NData)

\* The bytes in the queue, oldest first.
Content == [k \in 1 .. NData |-> Buf[Wrapped(Out + k - 1)]]

Fifo == INSTANCE ByteFifo WITH
    content <- Content, got <- DataTemp, Capacity <- MaxData

\* With two pointers that wrap and a count, the queue is a first-in first-out
\* channel of bytes: what is read is the oldest byte written, and a byte is
\* refused only when all room is taken.
QueueIsFifo == Fifo!Spec
=============================================================================
