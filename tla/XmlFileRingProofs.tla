------------------------- MODULE XmlFileRingProofs -------------------------
(***************************************************************************)
(* Proofs about the ring of XML files, for every number of files and every *)
(* set of documents.                                                       *)
(*                                                                         *)
(* The inductive invariant is RingInv: types, plus the two equations of    *)
(* SlotsConserved.  WriterOffUnread alone is not inductive: the writer may  *)
(* move on only because sem_write > 0 says that a slot is left, and that   *)
(* is known only while the two semaphores account for every slot.          *)
(***************************************************************************)
EXTENDS XmlFileRing, SequenceTheorems, TLAPS

-----------------------------------------------------------------------------
(* Arithmetic of positions *)

LEMMA ModBelow ==
    ASSUME NEW N \in Nat, N >= 2, NEW p \in 0 .. N - 1, p + 1 < N
    PROVE  (p + 1) % N = p + 1
OBVIOUS

LEMMA ModSelf ==
    ASSUME NEW N \in Nat, N >= 2
    PROVE  N % N = 0
OBVIOUS

\* The position after p, without the remainder.
LEMMA FollowingIs ==
    ASSUME NEW p \in Positions
    PROVE  /\ p + 1 < XML_BUF_FILE_NUM => Following(p) = p + 1
           /\ p + 1 = XML_BUF_FILE_NUM => Following(p) = 0
           /\ p + 1 <= XML_BUF_FILE_NUM
           /\ Following(p) \in Positions
<1> DEFINE N == XML_BUF_FILE_NUM
<1>1. N \in Nat /\ N >= 2 /\ p \in 0 .. N - 1
    BY RingSize DEF Positions
<1>2. CASE p + 1 < N
    <2>1. (p + 1) % N = p + 1
        BY <1>1, <1>2, ModBelow
    <2> QED BY <1>1, <1>2, <2>1 DEF Following, Positions
<1>3. CASE p + 1 = N
    <2>1. (p + 1) % N = 0
        BY <1>1, <1>3, ModSelf
    <2> QED BY <1>1, <1>3, <2>1 DEF Following, Positions
<1> QED BY <1>1, <1>2, <1>3

-----------------------------------------------------------------------------
(* The inductive invariant *)

RingInv == RingTypeOK /\ SlotsConserved

LEMMA RingInitInv == RingInit => RingInv
BY RingSize DEF RingInit, RingInv, RingTypeOK, SlotsConserved, Unread,
                Positions

LEMMA RingNextInv == RingInv /\ [RingNext]_ringVars => RingInv'
<1> SUFFICES ASSUME RingInv, [RingNext]_ringVars
             PROVE  RingInv'
    OBVIOUS
<1> USE RingSize DEF RingInv
<1>1. ASSUME NEW d \in Documents, WriteFile(d)
      PROVE  RingInv'
    BY <1>1 DEF WriteFile, RingTypeOK, SlotsConserved, Unread, Positions
<1>2. CASE Commit
    <2>1. /\ Following(writepos) \in Positions
          /\ writepos + 1 < XML_BUF_FILE_NUM =>
                Following(writepos) = writepos + 1
          /\ writepos + 1 = XML_BUF_FILE_NUM => Following(writepos) = 0
          /\ writepos + 1 <= XML_BUF_FILE_NUM
        BY FollowingIs DEF RingTypeOK
    <2>2. RingTypeOK'
        BY <1>2, <2>1 DEF Commit, RingTypeOK, Positions
    <2>3. SlotsConserved'
        BY <1>2, <2>1 DEF Commit, RingTypeOK, SlotsConserved, Unread,
                          Positions
    <2> QED BY <2>2, <2>3
<1>3. CASE PostRead
    BY <1>3 DEF PostRead, RingTypeOK, SlotsConserved, Unread, Positions
<1>4. CASE WaitRead
    BY <1>4 DEF WaitRead, RingTypeOK, SlotsConserved, Unread, Positions
<1>5. CASE LoadFile
    BY <1>5 DEF LoadFile, RingTypeOK, SlotsConserved, Unread, Positions
<1>6. CASE AdvanceRead
    <2>1. /\ Following(readpos) \in Positions
          /\ readpos + 1 < XML_BUF_FILE_NUM => Following(readpos) = readpos + 1
          /\ readpos + 1 = XML_BUF_FILE_NUM => Following(readpos) = 0
          /\ readpos + 1 <= XML_BUF_FILE_NUM
        BY FollowingIs DEF RingTypeOK
    <2>2. RingTypeOK'
        BY <1>6, <2>1 DEF AdvanceRead, RingTypeOK, Positions
    <2>3. SlotsConserved'
        BY <1>6, <2>1 DEF AdvanceRead, RingTypeOK, SlotsConserved, Unread,
                          Positions
    <2> QED BY <2>2, <2>3
<1>7. CASE PostWrite
    BY <1>7 DEF PostWrite, RingTypeOK, SlotsConserved, Unread, Positions
<1>8. CASE UNCHANGED ringVars
    BY <1>8 DEF ringVars, RingTypeOK, SlotsConserved, Unread, Positions
<1> QED BY <1>1, <1>2, <1>3, <1>4, <1>5, <1>6, <1>7, <1>8 DEF RingNext

\* Every reachable state of the ring is well typed and its semaphores account
\* for every slot.
THEOREM RingInvariant == RingSpec => []RingInv
<1> QED BY RingInitInv, RingNextInv, PTL DEF RingSpec

\* For every number of files: the two positions stay in the ring and the two
\* semaphores are never negative (writepos and readpos of both rings).
THEOREM RingTypeCorrect == RingSpec => []RingTypeOK
<1>1. RingInv => RingTypeOK BY DEF RingInv
<1>. QED BY <1>1, RingInvariant, PTL

\* The two semaphores of a ring account for every slot: free, waiting to be
\* read, or left by the reader and about to be given back.
THEOREM RingSlotsConserved == RingSpec => []SlotsConserved
<1>1. RingInv => SlotsConserved
    BY DEF RingInv
<1> QED BY <1>1, RingInvariant, PTL

-----------------------------------------------------------------------------
(* The file being written *)

LEMMA InvWriterOffUnread == RingInv => WriterOffUnread
BY RingSize DEF RingInv, RingTypeOK, SlotsConserved, WriterOffUnread, Unread,
                ReadersFiles, Ahead, Positions

\* makexml and UpGetStart, which write their file before they wait for a slot,
\* never write a file that holds a document still to be read.
THEOREM RingWriterOffUnread == RingSpec => []WriterOffUnread
<1> QED BY InvWriterOffUnread, RingInvariant, PTL

\* While the reader has a document the ring is not empty, so the file it reads
\* is not the one the writer may write.
LEMMA ReaderAwayFromWriter ==
    RingInv /\ reader \in {"reading", "loaded"} => readpos # writepos
BY RingSize DEF RingInv, RingTypeOK, SlotsConserved, Unread, Positions

LEMMA RingInitStable == RingInit => ReadIsStable
BY DEF RingInit, ReadIsStable

LEMMA RingNextStable ==
    RingInv /\ ReadIsStable /\ [RingNext]_ringVars => ReadIsStable'
<1> SUFFICES ASSUME RingInv, ReadIsStable, [RingNext]_ringVars
             PROVE  ReadIsStable'
    OBVIOUS
<1> USE DEF ReadIsStable
<1>1. ASSUME NEW d \in Documents, WriteFile(d)
      PROVE  ReadIsStable'
    <2>1. reader = "loaded" => readpos # writepos
        BY ReaderAwayFromWriter
    <2> QED BY <1>1, <2>1 DEF WriteFile, RingInv, RingTypeOK
<1>2. CASE Commit
    BY <1>2 DEF Commit
<1>3. CASE PostRead
    BY <1>3 DEF PostRead
<1>4. CASE WaitRead
    BY <1>4 DEF WaitRead
<1>5. CASE LoadFile
    BY <1>5 DEF LoadFile
<1>6. CASE AdvanceRead
    BY <1>6 DEF AdvanceRead
<1>7. CASE PostWrite
    BY <1>7 DEF PostWrite
<1>8. CASE UNCHANGED ringVars
    BY <1>8 DEF ringVars
<1> QED BY <1>1, <1>2, <1>3, <1>4, <1>5, <1>6, <1>7, <1>8 DEF RingNext

\* A document sent packet by packet, or parsed, is not changed in its file
\* before the reader has moved on.
THEOREM RingReadIsStable == RingSpec => []ReadIsStable
<1> QED BY RingInitStable, RingNextStable, RingInvariant, PTL DEF RingSpec

-----------------------------------------------------------------------------
(* The ring implements the channel *)

\* The slot of the i-th unread document.
Slot(i) ==
    IF readpos + i - 1 < XML_BUF_FILE_NUM
    THEN readpos + i - 1
    ELSE readpos + i - 1 - XML_BUF_FILE_NUM

\* A file about to be placed holds a document.
WrittenIsDocument == writer = "written" => XMLFile[writepos] \in Documents

RefInv == RingInv /\ ReadIsStable /\ WrittenIsDocument

LEMMA RingInitRef == RingInit => RefInv
BY RingInitInv, RingInitStable DEF RefInv, WrittenIsDocument, RingInit

LEMMA RingNextRef == RefInv /\ [RingNext]_ringVars => RefInv'
<1> SUFFICES ASSUME RefInv, [RingNext]_ringVars
             PROVE  RefInv'
    OBVIOUS
<1>1. RingInv' /\ ReadIsStable'
    BY RingNextInv, RingNextStable DEF RefInv
<1>2. WrittenIsDocument'
    BY DEF RefInv, RingInv, RingTypeOK, WrittenIsDocument, RingNext, ringVars,
           WriteFile, Commit, PostRead, WaitRead, LoadFile, AdvanceRead,
           PostWrite
<1> QED BY <1>1, <1>2 DEF RefInv

LEMMA UnreadIsNat == RingInv => Unread \in 0 .. XML_BUF_FILE_NUM - 1
BY RingSize DEF RingInv, RingTypeOK, SlotsConserved, Unread, Positions

LEMMA SlotType ==
    ASSUME RingInv, NEW i \in 1 .. Unread
    PROVE  Slot(i) \in Positions
BY RingSize, UnreadIsNat DEF RingInv, RingTypeOK, Slot, Positions

LEMMA QueueIs ==
    ASSUME RingInv
    PROVE  /\ RingQueue = [i \in 1 .. Unread |-> XMLFile[Slot(i)]]
           /\ RingQueue \in Seq(Documents \cup {NoDocument})
           /\ Len(RingQueue) = Unread
<1>1. RingQueue = [i \in 1 .. Unread |-> XMLFile[Slot(i)]]
    BY DEF RingQueue, Slot
<1>2. \A i \in 1 .. Unread : XMLFile[Slot(i)] \in Documents \cup {NoDocument}
    BY SlotType DEF RingInv, RingTypeOK
<1>3. Unread \in Nat
    BY UnreadIsNat, RingSize
<1> QED BY <1>1, <1>2, <1>3

\* Placing a file appends it.
LEMMA CommitAppends ==
    ASSUME RingInv, RingInv', Commit
    PROVE  /\ RingQueue' = Append(RingQueue, XMLFile[writepos])
           /\ Unread < XML_BUF_FILE_NUM - 1
<1> USE RingSize
<1>1. /\ Following(writepos) \in Positions
      /\ writepos + 1 < XML_BUF_FILE_NUM => Following(writepos) = writepos + 1
      /\ writepos + 1 = XML_BUF_FILE_NUM => Following(writepos) = 0
      /\ writepos + 1 <= XML_BUF_FILE_NUM
    BY FollowingIs DEF RingInv, RingTypeOK
<1>2. Unread < XML_BUF_FILE_NUM - 1
    BY DEF Commit, RingInv, RingTypeOK, SlotsConserved, Unread, Positions
<1>3. Unread' = Unread + 1
    BY <1>1, <1>2 DEF Commit, RingInv, RingTypeOK, Unread, Positions
<1>4. \A i \in 1 .. Unread' : Slot(i)' = Slot(i)
    BY DEF Commit, Slot
<1>5. Slot(Unread + 1) = writepos
    BY <1>2 DEF RingInv, RingTypeOK, Unread, Slot, Positions
<1>6. XMLFile' = XMLFile
    BY DEF Commit
<1>7. RingQueue' = [i \in 1 .. Unread' |-> XMLFile[Slot(i)]]
    <2>1. RingQueue' = [i \in 1 .. Unread' |-> XMLFile'[Slot(i)']]
        BY DEF RingQueue, Slot
    <2> QED BY <2>1, <1>4, <1>6
<1>8. Unread \in Nat
    BY UnreadIsNat
<1>9. RingQueue' = Append(RingQueue, XMLFile[writepos])
    BY <1>3, <1>5, <1>7, <1>8, QueueIs
<1> QED BY <1>2, <1>9

\* Moving on removes the oldest document.
LEMMA AdvanceRemoves ==
    ASSUME RingInv, RingInv', ReadIsStable, AdvanceRead
    PROVE  /\ RingQueue # <<>>
           /\ loaded = Head(RingQueue)
           /\ RingQueue' = Tail(RingQueue)
<1> USE RingSize
<1>1. /\ Following(readpos) \in Positions
      /\ readpos + 1 < XML_BUF_FILE_NUM => Following(readpos) = readpos + 1
      /\ readpos + 1 = XML_BUF_FILE_NUM => Following(readpos) = 0
      /\ readpos + 1 <= XML_BUF_FILE_NUM
    BY FollowingIs DEF RingInv, RingTypeOK
<1>2. Unread \in Nat /\ Unread >= 1
    BY UnreadIsNat DEF AdvanceRead, RingInv, RingTypeOK, SlotsConserved
<1>3. Unread' = Unread - 1
    BY <1>1, <1>2 DEF AdvanceRead, RingInv, RingTypeOK, Unread, Positions
<1>4. \A i \in 1 .. Unread' : Slot(i)' = Slot(i + 1)
    BY <1>1, <1>2, <1>3
       DEF AdvanceRead, Slot, RingInv, RingTypeOK, Positions, Unread
<1>5. Slot(1) = readpos
    BY DEF Slot, RingInv, RingTypeOK, Positions
<1>6. XMLFile' = XMLFile
    BY DEF AdvanceRead
<1>7. RingQueue' = [i \in 1 .. Unread' |-> XMLFile[Slot(i + 1)]]
    <2>1. RingQueue' = [i \in 1 .. Unread' |-> XMLFile'[Slot(i)']]
        BY DEF RingQueue, Slot
    <2> QED BY <2>1, <1>4, <1>6
<1>8. RingQueue # <<>> /\ Head(RingQueue) = XMLFile[readpos]
    BY <1>2, <1>5, QueueIs
<1>9. RingQueue' = Tail(RingQueue)
    <2> DEFINE T == Documents \cup {NoDocument}
    <2>1. /\ RingQueue \in Seq(T)
          /\ Len(RingQueue) = Unread
          /\ \A i \in 1 .. Unread : RingQueue[i] = XMLFile[Slot(i)]
        BY QueueIs
    <2>2. /\ Tail(RingQueue) \in Seq(T)
          /\ Len(Tail(RingQueue)) = Unread - 1
          /\ \A i \in 1 .. Unread - 1 :
                Tail(RingQueue)[i] = RingQueue[i + 1]
        BY <1>2, <1>8, <2>1
    <2>3. /\ RingQueue' \in Seq(T)
          /\ Len(RingQueue') = Unread - 1
        <3>1. \A i \in 1 .. Unread - 1 : XMLFile[Slot(i + 1)] \in T
            BY <1>2, SlotType DEF RingInv, RingTypeOK
        <3> QED BY <1>2, <1>3, <1>7, <3>1
    <2>4. \A i \in 1 .. Unread - 1 : RingQueue'[i] = XMLFile[Slot(i + 1)]
        BY <1>2, <1>3, <1>7
    <2>5. \A i \in 1 .. Unread - 1 : i + 1 \in 1 .. Unread
        BY <1>2
    <2>6. \A i \in 1 .. Unread - 1 : RingQueue'[i] = Tail(RingQueue)[i]
        BY <2>1, <2>2, <2>4, <2>5
    <2> HIDE DEF T
    <2> QED BY <2>2, <2>3, <2>6, SeqEqual
<1>10. loaded = XMLFile[readpos]
    BY DEF AdvanceRead, ReadIsStable
<1> QED BY <1>8, <1>9, <1>10

\* A step that moves neither position nor an unread file leaves the channel.
LEMMA QueueUnchanged ==
    ASSUME RingInv, UNCHANGED <<writepos, readpos>>,
           \A i \in 1 .. Unread : XMLFile'[Slot(i)] = XMLFile[Slot(i)]
    PROVE  RingQueue' = RingQueue
<1>1. Unread' = Unread
    BY DEF Unread
<1>2. \A i \in 1 .. Unread : Slot(i)' = Slot(i)
    BY DEF Slot
<1>3. RingQueue' = [i \in 1 .. Unread' |-> XMLFile'[Slot(i)']]
    BY DEF RingQueue, Slot
<1> QED BY <1>1, <1>2, <1>3, QueueIs

LEMMA RingStepIsFifoStep ==
    ASSUME RefInv, RefInv', [RingNext]_ringVars
    PROVE  [Fifo!Next]_(Fifo!fifoVars)
<1> USE RingSize DEF RefInv
<1>1. ASSUME NEW d \in Documents, WriteFile(d)
      PROVE  UNCHANGED <<RingQueue, loaded>>
    <2>1. \A i \in 1 .. Unread : Slot(i) \in Positions /\ Slot(i) # writepos
        BY UnreadIsNat DEF RingInv, RingTypeOK, Slot, Unread, Positions
    <2>2. \A i \in 1 .. Unread : XMLFile'[Slot(i)] = XMLFile[Slot(i)]
        BY <1>1, <2>1 DEF WriteFile, RingInv, RingTypeOK
    <2> QED BY <1>1, <2>2, QueueUnchanged DEF WriteFile
<1>2. CASE Commit
    <2>1. Fifo!Put(XMLFile[writepos])
        BY <1>2, CommitAppends, QueueIs DEF Fifo!Put, Commit
    <2>2. XMLFile[writepos] \in Documents
        BY <1>2 DEF Commit, WrittenIsDocument
    <2> QED BY <2>1, <2>2 DEF Fifo!Next
<1>3. CASE PostRead
    BY <1>3, QueueUnchanged DEF PostRead, Fifo!fifoVars
<1>4. CASE WaitRead
    BY <1>4, QueueUnchanged DEF WaitRead, Fifo!fifoVars
<1>5. CASE LoadFile
    <2>1. RingQueue' = RingQueue
        BY <1>5, QueueUnchanged DEF LoadFile
    <2>2. Unread \in Nat /\ Unread >= 1
        BY <1>5, UnreadIsNat
           DEF LoadFile, RingInv, RingTypeOK, SlotsConserved
    <2>3. Slot(1) = readpos
        BY DEF Slot, RingInv, RingTypeOK, Positions
    <2>4. RingQueue # <<>> /\ Head(RingQueue) = XMLFile[readpos]
        BY <2>2, <2>3, QueueIs
    <2> QED BY <1>5, <2>1, <2>4 DEF LoadFile, Fifo!Look, Fifo!Next
<1>6. CASE AdvanceRead
    <2>1. Fifo!Remove
        BY <1>6, AdvanceRemoves DEF Fifo!Remove, AdvanceRead
    <2> QED BY <2>1 DEF Fifo!Next
<1>7. CASE PostWrite
    BY <1>7, QueueUnchanged DEF PostWrite, Fifo!fifoVars
<1>8. CASE UNCHANGED ringVars
    BY <1>8, QueueUnchanged DEF ringVars, Fifo!fifoVars
<1> QED BY <1>1, <1>2, <1>3, <1>4, <1>5, <1>6, <1>7, <1>8
           DEF RingNext, Fifo!fifoVars

\* The ring is a bounded first-in first-out channel of whole documents: what is
\* placed is read once, in order, unchanged, and at most XML_BUF_FILE_NUM - 1
\* documents wait.
THEOREM RingImplementsFifo == RingSpec => RingIsFifo
<1>1. RingInit => Fifo!Init
    <2>1. RingInit => RingQueue = <<>>
        BY RingSize DEF RingInit, RingQueue, Unread
    <2> QED BY <2>1 DEF RingInit, Fifo!Init
<1>2. RefInv /\ RefInv' /\ [RingNext]_ringVars => [Fifo!Next]_(Fifo!fifoVars)
    BY RingStepIsFifoStep
<1> QED BY <1>1, <1>2, RingInitRef, RingNextRef, PTL
        DEF RingSpec, RingIsFifo, Fifo!Spec
=============================================================================
