------------------------- MODULE FileTransferProofs -------------------------
(***************************************************************************)
(* What holds of the file transfer for files of every size, lists of every *)
(* length, and any number of transfers and faults.                         *)
(*                                                                         *)
(* The way to the program keeps the order, and a transfer goes on from its *)
(* start over its packets and questions to its end.  So every document has *)
(* a rank, and what the program has seen is behind (Past) for good.  With  *)
(* that: a mark tells what the file holds (FileInv); an empty list means    *)
(* that every packet is marked, and stays so until the end (AskInv); and an *)
(* end is only sent when every packet is marked (EndInv).                   *)
(***************************************************************************)
EXTENDS FileTransfer, SequenceTheorems, WellFoundedInduction, TLAPS

One(b) == IF b THEN 1 ELSE 0

-----------------------------------------------------------------------------
(* The inductive invariants                                                  *)

\* TransferTypeOK with what it rests on: a server that sends has a transfer,
\* the turn is in one place, the list is made within the total, and each place
\* of XML_main_proc has its request.
ServerTypes ==
    /\ phase \in {"done", "gone", "start", "data", "ask", "end"}
    /\ id \in 0 .. MaxTransfers
    /\ size \in Sizes
    /\ ftype \in FileTypes
    /\ todo \subseteq 1 .. size
    /\ phase # "done" => id > 0

NetTypes ==
    /\ net \in Seq(Requests \cup Data) /\ Len(net) <= MaxNet
    /\ \A k \in DOMAIN net : net[k].of > 0

BitTypes == {link, running, Connect, fp, exists, misled} \subseteq BOOLEAN

TransfileTypes ==
    /\ file \in [Packets -> [of : 0 .. MaxTransfers, whole : BOOLEAN]]
    /\ gFileType \in FileTypes \cup {"none"}

MarkTypes ==
    /\ gPacketReceiveFlag \in [Packets -> 0 .. MaxTransfers + 1]
    /\ gPack_total \in Sizes \cup {0}
    /\ carried \subseteq Packets

CommandTypes ==
    /\ cmd \in {"idle", "list", "turn", "typed", "apply", "connect"}
    /\ ending \in Requests
    /\ i \in 1 .. Max(Sizes) + 1
    /\ LackPacket \in 0 .. LackLimit + 1
    /\ pack_lost_index \subseteq Packets
    /\ pack_lost_total \in 0 .. LackLimit + 1
    /\ cmd = "list" => ending.kind = "pack_lost" /\ i <= gPack_total + 1
    /\ cmd = "apply" => ending.kind = "end"

TurnTypes ==
    /\ Xml_Send_Sem \in 0 .. 1
    /\ ReportUp_Sem \in 0 .. 1
    /\ Xml_Send_Sem + One(cmd = "typed") + ReportUp_Sem + One(rpc # "wait") = 1
    /\ gGPRS_XMLType \in {"TRANS_ACK", "PACK_LOST_ACK", "other"}
    /\ rpc \in {"wait", "build", "index"}
    /\ builtTotal \in 0 .. LackLimit + 1
    /\ askedFor \in 0 .. MaxTransfers
    /\ cmd = "typed" =>
           /\ askedFor = ending.of
           /\ gGPRS_XMLType = "PACK_LOST_ACK" => ending.kind = "pack_lost"

TypeInv ==
    /\ ServerTypes /\ NetTypes /\ BitTypes /\ TransfileTypes /\ MarkTypes
    /\ CommandTypes /\ TurnTypes
    /\ answers \in Seq(Replies)
    /\ faults \in 0 .. MaxFaults

\* Where a document belongs in the course of all transfers, and how far the
\* server is.
Class(m) ==
    IF m.kind = "start" THEN 0 ELSE IF m.kind = "end" THEN 2 ELSE 1
Rank(m) == 3 * m.of + Class(m)
ServerRank ==
    3 * id + (IF phase = "start" THEN 0
              ELSE IF phase \in {"data", "ask"} THEN 1 ELSE 2)

\* Everything still to come is of this rank or later.
Past(r) == r <= ServerRank /\ \A k \in DOMAIN net : r <= Rank(net[k])

Marked(s) == gPacketReceiveFlag[s] \in 1 .. MaxTransfers

OrderInv ==
    /\ \A j, k \in DOMAIN net : j <= k => Rank(net[j]) <= Rank(net[k])
    /\ \A k \in DOMAIN net : Rank(net[k]) <= ServerRank
    /\ \A k \in DOMAIN net : net[k].of = id => net[k].total = size
    /\ \A j, k \in DOMAIN net :
           net[j].of = net[k].of => net[j].total = net[k].total
    /\ Past(Rank(ending))
    /\ gGPRS_XMLType = "PACK_LOST_ACK" => Past(3 * askedFor + 1)
    /\ \A k \in DOMAIN answers :
           answers[k].kind = "pack_lost_ack" => Past(3 * answers[k].of + 1)
    /\ \A s \in Packets : Marked(s) => Past(3 * gPacketReceiveFlag[s] + 1)

\* The transfer m has no packet after s.
LastOf(s, m) ==
    /\ m = id => size <= s
    /\ \A k \in DOMAIN net : net[k].of = m => net[k].total <= s

\* The program is carrying out an end.
Ending == cmd \in {"turn", "typed", "apply"} /\ ending.kind = "end"

\* A mark tells what the file holds until the next transfer begins.
Tells(s, m) ==
    \/ Past(3 * m + 3)
    \/ file[s].of = m /\ (file[s].whole \/ LastOf(s, m))

FileInv ==
    /\ ~exists \/ Ending => gPacketReceiveFlag = NoMarks
    /\ \A s \in Packets, m \in 1 .. MaxTransfers :
           gPacketReceiveFlag[s] = m => Tells(s, m)

AllMarked == \A s \in 1 .. gPack_total : ~Missing(s)

\* No packet of the transfer has come, and those of the last one are complete.
Stale == gPack_total # size /\ AllMarked

\* The list of PACK_LOST.
ListInv ==
    /\ cmd = "list" =>
           /\ LackPacket = 0 => \A s \in 1 .. i - 1 : ~Missing(s)
           /\ LackPacket > 0 => ~AllMarked
    /\ cmd = "turn" /\ ending.kind = "pack_lost" =>
           (pack_lost_total = 0 <=> AllMarked)

\* An answer to PACK_LOST of the transfer going on is being made, with this
\* total.
Making ==
    /\ gGPRS_XMLType = "PACK_LOST_ACK" /\ askedFor = id
    /\ cmd = "typed" \/ ReportUp_Sem = 1 \/ rpc # "wait"
Made == IF rpc = "index" THEN builtTotal ELSE pack_lost_total
Making0 == Making /\ Made = 0

\* It is on its way.
Answer(k) == answers[k].kind = "pack_lost_ack" /\ answers[k].of = id

\* The program has begun to carry out a question of it.
Asked ==
    \/ cmd \in {"list", "turn"} /\ ending.kind = "pack_lost" /\ ending.of = id
    \/ Making
    \/ \E k \in DOMAIN answers : Answer(k)

Question(k) == net[k].kind = "pack_lost" /\ net[k].of = id
Packet(k) == net[k].kind = "file_data" /\ net[k].of = id

\* An empty list means that every packet is marked; and what a list that is not
\* empty makes the server send again is of a transfer that is not Stale.
AskInv ==
    phase \in {"data", "ask"} =>
        /\ Making0 => AllMarked
        /\ Making /\ ~Making0 => ~Stale
        /\ \A k \in DOMAIN answers :
              Answer(k) => IF answers[k].total = 0 THEN AllMarked ELSE ~Stale
        /\ Asked /\ phase = "data" => ~Stale
        /\ \A k \in DOMAIN net : Asked /\ Packet(k) => ~Stale
        /\ \A k \in DOMAIN net :
              Question(k) /\ phase = "data" => ~Stale /\ Past(3 * id + 1)
        /\ \A j, k \in DOMAIN net :
              Question(j) /\ Packet(k) /\ j < k => ~Stale /\ Past(3 * id + 1)

\* The end of e is carried out, there is nothing left to execute.
Ended(e) ==
    /\ Past(3 * e + 2)
    /\ ~exists \/ gFileType = "none" \/ (Ending /\ ending.of = e)

\* An end of e may come.
Closed(e) ==
    /\ Past(3 * e + 1)
    /\ \A k \in DOMAIN net :
           net[k].kind = "file_data" /\ net[k].of = e =>
               gPack_total = net[k].total
    /\ AllMarked \/ Ended(e)

EndInv ==
    /\ phase = "end" => Closed(id)
    /\ \A k \in DOMAIN net : net[k].kind = "end" => Closed(net[k].of)

\* AppliedWhole from the end of the transfer on.
WholeInv ==
    Ending /\ exists /\ gFileType # "none" /\ gPack_total = ending.total
        => \A s \in (1 .. ending.total) \ carried :
               /\ file[s].of = ending.of
               /\ s < ending.total => file[s].whole

TransferInv ==
    /\ TypeInv /\ OrderInv /\ FileInv /\ ListInv
    /\ ~misled => AskInv /\ EndInv /\ WholeInv

-----------------------------------------------------------------------------
(* Sizes, and the documents on their way                                     *)

\* A set of numbers has a smallest.
LEMMA HasMin ==
    ASSUME NEW S, S \subseteq Nat, S # {}
    PROVE  Min(S) \in S /\ \A n \in S : Min(S) <= n
<1> DEFINE Less == OpToRel(<, Nat)
<1>1. \A m, n \in Nat : m < n => <<m, n>> \in Less
  BY DEF OpToRel
<1>2. IsWellFoundedOn(Less, Nat)
  BY NatLessThanWellFounded
<1> HIDE DEF Less
<1>3. PICK k \in S : \A m \in S : ~(<<m, k>> \in Less)
  BY <1>2, WFMin
<1>4. \A m \in S : k <= m
  <2>1. ASSUME NEW m \in S PROVE k <= m
    <3>1. m \in Nat /\ k \in Nat
      OBVIOUS
    <3>2. ~(m < k)
      BY <1>1, <1>3, <3>1, Zenon
    <3> QED
      BY <3>1, <3>2, SMT
  <2> QED
    BY <2>1
<1> QED
  BY <1>3, <1>4 DEF Min

\* No file is larger than Max(Sizes), the number of packets there may be.
LEMMA SizesFit ==
    /\ Max(Sizes) \in Nat
    /\ \A n \in Sizes : n \in Nat /\ 0 < n /\ n <= Max(Sizes)
<1> DEFINE U == {k \in 0 .. 249 : \A n \in Sizes : n <= k}
           u == Min(U)
<1>1. Sizes \subseteq 1 .. 249 /\ Sizes # {}
  BY TransferConstants
<1>2. 249 \in U /\ U \subseteq Nat
  BY <1>1
<1>3. u \in U /\ \A k \in U : u <= k
  BY <1>2, HasMin
<1>4. u \in Sizes
  <2>1. SUFFICES ASSUME u \notin Sizes PROVE FALSE
    OBVIOUS
  <2>2. PICK n \in Sizes : TRUE
    BY <1>1
  <2>3. n <= u /\ n # u /\ n >= 1 /\ u <= 249 /\ u \in Nat /\ n \in Nat
    <3>1. n \in 1 .. 249 /\ n # u
      BY <1>1, <2>1, <2>2
    <3>2. u \in 0 .. 249 /\ n <= u
      BY <1>3, <2>2
    <3> HIDE DEF u, U
    <3> QED
      BY <3>1, <3>2, SMT
  <2>4. u - 1 \in 0 .. 249
    BY <2>3, SMT
  <2>5. \A k \in Sizes : k <= u - 1
    BY <1>1, <1>3, <2>1, <2>3
  <2> QED
    BY <1>3, <2>3, <2>4, <2>5
<1>5. Max(Sizes) \in Sizes /\ \A n \in Sizes : Max(Sizes) >= n
  BY <1>1, <1>3, <1>4 DEF Max
<1>6. \A n \in Sizes : n \in Nat /\ 0 < n
  BY <1>1
<1>7. Max(Sizes) \in Nat
  BY <1>5, <1>6
<1>8. \A n \in Sizes : n <= Max(Sizes)
  BY <1>5, <1>6, <1>7
<1> QED
  BY <1>6, <1>7, <1>8

\* The other constants are numbers.
LEMMA Constants ==
    /\ LackLimit \in Nat /\ MaxNet \in Nat /\ MaxNet > 0
    /\ MaxTransfers \in Nat /\ MaxFaults \in Nat
BY TransferConstants

\* What the kind of a document says.
LEMMA MessageTypes ==
    ASSUME NEW m \in Requests \cup Data
    PROVE  /\ m.of \in 0 .. MaxTransfers
           /\ m.total \in Sizes \cup {0}
           /\ m.kind \in {"start", "pack_lost", "end", "file_data"}
           /\ m.kind = "file_data" <=> m \in Data
           /\ m.kind # "file_data" <=> m \in Requests
           /\ Class(m) \in 0 .. 2 /\ Rank(m) \in Nat
BY Constants DEF Requests, Data, Class, Rank

USE DEF serverVars, linkVars, fileVars, flagVars, listVars, turnVars,
        buildVars, ghostVars, transferVars

\* Taking the first document leaves the others, one place further on.
LEMMA TailOf ==
    ASSUME NEW S, NEW q \in Seq(S), q # <<>>
    PROVE  /\ Head(q) \in S /\ Head(q) = q[1] /\ 1 \in DOMAIN q
           /\ Tail(q) \in Seq(S) /\ Len(Tail(q)) = Len(q) - 1
           /\ DOMAIN q = 1 .. Len(q) /\ Len(q) \in Nat
           /\ DOMAIN Tail(q) = 1 .. Len(q) - 1
           /\ \A k \in DOMAIN Tail(q) :
                  k + 1 \in DOMAIN q /\ Tail(q)[k] = q[k + 1]
<1>1. DOMAIN q = 1 .. Len(q) /\ Len(q) \in Nat /\ Len(q) > 0
  BY EmptySeq, LenProperties, SMT
<1>2. /\ Head(q) \in S /\ Tail(q) \in Seq(S) /\ Len(Tail(q)) = Len(q) - 1
      /\ \A k \in 1 .. Len(Tail(q)) : Tail(q)[k] = q[k + 1]
  BY HeadTailProperties
<1>3. DOMAIN Tail(q) = 1 .. Len(Tail(q))
  BY <1>2, LenProperties
<1>4. Head(q) = q[1]
  BY <1>1, SMT
<1> QED
  BY <1>1, <1>2, <1>3, <1>4, SMT

\* A document joins behind the others.
LEMMA AppendOf ==
    ASSUME NEW S, NEW q \in Seq(S), NEW x \in S
    PROVE  /\ Append(q, x) \in Seq(S)
           /\ Len(q) \in Nat /\ Len(Append(q, x)) = Len(q) + 1
           /\ DOMAIN q = 1 .. Len(q)
           /\ DOMAIN Append(q, x) = 1 .. Len(q) + 1
           /\ \A k \in DOMAIN q : Append(q, x)[k] = q[k]
           /\ Append(q, x)[Len(q) + 1] = x
<1>1. DOMAIN q = 1 .. Len(q) /\ Len(q) \in Nat
  BY LenProperties
<1>2. Append(q, x) \in Seq(S) /\ Len(Append(q, x)) = Len(q) + 1
  BY AppendProperties
<1>3. DOMAIN Append(q, x) = 1 .. Len(q) + 1
  BY <1>2, LenProperties
<1> QED
  BY <1>1, <1>2, <1>3, AppendProperties

\* The first document is replaced.
LEMMA FirstReplaced ==
    ASSUME NEW S, NEW q \in Seq(S), q # <<>>, NEW x \in S
    PROVE  /\ <<x>> \o Tail(q) \in Seq(S)
           /\ Len(<<x>> \o Tail(q)) = Len(q)
           /\ DOMAIN (<<x>> \o Tail(q)) = DOMAIN q
           /\ \A k \in DOMAIN q :
                 (<<x>> \o Tail(q))[k] = IF k = 1 THEN x ELSE q[k]
<1> DEFINE r == <<x>> \o Tail(q)
<1>1. <<x>> \in Seq(S) /\ Len(<<x>>) = 1 /\ <<x>>[1] = x
  OBVIOUS
<1>2. /\ Tail(q) \in Seq(S) /\ Len(Tail(q)) = Len(q) - 1
      /\ DOMAIN q = 1 .. Len(q) /\ Len(q) \in Nat /\ Len(q) > 0
      /\ DOMAIN Tail(q) = 1 .. Len(q) - 1
      /\ \A k \in DOMAIN Tail(q) : Tail(q)[k] = q[k + 1]
  BY TailOf, EmptySeq, SMT
<1>3. /\ r \in Seq(S) /\ Len(r) = Len(<<x>>) + Len(Tail(q))
      /\ \A k \in 1 .. Len(<<x>>) + Len(Tail(q)) :
            r[k] = IF k <= Len(<<x>>) THEN <<x>>[k]
                   ELSE Tail(q)[k - Len(<<x>>)]
  BY <1>1, <1>2, ConcatProperties
<1>4. Len(r) = Len(q)
  BY <1>1, <1>2, <1>3
<1>5. DOMAIN r = 1 .. Len(r)
  BY <1>3, LenProperties
<1>6. \A k \in 1 .. Len(q) : r[k] = IF k = 1 THEN x ELSE Tail(q)[k - 1]
  BY <1>1, <1>2, <1>3
<1>7. \A k \in 1 .. Len(q) : k # 1 =>
          k - 1 \in DOMAIN Tail(q) /\ (k - 1) + 1 = k
  BY <1>2, SMT
<1> HIDE DEF r
<1>8. \A k \in DOMAIN q : r[k] = IF k = 1 THEN x ELSE q[k]
  BY <1>2, <1>6, <1>7
<1> QED
  BY <1>2, <1>3, <1>4, <1>5, <1>8 DEF r

-----------------------------------------------------------------------------
(* Types                                                                     *)

\* The invariant of the types is TransferTypeOK and more.
LEMMA TypeInvImplies == TypeInv => TransferTypeOK
BY DEF TypeInv, TransferTypeOK, ServerTypes, NetTypes, BitTypes,
       TransfileTypes, MarkTypes, CommandTypes, TurnTypes

\* It holds of an idle server and a program that has just logged in.
LEMMA TypeInit == TransferInit => TypeInv
<1> SUFFICES ASSUME TransferInit PROVE TypeInv
  OBVIOUS
<1> USE Constants, SizesFit DEF TransferInit
<1>1. ServerTypes
  BY DEF ServerTypes
<1>2. NetTypes /\ answers \in Seq(Replies)
  BY DEF NetTypes
<1>3. BitTypes
  BY DEF BitTypes
<1>4. TransfileTypes
  BY DEF TransfileTypes, Empty
<1>5. MarkTypes
  BY DEF MarkTypes, NoMarks
<1>6. CommandTypes
  BY DEF CommandTypes, NoRequest, Requests
<1>7. TurnTypes
  BY DEF TurnTypes, One
<1>8. faults \in 0 .. MaxFaults
  OBVIOUS
<1> QED
  BY <1>1, <1>2, <1>3, <1>4, <1>5, <1>6, <1>7, <1>8 DEF TypeInv

-----------------------------------------------------------------------------
(* What may happen to the documents on their way                             *)

\* They become fewer, from the first on; a damaged packet is still one.
Fewer ==
    \E d \in {0, 1} : \A k \in DOMAIN net' :
        /\ k + d \in DOMAIN net
        /\ net'[k].kind = net[k + d].kind
        /\ net'[k].of = net[k + d].of
        /\ net'[k].total = net[k + d].total

\* Or the server sends one more: of its transfer, and where it has come to.
Joined(m) ==
    /\ net' = Append(net, m)
    /\ m.of = id' /\ m.total = size'
    /\ Rank(m) = ServerRank' /\ ServerRank <= ServerRank'
    /\ phase' \in {"start", "data", "ask", "end"}
    /\ m.kind = "file_data" => phase = "data"
    /\ m.kind = "pack_lost" => phase' = "ask"

\* The program takes the first document, or the first is lost.
LEMMA NetTaken ==
    ASSUME NetTypes, net # <<>>, net' = Tail(net)
    PROVE  NetTypes' /\ Fewer
<1> USE DEF NetTypes
<1>1. /\ Tail(net) \in Seq(Requests \cup Data) /\ Len(Tail(net)) = Len(net) - 1
      /\ Len(net) \in Nat
      /\ \A k \in DOMAIN Tail(net) :
             k + 1 \in DOMAIN net /\ Tail(net)[k] = net[k + 1]
  BY TailOf
<1>2. Len(net') <= MaxNet
  BY <1>1, Constants
<1>3. Fewer
  BY <1>1, Zenon DEF Fewer
<1> QED
  BY <1>1, <1>2, <1>3

\* The server sends one more.
LEMMA NetJoined ==
    ASSUME NetTypes, NEW m \in Requests \cup Data, m.of > 0,
           Len(net) < MaxNet, net' = Append(net, m)
    PROVE  NetTypes'
<1> USE DEF NetTypes
<1>1. /\ net' \in Seq(Requests \cup Data) /\ Len(net') = Len(net) + 1
      /\ Len(net) \in Nat /\ DOMAIN net = 1 .. Len(net)
      /\ DOMAIN net' = 1 .. Len(net) + 1
      /\ \A k \in DOMAIN net : net'[k] = net[k]
      /\ net'[Len(net) + 1] = m
  BY AppendOf
<1>2. Len(net') <= MaxNet
  BY <1>1, Constants
<1>3. \A k \in DOMAIN net' : k \in DOMAIN net \/ k = Len(net) + 1
  BY <1>1, SMT
<1>4. \A k \in DOMAIN net' : net'[k].of > 0
  BY <1>1, <1>3
<1> QED
  BY <1>1, <1>2, <1>4

\* The link goes down, or the concentrator is started again.
LEMMA NetEmptied ==
    ASSUME net' = <<>>
    PROVE  NetTypes' /\ Fewer
BY Constants DEF NetTypes, Fewer

\* The server's request to begin, ask or end.
LEMMA RequestTypes ==
    ASSUME NEW n \in 1 .. MaxTransfers, NEW z \in Sizes,
           NEW k \in {"start", "pack_lost", "end"}
    PROVE  LET m == [kind |-> k, of |-> n, total |-> z]
           IN  /\ m \in Requests \cup Data /\ m.of > 0
               /\ m.of = n /\ m.total = z
               /\ Rank(m) = 3 * n + (IF k = "start" THEN 0
                                     ELSE IF k = "end" THEN 2 ELSE 1)
BY Constants DEF Requests, Rank, Class

\* A packet.
LEMMA PacketTypes ==
    ASSUME NEW n \in 1 .. MaxTransfers, NEW z \in Sizes, NEW s \in 1 .. z,
           NEW t \in FileTypes, NEW m,
           m = [kind |-> "file_data", of |-> n, total |-> z, seq |-> s,
                type |-> t, whole |-> TRUE]
    PROVE  /\ m \in Requests \cup Data /\ m.of > 0
           /\ m.of = n /\ m.total = z /\ m.kind = "file_data"
           /\ Rank(m) = 3 * n + 1
<1>1. s \in Packets
  BY SizesFit DEF Packets
<1> QED
  BY <1>1, Constants DEF Data, Rank, Class

\* Each step takes from the front, empties, damages the first or sends: nothing
\* overtakes.
LEMMA NetStep ==
    ASSUME TypeInv, [TransferNext]_transferVars
    PROVE  NetTypes' /\ (Fewer \/ \E m \in Requests \cup Data : Joined(m))
<1> USE DEF TypeInv
<1>0. /\ phase # "done" => id \in 1 .. MaxTransfers
      /\ id \in 0 .. MaxTransfers /\ size \in Sizes
  BY Constants DEF ServerTypes
<1>1. CASE UNCHANGED net
  <2>1. \A k \in DOMAIN net : k + 0 = k
    BY LenProperties, SMT DEF NetTypes
  <2>2. Fewer
    BY <1>1, <2>1, Zenon DEF Fewer
  <2> QED
    BY <1>1, <2>2 DEF NetTypes
<1>2. ASSUME NEW n \in Sizes, NEW t \in FileTypes, ServerBegins(n, t)
      PROVE  NetTypes' /\ \E m \in Requests \cup Data : Joined(m)
  <2> DEFINE m == [kind |-> "start", of |-> id + 1, total |-> n]
  <2>1. id + 1 \in 1 .. MaxTransfers
    BY <1>0, <1>2, Constants DEF ServerBegins
  <2>2. /\ m \in Requests \cup Data /\ m.of > 0
        /\ m.of = id + 1 /\ m.total = n
        /\ Rank(m) = 3 * (id + 1) + 0
    BY <2>1, RequestTypes
  <2>5. m.kind = "start"
    OBVIOUS
  <2>3. /\ net' = Append(net, m) /\ Len(net) < MaxNet
        /\ id' = id + 1 /\ size' = n /\ phase' = "start"
    BY <1>2 DEF ServerBegins, Send
  <2>4. ServerRank' = 3 * (id + 1) + 0 /\ ServerRank <= ServerRank'
    BY <1>0, <2>3 DEF ServerRank
  <2> HIDE DEF m
  <2> QED
    BY <2>2, <2>3, <2>4, <2>5, NetJoined DEF Joined
<1>3. CASE ServerSends
  <2>1. phase = "data" /\ id \in 1 .. MaxTransfers
    BY <1>0, <1>3 DEF ServerSends
  <2>2. CASE todo = {}
    <3> DEFINE m == Request("pack_lost")
    <3>1. /\ m \in Requests \cup Data /\ m.of > 0
          /\ m.of = id /\ m.total = size
          /\ Rank(m) = 3 * id + 1
      BY <1>0, <2>1, RequestTypes DEF Request
    <3>2. /\ net' = Append(net, m) /\ Len(net) < MaxNet
          /\ id' = id /\ size' = size /\ phase' = "ask"
      BY <1>3, <2>2 DEF ServerSends, Send
    <3>3. ServerRank' = 3 * id + 1 /\ ServerRank <= ServerRank'
      BY <1>0, <2>1, <3>2 DEF ServerRank
    <3>4. m.kind = "pack_lost"
      BY DEF Request
    <3> HIDE DEF m
    <3> QED
      BY <3>1, <3>2, <3>3, <3>4, NetJoined DEF Joined
  <2>3. CASE todo # {}
    <3> DEFINE m == [kind |-> "file_data", of |-> id, total |-> size,
                     seq |-> Min(todo), type |-> ftype, whole |-> TRUE]
    <3>1. Min(todo) \in 1 .. size
      <4>1. todo \subseteq Nat /\ todo \subseteq 1 .. size
        BY SizesFit DEF ServerTypes
      <4> QED
        BY <2>3, <4>1, HasMin
    <3>2. /\ m \in Requests \cup Data /\ m.of > 0
          /\ m.of = id /\ m.total = size /\ m.kind = "file_data"
          /\ Rank(m) = 3 * id + 1
      <4>1. ftype \in FileTypes
        BY DEF ServerTypes
      <4>2. m = [kind |-> "file_data", of |-> id, total |-> size,
                 seq |-> Min(todo), type |-> ftype, whole |-> TRUE]
        OBVIOUS
      <4> HIDE DEF m
      <4> QED
        BY <1>0, <2>1, <3>1, <4>1, <4>2, PacketTypes
    <3>3. /\ net' = Append(net, m) /\ Len(net) < MaxNet
          /\ id' = id /\ size' = size /\ phase' = "data"
      BY <1>3, <2>1, <2>3 DEF ServerSends, Send
    <3>4. ServerRank' = 3 * id + 1 /\ ServerRank <= ServerRank'
      BY <1>0, <2>1, <3>3 DEF ServerRank
    <3> HIDE DEF m
    <3> QED
      BY <2>1, <3>2, <3>3, <3>4, NetJoined DEF Joined
  <2> QED
    BY <2>2, <2>3
<1>4. CASE ServerReceives
  <2>1. CASE UNCHANGED net
    BY <1>1, <2>1
  <2>2. CASE phase = "ask" /\ phase' = "end" /\ Send(Request("end"))
    <3> DEFINE m == Request("end")
    <3>1. /\ m \in Requests \cup Data /\ m.of > 0
          /\ m.of = id /\ m.total = size
          /\ Rank(m) = 3 * id + 2
      BY <1>0, <2>2, RequestTypes DEF Request
    <3>2. /\ net' = Append(net, m) /\ Len(net) < MaxNet
          /\ id' = id /\ size' = size /\ phase' = "end"
      BY <1>4, <2>2 DEF ServerReceives, Send
    <3>3. ServerRank' = 3 * id + 2 /\ ServerRank <= ServerRank'
      BY <1>0, <2>2, <3>2 DEF ServerRank
    <3>4. m.kind = "end"
      BY DEF Request
    <3> HIDE DEF m
    <3> QED
      BY <3>1, <3>2, <3>3, <3>4, NetJoined DEF Joined
  <2> QED
    BY <1>4, <2>1, <2>2 DEF ServerReceives
<1>5. CASE ServerRepeats
  <2> DEFINE kind == CASE phase = "start" -> "start"
                       [] phase = "ask" -> "pack_lost"
                       [] phase = "end" -> "end"
             m == Request(kind)
  <2>1. phase \in {"start", "ask", "end"} /\ id \in 1 .. MaxTransfers
    BY <1>0, <1>5 DEF ServerRepeats
  <2>2. /\ kind \in {"start", "pack_lost", "end"}
        /\ kind = "start" <=> phase = "start"
        /\ kind = "pack_lost" => phase = "ask"
        /\ kind = "end" <=> phase = "end"
    BY <2>1
  <2>3. /\ net' = Append(net, m) /\ Len(net) < MaxNet
        /\ id' = id /\ size' = size /\ phase' = phase
    BY <1>5 DEF ServerRepeats, Send
  <2> HIDE DEF kind
  <2>4. /\ m \in Requests \cup Data /\ m.of > 0
        /\ m.of = id /\ m.total = size
        /\ Rank(m) = 3 * id + (IF kind = "start" THEN 0
                               ELSE IF kind = "end" THEN 2 ELSE 1)
    BY <1>0, <2>1, <2>2, RequestTypes DEF Request
  <2>5. ServerRank' = Rank(m) /\ ServerRank <= ServerRank'
    BY <1>0, <2>1, <2>2, <2>3, <2>4 DEF ServerRank
  <2>6. m.kind = kind
    BY DEF Request
  <2> HIDE DEF m
  <2> QED
    BY <2>1, <2>2, <2>3, <2>4, <2>5, <2>6, NetJoined DEF Joined
<1>6. CASE net # <<>> /\ net' = Tail(net)
  BY <1>6, NetTaken
<1>7. CASE net' = <<>>
  BY <1>7, NetEmptied
<1>8. CASE Damage
  <2> DEFINE x == [Head(net) EXCEPT !.whole = FALSE]
  <2>1. /\ net # <<>> /\ Head(net).kind = "file_data"
        /\ net' = <<x>> \o Tail(net)
    BY <1>8 DEF Damage
  <2>2. /\ Head(net) \in Requests \cup Data /\ Head(net) = net[1]
        /\ 1 \in DOMAIN net /\ DOMAIN net \subseteq Nat
    BY <2>1, TailOf DEF NetTypes
  <2>3. Head(net) \in Data
    BY <2>1, <2>2, MessageTypes
  <2>4. /\ x \in Data /\ x.kind = Head(net).kind /\ x.of = Head(net).of
        /\ x.total = Head(net).total
    BY <2>3 DEF Data
  <2> HIDE DEF x
  <2>5. /\ net' \in Seq(Requests \cup Data) /\ Len(net') = Len(net)
        /\ DOMAIN net' = DOMAIN net
        /\ \A k \in DOMAIN net : net'[k] = IF k = 1 THEN x ELSE net[k]
    BY <2>1, <2>4, FirstReplaced DEF NetTypes
  <2>6. \A k \in DOMAIN net' : /\ k + 0 \in DOMAIN net
                               /\ net'[k].kind = net[k + 0].kind
                               /\ net'[k].of = net[k + 0].of
                               /\ net'[k].total = net[k + 0].total
    BY <2>2, <2>4, <2>5
  <2>7. NetTypes'
    BY <2>2, <2>4, <2>5 DEF NetTypes
  <2> QED
    BY <2>6, <2>7, Zenon DEF Fewer
<1> QED
  BY <1>2, <1>3, <1>4, <1>5, <1>6, <1>7, <1>8, <1>1
     DEF TransferNext, ServerGivesUp, Server, Lose, LinkLost, Login, Restart,
         Commander, FileTrans, PackLost, ListPacket, ListEnds, TransStart,
         TransEnd, TakeTurn, PostReportUp, TransFile, SetConnect, OtherPosts,
         ReportUp, ReportUpWait, BuildTotal, BuildIndex, Takes

-----------------------------------------------------------------------------
(* The other types                                                           *)

\* The document that is taken.
LEMMA HeadTypes ==
    ASSUME TypeInv, net # <<>>
    PROVE  /\ Head(net) \in Requests \cup Data /\ Head(net) = net[1]
           /\ 1 \in DOMAIN net
           /\ Head(net).of \in 1 .. MaxTransfers
           /\ Head(net).kind = "file_data" => Head(net) \in Data
           /\ Head(net).kind # "file_data" => Head(net) \in Requests
<1>1. /\ Head(net) \in Requests \cup Data /\ Head(net) = net[1]
      /\ 1 \in DOMAIN net
  BY TailOf DEF TypeInv, NetTypes
<1>2. Head(net).of > 0 /\ Head(net).of \in 0 .. MaxTransfers
  BY <1>1, MessageTypes DEF TypeInv, NetTypes
<1> QED
  BY <1>1, <1>2, MessageTypes, Constants

\* The server's transfer keeps its types.
LEMMA ServerTypeStep ==
    ASSUME TypeInv, [TransferNext]_transferVars
    PROVE  ServerTypes'
<1> USE Constants, SizesFit DEF TypeInv, ServerTypes
<1>1. ASSUME NEW n \in Sizes, NEW t \in FileTypes, ServerBegins(n, t)
      PROVE  ServerTypes'
  BY <1>1 DEF ServerBegins
<1>2. CASE ServerGivesUp
  BY <1>2 DEF ServerGivesUp
<1>3. CASE ServerSends
  BY <1>3 DEF ServerSends
<1>4. CASE ServerReceives
  <2>1. /\ phase' \in {"done", "gone", "start", "data", "ask", "end"}
        /\ todo' \subseteq 1 .. size
        /\ phase' # "done" => phase # "done"
    BY <1>4 DEF ServerReceives
  <2> QED
    BY <1>4, <2>1 DEF ServerReceives
<1>5. CASE UNCHANGED serverVars
  BY <1>5
<1> QED
  BY <1>1, <1>2, <1>3, <1>4, <1>5
     DEF TransferNext, Server, ServerRepeats, Lose, Damage, LinkLost, Login,
         Restart, Commander, FileTrans, PackLost, ListPacket, ListEnds,
         TransStart, TransEnd, TakeTurn, PostReportUp, TransFile, SetConnect,
         OtherPosts, ReportUp, ReportUpWait, BuildTotal, BuildIndex, Takes

\* So do the answers ...
LEMMA AnswersStep ==
    ASSUME TypeInv, [TransferNext]_transferVars
    PROVE  answers' \in Seq(Replies)
<1> USE DEF TypeInv
<1>1. CASE answers # <<>> /\ answers' = Tail(answers)
  BY <1>1, TailOf
<1>2. CASE answers' = <<>>
  BY <1>2
<1>3. CASE BuildIndex
  <2>1. askedFor \in 0 .. MaxTransfers /\ builtTotal \in 0 .. LackLimit + 1
        /\ pack_lost_index \in SUBSET Packets
    BY DEF TurnTypes, CommandTypes
  <2>2. [kind |-> "Trans_ack", of |-> askedFor] \in Replies
    BY <2>1 DEF Replies
  <2>3. [kind |-> "pack_lost_ack", of |-> askedFor, total |-> builtTotal,
         index |-> pack_lost_index] \in Replies
    BY <2>1 DEF Replies
  <2> QED
    BY <1>3, <2>2, <2>3, AppendProperties DEF BuildIndex, TurnTypes
<1>4. CASE UNCHANGED answers
  BY <1>4
<1> QED
  BY <1>1, <1>2, <1>3, <1>4
     DEF TransferNext, Server, ServerBegins, ServerGivesUp, ServerSends,
         ServerReceives, ServerRepeats, Lose, Damage, LinkLost, Login,
         Restart, Commander, FileTrans, PackLost, ListPacket, ListEnds,
         TransStart, TransEnd, TakeTurn, PostReportUp, TransFile, SetConnect,
         OtherPosts, ReportUp, ReportUpWait, BuildTotal

\* ... what is either so or not ...
LEMMA BitTypeStep ==
    ASSUME TypeInv, [TransferNext]_transferVars
    PROVE  BitTypes'
<1> USE DEF TypeInv, BitTypes
<1>1. CASE ServerReceives
  BY <1>1, Zenon DEF ServerReceives
<1>2. CASE LinkLost
  BY <1>2, Zenon DEF LinkLost, Fault
<1>3. CASE Login
  BY <1>3, Zenon DEF Login
<1>4. CASE Restart
  BY <1>4, Zenon DEF Restart, Fault, FreshMemory
<1>5. CASE FileTrans
  BY <1>5, Zenon DEF FileTrans, Takes, Fault
<1>6. CASE TransStart
  BY <1>6, Zenon DEF TransStart, Takes
<1>7. CASE TransEnd
  BY <1>7, Zenon DEF TransEnd, Takes
<1>8. CASE TransFile
  BY <1>8, Zenon DEF TransFile
<1>9. CASE SetConnect
  BY <1>9, Zenon DEF SetConnect
<1>10. CASE UNCHANGED <<link, running, Connect, fp, exists, misled>>
  BY <1>10, Zenon
<1> QED
  BY <1>1, <1>2, <1>3, <1>4, <1>5, <1>6, <1>7, <1>8, <1>9, <1>10
     DEF TransferNext, Server, ServerBegins, ServerGivesUp, ServerSends,
         ServerRepeats, Lose, Damage, Commander, PackLost, ListPacket,
         ListEnds, TakeTurn, PostReportUp, OtherPosts, ReportUp, ReportUpWait,
         BuildTotal, BuildIndex, Takes, Fault

\* ... the file and what gFileType says of it ...
LEMMA TransfileTypeStep ==
    ASSUME TypeInv, [TransferNext]_transferVars
    PROVE  TransfileTypes'
<1> USE Constants DEF TypeInv, TransfileTypes
<1>1. CASE FileTrans
  <2> DEFINE m == Head(net)
             found == IF exists THEN file ELSE [s \in Packets |-> Empty]
  <2>1. m \in Data
    BY <1>1, HeadTypes DEF FileTrans, Takes
  <2>2. /\ m.seq \in Packets /\ m.of \in 0 .. MaxTransfers
        /\ m.whole \in BOOLEAN /\ m.type \in FileTypes
    BY <2>1 DEF Data
  <2>3. found \in [Packets -> [of : 0 .. MaxTransfers, whole : BOOLEAN]]
    BY DEF Empty
  <2>4. \/ UNCHANGED <<file, gFileType>>
        \/ /\ gFileType' = m.type
           /\ \E w \in {m.whole, FALSE} :
                 file' = [found EXCEPT ![m.seq] = [of |-> m.of, whole |-> w]]
    BY <1>1, Zenon DEF FileTrans
  <2> HIDE DEF found, m
  <2>5. \A w \in {m.whole, FALSE} :
            [found EXCEPT ![m.seq] = [of |-> m.of, whole |-> w]]
                \in [Packets -> [of : 0 .. MaxTransfers, whole : BOOLEAN]]
    BY <2>2, <2>3
  <2>6. file' \in [Packets -> [of : 0 .. MaxTransfers, whole : BOOLEAN]]
    BY <2>4, <2>5
  <2> QED
    BY <2>2, <2>4, <2>6
<1>2. CASE TransStart
  BY <1>2 DEF TransStart, Empty
<1>3. CASE Restart
  BY <1>3 DEF Restart, FreshMemory
<1>4. CASE UNCHANGED <<file, gFileType>>
  BY <1>4
<1> QED
  BY <1>1, <1>2, <1>3, <1>4
     DEF TransferNext, Server, ServerBegins, ServerGivesUp, ServerSends,
         ServerReceives, ServerRepeats, Lose, Damage, LinkLost, Login,
         Commander, PackLost, ListPacket, ListEnds, TransEnd, TakeTurn,
         PostReportUp, TransFile, SetConnect, OtherPosts, ReportUp,
         ReportUpWait, BuildTotal, BuildIndex

\* ... the marks of the packets and their number ...
LEMMA MarkTypeStep ==
    ASSUME TypeInv, [TransferNext]_transferVars
    PROVE  MarkTypes'
<1> USE Constants DEF TypeInv, MarkTypes
<1>1. CASE FileTrans
  <2> DEFINE m == Head(net)
  <2>1. m \in Data
    BY <1>1, HeadTypes DEF FileTrans, Takes
  <2>2. m.seq \in Packets /\ m.of \in 0 .. MaxTransfers /\ m.total \in Sizes
    BY <2>1 DEF Data
  <2>3. /\ gPack_total' = m.total /\ carried' = carried
        /\ \/ UNCHANGED gPacketReceiveFlag
           \/ \E f \in {0, m.of, Spoilt} :
                 gPacketReceiveFlag' = [gPacketReceiveFlag EXCEPT ![m.seq] = f]
    BY <1>1, Zenon DEF FileTrans
  <2>4. \A f \in {0, m.of, Spoilt} : f \in 0 .. MaxTransfers + 1
    BY <2>2 DEF Spoilt
  <2> HIDE DEF m
  <2>5. \A f \in {0, m.of, Spoilt} :
            [gPacketReceiveFlag EXCEPT ![m.seq] = f]
                \in [Packets -> 0 .. MaxTransfers + 1]
    BY <2>2, <2>4
  <2>6. gPacketReceiveFlag' \in [Packets -> 0 .. MaxTransfers + 1]
    BY <2>3, <2>5
  <2> QED
    BY <2>2, <2>3, <2>6
<1>2. CASE TransEnd
  BY <1>2 DEF TransEnd, NoMarks
<1>3. CASE Restart
  BY <1>3 DEF Restart, FreshMemory, NoMarks
<1>4. CASE UNCHANGED flagVars
  BY <1>4
<1> QED
  BY <1>1, <1>2, <1>3, <1>4
     DEF TransferNext, Server, ServerBegins, ServerGivesUp, ServerSends,
         ServerReceives, ServerRepeats, Lose, Damage, LinkLost, Login,
         Commander, PackLost, ListPacket, ListEnds, TransStart, TakeTurn,
         PostReportUp, TransFile, SetConnect, OtherPosts, ReportUp,
         ReportUpWait, BuildTotal, BuildIndex

\* ... XML_main_proc, whose list never holds more than LackLimit + 1 packets, and
\* none that is not counted ...
LEMMA CommandTypeStep ==
    ASSUME TypeInv, [TransferNext]_transferVars
    PROVE  CommandTypes'
<1> USE Constants, SizesFit DEF TypeInv, CommandTypes
<1>1. CASE PackLost
  <2>1. Head(net) \in Requests /\ Head(net).kind = "pack_lost"
    BY <1>1, HeadTypes DEF PackLost, Takes
  <2>2. 1 <= gPack_total + 1
    BY DEF MarkTypes
  <2> QED
    BY <1>1, <2>1, <2>2 DEF PackLost
<1>2. CASE ListPacket
  <2>1. /\ i \in 1 .. gPack_total
        /\ gPack_total <= Max(Sizes) /\ gPack_total \in Nat
    BY <1>2 DEF ListPacket, MarkTypes
  <2>2. /\ i \in Packets
        /\ i + 1 \in 1 .. Max(Sizes) + 1 /\ i + 1 <= gPack_total + 1
    BY <2>1 DEF Packets
  <2>3. LackPacket' \in 0 .. LackLimit + 1
    BY <1>2 DEF ListPacket
  <2>4. pack_lost_index' \subseteq Packets
    BY <1>2, <2>2 DEF ListPacket
  <2> QED
    BY <1>2, <2>2, <2>3, <2>4 DEF ListPacket
<1>3. CASE ListEnds
  BY <1>3 DEF ListEnds
<1>4. CASE TransStart
  <2>1. Head(net) \in Requests
    BY <1>4, HeadTypes DEF TransStart, Takes
  <2> QED
    BY <1>4, <2>1 DEF TransStart
<1>5. CASE TransEnd
  <2>1. Head(net) \in Requests
    BY <1>5, HeadTypes DEF TransEnd, Takes
  <2> QED
    BY <1>5, <2>1 DEF TransEnd
<1>6. CASE TakeTurn
  BY <1>6 DEF TakeTurn
<1>7. CASE PostReportUp
  <2>1. ending.kind \in {"start", "pack_lost", "end"}
    BY DEF Requests
  <2> QED
    BY <1>7, <2>1 DEF PostReportUp
<1>8. CASE TransFile
  BY <1>8 DEF TransFile
<1>9. CASE SetConnect
  BY <1>9 DEF SetConnect
<1>10. CASE Restart
  BY <1>10 DEF Restart, FreshMemory, NoRequest, Requests
<1>11. CASE FileTrans
  <2>1. cmd = "idle" /\ UNCHANGED <<cmd, ending, listVars>>
    BY <1>11 DEF FileTrans, Takes
  <2> QED
    BY <2>1
<1>12. CASE UNCHANGED <<cmd, ending, listVars, gPack_total>>
  BY <1>12
<1> QED
  BY <1>1, <1>2, <1>3, <1>4, <1>5, <1>6, <1>7, <1>8, <1>9, <1>10, <1>11, <1>12
     DEF TransferNext, Server, ServerBegins, ServerGivesUp, ServerSends,
         ServerReceives, ServerRepeats, Lose, Damage, LinkLost, Login,
         Commander, OtherPosts, ReportUp, ReportUpWait, BuildTotal, BuildIndex

\* ... and the turn, which is in one place.
LEMMA TurnTypeStep ==
    ASSUME TypeInv, [TransferNext]_transferVars
    PROVE  TurnTypes'
<1> USE Constants DEF TypeInv, TurnTypes, One
<1>1. CASE TakeTurn
  <2>1. /\ cmd = "turn" /\ cmd' = "typed" /\ Xml_Send_Sem = 1
        /\ Xml_Send_Sem' = 0
        /\ UNCHANGED <<ReportUp_Sem, rpc, builtTotal, ending>>
        /\ askedFor' = ending.of
    BY <1>1 DEF TakeTurn
  <2>2. ending.of \in 0 .. MaxTransfers
    BY DEF CommandTypes, Requests
  <2>3. gGPRS_XMLType' = IF ending.kind = "pack_lost" THEN "PACK_LOST_ACK"
                         ELSE "TRANS_ACK"
    BY <1>1 DEF TakeTurn
  <2> QED
    BY <2>1, <2>2, <2>3
<1>2. CASE PostReportUp
  <2>1. cmd' \in {"idle", "connect", "apply"}
    BY <1>2 DEF PostReportUp, CommandTypes, Requests
  <2>2. /\ cmd = "typed" /\ rpc = "wait"
        /\ Xml_Send_Sem = 0 /\ ReportUp_Sem = 0
        /\ ReportUp_Sem' = 1
        /\ UNCHANGED <<Xml_Send_Sem, gGPRS_XMLType, rpc, builtTotal, askedFor>>
    BY <1>2 DEF PostReportUp
  <2> QED
    BY <2>1, <2>2
<1>3. CASE OtherPosts
  BY <1>3 DEF OtherPosts
<1>4. CASE ReportUpWait
  BY <1>4 DEF ReportUpWait
<1>5. CASE BuildTotal
  BY <1>5 DEF BuildTotal, CommandTypes
<1>6. CASE BuildIndex
  BY <1>6 DEF BuildIndex
<1>7. CASE Restart
  BY <1>7 DEF Restart, FreshMemory, Fault
<1>8. ASSUME UNCHANGED <<turnVars, buildVars, askedFor>>,
             (cmd # "typed" /\ cmd' # "typed") \/ UNCHANGED <<cmd, ending>>
      PROVE  TurnTypes'
  BY <1>8
<1>9. CASE FileTrans
  BY <1>8, <1>9 DEF FileTrans, Takes, Fault
<1>10. CASE PackLost \/ TransStart \/ TransEnd
  BY <1>8, <1>10 DEF PackLost, TransStart, TransEnd, Takes
<1>11. CASE ListPacket \/ ListEnds \/ TransFile \/ SetConnect
  BY <1>8, <1>11 DEF ListPacket, ListEnds, TransFile, SetConnect
<1>12. CASE UNCHANGED <<turnVars, buildVars, askedFor, cmd, ending>>
  BY <1>8, <1>12
<1> QED
  BY <1>1, <1>2, <1>3, <1>4, <1>5, <1>6, <1>7, <1>9, <1>10, <1>11, <1>12
     DEF TransferNext, Server, ServerBegins, ServerGivesUp, ServerSends,
         ServerReceives, ServerRepeats, Lose, Damage, LinkLost, Login,
         Commander, ReportUp, Fault

\* No step leaves the types.
LEMMA TypeStep == TypeInv /\ [TransferNext]_transferVars => TypeInv'
<1> SUFFICES ASSUME TypeInv, [TransferNext]_transferVars PROVE TypeInv'
  OBVIOUS
<1>1. faults' \in 0 .. MaxFaults
  <2>1. faults' = faults \/ (faults < MaxFaults /\ faults' = faults + 1)
    BY DEF TransferNext, Server, ServerBegins, ServerGivesUp, ServerSends,
           ServerReceives, ServerRepeats, Lose, Damage, LinkLost, Login,
           Restart, Commander, FileTrans, PackLost, ListPacket, ListEnds,
           TransStart, TransEnd, TakeTurn, PostReportUp, TransFile,
           SetConnect, OtherPosts, ReportUp, ReportUpWait, BuildTotal,
           BuildIndex, Fault
  <2> QED
    BY <2>1, Constants DEF TypeInv
<1> QED
  BY <1>1, ServerTypeStep, NetStep, AnswersStep, BitTypeStep,
     TransfileTypeStep, MarkTypeStep, CommandTypeStep, TurnTypeStep DEF TypeInv

-----------------------------------------------------------------------------
(* The order of a transfer                                                   *)

\* Ranks are numbers, and tell the transfer.
LEMMA Ranks ==
    ASSUME TypeInv
    PROVE  /\ ServerRank \in Nat /\ id \in Nat
           /\ 3 * id <= ServerRank /\ ServerRank <= 3 * id + 2
           /\ 2 <= ServerRank
           /\ \A k \in DOMAIN net :
                 /\ net[k] \in Requests \cup Data
                 /\ Rank(net[k]) \in Nat /\ net[k].of \in 1 .. MaxTransfers
                 /\ 3 * net[k].of <= Rank(net[k])
                 /\ Rank(net[k]) <= 3 * net[k].of + 2
           /\ Rank(ending) \in Nat /\ ending.of \in Nat
           /\ askedFor \in Nat
           /\ DOMAIN net = 1 .. Len(net) /\ Len(net) \in Nat
<1>1. id \in Nat /\ (phase # "done" => id > 0)
  BY Constants DEF TypeInv, ServerTypes
<1>2. /\ ServerRank \in Nat /\ 3 * id <= ServerRank
      /\ ServerRank <= 3 * id + 2 /\ 2 <= ServerRank
  BY <1>1 DEF ServerRank
<1>3. DOMAIN net = 1 .. Len(net) /\ Len(net) \in Nat
  BY LenProperties DEF TypeInv, NetTypes
<1>4. ASSUME NEW k \in DOMAIN net
      PROVE  /\ net[k] \in Requests \cup Data
             /\ Rank(net[k]) \in Nat /\ net[k].of \in 1 .. MaxTransfers
             /\ 3 * net[k].of <= Rank(net[k])
             /\ Rank(net[k]) <= 3 * net[k].of + 2
  <2>1. net[k] \in Requests \cup Data /\ net[k].of > 0
    BY <1>3, <1>4, ElementOfSeq DEF TypeInv, NetTypes
  <2>2. /\ net[k].of \in 0 .. MaxTransfers /\ Class(net[k]) \in 0 .. 2
    BY <2>1, MessageTypes
  <2> QED
    BY <2>1, <2>2, Constants DEF Rank
<1>5. ending.of \in Nat /\ Rank(ending) \in Nat
  <2>1. ending \in Requests \cup Data
    BY DEF TypeInv, CommandTypes
  <2> QED
    BY <2>1, MessageTypes, Constants
<1>6. askedFor \in Nat
  BY Constants DEF TypeInv, TurnTypes
<1> QED
  BY <1>1, <1>2, <1>3, <1>4, <1>5, <1>6

\* The server never goes back, and keeps the size of its transfer.
LEMMA ServerForward ==
    ASSUME TypeInv, [TransferNext]_transferVars
    PROVE  /\ ServerRank' \in Nat /\ ServerRank <= ServerRank'
           /\ \/ UNCHANGED <<id, size>>
              \/ id' = id + 1
<1>0. id \in Nat
  BY Ranks
<1>1. ASSUME NEW n \in Sizes, NEW t \in FileTypes, ServerBegins(n, t)
      PROVE  ServerRank' \in Nat /\ ServerRank <= ServerRank' /\ id' = id + 1
  BY <1>0, <1>1 DEF ServerBegins, ServerRank
<1>2. CASE ServerGivesUp
  BY <1>0, <1>2 DEF ServerGivesUp, ServerRank
<1>3. CASE ServerSends
  BY <1>0, <1>3 DEF ServerSends, ServerRank
<1>4. CASE ServerReceives
  <2>1. UNCHANGED <<id, size>>
    BY <1>4 DEF ServerReceives
  <2>2. \/ phase' = phase
        \/ phase = "start" /\ phase' = "data"
        \/ phase = "ask" /\ phase' \in {"data", "end"}
        \/ phase = "end" /\ phase' = "done"
    BY <1>4 DEF ServerReceives
  <2> QED
    BY <1>0, <2>1, <2>2 DEF ServerRank
<1>5. CASE UNCHANGED serverVars
  BY <1>0, <1>5 DEF ServerRank
<1> QED
  BY <1>1, <1>2, <1>3, <1>4, <1>5
     DEF TransferNext, Server, ServerRepeats, Lose, Damage, LinkLost, Login,
         Restart, Commander, FileTrans, PackLost, ListPacket, ListEnds,
         TransStart, TransEnd, TakeTurn, PostReportUp, TransFile, SetConnect,
         OtherPosts, ReportUp, ReportUpWait, BuildTotal, BuildIndex, Takes

\* What joins is at the end.
LEMMA JoinedLast ==
    ASSUME TypeInv, NEW m \in Requests \cup Data, Joined(m)
    PROVE  /\ DOMAIN net' = 1 .. Len(net) + 1
           /\ \A k \in DOMAIN net : net'[k] = net[k]
           /\ net'[Len(net) + 1] = m
           /\ \A k \in DOMAIN net' : k \in DOMAIN net \/ k = Len(net) + 1
<1>1. /\ DOMAIN net' = 1 .. Len(net) + 1 /\ DOMAIN net = 1 .. Len(net)
      /\ Len(net) \in Nat
      /\ \A k \in DOMAIN net : net'[k] = net[k]
      /\ net'[Len(net) + 1] = m
  BY AppendOf DEF TypeInv, NetTypes, Joined
<1> QED
  BY <1>1, SMT

\* Nothing comes that is earlier than what is past.
LEMMA PastStep ==
    ASSUME TypeInv, [TransferNext]_transferVars, NEW r \in Nat, Past(r)
    PROVE  Past(r)'
<1>1. r <= ServerRank'
  BY Ranks, ServerForward, SMT DEF Past
<1>2. ASSUME NEW k \in DOMAIN net' PROVE r <= Rank(net'[k])
  <2>1. CASE Fewer
    <3>1. PICK d \in {0, 1} :
              /\ k + d \in DOMAIN net
              /\ net'[k].kind = net[k + d].kind /\ net'[k].of = net[k + d].of
      BY <1>2, <2>1 DEF Fewer
    <3> QED
      BY <3>1 DEF Past, Rank, Class
  <2>2. ASSUME NEW m \in Requests \cup Data, Joined(m)
        PROVE  r <= Rank(net'[k])
    <3>1. CASE k \in DOMAIN net
      BY <2>2, <3>1, JoinedLast DEF Past
    <3>2. CASE k = Len(net) + 1
      BY <1>1, <2>2, <3>2, JoinedLast DEF Joined
    <3> QED
      BY <1>2, <2>2, <3>1, <3>2, JoinedLast
  <2> QED
    BY <2>1, <2>2, NetStep
<1> QED
  BY <1>1, <1>2 DEF Past

\* What is taken is past.
LEMMA TakenIsPast ==
    ASSUME TypeInv, OrderInv, net # <<>>, net' = Tail(net),
           UNCHANGED <<phase, id>>, NEW r, r = Rank(Head(net))
    PROVE  Past(r)'
<1>1. /\ Head(net) = net[1] /\ 1 \in DOMAIN net /\ DOMAIN net = 1 .. Len(net)
      /\ \A k \in DOMAIN net' : k + 1 \in DOMAIN net /\ net'[k] = net[k + 1]
  BY TailOf DEF TypeInv, NetTypes
<1>2. r <= ServerRank'
  BY <1>1 DEF OrderInv, ServerRank
<1>3. ASSUME NEW k \in DOMAIN net' PROVE r <= Rank(net'[k])
  <2>1. k + 1 \in DOMAIN net /\ 1 <= k + 1 /\ net'[k] = net[k + 1]
    BY <1>1, <1>3, Ranks, SMT
  <2> QED
    BY <1>1, <2>1 DEF OrderInv
<1> QED
  BY <1>2, <1>3 DEF Past

\* At first nothing is on its way, and nothing has been seen.
LEMMA OrderInit == TransferInit => OrderInv
<1> SUFFICES ASSUME TransferInit PROVE OrderInv
  OBVIOUS
<1>1. net = <<>> /\ answers = <<>> /\ ServerRank = 2
  BY DEF TransferInit, ServerRank
<1>2. Rank(ending) = 2
  BY DEF TransferInit, NoRequest, Rank, Class
<1>3. \A s \in Packets : ~Marked(s)
  BY Constants DEF TransferInit, NoMarks, Marked
<1>4. gGPRS_XMLType = "other"
  BY DEF TransferInit
<1> QED
  BY <1>1, <1>2, <1>3, <1>4 DEF OrderInv, Past

\* The documents on their way are in the order of their ranks, and agree with
\* each other and the server on the size of a transfer.
LEMMA SortedStep ==
    ASSUME TypeInv, OrderInv, [TransferNext]_transferVars
    PROVE  /\ \A j, k \in DOMAIN net' :
                 j <= k => Rank(net'[j]) <= Rank(net'[k])
           /\ \A k \in DOMAIN net' : Rank(net'[k]) <= ServerRank'
           /\ \A k \in DOMAIN net' : net'[k].of = id' => net'[k].total = size'
           /\ \A j, k \in DOMAIN net' :
                 net'[j].of = net'[k].of => net'[j].total = net'[k].total
<1>0. \A k \in DOMAIN net : Rank(net[k]) <= ServerRank' /\ net[k].of <= id
  BY Ranks, ServerForward, SMT DEF OrderInv
<1>1. \A k \in DOMAIN net : net[k].of = id' => net[k].total = size'
  BY <1>0, Ranks, ServerForward DEF OrderInv
<1>2. CASE Fewer
  <2>1. PICK d \in {0, 1} : \A k \in DOMAIN net' :
            /\ k + d \in DOMAIN net
            /\ Rank(net'[k]) = Rank(net[k + d])
            /\ net'[k].of = net[k + d].of
            /\ net'[k].total = net[k + d].total
    BY <1>2 DEF Fewer, Rank, Class
  <2>2. DOMAIN net' \subseteq Nat
    BY NetStep, LenProperties, SMT DEF NetTypes
  <2>3. \A j, k \in DOMAIN net' : j <= k => j + d <= k + d
    BY <2>2, SMT
  <2> QED
    BY <1>0, <1>1, <2>1, <2>3 DEF OrderInv
<1>3. ASSUME NEW m \in Requests \cup Data, Joined(m)
      PROVE  /\ \A j, k \in DOMAIN net' :
                    j <= k => Rank(net'[j]) <= Rank(net'[k])
             /\ \A k \in DOMAIN net' : Rank(net'[k]) <= ServerRank'
             /\ \A k \in DOMAIN net' :
                   net'[k].of = id' => net'[k].total = size'
             /\ \A j, k \in DOMAIN net' :
                   net'[j].of = net'[k].of => net'[j].total = net'[k].total
  <2> DEFINE n == Len(net) + 1
  <2>1. /\ DOMAIN net' = 1 .. n
        /\ \A k \in DOMAIN net : net'[k] = net[k]
        /\ net'[n] = m
        /\ \A k \in DOMAIN net' : k \in DOMAIN net \/ k = n
    BY <1>3, JoinedLast
  <2>2. m.of = id' /\ m.total = size' /\ Rank(m) = ServerRank'
    BY <1>3 DEF Joined
  <2>3. \A k \in DOMAIN net : k < n /\ k \in Nat
    BY Ranks, SMT
  <2>4. n \in Nat
    BY Ranks
  <2> HIDE DEF n
  <2>5. \A k \in DOMAIN net' : Rank(net'[k]) <= ServerRank'
    BY <1>0, <2>1, <2>2, Ranks, ServerForward
  <2>6. \A j, k \in DOMAIN net' : j <= k => Rank(net'[j]) <= Rank(net'[k])
    <3> SUFFICES ASSUME NEW j \in DOMAIN net', NEW k \in DOMAIN net', j <= k
                 PROVE  Rank(net'[j]) <= Rank(net'[k])
      OBVIOUS
    <3>1. CASE k = n
      BY <2>1, <2>2, <2>5, <3>1
    <3>2. CASE k \in DOMAIN net
      <4>1. j \in DOMAIN net
        BY <2>1, <2>3, <2>4, <3>2
      <4> QED
        BY <2>1, <3>2, <4>1 DEF OrderInv
    <3> QED
      BY <2>1, <3>1, <3>2
  <2>7. \A k \in DOMAIN net' : net'[k].of = id' => net'[k].total = size'
    BY <1>1, <2>1, <2>2
  <2>8. \A j, k \in DOMAIN net' :
            net'[j].of = net'[k].of => net'[j].total = net'[k].total
    <3> SUFFICES ASSUME NEW j \in DOMAIN net', NEW k \in DOMAIN net',
                        net'[j].of = net'[k].of
                 PROVE  net'[j].total = net'[k].total
      OBVIOUS
    <3>1. CASE j \in DOMAIN net /\ k \in DOMAIN net
      BY <2>1, <3>1 DEF OrderInv
    <3>2. CASE j = n \/ k = n
      BY <2>1, <2>2, <2>7, <3>2
    <3> QED
      BY <2>1, <3>1, <3>2
  <2> QED
    BY <2>5, <2>6, <2>7, <2>8
<1> QED
  BY <1>2, <1>3, NetStep

\* What the program has seen is past.
LEMMA SeenStep ==
    ASSUME TypeInv, OrderInv, [TransferNext]_transferVars
    PROVE  /\ Past(Rank(ending))'
           /\ gGPRS_XMLType' = "PACK_LOST_ACK" => Past(3 * askedFor + 1)'
<1>0. /\ Rank(ending) \in Nat /\ 3 * askedFor + 1 \in Nat
      /\ Past(Rank(ending))
      /\ gGPRS_XMLType = "PACK_LOST_ACK" => Past(3 * askedFor + 1)
  BY Ranks DEF OrderInv
<1>1. Past(Rank(ending))'
  <2>1. CASE PackLost \/ TransStart \/ TransEnd
    <3>1. /\ net # <<>> /\ net' = Tail(net) /\ UNCHANGED <<phase, id>>
          /\ ending' = Head(net)
      BY <2>1 DEF PackLost, TransStart, TransEnd, Takes
    <3> DEFINE r == Rank(ending')
    <3>2. r = Rank(Head(net))
      BY <3>1
    <3> QED
      BY <3>1, <3>2, TakenIsPast
  <2>2. CASE Restart
    <3>1. ending' = NoRequest /\ net' = <<>> /\ UNCHANGED serverVars
      BY <2>2 DEF Restart, FreshMemory
    <3>2. Rank(ending') = 2 /\ ServerRank' = ServerRank
      BY <3>1 DEF NoRequest, Rank, Class, ServerRank
    <3> QED
      BY <3>1, <3>2, Ranks DEF Past
  <2>3. CASE UNCHANGED ending
    <3> DEFINE r == Rank(ending)
    <3>1. r \in Nat /\ Past(r)
      BY <1>0
    <3> QED
      BY <2>3, <3>1, PastStep
  <2> QED
    BY <2>1, <2>2, <2>3
       DEF TransferNext, Server, ServerBegins, ServerGivesUp, ServerSends,
           ServerReceives, ServerRepeats, Lose, Damage, LinkLost, Login,
           Commander, FileTrans, ListPacket, ListEnds, TakeTurn,
           PostReportUp, TransFile, SetConnect, OtherPosts, ReportUp,
           ReportUpWait, BuildTotal, BuildIndex
<1>2. ASSUME gGPRS_XMLType' = "PACK_LOST_ACK"
      PROVE  Past(3 * askedFor + 1)'
  <2>1. CASE TakeTurn
    <3>1. ending.kind = "pack_lost" /\ askedFor' = ending.of
      BY <1>2, <2>1 DEF TakeTurn
    <3>2. UNCHANGED ending /\ 3 * askedFor' + 1 = Rank(ending')
      BY <2>1, <3>1 DEF TakeTurn, Rank, Class
    <3> QED
      BY <1>1, <3>2
  <2>2. CASE UNCHANGED <<askedFor, gGPRS_XMLType>>
    <3> DEFINE r == 3 * askedFor + 1
    <3>1. r \in Nat /\ Past(r)
      BY <1>0, <1>2, <2>2
    <3> QED
      BY <2>2, <3>1, PastStep
  <2>3. CASE Restart \/ OtherPosts
    BY <1>2, <2>3 DEF Restart, FreshMemory, OtherPosts
  <2> QED
    BY <2>1, <2>2, <2>3
       DEF TransferNext, Server, ServerBegins, ServerGivesUp, ServerSends,
           ServerReceives, ServerRepeats, Lose, Damage, LinkLost, Login,
           Commander, FileTrans, PackLost, ListPacket, ListEnds, TransStart,
           TransEnd, PostReportUp, TransFile, SetConnect, ReportUp,
           ReportUpWait, BuildTotal, BuildIndex, Fault
<1> QED
  BY <1>1, <1>2

\* Answers become fewer, or the one that is built joins them.
AnswersFewer ==
    \E d \in {0, 1} : \A k \in DOMAIN answers' :
        k + d \in DOMAIN answers /\ answers'[k] = answers[k + d]

AnswerJoins ==
    /\ BuildIndex /\ gGPRS_XMLType = "PACK_LOST_ACK"
    /\ \A k \in DOMAIN answers' :
          \/ k \in DOMAIN answers /\ answers'[k] = answers[k]
          \/ answers'[k] = [kind |-> "pack_lost_ack", of |-> askedFor,
                            total |-> builtTotal, index |-> pack_lost_index]

\* There is no third way.
LEMMA AnswersMove ==
    ASSUME TypeInv, [TransferNext]_transferVars
    PROVE  \/ AnswersFewer
           \/ AnswerJoins
           \/ /\ BuildIndex
              /\ \A k \in DOMAIN answers' :
                    \/ k \in DOMAIN answers /\ answers'[k] = answers[k]
                    \/ answers'[k].kind = "Trans_ack"
<1>1. CASE answers # <<>> /\ answers' = Tail(answers)
  BY <1>1, TailOf, Zenon DEF AnswersFewer, TypeInv
<1>2. CASE answers' = <<>>
  BY <1>2 DEF AnswersFewer
<1>3. CASE UNCHANGED answers
  <2>1. \A k \in DOMAIN answers : k + 0 = k
    BY LenProperties, SMT DEF TypeInv
  <2> QED
    BY <1>3, <2>1, Zenon DEF AnswersFewer
<1>4. CASE BuildIndex
  <2>1. ASSUME NEW a \in Replies, answers' = Append(answers, a)
        PROVE  \A k \in DOMAIN answers' :
                  \/ k \in DOMAIN answers /\ answers'[k] = answers[k]
                  \/ answers'[k] = a
    BY <2>1, AppendOf, SMT DEF TypeInv
  <2>2. askedFor \in 0 .. MaxTransfers /\ builtTotal \in 0 .. LackLimit + 1
        /\ pack_lost_index \in SUBSET Packets
    BY DEF TypeInv, TurnTypes, CommandTypes
  <2>3. CASE UNCHANGED answers
    BY <1>3, <2>3
  <2>4. CASE gGPRS_XMLType = "TRANS_ACK" /\ ~UNCHANGED answers
    <3> DEFINE a == [kind |-> "Trans_ack", of |-> askedFor]
    <3>1. a \in Replies /\ a.kind = "Trans_ack"
      BY <2>2 DEF Replies
    <3>2. answers' = Append(answers, a)
      BY <1>4, <2>4 DEF BuildIndex
    <3> HIDE DEF a
    <3> QED
      BY <1>4, <2>1, <3>1, <3>2
  <2>5. CASE gGPRS_XMLType = "PACK_LOST_ACK" /\ ~UNCHANGED answers
    <3> DEFINE a == [kind |-> "pack_lost_ack", of |-> askedFor,
                     total |-> builtTotal, index |-> pack_lost_index]
    <3>1. a \in Replies
      BY <2>2 DEF Replies
    <3>2. answers' = Append(answers, a)
      BY <1>4, <2>5 DEF BuildIndex
    <3>3. \A k \in DOMAIN answers' :
              \/ k \in DOMAIN answers /\ answers'[k] = answers[k]
              \/ answers'[k] = a
      BY <2>1, <3>1, <3>2
    <3> QED
      BY <1>4, <2>5, <3>3 DEF AnswerJoins
  <2>6. CASE gGPRS_XMLType = "other"
    BY <1>3, <1>4, <2>6 DEF BuildIndex
  <2> QED
    BY <2>3, <2>4, <2>5, <2>6 DEF TypeInv, TurnTypes
<1> QED
  BY <1>1, <1>2, <1>3, <1>4
     DEF TransferNext, Server, ServerBegins, ServerGivesUp, ServerSends,
         ServerReceives, ServerRepeats, Lose, Damage, LinkLost, Login,
         Restart, Commander, FileTrans, PackLost, ListPacket, ListEnds,
         TransStart, TransEnd, TakeTurn, PostReportUp, TransFile, SetConnect,
         OtherPosts, ReportUp, ReportUpWait, BuildTotal

\* What the program has seen, told, or marked is behind what is still to come.
LEMMA OrderStep ==
    TypeInv /\ OrderInv /\ [TransferNext]_transferVars => OrderInv'
<1> SUFFICES ASSUME TypeInv, OrderInv, [TransferNext]_transferVars
             PROVE  OrderInv'
  OBVIOUS
<1>1. ASSUME NEW k \in DOMAIN answers', answers'[k].kind = "pack_lost_ack"
      PROVE  Past(3 * answers[k].of + 1)'
  <2>0. \A j \in DOMAIN answers : answers[j].of \in Nat
    <3>1. \A j \in DOMAIN answers : answers[j] \in Replies
      BY LenProperties, ElementOfSeq DEF TypeInv
    <3> QED
      BY <3>1, Constants DEF Replies
  <2>1. CASE AnswersFewer
    <3>1. PICK d \in {0, 1} :
              k + d \in DOMAIN answers /\ answers'[k] = answers[k + d]
      BY <1>1, <2>1 DEF AnswersFewer
    <3> DEFINE r == 3 * answers[k + d].of + 1
    <3>2. r \in Nat /\ Past(r)
      BY <1>1, <2>0, <3>1 DEF OrderInv
    <3> QED
      BY <3>1, <3>2, PastStep
  <2>2. CASE k \in DOMAIN answers /\ answers'[k] = answers[k]
    <3> DEFINE r == 3 * answers[k].of + 1
    <3>1. r \in Nat /\ Past(r)
      BY <1>1, <2>0, <2>2 DEF OrderInv
    <3> QED
      BY <2>2, <3>1, PastStep
  <2>3. CASE /\ BuildIndex /\ gGPRS_XMLType = "PACK_LOST_ACK"
             /\ answers'[k].of = askedFor
    <3>1. UNCHANGED <<gGPRS_XMLType, askedFor>>
      BY <2>3 DEF BuildIndex
    <3>2. Past(3 * askedFor + 1)'
      BY <2>3, <3>1, SeenStep
    <3> QED
      BY <2>3, <3>1, <3>2
  <2> QED
    BY <1>1, <2>1, <2>2, <2>3, AnswersMove DEF AnswerJoins
<1>2. ASSUME NEW s \in Packets, Marked(s)'
      PROVE  Past(3 * gPacketReceiveFlag[s] + 1)'
  <2>1. CASE gPacketReceiveFlag'[s] = gPacketReceiveFlag[s]
    <3> DEFINE r == 3 * gPacketReceiveFlag[s] + 1
    <3>1. r \in Nat /\ Past(r)
      BY <1>2, <2>1, Constants DEF Marked, OrderInv
    <3> QED
      BY <2>1, <3>1, PastStep
  <2>2. CASE FileTrans /\ gPacketReceiveFlag'[s] # gPacketReceiveFlag[s]
    <3> DEFINE m == Head(net)
    <3>1. /\ net # <<>> /\ net' = Tail(net) /\ UNCHANGED <<phase, id>>
          /\ m.kind = "file_data"
      BY <2>2 DEF FileTrans, Takes
    <3>2. PICK r : r = Rank(m)
      OBVIOUS
    <3>3. Past(r)' /\ r = 3 * m.of + 1
      BY <3>1, <3>2, TakenIsPast DEF Rank, Class
    <3>4. m \in Data /\ m.seq \in Packets
      BY <3>1, HeadTypes DEF Data
    <3>5. \E f \in {m.of, 0, Spoilt} :
              gPacketReceiveFlag' = [gPacketReceiveFlag EXCEPT ![m.seq] = f]
      BY <2>2, Zenon DEF FileTrans
    <3>6. gPacketReceiveFlag'[s] \in {m.of, 0, Spoilt}
      BY <1>2, <2>2, <3>4, <3>5 DEF TypeInv, MarkTypes
    <3>7. gPacketReceiveFlag'[s] = m.of
      BY <1>2, <3>6, Constants DEF Marked, Spoilt
    <3> QED
      BY <3>3, <3>7
  <2>3. CASE TransEnd \/ Restart
    BY <1>2, <2>3 DEF TransEnd, Restart, FreshMemory, NoMarks, Marked
  <2> QED
    BY <2>1, <2>2, <2>3
       DEF TransferNext, Server, ServerBegins, ServerGivesUp, ServerSends,
           ServerReceives, ServerRepeats, Lose, Damage, LinkLost, Login,
           Commander, PackLost, ListPacket, ListEnds, TransStart, TakeTurn,
           PostReportUp, TransFile, SetConnect, OtherPosts, ReportUp,
           ReportUpWait, BuildTotal, BuildIndex
<1> QED
  BY <1>1, <1>2, SortedStep, SeenStep DEF OrderInv

-----------------------------------------------------------------------------
(* The marks and the file                                                    *)

\* What is no later than the first document is past.
LEMMA HeadPast ==
    ASSUME TypeInv, OrderInv, net # <<>>, NEW r \in Nat, r <= Rank(Head(net))
    PROVE  Past(r)
<1>1. Head(net) = net[1] /\ 1 \in DOMAIN net
  BY HeadTypes
<1>2. \A k \in DOMAIN net : 1 <= k
  BY Ranks, SMT
<1>3. \A k \in DOMAIN net : Rank(net[1]) <= Rank(net[k])
  BY <1>1, <1>2 DEF OrderInv
<1>4. Rank(net[1]) <= ServerRank
  BY <1>1 DEF OrderInv
<1>5. /\ ServerRank \in Nat /\ r <= Rank(net[1])
      /\ \A k \in DOMAIN net : Rank(net[k]) \in Nat
  BY <1>1, Ranks
<1>6. r <= ServerRank
  BY <1>1, <1>4, <1>5
<1>7. \A k \in DOMAIN net : r <= Rank(net[k])
  BY <1>1, <1>3, <1>5
<1> QED
  BY <1>6, <1>7 DEF Past

\* A transfer does not get longer.
LEMMA LastOfStep ==
    ASSUME TypeInv, OrderInv, [TransferNext]_transferVars,
           NEW s, NEW m \in Nat, Past(3 * m + 1), LastOf(s, m)
    PROVE  LastOf(s, m)'
<1>1. m <= id
  BY Ranks, SMT DEF Past
<1>2. m = id' => size' <= s
  BY <1>1, Ranks, ServerForward DEF LastOf
<1>3. ASSUME NEW k \in DOMAIN net', net'[k].of = m
      PROVE  net'[k].total <= s
  <2>1. CASE Fewer
    BY <1>3, <2>1 DEF Fewer, LastOf
  <2>2. ASSUME NEW x \in Requests \cup Data, Joined(x)
        PROVE  net'[k].total <= s
    <3>1. CASE k \in DOMAIN net
      BY <1>3, <2>2, <3>1, JoinedLast DEF LastOf
    <3>2. CASE k = Len(net) + 1
      BY <1>2, <1>3, <2>2, <3>2, JoinedLast DEF Joined
    <3> QED
      BY <1>3, <2>2, <3>1, <3>2, JoinedLast
  <2> QED
    BY <2>1, <2>2, NetStep
<1> QED
  BY <1>2, <1>3 DEF LastOf

\* Where the file is as it was, the mark tells what it told.
LEMMA MarkKept ==
    ASSUME TypeInv, OrderInv, FileInv, [TransferNext]_transferVars,
           NEW s \in Packets, NEW m \in 1 .. MaxTransfers,
           gPacketReceiveFlag[s] = m, file'[s] = file[s]
    PROVE  Tells(s, m)'
<1>1. m \in Nat /\ 3 * m + 3 \in Nat /\ Past(3 * m + 1)
  BY Constants DEF OrderInv, Marked
<1>2. Tells(s, m)
  BY DEF FileInv
<1>3. Past(3 * m + 3) => Past(3 * m + 3)'
  BY <1>1, PastStep
<1>4. LastOf(s, m) => LastOf(s, m)'
  BY <1>1, LastOfStep
<1> QED
  BY <1>2, <1>3, <1>4 DEF Tells

\* At first nothing is marked.
LEMMA FileInit == TransferInit => FileInv
BY Constants DEF TransferInit, FileInv, Marked, NoMarks

\* No marks while there is no file, or when it is about to be executed.
LEMMA NoMarksStep ==
    ASSUME TypeInv, FileInv, [TransferNext]_transferVars,
           ~exists' \/ Ending'
    PROVE  gPacketReceiveFlag' = NoMarks
<1> USE DEF FileInv, Ending
<1>1. CASE FileTrans
  BY <1>1 DEF FileTrans, Takes
<1>2. CASE TransStart
  BY <1>2 DEF TransStart, Takes
<1>3. CASE TransEnd
  BY <1>3 DEF TransEnd
<1>4. CASE TransFile
  BY <1>4 DEF TransFile, TypeInv, CommandTypes
<1>5. CASE PackLost
  BY <1>5 DEF PackLost
<1>6. CASE ListEnds
  BY <1>6 DEF ListEnds, TypeInv, CommandTypes
<1>7. CASE TakeTurn
  BY <1>7 DEF TakeTurn
<1>8. CASE PostReportUp
  BY <1>8 DEF PostReportUp
<1>9. CASE SetConnect
  BY <1>9 DEF SetConnect
<1>10. CASE Restart
  BY <1>10 DEF Restart, FreshMemory
<1>11. CASE UNCHANGED <<exists, cmd, ending, gPacketReceiveFlag>>
  BY <1>11
<1> QED
  BY <1>1, <1>2, <1>3, <1>4, <1>5, <1>6, <1>7, <1>8, <1>9, <1>10, <1>11
     DEF TransferNext, Server, ServerBegins, ServerGivesUp, ServerSends,
         ServerReceives, ServerRepeats, Lose, Damage, LinkLost, Login,
         Commander, ListPacket, OtherPosts, ReportUp, ReportUpWait,
         BuildTotal, BuildIndex

\* A packet that is written is marked for what it is.
LEMMA FileTransMarks ==
    ASSUME TypeInv, OrderInv, FileInv, FileTrans,
           NEW s \in Packets, NEW e \in 1 .. MaxTransfers,
           gPacketReceiveFlag'[s] = e
    PROVE  Tells(s, e)'
<1>0. [TransferNext]_transferVars
  BY DEF TransferNext, Commander
<1>1. PICK m : m = Head(net)
  OBVIOUS
<1>2. /\ net # <<>> /\ m \in Data /\ m = net[1] /\ 1 \in DOMAIN net
      /\ UNCHANGED <<id, size>>
      /\ net' = Tail(net)
  BY <1>1, HeadTypes DEF FileTrans, Takes
<1>3. m.seq \in Packets /\ m.of \in Nat /\ m.total \in Nat /\ m.seq \in Nat
  BY <1>2, SizesFit, Constants DEF Data, Packets
<1> DEFINE found == IF exists THEN file ELSE [p \in Packets |-> Empty]
<1>4. CASE UNCHANGED <<file, gPacketReceiveFlag>>
  BY <1>0, <1>4, MarkKept
<1>5. CASE s # m.seq /\ ~UNCHANGED <<file, gPacketReceiveFlag>>
  <2>1. /\ \E w : file' = [found EXCEPT ![m.seq] = w]
        /\ \E f : gPacketReceiveFlag' =
                     [gPacketReceiveFlag EXCEPT ![m.seq] = f]
    BY <1>1, <1>5, Zenon DEF FileTrans
  <2>2. gPacketReceiveFlag'[s] = gPacketReceiveFlag[s]
    BY <1>5, <2>1 DEF TypeInv, MarkTypes
  <2>3. gPacketReceiveFlag[s] = e
    BY <2>2
  <2>4. exists
    BY <2>3, Constants DEF FileInv, NoMarks
  <2>5. file'[s] = file[s]
    BY <1>5, <2>1, <2>4 DEF TypeInv, TransfileTypes
  <2> QED
    BY <1>0, <2>3, <2>5, MarkKept
<1>6. CASE s = m.seq /\ ~UNCHANGED <<file, gPacketReceiveFlag>>
  <2>1. \E f \in {m.of, 0, Spoilt} :
            /\ gPacketReceiveFlag' = [gPacketReceiveFlag EXCEPT ![m.seq] = f]
            /\ f = m.of =>
                  file' = [found EXCEPT ![m.seq] =
                              [of |-> m.of, whole |-> m.whole]]
    <3>1. \/ /\ file' = [found EXCEPT ![m.seq] =
                            [of |-> m.of, whole |-> m.whole]]
             /\ gPacketReceiveFlag' =
                   [gPacketReceiveFlag EXCEPT ![m.seq] = m.of]
          \/ \E f \in {0, Spoilt} :
                gPacketReceiveFlag' = [gPacketReceiveFlag EXCEPT ![m.seq] = f]
      BY <1>1, <1>6, Zenon DEF FileTrans
    <3>2. m.of # 0 /\ m.of # Spoilt
      BY <1>2, Constants DEF Data, Spoilt
    <3> QED
      BY <3>1, <3>2
  <2>2. e = m.of
        /\ file' = [found EXCEPT ![m.seq] = [of |-> m.of, whole |-> m.whole]]
    BY <1>3, <1>6, <2>1, Constants DEF TypeInv, MarkTypes, Spoilt
  <2>3. found \in [Packets -> [of : 0 .. MaxTransfers, whole : BOOLEAN]]
    BY Constants DEF TypeInv, TransfileTypes, Empty
  <2>4. file'[s].of = m.of /\ file'[s].whole = m.whole
    BY <1>3, <1>6, <2>2, <2>3
  <2>5. m.whole \/ m.seq = m.total
    BY <1>1, <1>6 DEF FileTrans
  <2>6. ASSUME m.seq = m.total PROVE LastOf(s, e)'
    <3>1. e = id' => size' <= s
      BY <2>2, <1>2, <1>3, <1>6, <2>6 DEF OrderInv
    <3>2. \A k \in DOMAIN net' : k + 1 \in DOMAIN net /\ net'[k] = net[k + 1]
      BY <1>2, TailOf DEF TypeInv, NetTypes
    <3>3. \A k \in DOMAIN net' : net'[k].of = m.of => net'[k].total = m.total
      BY <1>2, <3>2 DEF OrderInv
    <3> QED
      BY <1>3, <1>6, <2>2, <2>6, <3>1, <3>3 DEF LastOf
  <2> QED
    BY <2>2, <2>4, <2>5, <2>6 DEF Tells
<1> QED
  BY <1>4, <1>5, <1>6

\* A mark goes on telling what the file holds, until the next start or end.
LEMMA FileStep ==
    TypeInv /\ OrderInv /\ FileInv /\ [TransferNext]_transferVars => FileInv'
<1> SUFFICES ASSUME TypeInv, OrderInv, FileInv, [TransferNext]_transferVars
             PROVE  FileInv'
  OBVIOUS
<1>1. ASSUME NEW s \in Packets, NEW m \in 1 .. MaxTransfers,
             gPacketReceiveFlag'[s] = m
      PROVE  Tells(s, m)'
  <2>1. CASE FileTrans
    BY <1>1, <2>1, FileTransMarks
  <2>2. CASE TransStart
    <3>1. /\ gPacketReceiveFlag[s] = m /\ net # <<>>
          /\ Head(net).kind = "start"
      BY <1>1, <2>2 DEF TransStart, Takes
    <3>2. Past(3 * m + 1)
      BY <3>1 DEF OrderInv, Marked
    <3>3. 3 * m + 1 <= Rank(Head(net))
      BY <3>1, <3>2, HeadTypes DEF Past
    <3>4. Rank(Head(net)) = 3 * Head(net).of /\ Head(net).of \in Nat
      BY <3>1, HeadTypes, Constants DEF Rank, Class
    <3>5. 3 * m + 3 <= Rank(Head(net)) /\ 3 * m + 3 \in Nat
      BY <3>3, <3>4, Constants
    <3>6. Past(3 * m + 3)'
      BY <3>1, <3>5, HeadPast, PastStep
    <3> QED
      BY <3>6 DEF Tells
  <2>3. CASE TransEnd \/ Restart
    BY <1>1, <2>3 DEF TransEnd, Restart, FreshMemory, NoMarks
  <2>4. CASE UNCHANGED <<file, gPacketReceiveFlag>>
    BY <1>1, <2>4, MarkKept
  <2> QED
    BY <2>1, <2>2, <2>3, <2>4
       DEF TransferNext, Server, ServerBegins, ServerGivesUp, ServerSends,
           ServerReceives, ServerRepeats, Lose, Damage, LinkLost, Login,
           Commander, PackLost, ListPacket, ListEnds, TakeTurn,
           PostReportUp, TransFile, SetConnect, OtherPosts, ReportUp,
           ReportUpWait, BuildTotal, BuildIndex
<1>2. ~exists' \/ Ending' => gPacketReceiveFlag' = NoMarks
  BY NoMarksStep
<1>3. NoMarks' = NoMarks
  BY DEF NoMarks
<1> QED
  BY <1>1, <1>2, <1>3 DEF FileInv

-----------------------------------------------------------------------------
(* The list                                                                  *)

\* Only packets, an end and a restart change what is marked or how many packets
\* are counted.
LEMMA MarksOf ==
    ASSUME [TransferNext]_transferVars
    PROVE  \/ UNCHANGED <<gPacketReceiveFlag, gPack_total>>
           \/ FileTrans \/ TransEnd \/ Restart
BY DEF TransferNext, Server, ServerBegins, ServerGivesUp, ServerSends,
       ServerReceives, ServerRepeats, Lose, Damage, LinkLost, Login,
       Commander, PackLost, ListPacket, ListEnds, TransStart, TakeTurn,
       PostReportUp, TransFile, SetConnect, OtherPosts, ReportUp,
       ReportUpWait, BuildTotal, BuildIndex

\* The list as it grows.
LEMMA ListStep ==
    TypeInv /\ ListInv /\ [TransferNext]_transferVars => ListInv'
<1> SUFFICES ASSUME TypeInv, ListInv, [TransferNext]_transferVars
             PROVE  ListInv'
  OBVIOUS
<1> USE Constants DEF ListInv, AllMarked, Missing
<1>1. CASE PackLost
  BY <1>1 DEF PackLost
<1>2. CASE ListPacket
  <2>1. /\ cmd = "list" /\ cmd' = "list" /\ i \in Nat /\ LackPacket \in Nat
        /\ i <= gPack_total /\ i' = i + 1 /\ i \in 1 .. gPack_total
        /\ UNCHANGED <<gPacketReceiveFlag, gPack_total>>
    BY <1>2, SizesFit DEF ListPacket, TypeInv, CommandTypes, MarkTypes
  <2>2. CASE Missing(i)
    <3>1. LackPacket' = LackPacket + 1
      BY <1>2, <2>2 DEF ListPacket
    <3> QED
      BY <2>1, <2>2, <3>1
  <2>3. CASE ~Missing(i)
    <3>1. LackPacket' = LackPacket
      BY <1>2, <2>3 DEF ListPacket
    <3>2. \A s \in 1 .. i' - 1 : s \in 1 .. i - 1 \/ s = i
      BY <2>1
    <3> QED
      BY <2>1, <2>3, <3>1, <3>2
  <2> QED
    BY <2>2, <2>3
<1>3. CASE ListEnds
  <2>1. /\ cmd = "list" /\ cmd' = "turn" /\ pack_lost_total' = LackPacket
        /\ UNCHANGED <<gPacketReceiveFlag, gPack_total>>
        /\ LackPacket \in Nat /\ i \in Nat /\ gPack_total \in Nat
    BY <1>3, SizesFit DEF ListEnds, TypeInv, CommandTypes, MarkTypes
  <2>2. CASE LackPacket = 0
    <3>1. ~(i <= gPack_total)
      BY <1>3, <2>2 DEF ListEnds
    <3>2. \A s \in 1 .. gPack_total : s \in 1 .. i - 1
      BY <2>1, <3>1
    <3> QED
      BY <2>1, <2>2, <3>2
  <2>3. CASE LackPacket > 0
    BY <2>1, <2>3
  <2> QED
    BY <2>1, <2>2, <2>3
<1>4. CASE cmd' # "list" /\ (cmd' = "turn" => ending'.kind # "pack_lost")
  BY <1>4
<1>5. CASE UNCHANGED <<cmd, ending, listVars, gPacketReceiveFlag, gPack_total>>
  BY <1>5
<1>6. CASE FileTrans \/ TransStart \/ TransEnd
  BY <1>4, <1>6 DEF FileTrans, TransStart, TransEnd, Takes
<1>7. CASE TakeTurn \/ TransFile \/ SetConnect \/ Restart
  BY <1>4, <1>7 DEF TakeTurn, TransFile, SetConnect, Restart, FreshMemory
<1>8. CASE PostReportUp
  <2>1. cmd' \in {"idle", "connect", "apply"}
    BY <1>8 DEF PostReportUp, TypeInv, CommandTypes, Requests
  <2> QED
    BY <1>4, <2>1
<1> QED
  BY <1>1, <1>2, <1>3, <1>5, <1>6, <1>7, <1>8
     DEF TransferNext, Server, ServerBegins, ServerGivesUp, ServerSends,
         ServerReceives, ServerRepeats, Lose, Damage, LinkLost, Login,
         Commander, OtherPosts, ReportUp, ReportUpWait, BuildTotal, BuildIndex

-----------------------------------------------------------------------------
(* What the program has told of its packets                                  *)

\* A question that the program has begun to carry out is past.
LEMMA AskedPast ==
    ASSUME TypeInv, OrderInv, Asked
    PROVE  Past(3 * id + 1)
<1>1. CASE ending.kind = "pack_lost" /\ ending.of = id
  BY <1>1 DEF OrderInv, Rank, Class
<1>2. CASE Making
  BY <1>2 DEF OrderInv, Making
<1>3. ASSUME NEW k \in DOMAIN answers, Answer(k)
      PROVE  Past(3 * id + 1)
  <2>1. Past(3 * answers[k].of + 1)
    BY <1>3 DEF OrderInv, Answer
  <2> QED
    BY <1>3, <2>1 DEF Answer
<1> QED
  BY <1>1, <1>2, <1>3 DEF Asked

\* A document of the transfer going on is not of an earlier place in it.
LEMMA HeadOfAsked ==
    ASSUME TypeInv, OrderInv, phase \in {"data", "ask"}, Past(3 * id + 1),
           net # <<>>
    PROVE  /\ Head(net).kind # "end" /\ Head(net).kind # "start"
           /\ Head(net).of = id /\ Head(net).total = size
<1>1. /\ Head(net) = net[1] /\ 1 \in DOMAIN net
      /\ Head(net) \in Requests \cup Data /\ Head(net).of \in Nat
  BY HeadTypes, Constants
<1>2. Rank(Head(net)) >= 3 * id + 1 /\ Rank(Head(net)) <= ServerRank
  BY <1>1 DEF Past, OrderInv
<1>3. ServerRank = 3 * id + 1 /\ id \in Nat
  BY Ranks DEF ServerRank
<1>4. /\ Rank(Head(net)) = 3 * Head(net).of + Class(Head(net))
      /\ Class(Head(net)) \in 0 .. 2
  BY <1>1, MessageTypes DEF Rank
<1>5. Head(net).of = id /\ Class(Head(net)) = 1
  BY <1>1, <1>2, <1>3, <1>4
<1>6. Head(net).kind # "end" /\ Head(net).kind # "start"
  BY <1>5 DEF Class
<1>7. Head(net).total = size
  BY <1>1, <1>5 DEF OrderInv
<1> QED
  BY <1>5, <1>6, <1>7

\* While the server sends and asks, what the program has told stays true.
LEMMA MarksStay ==
    ASSUME TypeInv, OrderInv, AskInv, [TransferNext]_transferVars, ~Restart,
           phase \in {"data", "ask"}, UNCHANGED <<id, size>>,
           Past(3 * id + 1)
    PROVE  /\ ~Stale => ~Stale'
           /\ Asked /\ AllMarked => AllMarked'
<1>1. CASE UNCHANGED <<gPacketReceiveFlag, gPack_total>>
  BY <1>1 DEF Stale, AllMarked, Missing
<1>2. CASE FileTrans
  <2>1. PICK m : m = Head(net)
    OBVIOUS
  <2>2. /\ net # <<>> /\ m \in Data /\ m = net[1] /\ 1 \in DOMAIN net
        /\ m.kind = "file_data" /\ gPack_total' = m.total
    BY <1>2, <2>1, HeadTypes DEF FileTrans, Takes
  <2>3. m.of = id /\ m.total = size
    BY <2>1, <2>2, HeadOfAsked
  <2>4. ~Stale'
    BY <2>2, <2>3 DEF Stale
  <2>5. ASSUME Asked, AllMarked PROVE AllMarked'
    <3>1. Packet(1)
      BY <2>2, <2>3 DEF Packet
    <3>2. gPack_total' = gPack_total
      BY <2>2, <2>3, <2>5, <3>1 DEF AskInv, Stale
    <3>3. \/ UNCHANGED gPacketReceiveFlag
          \/ \E f \in {m.of, Spoilt} :
                gPacketReceiveFlag' = [gPacketReceiveFlag EXCEPT ![m.seq] = f]
          \/ /\ Missing(m.seq)
             /\ gPacketReceiveFlag' = [gPacketReceiveFlag EXCEPT ![m.seq] = 0]
      BY <1>2, <2>1, Zenon DEF FileTrans
    <3>4. m.of # 0 /\ Spoilt # 0 /\ m.seq \in Packets
      BY <2>2, Constants DEF Data, Spoilt
    <3>5. \A s \in Packets :
              gPacketReceiveFlag[s] # 0 => gPacketReceiveFlag'[s] # 0
      BY <3>3, <3>4 DEF TypeInv, MarkTypes, Missing
    <3>6. 1 .. gPack_total \subseteq Packets
      BY SizesFit DEF TypeInv, MarkTypes, Packets
    <3> QED
      BY <2>5, <3>2, <3>5, <3>6 DEF AllMarked, Missing
  <2> QED
    BY <2>4, <2>5
<1>3. CASE TransEnd
  BY <1>3, HeadOfAsked DEF TransEnd, Takes
<1> QED
  BY <1>1, <1>2, <1>3, MarksOf

\* An answer is being made since its turn was taken, and its total is that of
\* the list, until it is printed.
LEMMA MakingFrom ==
    ASSUME TypeInv, [TransferNext]_transferVars, UNCHANGED id, Making'
    PROVE  \/ /\ cmd = "turn" /\ ending.kind = "pack_lost" /\ ending.of = id
              /\ Making0' <=> pack_lost_total = 0
           \/ Making /\ (Making0' <=> Making0)
           \/ /\ Making /\ cmd = "list" /\ UNCHANGED LackPacket
              /\ cmd' = "turn" /\ ending'.kind = "pack_lost"
              /\ Making0' <=> pack_lost_total' = 0
<1> USE DEF TypeInv, TurnTypes, One, Making, Making0, Made
<1>1. CASE TakeTurn
  <2>1. /\ cmd = "turn" /\ ReportUp_Sem = 0 /\ rpc = "wait"
        /\ askedFor' = ending.of
        /\ UNCHANGED <<ReportUp_Sem, rpc, pack_lost_total, builtTotal>>
        /\ gGPRS_XMLType' = IF ending.kind = "pack_lost"
                            THEN "PACK_LOST_ACK" ELSE "TRANS_ACK"
    BY <1>1 DEF TakeTurn
  <2> QED
    BY <2>1
<1>2. CASE PostReportUp
  <2>1. /\ cmd = "typed" /\ rpc = "wait"
        /\ UNCHANGED <<gGPRS_XMLType, rpc, builtTotal, askedFor,
                       pack_lost_total>>
    BY <1>2 DEF PostReportUp
  <2> QED
    BY <2>1
<1>3. CASE OtherPosts \/ Restart
  BY <1>3 DEF OtherPosts, Restart, FreshMemory
<1>4. CASE ReportUpWait
  BY <1>4 DEF ReportUpWait
<1>5. CASE BuildTotal
  BY <1>5 DEF BuildTotal
<1>6. CASE BuildIndex
  BY <1>6 DEF BuildIndex
<1>7. CASE ListEnds
  <2>1. cmd = "list" /\ cmd' = "turn"
        /\ UNCHANGED <<turnVars, buildVars, askedFor, ending, LackPacket>>
    BY <1>7 DEF ListEnds
  <2>2. ending.kind = "pack_lost"
    BY <2>1 DEF CommandTypes
  <2> QED
    BY <2>1, <2>2
<1>8. ASSUME UNCHANGED <<turnVars, buildVars, askedFor, pack_lost_total>>,
             cmd' # "typed" \/ UNCHANGED cmd
      PROVE  Making /\ (Making0' <=> Making0)
  BY <1>8
<1>9. CASE PackLost \/ TransStart \/ TransEnd \/ FileTrans
  BY <1>8, <1>9 DEF PackLost, TransStart, TransEnd, FileTrans, Takes, Fault
<1>10. CASE ListPacket \/ TransFile \/ SetConnect
  BY <1>8, <1>10 DEF ListPacket, TransFile, SetConnect
<1>11. CASE UNCHANGED <<turnVars, buildVars, askedFor, pack_lost_total, cmd>>
  BY <1>8, <1>11
<1> QED
  BY <1>1, <1>2, <1>3, <1>4, <1>5, <1>6, <1>7, <1>9, <1>10, <1>11
     DEF TransferNext, Server, ServerBegins, ServerGivesUp, ServerSends,
         ServerReceives, ServerRepeats, Lose, Damage, LinkLost, Login,
         Commander, ReportUp, Fault

\* An answer on its way was so before, or its building ends.
LEMMA AnswerFrom ==
    ASSUME TypeInv, [TransferNext]_transferVars, UNCHANGED id,
           NEW k \in DOMAIN answers', Answer(k)'
    PROVE  \/ \E j \in DOMAIN answers : Answer(j) /\ answers'[k] = answers[j]
           \/ Making /\ (Making0 <=> answers'[k].total = 0)
<1>1. CASE AnswersFewer
  BY <1>1 DEF AnswersFewer, Answer
<1>2. CASE k \in DOMAIN answers /\ answers'[k] = answers[k]
  BY <1>2 DEF Answer
<1>3. CASE /\ BuildIndex /\ gGPRS_XMLType = "PACK_LOST_ACK"
           /\ answers'[k] = [kind |-> "pack_lost_ack", of |-> askedFor,
                             total |-> builtTotal, index |-> pack_lost_index]
  <2>1. rpc = "index" /\ askedFor = id
    BY <1>3 DEF BuildIndex, Answer
  <2> QED
    BY <1>3, <2>1 DEF Making, Making0, Made
<1> QED
  BY <1>1, <1>2, <1>3, AnswersMove DEF AnswerJoins, Answer

\* The program begins to carry out a question when it takes it.
LEMMA AskedFrom ==
    ASSUME TypeInv, [TransferNext]_transferVars, UNCHANGED id, Asked'
    PROVE  Asked \/ (PackLost /\ Question(1))
<1>1. CASE Making'
  BY <1>1, MakingFrom DEF Asked
<1>2. ASSUME NEW k \in DOMAIN answers', Answer(k)'
      PROVE  Asked
  BY <1>2, AnswerFrom DEF Asked
<1>3. CASE /\ cmd' \in {"list", "turn"} /\ ending'.kind = "pack_lost"
           /\ ending'.of = id
  <2>1. CASE PackLost
    BY <1>3, <2>1, HeadTypes DEF PackLost, Takes, Question
  <2>2. CASE ListEnds
    BY <1>3, <2>2 DEF ListEnds, Asked
  <2>3. CASE UNCHANGED <<cmd, ending>>
    BY <1>3, <2>3 DEF Asked
  <2>4. CASE TransStart \/ TransEnd
    BY <1>3, <2>4 DEF TransStart, TransEnd, Takes
  <2>5. CASE TakeTurn \/ TransFile \/ SetConnect \/ Restart
    BY <1>3, <2>5 DEF TakeTurn, TransFile, SetConnect, Restart, FreshMemory
  <2>6. CASE PostReportUp
    <3>1. cmd' \in {"idle", "connect", "apply"}
      BY <2>6 DEF PostReportUp, TypeInv, CommandTypes, Requests
    <3> QED
      BY <1>3, <3>1
  <2> QED
    BY <2>1, <2>2, <2>3, <2>4, <2>5, <2>6
       DEF TransferNext, Server, ServerBegins, ServerGivesUp, ServerSends,
           ServerReceives, ServerRepeats, Lose, Damage, LinkLost, Login,
           Commander, FileTrans, ListPacket, OtherPosts, ReportUp,
           ReportUpWait, BuildTotal, BuildIndex
<1> QED
  BY <1>1, <1>2, <1>3 DEF Asked

\* Before its packets nothing is asked of a transfer.
LEMMA NothingAsked ==
    ASSUME TypeInv, OrderInv, phase = "start"
    PROVE  /\ ~Asked
           /\ \A k \in DOMAIN net : ~Question(k) /\ ~Packet(k)
<1>1. ServerRank = 3 * id /\ id \in Nat
  BY Ranks DEF ServerRank
<1>2. ~Past(3 * id + 1)
  BY <1>1 DEF Past
<1>3. ASSUME NEW k \in DOMAIN net, Question(k) \/ Packet(k)
      PROVE  FALSE
  <2>1. Rank(net[k]) = 3 * id + 1
    BY <1>3 DEF Question, Packet, Rank, Class
  <2> QED
    BY <1>1, <1>3, <2>1 DEF OrderInv
<1> QED
  BY <1>2, <1>3, AskedPast

\* Where the server's data and questions come from.
LEMMA PhaseFrom ==
    ASSUME TypeInv, [TransferNext]_transferVars, phase' \in {"data", "ask"}
    PROVE  /\ UNCHANGED <<id, size>>
           /\ phase \in {"start", "data", "ask"}
           /\ phase = "start" => ServerReceives
           /\ phase = "ask" /\ phase' = "data" =>
                 /\ ServerReceives /\ Head(answers).kind = "pack_lost_ack"
                 /\ Head(answers).total > 0
<1>1. CASE ServerReceives
  BY <1>1 DEF ServerReceives
<1>2. CASE ServerSends
  BY <1>2 DEF ServerSends
<1>3. ASSUME NEW n \in Sizes, NEW t \in FileTypes, ServerBegins(n, t)
      PROVE  FALSE
  BY <1>3 DEF ServerBegins
<1>4. CASE ServerGivesUp
  BY <1>4 DEF ServerGivesUp
<1>5. CASE UNCHANGED serverVars
  BY <1>5
<1> QED
  BY <1>1, <1>2, <1>3, <1>4, <1>5
     DEF TransferNext, Server, ServerRepeats, Lose, Damage, LinkLost, Login,
         Restart, Commander, FileTrans, PackLost, ListPacket, ListEnds,
         TransStart, TransEnd, TakeTurn, PostReportUp, TransFile, SetConnect,
         OtherPosts, ReportUp, ReportUpWait, BuildTotal, BuildIndex, Takes

\* A list that is not empty makes the server send packets again.
LEMMA AskAgain ==
    ASSUME TypeInv, OrderInv, AskInv, [TransferNext]_transferVars, ~misled',
           phase = "ask", phase' = "data"
    PROVE  Asked /\ ~Stale
<1>1. /\ ServerReceives /\ Head(answers).kind = "pack_lost_ack"
      /\ Head(answers).total > 0
  BY PhaseFrom
<1>2. answers # <<>> /\ Head(answers).of = id
  BY <1>1 DEF ServerReceives
<1>3. Head(answers) = answers[1] /\ 1 \in DOMAIN answers
  BY <1>2, TailOf DEF TypeInv
<1>4. Answer(1) /\ answers[1].total # 0
  BY <1>1, <1>2, <1>3 DEF Answer
<1> QED
  BY <1>3, <1>4 DEF AskInv, Asked

\* Where the documents on their way come from.
LEMMA DocumentsFrom ==
    ASSUME TypeInv, [TransferNext]_transferVars, UNCHANGED id
    PROVE  \/ \E d \in {0, 1} : \A k \in DOMAIN net' :
                 /\ k + d \in DOMAIN net /\ k \in Nat
                 /\ Question(k)' => Question(k + d)
                 /\ Packet(k)' => Packet(k + d)
           \/ \A k \in DOMAIN net' :
                 \/ /\ k \in DOMAIN net /\ k \in 1 .. Len(net)
                    /\ Question(k)' => Question(k)
                    /\ Packet(k)' => Packet(k)
                 \/ /\ k = Len(net) + 1
                    /\ Question(k)' => phase' = "ask"
                    /\ Packet(k)' => phase = "data"
<1>0. DOMAIN net' \subseteq Nat
  BY NetStep, LenProperties, SMT DEF NetTypes
<1>1. CASE Fewer
  <2>1. PICK d \in {0, 1} : \A k \in DOMAIN net' :
            /\ k + d \in DOMAIN net
            /\ net'[k].kind = net[k + d].kind
            /\ net'[k].of = net[k + d].of
    BY <1>1 DEF Fewer
  <2>2. \A k \in DOMAIN net' :
            /\ k + d \in DOMAIN net /\ k \in Nat
            /\ Question(k)' => Question(k + d)
            /\ Packet(k)' => Packet(k + d)
    BY <1>0, <2>1 DEF Question, Packet
  <2> QED
    BY <2>2
<1>2. ASSUME NEW m \in Requests \cup Data, Joined(m)
      PROVE  \A k \in DOMAIN net' :
                 \/ /\ k \in DOMAIN net /\ k \in 1 .. Len(net)
                    /\ Question(k)' => Question(k)
                    /\ Packet(k)' => Packet(k)
                 \/ /\ k = Len(net) + 1
                    /\ Question(k)' => phase' = "ask"
                    /\ Packet(k)' => phase = "data"
  <2> SUFFICES ASSUME NEW k \in DOMAIN net'
               PROVE  \/ /\ k \in DOMAIN net /\ k \in 1 .. Len(net)
                         /\ Question(k)' => Question(k)
                         /\ Packet(k)' => Packet(k)
                      \/ /\ k = Len(net) + 1
                         /\ Question(k)' => phase' = "ask"
                         /\ Packet(k)' => phase = "data"
    OBVIOUS
  <2>1. CASE k \in DOMAIN net
    BY <1>2, <2>1, JoinedLast, Ranks DEF Question, Packet
  <2>2. CASE k = Len(net) + 1
    BY <1>2, <2>2, JoinedLast DEF Question, Packet, Joined
  <2> QED
    BY <1>2, <2>1, <2>2, JoinedLast
<1> QED
  BY <1>1, <1>2, NetStep

\* The answers that are made and on their way.
LEMMA AskAnswers ==
    ASSUME TypeInv, OrderInv, ListInv, ListInv', AskInv,
           [TransferNext]_transferVars, ~Restart,
           phase \in {"data", "ask"}, UNCHANGED <<id, size>>
    PROVE  /\ Making0' => AllMarked'
           /\ Making' /\ ~Making0' => ~Stale'
           /\ \A k \in DOMAIN answers' : Answer(k)' =>
                 IF answers'[k].total = 0 THEN AllMarked' ELSE ~Stale'
<1>1. ASSUME Asked
      PROVE  /\ ~Stale => ~Stale'
             /\ AllMarked => AllMarked'
  BY <1>1, AskedPast, MarksStay
<1>2. ASSUME Making'
      PROVE  IF Making0' THEN AllMarked' ELSE ~Stale'
  <2>1. CASE /\ cmd = "turn" /\ ending.kind = "pack_lost" /\ ending.of = id
             /\ Making0' <=> pack_lost_total = 0
    <3>1. Asked
      BY <2>1 DEF Asked
    <3>2. pack_lost_total = 0 <=> AllMarked
      BY <2>1 DEF ListInv
    <3>3. ~AllMarked => ~Stale
      BY DEF Stale
    <3> QED
      BY <1>1, <2>1, <3>1, <3>2, <3>3
  <2>2. CASE Making /\ (Making0' <=> Making0)
    BY <1>1, <2>2 DEF Asked, AskInv
  <2>3. CASE /\ cmd' = "turn" /\ ending'.kind = "pack_lost"
             /\ Making0' <=> pack_lost_total' = 0
    BY <2>3 DEF ListInv, Stale
  <2> QED
    BY <1>2, <2>1, <2>2, <2>3, MakingFrom
<1>3. ASSUME NEW k \in DOMAIN answers', Answer(k)'
      PROVE  IF answers'[k].total = 0 THEN AllMarked' ELSE ~Stale'
  <2>1. ASSUME NEW j \in DOMAIN answers, Answer(j), answers'[k] = answers[j]
        PROVE  IF answers'[k].total = 0 THEN AllMarked' ELSE ~Stale'
    BY <1>1, <2>1 DEF Asked, AskInv
  <2>2. CASE Making /\ (Making0 <=> answers'[k].total = 0)
    BY <1>1, <2>2 DEF Asked, AskInv
  <2> QED
    BY <1>3, <2>1, <2>2, AnswerFrom
<1>4. Making0' => Making'
  BY DEF Making0
<1> QED
  BY <1>2, <1>3, <1>4

\* The packets and questions on their way.
LEMMA AskDocuments ==
    ASSUME TypeInv, OrderInv, AskInv, [TransferNext]_transferVars,
           ~Restart, ~misled', phase \in {"data", "ask"},
           phase' \in {"data", "ask"}, UNCHANGED <<id, size>>
    PROVE  /\ Asked' /\ phase' = "data" => ~Stale'
           /\ \A k \in DOMAIN net' : Asked' /\ Packet(k)' => ~Stale'
           /\ \A k \in DOMAIN net' :
                 Question(k)' /\ phase' = "data" =>
                     ~Stale' /\ Past(3 * id + 1)'
           /\ \A j, k \in DOMAIN net' :
                 Question(j)' /\ Packet(k)' /\ j < k =>
                     ~Stale' /\ Past(3 * id + 1)'
<1>0. Past(3 * id + 1) => Past(3 * id + 1)'
  <2> DEFINE r == 3 * id + 1
  <2>1. r \in Nat
    BY Ranks
  <2>2. Past(r) => Past(r)'
    BY <2>1, PastStep
  <2>3. r' = r
    OBVIOUS
  <2> QED
    BY <2>2, <2>3
<1>1. ASSUME Past(3 * id + 1), ~Stale
      PROVE  ~Stale' /\ Past(3 * id + 1)'
  BY <1>0, <1>1, MarksStay
<1>2. ASSUME Asked, ~Stale
      PROVE  ~Stale' /\ Past(3 * id + 1)'
  BY <1>1, <1>2, AskedPast
<1>3. ASSUME phase = "ask", phase' = "data"
      PROVE  ~Stale' /\ Past(3 * id + 1)'
  BY <1>2, <1>3, AskAgain
<1>4. PackLost => phase' = phase /\ 1 \in DOMAIN net
  BY HeadTypes DEF PackLost, Takes
<1>5. ASSUME Asked', phase' = "data" PROVE ~Stale'
  <2>1. CASE phase = "data" /\ Asked
    BY <1>2, <2>1 DEF AskInv
  <2>2. CASE phase = "data" /\ PackLost /\ Question(1)
    BY <1>1, <1>4, <2>2 DEF AskInv
  <2> QED
    BY <1>3, <1>5, <2>1, <2>2, AskedFrom
<1>6. ASSUME NEW k \in DOMAIN net', Asked', Packet(k)' PROVE ~Stale'
  <2>1. CASE Asked
    <3>1. ASSUME NEW j \in DOMAIN net, Packet(j) PROVE ~Stale
      BY <2>1, <3>1 DEF AskInv
    <3>2. phase = "data" => ~Stale
      BY <2>1 DEF AskInv
    <3> QED
      BY <1>2, <1>6, <2>1, <3>1, <3>2, DocumentsFrom
  <2>2. CASE PackLost /\ Question(1)
    <3>1. net # <<>> /\ net' = Tail(net)
      BY <2>2 DEF PackLost, Takes
    <3>2. k + 1 \in DOMAIN net /\ net'[k] = net[k + 1]
      BY <1>6, <3>1, TailOf DEF TypeInv, NetTypes
    <3>3. 1 < k + 1
      BY <1>6, <3>1, TailOf, SMT DEF TypeInv, NetTypes
    <3>4. Packet(k + 1)
      BY <1>6, <3>2 DEF Packet
    <3> QED
      BY <1>1, <1>4, <2>2, <3>2, <3>3, <3>4 DEF AskInv
  <2> QED
    BY <1>6, <2>1, <2>2, AskedFrom
<1>7. ASSUME NEW k \in DOMAIN net', Question(k)', phase' = "data"
      PROVE  ~Stale' /\ Past(3 * id + 1)'
  <2>1. ASSUME NEW j \in DOMAIN net, Question(j), phase = "data"
        PROVE  ~Stale' /\ Past(3 * id + 1)'
    BY <1>1, <2>1 DEF AskInv
  <2> QED
    BY <1>3, <1>7, <2>1, DocumentsFrom
<1>8. ASSUME NEW j \in DOMAIN net', NEW k \in DOMAIN net',
             Question(j)', Packet(k)', j < k
      PROVE  ~Stale' /\ Past(3 * id + 1)'
  <2>1. ASSUME NEW a \in DOMAIN net, NEW b \in DOMAIN net, a < b,
               Question(a), Packet(b)
        PROVE  ~Stale' /\ Past(3 * id + 1)'
    BY <1>1, <2>1 DEF AskInv
  <2>2. ASSUME NEW a \in DOMAIN net, Question(a), phase = "data"
        PROVE  ~Stale' /\ Past(3 * id + 1)'
    BY <1>1, <2>2 DEF AskInv
  <2>3. ASSUME NEW d \in {0, 1},
               \A n \in DOMAIN net' :
                  /\ n + d \in DOMAIN net /\ n \in Nat
                  /\ Question(n)' => Question(n + d)
                  /\ Packet(n)' => Packet(n + d)
        PROVE  ~Stale' /\ Past(3 * id + 1)'
    <3>1. j + d < k + d
      BY <1>8, <2>3, SMT
    <3> QED
      BY <1>8, <2>1, <2>3, <3>1
  <2>4. ASSUME \A n \in DOMAIN net' :
                  \/ /\ n \in DOMAIN net /\ n \in 1 .. Len(net)
                     /\ Question(n)' => Question(n)
                     /\ Packet(n)' => Packet(n)
                  \/ /\ n = Len(net) + 1
                     /\ Question(n)' => phase' = "ask"
                     /\ Packet(n)' => phase = "data"
        PROVE  ~Stale' /\ Past(3 * id + 1)'
    <3>1. j \in DOMAIN net /\ Question(j)
      <4>1. Len(net) \in Nat
        BY Ranks
      <4> QED
        BY <1>8, <2>4, <4>1, SMT
    <3> QED
      BY <1>8, <2>1, <2>2, <2>4, <3>1
  <2> QED
    BY <2>3, <2>4, DocumentsFrom
<1> QED
  BY <1>5, <1>6, <1>7, <1>8

\* What the program tells of the missing packets is true until the transfer has
\* come to its end.
LEMMA AskStep ==
    ASSUME TypeInv, OrderInv, ListInv, ListInv', AskInv,
           [TransferNext]_transferVars, ~misled'
    PROVE  AskInv'
<1> SUFFICES ASSUME phase' \in {"data", "ask"} PROVE AskInv'
  BY DEF AskInv
<1>1. UNCHANGED <<id, size>> /\ phase \in {"start", "data", "ask"}
  BY PhaseFrom
<1>2. CASE ~Asked' /\ \A k \in DOMAIN net' : ~Question(k)' /\ ~Packet(k)'
  BY <1>2 DEF AskInv, Asked, Making0
<1>3. CASE phase = "start"
  <2>1. ServerReceives
    BY <1>3, PhaseFrom
  <2>2. net' = net /\ ~PackLost
    BY <1>3, <2>1 DEF ServerReceives, PackLost
  <2>3. /\ ~Asked'
        /\ \A k \in DOMAIN net' : ~Question(k)' /\ ~Packet(k)'
    BY <1>1, <1>3, <2>2, NothingAsked, AskedFrom DEF Question, Packet
  <2> QED
    BY <1>2, <2>3
<1>4. CASE Restart
  BY <1>2, <1>4 DEF Restart, FreshMemory, Asked, Making
<1>5. CASE phase # "start" /\ ~Restart
  BY <1>1, <1>5, AskAnswers, AskDocuments DEF AskInv
<1> QED
  BY <1>3, <1>4, <1>5

-----------------------------------------------------------------------------
(* The end of a transfer                                                     *)

\* An end is still to come: the server has sent it, or has come so far.
Coming(e) ==
    \/ phase = "end" /\ e = id
    \/ \E k \in DOMAIN net : net[k].kind = "end" /\ net[k].of = e

\* What is taken before an end comes is of its transfer or of an earlier one.
LEMMA ComingRank ==
    ASSUME TypeInv, OrderInv, NEW e \in Nat, Coming(e)
    PROVE  /\ 3 * e + 2 <= ServerRank
           /\ net # <<>> => Rank(Head(net)) <= 3 * e + 2
<1>1. net # <<>> => /\ Head(net) = net[1] /\ 1 \in DOMAIN net
                    /\ Rank(Head(net)) <= ServerRank
  BY HeadTypes DEF OrderInv
<1>2. CASE phase = "end" /\ e = id
  BY <1>1, <1>2 DEF ServerRank
<1>3. ASSUME NEW k \in DOMAIN net, net[k].kind = "end", net[k].of = e
      PROVE  3 * e + 2 <= ServerRank /\ Rank(net[1]) <= 3 * e + 2
  <2>1. Rank(net[k]) = 3 * e + 2
    BY <1>3 DEF Rank, Class
  <2>2. 1 <= k /\ 1 \in DOMAIN net
    BY Ranks, SMT
  <2> QED
    BY <1>3, <2>1, <2>2 DEF OrderInv
<1> QED
  BY <1>1, <1>2, <1>3 DEF Coming

\* No packet of a transfer comes after the server has ended it.
LEMMA NoLaterPacket ==
    ASSUME TypeInv, [TransferNext]_transferVars, NEW e \in Nat,
           3 * e + 2 <= ServerRank,
           NEW k \in DOMAIN net', net'[k].kind = "file_data", net'[k].of = e
    PROVE  \E j \in DOMAIN net : /\ net[j].kind = "file_data" /\ net[j].of = e
                                 /\ net[j].total = net'[k].total
<1>1. CASE Fewer
  BY <1>1 DEF Fewer
<1>2. ASSUME NEW m \in Requests \cup Data, Joined(m)
      PROVE  k \in DOMAIN net /\ net'[k] = net[k]
  <2>1. CASE k \in DOMAIN net
    BY <1>2, <2>1, JoinedLast
  <2>2. CASE k = Len(net) + 1
    <3>1. Rank(m) = 3 * e + 1
      BY <1>2, <2>2, JoinedLast DEF Rank, Class
    <3>2. Rank(m) >= ServerRank
      BY <1>2 DEF Joined
    <3> QED
      BY <3>1, <3>2, Ranks
  <2> QED
    BY <1>2, <2>1, <2>2, JoinedLast
<1> QED
  BY <1>1, <1>2, NetStep

\* The end that is carried out stays so until the file is executed.
LEMMA EndedStep ==
    ASSUME TypeInv, OrderInv, [TransferNext]_transferVars,
           NEW e \in Nat, Ended(e), net # <<>> => Rank(Head(net)) <= 3 * e + 2
    PROVE  Ended(e)'
<1>1. 3 * e + 2 \in Nat /\ Past(3 * e + 2)
  BY DEF Ended
<1>2. Past(3 * e + 2)'
  BY <1>1, PastStep
<1>3. ASSUME net # <<>>, Head(net).kind # "end" PROVE FALSE
  <2>1. /\ Head(net) = net[1] /\ 1 \in DOMAIN net
        /\ Head(net) \in Requests \cup Data
    BY <1>3, HeadTypes
  <2>2. Rank(Head(net)) = 3 * e + 2
    <3>1. PICK r : r = Rank(Head(net))
      OBVIOUS
    <3>2. r \in Nat
      BY <2>1, <3>1, Ranks
    <3>3. 3 * e + 2 <= r
      BY <1>1, <2>1, <3>1 DEF Past
    <3>4. r <= 3 * e + 2
      BY <1>3, <3>1
    <3> QED
      BY <1>1, <3>1, <3>2, <3>3, <3>4
  <2>3. Head(net).of \in Nat
    BY <2>1, Ranks
  <2>4. Rank(Head(net)) = 3 * Head(net).of + Class(Head(net))
        /\ Class(Head(net)) \in {0, 1}
    BY <1>3 DEF Rank, Class
  <2> QED
    BY <2>2, <2>3, <2>4
<1>4. CASE FileTrans \/ TransStart \/ PackLost
  BY <1>3, <1>4 DEF FileTrans, TransStart, PackLost, Takes
<1>5. CASE TransEnd
  <2>1. /\ net # <<>> /\ Head(net).kind = "end" /\ cmd = "idle"
        /\ UNCHANGED <<exists, gFileType>>
    BY <1>5 DEF TransEnd, Takes
  <2> QED
    BY <1>2, <2>1 DEF Ended, Ending
<1>6. CASE Restart
  BY <1>2, <1>6 DEF Ended, Restart, FreshMemory
<1>7. CASE TransFile
  BY <1>2, <1>7 DEF Ended, TransFile
<1>8. CASE PostReportUp
  <2>1. ending.kind = "end" => cmd' = "apply"
    BY <1>8 DEF PostReportUp
  <2>2. UNCHANGED <<exists, gFileType, ending>>
    BY <1>8 DEF PostReportUp
  <2> QED
    BY <1>2, <2>1, <2>2 DEF Ended, Ending
<1>9. CASE TakeTurn
  BY <1>2, <1>9 DEF Ended, Ending, TakeTurn
<1>10. CASE ListPacket \/ ListEnds \/ SetConnect
  BY <1>2, <1>10 DEF Ended, Ending, ListPacket, ListEnds, SetConnect
<1>11. CASE UNCHANGED <<exists, gFileType, cmd, ending>>
  BY <1>2, <1>11 DEF Ended, Ending
<1> QED
  BY <1>4, <1>5, <1>6, <1>7, <1>8, <1>9, <1>10, <1>11
     DEF TransferNext, Server, ServerBegins, ServerGivesUp, ServerSends,
         ServerReceives, ServerRepeats, Lose, Damage, LinkLost, Login,
         Commander, OtherPosts, ReportUp, ReportUpWait, BuildTotal, BuildIndex

\* What lets an end come stays until it does.
LEMMA ClosedStep ==
    ASSUME TypeInv, OrderInv, [TransferNext]_transferVars,
           NEW e \in 1 .. MaxTransfers, Coming(e), Closed(e)
    PROVE  Closed(e)'
<1>0. /\ e \in Nat /\ 3 * e + 1 \in Nat
      /\ 3 * e + 2 <= ServerRank
      /\ net # <<>> => Rank(Head(net)) <= 3 * e + 2
  BY Constants, ComingRank
<1>1. Past(3 * e + 1) /\ Past(3 * e + 1)'
  BY <1>0, PastStep DEF Closed
<1>2. ASSUME net # <<>>
      PROVE  /\ Head(net).of = e
             /\ Head(net).kind # "start"
             /\ Head(net) = net[1] /\ 1 \in DOMAIN net
  <2>1. /\ Head(net) = net[1] /\ 1 \in DOMAIN net
        /\ Head(net) \in Requests \cup Data
    BY <1>2, HeadTypes
  <2>2. /\ Rank(Head(net)) = 3 * Head(net).of + Class(Head(net))
        /\ Class(Head(net)) \in 0 .. 2 /\ Head(net).of \in Nat
    BY <2>1, MessageTypes, Constants DEF Rank
  <2>3. 3 * e + 1 <= Rank(Head(net))
    BY <1>1, <2>1 DEF Past
  <2>4. Head(net).of = e /\ Class(Head(net)) # 0
    BY <1>0, <1>2, <2>2, <2>3
  <2> QED
    BY <2>1, <2>4 DEF Class
<1>3. Ended(e) => Ended(e)'
  BY <1>0, EndedStep
<1>4. CASE FileTrans
  <2>1. PICK m : m = Head(net)
    OBVIOUS
  <2>2. /\ net # <<>> /\ m \in Data /\ m = net[1] /\ 1 \in DOMAIN net
        /\ m.kind = "file_data" /\ gPack_total' = m.total /\ m.of = e
    BY <1>2, <1>4, <2>1, HeadTypes DEF FileTrans, Takes
  <2>3. gPack_total' = gPack_total
    BY <2>2 DEF Closed
  <2>4. ~Ended(e)
    <3>1. Rank(m) = 3 * e + 1
      BY <2>2 DEF Rank, Class
    <3> QED
      BY <1>0, <2>2, <3>1 DEF Ended, Past
  <2>5. AllMarked
    BY <2>4 DEF Closed
  <2>6. \/ UNCHANGED gPacketReceiveFlag
        \/ \E f \in {m.of, Spoilt} :
              gPacketReceiveFlag' = [gPacketReceiveFlag EXCEPT ![m.seq] = f]
        \/ /\ Missing(m.seq)
           /\ gPacketReceiveFlag' = [gPacketReceiveFlag EXCEPT ![m.seq] = 0]
    BY <1>4, <2>1, Zenon DEF FileTrans
  <2>7. m.of # 0 /\ Spoilt # 0 /\ m.seq \in Packets
    BY <2>2, Constants DEF Data, Spoilt
  <2>8. \A s \in Packets :
            gPacketReceiveFlag[s] # 0 => gPacketReceiveFlag'[s] # 0
    BY <2>6, <2>7 DEF TypeInv, MarkTypes, Missing
  <2>9. 1 .. gPack_total \subseteq Packets
    BY SizesFit DEF TypeInv, MarkTypes, Packets
  <2>10. AllMarked'
    BY <2>3, <2>5, <2>8, <2>9 DEF AllMarked, Missing
  <2>11. \A k \in DOMAIN net' :
             net'[k].kind = "file_data" /\ net'[k].of = e =>
                 gPack_total' = net'[k].total
    BY <1>0, <2>3, NoLaterPacket DEF Closed
  <2> QED
    BY <1>1, <2>10, <2>11 DEF Closed
<1>5. CASE Restart
  BY <1>1, <1>5 DEF Closed, Restart, FreshMemory, AllMarked
<1>6. CASE ~Restart /\ ~FileTrans
  <2>1. gPack_total' = gPack_total
    BY <1>6, MarksOf DEF TransEnd
  <2>2. \A k \in DOMAIN net' :
             net'[k].kind = "file_data" /\ net'[k].of = e =>
                 gPack_total' = net'[k].total
    BY <1>0, <2>1, NoLaterPacket DEF Closed
  <2>3. CASE TransEnd
    <3>1. /\ net # <<>> /\ net' = Tail(net) /\ UNCHANGED <<phase, id>>
          /\ Head(net).kind = "end" /\ cmd' = "turn" /\ ending' = Head(net)
      BY <2>3 DEF TransEnd, Takes
    <3>2. Rank(Head(net)) = 3 * e + 2
      BY <1>2, <3>1 DEF Rank, Class
    <3>3. PICK r : r = 3 * e + 2
      OBVIOUS
    <3>4. Past(r)'
      BY <3>1, <3>2, <3>3, TakenIsPast
    <3>5. Ended(e)'
      BY <1>2, <3>1, <3>3, <3>4 DEF Ended, Ending
    <3> QED
      BY <1>1, <2>2, <3>5 DEF Closed
  <2>4. CASE ~TransEnd
    <3>1. AllMarked => AllMarked'
      BY <1>6, <2>4, MarksOf DEF AllMarked, Missing
    <3> QED
      BY <1>1, <1>3, <2>2, <3>1 DEF Closed
  <2> QED
    BY <2>3, <2>4
<1> QED
  BY <1>4, <1>5, <1>6

\* An end is sent when the program has told that no packet is missing.
LEMMA EndSent ==
    ASSUME TypeInv, OrderInv, AskInv, [TransferNext]_transferVars, ~misled',
           phase # "end", phase' = "end"
    PROVE  Closed(id)' /\ UNCHANGED id
<1>1. ServerReceives
  BY DEF TransferNext, Server, ServerBegins, ServerGivesUp, ServerSends,
         ServerRepeats, Lose, Damage, LinkLost, Login, Restart, Commander,
         FileTrans, PackLost, ListPacket, ListEnds, TransStart, TransEnd,
         TakeTurn, PostReportUp, TransFile, SetConnect, OtherPosts, ReportUp,
         ReportUpWait, BuildTotal, BuildIndex, Takes
<1>2. /\ phase = "ask" /\ answers # <<>>
      /\ Head(answers).kind = "pack_lost_ack" /\ Head(answers).total = 0
      /\ Head(answers).of = id
      /\ net' = Append(net, Request("end"))
      /\ UNCHANGED <<id, size, gPacketReceiveFlag, gPack_total>>
  BY <1>1 DEF ServerReceives, Send
<1>3. Head(answers) = answers[1] /\ 1 \in DOMAIN answers
  BY <1>2, TailOf DEF TypeInv
<1>4. Answer(1) /\ Asked /\ AllMarked
  BY <1>2, <1>3 DEF AskInv, Answer, Asked
<1>5. Past(3 * id + 1)'
  <2>1. PICK r : r = 3 * id + 1
    OBVIOUS
  <2>2. r \in Nat /\ Past(r)
    BY <1>4, <2>1, AskedPast, Ranks
  <2>3. Past(r)'
    BY <2>2, PastStep
  <2> QED
    BY <1>2, <2>1, <2>3
<1>6. \A k \in DOMAIN net : Packet(k) => gPack_total = net[k].total
  <2>1. \A k \in DOMAIN net : Packet(k) => net[k].total = size
    BY DEF Packet, OrderInv
  <2>2. \A k \in DOMAIN net : Packet(k) => gPack_total = size
    BY <1>2, <1>4 DEF AskInv, Stale
  <2> QED
    BY <2>1, <2>2
<1>7. ASSUME NEW k \in DOMAIN net',
             net'[k].kind = "file_data", net'[k].of = id
      PROVE  gPack_total = net'[k].total
  <2>1. Request("end").kind = "end"
    BY DEF Request
  <2>2. Request("end") \in Requests \cup Data
    <3>1. id \in 1 .. MaxTransfers /\ size \in Sizes
      BY <1>2, Constants DEF TypeInv, ServerTypes
    <3> QED
      BY <3>1, RequestTypes DEF Request
  <2>3. k \in DOMAIN net /\ net'[k] = net[k]
    BY <1>2, <1>7, <2>1, <2>2, AppendOf, SMT DEF TypeInv, NetTypes
  <2> QED
    BY <1>6, <1>7, <2>3 DEF Packet
<1>8. AllMarked'
  BY <1>2, <1>4 DEF AllMarked, Missing
<1> QED
  BY <1>2, <1>5, <1>7, <1>8 DEF Closed

\* An end comes only when no packet is missing, or there is nothing to execute.
LEMMA EndStep ==
    ASSUME TypeInv, OrderInv, AskInv, EndInv, [TransferNext]_transferVars,
           ~misled'
    PROVE  EndInv'
<1>1. \A e \in 1 .. MaxTransfers : Coming(e) => Closed(e)'
  BY ClosedStep DEF EndInv, Coming
<1>2. phase' = "end" => Closed(id)'
  <2>1. CASE phase = "end" /\ phase' = "end"
    <3>1. UNCHANGED id
      BY <2>1
         DEF TransferNext, Server, ServerBegins, ServerGivesUp, ServerSends,
             ServerReceives, ServerRepeats, Lose, Damage, LinkLost, Login,
             Restart, Commander, FileTrans, PackLost, ListPacket, ListEnds,
             TransStart, TransEnd, TakeTurn, PostReportUp, TransFile,
             SetConnect, OtherPosts, ReportUp, ReportUpWait, BuildTotal,
             BuildIndex, Takes
    <3>2. id \in 1 .. MaxTransfers
      BY <2>1, Constants DEF TypeInv, ServerTypes
    <3>3. Closed(id)'
      <4>1. PICK e : e = id
        OBVIOUS
      <4>2. Closed(e)'
        BY <1>1, <2>1, <3>2, <4>1 DEF Coming
      <4> QED
        BY <3>1, <4>1, <4>2
    <3> QED
      BY <3>3
  <2> QED
    BY <2>1, EndSent
<1>3. ASSUME NEW k \in DOMAIN net', net'[k].kind = "end"
      PROVE  Closed(net[k].of)'
  <2>1. PICK e : e = net'[k].of
    OBVIOUS
  <2>2. ASSUME NEW j \in DOMAIN net, net[j].kind = "end", net[j].of = e
        PROVE  Closed(e)'
    BY <1>1, <2>2, Ranks DEF Coming
  <2>3. ASSUME Fewer PROVE Closed(e)'
    BY <1>3, <2>1, <2>2, <2>3 DEF Fewer
  <2>4. ASSUME NEW m \in Requests \cup Data, Joined(m)
        PROVE  Closed(e)'
    <3>1. CASE k \in DOMAIN net
      BY <1>3, <2>1, <2>2, <2>4, <3>1, JoinedLast
    <3>2. CASE k = Len(net) + 1
      <4>1. net'[k] = m /\ m.of = id' /\ Rank(m) = ServerRank'
        BY <2>4, <3>2, JoinedLast DEF Joined
      <4>2. ServerRank' = 3 * id' + 2
        BY <1>3, <4>1 DEF Rank, Class
      <4>3. id' \in Nat
        BY ServerTypeStep, Constants DEF ServerTypes
      <4>4. phase' = "end"
        BY <2>4, <4>2, <4>3 DEF ServerRank, Joined
      <4>5. e = id'
        BY <2>1, <4>1
      <4> QED
        BY <1>2, <4>4, <4>5
    <3> QED
      BY <1>3, <2>4, <3>1, <3>2, JoinedLast
  <2>5. Closed(e)'
    BY <2>3, <2>4, NetStep
  <2> QED
    BY <2>1, <2>5
<1> QED
  BY <1>2, <1>3 DEF EndInv

-----------------------------------------------------------------------------
(* The file that is executed                                                 *)

\* So the file is whole when its end is taken, and until it is executed nobody
\* writes to it.
LEMMA WholeStep ==
    ASSUME TypeInv, OrderInv, FileInv, EndInv, WholeInv,
           [TransferNext]_transferVars
    PROVE  WholeInv'
<1>1. CASE TransEnd
  <2>1. PICK e : e = Head(net).of
    OBVIOUS
  <2>2. /\ net # <<>> /\ Head(net) = net[1] /\ 1 \in DOMAIN net
        /\ Head(net).kind = "end" /\ e \in 1 .. MaxTransfers /\ e \in Nat
    BY <1>1, <2>1, HeadTypes, Constants DEF TransEnd, Takes
  <2>3. /\ cmd = "idle" /\ ending' = Head(net)
        /\ UNCHANGED <<exists, gFileType, gPack_total, file>>
        /\ carried' = {s \in Packets : gPacketReceiveFlag[s] \notin {0, e}}
    BY <1>1, <2>1 DEF TransEnd, Takes
  <2>4. Closed(e)
    BY <2>1, <2>2 DEF EndInv
  <2>5. SUFFICES ASSUME exists, gFileType # "none",
                        gPack_total = Head(net).total,
                        NEW s \in (1 .. Head(net).total) \ carried'
                 PROVE  /\ file[s].of = e
                        /\ s < Head(net).total => file[s].whole
    BY <2>1, <2>3 DEF WholeInv
  <2>6. ~Ended(e)
    BY <2>3, <2>5 DEF Ended, Ending
  <2>7. ~Missing(s)
    BY <2>4, <2>5, <2>6 DEF Closed, AllMarked
  <2>8. s \in Packets
    BY <2>5, SizesFit DEF TypeInv, MarkTypes, Packets
  <2>9. gPacketReceiveFlag[s] = e
    BY <2>3, <2>5, <2>7, <2>8 DEF Missing
  <2>10. Tells(s, e)
    BY <2>2, <2>8, <2>9 DEF FileInv
  <2>11. ~Past(3 * e + 3)
    <3>1. Rank(net[1]) = 3 * e + 2
      BY <2>1, <2>2 DEF Rank, Class
    <3> QED
      BY <2>2, <3>1 DEF Past
  <2>12. LastOf(s, e) => ~(s < Head(net).total)
    <3>1. s \in Nat /\ Head(net).total \in Nat
      BY <2>5, SizesFit DEF TypeInv, MarkTypes
    <3> QED
      BY <2>1, <2>2, <3>1 DEF LastOf
  <2> QED
    BY <2>10, <2>11, <2>12 DEF Tells
<1>2. CASE ~Ending'
  BY <1>2 DEF WholeInv
<1>3. CASE FileTrans \/ TransStart \/ PackLost
  BY <1>2, <1>3 DEF Ending, FileTrans, TransStart, PackLost, Takes
<1>4. CASE Restart \/ TransFile \/ SetConnect \/ ListPacket
  BY <1>2, <1>4
     DEF Ending, Restart, FreshMemory, TransFile, SetConnect, ListPacket
<1>5. CASE ListEnds
  BY <1>2, <1>5 DEF Ending, ListEnds, TypeInv, CommandTypes
<1>6. ASSUME UNCHANGED <<fileVars, flagVars, ending>>, Ending' => Ending
      PROVE  WholeInv'
  BY <1>6 DEF WholeInv
<1>7. CASE TakeTurn \/ PostReportUp
  BY <1>6, <1>7 DEF Ending, TakeTurn, PostReportUp
<1>8. CASE UNCHANGED <<fileVars, flagVars, ending, cmd>>
  BY <1>6, <1>8 DEF Ending
<1> QED
  BY <1>1, <1>3, <1>4, <1>5, <1>7, <1>8
     DEF TransferNext, Server, ServerBegins, ServerGivesUp, ServerSends,
         ServerReceives, ServerRepeats, Lose, Damage, LinkLost, Login,
         Commander, OtherPosts, ReportUp, ReportUpWait, BuildTotal, BuildIndex

-----------------------------------------------------------------------------
(* The theorems                                                              *)

\* Initially all of it holds.
LEMMA TransferInvInit == TransferInit => TransferInv
<1> SUFFICES ASSUME TransferInit PROVE TransferInv
  OBVIOUS
<1>1. ListInv
  BY DEF TransferInit, ListInv
<1>2. AskInv /\ EndInv /\ WholeInv
  BY DEF TransferInit, AskInv, EndInv, WholeInv, Ending
<1> QED
  BY <1>1, <1>2, TypeInit, OrderInit, FileInit DEF TransferInv

\* Every step keeps it.  Once the server is misled it stays so, and only the
\* first half is claimed.
LEMMA TransferInvStep ==
    TransferInv /\ [TransferNext]_transferVars => TransferInv'
<1> SUFFICES ASSUME TransferInv, [TransferNext]_transferVars
             PROVE  TransferInv'
  OBVIOUS
<1>1. TypeInv /\ OrderInv /\ FileInv /\ ListInv
  BY DEF TransferInv
<1>2. TypeInv' /\ OrderInv' /\ FileInv' /\ ListInv'
  BY <1>1, TypeStep, OrderStep, FileStep, ListStep
<1>3. misled => misled'
  BY DEF TransferNext, Server, ServerBegins, ServerGivesUp, ServerSends,
         ServerReceives, ServerRepeats, Lose, Damage, LinkLost, Login,
         Restart, Commander, FileTrans, PackLost, ListPacket, ListEnds,
         TransStart, TransEnd, TakeTurn, PostReportUp, TransFile, SetConnect,
         OtherPosts, ReportUp, ReportUpWait, BuildTotal, BuildIndex, Fault
<1>4. ASSUME ~misled' PROVE AskInv' /\ EndInv' /\ WholeInv'
  <2>1. AskInv /\ EndInv /\ WholeInv
    BY <1>3, <1>4 DEF TransferInv
  <2>2. AskInv'
    BY <1>1, <1>2, <1>4, <2>1, AskStep
  <2>3. EndInv'
    BY <1>1, <1>4, <2>1, EndStep
  <2>4. WholeInv'
    BY <1>1, <2>1, WholeStep
  <2> QED
    BY <2>2, <2>3, <2>4
<1> QED
  BY <1>2, <1>4 DEF TransferInv

\* The inductive invariant of the transfer.
LEMMA TransferInvariant == TransferSpec => []TransferInv
BY TransferInvInit, TransferInvStep, PTL DEF TransferSpec

\* For every size of the files and of the lists, and any number of transfers
\* and faults, the variables keep their types: packets are marked and listed
\* within the arrays (gPacketReceiveFlag, pack_lost_index), and the two semaphores are
\* never posted twice (CommandDeal.c, FILE_TRANS, PACK_LOST; xml.c).
THEOREM TransferTypeCorrect == TransferSpec => []TransferTypeOK
<1>1. TransferInv => TransferTypeOK
  BY TypeInvImplies DEF TransferInv
<1> QED
  BY <1>1, TransferInvariant, PTL

\* For all of them, too, the file that CMD_TransFile executes has every packet
\* of its transfer, and whole, whatever was lost, damaged, repeated or restarted
\* on the way, but for the cases AppliedWhole names (CommandDeal.c, FILE_TRANS,
\* PACK_LOST, TRANS_REQ).
THEOREM TransferAppliesWhole == TransferSpec => []AppliedWhole
<1>1. TransferInv => AppliedWhole
  <2> SUFFICES ASSUME TransferInv PROVE AppliedWhole
    OBVIOUS
  <2>1. cmd = "apply" => Ending
    BY DEF TransferInv, TypeInv, CommandTypes, Ending
  <2> QED
    BY <2>1 DEF TransferInv, WholeInv, AppliedWhole
<1> QED
  BY <1>1, TransferInvariant, PTL
=============================================================================
