---------------------------- MODULE FileTransfer ----------------------------
(***************************************************************************)
(* How the server sends a file: new meter addresses or a new program.      *)
(*                                                                         *)
(*   server                          XML_main_proc (CMD_ReviceXMLData)     *)
(*     Trans_req start     --->        empties transfile, Connect = FALSE   *)
(*     file_data 1 .. size --->        writes the packets, marks them       *)
(*     pack_lost           --->        lists those not marked               *)
(*     (the listed ones again, until none is listed)                       *)
(*     Trans_req end       --->        executes transfile, Connect = TRUE   *)
(*                                                                         *)
(* Documents get lost or damaged, answers too; the server repeats what is   *)
(* not answered, and may give a transfer up.  The answers are built by      *)
(* ReportUp_main_proc from globals that the next command may be changing    *)
(* already.  The turn (Xml_Send_Sem) is that of Uplink, of which only taking *)
(* it, posting and giving it back are left; the sender is the way back.     *)
(***************************************************************************)
EXTENDS Naturals, Sequences, FiniteSetsExt

CONSTANTS
    Sizes,         \* packets of a file; gPacketReceiveFlag has 250 entries
    FileTypes,     \* what is sent: "meteraddress", "tar"
    LackLimit,     \* a list ends when it has more entries than this (20)
    MaxNet,        \* bound: documents on the way
    MaxTransfers,  \* bound: transfers begun
    MaxFaults      \* bound: losses, damages, early repetitions, restarts

ASSUME TransferConstants ==
    /\ Sizes \subseteq 1 .. 249 /\ Sizes # {}
    /\ FileTypes \subseteq {"meteraddress", "tar"} /\ FileTypes # {}
    /\ LackLimit \in Nat
    /\ MaxNet \in Nat \ {0}
    /\ MaxTransfers \in Nat
    /\ MaxFaults \in Nat

VARIABLES
    phase, id, size, ftype, todo,   \* the server: its transfer, what to send
    net, answers,  \* documents on the way to the program and back
    link,          \* the program is logged in
    running,       \* the process has not ended
    Connect,
    fp,            \* transfile is open
    exists, file,  \* transfile: by packet, whose it is and whether it is whole
    gPacketReceiveFlag,   \* 0, or for 0xaa (ghost) the transfer that marked it
    gPack_total, gFileType,
    cmd, ending,   \* where XML_main_proc is, and the request it carries out
    i, LackPacket, \* the loop of PACK_LOST
    pack_lost_index, pack_lost_total,   \* gxml_TransInfo_T
    Xml_Send_Sem, ReportUp_Sem, gGPRS_XMLType,
    rpc, builtTotal,   \* where ReportUp_main_proc is, and what it has printed
    carried,       \* ghost: at the end, packets marked for what is not there
    askedFor,      \* ghost: the transfer that is answered
    misled,        \* ghost: the server took an answer to another transfer
    faults

serverVars == <<phase, id, size, ftype, todo>>
linkVars == <<net, answers, link, running>>
fileVars == <<fp, exists, file, gFileType>>
flagVars == <<gPacketReceiveFlag, gPack_total, carried>>
listVars == <<i, LackPacket, pack_lost_index, pack_lost_total>>
turnVars == <<Xml_Send_Sem, ReportUp_Sem, gGPRS_XMLType>>
buildVars == <<rpc, builtTotal>>
ghostVars == <<askedFor, misled, faults>>
transferVars == <<serverVars, linkVars, Connect, fileVars, flagVars, cmd,
                  ending, listVars, turnVars, buildVars, ghostVars>>

Packets == 1 .. Max(Sizes)
Empty == [of |-> 0, whole |-> FALSE]
NoMarks == [s \in Packets |-> 0]
\* 0xaa of a packet that was written again since, and not as it is.
Spoilt == MaxTransfers + 1
Requests ==
    [kind : {"start", "pack_lost", "end"}, of : 0 .. MaxTransfers,
     total : Sizes \cup {0}]
Data ==
    [kind : {"file_data"}, of : 1 .. MaxTransfers, total : Sizes, seq : Packets,
     type : FileTypes, whole : BOOLEAN]
Replies ==
    [kind : {"Trans_ack"}, of : 0 .. MaxTransfers] \cup
    [kind : {"pack_lost_ack"}, of : 0 .. MaxTransfers,
     total : 0 .. LackLimit + 1, index : SUBSET Packets]
NoRequest == [kind |-> "end", of |-> 0, total |-> 0]

TransferTypeOK ==
    /\ phase \in {"done", "gone", "start", "data", "ask", "end"}
    /\ id \in 0 .. MaxTransfers
    /\ size \in Sizes
    /\ ftype \in FileTypes
    /\ todo \subseteq 1 .. size
    /\ net \in Seq(Requests \cup Data) /\ Len(net) <= MaxNet
    /\ answers \in Seq(Replies)
    /\ link \in BOOLEAN
    /\ running \in BOOLEAN
    /\ Connect \in BOOLEAN
    /\ fp \in BOOLEAN
    /\ exists \in BOOLEAN
    /\ file \in [Packets -> [of : 0 .. MaxTransfers, whole : BOOLEAN]]
    /\ gFileType \in FileTypes \cup {"none"}
    /\ gPacketReceiveFlag \in [Packets -> 0 .. MaxTransfers + 1]
    /\ gPack_total \in Sizes \cup {0}
    /\ carried \subseteq Packets
    /\ cmd \in {"idle", "list", "turn", "typed", "apply", "connect"}
    /\ ending \in Requests
    /\ i \in 1 .. Max(Sizes) + 1
    /\ LackPacket \in 0 .. LackLimit + 1
    /\ pack_lost_index \subseteq Packets
    /\ pack_lost_total \in 0 .. LackLimit + 1
    /\ Xml_Send_Sem \in 0 .. 1
    /\ ReportUp_Sem \in 0 .. 1
    /\ gGPRS_XMLType \in {"TRANS_ACK", "PACK_LOST_ACK", "other"}
    /\ rpc \in {"wait", "build", "index"}
    /\ builtTotal \in 0 .. LackLimit + 1
    /\ askedFor \in 0 .. MaxTransfers
    /\ misled \in BOOLEAN
    /\ faults \in 0 .. MaxFaults

\* The program's memory when it is started; transfile is on the disk.
FreshMemory ==
    /\ Connect' = FALSE
    /\ fp' = FALSE
    /\ gFileType' = "none"
    /\ gPacketReceiveFlag' = NoMarks /\ gPack_total' = 0 /\ carried' = {}
    /\ cmd' = "idle" /\ ending' = NoRequest
    /\ i' = 1 /\ LackPacket' = 0
    /\ pack_lost_index' = {} /\ pack_lost_total' = 0
    /\ Xml_Send_Sem' = 1 /\ ReportUp_Sem' = 0 /\ gGPRS_XMLType' = "other"
    /\ rpc' = "wait" /\ builtTotal' = 0

TransferInit ==
    /\ phase = "done" /\ id = 0 /\ size \in Sizes /\ ftype \in FileTypes
    /\ todo = {}
    /\ net = <<>> /\ answers = <<>> /\ link = TRUE /\ running = TRUE
    /\ Connect = TRUE
    /\ fp = FALSE /\ exists = FALSE /\ file = [s \in Packets |-> Empty]
    /\ gFileType = "none"
    /\ gPacketReceiveFlag = NoMarks /\ gPack_total = 0 /\ carried = {}
    /\ cmd = "idle" /\ ending = NoRequest
    /\ i = 1 /\ LackPacket = 0
    /\ pack_lost_index = {} /\ pack_lost_total = 0
    /\ Xml_Send_Sem = 1 /\ ReportUp_Sem = 0 /\ gGPRS_XMLType = "other"
    /\ rpc = "wait" /\ builtTotal = 0
    /\ askedFor = 0 /\ misled = FALSE /\ faults = 0

Fault ==
    /\ faults < MaxFaults
    /\ faults' = faults + 1
    /\ UNCHANGED <<askedFor, misled>>

-----------------------------------------------------------------------------
(* Faulty variants of the definitions below, one plausible mistake each.  No *)
(* specification uses them: they are what the properties must tell from the  *)
(* code.                                                                     *)

\* the list counts one entry too many before it ends
ListPacketOneTooMany ==
    /\ running /\ cmd = "list"
    /\ i <= gPack_total
    /\ gPacketReceiveFlag[i] = 0 => LackPacket <= LackLimit + 1
    /\ i' = i + 1
    /\ IF gPacketReceiveFlag[i] = 0
       THEN /\ pack_lost_index' = pack_lost_index \cup {i}
            /\ LackPacket' = LackPacket + 1
       ELSE UNCHANGED <<pack_lost_index, LackPacket>>
    /\ UNCHANGED <<serverVars, linkVars, Connect, fileVars, flagVars, cmd,
                   ending, pack_lost_total, turnVars, buildVars, ghostVars>>

\* the loop ends before the last packet
ListEndsBeforeLast ==
    /\ running /\ cmd = "list"
    /\ i < gPack_total =>
           gPacketReceiveFlag[i] = 0 /\ LackPacket > LackLimit
    /\ pack_lost_total' = LackPacket
    /\ cmd' = "turn"
    /\ UNCHANGED <<serverVars, linkVars, Connect, fileVars, flagVars, ending, i,
                   LackPacket, pack_lost_index, turnVars, buildVars, ghostVars>>

\* the end restores Connect, which start has made FALSE
SetConnectLate ==
    /\ running /\ cmd = "connect"
    /\ Connect' = (ending.kind = "end" /\ Connect)
    /\ cmd' = "idle"
    /\ UNCHANGED <<serverVars, linkVars, fileVars, flagVars, ending, listVars,
                   turnVars, buildVars, ghostVars>>

-----------------------------------------------------------------------------
(* The server (external) *)

Send(m) == Len(net) < MaxNet /\ link /\ net' = Append(net, m)

Request(kind) == [kind |-> kind, of |-> id, total |-> size]

\* A transfer begins; one still going on is given up for it.
ServerBegins(n, t) ==
    /\ id < MaxTransfers
    /\ id' = id + 1 /\ size' = n /\ ftype' = t /\ todo' = {}
    /\ phase' = "start"
    /\ Send([kind |-> "start", of |-> id + 1, total |-> n])
    /\ UNCHANGED <<answers, link, running, Connect, fileVars, flagVars, cmd,
                   ending, listVars, turnVars, buildVars, ghostVars>>

ServerGivesUp ==
    /\ phase \notin {"done", "gone"}
    /\ phase' = "gone"
    /\ todo' = {}
    /\ UNCHANGED <<id, size, ftype, linkVars, Connect, fileVars, flagVars, cmd,
                   ending, listVars, turnVars, buildVars, ghostVars>>

\* The next packet, or when all are sent the question which are missing.
ServerSends ==
    /\ phase = "data"
    /\ IF todo = {}
       THEN Send(Request("pack_lost")) /\ phase' = "ask" /\ UNCHANGED todo
       ELSE /\ Send([kind |-> "file_data", of |-> id, total |-> size,
                     seq |-> Min(todo), type |-> ftype, whole |-> TRUE])
            /\ todo' = todo \ {Min(todo)}
            /\ UNCHANGED phase
    /\ UNCHANGED <<id, size, ftype, answers, link, running, Connect, fileVars,
                   flagVars, cmd, ending, listVars, turnVars, buildVars,
                   ghostVars>>

\* An answer that is not the one waited for is ignored; Trans_ack does not say
\* what it answers.
ServerReceives ==
    LET a == Head(answers)
    IN  /\ answers # <<>>
        /\ answers' = Tail(answers)
        /\ \/ /\ phase = "start" /\ a.kind = "Trans_ack"
              /\ phase' = "data" /\ todo' = 1 .. size /\ net' = net
           \/ /\ phase = "ask" /\ a.kind = "pack_lost_ack" /\ a.total = 0
              /\ phase' = "end" /\ todo' = todo /\ Send(Request("end"))
           \/ /\ phase = "ask" /\ a.kind = "pack_lost_ack" /\ a.total > 0
              /\ phase' = "data" /\ todo' = a.index \cap 1 .. size
              /\ net' = net
           \/ /\ phase = "end" /\ a.kind = "Trans_ack"
              /\ phase' = "done" /\ todo' = todo /\ net' = net
           \/ /\ <<phase, a.kind>> \notin
                     {<<"start", "Trans_ack">>, <<"ask", "pack_lost_ack">>,
                      <<"end", "Trans_ack">>}
              /\ UNCHANGED <<phase, todo, net>>
        /\ misled' = (misled \/ (a.of # id /\ phase' # phase))
        /\ UNCHANGED <<id, size, ftype, link, running, Connect, fileVars,
                       flagVars, cmd, ending, listVars, turnVars, buildVars,
                       askedFor, faults>>

Quiet ==
    /\ net = <<>> /\ answers = <<>> /\ cmd = "idle"
    /\ gGPRS_XMLType = "other" \/ (ReportUp_Sem = 0 /\ rpc = "wait")

\* The server repeats what was not answered: nothing is on its way any more, or
\* it did not wait long enough.
ServerRepeats ==
    /\ phase \in {"start", "ask", "end"}
    /\ IF Quiet THEN UNCHANGED ghostVars ELSE Fault
    /\ Send(Request(CASE phase = "start" -> "start"
                      [] phase = "ask" -> "pack_lost"
                      [] phase = "end" -> "end"))
    /\ UNCHANGED <<serverVars, answers, link, running, Connect, fileVars,
                   flagVars, cmd, ending, listVars, turnVars, buildVars>>

Server == ServerSends \/ ServerReceives \/ ServerRepeats

-----------------------------------------------------------------------------
(* The way between them (external) *)

Lose ==
    /\ Fault
    /\ \/ net # <<>> /\ net' = Tail(net) /\ UNCHANGED answers
       \/ answers # <<>> /\ answers' = Tail(answers) /\ UNCHANGED net
    /\ UNCHANGED <<serverVars, link, running, Connect, fileVars, flagVars, cmd,
                   ending, listVars, turnVars, buildVars>>

\* Bytes of a packet's data are lost in the byte queue or on the serial line.
Damage ==
    /\ Fault
    /\ net # <<>> /\ Head(net).kind = "file_data"
    /\ net' = <<[Head(net) EXCEPT !.whole = FALSE]>> \o Tail(net)
    /\ UNCHANGED <<serverVars, answers, link, running, Connect, fileVars,
                   flagVars, cmd, ending, listVars, turnVars, buildVars>>

\* The manager starts the module anew (Stop of GprsLink) ...
LinkLost ==
    /\ Fault
    /\ link /\ link' = FALSE
    /\ Connect' = FALSE
    /\ net' = <<>> /\ answers' = <<>>
    /\ UNCHANGED <<serverVars, running, fileVars, flagVars, cmd, ending,
                   listVars, turnVars, buildVars>>

\* ... and logs in again (TakeResult of GprsLink).
Login ==
    /\ running /\ ~link
    /\ link' = TRUE
    /\ Connect' = TRUE
    /\ UNCHANGED <<serverVars, net, answers, running, fileVars, flagVars, cmd,
                   ending, listVars, turnVars, buildVars, ghostVars>>

\* The concentrator is started again, after a failure of its power or of the
\* program.
Restart ==
    /\ Fault
    /\ running' = TRUE
    /\ link' = FALSE
    /\ net' = <<>> /\ answers' = <<>>
    /\ FreshMemory
    /\ UNCHANGED <<serverVars, exists, file>>

-----------------------------------------------------------------------------
(* XML_main_proc *)

\* CMD_ReviceXMLData is called for the next document.
Takes(kind) ==
    /\ running /\ cmd = "idle"
    /\ net # <<>> /\ Head(net).kind = kind
    /\ net' = Tail(net)

Missing(s) == gPacketReceiveFlag[s] = 0

\* FILE_TRANS.  The total is taken from every packet.  The last packet may have
\* any length, the others must be whole; a packet that cannot be written as it
\* is (a fault) is not marked, but keeps the mark it has.
FileTrans ==
    LET m == Head(net)
        right == m.seq = m.total \/ (m.seq < m.total /\ m.whole)
        found == IF exists THEN file ELSE [s \in Packets |-> Empty]
    IN  /\ Takes("file_data")
        /\ gPack_total' = m.total
        /\ IF right
           THEN /\ fp' = TRUE /\ exists' = TRUE
                /\ gFileType' = m.type
                /\ \/ /\ file' = [found EXCEPT ![m.seq] =
                                     [of |-> m.of, whole |-> m.whole]]
                      /\ gPacketReceiveFlag' =
                           [gPacketReceiveFlag EXCEPT ![m.seq] = m.of]
                      /\ UNCHANGED ghostVars
                   \/ /\ Fault
                      /\ file' = [found EXCEPT ![m.seq] =
                                     [of |-> m.of, whole |-> FALSE]]
                      /\ gPacketReceiveFlag' =
                           [gPacketReceiveFlag EXCEPT ![m.seq] =
                              IF Missing(m.seq) THEN 0 ELSE Spoilt]
           ELSE UNCHANGED <<fileVars, gPacketReceiveFlag, ghostVars>>
        /\ UNCHANGED <<serverVars, answers, link, running, Connect, carried,
                       cmd, ending, listVars, turnVars, buildVars>>

\* PACK_LOST clears the list first ...
PackLost ==
    /\ Takes("pack_lost")
    /\ cmd' = "list"
    /\ ending' = Head(net)
    /\ pack_lost_index' = {} /\ i' = 1 /\ LackPacket' = 0
    /\ UNCHANGED <<serverVars, answers, link, running, Connect, fileVars,
                   flagVars, pack_lost_total, turnVars, buildVars, ghostVars>>

\* ... then puts the packets without a mark into it, one by one ...
ListPacket ==
    /\ running /\ cmd = "list"
    /\ i <= gPack_total
    /\ Missing(i) => LackPacket <= LackLimit
    /\ i' = i + 1
    /\ IF Missing(i)
       THEN /\ pack_lost_index' = pack_lost_index \cup {i}
            /\ LackPacket' = LackPacket + 1
       ELSE UNCHANGED <<pack_lost_index, LackPacket>>
    /\ UNCHANGED <<serverVars, linkVars, Connect, fileVars, flagVars, cmd,
                   ending, pack_lost_total, turnVars, buildVars, ghostVars>>

\* ... and ends with their number.
ListEnds ==
    /\ running /\ cmd = "list"
    /\ i <= gPack_total => Missing(i) /\ LackPacket > LackLimit
    /\ pack_lost_total' = LackPacket
    /\ cmd' = "turn"
    /\ UNCHANGED <<serverVars, linkVars, Connect, fileVars, flagVars, ending, i,
                   LackPacket, pack_lost_index, turnVars, buildVars, ghostVars>>

\* TRANS_REQ start empties the file.  The marks stay as they are.
TransStart ==
    /\ Takes("start")
    /\ cmd' = "turn"
    /\ ending' = Head(net)
    /\ fp' = TRUE /\ exists' = TRUE /\ file' = [s \in Packets |-> Empty]
    /\ UNCHANGED <<serverVars, answers, link, running, Connect, gFileType,
                   flagVars, listVars, turnVars, buildVars, ghostVars>>

\* TRANS_REQ end removes the marks and closes the file.
TransEnd ==
    /\ Takes("end")
    /\ cmd' = "turn"
    /\ ending' = Head(net)
    /\ gPacketReceiveFlag' = NoMarks
    /\ carried' =
         {s \in Packets : gPacketReceiveFlag[s] \notin {0, Head(net).of}}
    /\ fp' = FALSE
    /\ UNCHANGED <<serverVars, answers, link, running, Connect, exists, file,
                   gFileType, gPack_total, listVars, turnVars, buildVars,
                   ghostVars>>

\* sem_wait(&Xml_Send_Sem), the type, sem_post(&ReportUp_Sem).
TakeTurn ==
    /\ running /\ cmd = "turn"
    /\ Xml_Send_Sem > 0
    /\ Xml_Send_Sem' = Xml_Send_Sem - 1
    /\ gGPRS_XMLType' = IF ending.kind = "pack_lost" THEN "PACK_LOST_ACK"
                        ELSE "TRANS_ACK"
    /\ askedFor' = ending.of
    /\ cmd' = "typed"
    /\ UNCHANGED <<serverVars, linkVars, Connect, fileVars, flagVars, ending,
                   listVars, ReportUp_Sem, buildVars, misled,
                   faults>>

PostReportUp ==
    /\ running /\ cmd = "typed"
    /\ ReportUp_Sem' = ReportUp_Sem + 1
    /\ cmd' = CASE ending.kind = "pack_lost" -> "idle"
                [] ending.kind = "start" -> "connect"
                [] ending.kind = "end" -> "apply"
    /\ UNCHANGED <<serverVars, linkVars, Connect, fileVars, flagVars, ending,
                   listVars, Xml_Send_Sem, gGPRS_XMLType, buildVars, ghostVars>>

\* CMD_TransFile: the file is moved or read and removed.  The addresses of a
\* file that cannot be opened are read all the same, which ends the process.
TransFile ==
    /\ running /\ cmd = "apply"
    /\ cmd' = "connect"
    /\ running' = (exists \/ gFileType # "meteraddress")
    /\ exists' = (exists /\ gFileType = "none")
    /\ UNCHANGED <<serverVars, net, answers, link, Connect, fp, file,
                   gFileType, flagVars, ending, listVars, turnVars, buildVars,
                   ghostVars>>

\* No reports during the transfer, by Connect = FALSE after the answer to its
\* start; TRUE after its end, whatever the link does.
SetConnect ==
    /\ running /\ cmd = "connect"
    /\ Connect' = (ending.kind = "end")
    /\ cmd' = "idle"
    /\ UNCHANGED <<serverVars, linkVars, fileVars, flagVars, ending, listVars,
                   turnVars, buildVars, ghostVars>>

Commander ==
    \/ FileTrans \/ PackLost \/ ListPacket \/ ListEnds
    \/ TransStart \/ TransEnd \/ TakeTurn \/ PostReportUp
    \/ TransFile \/ SetConnect

-----------------------------------------------------------------------------
(* ReportUp_main_proc, and the others that have documents built (Uplink) *)

OtherPosts ==
    /\ running
    /\ Xml_Send_Sem > 0
    /\ Xml_Send_Sem' = Xml_Send_Sem - 1
    /\ ReportUp_Sem' = ReportUp_Sem + 1
    /\ gGPRS_XMLType' = "other"
    /\ UNCHANGED <<serverVars, linkVars, Connect, fileVars, flagVars, cmd,
                   ending, listVars, buildVars, ghostVars>>

ReportUpWait ==
    /\ running /\ rpc = "wait"
    /\ ReportUp_Sem > 0
    /\ ReportUp_Sem' = ReportUp_Sem - 1
    /\ rpc' = "build"
    /\ UNCHANGED <<serverVars, linkVars, Connect, fileVars, flagVars, cmd,
                   ending, listVars, Xml_Send_Sem, gGPRS_XMLType, builtTotal,
                   ghostVars>>

\* makexml prints the number of packets first.
BuildTotal ==
    /\ running /\ rpc = "build"
    /\ builtTotal' = IF gGPRS_XMLType = "PACK_LOST_ACK" THEN pack_lost_total
                     ELSE 0
    /\ rpc' = "index"
    /\ UNCHANGED <<serverVars, linkVars, Connect, fileVars, flagVars, cmd,
                   ending, listVars, turnVars, ghostVars>>

\* What the file holds goes to the server, if there is a link; the turn is free.
BuildIndex ==
    /\ running /\ rpc = "index"
    /\ answers' =
         CASE ~link \/ gGPRS_XMLType = "other" -> answers
           [] link /\ gGPRS_XMLType = "TRANS_ACK" ->
                Append(answers, [kind |-> "Trans_ack", of |-> askedFor])
           [] link /\ gGPRS_XMLType = "PACK_LOST_ACK" ->
                Append(answers, [kind |-> "pack_lost_ack", of |-> askedFor,
                                 total |-> builtTotal,
                                 index |-> pack_lost_index])
    /\ Xml_Send_Sem' = Xml_Send_Sem + 1
    /\ rpc' = "wait"
    /\ builtTotal' = 0
    /\ UNCHANGED <<serverVars, net, link, running, Connect, fileVars, flagVars,
                   cmd, ending, listVars, ReportUp_Sem, gGPRS_XMLType,
                   ghostVars>>

ReportUp == ReportUpWait \/ BuildTotal \/ BuildIndex

-----------------------------------------------------------------------------

TransferNext ==
    \/ \E n \in Sizes, t \in FileTypes : ServerBegins(n, t)
    \/ ServerGivesUp
    \/ Server
    \/ Lose \/ Damage \/ LinkLost \/ Login \/ Restart
    \/ Commander
    \/ OtherPosts
    \/ ReportUp

TransferSpec == TransferInit /\ [][TransferNext]_transferVars

\* The threads run, the turn is handed out so that nobody waits for ever, the
\* manager logs in again, and a server repeats what is not answered.
TransferFairSpec ==
    /\ TransferSpec
    /\ WF_transferVars(Commander) /\ SF_transferVars(TakeTurn)
    /\ WF_transferVars(ReportUp)
    /\ WF_transferVars(Login)
    /\ WF_transferVars(Server)

-----------------------------------------------------------------------------
(* Properties *)

\* Whatever was lost, damaged, repeated or restarted, the file that is executed
\* has every packet of its transfer, and every one but the last (whose length
\* nobody checks) is whole.  Excepted are packets whose mark an earlier
\* transfer left (start does not remove the marks), packets that came again
\* after they were marked and could then not be written, a transfer of which no
\* packet had come when the server asked (the total is then of another one, or
\* 0 after a restart), a repeated end, for which there is no file, and a server
\* that has taken the answer to an abandoned transfer for one to this (answers
\* do not say which).
AppliedWhole ==
    cmd = "apply" /\ exists /\ gFileType # "none" /\ gPack_total = ending.total
        => \/ misled
           \/ \A s \in (1 .. ending.total) \ carried :
                 /\ file[s].of = ending.of
                 /\ s < ending.total => file[s].whole

\* The list that is printed is being made anew for a second question.
ListTorn == gGPRS_XMLType = "PACK_LOST_ACK" /\ rpc = "index" /\ cmd = "list"

\* Reports are not kept from the server for ever: after a transfer Connect
\* becomes TRUE again, whatever was lost, unless the server has given the
\* transfer up (nobody else sets it then), the process has ended, again and
\* again the server is told an empty list by two questions that overlap, the
\* program goes on counting, and asking for, the packets of an earlier transfer,
\* or the server has taken an answer to that one for its own.
ReportsResume ==
    []<>(Connect \/ phase = "gone" \/ ~running \/ ListTorn
                 \/ gPack_total > size \/ misled)
=============================================================================
