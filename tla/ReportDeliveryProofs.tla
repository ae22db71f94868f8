------------------------ MODULE ReportDeliveryProofs ------------------------
(***************************************************************************)
(* What the report delivery keeps for every bound and every capacity of    *)
(* the uplink.                                                             *)
(*                                                                         *)
(* In every environment (late answers, failing packets, links that go down,*)
(* reboots): the turn always has exactly one holder (TurnInv), and every   *)
(* variable its type and every thread what it needs where it stands        *)
(* (TypeInv).                                                              *)
(*                                                                         *)
(* In a calm environment: continuous_data deletes a time only once the     *)
(* server acknowledged its readings (CalmInv: one CONTINUOUS at a time is on*)
(* its way, and the flag is its own); and, if in addition no packet fails  *)
(* and nothing reboots, no time that report_data took on is forgotten      *)
(* (KeptInv: it is stored, on its way, delivered, or in report_data's hand).*)
(***************************************************************************)
EXTENDS ReportDelivery, SequenceTheorems, WellFoundedInduction, TLAPS

\* turn is one of the four stages; with the property itself, inductive.
TurnInv ==
    /\ turn \in {"free", "taken", "asked", "posted"}
    /\ TurnHasHolder

-----------------------------------------------------------------------------
(* The inductive invariants                                                  *)

\* Where the deal thread has a time in lReadingTime.
TimedPcs == {"rConn", "rAsked", "rWait", "rFail", "cHold", "cAsked", "cWait",
             "cDel"}

\* DeliveryTypeOK with what it rests on, by component: which variables are set
\* where, and that the report under way has not stored a row yet.
ServiceTypes ==
    /\ turn \in {"free", "taken", "asked", "posted"}
    /\ asked \in Documents \cup {NoDocument}
    /\ turn \in {"asked", "posted"} => asked \in Documents
    /\ queue \in Seq(Documents) /\ Len(queue) <= Capacity
    /\ out \in Documents \cup {NoDocument}

TimerTypes ==
    /\ reportRow \in Times \cup {NoTime}
    /\ gReadingDate \in Times \cup {NoTime}
    /\ timer \in {"idle", "insert"}
    /\ timer = "insert" => gReadingDate \in Times

RowTypes ==
    /\ reports \in 0 .. MaxReports
    /\ contRows \in [DOMAIN contRows -> Times]
    /\ DOMAIN contRows \subseteq 1 .. reports
    /\ rows \in [DOMAIN rows -> Times]
    /\ DOMAIN rows \subseteq 1 .. reports

DealTypes ==
    /\ pc \in {"idle"} \cup ReportPcs \cup ContPcs \cup LoopPcs
    /\ pc \in LoopPcs <=> DOMAIN rows # {}
    /\ lReadingTime \in Times \cup {NoTime}
    /\ pc \in TimedPcs => lReadingTime \in Times
    /\ pc \in ReportPcs => reports > 0
    /\ pc \in ReportPcs \ {"rDone"} => reports \notin DOMAIN contRows

SharedTypes ==
    /\ gGPRS_XMLType \in {"REPORT", "CONTINUOUS", "NOTIFY"}
    /\ gGPRS_Send_Succ_Flag \in BOOLEAN
    /\ gGPRS_Send_Succ_Sem \in Nat
    /\ Xml_Continuous_Sem \in 0 .. MaxAcks
    /\ acks \in 0 .. MaxAcks

SenderTypes ==
    /\ spc \in {"idle", "send", "test", "set", "next"}
    /\ sent \in 0 .. MaxPackets
    /\ spc = "send" => sent < MaxPackets
    /\ ok \in BOOLEAN

OtherTypes ==
    /\ opc \in {"idle", "hold", "asked"}
    /\ others \in 0 .. MaxOthers
    /\ Connect \in BOOLEAN
    /\ downs \in 0 .. MaxDowns
    /\ reboots \in 0 .. MaxReboots

GhostTypes == reported \subseteq Times /\ delivered \subseteq Times
                  /\ acked \subseteq Times

TypeInv ==
    /\ ServiceTypes /\ TimerTypes /\ RowTypes /\ DealTypes
    /\ SharedTypes /\ SenderTypes /\ OtherTypes /\ GhostTypes

\* Whoever has asked and not posted has asked for its own document.
AskedInv ==
    /\ turn \in {"free", "taken"} => asked = NoDocument
    /\ pc \in {"rRow", "rConn", "cHold"} \/ opc = "hold" => turn = "taken"
    /\ pc = "rAsked" => asked = Report(lReadingTime)
    /\ pc = "cAsked" => asked = Continuous(lReadingTime)
    /\ opc = "asked" => asked = OtherDocument /\ gGPRS_XMLType = "NOTIFY"

\* The CONTINUOUS documents that are posted: built, or yet to be built.
ContQueued == {n \in DOMAIN queue : queue[n].type = "CONTINUOUS"}
ContPosted == turn = "posted" /\ asked.type = "CONTINUOUS"

\* In the calm, at most one CONTINUOUS or its acknowledgement is on its way,
\* and only while continuous_data waits for it.
AckInv ==
    /\ \A m, n \in ContQueued : m = n
    /\ ContPosted => ContQueued = {} /\ asked.time = lReadingTime
    /\ \A n \in ContQueued : queue[n].time = lReadingTime
    /\ acks + Xml_Continuous_Sem <= 1
    /\ acks + Xml_Continuous_Sem = 1 =>
           ~ContPosted /\ ContQueued = {} /\ lReadingTime \in acked
    /\ pc # "cWait" =>
           ~ContPosted /\ ContQueued = {} /\ acks = 0 /\ Xml_Continuous_Sem = 0

\* In the calm, the flag by which continuous_data deletes is its own.
FlagInv ==
    /\ pc \in {"cAsked", "cWait", "cDel"} => gGPRS_XMLType # "REPORT"
    /\ pc = "cDel" /\ lReadingTime \notin acked =>
           ~gGPRS_Send_Succ_Flag /\ spc # "set"

\* In the calm, the sender does not touch the flag while report_data has not
\* asked yet or has given up.
QuietInv ==
    pc \in {"rWant", "rRow", "rConn", "rFail"} =>
        /\ spc # "set"
        /\ gGPRS_XMLType = "REPORT" =>
               turn # "posted" /\ queue = <<>> /\ spc = "idle"

CalmInv == TypeInv /\ TurnInv /\ AskedInv /\ AckInv /\ FlagInv /\ QuietInv

ReportOnItsWay(t) == asked = Report(t) \/ Report(t) \in Range(queue)

\* Where report_data has a time that may be kept nowhere else.
HoldingPcs == {"rConn", "rAsked", "rWait", "rFail"}

\* If no packet fails and nothing reboots, a report that was asked for arrives,
\* and one that was not is stored.
KeptInv ==
    /\ ok
    /\ acked \subseteq delivered
    /\ \A t \in reported :
          \/ t \in delivered
          \/ t \in Range(contRows)
          \/ ReportOnItsWay(t)
          \/ pc \in HoldingPcs /\ lReadingTime = t
    /\ pc = "rWait" \/ (pc = "rFail" /\ gGPRS_Send_Succ_Flag) =>
          lReadingTime \in delivered \/ ReportOnItsWay(lReadingTime)

-----------------------------------------------------------------------------
(* Types                                                                     *)

\* A set of rowids has a smallest.
LEMMA OldestIsRow ==
    ASSUME NEW table, DOMAIN table \subseteq Nat, DOMAIN table # {}
    PROVE  Oldest(table) \in DOMAIN table
<1> DEFINE S == DOMAIN table
           Less == OpToRel(<, Nat)
<1>1. \A m, n \in Nat : m < n => <<m, n>> \in Less
  BY DEF OpToRel
<1>2. IsWellFoundedOn(Less, Nat)
  BY NatLessThanWellFounded
<1> HIDE DEF Less, S
<1>3. PICK k \in S : \A m \in S : ~(<<m, k>> \in Less)
  BY <1>2, WFMin DEF S
<1>4. \A m \in S : k <= m
  <2>1. ASSUME NEW m \in S PROVE k <= m
    <3>1. m \in Nat /\ k \in Nat
      BY DEF S
    <3>2. ~(m < k)
      BY <1>1, <1>3, <3>1, Zenon
    <3> QED
      BY <3>1, <3>2, SMT
  <2> QED
    BY <2>1
<1> QED
  BY <1>3, <1>4 DEF Oldest, Min, S

\* What inserting, deleting and going on to the next row make of a table.
LEMMA TablesStayTables ==
    ASSUME NEW table, table \in [DOMAIN table -> Times],
           DOMAIN table \subseteq 1 .. reports, reports \in Nat
    PROVE  /\ \A t \in Times : reports > 0 =>
                 /\ Inserted(table, t) \in [DOMAIN Inserted(table, t) -> Times]
                 /\ DOMAIN Inserted(table, t) = DOMAIN table \cup {reports}
           /\ \A t \in Times :
                 /\ Deleted(table, t) \in [DOMAIN Deleted(table, t) -> Times]
                 /\ DOMAIN Deleted(table, t) \subseteq DOMAIN table
           /\ Remaining(table) \in [DOMAIN Remaining(table) -> Times]
           /\ DOMAIN Remaining(table) \subseteq DOMAIN table
           /\ DOMAIN table # {} => table[Oldest(table)] \in Times
<1>1. DOMAIN table \subseteq Nat
  BY SMT
<1>2. DOMAIN table # {} => table[Oldest(table)] \in Times
  BY <1>1, OldestIsRow
<1> QED
  BY <1>2 DEF Inserted, Deleted, Remaining, Restrict

USE DEF serviceVars, tableVars, timerVars, dealVars, flagVars, senderVars,
        otherVars, linkVars, ghostVars, deliveryVars

\* The bounds are numbers, and no round has the number that stands for no time.
LEMMA Bounds ==
    /\ MaxTime \in Nat /\ MaxReports \in Nat /\ MaxOthers \in Nat
    /\ MaxAcks \in Nat /\ MaxDowns \in Nat /\ MaxReboots \in Nat
    /\ MaxPackets \in Nat /\ MaxPackets > 0 /\ Capacity \in Nat
    /\ NoTime \notin Times
BY DeliveryBounds DEF Times, NoTime

\* The empty table is a table.
LEMMA NoRowsIsTable ==
    NoRows \in [DOMAIN NoRows -> Times] /\ DOMAIN NoRows = {}
BY DEF NoRows

\* The stronger types give the ones the runs check.
LEMMA TypeInvImplies == TypeInv => DeliveryTypeOK
BY DEF TypeInv, DeliveryTypeOK, ServiceTypes, TimerTypes, RowTypes, DealTypes,
       SharedTypes, SenderTypes, OtherTypes, GhostTypes

LEMMA TypeInit == DeliveryInit => TypeInv
<1> SUFFICES ASSUME DeliveryInit PROVE TypeInv
  OBVIOUS
<1> USE Bounds DEF DeliveryInit
<1>1. <<>> \in Seq(Documents) /\ Len(<<>>) <= Capacity
  BY SMT
<1>2. ServiceTypes
  BY <1>1 DEF ServiceInit, Init, ServiceTypes
<1>3. TimerTypes
  BY DEF TimerTypes
<1>4. RowTypes
  BY NoRowsIsTable DEF RowTypes
<1>5. DealTypes
  BY NoRowsIsTable DEF DealTypes, ReportPcs, LoopPcs, TimedPcs
<1>6. SharedTypes
  <2>1. gGPRS_Send_Succ_Flag \in BOOLEAN
    BY Zenon
  <2>2. Xml_Continuous_Sem \in 0 .. MaxAcks /\ acks \in 0 .. MaxAcks
    BY SMT
  <2> QED
    BY <2>1, <2>2 DEF SharedTypes
<1>7. SenderTypes
  BY DEF SenderTypes
<1>8. OtherTypes
  <2>1. Connect \in BOOLEAN
    BY Zenon
  <2>2. /\ others \in 0 .. MaxOthers /\ downs \in 0 .. MaxDowns
        /\ reboots \in 0 .. MaxReboots
    BY SMT
  <2> QED
    BY <2>1, <2>2 DEF OtherTypes
<1>9. GhostTypes
  BY DEF GhostTypes
<1> QED
  BY <1>2, <1>3, <1>4, <1>5, <1>6, <1>7, <1>8, <1>9 DEF TypeInv

\* Steps of the uplink: the queue never holds more than it has room for.
LEMMA ServiceTypeStep ==
    ASSUME TypeInv, [DeliveryNext]_deliveryVars
    PROVE  ServiceTypes'
<1> USE Bounds DEF TypeInv, ServiceTypes, DealTypes, TimedPcs
<1>1. CASE ReportTake
  BY <1>1 DEF ReportTake, Take
<1>2. CASE ReportNoRow
  BY <1>2 DEF ReportNoRow, Withdraw
<1>3. CASE ReportOffline
  BY <1>3 DEF ReportOffline, Withdraw
<1>4. CASE ReportAsk
  BY <1>4, DeliveryDocuments DEF ReportAsk, Ask, Report
<1>5. CASE ReportPost
  BY <1>5 DEF ReportPost, Post
<1>6. CASE ContTake
  BY <1>6, TablesStayTables DEF ContTake, Take
<1>7. CASE ContAsk
  BY <1>7, DeliveryDocuments DEF ContAsk, Ask, Continuous
<1>8. CASE ContOffline
  BY <1>8, NoRowsIsTable DEF ContOffline, Withdraw
<1>9. CASE ContPost
  BY <1>9 DEF ContPost, Post
<1>10. CASE OtherTake
  BY <1>10 DEF OtherTake, Take
<1>11. CASE OtherAsk
  BY <1>11, DeliveryDocuments DEF OtherAsk, Ask
<1>12. CASE OtherPost
  BY <1>12 DEF OtherPost, Post
<1>13. CASE BuildDocument
  BY <1>13, AppendProperties DEF BuildDocument, Build, Put
<1>14. CASE OpenFile
  BY <1>14, HeadTailProperties DEF OpenFile, Look
<1>15. CASE LeaveFile
  BY <1>15, HeadTailProperties DEF LeaveFile, Remove
<1>16. CASE Reboot
  BY <1>16, NoRowsIsTable DEF Reboot
<1>17. CASE UNCHANGED <<turn, asked, queue, out>>
  BY <1>17
<1> QED
  BY <1>1, <1>2, <1>3, <1>4, <1>5, <1>6, <1>7, <1>8, <1>9, <1>10, <1>11, <1>12,
     <1>13, <1>14, <1>15, <1>16, <1>17 DEF DeliveryNext, DealNext, SenderNext,
     DeleteReportRow, InsertReportRow, StartReport, StartContinuous, ReportRow,
     ReportSucceeds, ReportTimesOut, ReportStore, AfterReport, ContGate,
     ContSelect, ContAcked, ContTimesOut, ContDelete, Transmit, NotifyTest,
     NotifySet, NextPacket, AckArrives, ConnectDown, ConnectUp

\* The timer inserts the time it was given.
LEMMA TimerTypeStep ==
    ASSUME TypeInv, [DeliveryNext]_deliveryVars
    PROVE  TimerTypes'
<1> USE Bounds DEF TypeInv, TimerTypes
<1>1. CASE DeleteReportRow
  BY <1>1 DEF DeleteReportRow, Times, NoTime
<1>2. CASE InsertReportRow
  BY <1>2 DEF InsertReportRow
<1>3. CASE ContDelete
  BY <1>3, TablesStayTables DEF ContDelete
<1>4. CASE Reboot
  BY <1>4, NoRowsIsTable DEF Reboot
<1>5. CASE UNCHANGED <<reportRow, gReadingDate, timer>>
  BY <1>5
<1> QED
  BY <1>1, <1>2, <1>3, <1>4, <1>5 DEF DeliveryNext, DealNext, SenderNext,
     StartReport, StartContinuous, ReportTake, ReportNoRow, ReportRow,
     ReportOffline, ReportAsk, ReportPost, ReportSucceeds, ReportTimesOut,
     ReportStore, AfterReport, ContGate, ContSelect, ContTake, ContAsk,
     ContOffline, ContPost, ContAcked, ContTimesOut, OtherTake, OtherAsk,
     OtherPost, BuildDocument, OpenFile, Transmit, NotifyTest, NotifySet,
     NextPacket, LeaveFile, AckArrives, ConnectDown, ConnectUp, Ask, Build,
     Look, Post, Put, Remove, Take, Withdraw

\* Rows come from reports, one each.
LEMMA RowTypeStep ==
    ASSUME TypeInv, [DeliveryNext]_deliveryVars
    PROVE  RowTypes'
<1> USE Bounds DEF TypeInv, RowTypes, DealTypes, ReportPcs
<1>1. CASE StartReport
  BY <1>1 DEF StartReport
<1>2. CASE ReportStore
  <2>1. pc = "rFail" /\ lReadingTime \in Times /\ reports > 0
    BY <1>2 DEF ReportStore, TimedPcs
  <2>2. CASE gGPRS_Send_Succ_Flag
    BY <1>2, <2>2 DEF ReportStore
  <2>3. CASE ~gGPRS_Send_Succ_Flag
    <3>1. /\ contRows' \in [DOMAIN contRows' -> Times]
          /\ DOMAIN contRows' = DOMAIN contRows \cup {reports}
      BY <1>2, <2>1, <2>3, TablesStayTables DEF ReportStore
    <3> QED
      BY <1>2, <2>1, <3>1 DEF ReportStore
  <2> QED
    BY <2>2, <2>3
<1>3. CASE ContSelect
  BY <1>3 DEF ContSelect
<1>4. CASE ContOffline
  BY <1>4, NoRowsIsTable DEF ContOffline, Withdraw
<1>5. CASE ContDelete
  <2>1. pc = "cDel" /\ lReadingTime \in Times
    BY <1>5 DEF ContDelete, TimedPcs
  <2>2. reports \in Nat
    BY SMT
  <2>3. /\ Deleted(contRows, lReadingTime)
              \in [DOMAIN Deleted(contRows, lReadingTime) -> Times]
        /\ DOMAIN Deleted(contRows, lReadingTime) \subseteq DOMAIN contRows
    BY <2>1, <2>2, TablesStayTables
  <2>4. /\ contRows' \in [DOMAIN contRows' -> Times]
        /\ DOMAIN contRows' \subseteq DOMAIN contRows
    BY <1>5, <2>3 DEF ContDelete
  <2>5. /\ Remaining(rows) \in [DOMAIN Remaining(rows) -> Times]
        /\ DOMAIN Remaining(rows) \subseteq DOMAIN rows
    BY <2>2, TablesStayTables
  <2>6. rows' = Remaining(rows) /\ reports' = reports
    BY <1>5 DEF ContDelete
  <2> QED
    BY <2>4, <2>5, <2>6
<1>6. CASE Reboot
  BY <1>6, NoRowsIsTable DEF Reboot
<1>7. CASE UNCHANGED <<reports, contRows, rows>>
  BY <1>7
<1> QED
  BY <1>1, <1>2, <1>3, <1>4, <1>5, <1>6, <1>7 DEF DeliveryNext, DealNext,
     SenderNext, DeleteReportRow, InsertReportRow, StartContinuous, ReportTake,
     ReportNoRow, ReportRow, ReportOffline, ReportAsk, ReportPost,
     ReportSucceeds, ReportTimesOut, AfterReport, ContGate, ContTake, ContAsk,
     ContPost, ContAcked, ContTimesOut, OtherTake, OtherAsk, OtherPost,
     BuildDocument, OpenFile, Transmit, NotifyTest, NotifySet, NextPacket,
     LeaveFile, AckArrives, ConnectDown, ConnectUp, Ask, Build, Look, Post,
     Put, Remove, Take, Withdraw

\* The semaphores never go below zero: who takes one has found it posted.
LEMMA SharedTypeStep ==
    ASSUME TypeInv, [DeliveryNext]_deliveryVars
    PROVE  SharedTypes'
<1> USE Bounds DEF TypeInv, SharedTypes
<1>1. CASE ReportOffline
  BY <1>1 DEF ReportOffline, Withdraw
<1>2. CASE ReportAsk
  BY <1>2 DEF ReportAsk, Ask, Report
<1>3. CASE ReportSucceeds
  BY <1>3 DEF ReportSucceeds
<1>4. CASE ContGate
  BY <1>4 DEF ContGate
<1>5. CASE ContAsk
  BY <1>5 DEF ContAsk, Ask, Continuous
<1>6. CASE ContOffline
  BY <1>6, NoRowsIsTable DEF ContOffline, Withdraw
<1>7. CASE ContAcked
  BY <1>7 DEF ContAcked
<1>8. CASE ContTimesOut
  BY <1>8 DEF ContTimesOut
<1>9. CASE OtherAsk
  BY <1>9 DEF OtherAsk, Ask
<1>10. CASE NotifySet
  BY <1>10 DEF NotifySet, SenderTypes
<1>11. CASE LeaveFile
  BY <1>11 DEF LeaveFile, Remove
<1>12. CASE AckArrives
  BY <1>12 DEF AckArrives
<1>13. CASE Reboot
  <2>1. gGPRS_Send_Succ_Flag' \in BOOLEAN
    BY <1>13, Zenon DEF Reboot
  <2>2. Xml_Continuous_Sem' \in 0 .. MaxAcks /\ acks' \in 0 .. MaxAcks
    BY <1>13, SMT DEF Reboot
  <2> QED
    BY <1>13, <2>1, <2>2 DEF Reboot
<1>14. CASE UNCHANGED <<gGPRS_XMLType, flagVars, acks>>
  BY <1>14
<1> QED
  BY <1>1, <1>2, <1>3, <1>4, <1>5, <1>6, <1>7, <1>8, <1>9, <1>10, <1>11, <1>12,
     <1>13, <1>14 DEF DeliveryNext, DealNext, SenderNext, DeleteReportRow,
     InsertReportRow, StartReport, StartContinuous, ReportTake, ReportNoRow,
     ReportRow, ReportPost, ReportTimesOut, ReportStore, AfterReport,
     ContSelect, ContTake, ContPost, ContDelete, OtherTake, OtherPost,
     BuildDocument, OpenFile, Transmit, NotifyTest, NextPacket, ConnectDown,
     ConnectUp, Build, Look, Post, Put, Take, Withdraw

\* The sender stops at the last packet of a document.
LEMMA SenderTypeStep ==
    ASSUME TypeInv, [DeliveryNext]_deliveryVars
    PROVE  SenderTypes'
<1> USE Bounds DEF TypeInv, SenderTypes
<1>1. CASE OpenFile
  BY <1>1 DEF OpenFile, Look
<1>2. CASE Transmit
  <2>1. ok' \in BOOLEAN
    BY <1>2, DeliveryBounds, Zenon DEF Transmit
  <2> QED
    BY <1>2, <2>1 DEF Transmit
<1>3. CASE NotifyTest
  BY <1>3 DEF NotifyTest
<1>4. CASE NotifySet
  BY <1>4 DEF NotifySet
<1>5. CASE NextPacket
  BY <1>5 DEF NextPacket
<1>6. CASE LeaveFile
  BY <1>6 DEF LeaveFile, Remove
<1>7. CASE Reboot
  BY <1>7, NoRowsIsTable DEF Reboot
<1>8. CASE UNCHANGED senderVars
  BY <1>8
<1> QED
  BY <1>1, <1>2, <1>3, <1>4, <1>5, <1>6, <1>7, <1>8 DEF DeliveryNext, DealNext,
     SenderNext, DeleteReportRow, InsertReportRow, StartReport,
     StartContinuous, ReportTake, ReportNoRow, ReportRow, ReportOffline,
     ReportAsk, ReportPost, ReportSucceeds, ReportTimesOut, ReportStore,
     AfterReport, ContGate, ContSelect, ContTake, ContAsk, ContOffline,
     ContPost, ContAcked, ContTimesOut, ContDelete, OtherTake, OtherAsk,
     OtherPost, BuildDocument, AckArrives, ConnectDown, ConnectUp, Ask, Build,
     Post, Put, Take, Withdraw

\* The other threads, and the link.
LEMMA OtherTypeStep ==
    ASSUME TypeInv, [DeliveryNext]_deliveryVars
    PROVE  OtherTypes'
<1> USE Bounds DEF TypeInv, OtherTypes
<1>1. CASE OtherTake
  BY <1>1 DEF OtherTake, Take
<1>2. CASE OtherAsk
  BY <1>2 DEF OtherAsk, Ask
<1>3. CASE OtherPost
  BY <1>3 DEF OtherPost, Post
<1>4. CASE ConnectDown
  <2>1. downs' \in 0 .. MaxDowns
    BY <1>4, SMT DEF ConnectDown
  <2> QED
    BY <1>4, <2>1 DEF ConnectDown
<1>5. CASE ConnectUp
  BY <1>5 DEF ConnectUp
<1>6. CASE Reboot
  <2>1. reboots' \in 0 .. MaxReboots
    BY <1>6, SMT DEF Reboot
  <2> QED
    BY <1>6, <2>1 DEF Reboot
<1>7. CASE UNCHANGED <<otherVars, linkVars>>
  BY <1>7
<1> QED
  BY <1>1, <1>2, <1>3, <1>4, <1>5, <1>6, <1>7 DEF DeliveryNext, DealNext,
     SenderNext, DeleteReportRow, InsertReportRow, StartReport,
     StartContinuous, ReportTake, ReportNoRow, ReportRow, ReportOffline,
     ReportAsk, ReportPost, ReportSucceeds, ReportTimesOut, ReportStore,
     AfterReport, ContGate, ContSelect, ContTake, ContAsk, ContOffline,
     ContPost, ContAcked, ContTimesOut, ContDelete, BuildDocument, OpenFile,
     Transmit, NotifyTest, NotifySet, NextPacket, LeaveFile, AckArrives, Ask,
     Build, Look, Post, Put, Remove, Take, Withdraw

\* What is reported, delivered and acknowledged are times of rounds.
LEMMA GhostTypeStep ==
    ASSUME TypeInv, [DeliveryNext]_deliveryVars
    PROVE  GhostTypes'
<1> USE Bounds DEF TypeInv, GhostTypes, TimerTypes, ServiceTypes
<1>1. CASE ReportRow
  BY <1>1 DEF ReportRow
<1>2. CASE LeaveFile
  <2>1. out \in Documents
    BY <1>2, HeadTailProperties DEF LeaveFile, Remove
  <2>2. out.time \in Times \cup {NoTime}
    BY <2>1, DeliveryDocuments DEF OtherDocument
  <2>3. out.type = "CONTINUOUS" => out.time \in Times
    BY <2>1, DeliveryDocuments DEF OtherDocument
  <2> QED
    BY <1>2, <2>2, <2>3 DEF LeaveFile
<1>3. CASE UNCHANGED ghostVars
  BY <1>3
<1> QED
  BY <1>1, <1>2, <1>3 DEF DeliveryNext, DealNext, SenderNext, DeleteReportRow,
     InsertReportRow, StartReport, StartContinuous, ReportTake, ReportNoRow,
     ReportOffline, ReportAsk, ReportPost, ReportSucceeds, ReportTimesOut,
     ReportStore, AfterReport, ContGate, ContSelect, ContTake, ContAsk,
     ContOffline, ContPost, ContAcked, ContTimesOut, ContDelete, OtherTake,
     OtherAsk, OtherPost, BuildDocument, OpenFile, Transmit, NotifyTest,
     NotifySet, NextPacket, AckArrives, ConnectDown, ConnectUp, Reboot, Ask,
     Build, Look, Post, Put, Take, Withdraw

\* In the loop there is a row to send; a thread that uses its time has one.
LEMMA DealTypeStep ==
    ASSUME TypeInv, [DeliveryNext]_deliveryVars
    PROVE  DealTypes'
<1> USE Bounds
    DEF TypeInv, DealTypes, RowTypes, ReportPcs, ContPcs, LoopPcs, TimedPcs
<1>1. CASE ReportTake
  BY <1>1 DEF ReportTake, Take
<1>2. CASE ReportNoRow
  BY <1>2 DEF ReportNoRow, Withdraw
<1>3. CASE ReportRow
  <2>1. lReadingTime' \in Times
    BY <1>3 DEF ReportRow, TimerTypes
  <2> QED
    BY <1>3, <2>1 DEF ReportRow
<1>4. CASE ReportOffline
  BY <1>4 DEF ReportOffline, Withdraw
<1>5. CASE ReportAsk
  BY <1>5 DEF ReportAsk, Ask, Report
<1>6. CASE ReportPost
  BY <1>6 DEF ReportPost, Post
<1>7. CASE ReportSucceeds
  BY <1>7 DEF ReportSucceeds
<1>8. CASE ReportTimesOut
  BY <1>8 DEF ReportTimesOut
<1>9. CASE ReportStore
  BY <1>9, TablesStayTables DEF ReportStore
<1>10. CASE AfterReport
  BY <1>10 DEF AfterReport
<1>11. CASE ContGate
  BY <1>11 DEF ContGate
<1>12. CASE ContSelect
  BY <1>12 DEF ContSelect
<1>13. CASE ContTake
  <2>1. reports \in Nat /\ DOMAIN rows # {}
    BY <1>13, SMT DEF ContTake
  <2>2. rows[Oldest(rows)] \in Times
    BY <2>1, TablesStayTables
  <2>3. lReadingTime' \in Times
    BY <1>13, <2>2 DEF ContTake
  <2> QED
    BY <1>13, <2>3 DEF ContTake
<1>14. CASE ContAsk
  BY <1>14 DEF ContAsk, Ask, Continuous
<1>15. CASE ContOffline
  BY <1>15, NoRowsIsTable DEF ContOffline, Withdraw
<1>16. CASE ContPost
  BY <1>16 DEF ContPost, Post
<1>17. CASE ContAcked
  BY <1>17 DEF ContAcked
<1>18. CASE ContTimesOut
  BY <1>18 DEF ContTimesOut
<1>19. CASE ContDelete
  BY <1>19, TablesStayTables DEF ContDelete
<1>20. CASE StartReport
  BY <1>20 DEF StartReport
<1>21. CASE StartContinuous
  BY <1>21 DEF StartContinuous
<1>22. CASE Reboot
  BY <1>22, NoRowsIsTable DEF Reboot
<1>23. CASE UNCHANGED dealVars /\ DOMAIN contRows' \subseteq DOMAIN contRows
  BY <1>23
<1> QED
  BY <1>1, <1>2, <1>3, <1>4, <1>5, <1>6, <1>7, <1>8, <1>9, <1>10, <1>11, <1>12,
     <1>13, <1>14, <1>15, <1>16, <1>17, <1>18, <1>19, <1>20, <1>21, <1>22,
     <1>23 DEF DeliveryNext, DealNext, SenderNext, DeleteReportRow,
     InsertReportRow, OtherTake, OtherAsk, OtherPost, BuildDocument, OpenFile,
     Transmit, NotifyTest, NotifySet, NextPacket, LeaveFile, AckArrives,
     ConnectDown, ConnectUp, Ask, Build, Look, Post, Put, Remove, Take

LEMMA TypeStep == TypeInv /\ [DeliveryNext]_deliveryVars => TypeInv'
BY ServiceTypeStep, TimerTypeStep, RowTypeStep, DealTypeStep, SharedTypeStep,
   SenderTypeStep, OtherTypeStep, GhostTypeStep DEF TypeInv

LEMMA TurnInvInit == DeliveryInit => TurnInv
BY DEF DeliveryInit, ServiceInit, TurnInv, TurnHasHolder, DealHolds,
       OtherHolds

\* Steps that leave the turn and its holders alone.
LEMMA TurnInvQuiet ==
    ASSUME TurnInv, UNCHANGED <<turn, opc>>, DealHolds' <=> DealHolds
    PROVE  TurnInv'
BY DEF TurnInv, TurnHasHolder, OtherHolds

\* Every step of report_data.
LEMMA TurnInvReport ==
    ASSUME TurnInv,
           \/ ReportTake \/ ReportNoRow \/ ReportRow \/ ReportOffline
           \/ ReportAsk \/ ReportPost \/ ReportSucceeds \/ ReportTimesOut
           \/ ReportStore \/ AfterReport
    PROVE  TurnInv'
<1>. USE DEF TurnInv, TurnHasHolder, DealHolds, OtherHolds, otherVars,
             serviceVars
<1>1. CASE ReportTake BY <1>1 DEF ReportTake, Take
<1>2. CASE ReportNoRow BY <1>2 DEF ReportNoRow, Withdraw
<1>3. CASE ReportRow BY <1>3 DEF ReportRow
<1>4. CASE ReportOffline BY <1>4 DEF ReportOffline, Withdraw
<1>5. CASE ReportAsk BY <1>5 DEF ReportAsk, Ask
<1>6. CASE ReportPost BY <1>6 DEF ReportPost, Post
<1>7. CASE ReportSucceeds BY <1>7 DEF ReportSucceeds
<1>8. CASE ReportTimesOut BY <1>8 DEF ReportTimesOut
<1>9. CASE ReportStore BY <1>9 DEF ReportStore
<1>10. CASE AfterReport BY <1>10 DEF AfterReport
<1>. QED BY <1>1, <1>2, <1>3, <1>4, <1>5, <1>6, <1>7, <1>8, <1>9, <1>10

\* Every step of continuous_data.
LEMMA TurnInvContinuous ==
    ASSUME TurnInv,
           \/ ContGate \/ ContSelect \/ ContTake \/ ContAsk \/ ContOffline
           \/ ContPost \/ ContAcked \/ ContTimesOut \/ ContDelete
    PROVE  TurnInv'
<1>. USE DEF TurnInv, TurnHasHolder, DealHolds, OtherHolds, otherVars,
             serviceVars
<1>1. CASE ContGate BY <1>1 DEF ContGate
<1>2. CASE ContSelect BY <1>2 DEF ContSelect
<1>3. CASE ContTake BY <1>3 DEF ContTake, Take
<1>4. CASE ContAsk BY <1>4 DEF ContAsk, Ask
<1>5. CASE ContOffline BY <1>5 DEF ContOffline, Withdraw
<1>6. CASE ContPost BY <1>6 DEF ContPost, Post
<1>7. CASE ContAcked BY <1>7 DEF ContAcked
<1>8. CASE ContTimesOut BY <1>8 DEF ContTimesOut
<1>9. CASE ContDelete BY <1>9 DEF ContDelete
<1>. QED BY <1>1, <1>2, <1>3, <1>4, <1>5, <1>6, <1>7, <1>8, <1>9

\* The steps of all the others.
LEMMA TurnInvOthers ==
    ASSUME TurnInv,
           \/ DeleteReportRow \/ InsertReportRow
           \/ StartReport \/ StartContinuous
           \/ OtherTake \/ OtherAsk \/ OtherPost
           \/ BuildDocument \/ SenderNext \/ AckArrives
           \/ ConnectDown \/ ConnectUp \/ Reboot
    PROVE  TurnInv'
<1>1. CASE DeleteReportRow \/ InsertReportRow \/ AckArrives
           \/ ConnectDown \/ ConnectUp
  BY <1>1, TurnInvQuiet
     DEF DeleteReportRow, InsertReportRow, AckArrives, ConnectDown, ConnectUp,
         DealHolds, dealVars, otherVars, serviceVars
<1>2. CASE StartReport \/ StartContinuous
  BY <1>2, TurnInvQuiet
     DEF StartReport, StartContinuous, DealHolds, otherVars, serviceVars
<1>3. CASE SenderNext
  BY <1>3, TurnInvQuiet
     DEF SenderNext, OpenFile, Transmit, NotifyTest, NotifySet, NextPacket,
         LeaveFile, DealHolds, dealVars, otherVars, serviceVars
<1>4. CASE OtherTake
  BY <1>4 DEF OtherTake, Take, TurnInv, TurnHasHolder, DealHolds, OtherHolds,
              dealVars
<1>5. CASE OtherAsk
  BY <1>5 DEF OtherAsk, Ask, TurnInv, TurnHasHolder, DealHolds, OtherHolds,
              dealVars
<1>6. CASE OtherPost
  BY <1>6 DEF OtherPost, Post, TurnInv, TurnHasHolder, DealHolds, OtherHolds,
              dealVars
<1>7. CASE BuildDocument
  BY <1>7 DEF BuildDocument, Build, TurnInv, TurnHasHolder, DealHolds,
              OtherHolds, dealVars, otherVars
<1>8. CASE Reboot
  BY <1>8 DEF Reboot, TurnInv, TurnHasHolder, DealHolds, OtherHolds
<1>. QED BY <1>1, <1>2, <1>3, <1>4, <1>5, <1>6, <1>7, <1>8

LEMMA TurnInvNext == TurnInv /\ [DeliveryNext]_deliveryVars => TurnInv'
<1>. SUFFICES ASSUME TurnInv, [DeliveryNext]_deliveryVars PROVE TurnInv'
  OBVIOUS
<1>1. CASE DeliveryNext
  BY <1>1, TurnInvReport, TurnInvContinuous, TurnInvOthers
     DEF DeliveryNext, DealNext
<1>2. CASE UNCHANGED deliveryVars
  BY <1>2, TurnInvQuiet
     DEF deliveryVars, serviceVars, dealVars, otherVars, DealHolds
<1>. QED BY <1>1, <1>2

-----------------------------------------------------------------------------
(* The calm environment                                                      *)

\* Building takes the document asked for to the end of the queue ...
LEMMA QueueAfterBuild ==
    ASSUME TypeInv, BuildDocument
    PROVE  /\ turn = "posted" /\ turn' = "free" /\ asked' = NoDocument
           /\ Len(queue) \in Nat
           /\ DOMAIN queue = 1 .. Len(queue)
           /\ DOMAIN queue' = 1 .. Len(queue) + 1
           /\ queue'[Len(queue) + 1] = asked
           /\ \A n \in DOMAIN queue : queue'[n] = queue[n]
           /\ UNCHANGED <<tableVars, timerVars, dealVars, flagVars,
                          gGPRS_XMLType, senderVars, otherVars, acks, linkVars,
                          ghostVars>>
<1>1. asked \in Documents /\ queue \in Seq(Documents)
  BY DEF BuildDocument, Build, TypeInv, ServiceTypes
<1>2. queue' = Append(queue, asked)
  BY DEF BuildDocument, Build, Put
<1>3. queue' \in Seq(Documents) /\ Len(queue') = Len(queue) + 1
  BY <1>1, <1>2, AppendProperties
<1> QED
  BY <1>1, <1>2, <1>3, AppendProperties, LenProperties DEF BuildDocument, Build

\* ... and the sender takes the first one out, and shifts the others.
LEMMA QueueAfterLeave ==
    ASSUME TypeInv, LeaveFile
    PROVE  /\ 1 \in DOMAIN queue /\ queue[1] = out /\ out \in Documents
           /\ \A n \in DOMAIN queue' : /\ n + 1 \in DOMAIN queue
                                       /\ queue'[n] = queue[n + 1]
           /\ \A n \in DOMAIN queue : n # 1 => /\ n - 1 \in DOMAIN queue'
                                               /\ queue'[n - 1] = queue[n]
           /\ DOMAIN queue \subseteq Nat /\ DOMAIN queue' \subseteq Nat
<1>1. queue \in Seq(Documents) /\ queue # <<>> /\ out = Head(queue)
  BY DEF LeaveFile, Remove, TypeInv, ServiceTypes
<1>2. queue' = Tail(queue)
  BY DEF LeaveFile, Remove
<1>3. Len(queue) \in Nat /\ Len(queue) > 0
  BY <1>1, EmptySeq, LenProperties, SMT
<1>4. /\ queue' \in Seq(Documents) /\ Len(queue') = Len(queue) - 1
      /\ \A n \in 1 .. Len(queue') : queue'[n] = queue[n + 1]
  BY <1>1, <1>2, HeadTailProperties
<1>5. DOMAIN queue = 1 .. Len(queue) /\ DOMAIN queue' = 1 .. Len(queue')
  BY <1>1, <1>4, LenProperties
<1>6. queue[1] = out /\ out \in Documents
  BY <1>1, HeadTailProperties
<1>7. 1 \in DOMAIN queue
  BY <1>3, <1>5, SMT
<1>8. ASSUME NEW n \in DOMAIN queue' PROVE n + 1 \in DOMAIN queue
  BY <1>3, <1>4, <1>5, <1>8, SMT
<1>9. ASSUME NEW n \in DOMAIN queue, n # 1
      PROVE  n - 1 \in DOMAIN queue' /\ queue'[n - 1] = queue[n]
  <2>1. n \in Nat /\ n - 1 \in 1 .. Len(queue') /\ (n - 1) + 1 = n
    BY <1>3, <1>4, <1>5, <1>9, SMT
  <2> QED
    BY <1>4, <1>5, <2>1
<1> QED
  BY <1>4, <1>5, <1>6, <1>7, <1>8, <1>9, SMT

\* Only its holder changes what is asked for.
LEMMA AskedStep ==
    ASSUME TurnInv, AskedInv, [DeliveryNext]_deliveryVars
    PROVE  AskedInv'
<1> USE DEF AskedInv, TurnInv, TurnHasHolder, DealHolds, OtherHolds
<1>1. CASE ReportTake
  BY <1>1 DEF ReportTake, Take
<1>2. CASE ReportNoRow
  BY <1>2 DEF ReportNoRow, Withdraw
<1>3. CASE ReportRow
  BY <1>3 DEF ReportRow
<1>4. CASE ReportOffline
  BY <1>4 DEF ReportOffline, Withdraw
<1>5. CASE ReportAsk
  BY <1>5 DEF ReportAsk, Ask
<1>6. CASE ReportPost
  BY <1>6 DEF ReportPost, Post
<1>7. CASE ReportSucceeds
  BY <1>7 DEF ReportSucceeds
<1>8. CASE ReportTimesOut
  BY <1>8 DEF ReportTimesOut
<1>9. CASE ReportStore
  BY <1>9 DEF ReportStore
<1>10. CASE AfterReport
  BY <1>10 DEF AfterReport
<1>11. CASE ContGate
  BY <1>11 DEF ContGate
<1>12. CASE ContSelect
  BY <1>12 DEF ContSelect
<1>13. CASE ContTake
  BY <1>13 DEF ContTake, Take
<1>14. CASE ContAsk
  BY <1>14 DEF ContAsk, Ask
<1>15. CASE ContOffline
  BY <1>15 DEF ContOffline, Withdraw
<1>16. CASE ContPost
  BY <1>16 DEF ContPost, Post
<1>17. CASE ContAcked
  BY <1>17 DEF ContAcked
<1>18. CASE ContTimesOut
  BY <1>18 DEF ContTimesOut
<1>19. CASE ContDelete
  BY <1>19 DEF ContDelete
<1>20. CASE StartReport
  BY <1>20 DEF StartReport
<1>21. CASE StartContinuous
  BY <1>21 DEF StartContinuous
<1>22. CASE OtherTake
  BY <1>22 DEF OtherTake, Take
<1>23. CASE OtherAsk
  BY <1>23 DEF OtherAsk, Ask
<1>24. CASE OtherPost
  BY <1>24 DEF OtherPost, Post
<1>25. CASE BuildDocument
  BY <1>25 DEF BuildDocument, Build, Put
<1>26. CASE Reboot
  BY <1>26 DEF Reboot
<1>27. CASE UNCHANGED <<turn, asked, pc, lReadingTime, opc, gGPRS_XMLType>>
  BY <1>27
<1> QED
  BY <1>1, <1>2, <1>3, <1>4, <1>5, <1>6, <1>7, <1>8, <1>9, <1>10, <1>11, <1>12,
     <1>13, <1>14, <1>15, <1>16, <1>17, <1>18, <1>19, <1>20, <1>21, <1>22,
     <1>23, <1>24, <1>25, <1>26, <1>27 DEF DeliveryNext, DealNext, SenderNext,
     DeleteReportRow, InsertReportRow, OpenFile, Transmit, NotifyTest,
     NotifySet, NextPacket, LeaveFile, AckArrives, ConnectDown, ConnectUp,
     Look, Remove

\* While nothing is in flight, the other steps of the deal thread change
\* nothing.
LEMMA AckQuiet ==
    ASSUME AckInv, pc # "cWait", pc' # "cWait",
           UNCHANGED <<queue, acks, Xml_Continuous_Sem>>, ~ContPosted'
    PROVE  AckInv'
BY DEF AckInv, ContQueued

\* One CONTINUOUS, or its acknowledgement, at a time.
LEMMA AckStep ==
    ASSUME Calm, TypeInv, TurnInv, AskedInv, AckInv,
           [DeliveryNext]_deliveryVars
    PROVE  AckInv'
<1>0. acks \in Nat /\ Xml_Continuous_Sem \in Nat
  BY Bounds, SMT DEF TypeInv, SharedTypes
<1>1. CASE \/ ReportTake \/ ReportNoRow \/ ReportRow \/ ReportOffline
           \/ ReportAsk \/ ReportPost \/ ReportSucceeds \/ ReportTimesOut
           \/ ReportStore \/ AfterReport \/ StartReport \/ StartContinuous
  <2>1. /\ pc # "cWait" /\ pc' # "cWait"
        /\ UNCHANGED <<queue, acks, Xml_Continuous_Sem>>
    BY <1>1 DEF ReportTake, ReportNoRow, ReportRow, ReportOffline, ReportAsk,
         ReportPost, ReportSucceeds, ReportTimesOut, ReportStore, AfterReport,
         StartReport, StartContinuous, Take, Withdraw, Ask, Post
  <2>2. ~ContPosted'
    <3>1. CASE ReportPost
      BY <3>1 DEF ReportPost, Post, ContPosted, AskedInv, Report
    <3>2. CASE UNCHANGED <<turn, asked>>
      BY <2>1, <3>2 DEF AckInv, ContPosted
    <3>3. CASE turn' # "posted"
      BY <3>3 DEF ContPosted
    <3> QED
      BY <1>1, <3>1, <3>2, <3>3
         DEF ReportTake, ReportNoRow, ReportRow, ReportOffline, ReportAsk,
             ReportSucceeds, ReportTimesOut, ReportStore, AfterReport,
             StartReport, StartContinuous, Take, Withdraw, Ask
  <2> QED
    BY <2>1, <2>2, AckQuiet
<1>2. CASE \/ ContGate \/ ContSelect \/ ContTake \/ ContAsk \/ ContOffline
           \/ ContDelete
  <2>1. /\ pc # "cWait" /\ pc' # "cWait"
        /\ UNCHANGED <<queue, acks, Xml_Continuous_Sem>>
    BY <1>2 DEF ContGate, ContSelect, ContTake, ContAsk, ContOffline,
         ContDelete, Take, Withdraw, Ask
  <2>2. ~ContPosted'
    <3>1. CASE UNCHANGED <<turn, asked>>
      BY <2>1, <3>1 DEF AckInv, ContPosted
    <3>2. CASE turn' # "posted"
      BY <3>2 DEF ContPosted
    <3> QED
      BY <1>2, <3>1, <3>2
         DEF ContGate, ContSelect, ContTake, ContAsk, ContOffline, ContDelete,
             Take, Withdraw, Ask
  <2> QED
    BY <2>1, <2>2, AckQuiet
<1>3. CASE ContPost
  BY <1>3 DEF ContPost, Post, AskedInv, Continuous, AckInv, ContPosted,
              ContQueued
<1>4. CASE ContAcked
  BY <1>0, <1>4, SMT DEF ContAcked, AckInv, ContPosted, ContQueued
<1>5. CASE ContTimesOut
  <2>1. ContQueued = {} /\ ~ContPosted /\ acks = 0 /\ Xml_Continuous_Sem = 0
    <3>1. queue = <<>> => ContQueued = {}
      BY EmptySeq DEF ContQueued
    <3> QED
      BY <1>5, <3>1 DEF ContTimesOut, AtRest, ContPosted
  <2> QED
    BY <1>5, <2>1 DEF ContTimesOut, AckInv, ContPosted, ContQueued
<1>6. CASE OtherTake \/ OtherAsk \/ OtherPost
  <2>1. /\ UNCHANGED <<queue, acks, Xml_Continuous_Sem, pc, lReadingTime,
                       acked>>
        /\ ~ContPosted'
    BY <1>6 DEF OtherTake, OtherAsk, OtherPost, Take, Ask, Post, AskedInv,
                OtherDocument, ContPosted
  <2> QED
    BY <2>1 DEF AckInv, ContQueued
<1>7. CASE BuildDocument
  <2>1. /\ ~ContPosted'
        /\ UNCHANGED <<acks, Xml_Continuous_Sem, pc, lReadingTime, acked>>
    BY <1>7, QueueAfterBuild DEF ContPosted
  <2>2. CASE asked.type = "CONTINUOUS"
    <3>1. ContPosted
      BY <1>7, <2>2, QueueAfterBuild DEF ContPosted
    <3>2. ContQueued' = {Len(queue) + 1} /\ queue'[Len(queue) + 1] = asked
      <4>1. ContQueued = {}
        BY <3>1 DEF AckInv
      <4>2. \A n \in DOMAIN queue' : n \in DOMAIN queue \/ n = Len(queue) + 1
        BY <1>7, QueueAfterBuild, SMT
      <4>3. Len(queue) + 1 \in DOMAIN queue'
        BY <1>7, QueueAfterBuild, SMT
      <4> QED
        BY <1>7, <2>2, <4>1, <4>2, <4>3, QueueAfterBuild DEF ContQueued
    <3>3. acks + Xml_Continuous_Sem # 1 /\ pc = "cWait"
      BY <3>1 DEF AckInv
    <3> QED
      BY <2>1, <3>1, <3>2, <3>3 DEF AckInv
  <2>3. CASE asked.type # "CONTINUOUS"
    <3>1. /\ ContQueued' = ContQueued
          /\ \A n \in ContQueued : queue'[n] = queue[n]
      <4>1. \A n \in DOMAIN queue' : n \in DOMAIN queue \/ n = Len(queue) + 1
        BY <1>7, QueueAfterBuild, SMT
      <4>2. DOMAIN queue \subseteq DOMAIN queue'
        BY <1>7, QueueAfterBuild, SMT
      <4> QED
        BY <1>7, <2>3, <4>1, <4>2, QueueAfterBuild DEF ContQueued
    <3> QED
      BY <2>1, <3>1 DEF AckInv
  <2> QED
    BY <2>2, <2>3
<1>8. CASE LeaveFile
  <2>1. UNCHANGED <<turn, asked, Xml_Continuous_Sem, pc, lReadingTime>>
    BY <1>8 DEF LeaveFile
  <2>2. /\ \A n \in ContQueued' :
              n + 1 \in ContQueued /\ queue'[n] = queue[n + 1]
        /\ ContQueued' \subseteq Nat
    BY <1>8, QueueAfterLeave DEF ContQueued
  <2>3. ASSUME NEW m \in ContQueued', NEW n \in ContQueued' PROVE m = n
    <3>1. m + 1 = n + 1 /\ m \in Nat /\ n \in Nat
      BY <2>2, <2>3 DEF AckInv
    <3> QED
      BY <3>1, SMT
  <2>4. ContQueued = {} => ContQueued' = {}
    BY <2>2
  <2>5. \A n \in ContQueued' : queue'[n].time = lReadingTime
    BY <2>2 DEF AckInv
  <2>6. CASE UNCHANGED <<acks, acked>>
    BY <2>1, <2>3, <2>4, <2>5, <2>6 DEF AckInv, ContPosted
  <2>7. CASE ~UNCHANGED <<acks, acked>>
    <3>1. /\ out.type = "CONTINUOUS" /\ acks' = acks + 1
          /\ acked' = acked \cup {out.time}
      BY <1>8, <2>7 DEF LeaveFile
    <3>2. 1 \in ContQueued /\ queue[1] = out
      BY <1>8, <3>1, QueueAfterLeave DEF ContQueued
    <3>3. ContQueued' = {}
      <4>1. \A n \in ContQueued' : n + 1 = 1 /\ n \in Nat /\ n > 0
        <5>1. /\ ContQueued' \subseteq DOMAIN queue'
              /\ DOMAIN queue' = 1 .. Len(queue')
          <6>1. queue' \in Seq(Documents)
            BY TypeStep DEF TypeInv, ServiceTypes
          <6> QED
            BY <6>1, LenProperties DEF ContQueued
        <5>2. \A n \in ContQueued' : n + 1 = 1
          BY <2>2, <3>2 DEF AckInv
        <5> QED
          BY <2>2, <5>1, <5>2, SMT
      <4> QED
        BY <4>1, SMT
    <3>4. /\ ~ContPosted /\ out.time = lReadingTime
          /\ acks + Xml_Continuous_Sem # 1
          /\ pc = "cWait"
      BY <3>2 DEF AckInv
    <3>5. acks' = 1 /\ Xml_Continuous_Sem = 0
      BY <1>0, <3>1, <3>4, SMT DEF AckInv
    <3> QED
      BY <2>1, <3>1, <3>3, <3>4, <3>5, SMT DEF AckInv, ContPosted
  <2> QED
    BY <2>6, <2>7
<1>9. CASE AckArrives
  <2>1. /\ acks' + Xml_Continuous_Sem' = acks + Xml_Continuous_Sem
        /\ acks > 0
    BY <1>0, <1>9, SMT DEF AckArrives
  <2>2. UNCHANGED <<queue, turn, asked, pc, lReadingTime, acked>>
    BY <1>9 DEF AckArrives
  <2> QED
    BY <2>1, <2>2 DEF AckInv, ContPosted, ContQueued
<1>10. CASE Reboot
  <2>1. ContQueued' = {} /\ ~ContPosted'
    BY <1>10 DEF Reboot, ContQueued, ContPosted
  <2> QED
    BY <1>10, <2>1, SMT DEF Reboot, AckInv
<1>11. CASE UNCHANGED <<queue, turn, asked, acks, Xml_Continuous_Sem, pc,
                        lReadingTime, acked>>
  BY <1>11 DEF AckInv, ContPosted, ContQueued
<1> QED
  BY <1>1, <1>2, <1>3, <1>4, <1>5, <1>6, <1>7, <1>8, <1>9, <1>10, <1>11
     DEF DeliveryNext, DealNext, SenderNext, DeleteReportRow, InsertReportRow,
         OpenFile, Transmit, NotifyTest, NotifySet, NextPacket, ConnectDown,
         ConnectUp, Look

\* Before the acknowledgement the flag stays down: what is deleted is acked.
LEMMA FlagStep ==
    ASSUME Calm, TypeInv, TurnInv, AckInv, FlagInv, [DeliveryNext]_deliveryVars
    PROVE  FlagInv'
<1> USE DEF FlagInv
<1>1. CASE ReportTake
  BY <1>1 DEF ReportTake, Take
<1>2. CASE ReportNoRow
  BY <1>2 DEF ReportNoRow, Withdraw
<1>3. CASE ReportRow
  BY <1>3 DEF ReportRow
<1>4. CASE ReportOffline
  BY <1>4 DEF ReportOffline, Withdraw
<1>5. CASE ReportAsk
  BY <1>5 DEF ReportAsk, Ask
<1>6. CASE ReportPost
  BY <1>6 DEF ReportPost, Post
<1>7. CASE ReportSucceeds
  BY <1>7 DEF ReportSucceeds
<1>8. CASE ReportTimesOut
  BY <1>8 DEF ReportTimesOut
<1>9. CASE ReportStore
  BY <1>9 DEF ReportStore
<1>10. CASE AfterReport
  BY <1>10 DEF AfterReport
<1>11. CASE ContGate
  BY <1>11 DEF ContGate
<1>12. CASE ContSelect
  BY <1>12 DEF ContSelect
<1>13. CASE ContTake
  BY <1>13 DEF ContTake, Take
<1>14. CASE ContAsk
  BY <1>14 DEF ContAsk, Ask
<1>15. CASE ContOffline
  BY <1>15 DEF ContOffline, Withdraw
<1>16. CASE ContPost
  BY <1>16 DEF ContPost, Post
<1>17. CASE ContAcked
  <2>1. acks + Xml_Continuous_Sem = 1
    BY <1>17, Bounds, SMT DEF ContAcked, AckInv, TypeInv, SharedTypes
  <2> QED
    BY <1>17, <2>1 DEF ContAcked, AckInv
<1>18. CASE ContTimesOut
  BY <1>18 DEF ContTimesOut, AtRest
<1>19. CASE ContDelete
  BY <1>19 DEF ContDelete
<1>20. CASE StartReport
  BY <1>20 DEF StartReport
<1>21. CASE StartContinuous
  BY <1>21 DEF StartContinuous
<1>22. CASE OtherAsk
  BY <1>22 DEF OtherAsk, Ask, TurnInv, TurnHasHolder, DealHolds, OtherHolds
<1>23. CASE OpenFile
  BY <1>23 DEF OpenFile, Look
<1>24. CASE Transmit
  BY <1>24 DEF Transmit
<1>25. CASE NotifyTest
  BY <1>25 DEF NotifyTest
<1>26. CASE NotifySet
  BY <1>26 DEF NotifySet
<1>27. CASE NextPacket
  BY <1>27 DEF NextPacket
<1>28. CASE LeaveFile
  BY <1>28 DEF LeaveFile, Remove
<1>29. CASE Reboot
  BY <1>29 DEF Reboot
<1>30. CASE UNCHANGED <<gGPRS_XMLType, pc, lReadingTime, acked,
                        gGPRS_Send_Succ_Flag, spc>>
  BY <1>30
<1> QED
  BY <1>1, <1>2, <1>3, <1>4, <1>5, <1>6, <1>7, <1>8, <1>9, <1>10, <1>11, <1>12,
     <1>13, <1>14, <1>15, <1>16, <1>17, <1>18, <1>19, <1>20, <1>21, <1>22,
     <1>23, <1>24, <1>25, <1>26, <1>27, <1>28, <1>29, <1>30 DEF DeliveryNext,
     DealNext, SenderNext, DeleteReportRow, InsertReportRow, OtherTake,
     OtherPost, BuildDocument, AckArrives, ConnectDown, ConnectUp, Build, Post,
     Put, Take

\* The sender has nothing to say of a report that was not asked for.
LEMMA QuietStep ==
    ASSUME Calm, TypeInv, TurnInv, AskedInv, QuietInv,
           [DeliveryNext]_deliveryVars
    PROVE  QuietInv'
<1> USE DEF QuietInv
<1>1. CASE ReportTake
  BY <1>1 DEF ReportTake, Take
<1>2. CASE ReportNoRow
  BY <1>2 DEF ReportNoRow, Withdraw
<1>3. CASE ReportRow
  BY <1>3 DEF ReportRow
<1>4. CASE ReportOffline
  BY <1>4 DEF ReportOffline, Withdraw
<1>5. CASE ReportAsk
  BY <1>5 DEF ReportAsk, Ask
<1>6. CASE ReportPost
  BY <1>6 DEF ReportPost, Post
<1>7. CASE ReportSucceeds
  BY <1>7 DEF ReportSucceeds
<1>8. CASE ReportTimesOut
  BY <1>8 DEF ReportTimesOut, AtRest
<1>9. CASE ReportStore
  BY <1>9 DEF ReportStore
<1>10. CASE AfterReport
  BY <1>10 DEF AfterReport
<1>11. CASE ContGate
  BY <1>11 DEF ContGate
<1>12. CASE ContSelect
  BY <1>12 DEF ContSelect
<1>13. CASE ContTake
  BY <1>13 DEF ContTake, Take
<1>14. CASE ContAsk
  BY <1>14 DEF ContAsk, Ask
<1>15. CASE ContOffline
  BY <1>15 DEF ContOffline, Withdraw
<1>16. CASE ContPost
  BY <1>16 DEF ContPost, Post
<1>17. CASE ContAcked
  BY <1>17 DEF ContAcked
<1>18. CASE ContTimesOut
  BY <1>18 DEF ContTimesOut
<1>19. CASE ContDelete
  BY <1>19 DEF ContDelete
<1>20. CASE StartReport
  BY <1>20 DEF StartReport, AtRest
<1>21. CASE StartContinuous
  BY <1>21 DEF StartContinuous
<1>22. CASE OtherTake
  BY <1>22 DEF OtherTake, Take
<1>23. CASE OtherAsk
  BY <1>23 DEF OtherAsk, Ask
<1>24. CASE OtherPost
  BY <1>24 DEF OtherPost, Post, AskedInv
<1>25. CASE BuildDocument
  BY <1>25 DEF BuildDocument, Build, Put
<1>26. CASE OpenFile
  BY <1>26 DEF OpenFile, Look
<1>27. CASE NotifyTest
  BY <1>27 DEF NotifyTest
<1>28. CASE NotifySet
  BY <1>28 DEF NotifySet
<1>29. CASE NextPacket
  BY <1>29 DEF NextPacket
<1>30. CASE LeaveFile
  BY <1>30 DEF LeaveFile, Remove
<1>31. CASE Transmit
  BY <1>31 DEF Transmit
<1>32. CASE Reboot
  BY <1>32 DEF Reboot
<1>33. CASE UNCHANGED <<gGPRS_XMLType, turn, pc, queue, spc>>
  BY <1>33
<1> QED
  BY <1>1, <1>2, <1>3, <1>4, <1>5, <1>6, <1>7, <1>8, <1>9, <1>10, <1>11, <1>12,
     <1>13, <1>14, <1>15, <1>16, <1>17, <1>18, <1>19, <1>20, <1>21, <1>22,
     <1>23, <1>24, <1>25, <1>26, <1>27, <1>28, <1>29, <1>30, <1>31, <1>32,
     <1>33 DEF DeliveryNext, DealNext, SenderNext, DeleteReportRow,
     InsertReportRow, AckArrives, ConnectDown, ConnectUp

\* All of it together.
LEMMA CalmInit == DeliveryInit => CalmInv
<1>1. DeliveryInit => TurnInv /\ TypeInv
  BY TurnInvInit, TypeInit
<1>2. DeliveryInit => AskedInv /\ FlagInv /\ QuietInv
  BY DEF DeliveryInit, ServiceInit, AskedInv, FlagInv, QuietInv
<1>3. DeliveryInit => AckInv
  <2> SUFFICES ASSUME DeliveryInit PROVE AckInv
    OBVIOUS
  <2>1. ContQueued = {} /\ ~ContPosted
    BY DEF DeliveryInit, ServiceInit, Init, ContQueued, ContPosted
  <2>2. acks = 0 /\ Xml_Continuous_Sem = 0
    BY DEF DeliveryInit
  <2> QED
    BY <2>1, <2>2, SMT DEF AckInv
<1> QED
  BY <1>1, <1>2, <1>3 DEF CalmInv

LEMMA CalmStep ==
    ASSUME Calm
    PROVE  CalmInv /\ [DeliveryNext]_deliveryVars => CalmInv'
BY TypeStep, TurnInvNext, AskedStep, AckStep, FlagStep, QuietStep DEF CalmInv

-----------------------------------------------------------------------------
(* Nothing is forgotten                                                      *)

\* No time was taken on yet.
LEMMA KeptInit == DeliveryInit => KeptInv
BY DEF DeliveryInit, KeptInv

\* Documents of no time are no reports.
LEMMA WhichIsReport ==
    /\ \A t \in Times : Report(t) \in Documents /\ Report(t).time = t
    /\ \A t \in Times : NoDocument # Report(t)
    /\ \A t \in Times, u \in Times : Continuous(u) # Report(t)
    /\ \A t \in Times, u \in Times : Report(u) = Report(t) => u = t
    /\ \A t \in Times : OtherDocument # Report(t)
<1>1. \A t \in Times : /\ Report(t) \in Documents /\ Report(t).time = t
                       /\ Report(t).type = "REPORT"
  BY DeliveryDocuments DEF Report
<1>2. \A t \in Times : Continuous(t).type = "CONTINUOUS"
  BY DEF Continuous
<1>3. OtherDocument.type = "NOTIFY"
  BY DEF OtherDocument
<1> QED
  BY <1>1, <1>2, <1>3, DeliveryDocuments, Zenon

\* A step that only changes where the kept times are kept.
LEMMA KeptMoves ==
    ASSUME TypeInv, KeptInv,
           ok', acked' \subseteq delivered', delivered \subseteq delivered',
           \A t \in Range(contRows) :
               t \in Range(contRows') \/ t \in delivered',
           \A t \in Times :
               ReportOnItsWay(t) => ReportOnItsWay(t)' \/ t \in delivered',
           UNCHANGED <<pc, lReadingTime, reported>>,
           pc = "rFail" /\ gGPRS_Send_Succ_Flag' => gGPRS_Send_Succ_Flag
    PROVE  KeptInv'
<1>1. reported \subseteq Times
  BY DEF TypeInv, GhostTypes
<1>2. pc \in {"rWait", "rFail"} => lReadingTime \in Times
  BY DEF TypeInv, DealTypes, TimedPcs
<1>3. \A t \in reported' :
          \/ t \in delivered'
          \/ t \in Range(contRows')
          \/ ReportOnItsWay(t)'
          \/ pc' \in HoldingPcs /\ lReadingTime' = t
  BY <1>1 DEF KeptInv
<1>4. pc' = "rWait" \/ (pc' = "rFail" /\ gGPRS_Send_Succ_Flag') =>
          lReadingTime' \in delivered' \/ ReportOnItsWay(lReadingTime)'
  BY <1>2 DEF KeptInv
<1> QED
  BY <1>3, <1>4 DEF KeptInv

\* Every step keeps every time somewhere.
LEMMA KeptStep ==
    ASSUME Calm, ~MayFail, MaxReboots = 0, CalmInv, KeptInv,
           [DeliveryNext]_deliveryVars
    PROVE  KeptInv'
<1> USE DEF HoldingPcs
<1>0. /\ reported \subseteq Times /\ ok /\ acked \subseteq delivered
      /\ pc \in TimedPcs => lReadingTime \in Times
      /\ turn \in {"free", "taken"} => asked = NoDocument
      /\ pc \in {"rRow", "rConn", "cHold"} \/ opc = "hold" => turn = "taken"
  BY DEF CalmInv, TypeInv, GhostTypes, DealTypes, AskedInv, KeptInv
<1>1. CASE ReportRow
  <2>1. /\ pc = "rRow" /\ pc' = "rConn" /\ lReadingTime' = reportRow
        /\ reported' = reported \cup {reportRow}
        /\ UNCHANGED <<ok, acked, delivered, contRows, asked, queue>>
    BY <1>1 DEF ReportRow
  <2> QED
    BY <2>1 DEF KeptInv, ReportOnItsWay
<1>2. CASE ReportNoRow \/ ReportOffline
  <2>1. UNCHANGED <<asked, queue, ok, acked, delivered, contRows, reported,
                    lReadingTime>>
    BY <1>0, <1>2 DEF ReportNoRow, ReportOffline, Withdraw
  <2>2. \/ pc = "rRow" /\ pc' = "rDone"
        \/ pc = "rConn" /\ pc' = "rFail" /\ ~gGPRS_Send_Succ_Flag'
    BY <1>2 DEF ReportNoRow, ReportOffline
  <2> QED
    BY <2>1, <2>2 DEF KeptInv, ReportOnItsWay
<1>3. CASE ReportAsk
  <2>1. asked = NoDocument /\ asked' = Report(lReadingTime)
    BY <1>0, <1>3 DEF ReportAsk, Ask
  <2>2. \A t \in Times : ReportOnItsWay(t) => ReportOnItsWay(t)'
    BY <1>3, <2>1, WhichIsReport DEF ReportAsk, Ask, ReportOnItsWay
  <2>3. /\ pc' = "rAsked"
        /\ UNCHANGED <<ok, acked, delivered, contRows, reported, lReadingTime>>
    BY <1>3 DEF ReportAsk
  <2> QED
    BY <1>0, <2>2, <2>3 DEF KeptInv
<1>4. CASE ReportPost
  <2>1. pc = "rAsked" /\ pc' = "rWait" /\ asked = Report(lReadingTime)
    BY <1>4 DEF ReportPost, CalmInv, AskedInv
  <2>2. UNCHANGED <<asked, queue, ok, acked, delivered, contRows, reported,
                    lReadingTime>>
    BY <1>4 DEF ReportPost, Post
  <2> QED
    BY <2>1, <2>2 DEF KeptInv, ReportOnItsWay
<1>5. CASE ReportSucceeds \/ ReportTimesOut
  <2>1. pc = "rWait" /\ pc' \in {"rDone", "rFail"}
    BY <1>5 DEF ReportSucceeds, ReportTimesOut
  <2>2. UNCHANGED <<asked, queue, ok, acked, delivered, contRows, reported,
                    lReadingTime>>
    BY <1>5 DEF ReportSucceeds, ReportTimesOut
  <2> QED
    BY <2>1, <2>2 DEF KeptInv, ReportOnItsWay
<1>6. CASE ReportStore
  <2>1. /\ pc = "rFail" /\ pc' = "rDone"
        /\ UNCHANGED <<asked, queue, ok, acked, delivered, reported,
                       lReadingTime>>
    BY <1>6 DEF ReportStore
  <2>2. CASE gGPRS_Send_Succ_Flag
    <3>1. UNCHANGED contRows
      BY <1>6, <2>2 DEF ReportStore
    <3> QED
      BY <2>1, <2>2, <3>1 DEF KeptInv, ReportOnItsWay
  <2>3. CASE ~gGPRS_Send_Succ_Flag
    <3>1. /\ contRows' = Inserted(contRows, lReadingTime)
          /\ reports \notin DOMAIN contRows
      BY <1>6, <2>3
         DEF ReportStore, CalmInv, TypeInv, DealTypes, ReportPcs
    <3>2. /\ Range(contRows) \subseteq Range(contRows')
          /\ lReadingTime \in Range(contRows')
      BY <3>1 DEF Inserted, Range
    <3> QED
      BY <2>1, <3>2 DEF KeptInv, ReportOnItsWay
  <2> QED
    BY <2>2, <2>3
<1>7. CASE ContTake
  <2>1. /\ pc = "cWant" /\ pc' = "cHold"
        /\ UNCHANGED <<asked, queue, ok, acked, delivered, contRows, reported>>
    BY <1>7 DEF ContTake, Take
  <2> QED
    BY <2>1 DEF KeptInv, ReportOnItsWay
<1>8. CASE ContAsk \/ ContOffline
  <2>1. \/ pc = "cHold" /\ pc' = "cAsked" /\ asked = NoDocument
        \/ pc = "cAsked" /\ pc' = "idle" /\ asked = Continuous(lReadingTime)
    BY <1>0, <1>8
       DEF ContAsk, ContOffline, Ask, Withdraw, CalmInv, AskedInv
  <2>2. \A t \in Times : asked # Report(t)
    BY <1>0, <2>1, WhichIsReport DEF TimedPcs
  <2>3. UNCHANGED <<queue, ok, acked, delivered, contRows, reported>>
    BY <1>8 DEF ContAsk, ContOffline, Ask, Withdraw
  <2> QED
    BY <1>0, <2>1, <2>2, <2>3 DEF KeptInv, ReportOnItsWay
<1>9. CASE ContDelete
  <2>1. /\ pc = "cDel" /\ pc' \in {"idle", "cWant"}
        /\ UNCHANGED <<asked, queue, ok, acked, delivered, reported>>
    BY <1>9 DEF ContDelete
  <2>2. \A t \in Range(contRows) : t \in Range(contRows') \/ t \in delivered
    <3>1. CASE gGPRS_Send_Succ_Flag
      <4>1. lReadingTime \in delivered
        BY <1>0, <2>1, <3>1 DEF CalmInv, FlagInv
      <4>2. contRows' = Deleted(contRows, lReadingTime)
        BY <1>9, <3>1 DEF ContDelete
      <4> QED
        BY <4>1, <4>2 DEF Deleted, Restrict, Range
    <3>2. CASE ~gGPRS_Send_Succ_Flag
      BY <1>9, <3>2 DEF ContDelete
    <3> QED
      BY <3>1, <3>2
  <2> QED
    BY <2>1, <2>2 DEF KeptInv, ReportOnItsWay
<1>10. CASE OtherAsk
  <2>1. asked = NoDocument
    BY <1>0, <1>10 DEF OtherAsk
  <2>2. \A t \in Times : ReportOnItsWay(t) => ReportOnItsWay(t)'
    BY <1>10, <2>1, WhichIsReport DEF OtherAsk, Ask, ReportOnItsWay
  <2>3. UNCHANGED <<ok, acked, delivered, contRows, reported, pc, lReadingTime,
                    gGPRS_Send_Succ_Flag>>
    BY <1>10 DEF OtherAsk
  <2> QED
    BY <1>0, <2>2, <2>3, KeptMoves DEF CalmInv
<1>11. CASE BuildDocument
  <2>1. ASSUME NEW t \in Times, ReportOnItsWay(t)
        PROVE  ReportOnItsWay(t)'
    <3>1. TypeInv
      BY DEF CalmInv
    <3>2. CASE asked = Report(t)
      <4>1. Len(queue) + 1 \in DOMAIN queue'
            /\ queue'[Len(queue) + 1] = Report(t)
        BY <1>11, <3>1, <3>2, QueueAfterBuild, SMT
      <4> QED
        BY <4>1 DEF ReportOnItsWay, Range
    <3>3. CASE Report(t) \in Range(queue)
      <4>1. PICK n \in DOMAIN queue : queue[n] = Report(t)
        BY <3>3 DEF Range
      <4>2. n \in DOMAIN queue' /\ queue'[n] = Report(t)
        BY <1>11, <3>1, <4>1, QueueAfterBuild, SMT
      <4> QED
        BY <4>2 DEF ReportOnItsWay, Range
    <3> QED
      BY <2>1, <3>2, <3>3 DEF ReportOnItsWay
  <2>2. UNCHANGED <<ok, acked, delivered, contRows, reported, pc, lReadingTime,
                    gGPRS_Send_Succ_Flag>>
    BY <1>11 DEF BuildDocument
  <2> QED
    BY <1>0, <2>1, <2>2, KeptMoves DEF CalmInv
<1>12. CASE Transmit
  <2>1. ok'
    BY <1>12 DEF Transmit
  <2>2. UNCHANGED <<asked, queue, acked, delivered, contRows, reported, pc,
                    lReadingTime, gGPRS_Send_Succ_Flag>>
    BY <1>12 DEF Transmit
  <2> QED
    BY <1>0, <2>1, <2>2 DEF KeptInv, ReportOnItsWay
<1>13. CASE LeaveFile
  <2>1. TypeInv
    BY DEF CalmInv
  <2>2. delivered' = delivered \cup ({out.time} \ {NoTime})
    BY <1>0, <1>13 DEF LeaveFile
  <2>3. ASSUME NEW t \in Times, ReportOnItsWay(t)
        PROVE  ReportOnItsWay(t)' \/ t \in delivered'
    <3>1. CASE asked = Report(t)
      BY <1>13, <3>1 DEF LeaveFile, ReportOnItsWay
    <3>2. CASE Report(t) \in Range(queue)
      <4>1. PICK n \in DOMAIN queue : queue[n] = Report(t)
        BY <3>2 DEF Range
      <4>2. CASE n = 1
        <5>1. out = Report(t)
          BY <1>13, <2>1, <4>1, <4>2, QueueAfterLeave
        <5> QED
          BY <2>2, <5>1, WhichIsReport, Bounds
      <4>3. CASE n # 1
        <5>1. n - 1 \in DOMAIN queue' /\ queue'[n - 1] = Report(t)
          BY <1>13, <2>1, <4>1, <4>3, QueueAfterLeave
        <5> QED
          BY <5>1 DEF ReportOnItsWay, Range
      <4> QED
        BY <4>2, <4>3
    <3> QED
      BY <2>3, <3>1, <3>2 DEF ReportOnItsWay
  <2>4. acked' \subseteq delivered'
    <3>1. out \in Documents
      BY <1>13, <2>1, QueueAfterLeave
    <3>2. out.type = "CONTINUOUS" => out.time \in Times
      BY <3>1, DeliveryDocuments DEF OtherDocument
    <3> QED
      BY <1>0, <1>13, <2>2, <3>2, Bounds DEF LeaveFile
  <2>5. UNCHANGED <<ok, contRows, reported, pc, lReadingTime,
                    gGPRS_Send_Succ_Flag>>
    BY <1>13 DEF LeaveFile
  <2> QED
    BY <1>0, <2>1, <2>2, <2>3, <2>4, <2>5, KeptMoves
<1>14. CASE NotifySet
  <2>1. pc # "rFail"
    BY <1>14 DEF NotifySet, CalmInv, QuietInv
  <2>2. UNCHANGED <<asked, queue, ok, acked, delivered, contRows, reported, pc,
                    lReadingTime>>
    BY <1>14 DEF NotifySet
  <2> QED
    BY <2>1, <2>2 DEF KeptInv, ReportOnItsWay
<1>15. CASE Reboot
  <2>1. reboots \in 0 .. 0
    BY DEF CalmInv, TypeInv, OtherTypes
  <2> QED
    BY <1>15, <2>1, SMT DEF Reboot
<1>16. CASE /\ UNCHANGED <<asked, queue, ok, acked, delivered, contRows,
                           reported, lReadingTime>>
            /\ \/ UNCHANGED <<pc, gGPRS_Send_Succ_Flag>>
               \/ pc \notin HoldingPcs /\ pc' \notin HoldingPcs
  BY <1>16 DEF KeptInv, ReportOnItsWay
<1> QED
  BY <1>1, <1>2, <1>3, <1>4, <1>5, <1>6, <1>7, <1>8, <1>9, <1>10, <1>11, <1>12,
     <1>13, <1>14, <1>15, <1>16 DEF DeliveryNext, DealNext, SenderNext,
     DeleteReportRow, InsertReportRow, StartReport, StartContinuous,
     ReportTake, AfterReport, ContGate, ContSelect, ContPost, ContAcked,
     ContTimesOut, OtherTake, OtherPost, OpenFile, NotifyTest, NextPacket,
     AckArrives, ConnectDown, ConnectUp, Take, Post, Look
\* The turn that is out is in exactly one thread's hands (all the returns of
\* report_data and continuous_data, CommandDeal.c 828-1048).
THEOREM DeliveryTurnHasHolder == DeliverySpec => []TurnHasHolder
<1>1. TurnInv => TurnHasHolder BY DEF TurnInv
<1>. QED BY <1>1, TurnInvInit, TurnInvNext, PTL DEF DeliverySpec
\* Types and bounds of report_data, continuous_data and those around them, in
\* every environment: the loop of continuous_data never reads past the rows of
\* its select, and no report stores a row twice.
THEOREM DeliveryTypeCorrect == DeliverySpec => []DeliveryTypeOK
<1> QED
  BY TypeInit, TypeStep, TypeInvImplies, PTL DEF DeliverySpec

\* In the calm, continuous_data deletes only times the server has acknowledged,
\* also when packets fail and the program is started anew (CommandDeal.c
\* 1022-1041).
THEOREM DeliveryDeletesAcked ==
    ASSUME Calm
    PROVE  DeliverySpec => DeletedWasAcked
<1>1. CalmInv /\ [DeliveryNext]_deliveryVars =>
        [\A t \in Times : t \in Range(contRows) \ Range(contRows')
                              => t \in acked]_deliveryVars
  <2> SUFFICES ASSUME CalmInv, DeliveryNext, NEW t \in Times,
                      t \in Range(contRows), t \notin Range(contRows')
               PROVE  t \in acked
    OBVIOUS
  <2>1. CASE ContDelete
    <3>1. gGPRS_Send_Succ_Flag /\ pc = "cDel"
          /\ contRows' = Deleted(contRows, lReadingTime)
      BY <2>1 DEF ContDelete
    <3>2. t = lReadingTime
      BY <3>1 DEF Deleted, Restrict, Range
    <3> QED
      BY <3>1, <3>2 DEF CalmInv, FlagInv
  <2>2. CASE ReportStore
    <3>1. pc = "rFail" /\ reports \notin DOMAIN contRows
      BY <2>2 DEF ReportStore, CalmInv, TypeInv, DealTypes, ReportPcs
    <3>2. Range(contRows) \subseteq Range(contRows')
      BY <2>2, <3>1 DEF ReportStore, Inserted, Range
    <3> QED
      BY <3>2
  <2>3. CASE UNCHANGED contRows
    BY <2>3
  <2> QED
    BY <2>1, <2>2, <2>3 DEF DeliveryNext, DealNext, SenderNext,
       DeleteReportRow, InsertReportRow, StartReport, StartContinuous,
       ReportTake, ReportNoRow, ReportRow, ReportOffline, ReportAsk,
       ReportPost, ReportSucceeds, ReportTimesOut, AfterReport, ContGate,
       ContSelect, ContTake, ContAsk, ContOffline, ContPost, ContAcked,
       ContTimesOut, OtherTake, OtherAsk, OtherPost, BuildDocument, OpenFile,
       Transmit, NotifyTest, NotifySet, NextPacket, LeaveFile, AckArrives,
       ConnectDown, ConnectUp, Reboot
<1> QED
  BY <1>1, CalmInit, CalmStep, PTL DEF DeliverySpec, DeletedWasAcked

\* In the calm, without failing packets and reboots, no reading that was taken
\* on is forgotten, however many rounds, reports and losses of the link there
\* are (CommandDeal.c 927-949).
THEOREM DeliveryLosesNothing ==
    ASSUME Calm, ~MayFail, MaxReboots = 0
    PROVE  DeliverySpec => []NoReadingLost
<1>1. CalmInv /\ KeptInv => NoReadingLost
  BY DEF KeptInv, NoReadingLost, OnItsWay, ReportOnItsWay, HoldingPcs
<1> QED
  BY <1>1, CalmInit, CalmStep, KeptInit, KeptStep, PTL DEF DeliverySpec
=============================================================================
