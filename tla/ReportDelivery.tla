--------------------------- MODULE ReportDelivery ---------------------------
(***************************************************************************)
(* How CommandDeal_main_proc gets the readings of each metering round to   *)
(* the server.  A timer puts the round's time into ReadTime_Queue_Table as *)
(* the REPORT row; report_data sends the round's readings and, if it takes *)
(* them for undelivered, keeps the time as a CONTINUOUS row; and           *)
(* continuous_data sends the CONTINUOUS rows one after the other and       *)
(* deletes a row when it takes it for delivered.                           *)
(*                                                                         *)
(* What it goes by are three things other threads leave behind:            *)
(*   gGPRS_Send_Succ_Sem   posted by the sender after a packet, whatever   *)
(*                         became of it, if the document type asked for    *)
(*                         LAST is a report;                               *)
(*   Xml_Continuous_Sem    posted by XML_main_proc for a CONTINUOUS_ACK,   *)
(*                         which names no time;                            *)
(*   gGPRS_Send_Succ_Flag  written by the sender and by the deal thread.   *)
(*                                                                         *)
(* The uplink in between is the service that Uplink implements.  REPLY, a  *)
(* report the server queried, is REPORT here: the sender treats them alike.*)
(***************************************************************************)
EXTENDS DocumentService, Functions, FiniteSetsExt

CONSTANTS
    MaxTime,       \* metering rounds; a round's time is its number
    MaxReports,    \* times report_data is run
    MaxOthers,     \* documents other threads send
    MaxPackets,    \* packets a document may need
    MaxAcks,       \* acknowledgements that may be on their way, or waiting
    MaxDowns,      \* times the link goes down
    MaxReboots,
    MayFail,       \* a packet may fail to go out
    Calm           \* rounds, queries and changes of the link find the uplink
                   \* at rest, and a timeout ends a wait for nothing

Times == 1 .. MaxTime
NoTime == 0

Report(t) == [type |-> "REPORT", time |-> t]
Continuous(t) == [type |-> "CONTINUOUS", time |-> t]
OtherDocument == [type |-> "NOTIFY", time |-> NoTime]

ASSUME DeliveryDocuments ==
    /\ Documents = [type : {"REPORT", "CONTINUOUS"}, time : Times]
                       \cup {OtherDocument}
    /\ NoDocument \notin Documents

ASSUME DeliveryBounds ==
    /\ {MaxTime, MaxReports, MaxOthers, MaxAcks, MaxDowns, MaxReboots}
           \subseteq Nat
    /\ {MaxPackets, Capacity} \subseteq Nat \ {0}
    /\ {MayFail, Calm} \subseteq BOOLEAN

VARIABLES
    \* ReadTime_Queue_Table, which survives a reboot
    reportRow,     \* time of the REPORT row
    contRows,      \* times of the CONTINUOUS rows, by rowid
    \* the timer
    gReadingDate, timer,
    \* the deal thread
    pc, lReadingTime,
    rows,          \* rows of the select that are still to be sent
    reports,
    \* what the threads share
    gGPRS_XMLType, gGPRS_Send_Succ_Flag, gGPRS_Send_Succ_Sem,
    Xml_Continuous_Sem, Connect,
    \* the sender, the other threads, the server
    spc, sent, ok,
    opc, others,
    acks,          \* acknowledgements on their way to XML_main_proc
    downs, reboots,
    \* ghosts
    reported,      \* times report_data took on
    delivered,     \* times whose readings reached the server
    acked          \* times of which the server acknowledged a CONTINUOUS

tableVars == <<reportRow, contRows>>
timerVars == <<gReadingDate, timer>>
dealVars == <<pc, lReadingTime, rows, reports>>
flagVars == <<gGPRS_Send_Succ_Flag, gGPRS_Send_Succ_Sem, Xml_Continuous_Sem>>
senderVars == <<spc, sent, ok>>
otherVars == <<opc, others>>
linkVars == <<Connect, downs, reboots>>
ghostVars == <<reported, delivered, acked>>

deliveryVars == <<serviceVars, tableVars, timerVars, dealVars, flagVars,
                  gGPRS_XMLType, senderVars, otherVars, acks, linkVars,
                  ghostVars>>

ReportPcs == {"rWant", "rRow", "rConn", "rAsked", "rWait", "rFail", "rDone"}
ContPcs == {"cGate", "cSelect"}
LoopPcs == {"cWant", "cHold", "cAsked", "cWait", "cDel"}

\* Nothing of anybody's is on its way.
AtRest ==
    /\ turn # "posted"
    /\ queue = <<>>
    /\ spc = "idle"
    /\ acks = 0

\* A row has the number of the report that stored it: a select without an
\* order returns them oldest first.
NoRows == [n \in {} |-> NoTime]
Inserted(table, t) ==
    [n \in DOMAIN table \cup {reports} |-> IF n = reports THEN t ELSE table[n]]
Deleted(table, t) == Restrict(table, {n \in DOMAIN table : table[n] # t})
Oldest(table) == Min(DOMAIN table)
Remaining(table) == Restrict(table, DOMAIN table \ {Oldest(table)})

\* Types; and in the loop of continuous_data there is a row left to send.
DeliveryTypeOK ==
    /\ turn \in {"free", "taken", "asked", "posted"}
    /\ asked \in Documents \cup {NoDocument}
    /\ queue \in Seq(Documents) /\ Len(queue) <= Capacity
    /\ out \in Documents \cup {NoDocument}
    /\ reportRow \in Times \cup {NoTime}
    /\ contRows \in [DOMAIN contRows -> Times]
    /\ DOMAIN contRows \subseteq 1 .. reports
    /\ gReadingDate \in Times \cup {NoTime}
    /\ timer \in {"idle", "insert"}
    /\ pc \in {"idle"} \cup ReportPcs \cup ContPcs \cup LoopPcs
    /\ lReadingTime \in Times \cup {NoTime}
    /\ rows \in [DOMAIN rows -> Times]
    /\ DOMAIN rows \subseteq 1 .. reports
    /\ pc \in LoopPcs <=> DOMAIN rows # {}
    /\ reports \in 0 .. MaxReports
    /\ gGPRS_XMLType \in {"REPORT", "CONTINUOUS", "NOTIFY"}
    /\ gGPRS_Send_Succ_Flag \in BOOLEAN
    /\ gGPRS_Send_Succ_Sem \in Nat
    /\ Xml_Continuous_Sem \in 0 .. MaxAcks
    /\ acks \in 0 .. MaxAcks
    /\ spc \in {"idle", "send", "test", "set", "next"}
    /\ sent \in 0 .. MaxPackets
    /\ ok \in BOOLEAN
    /\ opc \in {"idle", "hold", "asked"}
    /\ others \in 0 .. MaxOthers
    /\ Connect \in BOOLEAN
    /\ downs \in 0 .. MaxDowns
    /\ reboots \in 0 .. MaxReboots
    /\ \A s \in {reported, delivered, acked} : s \subseteq Times

DeliveryInit ==
    /\ ServiceInit
    /\ reportRow = NoTime
    /\ contRows = NoRows
    /\ gReadingDate = NoTime
    /\ timer = "idle"
    /\ pc = "idle"
    /\ lReadingTime = NoTime
    /\ rows = NoRows
    /\ reports = 0
    /\ gGPRS_XMLType = "NOTIFY"
    /\ gGPRS_Send_Succ_Flag = FALSE
    /\ gGPRS_Send_Succ_Sem = 0
    /\ Xml_Continuous_Sem = 0
    /\ Connect = FALSE
    /\ spc = "idle"
    /\ sent = 0
    /\ ok = TRUE
    /\ opc = "idle"
    /\ others = 0
    /\ acks = 0
    /\ downs = 0
    /\ reboots = 0
    /\ reported = {}
    /\ delivered = {}
    /\ acked = {}

-----------------------------------------------------------------------------
(* Faulty variants of the definitions below, one plausible mistake each.  No *)
(* specification uses them: they are what the properties must tell from the  *)
(* code.                                                                     *)

\* no check that the select found a row
ContSelectUnchecked ==
    /\ pc = "cSelect"
    /\ rows' = contRows
    /\ pc' = "cWant"
    /\ UNCHANGED <<serviceVars, tableVars, timerVars, lReadingTime, reports,
                   flagVars, gGPRS_XMLType, senderVars, otherVars, acks,
                   linkVars, ghostVars>>

\* a report without a REPORT row returns without posting Xml_Send_Sem
ReportNoRowKeepsTurn ==
    /\ pc = "rRow"
    /\ reportRow = NoTime
    /\ pc' = "rDone"
    /\ UNCHANGED <<serviceVars, tableVars, timerVars, lReadingTime, rows,
                   reports, flagVars, gGPRS_XMLType, senderVars, otherVars,
                   acks, linkVars, ghostVars>>

\* the link is down, but the flag is left as the last document set it
ReportOfflineKeepsFlag ==
    /\ pc = "rConn"
    /\ ~Connect
    /\ Withdraw
    /\ pc' = "rFail"
    /\ UNCHANGED <<tableVars, timerVars, lReadingTime, rows, reports, flagVars,
                   gGPRS_XMLType, senderVars, otherVars, acks, linkVars,
                   ghostVars>>

\* the wait for the acknowledgement times out, and the flag stays as it was
ContTimesOutKeepsFlag ==
    /\ pc = "cWait"
    /\ Calm => AtRest /\ Xml_Continuous_Sem = 0
    /\ pc' = "cDel"
    /\ UNCHANGED <<serviceVars, tableVars, timerVars, lReadingTime, rows,
                   reports, flagVars, gGPRS_XMLType, senderVars, otherVars,
                   acks, linkVars, ghostVars>>

\* a row that was not acknowledged is sent again and again
ContDeleteRetrying ==
    /\ pc = "cDel"
    /\ IF gGPRS_Send_Succ_Flag
       THEN /\ contRows' = Deleted(contRows, lReadingTime)
            /\ reportRow' = IF reportRow = lReadingTime THEN NoTime
                            ELSE reportRow
            /\ rows' = Remaining(rows)
       ELSE UNCHANGED <<tableVars, rows>>
    /\ pc' = IF DOMAIN rows' = {} THEN "idle" ELSE "cWant"
    /\ UNCHANGED <<serviceVars, timerVars, lReadingTime, reports, flagVars,
                   gGPRS_XMLType, senderVars, otherVars, acks, linkVars,
                   ghostVars>>

-----------------------------------------------------------------------------
(* The timer: ReadMeter_timer_proc, and the wake-ups of the deal thread.     *)

\* A round begins: gReadingDate moves on, and the old REPORT row goes.
DeleteReportRow ==
    /\ timer = "idle"
    /\ gReadingDate < MaxTime
    /\ Calm => AtRest /\ pc = "idle"
    /\ gReadingDate' = gReadingDate + 1
    /\ reportRow' = NoTime
    /\ timer' = "insert"
    /\ UNCHANGED <<serviceVars, contRows, dealVars, flagVars, gGPRS_XMLType,
                   senderVars, otherVars, acks, linkVars, ghostVars>>

InsertReportRow ==
    /\ timer = "insert"
    /\ reportRow' = gReadingDate
    /\ timer' = "idle"
    /\ UNCHANGED <<serviceVars, contRows, gReadingDate, dealVars, flagVars,
                   gGPRS_XMLType, senderVars, otherVars, acks, linkVars,
                   ghostVars>>

\* STATU_REPORTUP: the meters have been read, or the server queried.
StartReport ==
    /\ pc = "idle"
    /\ reports < MaxReports
    /\ Calm => AtRest /\ timer = "idle"
    /\ reports' = reports + 1
    /\ pc' = "rWant"
    /\ UNCHANGED <<serviceVars, tableVars, timerVars, lReadingTime, rows,
                   flagVars, gGPRS_XMLType, senderVars, otherVars, acks,
                   linkVars, ghostVars>>

\* STATU_CONTINUOUS alone: the module has logged in.
StartContinuous ==
    /\ pc = "idle"
    /\ pc' = "cGate"
    /\ UNCHANGED <<serviceVars, tableVars, timerVars, lReadingTime, rows,
                   reports, flagVars, gGPRS_XMLType, senderVars, otherVars,
                   acks, linkVars, ghostVars>>

-----------------------------------------------------------------------------
(* report_data                                                               *)

ReportTake ==
    /\ pc = "rWant"
    /\ Take
    /\ pc' = "rRow"
    /\ UNCHANGED <<tableVars, timerVars, lReadingTime, rows, reports, flagVars,
                   gGPRS_XMLType, senderVars, otherVars, acks, linkVars,
                   ghostVars>>

ReportNoRow ==
    /\ pc = "rRow"
    /\ reportRow = NoTime
    /\ Withdraw
    /\ pc' = "rDone"
    /\ UNCHANGED <<tableVars, timerVars, lReadingTime, rows, reports, flagVars,
                   gGPRS_XMLType, senderVars, otherVars, acks, linkVars,
                   ghostVars>>

ReportRow ==
    /\ pc = "rRow"
    /\ reportRow # NoTime
    /\ lReadingTime' = reportRow
    /\ reported' = reported \cup {reportRow}
    /\ pc' = "rConn"
    /\ UNCHANGED <<serviceVars, tableVars, timerVars, rows, reports, flagVars,
                   gGPRS_XMLType, senderVars, otherVars, acks, linkVars,
                   delivered, acked>>

ReportOffline ==
    /\ pc = "rConn"
    /\ ~Connect
    /\ gGPRS_Send_Succ_Flag' = FALSE
    /\ Withdraw
    /\ pc' = "rFail"
    /\ UNCHANGED <<tableVars, timerVars, lReadingTime, rows, reports,
                   gGPRS_Send_Succ_Sem, Xml_Continuous_Sem, gGPRS_XMLType,
                   senderVars, otherVars, acks, linkVars, ghostVars>>

ReportAsk ==
    /\ pc = "rConn"
    /\ Connect
    /\ Ask(Report(lReadingTime))
    /\ gGPRS_XMLType' = "REPORT"
    /\ pc' = "rAsked"
    /\ UNCHANGED <<tableVars, timerVars, lReadingTime, rows, reports, flagVars,
                   senderVars, otherVars, acks, linkVars, ghostVars>>

ReportPost ==
    /\ pc = "rAsked"
    /\ Post
    /\ pc' = "rWait"
    /\ UNCHANGED <<tableVars, timerVars, lReadingTime, rows, reports, flagVars,
                   gGPRS_XMLType, senderVars, otherVars, acks, linkVars,
                   ghostVars>>

\* Whatever the sender posted, the report counts as delivered.
ReportSucceeds ==
    /\ pc = "rWait"
    /\ gGPRS_Send_Succ_Sem > 0
    /\ gGPRS_Send_Succ_Sem' = gGPRS_Send_Succ_Sem - 1
    /\ gGPRS_Send_Succ_Flag' = TRUE
    /\ pc' = "rDone"
    /\ UNCHANGED <<serviceVars, tableVars, timerVars, lReadingTime, rows,
                   reports, Xml_Continuous_Sem, gGPRS_XMLType, senderVars,
                   otherVars, acks, linkVars, ghostVars>>

\* ts.tv_nsec is never set: the wait may also end at once.
ReportTimesOut ==
    /\ pc = "rWait"
    /\ Calm => AtRest /\ gGPRS_Send_Succ_Sem = 0
    /\ pc' = "rFail"
    /\ UNCHANGED <<serviceVars, tableVars, timerVars, lReadingTime, rows,
                   reports, flagVars, gGPRS_XMLType, senderVars, otherVars,
                   acks, linkVars, ghostVars>>

\* SEND_FALSE: a flag left TRUE by an earlier document keeps the row out.
ReportStore ==
    /\ pc = "rFail"
    /\ contRows' = IF gGPRS_Send_Succ_Flag THEN contRows
                   ELSE Inserted(contRows, lReadingTime)
    /\ pc' = "rDone"
    /\ UNCHANGED <<serviceVars, reportRow, timerVars, lReadingTime, rows,
                   reports, flagVars, gGPRS_XMLType, senderVars, otherVars,
                   acks, linkVars, ghostVars>>

\* STATU_CONTINUOUS is set and tested; a racing update of the status by
\* another thread may drop it.
AfterReport ==
    /\ pc = "rDone"
    /\ \/ pc' = "cGate"
       \/ ~Calm /\ pc' = "idle"
    /\ UNCHANGED <<serviceVars, tableVars, timerVars, lReadingTime, rows,
                   reports, flagVars, gGPRS_XMLType, senderVars, otherVars,
                   acks, linkVars, ghostVars>>

-----------------------------------------------------------------------------
(* continuous_data                                                           *)

ContGate ==
    /\ pc = "cGate"
    /\ pc' = IF Connect THEN "cSelect" ELSE "idle"
    /\ gGPRS_Send_Succ_Flag' = (Connect /\ gGPRS_Send_Succ_Flag)
    /\ UNCHANGED <<serviceVars, tableVars, timerVars, lReadingTime, rows,
                   reports, gGPRS_Send_Succ_Sem, Xml_Continuous_Sem,
                   gGPRS_XMLType, senderVars, otherVars, acks, linkVars,
                   ghostVars>>

ContSelect ==
    /\ pc = "cSelect"
    /\ rows' = contRows
    /\ pc' = IF DOMAIN contRows = {} THEN "idle" ELSE "cWant"
    /\ UNCHANGED <<serviceVars, tableVars, timerVars, lReadingTime, reports,
                   flagVars, gGPRS_XMLType, senderVars, otherVars, acks,
                   linkVars, ghostVars>>

ContTake ==
    /\ pc = "cWant"
    /\ Take
    /\ lReadingTime' = rows[Oldest(rows)]
    /\ pc' = "cHold"
    /\ UNCHANGED <<tableVars, timerVars, rows, reports, flagVars,
                   gGPRS_XMLType, senderVars, otherVars, acks, linkVars,
                   ghostVars>>

ContAsk ==
    /\ pc = "cHold"
    /\ Ask(Continuous(lReadingTime))
    /\ gGPRS_XMLType' = "CONTINUOUS"
    /\ pc' = "cAsked"
    /\ UNCHANGED <<tableVars, timerVars, lReadingTime, rows, reports, flagVars,
                   senderVars, otherVars, acks, linkVars, ghostVars>>

ContOffline ==
    /\ pc = "cAsked"
    /\ ~Connect
    /\ gGPRS_Send_Succ_Flag' = FALSE
    /\ Withdraw
    /\ rows' = NoRows
    /\ pc' = "idle"
    /\ UNCHANGED <<tableVars, timerVars, lReadingTime, reports,
                   gGPRS_Send_Succ_Sem, Xml_Continuous_Sem, gGPRS_XMLType,
                   senderVars, otherVars, acks, linkVars, ghostVars>>

ContPost ==
    /\ pc = "cAsked"
    /\ Connect
    /\ Post
    /\ pc' = "cWait"
    /\ UNCHANGED <<tableVars, timerVars, lReadingTime, rows, reports, flagVars,
                   gGPRS_XMLType, senderVars, otherVars, acks, linkVars,
                   ghostVars>>

ContAcked ==
    /\ pc = "cWait"
    /\ Xml_Continuous_Sem > 0
    /\ Xml_Continuous_Sem' = Xml_Continuous_Sem - 1
    /\ gGPRS_Send_Succ_Flag' = TRUE
    /\ pc' = "cDel"
    /\ UNCHANGED <<serviceVars, tableVars, timerVars, lReadingTime, rows,
                   reports, gGPRS_Send_Succ_Sem, gGPRS_XMLType, senderVars,
                   otherVars, acks, linkVars, ghostVars>>

ContTimesOut ==
    /\ pc = "cWait"
    /\ Calm => AtRest /\ Xml_Continuous_Sem = 0
    /\ gGPRS_Send_Succ_Flag' = FALSE
    /\ pc' = "cDel"
    /\ UNCHANGED <<serviceVars, tableVars, timerVars, lReadingTime, rows,
                   reports, gGPRS_Send_Succ_Sem, Xml_Continuous_Sem,
                   gGPRS_XMLType, senderVars, otherVars, acks, linkVars,
                   ghostVars>>

\* The delete names the time only: every row of that time goes.
ContDelete ==
    /\ pc = "cDel"
    /\ IF gGPRS_Send_Succ_Flag
       THEN /\ contRows' = Deleted(contRows, lReadingTime)
            /\ reportRow' = IF reportRow = lReadingTime THEN NoTime
                            ELSE reportRow
       ELSE UNCHANGED tableVars
    /\ rows' = Remaining(rows)
    /\ pc' = IF DOMAIN Remaining(rows) = {} THEN "idle" ELSE "cWant"
    /\ UNCHANGED <<serviceVars, timerVars, lReadingTime, reports, flagVars,
                   gGPRS_XMLType, senderVars, otherVars, acks, linkVars,
                   ghostVars>>

-----------------------------------------------------------------------------
(* The uplink's other users, its builder and its sender; the server.         *)

OtherTake ==
    /\ opc = "idle"
    /\ others < MaxOthers
    /\ Take
    /\ others' = others + 1
    /\ opc' = "hold"
    /\ UNCHANGED <<tableVars, timerVars, dealVars, flagVars, gGPRS_XMLType,
                   senderVars, acks, linkVars, ghostVars>>

OtherAsk ==
    /\ opc = "hold"
    /\ Ask(OtherDocument)
    /\ gGPRS_XMLType' = "NOTIFY"
    /\ opc' = "asked"
    /\ UNCHANGED <<tableVars, timerVars, dealVars, flagVars, senderVars,
                   others, acks, linkVars, ghostVars>>

OtherPost ==
    /\ opc = "asked"
    /\ Post
    /\ opc' = "idle"
    /\ UNCHANGED <<tableVars, timerVars, dealVars, flagVars, gGPRS_XMLType,
                   senderVars, others, acks, linkVars, ghostVars>>

\* ReportUp_main_proc, as the service describes it.
BuildDocument ==
    /\ Build
    /\ UNCHANGED <<tableVars, timerVars, dealVars, flagVars, gGPRS_XMLType,
                   senderVars, otherVars, acks, linkVars, ghostVars>>

OpenFile ==
    /\ spc = "idle"
    /\ Look
    /\ sent' = 0
    /\ spc' = "send"
    /\ UNCHANGED <<turn, asked, tableVars, timerVars, dealVars, flagVars,
                   gGPRS_XMLType, ok, otherVars, acks, linkVars, ghostVars>>

\* GprsIPSEND of one packet.
Transmit ==
    /\ spc = "send"
    /\ ok' \in IF MayFail THEN BOOLEAN ELSE {TRUE}
    /\ sent' = sent + 1
    /\ spc' = "test"
    /\ UNCHANGED <<serviceVars, tableVars, timerVars, dealVars, flagVars,
                   gGPRS_XMLType, otherVars, acks, linkVars, ghostVars>>

\* Was it a report?  The type asked for last is looked at, which may be
\* another document's by now.
NotifyTest ==
    /\ spc = "test"
    /\ spc' = IF gGPRS_XMLType = "REPORT" THEN "set" ELSE "next"
    /\ UNCHANGED <<serviceVars, tableVars, timerVars, dealVars, flagVars,
                   gGPRS_XMLType, sent, ok, otherVars, acks, linkVars,
                   ghostVars>>

NotifySet ==
    /\ spc = "set"
    /\ gGPRS_Send_Succ_Flag' = ok
    /\ gGPRS_Send_Succ_Sem' = gGPRS_Send_Succ_Sem + 1
    /\ spc' = "next"
    /\ UNCHANGED <<serviceVars, tableVars, timerVars, dealVars,
                   Xml_Continuous_Sem, gGPRS_XMLType, sent, ok, otherVars,
                   acks, linkVars, ghostVars>>

NextPacket ==
    /\ spc = "next"
    /\ ok
    /\ sent < MaxPackets
    /\ spc' = "send"
    /\ UNCHANGED <<serviceVars, tableVars, timerVars, dealVars, flagVars,
                   gGPRS_XMLType, sent, ok, otherVars, acks, linkVars,
                   ghostVars>>

\* The last packet went out, or one failed: the file is given up.  Of a
\* document that arrived, the server may acknowledge a CONTINUOUS.
LeaveFile ==
    /\ spc = "next"
    /\ Remove
    /\ delivered' = delivered \cup IF ok THEN {out.time} \ {NoTime} ELSE {}
    /\ \/ UNCHANGED <<acks, acked>>
       \/ /\ ok
          /\ out.type = "CONTINUOUS"
          /\ acks < MaxAcks
          /\ acks' = acks + 1
          /\ acked' = acked \cup {out.time}
    /\ spc' = "idle"
    /\ UNCHANGED <<turn, asked, tableVars, timerVars, dealVars, flagVars,
                   gGPRS_XMLType, sent, ok, otherVars, linkVars, reported>>

\* CMD_ReviceXMLData, CONTINUOUS_ACK.
AckArrives ==
    /\ acks > 0
    /\ Xml_Continuous_Sem < MaxAcks
    /\ acks' = acks - 1
    /\ Xml_Continuous_Sem' = Xml_Continuous_Sem + 1
    /\ UNCHANGED <<serviceVars, tableVars, timerVars, dealVars,
                   gGPRS_Send_Succ_Flag, gGPRS_Send_Succ_Sem, gGPRS_XMLType,
                   senderVars, otherVars, linkVars, ghostVars>>

-----------------------------------------------------------------------------
(* gGprsRunSta.Connect, and the loss of everything but the database.         *)

ConnectDown ==
    /\ Connect
    /\ downs < MaxDowns
    /\ Calm => AtRest
    /\ Connect' = FALSE
    /\ downs' = downs + 1
    /\ UNCHANGED <<serviceVars, tableVars, timerVars, dealVars, flagVars,
                   gGPRS_XMLType, senderVars, otherVars, acks, reboots,
                   ghostVars>>

ConnectUp ==
    /\ ~Connect
    /\ Connect' = TRUE
    /\ UNCHANGED <<serviceVars, tableVars, timerVars, dealVars, flagVars,
                   gGPRS_XMLType, senderVars, otherVars, acks, downs, reboots,
                   ghostVars>>

Reboot ==
    /\ reboots < MaxReboots
    /\ reboots' = reboots + 1
    /\ turn' = "free" /\ asked' = NoDocument
    /\ queue' = <<>> /\ out' = NoDocument
    /\ timer' = "idle"
    /\ pc' = "idle" /\ lReadingTime' = NoTime /\ rows' = NoRows
    /\ gGPRS_XMLType' = "NOTIFY"
    /\ gGPRS_Send_Succ_Flag' = FALSE
    /\ gGPRS_Send_Succ_Sem' = 0 /\ Xml_Continuous_Sem' = 0
    /\ Connect' = FALSE
    /\ spc' = "idle" /\ sent' = 0 /\ ok' = TRUE
    /\ opc' = "idle" /\ acks' = 0
    /\ UNCHANGED <<tableVars, gReadingDate, reports, others, downs, ghostVars>>

DealNext ==
    \/ ReportTake \/ ReportNoRow \/ ReportRow \/ ReportOffline \/ ReportAsk
    \/ ReportPost \/ ReportSucceeds \/ ReportTimesOut \/ ReportStore
    \/ AfterReport \/ ContGate \/ ContSelect \/ ContTake \/ ContAsk
    \/ ContOffline \/ ContPost \/ ContAcked \/ ContTimesOut \/ ContDelete

SenderNext ==
    OpenFile \/ Transmit \/ NotifyTest \/ NotifySet \/ NextPacket \/ LeaveFile

DeliveryNext ==
    \/ DeleteReportRow \/ InsertReportRow
    \/ StartReport \/ StartContinuous
    \/ DealNext
    \/ OtherTake \/ OtherAsk \/ OtherPost
    \/ BuildDocument
    \/ SenderNext
    \/ AckArrives
    \/ ConnectDown \/ ConnectUp
    \/ Reboot

DeliverySpec == DeliveryInit /\ [][DeliveryNext]_deliveryVars

\* Threads that can go on do; nothing makes a round, a query, a change of the
\* link or a reboot happen.
DeliveryFairSpec ==
    /\ DeliverySpec
    /\ WF_deliveryVars(DealNext)
    /\ WF_deliveryVars(OtherAsk) /\ WF_deliveryVars(OtherPost)
    /\ WF_deliveryVars(BuildDocument)
    /\ WF_deliveryVars(SenderNext)
    /\ WF_deliveryVars(AckArrives)

-----------------------------------------------------------------------------
(* Properties                                                                *)

DealHolds == pc \in {"rRow", "rConn", "rAsked", "cHold", "cAsked"}
OtherHolds == opc \in {"hold", "asked"}

\* The turn that is out and not yet posted is in exactly one thread's hands:
\* every early return of report_data and continuous_data has given it back
\* once, and neither of them goes on with a turn it has given back.
TurnHasHolder ==
    /\ turn \in {"taken", "asked"} <=> (DealHolds \/ OtherHolds)
    /\ ~(DealHolds /\ OtherHolds)

OnItsWay(t) ==
    \E d \in {asked} \cup Range(queue) : d \in {Report(t), Continuous(t)}

\* A time report_data took on is not forgotten: its readings have reached the
\* server, or are on their way, or the time is kept as a CONTINUOUS row, or
\* report_data is still at it (CommandDeal.c 927-949: what was not delivered
\* is stored).
NoReadingLost ==
    \A t \in reported :
        \/ t \in delivered
        \/ t \in Range(contRows)
        \/ OnItsWay(t)
        \/ pc \in {"rConn", "rAsked", "rWait", "rFail"} /\ lReadingTime = t

\* continuous_data deletes a time only after the server has acknowledged the
\* readings of that very time (CommandDeal.c 1022-1041).
DeletedWasAcked ==
    [][\A t \in Times :
           t \in Range(contRows) \ Range(contRows') => t \in acked
    ]_deliveryVars

\* The deal thread never gets stuck in a report or a resume: it always comes
\* back to wait for the next one.
DealComesBack == (pc # "idle") ~> (pc = "idle")
=============================================================================
