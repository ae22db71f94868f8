------------------------------- MODULE Uplink -------------------------------
(***************************************************************************)
(* How the concentrator's threads share one GPRS uplink.                   *)
(*                                                                         *)
(* Three threads want documents sent:                                      *)
(*   "mana"  GPRS_Mana_main_proc   login frames and the heartbeat          *)
(*   "xml"   XML_main_proc         answers to what the server asked        *)
(*   "deal"  CommandDeal_main_proc the metering reports                    *)
(* A document is not passed as an argument: the thread takes the turn      *)
(* (Xml_Send_Sem), puts the document's type in the global gGPRS_XMLType    *)
(* and wakes ReportUp_main_proc, which builds the document from globals    *)
(* (makexml) into the ring gXML_Send_File, gives the turn back, and wakes  *)
(* GPRS_Upsend_main_proc.  That thread sends the oldest file; woken with   *)
(* GprsGvc set it checks the link for GPRS_Mana_main_proc instead.         *)
(*                                                                         *)
(* The module extends the ring: ReportUp_main_proc is its writer and       *)
(* GPRS_Upsend_main_proc its reader, so every step on the ring is a step   *)
(* of XmlFileRing joined with the thread's own move.                       *)
(***************************************************************************)
EXTENDS XmlFileRing

CONSTANTS
    ManaTypes,     \* document types "mana" asks for (REQUEST, MD5_XML, NOTIFY)
    XmlTypes,      \* types "xml" asks for (PERIOD_ACK, REALTIME_ACK, ...)
    DealTypes,     \* types "deal" asks for (REPORT, REPLY, CONTINUOUS)
    Bodies,        \* what gxml_DataInfo_T, a report's data, may hold
    NoBody         \* any other document: its data is not modelled

Requesters == {"mana", "xml", "deal"}

TypesOf == [mana |-> ManaTypes, xml |-> XmlTypes, deal |-> DealTypes]

DocTypes == ManaTypes \cup XmlTypes \cup DealTypes

ASSUME DocumentsAreBuilt ==
    Documents = [type : ManaTypes \cup XmlTypes, body : {NoBody}]
                    \cup [type : DealTypes, body : Bodies]

ASSUME TypesAreDisjoint ==
    /\ ManaTypes \cap DealTypes = {}
    /\ XmlTypes \cap DealTypes = {}

VARIABLES
    Xml_Send_Sem, ReportUp_Sem, UpSend_Sem, GprsMana_Sem,
    gGPRS_XMLType,
    gxml_DataInfo_T,  \* the data of the report being built
    asked,         \* ghost: the document asked for and not yet built
    pc,            \* where each requester is in its request
    rpc,           \* where ReportUp_main_proc is
    spc,           \* where GPRS_Upsend_main_proc is
    mpc,           \* where GPRS_Mana_main_proc is between its requests
    GprsGvc,       \* gUpCommMsg.GprsGvc: the next wake-up is a link check
    gGPRSBusy,     \* a link check was made since the last heartbeat
    Ready,         \* gGprsRunSta.Ready
    dropped        \* ghost: wake-ups thrown away because Ready was FALSE

semVars == <<Xml_Send_Sem, ReportUp_Sem, UpSend_Sem, GprsMana_Sem>>
requestVars == <<gGPRS_XMLType, gxml_DataInfo_T, asked, pc>>
linkVars == <<mpc, GprsGvc, gGPRSBusy, Ready>>
uplinkVars == <<ringVars, semVars, requestVars, rpc, spc, linkVars, dropped>>

\* XML_BUF_FILE_NUM - 1 files may wait, plus the wake-up of a link check.
MaxWakeups == XML_BUF_FILE_NUM

UplinkTypeOK ==
    /\ RingTypeOK
    /\ Xml_Send_Sem \in 0 .. 1
    /\ ReportUp_Sem \in 0 .. 1
    /\ UpSend_Sem \in 0 .. MaxWakeups
    /\ GprsMana_Sem \in 0 .. 1
    /\ gGPRS_XMLType \in DocTypes
    /\ gxml_DataInfo_T \in Bodies
    /\ asked \in Documents \cup {NoDocument}
    /\ pc \in [Requesters -> {"idle", "want", "hold", "typed"}]
    /\ rpc \in {"wait", "build", "built", "commit", "wake", "publish"}
    /\ spc \in {"idle", "woken", "check", "checked", "gate", "fetch"}
    /\ mpc \in {"init", "login", "up", "ask", "await"}
    /\ GprsGvc \in BOOLEAN
    /\ gGPRSBusy \in BOOLEAN
    /\ Ready \in BOOLEAN
    /\ dropped \in 0 .. XML_BUF_FILE_NUM - 1

\* Misc_Init, and the two threads at the head of their loops.
UplinkInit ==
    /\ RingInit
    /\ Xml_Send_Sem = 1
    /\ ReportUp_Sem = 0
    /\ UpSend_Sem = 0
    /\ GprsMana_Sem = 0
    /\ gGPRS_XMLType \in ManaTypes
    /\ gxml_DataInfo_T \in Bodies
    /\ asked = NoDocument
    /\ pc = [r \in Requesters |-> "idle"]
    /\ rpc = "wait"
    /\ spc = "idle"
    /\ mpc = "init"
    /\ GprsGvc = FALSE
    /\ gGPRSBusy = FALSE
    /\ Ready = FALSE
    /\ dropped = 0

-----------------------------------------------------------------------------
(* Faulty variants of the definitions below, one plausible mistake each.  No *)
(* specification uses them: they are what the properties must tell from the  *)
(* code.                                                                     *)

\* a document is asked for without waiting for the turn
TakeTurnUnguarded(r) ==
    /\ pc[r] = "want"
    /\ pc' = [pc EXCEPT ![r] = "hold"]
    /\ UNCHANGED <<ringVars, semVars, gGPRS_XMLType, gxml_DataInfo_T, asked,
                   rpc, spc, linkVars, dropped>>

\* the early exit of a report posts Xml_Send_Sem but does not return
GiveTurnBackNoReturn ==
    /\ pc["deal"] \in {"hold", "typed"}
    /\ Xml_Send_Sem' = Xml_Send_Sem + 1
    /\ UNCHANGED <<ringVars, ReportUp_Sem, UpSend_Sem, GprsMana_Sem,
                   requestVars, rpc, spc, linkVars, dropped>>

\* ... or returns without the post
GiveTurnBackForgotten ==
    /\ pc["deal"] \in {"hold", "typed"}
    /\ asked' = NoDocument
    /\ pc' = [pc EXCEPT !["deal"] = "idle"]
    /\ UNCHANGED <<ringVars, semVars, gGPRS_XMLType, gxml_DataInfo_T, rpc, spc,
                   linkVars, dropped>>

\* the turn is given back before makexml and not after it
ReportUpWaitReturning ==
    /\ rpc = "wait"
    /\ ReportUp_Sem > 0
    /\ ReportUp_Sem' = ReportUp_Sem - 1
    /\ Xml_Send_Sem' = Xml_Send_Sem + 1
    /\ rpc' = "build"
    /\ UNCHANGED <<ringVars, UpSend_Sem, GprsMana_Sem, requestVars, spc,
                   linkVars, dropped>>

\* a full ring is only logged
PlaceFileNoWait ==
    /\ rpc = "commit"
    /\ CommitNoWait
    /\ rpc' = "wake"
    /\ UNCHANGED <<semVars, requestVars, spc, linkVars, dropped>>

\* sem_post(&UpSend_Sem) is skipped
WakeSenderForgotten ==
    /\ rpc = "wake"
    /\ rpc' = "publish"
    /\ UNCHANGED <<ringVars, semVars, requestVars, spc, linkVars, dropped>>

\* GprsGvc keeps its value
ClearGvcForgotten ==
    /\ spc = "checked"
    /\ spc' = "idle"
    /\ UNCHANGED <<ringVars, semVars, requestVars, rpc, linkVars, dropped>>

\* the slot of a sent file is not given back
FreeFileForgotten ==
    /\ spc = "fetch"
    /\ reader = "done"
    /\ reader' = "idle"
    /\ spc' = "idle"
    /\ UNCHANGED <<XMLFile, writepos, readpos, sem_read, sem_write, writer,
                   loaded, semVars, requestVars, rpc, linkVars, dropped>>

\* the assignment to GprsGvc is compiled out
AskCheckNoGvc ==
    /\ mpc = "up"
    /\ pc["mana"] = "idle"
    /\ ~gGPRSBusy
    /\ spc # "checked"
    /\ gGPRSBusy' = TRUE
    /\ mpc' = "ask"
    /\ UNCHANGED <<ringVars, semVars, requestVars, rpc, spc, GprsGvc, Ready,
                   dropped>>

-----------------------------------------------------------------------------
(* A requester's turn *)

\* "xml" waits for the turn to answer a message.  (It fills the globals of the
\* answer before that; what becomes of them is not modelled here.)
XmlWant ==
    /\ pc["xml"] = "idle"
    /\ pc' = [pc EXCEPT !["xml"] = "want"]
    /\ UNCHANGED <<ringVars, semVars, gGPRS_XMLType, gxml_DataInfo_T, asked,
                   rpc, spc, linkVars, dropped>>

\* A login frame (setGprsXmlType) or the heartbeat: only when the link is ready.
\* The heartbeat allows the next link check.
ManaWant ==
    /\ pc["mana"] = "idle"
    /\ mpc \in {"login", "up"}
    /\ pc' = [pc EXCEPT !["mana"] = "want"]
    /\ gGPRSBusy' = (gGPRSBusy /\ mpc # "up")
    /\ UNCHANGED <<ringVars, semVars, gGPRS_XMLType, gxml_DataInfo_T, asked,
                   rpc, spc, mpc, GprsGvc, Ready, dropped>>

DealWant ==
    /\ pc["deal"] = "idle"
    /\ pc' = [pc EXCEPT !["deal"] = "want"]
    /\ UNCHANGED <<ringVars, semVars, gGPRS_XMLType, gxml_DataInfo_T, asked,
                   rpc, spc, linkVars, dropped>>

\* sem_wait(&Xml_Send_Sem)
TakeTurn(r) ==
    /\ pc[r] = "want"
    /\ Xml_Send_Sem > 0
    /\ Xml_Send_Sem' = Xml_Send_Sem - 1
    /\ pc' = [pc EXCEPT ![r] = "hold"]
    /\ UNCHANGED <<ringVars, ReportUp_Sem, UpSend_Sem, GprsMana_Sem,
                   gGPRS_XMLType, gxml_DataInfo_T, asked, rpc, spc, linkVars,
                   dropped>>

\* gGPRS_XMLType = t, by "mana" or "xml".
AskType(r, t) ==
    /\ r # "deal"
    /\ pc[r] = "hold"
    /\ gGPRS_XMLType' = t
    /\ asked' = [type |-> t, body |-> NoBody]
    /\ pc' = [pc EXCEPT ![r] = "typed"]
    /\ UNCHANGED <<ringVars, semVars, gxml_DataInfo_T, rpc, spc, linkVars,
                   dropped>>

\* "deal" fills gxml_DataInfo_T only after it has the turn.
AskReport(t, b) ==
    /\ pc["deal"] = "hold"
    /\ gxml_DataInfo_T' = b
    /\ gGPRS_XMLType' = t
    /\ asked' = [type |-> t, body |-> b]
    /\ pc' = [pc EXCEPT !["deal"] = "typed"]
    /\ UNCHANGED <<ringVars, semVars, rpc, spc, linkVars, dropped>>

\* "deal" gives the turn back without a document: no row, no meter data, or
\* the link is down (which continuous_data finds out after it set the type).
GiveTurnBack ==
    /\ pc["deal"] \in {"hold", "typed"}
    /\ Xml_Send_Sem' = Xml_Send_Sem + 1
    /\ asked' = NoDocument
    /\ pc' = [pc EXCEPT !["deal"] = "idle"]
    /\ UNCHANGED <<ringVars, ReportUp_Sem, UpSend_Sem, GprsMana_Sem,
                   gGPRS_XMLType, gxml_DataInfo_T, rpc, spc, linkVars, dropped>>

\* sem_post(&ReportUp_Sem): the turn passes on to ReportUp_main_proc.
PostReportUp(r) ==
    /\ pc[r] = "typed"
    /\ ReportUp_Sem' = ReportUp_Sem + 1
    /\ pc' = [pc EXCEPT ![r] = "idle"]
    /\ UNCHANGED <<ringVars, Xml_Send_Sem, UpSend_Sem, GprsMana_Sem,
                   gGPRS_XMLType, gxml_DataInfo_T, asked, rpc, spc, linkVars,
                   dropped>>

-----------------------------------------------------------------------------
(* ReportUp_main_proc *)

ReportUpWait ==
    /\ rpc = "wait"
    /\ ReportUp_Sem > 0
    /\ ReportUp_Sem' = ReportUp_Sem - 1
    /\ rpc' = "build"
    /\ UNCHANGED <<ringVars, Xml_Send_Sem, UpSend_Sem, GprsMana_Sem,
                   requestVars, spc, linkVars, dropped>>

\* What makexml prints for a type: the reports print gxml_DataInfo_T.
DocumentOf(t) ==
    [type |-> t, body |-> IF t \in DealTypes THEN gxml_DataInfo_T ELSE NoBody]

\* makexml writes the file at writepos.
MakeXml ==
    /\ rpc = "build"
    /\ WriteFile(DocumentOf(gGPRS_XMLType))
    /\ rpc' = "built"
    /\ UNCHANGED <<semVars, requestVars, spc, linkVars, dropped>>

ReturnTurn ==
    /\ rpc = "built"
    /\ Xml_Send_Sem' = Xml_Send_Sem + 1
    /\ asked' = NoDocument
    /\ rpc' = "commit"
    /\ UNCHANGED <<ringVars, ReportUp_Sem, UpSend_Sem, GprsMana_Sem,
                   gGPRS_XMLType, gxml_DataInfo_T, pc, spc, linkVars, dropped>>

\* sem_wait(&gXML_Send_File.sem_write) and writepos: blocks when all files wait.
PlaceFile ==
    /\ rpc = "commit"
    /\ Commit
    /\ rpc' = "wake"
    /\ UNCHANGED <<semVars, requestVars, spc, linkVars, dropped>>

WakeSender ==
    /\ rpc = "wake"
    /\ UpSend_Sem' = UpSend_Sem + 1
    /\ rpc' = "publish"
    /\ UNCHANGED <<ringVars, Xml_Send_Sem, ReportUp_Sem, GprsMana_Sem,
                   requestVars, spc, linkVars, dropped>>

\* The file counts as readable only after the sender was woken.
PublishFile ==
    /\ rpc = "publish"
    /\ PostRead
    /\ rpc' = "wait"
    /\ UNCHANGED <<semVars, requestVars, spc, linkVars, dropped>>

-----------------------------------------------------------------------------
(* GPRS_Upsend_main_proc *)

UpSendWait ==
    /\ spc = "idle"
    /\ UpSend_Sem > 0
    /\ UpSend_Sem' = UpSend_Sem - 1
    /\ spc' = "woken"
    /\ UNCHANGED <<ringVars, Xml_Send_Sem, ReportUp_Sem, GprsMana_Sem,
                   requestVars, rpc, linkVars, dropped>>

\* The wake-up does not say who sent it: GprsGvc decides what it is taken for.
ReadGvc ==
    /\ spc = "woken"
    /\ spc' = IF GprsGvc THEN "check" ELSE "gate"
    /\ UNCHANGED <<ringVars, semVars, requestVars, rpc, linkVars, dropped>>

\* The link check itself (CMD_IpClose) changes only counters that
\* GPRS_Mana_main_proc reads; it ends with sem_post(&GprsMana_Sem).
CheckDone ==
    /\ spc = "check"
    /\ GprsMana_Sem' = GprsMana_Sem + 1
    /\ spc' = "checked"
    /\ UNCHANGED <<ringVars, Xml_Send_Sem, ReportUp_Sem, UpSend_Sem,
                   requestVars, rpc, linkVars, dropped>>

\* GprsGvc is cleared after the post that lets GPRS_Mana_main_proc go on.
ClearGvc ==
    /\ spc = "checked"
    /\ GprsGvc' = FALSE
    /\ spc' = "idle"
    /\ UNCHANGED <<ringVars, semVars, requestVars, rpc, mpc, gGPRSBusy, Ready,
                   dropped>>

\* Ready is FALSE: the wake-up is thrown away, its file stays in the ring.
DropWakeup ==
    /\ spc = "gate"
    /\ ~Ready
    /\ dropped' = dropped + 1
    /\ spc' = "idle"
    /\ UNCHANGED <<ringVars, semVars, requestVars, rpc, linkVars>>

PassGate ==
    /\ spc = "gate"
    /\ Ready
    /\ spc' = "fetch"
    /\ UNCHANGED <<ringVars, semVars, requestVars, rpc, linkVars, dropped>>

FetchFile ==
    /\ spc = "fetch"
    /\ WaitRead
    /\ UNCHANGED <<semVars, requestVars, rpc, spc, linkVars, dropped>>

\* One packet of the file is read and handed to GprsIPSEND.
SendPacket ==
    /\ spc = "fetch"
    /\ LoadFile
    /\ UNCHANGED <<semVars, requestVars, rpc, spc, linkVars, dropped>>

\* After the last packet, or the first one that failed: readpos moves on
\* either way.
LeaveFile ==
    /\ spc = "fetch"
    /\ AdvanceRead
    /\ UNCHANGED <<semVars, requestVars, rpc, spc, linkVars, dropped>>

FreeFile ==
    /\ spc = "fetch"
    /\ PostWrite
    /\ spc' = "idle"
    /\ UNCHANGED <<semVars, requestVars, rpc, linkVars, dropped>>

-----------------------------------------------------------------------------
(* GPRS_Mana_main_proc between its requests *)

\* GprsInit_xmz returned: UpdGprsRunSta_Ready(TRUE).
LinkReady ==
    /\ mpc = "init"
    /\ Ready' = TRUE
    /\ mpc' = "login"
    /\ UNCHANGED <<ringVars, semVars, requestVars, rpc, spc, GprsGvc, gGPRSBusy,
                   dropped>>

\* ConnectConfirm returned TRUE.
LinkUp ==
    /\ mpc = "login"
    /\ pc["mana"] = "idle"
    /\ mpc' = "up"
    /\ UNCHANGED <<ringVars, semVars, requestVars, rpc, spc, GprsGvc, gGPRSBusy,
                   Ready, dropped>>

\* The login failed five times or a watchdog ran out: the module is started
\* again, InitGprsRunSta first.
LinkRestart ==
    /\ mpc \in {"login", "up"}
    /\ pc["mana"] = "idle"
    /\ Ready' = FALSE
    /\ mpc' = "init"
    /\ UNCHANGED <<ringVars, semVars, requestVars, rpc, spc, GprsGvc, gGPRSBusy,
                   dropped>>

\* GprsGvc = TRUE for a link check.  ASSUMPTION on time: GPRS_Mana_main_proc
\* asks again only after DlyGprsCheck (10 s) and a heartbeat, so the sender,
\* which has one assignment left to do, has cleared GprsGvc long before.
AskCheck ==
    /\ mpc = "up"
    /\ pc["mana"] = "idle"
    /\ ~gGPRSBusy
    /\ spc # "checked"
    /\ gGPRSBusy' = TRUE
    /\ GprsGvc' = TRUE
    /\ mpc' = "ask"
    /\ UNCHANGED <<ringVars, semVars, requestVars, rpc, spc, Ready, dropped>>

PostCheck ==
    /\ mpc = "ask"
    /\ UpSend_Sem' = UpSend_Sem + 1
    /\ mpc' = "await"
    /\ UNCHANGED <<ringVars, Xml_Send_Sem, ReportUp_Sem, GprsMana_Sem,
                   requestVars, rpc, spc, GprsGvc, gGPRSBusy, Ready,
                   dropped>>

AwaitCheck ==
    /\ mpc = "await"
    /\ GprsMana_Sem > 0
    /\ GprsMana_Sem' = GprsMana_Sem - 1
    /\ mpc' = "up"
    /\ UNCHANGED <<ringVars, Xml_Send_Sem, ReportUp_Sem, UpSend_Sem,
                   requestVars, rpc, spc, GprsGvc, gGPRSBusy, Ready,
                   dropped>>

-----------------------------------------------------------------------------

Request ==
    \/ XmlWant
    \/ ManaWant
    \/ DealWant
    \/ \E r \in Requesters : TakeTurn(r)
    \/ \E r \in Requesters : \E t \in TypesOf[r] : AskType(r, t)
    \/ \E t \in DealTypes, b \in Bodies : AskReport(t, b)
    \/ GiveTurnBack
    \/ \E r \in Requesters : PostReportUp(r)

ReportUp_main_proc ==
    \/ ReportUpWait
    \/ MakeXml
    \/ ReturnTurn
    \/ PlaceFile
    \/ WakeSender
    \/ PublishFile

GPRS_Upsend_main_proc ==
    \/ UpSendWait
    \/ ReadGvc
    \/ CheckDone
    \/ ClearGvc
    \/ DropWakeup
    \/ PassGate
    \/ FetchFile
    \/ SendPacket
    \/ LeaveFile
    \/ FreeFile

GPRS_Mana_main_proc ==
    \/ LinkReady
    \/ LinkUp
    \/ LinkRestart
    \/ AskCheck
    \/ PostCheck
    \/ AwaitCheck

UplinkNext ==
    \/ Request
    \/ ReportUp_main_proc
    \/ GPRS_Upsend_main_proc
    \/ GPRS_Mana_main_proc

\* Every thread that is not blocked goes on.  A requester need not ask, the
\* link need not come up; but a turn that was taken is used, and the sender's
\* GprsIPSEND, which waits with timeouts only, comes to its end.
UplinkFairness ==
    /\ WF_uplinkVars(ReportUp_main_proc)
    /\ WF_uplinkVars(UpSendWait \/ ReadGvc \/ CheckDone \/ ClearGvc
                        \/ DropWakeup \/ PassGate \/ FetchFile
                        \/ (SendPacket /\ reader = "reading")
                        \/ LeaveFile \/ FreeFile)
    /\ \A r \in Requesters :
          WF_uplinkVars(\/ \E t \in TypesOf[r] : AskType(r, t)
                        \/ PostReportUp(r))
    /\ WF_uplinkVars(\E t \in DealTypes, b \in Bodies : AskReport(t, b))
    /\ WF_uplinkVars(PostCheck \/ AwaitCheck)

UplinkSpec == UplinkInit /\ [][UplinkNext]_uplinkVars

UplinkFairSpec == UplinkSpec /\ UplinkFairness

-----------------------------------------------------------------------------
(* Properties *)

One(condition) == IF condition THEN 1 ELSE 0

Holds(r) == pc[r] \in {"hold", "typed"}

\* There is exactly one turn, and it is in one place: free, with a requester,
\* on its way to ReportUp_main_proc, or with it until the document is built.
\* Without this two requesters overwrite each other's gGPRS_XMLType.
TurnConserved ==
    Xml_Send_Sem + One(Holds("mana")) + One(Holds("xml")) + One(Holds("deal"))
        + ReportUp_Sem + One(rpc \in {"build", "built"}) = 1

\* The document built is the one asked for: its type is not overwritten
\* between the request and makexml, and a report's data is not either.
BuiltAsAsked == rpc = "built" => XMLFile[writepos] = asked

\* A link check asked for and not yet carried out.
CheckPending == GprsGvc /\ spc # "checked"

\* The sender holds a wake-up that it has not used up.
WakeupInHand ==
    \/ spc \in {"woken", "check", "gate"}
    \/ spc = "fetch" /\ reader # "done"

\* Wake-ups and work balance: every file in the ring and every link check has
\* its wake-up, except for the files whose wake-up was thrown away.
WakeupsBalanced ==
    Unread + One(CheckPending)
        = UpSend_Sem + dropped + One(WakeupInHand)
            + One(rpc = "wake") + One(mpc = "ask")

\* The sender never waits in vain for a readable file: if there is none, then
\* ReportUp_main_proc has just placed one and is about to say so.
SenderNotStranded ==
    spc = "fetch" /\ reader = "idle" /\ sem_read = 0 => rpc = "publish"

\* GPRS_Mana_main_proc waits for the answer to a link check exactly while the
\* check is outstanding or answered.
CheckHandshake ==
    One(mpc \in {"ask", "await"}) = One(CheckPending) + GprsMana_Sem

\* The uplink comes to a halt (ReportUp_main_proc waits for a free file, nobody
\* will wake the sender) only when every file lost its wake-up to a restart of
\* the module.
HaltedOnlyByDrops ==
    rpc = "commit" /\ sem_write = 0 /\ UpSend_Sem = 0 /\ spc = "idle"
        => dropped = XML_BUF_FILE_NUM - 1 \/ mpc = "ask"

\* Whoever takes the turn, it becomes free again - unless all files were lost
\* as above, and then every thread that has something to send waits for ever.
TurnComesBack ==
    Xml_Send_Sem = 0 ~> (Xml_Send_Sem = 1 \/ dropped = XML_BUF_FILE_NUM - 1)

\* The send ring inside the uplink behaves as the ring does on its own.
UplinkUsesRing == RingSpec

\* The uplink as a service: who has the turn, and the documents on their way.
Turn ==
    IF Xml_Send_Sem > 0 \/ rpc = "built" THEN "free"
    ELSE IF ReportUp_Sem > 0 \/ rpc = "build" THEN "posted"
    ELSE IF \E r \in Requesters : pc[r] = "typed" THEN "asked" ELSE "taken"

OnTheWay ==
    RingQueue \o IF rpc \in {"built", "commit"} THEN <<XMLFile[writepos]>>
                                               ELSE <<>>

AskedFor == IF rpc = "built" THEN NoDocument ELSE asked

Service == INSTANCE DocumentService WITH
    turn <- Turn, asked <- AskedFor, queue <- OnTheWay, out <- loaded,
    Capacity <- XML_BUF_FILE_NUM

\* Through a shared global, a chain of semaphores and a ring whose slots are
\* written before they are owned, exactly the documents that were asked for
\* reach the sender, in the order in which they were asked for.
UplinkServes == Service!ServiceSpec
=============================================================================
