----------------------------- MODULE GprsLink -----------------------------
(***************************************************************************)
(* The GPRS link: who starts the module, logs in and decides that it has to *)
(* be started anew, and who talks to it on the way.                        *)
(*                                                                         *)
(*   GPRS_Mana_main_proc    starts the module, logs in (ConnectConfirm), then*)
(*                          looks at the counters once per cycle            *)
(*   GPRS_Upsend_main_proc  sends the documents and, when asked, has the     *)
(*                          socket checked (CMD_IpClose_xmz)                *)
(*   Fun_GprsIpd_xmz        reads what the server sends                      *)
(*                                                                         *)
(* All three speak AT commands over one serial line.  The last two take turns*)
(* by GprsXmzSem; the manager uses the line while Ready is FALSE, without it.*)
(*                                                                         *)
(* How a document gets from its requester to the sender is the matter of    *)
(* Uplink, the bytes of what is read that of DocumentReception: here docs    *)
(* are the files ready to be sent, and inbox is what the module holds, one   *)
(* document per answer.  A use of the line is two steps, its begin and its   *)
(* end.                                                                    *)
(***************************************************************************)
EXTENDS Naturals, Sequences, FiniteSets

CONSTANTS
    Tries,         \* login attempts (5)
    SelfCheck,     \* GPRS_SELF_CHECK_CYCLE / GPRS_CHECK_CYCLE (5)
    HeartCycles,   \* HeartFrmSndCycles (6)
    DogCycles,     \* cycles without reception that mean a restart (30)
    IdleReads,     \* empty answers in a row that end reading on (5)
    MaxFiles,      \* bound: documents waiting to be sent
    MaxInbox,      \* bound: answers in the module
    MaxPosts,      \* bound: answers posted and not taken
    MaxFaults      \* bound: deaths of the link, failed and garbled exchanges

ASSUME LinkConstants ==
    /\ Tries \in Nat \ {0}
    /\ SelfCheck \in Nat \ {0}
    /\ HeartCycles \in Nat \ {0}
    /\ DogCycles \in Nat /\ DogCycles >= HeartCycles
    /\ IdleReads \in Nat
    /\ MaxFiles \in Nat \ {0}
    /\ MaxInbox \in Nat \ {0}
    /\ MaxPosts \in Nat
    /\ MaxFaults \in Nat

VARIABLES
    mana,          \* where GPRS_Mana_main_proc is
    TryT,
    selfchecknum,
    Ready, Connect, RecDog, SndDog, IpCloseNum, IpSendFailNum,  \* gGprsRunSta
    PRIO,          \* PRIO_TASK_GPRS_IPD
    gGPRSBusy,
    GprsGvc, UpSend, GprsMana,   \* the check asked for, and two semaphores
    docs,          \* the files ready to be sent
    snd,           \* where GPRS_Upsend_main_proc is
    rcv,           \* where Fun_GprsIpd_xmz is
    readErr, len,  \* the last read; len is 0, 1 (bytes) or 2 (over 400)
    Count, gUpdateBegin,
    GprsXmzSem,
    SEQUEUE_XML, RESULT_XML,     \* QueueSems: answers to the login
    alive,         \* the module answers and has its socket
    inbox,         \* documents of the server in the module
    urc,           \* an announcement waits to be read
    leaked,        \* ghost: GprsXmzSem was kept by a return
    intruded,      \* ghost: uses of the line by the sender in this restart
    accepted,      \* ghost: since the restart the server has passed a MD5, or
                   \* there was an answer left over from before
    faults

manaVars == <<mana, TryT, selfchecknum, Connect, gGPRSBusy>>
dogVars == <<RecDog, SndDog, IpCloseNum, IpSendFailNum>>
gateVars == <<Ready, PRIO>>
checkVars == <<GprsGvc, UpSend, GprsMana>>
rcvVars == <<rcv, readErr, len, Count, gUpdateBegin>>
loginVars == <<SEQUEUE_XML, RESULT_XML>>
moduleVars == <<alive, inbox, urc>>
ghostVars == <<leaked, intruded, accepted, faults>>
linkVars == <<manaVars, dogVars, gateVars, checkVars, docs, snd, rcvVars,
              GprsXmzSem, loginVars, moduleVars, ghostVars>>

\* OTHER: NOTIFY, the reports and the replies.
Kinds == {"REQUEST", "MD5", "OTHER"}
Answers == {"SEQUENCE", "RESULT", "OTHER"}

LinkTypeOK ==
    /\ mana \in {"stop", "init", "ready", "try", "request", "sequence", "md5",
                 "result", "loop", "await", "decide", "beat"}
    /\ TryT \in 0 .. Tries
    /\ selfchecknum \in 0 .. SelfCheck - 1
    /\ Ready \in BOOLEAN
    /\ Connect \in BOOLEAN
    /\ RecDog \in 0 .. DogCycles + 1
    /\ SndDog \in 0 .. HeartCycles
    /\ IpCloseNum \in 0 .. 2
    /\ IpSendFailNum \in 0 .. 3
    /\ PRIO \in BOOLEAN
    /\ gGPRSBusy \in BOOLEAN
    /\ GprsGvc \in BOOLEAN
    /\ UpSend \in 0 .. MaxFiles + 1
    /\ GprsMana \in 0 .. 1
    /\ docs \in Seq(Kinds) /\ Len(docs) <= MaxFiles
    /\ snd \in {"wait", "close", "closing", "answer", "send", "sending"}
    /\ rcv \in {"outer", "listen", "wait", "reading"}
    /\ readErr \in BOOLEAN
    /\ len \in 0 .. 2
    /\ Count \in 0 .. IdleReads + 1
    /\ gUpdateBegin \in BOOLEAN
    /\ GprsXmzSem \in 0 .. 1
    /\ SEQUEUE_XML \in 0 .. MaxPosts
    /\ RESULT_XML \in 0 .. MaxPosts
    /\ alive \in BOOLEAN
    /\ inbox \in Seq(Answers) /\ Len(inbox) <= MaxInbox
    /\ urc \in BOOLEAN
    /\ leaked \in BOOLEAN
    /\ intruded \in 0 .. 3
    /\ accepted \in BOOLEAN
    /\ faults \in 0 .. MaxFaults

\* The module has been powered on; what it answers yet is not known.
LinkInit ==
    /\ mana = "stop" /\ TryT = 0 /\ selfchecknum = 0
    /\ Ready = FALSE /\ Connect = FALSE
    /\ RecDog = 0 /\ SndDog = 0 /\ IpCloseNum = 0 /\ IpSendFailNum = 0
    /\ PRIO = FALSE
    /\ gGPRSBusy = FALSE
    /\ GprsGvc = FALSE /\ UpSend = 0 /\ GprsMana = 0
    /\ docs = <<>>
    /\ snd = "wait"
    /\ rcv = "outer" /\ readErr = FALSE /\ len = 0
    /\ Count = 0 /\ gUpdateBegin = FALSE
    /\ GprsXmzSem = 1
    /\ SEQUEUE_XML = 0 /\ RESULT_XML = 0
    /\ alive = FALSE /\ inbox = <<>> /\ urc = FALSE
    /\ leaked = FALSE /\ intruded = 0 /\ accepted = FALSE
    /\ faults = 0

\* A counter that is only compared with a limit stays there.
Saturated(n, limit) == IF n < limit THEN n + 1 ELSE limit

\* What an exchange may come to: a live module may still fail, and one that is
\* being started answers the manager, or nobody.
Outcome(ok) ==
    \/ ok /\ alive /\ faults' = faults
    \/ ~ok /\ (~alive \/ mana = "init") /\ faults' = faults
    \/ ~ok /\ alive /\ faults < MaxFaults /\ faults' = faults + 1

-----------------------------------------------------------------------------
(* Faulty variants of the definitions below, one plausible mistake each.  No *)
(* specification uses them: they are what the properties must tell from the  *)
(* code.                                                                     *)

\* the state is reset when the module has been started, not before
StopWithoutReset ==
    /\ mana = "stop"
    /\ mana' = "init"
    /\ PRIO' = FALSE
    /\ Connect' = FALSE
    /\ RecDog' = 0 /\ SndDog' = 0 /\ IpCloseNum' = 0 /\ IpSendFailNum' = 0
    /\ intruded' = IF snd \in {"closing", "sending"} THEN 1 ELSE 0
    /\ UNCHANGED <<TryT, selfchecknum, gGPRSBusy, Ready, checkVars, docs, snd,
                   rcvVars, GprsXmzSem, loginVars, moduleVars, leaked,
                   accepted, faults>>

\* a login whose result does not come counts as one
ResultTimeoutAccepted ==
    /\ mana = "result"
    /\ RESULT_XML = 0
    /\ mana' = "loop"
    /\ Connect' = TRUE
    /\ UNCHANGED <<TryT, selfchecknum, gGPRSBusy, dogVars, gateVars, checkVars,
                   docs, snd, rcvVars, GprsXmzSem, loginVars, moduleVars,
                   ghostVars>>

\* the second failed read gives the line back twice
ReadFailsPostingTwice ==
    /\ rcv = "reading"
    /\ Outcome(FALSE)
    /\ GprsXmzSem' = GprsXmzSem + IF readErr THEN 2 ELSE 1
    /\ readErr' = TRUE
    /\ rcv' = IF readErr THEN "outer" ELSE "wait"
    /\ RecDog' = IF readErr THEN 0 ELSE RecDog
    /\ UNCHANGED <<manaVars, SndDog, IpCloseNum, IpSendFailNum, gateVars,
                   checkVars, docs, snd, len, Count, gUpdateBegin, loginVars,
                   moduleVars, leaked, intruded, accepted>>

\* a successful transmission does not reset the count of failed ones
NoFailureLeft(failed) == Saturated(failed, 3) - 1

\* the attempts are counted anew after a timeout
TryLoginForEver ==
    /\ mana = "try"
    /\ mana' = "request"
    /\ TryT' = 1
    /\ UNCHANGED <<selfchecknum, Connect, gGPRSBusy, dogVars, gateVars,
                   checkVars, docs, snd, rcvVars, GprsXmzSem, loginVars,
                   moduleVars, ghostVars>>

-----------------------------------------------------------------------------
(* GPRS_Mana_main_proc *)

\* The head of the loop, before the module is started: the receiver is to
\* stop, and InitGprsRunSta tells the sender not to use the line.
Stop ==
    /\ mana = "stop"
    /\ mana' = "init"
    /\ PRIO' = FALSE
    /\ Ready' = FALSE /\ Connect' = FALSE
    /\ RecDog' = 0 /\ SndDog' = 0 /\ IpCloseNum' = 0 /\ IpSendFailNum' = 0
    /\ intruded' = IF snd \in {"closing", "sending"} THEN 1 ELSE 0
    /\ UNCHANGED <<TryT, selfchecknum, gGPRSBusy, checkVars, docs, snd,
                   rcvVars, GprsXmzSem, loginVars, moduleVars, leaked,
                   accepted, faults>>

\* GprsInit_xmz repeats the power cycle and its commands until all succeed.
\* The module has lost what it held.
StartModule ==
    /\ mana = "init"
    /\ mana' = "ready"
    /\ alive' = TRUE
    /\ inbox' = <<>>
    /\ accepted' = (RESULT_XML > 0)
    /\ intruded' = 0
    /\ UNCHANGED <<TryT, selfchecknum, Connect, gGPRSBusy, dogVars, gateVars,
                   checkVars, docs, snd, rcvVars, GprsXmzSem, loginVars, urc, 
                   leaked, faults>>

\* The line belongs to the two others.
HandLineOver ==
    /\ mana = "ready"
    /\ mana' = "try"
    /\ Ready' = TRUE
    /\ PRIO' = TRUE
    /\ TryT' = 0
    /\ UNCHANGED <<selfchecknum, Connect, gGPRSBusy, dogVars, checkVars, docs,
                   snd, rcvVars, GprsXmzSem, loginVars, moduleVars, ghostVars>>

\* The head of the loop of ConnectConfirm.  The two semaphores it initialises
\* are not the ones it waits on: those are copies, made by value at start.
TryLogin ==
    /\ mana = "try"
    /\ IF TryT >= Tries
       THEN mana' = "stop" /\ TryT' = 0
       ELSE mana' = "request" /\ TryT' = TryT + 1
    /\ UNCHANGED <<selfchecknum, Connect, gGPRSBusy, dogVars, gateVars,
                   checkVars, docs, snd, rcvVars, GprsXmzSem, loginVars,
                   moduleVars, ghostVars>>

\* setGprsXmlType, with what Uplink makes of it: a file and a wake-up.  The
\* requester waits while all files are in use.
PutDocument(kind) ==
    /\ Len(docs) < MaxFiles
    /\ docs' = Append(docs, kind)
    /\ UpSend' = UpSend + 1

ManagerPuts(kind, from, to) ==
    /\ mana = from
    /\ mana' = to
    /\ PutDocument(kind)
    /\ UNCHANGED <<TryT, selfchecknum, Connect, dogVars, gateVars, GprsGvc,
                   GprsMana, snd, rcvVars, GprsXmzSem, loginVars, moduleVars,
                   ghostVars>>

AskLogin == ManagerPuts("REQUEST", "request", "sequence") /\ UNCHANGED gGPRSBusy
AnswerSequence == ManagerPuts("MD5", "md5", "result") /\ UNCHANGED gGPRSBusy

\* OSSemPend(SEQUEUE_XML, 30 s).
TakeSequence ==
    /\ mana = "sequence"
    /\ SEQUEUE_XML > 0
    /\ SEQUEUE_XML' = SEQUEUE_XML - 1
    /\ mana' = "md5"
    /\ UNCHANGED <<TryT, selfchecknum, Connect, gGPRSBusy, dogVars, gateVars,
                   checkVars, docs, snd, rcvVars, GprsXmzSem, RESULT_XML,
                   moduleVars, ghostVars>>

\* OSSemPend(RESULT_XML, 30 s): the login is taken for confirmed.
TakeResult ==
    /\ mana = "result"
    /\ RESULT_XML > 0
    /\ RESULT_XML' = RESULT_XML - 1
    /\ mana' = "loop"
    /\ Connect' = TRUE
    /\ selfchecknum' = 0
    /\ TryT' = 0
    /\ UNCHANGED <<gGPRSBusy, dogVars, gateVars, checkVars, docs, snd,
                   rcvVars, GprsXmzSem, SEQUEUE_XML, moduleVars, ghostVars>>

SequenceTimeout ==
    /\ mana = "sequence"
    /\ SEQUEUE_XML = 0
    /\ mana' = "try"
    /\ UNCHANGED <<TryT, selfchecknum, Connect, gGPRSBusy, dogVars, gateVars,
                   checkVars, docs, snd, rcvVars, GprsXmzSem, loginVars,
                   moduleVars, ghostVars>>

ResultTimeout ==
    /\ mana = "result"
    /\ RESULT_XML = 0
    /\ mana' = "try"
    /\ UNCHANGED <<TryT, selfchecknum, Connect, gGPRSBusy, dogVars, gateVars,
                   checkVars, docs, snd, rcvVars, GprsXmzSem, loginVars,
                   moduleVars, ghostVars>>

\* A cycle of the supervision.  The sender is asked for a check only while
\* gGPRSBusy is 0, which the heartbeat makes it again.
Cycle ==
    LET due == (selfchecknum + 1) % SelfCheck = 0 /\ ~gGPRSBusy
    IN  /\ mana = "loop"
        /\ SndDog' = Saturated(SndDog, HeartCycles)
        /\ RecDog' = Saturated(RecDog, DogCycles + 1)
        /\ selfchecknum' = (selfchecknum + 1) % SelfCheck
        /\ IF due
           THEN /\ gGPRSBusy' = TRUE
                /\ GprsGvc' = TRUE
                /\ UpSend' = UpSend + 1
                /\ mana' = "await"
           ELSE /\ mana' = "decide"
                /\ UNCHANGED <<gGPRSBusy, GprsGvc, UpSend>>
        /\ UNCHANGED <<TryT, Connect, IpCloseNum, IpSendFailNum, gateVars,
                       GprsMana, docs, snd, rcvVars, GprsXmzSem, loginVars,
                       moduleVars, ghostVars>>

\* sem_wait(&GprsMana_Sem), without a limit.
AwaitCheck ==
    /\ mana = "await"
    /\ GprsMana > 0
    /\ GprsMana' = GprsMana - 1
    /\ mana' = "decide"
    /\ UNCHANGED <<TryT, selfchecknum, Connect, gGPRSBusy, dogVars, gateVars,
                   GprsGvc, UpSend, docs, snd, rcvVars, GprsXmzSem, loginVars,
                   moduleVars, ghostVars>>

\* The counters decide on a restart, the dogs on a heartbeat.
Decide ==
    /\ mana = "decide"
    /\ IF IpCloseNum >= 2 \/ RecDog > DogCycles \/ IpSendFailNum > 2
       THEN mana' = "stop" /\ Connect' = FALSE
       ELSE /\ mana' = IF SndDog >= HeartCycles /\ RecDog >= HeartCycles
                       THEN "beat" ELSE "loop"
            /\ UNCHANGED Connect
    /\ UNCHANGED <<TryT, selfchecknum, gGPRSBusy, dogVars, gateVars, checkVars,
                   docs, snd, rcvVars, GprsXmzSem, loginVars, moduleVars,
                   ghostVars>>

\* The heartbeat; the next check is allowed.
Beat == ManagerPuts("OTHER", "beat", "loop") /\ gGPRSBusy' = FALSE

Manager ==
    \/ Stop \/ StartModule \/ HandLineOver
    \/ TryLogin \/ AskLogin \/ TakeSequence \/ SequenceTimeout
    \/ AnswerSequence \/ TakeResult \/ ResultTimeout
    \/ Cycle \/ AwaitCheck \/ Decide \/ Beat

\* Another thread sends something (report_data, CMD_ReviceXMLData).
Report ==
    /\ PutDocument("OTHER")
    /\ UNCHANGED <<manaVars, dogVars, gateVars, GprsGvc, GprsMana, snd,
                   rcvVars, GprsXmzSem, loginVars, moduleVars, ghostVars>>

-----------------------------------------------------------------------------
(* GPRS_Upsend_main_proc *)

\* A wake-up: a check is answered in any case, and made when Ready; a wake-up
\* for a document is dropped unless Ready.
SenderWakes ==
    /\ snd = "wait"
    /\ UpSend > 0
    /\ UpSend' = UpSend - 1
    /\ snd' = IF GprsGvc THEN IF Ready THEN "close" ELSE "answer"
              ELSE IF Ready THEN "send" ELSE "wait"
    /\ UNCHANGED <<manaVars, dogVars, gateVars, GprsGvc, GprsMana, docs,
                   rcvVars, GprsXmzSem, loginVars, moduleVars, ghostVars>>

\* sem_wait(&GprsXmzSem) of CMD_IpClose_xmz and of GprsIPSEND_xmz; the latter
\* after sem_wait(&gXML_Send_File.sem_read).
SenderTakesLine ==
    /\ \/ snd = "close"
       \/ snd = "send" /\ docs # <<>>
    /\ GprsXmzSem > 0
    /\ GprsXmzSem' = GprsXmzSem - 1
    /\ snd' = IF snd = "close" THEN "closing" ELSE "sending"
    /\ intruded' = IF mana = "init" THEN Saturated(intruded, 3) ELSE intruded
    /\ UNCHANGED <<manaVars, dogVars, gateVars, checkVars, docs, rcvVars,
                   loginVars, moduleVars, leaked, accepted, faults>>

\* The check is over: CMD_IpClose_xmz gives the line back on every path.
CloseEnds(ok) ==
    /\ snd = "closing"
    /\ Outcome(ok)
    /\ snd' = "answer"
    /\ GprsXmzSem' = GprsXmzSem + 1
    /\ IpCloseNum' = IF ok THEN 0 ELSE Saturated(IpCloseNum, 2)
    /\ UNCHANGED <<manaVars, RecDog, SndDog, IpSendFailNum, gateVars,
                   checkVars, docs, rcvVars, loginVars, moduleVars, leaked,
                   intruded, accepted>>

\* sem_post(&GprsMana_Sem); GprsGvc = FALSE (their order: Uplink).
AnswerCheck ==
    /\ snd = "answer"
    /\ snd' = "wait"
    /\ GprsMana' = GprsMana + 1
    /\ GprsGvc' = FALSE
    /\ UNCHANGED <<manaVars, dogVars, gateVars, UpSend, docs, rcvVars,
                   GprsXmzSem, loginVars, moduleVars, ghostVars>>

\* The server's next document reaches the module.
Received(answer) ==
    /\ Len(inbox) < MaxInbox
    /\ inbox' = Append(inbox, answer)
    /\ urc' = (urc \/ inbox = <<>>)

\* What the server makes of a document: an answer, or nothing.
Served(kind) ==
    \/ UNCHANGED <<inbox, urc, accepted>>
    \/ kind = "REQUEST" /\ Received("SEQUENCE") /\ UNCHANGED accepted
    \/ kind = "MD5" /\ Received("RESULT") /\ accepted' = TRUE

\* UpdGprsRunSta_FeedIpSendFailNum
NoFailure(failed) == 0

\* The document is sent.  One whose size is a multiple of the packet's ends
\* with a packet of length 0, which counts as a failure without using the line
\* (the documents of the login are shorter than a packet).
SendSucceeds(emptyEnd) ==
    /\ snd = "sending"
    /\ emptyEnd => Head(docs) = "OTHER"
    /\ Outcome(TRUE)
    /\ snd' = "wait"
    /\ GprsXmzSem' = GprsXmzSem + 1
    /\ SndDog' = 0
    /\ IpSendFailNum' =
         LET n == NoFailure(IpSendFailNum)
         IN  IF emptyEnd THEN Saturated(n, 3) ELSE n
    /\ Served(Head(docs))
    /\ docs' = Tail(docs)
    /\ UNCHANGED <<manaVars, RecDog, IpCloseNum, gateVars, checkVars, rcvVars,
                   loginVars, alive, leaked, intruded>>

\* A packet fails: the rest of the document is given up.
SendFails ==
    /\ snd = "sending"
    /\ Outcome(FALSE)
    /\ snd' = "wait"
    /\ GprsXmzSem' = GprsXmzSem + 1
    /\ IpSendFailNum' = Saturated(IpSendFailNum, 3)
    /\ docs' = Tail(docs)
    /\ UNCHANGED <<manaVars, RecDog, SndDog, IpCloseNum, gateVars, checkVars,
                   rcvVars, loginVars, moduleVars, leaked, intruded, accepted>>

Sender ==
    \/ SenderWakes \/ SenderTakesLine \/ AnswerCheck
    \/ \E ok \in BOOLEAN : CloseEnds(ok)
    \/ \E emptyEnd \in BOOLEAN : SendSucceeds(emptyEnd)
    \/ SendFails

-----------------------------------------------------------------------------
(* Fun_GprsIpd_xmz.  The bytes and the announcements: DocumentReception *)

\* The outer loop, entered again while PRIO is 1.
BeginRound ==
    /\ rcv = "outer"
    /\ PRIO
    /\ IF gUpdateBegin
       THEN rcv' = "wait" /\ readErr' = FALSE /\ urc' = FALSE
       ELSE rcv' = "listen" /\ UNCHANGED <<readErr, urc>>
    /\ UNCHANGED <<manaVars, dogVars, gateVars, checkVars, docs, snd, len,
                   Count, gUpdateBegin, GprsXmzSem, loginVars, alive, inbox,
                   ghostVars>>

\* Data is announced; the wait for it has no limit.
Announced ==
    /\ rcv = "listen"
    /\ urc
    /\ urc' = FALSE
    /\ rcv' = "wait"
    /\ readErr' = FALSE
    /\ UNCHANGED <<manaVars, dogVars, gateVars, checkVars, docs, snd, len,
                   Count, gUpdateBegin, GprsXmzSem, loginVars, alive, inbox,
                   ghostVars>>

\* sem_wait(&GprsXmzSem) of GprsGetIPDATA_jh.
ReceiverTakesLine ==
    /\ rcv = "wait"
    /\ GprsXmzSem > 0
    /\ GprsXmzSem' = GprsXmzSem - 1
    /\ rcv' = "reading"
    /\ UNCHANGED <<manaVars, dogVars, gateVars, checkVars, docs, snd, readErr,
                   len, Count, gUpdateBegin, loginVars, moduleVars, ghostVars>>

\* CMD_ReviceXMLData posts for an answer to the login.
Posted(answer) ==
    /\ SEQUEUE_XML' = IF answer = "SEQUENCE"
                      THEN Saturated(SEQUEUE_XML, MaxPosts) ELSE SEQUEUE_XML
    /\ RESULT_XML' = IF answer = "RESULT"
                     THEN Saturated(RESULT_XML, MaxPosts) ELSE RESULT_XML

\* After a read: a long answer begins the mode that reads without
\* announcements, a row of empty ones ends it, and the dog is fed whether or
\* not anything was read.
RoundCounted(n) ==
    LET empty == IF n > 0 THEN 0 ELSE Saturated(Count, IdleReads + 1)
    IN  /\ Count' = empty
        /\ gUpdateBegin' = IF empty > IdleReads THEN FALSE
                           ELSE gUpdateBegin \/ n = 2
        /\ RecDog' = 0

\* A read that succeeds, with what the module holds or with nothing.
ReadEnds(n) ==
    /\ rcv = "reading"
    /\ Outcome(TRUE)
    /\ GprsXmzSem' = GprsXmzSem + 1
    /\ readErr' = FALSE
    /\ len' = n
    /\ IF inbox = <<>>
       THEN n = 0 /\ UNCHANGED <<inbox, loginVars>> /\ rcv' = "outer"
       ELSE n > 0 /\ inbox' = Tail(inbox) /\ Posted(Head(inbox)) /\ rcv' = "wait"
    /\ RoundCounted(n)
    /\ UNCHANGED <<manaVars, SndDog, IpCloseNum, IpSendFailNum, gateVars,
                   checkVars, docs, snd, alive, urc, leaked, intruded,
                   accepted>>

\* A read that fails is tried once more.  Then the round goes on with the len
\* of an earlier answer.
ReadFails ==
    /\ rcv = "reading"
    /\ Outcome(FALSE)
    /\ GprsXmzSem' = GprsXmzSem + 1
    /\ readErr' = TRUE
    /\ \/ /\ ~readErr
          /\ rcv' = "wait"
          /\ UNCHANGED <<RecDog, Count, gUpdateBegin>>
       \/ /\ readErr
          /\ rcv' = "outer"
          /\ RoundCounted(len)
    /\ UNCHANGED <<manaVars, SndDog, IpCloseNum, IpSendFailNum, gateVars,
                   checkVars, docs, snd, len, loginVars, moduleVars, leaked,
                   intruded, accepted>>

\* A length over MAX_REC_MC52i_BYTENUM, read from garbled bytes, is returned
\* as an error without sem_post: whoever uses the line next waits for ever,
\* the receiver itself unless it was the second attempt.
ReadOversized ==
    /\ rcv = "reading"
    /\ faults < MaxFaults
    /\ faults' = faults + 1
    /\ readErr' = TRUE
    /\ rcv' = IF readErr THEN "outer" ELSE "wait"
    /\ leaked' = TRUE
    /\ IF readErr
       THEN RoundCounted(len)
       ELSE UNCHANGED <<RecDog, Count, gUpdateBegin>>
    /\ UNCHANGED <<manaVars, SndDog, IpCloseNum, IpSendFailNum, gateVars,
                   checkVars, docs, snd, len, GprsXmzSem, loginVars,
                   moduleVars, intruded, accepted>>

Receiver ==
    \/ BeginRound \/ Announced \/ ReceiverTakesLine
    \/ \E n \in 0 .. 2 : ReadEnds(n)
    \/ ReadFails

-----------------------------------------------------------------------------
(* The network *)

\* The server sends something of its own (external).
ServerSends ==
    /\ alive
    /\ inbox = <<>>
    /\ Received("OTHER")
    /\ UNCHANGED <<manaVars, dogVars, gateVars, checkVars, docs, snd, rcvVars,
                   GprsXmzSem, loginVars, alive, ghostVars>>

\* The module stops answering (external); nobody will read what it holds.
LinkDies ==
    /\ alive
    /\ faults < MaxFaults
    /\ faults' = faults + 1
    /\ alive' = FALSE
    /\ inbox' = <<>>
    /\ UNCHANGED <<manaVars, dogVars, gateVars, checkVars, docs, snd, rcvVars,
                   GprsXmzSem, loginVars, urc, leaked, intruded, accepted>>

LinkNext ==
    \/ Manager \/ Report \/ Sender \/ Receiver
    \/ ReadOversized \/ ServerSends \/ LinkDies

LinkSpec == LinkInit /\ [][LinkNext]_linkVars

\* The three threads run; what other threads and the network do is their own.
\* The receiver waits an eighth of a second between two uses of the line
\* (gprs_mana.c:61 and 82), so that it cannot keep the sender from it; and the
\* others that send do not keep the manager from its turn for ever.
LinkFairSpec ==
    /\ LinkSpec
    /\ SF_linkVars(Manager)
    /\ WF_linkVars(Sender)
    /\ WF_linkVars(Receiver)
    /\ SF_linkVars(SenderTakesLine)

-----------------------------------------------------------------------------
(* Properties *)

SenderUses == snd \in {"closing", "sending"}
ReceiverUses == rcv = "reading"

\* Sender and receiver never speak AT commands at the same time; the line is
\* taken by one of them, free, or lost for both.  That the manager may start
\* the module under a use that had begun (or had passed the test of Ready) is
\* limited to one such use in a restart.
AtUseDisciplined ==
    /\ ~(SenderUses /\ ReceiverUses)
    /\ GprsXmzSem = 0 => SenderUses \/ ReceiverUses \/ leaked
    /\ leaked => GprsXmzSem = 0
    /\ mana = "init" => intruded <= 1

\* The program takes itself for connected only after the server has passed a
\* MD5 sent since the module was started, unless an answer to an earlier login
\* had been left in the semaphore: ConnectConfirm does not empty the one it
\* waits on.
LoginConfirmed == Connect => accepted

\* Without a failed exchange nothing counts against the link: documents that
\* end with an empty packet and exchanges broken by a restart never add up to
\* another restart.
HealthyNotBlamed ==
    faults = 0 => IpSendFailNum <= 2 /\ IpCloseNum <= 1

\* What stops the supervision for ever: GprsXmzSem is lost, or so many wake-ups
\* were dropped while Ready was FALSE that every file waits to be sent and
\* nobody is woken for it (HaltedOnlyByDrops of Uplink).
Halted == leaked \/ (Len(docs) = MaxFiles /\ UpSend = 0)

\* A link that has died is started anew, whatever the threads are doing, unless
\* the supervision is halted or the receiver is left in the mode that reads
\* without announcements: it feeds the dog with every read that fails.
DeadLinkRestarted ==
    []<>alive \/ <>[]Halted \/ <>[](gUpdateBegin /\ len > 0)

\* The manager looks at the state of the link at regular intervals and decides
\* whether to start it anew (gprs_mana.c:310-311): a link that has died does
\* not stay dead, unless the supervision is halted.
LinkSupervised == []<>alive \/ <>[]Halted
=============================================================================
