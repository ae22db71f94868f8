----------------------------- MODULE MeterCycle -----------------------------
(***************************************************************************)
(* A metering round, from the timer that starts it to the report it makes: *)
(*                                                                         *)
(*   timer   -> com485 -> mbus     hand on g_uiReadMeterStatus;            *)
(*   mbus, XML_main_proc (QUERY) and GPRS_Mana_main_proc (login)           *)
(*           -> deal thread        set a bit of g_uiDataDealStatus and     *)
(*                                 post Xml_Deal_Sem.                      *)
(*                                                                         *)
(* Neither word is protected by anything.  g_uiReadMeterStatus is only     *)
(* ever assigned, but the timer does not ask whether the last round is     *)
(* over.  g_uiDataDealStatus is updated with |= and &= by four threads: a  *)
(* load and a store, and between them another thread's store may get lost. *)
(*                                                                         *)
(* The two ghosts at the end say whether that has happened.  untimely: a   *)
(* round did not have the time to itself that its successor must leave it  *)
(* (the comment at Centre_Controller.c 456).  raced: a store wrote over    *)
(* another thread's update.                                                *)
(***************************************************************************)
EXTENDS Integers

CONSTANTS
    RsMeters, MbusMeters,   \* Meter_Info_Table, by bus
    MaxRounds,              \* rounds; a round's gReadingDate is its number
    MaxRequests             \* QUERY commands and logins of the module

ASSUME CycleConstants == {MaxRounds, MaxRequests} \subseteq Nat

Meters == RsMeters \cup MbusMeters
Dates == 1 .. MaxRounds
NoDate == 0
Bits == {"REPORTUP", "CONTINUOUS"}

VARIABLES
    g_uiReadMeterStatus,
    gReadingDate,
    reportRow,              \* date of the REPORT row of ReadTime_Queue_Table
    timer, com485, mbus,    \* where the three threads of the round are
    todo,                   \* meters the thread that reads has still to poll
    g_uiDataDealStatus,     \* the bits that are set
    Xml_Deal_Sem,
    setter,                 \* where the threads that set a bit are
    deal,                   \* where CommandDeal_main_proc is
    loaded,                 \* the status word each of them has in a register
    queries, logins,
    \* ghosts
    polled,                 \* <<m, d>>: m was asked, its answer kept under d
    reported,               \* dates report_data took on
    untimely, raced

roundVars == <<g_uiReadMeterStatus, gReadingDate, reportRow, timer, com485,
               mbus, todo>>
statusVars == <<g_uiDataDealStatus, Xml_Deal_Sem, setter, loaded, raced>>
boundVars == <<queries, logins>>
cycleVars == <<roundVars, statusVars, deal, boundVars, polled, reported,
               untimely>>

-----------------------------------------------------------------------------
(* g_uiDataDealStatus                                                        *)

Setters == {"mbus", "xml", "mana"}
BitOf == [s \in Setters |-> IF s = "mana" THEN "CONTINUOUS" ELSE "REPORTUP"]

Load(t) == loaded' = [loaded EXCEPT ![t] = g_uiDataDealStatus]

\* The register is of no use afterwards.
Store(t, bits) ==
    /\ g_uiDataDealStatus' = bits
    /\ loaded' = [loaded EXCEPT ![t] = {}]
    /\ raced' = (raced \/ g_uiDataDealStatus # loaded[t])

\* Types.
CycleTypeOK ==
    /\ g_uiReadMeterStatus \in {"IDEL", "RS485", "MBUS"}
    /\ gReadingDate \in Dates \cup {NoDate}
    /\ reportRow \in Dates \cup {NoDate}
    /\ timer \in {"idle", "dated", "started", "deleted"}
    /\ com485 \in {"gone", "idle", "read"}
    /\ mbus \in {"gone", "idle", "read", "done"}
    /\ todo \in [{"com485", "mbus"} -> SUBSET Meters]
    /\ g_uiDataDealStatus \subseteq Bits
    /\ Xml_Deal_Sem \in Nat
    /\ setter \in [Setters -> {"idle", "load", "store", "post"}]
    /\ deal \in {"wait", "test", "loadClr", "storeClr", "report", "loadCont",
                 "storeCont", "testCont", "loadClrCont", "storeClrCont",
                 "resume"}
    /\ loaded \in [Setters \cup {"deal"} -> SUBSET Bits]
    /\ queries \in Nat /\ logins \in Nat
    /\ queries + logins <= MaxRequests
    /\ polled \subseteq Meters \X Dates
    /\ reported \subseteq Dates
    /\ untimely \in BOOLEAN /\ raced \in BOOLEAN

\* A thread that cannot open its device returns; the first signal of the
\* timer comes a minute after that.
CycleInit ==
    /\ g_uiReadMeterStatus = "IDEL"
    /\ gReadingDate = NoDate
    /\ reportRow = NoDate
    /\ timer = "idle"
    /\ com485 \in {"idle", "gone"} /\ mbus \in {"idle", "gone"}
    /\ todo = [t \in {"com485", "mbus"} |-> {}]
    /\ g_uiDataDealStatus = {}
    /\ Xml_Deal_Sem = 0
    /\ setter = [s \in Setters |-> "idle"]
    /\ deal = "wait"
    /\ loaded = [t \in Setters \cup {"deal"} |-> {}]
    /\ queries = 0 /\ logins = 0
    /\ polled = {}
    /\ reported = {}
    /\ untimely = FALSE /\ raced = FALSE

-----------------------------------------------------------------------------
(* The timer: ReadMeter_timer_proc in the minute of a round, a signal        *)
(* handler of whichever thread takes SIGALRM.                                *)

\* The last round is over and its report has been made.
Rest ==
    /\ g_uiReadMeterStatus = "IDEL"
    /\ com485 # "read" /\ mbus \notin {"read", "done"}
    /\ setter["mbus"] = "idle"
    /\ deal = "wait" /\ Xml_Deal_Sem = 0

TimerDate ==
    /\ timer = "idle"
    /\ gReadingDate < MaxRounds
    /\ gReadingDate' = gReadingDate + 1
    /\ timer' = "dated"
    /\ untimely' = (untimely \/ ~Rest)
    /\ UNCHANGED <<g_uiReadMeterStatus, reportRow, com485, mbus, todo,
                   statusVars, deal, boundVars, polled, reported>>

\* The old test for STATU_IDEL is commented out.
TimerStart ==
    /\ timer = "dated"
    /\ g_uiReadMeterStatus' = "RS485"
    /\ timer' = "started"
    /\ UNCHANGED <<gReadingDate, reportRow, com485, mbus, todo, statusVars,
                   deal, boundVars, polled, reported, untimely>>

TimerDelete ==
    /\ timer = "started"
    /\ reportRow' = NoDate
    /\ timer' = "deleted"
    /\ UNCHANGED <<g_uiReadMeterStatus, gReadingDate, com485, mbus, todo,
                   statusVars, deal, boundVars, polled, reported, untimely>>

TimerInsert ==
    /\ timer = "deleted"
    /\ reportRow' = gReadingDate
    /\ timer' = "idle"
    /\ UNCHANGED <<g_uiReadMeterStatus, gReadingDate, com485, mbus, todo,
                   statusVars, deal, boundVars, polled, reported, untimely>>

-----------------------------------------------------------------------------
(* The two buses                                                             *)

\* One of a thread's meters: it answers, and the reading is stored under the
\* date the global has at that moment, or it does not answer in time.
Poll(t, m) ==
    /\ m \in todo[t]
    /\ todo' = [todo EXCEPT ![t] = @ \ {m}]
    /\ polled' = polled \cup {<<m, gReadingDate>>}

Begin485 ==
    /\ com485 = "idle"
    /\ g_uiReadMeterStatus = "RS485"
    /\ com485' = "read"
    /\ todo' = [todo EXCEPT !["com485"] = RsMeters]
    /\ UNCHANGED <<g_uiReadMeterStatus, gReadingDate, reportRow, timer, mbus,
                   statusVars, deal, boundVars, polled, reported, untimely>>

Poll485 ==
    /\ com485 = "read"
    /\ \E m \in RsMeters : Poll("com485", m)
    /\ UNCHANGED <<g_uiReadMeterStatus, gReadingDate, reportRow, timer,
                   com485, mbus, statusVars, deal, boundVars, reported,
                   untimely>>

\* Mutant: the bus is handed on while meters are still to be polled.
End485Early ==
    /\ com485 = "read"
    /\ g_uiReadMeterStatus' = "MBUS"
    /\ com485' = "idle"
    /\ UNCHANGED <<gReadingDate, reportRow, timer, mbus, todo, statusVars,
                   deal, boundVars, polled, reported, untimely>>

End485 ==
    /\ com485 = "read"
    /\ todo["com485"] = {}
    /\ g_uiReadMeterStatus' = "MBUS"
    /\ com485' = "idle"
    /\ UNCHANGED <<gReadingDate, reportRow, timer, mbus, todo, statusVars,
                   deal, boundVars, polled, reported, untimely>>

BeginMbus ==
    /\ mbus = "idle"
    /\ g_uiReadMeterStatus = "MBUS"
    /\ mbus' = "read"
    /\ todo' = [todo EXCEPT !["mbus"] = MbusMeters]
    /\ UNCHANGED <<g_uiReadMeterStatus, gReadingDate, reportRow, timer,
                   com485, statusVars, deal, boundVars, polled, reported,
                   untimely>>

PollMbus ==
    /\ mbus = "read"
    /\ \E m \in MbusMeters : Poll("mbus", m)
    /\ UNCHANGED <<g_uiReadMeterStatus, gReadingDate, reportRow, timer,
                   com485, mbus, statusVars, deal, boundVars, reported,
                   untimely>>

\* The timer writes two rows while the buses are read for at least 12 s
\* (OSTimeDly in the M-Bus pass): if it has not done so yet, the round is
\* untimely.
EndMbus ==
    /\ mbus = "read"
    /\ todo["mbus"] = {}
    /\ g_uiReadMeterStatus' = "IDEL"
    /\ mbus' = "done"
    /\ setter' = [setter EXCEPT !["mbus"] = "load"]
    /\ untimely' = (untimely \/ timer # "idle")
    /\ UNCHANGED <<gReadingDate, reportRow, timer, com485, todo,
                   g_uiDataDealStatus, Xml_Deal_Sem, loaded, raced, deal,
                   boundVars, polled, reported>>

-----------------------------------------------------------------------------
(* Setting a bit of g_uiDataDealStatus and waking the deal thread            *)

\* CMD_ReviceXMLData, QUERY.
Query ==
    /\ setter["xml"] = "idle"
    /\ queries + logins < MaxRequests
    /\ queries' = queries + 1
    /\ setter' = [setter EXCEPT !["xml"] = "load"]
    /\ UNCHANGED <<roundVars, g_uiDataDealStatus, Xml_Deal_Sem, loaded, raced,
                   deal, logins, polled, reported, untimely>>

\* GPRS_Mana_main_proc, after UpdGprsRunSta_Cont.
Login ==
    /\ setter["mana"] = "idle"
    /\ queries + logins < MaxRequests
    /\ logins' = logins + 1
    /\ setter' = [setter EXCEPT !["mana"] = "load"]
    /\ UNCHANGED <<roundVars, g_uiDataDealStatus, Xml_Deal_Sem, loaded, raced,
                   deal, queries, polled, reported, untimely>>

LoadStatus(s) ==
    /\ setter[s] = "load"
    /\ Load(s)
    /\ setter' = [setter EXCEPT ![s] = "store"]
    /\ UNCHANGED <<roundVars, g_uiDataDealStatus, Xml_Deal_Sem, raced, deal,
                   boundVars, polled, reported, untimely>>

\* Mutant: no post if a bit was set already.
SetBitSavingPost(s) ==
    /\ setter[s] = "store"
    /\ Store(s, loaded[s] \cup {BitOf[s]})
    /\ setter' = [setter EXCEPT ![s] = IF loaded[s] = {} THEN "post"
                                       ELSE "idle"]
    /\ UNCHANGED <<roundVars, Xml_Deal_Sem, deal, boundVars, polled, reported,
                   untimely>>

SetBit(s) ==
    /\ setter[s] = "store"
    /\ Store(s, loaded[s] \cup {BitOf[s]})
    /\ setter' = [setter EXCEPT ![s] = "post"]
    /\ UNCHANGED <<roundVars, Xml_Deal_Sem, deal, boundVars, polled, reported,
                   untimely>>

PostDeal(s) ==
    /\ setter[s] = "post"
    /\ Xml_Deal_Sem' = Xml_Deal_Sem + 1
    /\ setter' = [setter EXCEPT ![s] = "idle"]
    /\ mbus' = IF s = "mbus" THEN "idle" ELSE mbus
    /\ UNCHANGED <<g_uiReadMeterStatus, gReadingDate, reportRow, timer,
                   com485, todo, g_uiDataDealStatus, loaded, raced, deal,
                   boundVars, polled, reported, untimely>>

-----------------------------------------------------------------------------
(* CommandDeal_main_proc; what report_data and continuous_data do with the   *)
(* document is ReportDelivery's subject.                                     *)

DealMoves(from, to) ==
    /\ deal = from
    /\ deal' = to
    /\ UNCHANGED <<roundVars, setter, boundVars, polled, untimely>>

\* Mutant: a sem_trywait whose result is ignored.
DealWaitUnchecked ==
    /\ Xml_Deal_Sem' = Xml_Deal_Sem - 1
    /\ DealMoves("wait", "test")
    /\ UNCHANGED <<g_uiDataDealStatus, loaded, raced, reported>>

DealWait ==
    /\ Xml_Deal_Sem > 0
    /\ Xml_Deal_Sem' = Xml_Deal_Sem - 1
    /\ DealMoves("wait", "test")
    /\ UNCHANGED <<g_uiDataDealStatus, loaded, raced, reported>>

DealTest ==
    /\ DealMoves("test", IF "REPORTUP" \in g_uiDataDealStatus THEN "loadClr"
                         ELSE "testCont")
    /\ UNCHANGED <<g_uiDataDealStatus, Xml_Deal_Sem, loaded, raced, reported>>

DealTestCont ==
    /\ DealMoves("testCont",
                 IF "CONTINUOUS" \in g_uiDataDealStatus THEN "loadClrCont"
                 ELSE "wait")
    /\ UNCHANGED <<g_uiDataDealStatus, Xml_Deal_Sem, loaded, raced, reported>>

\* The first half of the three updates of the deal thread.
DealLoad ==
    /\ \/ DealMoves("loadClr", "storeClr")
       \/ DealMoves("loadCont", "storeCont")
       \/ DealMoves("loadClrCont", "storeClrCont")
    /\ Load("deal")
    /\ UNCHANGED <<g_uiDataDealStatus, Xml_Deal_Sem, raced, reported>>

DealClear ==
    /\ DealMoves("storeClr", "report")
    /\ Store("deal", loaded["deal"] \ {"REPORTUP"})
    /\ UNCHANGED <<Xml_Deal_Sem, reported>>

ReportData ==
    /\ DealMoves("report", "loadCont")
    /\ reported' = reported \cup ({reportRow} \ {NoDate})
    /\ UNCHANGED <<g_uiDataDealStatus, Xml_Deal_Sem, loaded, raced>>

\* Mutant: = instead of |=.
DealAskResumeAssigning ==
    /\ DealMoves("storeCont", "testCont")
    /\ Store("deal", {"CONTINUOUS"})
    /\ UNCHANGED <<Xml_Deal_Sem, reported>>

DealAskResume ==
    /\ DealMoves("storeCont", "testCont")
    /\ Store("deal", loaded["deal"] \cup {"CONTINUOUS"})
    /\ UNCHANGED <<Xml_Deal_Sem, reported>>

DealClearCont ==
    /\ DealMoves("storeClrCont", "resume")
    /\ Store("deal", loaded["deal"] \ {"CONTINUOUS"})
    /\ UNCHANGED <<Xml_Deal_Sem, reported>>

DealResume ==
    /\ DealMoves("resume", "wait")
    /\ UNCHANGED <<g_uiDataDealStatus, Xml_Deal_Sem, loaded, raced, reported>>

-----------------------------------------------------------------------------

TimerNext == TimerStart \/ TimerDelete \/ TimerInsert
Com485Next == Begin485 \/ Poll485 \/ End485
MbusNext == BeginMbus \/ PollMbus \/ EndMbus
SetterNext(s) == LoadStatus(s) \/ SetBit(s) \/ PostDeal(s)
DealNext ==
    \/ DealWait \/ DealTest \/ DealTestCont \/ DealLoad \/ DealClear
    \/ ReportData \/ DealAskResume \/ DealClearCont \/ DealResume

CycleNext ==
    \/ TimerDate \/ TimerNext
    \/ Com485Next \/ MbusNext
    \/ Query \/ Login
    \/ \E s \in Setters : SetterNext(s)
    \/ DealNext

CycleSpec == CycleInit /\ [][CycleNext]_cycleVars

\* A thread that can go on does; no query and no login has to come, and
\* nothing is asked of the hour of the next round.
CycleFairSpec ==
    /\ CycleSpec
    /\ WF_cycleVars(TimerNext)
    /\ WF_cycleVars(Com485Next) /\ WF_cycleVars(MbusNext)
    /\ \A s \in Setters : WF_cycleVars(SetterNext(s))
    /\ WF_cycleVars(DealNext)

-----------------------------------------------------------------------------
(* Properties                                                                *)

\* The deal thread never sleeps on a request: a bit that is set while it
\* waits has its post in the semaphore, or the thread that set it is about to
\* post.  However the updates of the word race, an update may get lost but
\* never its wake-up (CommandDeal.c 800-814 and the three that set a bit).
WakeupForBits ==
    deal = "wait" /\ g_uiDataDealStatus # {} =>
        Xml_Deal_Sem > 0 \/ \E s \in Setters : setter[s] = "post"

\* Without queries a report is that of a whole round: when report_data takes
\* on a date, every meter of both buses has been polled for it, as long as
\* rounds are far enough apart and no update of the status word got lost.
ReportedComplete ==
    queries = 0 /\ ~untimely /\ ~raced =>
        \A d \in reported : \A m \in Meters : <<m, d>> \in polled

RoundOver(d) == mbus = "done" /\ gReadingDate = d

\* The end of a round is followed by the report of its date
\* (Centre_Controller.c 288), unless the next round has come too early.
RoundReported ==
    \A d \in Dates : RoundOver(d) ~> (d \in reported \/ untimely)

\* The same, unless an update of g_uiDataDealStatus got lost.
RoundReportedUnlessRaced ==
    \A d \in Dates : RoundOver(d) ~> (d \in reported \/ untimely \/ raced)
=============================================================================
