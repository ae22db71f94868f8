-------------------------- MODULE MeterCycleProofs --------------------------
(***************************************************************************)
(* Proofs about MeterCycle, for all meters and bounds: its types, that no  *)
(* request is slept on, and that reports are those of whole rounds.        *)
(***************************************************************************)
EXTENDS MeterCycle, TLAPS

-----------------------------------------------------------------------------
(* Types                                                                     *)

\* Before the first round nobody reads.
Begun ==
    gReadingDate = NoDate =>
        /\ g_uiReadMeterStatus = "IDEL" /\ timer = "idle"
        /\ com485 # "read" /\ mbus \notin {"read", "done"}

\* The M-Bus thread sets its bit after the pass and before the next one.
MbusSets == setter["mbus"] # "idle" <=> mbus = "done"

TypeInv == CycleTypeOK /\ Begun /\ MbusSets

\* Every step of CycleSpec keeps the types of MeterCycle's variables.
LEMMA TypeStep ==
    ASSUME TypeInv, [CycleNext]_cycleVars
    PROVE  TypeInv'
<1> USE CycleConstants
<1> USE DEF TypeInv, Begun, MbusSets, CycleTypeOK, Dates, NoDate, Bits, Setters
<1>1. CASE TimerDate
  BY <1>1 DEF TimerDate, statusVars, boundVars, Rest
<1>2. CASE TimerStart
  BY <1>2 DEF TimerStart, statusVars, boundVars
<1>3. CASE TimerDelete
  BY <1>3 DEF TimerDelete, statusVars, boundVars
<1>4. CASE TimerInsert
  BY <1>4 DEF TimerInsert, statusVars, boundVars
<1>5. CASE Begin485
  BY <1>5 DEF Begin485, statusVars, boundVars, Meters
<1>6. CASE Poll485
  <2>1. gReadingDate \in Dates
    BY <1>6 DEF Poll485
  <2> QED
    BY <1>6, <2>1 DEF Poll485, Poll, statusVars, boundVars, Meters
<1>7. CASE End485
  BY <1>7 DEF End485, statusVars, boundVars
<1>8. CASE BeginMbus
  BY <1>8 DEF BeginMbus, statusVars, boundVars, Meters
<1>9. CASE PollMbus
  <2>1. gReadingDate \in Dates
    BY <1>9 DEF PollMbus
  <2> QED
    BY <1>9, <2>1 DEF PollMbus, Poll, statusVars, boundVars, Meters
<1>10. CASE EndMbus
  BY <1>10 DEF EndMbus, boundVars
<1>11. CASE Query
  BY <1>11 DEF Query, roundVars
<1>12. CASE Login
  BY <1>12 DEF Login, roundVars
<1>13. ASSUME NEW s \in Setters, SetterNext(s)
      PROVE  TypeInv'
  <2>1. CASE LoadStatus(s)
    BY <2>1 DEF LoadStatus, Load, roundVars, boundVars
  <2>2. CASE SetBit(s)
    BY <2>2 DEF SetBit, Store, BitOf, roundVars, boundVars
  <2>3. CASE PostDeal(s)
    BY <2>3 DEF PostDeal, boundVars
  <2> QED BY <1>13, <2>1, <2>2, <2>3 DEF SetterNext
<1>14. CASE DealWait
  BY <1>14 DEF DealWait, DealMoves, roundVars, boundVars
<1>15. CASE DealTest
  BY <1>15 DEF DealTest, DealMoves, roundVars, boundVars
<1>16. CASE DealTestCont
  BY <1>16 DEF DealTestCont, DealMoves, roundVars, boundVars
<1>17. CASE DealLoad
  BY <1>17 DEF DealLoad, DealMoves, roundVars, boundVars, Load
<1>18. CASE DealClear
  BY <1>18 DEF DealClear, DealMoves, roundVars, boundVars, Store
<1>19. CASE ReportData
  BY <1>19 DEF ReportData, DealMoves, roundVars, boundVars
<1>20. CASE DealAskResume
  BY <1>20 DEF DealAskResume, DealMoves, roundVars, boundVars, Store
<1>21. CASE DealClearCont
  BY <1>21 DEF DealClearCont, DealMoves, roundVars, boundVars, Store
<1>22. CASE DealResume
  BY <1>22 DEF DealResume, DealMoves, roundVars, boundVars
<1>23. CASE UNCHANGED cycleVars
  BY <1>23 DEF cycleVars, roundVars, statusVars, boundVars
<1> QED
  BY <1>1, <1>2, <1>3, <1>4, <1>5, <1>6, <1>7, <1>8, <1>9, <1>10, <1>11, <1>12, <1>13, <1>14, <1>15, <1>16, <1>17, <1>18, <1>19, <1>20, <1>21, <1>22, <1>23
     DEF CycleNext, TimerNext, Com485Next, MbusNext, DealNext

LEMMA InitType == CycleInit => TypeInv
<1> SUFFICES ASSUME CycleInit PROVE TypeInv
  OBVIOUS
<1>1. todo \in [{"com485", "mbus"} -> SUBSET Meters]
  BY DEF CycleInit
<1>2. loaded \in [Setters \cup {"deal"} -> SUBSET Bits]
  BY DEF CycleInit
<1>3. setter \in [Setters -> {"idle", "load", "store", "post"}]
  BY DEF CycleInit
<1>4. queries \in Nat /\ logins \in Nat /\ queries + logins <= MaxRequests
  BY CycleConstants DEF CycleInit
<1>5. CycleTypeOK
  BY <1>1, <1>2, <1>3, <1>4 DEF CycleInit, CycleTypeOK, NoDate
<1>6. Begun /\ MbusSets
  BY DEF CycleInit, Begun, MbusSets, Setters
<1> QED
  BY <1>5, <1>6 DEF TypeInv

\* The types hold in every reachable state.
THEOREM CycleTypeCorrect == CycleSpec => []CycleTypeOK
<1>1. CycleInit => TypeInv
  BY InitType
<1>2. TypeInv /\ [CycleNext]_cycleVars => TypeInv'
  BY TypeStep
<1>3. TypeInv => CycleTypeOK
  BY DEF TypeInv
<1> QED
  BY <1>1, <1>2, <1>3, PTL DEF CycleSpec

-----------------------------------------------------------------------------
(* No request is slept on                                                    *)

Woken == Xml_Deal_Sem > 0 \/ \E s \in Setters : setter[s] = "post"

\* The deal thread has looked for a report, or for a resume, in this turn of
\* its loop; and it has in its register what it will store.
PastReport == {"report", "loadCont", "storeCont", "testCont", "loadClrCont",
               "storeClrCont", "resume", "wait"}
PastResume == {"resume", "wait"}
Storing == {"storeCont", "storeClrCont"}

\* A bit that is, or will be, set again behind the place where the deal
\* thread looks for it has its wake-up.
WakeInv ==
    /\ deal \in PastReport /\ "REPORTUP" \in g_uiDataDealStatus => Woken
    /\ deal \in Storing /\ "REPORTUP" \in loaded["deal"] => Woken
    /\ deal \in PastResume /\ "CONTINUOUS" \in g_uiDataDealStatus => Woken

\* What none of the steps of a round touches.
wakeVars == <<g_uiDataDealStatus, Xml_Deal_Sem, setter, loaded, deal>>

LEMMA WakeStep ==
    ASSUME TypeInv, WakeInv, [CycleNext]_cycleVars
    PROVE  WakeInv'
<1> USE DEF TypeInv, CycleTypeOK, Setters
<1>1. CASE UNCHANGED wakeVars
  BY <1>1 DEF wakeVars, WakeInv, Woken
<1>2. CASE TimerDate \/ TimerNext
  BY <1>1, <1>2 DEF TimerDate, TimerNext, TimerStart, TimerDelete,
                    TimerInsert, statusVars, wakeVars
<1>3. CASE Com485Next \/ BeginMbus \/ PollMbus
  BY <1>1, <1>3 DEF Com485Next, Begin485, Poll485, End485, BeginMbus,
                    PollMbus, statusVars, wakeVars
<1>4. CASE EndMbus
  BY <1>4 DEF EndMbus, WakeInv, Woken, MbusSets
<1>5. CASE Query
  BY <1>5 DEF Query, WakeInv, Woken
<1>6. CASE Login
  BY <1>6 DEF Login, WakeInv, Woken
<1>7. ASSUME NEW s \in Setters, SetterNext(s)
      PROVE  WakeInv'
  <2>1. CASE LoadStatus(s)
    <3>1. Woken => Woken'
      BY <2>1 DEF LoadStatus, Woken
    <3> QED BY <2>1, <3>1 DEF LoadStatus, Load, WakeInv
  <2>2. CASE SetBit(s)
    <3>1. Woken'
      BY <2>2 DEF SetBit, Woken
    <3> QED BY <3>1 DEF WakeInv
  <2>3. CASE PostDeal(s)
    <3>1. Woken'
      BY <2>3 DEF PostDeal, Woken
    <3> QED BY <3>1 DEF WakeInv
  <2> QED BY <1>7, <2>1, <2>2, <2>3 DEF SetterNext
<1>8. CASE DealNext
  <2> USE DEF DealMoves, WakeInv, Woken, PastReport, PastResume, Storing
  <2>1. CASE DealWait
    BY <2>1 DEF DealWait
  <2>2. CASE DealTest
    BY <2>2 DEF DealTest
  <2>3. CASE DealTestCont
    BY <2>3 DEF DealTestCont
  <2>4. CASE DealLoad
    BY <2>4 DEF DealLoad, Load
  <2>5. CASE DealClear
    BY <2>5 DEF DealClear, Store
  <2>6. CASE ReportData
    BY <2>6 DEF ReportData
  <2>7. CASE DealAskResume
    BY <2>7 DEF DealAskResume, Store
  <2>8. CASE DealClearCont
    BY <2>8 DEF DealClearCont, Store
  <2>9. CASE DealResume
    BY <2>9 DEF DealResume
  <2> QED
    BY <1>8, <2>1, <2>2, <2>3, <2>4, <2>5, <2>6, <2>7, <2>8, <2>9
       DEF DealNext
<1>9. CASE UNCHANGED cycleVars
  BY <1>1, <1>9 DEF cycleVars, statusVars, wakeVars
<1> QED
  BY <1>2, <1>3, <1>4, <1>5, <1>6, <1>7, <1>8, <1>9
     DEF CycleNext, MbusNext

\* The deal thread never sleeps on a request (CommandDeal.c 800-814): a lost
\* update of g_uiDataDealStatus may cost a request, but a bit that is set when
\* the thread waits has its wake-up.
THEOREM CycleWakeupForBits == CycleSpec => []WakeupForBits
<1>1. CycleInit => TypeInv /\ WakeInv
  BY InitType DEF CycleInit, WakeInv, Storing
<1>2. TypeInv /\ WakeInv /\ [CycleNext]_cycleVars => TypeInv' /\ WakeInv'
  BY TypeStep, WakeStep
<1>3. TypeInv /\ WakeInv => WakeupForBits
  <2> SUFFICES ASSUME TypeInv, WakeInv, deal = "wait",
                      g_uiDataDealStatus # {}
               PROVE  Woken
    BY DEF Woken, WakeupForBits
  <2>1. PICK b \in Bits : b \in g_uiDataDealStatus
    BY DEF TypeInv, CycleTypeOK
  <2> QED
    BY <2>1 DEF Bits, WakeInv, PastReport, PastResume
<1> QED
  BY <1>1, <1>2, <1>3, PTL DEF CycleSpec

-----------------------------------------------------------------------------
(* Reports are those of whole rounds                                         *)

AllPolled(M, d) == \A m \in M : <<m, d>> \in polled

\* The environment under which reports are promised to be whole.
Undisturbed == queries = 0 /\ ~untimely /\ ~raced

\* Where a round is.
RoundInv ==
    /\ com485 = "read" =>
           /\ g_uiReadMeterStatus = "RS485"
           /\ AllPolled(RsMeters \ todo["com485"], gReadingDate)
    /\ g_uiReadMeterStatus = "RS485" =>
           mbus \notin {"read", "done"} /\ timer # "dated"
    /\ g_uiReadMeterStatus = "MBUS" =>
           /\ mbus # "done" /\ timer # "dated"
           /\ AllPolled(RsMeters, gReadingDate)
    /\ mbus = "read" =>
           /\ g_uiReadMeterStatus = "MBUS"
           /\ AllPolled(MbusMeters \ todo["mbus"], gReadingDate)
    /\ mbus = "done" => AllPolled(Meters, gReadingDate)
    /\ timer = "idle" => reportRow = gReadingDate

\* A report has been asked for and not been made.
Due ==
    \/ mbus = "done"
    \/ "REPORTUP" \in g_uiDataDealStatus
    \/ deal \in {"loadClr", "storeClr", "report"}

\* Only the end of a round asks for a report, and by the next round's date the
\* report has been made.
DueInv ==
    /\ setter["xml"] = "idle"
    /\ Due => /\ g_uiReadMeterStatus = "IDEL" /\ timer = "idle"
              /\ AllPolled(Meters, gReadingDate)
    /\ "REPORTUP" \in g_uiDataDealStatus =>
           \/ deal \in {"test", "loadClr", "storeClr"}
           \/ Xml_Deal_Sem > 0
           \/ setter["mbus"] = "post"
    /\ \A d \in reported : AllPolled(Meters, d)

ReportInv == Undisturbed => RoundInv /\ DueInv
\* What neither a round nor a report may disturb in ReportInv: while the thread
\* that sets a bit, or the deal thread, moves, the round stays where it is.
LEMMA RoundKept ==
    ASSUME RoundInv, UNCHANGED <<roundVars, polled>>
    PROVE  RoundInv'
BY DEF RoundInv, roundVars, AllPolled

\* A reading once stored stays.
LEMMA PolledKept ==
    ASSUME NEW M, NEW d, AllPolled(M, d), polled \subseteq polled'
    PROVE  AllPolled(M, d)'
BY DEF AllPolled

LEMMA ReportStep ==
    ASSUME TypeInv, ReportInv, [CycleNext]_cycleVars
    PROVE  ReportInv'
<1> SUFFICES ASSUME Undisturbed'
             PROVE  RoundInv' /\ DueInv'
  BY DEF ReportInv
<1> USE DEF TypeInv, CycleTypeOK, Setters
<1>0. Undisturbed
  <2>1. queries \in Nat /\ (queries' = queries \/ queries' = queries + 1)
    BY DEF CycleNext, TimerDate, TimerNext, TimerStart, TimerDelete,
           TimerInsert, Com485Next, Begin485, Poll485, End485, MbusNext,
           BeginMbus, PollMbus, EndMbus, Query, Login, SetterNext, LoadStatus,
           SetBit, PostDeal, DealNext, DealWait, DealTest, DealTestCont,
           DealLoad, DealClear, ReportData, DealAskResume, DealClearCont,
           DealResume, DealMoves, boundVars, cycleVars
  <2>2. untimely => untimely'
    BY DEF CycleNext, TimerDate, TimerNext, TimerStart, TimerDelete,
           TimerInsert, Com485Next, Begin485, Poll485, End485, MbusNext,
           BeginMbus, PollMbus, EndMbus, Query, Login, SetterNext, LoadStatus,
           SetBit, PostDeal, DealNext, DealWait, DealTest, DealTestCont,
           DealLoad, DealClear, ReportData, DealAskResume, DealClearCont,
           DealResume, DealMoves, cycleVars
  <2>3. raced => raced'
    BY DEF CycleNext, TimerDate, TimerNext, TimerStart, TimerDelete,
           TimerInsert, Com485Next, Begin485, Poll485, End485, MbusNext,
           BeginMbus, PollMbus, EndMbus, Query, Login, SetterNext, LoadStatus,
           SetBit, PostDeal, DealNext, DealWait, DealTest, DealTestCont,
           DealLoad, DealClear, ReportData, DealAskResume, DealClearCont,
           DealResume, DealMoves, Store, statusVars, cycleVars
  <2> QED BY <2>1, <2>2, <2>3 DEF Undisturbed
<1>1. RoundInv /\ DueInv
  BY <1>0 DEF ReportInv
<1>2. CASE TimerDate
  <2>1. Rest
    BY <1>2 DEF TimerDate, Undisturbed
  <2>2. ~Due
    BY <1>1, <2>1 DEF Rest, Due, DueInv
  <2>3. RoundInv'
    BY <1>2, <2>1 DEF TimerDate, Rest, RoundInv
  <2>4. ~Due'
    BY <1>2, <2>2 DEF TimerDate, Due, statusVars
  <2>5. \A d \in reported' : AllPolled(Meters, d)'
    BY <1>1, <1>2 DEF TimerDate, DueInv, AllPolled
  <2> QED
    BY <1>1, <1>2, <2>3, <2>4, <2>5 DEF TimerDate, DueInv, Due, statusVars
<1>3. CASE TimerStart
  <2>1. ~Due /\ g_uiReadMeterStatus # "MBUS" /\ g_uiReadMeterStatus # "RS485"
    BY <1>1, <1>3 DEF TimerStart, DueInv, RoundInv
  <2>2. RoundInv'
    BY <1>1, <1>3, <2>1 DEF TimerStart, RoundInv, AllPolled, Due
  <2> QED
    BY <1>1, <1>3, <2>1, <2>2 DEF TimerStart, DueInv, Due, AllPolled,
                                  statusVars
<1>4. CASE TimerDelete \/ TimerInsert
  <2>1. ~Due
    BY <1>1, <1>4 DEF TimerDelete, TimerInsert, DueInv
  <2>2. RoundInv'
    BY <1>1, <1>4 DEF TimerDelete, TimerInsert, RoundInv, AllPolled
  <2> QED
    BY <1>1, <1>4, <2>1, <2>2 DEF TimerDelete, TimerInsert, DueInv, Due,
                                  AllPolled, statusVars
<1>5. CASE Begin485
  <2>1. RoundInv'
    BY <1>1, <1>5 DEF Begin485, RoundInv, AllPolled
  <2> QED
    BY <1>1, <1>5, <2>1 DEF Begin485, DueInv, Due, AllPolled, statusVars
<1>6. CASE Poll485
  <2>1. polled \subseteq polled'
    BY <1>6 DEF Poll485, Poll
  <2>2. AllPolled(RsMeters \ todo["com485"], gReadingDate)'
    BY <1>1, <1>6 DEF Poll485, Poll, RoundInv, AllPolled
  <2>3. todo'["mbus"] = todo["mbus"]
    BY <1>6 DEF Poll485, Poll
  <2>4. RoundInv'
    BY <1>1, <1>6, <2>1, <2>2, <2>3, PolledKept
       DEF Poll485, RoundInv, AllPolled
  <2> QED
    BY <1>1, <1>6, <2>1, <2>4 DEF Poll485, DueInv, Due, AllPolled, statusVars
<1>7. CASE End485
  <2>1. ~Due
    BY <1>1, <1>7 DEF End485, RoundInv, DueInv
  <2>2. RoundInv'
    BY <1>1, <1>7 DEF End485, RoundInv, AllPolled
  <2> QED
    BY <1>1, <1>7, <2>1, <2>2 DEF End485, DueInv, Due, AllPolled, statusVars
<1>8. CASE BeginMbus
  <2>1. ~Due
    BY <1>1, <1>8 DEF BeginMbus, DueInv
  <2>2. RoundInv'
    BY <1>1, <1>8 DEF BeginMbus, RoundInv, AllPolled
  <2> QED
    BY <1>1, <1>8, <2>1, <2>2 DEF BeginMbus, DueInv, Due, AllPolled,
                                  statusVars
<1>9. CASE PollMbus
  <2>1. polled \subseteq polled'
    BY <1>9 DEF PollMbus, Poll
  <2>2. AllPolled(MbusMeters \ todo["mbus"], gReadingDate)'
    BY <1>1, <1>9 DEF PollMbus, Poll, RoundInv, AllPolled
  <2>3. todo'["com485"] = todo["com485"]
    BY <1>9 DEF PollMbus, Poll
  <2>4. RoundInv'
    BY <1>1, <1>9, <2>1, <2>2, <2>3, PolledKept
       DEF PollMbus, RoundInv, AllPolled
  <2> QED
    BY <1>1, <1>9, <2>1, <2>4 DEF PollMbus, DueInv, Due, AllPolled, statusVars
<1>10. CASE EndMbus
  <2>1. timer = "idle"
    BY <1>10 DEF EndMbus, Undisturbed
  <2>2. AllPolled(Meters, gReadingDate)
    BY <1>1, <1>10 DEF EndMbus, RoundInv, AllPolled, Meters
  <2>3. com485 # "read"
    BY <1>1, <1>10 DEF EndMbus, RoundInv
  <2>4. RoundInv'
    BY <1>1, <1>10, <2>1, <2>2, <2>3 DEF EndMbus, RoundInv, AllPolled
  <2>5. setter'["mbus"] = "load" /\ setter'["xml"] = setter["xml"]
    BY <1>10 DEF EndMbus
  <2>6. setter["mbus"] # "post"
    BY <1>10 DEF EndMbus, MbusSets
  <2> QED
    BY <1>1, <1>10, <2>1, <2>2, <2>4, <2>5, <2>6 DEF EndMbus, DueInv, Due,
                                                     AllPolled
<1>11. CASE Query
  BY <1>11 DEF Query, Undisturbed
<1>12. CASE Login
  <2>1. RoundInv'
    BY <1>1, <1>12, RoundKept DEF Login
  <2> QED
    BY <1>1, <1>12, <2>1 DEF Login, DueInv, Due, AllPolled, roundVars
<1>13. ASSUME NEW s \in Setters, SetterNext(s)
       PROVE  RoundInv' /\ DueInv'
  <2>0. s # "xml"
    BY <1>1, <1>13 DEF SetterNext, LoadStatus, SetBit, PostDeal, DueInv
  <2>1. CASE LoadStatus(s)
    <3>1. RoundInv'
      BY <1>1, <2>1, RoundKept DEF LoadStatus
    <3>2. setter[s] # "post" /\ setter'["xml"] = setter["xml"]
      BY <2>0, <2>1 DEF LoadStatus
    <3> QED
      BY <1>1, <2>1, <3>1, <3>2 DEF LoadStatus, DueInv, Due, AllPolled,
                                    roundVars
  <2>2. CASE SetBit(s)
    <3>1. RoundInv'
      BY <1>1, <2>2, RoundKept DEF SetBit
    <3>2. loaded[s] = g_uiDataDealStatus
      BY <2>2 DEF SetBit, Store, Undisturbed
    <3>3. "REPORTUP" \in g_uiDataDealStatus' =>
             "REPORTUP" \in g_uiDataDealStatus \/ s = "mbus"
      BY <2>0, <2>2, <3>2 DEF SetBit, Store, BitOf
    <3>4. s = "mbus" => Due
      BY <2>2 DEF SetBit, MbusSets, Due
    <3>5. setter'[s] = "post" /\ setter'["xml"] = setter["xml"]
      BY <2>0, <2>2 DEF SetBit
    <3>6. s # "mbus" => setter'["mbus"] = setter["mbus"]
      BY <2>2 DEF SetBit
    <3>7. Due' => Due
      BY <2>2, <3>3, <3>4 DEF SetBit, Due, roundVars
    <3> QED
      BY <1>1, <2>2, <3>1, <3>3, <3>5, <3>6, <3>7
         DEF SetBit, DueInv, AllPolled, roundVars
  <2>3. CASE PostDeal(s)
    <3>1. RoundInv'
      BY <1>1, <2>3 DEF PostDeal, RoundInv, AllPolled
    <3>2. Due' => Due
      BY <2>3 DEF PostDeal, Due
    <3>3. Xml_Deal_Sem' > 0 /\ setter'["xml"] = setter["xml"]
      BY <2>0, <2>3 DEF PostDeal
    <3> QED
      BY <1>1, <2>3, <3>1, <3>2, <3>3 DEF PostDeal, DueInv, AllPolled
  <2> QED BY <1>13, <2>1, <2>2, <2>3 DEF SetterNext
<1>14. CASE DealNext
  <2>1. RoundInv'
    BY <1>1, <1>14, RoundKept
       DEF DealNext, DealWait, DealTest, DealTestCont, DealLoad, DealClear,
           ReportData, DealAskResume, DealClearCont, DealResume, DealMoves
  <2> USE DEF DealMoves, DueInv, Due, AllPolled, roundVars
  <2>2. CASE DealWait
    BY <1>1, <2>1, <2>2 DEF DealWait
  <2>3. CASE DealTest
    BY <1>1, <2>1, <2>3 DEF DealTest
  <2>4. CASE DealTestCont
    BY <1>1, <2>1, <2>4 DEF DealTestCont
  <2>5. CASE DealLoad
    BY <1>1, <2>1, <2>5 DEF DealLoad
  <2>6. CASE DealClear
    BY <1>1, <2>1, <2>6 DEF DealClear, Store
  <2>7. CASE ReportData
    <3>1. reportRow = gReadingDate
      BY <1>1, <2>7 DEF ReportData, RoundInv
    <3> QED BY <1>1, <2>1, <2>7, <3>1 DEF ReportData
  <2>8. CASE DealAskResume
    <3>1. loaded["deal"] = g_uiDataDealStatus
      BY <2>8 DEF DealAskResume, Store, Undisturbed
    <3> QED BY <1>1, <2>1, <2>8, <3>1 DEF DealAskResume, Store
  <2>9. CASE DealClearCont
    <3>1. loaded["deal"] = g_uiDataDealStatus
      BY <2>9 DEF DealClearCont, Store, Undisturbed
    <3> QED BY <1>1, <2>1, <2>9, <3>1 DEF DealClearCont, Store
  <2>10. CASE DealResume
    BY <1>1, <2>1, <2>10 DEF DealResume
  <2> QED
    BY <1>14, <2>2, <2>3, <2>4, <2>5, <2>6, <2>7, <2>8, <2>9, <2>10
       DEF DealNext
<1>15. CASE UNCHANGED cycleVars
  <2>1. RoundInv'
    BY <1>1, <1>15, RoundKept DEF cycleVars
  <2> QED
    BY <1>1, <1>15, <2>1 DEF cycleVars, roundVars, statusVars, DueInv, Due,
                             AllPolled
<1> QED
  BY <1>2, <1>3, <1>4, <1>5, <1>6, <1>7, <1>8, <1>9, <1>10, <1>11, <1>12,
     <1>13, <1>14, <1>15
     DEF CycleNext, TimerNext, Com485Next, MbusNext

\* A report that was not asked for by a query is that of a whole round
\* (Centre_Controller.c 240-290 and 327-354): its meters have all been polled,
\* unless rounds followed each other too closely or an update was lost.
THEOREM CycleReportedComplete == CycleSpec => []ReportedComplete
<1>1. CycleInit => TypeInv /\ ReportInv
  BY InitType DEF CycleInit, ReportInv, RoundInv, DueInv, Due, AllPolled,
                  Setters
<1>2. TypeInv /\ ReportInv /\ [CycleNext]_cycleVars => TypeInv' /\ ReportInv'
  BY TypeStep, ReportStep
<1>3. ReportInv => ReportedComplete
  BY DEF ReportInv, Undisturbed, DueInv, AllPolled, ReportedComplete
<1> QED
  BY <1>1, <1>2, <1>3, PTL DEF CycleSpec
=============================================================================
