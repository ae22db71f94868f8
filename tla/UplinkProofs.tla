---------------------------- MODULE UplinkProofs ----------------------------
(***************************************************************************)
(* Proofs about the shared uplink, for every size of the ring and every     *)
(* choice of document types and data.                                      *)
(*                                                                         *)
(* The inductive invariant UplinkInv is the ring's own invariant, the      *)
(* position of the turn (TurnConserved), the balance of wake-ups and work  *)
(* (WakeupsBalanced, CheckHandshake), and what ties the places of the      *)
(* threads to each other (Places).  The balance needs the ring: a file is  *)
(* counted by Unread from Commit to AdvanceRead, so every step of the      *)
(* uplink is first shown to be a step of the ring or to leave it alone.    *)
(* The last part is the refinement of DocumentService.                     *)
(***************************************************************************)
EXTENDS Uplink, XmlFileRingProofs

-----------------------------------------------------------------------------
(* The uplink uses the ring as the ring is meant to be used *)

UplinkTypes ==
    /\ Xml_Send_Sem \in Nat
    /\ ReportUp_Sem \in Nat
    /\ UpSend_Sem \in Nat
    /\ GprsMana_Sem \in Nat
    /\ gGPRS_XMLType \in DocTypes
    /\ gxml_DataInfo_T \in Bodies
    /\ asked \in Documents \cup {NoDocument}
    /\ pc \in [Requesters -> {"idle", "want", "hold", "typed"}]
    /\ rpc \in {"wait", "build", "built", "commit", "wake", "publish"}
    /\ spc \in {"idle", "woken", "check", "checked", "gate", "fetch"}
    /\ mpc \in {"init", "login", "up", "ask", "await"}
    /\ GprsGvc \in BOOLEAN
    /\ gGPRSBusy \in BOOLEAN
    /\ Ready \in BOOLEAN
    /\ dropped \in Nat

LEMMA DocumentOfType ==
    ASSUME NEW t \in DocTypes, UplinkTypes
    PROVE  DocumentOf(t) \in Documents
BY DocumentsAreBuilt DEF DocumentOf, DocTypes, UplinkTypes

LEMMA UplinkRingStep ==
    ASSUME UplinkTypes, [UplinkNext]_uplinkVars
    PROVE  [RingNext]_ringVars
<1>1. CASE MakeXml
    BY <1>1, DocumentOfType DEF MakeXml, UplinkTypes, RingNext
<1>2. CASE ~MakeXml
    BY <1>2 DEF UplinkNext, uplinkVars, Request, ReportUp_main_proc,
        GPRS_Upsend_main_proc, GPRS_Mana_main_proc, RingNext,
        XmlWant, ManaWant, DealWant, TakeTurn, AskType, AskReport,
        GiveTurnBack, PostReportUp, ReportUpWait, ReturnTurn, PlaceFile,
        WakeSender, PublishFile, UpSendWait, ReadGvc, CheckDone, ClearGvc,
        DropWakeup, PassGate, FetchFile, SendPacket, LeaveFile, FreeFile,
        LinkReady, LinkUp, LinkRestart, AskCheck, PostCheck, AwaitCheck
<1> QED BY <1>1, <1>2

-----------------------------------------------------------------------------
(* The inductive invariant *)

\* Where the threads may be together.
Places ==
    /\ writer = IF rpc \in {"built", "commit"} THEN "written"
                ELSE IF rpc \in {"wake", "publish"} THEN "placed" ELSE "idle"
    /\ reader # "idle" => spc = "fetch"
    /\ spc = "check" => GprsGvc
    /\ CheckPending /\ mpc = "await" =>
          UpSend_Sem > 0 \/ spc \in {"woken", "check"}

\* A document that is asked for is what makexml will build.
AskedIsNext ==
    /\ \A r \in Requesters :
          pc[r] = "typed" => asked = DocumentOf(gGPRS_XMLType)
    /\ ReportUp_Sem > 0 => asked = DocumentOf(gGPRS_XMLType)
    /\ rpc = "build" => asked = DocumentOf(gGPRS_XMLType)

UplinkInv ==
    /\ RingInv
    /\ UplinkTypes
    /\ TurnConserved
    /\ WakeupsBalanced
    /\ CheckHandshake
    /\ Places
    /\ AskedIsNext
    /\ BuiltAsAsked

LEMMA UplinkInitInv == UplinkInit => UplinkInv
<1> SUFFICES ASSUME UplinkInit PROVE UplinkInv
    OBVIOUS
<1>1. RingInv
    BY RingInitInv DEF UplinkInit
<1>2. UplinkTypes
    BY DEF UplinkInit, UplinkTypes, Requesters, DocTypes
<1>3. TurnConserved /\ Places /\ AskedIsNext /\ BuiltAsAsked
    BY DEF UplinkInit, RingInit, TurnConserved, One, Holds, Requesters, Places,
           CheckPending, AskedIsNext, BuiltAsAsked
<1>4. WakeupsBalanced /\ CheckHandshake
    BY DEF UplinkInit, RingInit, WakeupsBalanced, CheckHandshake, One,
           CheckPending, WakeupInHand, Unread
<1> QED BY <1>1, <1>2, <1>3, <1>4 DEF UplinkInv
-----------------------------------------------------------------------------
(* Every step preserves it *)

LEMMA UnreadSame ==
    UNCHANGED <<writepos, readpos>> => Unread' = Unread
BY DEF Unread

LEMMA UnreadAfterCommit ==
    RingInv /\ Commit => Unread' = Unread + 1
<1> SUFFICES ASSUME RingInv, Commit PROVE Unread' = Unread + 1
    OBVIOUS
<1>1. RingInv'
    BY RingNextInv DEF RingNext
<1> QED BY <1>1, CommitAppends, QueueIs, UnreadIsNat, FollowingIs, RingSize
        DEF Commit, RingInv, RingTypeOK, SlotsConserved

LEMMA UnreadAfterAdvance ==
    RingInv /\ AdvanceRead => Unread' = Unread - 1
<1> SUFFICES ASSUME RingInv, AdvanceRead PROVE Unread' = Unread - 1
    OBVIOUS
<1>1. RingInv'
    BY RingNextInv DEF RingNext
<1> QED BY <1>1, UnreadIsNat, RingSize
        DEF AdvanceRead, RingInv, RingTypeOK, SlotsConserved

\* There is one turn, so it excludes: two requesters do not hold it together,
\* nor a requester while a document is asked for or being built.
LEMMA TurnIsExclusive ==
    ASSUME UplinkTypes, TurnConserved
    PROVE  /\ \A r, q \in Requesters : Holds(r) /\ Holds(q) => r = q
           /\ \A r \in Requesters :
                 Holds(r) => ReportUp_Sem = 0 /\ rpc \notin {"build", "built"}
           /\ rpc \in {"build", "built"} => ReportUp_Sem = 0
BY DEF UplinkTypes, TurnConserved, Requesters, One, Holds

LEMMA UplinkNextInv == UplinkInv /\ [UplinkNext]_uplinkVars => UplinkInv'
<1> SUFFICES ASSUME UplinkInv, [UplinkNext]_uplinkVars
             PROVE  UplinkInv'
    OBVIOUS
<1> USE DEF UplinkInv, ringVars, semVars, requestVars, linkVars
<1>0. RingInv'
    BY UplinkRingStep, RingNextInv
<1>0a. Unread \in Nat
    BY UnreadIsNat, RingSize
<1>1. CASE XmlWant
    <2>1. UplinkTypes'
        BY <1>1 DEF XmlWant, UplinkTypes, Requesters, TypesOf, DocTypes
    <2>2. TurnConserved'
        BY <1>1 DEF XmlWant, UplinkTypes, TurnConserved, One, Holds, Requesters
    <2>3. Unread' = Unread
        BY <1>1, UnreadSame DEF XmlWant
    <2>4. WakeupsBalanced' /\ CheckHandshake'
        BY <1>1, <1>0a, <2>3
           DEF XmlWant, UplinkTypes, WakeupsBalanced, CheckHandshake, One,
               CheckPending, WakeupInHand, Places
    <2>5. Places'
        BY <1>1 DEF XmlWant, UplinkTypes, Places, CheckPending, CheckHandshake,
               One
    <2>6. AskedIsNext' /\ BuiltAsAsked'
        BY <1>1
           DEF XmlWant, UplinkTypes, AskedIsNext, BuiltAsAsked, DocumentOf
    <2> QED BY <1>0, <2>1, <2>2, <2>4, <2>5, <2>6
<1>2. CASE ManaWant
    <2>1. UplinkTypes'
        BY <1>2 DEF ManaWant, UplinkTypes, Requesters, TypesOf, DocTypes
    <2>2. TurnConserved'
        BY <1>2 DEF ManaWant, UplinkTypes, TurnConserved, One, Holds, Requesters
    <2>3. Unread' = Unread
        BY <1>2, UnreadSame DEF ManaWant
    <2>4. WakeupsBalanced' /\ CheckHandshake'
        BY <1>2, <1>0a, <2>3
           DEF ManaWant, UplinkTypes, WakeupsBalanced, CheckHandshake, One,
               CheckPending, WakeupInHand, Places
    <2>5. Places'
        BY <1>2 DEF ManaWant, UplinkTypes, Places, CheckPending, CheckHandshake,
               One
    <2>6. AskedIsNext' /\ BuiltAsAsked'
        BY <1>2
           DEF ManaWant, UplinkTypes, AskedIsNext, BuiltAsAsked, DocumentOf
    <2> QED BY <1>0, <2>1, <2>2, <2>4, <2>5, <2>6
<1>3. CASE DealWant
    <2>1. UplinkTypes'
        BY <1>3 DEF DealWant, UplinkTypes, Requesters, TypesOf, DocTypes
    <2>2. TurnConserved'
        BY <1>3 DEF DealWant, UplinkTypes, TurnConserved, One, Holds, Requesters
    <2>3. Unread' = Unread
        BY <1>3, UnreadSame DEF DealWant
    <2>4. WakeupsBalanced' /\ CheckHandshake'
        BY <1>3, <1>0a, <2>3
           DEF DealWant, UplinkTypes, WakeupsBalanced, CheckHandshake, One,
               CheckPending, WakeupInHand, Places
    <2>5. Places'
        BY <1>3 DEF DealWant, UplinkTypes, Places, CheckPending, CheckHandshake,
               One
    <2>6. AskedIsNext' /\ BuiltAsAsked'
        BY <1>3
           DEF DealWant, UplinkTypes, AskedIsNext, BuiltAsAsked, DocumentOf
    <2> QED BY <1>0, <2>1, <2>2, <2>4, <2>5, <2>6
<1>4. ASSUME NEW r \in Requesters, TakeTurn(r)
      PROVE  UplinkInv'
    <2>1. UplinkTypes'
        BY <1>4 DEF TakeTurn, UplinkTypes, Requesters, TypesOf, DocTypes
    <2>2. TurnConserved'
        BY <1>4 DEF TakeTurn, UplinkTypes, TurnConserved, One, Holds, Requesters
    <2>3. Unread' = Unread
        BY <1>4, UnreadSame DEF TakeTurn
    <2>4. WakeupsBalanced' /\ CheckHandshake'
        BY <1>4, <1>0a, <2>3
           DEF TakeTurn, UplinkTypes, WakeupsBalanced, CheckHandshake, One,
               CheckPending, WakeupInHand, Places
    <2>5. Places'
        BY <1>4 DEF TakeTurn, UplinkTypes, Places, CheckPending, CheckHandshake,
               One
    <2>6. AskedIsNext' /\ BuiltAsAsked'
        BY <1>4
           DEF TakeTurn, UplinkTypes, AskedIsNext, BuiltAsAsked, DocumentOf
    <2> QED BY <1>0, <2>1, <2>2, <2>4, <2>5, <2>6
<1>5. ASSUME NEW r \in Requesters, NEW t \in TypesOf[r], AskType(r, t)
      PROVE  UplinkInv'
    <2>1. UplinkTypes'
        BY <1>5, DocumentsAreBuilt DEF AskType, UplinkTypes, Requesters,
                                       TypesOf, DocTypes
    <2>2. TurnConserved'
        BY <1>5 DEF AskType, UplinkTypes, TurnConserved, One, Holds, Requesters
    <2>3. Unread' = Unread
        BY <1>5, UnreadSame DEF AskType
    <2>4. WakeupsBalanced' /\ CheckHandshake'
        BY <1>5, <1>0a, <2>3
           DEF AskType, UplinkTypes, WakeupsBalanced, CheckHandshake, One,
               CheckPending, WakeupInHand, Places
    <2>5. Places'
        BY <1>5 DEF AskType, UplinkTypes, Places, CheckPending, CheckHandshake,
               One
    <2>6. AskedIsNext' /\ BuiltAsAsked'
        BY <1>5, TurnIsExclusive, TypesAreDisjoint
           DEF AskType, UplinkTypes, AskedIsNext, BuiltAsAsked, DocumentOf,
               Holds, TypesOf, Requesters
    <2> QED BY <1>0, <2>1, <2>2, <2>4, <2>5, <2>6
<1>6. ASSUME NEW t \in DealTypes, NEW b \in Bodies, AskReport(t, b)
      PROVE  UplinkInv'
    <2>1. UplinkTypes'
        BY <1>6, DocumentsAreBuilt DEF AskReport, UplinkTypes, Requesters,
                                       TypesOf, DocTypes
    <2>2. TurnConserved'
        BY <1>6 DEF AskReport, UplinkTypes, TurnConserved, One, Holds,
                    Requesters
    <2>3. Unread' = Unread
        BY <1>6, UnreadSame DEF AskReport
    <2>4. WakeupsBalanced' /\ CheckHandshake'
        BY <1>6, <1>0a, <2>3
           DEF AskReport, UplinkTypes, WakeupsBalanced, CheckHandshake, One,
               CheckPending, WakeupInHand, Places
    <2>5. Places'
        BY <1>6 DEF AskReport, UplinkTypes, Places, CheckPending,
                    CheckHandshake,
               One
    <2>6. AskedIsNext' /\ BuiltAsAsked'
        BY <1>6, TurnIsExclusive
           DEF AskReport, UplinkTypes, AskedIsNext, BuiltAsAsked, DocumentOf,
               Holds, TypesOf, Requesters
    <2> QED BY <1>0, <2>1, <2>2, <2>4, <2>5, <2>6
<1>7. CASE GiveTurnBack
    <2>1. UplinkTypes'
        BY <1>7 DEF GiveTurnBack, UplinkTypes, Requesters, TypesOf, DocTypes
    <2>2. TurnConserved'
        BY <1>7 DEF GiveTurnBack, UplinkTypes, TurnConserved, One, Holds,
                    Requesters
    <2>3. Unread' = Unread
        BY <1>7, UnreadSame DEF GiveTurnBack
    <2>4. WakeupsBalanced' /\ CheckHandshake'
        BY <1>7, <1>0a, <2>3
           DEF GiveTurnBack, UplinkTypes, WakeupsBalanced, CheckHandshake, One,
               CheckPending, WakeupInHand, Places
    <2>5. Places'
        BY <1>7 DEF GiveTurnBack, UplinkTypes, Places, CheckPending,
                    CheckHandshake,
               One
    <2>6. AskedIsNext' /\ BuiltAsAsked'
        BY <1>7, TurnIsExclusive
           DEF GiveTurnBack, UplinkTypes, AskedIsNext, BuiltAsAsked,
               DocumentOf, Holds, TypesOf, Requesters
    <2> QED BY <1>0, <2>1, <2>2, <2>4, <2>5, <2>6
<1>8. ASSUME NEW r \in Requesters, PostReportUp(r)
      PROVE  UplinkInv'
    <2>1. UplinkTypes'
        BY <1>8 DEF PostReportUp, UplinkTypes, Requesters, TypesOf, DocTypes
    <2>2. TurnConserved'
        BY <1>8 DEF PostReportUp, UplinkTypes, TurnConserved, One, Holds,
                    Requesters
    <2>3. Unread' = Unread
        BY <1>8, UnreadSame DEF PostReportUp
    <2>4. WakeupsBalanced' /\ CheckHandshake'
        BY <1>8, <1>0a, <2>3
           DEF PostReportUp, UplinkTypes, WakeupsBalanced, CheckHandshake, One,
               CheckPending, WakeupInHand, Places
    <2>5. Places'
        BY <1>8 DEF PostReportUp, UplinkTypes, Places, CheckPending,
                    CheckHandshake,
               One
    <2>6. AskedIsNext' /\ BuiltAsAsked'
        BY <1>8
           DEF PostReportUp, UplinkTypes, AskedIsNext, BuiltAsAsked, DocumentOf
    <2> QED BY <1>0, <2>1, <2>2, <2>4, <2>5, <2>6
<1>9. CASE ReportUpWait
    <2>1. UplinkTypes'
        BY <1>9 DEF ReportUpWait, UplinkTypes, Requesters, TypesOf, DocTypes
    <2>2. TurnConserved'
        BY <1>9 DEF ReportUpWait, UplinkTypes, TurnConserved, One, Holds,
                    Requesters
    <2>3. Unread' = Unread
        BY <1>9, UnreadSame DEF ReportUpWait
    <2>4. WakeupsBalanced' /\ CheckHandshake'
        BY <1>9, <1>0a, <2>3
           DEF ReportUpWait, UplinkTypes, WakeupsBalanced, CheckHandshake, One,
               CheckPending, WakeupInHand, Places
    <2>5. Places'
        BY <1>9 DEF ReportUpWait, UplinkTypes, Places, CheckPending,
                    CheckHandshake,
               One
    <2>6. AskedIsNext' /\ BuiltAsAsked'
        BY <1>9
           DEF ReportUpWait, UplinkTypes, AskedIsNext, BuiltAsAsked, DocumentOf
    <2> QED BY <1>0, <2>1, <2>2, <2>4, <2>5, <2>6
<1>10. CASE MakeXml
    <2>1. UplinkTypes'
        BY <1>10 DEF MakeXml, WriteFile, UplinkTypes, Requesters, TypesOf,
                     DocTypes
    <2>2. TurnConserved'
        BY <1>10 DEF MakeXml, WriteFile, UplinkTypes, TurnConserved, One,
                     Holds, Requesters
    <2>3. Unread' = Unread
        BY <1>10, UnreadSame DEF MakeXml, WriteFile
    <2>4. WakeupsBalanced' /\ CheckHandshake'
        BY <1>10, <1>0a, <2>3
           DEF MakeXml, WriteFile, UplinkTypes, WakeupsBalanced,
               CheckHandshake, One,
               CheckPending, WakeupInHand, Places
    <2>5. Places'
        BY <1>10 DEF MakeXml, WriteFile, UplinkTypes, Places, CheckPending,
                     CheckHandshake,
               One
    <2>6. AskedIsNext' /\ BuiltAsAsked'
        BY <1>10, TurnIsExclusive
           DEF MakeXml, WriteFile, UplinkTypes, AskedIsNext, BuiltAsAsked,
               DocumentOf, Holds, TypesOf, Requesters, RingInv, RingTypeOK
    <2> QED BY <1>0, <2>1, <2>2, <2>4, <2>5, <2>6
<1>11. CASE ReturnTurn
    <2>1. UplinkTypes'
        BY <1>11 DEF ReturnTurn, UplinkTypes, Requesters, TypesOf, DocTypes
    <2>2. TurnConserved'
        BY <1>11 DEF ReturnTurn, UplinkTypes, TurnConserved, One, Holds,
                     Requesters
    <2>3. Unread' = Unread
        BY <1>11, UnreadSame DEF ReturnTurn
    <2>4. WakeupsBalanced' /\ CheckHandshake'
        BY <1>11, <1>0a, <2>3
           DEF ReturnTurn, UplinkTypes, WakeupsBalanced, CheckHandshake, One,
               CheckPending, WakeupInHand, Places
    <2>5. Places'
        BY <1>11 DEF ReturnTurn, UplinkTypes, Places, CheckPending,
                     CheckHandshake,
               One
    <2>6. AskedIsNext' /\ BuiltAsAsked'
        BY <1>11, TurnIsExclusive
           DEF ReturnTurn, UplinkTypes, AskedIsNext, BuiltAsAsked, DocumentOf,
               Holds, TypesOf, Requesters
    <2> QED BY <1>0, <2>1, <2>2, <2>4, <2>5, <2>6
<1>12. CASE PlaceFile
    <2>1. UplinkTypes'
        BY <1>12 DEF PlaceFile, Commit, UplinkTypes, Requesters, TypesOf,
                     DocTypes
    <2>2. TurnConserved'
        BY <1>12 DEF PlaceFile, Commit, UplinkTypes, TurnConserved, One,
                     Holds, Requesters
    <2>3. Unread' = Unread + 1
        BY <1>12, UnreadAfterCommit DEF PlaceFile, Commit
    <2>4. WakeupsBalanced' /\ CheckHandshake'
        BY <1>12, <1>0a, <2>3
           DEF PlaceFile, Commit, UplinkTypes, WakeupsBalanced,
               CheckHandshake, One,
               CheckPending, WakeupInHand, Places
    <2>5. Places'
        BY <1>12 DEF PlaceFile, Commit, UplinkTypes, Places, CheckPending,
                     CheckHandshake,
               One
    <2>6. AskedIsNext' /\ BuiltAsAsked'
        BY <1>12
           DEF PlaceFile, Commit, UplinkTypes, AskedIsNext, BuiltAsAsked,
               DocumentOf
    <2> QED BY <1>0, <2>1, <2>2, <2>4, <2>5, <2>6
<1>13. CASE WakeSender
    <2>1. UplinkTypes'
        BY <1>13 DEF WakeSender, UplinkTypes, Requesters, TypesOf, DocTypes
    <2>2. TurnConserved'
        BY <1>13 DEF WakeSender, UplinkTypes, TurnConserved, One, Holds,
                     Requesters
    <2>3. Unread' = Unread
        BY <1>13, UnreadSame DEF WakeSender
    <2>4. WakeupsBalanced' /\ CheckHandshake'
        BY <1>13, <1>0a, <2>3
           DEF WakeSender, UplinkTypes, WakeupsBalanced, CheckHandshake, One,
               CheckPending, WakeupInHand, Places
    <2>5. Places'
        BY <1>13 DEF WakeSender, UplinkTypes, Places, CheckPending,
                     CheckHandshake,
               One
    <2>6. AskedIsNext' /\ BuiltAsAsked'
        BY <1>13
           DEF WakeSender, UplinkTypes, AskedIsNext, BuiltAsAsked, DocumentOf
    <2> QED BY <1>0, <2>1, <2>2, <2>4, <2>5, <2>6
<1>14. CASE PublishFile
    <2>1. UplinkTypes'
        BY <1>14 DEF PublishFile, PostRead, UplinkTypes, Requesters, TypesOf,
                     DocTypes
    <2>2. TurnConserved'
        BY <1>14 DEF PublishFile, PostRead, UplinkTypes, TurnConserved, One,
                     Holds, Requesters
    <2>3. Unread' = Unread
        BY <1>14, UnreadSame DEF PublishFile, PostRead
    <2>4. WakeupsBalanced' /\ CheckHandshake'
        BY <1>14, <1>0a, <2>3
           DEF PublishFile, PostRead, UplinkTypes, WakeupsBalanced,
               CheckHandshake, One,
               CheckPending, WakeupInHand, Places
    <2>5. Places'
        BY <1>14 DEF PublishFile, PostRead, UplinkTypes, Places, CheckPending,
                     CheckHandshake,
               One
    <2>6. AskedIsNext' /\ BuiltAsAsked'
        BY <1>14
           DEF PublishFile, PostRead, UplinkTypes, AskedIsNext, BuiltAsAsked,
               DocumentOf
    <2> QED BY <1>0, <2>1, <2>2, <2>4, <2>5, <2>6
<1>15. CASE UpSendWait
    <2>1. UplinkTypes'
        BY <1>15 DEF UpSendWait, UplinkTypes, Requesters, TypesOf, DocTypes
    <2>2. TurnConserved'
        BY <1>15 DEF UpSendWait, UplinkTypes, TurnConserved, One, Holds,
                     Requesters
    <2>3. Unread' = Unread
        BY <1>15, UnreadSame DEF UpSendWait
    <2>4. WakeupsBalanced' /\ CheckHandshake'
        BY <1>15, <1>0a, <2>3
           DEF UpSendWait, UplinkTypes, WakeupsBalanced, CheckHandshake, One,
               CheckPending, WakeupInHand, Places
    <2>5. Places'
        BY <1>15 DEF UpSendWait, UplinkTypes, Places, CheckPending,
                     CheckHandshake,
               One
    <2>6. AskedIsNext' /\ BuiltAsAsked'
        BY <1>15
           DEF UpSendWait, UplinkTypes, AskedIsNext, BuiltAsAsked, DocumentOf
    <2> QED BY <1>0, <2>1, <2>2, <2>4, <2>5, <2>6
<1>16. CASE ReadGvc
    <2>1. UplinkTypes'
        BY <1>16 DEF ReadGvc, UplinkTypes, Requesters, TypesOf, DocTypes
    <2>2. TurnConserved'
        BY <1>16 DEF ReadGvc, UplinkTypes, TurnConserved, One, Holds, Requesters
    <2>3. Unread' = Unread
        BY <1>16, UnreadSame DEF ReadGvc
    <2>4. WakeupsBalanced' /\ CheckHandshake'
        BY <1>16, <1>0a, <2>3
           DEF ReadGvc, UplinkTypes, WakeupsBalanced, CheckHandshake, One,
               CheckPending, WakeupInHand, Places
    <2>5. Places'
        BY <1>16 DEF ReadGvc, UplinkTypes, Places, CheckPending, CheckHandshake,
               One
    <2>6. AskedIsNext' /\ BuiltAsAsked'
        BY <1>16
           DEF ReadGvc, UplinkTypes, AskedIsNext, BuiltAsAsked, DocumentOf
    <2> QED BY <1>0, <2>1, <2>2, <2>4, <2>5, <2>6
<1>17. CASE CheckDone
    <2>1. UplinkTypes'
        BY <1>17 DEF CheckDone, UplinkTypes, Requesters, TypesOf, DocTypes
    <2>2. TurnConserved'
        BY <1>17 DEF CheckDone, UplinkTypes, TurnConserved, One, Holds,
                     Requesters
    <2>3. Unread' = Unread
        BY <1>17, UnreadSame DEF CheckDone
    <2>4. WakeupsBalanced' /\ CheckHandshake'
        BY <1>17, <1>0a, <2>3
           DEF CheckDone, UplinkTypes, WakeupsBalanced, CheckHandshake, One,
               CheckPending, WakeupInHand, Places
    <2>5. Places'
        BY <1>17 DEF CheckDone, UplinkTypes, Places, CheckPending,
                     CheckHandshake,
               One
    <2>6. AskedIsNext' /\ BuiltAsAsked'
        BY <1>17
           DEF CheckDone, UplinkTypes, AskedIsNext, BuiltAsAsked, DocumentOf
    <2> QED BY <1>0, <2>1, <2>2, <2>4, <2>5, <2>6
<1>18. CASE ClearGvc
    <2>1. UplinkTypes'
        BY <1>18 DEF ClearGvc, UplinkTypes, Requesters, TypesOf, DocTypes
    <2>2. TurnConserved'
        BY <1>18 DEF ClearGvc, UplinkTypes, TurnConserved, One, Holds,
                     Requesters
    <2>3. Unread' = Unread
        BY <1>18, UnreadSame DEF ClearGvc
    <2>4. WakeupsBalanced' /\ CheckHandshake'
        BY <1>18, <1>0a, <2>3
           DEF ClearGvc, UplinkTypes, WakeupsBalanced, CheckHandshake, One,
               CheckPending, WakeupInHand, Places
    <2>5. Places'
        BY <1>18 DEF ClearGvc, UplinkTypes, Places, CheckPending,
                     CheckHandshake,
               One
    <2>6. AskedIsNext' /\ BuiltAsAsked'
        BY <1>18
           DEF ClearGvc, UplinkTypes, AskedIsNext, BuiltAsAsked, DocumentOf
    <2> QED BY <1>0, <2>1, <2>2, <2>4, <2>5, <2>6
<1>19. CASE DropWakeup
    <2>1. UplinkTypes'
        BY <1>19 DEF DropWakeup, UplinkTypes, Requesters, TypesOf, DocTypes
    <2>2. TurnConserved'
        BY <1>19 DEF DropWakeup, UplinkTypes, TurnConserved, One, Holds,
                     Requesters
    <2>3. Unread' = Unread
        BY <1>19, UnreadSame DEF DropWakeup
    <2>4. WakeupsBalanced' /\ CheckHandshake'
        BY <1>19, <1>0a, <2>3
           DEF DropWakeup, UplinkTypes, WakeupsBalanced, CheckHandshake, One,
               CheckPending, WakeupInHand, Places
    <2>5. Places'
        BY <1>19 DEF DropWakeup, UplinkTypes, Places, CheckPending,
                     CheckHandshake,
               One
    <2>6. AskedIsNext' /\ BuiltAsAsked'
        BY <1>19
           DEF DropWakeup, UplinkTypes, AskedIsNext, BuiltAsAsked, DocumentOf
    <2> QED BY <1>0, <2>1, <2>2, <2>4, <2>5, <2>6
<1>20. CASE PassGate
    <2>1. UplinkTypes'
        BY <1>20 DEF PassGate, UplinkTypes, Requesters, TypesOf, DocTypes
    <2>2. TurnConserved'
        BY <1>20 DEF PassGate, UplinkTypes, TurnConserved, One, Holds,
                     Requesters
    <2>3. Unread' = Unread
        BY <1>20, UnreadSame DEF PassGate
    <2>4. WakeupsBalanced' /\ CheckHandshake'
        BY <1>20, <1>0a, <2>3
           DEF PassGate, UplinkTypes, WakeupsBalanced, CheckHandshake, One,
               CheckPending, WakeupInHand, Places
    <2>5. Places'
        BY <1>20 DEF PassGate, UplinkTypes, Places, CheckPending,
                     CheckHandshake,
               One
    <2>6. AskedIsNext' /\ BuiltAsAsked'
        BY <1>20
           DEF PassGate, UplinkTypes, AskedIsNext, BuiltAsAsked, DocumentOf
    <2> QED BY <1>0, <2>1, <2>2, <2>4, <2>5, <2>6
<1>21. CASE FetchFile
    <2>1. UplinkTypes'
        BY <1>21 DEF FetchFile, WaitRead, UplinkTypes, Requesters, TypesOf,
                     DocTypes
    <2>2. TurnConserved'
        BY <1>21 DEF FetchFile, WaitRead, UplinkTypes, TurnConserved, One,
                     Holds, Requesters
    <2>3. Unread' = Unread
        BY <1>21, UnreadSame DEF FetchFile, WaitRead
    <2>4. WakeupsBalanced' /\ CheckHandshake'
        BY <1>21, <1>0a, <2>3
           DEF FetchFile, WaitRead, UplinkTypes, WakeupsBalanced,
               CheckHandshake, One,
               CheckPending, WakeupInHand, Places
    <2>5. Places'
        BY <1>21 DEF FetchFile, WaitRead, UplinkTypes, Places, CheckPending,
                     CheckHandshake,
               One
    <2>6. AskedIsNext' /\ BuiltAsAsked'
        BY <1>21
           DEF FetchFile, WaitRead, UplinkTypes, AskedIsNext, BuiltAsAsked,
               DocumentOf
    <2> QED BY <1>0, <2>1, <2>2, <2>4, <2>5, <2>6
<1>22. CASE SendPacket
    <2>1. UplinkTypes'
        BY <1>22 DEF SendPacket, LoadFile, UplinkTypes, Requesters, TypesOf,
                     DocTypes
    <2>2. TurnConserved'
        BY <1>22 DEF SendPacket, LoadFile, UplinkTypes, TurnConserved, One,
                     Holds, Requesters
    <2>3. Unread' = Unread
        BY <1>22, UnreadSame DEF SendPacket, LoadFile
    <2>4. WakeupsBalanced' /\ CheckHandshake'
        BY <1>22, <1>0a, <2>3
           DEF SendPacket, LoadFile, UplinkTypes, WakeupsBalanced,
               CheckHandshake, One,
               CheckPending, WakeupInHand, Places
    <2>5. Places'
        BY <1>22 DEF SendPacket, LoadFile, UplinkTypes, Places, CheckPending,
                     CheckHandshake,
               One
    <2>6. AskedIsNext' /\ BuiltAsAsked'
        BY <1>22
           DEF SendPacket, LoadFile, UplinkTypes, AskedIsNext, BuiltAsAsked,
               DocumentOf
    <2> QED BY <1>0, <2>1, <2>2, <2>4, <2>5, <2>6
<1>23. CASE LeaveFile
    <2>1. UplinkTypes'
        BY <1>23 DEF LeaveFile, AdvanceRead, UplinkTypes, Requesters, TypesOf,
                     DocTypes
    <2>2. TurnConserved'
        BY <1>23 DEF LeaveFile, AdvanceRead, UplinkTypes, TurnConserved, One,
                     Holds, Requesters
    <2>3. Unread' = Unread - 1
        BY <1>23, UnreadAfterAdvance DEF LeaveFile, AdvanceRead
    <2>4. WakeupsBalanced' /\ CheckHandshake'
        BY <1>23, <1>0a, <2>3
           DEF LeaveFile, AdvanceRead, UplinkTypes, WakeupsBalanced,
               CheckHandshake, One,
               CheckPending, WakeupInHand, Places
    <2>5. Places'
        BY <1>23 DEF LeaveFile, AdvanceRead, UplinkTypes, Places,
                     CheckPending, CheckHandshake,
               One
    <2>6. AskedIsNext' /\ BuiltAsAsked'
        BY <1>23
           DEF LeaveFile, AdvanceRead, UplinkTypes, AskedIsNext, BuiltAsAsked,
               DocumentOf
    <2> QED BY <1>0, <2>1, <2>2, <2>4, <2>5, <2>6
<1>24. CASE FreeFile
    <2>1. UplinkTypes'
        BY <1>24 DEF FreeFile, PostWrite, UplinkTypes, Requesters, TypesOf,
                     DocTypes
    <2>2. TurnConserved'
        BY <1>24 DEF FreeFile, PostWrite, UplinkTypes, TurnConserved, One,
                     Holds, Requesters
    <2>3. Unread' = Unread
        BY <1>24, UnreadSame DEF FreeFile, PostWrite
    <2>4. WakeupsBalanced' /\ CheckHandshake'
        BY <1>24, <1>0a, <2>3
           DEF FreeFile, PostWrite, UplinkTypes, WakeupsBalanced,
               CheckHandshake, One,
               CheckPending, WakeupInHand, Places
    <2>5. Places'
        BY <1>24 DEF FreeFile, PostWrite, UplinkTypes, Places, CheckPending,
                     CheckHandshake,
               One
    <2>6. AskedIsNext' /\ BuiltAsAsked'
        BY <1>24
           DEF FreeFile, PostWrite, UplinkTypes, AskedIsNext, BuiltAsAsked,
               DocumentOf
    <2> QED BY <1>0, <2>1, <2>2, <2>4, <2>5, <2>6
<1>25. CASE LinkReady
    <2>1. UplinkTypes'
        BY <1>25 DEF LinkReady, UplinkTypes, Requesters, TypesOf, DocTypes
    <2>2. TurnConserved'
        BY <1>25 DEF LinkReady, UplinkTypes, TurnConserved, One, Holds,
                     Requesters
    <2>3. Unread' = Unread
        BY <1>25, UnreadSame DEF LinkReady
    <2>4. WakeupsBalanced' /\ CheckHandshake'
        BY <1>25, <1>0a, <2>3
           DEF LinkReady, UplinkTypes, WakeupsBalanced, CheckHandshake, One,
               CheckPending, WakeupInHand, Places
    <2>5. Places'
        BY <1>25 DEF LinkReady, UplinkTypes, Places, CheckPending,
                     CheckHandshake,
               One
    <2>6. AskedIsNext' /\ BuiltAsAsked'
        BY <1>25
           DEF LinkReady, UplinkTypes, AskedIsNext, BuiltAsAsked, DocumentOf
    <2> QED BY <1>0, <2>1, <2>2, <2>4, <2>5, <2>6
<1>26. CASE LinkUp
    <2>1. UplinkTypes'
        BY <1>26 DEF LinkUp, UplinkTypes, Requesters, TypesOf, DocTypes
    <2>2. TurnConserved'
        BY <1>26 DEF LinkUp, UplinkTypes, TurnConserved, One, Holds, Requesters
    <2>3. Unread' = Unread
        BY <1>26, UnreadSame DEF LinkUp
    <2>4. WakeupsBalanced' /\ CheckHandshake'
        BY <1>26, <1>0a, <2>3
           DEF LinkUp, UplinkTypes, WakeupsBalanced, CheckHandshake, One,
               CheckPending, WakeupInHand, Places
    <2>5. Places'
        BY <1>26 DEF LinkUp, UplinkTypes, Places, CheckPending, CheckHandshake,
               One
    <2>6. AskedIsNext' /\ BuiltAsAsked'
        BY <1>26
           DEF LinkUp, UplinkTypes, AskedIsNext, BuiltAsAsked, DocumentOf
    <2> QED BY <1>0, <2>1, <2>2, <2>4, <2>5, <2>6
<1>27. CASE LinkRestart
    <2>1. UplinkTypes'
        BY <1>27 DEF LinkRestart, UplinkTypes, Requesters, TypesOf, DocTypes
    <2>2. TurnConserved'
        BY <1>27 DEF LinkRestart, UplinkTypes, TurnConserved, One, Holds,
                     Requesters
    <2>3. Unread' = Unread
        BY <1>27, UnreadSame DEF LinkRestart
    <2>4. WakeupsBalanced' /\ CheckHandshake'
        BY <1>27, <1>0a, <2>3
           DEF LinkRestart, UplinkTypes, WakeupsBalanced, CheckHandshake, One,
               CheckPending, WakeupInHand, Places
    <2>5. Places'
        BY <1>27 DEF LinkRestart, UplinkTypes, Places, CheckPending,
                     CheckHandshake,
               One
    <2>6. AskedIsNext' /\ BuiltAsAsked'
        BY <1>27
           DEF LinkRestart, UplinkTypes, AskedIsNext, BuiltAsAsked, DocumentOf
    <2> QED BY <1>0, <2>1, <2>2, <2>4, <2>5, <2>6
<1>28. CASE AskCheck
    <2>1. UplinkTypes'
        BY <1>28 DEF AskCheck, UplinkTypes, Requesters, TypesOf, DocTypes
    <2>2. TurnConserved'
        BY <1>28 DEF AskCheck, UplinkTypes, TurnConserved, One, Holds,
                     Requesters
    <2>3. Unread' = Unread
        BY <1>28, UnreadSame DEF AskCheck
    <2>4. WakeupsBalanced' /\ CheckHandshake'
        BY <1>28, <1>0a, <2>3
           DEF AskCheck, UplinkTypes, WakeupsBalanced, CheckHandshake, One,
               CheckPending, WakeupInHand, Places
    <2>5. Places'
        BY <1>28 DEF AskCheck, UplinkTypes, Places, CheckPending,
                     CheckHandshake,
               One
    <2>6. AskedIsNext' /\ BuiltAsAsked'
        BY <1>28
           DEF AskCheck, UplinkTypes, AskedIsNext, BuiltAsAsked, DocumentOf
    <2> QED BY <1>0, <2>1, <2>2, <2>4, <2>5, <2>6
<1>29. CASE PostCheck
    <2>1. UplinkTypes'
        BY <1>29 DEF PostCheck, UplinkTypes, Requesters, TypesOf, DocTypes
    <2>2. TurnConserved'
        BY <1>29 DEF PostCheck, UplinkTypes, TurnConserved, One, Holds,
                     Requesters
    <2>3. Unread' = Unread
        BY <1>29, UnreadSame DEF PostCheck
    <2>4. WakeupsBalanced' /\ CheckHandshake'
        BY <1>29, <1>0a, <2>3
           DEF PostCheck, UplinkTypes, WakeupsBalanced, CheckHandshake, One,
               CheckPending, WakeupInHand, Places
    <2>5. Places'
        BY <1>29 DEF PostCheck, UplinkTypes, Places, CheckPending,
                     CheckHandshake,
               One
    <2>6. AskedIsNext' /\ BuiltAsAsked'
        BY <1>29
           DEF PostCheck, UplinkTypes, AskedIsNext, BuiltAsAsked, DocumentOf
    <2> QED BY <1>0, <2>1, <2>2, <2>4, <2>5, <2>6
<1>30. CASE AwaitCheck
    <2>1. UplinkTypes'
        BY <1>30 DEF AwaitCheck, UplinkTypes, Requesters, TypesOf, DocTypes
    <2>2. TurnConserved'
        BY <1>30 DEF AwaitCheck, UplinkTypes, TurnConserved, One, Holds,
                     Requesters
    <2>3. Unread' = Unread
        BY <1>30, UnreadSame DEF AwaitCheck
    <2>4. WakeupsBalanced' /\ CheckHandshake'
        BY <1>30, <1>0a, <2>3
           DEF AwaitCheck, UplinkTypes, WakeupsBalanced, CheckHandshake, One,
               CheckPending, WakeupInHand, Places
    <2>5. Places'
        BY <1>30 DEF AwaitCheck, UplinkTypes, Places, CheckPending,
                     CheckHandshake,
               One
    <2>6. AskedIsNext' /\ BuiltAsAsked'
        BY <1>30
           DEF AwaitCheck, UplinkTypes, AskedIsNext, BuiltAsAsked, DocumentOf
    <2> QED BY <1>0, <2>1, <2>2, <2>4, <2>5, <2>6
<1>31. CASE UNCHANGED uplinkVars
    <2>1. Unread' = Unread
        BY <1>31, UnreadSame DEF uplinkVars
    <2> QED BY <1>0, <1>31, <2>1
            DEF uplinkVars, UplinkTypes, TurnConserved, One, Holds,
                WakeupsBalanced, CheckHandshake, CheckPending, WakeupInHand,
                Places, AskedIsNext, BuiltAsAsked, DocumentOf
<1> QED BY <1>1, <1>2, <1>3, <1>4, <1>5, <1>6, <1>7, <1>8, <1>9, <1>10, <1>11,
           <1>12, <1>13, <1>14, <1>15, <1>16, <1>17, <1>18, <1>19, <1>20,
           <1>21, <1>22, <1>23, <1>24, <1>25, <1>26, <1>27, <1>28, <1>29,
           <1>30, <1>31
    DEF UplinkNext, Request, ReportUp_main_proc, GPRS_Upsend_main_proc,
        GPRS_Mana_main_proc

-----------------------------------------------------------------------------
(* What follows from it *)

\* Every reachable state of the uplink satisfies the inductive invariant.
THEOREM UplinkInvariant == UplinkSpec => []UplinkInv
<1> QED BY UplinkInitInv, UplinkNextInv, PTL DEF UplinkSpec

\* The turn (Xml_Send_Sem, handed over through ReportUp_Sem) is never lost and
\* never doubled, whatever the requesters do.
THEOREM UplinkTurnConserved == UplinkSpec => []TurnConserved
<1>1. UplinkInv => TurnConserved
    BY DEF UplinkInv
<1> QED BY <1>1, UplinkInvariant, PTL

\* The document makexml builds has the type and the data that were asked for.
THEOREM UplinkBuiltAsAsked == UplinkSpec => []BuiltAsAsked
<1>1. UplinkInv => BuiltAsAsked
    BY DEF UplinkInv
<1> QED BY <1>1, UplinkInvariant, PTL

\* Every waiting file and every link check has its wake-up, except the files
\* whose wake-up the sender threw away while the module was not ready.
THEOREM UplinkWakeupsBalanced == UplinkSpec => []WakeupsBalanced
<1>1. UplinkInv => WakeupsBalanced
    BY DEF UplinkInv
<1> QED BY <1>1, UplinkInvariant, PTL

\* GPRS_Mana_main_proc waits exactly while its link check is outstanding.
THEOREM UplinkCheckHandshake == UplinkSpec => []CheckHandshake
<1>1. UplinkInv => CheckHandshake
    BY DEF UplinkInv
<1> QED BY <1>1, UplinkInvariant, PTL

\* With no readable file the sender waits only for one that is on its way.
LEMMA InvSenderNotStranded == UplinkInv => SenderNotStranded
<1> SUFFICES ASSUME UplinkInv, spc = "fetch", reader = "idle", sem_read = 0
             PROVE  rpc = "publish"
    BY DEF SenderNotStranded
<1> USE DEF UplinkInv
<1>1. Unread = One(writer = "placed")
    BY DEF RingInv, SlotsConserved, One
<1>2. Unread + One(CheckPending)
        = UpSend_Sem + dropped + 1 + One(rpc = "wake") + One(mpc = "ask")
    BY DEF WakeupsBalanced, WakeupInHand, One
<1>3. CheckPending => mpc = "ask" \/ UpSend_Sem > 0
    BY DEF CheckHandshake, Places, One, UplinkTypes
<1>4. writer = "placed"
    BY <1>1, <1>2, <1>3 DEF One, UplinkTypes
<1>5. rpc # "wake"
    BY <1>1, <1>2, <1>3 DEF One, UplinkTypes
<1> QED BY <1>4, <1>5 DEF Places, UplinkTypes

\* GPRS_Upsend_main_proc never waits at sem_read for a file that is not coming.
THEOREM UplinkSenderNotStranded == UplinkSpec => []SenderNotStranded
<1> QED BY InvSenderNotStranded, UplinkInvariant, PTL

LEMMA InvHaltedOnlyByDrops == UplinkInv => HaltedOnlyByDrops
<1> SUFFICES ASSUME UplinkInv, rpc = "commit", sem_write = 0, UpSend_Sem = 0,
                    spc = "idle", mpc # "ask"
             PROVE  dropped = XML_BUF_FILE_NUM - 1
    BY DEF HaltedOnlyByDrops
<1> USE DEF UplinkInv
<1>1. reader # "done"
    BY DEF Places
<1>2. Unread = XML_BUF_FILE_NUM - 1
    BY <1>1, UnreadIsNat, RingSize DEF RingInv, SlotsConserved
<1>3. ~CheckPending
    BY DEF CheckHandshake, Places, One, UplinkTypes
<1> QED BY <1>2, <1>3, RingSize
        DEF WakeupsBalanced, WakeupInHand, One, UplinkTypes

\* ReportUp_main_proc blocks with nobody left to wake the sender only when all
\* the files the ring can hold have lost their wake-ups.
THEOREM UplinkHaltedOnlyByDrops == UplinkSpec => []HaltedOnlyByDrops
<1> QED BY InvHaltedOnlyByDrops, UplinkInvariant, PTL

LEMMA InvUplinkTypeOK == UplinkInv => UplinkTypeOK
<1> SUFFICES ASSUME UplinkInv PROVE UplinkTypeOK
    OBVIOUS
<1> USE DEF UplinkInv
<1>1. Xml_Send_Sem \in 0 .. 1 /\ ReportUp_Sem \in 0 .. 1
    BY DEF TurnConserved, One, UplinkTypes
<1>2. GprsMana_Sem \in 0 .. 1
    BY DEF CheckHandshake, One, UplinkTypes
<1>3. Unread \in 0 .. XML_BUF_FILE_NUM - 1
    BY UnreadIsNat
<1>4. UpSend_Sem \in 0 .. XML_BUF_FILE_NUM
    BY <1>3, RingSize DEF WakeupsBalanced, One, UplinkTypes
<1>5. dropped \in 0 .. XML_BUF_FILE_NUM - 1
    <2>1. CASE ~CheckPending
        BY <1>3, <2>1, RingSize DEF WakeupsBalanced, One, UplinkTypes
    <2>2. CASE CheckPending
        <3>1. mpc = "ask" \/ UpSend_Sem > 0 \/ WakeupInHand
            BY <2>2 DEF CheckHandshake, Places, One, UplinkTypes, WakeupInHand
        <3> QED BY <1>3, <2>2, <3>1, RingSize
                DEF WakeupsBalanced, One, UplinkTypes
    <2> QED BY <2>1, <2>2
<1> QED BY <1>1, <1>2, <1>4, <1>5
        DEF UplinkTypeOK, UplinkTypes, RingInv, MaxWakeups

\* The types of the uplink's state; among them the bounds of its semaphores.
THEOREM UplinkTypeCorrect == UplinkSpec => []UplinkTypeOK
<1> QED BY InvUplinkTypeOK, UplinkInvariant, PTL

\* Inside the uplink the send ring is used as XmlFileRing describes, so what is
\* proved of the ring holds of gXML_Send_File.
THEOREM UplinkRefinesRing == UplinkSpec => UplinkUsesRing
<1>1. UplinkInit => RingInit
    BY DEF UplinkInit
<1>2. UplinkInv /\ [UplinkNext]_uplinkVars => [RingNext]_ringVars
    BY UplinkRingStep DEF UplinkInv
<1> QED BY <1>1, <1>2, UplinkInvariant, PTL
        DEF UplinkSpec, UplinkUsesRing, RingSpec

-----------------------------------------------------------------------------
(* The uplink implements DocumentService: through the global document type,  *)
(* the chain of semaphores and the ring of files, exactly the documents     *)
(* asked for reach the sender, in the order in which they were asked for.   *)
(*                                                                         *)
(* A document is on its way from makexml on, although its file joins the   *)
(* ring only when sem_write lets it: OnTheWay is the ring's queue, followed *)
(* by the file that is built and not yet placed.                           *)

ServiceInv == UplinkInv /\ RefInv

LEMMA UplinkInitServiceInv == UplinkInit => ServiceInv
BY UplinkInitInv, RingInitRef DEF UplinkInit, ServiceInv

LEMMA UplinkNextServiceInv ==
    ServiceInv /\ [UplinkNext]_uplinkVars => ServiceInv'
BY UplinkNextInv, UplinkRingStep, RingNextRef DEF ServiceInv, UplinkInv

-----------------------------------------------------------------------------
(* Sequences *)

LEMMA Joined ==
    ASSUME NEW T, NEW q \in Seq(T), NEW s \in Seq(T), q # <<>>
    PROVE  /\ q \o s # <<>>
           /\ Head(q \o s) = Head(q)
           /\ Tail(q \o s) = Tail(q) \o s
<1>1. Len(q) \in Nat /\ Len(q) >= 1 /\ Len(s) \in Nat
    OBVIOUS
<1>2. /\ q \o s \in Seq(T)
      /\ Len(q \o s) = Len(q) + Len(s)
    OBVIOUS
<1>3. q \o s # <<>> /\ Head(q \o s) = Head(q)
    BY <1>1, <1>2
<1>4. /\ Tail(q \o s) \in Seq(T)
      /\ Tail(q) \o s \in Seq(T)
      /\ Len(Tail(q \o s)) = Len(q) + Len(s) - 1
      /\ Len(Tail(q) \o s) = Len(q) + Len(s) - 1
    BY <1>1, <1>2, <1>3
<1>5. \A i \in 1 .. Len(q) + Len(s) - 1 :
          Tail(q \o s)[i] = (Tail(q) \o s)[i]
    BY <1>1, <1>2, <1>3
<1> QED BY <1>3, <1>4, <1>5, SeqEqual

-----------------------------------------------------------------------------
(* The ring's queue *)

LEMMA RingQueueKept ==
    ASSUME RingInv,
           \/ \E d \in Documents : WriteFile(d)
           \/ PostRead
           \/ WaitRead
           \/ LoadFile
           \/ PostWrite
           \/ UNCHANGED ringVars
    PROVE  RingQueue' = RingQueue
<1> USE RingSize
<1>1. ASSUME NEW d \in Documents, WriteFile(d)
      PROVE  RingQueue' = RingQueue
    <2>1. \A i \in 1 .. Unread : Slot(i) \in Positions /\ Slot(i) # writepos
        BY UnreadIsNat DEF RingInv, RingTypeOK, Slot, Unread, Positions
    <2>2. \A i \in 1 .. Unread : XMLFile'[Slot(i)] = XMLFile[Slot(i)]
        BY <1>1, <2>1 DEF WriteFile, RingInv, RingTypeOK
    <2> QED BY <1>1, <2>2, QueueUnchanged DEF WriteFile
<1>2. CASE PostRead
    BY <1>2, QueueUnchanged DEF PostRead
<1>3. CASE WaitRead
    BY <1>3, QueueUnchanged DEF WaitRead
<1>4. CASE LoadFile
    BY <1>4, QueueUnchanged DEF LoadFile
<1>5. CASE PostWrite
    BY <1>5, QueueUnchanged DEF PostWrite
<1>6. CASE UNCHANGED ringVars
    BY <1>6, QueueUnchanged DEF ringVars
<1> QED BY <1>1, <1>2, <1>3, <1>4, <1>5, <1>6

LEMMA LoadLooksAtHead ==
    ASSUME RingInv, LoadFile
    PROVE  RingQueue # <<>> /\ loaded' = Head(RingQueue)
<1> USE RingSize
<1>1. Unread \in Nat /\ Unread >= 1
    BY UnreadIsNat DEF LoadFile, RingInv, RingTypeOK, SlotsConserved
<1>2. Slot(1) = readpos
    BY DEF Slot, RingInv, RingTypeOK, Positions
<1> QED BY <1>1, <1>2, QueueIs DEF LoadFile

\* The file built and not yet placed.
Placing ==
    IF rpc \in {"built", "commit"} THEN <<XMLFile[writepos]>> ELSE <<>>

LEMMA OnTheWayIs ==
    ASSUME RingInv
    PROVE  /\ OnTheWay = RingQueue \o Placing
           /\ RingQueue \in Seq(Documents \cup {NoDocument})
           /\ Placing \in Seq(Documents \cup {NoDocument})
           /\ Len(RingQueue) \in 0 .. XML_BUF_FILE_NUM - 1
<1>1. OnTheWay = RingQueue \o Placing
    BY DEF OnTheWay, Placing
<1>2. XMLFile[writepos] \in Documents \cup {NoDocument}
    BY DEF RingInv, RingTypeOK
<1>3. Placing \in Seq(Documents \cup {NoDocument})
    <2>1. <<XMLFile[writepos]>> \in Seq(Documents \cup {NoDocument})
        BY <1>2
    <2>2. <<>> \in Seq(Documents \cup {NoDocument})
        OBVIOUS
    <2> QED BY <2>1, <2>2 DEF Placing
<1> QED BY <1>1, <1>3, QueueIs, UnreadIsNat

-----------------------------------------------------------------------------
(* Every step of the uplink is a step of the service *)

LEMMA UplinkStepIsServiceStep ==
    ASSUME ServiceInv, ServiceInv', [UplinkNext]_uplinkVars
    PROVE  [Service!ServiceNext]_(Service!serviceVars)
<1> USE DEF ServiceInv, UplinkInv, ringVars, semVars, requestVars, linkVars
<1> DEFINE Same == UNCHANGED <<Turn, AskedFor, OnTheWay, loaded>>
<1>0. /\ \A r, q \in Requesters : Holds(r) /\ Holds(q) => r = q
      /\ \A r \in Requesters :
            Holds(r) => ReportUp_Sem = 0 /\ rpc \notin {"build", "built"}
      /\ rpc \in {"build", "built"} => ReportUp_Sem = 0
    BY TurnIsExclusive
<1>0a. Same => UNCHANGED Service!serviceVars
    BY DEF Service!serviceVars
<1>1. CASE XmlWant
    <2>1. RingQueue' = RingQueue
        BY <1>1, RingQueueKept DEF XmlWant
    <2>2. Turn' = Turn
        BY <1>1 DEF XmlWant, Turn, UplinkTypes, TurnConserved, One, Holds,
                    Requesters
    <2>3. AskedFor' = AskedFor /\ OnTheWay' = OnTheWay /\ loaded' = loaded
        BY <1>1, <2>1 DEF XmlWant, AskedFor, OnTheWay, UplinkTypes,
                          TurnConserved, One, Holds, Requesters
    <2> QED BY <1>0a, <2>2, <2>3
<1>2. CASE ManaWant
    <2>1. RingQueue' = RingQueue
        BY <1>2, RingQueueKept DEF ManaWant
    <2>2. Turn' = Turn
        BY <1>2 DEF ManaWant, Turn, UplinkTypes, TurnConserved, One, Holds,
                    Requesters
    <2>3. AskedFor' = AskedFor /\ OnTheWay' = OnTheWay /\ loaded' = loaded
        BY <1>2, <2>1 DEF ManaWant, AskedFor, OnTheWay, UplinkTypes,
                          TurnConserved, One, Holds, Requesters
    <2> QED BY <1>0a, <2>2, <2>3
<1>3. CASE DealWant
    <2>1. RingQueue' = RingQueue
        BY <1>3, RingQueueKept DEF DealWant
    <2>2. Turn' = Turn
        BY <1>3 DEF DealWant, Turn, UplinkTypes, TurnConserved, One, Holds,
                    Requesters
    <2>3. AskedFor' = AskedFor /\ OnTheWay' = OnTheWay /\ loaded' = loaded
        BY <1>3, <2>1 DEF DealWant, AskedFor, OnTheWay, UplinkTypes,
                          TurnConserved, One, Holds, Requesters
    <2> QED BY <1>0a, <2>2, <2>3
<1>4. ASSUME NEW r \in Requesters, TakeTurn(r)
      PROVE  Service!Take
    <2>1. RingQueue' = RingQueue
        BY <1>4, RingQueueKept DEF TakeTurn
    <2>2. Turn = "free" /\ Turn' = "taken"
        BY <1>4 DEF TakeTurn, Turn, UplinkTypes, TurnConserved, One, Holds,
                    Requesters
    <2> QED BY <1>4, <2>1, <2>2 DEF TakeTurn, Service!Take, AskedFor, OnTheWay
<1>5. ASSUME NEW r \in Requesters, NEW t \in TypesOf[r], AskType(r, t)
      PROVE  Service!ServiceNext
    <2>1. RingQueue' = RingQueue
        BY <1>5, RingQueueKept DEF AskType
    <2>2. Turn = "taken" /\ Turn' = "asked"
        BY <1>5, <1>0 DEF AskType, Turn, UplinkTypes, TurnConserved, One,
                          Holds, Requesters
    <2>3. rpc # "built" /\ rpc' = rpc
        BY <1>5, <1>0 DEF AskType, Holds, Requesters
    <2>4. Service!Ask([type |-> t, body |-> NoBody])
        BY <1>5, <2>1, <2>2, <2>3 DEF AskType, Service!Ask, AskedFor, OnTheWay
    <2>5. [type |-> t, body |-> NoBody] \in Documents
        BY <1>5, DocumentsAreBuilt DEF AskType, TypesOf, Requesters
    <2> QED BY <2>4, <2>5 DEF Service!ServiceNext
<1>6. ASSUME NEW t \in DealTypes, NEW b \in Bodies, AskReport(t, b)
      PROVE  Service!ServiceNext
    <2>1. RingQueue' = RingQueue
        BY <1>6, RingQueueKept DEF AskReport
    <2>2. Turn = "taken" /\ Turn' = "asked"
        BY <1>6, <1>0 DEF AskReport, Turn, UplinkTypes, TurnConserved, One,
                          Holds, Requesters
    <2>3. rpc # "built" /\ rpc' = rpc
        BY <1>6, <1>0 DEF AskReport, Holds, Requesters
    <2>4. Service!Ask([type |-> t, body |-> b])
        BY <1>6, <2>1, <2>2, <2>3 DEF AskReport, Service!Ask, AskedFor, OnTheWay
    <2>5. [type |-> t, body |-> b] \in Documents
        BY <1>6, DocumentsAreBuilt DEF AskReport, TypesOf, Requesters
    <2> QED BY <2>4, <2>5 DEF Service!ServiceNext
<1>7. CASE GiveTurnBack
    <2>1. RingQueue' = RingQueue
        BY <1>7, RingQueueKept DEF GiveTurnBack
    <2>2. Turn \in {"taken", "asked"} /\ Turn' = "free"
        BY <1>7, <1>0 DEF GiveTurnBack, Turn, UplinkTypes, TurnConserved, One,
                          Holds, Requesters
    <2> QED BY <1>7, <2>1, <2>2
            DEF GiveTurnBack, Service!Withdraw, Service!ServiceNext, AskedFor,
                OnTheWay
<1>8. ASSUME NEW r \in Requesters, PostReportUp(r)
      PROVE  Service!Post
    <2>1. RingQueue' = RingQueue
        BY <1>8, RingQueueKept DEF PostReportUp
    <2>2. Turn = "asked" /\ Turn' = "posted"
        BY <1>8, <1>0 DEF PostReportUp, Turn, UplinkTypes, TurnConserved, One,
                          Holds, Requesters
    <2> QED BY <1>8, <2>1, <2>2
            DEF PostReportUp, Service!Post, AskedFor, OnTheWay
<1>9. CASE ReportUpWait
    <2>1. RingQueue' = RingQueue
        BY <1>9, RingQueueKept DEF ReportUpWait
    <2>2. Turn' = Turn
        BY <1>9 DEF ReportUpWait, Turn, UplinkTypes, TurnConserved, One,
                    Holds, Requesters
    <2>3. AskedFor' = AskedFor /\ OnTheWay' = OnTheWay /\ loaded' = loaded
        BY <1>9, <2>1 DEF ReportUpWait, AskedFor, OnTheWay, UplinkTypes,
                          TurnConserved, One, Holds, Requesters
    <2> QED BY <1>0a, <2>2, <2>3
<1>10. CASE MakeXml
    <2> DEFINE d == DocumentOf(gGPRS_XMLType)
    <2>1. d \in Documents /\ asked = d
        BY <1>10, DocumentOfType DEF MakeXml, UplinkTypes, AskedIsNext
    <2>2. WriteFile(d) /\ rpc = "build" /\ rpc' = "built"
        BY <1>10 DEF MakeXml
    <2> HIDE DEF d
    <2>3. RingQueue' = RingQueue
        BY <2>1, <2>2, RingQueueKept
    <2>4. Turn = "posted" /\ Turn' = "free"
        BY <1>10, <1>0 DEF MakeXml, Turn, UplinkTypes, TurnConserved, One,
                           Holds, Requesters
    <2>5. XMLFile'[writepos'] = d /\ loaded' = loaded
        BY <2>2 DEF WriteFile, RingInv, RingTypeOK
    <2>6. OnTheWay = RingQueue /\ OnTheWay' = RingQueue \o <<d>>
        BY <2>2, <2>3, <2>5, OnTheWayIs DEF OnTheWay
    <2>7. Service!Put(AskedFor)
        BY <2>1, <2>2, <2>5, <2>6, OnTheWayIs, RingSize
           DEF Service!Put, AskedFor
    <2>8. AskedFor' = NoDocument
        BY <2>2 DEF AskedFor
    <2> QED BY <2>4, <2>7, <2>8 DEF Service!Build, Service!ServiceNext
<1>11. CASE ReturnTurn
    <2>1. RingQueue' = RingQueue
        BY <1>11, RingQueueKept DEF ReturnTurn
    <2>2. Turn' = Turn
        BY <1>11 DEF ReturnTurn, Turn, UplinkTypes, TurnConserved, One, Holds,
                     Requesters
    <2>3. AskedFor' = AskedFor /\ OnTheWay' = OnTheWay /\ loaded' = loaded
        BY <1>11, <2>1 DEF ReturnTurn, AskedFor, OnTheWay, UplinkTypes,
                           TurnConserved, One, Holds, Requesters
    <2> QED BY <1>0a, <2>2, <2>3
<1>12. CASE PlaceFile
    <2>1. RingQueue' = Append(RingQueue, XMLFile[writepos])
        BY <1>12, CommitAppends DEF PlaceFile
    <2>2. Turn' = Turn
        BY <1>12 DEF PlaceFile, Turn, UplinkTypes, TurnConserved, One, Holds,
                     Requesters
    <2>3. OnTheWay = RingQueue \o <<XMLFile[writepos]>>
        BY <1>12 DEF PlaceFile, OnTheWay
    <2>4. OnTheWay' = RingQueue' \o <<>>
        BY <1>12 DEF PlaceFile, OnTheWay
    <2>5. /\ RingQueue \in Seq(Documents \cup {NoDocument})
          /\ RingQueue' \in Seq(Documents \cup {NoDocument})
          /\ XMLFile[writepos] \in Documents \cup {NoDocument}
        BY <1>12, <2>1, OnTheWayIs DEF RingInv, RingTypeOK
    <2>6. OnTheWay' = OnTheWay
        BY <2>1, <2>3, <2>4, <2>5
    <2>7. AskedFor' = AskedFor /\ loaded' = loaded
        BY <1>12 DEF PlaceFile, Commit, AskedFor
    <2> QED BY <1>0a, <2>2, <2>6, <2>7
<1>13. CASE WakeSender
    <2>1. RingQueue' = RingQueue
        BY <1>13, RingQueueKept DEF WakeSender
    <2>2. Turn' = Turn
        BY <1>13 DEF WakeSender, Turn, UplinkTypes, TurnConserved, One, Holds,
                     Requesters
    <2>3. AskedFor' = AskedFor /\ OnTheWay' = OnTheWay /\ loaded' = loaded
        BY <1>13, <2>1 DEF WakeSender, AskedFor, OnTheWay, UplinkTypes,
                           TurnConserved, One, Holds, Requesters
    <2> QED BY <1>0a, <2>2, <2>3
<1>14. CASE PublishFile
    <2>1. RingQueue' = RingQueue
        BY <1>14, RingQueueKept DEF PublishFile
    <2>2. Turn' = Turn
        BY <1>14 DEF PublishFile, Turn, UplinkTypes, TurnConserved, One,
                     Holds, Requesters
    <2>3. AskedFor' = AskedFor /\ OnTheWay' = OnTheWay /\ loaded' = loaded
        BY <1>14, <2>1 DEF PublishFile, PostRead, AskedFor, OnTheWay,
                           UplinkTypes, TurnConserved, One, Holds, Requesters
    <2> QED BY <1>0a, <2>2, <2>3
<1>15. CASE UpSendWait
    <2>1. RingQueue' = RingQueue
        BY <1>15, RingQueueKept DEF UpSendWait
    <2>2. Turn' = Turn
        BY <1>15 DEF UpSendWait, Turn, UplinkTypes, TurnConserved, One, Holds,
                     Requesters
    <2>3. AskedFor' = AskedFor /\ OnTheWay' = OnTheWay /\ loaded' = loaded
        BY <1>15, <2>1 DEF UpSendWait, AskedFor, OnTheWay, UplinkTypes,
                           TurnConserved, One, Holds, Requesters
    <2> QED BY <1>0a, <2>2, <2>3
<1>16. CASE ReadGvc
    <2>1. RingQueue' = RingQueue
        BY <1>16, RingQueueKept DEF ReadGvc
    <2>2. Turn' = Turn
        BY <1>16 DEF ReadGvc, Turn, UplinkTypes, TurnConserved, One, Holds,
                     Requesters
    <2>3. AskedFor' = AskedFor /\ OnTheWay' = OnTheWay /\ loaded' = loaded
        BY <1>16, <2>1 DEF ReadGvc, AskedFor, OnTheWay, UplinkTypes,
                           TurnConserved, One, Holds, Requesters
    <2> QED BY <1>0a, <2>2, <2>3
<1>17. CASE CheckDone
    <2>1. RingQueue' = RingQueue
        BY <1>17, RingQueueKept DEF CheckDone
    <2>2. Turn' = Turn
        BY <1>17 DEF CheckDone, Turn, UplinkTypes, TurnConserved, One, Holds,
                     Requesters
    <2>3. AskedFor' = AskedFor /\ OnTheWay' = OnTheWay /\ loaded' = loaded
        BY <1>17, <2>1 DEF CheckDone, AskedFor, OnTheWay, UplinkTypes,
                           TurnConserved, One, Holds, Requesters
    <2> QED BY <1>0a, <2>2, <2>3
<1>18. CASE ClearGvc
    <2>1. RingQueue' = RingQueue
        BY <1>18, RingQueueKept DEF ClearGvc
    <2>2. Turn' = Turn
        BY <1>18 DEF ClearGvc, Turn, UplinkTypes, TurnConserved, One, Holds,
                     Requesters
    <2>3. AskedFor' = AskedFor /\ OnTheWay' = OnTheWay /\ loaded' = loaded
        BY <1>18, <2>1 DEF ClearGvc, AskedFor, OnTheWay, UplinkTypes,
                           TurnConserved, One, Holds, Requesters
    <2> QED BY <1>0a, <2>2, <2>3
<1>19. CASE DropWakeup
    <2>1. RingQueue' = RingQueue
        BY <1>19, RingQueueKept DEF DropWakeup
    <2>2. Turn' = Turn
        BY <1>19 DEF DropWakeup, Turn, UplinkTypes, TurnConserved, One, Holds,
                     Requesters
    <2>3. AskedFor' = AskedFor /\ OnTheWay' = OnTheWay /\ loaded' = loaded
        BY <1>19, <2>1 DEF DropWakeup, AskedFor, OnTheWay, UplinkTypes,
                           TurnConserved, One, Holds, Requesters
    <2> QED BY <1>0a, <2>2, <2>3
<1>20. CASE PassGate
    <2>1. RingQueue' = RingQueue
        BY <1>20, RingQueueKept DEF PassGate
    <2>2. Turn' = Turn
        BY <1>20 DEF PassGate, Turn, UplinkTypes, TurnConserved, One, Holds,
                     Requesters
    <2>3. AskedFor' = AskedFor /\ OnTheWay' = OnTheWay /\ loaded' = loaded
        BY <1>20, <2>1 DEF PassGate, AskedFor, OnTheWay, UplinkTypes,
                           TurnConserved, One, Holds, Requesters
    <2> QED BY <1>0a, <2>2, <2>3
<1>21. CASE FetchFile
    <2>1. RingQueue' = RingQueue
        BY <1>21, RingQueueKept DEF FetchFile
    <2>2. Turn' = Turn
        BY <1>21 DEF FetchFile, Turn, UplinkTypes, TurnConserved, One, Holds,
                     Requesters
    <2>3. AskedFor' = AskedFor /\ OnTheWay' = OnTheWay /\ loaded' = loaded
        BY <1>21, <2>1 DEF FetchFile, WaitRead, AskedFor, OnTheWay,
                           UplinkTypes, TurnConserved, One, Holds, Requesters
    <2> QED BY <1>0a, <2>2, <2>3
<1>22. CASE SendPacket
    <2>1. RingQueue' = RingQueue
        BY <1>22, RingQueueKept DEF SendPacket
    <2>2. Turn' = Turn /\ AskedFor' = AskedFor
        BY <1>22 DEF SendPacket, Turn, AskedFor
    <2>3. RingQueue # <<>> /\ loaded' = Head(RingQueue)
        BY <1>22, LoadLooksAtHead DEF SendPacket
    <2>4. OnTheWay # <<>> /\ Head(OnTheWay) = Head(RingQueue)
        BY <2>3, OnTheWayIs, Joined
    <2>5. OnTheWay' = OnTheWay
        BY <1>22, <2>1 DEF SendPacket, LoadFile, OnTheWay
    <2> QED BY <2>2, <2>3, <2>4, <2>5 DEF Service!Look, Service!ServiceNext
<1>23. CASE LeaveFile
    <2>1. /\ RingQueue # <<>>
          /\ loaded = Head(RingQueue)
          /\ RingQueue' = Tail(RingQueue)
        BY <1>23, AdvanceRemoves DEF LeaveFile, RefInv
    <2>2. Turn' = Turn /\ AskedFor' = AskedFor
        BY <1>23 DEF LeaveFile, Turn, AskedFor
    <2>3. OnTheWay # <<>> /\ Head(OnTheWay) = Head(RingQueue)
        BY <2>1, OnTheWayIs, Joined
    <2>4. Placing' = Placing
        BY <1>23 DEF LeaveFile, AdvanceRead, Placing
    <2>5. OnTheWay' = RingQueue' \o Placing'
        BY OnTheWayIs DEF OnTheWay, Placing
    <2>6. OnTheWay' = Tail(OnTheWay)
        BY <2>1, <2>4, <2>5, OnTheWayIs, Joined
    <2>7. loaded' = NoDocument
        BY <1>23 DEF LeaveFile, AdvanceRead
    <2> QED BY <2>1, <2>2, <2>3, <2>6, <2>7
            DEF Service!Remove, Service!ServiceNext
<1>24. CASE FreeFile
    <2>1. RingQueue' = RingQueue
        BY <1>24, RingQueueKept DEF FreeFile
    <2>2. Turn' = Turn
        BY <1>24 DEF FreeFile, Turn, UplinkTypes, TurnConserved, One, Holds,
                     Requesters
    <2>3. AskedFor' = AskedFor /\ OnTheWay' = OnTheWay /\ loaded' = loaded
        BY <1>24, <2>1 DEF FreeFile, PostWrite, AskedFor, OnTheWay,
                           UplinkTypes, TurnConserved, One, Holds, Requesters
    <2> QED BY <1>0a, <2>2, <2>3
<1>25. CASE LinkReady
    <2>1. RingQueue' = RingQueue
        BY <1>25, RingQueueKept DEF LinkReady
    <2>2. Turn' = Turn
        BY <1>25 DEF LinkReady, Turn, UplinkTypes, TurnConserved, One, Holds,
                     Requesters
    <2>3. AskedFor' = AskedFor /\ OnTheWay' = OnTheWay /\ loaded' = loaded
        BY <1>25, <2>1 DEF LinkReady, AskedFor, OnTheWay, UplinkTypes,
                           TurnConserved, One, Holds, Requesters
    <2> QED BY <1>0a, <2>2, <2>3
<1>26. CASE LinkUp
    <2>1. RingQueue' = RingQueue
        BY <1>26, RingQueueKept DEF LinkUp
    <2>2. Turn' = Turn
        BY <1>26 DEF LinkUp, Turn, UplinkTypes, TurnConserved, One, Holds,
                     Requesters
    <2>3. AskedFor' = AskedFor /\ OnTheWay' = OnTheWay /\ loaded' = loaded
        BY <1>26, <2>1 DEF LinkUp, AskedFor, OnTheWay, UplinkTypes,
                           TurnConserved, One, Holds, Requesters
    <2> QED BY <1>0a, <2>2, <2>3
<1>27. CASE LinkRestart
    <2>1. RingQueue' = RingQueue
        BY <1>27, RingQueueKept DEF LinkRestart
    <2>2. Turn' = Turn
        BY <1>27 DEF LinkRestart, Turn, UplinkTypes, TurnConserved, One,
                     Holds, Requesters
    <2>3. AskedFor' = AskedFor /\ OnTheWay' = OnTheWay /\ loaded' = loaded
        BY <1>27, <2>1 DEF LinkRestart, AskedFor, OnTheWay, UplinkTypes,
                           TurnConserved, One, Holds, Requesters
    <2> QED BY <1>0a, <2>2, <2>3
<1>28. CASE AskCheck
    <2>1. RingQueue' = RingQueue
        BY <1>28, RingQueueKept DEF AskCheck
    <2>2. Turn' = Turn
        BY <1>28 DEF AskCheck, Turn, UplinkTypes, TurnConserved, One, Holds,
                     Requesters
    <2>3. AskedFor' = AskedFor /\ OnTheWay' = OnTheWay /\ loaded' = loaded
        BY <1>28, <2>1 DEF AskCheck, AskedFor, OnTheWay, UplinkTypes,
                           TurnConserved, One, Holds, Requesters
    <2> QED BY <1>0a, <2>2, <2>3
<1>29. CASE PostCheck
    <2>1. RingQueue' = RingQueue
        BY <1>29, RingQueueKept DEF PostCheck
    <2>2. Turn' = Turn
        BY <1>29 DEF PostCheck, Turn, UplinkTypes, TurnConserved, One, Holds,
                     Requesters
    <2>3. AskedFor' = AskedFor /\ OnTheWay' = OnTheWay /\ loaded' = loaded
        BY <1>29, <2>1 DEF PostCheck, AskedFor, OnTheWay, UplinkTypes,
                           TurnConserved, One, Holds, Requesters
    <2> QED BY <1>0a, <2>2, <2>3
<1>30. CASE AwaitCheck
    <2>1. RingQueue' = RingQueue
        BY <1>30, RingQueueKept DEF AwaitCheck
    <2>2. Turn' = Turn
        BY <1>30 DEF AwaitCheck, Turn, UplinkTypes, TurnConserved, One, Holds,
                     Requesters
    <2>3. AskedFor' = AskedFor /\ OnTheWay' = OnTheWay /\ loaded' = loaded
        BY <1>30, <2>1 DEF AwaitCheck, AskedFor, OnTheWay, UplinkTypes,
                           TurnConserved, One, Holds, Requesters
    <2> QED BY <1>0a, <2>2, <2>3
<1>31. CASE UNCHANGED uplinkVars
    <2>1. RingQueue' = RingQueue
        BY <1>31, RingQueueKept DEF uplinkVars
    <2>2. Same
        BY <1>31, <2>1 DEF uplinkVars, Turn, AskedFor, OnTheWay
    <2> QED BY <1>0a, <2>2
<1> QED BY <1>1, <1>2, <1>3, <1>4, <1>5, <1>6, <1>7, <1>8, <1>9, <1>10, <1>11,
           <1>12, <1>13, <1>14, <1>15, <1>16, <1>17, <1>18, <1>19, <1>20,
           <1>21, <1>22, <1>23, <1>24, <1>25, <1>26, <1>27, <1>28, <1>29,
           <1>30, <1>31
    DEF UplinkNext, Request, ReportUp_main_proc, GPRS_Upsend_main_proc,
        GPRS_Mana_main_proc, Service!ServiceNext

\* Whatever the requesters, the module and the link manager do, the documents
\* that reach the sender are exactly those asked for, each once, in order.
THEOREM UplinkImplementsService == UplinkSpec => UplinkServes
<1>1. UplinkInit => Service!ServiceInit
    <2>1. UplinkInit => RingQueue = <<>> /\ OnTheWay = <<>>
        BY RingSize DEF UplinkInit, RingInit, RingQueue, Unread, OnTheWay
    <2> QED BY <2>1 DEF UplinkInit, RingInit, Turn, AskedFor,
                        Service!ServiceInit, Service!Init
<1>2. ServiceInv /\ ServiceInv' /\ [UplinkNext]_uplinkVars
        => [Service!ServiceNext]_(Service!serviceVars)
    BY UplinkStepIsServiceStep
<1> QED BY <1>1, <1>2, UplinkInitServiceInv, UplinkNextServiceInv, PTL
        DEF UplinkSpec, UplinkServes, Service!ServiceSpec
=============================================================================
