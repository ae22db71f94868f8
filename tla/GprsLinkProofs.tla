--------------------------- MODULE GprsLinkProofs ---------------------------
(***************************************************************************)
(* What holds of the GPRS link for every number of login attempts, cycles,  *)
(* files and faults.                                                       *)
(***************************************************************************)
EXTENDS GprsLink, SequenceTheorems, TLAPS

USE DEF manaVars, dogVars, gateVars, checkVars, rcvVars, loginVars, moduleVars,
        ghostVars, linkVars, Kinds, Answers

One(b) == IF b THEN 1 ELSE 0

\* The sender has a check in hand, or a document.
Checks == snd \in {"close", "closing", "answer"}
Sends == snd \in {"send", "sending"}

\* A check is asked for and answered once, while the manager waits for it.
CheckInv ==
    /\ Checks => GprsGvc
    /\ GprsGvc => mana = "await" /\ GprsMana = 0
    /\ GprsMana > 0 => mana = "await"

\* No more wake-ups than documents, but for the one of a check.
WakeInv ==
    /\ UpSend + One(Sends) <= Len(docs) + One(GprsGvc /\ ~Checks)
    /\ snd = "sending" => docs # <<>>

\* The line is free, or used by one thread, or lost.
LineInv == GprsXmzSem + One(SenderUses) + One(ReceiverUses) + One(leaked) = 1

\* Between Stop and HandLineOver the sender has at most the use it was about to
\* make, or was making, when Ready became FALSE.
IntrusionInv ==
    /\ mana = "init" => intruded + One(snd \in {"close", "send"}) <= 1
    /\ mana \in {"init", "ready"} => ~Ready

\* An answer to a login is on its way only if the server has passed a MD5.
LoginInv ==
    /\ mana = "init" => ~Connect
    /\ Connect => accepted
    /\ RESULT_XML > 0 => accepted
    /\ \A k \in 1 .. Len(inbox) : inbox[k] = "RESULT" => accepted

\* Without a fault only a use in the midst of a restart fails.
HealthInv ==
    faults = 0 =>
        /\ IpSendFailNum <= 1 /\ IpCloseNum <= 1
        /\ mana = "init" =>
               IpSendFailNum + IpCloseNum + One(Sends \/ snd \in {"close", "closing"}) <= 1
        /\ ~alive => mana \in {"stop", "init"} /\ ~Ready /\ snd \in {"wait", "answer"}

-----------------------------------------------------------------------------
(* Types *)

\* A counter that saturates keeps its limit.
LEMMA SaturatedInRange ==
    ASSUME NEW limit \in Nat, NEW n \in 0 .. limit
    PROVE  Saturated(n, limit) \in 0 .. limit
BY SMT DEF Saturated

\* A document more.
LEMMA PutTypes ==
    ASSUME LinkTypeOK, NEW kind \in Kinds, PutDocument(kind)
    PROVE  /\ docs' \in Seq(Kinds) /\ Len(docs') = Len(docs) + 1
           /\ Len(docs') <= MaxFiles /\ docs' # <<>>
           /\ UpSend' = UpSend + 1
<1>1. docs \in Seq(Kinds) /\ Len(docs) \in Nat /\ Len(docs) < MaxFiles
  BY LenProperties DEF LinkTypeOK, PutDocument
<1>2. docs' = Append(docs, kind)
  BY DEF PutDocument
<1>3. /\ docs' \in Seq(Kinds) /\ Len(docs') = Len(docs) + 1 /\ docs' # <<>>
  BY <1>1, <1>2, AppendProperties
<1> QED
  BY <1>1, <1>3, LinkConstants, SMT DEF PutDocument

\* A document less.
LEMMA TakeTypes ==
    ASSUME LinkTypeOK, docs # <<>>, docs' = Tail(docs)
    PROVE  /\ docs' \in Seq(Kinds) /\ Len(docs') = Len(docs) - 1
           /\ Len(docs') <= MaxFiles /\ Len(docs) \in Nat \ {0}
<1>1. docs \in Seq(Kinds) /\ Len(docs) \in Nat \ {0} /\ Len(docs) <= MaxFiles
  BY EmptySeq DEF LinkTypeOK
<1>2. Tail(docs) \in Seq(Kinds) /\ Len(Tail(docs)) = Len(docs) - 1
  BY <1>1, HeadTailProperties
<1> QED
  BY <1>1, <1>2, LinkConstants, SMT

\* What the module receives and what is taken from it.
LEMMA InboxTypes ==
    ASSUME LinkTypeOK
    PROVE  /\ \A answer \in Answers : Received(answer) =>
                /\ inbox' \in Seq(Answers) /\ Len(inbox') <= MaxInbox
                /\ Len(inbox') = Len(inbox) + 1 /\ inbox'[Len(inbox) + 1] = answer
                /\ \A k \in 1 .. Len(inbox) : inbox'[k] = inbox[k]
                /\ urc' \in BOOLEAN
           /\ inbox # <<>> =>
                /\ Tail(inbox) \in Seq(Answers) /\ Len(Tail(inbox)) <= MaxInbox
                /\ Head(inbox) = inbox[1] /\ Len(inbox) \in Nat \ {0}
                /\ Head(inbox) \in Answers
                /\ Len(Tail(inbox)) = Len(inbox) - 1
                /\ \A k \in 1 .. Len(Tail(inbox)) : Tail(inbox)[k] = inbox[k + 1]
<1>1. inbox \in Seq(Answers) /\ Len(inbox) \in Nat /\ Len(inbox) <= MaxInbox
  BY LenProperties DEF LinkTypeOK
<1>2. ASSUME NEW answer \in Answers, Received(answer)
      PROVE  /\ inbox' \in Seq(Answers) /\ Len(inbox') <= MaxInbox
             /\ Len(inbox') = Len(inbox) + 1 /\ inbox'[Len(inbox) + 1] = answer
             /\ \A k \in 1 .. Len(inbox) : inbox'[k] = inbox[k]
             /\ urc' \in BOOLEAN
  <2>1. inbox' = Append(inbox, answer)
    BY <1>2 DEF Received
  <2>2. /\ inbox' \in Seq(Answers) /\ Len(inbox') = Len(inbox) + 1
        /\ \A k \in 1 .. Len(inbox) : inbox'[k] = inbox[k]
        /\ inbox'[Len(inbox) + 1] = answer
    BY <1>1, <2>1, AppendProperties
  <2>3. Len(inbox') <= MaxInbox
    BY <1>1, <1>2, <2>2, LinkConstants, SMT DEF Received
  <2>4. urc' \in BOOLEAN
    BY <1>2, Zenon DEF Received, LinkTypeOK
  <2> QED
    BY <2>2, <2>3, <2>4
<1>3. ASSUME inbox # <<>>
      PROVE  /\ Tail(inbox) \in Seq(Answers) /\ Len(Tail(inbox)) <= MaxInbox
             /\ Head(inbox) = inbox[1] /\ Len(inbox) \in Nat \ {0}
             /\ Head(inbox) \in Answers
             /\ Len(Tail(inbox)) = Len(inbox) - 1
             /\ \A k \in 1 .. Len(Tail(inbox)) : Tail(inbox)[k] = inbox[k + 1]
  <2>1. /\ Head(inbox) \in Answers /\ Tail(inbox) \in Seq(Answers)
        /\ Len(Tail(inbox)) = Len(inbox) - 1
        /\ \A k \in 1 .. Len(Tail(inbox)) : Tail(inbox)[k] = inbox[k + 1]
    BY <1>1, <1>3, HeadTailProperties
  <2>2. Len(inbox) \in Nat \ {0}
    BY <1>1, <1>3, EmptySeq
  <2>3. Len(Tail(inbox)) <= MaxInbox
    BY <1>1, <2>1, LinkConstants, SMT
  <2>4. Head(inbox) = inbox[1]
    BY <2>2, <1>1, SMT
  <2> QED
    BY <2>1, <2>2, <2>3, <2>4
<1> QED
  BY <1>2, <1>3

\* The manager's steps.
LEMMA ManagerTypes ==
    ASSUME LinkTypeOK, CheckInv, WakeInv, Manager \/ Report
    PROVE  LinkTypeOK'
<1> USE LinkConstants DEF LinkTypeOK
<1>1. CASE Stop
  <2>1. /\ RecDog' \in 0 .. DogCycles + 1 /\ SndDog' \in 0 .. HeartCycles
        /\ IpCloseNum' \in 0 .. 2 /\ IpSendFailNum' \in 0 .. 3
    BY <1>1, SMT DEF Stop
  <2>2. intruded' \in 0 .. 3
    BY <1>1, SMT DEF Stop
  <2>3. /\ mana' = "init" /\ PRIO' \in BOOLEAN /\ Ready' \in BOOLEAN
        /\ Connect' \in BOOLEAN
    BY <1>1 DEF Stop
  <2>4. UNCHANGED <<TryT, selfchecknum, gGPRSBusy, checkVars, docs, snd,
                    rcvVars, GprsXmzSem, loginVars, moduleVars, leaked,
                    accepted, faults>>
    BY <1>1 DEF Stop
  <2> QED
    BY <2>1, <2>2, <2>3, <2>4
<1>2. CASE StartModule
  <2>1. inbox' \in Seq(Answers) /\ Len(inbox') <= MaxInbox
    BY <1>2, EmptySeq, SMT DEF StartModule
  <2>2. accepted' \in BOOLEAN
    BY <1>2, SMT DEF StartModule
  <2> QED
    BY <1>2, <2>1, <2>2 DEF StartModule
<1>3. CASE HandLineOver
  BY <1>3 DEF HandLineOver
<1>4. CASE TryLogin
  <2>1. TryT' \in 0 .. Tries /\ mana' \in {"stop", "request"}
    BY <1>4, SMT DEF TryLogin
  <2> QED
    BY <1>4, <2>1 DEF TryLogin
<1>5. CASE AskLogin \/ AnswerSequence
  <2>1. /\ docs' \in Seq(Kinds) /\ Len(docs') <= MaxFiles
        /\ UpSend' = UpSend + 1
    BY <1>5, PutTypes DEF AskLogin, AnswerSequence, ManagerPuts
  <2>2. UpSend' \in 0 .. MaxFiles + 1
    <3>1. ~GprsGvc /\ UpSend <= Len(docs) /\ Len(docs) < MaxFiles
      <4>1. Len(docs) < MaxFiles /\ mana # "await"
        BY <1>5 DEF AskLogin, AnswerSequence, ManagerPuts, PutDocument
      <4>2. ~GprsGvc
        BY <4>1 DEF CheckInv
      <4> QED
        BY <4>1, <4>2, LenProperties, SMT DEF WakeInv, One
    <3> QED
      BY <2>1, <3>1, LenProperties, SMT
  <2>3. mana' \in {"sequence", "result"}
    BY <1>5 DEF AskLogin, AnswerSequence, ManagerPuts
  <2>4. UNCHANGED <<TryT, selfchecknum, Connect, gGPRSBusy, dogVars, gateVars,
                    GprsGvc, GprsMana, snd, rcvVars, GprsXmzSem, loginVars,
                    moduleVars, ghostVars>>
    BY <1>5 DEF AskLogin, AnswerSequence, ManagerPuts
  <2> QED
    BY <2>1, <2>2, <2>3, <2>4
<1>6. CASE TakeSequence
  <2>1. SEQUEUE_XML' \in 0 .. MaxPosts
    BY <1>6, SMT DEF TakeSequence
  <2> QED
    BY <1>6, <2>1 DEF TakeSequence
<1>7. CASE TakeResult
  <2>1. RESULT_XML' \in 0 .. MaxPosts
    BY <1>7, SMT DEF TakeResult
  <2> QED
    BY <1>7, <2>1 DEF TakeResult
<1>8. CASE SequenceTimeout \/ ResultTimeout
  <2>1. mana' = "try"
    BY <1>8 DEF SequenceTimeout, ResultTimeout
  <2>2. UNCHANGED <<TryT, selfchecknum, Connect, gGPRSBusy, dogVars, gateVars,
                    checkVars, docs, snd, rcvVars, GprsXmzSem, loginVars,
                    moduleVars, ghostVars>>
    BY <1>8 DEF SequenceTimeout, ResultTimeout
  <2> QED
    BY <2>1, <2>2
<1>9. CASE Cycle
  <2>1. SndDog' \in 0 .. HeartCycles /\ RecDog' \in 0 .. DogCycles + 1
    BY <1>9, SMT DEF Cycle, Saturated
  <2>2. selfchecknum' \in 0 .. SelfCheck - 1
    BY <1>9, SMT DEF Cycle
  <2>3. UpSend' \in 0 .. MaxFiles + 1
    <3>1. ~GprsGvc /\ UpSend <= Len(docs) /\ Len(docs) <= MaxFiles
      BY <1>9, SMT DEF CheckInv, WakeInv, One, Cycle
    <3> QED
      BY <1>9, <3>1, LenProperties, SMT DEF Cycle
  <2>4. mana' \in {"await", "decide"} /\ gGPRSBusy' \in BOOLEAN /\ GprsGvc' \in BOOLEAN
    BY <1>9 DEF Cycle
  <2> QED
    BY <1>9, <2>1, <2>2, <2>3, <2>4 DEF Cycle
<1>10. CASE AwaitCheck
  <2>1. GprsMana' \in 0 .. 1
    BY <1>10, SMT DEF AwaitCheck
  <2> QED
    BY <1>10, <2>1 DEF AwaitCheck
<1>11. CASE Decide
  <2>1. mana' \in {"stop", "beat", "loop"} /\ Connect' \in BOOLEAN
    BY <1>11 DEF Decide
  <2> QED
    BY <1>11, <2>1 DEF Decide
<1>12. CASE Beat \/ Report
  <2>1. /\ docs' \in Seq(Kinds) /\ Len(docs') <= MaxFiles
        /\ UpSend' = UpSend + 1
    BY <1>12, PutTypes DEF Beat, ManagerPuts, Report
  <2>2. UpSend' \in 0 .. MaxFiles + 1
    <3>1. UpSend <= Len(docs) + 1 /\ Len(docs) < MaxFiles
      <4>1. Len(docs) < MaxFiles
        BY <1>12 DEF Beat, ManagerPuts, Report, PutDocument
      <4> QED
        BY <4>1, LenProperties, SMT DEF WakeInv, One
    <3> QED
      BY <2>1, <3>1, LenProperties, SMT
  <2>3. CASE Beat
    <3>1. mana' = "loop" /\ gGPRSBusy' \in BOOLEAN
      BY <2>3 DEF Beat, ManagerPuts
    <3>2. UNCHANGED <<TryT, selfchecknum, Connect, dogVars, gateVars, GprsGvc,
                      GprsMana, snd, rcvVars, GprsXmzSem, loginVars,
                      moduleVars, ghostVars>>
      BY <2>3 DEF Beat, ManagerPuts
    <3> QED
      BY <2>1, <2>2, <3>1, <3>2
  <2>4. CASE Report
    BY <2>1, <2>2, <2>4 DEF Report
  <2> QED
    BY <1>12, <2>3, <2>4
<1> QED
  BY <1>1, <1>2, <1>3, <1>4, <1>5, <1>6, <1>7, <1>8, <1>9, <1>10, <1>11, <1>12
     DEF Manager

\* An exchange counts at most one fault.
LEMMA OutcomeTypes ==
    ASSUME LinkTypeOK, NEW ok \in BOOLEAN, Outcome(ok)
    PROVE  faults' \in 0 .. MaxFaults /\ faults' >= faults
BY LinkConstants, SMT DEF Outcome, LinkTypeOK

\* The sender's steps.
LEMMA SenderTypes ==
    ASSUME LinkTypeOK, CheckInv, WakeInv, LineInv, Sender
    PROVE  LinkTypeOK'
<1> USE LinkConstants DEF LinkTypeOK
<1>1. CASE SenderWakes
  <2>1. UpSend' \in 0 .. MaxFiles + 1
    BY <1>1, SMT DEF SenderWakes
  <2>2. snd' \in {"wait", "close", "answer", "send"}
    BY <1>1 DEF SenderWakes
  <2> QED
    BY <1>1, <2>1, <2>2 DEF SenderWakes
<1>2. CASE SenderTakesLine
  <2>1. GprsXmzSem' \in 0 .. 1
    BY <1>2, SMT DEF SenderTakesLine
  <2>2. intruded' \in 0 .. 3
    BY <1>2, SMT DEF SenderTakesLine, Saturated
  <2>3. snd' \in {"closing", "sending"}
    BY <1>2 DEF SenderTakesLine
  <2> QED
    BY <1>2, <2>1, <2>2, <2>3 DEF SenderTakesLine
<1>3. CASE AnswerCheck
  <2>1. GprsMana' = 1
    BY <1>3, SMT DEF AnswerCheck, CheckInv, Checks
  <2>2. snd' = "wait" /\ GprsGvc' \in BOOLEAN
    BY <1>3 DEF AnswerCheck
  <2>3. UNCHANGED <<manaVars, dogVars, gateVars, UpSend, docs, rcvVars,
                    GprsXmzSem, loginVars, moduleVars, ghostVars>>
    BY <1>3 DEF AnswerCheck
  <2> QED
    BY <2>1, <2>2, <2>3
<1>4. SenderUses => GprsXmzSem + 1 \in 0 .. 1
  BY SMT DEF LineInv, One
<1>5. ASSUME NEW ok \in BOOLEAN, CloseEnds(ok)
      PROVE  LinkTypeOK'
  <2>1. GprsXmzSem' \in 0 .. 1 /\ faults' \in 0 .. MaxFaults
    BY <1>4, <1>5, OutcomeTypes DEF CloseEnds, SenderUses
  <2>2. IpCloseNum' \in 0 .. 2
    BY <1>5, SMT DEF CloseEnds, Saturated
  <2> QED
    <3>1. /\ snd' = "answer"
          /\ UNCHANGED <<manaVars, RecDog, SndDog, IpSendFailNum, gateVars,
                         checkVars, docs, rcvVars, loginVars, moduleVars,
                         leaked, intruded, accepted>>
      BY <1>5 DEF CloseEnds
    <3> QED
      BY <2>1, <2>2, <3>1
<1>6. ASSUME NEW emptyEnd \in BOOLEAN, SendSucceeds(emptyEnd)
      PROVE  LinkTypeOK'
  <2>1. GprsXmzSem' \in 0 .. 1 /\ faults' \in 0 .. MaxFaults
    BY <1>4, <1>6, OutcomeTypes DEF SendSucceeds, SenderUses
  <2>2. docs' \in Seq(Kinds) /\ Len(docs') <= MaxFiles
    BY <1>6, TakeTypes DEF SendSucceeds, WakeInv
  <2>3. IpSendFailNum' \in 0 .. 3
    BY <1>6, SMT DEF SendSucceeds, Saturated, NoFailure
  <2>4. /\ inbox' \in Seq(Answers) /\ Len(inbox') <= MaxInbox
        /\ urc' \in BOOLEAN /\ accepted' \in BOOLEAN
    <3>1. Served(Head(docs))
      BY <1>6 DEF SendSucceeds
    <3>2. CASE UNCHANGED <<inbox, urc, accepted>>
      BY <3>2
    <3>3. CASE Received("SEQUENCE") /\ UNCHANGED accepted
      BY <3>3, InboxTypes
    <3>4. CASE Received("RESULT") /\ accepted' = TRUE
      BY <3>4, InboxTypes
    <3> QED
      BY <3>1, <3>2, <3>3, <3>4 DEF Served
  <2> QED
    BY <1>6, <2>1, <2>2, <2>3, <2>4 DEF SendSucceeds
<1>7. CASE SendFails
  <2>1. GprsXmzSem' \in 0 .. 1 /\ faults' \in 0 .. MaxFaults
    BY <1>4, <1>7, OutcomeTypes DEF SendFails, SenderUses
  <2>2. docs' \in Seq(Kinds) /\ Len(docs') <= MaxFiles
    BY <1>7, TakeTypes DEF SendFails, WakeInv
  <2>3. IpSendFailNum' \in 0 .. 3
    BY <1>7, SMT DEF SendFails, Saturated
  <2> QED
    BY <1>7, <2>1, <2>2, <2>3 DEF SendFails
<1> QED
  BY <1>1, <1>2, <1>3, <1>5, <1>6, <1>7 DEF Sender

\* What a round of the receiver does to the counters.
LEMMA RoundTypes ==
    ASSUME LinkTypeOK, NEW n \in 0 .. 2, RoundCounted(n)
    PROVE  /\ Count' \in 0 .. IdleReads + 1 /\ gUpdateBegin' \in BOOLEAN
           /\ RecDog' \in 0 .. DogCycles + 1
<1>1. Count' \in 0 .. IdleReads + 1 /\ RecDog' \in 0 .. DogCycles + 1
  BY LinkConstants, SMT DEF RoundCounted, Saturated, LinkTypeOK
<1>2. gUpdateBegin' \in BOOLEAN
  BY Zenon DEF RoundCounted, LinkTypeOK
<1> QED
  BY <1>1, <1>2

\* The receiver's steps, and the network's.
LEMMA ReceiverTypes ==
    ASSUME LinkTypeOK, LineInv,
           Receiver \/ ReadOversized \/ ServerSends \/ LinkDies
    PROVE  LinkTypeOK'
<1> USE LinkConstants DEF LinkTypeOK
<1>1. CASE BeginRound
  <2>1. /\ rcv' \in {"wait", "listen"} /\ readErr' \in BOOLEAN /\ urc' \in BOOLEAN
    BY <1>1 DEF BeginRound
  <2>2. UNCHANGED <<manaVars, dogVars, gateVars, checkVars, docs, snd, len,
                    Count, gUpdateBegin, GprsXmzSem, loginVars, alive, inbox,
                    ghostVars>>
    BY <1>1 DEF BeginRound
  <2> QED
    BY <2>1, <2>2
<1>2. CASE Announced
  <2>1. urc' \in BOOLEAN /\ readErr' \in BOOLEAN /\ rcv' = "wait"
    BY <1>2 DEF Announced
  <2>2. UNCHANGED <<manaVars, dogVars, gateVars, checkVars, docs, snd, len,
                    Count, gUpdateBegin, GprsXmzSem, loginVars, alive, inbox,
                    ghostVars>>
    BY <1>2 DEF Announced
  <2> QED
    BY <2>1, <2>2
<1>3. CASE ReceiverTakesLine
  <2>1. GprsXmzSem' \in 0 .. 1
    BY <1>3, SMT DEF ReceiverTakesLine
  <2> QED
    BY <1>3, <2>1 DEF ReceiverTakesLine
<1>4. ReceiverUses => GprsXmzSem + 1 \in 0 .. 1
  BY SMT DEF LineInv, One
<1>5. ASSUME NEW n \in 0 .. 2, ReadEnds(n)
      PROVE  LinkTypeOK'
  <2>1. GprsXmzSem' \in 0 .. 1 /\ faults' \in 0 .. MaxFaults
    BY <1>4, <1>5, OutcomeTypes DEF ReadEnds, ReceiverUses
  <2>2. /\ Count' \in 0 .. IdleReads + 1 /\ gUpdateBegin' \in BOOLEAN
        /\ RecDog' \in 0 .. DogCycles + 1
    BY <1>5, RoundTypes DEF ReadEnds
  <2>3. /\ inbox' \in Seq(Answers) /\ Len(inbox') <= MaxInbox
        /\ SEQUEUE_XML' \in 0 .. MaxPosts /\ RESULT_XML' \in 0 .. MaxPosts
        /\ rcv' \in {"outer", "wait"}
    <3>1. CASE inbox = <<>>
      BY <1>5, <3>1 DEF ReadEnds
    <3>2. CASE inbox # <<>>
      <4>1. inbox' = Tail(inbox) /\ Posted(Head(inbox)) /\ rcv' = "wait"
        BY <1>5, <3>2 DEF ReadEnds
      <4>2. SEQUEUE_XML' \in 0 .. MaxPosts /\ RESULT_XML' \in 0 .. MaxPosts
        BY <4>1, SaturatedInRange DEF Posted
      <4> QED
        BY <3>2, <4>1, <4>2, InboxTypes
    <3> QED
      BY <3>1, <3>2
  <2> QED
    <3>1. /\ readErr' \in BOOLEAN /\ len' \in 0 .. 2
          /\ UNCHANGED <<manaVars, SndDog, IpCloseNum, IpSendFailNum, gateVars,
                         checkVars, docs, snd, alive, urc, leaked, intruded,
                         accepted>>
      BY <1>5 DEF ReadEnds
    <3> QED
      BY <2>1, <2>2, <2>3, <3>1
<1>6. CASE ReadFails
  <2>1. GprsXmzSem' \in 0 .. 1 /\ faults' \in 0 .. MaxFaults
    BY <1>4, <1>6, OutcomeTypes DEF ReadFails, ReceiverUses
  <2>2. /\ Count' \in 0 .. IdleReads + 1 /\ gUpdateBegin' \in BOOLEAN
        /\ RecDog' \in 0 .. DogCycles + 1 /\ rcv' \in {"wait", "outer"}
    BY <1>6, RoundTypes DEF ReadFails
  <2>3. /\ readErr' = TRUE
        /\ UNCHANGED <<manaVars, SndDog, IpCloseNum, IpSendFailNum, gateVars,
                       checkVars, docs, snd, len, loginVars, moduleVars, leaked,
                       intruded, accepted>>
    BY <1>6 DEF ReadFails
  <2> QED
    BY <2>1, <2>2, <2>3
<1>7. CASE ReadOversized
  <2>1. faults' \in 0 .. MaxFaults
    BY <1>7, SMT DEF ReadOversized
  <2>2. /\ Count' \in 0 .. IdleReads + 1 /\ gUpdateBegin' \in BOOLEAN
        /\ RecDog' \in 0 .. DogCycles + 1
    BY <1>7, RoundTypes DEF ReadOversized
  <2>3. rcv' \in {"wait", "outer"}
    BY <1>7 DEF ReadOversized
  <2> QED
    BY <1>7, <2>1, <2>2, <2>3 DEF ReadOversized
<1>8. CASE ServerSends
  BY <1>8, InboxTypes DEF ServerSends
<1>9. CASE LinkDies
  <2>1. faults' \in 0 .. MaxFaults
    BY <1>9, SMT DEF LinkDies
  <2>2. inbox' \in Seq(Answers) /\ Len(inbox') <= MaxInbox
    BY <1>9, EmptySeq, SMT DEF LinkDies
  <2> QED
    <3>1. /\ alive' \in BOOLEAN
          /\ UNCHANGED <<manaVars, dogVars, gateVars, checkVars, docs, snd,
                         rcvVars, GprsXmzSem, loginVars, urc, leaked, intruded,
                         accepted>>
      BY <1>9 DEF LinkDies
    <3> QED
      BY <2>1, <2>2, <3>1
<1> QED
  BY <1>1, <1>2, <1>3, <1>5, <1>6, <1>7, <1>8, <1>9 DEF Receiver

-----------------------------------------------------------------------------
(* Checks and wake-ups *)

\* Only the manager asks for a check, and it waits until the sender answers.
LEMMA CheckStep ==
    ASSUME LinkTypeOK, CheckInv, [LinkNext]_linkVars
    PROVE  CheckInv'
<1> USE DEF CheckInv, Checks
<1>1. GprsMana \in 0 .. 1
  BY DEF LinkTypeOK
<1>2. CASE Cycle
  <2>1. GprsMana = 0
    BY <1>1, <1>2, SMT DEF Cycle
  <2> QED
    BY <1>2, <2>1 DEF Cycle
<1>3. CASE AwaitCheck
  <2>1. GprsMana' = 0
    BY <1>1, <1>3, SMT DEF AwaitCheck
  <2>2. ~GprsGvc
    BY <1>1, <1>3, SMT DEF AwaitCheck
  <2> QED
    BY <1>3, <2>1, <2>2, SMT DEF AwaitCheck
<1>4. CASE AnswerCheck
  BY <1>4 DEF AnswerCheck
<1>5. CASE SenderWakes
  BY <1>5 DEF SenderWakes
<1>6. CASE SenderTakesLine
  BY <1>6 DEF SenderTakesLine
<1>7. ASSUME NEW ok, CloseEnds(ok)
      PROVE  CheckInv'
  BY <1>7 DEF CloseEnds
<1>8. ASSUME SendFails \/ \E emptyEnd \in BOOLEAN : SendSucceeds(emptyEnd)
      PROVE  CheckInv'
  <2>1. snd' = "wait" /\ UNCHANGED <<mana, GprsGvc, GprsMana>>
    BY <1>8 DEF SendFails, SendSucceeds
  <2> QED
    BY <2>1
<1>9. CASE UNCHANGED <<snd, GprsGvc, GprsMana>> /\ (mana' = mana \/ mana # "await")
  <2>1. CASE mana' = mana
    BY <1>9, <2>1
  <2>2. CASE mana # "await"
    BY <1>9, <2>2
  <2> QED
    BY <1>9, <2>1, <2>2
<1> QED
  BY <1>2, <1>3, <1>4, <1>5, <1>6, <1>7, <1>8, <1>9
     DEF LinkNext, Manager, Stop, StartModule, HandLineOver, TryLogin, AskLogin,
         TakeSequence, SequenceTimeout, AnswerSequence, TakeResult,
         ResultTimeout, Decide, Beat, ManagerPuts, Report, Sender, Receiver,
         BeginRound, Announced, ReceiverTakesLine, ReadEnds, ReadFails,
         ReadOversized, ServerSends, LinkDies

\* A document is put with a wake-up; a wake-up is taken before its document.
LEMMA WakeStep ==
    ASSUME LinkTypeOK, CheckInv, WakeInv, [LinkNext]_linkVars
    PROVE  WakeInv'
<1>1. UpSend \in Nat /\ Len(docs) \in Nat /\ docs \in Seq(Kinds)
  BY LinkConstants, LenProperties, SMT DEF LinkTypeOK
<1>2. ASSUME NEW kind \in Kinds, PutDocument(kind),
             UNCHANGED <<snd, GprsGvc>>
      PROVE  WakeInv'
  <2>1. /\ Len(docs') = Len(docs) + 1 /\ docs' # <<>>
        /\ UpSend' = UpSend + 1
    BY <1>2, PutTypes
  <2> QED
    BY <1>1, <1>2, <2>1, SMT DEF WakeInv, One, Sends, Checks
<1>3. CASE Cycle
  <2>1. ~GprsGvc /\ ~Checks
    BY <1>3 DEF Cycle, CheckInv
  <2>2. docs' = docs /\ snd' = snd
    BY <1>3 DEF Cycle
  <2>3. \/ UpSend' = UpSend + 1 /\ GprsGvc'
        \/ UpSend' = UpSend /\ GprsGvc' = GprsGvc
    BY <1>3 DEF Cycle
  <2> QED
    BY <1>1, <2>1, <2>2, <2>3, SMT DEF WakeInv, One, Sends, Checks
<1>4. CASE SenderWakes
  <2>1. /\ UpSend > 0 /\ UpSend' = UpSend - 1
        /\ docs' = docs /\ GprsGvc' = GprsGvc /\ snd = "wait"
    BY <1>4 DEF SenderWakes
  <2>2. CASE GprsGvc
    <3>1. snd' \in {"close", "answer"}
      BY <1>4, <2>2 DEF SenderWakes
    <3> QED
      BY <1>1, <2>1, <2>2, <3>1, SMT DEF WakeInv, One, Sends, Checks
  <2>3. CASE ~GprsGvc
    <3>1. snd' \in {"wait", "send"}
      BY <1>4, <2>3 DEF SenderWakes
    <3> QED
      BY <1>1, <2>1, <2>3, <3>1, SMT DEF WakeInv, One, Sends, Checks
  <2> QED
    BY <2>2, <2>3
<1>5. CASE SenderTakesLine
  <2>1. /\ UNCHANGED <<UpSend, docs, GprsGvc>>
        /\ \/ snd = "close" /\ snd' = "closing"
           \/ snd = "send" /\ docs # <<>> /\ snd' = "sending"
    BY <1>5 DEF SenderTakesLine
  <2> QED
    BY <1>1, <2>1, SMT DEF WakeInv, One, Sends, Checks
<1>6. CASE AnswerCheck
  <2>1. /\ UNCHANGED <<UpSend, docs>> /\ snd = "answer" /\ snd' = "wait"
        /\ ~GprsGvc'
    BY <1>6 DEF AnswerCheck
  <2> QED
    BY <1>1, <2>1, SMT DEF WakeInv, One, Sends, Checks
<1>7. ASSUME NEW ok, CloseEnds(ok)
      PROVE  WakeInv'
  <2>1. UNCHANGED <<UpSend, docs, GprsGvc>> /\ snd = "closing" /\ snd' = "answer"
    BY <1>7 DEF CloseEnds
  <2> QED
    BY <1>1, <2>1, SMT DEF WakeInv, One, Sends, Checks
<1>8. ASSUME SendFails \/ \E emptyEnd \in BOOLEAN : SendSucceeds(emptyEnd)
      PROVE  WakeInv'
  <2>1. /\ UNCHANGED <<UpSend, GprsGvc>> /\ snd = "sending" /\ snd' = "wait"
        /\ docs' = Tail(docs)
    BY <1>8 DEF SendFails, SendSucceeds
  <2>2. docs # <<>>
    BY <2>1 DEF WakeInv
  <2>3. Len(docs') = Len(docs) - 1
    BY <2>1, <2>2, TakeTypes
  <2> QED
    BY <1>1, <2>1, <2>3, SMT DEF WakeInv, One, Sends, Checks
<1>9. CASE UNCHANGED <<snd, GprsGvc, UpSend, docs>>
  BY <1>9 DEF WakeInv, Sends, Checks
<1> QED
  BY <1>2, <1>3, <1>4, <1>5, <1>6, <1>7, <1>8, <1>9
     DEF LinkNext, Manager, Stop, StartModule, HandLineOver, TryLogin, AskLogin,
         TakeSequence, SequenceTimeout, AnswerSequence, TakeResult,
         ResultTimeout, AwaitCheck, Decide, Beat, ManagerPuts, Report, Sender,
         Receiver, BeginRound, Announced, ReceiverTakesLine, ReadEnds,
         ReadFails, ReadOversized, ServerSends, LinkDies

\* GprsXmzSem counts the uses of the line, and the one that was lost.
LEMMA LineStep ==
    ASSUME LinkTypeOK, LineInv, [LinkNext]_linkVars
    PROVE  LineInv'
<1>1. GprsXmzSem \in 0 .. 1 /\ leaked \in BOOLEAN
  BY DEF LinkTypeOK
<1> USE <1>1, SMT DEF LineInv, One, SenderUses, ReceiverUses
<1>2. CASE SenderWakes
  BY <1>2 DEF SenderWakes
<1>3. CASE SenderTakesLine
  BY <1>3 DEF SenderTakesLine
<1>4. CASE AnswerCheck
  BY <1>4 DEF AnswerCheck
<1>5. ASSUME NEW ok, CloseEnds(ok)
      PROVE  LineInv'
  BY <1>5 DEF CloseEnds
<1>6. ASSUME NEW emptyEnd, SendSucceeds(emptyEnd)
      PROVE  LineInv'
  BY <1>6 DEF SendSucceeds
<1>7. CASE SendFails
  BY <1>7 DEF SendFails
<1>8. CASE BeginRound
  BY <1>8 DEF BeginRound
<1>9. CASE Announced
  BY <1>9 DEF Announced
<1>10. CASE ReceiverTakesLine
  BY <1>10 DEF ReceiverTakesLine
<1>11. ASSUME NEW n, ReadEnds(n)
       PROVE  LineInv'
  BY <1>11 DEF ReadEnds
<1>12. CASE ReadFails
  BY <1>12 DEF ReadFails
<1>13. CASE ReadOversized
  BY <1>13 DEF ReadOversized
<1>14. CASE UNCHANGED <<GprsXmzSem, snd, rcv, leaked>>
  BY <1>14
<1> QED
  BY <1>2, <1>3, <1>4, <1>5, <1>6, <1>7, <1>8, <1>9, <1>10, <1>11, <1>12, <1>13,
     <1>14
     DEF LinkNext, Manager, Stop, StartModule, HandLineOver, TryLogin, AskLogin,
         TakeSequence, SequenceTimeout, AnswerSequence, TakeResult,
         ResultTimeout, Cycle, AwaitCheck, Decide, Beat, ManagerPuts, Report,
         Sender, Receiver, ServerSends, LinkDies

-----------------------------------------------------------------------------
(* The restart *)

\* Ready is FALSE while the module is started: the sender gets no further use
\* than the one it had begun or passed the test for.
LEMMA IntrusionStep ==
    ASSUME LinkTypeOK, IntrusionInv, [LinkNext]_linkVars
    PROVE  IntrusionInv'
<1>1. intruded \in 0 .. 3
  BY DEF LinkTypeOK
<1> USE DEF IntrusionInv, One
<1>2. CASE Stop
  <2>1. ~Ready' /\ snd' = snd
    BY <1>2 DEF Stop
  <2>2. intruded' = IF snd \in {"closing", "sending"} THEN 1 ELSE 0
    BY <1>2 DEF Stop
  <2> QED
    BY <2>1, <2>2, SMT
<1>3. CASE StartModule
  BY <1>3 DEF StartModule
<1>4. CASE HandLineOver
  BY <1>4 DEF HandLineOver
<1>5. CASE SenderWakes
  <2>1. mana' = mana /\ Ready' = Ready /\ intruded' = intruded /\ snd = "wait"
    BY <1>5 DEF SenderWakes
  <2>2. CASE Ready
    BY <2>1, <2>2
  <2>3. CASE ~Ready
    <3>1. snd' \in {"answer", "wait"}
      BY <1>5, <2>3 DEF SenderWakes
    <3> QED
      BY <1>1, <2>1, <2>3, <3>1, SMT
  <2> QED
    BY <2>2, <2>3
<1>6. CASE SenderTakesLine
  <2>1. /\ mana' = mana /\ Ready' = Ready
        /\ snd \in {"close", "send"} /\ snd' \in {"closing", "sending"}
    BY <1>6 DEF SenderTakesLine
  <2>2. mana = "init" => intruded' = Saturated(intruded, 3)
    BY <1>6 DEF SenderTakesLine
  <2> QED
    BY <1>1, <2>1, <2>2, SMT DEF Saturated
<1>7. ASSUME \/ AnswerCheck \/ SendFails
             \/ \E ok \in BOOLEAN : CloseEnds(ok)
             \/ \E emptyEnd \in BOOLEAN : SendSucceeds(emptyEnd)
      PROVE  IntrusionInv'
  <2>1. /\ UNCHANGED <<mana, Ready, intruded>> /\ snd' \in {"wait", "answer"}
    BY <1>7 DEF AnswerCheck, SendFails, CloseEnds, SendSucceeds
  <2> QED
    BY <1>1, <2>1, SMT
<1>8. CASE UNCHANGED <<snd, Ready, intruded>> /\ mana' \notin {"init", "ready"}
  BY <1>8
<1>9. CASE UNCHANGED <<snd, Ready, intruded, mana>>
  BY <1>9
<1> QED
  BY <1>2, <1>3, <1>4, <1>5, <1>6, <1>7, <1>8, <1>9
     DEF LinkNext, Manager, TryLogin, AskLogin, TakeSequence, SequenceTimeout,
         AnswerSequence, TakeResult, ResultTimeout, Cycle, AwaitCheck, Decide,
         Beat, ManagerPuts, Report, Sender, Receiver, BeginRound, Announced,
         ReceiverTakesLine, ReadEnds, ReadFails, ReadOversized, ServerSends,
         LinkDies

\* What the program takes for a confirmed login began with a MD5 passed.
LEMMA LoginStep ==
    ASSUME LinkTypeOK, LoginInv, [LinkNext]_linkVars
    PROVE  LoginInv'
<1>1. /\ inbox \in Seq(Answers) /\ Len(inbox) \in Nat
      /\ RESULT_XML \in 0 .. MaxPosts /\ MaxPosts \in Nat
  BY LinkConstants, LenProperties DEF LinkTypeOK
<1> USE DEF LoginInv
<1>2. CASE Stop
  BY <1>2 DEF Stop
<1>3. CASE StartModule
  <2>1. Len(inbox') = 0 /\ Connect' = Connect /\ RESULT_XML' = RESULT_XML
    BY <1>3, EmptySeq DEF StartModule
  <2>2. mana = "init" /\ mana' = "ready" /\ (RESULT_XML > 0 => accepted')
    BY <1>3 DEF StartModule
  <2> QED
    BY <2>1, <2>2, SMT
<1>4. CASE TakeResult
  <2>1. /\ RESULT_XML > 0 /\ RESULT_XML' = RESULT_XML - 1
        /\ mana' = "loop" /\ UNCHANGED <<inbox, accepted>>
    BY <1>4 DEF TakeResult
  <2> QED
    BY <1>1, <2>1, SMT
<1>5. CASE Decide
  BY <1>5 DEF Decide
<1>6. ASSUME NEW emptyEnd, SendSucceeds(emptyEnd)
      PROVE  LoginInv'
  <2>1. UNCHANGED <<mana, Connect, RESULT_XML>> /\ Served(Head(docs))
    BY <1>6 DEF SendSucceeds
  <2>2. CASE UNCHANGED <<inbox, urc, accepted>>
    BY <2>1, <2>2
  <2>3. CASE accepted'
    BY <2>1, <2>3
  <2>4. CASE Received("SEQUENCE") /\ UNCHANGED accepted
    <3>1. \A k \in 1 .. Len(inbox') :
             inbox'[k] = "RESULT" => k \in 1 .. Len(inbox) /\ inbox[k] = "RESULT"
      BY <1>1, <2>4, InboxTypes, SMT
    <3> QED
      BY <2>1, <2>4, <3>1
  <2> QED
    BY <2>1, <2>2, <2>3, <2>4 DEF Served
<1>7. ASSUME NEW n, ReadEnds(n)
      PROVE  LoginInv'
  <2>1. UNCHANGED <<mana, Connect, accepted>>
    BY <1>7 DEF ReadEnds
  <2>2. CASE inbox = <<>>
    BY <1>7, <2>1, <2>2 DEF ReadEnds
  <2>3. CASE inbox # <<>>
    <3>1. inbox' = Tail(inbox) /\ Posted(Head(inbox))
      BY <1>7, <2>3 DEF ReadEnds
    <3>2. \A k \in 1 .. Len(inbox') :
             inbox'[k] = inbox[k + 1] /\ k + 1 \in 1 .. Len(inbox)
      <4>1. /\ \A k \in 1 .. Len(inbox') : inbox'[k] = inbox[k + 1]
            /\ Len(inbox') = Len(inbox) - 1
        BY <2>3, <3>1, InboxTypes
      <4>2. \A k \in 1 .. Len(inbox') : k + 1 \in 1 .. Len(inbox)
        BY <1>1, <4>1, SMT
      <4> QED
        BY <4>1, <4>2
    <3>3. Head(inbox) = inbox[1] /\ 1 \in 1 .. Len(inbox)
      BY <2>3, InboxTypes, SMT
    <3>4. RESULT_XML' > 0 => RESULT_XML > 0 \/ inbox[1] = "RESULT"
      BY <3>1, <3>3 DEF Posted
    <3> QED
      BY <2>1, <3>2, <3>3, <3>4
  <2> QED
    BY <2>2, <2>3
<1>8. CASE ServerSends
  <2>1. UNCHANGED <<mana, Connect, accepted, RESULT_XML>> /\ Received("OTHER")
    BY <1>8 DEF ServerSends
  <2>2. \A k \in 1 .. Len(inbox') :
           inbox'[k] = "RESULT" => k \in 1 .. Len(inbox) /\ inbox[k] = "RESULT"
    BY <1>1, <2>1, InboxTypes, SMT
  <2> QED
    BY <2>1, <2>2
<1>9. CASE LinkDies
  <2>1. Len(inbox') = 0 /\ UNCHANGED <<mana, Connect, accepted, RESULT_XML>>
    BY <1>9, EmptySeq DEF LinkDies
  <2> QED
    BY <2>1, SMT
<1>10. CASE /\ UNCHANGED <<Connect, accepted, RESULT_XML, inbox>>
            /\ mana' # "init" \/ mana' = mana
  BY <1>10
<1> QED
  BY <1>2, <1>3, <1>4, <1>5, <1>6, <1>7, <1>8, <1>9, <1>10
     DEF LinkNext, Manager, HandLineOver, TryLogin, AskLogin, TakeSequence,
         SequenceTimeout, AnswerSequence, ResultTimeout, Cycle, AwaitCheck,
         Beat, ManagerPuts, Report, Sender, SenderWakes, SenderTakesLine,
         AnswerCheck, CloseEnds, SendFails, Receiver, BeginRound, Announced,
         ReceiverTakesLine, ReadFails, ReadOversized

\* A live module fails only by a fault; the one use that a restart may break
\* counts one failure, which Stop has made room for.
LEMMA HealthStep ==
    ASSUME LinkTypeOK, HealthInv, IntrusionInv, [LinkNext]_linkVars
    PROVE  HealthInv'
<1> SUFFICES ASSUME faults' = 0
             PROVE  HealthInv'
  BY DEF HealthInv
<1>1. faults = 0 /\ faults \in Nat
  <2>1. faults' >= faults
    <3>1. \A ok \in BOOLEAN : Outcome(ok) => faults' >= faults
      BY OutcomeTypes
    <3>2. faults \in Nat
      BY LinkConstants, SMT DEF LinkTypeOK
    <3>3. faults' = faults \/ faults' = faults + 1 \/ \E ok \in BOOLEAN : Outcome(ok)
      BY DEF LinkNext, Manager, Stop, StartModule, HandLineOver, TryLogin,
             AskLogin, TakeSequence, SequenceTimeout, AnswerSequence,
             TakeResult, ResultTimeout, Cycle, AwaitCheck, Decide, Beat,
             ManagerPuts, Report, Sender, SenderWakes, SenderTakesLine,
             AnswerCheck, CloseEnds, SendSucceeds, SendFails, Receiver,
             BeginRound, Announced, ReceiverTakesLine, ReadEnds, ReadFails,
             ReadOversized, ServerSends, LinkDies
    <3> QED
      BY <3>1, <3>2, <3>3, SMT
  <2> QED
    BY <2>1, LinkConstants, SMT DEF LinkTypeOK
<1> DEFINE Busy == Sends \/ snd \in {"close", "closing"}
           Calm == /\ IpSendFailNum <= 1 /\ IpCloseNum <= 1
                   /\ mana = "init" => IpSendFailNum + IpCloseNum + One(Busy) <= 1
           Fresh == ~alive => /\ mana \in {"stop", "init"} /\ ~Ready
                              /\ snd \in {"wait", "answer"}
<1>2. Calm /\ Fresh
  BY <1>1 DEF HealthInv
<1>3. SUFFICES Calm' /\ Fresh'
  BY DEF HealthInv
<1>4. IpSendFailNum \in 0 .. 3 /\ IpCloseNum \in 0 .. 2
  BY DEF LinkTypeOK
<1> USE DEF Sends, One
<1>5. CASE Stop
  <2>1. IpSendFailNum' = 0 /\ IpCloseNum' = 0
    BY <1>5 DEF Stop
  <2>2. Calm'
    BY <2>1, SMT
  <2>3. mana' = "init" /\ ~Ready' /\ alive' = alive /\ snd' = snd
    BY <1>5 DEF Stop
  <2>4. Fresh'
    BY <1>2, <2>3
  <2> QED
    BY <2>2, <2>4
<1>6. CASE StartModule
  <2>1. /\ alive' /\ mana' = "ready" /\ UNCHANGED <<IpSendFailNum, IpCloseNum>>
    BY <1>6 DEF StartModule
  <2> QED
    BY <1>2, <2>1
<1>7. CASE SenderWakes
  <2>1. /\ snd = "wait" /\ UNCHANGED <<mana, alive, Ready, IpSendFailNum, IpCloseNum>>
        /\ ~Ready => snd' \in {"wait", "answer"}
    BY <1>7 DEF SenderWakes
  <2>2. mana = "init" => snd' \in {"wait", "answer"}
    BY <2>1 DEF IntrusionInv
  <2>3. Calm'
    BY <1>2, <1>4, <2>1, <2>2, SMT
  <2>4. Fresh'
    BY <1>2, <2>1
  <2> QED
    BY <2>3, <2>4
<1>8. CASE SenderTakesLine
  <2>1. /\ snd \in {"close", "send"} /\ snd' \in {"closing", "sending"}
        /\ UNCHANGED <<mana, alive, Ready, IpSendFailNum, IpCloseNum>>
    BY <1>8 DEF SenderTakesLine
  <2>2. Calm'
    BY <1>2, <1>4, <2>1, SMT
  <2>3. Fresh'
    BY <1>2, <2>1
  <2> QED
    BY <2>2, <2>3
<1>9. CASE AnswerCheck
  <2>1. /\ snd' = "wait" /\ snd = "answer"
        /\ UNCHANGED <<mana, alive, Ready, IpSendFailNum, IpCloseNum>>
    BY <1>9 DEF AnswerCheck
  <2>2. Calm'
    BY <1>2, <1>4, <2>1, SMT
  <2>3. Fresh'
    BY <1>2, <2>1
  <2> QED
    BY <2>2, <2>3
<1>10. snd \in {"closing", "sending"} => alive
  BY <1>2
<1>11. Outcome(FALSE) /\ alive => mana = "init"
  BY <1>1, SMT DEF Outcome
<1>12. ASSUME NEW ok \in BOOLEAN, CloseEnds(ok)
       PROVE  Calm' /\ Fresh'
  <2>1. /\ snd = "closing" /\ snd' = "answer" /\ Outcome(ok)
        /\ IpCloseNum' = IF ok THEN 0 ELSE Saturated(IpCloseNum, 2)
        /\ UNCHANGED <<mana, alive, Ready, IpSendFailNum>>
    BY <1>12 DEF CloseEnds
  <2>2. CASE ok
    BY <1>2, <1>4, <1>10, <2>1, <2>2, SMT
  <2>3. CASE ~ok
    <3>1. ok = FALSE
      BY <2>3
    <3>2. mana = "init"
      BY <1>10, <1>11, <2>1, <3>1
    <3>3. IpCloseNum = 0 /\ IpSendFailNum = 0
      BY <1>2, <1>4, <2>1, <3>2, SMT
    <3>4. IpCloseNum' = 1
      BY <2>1, <2>3, <3>3, SMT DEF Saturated
    <3> QED
      BY <1>10, <2>1, <3>3, <3>4, SMT
  <2> QED
    BY <2>2, <2>3
<1>13. ASSUME NEW emptyEnd \in BOOLEAN, SendSucceeds(emptyEnd)
       PROVE  Calm' /\ Fresh'
  <2>1. /\ snd = "sending" /\ snd' = "wait"
        /\ UNCHANGED <<mana, alive, Ready, IpCloseNum>>
    BY <1>13 DEF SendSucceeds
  <2>2. IpSendFailNum' \in 0 .. 1
    BY <1>13, SMT DEF SendSucceeds, NoFailure, Saturated
  <2>3. mana = "init" => IpCloseNum = 0
    BY <1>2, <1>4, <2>1, SMT
  <2> QED
    <3>1. IpSendFailNum' <= 1 /\ IpCloseNum' <= 1
      BY <1>2, <2>1, <2>2, SMT
    <3>2. ASSUME mana' = "init"
          PROVE  IpSendFailNum' + IpCloseNum' <= 1
      <4>1. IpCloseNum' = 0
        BY <2>1, <2>3, <3>2
      <4>2. IpSendFailNum' = 0 \/ IpSendFailNum' = 1
        BY <2>2, SMT
      <4>3. \A x, y \in Nat : (x = 0 \/ x = 1) /\ y = 0 => x + y <= 1
        BY SMT
      <4> QED
        BY <4>1, <4>2, <4>3
    <3>3. Calm'
      BY <2>1, <2>2, <2>3, <3>1, <3>2, SMT
    <3>4. Fresh'
      BY <1>10, <2>1
    <3> QED
      BY <3>3, <3>4
<1>14. CASE SendFails
  <2>1. /\ snd = "sending" /\ snd' = "wait" /\ Outcome(FALSE)
        /\ IpSendFailNum' = Saturated(IpSendFailNum, 3)
        /\ UNCHANGED <<mana, alive, Ready, IpCloseNum>>
    BY <1>14 DEF SendFails
  <2>2. mana = "init"
    BY <1>10, <1>11, <2>1
  <2>3. IpCloseNum = 0 /\ IpSendFailNum = 0
    BY <1>2, <1>4, <2>1, <2>2, SMT
  <2>4. IpSendFailNum' = 1
    BY <2>1, <2>3, SMT DEF Saturated
  <2> QED
    BY <1>10, <2>1, <2>3, <2>4, SMT
<1>15. CASE /\ UNCHANGED <<snd, IpSendFailNum, IpCloseNum, alive>>
            /\ mana \notin {"stop", "init"} /\ mana' # "init"
  BY <1>2, <1>15
<1>16. CASE UNCHANGED <<snd, IpSendFailNum, IpCloseNum, alive, mana, Ready>>
  BY <1>2, <1>16
<1>17. ~LinkDies /\ ~ReadOversized
  BY <1>1, SMT DEF LinkDies, ReadOversized
<1> HIDE DEF Calm, Fresh
<1> QED
  BY <1>5, <1>6, <1>7, <1>8, <1>9, <1>12, <1>13, <1>14, <1>15, <1>16, <1>17
     DEF LinkNext, Manager, HandLineOver, TryLogin, AskLogin, TakeSequence,
         SequenceTimeout, AnswerSequence, TakeResult, ResultTimeout, Cycle,
         AwaitCheck, Decide, Beat, ManagerPuts, Report, Sender, Receiver,
         BeginRound, Announced, ReceiverTakesLine, ReadEnds, ReadFails,
         ServerSends

-----------------------------------------------------------------------------

LinkInv ==
    /\ LinkTypeOK
    /\ CheckInv
    /\ WakeInv
    /\ LineInv
    /\ IntrusionInv
    /\ LoginInv
    /\ HealthInv

LEMMA LinkInvariant == LinkSpec => []LinkInv
<1>1. LinkInit => LinkInv
  <2> SUFFICES ASSUME LinkInit
               PROVE  LinkInv
    OBVIOUS
  <2>1. docs = <<>> /\ inbox = <<>> /\ Len(docs) = 0 /\ Len(inbox) = 0
    BY EmptySeq DEF LinkInit
  <2>2. docs \in Seq(Kinds) /\ inbox \in Seq(Answers)
    BY <2>1, EmptySeq
  <2>3. LinkTypeOK
    <3>1. /\ TryT \in 0 .. Tries /\ selfchecknum \in 0 .. SelfCheck - 1
          /\ RecDog \in 0 .. DogCycles + 1 /\ SndDog \in 0 .. HeartCycles
          /\ UpSend \in 0 .. MaxFiles + 1 /\ Count \in 0 .. IdleReads + 1
          /\ SEQUEUE_XML \in 0 .. MaxPosts /\ RESULT_XML \in 0 .. MaxPosts
          /\ faults \in 0 .. MaxFaults
          /\ Len(docs) <= MaxFiles /\ Len(inbox) <= MaxInbox
      BY <2>1, LinkConstants, SMT DEF LinkInit
    <3>2. /\ IpCloseNum \in 0 .. 2 /\ IpSendFailNum \in 0 .. 3
          /\ GprsMana \in 0 .. 1 /\ len \in 0 .. 2 /\ GprsXmzSem \in 0 .. 1
          /\ intruded \in 0 .. 3
      BY SMT DEF LinkInit
    <3>3. /\ Ready \in BOOLEAN /\ Connect \in BOOLEAN /\ PRIO \in BOOLEAN
          /\ gGPRSBusy \in BOOLEAN /\ GprsGvc \in BOOLEAN
          /\ readErr \in BOOLEAN /\ gUpdateBegin \in BOOLEAN
          /\ alive \in BOOLEAN /\ urc \in BOOLEAN
          /\ leaked \in BOOLEAN /\ accepted \in BOOLEAN
      BY Zenon DEF LinkInit
    <3>4. mana = "stop" /\ snd = "wait" /\ rcv = "outer"
      BY DEF LinkInit
    <3> QED
      BY <2>2, <3>1, <3>2, <3>3, <3>4 DEF LinkTypeOK
  <2>4. CheckInv
    BY SMT DEF LinkInit, CheckInv, Checks
  <2>5. WakeInv
    BY <2>1, SMT DEF LinkInit, WakeInv, One, Sends, Checks
  <2>6. LineInv
    BY SMT DEF LinkInit, LineInv, One, SenderUses, ReceiverUses
  <2>7. IntrusionInv
    BY DEF LinkInit, IntrusionInv
  <2>8. LoginInv
    BY <2>1, SMT DEF LinkInit, LoginInv
  <2>9. HealthInv
    BY SMT DEF LinkInit, HealthInv
  <2> QED
    BY <2>3, <2>4, <2>5, <2>6, <2>7, <2>8, <2>9 DEF LinkInv
<1>2. LinkInv /\ [LinkNext]_linkVars => LinkInv'
  <2> SUFFICES ASSUME LinkInv, [LinkNext]_linkVars
               PROVE  LinkInv'
    OBVIOUS
  <2>1. LinkTypeOK'
    <3>1. CASE UNCHANGED linkVars
      BY <3>1 DEF LinkInv, LinkTypeOK
    <3> QED
      BY <3>1, ManagerTypes, SenderTypes, ReceiverTypes DEF LinkInv, LinkNext
  <2> QED
    BY <2>1, CheckStep, WakeStep, LineStep, IntrusionStep, LoginStep, HealthStep
       DEF LinkInv
<1> QED
  BY <1>1, <1>2, PTL DEF LinkSpec

\* For every number of files, attempts and cycles: the semaphores of the line
\* and of the check never exceed 1, and no more wake-ups wait than files and
\* one check (tasks_up.c, gprs_mana.c).
THEOREM LinkTypeCorrect == LinkSpec => []LinkTypeOK
<1>1. LinkInv => LinkTypeOK
  BY DEF LinkInv
<1> QED
  BY <1>1, LinkInvariant, PTL

\* Sender and receiver never use the line together, and the manager's restart
\* meets at most one use of it, although it takes the line without GprsXmzSem.
THEOREM AtUseIsDisciplined == LinkSpec => []AtUseDisciplined
<1>1. LinkInv => AtUseDisciplined
  <2> SUFFICES ASSUME LinkInv
               PROVE  AtUseDisciplined
    OBVIOUS
  <2>1. GprsXmzSem \in 0 .. 1 /\ leaked \in BOOLEAN /\ intruded \in 0 .. 3
    BY DEF LinkInv, LinkTypeOK
  <2>2. LineInv
    BY DEF LinkInv
  <2>3. /\ ~(SenderUses /\ ReceiverUses)
        /\ GprsXmzSem = 0 => SenderUses \/ ReceiverUses \/ leaked
        /\ leaked => GprsXmzSem = 0
    BY <2>1, <2>2, SMT DEF LineInv, One
  <2>4. mana = "init" => intruded <= 1
    BY <2>1, SMT DEF LinkInv, IntrusionInv, One
  <2> QED
    BY <2>3, <2>4 DEF AtUseDisciplined
<1> QED
  BY <1>1, LinkInvariant, PTL

\* Connect becomes TRUE only for a login the server has answered, or for an
\* answer that was left from before (ConnectConfirm).
THEOREM LoginIsConfirmed == LinkSpec => []LoginConfirmed
<1>1. LinkInv => LoginConfirmed
  BY DEF LinkInv, LoginInv, LoginConfirmed
<1> QED
  BY <1>1, LinkInvariant, PTL

\* Without a fault of the network the counters of failures never reach the
\* limits of a restart (GPRS_Mana_main_proc), whatever the threads interleave.
THEOREM HealthyIsNotBlamed == LinkSpec => []HealthyNotBlamed
<1>1. LinkInv => HealthyNotBlamed
  <2> SUFFICES ASSUME LinkInv, faults = 0
               PROVE  IpSendFailNum <= 2 /\ IpCloseNum <= 1
    BY DEF HealthyNotBlamed
  <2>1. IpSendFailNum \in 0 .. 3 /\ IpSendFailNum <= 1 /\ IpCloseNum <= 1
    BY DEF LinkInv, LinkTypeOK, HealthInv
  <2> QED
    BY <2>1, SMT
<1> QED
  BY <1>1, LinkInvariant, PTL
=============================================================================
