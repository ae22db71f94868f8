------------------------------ MODULE DocFifo ------------------------------
(***************************************************************************)
(* What an XML file ring promises to the threads on its two ends: a bounded *)
(* first-in first-out channel of whole documents.  The producer puts a     *)
(* document in, the consumer looks at the oldest one as often as it needs   *)
(* to (a document goes out in several packets) and then removes it.        *)
(*                                                                         *)
(* Abstract specification: XmlFileRing implements it with numbered files,  *)
(* two positions and two semaphores.                                       *)
(***************************************************************************)
EXTENDS Naturals, Sequences

CONSTANTS
    Documents,    \* what a document may contain
    NoDocument,   \* nothing looked at yet
    Capacity      \* documents the channel holds at most

VARIABLES
    queue,        \* the documents put in and not yet removed, oldest first
    out           \* the document the consumer has looked at

fifoVars == <<queue, out>>

Init ==
    /\ queue = <<>>
    /\ out = NoDocument

Put(d) ==
    /\ Len(queue) < Capacity
    /\ queue' = Append(queue, d)
    /\ out' = out

Look ==
    /\ queue # <<>>
    /\ out' = Head(queue)
    /\ queue' = queue

\* Only the document that was looked at is removed.
Remove ==
    /\ queue # <<>>
    /\ out = Head(queue)
    /\ queue' = Tail(queue)
    /\ out' = NoDocument

Next ==
    \/ \E d \in Documents : Put(d)
    \/ Look
    \/ Remove

Spec == Init /\ [][Next]_fifoVars
=============================================================================
