--------------------------- MODULE DocumentService ---------------------------
(***************************************************************************)
(* What the uplink promises to the threads that have documents to send:    *)
(* one of them at a time has the turn, says which document it wants and    *)
(* posts the request; the document that was asked for, and no other, then  *)
(* joins the channel to the sender, and the documents leave it in the      *)
(* order in which they were asked for.  Before the request is posted the   *)
(* turn may be given back instead.                                         *)
(*                                                                         *)
(* Abstract specification: Uplink implements it with a global document     *)
(* type, four semaphores and a ring of files; ReportDelivery is built on   *)
(* it.                                                                     *)
(***************************************************************************)
EXTENDS DocFifo

VARIABLES
    turn,         \* "free", or how far the request of its holder has come
    asked         \* the document asked for and not yet built

serviceVars == <<turn, asked, queue, out>>

ServiceInit ==
    /\ Init
    /\ turn = "free"
    /\ asked = NoDocument

Take ==
    /\ turn = "free"
    /\ turn' = "taken"
    /\ UNCHANGED <<asked, queue, out>>

Ask(d) ==
    /\ turn = "taken"
    /\ asked' = d
    /\ turn' = "asked"
    /\ UNCHANGED <<queue, out>>

\* No document after all.
Withdraw ==
    /\ turn \in {"taken", "asked"}
    /\ asked' = NoDocument
    /\ turn' = "free"
    /\ UNCHANGED <<queue, out>>

Post ==
    /\ turn = "asked"
    /\ turn' = "posted"
    /\ UNCHANGED <<asked, queue, out>>

Build ==
    /\ turn = "posted"
    /\ Put(asked)
    /\ asked' = NoDocument
    /\ turn' = "free"

ServiceNext ==
    \/ Take
    \/ \E d \in Documents : Ask(d)
    \/ Withdraw
    \/ Post
    \/ Build
    \/ Look /\ UNCHANGED <<turn, asked>>
    \/ Remove /\ UNCHANGED <<turn, asked>>

ServiceSpec == ServiceInit /\ [][ServiceNext]_serviceVars
=============================================================================
