------------------------------ MODULE ByteFifo ------------------------------
(***************************************************************************)
(* What a byte queue of the program promises to the threads on its two      *)
(* ends: a first-in first-out channel of bytes that holds Capacity of them  *)
(* and loses a byte only when it is put in while the channel is full.       *)
(*                                                                         *)
(* Abstract specification: DataQueue implements it with an array, two       *)
(* pointers and a count.                                                   *)
(***************************************************************************)
EXTENDS Naturals, Sequences

CONSTANTS
    Bytes,
    Capacity      \* bytes the channel holds at most

VARIABLES
    content,      \* the bytes put in and not yet taken, oldest first
    got           \* the byte taken last

byteVars == <<content, got>>

Init ==
    /\ content = <<>>
    /\ got \in Bytes

Put(b) ==
    /\ Len(content) < Capacity
    /\ content' = Append(content, b)
    /\ got' = got

Get ==
    /\ content # <<>>
    /\ got' = Head(content)
    /\ content' = Tail(content)

Flush ==
    /\ content' = <<>>
    /\ got' = got

Next ==
    \/ \E b \in Bytes : Put(b)
    \/ Get
    \/ Flush

Spec == Init /\ [][Next]_byteVars
=============================================================================
