------------------------------ MODULE MCUplink ------------------------------
(***************************************************************************)
(* Three files in the ring, so that two documents may wait.  "mana" and     *)
(* "xml" ask for one and the same type: nothing in the module depends on   *)
(* which of the two asked.                                                 *)
(***************************************************************************)
EXTENDS Uplink

MCManaTypes == {"NOTIFY"}
MCXmlTypes == {"NOTIFY"}
MCDealTypes == {"REPORT"}
MCBodies == {1}

MCDocuments ==
    [type : MCManaTypes \cup MCXmlTypes, body : {0}]
        \cup [type : MCDealTypes, body : MCBodies]
=============================================================================
