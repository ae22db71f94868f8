--------------------------- MODULE MCFileTransfer ---------------------------
(***************************************************************************)
(* Files of two and three packets, lists of two.                           *)
(***************************************************************************)
EXTENDS FileTransfer

MCSizes == {2, 3}
MCFileTypes == {"tar", "meteraddress"}
=============================================================================
