--------------------------- MODULE MCXmlFileRing ---------------------------
(* A ring of four files, and documents of two kinds. *)
EXTENDS XmlFileRing

CONSTANTS d1, d2

MCDocuments == {d1, d2}
=============================================================================
