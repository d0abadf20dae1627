----------------------------- MODULE MCAdmision -----------------------------
(***************************************************************************)
(* Admision on a memory of five bytes, with processes of one to three.     *)
(***************************************************************************)
EXTENDS Admision

DosFijas == <<3, 2>>    \* config.Partitions, read only under FIJAS
=============================================================================
