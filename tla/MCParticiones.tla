--------------------------- MODULE MCParticiones ---------------------------
(***************************************************************************)
(* Particiones on small memories.  Sizes 1, 2 and 3 in 5 bytes make a      *)
(* memory that fragments: two processes can leave holes that add up to the *)
(* third one and hold it only once compacted.                              *)
(***************************************************************************)
EXTENDS ParticionesProofs

SuPid == [p \in Pids |-> p]               \* process p asks for p bytes
DosFijas == <<3, 2>>                      \* config.Partitions

SimetriaManejadores == Permutations(Manejadores)
=============================================================================
