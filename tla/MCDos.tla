------------------------------- MODULE MCDos --------------------------------
(***************************************************************************)
(* The volume of DosVolume used in three ways: one file slot, with crashes *)
(* and with writes of entries and of data that fail; no slot, a file over  *)
(* two sectors of the FAT, with crashes and with writes of the FAT and of  *)
(* entries that fail; two slots, and nothing that fails.                   *)
(***************************************************************************)
EXTENDS DosVolume

MCSetups ==
  {[handles |-> {1}, boot |-> {}, crashes |-> TRUE, failures |-> {"entry", "data"}],
   [handles |-> {}, boot |-> {2, 4}, crashes |-> TRUE, failures |-> {"fat", "entry"}],
   [handles |-> {1, 2}, boot |-> {}, crashes |-> FALSE, failures |-> {}]}

\* A file that grows, and writes of the FAT that fail.
GrowingSetups ==
  {[handles |-> {1}, boot |-> {2}, crashes |-> FALSE, failures |-> {"fat"}]}
=============================================================================
