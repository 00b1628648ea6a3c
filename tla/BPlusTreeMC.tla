------------------------------ MODULE BPlusTreeMC ------------------------------
(* BPlusTree for TLC: the keys of the instances.                           *)
EXTENDS BPlusTree

Keys5 == 1..5
Keys7 == 1..7
Keys8 == 1..8
=============================================================================
