----------------------------- MODULE MCReloader -----------------------------
(***************************************************************************)
(* Small instances of Reloader for TLC: two files of two versions each,    *)
(* which name each other, so that they are only good together.             *)
(***************************************************************************)
EXTENDS Reloader

CONSTANTS f1, f2, old, new

InPairs == {d \in Dirs : d[f1] = d[f2]}
=============================================================================
