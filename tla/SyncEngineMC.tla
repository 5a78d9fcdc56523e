----------------------------- MODULE SyncEngineMC ----------------------------
(***************************************************************************)
(* Small instances of SyncEngine for TLC.                                  *)
(***************************************************************************)
EXTENDS SyncEngine, TLC

(* Every job the relay can make of a row. *)
Submissions ==
  { JobOf(e, t, op, n) : e \in Entity, t \in Target, op \in StateOp, n \in Version }

Symmetry == Permutations(Token) \cup Permutations(Instance)
=============================================================================
