---------------------------- MODULE MCLocalRoot ----------------------------
(***************************************************************************)
(* Two clients of one root, two snapshot names and two mutations: enough   *)
(* for a mutation between the two messages of create_snapshot, for two     *)
(* snapshots of one state and for a save after a save that was cut short.  *)
(* Clients are alike, and so are names.                                    *)
(***************************************************************************)
EXTENDS LocalRoot, TLC

Symmetry == Permutations(Client) \cup Permutations(Name)
=============================================================================
