--------------------------- MODULE MCRegistryPinner ---------------------------
(***************************************************************************)
(* Two tasks and two contexts.  Blobs 3 and 67 share mutex 3.  A row       *)
(* reaches revision 3, by two pins called at revision 0 and an unpin.      *)
(* Payload hashes are the sums of the contexts, so that the tie-break      *)
(* between two rows of one revision goes either way.                       *)
(***************************************************************************)
EXTENDS RegistryPinner, FiniteSetsExt

Same(t) == "pinner"
Total(s) == SumSet(s)
=============================================================================
