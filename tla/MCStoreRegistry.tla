--------------------------- MODULE MCStoreRegistry ---------------------------
(***************************************************************************)
(* StoreRegistry on one key, two revisions and two hashes, with one        *)
(* writer.                                                                 *)
(***************************************************************************)
EXTENDS StoreRegistry
=============================================================================
