-------------------------- MODULE MCMainContainer --------------------------
(***************************************************************************)
(* Instances of MainContainer: the Secret has the keys the code reads, or  *)
(* only those the API documents.                                           *)
(***************************************************************************)
EXTENDS MainContainer

CodeKeys == UNION {RequiredKeys(r) : r \in Container}

CodeOrDocumented == {CodeKeys, DocumentedKeys}
OnlyDocumented == {DocumentedKeys}
=============================================================================
