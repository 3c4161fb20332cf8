------------------------------- MODULE BTreeMaps -------------------------------
(***************************************************************************)
(* The maps that a client has when it calls an operation on a whole map:   *)
(* legal ones, which is how every operation leaves a map.                  *)
(***************************************************************************)
EXTENDS BTreeNode

CONSTANT Maps  \* records of heap, root and length

ASSUME MapsAssumption == \A m \in Maps : LegalMap(m)
=============================================================================
