----------------------------- MODULE MCObjectList -----------------------------
(* Small levels for ObjectList.                                            *)
EXTENDS ObjectList

=============================================================================
