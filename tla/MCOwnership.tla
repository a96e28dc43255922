----------------------------- MODULE MCOwnership -----------------------------
(* A small level for Ownership.                                            *)
EXTENDS Ownership

CONSTANTS actor, stalker, medkit, gun

\* The stalker may be too heavily loaded for the gun.
MCRefuses == {<<stalker, gun>>}
=============================================================================
