------------------------------- MODULE MCALife -------------------------------
(* Two stalkers and a group, its ID among theirs.                        *)
EXTENDS ALife
=============================================================================
