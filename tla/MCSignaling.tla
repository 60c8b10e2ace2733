---------------------------- MODULE MCSignaling ----------------------------
(* Small instances of Signaling for TLC.                                    *)
EXTENDS Signaling

CONSTANTS ann, bob, carol

OneCall == {<<ann, bob>>}
TwoCallees == {<<ann, bob>>, <<ann, carol>>}
=============================================================================
