-------------------------- MODULE MCPeerConnection --------------------------
(* Small instances of PeerConnection for TLC.                               *)
EXTENDS PeerConnection, TLC

CONSTANTS camera, mic

(* The two tracks are handled alike.                                        *)
TrackSymmetry == Permutations({camera, mic})
=============================================================================
