------------------------------ MODULE MCMedia ------------------------------
EXTENDS Media, TLC
CONSTANTS r1, r2, t1, t2, s1, s2

\* Two requests for the same permission: one may be refused, the other granted.
WantsOf == [r \in Requests |-> {"video"}]

\* A track in one stream; a track in two streams; two tracks in one stream.
OneTrack   == <<[track |-> t1, streams |-> <<s1>>]>>
TwoStreams == <<[track |-> t1, streams |-> <<s1, s2>>]>>
TwoTracks  == <<[track |-> t1, streams |-> <<s1>>], [track |-> t2, streams |-> <<s1>>]>>
AllArrivals == {OneTrack, TwoStreams, TwoTracks}
=============================================================================
