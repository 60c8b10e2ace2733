------------------------------- MODULE Media -------------------------------
(***************************************************************************)
(* Streams, tracks, receivers, transceivers and track events of RTC.java,  *)
(* with the permissions that getUserMedia asks for: how Java comes to have *)
(* proxies of the page's media objects, what it counts, and what it learns *)
(* of a track that ends.  Java sends scripts, the page answers with        *)
(* callbacks and events; both ways are FIFO (see PeerConnection).          *)
(***************************************************************************)
EXTENDS Registry, SequencesExt

CONSTANTS Requests,      \* calls of getUserMedia
          Wants,         \* of each request, the kinds of media it asks for
          RemoteTracks, RemoteStreams,
          Descriptions,  \* remote descriptions: sequences of tracks that arrive,
                         \* each with the streams it belongs to
          None,          \* no list (the list of a closed stream)
          NEvents,       \* bound: track events
          NInputs        \* bound: requests, track events and calls on streams and tracks

Kinds        == {"audio", "video"}
LocalStream(r) == <<r, "stream">>
LocalTracks(r) == {<<r, k>> : k \in Wants[r]}
Streams      == {LocalStream(r) : r \in Requests} \cup RemoteStreams
Tracks       == (UNION {LocalTracks(r) : r \in Requests}) \cup RemoteTracks
Receiver(t)    == <<"receiver", t>>
Transceiver(t) == <<"transceiver", t>>
Sender(t)      == <<"sender", t>>
TrackEvent(n)  == <<"event", n>>
Events       == {TrackEvent(n) : n \in 1 .. NEvents}
Objects      == Streams \cup Tracks \cup Events
                \cup UNION {{Receiver(t), Transceiver(t), Sender(t)} : t \in RemoteTracks}

ASSUME MediaAssumption ==
  /\ IsFiniteSet(Requests) /\ IsFiniteSet(RemoteStreams)
  /\ Wants \in [Requests -> SUBSET Kinds]
  /\ NEvents \in Nat /\ NInputs \in Nat
  /\ \A d \in Descriptions : d \in Seq([track : RemoteTracks, streams : Seq(RemoteStreams)])

\* The page's objects are of different classes, what arrives from the other end is
\* not what the camera gives, and null is not a list.
ASSUME ObjectsApart ==
  /\ Streams \cap Tracks = {}
  /\ Events \cap (Streams \cup Tracks) = {}
  /\ \A t \in RemoteTracks : {Receiver(t), Transceiver(t), Sender(t)} \cap (Streams \cup Tracks) = {}
  /\ {LocalStream(r) : r \in Requests} \cap RemoteStreams = {}
  /\ None \notin Seq(Nat)

VARIABLES
  native,   \* whether this platform asks the user for permissions; never changes
  perm,     \* Java: permissions granted so far (static, for all requests)
  request,  \* Java: state of each call of getUserMedia
  java,     \* Java: proxies, registry and scripts (Registry), and the list of
            \* tracks of each stream
  stopping, \* Java: proxies of tracks whose stop() has been called
  inputs,   \* requests, track events and calls on streams and tracks so far
  toJava,   \* callbacks and events not yet handled by Java
  page,     \* page: registry (Registry), and the tracks of each stream
  tstate,   \* page: of each track live, stopped (by stop()) or ended (by its source)
  nevents   \* page: track events fired so far

vars == <<native, perm, request, java, stopping, inputs, toJava, page, tstate, nevents>>

TrackInfo  == [of : Tracks, ready : {"live", "ended"}]
StreamInfos(S) == [of : S, tracks : Seq(TrackInfo)]

\* What the page tells Java, and what Java has the page do.
Message ==
  [type : {"media"}, request : Requests, stream : StreamInfos(Streams)]
  \cup [type : {"refused"}, request : Requests]
  \cup [type : {"track"}, of : Events, track : [of : RemoteTracks, ready : {"live", "ended"}],
        streams : Seq(StreamInfos(RemoteStreams)), sends : Seq(TrackInfo)]
  \cup [type : {"ended"}, of : Tracks]
Scripts ==
  [op : {"retain", "release"}, of : Objects]
  \cup [op : {"addTrack", "removeTrack"}, of : Streams, track : Tracks]
  \cup [op : {"stop"}, of : Tracks]
  \cup [op : {"getUserMedia"}, of : Requests]

JavaType ==
  /\ java \in [proxies : Seq([of : Objects, count : Int, ready : {"live", "ended"}]),
               bound : [Objects -> Nat], scripts : Seq(Scripts),
               tracks : [Streams -> Seq(Nat) \cup {None}]]
  /\ \A o \in Objects : java.bound[o] # 0 =>
       java.bound[o] \in DOMAIN java.proxies /\ java.proxies[java.bound[o]].of = o
  /\ \A s \in Streams : java.tracks[s] # None =>
       \A i \in DOMAIN java.tracks[s] :
         java.tracks[s][i] \in DOMAIN java.proxies /\ java.proxies[java.tracks[s][i]].of \in Tracks

TypeOK ==
  /\ native \in BOOLEAN
  /\ perm \subseteq Kinds
  /\ request \in [Requests -> {"none", "native", "posted", "page", "camera",
                               "answered", "resolved", "rejected"}]
  /\ JavaType
  /\ stopping \subseteq DOMAIN java.proxies
  /\ toJava \in Seq(Message)
  /\ page \in [known : SUBSET Objects, count : [Objects -> Int], heard : [Tracks -> Nat],
               tracks : [Streams -> Seq(Tracks)]]
  /\ tstate \in [Tracks -> {"live", "stopped", "ended"}]
  /\ inputs \in 0 .. NInputs /\ nevents \in 0 .. NEvents

Init ==
  /\ native \in BOOLEAN
  /\ perm = {}
  /\ request = [r \in Requests |-> "none"]
  /\ java = [proxies |-> <<>>, bound |-> [o \in Objects |-> 0], scripts |-> <<>>,
             tracks |-> [s \in Streams |-> <<>>]]
  /\ stopping = {}
  /\ inputs = 0
  /\ toJava = <<>>
  /\ page = [known |-> {}, count |-> [o \in Objects |-> 0],
             heard |-> [t \in Tracks |-> 0], tracks |-> [s \in Streams |-> <<>>]]
  /\ tstate = [t \in Tracks |-> "live"]
  /\ nevents = 0

\* What is bounded: something outside asks for media, calls or sends tracks.
Input(n) == inputs + n <= NInputs /\ inputs' = inputs + n

(***************************************************************************)
(* Permissions.  A request that lacks one asks for it and starts over with *)
(* the answer; it asks once.                                               *)
(***************************************************************************)
SendGetUserMedia(r) == java' = [java EXCEPT !.scripts = Append(@, Script("getUserMedia", r))]

GetUserMedia(r) ==
  /\ Input(1)
  /\ request[r] = "none"
  /\ \/ /\ Wants[r] \subseteq perm
        /\ request' = [request EXCEPT ![r] = "page"]
        /\ SendGetUserMedia(r)
        /\ UNCHANGED perm
     \/ /\ ~ Wants[r] \subseteq perm
        /\ IF native
           THEN request' = [request EXCEPT ![r] = "native"] /\ UNCHANGED perm
           ELSE request' = [request EXCEPT ![r] = "posted"] /\ perm' = Kinds
        /\ UNCHANGED java
  /\ UNCHANGED <<native, stopping, toJava, page, tstate, nevents>>

\* Faulty: the result of the native question is dropped if it was a refusal.
NativeAnswersIfGranted(r) ==
  /\ request[r] = "native"
  /\ perm' \in {perm, perm \cup Wants[r]}
  /\ request' = IF perm' = perm THEN request ELSE [request EXCEPT ![r] = "posted"]
  /\ UNCHANGED <<native, java, stopping, inputs, toJava, page, tstate, nevents>>

\* permissionCallback: both permissions wanted, or none.  The flags are set at
\* once, on the caller's thread; the request goes on when the EDT gets to it.
NativeAnswers(r) ==
  /\ request[r] = "native"
  /\ perm' \in {perm, perm \cup Wants[r]}
  /\ request' = [request EXCEPT ![r] = "posted"]
  /\ UNCHANGED <<native, java, stopping, inputs, toJava, page, tstate, nevents>>

Retry(r) ==
  /\ request[r] = "posted"
  /\ \/ /\ Wants[r] \subseteq perm
        /\ request' = [request EXCEPT ![r] = "page"]
        /\ SendGetUserMedia(r)
     \/ /\ ~ Wants[r] \subseteq perm
        /\ request' = [request EXCEPT ![r] = "rejected"]
        /\ UNCHANGED java
  /\ UNCHANGED <<native, perm, stopping, inputs, toJava, page, tstate, nevents>>

(***************************************************************************)
(* Java's proxies.  t is what a message says of a track: which, readyState. *)
(***************************************************************************)
\* Faulty: the list of tracks does not retain its members.
ListTrackUncounted(J, s, p) == [J EXCEPT !.tracks[s] = Append(@, p)]

\* MediaStreamTracks.add
ListTrack(J, s, p) == [Retain(J, p) EXCEPT !.tracks[s] = Append(@, p)]

\* newMediaStream: a new proxy for each track, also for one that has a proxy.
AddNewTrack(J, s, t) ==
  LET K == New(J, t.of, t.ready) IN ListTrack(K, s, Newest(K))

NewMediaStream(J, s) ==
  FoldLeft(LAMBDA K, t : AddNewTrack(K, s.of, t), New(J, s.of, "live"), s.tracks)

RetainOrNew(J, t) ==
  IF J.bound[t.of] # 0 THEN Retain(J, J.bound[t.of]) ELSE New(J, t.of, t.ready)

RTCRtpReceiverImpl(J, t) == RetainOrNew(New(J, Receiver(t.of), "live"), t)

\* The sender of t's transceiver, with the track it sends if it sends one.
RTCRtpSenderImpl(J, t, sends) ==
  LET K == New(J, Sender(t.of), "live")
  IN  IF sends = <<>> THEN K ELSE RetainOrNew(K, Head(sends))

\* A new transceiver makes a sender and a receiver of its own.
RTCRtpTransceiverImpl(J, t, sends) ==
  RTCRtpReceiverImpl(RTCRtpSenderImpl(New(J, Transceiver(t.of), "live"), t, sends), t)

EventStream(J, s) ==
  IF J.bound[s.of] # 0 THEN Retain(J, J.bound[s.of])
  ELSE LET K == NewMediaStream(J, s)
       IN  Release(Retain(K, K.bound[s.of]), K.bound[s.of])

\* RTCTrackEventImpl: the event owns its streams, track, transceiver and
\* receiver.
RTCTrackEventImpl(J, e) ==
  LET t == e.track
      withTrack == RetainOrNew(FoldLeft(EventStream, New(J, e.of, "live"), e.streams), t)
      withTransceiver ==
        IF withTrack.bound[Transceiver(t.of)] # 0
        THEN Retain(withTrack, withTrack.bound[Transceiver(t.of)])
        ELSE RTCRtpTransceiverImpl(withTrack, t, e.sends)
  IN  IF withTransceiver.bound[Receiver(t.of)] # 0
      THEN Retain(withTransceiver, withTransceiver.bound[Receiver(t.of)])
      ELSE RTCRtpReceiverImpl(withTransceiver, t)

\* Faulty: the event is not released after its listeners.
DispatchTrackEventKept(J, e) ==
  LET K == RTCTrackEventImpl(J, e) IN Retain(K, K.bound[Receiver(e.track.of)])

\* The connection's listener adds the receiver to its list; the event is
\* released after its listeners.
DispatchTrackEvent(J, e) ==
  LET K == RTCTrackEventImpl(J, e)
      L == Retain(K, K.bound[Receiver(e.track.of)])
  IN  Release(L, L.bound[e.of])

\* getTracks, getVideoTracks, getAudioTracks: a list that retains its members
\* and that nobody clears.
ListTracks(J, s) == FoldLeft(Retain, J, J.tracks[s])

\* getUserMedia's callback walks the lists of video and of audio tracks.
UserMedia(J, s) ==
  LET K == NewMediaStream(J, s) IN ListTracks(K, s.of)

(***************************************************************************)
(* The EDT handles a callback or an event.                                 *)
(***************************************************************************)
\* Faulty: a track is ended only with its last reference.
DispatchEndedAtLast(J, t) ==
  IF J.bound[t] = 0 THEN J
  ELSE Release([J EXCEPT !.proxies[J.bound[t]].ready =
                  IF J.proxies[J.bound[t]].count = 1 THEN "ended" ELSE @], J.bound[t])

\* The listener that a track's constructor adds.
DispatchEnded(J, t) ==
  IF J.bound[t] = 0 THEN J
  ELSE Release([J EXCEPT !.proxies[J.bound[t]].ready = "ended"], J.bound[t])

JavaStep ==
  /\ toJava # <<>>
  /\ LET m == Head(toJava) IN
       \/ /\ m.type = "media"
          /\ java' = UserMedia(java, m.stream)
          /\ request' = [request EXCEPT ![m.request] = "resolved"]
       \/ /\ m.type = "refused"
          /\ request' = [request EXCEPT ![m.request] = "rejected"]
          /\ UNCHANGED java
       \/ /\ m.type = "track"
          /\ java' = DispatchTrackEvent(java, m)
          /\ UNCHANGED request
       \/ /\ m.type = "ended"
          /\ java' = DispatchEnded(java, m.of)
          /\ UNCHANGED request
  /\ toJava' = Tail(toJava)
  /\ UNCHANGED <<native, perm, stopping, inputs, page, tstate, nevents>>

(***************************************************************************)
(* Calls of the application on streams and tracks.                         *)
(***************************************************************************)
Usable(s) == java.bound[s] # 0 /\ java.tracks[s] # None
TrackProxies == {p \in DOMAIN java.proxies : java.proxies[p].of \in Tracks}
\* getTrackById: the members of the list that are proxies of the same track.
Alike(s, p) == {i \in DOMAIN java.tracks[s] :
                  java.proxies[java.tracks[s][i]].of = java.proxies[p].of}

AddTrack(s, p) ==
  /\ Input(1) /\ Usable(s) /\ Alike(s, p) = {}
  /\ java' = [Retain(ListTrack(java, s, p), p) EXCEPT
                !.scripts = Append(@, [op |-> "addTrack", of |-> s,
                                       track |-> java.proxies[p].of])]
  /\ UNCHANGED <<native, perm, request, stopping, toJava, page, tstate, nevents>>

\* removeTrack: one release by the list, one by the stream.
RemoveTrack(s, p) ==
  /\ Input(1) /\ Usable(s) /\ Alike(s, p) # {}
  /\ LET i == CHOOSE i \in Alike(s, p) : \A j \in Alike(s, p) : i <= j
         q == java.tracks[s][i]
         K == [Release(java, q) EXCEPT
                 !.tracks[s] = RemoveAt(@, i),
                 !.scripts = Append(@, [op |-> "removeTrack", of |-> s,
                                        track |-> java.proxies[p].of])]
     IN  java' = Release(K, q)
  /\ UNCHANGED <<native, perm, request, stopping, toJava, page, tstate, nevents>>

\* The proxies that stop() of those in ps would stop; stops of one track are one,
\* as the page tells no difference.
Stoppable(ps) == {p \in ps \ stopping : java.proxies[p].ready = "live"}
StopScripts(ps) == SetToSeq({Script("stop", java.proxies[p].of) : p \in Stoppable(ps)})

StopTrack(p) ==
  /\ Input(1) /\ Stoppable({p}) # {}
  /\ stopping' = stopping \cup {p}
  /\ java' = [java EXCEPT !.scripts = @ \o StopScripts({p})]
  /\ UNCHANGED <<native, perm, request, toJava, page, tstate, nevents>>

GetTracks(s) ==
  /\ Input(1) /\ Usable(s) /\ java.tracks[s] # <<>>
  /\ java' = ListTracks(java, s)
  /\ UNCHANGED <<native, perm, request, stopping, toJava, page, tstate, nevents>>

\* RTCList.clear, and the list is dropped; done once.
Clear(J, s) ==
  IF J.tracks[s] = None THEN J
  ELSE [FoldLeft(Release, J, J.tracks[s]) EXCEPT !.tracks[s] = None]

\* close() of streams: stop the tracks, clear and drop the lists.  The stops of
\* several streams go first: the page does not read its counts.
CloseStreams(ss) ==
  LET listed(s) == ToSet(java.tracks[s])
      members   == UNION {listed(s) : s \in ss}
      stopped   == [java EXCEPT !.scripts = @ \o StopScripts(members)]
  IN  /\ stopping' = stopping \cup Stoppable(members)
      /\ java' = FoldLeft(Clear, stopped, SetToSeq(ss))

CloseStream(s) ==
  /\ Input(1) /\ Usable(s) /\ CloseStreams({s})
  /\ UNCHANGED <<native, perm, request, toJava, page, tstate, nevents>>

\* RTC.close: close() of every registered object that has one.
CloseRTC ==
  /\ Input(1) /\ \E s \in Streams : Usable(s)
  /\ CloseStreams({s \in Streams : Usable(s)})
  /\ UNCHANGED <<native, perm, request, toJava, page, tstate, nevents>>

(***************************************************************************)
(* The page.                                                               *)
(***************************************************************************)
\* Faulty: what the model calls stopped is passed on as it is.
InfoRaw(t) == [of |-> t, ready |-> tstate[t]]

\* readyState of the browser knows live and ended.
Info(t) == [of |-> t, ready |-> IF tstate[t] = "live" THEN "live" ELSE "ended"]
StreamInfo(P, s) == [of |-> s, tracks |-> [i \in DOMAIN P.tracks[s] |-> Info(P.tracks[s][i])]]

\* installEventListeners: a stream's listeners are also put on its tracks.
Installs(P, o) == IF o \in Streams THEN ToSet(P.tracks[o]) ELSE {o} \cap Tracks
Wrap(P, o)     == PageRetain(P, o, Installs(P, o))

WrapAll(P, os) == FoldLeft(Wrap, P, os)

WrapStream(P, s) == WrapAll(P, <<s>> \o P.tracks[s])

\* Scripts that only count are run together, as many as there are at the head
\* of the queue: the page does not read its counts, so nothing can tell.
Counting(c) == c.op \in {"retain", "release"}
PageCount(P, c) == IF c.op = "retain" THEN Wrap(P, c.of) ELSE PageRelease(P, c.of)

PageCounts ==
  /\ \E n \in 1 .. Len(java.scripts) :
       /\ \A i \in 1 .. n : Counting(java.scripts[i])
       /\ n < Len(java.scripts) => ~ Counting(java.scripts[n + 1])
       /\ page' = FoldLeft(PageCount, page, SubSeq(java.scripts, 1, n))
       /\ java' = [java EXCEPT !.scripts = SubSeq(@, n + 1, Len(@))]
  /\ UNCHANGED <<native, perm, request, stopping, inputs, toJava, tstate, nevents>>

PageStep ==
  /\ java.scripts # <<>>
  /\ LET c == Head(java.scripts) IN
       \/ /\ c.op = "addTrack"
          /\ page' = [page EXCEPT !.tracks[c.of] =
                        IF c.track \in ToSet(@) THEN @ ELSE Append(@, c.track)]
          /\ UNCHANGED <<request, tstate>>
       \/ \* The script passes the id of the track, and removeTrack throws.
          /\ c.op = "removeTrack"
          /\ UNCHANGED <<page, request, tstate>>
       \/ /\ c.op = "stop"
          /\ tstate' = [tstate EXCEPT ![c.of] = IF @ = "live" THEN "stopped" ELSE @]
          /\ UNCHANGED <<page, request>>
       \/ /\ c.op = "getUserMedia"
          /\ request' = [request EXCEPT ![c.of] = "camera"]
          /\ UNCHANGED <<page, tstate>>
  /\ java' = [java EXCEPT !.scripts = Tail(@)]
  /\ UNCHANGED <<native, perm, stopping, inputs, toJava, nevents>>

\* The promise of the page's getUserMedia settles.
CameraAnswers(r) ==
  /\ request[r] = "camera"
  /\ request' = [request EXCEPT ![r] = "answered"]
  /\ \/ /\ toJava' = Append(toJava, [type |-> "refused", request |-> r])
        /\ UNCHANGED page
     \/ LET s == LocalStream(r)
            P == [page EXCEPT !.tracks[s] = SetToSeq(LocalTracks(r))]
        IN  /\ page' = WrapStream(P, s)
            /\ toJava' = Append(toJava, [type |-> "media", request |-> r,
                                         stream |-> StreamInfo(P, s)])
  /\ UNCHANGED <<native, perm, java, stopping, inputs, tstate, nevents>>

\* What the listener for track events wraps, in the order of its properties.
WrapEvent(P, e, a) ==
  LET receiver == WrapAll(Wrap(P, e), <<Receiver(a.track), a.track>>)
      streams  == FoldLeft(WrapStream, receiver, a.streams)
  IN  WrapAll(streams, <<a.track, Transceiver(a.track), Receiver(a.track), a.track,
                         Sender(a.track)>> \o a.sends)

TrackMessage(P, e, a) ==
  [type |-> "track", of |-> e, track |-> Info(a.track),
   streams |-> [i \in DOMAIN a.streams |-> StreamInfo(P, a.streams[i])],
   sends |-> [i \in DOMAIN a.sends |-> Info(a.sends[i])]]

\* What the sender of an arriving track's transceiver may send: nothing, or a
\* track that the page was given.
Sends == {<<>>} \cup {<<t>> : t \in page.known \cap Tracks}

\* A remote description is set: its tracks join their streams, then an event is
\* fired for each.
RemoteDescription(d) ==
  /\ Input(Len(d))
  /\ nevents + Len(d) <= NEvents
  /\ nevents' = nevents + Len(d)
  /\ \E sends \in [DOMAIN d -> Sends] :
       LET a == [i \in DOMAIN d |-> [track |-> d[i].track, streams |-> d[i].streams,
                                     sends |-> sends[i]]]
           arrivals(s) == {a[i].track : i \in {j \in DOMAIN a : s \in ToSet(a[j].streams)}}
           joined == [page EXCEPT !.tracks = [s \in Streams |-> @[s] \o
                        SetToSeq(arrivals(s) \ ToSet(@[s]))]]
           event(i) == TrackEvent(nevents + i)
       IN  /\ page' = FoldLeft(LAMBDA P, i : WrapEvent(P, event(i), a[i]),
                               joined, [i \in DOMAIN a |-> i])
           /\ toJava' = toJava \o [i \in DOMAIN a |-> TrackMessage(joined, event(i), a[i])]
  /\ UNCHANGED <<native, perm, request, java, stopping, tstate>>

\* The source of a track ends by itself: each listener calls Java.
SourceEnds(t) ==
  /\ t \in page.known /\ tstate[t] = "live"
  /\ tstate' = [tstate EXCEPT ![t] = "ended"]
  /\ toJava' = toJava \o [i \in 1 .. page.heard[t] |-> [type |-> "ended", of |-> t]]
  /\ UNCHANGED <<native, perm, request, java, stopping, inputs, page, nevents>>

Next ==
  \/ \E r \in Requests : GetUserMedia(r) \/ NativeAnswers(r) \/ Retry(r) \/ CameraAnswers(r)
  \/ JavaStep \/ PageCounts \/ PageStep \/ CloseRTC
  \/ \E s \in Streams : GetTracks(s) \/ CloseStream(s)
  \/ \E s \in Streams, p \in TrackProxies : AddTrack(s, p) \/ RemoveTrack(s, p)
  \/ \E p \in TrackProxies : StopTrack(p)
  \/ \E d \in Descriptions : RemoteDescription(d)
  \/ \E t \in Tracks : SourceEnds(t)

\* The user answers a question put to it, the EDT and the page run what they are
\* given; nobody has to call anything.  For the two queues weak fairness is
\* written out: it is always again empty or shortened.
Fairness ==
  /\ []<>(toJava = <<>>) \/ []<><<Len(toJava') < Len(toJava)>>_toJava
  /\ []<>(java.scripts = <<>>) \/ []<><<Len(java.scripts') < Len(java.scripts)>>_java
  /\ \A r \in Requests :
       WF_vars(NativeAnswers(r)) /\ WF_vars(Retry(r)) /\ WF_vars(CameraAnswers(r))

Spec == Init /\ [][Next]_vars /\ Fairness

(***************************************************************************)
(* Properties.                                                             *)
(***************************************************************************)
\* The page's count of an object, once the scripts under way have run, covers
\* what all of Java's proxies of it own: were the page to free what it counts
\* zero, it would free nothing that Java still uses.
OwnedIsKept ==
  \A o \in Objects :
    Owned(java, o) <= page.count[o] + UnderWay(java, "retain", o) - UnderWay(java, "release", o)

\* A track whose source has ended is known to be ended by the registered proxy
\* as soon as no event about it is under way: the event never overtakes the
\* callback or the event that makes the proxy, and never goes to no one.
EndsAreNoticed ==
  \A t \in Tracks :
    /\ tstate[t] = "ended"
    /\ \A i \in DOMAIN toJava : toJava[i] # [type |-> "ended", of |-> t]
    => java.bound[t] # 0 /\ java.proxies[java.bound[t]].ready = "ended"

\* As long as a track lives, its proxy is counted at least once for every
\* stream that lists it, however often it was added, removed, listed, or met
\* again in a track event.
ListedAreCounted ==
  \A p \in TrackProxies : java.proxies[p].ready = "live" =>
    Cardinality({s \in Streams : java.tracks[s] # None /\ p \in ToSet(java.tracks[s])})
      <= java.proxies[p].count

\* Every event object is given back: when nothing is under way its count in the
\* page is zero again.
EventsAreGivenBack ==
  java.scripts = <<>> /\ toJava = <<>> =>
    \A n \in 1 .. nevents : page.count[TrackEvent(n)] = 0

\* A request for media is answered, whoever else asks for permissions meanwhile,
\* if the user and the page answer.
RequestsAreAnswered ==
  \A r \in Requests : request[r] # "none" ~> request[r] \in {"resolved", "rejected"}
=============================================================================
