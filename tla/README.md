# A TLA+ model of WebRTC-Java-Mobile

This directory holds TLA+ modules about the WebRTC library for Codename One: specifications of its
components, TLC configurations that check them on small instances, and proofs checked by TLAPS.
Paths below are relative to the root of the repository; `W/` stands for
`src/webrtc/src/com/codename1/webrtc/` and `S/` for `src/IosRtcPlugin/IosRtcPlugin/`.

## The system

A Codename One application uses a Java API that mirrors the W3C WebRTC API. The real objects live in
the page of a hidden `BrowserComponent`; every Java object is a proxy bound by a `refId` to an object
of the page. On iOS the page has no WebRTC, so a Cordova plugin written in Swift implements it and the
calls travel page -> Cordova bridge -> Swift and back.

```
 application -- Promise / listeners -- RTC.java proxies
                                          |   web.execute(script)          ^ window.cn1Callback(event)
                                          v                                |  callback.onSuccess/onError
                                   page: RTCBootstrap.js, registry, RTCPeerConnection
                                          |  (iOS only) cordova.exec       ^ callbackFromNative
                                          v                                |
                                   EmbeddedCordovaApplication -- Cordova -- iosrtcPlugin.swift
 RTCClientSession / RTCClientConnection use the proxies and exchange messages through an RTCClient
```

All Java code runs on one thread, the EDT, one runnable at a time. Concurrency comes from elsewhere:
the page is another process, Swift has its own queues, other threads resolve promises, two users act at
once, and every Java method that waits for something is cut into callbacks between which anything else
may run.

### Inventory

| Component | State | Operations | Interacts with | What is hard | Correct when |
|---|---|---|---|---|---|
| **Promise** `W/Promise.java` | state, value, error, list of handlers of each promise | resolve/reject functors, `then` and its variants, `all`, `allSettled`, `await`, conversions | every asynchronous call of the library; the EDT queue | handlers run inside the call that settles; loops over one list nest; adoption of a returned promise; resolvers called from other threads or twice; `await` runs other events on top of its caller | each handler is called once, in order, with the right outcome; a promise of `then` settles once; nothing is stranded; an `await` whose promise is settled returns |
| **Peer connection mirror** `W/RTC.java` 1014-1190, 3346-3970; `W/RTCRtpSenders.java`; listeners of `RTCBootstrap.js` | connection and signaling state, descriptions, sender and receiver lists, calls waiting for a sender | createOffer/Answer, setLocal/RemoteDescription, addIceCandidate, addTrack, removeTrack, setParameters, close | page by scripts, callbacks, events | Java and page change independently; events and callbacks under way when something is closed or removed | the mirror becomes what the page is; each call is answered once |
| **Client sessions** `W/client/` | connections of each session, their peer connection, local stream | connect, handleOffer/Answer/NewIceCandidate, negotiation, ICE failure | two users through an RTCClient | every handler is a chain of asynchronous steps; messages name users, not connections | the two ends of a call have each other's descriptions; a call gets through |
| **Reference counts and proxies** `W/RTC.java` 1603-1725, `W/RTCList.java`, registry of `RTCBootstrap.js` | Java count, page count, the registries | retain, release, wrap, list add/remove | every proxy | two counts kept equal by messages; several proxies of one object | the page never counts less than Java owns |
| **Streams and tracks** `W/RTC.java` 1731-2301, 2365-2455 | tracks of a stream, readyState | getUserMedia, addTrack, removeTrack, stop, close; ended/mute events | registry, peer connection | the first proxy alone receives events; a track is met again in a stream or an event | the end of a track is noticed; a listed track is counted |
| **Transceivers, receivers, track events** `W/RTC.java` 1195-1569 | sender, receiver, direction, 1 s poller | setDirection, stop; track events | page, registry | an event makes, finds and retains up to five kinds of proxies | event objects are given back, what they leave is counted |
| **Permissions** `W/RTC.java` 117-127, 228-237 | static flags, static callback | askForPermission, permissionCallback | native layer | one static callback and one set of flags for all requests | each request is answered |
| **RTC life cycle** `W/RTC.java` 245-450 | page, registry, ready promise, Cordova application | createRTC, event dispatch, close | page, Cordova | events before and after ready and close | ready once; nothing used after close |
| **Data channels** `W/RTC.java` 4056-4344, `S/PluginRTCDataChannel.swift`, `RTCDataChannel` of `RTCBootstrap_ios.html` | readyState, kept states and messages, listener | create, send, close; open/message/close events | page, plugin, thread of WebRTC | two threads share the kept events without a lock | messages arrive once and in order; open and closed are learned |
| **Cordova bridge** `W/compat/cordova/`, `src/webrtc/native/ios/` | plugin table, callbacks waiting, `onReady` list | exec, sendResult, dispose, pause/resume | page, Swift | calls before ready are queued; kept callbacks; results after dispose | each call executed once, in order, its results go to its callback |
| **iOS peer connection** `S/iosrtcPlugin.swift`, `S/PluginRTCPeerConnection.swift`, `RTCPeerConnection` of `RTCBootstrap_ios.html` | dictionary of connections, callback slots | one handler per W3C method | Cordova bridge, WebRTC.framework | description calls share a callback slot; closed connections return without an answer; three queues in a row | each call gets its own answer, after the state it brought about |
| Media elements and container `W/RTCMediaElement.java`, `W/RTCVideoContainer.java`, audio/video part of RTC.java | attributes of page elements | setters, events, layout | page | little beyond the mirror | attributes agree |
| Constraint and settings records `W/*Constraints.java`, `W/*Settings.java`, `W/RTCConfiguration.java`, ... | data | getters, JSON | - | none: sequential data | - |
| iOS media `S/PluginMediaStreamRenderer.swift`, `S/PluginRTCVideoCaptureController.swift`, audio, devices | AVFoundation sessions, views | start, stop, rotate | operating system | device behaviour | - |
| Demos `src/src/` | forms | buttons | the API | none of their own | - |
| Vendored and generated: `include/Cordova`, `WebRTC.framework`, `docs/`, build files, stub `native/` classes | - | - | - | - | - |

`PROJECT.json` lists the hazards of these components at their lines.

## Modules

| Module | Models | Role |
|---|---|---|
| `Promise` | `W/Promise.java`: `then`, settlement, the EDT's call stack and queue | detailed specification, properties |
| `PromiseContract` | what a caller of `then` may rely on | abstract specification, implemented by `Promise` |
| `PromiseProofs` | - | proofs about `Promise`, and that it implements `PromiseContract` |
| `Combinators` | `W/Promise.java`: `all`, `allSettled`, `await` with its nested event loop | specification, properties |
| `PeerConnection` | `RTCPeerConnectionImpl`, `RTCRtpSenderImpl`, and the page they mirror | specification, properties |
| `Signaling` | `RTCClientSession`, `RTCClientConnection`, `RTCClientConnections`, `RTCClient`, `MockRTCClient` | specification, properties |
| `OfferAnswer` | what a call between two users is, seen from their signaling states | abstract specification, implemented by `Signaling` |
| `Registry` | `RefCountedImpl`, `RTCRegistry` | operators on the two registries, used by `Media` |
| `Media` | streams, tracks, receivers, transceivers, track events, getUserMedia with its permissions | specification, properties |
| `IosPeer` | page, Cordova bridge and plugin of iOS, for the calls of one connection | specification, properties |
| `DataChannel` | `RTCDataChannel` of the page on iOS and `PluginRTCDataChannel` | specification, properties |
| `Queues`, `QueueProofs` | - | what the invariants say of a queue (its members, that they increase, that each occurs once, where it leads), and lemmas about `Append`, `Tail` and `\o` |
| `CombinatorsProofs`, `PeerConnectionProofs`, `SignalingProofs`, `MediaProofs`, `IosPeerProofs`, `DataChannelProofs` | - | proofs about the modules they are named for; `SignalingProofs` also that `Signaling` implements `OfferAnswer` |
| `MCPromise`, `MCCombinators`, `MCPeerConnection`, `MCSignaling`, `MCMedia`, `MCIosPeer`, `MCDataChannel` | - | instances for TLC |

How they fit together: the callbacks of `PeerConnection`, `Signaling` and `Media` are handlers of promises, which `Promise`
shows to be called once and in order. `PeerConnection` assumes that a page answers a call once, with the state changes before the
answer; `IosPeer` shows this of the page on iOS, for an application that waits for the answer to a description.
`DataChannel` uses the order of calls and events that `IosPeer` shows (`CallsInOrder`), `Signaling` the order of operations of
`PeerConnection`.

Operators whose comment begins "Variant" or "Faulty" are plausible wrong versions of the next action. They are
part of no specification; replacing the real action by one of them makes TLC find the property it is
meant for violated, which shows that the property depends on the code.

### Promise

*State.* `state`, `value`, `error`, `thens` are the fields of each promise object. Promises are numbers:
`1..NRoots` are made by `new Promise(executor)`, the others by `then`. `queue` is what `CN.callSerially`
posted. `stack` is the call stack of the EDT, because in this code settling is a synchronous call:
`resolve` runs `processThens`, which calls handlers, which may call `resolve`, `then` or anything else.
A frame is a running loop of `processThens` (with the outcome it was started with: the code passes
it as a parameter and does not read the field again) or a running function of the application.
`origin` and `called` only record history.

*Actions.* `PostSettle` (resolver on another thread), `CallResolver` (on the EDT), `RunTask`, `Then`,
`DrainStep` / `DrainEnd` (one turn of the loop: remove, then call; end of the loop), `ReturnOutcome`, `ReturnPromise`
(the result of a handler, adoption included), `ReturnApp`. `Settle` is the body of both functors. It overwrites whatever the promise held, as
the code does. `ready`, `onSuccess`, `onFail`, `onComplete`, `except`, `always` are `then` with one or
both functions; a missing function is the identity or the thrower, which casts to `RuntimeException`.

*Not in the model.* `then` called off the EDT (an unsynchronised `LinkedList`: no caller in the repository does
it). `Promise.reject(Throwable)` calls itself without end (`W/Promise.java:425`), so it is not an operation anything can build on.

### PromiseContract

Three variables: the phase of each derived promise's handler (unmade, waiting, called), the promise it was added to,
and the outcome of each promise. No lists, stack, queue or adoption. A handler is called once,
after its promise has an outcome and after the handlers added earlier to it; its own promise is settled once,
afterwards. Fairness: a handler whose promise has an outcome and whose turn it is gets called. `Promise!Contract` gives the refinement mapping.

### Combinators

*State.* The promises given to `all`, `allSettled` and `await` (`state`, `error`, `handlers`, as in `Promise` but without chaining); the locals of
the one call of `all` or `allSettled` (`args`, `complete`, `results`, and as history `failures`, the arguments whose failure has been passed on); of each `await` the array `complete[0]` with what it holds (`done`),
the thread that `invokeAndBlock` started (`helper`) and what the call returned or threw (`answer`); the call stack of the EDT.

*Actions.* `CallCombinator`, `CallStep`, `CallReturns` are the executor of `all`, which calls `then` on one argument after the
other and can be suspended in the middle of that; `AllFulfilled`, `AllRejected`, `Settled`, `Notify` the handlers, called by `DrainStep`;
`CallAwait` and `AwaitLoop` are `await` on the EDT, `HelperWaits` and `HelperTimesOut` its helper thread. While an `await` is on top
of the stack the event loop runs (`Idle`), and `SettleEvent` and `AppEvent` may put anything on top of it.

*What it shows beyond the properties.* An `await` in a handler suspends the loop over the handlers behind it. If its promise depends on one of
those, both wait for ever: `AwaitsReturn` therefore speaks of an `await` whose promise is settled. The promise of `all` is rejected
again by each further argument that fails. `OutcomesAgree` states this exactly: each argument that failed has been passed on once, and the error of `all` is
that of the one passed on *last*. `W/Promise.java:302` says the first; `RejectsWithFirst` is that sentence, and the run `all_first` shows it violated.

### PeerConnection

*State.* `j...`, `senders`, `track`, `ready`, `onReady`, `ops` are Java's; `p...`, `chain`, `tuning`,
`sending`, `slot` the page's; `toPage` and `toJava` the two FIFO channels. `ops` are the promises handed out
by createOffer, createAnswer, setLocalDescription, setRemoteDescription, addIceCandidate and
setParameters. `seen`, `wanted`, `closed` record history.

*Actions.* One per Java method; `JavaStep` handles one callback or event (`OnDone`, `OnTuned`, `OnSender`, `OnEvent`);
`PageStep` runs one script; `ChainEnds`, `TuningEnds`, `ConnectionChanges`, `OtherEvent` are the page's own.

*The page* is the browser and not code of the repository; it is modelled from how the scripts use it: operations
of a connection run one after the other, a state change fires its event before the operation's promise
settles, a closed connection settles and fires nothing more, `addTrack` throws for a closed connection
or a track already sent, a removed sender stays in the page's `getSenders()` with a null track and may be given
to a track added later (Java then learns of the new track from the answer to setParameters), and a
remote offer in state have-local-offer is refused (no implicit rollback). A
script that throws is either answered with an error that Java only logs or not answered; for `addTrack` both
are the same to Java. Every event Java listens to carries `connectionState` (`RTCBootstrap.js` 67-71), so the
events that differ in nothing else are one, `OtherEvent`.

*Abstracted.* Descriptions are model values; currentLocal/RemoteDescription are never set by the code except to null;
ICE states are copied by one listener each and nothing else. Receivers and reference counts are in `Media`, data channels of iOS in
`DataChannel`.

### Signaling

*State.* A connection is a number, in the order of their making; `user`, `peer`, `role` say whose it is, and `list` has the connections that
each session still knows (a set: the order of `RTCClientConnections` is that of the numbers, and `First` is the one that its loop meets first).
`open` says that the `peerConnection` promise is fulfilled. `todo` and `onPage` are what handlers have handed to a connection while it opens: `todo` what
waits for the peer connection, `onPage` what waits for the page first (`sendOffer`, `handleAnswer`; `HandTo` decides). `Open` puts the second behind the first,
the order in which the promises settle. Later `todo` has the operations on their way to the page, which keeps order (`PeerConnection`). `awaiting` and `camera` are
`getLocalStream` of connection and session. `net` is the RTCClient, one FIFO queue per pair of users. The
interface says nothing of order and the mock delivers at once, which is the special case of an
empty queue. A message carries the number of the connection it came from; it stands for the text of the description, and no handler
looks at it: the session finds the connection by user name only.

*Actions.* `Connect`, `Deliver` (`OnOffer`, `OnAnswer`, `OnCandidate`), `Perform` (one operation and the
continuation chained to it), `StreamAnswers`, `CameraAnswers`, `NegotiationNeeded`, `FindCandidate`, `IceFails`.

*Not in the model.* Hangup messages (nobody sends or handles them), `setClient`, `setUsername`, `close` of sessions, the
remote stream (`setStream`), calls of a user to itself.

### OfferAnswer

Two variables: of each call, how far the end that placed it is, and how far the end that is called is. Six steps: the connection of the caller is made (`Place`) and
sets its offer (`Offer`); that of the callee is made (`Ring`), applies the offer (`Accept`) and sets its answer (`Answer`); the caller applies that (`Connect`). Each
needs the one before it, at whichever end. No sessions, connections, messages, pages or cameras. The end of a call that `Signaling` maps to it is the connection of that session to
that user (`CallersOf`, `CalleesOf`), its state is `signalingState`, and a connection counts as past an offer only when its remote description is that of the other
end: mixed-up descriptions, an answer that overtakes its offer, a second connection for an offer or a step done twice would all leave the exchange.

### Registry and Media

*State.* `java` has the proxies (of which object, count, readyState), the one that the registry holds of each object (`bound`), the scripts on
their way to the page and the track list of each stream; `page` has the page's registry: known objects, counts, and how many listeners are installed
on each track. `perm`, `native`, `request` are the permissions and the calls of getUserMedia; `tstate` is the truth about a track;
`toJava` the callbacks and events under way. A track event also carries the sender of its transceiver and, when that sends one, its track (`sends`), which may be a track
that Java knows, has released, or has not met.

*Actions.* `GetUserMedia`, `NativeAnswers`, `Retry`, `CameraAnswers`: a request and its permissions. `JavaStep` handles the callback of a request
(`UserMedia`), a track event (`DispatchTrackEvent`) or the end of a track (`DispatchEnded`). `AddTrack`, `RemoveTrack`, `StopTrack`, `GetTracks`,
`CloseStream`, `CloseRTC` are the calls of the application. `PageStep`, `PageCounts`, `RemoteDescription`, `SourceEnds` are the page.
The operators of `Registry` map the state of one side to the next, because one callback retains many objects; `RTCTrackEventImpl` composes
them in the order of the constructor.

*Abstracted.* Scripts of retain and release at the head of the queue run in one step (`PageCounts`): the page does not read its counts.
Stops of one track by several proxies are one (`StopScripts`). Mute, constraints, elements and the directions of transceivers are left out. On the page
nothing is freed: `OwnedIsKept` says that nothing would be missed if objects counted zero were.

*Bounded.* `inputs` counts what comes from outside: requests, calls of the application, and the tracks that remote descriptions bring. One bound `NInputs` for all of them
lets each mixture occur. `NEvents` bounds the objects of track events.

*Assumed.* Requests and remote streams are finitely many. Streams, tracks, events, and what comes with a track (receiver, transceiver, sender) are different objects, and the stream of a
request is not that of a remote end (`ObjectsApart`): they are objects of different classes in one page.

### IosPeer

*State.* The page (`made`, `kind`, `promise`, `pageClosed`), the execs on their way to the EDT, `Cordova` (`ready`, `onReady`),
`EmbeddedCordovaApplication` (`disposed`), `CordovaCallbackManager` (`waiting`), the main queue of iOS (`main`: execs down, answers and events up), the plugin
(`plugin`, `listed`, its serial `queue`), `PluginRTCPeerConnection` (`slot`, its callback properties), and WebRTC (`chain`, `applied`, `described`,
`closed`). A call is known by its number, so the order of calls is the order of numbers. On a connection that the page has closed, createOffer and createAnswer
return nothing at all (`promise` stays "none"), the other calls a rejected promise, as in `RTCBootstrap_ios.html` (4317-4319, 4357-4359).

*Actions.* `PageCall`, `PageResult`; `EdtExec`, `PluginReady`, `RunDeferred`, `Dispose`; `MainStep` (`RunExec`, `Send`); `QueueStep`
(`BeginOperation`, `AddIceCandidate`, `Close`); `NativeApplies`, `NativeCompletes`, which stand for WebRTC and are external.

*Assumed.* The application is `Disciplined`: it sets no description while another is being set, and creates no two offers at a time.
Without that the closures of one call are called for another, which TLC shows when `Disciplined` is FALSE (see Disagreements).
The events of the connection use the kept callback of its constructor. The web view does get its native peer (`PluginReady`;
giving up after ten seconds is not modelled). The callback table, which two threads use without a lock, is atomic.

### DataChannel

*State.* The page (`readyState`, `delivered`, `sent`), the plugin (`step` and `replay`: where on its serial queue a method has got to; `listener`,
`lostStates`, `lostMessages`), and WebRTC with the event that its thread is telling the delegate (`task`). A method of the queue that the
delegate can interrupt is several actions: `Create`, `Announce`, `Attach`, `TestState`, `ReportState`, and `SetListener`, `Replay`, `ClearStates`, `ClearMessages`.
`Tell` and `DelegateActs` are the two halves of a delegate method: the test of the listener and what follows from it. Between `Create` and `Attach` WebRTC has a channel
without a delegate: its states and messages go to nobody, and `missed` records the last such message. `Announce` describes the channel as it is by then. `CreateFails` is the channel
that WebRTC refuses: `init` only logs this and `run()` unwraps nil, which ends the application (`step = "crashed"`). A close carries the number of messages sent before it (`CloseOp`).

*What the properties say of the hard cases.* `CreatedInOrder`, of a channel the page made: the messages up to `missed` are lost, and of all others none is lost, repeated or overtaken.
`SentWithoutGaps`: until WebRTC closes the channel every message of the page is out or waits in order, and none waits behind a close that was called after it, so that the page's own close
loses nothing sent before it. `CloseSticks`: a channel closed by the page may look open to it for a while when an older event arrives, but ends closed, with one exception (`StaleNews`):
WebRTC closed the channel by itself, and an older state reported by `run()` or `setListener` is the last news of it. Then the page shows an open channel for ever.

*Assumed.* The connection stays open; calls and events are in order (`IosPeer`).
The race of two threads on a Swift array is an atomic append or clear; that the program could crash there is outside of the model. For a channel of the remote end,
messages kept while `setListener` runs can be lost or overtaken, so `CreatedInOrder` speaks of channels that the page made, and `KeptAreReplayed` of what was kept
before `setListener` began.

## Runs

| Run | Instance | What it shows |
|---|---|---|
| `promise_safety` | 1 root, 3 derived promises, 2 settlements of the root, queue of 1 | type, `OneOwner`, `SettledIsDrained`, `HandlersSeeCurrentOutcome`, `DerivedSettlesOnce`; under fairness the refinement `ImplementsContract`, which has the order of handlers and that each gets called |
| `combinators` | `all`/`allSettled` of 0 arguments, of one given twice, of 2; 1 handler, 2 awaits | `OutcomesAgree` (state, results and failures of `all`, answers of `await`); under fairness `AwaitsReturn` |
| `all_first` | the same instance | violation: a later failure replaces the error of `all` |
| `peer_state` | 1 track, 2 calls, 1 sender, 1 message in flight when the page fires spontaneously | `MirrorCatchesUp`, `DescriptionsAgree`, `AnsweredOnce`, `ParametersInOrder` |
| `peer_calls` | 1 track, 1 call, 2 senders | `CallsAreAnswered` under fairness |
| `peer_removed` | 2 tracks, 2 senders | violation: the second removed track is still sent |
| `signaling_calls` | 3 users, one calls both others, 1 candidate per connection | `Paired`, `CandidatesFollowDescriptions`, and `FollowsExchange`, the refinement of `OfferAnswer` |
| `signaling_through` | one call, each connection negotiated again once | `CallsGetThrough` under fairness |
| `signaling_two_calls` | one user calls another twice | violation: the answer to one call is taken by the other |
| `media` | 3 inputs of: 2 requests for one permission, remote tracks (one alone, one in two streams, two in one stream; with or without a track sent in return), calls of the application; 2 track events | `OwnedIsKept`, `EndsAreNoticed`, `ListedAreCounted`, `EventsAreGivenBack`; under fairness `RequestsAreAnswered` |
| `ios_calls` | 3 calls of any of the six kinds, dispose at any time | `AnswersFindCallbacks`, `AnswersAreOwn`, `StateBeforeAnswer`, `CallsInOrder`; under fairness `CallsAreAnswered`, `CloseIsLearned` |
| `data_channel` | 3 messages received, 2 sent, a channel of either end | `DispatchedOnce`, `CreatedInOrder`, `SentWithoutGaps`; under fairness `KeptAreReplayed`, `OpenIsLearned`, `CloseSticks` |

*Why the bounds are enough.* Three derived promises on one root are the smallest number that allows a loop nested
in a loop over the same list with a handler left in it, a handler that adds a handler, and
an adopted promise with a handler of its own; a second settlement is needed for outcomes that differ
(there are two errors and a value). For `Combinators`, two awaits allow one on top of the other and one in a handler that suspends a loop (or the call of
`all`) while the other waits; more of either repeat this. For the mirror, two calls are needed for operations that overlap (local and
remote description, two setParameters waiting for one sender), and events, callbacks and close can be under
way together. `MaxInFlight` bounds only what the page fires by itself. Two calls of one user to two others
show a mix-up of connections of one session; without renegotiation two connections per call are made, so `MaxConns` is never the
reason that a message is not delivered; with it, later offers stop at the bound, after the first answer that `CallsGetThrough` asks for. For `Media`, two events
of one track meet every way in which a proxy is found or made, and the three inputs are any mixture: two requests and a call, a call around two track events, two calls around a request or an event.
The two requests ask for one permission, so that one of them may be refused what the other is then granted.
For `IosPeer`, three calls are two that overlap and a close or a third that shares the queue with them; deferral and dispose are free. For `DataChannel`, three messages are one
kept, one that races `setListener`, one after it. `CHECK_DEADLOCK FALSE` is set in all runs but `promise_safety`: these systems stop when the application,
the users and the remote ends are done. In `Promise` there is always a step (a function can be posted whenever the event thread is idle, and a running one can return).

*Fairness.* `Promise`: weak fairness of everything the EDT does (the toolkit's loop never ends and a
function given to a promise returns); none of what the application chooses to do. `Combinators`: the same, and of the helper threads, whose wait has a timeout; nobody has
to settle a promise. `PeerConnection`: weak fairness of the
EDT, of the page's script loop and of operations the browser has started; none of events or calls.
`Signaling`: weak fairness of opening a page, performing operations, answering the camera question, delivering messages; none of
network failures, candidates or renegotiation. `Media`: the two queues are served (written as the queue being empty or shortened again and again, as TLC's test of ENABLED for a step
that composes many operators takes too long), the user answers, the camera answers; none of calls, events or sources that end. `IosPeer`: every queue is served, WebRTC completes
what it began, the web view gets ready; nobody has to call or dispose. `DataChannel`: page, queue and delegate do what they are given.

*Findings.* The runs that expect a violation each check one sentence of the repository's documentation: see `findings` in `PROJECT.json`.
The error of `all` is replaced by each later failure; `removeTrack` stops working after the first removal; answers find the wrong connection as soon as two connections join the same two users.

## Disagreements without a run

Met while modelling; where a model contains the behaviour, it is named.

* A second call of a resolver replaces the outcome of a promise (`Settle`; `W/Promise.java:77` says it works like the JavaScript promise). A handler may run inside
  the call that adds it (`Then`; `W/Promise.java:218` says asynchronously). The default thrower casts, so a checked error becomes a `ClassCastException` (`Thrown`; `W/Promise.java:245`).
* A closed connection opens again in the mirror when an event that left the page before the close arrives (`OnEvent`; `W/RTC.java:3768`). A sender
  that the page answers after removeTrack or close is listed although it sends nothing (`OnSender`; `W/RTC.java:3523`). `removeTrack` takes the sender off the
  list (`RemoveTrack`; `W/RTCPeerConnection.java:421` says it stays).
  A sender that the page refuses is never ready, so calls that wait for it wait for ever (`OnSender`; `W/RTC.java:3510`).
* An offer for a call that exists makes a second connection (`OnOffer`; `W/client/RTCClientSession.java:125`). The promise of the local stream is kept when it is rejected too, so one
  refusal of the camera fails all later calls of the session (`StreamAnswers`; `W/client/RTCClientSession.java:48`). A chain that fails in the middle of a call tells nobody; the other end waits.
* `MediaStream.removeTrack` sends the id of the track as a string, and the page throws (`PageStep`; `W/RTC.java:1848`). A track that is put into a stream has the listeners of the
  stream installed on it in addition to its own, so its end is told more than once and its count can fall below zero (`SourceEnds`, `DispatchEnded`; `W/RefCounted.java:23-24`): a release too many takes a reference that
  another proxy counts. Nothing is missed for it, as neither registry ever removes an entry (commented out at `W/RTC.java:1701` and in `RTCBootstrap.js`, 493), so both grow with every object.
  A second proxy of a track, made for a second stream, is never told of the end (`W/RTC.java:1684`). `stop()` leaves the readyState of the proxy live.
* `applyConstraints` calls an undefined `JSONStringify` in its script; `wrapMessagePort` of `RTCBootstrap.js` (269-278) uses an undefined `channel`.
* Data channels of Java: the condition that starts the timer for `bufferedAmount` is inverted (`W/RTC.java:4073`), a channel made from page state is retained twice (4171-4213),
  the label given to `createDataChannel` is dropped.
* iOS: `registerGlobals` of `RTCBootstrap_ios.html` (5800-5828) does not export `RTCDataChannel`, so Java hears nothing of data channels; `onicecandidate` makes an `RTCSessionDescription` of a candidate.
  Overlapping calls that set descriptions share one callback property (`SlotOf`): a call gets the answer of another or none, the closure of a success may find no description and crash, and
  a second result for one callback is sent to `null`. Calls under way at close or dispose never settle, and createOffer and createAnswer of a closed connection return no promise (`PageCall`).
  A channel closed by the page never reports `closed` (its delegate is freed first), may look open again for a while, and for ever if WebRTC closed it by itself and a stale report is the last
  one (`CloseSticks`). Messages that come between the creation of a channel and its delegate are lost (`missed`; a negotiated channel needs no announcement for that), so are those kept while the loops of
  `setListener` run (`ClearMessages`). A channel that cannot be made is only logged, and then unwrapped (`CreateFails`; `S/PluginRTCDataChannel.swift:83`, `:120`).

## Proofs

The theorems hold for every value of the constants that the assumptions of the modules allow (`ConstantsAssumption`, `SignalingAssumption`, ...; TLC evaluates
them on every run): any number of promises, calls, senders, users, connections, messages, and any bound. `PROJECT.json` lists them. Each proof module first proves
an inductive invariant, one lemma per action, and derives the property from it.

| Module | Theorem | States | Under |
|---|---|---|---|
| `PromiseProofs` | `TypeCorrect`, `NoHandlerStranded`, `OwnersAreUnique`, `CurrentOutcomes`, `SettledOnce` | `[]TypeOK`, `[]SettledIsDrained`, `[]OneOwner`, `[]HandlersSeeCurrentOutcome`, `DerivedSettlesOnce` | - |
| | `LoopsCurrent` | of nested loops over one promise the innermost has its present outcome, outer ones find nobody left to call | - |
| | `HandlersKeepOrder`, `KeepsContract` | handlers wait in order; `Contract!ContractSafety` | - |
| `CombinatorsProofs` | `TypeCorrect`, `CombinedRight` | `[]TypeOK`, `[]OutcomesAgree` | - |
| `PeerConnectionProofs` | `TypeCorrect`, `EachAnsweredOnce`, `StatesCatchUp`, `DescriptionsCatchUp`, `ParametersKeepOrder` | `[]TypeOK`, `[]AnsweredOnce`, `[]MirrorCatchesUp`, `[]DescriptionsAgree`, `ParametersInOrder` | - |
| `SignalingProofs` | `TypeCorrect` | `[]TypeOK` | - |
| | `EndsPaired`, `CandidatesInOrder`, `KeepsExchange` | `[]Paired`, `[]CandidatesFollowDescriptions`, `FollowsExchange` | `OneCallEach` |
| `MediaProofs` | `InvariantHolds`, `TypeCorrect` | `[]IInv`, `[]TypeOK` | - |
| | `OwnedStaysKept`, `ListedStayCounted`, `EventsComeBack`, `EndsReachJava` | `[]OwnedIsKept`, `[]ListedAreCounted`, `[]EventsAreGivenBack`, `[]EndsAreNoticed` | - |
| `IosPeerProofs` | `TypeCorrect`, `OrderKept` | `[]TypeOK`, `[]CallsInOrder` | - |
| | `CallbacksFound`, `OwnClosures`, `StateComesFirst` | `[]AnswersFindCallbacks`, `[]AnswersAreOwn`, `[]StateBeforeAnswer` | `Disciplined` |
| `DataChannelProofs` | `TypeCorrect`, `NoGaps`, `NoneLost`, `NoneTwice` | `[]TypeOK`, `[]SentWithoutGaps`, `[]CreatedInOrder`, `[]DispatchedOnce` | - |

### The arguments

* **Promise.** `TypeOK` is inductive, and so is `TypeOK /\ SettledIsDrained`: a settlement and a `then` on a settled promise push a loop, pops remove a
  handler's frame or a loop that has nobody left. `OneOwner` is inductive over that: a handler is taken off its list before it is called, and a
  returned promise gets the duty of the handler. It implies that a promise of `then` that is settled has no owner left who could settle it again (`SettledOnce`).
  `LoopsAreCurrent` is needed for `HandlersSeeCurrentOutcome`, because a loop carries the outcome it was started with and not the present one: a promise that
  is settled again under a loop has an inner loop above it, which empties the list before the outer one goes on.
* **The contract.** `CallOrder` (each handler made and not called is in the list it was added to, lists are in the order of addition, only adoptions stand for
  handlers that have been called) makes each step a step of `PromiseContract` or a stutter: `DrainStep` calls the first of a list, which is the first of the order.
  The fairness of the contract is checked by TLC in `promise_safety`.
* **Combinators.** `Inv` counts: an argument that the loop of `all` has passed has exactly one handler waiting or has been counted (`Turned`), the counter is the number of
  those (`Combined`), the promise of the call is settled as soon as they decide it, and `failures` has each argument passed on as failed, once, the one whose error `all` has at the end (`Reported`). `Drained` says that settled promises with handlers have a loop on the stack, so
  with an empty stack every handler of a settled argument has run. Nested event loops of `await` are ordinary frames to it, and `Awaited` keeps one notification per `await`.
* **PeerConnection.** `TypeInv` adds to the types that a pending call is in one place of the two event loops (script, chain, tuning, answer, waiting for its sender: `Apart`, `Kept`) and that
  senders and their slots in the page correspond (`Numbered`, `Slots`). `Mirror` says where the messages under way lead: the fields of Java, after all events and answers in
  `toJava` are applied in order, are those of the page (the states only until close() is called: an event that overtakes it may set them back, and nothing is claimed after that). That is inductive although the mirror itself is wrong in between, and with nothing under way it is `MirrorCatchesUp` and
  `DescriptionsAgree`. For `ParametersInOrder` all setParameters calls of a sender (kept, under way, done) increase in the order of those places.
* **Signaling.** `General` (types, sessions list their own connections, only callers call and only callees answer, no offer before the stream is there) holds for any users and calls.
  `Paired` needs `OneCallEach`: of two users one may call the other, once, and nothing is negotiated again, which the code needs too, since it finds a connection by the name
  of the other user; `signaling_two_calls` shows what happens otherwise. `Inv` then has: a session has one connection to a user (`Unique`); messages, tasks and descriptions come from the
  connection at the other end (`Posted`, `Given`, `Described`); an offer is sent once, and while it is on its way its callee is not made (`Offering`, `OneOffer`); a callee answers after it has
  applied the offer (`AnswerMade`), its answer is under way or with the caller (`Answered`). Candidates stand behind a description in the queue of a connection
  (`TasksFollow`) and behind the answer on the network (`MessagesFollow`), which is what keeps them from a page without remote description while that page, its camera or the other user is slow.
  That an answer never waits for the page behind a candidate rests on its being the answer to an offer that the page has made: the caller is open by then.
* **The exchange.** `KeepsExchange` needs more than `Inv`: a callee is handed its offer once and has none left when it has applied it (`Ringing`), and what is answered is settled, since an answer
  goes out after the local description is set and nothing changes the state of a callee afterwards: `Replied` says so of answers on the network, `Heard` of answers handed to the caller,
  `Concluded` of callers that have applied one (together `Settling`, inductive over `Inv`). `Staged` then gives the state of each end of a call by its one connection, a step that
  changes no description is a stutter (`Unseen`), and each of the other six kinds of step moves one end of one call (`CallerMoves`, `CalleeMoves`) to the next state of the
  exchange, with the other end where the exchange wants it (`CallerWaits`).
* **Media.** `OwnedIsKept` alone says nothing of the scripts behind the one the page runs, or of objects that Java will meet in a message, so `IInv` is about both sides and what is between them.
  *Counts* (`Kept`): what the page counts, plus the retains and minus the releases under way, minus what Java owns, plus one when Java has registered the object (its first retain sends no
  script), is the same before and after whatever Java does and whenever the page runs a script; only `wrap` of the page adds to it. It is at least 1 for what the page knows, and Java
  registers only what the page knows, because messages mention nothing else (`Spelled`). *Lists* (`Sound`): proxies and registry agree, and a living track is counted twice for each place where a list has
  it. *Ends* (`Heard`, `Noticed`): if Java has not registered a track that the page knows, a message that makes it do so is under way, ahead of any news of the end of
  the track; so the news finds the proxy. *Events* (`Given`): exactly one is owed for each event fired, until Java has dispatched it. *Requests* (`Asked`): a request under way to the page is there once,
  and its answer comes once. A step of Java maps one registry state to the next by composing operators, some of which fold over streams or tracks; each operator has a lemma that it changes
  none of this but by what it registers (`Goes`), the composition is transitive, and each fold has a lemma of its own by a least counterexample, as do the sums in `Owned`.
* **IosPeer.** A call is in one of the queues between page and WebRTC, and the queues nearer to WebRTC have smaller numbers (`StagesInOrder`); deferral keeps this since an exec is put on the main
  queue at once only when nothing is deferred. `FlowInv` says of answers that none is under way for a call still passing the queues, that its callback is kept until then, and, of a `Disciplined`
  application, that of the calls that share a slot one is unanswered (`RivalsWait`, `SlotsHeld`).
* **DataChannel.** `SentInv`: what is under way continues what went out, until the first message is dropped, after which none is accepted; the creation is the first of the queue, and a channel that is
  connecting or open is listed, or `run()` is about to list it, before which the queue takes no send. `CreatedInv`: on a channel of the page the listener is there before the delegate, so nothing is kept (`Heard`); before the delegate every message is
  missed and none is under way (`Window`); after it what is dispatched, under way and with the delegate follows the last missed one in turn (`InTurn`). `OnceInv`: a message is with the delegate, kept, in the loop of `setListener`, under way, or dispatched; the copy in the kept list is
  never looked at while the loop runs.

### Only model-checked

* All liveness (`AwaitsReturn`, `CallsAreAnswered`, `CallsGetThrough`, `RequestsAreAnswered`, `CloseIsLearned`, `KeptAreReplayed`, `OpenIsLearned`, `CloseSticks` and the fairness of the contract): it
  rests on ENABLED, which TLAPS does not handle.
* `OfferAnswer` states no fairness, so nothing of the exchange is left to check: a refused camera or a failed network may end a call anywhere. `CallsGetThrough` says when it does not.

## Not modelled

* `then` called off the EDT; the conversions of `AsyncResource`; hangup, close and setters of sessions; mute, constraints, statistics, DTMF; the poller and directions of
  transceivers; the creation of the page and the events before it is ready; `onLoad` of other Cordova plugins. These are sequential or pass through queues that are modelled.
* The Java side of data channels: each call is one script and each event one assignment.
* Media elements, records, capture and rendering, demos: no state whose changes interact, or calls of the operating system.
* Most of the JavaScript in the repository is not part of the program: `src/docs/demo` holds the published demo (Java compiled to JavaScript in `teavm/classes.js`,
  `fontmetrics.js`, `sw.js`, `push.js`, `manup.js` of the toolkit, a copy of `RTCBootstrap.js`), `src/docs/javadoc` the output of javadoc. Of its own JavaScript, `RTCBootstrap.js`
  is modelled where it keeps counts, wraps objects and installs listeners, the rest of it are formats of messages.

## Plan

Done: all modules and proofs above. Left, in this order:

1. An abstract specification of the page as `PeerConnection` uses it, implemented by `IosPeer`.
2. Sessions that are closed and hang up; transceivers with their poller; the creation of the page.
