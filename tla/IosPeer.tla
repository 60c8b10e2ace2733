------------------------------ MODULE IosPeer ------------------------------
(***************************************************************************)
(* A connection of the page on iOS, where the page has no WebRTC of its    *)
(* own.  A call of the page's RTCPeerConnection (iosrtc) goes as an exec   *)
(* to the EDT (EmbeddedCordovaApplication, IOSRTCPlugin, Cordova), as a    *)
(* block to the main queue of iOS (CordovaNativeImpl, iosrtcPlugin), as a  *)
(* block to the serial queue of the plugin (PluginRTCPeerConnection) and   *)
(* into the operations chain of WebRTC.  Answers and events go back by the *)
(* main queue and the EDT (CordovaCallbackManager).  All these are FIFO    *)
(* and run independently of each other.                                    *)
(***************************************************************************)
EXTENDS Naturals, Sequences, Queues

CONSTANTS NCalls,      \* bound: calls of the application on the connection
          Kinds,       \* which calls it makes
          Disciplined  \* it waits for the answer to a description that it sets, or
                       \* to an offer or answer that it creates, before the next

Creations    == {"offer", "answer"}
Descriptions == {"local", "remote"}

ASSUME IosAssumption ==
  /\ NCalls \in Nat /\ Disciplined \in BOOLEAN
  /\ Kinds \subseteq Creations \cup Descriptions \cup {"candidate", "close"}

Call    == 1 .. NCalls
NewConn == 0                  \* the exec of the constructor; events are its answers
Exec    == {NewConn} \cup Call
DISPOSE == NCalls + 1         \* dispose() among the deferred calls

VARIABLES
  made,       \* page: calls made so far; a call is known by its number
  kind,       \* page: what each call is
  promise,    \* page: the promise of each call
  pageClosed, \* page: signalingState is closed
  execs,      \* execs on their way to the EDT
  ready,      \* Cordova: initialized
  onReady,    \* Cordova: what waits for that
  disposed,   \* EmbeddedCordovaApplication: dispose() has been called
  waiting,    \* CordovaCallbackManager: execs with a callback
  main,       \* blocks of the main queue: execs, and answers and events to send
  plugin,     \* the native plugin and its command delegate exist
  listed,     \* plugin: the connection is in pluginRTCPeerConnections
  queue,      \* plugin: blocks of its serial queue
  slot,       \* connection: the call whose closures each callback property holds
  chain,      \* WebRTC: operations not yet completed
  applied,    \* WebRTC: the first of them has changed the signaling state
  described,  \* WebRTC: descriptions that are set
  closed,     \* WebRTC: the connection is closed
  alive,      \* the app has not crashed on a nil description
  results     \* answers and events on their way by the EDT to the page

page   == <<made, kind, promise, pageClosed>>
edt    == <<ready, onReady, disposed>>
peer   == <<slot, chain, applied, described, closed, alive>>
vars   == <<page, execs, edt, waiting, main, plugin, listed, queue, peer, results>>

Slots  == {"createLocal", "createRemote", "set"}
\* Faulty: one callback property for every operation.
OneSlot(k) == "set"

\* onCreateLocalDescription..., onCreateRemoteDescription..., onSetDescription...
SlotOf(k) == CASE k = "offer" -> "createLocal"
               [] k = "answer" -> "createRemote"
               [] OTHER -> "set"

\* A block that runs an exec; an answer to exec c, sent for operation of; an
\* event caused by operation of, with the new signaling state.
Run(c)           == [type |-> "run", exec |-> c]
Answer(c, ok, of) == [type |-> "answer", exec |-> c, ok |-> ok, of |-> of]
Event(of, isClosed) == [type |-> "event", exec |-> NewConn, closed |-> isClosed, of |-> of]

Messages == [type : {"answer"}, exec : Call, ok : BOOLEAN, of : Call]
            \cup [type : {"event"}, exec : {NewConn}, closed : BOOLEAN, of : Call]

TypeOK ==
  /\ made \in 0 .. NCalls
  /\ kind \in [Call -> Kinds \cup {"none"}]
  /\ promise \in [Call -> {"none", "pending", "fulfilled", "rejected"}]
  /\ pageClosed \in BOOLEAN
  /\ execs \in Seq(Exec)
  /\ ready \in BOOLEAN /\ onReady \in Seq(Exec \cup {DISPOSE}) /\ disposed \in BOOLEAN
  /\ waiting \subseteq Exec
  /\ main \in Seq([type : {"run"}, exec : Exec] \cup Messages)
  /\ plugin \in BOOLEAN /\ listed \in BOOLEAN
  /\ queue \in Seq(Call)
  /\ slot \in [Slots -> Call \cup {0}]
  /\ chain \in Seq(Call) /\ applied \in BOOLEAN
  /\ described \subseteq Descriptions
  /\ closed \in BOOLEAN /\ alive \in BOOLEAN
  /\ results \in Seq(Messages)

Init ==
  /\ made = 0
  /\ kind = [c \in Call |-> "none"]
  /\ promise = [c \in Call |-> "none"]
  /\ pageClosed = FALSE
  /\ execs = <<NewConn>>
  /\ ready = FALSE /\ onReady = <<>> /\ disposed = FALSE
  /\ waiting = {}
  /\ main = <<>>
  /\ plugin = FALSE /\ listed = FALSE
  /\ queue = <<>>
  /\ slot = [s \in Slots |-> 0]
  /\ chain = <<>> /\ applied = FALSE
  /\ described = {} /\ closed = FALSE /\ alive = TRUE
  /\ results = <<>>

(***************************************************************************)
(* The page: RTCPeerConnection of iosrtc.                                  *)
(***************************************************************************)
\* What a disciplined application waits for before it makes a call.
Rivals(k) == IF k \in Descriptions THEN Descriptions ELSE {k} \cap Creations
MayCall(k) == Disciplined => \A c \in Call : kind[c] \in Rivals(k) => promise[c] # "pending"

\* On a closed connection setting a description and adding a candidate reject at
\* once; createOffer and createAnswer return no promise at all; close() does
\* nothing.
PageCall(k) ==
  /\ made < NCalls /\ MayCall(k)
  /\ made' = made + 1
  /\ kind' = [kind EXCEPT ![made'] = k]
  /\ \/ /\ pageClosed
        /\ promise' = [promise EXCEPT ![made'] =
                         IF k = "close" \/ k \in Creations THEN "none" ELSE "rejected"]
        /\ UNCHANGED execs
     \/ /\ ~ pageClosed
        /\ promise' = [promise EXCEPT ![made'] = IF k = "close" THEN "none" ELSE "pending"]
        /\ execs' = Append(execs, made')
  /\ UNCHANGED <<pageClosed, edt, waiting, main, plugin, listed, queue, peer, results>>

\* callbackFromNative: of an answer the callbacks of a method; of an event onEvent.
PageResult ==
  /\ results # <<>>
  /\ LET m == Head(results) IN
       \/ /\ m.type = "answer"
          /\ promise' = IF promise[m.exec] # "pending" \/ pageClosed THEN promise
                        ELSE [promise EXCEPT ![m.exec] =
                                IF m.ok THEN "fulfilled" ELSE "rejected"]
          /\ UNCHANGED pageClosed
       \/ /\ m.type = "event"
          /\ pageClosed' = (pageClosed \/ m.closed)
          /\ UNCHANGED promise
  /\ results' = Tail(results)
  /\ UNCHANGED <<made, kind, execs, edt, waiting, main, plugin, listed, queue, peer>>

(***************************************************************************)
(* The EDT.  It runs deferred calls in one go, but the main queue may run  *)
(* between two of them.                                                    *)
(***************************************************************************)
Deferring == ready /\ onReady # <<>>

\* Cordova.execute, once initialized.
Execute(c) == waiting' = waiting \cup {c} /\ main' = Append(main, Run(c))

\* The plugin is looked up first; without it the page gets an error.
EdtExec ==
  /\ execs # <<>> /\ ~ Deferring
  /\ execs' = Tail(execs)
  /\ LET c == Head(execs) IN
       \/ /\ disposed
          /\ results' = IF c = NewConn \/ kind[c] = "close" THEN results
                        ELSE Append(results, Answer(c, FALSE, c))
          /\ UNCHANGED <<onReady, waiting, main>>
       \/ /\ ~ disposed /\ ~ ready
          /\ onReady' = Append(onReady, c)
          /\ UNCHANGED <<waiting, main, results>>
       \/ /\ ~ disposed /\ ready
          /\ Execute(c)
          /\ UNCHANGED <<onReady, results>>
  /\ UNCHANGED <<page, ready, disposed, plugin, listed, queue, peer>>

\* pluginInitialize, which polls until the web view has its native peer.
PluginReady ==
  /\ ~ ready
  /\ ready' = TRUE /\ plugin' = TRUE
  /\ UNCHANGED <<page, execs, onReady, disposed, waiting, main, listed, queue, peer, results>>

\* Faulty: the call made last is run first.
RunDeferredLast ==
  /\ Deferring
  /\ LET c == onReady[Len(onReady)] IN
       \/ c = DISPOSE /\ plugin' = FALSE /\ UNCHANGED <<waiting, main>>
       \/ c # DISPOSE /\ Execute(c) /\ UNCHANGED plugin
  /\ onReady' = SubSeq(onReady, 1, Len(onReady) - 1)
  /\ UNCHANGED <<page, execs, ready, disposed, listed, queue, peer, results>>

\* Faulty: what was deferred is dropped.
DropDeferred ==
  /\ Deferring
  /\ onReady' = Tail(onReady)
  /\ UNCHANGED <<page, execs, ready, disposed, waiting, main, plugin, listed, queue, peer,
                 results>>

\* Faulty: dispose() is run like a call.
RunDeferredBlindly ==
  /\ Deferring
  /\ Execute(Head(onReady))
  /\ onReady' = Tail(onReady)
  /\ UNCHANGED <<page, execs, ready, disposed, plugin, listed, queue, peer, results>>

RunDeferred ==
  /\ Deferring
  /\ LET c == Head(onReady) IN
       \/ c = DISPOSE /\ plugin' = FALSE /\ UNCHANGED <<waiting, main>>
       \/ c # DISPOSE /\ Execute(c) /\ UNCHANGED plugin
  /\ onReady' = Tail(onReady)
  /\ UNCHANGED <<page, execs, ready, disposed, listed, queue, peer, results>>

\* RTC.close: EmbeddedCordovaApplication.dispose, IOSRTCPlugin.dispose,
\* Cordova.dispose.
Dispose ==
  /\ ~ disposed /\ ~ Deferring
  /\ disposed' = TRUE
  /\ \/ ready /\ plugin' = FALSE /\ UNCHANGED onReady
     \/ ~ ready /\ onReady' = Append(onReady, DISPOSE) /\ UNCHANGED plugin
  /\ UNCHANGED <<page, execs, ready, waiting, main, listed, queue, peer, results>>

(***************************************************************************)
(* The main queue of iOS.                                                  *)
(***************************************************************************)
\* Faulty: the callback goes with its first result.
ForgetsCallback(m) == waiting' = waiting \ {m.exec}

\* CordovaCallbackManager.sendResult, for the EDT and the page; the events of a
\* connection keep the callback of its constructor.
KeepsCallback(m) == waiting' = IF m.type = "event" THEN waiting ELSE waiting \ {m.exec}

\* Faulty: answers overtake events on the way to the page.
SendAnswersFirst(m) ==
  /\ KeepsCallback(m)
  /\ results' = IF m.exec \notin waiting THEN results
                ELSE IF m.type = "answer" THEN <<m>> \o results ELSE Append(results, m)
  /\ UNCHANGED <<listed, queue>>

Send(m) ==
  /\ KeepsCallback(m)
  /\ results' = IF m.exec \in waiting THEN Append(results, m) ELSE results
  /\ UNCHANGED <<listed, queue>>

\* A method of iosrtcPlugin.  Without plugin or without connection nothing is
\* answered.
RunExec(c) ==
  /\ IF plugin /\ c = NewConn
     THEN listed' = TRUE /\ UNCHANGED queue
     ELSE /\ queue' = IF plugin /\ listed THEN Append(queue, c) ELSE queue
          /\ UNCHANGED listed
  /\ UNCHANGED <<waiting, results>>

MainStep ==
  /\ main # <<>>
  /\ main' = Tail(main)
  /\ \/ Head(main).type = "run" /\ RunExec(Head(main).exec)
     \/ Head(main).type # "run" /\ Send(Head(main))
  /\ UNCHANGED <<page, execs, edt, plugin, peer>>

(***************************************************************************)
(* The serial queue of the plugin, and PluginRTCPeerConnection.            *)
(***************************************************************************)
\* iosrtcPlugin.emit
Emit(m) == main' = IF plugin THEN Append(main, m) ELSE main

BeginOperation(c) ==
  /\ slot' = [slot EXCEPT ![SlotOf(kind[c])] = c]
  /\ chain' = Append(chain, c)
  /\ UNCHANGED <<main, listed, closed>>

AddIceCandidate(c) ==
  /\ Emit(Answer(c, TRUE, c))
  /\ UNCHANGED <<listed, slot, chain, closed>>

\* Faulty: the connection is forgotten before it can tell the page.
CloseUntold(c) ==
  /\ closed' = TRUE
  /\ listed' = FALSE
  /\ UNCHANGED <<main, slot, chain>>

\* The change of the signaling state is delivered while close() runs.
Close(c) ==
  /\ closed' = TRUE
  /\ Emit(Event(c, TRUE))
  /\ listed' = FALSE
  /\ UNCHANGED <<slot, chain>>

\* Every method begins with the test of the signaling state and then returns
\* without an answer.
QueueStep ==
  /\ queue # <<>>
  /\ queue' = Tail(queue)
  /\ LET c == Head(queue) IN
       \/ /\ closed
          /\ listed' = (listed /\ kind[c] # "close")
          /\ UNCHANGED <<main, slot, chain, closed>>
       \/ /\ ~ closed
          /\ \/ kind[c] \in Creations \cup Descriptions /\ BeginOperation(c)
             \/ kind[c] = "candidate" /\ AddIceCandidate(c)
             \/ kind[c] = "close" /\ Close(c)
  /\ UNCHANGED <<page, execs, edt, waiting, plugin, applied, described, alive, results>>

(***************************************************************************)
(* WebRTC: one operation at a time.  A description that is set changes the *)
(* signaling state, unless it is of the type of the one before, and then   *)
(* the completion handler is called.                                       *)
(***************************************************************************)
NativeApplies ==
  /\ chain # <<>> /\ ~ applied /\ ~ closed
  /\ kind[Head(chain)] \in Descriptions
  /\ applied' = TRUE
  /\ described' = described \cup {kind[Head(chain)]}
  /\ Emit(Event(Head(chain), FALSE)) \/ UNCHANGED main
  /\ UNCHANGED <<page, execs, edt, waiting, plugin, listed, queue, slot, chain, closed, alive,
                 results>>

\* The closures called are those the slot holds now; the closure of a success
\* reads the description of its own call, which it takes to be there.
CallsBack(c, ok) ==
  LET a == slot[SlotOf(kind[c])] IN
    IF ok /\ kind[a] \in Descriptions \ described
    THEN alive' = FALSE /\ UNCHANGED main
    ELSE Emit(Answer(a, ok, c)) /\ UNCHANGED alive

NativeCompletes ==
  /\ chain # <<>>
  /\ \/ applied /\ CallsBack(Head(chain), TRUE)
     \/ ~ applied /\ CallsBack(Head(chain), FALSE)
     \/ ~ closed /\ kind[Head(chain)] \in Creations /\ CallsBack(Head(chain), TRUE)
  /\ chain' = Tail(chain)
  /\ applied' = FALSE
  /\ UNCHANGED <<page, execs, edt, waiting, plugin, listed, queue, slot, described, closed,
                 results>>

Next ==
  \/ \E k \in Kinds : PageCall(k)
  \/ PageResult \/ EdtExec \/ PluginReady \/ RunDeferred \/ Dispose
  \/ MainStep \/ QueueStep \/ NativeApplies \/ NativeCompletes

\* Every queue is served, WebRTC completes its operations, and the web view gets
\* its native peer; nobody has to call or to dispose.
Fairness ==
  /\ WF_vars(EdtExec) /\ WF_vars(RunDeferred) /\ WF_vars(PluginReady)
  /\ WF_vars(MainStep) /\ WF_vars(QueueStep) /\ WF_vars(NativeCompletes)
  /\ WF_vars(PageResult)

Spec == Init /\ [][Next]_vars /\ Fairness

(***************************************************************************)
(* Properties.                                                             *)
(***************************************************************************)
\* An answer or event that reaches Java finds its callback: sendResult calls a
\* method of what it finds without a test, on the main thread of the app.
AnswersFindCallbacks ==
  /\ \A i \in DOMAIN main : main[i].type # "run" => main[i].exec \in waiting
  /\ \A i, j \in DOMAIN main :
       main[i].type = "answer" /\ main[j].type = "answer" /\ main[i].exec = main[j].exec => i = j

\* The answer a call gets is that of its own operation, and the closure that
\* makes it finds its description.
AnswersAreOwn ==
  /\ alive
  /\ \A m \in Members(main) \cup Members(results) : m.type = "answer" => m.exec = m.of

\* When the promise of a call is fulfilled the page knows every change of the
\* signaling state that the call brought about.
StateBeforeAnswer ==
  \A c \in Call : promise[c] = "fulfilled" =>
    \A m \in Members(main) \cup Members(results) : m.type = "event" => m.of # c

\* Calls pass through all queues in the order the page made them, whether or not
\* they were deferred; the connection comes first.
InMain   == {m.exec : m \in {n \in Members(main) : n.type = "run"}}
Stages   == <<Members(chain), Members(queue), InMain, Members(onReady) \ {DISPOSE},
              Members(execs)>>
CallsInOrder ==
  /\ Increases(chain) /\ Increases(queue) /\ Increases(onReady) /\ Increases(execs)
  /\ \A i, j \in DOMAIN main :
       i < j /\ main[i].type = "run" /\ main[j].type = "run" => main[i].exec < main[j].exec
  /\ \A s, t \in DOMAIN Stages : s < t => Precede(Stages[s], Stages[t])

\* A call is answered unless the connection is closed or the plugin disposed of.
CallsAreAnswered ==
  \A c \in Call : promise[c] = "pending" ~>
    \/ promise[c] # "pending"
    \/ disposed
    \/ \E d \in Call : kind[d] = "close"

\* A connection that is closed is closed in the page some time later, unless the
\* plugin is disposed of.
CloseIsLearned ==
  (\E d \in Call : kind[d] = "close") ~> pageClosed \/ disposed
=============================================================================
