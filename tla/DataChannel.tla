---------------------------- MODULE DataChannel ----------------------------
(***************************************************************************)
(* A data channel on iOS: RTCDataChannel of the page (iosrtc) and          *)
(* PluginRTCDataChannel, whose methods run on the serial queue of the      *)
(* plugin and whose delegate methods run on the thread of WebRTC.  The two *)
(* share the listener and the lists of lost states and messages without a  *)
(* lock.  Calls reach the queue and events reach the page in order         *)
(* (IosPeer); the connection stays open.                                   *)
(***************************************************************************)
EXTENDS Naturals, Sequences, Queues

CONSTANTS NMessages,   \* bound: messages of the remote end
          NSends       \* bound: messages of the page

ASSUME ChannelAssumption == NMessages \in Nat /\ NSends \in Nat

VARIABLES
  received,   \* the remote end made the channel; never changes
  readyState, \* page: readyState
  delivered,  \* page: messages dispatched to its listeners
  sent,       \* page: messages that send() passed on
  calls,      \* calls on their way to the queue
  toPage,     \* events on their way to the page
  step,       \* queue: where a method that takes several steps has got to
  replay,     \* queue: what the loop over a list of lost events has yet to send
  listed,     \* the channel is in pluginRTCDataChannels, and so has a delegate
  attached,   \* the delegate of the WebRTC channel is set
  listener,   \* eventListener is set
  lostStates, lostMessages,
  state,      \* WebRTC: state of the channel
  task,       \* WebRTC: the event its thread is telling the delegate, with what the
              \* delegate found when it tested the listener; empty if there is none
  incoming,   \* WebRTC: messages of the remote end so far
  missed,     \* history: the last of them that came before the delegate was set
  outgoing    \* WebRTC: messages for the remote end

page  == <<readyState, delivered, sent>>
queue == <<step, replay, listed, attached, listener>>
lost  == <<lostStates, lostMessages>>
webrtc == <<incoming, missed, outgoing>>
vars  == <<received, page, calls, toPage, queue, lost, state, task, webrtc>>

States    == {"connecting", "open", "closing", "closed"}
State(s)   == [type |-> "state", state |-> s]
Message(n) == [type |-> "message", number |-> n]
Op(o)      == [type |-> o, number |-> 0]
SendOp(n)  == [type |-> "send", number |-> n]
CloseOp(n) == [type |-> "close", number |-> n]   \* number: the messages sent before it

StateEvents   == {State(s) : s \in States}
MessageEvents == {Message(n) : n \in 1 .. NMessages}

TypeOK ==
  /\ received \in BOOLEAN
  /\ readyState \in States \cup {"none"}
  /\ delivered \in Seq(1 .. NMessages)
  /\ sent \in 0 .. NSends
  /\ calls \in Seq({Op(o) : o \in {"create", "listen"}} \cup {SendOp(n) : n \in 1 .. NSends}
                   \cup {CloseOp(n) : n \in 0 .. NSends})
  /\ toPage \in Seq(StateEvents \cup MessageEvents
                    \cup [type : {"new", "channel"}, state : States])
  /\ step \in {"idle", "crashed", "announce", "attach", "test", "report", "states",
               "messages"}
  /\ replay \in Seq(StateEvents \cup MessageEvents)
  /\ listed \in BOOLEAN /\ attached \in BOOLEAN /\ listener \in BOOLEAN
  /\ lostStates \in Seq(StateEvents) /\ lostMessages \in Seq(MessageEvents)
  /\ state \in States \cup {"none"}
  /\ task \in {<<>>} \cup {<<t>> : t \in [event : StateEvents \cup MessageEvents,
                                         heard : BOOLEAN]}
  /\ incoming \in 0 .. NMessages /\ missed \in 0 .. incoming
  /\ outgoing \in Seq(1 .. NSends)

\* createDataChannel of the page; or didOpen of the delegate of the connection,
\* which is done when its event is on its way.
Init ==
  /\ delivered = <<>> /\ sent = 0
  /\ step = "idle" /\ replay = <<>>
  /\ listener = FALSE
  /\ lostMessages = <<>>
  /\ task = <<>> /\ incoming = 0 /\ missed = 0 /\ outgoing = <<>>
  /\ \/ /\ received = FALSE
        /\ readyState = "connecting" /\ calls = <<Op("create")>> /\ toPage = <<>>
        /\ listed = FALSE /\ attached = FALSE /\ lostStates = <<>>
        /\ state = "none"
     \/ /\ received = TRUE
        /\ readyState = "none" /\ calls = <<>>
        /\ state \in {"connecting", "open"}
        /\ toPage = <<[type |-> "channel", state |-> state]>>
        /\ listed = TRUE /\ attached = TRUE
        /\ lostStates = IF state = "open" THEN <<State("open")>> ELSE <<>>

(***************************************************************************)
(* The page.                                                               *)
(***************************************************************************)
\* send(): ignored unless the channel is open.
PageSend ==
  /\ readyState = "open" /\ sent < NSends
  /\ sent' = sent + 1
  /\ calls' = Append(calls, SendOp(sent'))
  /\ UNCHANGED <<received, readyState, delivered, toPage, queue, lost, state, task, webrtc>>

\* Faulty: the close overtakes the messages sent before.
PageCloseFirst ==
  /\ readyState \in {"connecting", "open"} /\ step # "crashed"
  /\ readyState' = "closing"
  /\ calls' = <<CloseOp(sent)>> \o calls
  /\ UNCHANGED <<received, delivered, sent, toPage, queue, lost, state, task, webrtc>>

PageClose ==
  /\ readyState \in {"connecting", "open"} /\ step # "crashed"
  /\ readyState' = "closing"
  /\ calls' = Append(calls, CloseOp(sent))
  /\ UNCHANGED <<received, delivered, sent, toPage, queue, lost, state, task, webrtc>>

\* onEvent; the event of a new channel makes the object, which asks for a
\* listener.  Every state replaces that of the page, also one it has closed.
PageEvent ==
  /\ toPage # <<>>
  /\ LET m == Head(toPage) IN
       \/ /\ m.type = "message"
          /\ delivered' = Append(delivered, m.number)
          /\ UNCHANGED <<readyState, calls>>
       \/ /\ m.type # "message"
          /\ readyState' = m.state
          /\ calls' = IF m.type = "channel" THEN Append(calls, Op("listen")) ELSE calls
          /\ UNCHANGED delivered
  /\ toPage' = Tail(toPage)
  /\ UNCHANGED <<received, sent, queue, lost, state, task, webrtc>>

(***************************************************************************)
(* The serial queue of the plugin.                                         *)
(***************************************************************************)
Emit(m) == toPage' = Append(toPage, m)

Begin(op) ==
  /\ step = "idle" /\ calls # <<>> /\ Head(calls).type = op
  /\ calls' = Tail(calls)

\* Faulty: the listener is left to setListener.
CreateUnheard ==
  /\ Begin("create")
  /\ state' = "connecting"
  /\ step' = "announce"
  /\ UNCHANGED <<received, page, toPage, replay, listed, attached, listener, lost, task, webrtc>>

\* init for pc.createDataChannel: the listener is there from the start.
Create ==
  /\ Begin("create")
  /\ listener' = TRUE
  /\ state' = "connecting"
  /\ step' = "announce"
  /\ UNCHANGED <<received, page, toPage, replay, listed, attached, lost, task, webrtc>>

\* There is no channel: init returns, run() unwraps nil and the app ends.
CreateFails ==
  /\ Begin("create")
  /\ step' = "crashed"
  /\ UNCHANGED <<received, page, toPage, replay, listed, attached, listener, lost, state, task,
                 webrtc>>

\* The channel is described as it is by now.
Announce ==
  /\ step = "announce"
  /\ Emit([type |-> "new", state |-> state])
  /\ step' = "attach"
  /\ UNCHANGED <<received, page, calls, replay, listed, attached, listener, lost, state, task,
                 webrtc>>

\* Faulty: run() does not look at the state.
AttachOnly ==
  /\ step = "attach"
  /\ listed' = TRUE /\ attached' = TRUE
  /\ step' = "idle"
  /\ UNCHANGED <<received, page, calls, toPage, replay, listener, lost, state, task, webrtc>>

\* run(): set the delegate, then report the state if it is no longer connecting.
Attach ==
  /\ step = "attach"
  /\ listed' = TRUE /\ attached' = TRUE
  /\ step' = "test"
  /\ UNCHANGED <<received, page, calls, toPage, replay, listener, lost, state, task, webrtc>>

TestState ==
  /\ step = "test"
  /\ \/ state = "connecting" /\ step' = "idle" /\ UNCHANGED replay
     \/ state # "connecting" /\ step' = "report" /\ replay' = <<State(state)>>
  /\ UNCHANGED <<received, page, calls, toPage, listed, attached, listener, lost, state, task,
                 webrtc>>

ReportState ==
  /\ step = "report"
  /\ Emit(Head(replay)) /\ replay' = <<>> /\ step' = "idle"
  /\ UNCHANGED <<received, page, calls, listed, attached, listener, lost, state, task, webrtc>>

\* setListener: each loop runs over the list as it was when the loop began.
SetListener ==
  /\ Begin("listen")
  /\ listener' = TRUE
  /\ step' = "states" /\ replay' = lostStates
  /\ UNCHANGED <<received, page, toPage, listed, attached, lost, state, task, webrtc>>

Replay ==
  /\ step \in {"states", "messages"} /\ replay # <<>>
  /\ Emit(Head(replay)) /\ replay' = Tail(replay)
  /\ UNCHANGED <<received, page, calls, step, listed, attached, listener, lost, state, task,
                 webrtc>>

\* Faulty: the messages are forgotten with the states.
ClearBoth ==
  /\ step = "states" /\ replay = <<>>
  /\ lostStates' = <<>> /\ lostMessages' = <<>>
  /\ step' = "messages" /\ replay' = <<>>
  /\ UNCHANGED <<received, page, calls, toPage, listed, attached, listener, state, task, webrtc>>

ClearStates ==
  /\ step = "states" /\ replay = <<>>
  /\ lostStates' = <<>>
  /\ step' = "messages" /\ replay' = lostMessages
  /\ UNCHANGED <<received, page, calls, toPage, listed, attached, listener, lostMessages, state,
                 task, webrtc>>

\* Faulty: the loop starts over if messages came meanwhile, from the first.
ClearMessagesAgain ==
  /\ step = "messages" /\ replay = <<>>
  /\ \/ /\ lostMessages # <<>> /\ Len(lostMessages) < incoming
        /\ replay' = lostMessages /\ lostMessages' = <<>> /\ UNCHANGED step
     \/ /\ ~ (lostMessages # <<>> /\ Len(lostMessages) < incoming)
        /\ lostMessages' = <<>> /\ step' = "idle" /\ UNCHANGED replay
  /\ UNCHANGED <<received, page, calls, toPage, listed, attached, listener, lostStates, state,
                 task, webrtc>>

ClearMessages ==
  /\ step = "messages" /\ replay = <<>>
  /\ lostMessages' = <<>>
  /\ step' = "idle"
  /\ UNCHANGED <<received, page, calls, toPage, replay, listed, attached, listener, lostStates,
                 state, task, webrtc>>

\* RTCDataChannel_sendString and sendBinary: no channel, or one that is not
\* open, drops the message.
Send ==
  /\ Begin("send")
  /\ outgoing' = IF listed /\ state = "open" THEN Append(outgoing, Head(calls).number)
                 ELSE outgoing
  /\ UNCHANGED <<received, page, toPage, queue, lost, state, task, incoming, missed>>

\* Faulty: the dictionary forgets the channel first.
CloseUnheard ==
  /\ Begin("close") /\ task = <<>>
  /\ state' = IF listed /\ state \in {"connecting", "open"} THEN "closing" ELSE state
  /\ listed' = FALSE /\ attached' = FALSE
  /\ UNCHANGED <<received, page, toPage, step, replay, listener, lost, task, webrtc>>

\* RTCDataChannel_close: WebRTC runs close() on its own thread, the queue waits
\* for it, and the delegate is told that the channel is closing.  Then the
\* dictionary forgets the channel, and with it goes the delegate.
Close ==
  /\ Begin("close") /\ task = <<>>
  /\ IF listed /\ state \in {"connecting", "open"}
     THEN state' = "closing" /\ Emit(State("closing"))
     ELSE UNCHANGED <<state, toPage>>
  /\ listed' = FALSE /\ attached' = FALSE
  /\ UNCHANGED <<received, page, step, replay, listener, lost, task, webrtc>>

(***************************************************************************)
(* The thread of WebRTC.  A delegate method tests the listener and then    *)
(* sends the event or appends it to a list.                                *)
(***************************************************************************)
Tell(m) == task' = IF attached THEN <<[event |-> m, heard |-> listener]>> ELSE <<>>

StateChanges ==
  /\ task = <<>>
  /\ \/ state = "connecting" /\ state' \in {"open", "closed"}
     \/ state = "open" /\ state' \in {"closing", "closed"}
     \/ state = "closing" /\ state' = "closed"
  /\ Tell(State(state'))
  /\ UNCHANGED <<received, page, calls, toPage, queue, lost, webrtc>>

\* A message that finds no delegate is lost.
MessageArrives ==
  /\ task = <<>> /\ state = "open" /\ incoming < NMessages
  /\ incoming' = incoming + 1
  /\ missed' = IF attached THEN missed ELSE incoming'
  /\ Tell(Message(incoming'))
  /\ UNCHANGED <<received, page, calls, toPage, queue, lost, state, outgoing>>

\* Faulty: lost states are kept among the messages.
DelegateMixes ==
  /\ task # <<>>
  /\ task' = <<>>
  /\ \/ Head(task).heard /\ Emit(Head(task).event) /\ UNCHANGED lost
     \/ /\ ~ Head(task).heard
        /\ lostMessages' = Append(lostMessages, Head(task).event)
        /\ UNCHANGED <<toPage, lostStates>>
  /\ UNCHANGED <<received, page, calls, queue, state, webrtc>>

DelegateActs ==
  /\ task # <<>>
  /\ task' = <<>>
  /\ LET m == Head(task).event IN
       \/ Head(task).heard /\ Emit(m) /\ UNCHANGED lost
       \/ /\ ~ Head(task).heard /\ m.type = "state"
          /\ lostStates' = Append(lostStates, m)
          /\ UNCHANGED <<toPage, lostMessages>>
       \/ /\ ~ Head(task).heard /\ m.type = "message"
          /\ lostMessages' = Append(lostMessages, m)
          /\ UNCHANGED <<toPage, lostStates>>
  /\ UNCHANGED <<received, page, calls, queue, state, webrtc>>

QueueStep == \/ Create \/ CreateFails \/ Announce \/ Attach \/ TestState \/ ReportState
             \/ SetListener \/ Replay \/ ClearStates \/ ClearMessages \/ Send \/ Close

Next == PageSend \/ PageClose \/ PageEvent \/ QueueStep
        \/ StateChanges \/ MessageArrives \/ DelegateActs

\* The page, the queue and the delegate do what they are given; neither the
\* remote end nor the application has to do anything.
Fairness == WF_vars(PageEvent) /\ WF_vars(QueueStep) /\ WF_vars(DelegateActs)

Spec == Init /\ [][Next]_vars /\ Fairness

(***************************************************************************)
(* Properties.                                                             *)
(***************************************************************************)
\* No message is dispatched twice, by the delegate and from the list of lost
\* messages, however setListener and the delegate interleave.
DispatchedOnce ==
  \A i, j \in DOMAIN delivered : delivered[i] = delivered[j] => i = j

\* Of the messages on a channel that the page made, those that come before run()
\* has set the delegate are lost.  Of the others none is, and none overtakes
\* another, on whichever thread it gets to the page.
CreatedInOrder ==
  ~ received =>
    LET told  == [i \in DOMAIN task |-> task[i].event]
        first == missed + Len(delivered) + 1 IN
      /\ missed + Len(delivered) <= incoming
      /\ \A i \in DOMAIN delivered : delivered[i] = missed + i
      /\ Ascends(toPage, "message")
      /\ Precede(Numbers(toPage, "message"), Numbers(told, "message"))
      /\ Numbers(toPage, "message") \cup Numbers(told, "message") = first .. incoming

\* The remote end gets what the page sent, in order and without a gap.  Until
\* WebRTC closes the channel all of it has been sent or waits to be; and no
\* message waits behind a close that the page called later, so that its own close
\* loses none.
SentWithoutGaps ==
  /\ \A i \in DOMAIN outgoing : outgoing[i] = i
  /\ state \notin {"closing", "closed"} => Numbers(calls, "send") = Len(outgoing) + 1 .. sent
  /\ \A i, j \in DOMAIN calls :
       i < j /\ calls[i].type = "close" /\ calls[j].type = "send"
         => calls[i].number < calls[j].number

\* A message that was kept before setListener began is dispatched.
KeptAreReplayed ==
  \A n \in 1 .. NMessages :
    (~ listener /\ Message(n) \in Members(lostMessages)) ~> n \in Members(delivered)

\* The page learns that a channel it made is open, also if that happened while
\* the channel was being set up, unless it is closed.
OpenIsLearned ==
  (~ received /\ state = "open") ~> readyState = "open" \/ state # "open"

\* A channel that the page closes may look open to it again when an older event
\* arrives, but in the end it stays closed; unless WebRTC has closed the channel by
\* itself and an older state, reported by run() or setListener, overtaken by that
\* closing, is the last news of it.  Then it looks open for ever.
IsClosing == \E c \in Members(calls) : c.type = "close"
News      == [m \in {n \in Members(toPage) : n.type # "message"} |-> m.state]
StaleNews ==
  /\ step = "idle" /\ calls # <<>> /\ Head(calls).type = "close"
  /\ task = <<>> /\ state \in {"closing", "closed"}
  /\ \E s \in {"connecting", "open"} : Lands(readyState, toPage, News, s)
CloseSticks == IsClosing ~> [](readyState \in {"closing", "closed"}) \/ StaleNews
=============================================================================
