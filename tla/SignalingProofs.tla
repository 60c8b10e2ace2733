-------------------------- MODULE SignalingProofs --------------------------
(***************************************************************************)
(* Proofs about Signaling.  The types hold for any users, calls and bounds. *)
(* That the two ends of a call get each other's descriptions and candidates *)
(* and follow OfferAnswer needs an application that places one call between *)
(* two users and does not negotiate it again, because messages name users   *)
(* and not connections.                                                     *)
(***************************************************************************)
EXTENDS Signaling, QueueProofs, FiniteSetTheorems

\* Tasks that do one of dos, and the offers among the messages.
KeyOf(dos) == [t \in {s \in Task : s.do \in dos} |-> 0]
Offered    == [m \in {n \in Message : n.type = "offer"} |-> 0]
Dos(q)     == {t.do : t \in Members(q)}

Starts  == {"createOffer", "setLocalOffer"}
Answers == {"createAnswer", "setLocalAnswer"}

\* sendOffer of c has not run yet.
Calling(c) == "call" \in Dos(todo[c]) \cup Dos(onPage[c])

\* A session lists its own connections.
Lists ==
  /\ \A u \in Users : \A c \in list[u] : c \in Made /\ user[c] = u
  /\ \A c \in Made : user[c] \in Users /\ peer[c] \in Users

\* Nothing happens to a connection before it is made.
Blank(c) ==
  c \notin Made =>
    /\ todo[c] = <<>> /\ onPage[c] = <<>> /\ c \notin open /\ c \notin awaiting
    /\ sig[c] = "stable" /\ remote[c] = None /\ offers[c] = 0

\* What waits for the page, and what a peer connection is given before it is there.
Paged(c) ==
  /\ c \in open => onPage[c] = <<>>
  /\ c \notin open => "call" \notin Dos(todo[c])
  /\ Dos(onPage[c]) \subseteq {"call", "answer"}
  /\ Once(todo[c], KeyOf({"call"})) /\ Once(onPage[c], KeyOf({"call"}))

\* Only callers call, only callees answer.
RoleTasks(c) ==
  /\ role[c] = "caller" => "offer" \notin Dos(todo[c]) /\ Dos(todo[c]) \cap Answers = {}
  /\ role[c] = "callee" => ~Calling(c)

\* Until its stream is there a caller has made no offer, and so has no answer.
Counts(c) ==
  /\ Calling(c) => c \notin awaiting
  /\ role[c] = "caller" /\ (Calling(c) \/ c \in awaiting) =>
       offers[c] = 0 /\ sig[c] = "stable" /\ remote[c] = None /\ Dos(todo[c]) \cap Starts = {}
  /\ offers[c] <= MaxRenegotiate + IF role[c] = "caller" THEN 1 ELSE 0

Sound(c) == Blank(c) /\ Paged(c) /\ RoleTasks(c) /\ Counts(c)

General == TypeOK /\ Lists /\ \A c \in Conn : Sound(c)

-----------------------------------------------------------------------------
(* Queues of tasks.                                                         *)

LEMMA NoTasks == Dos(<<>>) = {} /\ \A D : Once(<<>>, KeyOf(D))
BY EmptyQueue, NoKeys DEF Dos

LEMMA TasksTyped ==
  ASSUME NEW q \in Seq(Task)
  PROVE  /\ Members(q) \subseteq Task
         /\ \A t \in Members(q) : t.do \in Dos(q)
         /\ \A d \in Dos(q) : \E t \in Members(q) : t.do = d
BY MembersType DEF Dos

LEMMA KeysAreDos ==
  ASSUME NEW q \in Seq(Task), NEW D
  PROVE  Keys(q, KeyOf(D)) = {} <=> Dos(q) \cap D = {}
<1>1. DOMAIN KeyOf(D) = {s \in Task : s.do \in D}
  BY DEF KeyOf
<1>2. Members(q) \subseteq Task
  BY MembersType
<1>3. QED
  BY <1>1, <1>2 DEF Keys, Dos

LEMMA TaskTaken ==
  ASSUME NEW q \in Seq(Task), q # <<>>
  PROVE  /\ Tail(q) \in Seq(Task) /\ Head(q) \in Task
         /\ Members(q) = Members(Tail(q)) \cup {Head(q)}
         /\ Dos(q) = Dos(Tail(q)) \cup {Head(q).do}
         /\ \A D : Once(q, KeyOf(D)) =>
              Once(Tail(q), KeyOf(D)) /\ (Head(q).do \in D => Dos(Tail(q)) \cap D = {})
<1>1. /\ Tail(q) \in Seq(Task) /\ Head(q) \in Task
      /\ Members(q) = Members(Tail(q)) \cup {Head(q)}
  BY TailMembers
<1>2. Dos(q) = Dos(Tail(q)) \cup {Head(q).do}
  BY <1>1 DEF Dos
<1>3. ASSUME NEW D, Once(q, KeyOf(D))
      PROVE  Once(Tail(q), KeyOf(D)) /\ (Head(q).do \in D => Dos(Tail(q)) \cap D = {})
  <2>1. Once(Tail(q), KeyOf(D))
    BY <1>3, TailOnce
  <2>2. Head(q) \in DOMAIN KeyOf(D) => KeyOf(D)[Head(q)] \notin Keys(Tail(q), KeyOf(D))
    BY <1>3, TailOnce
  <2>3. ASSUME Head(q).do \in D PROVE Dos(Tail(q)) \cap D = {}
    <3>1. Head(q) \in DOMAIN KeyOf(D)
      BY <1>1, <2>3 DEF KeyOf
    <3>2. Keys(Tail(q), KeyOf(D)) \subseteq {0} /\ KeyOf(D)[Head(q)] = 0
      BY <3>1 DEF Keys, KeyOf
    <3>3. Keys(Tail(q), KeyOf(D)) = {}
      BY <2>2, <3>1, <3>2
    <3>4. QED
      BY <1>1, <3>3, KeysAreDos
  <2>4. QED
    BY <2>1, <2>3
<1>4. QED
  BY <1>1, <1>2, <1>3

LEMMA TaskAdded ==
  ASSUME NEW q \in Seq(Task), NEW t \in Task
  PROVE  /\ Append(q, t) \in Seq(Task)
         /\ Members(Append(q, t)) = Members(q) \cup {t}
         /\ Dos(Append(q, t)) = Dos(q) \cup {t.do}
         /\ \A D : Once(q, KeyOf(D)) /\ (t.do \in D => Dos(q) \cap D = {}) =>
              Once(Append(q, t), KeyOf(D))
<1>1. Append(q, t) \in Seq(Task) /\ Members(Append(q, t)) = Members(q) \cup {t}
  BY AppendMembers
<1>2. Dos(Append(q, t)) = Dos(q) \cup {t.do}
  BY <1>1 DEF Dos
<1>3. ASSUME NEW D, Once(q, KeyOf(D)), t.do \in D => Dos(q) \cap D = {}
      PROVE  Once(Append(q, t), KeyOf(D))
  <2>1. t \in DOMAIN KeyOf(D) => KeyOf(D)[t] \notin Keys(q, KeyOf(D))
    <3>1. t \in DOMAIN KeyOf(D) => t.do \in D
      BY DEF KeyOf
    <3>2. Dos(q) \cap D = {} => Keys(q, KeyOf(D)) = {}
      BY KeysAreDos
    <3>3. QED
      BY <1>3, <3>1, <3>2
  <2>2. QED
    BY <1>3, <2>1, AppendOnce
<1>4. QED
  BY <1>1, <1>2, <1>3

LEMMA TasksJoined ==
  ASSUME NEW q \in Seq(Task), NEW r \in Seq(Task)
  PROVE  /\ q \o r \in Seq(Task)
         /\ Members(q \o r) = Members(q) \cup Members(r)
         /\ Dos(q \o r) = Dos(q) \cup Dos(r)
         /\ \A D : Once(q, KeyOf(D)) /\ Once(r, KeyOf(D)) /\ (Dos(q) \cap D = {} \/ Dos(r) \cap D = {}) =>
              Once(q \o r, KeyOf(D))
<1>1. q \o r \in Seq(Task) /\ Members(q \o r) = Members(q) \cup Members(r)
  BY ConcatMembers
<1>2. Dos(q \o r) = Dos(q) \cup Dos(r)
  BY <1>1 DEF Dos
<1>3. ASSUME NEW D, Once(q, KeyOf(D)), Once(r, KeyOf(D)), Dos(q) \cap D = {} \/ Dos(r) \cap D = {}
      PROVE  Once(q \o r, KeyOf(D))
  <2>1. Keys(q, KeyOf(D)) = {} \/ Keys(r, KeyOf(D)) = {}
    BY <1>3, KeysAreDos
  <2>2. QED
    BY <1>3, <2>1, ConcatOnce
<1>4. QED
  BY <1>1, <1>2, <1>3

LEMMA TasksMade ==
  /\ \A what \in {"call"} \cup Starts \cup Answers : Do(what) \in Task /\ Do(what).do = what
  /\ \A m \in Message : Handle(m) \in Task /\ Handle(m).do = m.type
       /\ Handle(m).from = m.from
  /\ \A t \in Task : t.do \in {"offer", "answer", "candidate"} => t.from \in Conn
BY DEF Do, Handle, Task, Message, Starts, Answers

-----------------------------------------------------------------------------
(* What every action has in common.                                         *)

\* A connection of which nothing changes.
Untouched(d) ==
  /\ user'[d] = user[d] /\ role'[d] = role[d]
  /\ todo'[d] = todo[d] /\ onPage'[d] = onPage[d]
  /\ d \in open' <=> d \in open
  /\ d \in awaiting' <=> d \in awaiting
  /\ sig'[d] = sig[d] /\ remote'[d] = remote[d] /\ offers'[d] = offers[d]

LEMMA UntouchedSound ==
  ASSUME NEW d \in Conn, Sound(d), Untouched(d)
  PROVE  Sound(d)'
<1>1. d \in Made' <=> d \in Made
  BY DEF Untouched, Made
<1>2. Calling(d)' <=> Calling(d)
  BY DEF Calling, Untouched
<1>3. Blank(d)' /\ Paged(d)' /\ RoleTasks(d)'
  BY <1>1, <1>2 DEF Sound, Blank, Paged, RoleTasks, Untouched
<1>4. Counts(d)'
  BY <1>2 DEF Sound, Counts, Untouched
<1>5. QED
  BY <1>3, <1>4 DEF Sound

LEMMA OwnLists ==
  ASSUME Lists, UNCHANGED own
  PROVE  Lists' /\ Made' = Made
BY DEF Lists, own, Made

LEMMA SendTyped ==
  ASSUME TypeOK, NEW c \in Conn, NEW type \in {"offer", "answer", "candidate"},
         NEW re \in Conn \cup {None}
  PROVE  Send(c, type, re) \in [Users \X Users -> Seq(Message)]
<1> DEFINE m == [type |-> type, from |-> c, re |-> re]
<1>1. m \in Message
  BY DEF Message
<1>2. \A pair \in Users \X Users : Append(net[pair], m) \in Seq(Message)
  BY <1>1, AppendMembers DEF TypeOK
<1> HIDE DEF m
<1>3. [net EXCEPT ![<<user[c], peer[c]>>] = Append(@, m)] \in [Users \X Users -> Seq(Message)]
  BY <1>2 DEF TypeOK
<1>4. QED
  BY <1>3 DEF Send, m

\* Whether t waits for the page of c.
Waits(c, t) == c \notin open /\ t.do \in {"call", "answer"}

LEMMA Handed ==
  ASSUME TypeOK, NEW cs, NEW t \in Task, HandTo(cs, t)
  PROVE  /\ todo' \in [Conn -> Seq(Task)] /\ onPage' \in [Conn -> Seq(Task)]
         /\ \A c \in Conn :
              /\ todo'[c] = IF c \in cs /\ ~Waits(c, t) THEN Append(todo[c], t) ELSE todo[c]
              /\ onPage'[c] = IF c \in cs /\ Waits(c, t) THEN Append(onPage[c], t) ELSE onPage[c]
<1>1. \A c \in Conn : Append(todo[c], t) \in Seq(Task) /\ Append(onPage[c], t) \in Seq(Task)
  BY TaskAdded DEF TypeOK
<1>2. QED
  BY <1>1 DEF HandTo, Waits, TypeOK

(* The queue of one connection loses its first task, or gains a last one.   *)
LEMMA Dequeued ==
  ASSUME TypeOK, NEW c \in Conn, todo[c] # <<>>, todo' = [todo EXCEPT ![c] = Tail(@)]
  PROVE  /\ todo' \in [Conn -> Seq(Task)] /\ Head(todo[c]) \in Task
         /\ todo'[c] = Tail(todo[c]) /\ (\A d \in Conn \ {c} : todo'[d] = todo[d])
         /\ Members(todo[c]) = Members(todo'[c]) \cup {Head(todo[c])}
         /\ Dos(todo[c]) = Dos(todo'[c]) \cup {Head(todo[c]).do}
         /\ \A D : Once(todo[c], KeyOf(D)) =>
              Once(todo'[c], KeyOf(D)) /\ (Head(todo[c]).do \in D => Dos(todo'[c]) \cap D = {})
<1>1. todo[c] \in Seq(Task)
  BY DEF TypeOK
<1>2. Tail(todo[c]) \in Seq(Task)
  BY <1>1, TaskTaken
<1>3. todo'[c] = Tail(todo[c]) /\ todo' \in [Conn -> Seq(Task)]
      /\ \A d \in Conn \ {c} : todo'[d] = todo[d]
  BY <1>2 DEF TypeOK
<1>4. QED
  BY <1>1, <1>3, TaskTaken

LEMMA Replaced ==
  ASSUME TypeOK, NEW c \in Conn, todo[c] # <<>>, NEW t \in Task,
         todo' = [todo EXCEPT ![c] = Append(Tail(@), t)]
  PROVE  /\ todo' \in [Conn -> Seq(Task)] /\ Head(todo[c]) \in Task
         /\ todo'[c] = Append(Tail(todo[c]), t) /\ (\A d \in Conn \ {c} : todo'[d] = todo[d])
         /\ Tail(todo[c]) \in Seq(Task)
         /\ Members(todo'[c]) \cup {Head(todo[c])} = Members(todo[c]) \cup {t}
         /\ Dos(todo'[c]) \cup {Head(todo[c]).do} = Dos(todo[c]) \cup {t.do}
         /\ \A D : Once(todo[c], KeyOf(D)) /\ (t.do \in D => Head(todo[c]).do \in D) =>
              Once(todo'[c], KeyOf(D))
<1>1. todo[c] \in Seq(Task)
  BY DEF TypeOK
<1> DEFINE q == Tail(todo[c])
<1>2. /\ q \in Seq(Task) /\ Head(todo[c]) \in Task
      /\ Members(todo[c]) = Members(q) \cup {Head(todo[c])}
      /\ Dos(todo[c]) = Dos(q) \cup {Head(todo[c]).do}
      /\ \A D : Once(todo[c], KeyOf(D)) =>
           Once(q, KeyOf(D)) /\ (Head(todo[c]).do \in D => Dos(q) \cap D = {})
  BY <1>1, TaskTaken
<1>3. todo' = [todo EXCEPT ![c] = Append(q, t)]
  OBVIOUS
<1> HIDE DEF q
<1>4. /\ Append(q, t) \in Seq(Task)
      /\ Members(Append(q, t)) = Members(q) \cup {t}
      /\ Dos(Append(q, t)) = Dos(q) \cup {t.do}
      /\ \A D : Once(q, KeyOf(D)) /\ (t.do \in D => Dos(q) \cap D = {}) =>
           Once(Append(q, t), KeyOf(D))
  BY <1>2, TaskAdded
<1>5. todo'[c] = Append(q, t) /\ todo' \in [Conn -> Seq(Task)]
      /\ \A d \in Conn \ {c} : todo'[d] = todo[d]
  BY <1>3, <1>4 DEF TypeOK
<1>6. \A D : Once(todo[c], KeyOf(D)) /\ (t.do \in D => Head(todo[c]).do \in D) =>
        Once(todo'[c], KeyOf(D))
  BY <1>2, <1>4, <1>5
<1>7. Members(todo'[c]) \cup {Head(todo[c])} = Members(todo[c]) \cup {t}
      /\ Dos(todo'[c]) \cup {Head(todo[c]).do} = Dos(todo[c]) \cup {t.do}
  BY <1>2, <1>4, <1>5
<1>8. QED
  BY <1>2, <1>5, <1>6, <1>7 DEF q

LEMMA Enqueued ==
  ASSUME TypeOK, NEW c \in Conn, NEW t \in Task, todo' = [todo EXCEPT ![c] = Append(@, t)]
  PROVE  /\ todo' \in [Conn -> Seq(Task)]
         /\ todo'[c] = Append(todo[c], t) /\ (\A d \in Conn \ {c} : todo'[d] = todo[d])
         /\ Members(todo'[c]) = Members(todo[c]) \cup {t}
         /\ Dos(todo'[c]) = Dos(todo[c]) \cup {t.do}
         /\ \A D : Once(todo[c], KeyOf(D)) /\ (t.do \in D => Dos(todo[c]) \cap D = {}) =>
              Once(todo'[c], KeyOf(D))
<1>1. todo[c] \in Seq(Task)
  BY DEF TypeOK
<1>2. Append(todo[c], t) \in Seq(Task)
  BY <1>1, TaskAdded
<1>3. todo'[c] = Append(todo[c], t) /\ todo' \in [Conn -> Seq(Task)]
      /\ \A d \in Conn \ {c} : todo'[d] = todo[d]
  BY <1>2 DEF TypeOK
<1>4. QED
  BY <1>1, <1>3, TaskAdded

LEMMA EnqueuedDo ==
  ASSUME TypeOK, NEW c \in Conn, NEW what \in {"call"} \cup Starts \cup Answers,
         todo' = [todo EXCEPT ![c] = Append(@, Do(what))]
  PROVE  /\ todo' \in [Conn -> Seq(Task)] /\ (\A d \in Conn \ {c} : todo'[d] = todo[d])
         /\ todo'[c] = Append(todo[c], Do(what)) /\ Do(what) \in Task /\ Do(what).do = what
         /\ Members(todo'[c]) = Members(todo[c]) \cup {Do(what)}
         /\ Dos(todo'[c]) = Dos(todo[c]) \cup {what}
         /\ \A D : Once(todo[c], KeyOf(D)) /\ (what \in D => Dos(todo[c]) \cap D = {}) =>
              Once(todo'[c], KeyOf(D))
<1> DEFINE t == Do(what)
<1>1. t \in Task /\ t.do = what
  BY TasksMade
<1>2. todo' = [todo EXCEPT ![c] = Append(@, t)]
  OBVIOUS
<1> HIDE DEF t
<1>3. /\ todo' \in [Conn -> Seq(Task)] /\ todo'[c] = Append(todo[c], t)
      /\ \A d \in Conn \ {c} : todo'[d] = todo[d]
      /\ Members(todo'[c]) = Members(todo[c]) \cup {t}
      /\ Dos(todo'[c]) = Dos(todo[c]) \cup {t.do}
      /\ \A D : Once(todo[c], KeyOf(D)) /\ (t.do \in D => Dos(todo[c]) \cap D = {}) =>
              Once(todo'[c], KeyOf(D))
  BY <1>1, <1>2, Enqueued
<1>4. Dos(todo'[c]) = Dos(todo[c]) \cup {what}
  BY <1>1, <1>3
<1>5. \A D : Once(todo[c], KeyOf(D)) /\ (what \in D => Dos(todo[c]) \cap D = {}) =>
              Once(todo'[c], KeyOf(D))
  BY <1>1, <1>3
<1>6. QED
  BY <1>1, <1>3, <1>4, <1>5 DEF t

LEMMA ReplacedDo ==
  ASSUME TypeOK, NEW c \in Conn, todo[c] # <<>>, NEW what \in Starts \cup Answers,
         todo' = [todo EXCEPT ![c] = Append(Tail(@), Do(what))]
  PROVE  /\ todo' \in [Conn -> Seq(Task)] /\ (\A d \in Conn \ {c} : todo'[d] = todo[d])
         /\ Head(todo[c]) \in Task /\ Tail(todo[c]) \in Seq(Task)
         /\ todo'[c] = Append(Tail(todo[c]), Do(what)) /\ Do(what) \in Task /\ Do(what).do = what
         /\ Members(todo'[c]) \cup {Head(todo[c])} = Members(todo[c]) \cup {Do(what)}
         /\ Dos(todo'[c]) \cup {Head(todo[c]).do} = Dos(todo[c]) \cup {what}
         /\ \A D : Once(todo[c], KeyOf(D)) /\ (what \in D => Head(todo[c]).do \in D) =>
              Once(todo'[c], KeyOf(D))
<1> DEFINE t == Do(what)
<1>1. t \in Task /\ t.do = what
  BY TasksMade
<1>2. todo' = [todo EXCEPT ![c] = Append(Tail(@), t)]
  OBVIOUS
<1> HIDE DEF t
<1>3. /\ todo' \in [Conn -> Seq(Task)] /\ todo'[c] = Append(Tail(todo[c]), t)
      /\ \A d \in Conn \ {c} : todo'[d] = todo[d]
      /\ Head(todo[c]) \in Task /\ Tail(todo[c]) \in Seq(Task)
      /\ Members(todo'[c]) \cup {Head(todo[c])} = Members(todo[c]) \cup {t}
      /\ Dos(todo'[c]) \cup {Head(todo[c]).do} = Dos(todo[c]) \cup {t.do}
      /\ \A D : Once(todo[c], KeyOf(D)) /\ (t.do \in D => Head(todo[c]).do \in D) =>
              Once(todo'[c], KeyOf(D))
  BY <1>1, <1>2, Replaced
<1>4. Dos(todo'[c]) \cup {Head(todo[c]).do} = Dos(todo[c]) \cup {what}
  BY <1>1, <1>3
<1>5. \A D : Once(todo[c], KeyOf(D)) /\ (what \in D => Head(todo[c]).do \in D) =>
              Once(todo'[c], KeyOf(D))
  BY <1>1, <1>3
<1>6. QED
  BY <1>1, <1>3, <1>4, <1>5 DEF t

-----------------------------------------------------------------------------
(* The types, whatever the users do.                                        *)

LEMMA InitGeneral == ASSUME Init PROVE General
<1>1. MaxCandidates \in Nat /\ MaxRenegotiate \in Nat
  BY SignalingAssumption
<1>2. <<>> \in Seq(Task) /\ <<>> \in Seq(Message)
  BY EmptySeq
<1>3. TypeOK
  BY <1>1, <1>2 DEF Init, TypeOK, Roles, Sigs, Camera, None
<1>4. Made = {}
  BY DEF Init, Made
<1>5. Lists
  BY <1>4 DEF Init, Lists
<1>6. \A c \in Conn : Sound(c)
  BY <1>1, NoTasks DEF Init, Sound, Blank, Paged, RoleTasks, Counts, Calling
<1>7. QED
  BY <1>3, <1>5, <1>6 DEF General

LEMMA OpenGeneral ==
  ASSUME General, NEW c \in Conn, Open(c)
  PROVE  General'
<1>1. TypeOK /\ Sound(c) /\ todo[c] \in Seq(Task) /\ onPage[c] \in Seq(Task)
      /\ c \in Made /\ c \notin open /\ Lists
  BY DEF General, TypeOK, Open
<1>2. /\ todo[c] \o onPage[c] \in Seq(Task)
      /\ Dos(todo[c] \o onPage[c]) = Dos(todo[c]) \cup Dos(onPage[c])
      /\ \A D : Once(todo[c], KeyOf(D)) /\ Once(onPage[c], KeyOf(D))
                /\ (Dos(todo[c]) \cap D = {} \/ Dos(onPage[c]) \cap D = {}) =>
              Once(todo[c] \o onPage[c], KeyOf(D))
  BY <1>1, TasksJoined
<1>3. /\ todo' \in [Conn -> Seq(Task)] /\ todo'[c] = todo[c] \o onPage[c]
      /\ \A d \in Conn \ {c} : todo'[d] = todo[d]
  BY <1>1, <1>2 DEF TypeOK, Open
<1>4. /\ onPage' \in [Conn -> Seq(Task)] /\ onPage'[c] = <<>>
      /\ \A d \in Conn \ {c} : onPage'[d] = onPage[d]
  BY <1>1, EmptySeq DEF TypeOK, Open
<1>5. TypeOK'
  BY <1>1, <1>3, <1>4 DEF TypeOK, Open, own, page
<1>6. Lists' /\ Made' = Made
  BY <1>1, OwnLists DEF Open
<1>7. ASSUME NEW d \in Conn \ {c} PROVE Sound(d)'
  <2>1. Untouched(d)
    BY <1>3, <1>4 DEF Untouched, Open, own, page
  <2>2. QED
    BY <2>1, UntouchedSound DEF General
<1>8. Sound(c)'
  <2>1. Dos(todo'[c]) = Dos(todo[c]) \cup Dos(onPage[c]) /\ Dos(onPage'[c]) = {}
    BY <1>2, <1>3, <1>4, NoTasks
  <2>2. Calling(c)' <=> Calling(c)
    BY <2>1 DEF Calling
  <2>3. Blank(c)'
    BY <1>1, <1>6 DEF Blank
  <2>4. Once(todo'[c], KeyOf({"call"})) /\ Once(onPage'[c], KeyOf({"call"}))
    <3>1. Dos(todo[c]) \cap {"call"} = {}
      BY <1>1 DEF Sound, Paged
    <3>2. QED
      BY <1>1, <1>2, <1>3, <1>4, <3>1, NoTasks DEF Sound, Paged
  <2>5. Paged(c)'
    BY <1>1, <1>4, <2>1, <2>4 DEF Paged, Open
  <2>6. RoleTasks(c)'
    BY <1>1, <2>1, <2>2 DEF Sound, RoleTasks, Paged, Open, own, Answers
  <2>7. Counts(c)'
    BY <1>1, <2>1, <2>2 DEF Sound, Counts, Paged, Open, own, page, Starts
  <2>8. QED
    BY <2>3, <2>5, <2>6, <2>7 DEF Sound
<1>9. QED
  BY <1>5, <1>6, <1>7, <1>8 DEF General

LEMMA CameraGeneral ==
  ASSUME General, NEW u \in Users, CameraAnswers(u)
  PROVE  General'
<1>1. TypeOK'
  BY DEF General, TypeOK, CameraAnswers, own, page, Camera
<1>2. Lists' /\ Made' = Made
  BY OwnLists DEF General, CameraAnswers
<1>3. \A d \in Conn : Untouched(d)
  BY DEF Untouched, CameraAnswers, own, page
<1>4. QED
  BY <1>1, <1>2, <1>3, UntouchedSound DEF General

LEMMA StreamGeneral ==
  ASSUME General, NEW c \in Conn, StreamAnswers(c)
  PROVE  General'
<1>1. TypeOK /\ Sound(c) /\ Lists /\ c \in awaiting /\ c \in Made
      /\ user' = user /\ role' = role /\ open' = open /\ onPage' = onPage
      /\ sig' = sig /\ remote' = remote /\ awaiting' = awaiting \ {c} /\ UNCHANGED own
  BY DEF General, StreamAnswers, own, Sound, Blank
<1>2. Lists' /\ Made' = Made
  BY <1>1, OwnLists
<1>3. CASE UNCHANGED <<todo, offers>> /\ denied' = denied \cup {c}
  <2>1. TypeOK'
    BY <1>1, <1>3 DEF TypeOK, StreamAnswers, own
  <2>2. \A d \in Conn \ {c} : Untouched(d)
    BY <1>1, <1>3 DEF Untouched
  <2>3. Sound(c)'
    BY <1>1, <1>2, <1>3 DEF Sound, Blank, Paged, RoleTasks, Counts, Calling
  <2>4. QED
    BY <1>2, <2>1, <2>2, <2>3, UntouchedSound DEF General
<1>4. CASE /\ role[c] = "callee" /\ UNCHANGED <<offers, denied>>
           /\ todo' = [todo EXCEPT ![c] = Append(@, Do("createAnswer"))]
  <2>1. "createAnswer" \in {"call"} \cup Starts \cup Answers
    BY DEF Answers
  <2>2. /\ todo' \in [Conn -> Seq(Task)] /\ (\A d \in Conn \ {c} : todo'[d] = todo[d])
        /\ Dos(todo'[c]) = Dos(todo[c]) \cup {"createAnswer"}
        /\ \A D : Once(todo[c], KeyOf(D)) /\ "createAnswer" \notin D => Once(todo'[c], KeyOf(D))
    BY <1>1, <1>4, <2>1, EnqueuedDo
  <2>3. TypeOK'
    BY <1>1, <1>4, <2>2 DEF TypeOK, StreamAnswers, own
  <2>4. \A d \in Conn \ {c} : Untouched(d)
    BY <1>1, <1>4, <2>2 DEF Untouched
  <2>5. Once(todo'[c], KeyOf({"call"}))
    BY <1>1, <2>2 DEF Sound, Paged
  <2>6. Blank(c)' /\ Paged(c)' /\ RoleTasks(c)' /\ Counts(c)'
    BY <1>1, <1>2, <1>4, <2>2, <2>5 DEF Sound, Blank, Paged, RoleTasks, Counts, Calling
  <2>7. QED
    BY <1>2, <2>3, <2>4, <2>6, UntouchedSound DEF General, Sound
<1>5. CASE /\ role[c] = "caller" /\ UNCHANGED denied /\ offers' = [offers EXCEPT ![c] = @ + 1]
           /\ todo' = [todo EXCEPT ![c] = Append(@, Do("createOffer"))]
  <2>1. "createOffer" \in {"call"} \cup Starts \cup Answers
    BY DEF Starts
  <2>2. /\ todo' \in [Conn -> Seq(Task)] /\ (\A d \in Conn \ {c} : todo'[d] = todo[d])
        /\ Dos(todo'[c]) = Dos(todo[c]) \cup {"createOffer"}
        /\ \A D : Once(todo[c], KeyOf(D)) /\ "createOffer" \notin D => Once(todo'[c], KeyOf(D))
    BY <1>1, <1>5, <2>1, EnqueuedDo
  <2>3. offers[c] = 0 /\ MaxRenegotiate \in Nat /\ ~Calling(c)
    BY <1>1, <1>5, SignalingAssumption DEF Sound, Counts
  <2>4. offers' \in [Conn -> 0 .. MaxRenegotiate + 1] /\ offers'[c] = 1
        /\ \A d \in Conn \ {c} : offers'[d] = offers[d]
    BY <1>1, <1>5, <2>3 DEF TypeOK
  <2>5. TypeOK'
    BY <1>1, <1>5, <2>2, <2>4 DEF TypeOK, StreamAnswers, own
  <2>6. \A d \in Conn \ {c} : Untouched(d)
    BY <1>1, <1>5, <2>2, <2>4 DEF Untouched
  <2>7. Once(todo'[c], KeyOf({"call"}))
    BY <1>1, <2>2 DEF Sound, Paged
  <2>8. ~Calling(c)'
    BY <1>1, <2>2, <2>3 DEF Calling
  <2>9. Blank(c)' /\ Paged(c)' /\ RoleTasks(c)'
    BY <1>1, <1>2, <1>5, <2>2, <2>7, <2>8 DEF Sound, Blank, Paged, RoleTasks, Answers
  <2>10. Counts(c)'
    BY <1>1, <1>5, <2>3, <2>4, <2>8 DEF Counts
  <2>11. QED
    BY <1>2, <2>5, <2>6, <2>9, <2>10, UntouchedSound DEF General, Sound
<1>6. QED
  BY <1>3, <1>4, <1>5 DEF StreamAnswers

LEMMA NegotiationGeneral ==
  ASSUME General, NEW c \in Conn, NegotiationNeeded(c)
  PROVE  General'
<1>1. TypeOK /\ Sound(c) /\ Lists /\ c \in open /\ c \in Made /\ remote[c] # None
      /\ user' = user /\ role' = role /\ open' = open /\ onPage' = onPage /\ awaiting' = awaiting
      /\ sig' = sig /\ remote' = remote /\ UNCHANGED own
      /\ offers' = [offers EXCEPT ![c] = @ + 1]
      /\ todo' = [todo EXCEPT ![c] = Append(@, Do("createOffer"))]
  BY DEF General, NegotiationNeeded, own, Sound, Blank
<1>2. Lists' /\ Made' = Made
  BY <1>1, OwnLists
<1>3. "createOffer" \in {"call"} \cup Starts \cup Answers
  BY DEF Starts
<1>4. /\ todo' \in [Conn -> Seq(Task)] /\ (\A d \in Conn \ {c} : todo'[d] = todo[d])
      /\ Dos(todo'[c]) = Dos(todo[c]) \cup {"createOffer"}
      /\ \A D : Once(todo[c], KeyOf(D)) /\ "createOffer" \notin D => Once(todo'[c], KeyOf(D))
  BY <1>1, <1>3, EnqueuedDo
<1>5. /\ MaxRenegotiate \in Nat /\ offers[c] \in Nat
      /\ offers[c] + 1 <= MaxRenegotiate + IF role[c] = "caller" THEN 1 ELSE 0
  BY <1>1, SignalingAssumption DEF NegotiationNeeded, TypeOK
<1>6. offers' \in [Conn -> 0 .. MaxRenegotiate + 1] /\ offers'[c] = offers[c] + 1
      /\ \A d \in Conn \ {c} : offers'[d] = offers[d]
  BY <1>1, <1>5 DEF TypeOK
<1>7. TypeOK'
  BY <1>1, <1>4, <1>6 DEF TypeOK, NegotiationNeeded, own
<1>8. \A d \in Conn \ {c} : Untouched(d)
  BY <1>1, <1>4, <1>6 DEF Untouched
<1>9. Once(todo'[c], KeyOf({"call"}))
  BY <1>1, <1>4 DEF Sound, Paged
<1>10. Calling(c)' <=> Calling(c)
  BY <1>1, <1>4 DEF Calling
<1>11. Blank(c)' /\ Paged(c)' /\ RoleTasks(c)'
  BY <1>1, <1>2, <1>4, <1>9, <1>10 DEF Sound, Blank, Paged, RoleTasks, Answers
<1>12. Counts(c)'
  BY <1>1, <1>5, <1>6, <1>10 DEF Sound, Counts
<1>13. QED
  BY <1>2, <1>7, <1>8, <1>11, <1>12, UntouchedSound DEF General, Sound

LEMMA FoundGeneral ==
  ASSUME General, NEW c \in Conn, FindCandidate(c)
  PROVE  General'
<1>1. TypeOK /\ Lists /\ net' = Send(c, "candidate", None) /\ UNCHANGED own
  BY DEF General, FindCandidate
<1>2. net' \in [Users \X Users -> Seq(Message)]
  BY <1>1, SendTyped
<1>3. MaxCandidates \in Nat /\ found[c] < MaxCandidates
  BY SignalingAssumption DEF FindCandidate
<1>4. found' \in [Conn -> 0 .. MaxCandidates]
  BY <1>1, <1>3 DEF TypeOK, FindCandidate
<1>5. TypeOK'
  BY <1>1, <1>2, <1>4 DEF TypeOK, FindCandidate, own
<1>6. \A d \in Conn : Untouched(d)
  BY DEF Untouched, FindCandidate, own
<1>7. QED
  BY <1>1, <1>5, <1>6, OwnLists, UntouchedSound DEF General

LEMMA FailedGeneral ==
  ASSUME General, NEW c \in Conn, IceFails(c)
  PROVE  General'
<1>1. TypeOK /\ Lists /\ list' = [list EXCEPT ![user[c]] = @ \ {c}] /\ user' = user /\ peer' = peer
  BY DEF General, IceFails
<1>2. \A u \in Users : list'[u] \subseteq list[u]
  BY <1>1 DEF TypeOK
<1>3. list' \in [Users -> SUBSET Conn]
  BY <1>1 DEF TypeOK
<1>4. TypeOK'
  BY <1>1, <1>3 DEF TypeOK, IceFails, page
<1>5. Made' = Made
  BY <1>1 DEF Made
<1>6. Lists'
  BY <1>1, <1>2, <1>5 DEF Lists
<1>7. \A d \in Conn : Untouched(d)
  BY DEF Untouched, IceFails, page
<1>8. QED
  BY <1>4, <1>6, <1>7, UntouchedSound DEF General

(* A new connection c, that is handed t.                                    *)
New(c, u, v, as, t) ==
  /\ c \in Conn \ Made /\ Made' = Made \cup {c} /\ c \notin open
  /\ user' \in [Conn -> Users \cup {Nobody}] /\ peer' \in [Conn -> Users \cup {Nobody}]
  /\ role' \in [Conn -> Roles] /\ list' \in [Users -> SUBSET Conn]
  /\ todo' \in [Conn -> Seq(Task)] /\ onPage' \in [Conn -> Seq(Task)]
  /\ user'[c] = u /\ peer'[c] = v /\ role'[c] = as
  /\ \A w \in Users : list'[w] = IF w = u THEN list[w] \cup {c} ELSE list[w]
  /\ todo'[c] = (IF Waits(c, t) THEN <<>> ELSE <<t>>)
  /\ onPage'[c] = (IF Waits(c, t) THEN <<t>> ELSE <<>>)
  /\ \A d \in Conn \ {c} : /\ user'[d] = user[d] /\ peer'[d] = peer[d] /\ role'[d] = role[d]
                           /\ todo'[d] = todo[d] /\ onPage'[d] = onPage[d]

LEMMA CreatesNew ==
  ASSUME General, NEW u \in Users, NEW v \in Users, NEW as \in Roles, NEW t \in Task,
         Create(u, v, as, t)
  PROVE  \E c \in Conn : New(c, u, v, as, t)
<1>1. PICK c \in Conn :
        /\ Made = 1 .. c - 1
        /\ user' = [user EXCEPT ![c] = u]
        /\ peer' = [peer EXCEPT ![c] = v]
        /\ role' = [role EXCEPT ![c] = as]
        /\ list' = [list EXCEPT ![u] = @ \cup {c}]
        /\ HandTo({c}, t)
  BY DEF Create
<1>2. c \in Nat /\ c \notin Made /\ TypeOK
  BY <1>1 DEF Conn, General
<1>3. c \notin open /\ todo[c] = <<>> /\ onPage[c] = <<>>
  BY <1>2 DEF General, Sound, Blank
<1>4. /\ user' \in [Conn -> Users \cup {Nobody}] /\ peer' \in [Conn -> Users \cup {Nobody}]
      /\ role' \in [Conn -> Roles] /\ list' \in [Users -> SUBSET Conn]
      /\ user'[c] = u /\ peer'[c] = v /\ role'[c] = as
      /\ \A w \in Users : list'[w] = IF w = u THEN list[w] \cup {c} ELSE list[w]
      /\ \A d \in Conn \ {c} : user'[d] = user[d] /\ peer'[d] = peer[d] /\ role'[d] = role[d]
  BY <1>1, <1>2 DEF TypeOK
<1>5. Made' = Made \cup {c}
  <2>1. u # Nobody
    BY SignalingAssumption
  <2>2. QED
    BY <1>4, <2>1 DEF Made
<1>6. /\ todo' \in [Conn -> Seq(Task)] /\ onPage' \in [Conn -> Seq(Task)]
      /\ \A d \in Conn :
           /\ todo'[d] = IF d \in {c} /\ ~Waits(d, t) THEN Append(todo[d], t) ELSE todo[d]
           /\ onPage'[d] = IF d \in {c} /\ Waits(d, t) THEN Append(onPage[d], t) ELSE onPage[d]
  BY <1>1, <1>2, Handed
<1>7. Append(<<>>, t) = <<t>>
  OBVIOUS
<1>8. todo'[c] = (IF Waits(c, t) THEN <<>> ELSE <<t>>)
  BY <1>3, <1>6, <1>7
<1>9. onPage'[c] = (IF Waits(c, t) THEN <<t>> ELSE <<>>)
  BY <1>3, <1>6, <1>7
<1>10. \A d \in Conn \ {c} : todo'[d] = todo[d] /\ onPage'[d] = onPage[d]
  BY <1>6
<1>11. QED
  BY <1>2, <1>3, <1>4, <1>5, <1>6, <1>8, <1>9, <1>10 DEF New

LEMMA OneTask ==
  ASSUME NEW t \in Task
  PROVE  /\ Members(<<t>>) = {t} /\ Dos(<<t>>) = {t.do}
         /\ \A D : Once(<<t>>, KeyOf(D))
<1>1. <<>> \in Seq(Task) /\ Append(<<>>, t) = <<t>>
  BY EmptySeq
<1> DEFINE q == <<>>
<1>2. q \in Seq(Task) /\ Dos(q) = {} /\ Members(q) = {} /\ \A D : Once(q, KeyOf(D))
  BY <1>1, NoTasks, EmptyQueue
<1> HIDE DEF q
<1>3. /\ Members(Append(q, t)) = Members(q) \cup {t}
      /\ Dos(Append(q, t)) = Dos(q) \cup {t.do}
      /\ \A D : Once(q, KeyOf(D)) /\ (t.do \in D => Dos(q) \cap D = {}) =>
              Once(Append(q, t), KeyOf(D))
  BY <1>2, TaskAdded
<1>4. Append(q, t) = <<t>>
  BY <1>1 DEF q
<1>5. QED
  BY <1>2, <1>3, <1>4

LEMMA NewSound ==
  ASSUME General, NEW c \in Conn, NEW u \in Users, NEW v \in Users, NEW as, NEW t \in Task,
         (as = "caller" /\ t.do = "call") \/ (as = "callee" /\ t.do = "offer"),
         New(c, u, v, as, t),
         UNCHANGED <<open, awaiting, sig, remote, offers>>
  PROVE  Lists' /\ \A d \in Conn : Sound(d)'
<1>1. TypeOK /\ Lists /\ Sound(c) /\ c \notin Made
  BY DEF General, New
<1>2. Lists'
  <2>1. \A w \in Users : \A d \in list'[w] : d \in Made' /\ user'[d] = w
    <3> SUFFICES ASSUME NEW w \in Users, NEW d \in list'[w] PROVE d \in Made' /\ user'[d] = w
      OBVIOUS
    <3>1. d = c \/ (d \in list[w] /\ d \in Conn \ {c})
      <4>1. list[w] \subseteq Conn
        BY <1>1 DEF TypeOK
      <4>2. list'[w] = list[w] \cup {c} \/ list'[w] = list[w]
        BY DEF New
      <4>3. QED
        BY <4>1, <4>2
    <3>2. CASE d = c
      <4>1. d \in list[w] => d \in Made
        BY <1>1 DEF Lists
      <4>2. w = u
        BY <1>1, <3>2, <4>1 DEF New
      <4>3. QED
        BY <3>2, <4>2 DEF New
    <3>3. CASE d \in list[w] /\ d \in Conn \ {c}
      BY <1>1, <3>3 DEF New, Lists
    <3>4. QED
      BY <3>1, <3>2, <3>3
  <2>2. \A d \in Made' : user'[d] \in Users /\ peer'[d] \in Users
    <3>1. Made \subseteq Conn
      BY DEF Made
    <3>2. QED
      BY <1>1, <3>1 DEF New, Lists
  <2>3. QED
    BY <2>1, <2>2 DEF Lists
<1>3. ASSUME NEW d \in Conn \ {c} PROVE Sound(d)'
  <2>1. Untouched(d)
    BY DEF Untouched, New
  <2>2. QED
    BY <2>1, UntouchedSound DEF General
<1>4. Sound(c)'
  <2>1. c \notin open /\ c \notin awaiting /\ sig[c] = "stable" /\ remote[c] = None /\ offers[c] = 0
    BY <1>1 DEF Sound, Blank
  <2>2. role'[c] = as /\ c \in Made' /\ MaxRenegotiate \in Nat
    BY SignalingAssumption DEF New
  <2>3. UNCHANGED <<open, awaiting, sig, remote, offers>>
    OBVIOUS
  <2>4. Dos(<<t>>) = {t.do} /\ Once(<<t>>, KeyOf({"call"})) /\ Once(<<>>, KeyOf({"call"})) /\ Dos(<<>>) = {}
    BY OneTask, NoTasks
  <2>5. CASE as = "caller"
    <3>1. Waits(c, t) /\ t.do = "call"
      BY <2>1, <2>5 DEF Waits
    <3>2. todo'[c] = <<>> /\ onPage'[c] = <<t>>
      BY <3>1 DEF New
    <3>3. Dos(todo'[c]) = {} /\ Dos(onPage'[c]) = {"call"}
          /\ Once(todo'[c], KeyOf({"call"})) /\ Once(onPage'[c], KeyOf({"call"}))
      BY <2>4, <3>1, <3>2
    <3>4. Blank(c)' /\ Paged(c)'
      BY <2>1, <2>2, <2>3, <3>3 DEF Blank, Paged
    <3>5. RoleTasks(c)' /\ Counts(c)'
      BY <2>1, <2>2, <2>3, <2>5, <3>3 DEF RoleTasks, Counts
    <3>6. QED
      BY <3>4, <3>5 DEF Sound
  <2>6. CASE as = "callee"
    <3>1. ~Waits(c, t) /\ t.do = "offer"
      BY <2>6 DEF Waits
    <3>2. todo'[c] = <<t>> /\ onPage'[c] = <<>>
      BY <3>1 DEF New
    <3>3. Dos(todo'[c]) = {"offer"} /\ Dos(onPage'[c]) = {}
          /\ Once(todo'[c], KeyOf({"call"})) /\ Once(onPage'[c], KeyOf({"call"}))
      BY <2>4, <3>1, <3>2
    <3>4. ~Calling(c)'
      BY <3>3 DEF Calling
    <3>5. Blank(c)' /\ Paged(c)'
      BY <2>1, <2>2, <2>3, <3>2, <3>3 DEF Blank, Paged
    <3>6. RoleTasks(c)' /\ Counts(c)'
      BY <2>1, <2>2, <2>3, <2>6, <3>3, <3>4 DEF RoleTasks, Counts
    <3>7. QED
      BY <3>5, <3>6 DEF Sound
  <2>7. QED
    BY <2>5, <2>6
<1>5. QED
  BY <1>2, <1>3, <1>4

LEMMA ConnectGeneral ==
  ASSUME General, NEW u \in Users, NEW v \in Users, Connect(u, v)
  PROVE  General'
<1>1. Create(u, v, "caller", Do("call")) /\ UNCHANGED <<open, awaiting, camera, page, net>>
  BY DEF Connect
<1>2. "caller" \in Roles /\ Do("call") \in Task /\ Do("call").do = "call"
  BY TasksMade DEF Roles
<1> DEFINE t == Do("call")
<1> HIDE DEF t
<1>3. PICK c \in Conn : New(c, u, v, "caller", t)
  BY <1>1, <1>2, CreatesNew DEF t
<1>4. Lists' /\ \A d \in Conn : Sound(d)'
  BY <1>1, <1>2, <1>3, NewSound DEF t, page
<1>5. TypeOK'
  BY <1>1, <1>3 DEF General, TypeOK, New, page
<1>6. QED
  BY <1>4, <1>5 DEF General

(* A message that arrives.                                                  *)
LEMMA Arrives ==
  ASSUME TypeOK, NEW u \in Users, NEW v \in Users, net[<<u, v>>] # <<>>,
         net' = [net EXCEPT ![<<u, v>>] = Tail(@)]
  PROVE  /\ net' \in [Users \X Users -> Seq(Message)]
         /\ net'[<<u, v>>] = Tail(net[<<u, v>>])
         /\ \A pair \in (Users \X Users) \ {<<u, v>>} : net'[pair] = net[pair]
         /\ Head(net[<<u, v>>]) \in Members(net[<<u, v>>])
         /\ Head(net[<<u, v>>]) \in Message /\ Handle(Head(net[<<u, v>>])) \in Task
<1>1. net[<<u, v>>] \in Seq(Message)
  BY DEF TypeOK
<1>2. Tail(net[<<u, v>>]) \in Seq(Message) /\ Head(net[<<u, v>>]) \in Message
      /\ Head(net[<<u, v>>]) \in Members(net[<<u, v>>])
  BY <1>1, TailMembers
<1>3. QED
  BY <1>2, TasksMade DEF TypeOK

LEMMA HandedGeneral ==
  ASSUME General, NEW u \in Users, NEW v \in Users, NEW t \in Task, NEW cs,
         cs \subseteq ConnectionsTo(v, u), t.do \in {"answer", "candidate"}, HandTo(cs, t),
         UNCHANGED <<own, open, awaiting, camera, page>>,
         net' \in [Users \X Users -> Seq(Message)]
  PROVE  General'
<1>1. TypeOK /\ Lists
  BY DEF General
<1>2. /\ todo' \in [Conn -> Seq(Task)] /\ onPage' \in [Conn -> Seq(Task)]
      /\ \A c \in Conn :
           /\ todo'[c] = IF c \in cs /\ ~Waits(c, t) THEN Append(todo[c], t) ELSE todo[c]
           /\ onPage'[c] = IF c \in cs /\ Waits(c, t) THEN Append(onPage[c], t) ELSE onPage[c]
  BY <1>1, Handed
<1>3. TypeOK'
  BY <1>1, <1>2 DEF TypeOK, own, page
<1>4. Lists' /\ Made' = Made
  BY <1>1, OwnLists
<1>5. ASSUME NEW c \in Conn PROVE Sound(c)'
  <2>1. c \in cs => c \in Made
    BY <1>1 DEF Lists, ConnectionsTo
  <2>2. todo[c] \in Seq(Task) /\ onPage[c] \in Seq(Task) /\ Sound(c)
    BY <1>1 DEF General, TypeOK
  <2>3. /\ Dos(todo'[c]) \in {Dos(todo[c]), Dos(todo[c]) \cup {t.do}}
        /\ Once(todo'[c], KeyOf({"call"}))
    <3>1. Once(todo[c], KeyOf({"call"})) /\ t.do \notin {"call"}
      BY <2>2 DEF Sound, Paged
    <3>2. Dos(Append(todo[c], t)) = Dos(todo[c]) \cup {t.do}
          /\ Once(Append(todo[c], t), KeyOf({"call"}))
      BY <2>2, <3>1, TaskAdded
    <3>3. QED
      BY <1>2, <3>1, <3>2
  <2>4. /\ Dos(onPage'[c]) \in {Dos(onPage[c]), Dos(onPage[c]) \cup {"answer"}}
        /\ Once(onPage'[c], KeyOf({"call"}))
    <3>1. Once(onPage[c], KeyOf({"call"})) /\ t.do \notin {"call"}
      BY <2>2 DEF Sound, Paged
    <3>2. Dos(Append(onPage[c], t)) = Dos(onPage[c]) \cup {t.do}
          /\ Once(Append(onPage[c], t), KeyOf({"call"}))
      BY <2>2, <3>1, TaskAdded
    <3>3. Waits(c, t) => t.do = "answer"
      BY DEF Waits
    <3>4. QED
      BY <1>2, <3>1, <3>2, <3>3
  <2>5. c \in open => onPage'[c] = onPage[c]
    BY <1>2 DEF Waits
  <2>6. Calling(c)' <=> Calling(c)
    BY <2>3, <2>4 DEF Calling
  <2>7. c \notin Made => todo'[c] = todo[c] /\ onPage'[c] = onPage[c]
    BY <1>2, <2>1
  <2>8. UNCHANGED <<open, awaiting, role, sig, remote, offers>>
    BY DEF own, page
  <2>9. Blank(c)' /\ Paged(c)'
    BY <1>4, <2>2, <2>3, <2>4, <2>5, <2>7, <2>8 DEF Sound, Blank, Paged
  <2>10. RoleTasks(c)' /\ Counts(c)'
    BY <2>2, <2>3, <2>6, <2>8 DEF Sound, RoleTasks, Counts, Starts, Answers
  <2>11. QED
    BY <2>9, <2>10 DEF Sound
<1>6. QED
  BY <1>3, <1>4, <1>5 DEF General

LEMMA DeliverGeneral ==
  ASSUME General, NEW u \in Users, NEW v \in Users, Deliver(u, v)
  PROVE  General'
<1> DEFINE m == Head(net[<<u, v>>])
<1>1. TypeOK /\ UNCHANGED <<open, awaiting, camera, page>>
  BY DEF General, Deliver
<1>2. m \in Message /\ Handle(m) \in Task /\ Handle(m).do = m.type
      /\ net' \in [Users \X Users -> Seq(Message)]
  BY <1>1, Arrives, TasksMade DEF Deliver
<1>3. \/ m.type = "offer" /\ OnOffer(u, v, m)
      \/ m.type = "answer" /\ OnAnswer(u, v, m)
      \/ m.type = "candidate" /\ OnCandidate(u, v, m)
  BY DEF Deliver
<1> DEFINE t == Handle(m)
<1>4. CASE m.type = "offer" /\ OnOffer(u, v, m)
  <2>1. Create(v, u, "callee", t) /\ t \in Task /\ t.do = "offer" /\ "callee" \in Roles
    BY <1>2, <1>4 DEF OnOffer, Roles
  <2> HIDE DEF t, m
  <2>2. PICK c \in Conn : New(c, v, u, "callee", t)
    BY <2>1, CreatesNew
  <2>3. Lists' /\ \A d \in Conn : Sound(d)'
    BY <1>1, <2>1, <2>2, NewSound DEF page
  <2>4. TypeOK'
    BY <1>1, <1>2, <2>2 DEF TypeOK, New, page
  <2>5. QED
    BY <2>3, <2>4 DEF General
<1>5. CASE m.type = "answer" /\ OnAnswer(u, v, m)
  <2>1. /\ First(ConnectionsTo(v, u)) \subseteq ConnectionsTo(v, u)
        /\ HandTo(First(ConnectionsTo(v, u)), t) /\ UNCHANGED own /\ t.do = "answer" /\ t \in Task
    BY <1>2, <1>5 DEF OnAnswer, First
  <2> HIDE DEF t, m
  <2>2. QED
    BY <1>1, <1>2, <2>1, HandedGeneral
<1>6. CASE m.type = "candidate" /\ OnCandidate(u, v, m)
  <2>1. HandTo(ConnectionsTo(v, u), t) /\ UNCHANGED own /\ t.do = "candidate" /\ t \in Task
    BY <1>2, <1>6 DEF OnCandidate
  <2> HIDE DEF t, m
  <2>2. QED
    BY <1>1, <1>2, <2>1, HandedGeneral
<1>7. QED
  BY <1>3, <1>4, <1>5, <1>6

(* Of a connection that performs a task, the others see nothing.            *)
LEMMA PerformFrame ==
  ASSUME General, NEW c \in Conn, c \in open, todo[c] # <<>>, UNCHANGED <<own, open, onPage, camera>>
  PROVE  /\ TypeOK /\ Lists /\ Lists' /\ Made' = Made /\ c \in Made /\ Sound(c)
         /\ user' = user /\ peer' = peer /\ role' = role /\ open' = open /\ onPage' = onPage
         /\ Dos(onPage[c]) = {} /\ Once(onPage[c], KeyOf({"call"}))
         /\ user[c] \in Users /\ peer[c] \in Users
<1>1. TypeOK /\ Lists /\ Sound(c) /\ c \in Made
  BY DEF General, Sound, Blank
<1>2. onPage[c] = <<>>
  BY <1>1 DEF Sound, Paged
<1>3. QED
  BY <1>1, <1>2, OwnLists, NoTasks DEF own, Lists

LEMMA BeginGeneral ==
  ASSUME General, NEW c \in Conn, c \in open, todo[c] # <<>>, UNCHANGED <<own, open, onPage, camera>>,
         BeginCall(c)
  PROVE  General'
<1>1. /\ TypeOK /\ Lists /\ Lists' /\ Made' = Made /\ c \in Made /\ Sound(c)
      /\ user' = user /\ peer' = peer /\ role' = role /\ open' = open /\ onPage' = onPage
      /\ Dos(onPage[c]) = {} /\ Once(onPage[c], KeyOf({"call"}))
      /\ user[c] \in Users /\ peer[c] \in Users
  BY PerformFrame
<1>2. Head(todo[c]).do = "call" /\ UNCHANGED <<sig, remote, offers, found, denied, refused, stray, net>>
  BY DEF BeginCall, page
<1>3. todo' = [todo EXCEPT ![c] = Tail(@)]
  BY DEF BeginCall
<1>4. /\ todo' \in [Conn -> Seq(Task)] /\ Head(todo[c]) \in Task
      /\ \A d \in Conn \ {c} : todo'[d] = todo[d]
      /\ Dos(todo'[c]) \subseteq Dos(todo[c]) /\ "call" \in Dos(todo[c])
      /\ Once(todo'[c], KeyOf({"call"}))
      /\ "call" = "call" => "call" \notin Dos(todo'[c])
  <2>1. Once(todo[c], KeyOf({"call"}))
    BY <1>1 DEF Sound, Paged
  <2>2. /\ todo' \in [Conn -> Seq(Task)] /\ Head(todo[c]) \in Task
        /\ \A d \in Conn \ {c} : todo'[d] = todo[d]
        /\ Dos(todo[c]) = Dos(todo'[c]) \cup {Head(todo[c]).do}
        /\ \A D : Once(todo[c], KeyOf(D)) =>
             Once(todo'[c], KeyOf(D)) /\ (Head(todo[c]).do \in D => Dos(todo'[c]) \cap D = {})
    BY <1>1, <1>3, Dequeued
  <2>3. QED
    BY <1>2, <2>1, <2>2
<1>5. TypeOK'
  BY <1>1, <1>2, <1>4 DEF BeginCall, TypeOK, own, None, Sigs
<1>6. \A d \in Conn \ {c} : Untouched(d)
  BY <1>1, <1>2, <1>4 DEF BeginCall, Untouched, TypeOK
<1>7. Blank(c)' /\ Paged(c)'
  BY <1>1, <1>4 DEF Sound, Blank, Paged
<1>8. RoleTasks(c)'
  BY <1>1, <1>2, <1>4 DEF Sound, RoleTasks, Calling, Answers
<1>9. Counts(c)'
  BY <1>1, <1>2, <1>4 DEF BeginCall, Sound, Counts, Calling, RoleTasks, Starts, Answers, TypeOK
<1>10. QED
  BY <1>1, <1>5, <1>6, <1>7, <1>8, <1>9, UntouchedSound DEF General, Sound

LEMMA OfferGeneral ==
  ASSUME General, NEW c \in Conn, c \in open, todo[c] # <<>>, UNCHANGED <<own, open, onPage, camera>>,
         CreateOffer(c)
  PROVE  General'
<1>1. /\ TypeOK /\ Lists /\ Lists' /\ Made' = Made /\ c \in Made /\ Sound(c)
      /\ user' = user /\ peer' = peer /\ role' = role /\ open' = open /\ onPage' = onPage
      /\ Dos(onPage[c]) = {} /\ Once(onPage[c], KeyOf({"call"}))
      /\ user[c] \in Users /\ peer[c] \in Users
  BY PerformFrame
<1>2. Head(todo[c]).do = "createOffer" /\ UNCHANGED <<awaiting, sig, remote, offers, found, denied, refused, stray, net>>
  BY DEF CreateOffer, page
<1>3. todo' = [todo EXCEPT ![c] = Append(Tail(@), Do("setLocalOffer"))] /\ "setLocalOffer" \in Starts
  BY DEF CreateOffer, Starts, Answers
<1>4. /\ todo' \in [Conn -> Seq(Task)] /\ Head(todo[c]) \in Task
      /\ \A d \in Conn \ {c} : todo'[d] = todo[d]
      /\ Dos(todo'[c]) \subseteq Dos(todo[c]) \cup {"setLocalOffer"} /\ "createOffer" \in Dos(todo[c])
      /\ Once(todo'[c], KeyOf({"call"}))
  <2>1. Once(todo[c], KeyOf({"call"}))
    BY <1>1 DEF Sound, Paged
  <2>2. /\ todo' \in [Conn -> Seq(Task)] /\ Head(todo[c]) \in Task
        /\ \A d \in Conn \ {c} : todo'[d] = todo[d]
        /\ Dos(todo'[c]) \cup {Head(todo[c]).do} = Dos(todo[c]) \cup {"setLocalOffer"}
        /\ \A D : Once(todo[c], KeyOf(D)) /\ ("setLocalOffer" \in D => Head(todo[c]).do \in D) =>
             Once(todo'[c], KeyOf(D))
    BY <1>1, <1>3, ReplacedDo
  <2>3. QED
    BY <1>2, <2>1, <2>2
<1>5. TypeOK'
  BY <1>1, <1>2, <1>4 DEF CreateOffer, TypeOK, own, None, Sigs
<1>6. \A d \in Conn \ {c} : Untouched(d)
  BY <1>1, <1>2, <1>4 DEF CreateOffer, Untouched, TypeOK
<1>7. Blank(c)' /\ Paged(c)'
  BY <1>1, <1>4 DEF Sound, Blank, Paged
<1>8. RoleTasks(c)'
  BY <1>1, <1>2, <1>4 DEF Sound, RoleTasks, Calling, Answers
<1>9. Counts(c)'
  BY <1>1, <1>2, <1>4 DEF CreateOffer, Sound, Counts, Calling, RoleTasks, Starts, Answers, TypeOK
<1>10. QED
  BY <1>1, <1>5, <1>6, <1>7, <1>8, <1>9, UntouchedSound DEF General, Sound

LEMMA LocalOfferGeneral ==
  ASSUME General, NEW c \in Conn, c \in open, todo[c] # <<>>, UNCHANGED <<own, open, onPage, camera>>,
         SetLocalOffer(c)
  PROVE  General'
<1>1. /\ TypeOK /\ Lists /\ Lists' /\ Made' = Made /\ c \in Made /\ Sound(c)
      /\ user' = user /\ peer' = peer /\ role' = role /\ open' = open /\ onPage' = onPage
      /\ Dos(onPage[c]) = {} /\ Once(onPage[c], KeyOf({"call"}))
      /\ user[c] \in Users /\ peer[c] \in Users
  BY PerformFrame
<1>2. Head(todo[c]).do = "setLocalOffer" /\ UNCHANGED <<awaiting, remote, offers, found, denied, refused, stray>>
  BY DEF SetLocalOffer, page
<1>3. todo' = [todo EXCEPT ![c] = Tail(@)]
  BY DEF SetLocalOffer
<1>4. /\ todo' \in [Conn -> Seq(Task)] /\ Head(todo[c]) \in Task
      /\ \A d \in Conn \ {c} : todo'[d] = todo[d]
      /\ Dos(todo'[c]) \subseteq Dos(todo[c]) /\ "setLocalOffer" \in Dos(todo[c])
      /\ Once(todo'[c], KeyOf({"call"}))
      /\ "setLocalOffer" = "call" => "call" \notin Dos(todo'[c])
  <2>1. Once(todo[c], KeyOf({"call"}))
    BY <1>1 DEF Sound, Paged
  <2>2. /\ todo' \in [Conn -> Seq(Task)] /\ Head(todo[c]) \in Task
        /\ \A d \in Conn \ {c} : todo'[d] = todo[d]
        /\ Dos(todo[c]) = Dos(todo'[c]) \cup {Head(todo[c]).do}
        /\ \A D : Once(todo[c], KeyOf(D)) =>
             Once(todo'[c], KeyOf(D)) /\ (Head(todo[c]).do \in D => Dos(todo'[c]) \cap D = {})
    BY <1>1, <1>3, Dequeued
  <2>3. QED
    BY <1>2, <2>1, <2>2
<1>5. TypeOK'
  <2>1. net' \in [Users \X Users -> Seq(Message)]
    BY <1>1, SendTyped DEF SetLocalOffer, TypeOK
  <2>2. QED
    BY <1>1, <1>2, <1>4, <2>1 DEF SetLocalOffer, TypeOK, own, Sigs
<1>6. \A d \in Conn \ {c} : Untouched(d)
  BY <1>1, <1>2, <1>4 DEF SetLocalOffer, Untouched, TypeOK
<1>7. Blank(c)' /\ Paged(c)'
  BY <1>1, <1>4 DEF Sound, Blank, Paged
<1>8. RoleTasks(c)'
  BY <1>1, <1>2, <1>4 DEF Sound, RoleTasks, Calling, Answers
<1>9. Counts(c)'
  BY <1>1, <1>2, <1>4 DEF SetLocalOffer, Sound, Counts, Calling, RoleTasks, Starts, Answers, TypeOK
<1>10. QED
  BY <1>1, <1>5, <1>6, <1>7, <1>8, <1>9, UntouchedSound DEF General, Sound

LEMMA RemoteOfferGeneral ==
  ASSUME General, NEW c \in Conn, c \in open, todo[c] # <<>>, UNCHANGED <<own, open, onPage, camera>>,
         SetRemoteOffer(c)
  PROVE  General'
<1>1. /\ TypeOK /\ Lists /\ Lists' /\ Made' = Made /\ c \in Made /\ Sound(c)
      /\ user' = user /\ peer' = peer /\ role' = role /\ open' = open /\ onPage' = onPage
      /\ Dos(onPage[c]) = {} /\ Once(onPage[c], KeyOf({"call"}))
      /\ user[c] \in Users /\ peer[c] \in Users
  BY PerformFrame
<1>2. Head(todo[c]).do = "offer" /\ UNCHANGED <<offers, found, denied, refused, stray, net>>
  BY DEF SetRemoteOffer, page
<1>3. todo' = [todo EXCEPT ![c] = Tail(@)]
  BY DEF SetRemoteOffer
<1>4. /\ todo' \in [Conn -> Seq(Task)] /\ Head(todo[c]) \in Task
      /\ \A d \in Conn \ {c} : todo'[d] = todo[d]
      /\ Dos(todo'[c]) \subseteq Dos(todo[c]) /\ "offer" \in Dos(todo[c])
      /\ Once(todo'[c], KeyOf({"call"}))
      /\ "offer" = "call" => "call" \notin Dos(todo'[c])
  <2>1. Once(todo[c], KeyOf({"call"}))
    BY <1>1 DEF Sound, Paged
  <2>2. /\ todo' \in [Conn -> Seq(Task)] /\ Head(todo[c]) \in Task
        /\ \A d \in Conn \ {c} : todo'[d] = todo[d]
        /\ Dos(todo[c]) = Dos(todo'[c]) \cup {Head(todo[c]).do}
        /\ \A D : Once(todo[c], KeyOf(D)) =>
             Once(todo'[c], KeyOf(D)) /\ (Head(todo[c]).do \in D => Dos(todo'[c]) \cap D = {})
    BY <1>1, <1>3, Dequeued
  <2>3. QED
    BY <1>2, <2>1, <2>2
<1>5. TypeOK'
  <2>1. Head(todo[c]).from \in Conn
    BY <1>2, <1>4, TasksMade
  <2>2. QED
    BY <1>1, <1>2, <1>4, <2>1 DEF SetRemoteOffer, TypeOK, own, Sigs
<1>6. \A d \in Conn \ {c} : Untouched(d)
  BY <1>1, <1>2, <1>4 DEF SetRemoteOffer, Untouched, TypeOK
<1>7. Blank(c)' /\ Paged(c)'
  BY <1>1, <1>4 DEF Sound, Blank, Paged
<1>8. RoleTasks(c)'
  BY <1>1, <1>2, <1>4 DEF Sound, RoleTasks, Calling, Answers
<1>9. Counts(c)'
  <2>1. role[c] = "callee" /\ ~Calling(c)
    BY <1>1, <1>4 DEF Sound, RoleTasks, TypeOK, Roles
  <2>2. ~Calling(c)'
    BY <1>1, <1>4, <2>1 DEF Calling
  <2>3. QED
    BY <1>1, <1>2, <2>1, <2>2 DEF Sound, Counts
<1>10. QED
  BY <1>1, <1>5, <1>6, <1>7, <1>8, <1>9, UntouchedSound DEF General, Sound

LEMMA AnswerGeneral ==
  ASSUME General, NEW c \in Conn, c \in open, todo[c] # <<>>, UNCHANGED <<own, open, onPage, camera>>,
         CreateAnswer(c)
  PROVE  General'
<1>1. /\ TypeOK /\ Lists /\ Lists' /\ Made' = Made /\ c \in Made /\ Sound(c)
      /\ user' = user /\ peer' = peer /\ role' = role /\ open' = open /\ onPage' = onPage
      /\ Dos(onPage[c]) = {} /\ Once(onPage[c], KeyOf({"call"}))
      /\ user[c] \in Users /\ peer[c] \in Users
  BY PerformFrame
<1>2. Head(todo[c]).do = "createAnswer" /\ UNCHANGED <<awaiting, sig, remote, offers, found, denied, refused, stray, net>>
  BY DEF CreateAnswer, page
<1>3. todo' = [todo EXCEPT ![c] = Append(Tail(@), Do("setLocalAnswer"))] /\ "setLocalAnswer" \in Answers
  BY DEF CreateAnswer, Starts, Answers
<1>4. /\ todo' \in [Conn -> Seq(Task)] /\ Head(todo[c]) \in Task
      /\ \A d \in Conn \ {c} : todo'[d] = todo[d]
      /\ Dos(todo'[c]) \subseteq Dos(todo[c]) \cup {"setLocalAnswer"} /\ "createAnswer" \in Dos(todo[c])
      /\ Once(todo'[c], KeyOf({"call"}))
  <2>1. Once(todo[c], KeyOf({"call"}))
    BY <1>1 DEF Sound, Paged
  <2>2. /\ todo' \in [Conn -> Seq(Task)] /\ Head(todo[c]) \in Task
        /\ \A d \in Conn \ {c} : todo'[d] = todo[d]
        /\ Dos(todo'[c]) \cup {Head(todo[c]).do} = Dos(todo[c]) \cup {"setLocalAnswer"}
        /\ \A D : Once(todo[c], KeyOf(D)) /\ ("setLocalAnswer" \in D => Head(todo[c]).do \in D) =>
             Once(todo'[c], KeyOf(D))
    BY <1>1, <1>3, ReplacedDo
  <2>3. QED
    BY <1>2, <2>1, <2>2
<1>5. TypeOK'
  BY <1>1, <1>2, <1>4 DEF CreateAnswer, TypeOK, own, None, Sigs
<1>6. \A d \in Conn \ {c} : Untouched(d)
  BY <1>1, <1>2, <1>4 DEF CreateAnswer, Untouched, TypeOK
<1>7. Blank(c)' /\ Paged(c)'
  BY <1>1, <1>4 DEF Sound, Blank, Paged
<1>8. RoleTasks(c)'
  BY <1>1, <1>2, <1>4 DEF Sound, RoleTasks, Calling, Answers
<1>9. Counts(c)'
  BY <1>1, <1>2, <1>4 DEF CreateAnswer, Sound, Counts, Calling, RoleTasks, Starts, Answers, TypeOK
<1>10. QED
  BY <1>1, <1>5, <1>6, <1>7, <1>8, <1>9, UntouchedSound DEF General, Sound

LEMMA LocalAnswerGeneral ==
  ASSUME General, NEW c \in Conn, c \in open, todo[c] # <<>>, UNCHANGED <<own, open, onPage, camera>>,
         SetLocalAnswer(c)
  PROVE  General'
<1>1. /\ TypeOK /\ Lists /\ Lists' /\ Made' = Made /\ c \in Made /\ Sound(c)
      /\ user' = user /\ peer' = peer /\ role' = role /\ open' = open /\ onPage' = onPage
      /\ Dos(onPage[c]) = {} /\ Once(onPage[c], KeyOf({"call"}))
      /\ user[c] \in Users /\ peer[c] \in Users
  BY PerformFrame
<1>2. Head(todo[c]).do = "setLocalAnswer" /\ UNCHANGED <<awaiting, remote, offers, found, denied, refused, stray>>
  BY DEF SetLocalAnswer, page
<1>3. todo' = [todo EXCEPT ![c] = Tail(@)]
  BY DEF SetLocalAnswer
<1>4. /\ todo' \in [Conn -> Seq(Task)] /\ Head(todo[c]) \in Task
      /\ \A d \in Conn \ {c} : todo'[d] = todo[d]
      /\ Dos(todo'[c]) \subseteq Dos(todo[c]) /\ "setLocalAnswer" \in Dos(todo[c])
      /\ Once(todo'[c], KeyOf({"call"}))
      /\ "setLocalAnswer" = "call" => "call" \notin Dos(todo'[c])
  <2>1. Once(todo[c], KeyOf({"call"}))
    BY <1>1 DEF Sound, Paged
  <2>2. /\ todo' \in [Conn -> Seq(Task)] /\ Head(todo[c]) \in Task
        /\ \A d \in Conn \ {c} : todo'[d] = todo[d]
        /\ Dos(todo[c]) = Dos(todo'[c]) \cup {Head(todo[c]).do}
        /\ \A D : Once(todo[c], KeyOf(D)) =>
             Once(todo'[c], KeyOf(D)) /\ (Head(todo[c]).do \in D => Dos(todo'[c]) \cap D = {})
    BY <1>1, <1>3, Dequeued
  <2>3. QED
    BY <1>2, <2>1, <2>2
<1>5. TypeOK'
  <2>1. net' \in [Users \X Users -> Seq(Message)]
    BY <1>1, SendTyped DEF SetLocalAnswer, TypeOK
  <2>2. QED
    BY <1>1, <1>2, <1>4, <2>1 DEF SetLocalAnswer, TypeOK, own, Sigs
<1>6. \A d \in Conn \ {c} : Untouched(d)
  BY <1>1, <1>2, <1>4 DEF SetLocalAnswer, Untouched, TypeOK
<1>7. Blank(c)' /\ Paged(c)'
  BY <1>1, <1>4 DEF Sound, Blank, Paged
<1>8. RoleTasks(c)'
  BY <1>1, <1>2, <1>4 DEF Sound, RoleTasks, Calling, Answers
<1>9. Counts(c)'
  BY <1>1, <1>2, <1>4 DEF SetLocalAnswer, Sound, Counts, Calling, RoleTasks, Starts, Answers, TypeOK
<1>10. QED
  BY <1>1, <1>5, <1>6, <1>7, <1>8, <1>9, UntouchedSound DEF General, Sound

LEMMA RemoteAnswerGeneral ==
  ASSUME General, NEW c \in Conn, c \in open, todo[c] # <<>>, UNCHANGED <<own, open, onPage, camera>>,
         SetRemoteAnswer(c)
  PROVE  General'
<1>1. /\ TypeOK /\ Lists /\ Lists' /\ Made' = Made /\ c \in Made /\ Sound(c)
      /\ user' = user /\ peer' = peer /\ role' = role /\ open' = open /\ onPage' = onPage
      /\ Dos(onPage[c]) = {} /\ Once(onPage[c], KeyOf({"call"}))
      /\ user[c] \in Users /\ peer[c] \in Users
  BY PerformFrame
<1>2. Head(todo[c]).do = "answer" /\ UNCHANGED <<awaiting, offers, found, denied, refused, stray, net>>
  BY DEF SetRemoteAnswer, page
<1>3. todo' = [todo EXCEPT ![c] = Tail(@)]
  BY DEF SetRemoteAnswer
<1>4. /\ todo' \in [Conn -> Seq(Task)] /\ Head(todo[c]) \in Task
      /\ \A d \in Conn \ {c} : todo'[d] = todo[d]
      /\ Dos(todo'[c]) \subseteq Dos(todo[c]) /\ "answer" \in Dos(todo[c])
      /\ Once(todo'[c], KeyOf({"call"}))
      /\ "answer" = "call" => "call" \notin Dos(todo'[c])
  <2>1. Once(todo[c], KeyOf({"call"}))
    BY <1>1 DEF Sound, Paged
  <2>2. /\ todo' \in [Conn -> Seq(Task)] /\ Head(todo[c]) \in Task
        /\ \A d \in Conn \ {c} : todo'[d] = todo[d]
        /\ Dos(todo[c]) = Dos(todo'[c]) \cup {Head(todo[c]).do}
        /\ \A D : Once(todo[c], KeyOf(D)) =>
             Once(todo'[c], KeyOf(D)) /\ (Head(todo[c]).do \in D => Dos(todo'[c]) \cap D = {})
    BY <1>1, <1>3, Dequeued
  <2>3. QED
    BY <1>2, <2>1, <2>2
<1>5. TypeOK'
  <2>1. Head(todo[c]).from \in Conn
    BY <1>2, <1>4, TasksMade
  <2>2. QED
    BY <1>1, <1>2, <1>4, <2>1 DEF SetRemoteAnswer, TypeOK, own, Sigs
<1>6. \A d \in Conn \ {c} : Untouched(d)
  BY <1>1, <1>2, <1>4 DEF SetRemoteAnswer, Untouched, TypeOK
<1>7. Blank(c)' /\ Paged(c)'
  BY <1>1, <1>4 DEF Sound, Blank, Paged
<1>8. RoleTasks(c)'
  BY <1>1, <1>2, <1>4 DEF Sound, RoleTasks, Calling, Answers
<1>9. Counts(c)'
  BY <1>1, <1>2, <1>4 DEF SetRemoteAnswer, Sound, Counts, Calling, RoleTasks, Starts, Answers, TypeOK
<1>10. QED
  BY <1>1, <1>5, <1>6, <1>7, <1>8, <1>9, UntouchedSound DEF General, Sound

LEMMA CandidateGeneral ==
  ASSUME General, NEW c \in Conn, c \in open, todo[c] # <<>>, UNCHANGED <<own, open, onPage, camera>>,
         AddCandidate(c)
  PROVE  General'
<1>1. /\ TypeOK /\ Lists /\ Lists' /\ Made' = Made /\ c \in Made /\ Sound(c)
      /\ user' = user /\ peer' = peer /\ role' = role /\ open' = open /\ onPage' = onPage
      /\ Dos(onPage[c]) = {} /\ Once(onPage[c], KeyOf({"call"}))
      /\ user[c] \in Users /\ peer[c] \in Users
  BY PerformFrame
<1>2. Head(todo[c]).do = "candidate" /\ UNCHANGED <<awaiting, sig, remote, offers, found, denied, net>>
  BY DEF AddCandidate, page
<1>3. todo' = [todo EXCEPT ![c] = Tail(@)]
  BY DEF AddCandidate
<1>4. /\ todo' \in [Conn -> Seq(Task)] /\ Head(todo[c]) \in Task
      /\ \A d \in Conn \ {c} : todo'[d] = todo[d]
      /\ Dos(todo'[c]) \subseteq Dos(todo[c]) /\ "candidate" \in Dos(todo[c])
      /\ Once(todo'[c], KeyOf({"call"}))
      /\ "candidate" = "call" => "call" \notin Dos(todo'[c])
  <2>1. Once(todo[c], KeyOf({"call"}))
    BY <1>1 DEF Sound, Paged
  <2>2. /\ todo' \in [Conn -> Seq(Task)] /\ Head(todo[c]) \in Task
        /\ \A d \in Conn \ {c} : todo'[d] = todo[d]
        /\ Dos(todo[c]) = Dos(todo'[c]) \cup {Head(todo[c]).do}
        /\ \A D : Once(todo[c], KeyOf(D)) =>
             Once(todo'[c], KeyOf(D)) /\ (Head(todo[c]).do \in D => Dos(todo'[c]) \cap D = {})
    BY <1>1, <1>3, Dequeued
  <2>3. QED
    BY <1>2, <2>1, <2>2
<1>5. TypeOK'
  BY <1>1, <1>2, <1>4 DEF AddCandidate, TypeOK, own, None, Sigs
<1>6. \A d \in Conn \ {c} : Untouched(d)
  BY <1>1, <1>2, <1>4 DEF AddCandidate, Untouched, TypeOK
<1>7. Blank(c)' /\ Paged(c)'
  BY <1>1, <1>4 DEF Sound, Blank, Paged
<1>8. RoleTasks(c)'
  BY <1>1, <1>2, <1>4 DEF Sound, RoleTasks, Calling, Answers
<1>9. Counts(c)'
  BY <1>1, <1>2, <1>4 DEF AddCandidate, Sound, Counts, Calling, RoleTasks, Starts, Answers, TypeOK
<1>10. QED
  BY <1>1, <1>5, <1>6, <1>7, <1>8, <1>9, UntouchedSound DEF General, Sound

LEMMA StepGeneral == ASSUME General, [Next]_vars PROVE General'
<1>1. CASE UNCHANGED vars
  BY <1>1 DEF vars, own, page, General, TypeOK, Lists, Made, Sound, Blank, Paged, RoleTasks, Counts, Calling
<1>2. ASSUME NEW c \in Conn, Perform(c) PROVE General'
  BY <1>2, BeginGeneral, OfferGeneral, LocalOfferGeneral, RemoteOfferGeneral, AnswerGeneral,
     LocalAnswerGeneral, RemoteAnswerGeneral, CandidateGeneral DEF Perform
<1>3. ASSUME NEW c \in Conn, NegotiationNeeded(c) \/ FindCandidate(c) \/ IceFails(c) PROVE General'
  BY <1>3, NegotiationGeneral, FoundGeneral, FailedGeneral
<1>4. ASSUME NEW c \in Conn, Open(c) \/ StreamAnswers(c) PROVE General'
  BY <1>4, OpenGeneral, StreamGeneral
<1>5. ASSUME NEW u \in Users, CameraAnswers(u) PROVE General'
  BY <1>5, CameraGeneral
<1>6. ASSUME NEW u \in Users, NEW v \in Users, Connect(u, v) \/ Deliver(u, v) PROVE General'
  BY <1>6, ConnectGeneral, DeliverGeneral
<1>7. QED
  BY <1>1, <1>2, <1>3, <1>4, <1>5, <1>6 DEF Next, Progress

LEMMA AlwaysGeneral == Spec => []General
BY InitGeneral, StepGeneral, PTL DEF Spec

(* Messages, tasks and the states of connections have their types, and a    *)
(* connection makes no more offers than it was asked for, for any users,    *)
(* calls and bounds.                                                        *)
THEOREM TypeCorrect == Spec => []TypeOK
<1>1. General => TypeOK
  BY DEF General
<1>2. QED
  BY <1>1, AlwaysGeneral, PTL

-----------------------------------------------------------------------------
(* One call between two users, negotiated once.                             *)

\* Nobody calls a user that may call back, calls twice, or negotiates again.
OneCallEach ==
  /\ MaxCalls <= 1 /\ MaxRenegotiate = 0
  /\ \A u, v \in Users : <<u, v>> \in CallPairs => <<v, u>> \notin CallPairs

Pair(c) == <<user[c], peer[c]>>
Back(c) == <<peer[c], user[c]>>
Caller(c) == c \in Made /\ role[c] = "caller"
Callee(c) == c \in Made /\ role[c] = "callee"

\* The two connections of a call.
Opposite(c, d) == c \in Made /\ d \in Made /\ user[c] = peer[d] /\ peer[c] = user[d]

Types(q)   == {m.type : m \in Members(q)}
Sent(c)    == "offer" \in Types(net[Pair(c)]) \/ \E d \in Conn : Callee(d) /\ Opposite(c, d)
Told(c)    == remote[c] # None \/ "offer" \in Dos(todo[c]) \/ "answer" \in Dos(todo[c])

\* A session has one connection to a user, and it is that of a call.
Unique ==
  /\ \A c, d \in Made : user[c] = user[d] /\ peer[c] = peer[d] => c = d
  /\ \A c \in Conn : Caller(c) => Pair(c) \in CallPairs
  /\ \A c \in Conn : Callee(c) => Back(c) \in CallPairs

\* Messages, tasks and descriptions are those of the connection at the other end.
Posted ==
  \A pair \in Users \X Users : \A m \in Members(net[pair]) :
    /\ m.from \in Made /\ Pair(m.from) = pair
    /\ m.type = "offer" => role[m.from] = "caller"
    /\ m.type = "answer" => role[m.from] = "callee" /\ remote[m.from] # None

Given ==
  \A c \in Conn : \A t \in Members(todo[c]) \cup Members(onPage[c]) :
    /\ t.do \in {"offer", "answer", "candidate"} => Opposite(t.from, c)
    /\ t.do = "offer" => role[t.from] = "caller" /\ role[c] = "callee"
    /\ t.do = "answer" => role[t.from] = "callee" /\ role[c] = "caller" /\ remote[t.from] # None

Described ==
  \A c \in Conn : remote[c] # None =>
    Opposite(remote[c], c) /\ (role[c] = "caller" => remote[remote[c]] # None)

\* A caller sends one offer, and its state tells whether it did.
Offering ==
  \A c \in Conn : Caller(c) =>
    /\ Sent(c) <=> sig[c] # "stable" \/ remote[c] # None
    /\ Sent(c) => c \in open /\ offers[c] > 0 /\ Dos(todo[c]) \cap Starts = {}

Starting ==
  \A c \in Conn :
    /\ Once(todo[c], KeyOf(Starts))
    /\ Dos(todo[c]) \cap Starts # {} => Caller(c) /\ offers[c] > 0

OneOffer ==
  /\ \A pair \in Users \X Users : Once(net[pair], Offered)
  /\ \A d \in Conn : Callee(d) => "offer" \notin Types(net[Back(d)])

\* A callee was given its offer when it was made, and answers after applying it.
AnswerMade ==
  /\ \A d \in Conn : Callee(d) =>
       /\ Told(d) /\ sig[d] # "have-local-offer"
       /\ remote[d] = None =>
            sig[d] = "stable" /\ d \notin awaiting /\ Dos(todo[d]) \cap Answers = {}
  /\ \A c \in Conn : Caller(c) => sig[c] # "have-remote-offer"

\* The answer of a stable callee is under way, or with the caller.
Answered ==
  \A c, d \in Conn :
    Callee(d) /\ Opposite(c, d) /\ sig[d] = "stable" /\ remote[d] # None =>
      Told(c) \/ c \notin list[user[c]] \/ "answer" \in Types(net[Pair(d)])

Descriptions == {t \in Task : t.do \in {"offer", "answer"}}
Candidates   == {t \in Task : t.do = "candidate"}

\* Candidates come after the description they belong to.
TasksFollow ==
  \A c \in Conn : remote[c] = None =>
    Leads(todo[c], Descriptions, Candidates)

AnswerMessages    == {m \in Message : m.type = "answer"}
CandidateMessages == {m \in Message : m.type = "candidate"}

MessagesFollow ==
  \A c \in Conn : Caller(c) /\ ~Told(c) /\ c \in list[user[c]] =>
    Leads(net[Back(c)], AnswerMessages, CandidateMessages)

Inv ==
  /\ Unique /\ Posted /\ Given /\ Described
  /\ Offering /\ Starting /\ OneOffer
  /\ AnswerMade /\ Answered
  /\ TasksFollow /\ MessagesFollow
  /\ CandidatesFollowDescriptions

LEMMA OneEnd ==
  ASSUME Unique, NEW a, NEW b, NEW c, Opposite(a, c), Opposite(b, c)
  PROVE  a = b
BY DEF Unique, Opposite

LEMMA OppositeBack ==
  ASSUME NEW c, NEW d
  PROVE  /\ Opposite(c, d) <=> Opposite(d, c)
         /\ Opposite(c, d) <=> c \in Made /\ d \in Made /\ Back(c) = Pair(d)
         /\ Opposite(c, d) <=> c \in Made /\ d \in Made /\ Pair(c) = Back(d)
BY DEF Opposite, Pair, Back

LEMMA EndsDiffer ==
  ASSUME TypeOK, Lists, OneCallEach, Unique, NEW c, NEW d, Opposite(c, d)
  PROVE  (Caller(c) /\ Callee(d)) \/ (Callee(c) /\ Caller(d))
<1>1. c \in Made /\ d \in Made /\ c \in Conn /\ d \in Conn /\ user[c] = peer[d] /\ peer[c] = user[d]
  BY DEF Opposite, Made
<1>2. role[c] \in {"caller", "callee"} /\ role[d] \in {"caller", "callee"}
  BY <1>1 DEF TypeOK, Roles
<1>3. user[c] \in Users /\ peer[c] \in Users
  BY <1>1 DEF Lists
<1>4. ~(Caller(c) /\ Caller(d))
  BY <1>1, <1>3 DEF Unique, Pair, OneCallEach
<1>5. ~(Callee(c) /\ Callee(d))
  BY <1>1, <1>3 DEF Unique, Back, OneCallEach
<1>6. QED
  BY <1>1, <1>2, <1>4, <1>5 DEF Caller, Callee

LEMMA HasCaller ==
  ASSUME General, OneCallEach, Inv, NEW d \in Conn, Callee(d)
  PROVE  \E c \in Conn : Caller(c) /\ Opposite(c, d)
<1>1. TypeOK /\ Lists /\ Unique
  BY DEF General, Inv
<1>2. \E c : Opposite(c, d)
  <2>1. CASE remote[d] # None
    BY <2>1 DEF Inv, Described
  <2>2. ASSUME NEW t \in Members(todo[d]), t.do \in {"offer", "answer"} PROVE \E c : Opposite(c, d)
    BY <2>2 DEF Inv, Given
  <2>3. Told(d) /\ todo[d] \in Seq(Task)
    BY <1>1 DEF Inv, AnswerMade, TypeOK
  <2>4. QED
    BY <2>1, <2>2, <2>3, TasksTyped DEF Told
<1>3. PICK c : Opposite(c, d)
  BY <1>2
<1>4. Caller(c)
  BY <1>1, <1>3, EndsDiffer DEF Callee, Caller
<1>5. QED
  BY <1>3, <1>4 DEF Caller, Made

LEMMA InvPaired == ASSUME General, Inv PROVE Paired
<1>1. TypeOK /\ Unique /\ Described
  BY DEF General, Inv
<1>2. ASSUME NEW c \in Conn, remote[c] # None
      PROVE  /\ Opposite(remote[c], c) /\ remote[c] \in Conn
             /\ remote[remote[c]] \in {c, None}
             /\ role[c] = "caller" => remote[remote[c]] = c
  <2>1. Opposite(remote[c], c) /\ remote[c] \in Conn
    BY <1>1, <1>2 DEF Described, Opposite, Made
  <2>2. remote[remote[c]] # None => Opposite(remote[remote[c]], remote[c])
    BY <1>1, <2>1 DEF Described
  <2>3. remote[remote[c]] # None => remote[remote[c]] = c
    BY <1>1, <2>1, <2>2, OneEnd, OppositeBack
  <2>4. role[c] = "caller" => remote[remote[c]] # None
    BY <1>1, <1>2 DEF Described
  <2>5. QED
    BY <2>1, <2>3, <2>4
<1>3. AnswersReachCaller
  BY <1>2 DEF AnswersReachCaller
<1>4. OffersReachOneEnd
  <2> SUFFICES ASSUME NEW d \in Made, NEW e \in Made, remote[d] = remote[e], remote[d] # None
               PROVE  d = e
    BY DEF OffersReachOneEnd
  <2>1. d \in Conn /\ e \in Conn
    BY DEF Made
  <2>2. Opposite(d, remote[d]) /\ Opposite(e, remote[d])
    BY <1>2, <2>1, OppositeBack
  <2>3. QED
    BY <1>1, <2>2, OneEnd
<1>5. QED
  BY <1>2, <1>3, <1>4 DEF Paired, Opposite

LEMMA InitInv == ASSUME Init PROVE Inv
<1>1. Made = {}
  BY DEF Init, Made
<1>2. /\ \A c \in Conn : ~Caller(c) /\ ~Callee(c)
      /\ \A c, d : ~Opposite(c, d)
  BY <1>1 DEF Caller, Callee, Opposite
<1>3. /\ \A pair \in Users \X Users : net[pair] = <<>> /\ Members(net[pair]) = {}
      /\ \A c \in Conn : /\ todo[c] = <<>> /\ Members(todo[c]) = {} /\ Members(onPage[c]) = {}
                         /\ Dos(todo[c]) = {} /\ remote[c] = None
  BY EmptyQueue, NoTasks DEF Init
<1>4. Unique /\ Posted /\ Given /\ Described
  BY <1>1, <1>2, <1>3 DEF Unique, Posted, Given, Described
<1>5. Offering /\ Starting /\ OneOffer
  <2>1. Once(<<>>, Offered)
    BY NoKeys
  <2>2. QED
    BY <1>2, <1>3, <2>1, NoTasks DEF Offering, Starting, OneOffer
<1>6. AnswerMade /\ Answered
  BY <1>2 DEF AnswerMade, Answered
<1>7. TasksFollow /\ MessagesFollow
  BY <1>2, <1>3 DEF TasksFollow, MessagesFollow, Leads
<1>8. CandidatesFollowDescriptions
  BY DEF Init, CandidatesFollowDescriptions
<1>9. QED
  BY <1>4, <1>5, <1>6, <1>7, <1>8 DEF Inv

-----------------------------------------------------------------------------
(* Steps that change little.                                                *)

LEMMA EndsKept ==
  ASSUME UNCHANGED <<user, peer, role>>
  PROVE  /\ Made' = Made /\ (Unique => Unique')
         /\ \A c : /\ Caller(c)' <=> Caller(c)
                   /\ Callee(c)' <=> Callee(c)
                   /\ Pair(c)' = Pair(c) /\ Back(c)' = Back(c)
         /\ \A c, d : Opposite(c, d)' <=> Opposite(c, d)
<1>1. Made' = Made
  BY DEF Made
<1>2. \A c : /\ Caller(c)' <=> Caller(c)
             /\ Callee(c)' <=> Callee(c)
             /\ Pair(c)' = Pair(c) /\ Back(c)' = Back(c)
  BY <1>1 DEF Caller, Callee, Pair, Back
<1>3. \A c, d : Opposite(c, d)' <=> Opposite(c, d)
  BY <1>1 DEF Opposite
<1>4. Unique => Unique'
  BY <1>1, <1>2 DEF Unique
<1>5. QED
  BY <1>1, <1>2, <1>3, <1>4

LEMMA NetKept ==
  ASSUME UNCHANGED <<user, peer, role, net>>
  PROVE  /\ \A c : Sent(c)' <=> Sent(c)
         /\ OneOffer => OneOffer'
<1>1. /\ \A c : Callee(c)' <=> Callee(c)
      /\ \A c : Pair(c)' = Pair(c) /\ Back(c)' = Back(c)
      /\ \A c, d : Opposite(c, d)' <=> Opposite(c, d)
  BY EndsKept
<1>2. QED
  BY <1>1 DEF Sent, OneOffer

LEMMA ListShrinks ==
  ASSUME General, Inv,
         UNCHANGED <<user, peer, role, open, todo, onPage, awaiting, sig, remote, offers, refused, stray, net>>,
         \A u \in Users : list'[u] \subseteq list[u]
  PROVE  Inv'
<1>1. /\ Made' = Made /\ Unique'
      /\ \A c : /\ Caller(c)' <=> Caller(c)
                /\ Callee(c)' <=> Callee(c)
                /\ Pair(c)' = Pair(c) /\ Back(c)' = Back(c)
      /\ \A c, d : Opposite(c, d)' <=> Opposite(c, d)
  BY EndsKept DEF Inv
<1>2. (\A c : Sent(c)' <=> Sent(c)) /\ OneOffer'
  BY NetKept DEF Inv
<1>3. \A c : Told(c)' <=> Told(c)
  BY DEF Told
<1>4. Posted' /\ Given' /\ Described'
  BY <1>1 DEF Inv, Posted, Given, Described
<1>5. Offering' /\ Starting'
  BY <1>1, <1>2 DEF Inv, Offering, Starting
<1>6. AnswerMade' /\ TasksFollow' /\ CandidatesFollowDescriptions'
  BY <1>1, <1>3 DEF Inv, AnswerMade, TasksFollow, CandidatesFollowDescriptions
<1>7. \A c : c \in Made => user[c] \in Users
  BY DEF General, Lists
<1>8. Answered'
  <2> SUFFICES ASSUME NEW c \in Conn, NEW d \in Conn, Callee(d), Opposite(c, d),
                      sig[d] = "stable", remote[d] # None, c \in list'[user[c]]
               PROVE  Told(c) \/ "answer" \in Types(net[Pair(d)])
    BY <1>1, <1>3 DEF Answered
  <2>1. c \in list[user[c]]
    BY <1>7 DEF Opposite
  <2>2. QED
    BY <2>1 DEF Inv, Answered
<1>9. MessagesFollow'
  <2> SUFFICES ASSUME NEW c \in Conn, Caller(c), ~Told(c), c \in list'[user[c]]
               PROVE  Leads(net[Back(c)], AnswerMessages, CandidateMessages)
    BY <1>1, <1>3 DEF MessagesFollow
  <2>1. c \in list[user[c]]
    BY <1>7 DEF Caller
  <2>2. QED
    BY <2>1 DEF Inv, MessagesFollow
<1>10. QED
  BY <1>1, <1>2, <1>4, <1>5, <1>6, <1>8, <1>9 DEF Inv

LEMMA StutterInv == ASSUME General, Inv, UNCHANGED vars PROVE Inv'
BY ListShrinks DEF vars, own, page

LEMMA CameraInv == ASSUME General, Inv, NEW u \in Users, CameraAnswers(u) PROVE Inv'
BY ListShrinks DEF CameraAnswers, own, page

LEMMA FailedInv == ASSUME General, Inv, NEW c \in Conn, IceFails(c) PROVE Inv'
<1>1. \A u \in Users : list'[u] \subseteq list[u]
  BY DEF General, TypeOK, IceFails
<1>2. QED
  BY <1>1, ListShrinks DEF IceFails, page

-----------------------------------------------------------------------------
(* Steps of one connection that send nothing.                               *)

AtOne(c) == UNCHANGED <<user, peer, role, list>> /\ \A d \in Conn \ {c} : Untouched(d)
Alone(c) == AtOne(c) /\ net' = net

\* What c has afterwards is what the invariants ask of it.
OriginsKept(c) ==
  /\ \A t \in Members(todo'[c]) \cup Members(onPage'[c]) :
       t \in Members(todo[c]) \cup Members(onPage[c]) \/ t.do \in {"call"} \cup Starts \cup Answers
  /\ remote[c] # None => remote'[c] # None
  /\ remote'[c] # None =>
       Opposite(remote'[c], c) /\ (role[c] = "caller" => remote[remote'[c]] # None)

StartingKept(c) ==
  /\ Once(todo'[c], KeyOf(Starts))
  /\ Dos(todo'[c]) \cap Starts # {} => Caller(c) /\ offers'[c] > 0

OfferingKept(c) ==
  /\ Caller(c) =>
       /\ Sent(c) <=> sig'[c] # "stable" \/ remote'[c] # None
       /\ Sent(c) => c \in open' /\ offers'[c] > 0 /\ Dos(todo'[c]) \cap Starts = {}
  /\ StartingKept(c)

AnswerKept(c) ==
  /\ Told(c) => Told(c)'
  /\ Callee(c) =>
       /\ sig'[c] # "have-local-offer"
       /\ remote'[c] = None =>
            sig'[c] = "stable" /\ c \notin awaiting' /\ Dos(todo'[c]) \cap Answers = {}
  /\ Caller(c) => sig'[c] # "have-remote-offer"

AnsweringKept(c) ==
  /\ AnswerKept(c)
  /\ Callee(c) /\ sig'[c] = "stable" /\ remote'[c] # None => sig[c] = "stable" /\ remote[c] # None

LEMMA AtOneKept ==
  ASSUME General, Inv, NEW c \in Conn, AtOne(c),
         OriginsKept(c), StartingKept(c), AnswerKept(c),
         remote'[c] = None => Leads(todo'[c], Descriptions, Candidates),
         refused' = {}, stray' = {}
  PROVE  /\ Unique' /\ Given' /\ Described' /\ Starting' /\ AnswerMade' /\ TasksFollow'
         /\ CandidatesFollowDescriptions'
         /\ \A d \in Conn : (Told(d) => Told(d)') /\ (remote[d] # None => remote'[d] # None)
<1> USE DEF AtOne
<1>1. /\ Made' = Made /\ Unique'
      /\ \A d : /\ Caller(d)' <=> Caller(d)
                /\ Callee(d)' <=> Callee(d)
                /\ Pair(d)' = Pair(d) /\ Back(d)' = Back(d)
      /\ \A d, e : Opposite(d, e)' <=> Opposite(d, e)
  BY EndsKept DEF Inv
<1>2. \A d \in Conn : Told(d) => Told(d)'
  BY DEF Told, Untouched, AnswerKept
<1>3. \A d \in Conn : remote[d] # None => remote'[d] # None
  BY DEF Untouched, OriginsKept
<1>4. /\ \A d \in Made : d \in Conn
      /\ \A d, e : Opposite(d, e) => d \in Conn /\ e \in Conn
  BY DEF Made, Opposite
<1>5. Given'
  <2> SUFFICES ASSUME NEW d \in Conn, NEW t \in Members(todo'[d]) \cup Members(onPage'[d])
               PROVE  /\ t.do \in {"offer", "answer", "candidate"} => Opposite(t.from, d)
                      /\ t.do = "offer" => role[t.from] = "caller" /\ role[d] = "callee"
                      /\ t.do = "answer" => role[t.from] = "callee" /\ role[d] = "caller"
                                            /\ remote'[t.from] # None
    BY <1>1 DEF Given
  <2>1. t \in Members(todo[d]) \cup Members(onPage[d]) \/ t.do \in {"call"} \cup Starts \cup Answers
    BY DEF Untouched, OriginsKept
  <2>2. CASE t \in Members(todo[d]) \cup Members(onPage[d])
    BY <1>3, <1>4, <2>2 DEF Inv, Given
  <2>3. CASE t.do \in {"call"} \cup Starts \cup Answers
    BY <2>3 DEF Starts, Answers
  <2>4. QED
    BY <2>1, <2>2, <2>3
<1>6. Described'
  <2> SUFFICES ASSUME NEW d \in Conn, remote'[d] # None
               PROVE  Opposite(remote'[d], d) /\ (role[d] = "caller" => remote'[remote'[d]] # None)
    BY <1>1 DEF Described
  <2>1. Opposite(remote'[d], d) /\ (role[d] = "caller" => remote[remote'[d]] # None)
    <3>1. CASE d = c
      BY <3>1 DEF OriginsKept
    <3>2. CASE d # c
      BY <3>2 DEF Untouched, Inv, Described
    <3>3. QED
      BY <3>1, <3>2
  <2>2. QED
    BY <1>3, <1>4, <2>1
<1>7. Starting'
  BY <1>1 DEF Starting, Inv, StartingKept, Untouched
<1>8. AnswerMade'
  <2>1. ASSUME NEW d \in Conn, Callee(d)
        PROVE  /\ Told(d)' /\ sig'[d] # "have-local-offer"
               /\ remote'[d] = None =>
                    sig'[d] = "stable" /\ d \notin awaiting' /\ Dos(todo'[d]) \cap Answers = {}
    <3>1. Told(d)'
      BY <1>2, <2>1 DEF Inv, AnswerMade
    <3>2. CASE d = c
      BY <2>1, <3>1, <3>2 DEF AnswerKept
    <3>3. CASE d # c
      BY <2>1, <3>1, <3>3 DEF Untouched, Inv, AnswerMade
    <3>4. QED
      BY <3>2, <3>3
  <2>2. ASSUME NEW d \in Conn, Caller(d) PROVE sig'[d] # "have-remote-offer"
    BY <2>2 DEF Untouched, Inv, AnswerMade, AnswerKept
  <2>3. QED
    BY <1>1, <2>1, <2>2 DEF AnswerMade
<1>9. TasksFollow'
  <2> SUFFICES ASSUME NEW d \in Conn, remote'[d] = None
               PROVE  Leads(todo'[d], Descriptions, Candidates)
    BY DEF TasksFollow
  <2>1. CASE d # c
    BY <2>1 DEF Untouched, Inv, TasksFollow
  <2>2. QED
    BY <2>1
<1>10. CandidatesFollowDescriptions'
  BY DEF CandidatesFollowDescriptions
<1>11. QED
  BY <1>1, <1>2, <1>3, <1>5, <1>6, <1>7, <1>8, <1>9, <1>10

LEMMA AloneInv ==
  ASSUME General, Inv, NEW c \in Conn, Alone(c),
         OriginsKept(c), OfferingKept(c), AnsweringKept(c),
         remote'[c] = None => Leads(todo'[c], Descriptions, Candidates),
         refused' = {}, stray' = {}
  PROVE  Inv'
<1>1. UNCHANGED <<user, peer, role, list, net>> /\ \A d \in Conn \ {c} : Untouched(d)
  BY DEF Alone, AtOne
<1>2. /\ Made' = Made
      /\ \A d : /\ Caller(d)' <=> Caller(d)
                /\ Callee(d)' <=> Callee(d)
                /\ Pair(d)' = Pair(d) /\ Back(d)' = Back(d)
      /\ \A d, e : Opposite(d, e)' <=> Opposite(d, e)
  BY <1>1, EndsKept
<1>3. (\A d : Sent(d)' <=> Sent(d)) /\ OneOffer'
  BY <1>1, NetKept DEF Inv
<1>4. /\ Unique' /\ Given' /\ Described' /\ Starting' /\ AnswerMade' /\ TasksFollow'
      /\ CandidatesFollowDescriptions'
      /\ \A d \in Conn : (Told(d) => Told(d)') /\ (remote[d] # None => remote'[d] # None)
  BY AtOneKept DEF Alone, OfferingKept, AnsweringKept
<1>5. \A d \in Made : d \in Conn
  BY DEF Made
<1>6. Posted'
  BY <1>1, <1>2, <1>4, <1>5 DEF Inv, Posted
<1>7. Offering'
  <2> SUFFICES ASSUME NEW d \in Conn, Caller(d)
               PROVE  /\ Sent(d) <=> sig'[d] # "stable" \/ remote'[d] # None
                      /\ Sent(d) => d \in open' /\ offers'[d] > 0 /\ Dos(todo'[d]) \cap Starts = {}
    BY <1>1, <1>2, <1>3 DEF Offering
  <2>1. CASE d = c
    BY <2>1 DEF OfferingKept, StartingKept
  <2>2. CASE d # c
    BY <1>1, <2>2 DEF Untouched, Inv, Offering
  <2>3. QED
    BY <2>1, <2>2
<1>8. Answered'
  <2> SUFFICES ASSUME NEW e \in Conn, NEW d \in Conn, Callee(d), Opposite(e, d),
                      sig'[d] = "stable", remote'[d] # None
               PROVE  Told(e)' \/ e \notin list[user[e]] \/ "answer" \in Types(net[Pair(d)])
    BY <1>1, <1>2 DEF Answered
  <2>1. sig[d] = "stable" /\ remote[d] # None
    BY <1>1 DEF AnsweringKept, AnswerKept, Untouched
  <2>2. Told(e) \/ e \notin list[user[e]] \/ "answer" \in Types(net[Pair(d)])
    BY <2>1 DEF Inv, Answered
  <2>3. QED
    BY <1>4, <2>2
<1>9. MessagesFollow'
  <2> SUFFICES ASSUME NEW d \in Conn, Caller(d), ~Told(d)', d \in list[user[d]]
               PROVE  Leads(net[Back(d)], AnswerMessages, CandidateMessages)
    BY <1>1, <1>2 DEF MessagesFollow
  <2>1. ~Told(d)
    BY <1>4
  <2>2. QED
    BY <2>1 DEF Inv, MessagesFollow
<1>10. QED
  BY <1>3, <1>4, <1>6, <1>7, <1>8, <1>9 DEF Inv

LEMMA OpenInv ==
  ASSUME General, Inv, NEW c \in Conn, Open(c)
  PROVE  Inv'
<1>1. TypeOK /\ Sound(c) /\ todo[c] \in Seq(Task) /\ onPage[c] \in Seq(Task) /\ c \in Made
  BY DEF General, TypeOK, Open
<1>2. /\ Members(todo[c] \o onPage[c]) = Members(todo[c]) \cup Members(onPage[c])
      /\ Dos(todo[c] \o onPage[c]) = Dos(todo[c]) \cup Dos(onPage[c])
      /\ \A D : Once(todo[c], KeyOf(D)) /\ Once(onPage[c], KeyOf(D))
                /\ (Dos(todo[c]) \cap D = {} \/ Dos(onPage[c]) \cap D = {}) =>
              Once(todo[c] \o onPage[c], KeyOf(D))
  BY <1>1, TasksJoined
<1>3. /\ todo'[c] = todo[c] \o onPage[c] /\ onPage'[c] = <<>>
      /\ \A d \in Conn \ {c} : todo'[d] = todo[d] /\ onPage'[d] = onPage[d]
      /\ UNCHANGED <<user, peer, role, list, net, awaiting, sig, remote, offers, refused, stray>>
      /\ open' = open \cup {c}
  BY <1>1 DEF TypeOK, Open, own, page
<1>4. Alone(c)
  BY <1>3 DEF Alone, AtOne, Untouched
<1>5. Members(onPage'[c]) = {}
  BY <1>3, EmptyQueue
<1>6. OriginsKept(c)
  BY <1>2, <1>3, <1>5 DEF OriginsKept, Inv, Described
<1>7. Dos(onPage[c]) \subseteq {"call", "answer"}
  BY <1>1 DEF Sound, Paged
<1>8. OfferingKept(c)
  <2>1. Once(onPage[c], KeyOf(Starts))
    <3>1. Keys(onPage[c], KeyOf(Starts)) = {}
      BY <1>1, <1>7, KeysAreDos DEF Starts
    <3>2. QED
      BY <3>1 DEF Once, Keys, Members
  <2>2. Once(todo'[c], KeyOf(Starts))
    <3>1. Dos(onPage[c]) \cap Starts = {} /\ Once(todo[c], KeyOf(Starts))
      BY <1>7 DEF Starts, Inv, Starting
    <3>2. QED
      BY <1>2, <1>3, <2>1, <3>1
  <2>3. Dos(todo'[c]) \cap Starts = Dos(todo[c]) \cap Starts
    BY <1>2, <1>3, <1>7 DEF Starts
  <2>4. QED
    BY <1>3, <2>2, <2>3 DEF OfferingKept, StartingKept, Inv, Offering, Starting
<1>9. AnsweringKept(c)
  <2>1. Dos(todo'[c]) \cap Answers = Dos(todo[c]) \cap Answers
    BY <1>2, <1>3, <1>7 DEF Answers
  <2>2. Told(c) => Told(c)'
    BY <1>2, <1>3 DEF Told
  <2>3. QED
    BY <1>3, <2>1, <2>2 DEF AnsweringKept, AnswerKept, Inv, AnswerMade
<1>10. ASSUME remote'[c] = None PROVE Leads(todo'[c], Descriptions, Candidates)
  <2>1. Leads(todo[c], Descriptions, Candidates)
    BY <1>3, <1>10 DEF Inv, TasksFollow
  <2>2. Members(onPage[c]) \cap Candidates = {}
    BY <1>7 DEF Candidates, Dos
  <2>3. QED
    BY <1>1, <1>3, <2>1, <2>2, ConcatLeads
<1>11. refused' = {} /\ stray' = {}
  BY <1>3 DEF Inv, CandidatesFollowDescriptions
<1>12. QED
  BY <1>4, <1>6, <1>8, <1>9, <1>10, <1>11, AloneInv

\* c does nothing but take up what it asked its own page for.
LEMMA AddedInv ==
  ASSUME General, Inv, NEW c \in Conn, NEW what \in Starts \cup Answers, Alone(c),
         todo' = [todo EXCEPT ![c] = Append(@, Do(what))],
         what \in Starts => Caller(c) /\ ~Sent(c) /\ offers'[c] > 0 /\ Dos(todo[c]) \cap Starts = {},
         what \in Answers => Callee(c) /\ remote[c] # None /\ offers'[c] = offers[c],
         UNCHANGED <<open, onPage, sig, remote, refused, stray>>,
         awaiting' \subseteq awaiting
  PROVE  Inv'
<1>1. TypeOK /\ todo[c] \in Seq(Task) /\ Sound(c)
  BY DEF General, TypeOK
<1>2. /\ Do(what) \in Task /\ Do(what).do = what
      /\ todo'[c] = Append(todo[c], Do(what))
      /\ Members(todo'[c]) = Members(todo[c]) \cup {Do(what)}
      /\ Dos(todo'[c]) = Dos(todo[c]) \cup {what}
      /\ \A D : Once(todo[c], KeyOf(D)) /\ (what \in D => Dos(todo[c]) \cap D = {}) =>
           Once(todo'[c], KeyOf(D))
  BY <1>1, EnqueuedDo
<1>3. OriginsKept(c)
  BY <1>2 DEF OriginsKept, Inv, Described
<1>4. Once(todo'[c], KeyOf(Starts))
  BY <1>2 DEF Inv, Starting
<1>5. OfferingKept(c)
  <2>1. what \in Starts \/ (what \notin Starts /\ what \in Answers)
    OBVIOUS
  <2>2. CASE what \in Starts
    BY <1>4, <2>2 DEF OfferingKept, StartingKept, Inv, Offering
  <2>3. CASE what \notin Starts /\ what \in Answers
    <3>1. Dos(todo'[c]) \cap Starts = Dos(todo[c]) \cap Starts
      BY <1>2, <2>3
    <3>2. QED
      BY <1>4, <2>3, <3>1 DEF OfferingKept, StartingKept, Inv, Offering, Starting
  <2>4. QED
    BY <2>1, <2>2, <2>3
<1>6. AnsweringKept(c)
  <2>1. Told(c) => Told(c)'
    BY <1>2 DEF Told
  <2>2. Callee(c) => what \in Answers
    BY DEF Callee, Caller
  <2>3. QED
    BY <2>1, <2>2 DEF AnsweringKept, AnswerKept, Inv, AnswerMade
<1>7. ASSUME remote'[c] = None PROVE Leads(todo'[c], Descriptions, Candidates)
  <2>1. Leads(todo[c], Descriptions, Candidates)
    BY <1>7 DEF Inv, TasksFollow
  <2>2. Do(what) \notin Candidates
    BY <1>2 DEF Candidates, Starts, Answers
  <2>3. QED
    BY <1>1, <1>2, <2>1, <2>2, AppendLeads
<1>8. refused' = {} /\ stray' = {}
  BY DEF Inv, CandidatesFollowDescriptions
<1>9. QED
  BY <1>3, <1>5, <1>6, <1>7, <1>8, AloneInv

LEMMA StreamInv ==
  ASSUME General, Inv, NEW c \in Conn, StreamAnswers(c)
  PROVE  Inv'
<1>1. TypeOK /\ Sound(c) /\ c \in awaiting /\ c \in Made
      /\ UNCHANGED <<user, peer, role, list, open, onPage, sig, remote, refused, stray, net>>
      /\ awaiting' = awaiting \ {c}
  BY DEF General, StreamAnswers, own, Sound, Blank
<1>2. CASE UNCHANGED <<todo, offers>>
  <2>1. Alone(c)
    BY <1>1, <1>2 DEF Alone, AtOne, Untouched
  <2>2. OriginsKept(c)
    BY <1>1, <1>2 DEF OriginsKept, Inv, Described
  <2>3. OfferingKept(c)
    BY <1>1, <1>2 DEF OfferingKept, StartingKept, Inv, Offering, Starting
  <2>4. AnsweringKept(c)
    BY <1>1, <1>2 DEF AnsweringKept, AnswerKept, Told, Inv, AnswerMade
  <2>5. QED
    BY <1>1, <1>2, <2>1, <2>2, <2>3, <2>4, AloneInv DEF Inv, TasksFollow, CandidatesFollowDescriptions
<1>3. CASE /\ role[c] = "callee" /\ UNCHANGED offers
           /\ todo' = [todo EXCEPT ![c] = Append(@, Do("createAnswer"))]
  <2>1. Alone(c)
    BY <1>1, <1>3 DEF Alone, AtOne, Untouched, TypeOK
  <2>2. "createAnswer" \in Answers /\ "createAnswer" \notin Starts
    BY DEF Answers, Starts
  <2>3. Callee(c) /\ remote[c] # None
    BY <1>1, <1>3 DEF Callee, Inv, AnswerMade
  <2>4. QED
    BY <1>1, <1>3, <2>1, <2>2, <2>3, AddedInv
<1>4. CASE /\ role[c] = "caller" /\ offers' = [offers EXCEPT ![c] = @ + 1]
           /\ todo' = [todo EXCEPT ![c] = Append(@, Do("createOffer"))]
  <2>1. Alone(c)
    BY <1>1, <1>4 DEF Alone, AtOne, Untouched, TypeOK
  <2>2. "createOffer" \in Starts /\ "createOffer" \notin Answers
    BY DEF Answers, Starts
  <2>3. offers[c] = 0 /\ sig[c] = "stable" /\ remote[c] = None /\ Dos(todo[c]) \cap Starts = {}
    BY <1>1, <1>4 DEF Sound, Counts
  <2>4. Caller(c) /\ ~Sent(c) /\ offers'[c] > 0
    BY <1>1, <1>4, <2>3 DEF Caller, Inv, Offering, TypeOK
  <2>5. QED
    BY <1>1, <1>4, <2>1, <2>2, <2>3, <2>4, AddedInv
<1>5. QED
  BY <1>2, <1>3, <1>4 DEF StreamAnswers

\* A call that was negotiated is not negotiated again.
LEMMA NegotiationNever ==
  ASSUME General, Inv, OneCallEach, NEW c \in Conn
  PROVE  ~NegotiationNeeded(c)
<1> SUFFICES ASSUME NegotiationNeeded(c) PROVE FALSE
  OBVIOUS
<1>1. /\ c \in open /\ sig[c] = "stable" /\ remote[c] # None /\ offers[c] \in Nat
      /\ offers[c] < IF role[c] = "caller" THEN 1 ELSE 0
  <2>1. offers[c] \in 0 .. MaxRenegotiate + 1 /\ MaxRenegotiate = 0
    BY DEF General, TypeOK, OneCallEach
  <2>2. QED
    BY <2>1 DEF NegotiationNeeded
<1>2. role[c] = "caller" /\ offers[c] = 0
  BY <1>1
<1>3. Caller(c)
  BY <1>1, <1>2 DEF Caller, General, Sound, Blank
<1>4. QED
  BY <1>1, <1>2, <1>3 DEF Inv, Offering

LEMMA PerformAlone ==
  ASSUME General, NEW c \in Conn, c \in open, todo[c] # <<>>, UNCHANGED <<own, open, onPage, camera>>,
         \A d \in Conn \ {c} :
           /\ todo'[d] = todo[d] /\ sig'[d] = sig[d] /\ remote'[d] = remote[d] /\ offers'[d] = offers[d]
           /\ d \in awaiting' <=> d \in awaiting
  PROVE  net' = net => Alone(c)
BY DEF Alone, AtOne, Untouched, own

\* The first task of c is done, and those behind it remain.
Done(c) ==
  /\ c \in open /\ c \in Made
  /\ todo' \in [Conn -> Seq(Task)] /\ Head(todo[c]) \in Task
  /\ \A d \in Conn \ {c} : todo'[d] = todo[d]
  /\ todo'[c] = Tail(todo[c]) /\ todo[c] \in Seq(Task)
  /\ Head(todo[c]) \in Members(todo[c]) /\ Members(todo'[c]) \subseteq Members(todo[c])
  /\ Dos(todo'[c]) \subseteq Dos(todo[c])
  /\ Dos(todo[c]) = Dos(todo'[c]) \cup {Head(todo[c]).do}
  /\ Once(todo'[c], KeyOf(Starts))
  /\ Head(todo[c]).do \in Starts => Dos(todo'[c]) \cap Starts = {}
  /\ Head(todo[c]) \notin Descriptions /\ remote[c] = None =>
       Leads(todo'[c], Descriptions, Candidates)

LEMMA TailDone ==
  ASSUME General, Inv, NEW c \in Conn, c \in open, todo[c] # <<>>,
         todo' = [todo EXCEPT ![c] = Tail(@)]
  PROVE  Done(c)
<1>1. TypeOK /\ c \in Made /\ todo[c] \in Seq(Task)
  BY DEF General, Sound, Blank, TypeOK
<1>2. /\ todo' \in [Conn -> Seq(Task)] /\ Head(todo[c]) \in Task
      /\ todo'[c] = Tail(todo[c]) /\ (\A d \in Conn \ {c} : todo'[d] = todo[d])
      /\ Members(todo[c]) = Members(todo'[c]) \cup {Head(todo[c])}
      /\ Dos(todo[c]) = Dos(todo'[c]) \cup {Head(todo[c]).do}
      /\ \A D : Once(todo[c], KeyOf(D)) =>
           Once(todo'[c], KeyOf(D)) /\ (Head(todo[c]).do \in D => Dos(todo'[c]) \cap D = {})
  BY <1>1, Dequeued
<1>3. Once(todo[c], KeyOf(Starts))
  BY DEF Inv, Starting
<1>4. ASSUME Head(todo[c]) \notin Descriptions, remote[c] = None
      PROVE  Leads(todo'[c], Descriptions, Candidates)
  <2>1. Leads(todo[c], Descriptions, Candidates)
    BY <1>4 DEF Inv, TasksFollow
  <2>2. QED
    BY <1>1, <1>2, <1>4, <2>1, TailLeads
<1>5. Once(todo'[c], KeyOf(Starts)) /\ (Head(todo[c]).do \in Starts => Dos(todo'[c]) \cap Starts = {})
  BY <1>2, <1>3
<1>6. QED
  BY <1>1, <1>2, <1>4, <1>5 DEF Done

LEMMA BeginInv ==
  ASSUME General, Inv, NEW c \in Conn, c \in open, todo[c] # <<>>, UNCHANGED <<own, open, onPage, camera>>,
         BeginCall(c)
  PROVE  Inv'
<1>1. Done(c) /\ TypeOK /\ Sound(c)
  BY TailDone DEF BeginCall, General
<1>2. /\ Head(todo[c]).do = "call" /\ awaiting' = awaiting \cup {c}
      /\ UNCHANGED <<sig, remote, offers, refused, stray, net>>
  BY DEF BeginCall, page
<1>3. Alone(c)
  BY <1>1, <1>2, PerformAlone DEF Done
<1>4. OriginsKept(c)
  BY <1>1, <1>2 DEF OriginsKept, Inv, Described, Done
<1>5. OfferingKept(c)
  BY <1>1, <1>2 DEF OfferingKept, StartingKept, Inv, Offering, Starting, Done
<1>6. ~Callee(c)
  BY <1>1, <1>2 DEF Callee, Sound, RoleTasks, Calling, Done
<1>7. AnsweringKept(c)
  BY <1>1, <1>2, <1>6 DEF AnsweringKept, AnswerKept, Inv, AnswerMade, Told, Done
<1>8. Head(todo[c]) \notin Descriptions
  BY <1>2 DEF Descriptions
<1>9. QED
  BY <1>1, <1>2, <1>3, <1>4, <1>5, <1>7, <1>8, AloneInv DEF Inv, CandidatesFollowDescriptions, Done

LEMMA RemoteOfferInv ==
  ASSUME General, Inv, NEW c \in Conn, c \in open, todo[c] # <<>>, UNCHANGED <<own, open, onPage, camera>>,
         SetRemoteOffer(c)
  PROVE  Inv'
<1>1. Done(c) /\ TypeOK
  BY TailDone DEF SetRemoteOffer, General
<1>2. /\ Head(todo[c]).do = "offer" /\ awaiting' = awaiting \cup {c}
      /\ sig' = [sig EXCEPT ![c] = "have-remote-offer"]
      /\ remote' = [remote EXCEPT ![c] = Head(todo[c]).from]
      /\ UNCHANGED <<offers, refused, stray, net>>
  BY DEF SetRemoteOffer
<1>3. Opposite(Head(todo[c]).from, c) /\ role[c] = "callee"
  BY <1>1, <1>2 DEF Done, Inv, Given
<1>4. sig'[c] = "have-remote-offer" /\ remote'[c] = Head(todo[c]).from /\ remote'[c] # None
  BY <1>1, <1>2, <1>3 DEF TypeOK, Opposite, Made, Conn, None
<1>5. Alone(c)
  <2>1. \A d \in Conn \ {c} : sig'[d] = sig[d] /\ remote'[d] = remote[d]
    BY <1>1, <1>2 DEF TypeOK
  <2>2. QED
    BY <1>1, <1>2, <2>1, PerformAlone DEF Done
<1>6. OriginsKept(c)
  BY <1>1, <1>2, <1>3, <1>4 DEF OriginsKept, Done
<1>7. ~Caller(c)
  BY <1>3 DEF Caller
<1>8. OfferingKept(c)
  BY <1>1, <1>2, <1>7 DEF OfferingKept, StartingKept, Inv, Starting, Done
<1>9. AnsweringKept(c)
  BY <1>4, <1>7 DEF AnsweringKept, AnswerKept, Told
<1>10. QED
  BY <1>2, <1>4, <1>5, <1>6, <1>8, <1>9, AloneInv DEF Inv, CandidatesFollowDescriptions

LEMMA RemoteAnswerInv ==
  ASSUME General, Inv, NEW c \in Conn, c \in open, todo[c] # <<>>, UNCHANGED <<own, open, onPage, camera>>,
         SetRemoteAnswer(c)
  PROVE  Inv'
<1>1. Done(c) /\ TypeOK
  BY TailDone DEF SetRemoteAnswer, General
<1>2. /\ Head(todo[c]).do = "answer" /\ UNCHANGED <<awaiting, offers, refused, stray, net>>
  BY DEF SetRemoteAnswer
<1> DEFINE d == Head(todo[c]).from
<1>3. Opposite(d, c) /\ role[d] = "callee" /\ role[c] = "caller" /\ remote[d] # None
  BY <1>1, <1>2 DEF Done, Inv, Given
<1>4. Caller(c) /\ Callee(d) /\ d \in Conn /\ d # None /\ ~Callee(c)
  BY <1>1, <1>3 DEF Done, Caller, Callee, Opposite, Made, Conn, None
<1>5. Sent(c)
  BY <1>3, <1>4, OppositeBack DEF Sent
<1>6. /\ remote'[c] # None /\ remote'[c] \in {d, remote[c]} /\ sig'[c] # "have-remote-offer"
      /\ \A e \in Conn \ {c} : sig'[e] = sig[e] /\ remote'[e] = remote[e]
  <2>1. CASE sig' = [sig EXCEPT ![c] = "stable"] /\ remote' = [remote EXCEPT ![c] = d]
    BY <1>1, <1>4, <2>1 DEF TypeOK
  <2>2. CASE sig[c] # "have-local-offer" /\ UNCHANGED <<sig, remote>>
    <3>1. sig[c] # "stable" \/ remote[c] # None
      BY <1>4, <1>5 DEF Inv, Offering
    <3>2. sig[c] = "stable"
      BY <1>1, <1>4, <2>2 DEF Inv, AnswerMade, TypeOK, Sigs
    <3>3. QED
      BY <2>2, <3>1, <3>2
  <2>3. QED
    BY <2>1, <2>2 DEF SetRemoteAnswer
<1>7. Alone(c)
  BY <1>1, <1>2, <1>6, PerformAlone DEF Done
<1> HIDE DEF d
<1>8. OriginsKept(c)
  BY <1>1, <1>2, <1>3, <1>6 DEF OriginsKept, Done, Inv, Described
<1>9. OfferingKept(c)
  BY <1>1, <1>2, <1>4, <1>5, <1>6 DEF OfferingKept, StartingKept, Inv, Offering, Starting, Done
<1>10. AnsweringKept(c)
  BY <1>4, <1>6 DEF AnsweringKept, AnswerKept, Told
<1>11. QED
  BY <1>2, <1>6, <1>7, <1>8, <1>9, <1>10, AloneInv DEF Inv, CandidatesFollowDescriptions

LEMMA CandidateInv ==
  ASSUME General, Inv, NEW c \in Conn, c \in open, todo[c] # <<>>, UNCHANGED <<own, open, onPage, camera>>,
         AddCandidate(c)
  PROVE  Inv'
<1>1. Done(c) /\ TypeOK
  BY TailDone DEF AddCandidate, General
<1>2. /\ Head(todo[c]).do = "candidate" /\ UNCHANGED <<awaiting, sig, remote, offers, net>>
  BY DEF AddCandidate
<1>3. remote[c] # None
  <2>1. Head(todo[c]) \in Candidates
    BY <1>1, <1>2 DEF Done, Candidates
  <2>2. Leads(todo[c], Descriptions, Candidates) => Head(todo[c]) \notin Candidates
    BY <1>1, TailLeads DEF Done
  <2>3. QED
    BY <2>1, <2>2 DEF Inv, TasksFollow
<1>4. remote[c] = Head(todo[c]).from
  <2>1. Opposite(Head(todo[c]).from, c)
    BY <1>1, <1>2 DEF Done, Inv, Given
  <2>2. Opposite(remote[c], c) /\ Unique
    BY <1>3 DEF Inv, Described
  <2>3. QED
    BY <2>1, <2>2, OneEnd
<1>5. refused' = {} /\ stray' = {}
  BY <1>3, <1>4 DEF AddCandidate, Inv, CandidatesFollowDescriptions
<1>6. Alone(c)
  BY <1>1, <1>2, PerformAlone DEF Done
<1>7. OriginsKept(c)
  BY <1>1, <1>2 DEF OriginsKept, Inv, Described, Done
<1>8. OfferingKept(c)
  BY <1>1, <1>2 DEF OfferingKept, StartingKept, Inv, Offering, Starting, Done
<1>9. AnsweringKept(c)
  BY <1>1, <1>2, <1>3 DEF AnsweringKept, AnswerKept, Inv, AnswerMade, Told, Done
<1>10. QED
  BY <1>2, <1>3, <1>5, <1>6, <1>7, <1>8, <1>9, AloneInv

\* c makes an offer or an answer, and will set it.
LEMMA RenewedInv ==
  ASSUME General, Inv, NEW c \in Conn, c \in open, todo[c] # <<>>, UNCHANGED <<own, open, onPage, camera>>,
         NEW what \in Starts \cup Answers, todo' = [todo EXCEPT ![c] = Append(Tail(@), Do(what))],
         Head(todo[c]).do \in Starts \cup Answers,
         what \in Starts <=> Head(todo[c]).do \in Starts,
         UNCHANGED <<awaiting, page, net>>
  PROVE  Inv'
<1>1. TypeOK /\ todo[c] \in Seq(Task)
  BY DEF General, TypeOK
<1>2. /\ \A d \in Conn \ {c} : todo'[d] = todo[d]
      /\ Head(todo[c]) \in Task /\ Tail(todo[c]) \in Seq(Task)
      /\ todo'[c] = Append(Tail(todo[c]), Do(what)) /\ Do(what) \in Task /\ Do(what).do = what
      /\ Members(todo'[c]) \cup {Head(todo[c])} = Members(todo[c]) \cup {Do(what)}
      /\ Dos(todo'[c]) \cup {Head(todo[c]).do} = Dos(todo[c]) \cup {what}
      /\ \A D : Once(todo[c], KeyOf(D)) /\ (what \in D => Head(todo[c]).do \in D) =>
           Once(todo'[c], KeyOf(D))
  BY <1>1, ReplacedDo
<1>3. UNCHANGED <<sig, remote, offers, refused, stray>> /\ Head(todo[c]) \in Members(todo[c])
  BY <1>1, TailMembers DEF page
<1>4. Head(todo[c]).do \in Dos(todo[c])
  BY <1>3 DEF Dos
<1>5. Alone(c)
  BY <1>2, <1>3, PerformAlone
<1>6. OriginsKept(c)
  BY <1>2, <1>3 DEF OriginsKept, Inv, Described
<1>7. /\ Dos(todo'[c]) \cap Starts # {} => Dos(todo[c]) \cap Starts # {}
      /\ Dos(todo'[c]) \cap Answers # {} => Dos(todo[c]) \cap Answers # {}
  BY <1>2, <1>4 DEF Starts, Answers
<1>8. OfferingKept(c)
  <2>1. Once(todo'[c], KeyOf(Starts))
    BY <1>2 DEF Inv, Starting
  <2>2. QED
    BY <1>3, <1>7, <2>1 DEF OfferingKept, StartingKept, Inv, Offering, Starting
<1>9. AnsweringKept(c)
  <2>1. Told(c) => Told(c)'
    BY <1>2, <1>3 DEF Told, Starts, Answers
  <2>2. QED
    BY <1>3, <1>7, <2>1 DEF AnsweringKept, AnswerKept, Inv, AnswerMade
<1>10. ASSUME remote'[c] = None PROVE Leads(todo'[c], Descriptions, Candidates)
  <2>1. Leads(todo[c], Descriptions, Candidates)
    BY <1>3, <1>10 DEF Inv, TasksFollow
  <2>2. Head(todo[c]) \notin Descriptions /\ Do(what) \notin Candidates
    BY <1>2 DEF Descriptions, Candidates, Starts, Answers
  <2>3. Leads(Tail(todo[c]), Descriptions, Candidates)
    BY <1>1, <2>1, <2>2, TailLeads
  <2> DEFINE q == Tail(todo[c])
             t == Do(what)
  <2>4. q \in Seq(Task) /\ t \in Task /\ t \notin Candidates /\ Leads(q, Descriptions, Candidates)
    BY <1>2, <2>2, <2>3
  <2> HIDE DEF q, t
  <2>5. Leads(Append(q, t), Descriptions, Candidates)
    BY <2>4, AppendLeads
  <2>6. QED
    BY <1>2, <2>5 DEF q, t
<1>11. QED
  BY <1>3, <1>5, <1>6, <1>8, <1>9, <1>10, AloneInv DEF Inv, CandidatesFollowDescriptions

LEMMA OfferInv ==
  ASSUME General, Inv, NEW c \in Conn, c \in open, todo[c] # <<>>, UNCHANGED <<own, open, onPage, camera>>,
         CreateOffer(c)
  PROVE  Inv'
<1>1. {"createOffer", "setLocalOffer"} \subseteq Starts
  BY DEF Starts
<1>2. QED
  BY <1>1, RenewedInv DEF CreateOffer

LEMMA AnswerInv ==
  ASSUME General, Inv, NEW c \in Conn, c \in open, todo[c] # <<>>, UNCHANGED <<own, open, onPage, camera>>,
         CreateAnswer(c)
  PROVE  Inv'
<1>1. {"createAnswer", "setLocalAnswer"} \subseteq Answers \ Starts
  BY DEF Starts, Answers
<1>2. QED
  BY <1>1, RenewedInv DEF CreateAnswer

-----------------------------------------------------------------------------
(* Steps of one connection that send.                                       *)

LEMMA MessageAdded ==
  ASSUME NEW q \in Seq(Message), NEW m \in Message
  PROVE  /\ Append(q, m) \in Seq(Message)
         /\ Members(Append(q, m)) = Members(q) \cup {m}
         /\ Types(Append(q, m)) = Types(q) \cup {m.type}
         /\ Once(q, Offered) /\ (m.type = "offer" => "offer" \notin Types(q)) =>
              Once(Append(q, m), Offered)
         /\ Leads(q, AnswerMessages, CandidateMessages)
              /\ (m.type = "candidate" => "answer" \in Types(q)) =>
              Leads(Append(q, m), AnswerMessages, CandidateMessages)
<1>1. Append(q, m) \in Seq(Message) /\ Members(Append(q, m)) = Members(q) \cup {m}
  BY AppendMembers
<1>2. Types(Append(q, m)) = Types(q) \cup {m.type}
  BY <1>1 DEF Types
<1>3. ASSUME Once(q, Offered), m.type = "offer" => "offer" \notin Types(q)
      PROVE  Once(Append(q, m), Offered)
  <2>1. m \in DOMAIN Offered => m.type = "offer"
    BY DEF Offered
  <2>2. "offer" \notin Types(q) => Keys(q, Offered) = {}
    BY DEF Types, Keys, Offered
  <2>3. m \in DOMAIN Offered => Offered[m] \notin Keys(q, Offered)
    BY <1>3, <2>1, <2>2
  <2>4. QED
    BY <1>3, <2>3, AppendOnce
<1>4. ASSUME Leads(q, AnswerMessages, CandidateMessages), m.type = "candidate" => "answer" \in Types(q)
      PROVE  Leads(Append(q, m), AnswerMessages, CandidateMessages)
  <2>1. Members(q) \subseteq Message
    BY MembersType
  <2>2. "answer" \in Types(q) => Members(q) \cap AnswerMessages # {}
    BY <2>1 DEF Types, AnswerMessages
  <2>3. m \in CandidateMessages => Members(q) \cap AnswerMessages # {}
    BY <1>4, <2>2 DEF CandidateMessages
  <2>4. QED
    BY <1>4, <2>3, AppendLeads
<1>5. QED
  BY <1>1, <1>2, <1>3, <1>4

LEMMA MessageTaken ==
  ASSUME NEW q \in Seq(Message), q # <<>>
  PROVE  /\ Tail(q) \in Seq(Message) /\ Head(q) \in Message
         /\ Members(q) = Members(Tail(q)) \cup {Head(q)}
         /\ Types(q) = Types(Tail(q)) \cup {Head(q).type}
         /\ Once(q, Offered) =>
              Once(Tail(q), Offered) /\ (Head(q).type = "offer" => "offer" \notin Types(Tail(q)))
         /\ Leads(q, AnswerMessages, CandidateMessages) =>
              /\ Head(q).type # "candidate"
              /\ Head(q).type # "answer" => Leads(Tail(q), AnswerMessages, CandidateMessages)
<1>1. /\ Tail(q) \in Seq(Message) /\ Head(q) \in Message
      /\ Members(q) = Members(Tail(q)) \cup {Head(q)}
  BY TailMembers
<1>2. Types(q) = Types(Tail(q)) \cup {Head(q).type}
  BY <1>1 DEF Types
<1>3. ASSUME Once(q, Offered)
      PROVE  Once(Tail(q), Offered) /\ (Head(q).type = "offer" => "offer" \notin Types(Tail(q)))
  <2>1. /\ Once(Tail(q), Offered)
        /\ Head(q) \in DOMAIN Offered => Offered[Head(q)] \notin Keys(Tail(q), Offered)
    BY <1>3, TailOnce
  <2>2. ASSUME Head(q).type = "offer" PROVE "offer" \notin Types(Tail(q))
    <3>1. Head(q) \in DOMAIN Offered /\ Offered[Head(q)] = 0
      BY <1>1, <2>2 DEF Offered
    <3>2. Members(Tail(q)) \subseteq Message
      BY <1>1, MembersType
    <3>3. \A m \in Members(Tail(q)) : m.type = "offer" => m \in DOMAIN Offered /\ Offered[m] = 0
      BY <3>2 DEF Offered
    <3>4. QED
      BY <2>1, <3>1, <3>3 DEF Types, Keys
  <2>3. QED
    BY <2>1, <2>2
<1>4. ASSUME Leads(q, AnswerMessages, CandidateMessages)
      PROVE  /\ Head(q).type # "candidate"
             /\ Head(q).type # "answer" => Leads(Tail(q), AnswerMessages, CandidateMessages)
  <2>1. /\ Head(q) \notin CandidateMessages
        /\ Head(q) \notin AnswerMessages => Leads(Tail(q), AnswerMessages, CandidateMessages)
    BY <1>4, TailLeads
  <2>2. QED
    BY <1>1, <2>1 DEF AnswerMessages, CandidateMessages
<1>5. QED
  BY <1>1, <1>2, <1>3, <1>4

\* c sends a message of the given type.
Sends(c, type) ==
  /\ \A pair \in Users \X Users : pair # Pair(c) => net'[pair] = net[pair]
  /\ \E m \in Message : m.type = type /\ m.from = c /\ net'[Pair(c)] = Append(net[Pair(c)], m)

LEMMA SendSends ==
  ASSUME TypeOK, Lists, NEW c \in Made, NEW type \in {"offer", "answer", "candidate"},
         NEW re \in Conn \cup {None}, net' = Send(c, type, re)
  PROVE  Sends(c, type) /\ Pair(c) \in Users \X Users
<1> DEFINE m == [type |-> type, from |-> c, re |-> re]
<1>1. m \in Message /\ m.type = type /\ m.from = c
  BY DEF Message, Made
<1>2. Pair(c) \in Users \X Users
  BY DEF Lists, Pair
<1> HIDE DEF m
<1>3. net' = [net EXCEPT ![Pair(c)] = Append(@, m)]
  BY DEF Send, Pair, m
<1>4. net'[Pair(c)] = Append(net[Pair(c)], m)
  BY <1>2, <1>3 DEF TypeOK
<1>5. \A pair \in Users \X Users : pair # Pair(c) => net'[pair] = net[pair]
  BY <1>3 DEF TypeOK
<1>6. QED
  BY <1>1, <1>2, <1>4, <1>5 DEF Sends

LEMMA SendInv ==
  ASSUME General, Inv, OneCallEach, NEW c \in Conn, c \in Made, AtOne(c),
         OriginsKept(c), StartingKept(c), AnswerKept(c),
         remote'[c] = None => Leads(todo'[c], Descriptions, Candidates),
         refused' = {}, stray' = {},
         NEW type \in {"offer", "answer", "candidate"}, Sends(c, type), Pair(c) \in Users \X Users,
         type = "offer" => Caller(c) /\ ~Sent(c),
         type = "answer" => Callee(c) /\ remote'[c] # None,
         type = "candidate" /\ Callee(c) => sig[c] = "stable" /\ remote[c] # None,
         Caller(c) =>
           /\ Sent(c) \/ type = "offer" <=> sig'[c] # "stable" \/ remote'[c] # None
           /\ Sent(c) \/ type = "offer" =>
                c \in open' /\ offers'[c] > 0 /\ Dos(todo'[c]) \cap Starts = {},
         Callee(c) /\ sig'[c] = "stable" /\ remote'[c] # None =>
           type = "answer" \/ (sig[c] = "stable" /\ remote[c] # None)
  PROVE  Inv'
<1>1. UNCHANGED <<user, peer, role, list>> /\ (\A d \in Conn \ {c} : Untouched(d)) /\ TypeOK /\ Lists
  BY DEF AtOne, General
<1>2. /\ Made' = Made
      /\ \A d : /\ Caller(d)' <=> Caller(d)
                /\ Callee(d)' <=> Callee(d)
                /\ Pair(d)' = Pair(d) /\ Back(d)' = Back(d)
      /\ \A d, e : Opposite(d, e)' <=> Opposite(d, e)
  BY <1>1, EndsKept
<1>3. /\ Unique' /\ Given' /\ Described' /\ Starting' /\ AnswerMade' /\ TasksFollow'
      /\ CandidatesFollowDescriptions'
      /\ \A d \in Conn : (Told(d) => Told(d)') /\ (remote[d] # None => remote'[d] # None)
  BY AtOneKept
<1>4. /\ \A d \in Made : d \in Conn
      /\ \A d : Caller(d) \/ Callee(d) => d \in Made /\ d \in Conn
      /\ \A d \in Made : Pair(d) \in Users \X Users /\ Back(d) \in Users \X Users
  BY <1>1 DEF Made, Caller, Callee, Lists, Pair, Back
<1>5. PICK m \in Message : m.type = type /\ m.from = c /\ net'[Pair(c)] = Append(net[Pair(c)], m)
  BY DEF Sends
<1>6. /\ Members(net'[Pair(c)]) = Members(net[Pair(c)]) \cup {m}
      /\ Types(net'[Pair(c)]) = Types(net[Pair(c)]) \cup {type}
      /\ Once(net[Pair(c)], Offered) /\ (type = "offer" => "offer" \notin Types(net[Pair(c)])) =>
           Once(net'[Pair(c)], Offered)
      /\ Leads(net[Pair(c)], AnswerMessages, CandidateMessages)
           /\ (type = "candidate" => "answer" \in Types(net[Pair(c)])) =>
           Leads(net'[Pair(c)], AnswerMessages, CandidateMessages)
  <2>1. net[Pair(c)] \in Seq(Message)
    BY <1>1 DEF TypeOK
  <2>2. QED
    BY <1>5, <2>1, MessageAdded
<1>7. \A pair \in Users \X Users : pair # Pair(c) => net'[pair] = net[pair]
  BY DEF Sends
<1>8. Posted'
  <2> SUFFICES ASSUME NEW pair \in Users \X Users, NEW n \in Members(net'[pair])
               PROVE  /\ n.from \in Made /\ Pair(n.from) = pair
                      /\ n.type = "offer" => role[n.from] = "caller"
                      /\ n.type = "answer" => role[n.from] = "callee" /\ remote'[n.from] # None
    BY <1>1, <1>2 DEF Posted
  <2>1. CASE n \in Members(net[pair])
    BY <1>3, <1>4, <2>1 DEF Inv, Posted
  <2>2. CASE pair = Pair(c) /\ n = m
    BY <1>5, <2>2 DEF Caller, Callee
  <2>3. QED
    BY <1>6, <1>7, <2>1, <2>2
<1>9. \A d \in Conn : Caller(d) => (Sent(d)' <=> Sent(d) \/ (d = c /\ type = "offer"))
  <2> SUFFICES ASSUME NEW d \in Conn, Caller(d)
               PROVE  Sent(d)' <=> Sent(d) \/ (d = c /\ type = "offer")
    OBVIOUS
  <2>1. Pair(d) = Pair(c) => d = c
    BY <1>4 DEF Inv, Unique, Pair
  <2>2. "offer" \in Types(net'[Pair(d)]) <=>
          "offer" \in Types(net[Pair(d)]) \/ (d = c /\ type = "offer")
    BY <1>4, <1>6, <1>7, <2>1
  <2>3. QED
    BY <1>2, <2>2 DEF Sent
<1>10. Offering'
  <2> SUFFICES ASSUME NEW d \in Conn, Caller(d)
               PROVE  /\ Sent(d)' <=> sig'[d] # "stable" \/ remote'[d] # None
                      /\ Sent(d)' => d \in open' /\ offers'[d] > 0 /\ Dos(todo'[d]) \cap Starts = {}
    BY <1>2 DEF Offering
  <2>1. CASE d = c
    BY <1>9, <2>1
  <2>2. CASE d # c
    BY <1>1, <1>9, <2>2 DEF Untouched, Inv, Offering
  <2>3. QED
    BY <2>1, <2>2
<1>11. OneOffer'
  <2>1. ASSUME NEW pair \in Users \X Users PROVE Once(net'[pair], Offered)
    <3>1. type = "offer" => "offer" \notin Types(net[Pair(c)])
      BY DEF Sent
    <3>2. QED
      BY <1>6, <1>7, <3>1 DEF Inv, OneOffer
  <2>2. ASSUME NEW d \in Conn, Callee(d) PROVE "offer" \notin Types(net'[Back(d)])
    <3>1. "offer" \notin Types(net[Back(d)])
      BY <2>2 DEF Inv, OneOffer
    <3>2. CASE Back(d) = Pair(c)
      <4>1. Opposite(c, d)
        BY <1>4, <2>2, <3>2, OppositeBack
      <4>2. Sent(c)
        BY <2>2, <4>1 DEF Sent
      <4>3. QED
        BY <1>6, <3>1, <3>2, <4>2
    <3>3. CASE Back(d) # Pair(c)
      BY <1>4, <1>7, <2>2, <3>1, <3>3
    <3>4. QED
      BY <3>2, <3>3
  <2>3. QED
    BY <1>2, <2>1, <2>2 DEF OneOffer
<1>12. Answered'
  <2> SUFFICES ASSUME NEW e \in Conn, NEW d \in Conn, Callee(d), Opposite(e, d),
                      sig'[d] = "stable", remote'[d] # None
               PROVE  Told(e)' \/ e \notin list[user[e]] \/ "answer" \in Types(net'[Pair(d)])
    BY <1>1, <1>2 DEF Answered
  <2>1. Types(net[Pair(d)]) \subseteq Types(net'[Pair(d)])
    BY <1>4, <1>6, <1>7
  <2>2. CASE sig[d] = "stable" /\ remote[d] # None
    BY <1>3, <2>1, <2>2 DEF Inv, Answered
  <2>3. CASE d = c /\ type = "answer"
    BY <1>6, <2>3
  <2>4. QED
    BY <1>1, <2>2, <2>3 DEF Untouched
<1>13. MessagesFollow'
  <2> SUFFICES ASSUME NEW d \in Conn, Caller(d), ~Told(d)', d \in list[user[d]]
               PROVE  Leads(net'[Back(d)], AnswerMessages, CandidateMessages)
    BY <1>1, <1>2 DEF MessagesFollow
  <2>1. ~Told(d) /\ Leads(net[Back(d)], AnswerMessages, CandidateMessages)
    BY <1>3 DEF Inv, MessagesFollow
  <2>2. CASE Back(d) # Pair(c)
    BY <1>4, <1>7, <2>1, <2>2
  <2>3. CASE Back(d) = Pair(c)
    <3>1. Opposite(c, d) /\ Opposite(d, c)
      BY <1>4, <2>3, OppositeBack
    <3>2. Callee(c)
      BY <1>1, <3>1, EndsDiffer DEF Inv, Caller, Callee
    <3>3. type = "candidate" => "answer" \in Types(net[Pair(c)])
      BY <2>1, <3>1, <3>2 DEF Inv, Answered
    <3>4. QED
      BY <1>6, <2>1, <2>3, <3>3
  <2>4. QED
    BY <2>2, <2>3
<1>14. QED
  BY <1>3, <1>8, <1>10, <1>11, <1>12, <1>13 DEF Inv

LEMMA FoundInv ==
  ASSUME General, Inv, OneCallEach, NEW c \in Conn, FindCandidate(c)
  PROVE  Inv'
<1>1. /\ TypeOK /\ Lists /\ c \in Made
      /\ net' = Send(c, "candidate", None)
      /\ UNCHANGED <<user, peer, role, list, open, todo, onPage, awaiting, sig, remote, offers, refused, stray>>
  BY DEF General, FindCandidate, own, Sound, Blank
<1>2. Sends(c, "candidate") /\ Pair(c) \in Users \X Users
  BY <1>1, SendSends
<1>3. AtOne(c)
  BY <1>1 DEF AtOne, Untouched
<1>4. OriginsKept(c) /\ StartingKept(c) /\ AnswerKept(c)
  <2>1. OriginsKept(c)
    BY <1>1 DEF OriginsKept, Inv, Described
  <2>2. StartingKept(c)
    BY <1>1 DEF StartingKept, Inv, Starting
  <2>3. AnswerKept(c)
    BY <1>1 DEF AnswerKept, Told, Inv, AnswerMade
  <2>4. QED
    BY <2>1, <2>2, <2>3
<1>5. remote'[c] = None => Leads(todo'[c], Descriptions, Candidates)
  BY <1>1 DEF Inv, TasksFollow
<1>6. Callee(c) => sig[c] = "stable" /\ remote[c] # None
  BY DEF FindCandidate, Inv, AnswerMade
<1>7. Caller(c) =>
           /\ Sent(c) <=> sig'[c] # "stable" \/ remote'[c] # None
           /\ Sent(c) => c \in open' /\ offers'[c] > 0 /\ Dos(todo'[c]) \cap Starts = {}
  BY <1>1 DEF Inv, Offering
<1>8. refused' = {} /\ stray' = {}
  BY <1>1 DEF Inv, CandidatesFollowDescriptions
<1>9. QED
  BY <1>1, <1>2, <1>3, <1>4, <1>5, <1>6, <1>7, <1>8, SendInv

LEMMA LocalOfferInv ==
  ASSUME General, Inv, OneCallEach, NEW c \in Conn, c \in open, todo[c] # <<>>,
         UNCHANGED <<own, open, onPage, camera>>, SetLocalOffer(c)
  PROVE  Inv'
<1>1. Done(c) /\ TypeOK /\ Lists
  BY TailDone DEF SetLocalOffer, General
<1>2. /\ Head(todo[c]).do = "setLocalOffer" /\ net' = Send(c, "offer", None)
      /\ sig' = [sig EXCEPT ![c] = "have-local-offer"]
      /\ UNCHANGED <<user, peer, role, list, open, onPage, awaiting, remote, offers, refused, stray>>
  BY DEF SetLocalOffer, own
<1>3. /\ sig'[c] = "have-local-offer" /\ c \in Made /\ c \in open
      /\ \A d \in Conn \ {c} : sig'[d] = sig[d]
  BY <1>1, <1>2 DEF TypeOK, Done
<1>4. Sends(c, "offer") /\ Pair(c) \in Users \X Users
  BY <1>1, <1>2, <1>3, SendSends
<1>5. AtOne(c)
  BY <1>1, <1>2, <1>3 DEF AtOne, Untouched, Done
<1>6. Head(todo[c]).do \in Starts /\ Dos(todo[c]) \cap Starts # {}
  BY <1>1, <1>2 DEF Starts, Done
<1>7. Caller(c) /\ offers[c] > 0 /\ ~Sent(c) /\ ~Callee(c)
  BY <1>6 DEF Inv, Starting, Offering, Caller, Callee
<1>8. Dos(todo'[c]) \cap Starts = {} /\ Once(todo'[c], KeyOf(Starts))
  BY <1>1, <1>6 DEF Done
<1>9. OriginsKept(c)
  BY <1>1, <1>2 DEF OriginsKept, Inv, Described, Done
<1>10. StartingKept(c)
  BY <1>8 DEF StartingKept
<1>11. AnswerKept(c)
  <2>1. Told(c) => Told(c)'
    BY <1>1, <1>2 DEF Told, Done
  <2>2. QED
    BY <1>3, <1>7, <2>1 DEF AnswerKept
<1>12. remote'[c] = None => Leads(todo'[c], Descriptions, Candidates)
  BY <1>1, <1>2 DEF Done, Descriptions
<1>13. refused' = {} /\ stray' = {}
  BY <1>2 DEF Inv, CandidatesFollowDescriptions
<1>14. QED
  BY <1>2, <1>3, <1>4, <1>5, <1>7, <1>8, <1>9, <1>10, <1>11, <1>12, <1>13, SendInv

LEMMA LocalAnswerInv ==
  ASSUME General, Inv, OneCallEach, NEW c \in Conn, c \in open, todo[c] # <<>>,
         UNCHANGED <<own, open, onPage, camera>>, SetLocalAnswer(c)
  PROVE  Inv'
<1>1. Done(c) /\ TypeOK /\ Lists /\ Sound(c)
  BY TailDone DEF SetLocalAnswer, General
<1>2. /\ Head(todo[c]).do = "setLocalAnswer" /\ net' = Send(c, "answer", remote[c])
      /\ sig' = [sig EXCEPT ![c] = "stable"] /\ remote[c] \in Conn \cup {None}
      /\ UNCHANGED <<user, peer, role, list, open, onPage, awaiting, remote, offers, refused, stray>>
  BY <1>1 DEF SetLocalAnswer, own, TypeOK
<1>3. /\ sig'[c] = "stable" /\ c \in Made
      /\ \A d \in Conn \ {c} : sig'[d] = sig[d]
  BY <1>1, <1>2 DEF TypeOK, Done
<1>4. Sends(c, "answer") /\ Pair(c) \in Users \X Users
  BY <1>1, <1>2, <1>3, SendSends
<1>5. AtOne(c)
  BY <1>1, <1>2, <1>3 DEF AtOne, Untouched, Done
<1>6. Dos(todo[c]) \cap Answers # {}
  BY <1>1, <1>2 DEF Answers, Done
<1>7. Callee(c) /\ ~Caller(c)
  BY <1>1, <1>3, <1>6 DEF Sound, RoleTasks, Caller, Callee, TypeOK, Roles, Made
<1>8. remote[c] # None
  BY <1>6, <1>7 DEF Inv, AnswerMade
<1>9. OriginsKept(c)
  BY <1>1, <1>2 DEF OriginsKept, Inv, Described, Done
<1>10. StartingKept(c)
  BY <1>1, <1>2 DEF StartingKept, Inv, Starting, Done
<1>11. AnswerKept(c)
  BY <1>2, <1>3, <1>7, <1>8 DEF AnswerKept, Told
<1>12. refused' = {} /\ stray' = {}
  BY <1>2 DEF Inv, CandidatesFollowDescriptions
<1>13. QED
  BY <1>2, <1>3, <1>4, <1>5, <1>7, <1>8, <1>9, <1>10, <1>11, <1>12, SendInv

-----------------------------------------------------------------------------
(* Steps that deliver a message to a connection.                            *)

\* A message of the given type is taken from the queue of pair p.
Takes(p, type) ==
  /\ \A pair \in Users \X Users :
       /\ pair # p => net'[pair] = net[pair]
       /\ Members(net'[pair]) \subseteq Members(net[pair])
       /\ Once(net[pair], Offered) => Once(net'[pair], Offered)
  /\ Types(net[p]) = Types(net'[p]) \cup {type}
  /\ Once(net[p], Offered) /\ type = "offer" => "offer" \notin Types(net'[p])
  /\ Leads(net[p], AnswerMessages, CandidateMessages) =>
       /\ type # "candidate"
       /\ type # "answer" => Leads(net'[p], AnswerMessages, CandidateMessages)

LEMMA TakenTypes ==
  ASSUME TypeOK, NEW u \in Users, NEW v \in Users, net[<<u, v>>] # <<>>,
         net' = [net EXCEPT ![<<u, v>>] = Tail(@)]
  PROVE  /\ Takes(<<u, v>>, Head(net[<<u, v>>]).type)
         /\ Head(net[<<u, v>>]) \in Members(net[<<u, v>>])
<1> DEFINE q == net[<<u, v>>]
<1>1. q \in Seq(Message) /\ q # <<>>
  BY DEF TypeOK
<1>2. net'[<<u, v>>] = Tail(q) /\ \A pair \in Users \X Users : pair # <<u, v>> => net'[pair] = net[pair]
  BY Arrives
<1> HIDE DEF q
<1>3. Head(q) \in Members(q)
  BY <1>1, TailMembers
<1>4. /\ Members(q) = Members(Tail(q)) \cup {Head(q)}
      /\ Types(q) = Types(Tail(q)) \cup {Head(q).type}
      /\ Once(q, Offered) =>
           Once(Tail(q), Offered) /\ (Head(q).type = "offer" => "offer" \notin Types(Tail(q)))
      /\ Leads(q, AnswerMessages, CandidateMessages) =>
           /\ Head(q).type # "candidate"
           /\ Head(q).type # "answer" => Leads(Tail(q), AnswerMessages, CandidateMessages)
  BY <1>1, MessageTaken
<1>5. ASSUME NEW pair \in Users \X Users
      PROVE  /\ Members(net'[pair]) \subseteq Members(net[pair])
             /\ Once(net[pair], Offered) => Once(net'[pair], Offered)
  <2>1. CASE pair = <<u, v>>
    BY <1>2, <1>4, <2>1 DEF q
  <2>2. CASE pair # <<u, v>>
    BY <1>2, <2>2
  <2>3. QED
    BY <2>1, <2>2
<1>6. Takes(<<u, v>>, Head(q).type)
  BY <1>2, <1>4, <1>5 DEF Takes, q
<1>7. QED
  BY <1>3, <1>6 DEF q

LEMMA HandedInv ==
  ASSUME General, Inv, NEW u \in Users, NEW v \in Users,
         NEW t \in Task, t.do \in {"answer", "candidate"}, Takes(<<u, v>>, t.do),
         NEW cs, cs \subseteq ConnectionsTo(v, u),
         UNCHANGED <<user, peer, role, list, open, awaiting, sig, remote, offers, refused, stray>>,
         \A c \in Conn : /\ todo'[c] = IF c \in cs THEN Append(todo[c], t) ELSE todo[c]
                         /\ onPage'[c] = onPage[c],
         \A c \in cs : /\ Opposite(t.from, c)
                       /\ t.do = "answer" => /\ role[t.from] = "callee" /\ remote[t.from] # None
                                             /\ role[c] = "caller"
                       /\ t.do = "candidate" => remote[c] # None \/ Members(todo[c]) \cap Descriptions # {},
         t.do = "answer" => cs = ConnectionsTo(v, u)
  PROVE  Inv'
<1>1. /\ Made' = Made /\ Unique'
      /\ \A d : /\ Caller(d)' <=> Caller(d)
                /\ Callee(d)' <=> Callee(d)
                /\ Pair(d)' = Pair(d) /\ Back(d)' = Back(d)
      /\ \A d, e : Opposite(d, e)' <=> Opposite(d, e)
  BY EndsKept DEF Inv
<1>2. TypeOK /\ Lists
  BY DEF General
<1>3. /\ \A d \in Made : d \in Conn /\ Pair(d) \in Users \X Users /\ Back(d) \in Users \X Users
      /\ \A d : Caller(d) \/ Callee(d) => d \in Made
  BY <1>2 DEF Made, Caller, Callee, Lists, Pair, Back
<1>4. \A c \in Conn : /\ Dos(todo'[c]) = Dos(todo[c]) \cup (IF c \in cs THEN {t.do} ELSE {})
                      /\ Members(todo'[c]) = Members(todo[c]) \cup (IF c \in cs THEN {t} ELSE {})
                      /\ Once(todo[c], KeyOf(Starts)) => Once(todo'[c], KeyOf(Starts))
  <2> SUFFICES ASSUME NEW c \in Conn
               PROVE  /\ Dos(todo'[c]) = Dos(todo[c]) \cup (IF c \in cs THEN {t.do} ELSE {})
                      /\ Members(todo'[c]) = Members(todo[c]) \cup (IF c \in cs THEN {t} ELSE {})
                      /\ Once(todo[c], KeyOf(Starts)) => Once(todo'[c], KeyOf(Starts))
    OBVIOUS
  <2>1. todo[c] \in Seq(Task) /\ t.do \notin Starts
    BY <1>2 DEF TypeOK, Starts
  <2>2. /\ Dos(Append(todo[c], t)) = Dos(todo[c]) \cup {t.do}
        /\ Members(Append(todo[c], t)) = Members(todo[c]) \cup {t}
        /\ Once(todo[c], KeyOf(Starts)) => Once(Append(todo[c], t), KeyOf(Starts))
    BY <2>1, TaskAdded
  <2>3. CASE c \in cs
    BY <2>2, <2>3
  <2>4. CASE c \notin cs
    BY <2>4
  <2>5. QED
    BY <2>3, <2>4
<1>5. <<u, v>> \in Users \X Users
  OBVIOUS
<1>6. \A pair \in Users \X Users :
        /\ Members(net'[pair]) \subseteq Members(net[pair])
        /\ Once(net[pair], Offered) => Once(net'[pair], Offered)
        /\ pair # <<u, v>> => net'[pair] = net[pair]
  BY DEF Takes
<1>7. \A pair \in Users \X Users : "offer" \in Types(net'[pair]) <=> "offer" \in Types(net[pair])
  <2>1. "offer" \in Types(net'[<<u, v>>]) <=> "offer" \in Types(net[<<u, v>>])
    BY DEF Takes
  <2>2. QED
    BY <1>6, <2>1
<1>8. \A d \in Conn : Told(d) => Told(d)'
  BY <1>4 DEF Told
<1>9. Posted'
  <2> SUFFICES ASSUME NEW pair \in Users \X Users, NEW n \in Members(net'[pair])
               PROVE  /\ n.from \in Made /\ Pair(n.from) = pair
                      /\ n.type = "offer" => role[n.from] = "caller"
                      /\ n.type = "answer" => role[n.from] = "callee" /\ remote[n.from] # None
    BY <1>1 DEF Posted
  <2>1. n \in Members(net[pair])
    BY <1>6
  <2>2. QED
    BY <2>1 DEF Inv, Posted
<1>10. Given'
  <2> SUFFICES ASSUME NEW d \in Conn, NEW s \in Members(todo'[d]) \cup Members(onPage'[d])
               PROVE  /\ s.do \in {"offer", "answer", "candidate"} => Opposite(s.from, d)
                      /\ s.do = "offer" => role[s.from] = "caller" /\ role[d] = "callee"
                      /\ s.do = "answer" => role[s.from] = "callee" /\ role[d] = "caller"
                                            /\ remote[s.from] # None
    BY <1>1 DEF Given
  <2>1. CASE s \in Members(todo[d]) \cup Members(onPage[d])
    BY <2>1 DEF Inv, Given
  <2>2. CASE d \in cs /\ s = t
    BY <2>2
  <2>3. QED
    BY <1>4, <2>1, <2>2
<1>11. Described' /\ CandidatesFollowDescriptions'
  BY <1>1 DEF Inv, Described, CandidatesFollowDescriptions
<1>12. \A d \in Conn : Dos(todo'[d]) \cap Starts = Dos(todo[d]) \cap Starts
  BY <1>4 DEF Starts
<1>13. Offering'
  <2>1. \A d : Caller(d) => (Sent(d)' <=> Sent(d))
    BY <1>1, <1>3, <1>7 DEF Sent
  <2>2. QED
    BY <1>1, <1>12, <2>1 DEF Inv, Offering
<1>14. Starting'
  BY <1>1, <1>4, <1>12 DEF Inv, Starting
<1>15. OneOffer'
  BY <1>1, <1>3, <1>6, <1>7 DEF Inv, OneOffer
<1>16. AnswerMade'
  <2>1. \A d \in Conn : Dos(todo'[d]) \cap Answers = Dos(todo[d]) \cap Answers
    BY <1>4 DEF Answers
  <2>2. QED
    BY <1>1, <1>8, <2>1 DEF Inv, AnswerMade
<1>17. \A c \in Made : Pair(c) = <<v, u>> /\ c \in list[user[c]] => c \in ConnectionsTo(v, u)
  BY DEF Pair, ConnectionsTo
<1>18. ASSUME NEW c \in Made, t.do = "answer", Pair(c) = <<v, u>>, c \in list[user[c]]
       PROVE  Told(c)'
  BY <1>3, <1>4, <1>17, <1>18 DEF Told
<1>19. Answered'
  <2> SUFFICES ASSUME NEW e \in Conn, NEW d \in Conn, Callee(d), Opposite(e, d),
                      sig[d] = "stable", remote[d] # None
               PROVE  Told(e)' \/ e \notin list[user[e]] \/ "answer" \in Types(net'[Pair(d)])
    BY <1>1 DEF Answered
  <2>1. Told(e) \/ e \notin list[user[e]] \/ "answer" \in Types(net[Pair(d)])
    BY DEF Inv, Answered
  <2>2. CASE "answer" \in Types(net[Pair(d)]) /\ "answer" \notin Types(net'[Pair(d)])
    <3>1. Pair(d) = <<u, v>> /\ t.do = "answer"
      <4>1. Pair(d) \in Users \X Users
        BY <1>3
      <4>2. Pair(d) = <<u, v>>
        BY <1>6, <2>2, <4>1
      <4>3. "answer" \in Types(net'[<<u, v>>]) \cup {t.do}
        BY <2>2, <4>2 DEF Takes
      <4>4. QED
        BY <2>2, <4>2, <4>3
    <3>2. Pair(e) = <<v, u>> /\ e \in Made
      BY <3>1 DEF Pair, Opposite
    <3>3. QED
      BY <1>18, <3>1, <3>2
  <2>3. QED
    BY <1>8, <2>1, <2>2
<1>20. TasksFollow'
  <2> SUFFICES ASSUME NEW c \in Conn, remote[c] = None
               PROVE  Leads(todo'[c], Descriptions, Candidates)
    BY DEF TasksFollow
  <2>1. Leads(todo[c], Descriptions, Candidates) /\ todo[c] \in Seq(Task)
    BY <1>2 DEF Inv, TasksFollow, TypeOK
  <2>2. CASE c \in cs
    <3>1. t \in Candidates => Members(todo[c]) \cap Descriptions # {}
      BY <2>2 DEF Candidates
    <3>2. Leads(Append(todo[c], t), Descriptions, Candidates)
      BY <2>1, <3>1, AppendLeads
    <3>3. QED
      BY <2>2, <3>2
  <2>3. CASE c \notin cs
    BY <2>1, <2>3
  <2>4. QED
    BY <2>2, <2>3
<1>21. MessagesFollow'
  <2> SUFFICES ASSUME NEW d \in Conn, Caller(d), ~Told(d)', d \in list[user[d]]
               PROVE  Leads(net'[Back(d)], AnswerMessages, CandidateMessages)
    BY <1>1 DEF MessagesFollow
  <2>1. Leads(net[Back(d)], AnswerMessages, CandidateMessages)
    BY <1>8 DEF Inv, MessagesFollow
  <2>2. CASE Back(d) # <<u, v>>
    BY <1>3, <1>6, <2>1, <2>2
  <2>3. CASE Back(d) = <<u, v>>
    <3>1. t.do = "answer"
      BY <2>1, <2>3 DEF Takes
    <3>2. Pair(d) = <<v, u>> /\ d \in Made
      BY <2>3 DEF Pair, Back, Caller
    <3>3. QED
      BY <1>18, <3>1, <3>2
  <2>4. QED
    BY <2>2, <2>3
<1>22. QED
  BY <1>1, <1>9, <1>10, <1>11, <1>13, <1>14, <1>15, <1>16, <1>19, <1>20, <1>21 DEF Inv

LEMMA Delivered ==
  ASSUME General, Inv, NEW u \in Users, NEW v \in Users, net[<<u, v>>] # <<>>,
         net' = [net EXCEPT ![<<u, v>>] = Tail(@)]
  PROVE  LET m == Head(net[<<u, v>>])
             t == Handle(m)
         IN  /\ t \in Task /\ t.do = m.type /\ t.from = m.from /\ t.from \in Conn
             /\ Takes(<<u, v>>, t.do)
             /\ t.from \in Made /\ Pair(t.from) = <<u, v>>
             /\ t.do = "offer" => Caller(t.from)
             /\ t.do = "answer" => Callee(t.from) /\ remote[t.from] # None
<1>1. TypeOK /\ Posted
  BY DEF General, Inv
<1> DEFINE m == Head(net[<<u, v>>])
<1>2. m \in Message /\ m \in Members(net[<<u, v>>]) /\ Handle(m) \in Task /\ Takes(<<u, v>>, m.type)
  BY <1>1, Arrives, TakenTypes
<1>3. <<u, v>> \in Users \X Users
  OBVIOUS
<1> HIDE DEF m
<1>4. /\ m.from \in Made /\ Pair(m.from) = <<u, v>>
      /\ m.type = "offer" => role[m.from] = "caller"
      /\ m.type = "answer" => role[m.from] = "callee" /\ remote[m.from] # None
  BY <1>1, <1>2, <1>3 DEF Posted
<1>5. Handle(m).do = m.type /\ Handle(m).from = m.from
  BY DEF Handle
<1>6. QED
  BY <1>2, <1>4, <1>5 DEF m, Made, Caller, Callee

(* The connections to a user are one at most, at the other end of his.      *)
LEMMA OtherEnd ==
  ASSUME General, Inv, OneCallEach, NEW u \in Users, NEW v \in Users,
         NEW d \in Made, Pair(d) = <<u, v>>
  PROVE  /\ First(ConnectionsTo(v, u)) = ConnectionsTo(v, u)
         /\ \A c \in ConnectionsTo(v, u) :
              /\ c \in Conn /\ Pair(c) = <<v, u>> /\ Opposite(d, c)
              /\ c \in list[user[c]]
              /\ (Caller(c) /\ Callee(d)) \/ (Callee(c) /\ Caller(d))
<1>1. TypeOK /\ Lists /\ Unique
  BY DEF General, Inv
<1>2. \A c \in ConnectionsTo(v, u) :
        c \in Made /\ c \in Conn /\ user[c] = v /\ peer[c] = u /\ c \in list[user[c]]
  BY <1>1 DEF ConnectionsTo, Lists, Made
<1>3. \A c \in ConnectionsTo(v, u) : Pair(c) = <<v, u>> /\ Opposite(d, c) /\ Opposite(c, d)
  BY <1>2 DEF Pair, Opposite
<1>4. \A c \in ConnectionsTo(v, u) : (Caller(c) /\ Callee(d)) \/ (Callee(c) /\ Caller(d))
  BY <1>1, <1>3, EndsDiffer
<1>5. \A c, e \in ConnectionsTo(v, u) : c <= e
  BY <1>1, <1>2 DEF Unique, Conn
<1>6. QED
  BY <1>2, <1>3, <1>4, <1>5 DEF First

LEMMA OnAnswerInv ==
  ASSUME General, Inv, OneCallEach, NEW u \in Users, NEW v \in Users, net[<<u, v>>] # <<>>,
         net' = [net EXCEPT ![<<u, v>>] = Tail(@)], UNCHANGED <<open, awaiting, camera, page>>,
         Head(net[<<u, v>>]).type = "answer", OnAnswer(u, v, Head(net[<<u, v>>]))
  PROVE  Inv'
<1> DEFINE t == Handle(Head(net[<<u, v>>]))
           cs == ConnectionsTo(v, u)
<1>1. TypeOK /\ UNCHANGED <<user, peer, role, list, open, awaiting, sig, remote, offers, refused, stray>>
  BY DEF General, OnAnswer, own, page
<1>2. /\ t \in Task /\ t.do = "answer" /\ Takes(<<u, v>>, t.do)
      /\ t.from \in Made /\ Pair(t.from) = <<u, v>> /\ Callee(t.from) /\ remote[t.from] # None
      /\ t.from \in Conn
  BY Delivered
<1>3. HandTo(First(cs), t)
  BY DEF OnAnswer
<1> HIDE DEF t
<1>4. /\ First(cs) = cs
      /\ \A c \in cs : c \in Conn /\ Opposite(t.from, c) /\ (Caller(c) \/ Caller(t.from))
  BY <1>2, OtherEnd
<1> HIDE DEF cs
<1>5. \A c \in cs : Caller(c) /\ role[c] = "caller"
  BY <1>2, <1>4 DEF Caller, Callee
<1>6. \A c \in cs : c \in open
  <2> SUFFICES ASSUME NEW c \in cs PROVE c \in open
    OBVIOUS
  <2>1. Opposite(c, t.from)
    BY <1>4, OppositeBack
  <2>2. Sent(c)
    BY <1>2, <2>1 DEF Sent
  <2>3. QED
    BY <1>4, <1>5, <2>2 DEF Inv, Offering
<1>7. \A c \in Conn : /\ todo'[c] = IF c \in cs THEN Append(todo[c], t) ELSE todo[c]
                      /\ onPage'[c] = onPage[c]
  <2>1. \A c \in Conn :
          /\ todo'[c] = IF c \in cs /\ ~Waits(c, t) THEN Append(todo[c], t) ELSE todo[c]
          /\ onPage'[c] = IF c \in cs /\ Waits(c, t) THEN Append(onPage[c], t) ELSE onPage[c]
    BY <1>1, <1>2, <1>3, <1>4, Handed
  <2>2. \A c \in cs : ~Waits(c, t)
    BY <1>6 DEF Waits
  <2>3. QED
    BY <2>1, <2>2
<1>8. cs \subseteq ConnectionsTo(v, u) /\ cs = ConnectionsTo(v, u)
  BY DEF cs
<1>9. \A c \in cs : /\ Opposite(t.from, c)
                    /\ t.do = "answer" => /\ role[t.from] = "callee" /\ remote[t.from] # None
                                          /\ role[c] = "caller"
                    /\ t.do = "candidate" => remote[c] # None \/ Members(todo[c]) \cap Descriptions # {}
  BY <1>2, <1>4, <1>5 DEF Callee
<1>10. QED
  BY <1>1, <1>2, <1>7, <1>8, <1>9, HandedInv

LEMMA OnCandidateInv ==
  ASSUME General, Inv, OneCallEach, NEW u \in Users, NEW v \in Users, net[<<u, v>>] # <<>>,
         net' = [net EXCEPT ![<<u, v>>] = Tail(@)], UNCHANGED <<open, awaiting, camera, page>>,
         Head(net[<<u, v>>]).type = "candidate", OnCandidate(u, v, Head(net[<<u, v>>]))
  PROVE  Inv'
<1> DEFINE t == Handle(Head(net[<<u, v>>]))
           cs == ConnectionsTo(v, u)
<1>1. TypeOK /\ UNCHANGED <<user, peer, role, list, open, awaiting, sig, remote, offers, refused, stray>>
  BY DEF General, OnCandidate, own, page
<1>2. /\ t \in Task /\ t.do = "candidate" /\ Takes(<<u, v>>, t.do)
      /\ t.from \in Made /\ Pair(t.from) = <<u, v>> /\ t.from \in Conn
  BY Delivered
<1>3. HandTo(cs, t)
  BY DEF OnCandidate
<1> HIDE DEF t
<1>4. \A c \in cs : /\ c \in Conn /\ Opposite(t.from, c) /\ Pair(c) = <<v, u>> /\ c \in list[user[c]]
                    /\ (Caller(c) \/ Callee(c))
  BY <1>2, OtherEnd
<1> HIDE DEF cs
<1>5. \A c \in cs : Told(c)
  <2> SUFFICES ASSUME NEW c \in cs, Caller(c), ~Told(c) PROVE FALSE
    BY <1>4 DEF Inv, AnswerMade
  <2>1. Leads(net[Back(c)], AnswerMessages, CandidateMessages)
    BY <1>4 DEF Inv, MessagesFollow
  <2>2. Back(c) = <<u, v>>
    BY <1>4 DEF Pair, Back
  <2>3. QED
    BY <1>2, <2>1, <2>2 DEF Takes
<1>6. \A c \in cs : remote[c] # None \/ Members(todo[c]) \cap Descriptions # {}
  <2> SUFFICES ASSUME NEW c \in cs, remote[c] = None PROVE Members(todo[c]) \cap Descriptions # {}
    OBVIOUS
  <2>1. "offer" \in Dos(todo[c]) \/ "answer" \in Dos(todo[c])
    BY <1>5 DEF Told
  <2>2. todo[c] \in Seq(Task)
    BY <1>1, <1>4 DEF TypeOK
  <2>3. Members(todo[c]) \subseteq Task
    BY <2>2, MembersType
  <2>4. QED
    BY <2>1, <2>3 DEF Dos, Descriptions
<1>7. \A c \in Conn : /\ todo'[c] = IF c \in cs THEN Append(todo[c], t) ELSE todo[c]
                      /\ onPage'[c] = onPage[c]
  <2>1. \A c \in Conn :
          /\ todo'[c] = IF c \in cs /\ ~Waits(c, t) THEN Append(todo[c], t) ELSE todo[c]
          /\ onPage'[c] = IF c \in cs /\ Waits(c, t) THEN Append(onPage[c], t) ELSE onPage[c]
    BY <1>1, <1>2, <1>3, Handed
  <2>2. \A c \in cs : ~Waits(c, t)
    BY <1>2 DEF Waits
  <2>3. QED
    BY <2>1, <2>2
<1>8. cs \subseteq ConnectionsTo(v, u)
  BY DEF cs
<1>9. \A c \in cs : /\ Opposite(t.from, c)
                    /\ t.do = "answer" => /\ role[t.from] = "callee" /\ remote[t.from] # None
                                          /\ role[c] = "caller"
                    /\ t.do = "candidate" => remote[c] # None \/ Members(todo[c]) \cap Descriptions # {}
  BY <1>2, <1>4, <1>6
<1>10. QED
  BY <1>1, <1>2, <1>7, <1>8, <1>9, HandedInv

-----------------------------------------------------------------------------
(* Steps that make a connection.                                            *)

LEMMA NewEnds ==
  ASSUME General, NEW c \in Conn, NEW u \in Users, NEW v \in Users, NEW as \in Roles, NEW t \in Task,
         New(c, u, v, as, t), UNCHANGED <<open, awaiting, camera, page>>
  PROVE  /\ \A d \in Made : /\ d \in Conn /\ d # c /\ d \in Made'
                            /\ Pair(d)' = Pair(d) /\ Back(d)' = Back(d) /\ role'[d] = role[d]
                            /\ user'[d] = user[d] /\ peer'[d] = peer[d]
                            /\ Pair(d) \in Users \X Users /\ Back(d) \in Users \X Users
                            /\ todo'[d] = todo[d] /\ onPage'[d] = onPage[d]
                            /\ (Told(d)' <=> Told(d))
                            /\ (d \in list'[user'[d]] <=> d \in list[user[d]])
         /\ \A d : /\ Caller(d)' <=> Caller(d) \/ (d = c /\ as = "caller")
                   /\ Callee(d)' <=> Callee(d) \/ (d = c /\ as = "callee")
                   /\ Caller(d) \/ Callee(d) => d \in Made
         /\ \A d, e \in Made : Opposite(d, e)' <=> Opposite(d, e)
         /\ c \notin Made /\ Made' = Made \cup {c} /\ Pair(c)' = <<u, v>> /\ Back(c)' = <<v, u>>
         /\ todo[c] = <<>> /\ onPage[c] = <<>> /\ c \notin awaiting
         /\ sig[c] = "stable" /\ remote[c] = None /\ offers[c] = 0
<1>1. TypeOK /\ Lists /\ Blank(c) /\ UNCHANGED <<sig, remote, offers>>
  BY DEF General, Sound, page
<1>2. /\ c \notin Made /\ Made' = Made \cup {c}
      /\ user'[c] = u /\ peer'[c] = v /\ role'[c] = as
      /\ \A d \in Conn \ {c} : /\ user'[d] = user[d] /\ peer'[d] = peer[d] /\ role'[d] = role[d]
                               /\ todo'[d] = todo[d] /\ onPage'[d] = onPage[d]
  BY DEF New
<1>3. \A d \in Made : d \in Conn /\ d # c
  BY <1>2 DEF Made
<1>4. \A d \in Made : /\ Pair(d)' = Pair(d) /\ Back(d)' = Back(d)
                      /\ Pair(d) \in Users \X Users /\ Back(d) \in Users \X Users
  BY <1>1, <1>2, <1>3 DEF Pair, Back, Lists
<1>5. \A d \in Made : Told(d)' <=> Told(d)
  BY <1>1, <1>2, <1>3 DEF Told
<1>6. \A d : /\ Caller(d)' <=> Caller(d) \/ (d = c /\ as = "caller")
             /\ Callee(d)' <=> Callee(d) \/ (d = c /\ as = "callee")
             /\ Caller(d) \/ Callee(d) => d \in Made
  BY <1>2, <1>3 DEF Caller, Callee
<1>7. \A d, e \in Made : Opposite(d, e)' <=> Opposite(d, e)
  BY <1>2, <1>3 DEF Opposite
<1>8. Pair(c)' = <<u, v>> /\ Back(c)' = <<v, u>>
  BY <1>2 DEF Pair, Back
<1>9. /\ todo[c] = <<>> /\ onPage[c] = <<>> /\ c \notin awaiting
      /\ sig[c] = "stable" /\ remote[c] = None /\ offers[c] = 0
  BY <1>1, <1>2 DEF Blank
<1>10. ASSUME NEW d \in Made PROVE d \in list'[user'[d]] <=> d \in list[user[d]]
  <2>1. user'[d] = user[d] /\ d # c /\ user[d] \in Users
    BY <1>1, <1>2, <1>3 DEF Lists
  <2>2. \A w \in Users : list'[w] = IF w = u THEN list[w] \cup {c} ELSE list[w]
    BY DEF New
  <2>3. d \in list'[user[d]] <=> d \in list[user[d]]
    BY <2>1, <2>2
  <2>4. QED
    BY <2>1, <2>3
<1>11. QED
  BY <1>2, <1>3, <1>4, <1>5, <1>6, <1>7, <1>8, <1>9, <1>10

LEMMA NewKept ==
  ASSUME General, Inv, NEW c \in Conn, NEW u \in Users, NEW v \in Users, NEW as \in Roles, NEW t \in Task,
         New(c, u, v, as, t), UNCHANGED <<open, awaiting, camera, page>>,
         \A d \in Made : Pair(d) # <<u, v>>, t.do \in {"call", "offer"},
         t.do = "offer" => Opposite(t.from, c)' /\ role'[t.from] = "caller" /\ as = "callee",
         as = "caller" => <<u, v>> \in CallPairs, as = "callee" => <<v, u>> \in CallPairs,
         \A pair \in Users \X Users : Members(net'[pair]) \subseteq Members(net[pair])
  PROVE  Unique' /\ Posted' /\ Given' /\ Described' /\ Starting' /\ TasksFollow' /\ CandidatesFollowDescriptions'
<1>1. TypeOK /\ UNCHANGED <<open, awaiting, sig, remote, offers, refused, stray>>
  BY DEF General, page
<1>2. /\ \A d \in Made : /\ d \in Conn /\ d # c /\ d \in Made'
                         /\ Pair(d)' = Pair(d) /\ Back(d)' = Back(d) /\ role'[d] = role[d]
                         /\ user'[d] = user[d] /\ peer'[d] = peer[d]
      /\ \A d : /\ Caller(d)' <=> Caller(d) \/ (d = c /\ as = "caller")
                /\ Callee(d)' <=> Callee(d) \/ (d = c /\ as = "callee")
                /\ Caller(d) \/ Callee(d) => d \in Made
      /\ \A d, e \in Made : Opposite(d, e)' <=> Opposite(d, e)
      /\ c \notin Made /\ Made' = Made \cup {c} /\ Pair(c)' = <<u, v>> /\ Back(c)' = <<v, u>>
      /\ sig[c] = "stable" /\ remote[c] = None
  BY NewEnds
<1>3. /\ user'[c] = u /\ peer'[c] = v /\ role'[c] = as
      /\ todo'[c] \in {<<>>, <<t>>} /\ onPage'[c] \in {<<>>, <<t>>}
      /\ \A d \in Conn \ {c} : todo'[d] = todo[d] /\ onPage'[d] = onPage[d] /\ role'[d] = role[d]
  BY DEF New
<1>4. /\ Members(todo'[c]) \subseteq {t} /\ Members(onPage'[c]) \subseteq {t}
      /\ Dos(todo'[c]) \subseteq {t.do} /\ Once(todo'[c], KeyOf(Starts))
  BY <1>3, OneTask, NoTasks, EmptyQueue
<1>5. Unique'
  <2>1. \A d \in Made : user[d] # u \/ peer[d] # v
    BY DEF Pair
  <2>2. \A d, e \in Made' : user'[d] = user'[e] /\ peer'[d] = peer'[e] => d = e
    BY <1>2, <1>3, <2>1 DEF Inv, Unique
  <2>3. ASSUME NEW d \in Conn PROVE Caller(d)' => Pair(d)' \in CallPairs
    <3>1. CASE d = c
      BY <1>2, <2>1, <3>1
    <3>2. CASE d # c
      <4>1. Caller(d)' => Caller(d) /\ Pair(d)' = Pair(d)
        BY <1>2, <3>2
      <4>2. QED
        BY <4>1 DEF Inv, Unique
    <3>3. QED
      BY <3>1, <3>2
  <2>4. ASSUME NEW d \in Conn PROVE Callee(d)' => Back(d)' \in CallPairs
    <3>1. CASE d = c
      BY <1>2, <2>1, <3>1
    <3>2. CASE d # c
      <4>1. Callee(d)' => Callee(d) /\ Back(d)' = Back(d)
        BY <1>2, <3>2
      <4>2. QED
        BY <4>1 DEF Inv, Unique
    <3>3. QED
      BY <3>1, <3>2
  <2>5. QED
    BY <2>2, <2>3, <2>4 DEF Unique
<1>6. Posted'
  <2> SUFFICES ASSUME NEW pair \in Users \X Users, NEW n \in Members(net'[pair])
               PROVE  /\ n.from \in Made' /\ Pair(n.from)' = pair
                      /\ n.type = "offer" => role'[n.from] = "caller"
                      /\ n.type = "answer" => role'[n.from] = "callee" /\ remote'[n.from] # None
    BY DEF Posted
  <2>1. n \in Members(net[pair])
    OBVIOUS
  <2>2. /\ n.from \in Made /\ Pair(n.from) = pair
        /\ n.type = "offer" => role[n.from] = "caller"
        /\ n.type = "answer" => role[n.from] = "callee" /\ remote[n.from] # None
    BY <2>1 DEF Inv, Posted
  <2>3. QED
    BY <1>1, <1>2, <2>2
<1>7. \A d, e : Opposite(d, e) => d \in Made /\ e \in Made /\ Opposite(d, e)'
  BY <1>2 DEF Opposite
<1>8. Given'
  <2> SUFFICES ASSUME NEW d \in Conn, NEW s \in Members(todo'[d]) \cup Members(onPage'[d])
               PROVE  /\ s.do \in {"offer", "answer", "candidate"} => Opposite(s.from, d)'
                      /\ s.do = "offer" => role'[s.from] = "caller" /\ role'[d] = "callee"
                      /\ s.do = "answer" => role'[s.from] = "callee" /\ role'[d] = "caller"
                                            /\ remote'[s.from] # None
    BY DEF Given
  <2>1. CASE d = c
    BY <1>3, <1>4, <2>1
  <2>2. CASE d # c
    <3>1. s \in Members(todo[d]) \cup Members(onPage[d])
      BY <1>3, <2>2
    <3>2. /\ s.do \in {"offer", "answer", "candidate"} => Opposite(s.from, d)
          /\ s.do = "offer" => role[s.from] = "caller" /\ role[d] = "callee"
          /\ s.do = "answer" => role[s.from] = "callee" /\ role[d] = "caller" /\ remote[s.from] # None
      BY <3>1 DEF Inv, Given
    <3>3. QED
      BY <1>1, <1>2, <1>3, <1>7, <2>2, <3>2
  <2>3. QED
    BY <2>1, <2>2
<1>9. Described'
  <2> SUFFICES ASSUME NEW d \in Conn, remote[d] # None
               PROVE  Opposite(remote[d], d)' /\ (role'[d] = "caller" => remote[remote[d]] # None)
    BY <1>1 DEF Described
  <2>1. d # c
    BY <1>2
  <2>2. Opposite(remote[d], d) /\ (role[d] = "caller" => remote[remote[d]] # None)
    BY DEF Inv, Described
  <2>3. PICK e : e = remote[d]
    OBVIOUS
  <2>4. Opposite(e, d)'
    BY <1>7, <2>2, <2>3
  <2>5. QED
    BY <1>1, <1>3, <2>1, <2>2, <2>3, <2>4
<1>10. Starting'
  <2> SUFFICES ASSUME NEW d \in Conn
               PROVE  /\ Once(todo'[d], KeyOf(Starts))
                      /\ Dos(todo'[d]) \cap Starts # {} => Caller(d)' /\ offers[d] > 0
    BY <1>1 DEF Starting
  <2>1. CASE d = c
    BY <1>4, <2>1 DEF Starts
  <2>2. CASE d # c
    BY <1>2, <1>3, <2>2 DEF Inv, Starting
  <2>3. QED
    BY <2>1, <2>2
<1>11. TasksFollow'
  <2> SUFFICES ASSUME NEW d \in Conn, remote[d] = None PROVE Leads(todo'[d], Descriptions, Candidates)
    BY <1>1 DEF TasksFollow
  <2>1. CASE d = c
    <3>1. t \notin Candidates
      BY DEF Candidates
    <3>2. QED
      BY <1>4, <2>1, <3>1 DEF Leads, Members
  <2>2. CASE d # c
    BY <1>3, <2>2 DEF Inv, TasksFollow
  <2>3. QED
    BY <2>1, <2>2
<1>12. CandidatesFollowDescriptions'
  BY <1>1 DEF Inv, CandidatesFollowDescriptions
<1>13. QED
  BY <1>5, <1>6, <1>8, <1>9, <1>10, <1>11, <1>12

(* Nobody has called between two users, of whom one now calls the other.    *)
LEMMA NoCallYet ==
  ASSUME General, Inv, OneCallEach, NEW u \in Users, NEW v \in Users, Connect(u, v)
  PROVE  /\ \A d \in Made : Pair(d) # <<u, v>> /\ Pair(d) # <<v, u>>
         /\ <<u, v>> \in CallPairs /\ u # v
<1>1. TypeOK /\ Lists
  BY DEF General
<1>2. <<u, v>> \in CallPairs /\ <<v, u>> \notin CallPairs /\ u # v
  BY SignalingAssumption DEF Connect, OneCallEach
<1> DEFINE mine == {c \in Made : user[c] = u /\ peer[c] = v /\ role[c] = "caller"}
<1>3. mine = {}
  <2>1. IsFiniteSet(Conn)
    <3>1. 1 \in Int /\ MaxConns \in Int
      BY SignalingAssumption
    <3>2. IsFiniteSet(1 .. MaxConns)
      BY <3>1, FS_Interval
    <3>3. QED
      BY <3>2 DEF Conn
  <2>2. mine \subseteq Conn
    BY DEF Made
  <2>3. IsFiniteSet(mine)
    BY <2>1, <2>2, FS_Subset
  <2>4. Cardinality(mine) \in Nat
    BY <2>3, FS_CardinalityType
  <2>5. Cardinality(mine) < 1
    BY <2>4, SignalingAssumption DEF Connect, OneCallEach
  <2>6. Cardinality(mine) = 0
    BY <2>4, <2>5
  <2>7. QED
    BY <2>3, <2>6, FS_EmptySet
<1>4. ASSUME NEW d \in Made, Callee(d), Pair(d) \in {<<u, v>>, <<v, u>>} PROVE FALSE
  <2>1. d \in Conn /\ Back(d) \in CallPairs
    BY <1>4 DEF Callee, Made, Inv, Unique
  <2>2. Pair(d) = <<v, u>>
    BY <1>2, <1>4, <2>1 DEF Pair, Back
  <2>3. PICK e \in Conn : Caller(e) /\ Opposite(e, d)
    BY <1>4, <2>1, HasCaller
  <2>4. e \in mine
    BY <2>2, <2>3 DEF Opposite, Caller, Pair
  <2>5. QED
    BY <1>3, <2>4
<1>5. ASSUME NEW d \in Made, Caller(d), Pair(d) \in {<<u, v>>, <<v, u>>} PROVE FALSE
  <2>1. Pair(d) = <<u, v>>
    BY <1>2, <1>5 DEF Inv, Unique, Made
  <2>2. d \in mine
    BY <1>5, <2>1 DEF Pair, Caller
  <2>3. QED
    BY <1>3, <2>2
<1>6. \A d \in Made : Caller(d) \/ Callee(d)
  BY <1>1 DEF Caller, Callee, TypeOK, Roles, Made
<1>7. QED
  BY <1>2, <1>4, <1>5, <1>6

LEMMA ConnectInv ==
  ASSUME General, Inv, OneCallEach, NEW u \in Users, NEW v \in Users, Connect(u, v)
  PROVE  Inv'
<1>1. Create(u, v, "caller", Do("call")) /\ UNCHANGED <<open, awaiting, camera, page, net>>
  BY DEF Connect
<1>2. "caller" \in Roles /\ Do("call") \in Task /\ Do("call").do = "call"
  BY TasksMade DEF Roles
<1> DEFINE t == Do("call")
<1> HIDE DEF t
<1>3. PICK c \in Conn : New(c, u, v, "caller", t)
  BY <1>1, <1>2, CreatesNew DEF t
<1>4. t \in Task /\ t.do = "call"
  BY <1>2 DEF t
<1>5. TypeOK /\ Lists /\ UNCHANGED <<open, awaiting, camera, page>> /\ net' = net
  BY <1>1 DEF General
<1>6. UNCHANGED <<open, awaiting, sig, remote, offers, refused, stray>>
  BY <1>5 DEF page
<1>7. /\ \A d \in Made : Pair(d) # <<u, v>> /\ Pair(d) # <<v, u>>
      /\ <<u, v>> \in CallPairs /\ u # v
  BY NoCallYet
<1>8. /\ \A d \in Made : /\ d \in Conn /\ d # c
                         /\ Pair(d)' = Pair(d) /\ Back(d)' = Back(d)
                         /\ Pair(d) \in Users \X Users /\ Back(d) \in Users \X Users
                         /\ todo'[d] = todo[d] /\ (Told(d)' <=> Told(d))
                         /\ (d \in list'[user'[d]] <=> d \in list[user[d]])
      /\ \A d : /\ Caller(d)' <=> Caller(d) \/ d = c
                /\ Callee(d)' <=> Callee(d)
                /\ Caller(d) \/ Callee(d) => d \in Made
      /\ \A d, e \in Made : Opposite(d, e)' <=> Opposite(d, e)
      /\ c \notin Made /\ Made' = Made \cup {c} /\ Pair(c)' = <<u, v>> /\ Back(c)' = <<v, u>>
      /\ sig[c] = "stable" /\ remote[c] = None
  BY <1>2, <1>3, <1>4, <1>5, NewEnds
<1>9. Unique' /\ Posted' /\ Given' /\ Described' /\ Starting' /\ TasksFollow' /\ CandidatesFollowDescriptions'
  BY <1>2, <1>3, <1>4, <1>5, <1>7, NewKept
<1>10. \A d, e : Opposite(d, e)' <=> Opposite(d, e)
  <2>1. user'[c] = u /\ peer'[c] = v
    BY <1>3 DEF New
  <2>2. \A d, e : Opposite(d, e)' => d \in Made' /\ e \in Made' /\ Pair(d)' = Back(e)'
    BY DEF Opposite, Pair, Back
  <2>3. \A d, e : Opposite(d, e) => d \in Made /\ e \in Made
    BY DEF Opposite
  <2>4. ~Opposite(c, c)' /\ \A d \in Made : ~Opposite(d, c)' /\ ~Opposite(c, d)'
    <3>1. ~Opposite(c, c)'
      BY <1>7, <2>1 DEF Opposite
    <3>2. ASSUME NEW d \in Made PROVE ~Opposite(d, c)' /\ ~Opposite(c, d)'
      <4>1. Pair(d)' # <<v, u>> /\ Pair(d)' = <<user'[d], peer'[d]>>
        BY <1>7, <1>8 DEF Pair
      <4>2. QED
        BY <2>1, <4>1 DEF Opposite
    <3>3. QED
      BY <3>1, <3>2
  <2>5. QED
    BY <1>8, <2>2, <2>3, <2>4
<1>11. \A pair \in {<<u, v>>, <<v, u>>} : Members(net[pair]) = {}
  <2>1. \A pair \in {<<u, v>>, <<v, u>>} : pair \in Users \X Users
    OBVIOUS
  <2>2. QED
    BY <1>7, <2>1 DEF Inv, Posted
<1>12. Offering'
  <2>1. \A d : Caller(d) => (Sent(d)' <=> Sent(d))
    BY <1>5, <1>8, <1>10 DEF Sent
  <2>2. ~Sent(c)'
    <3>1. "offer" \notin Types(net'[<<u, v>>])
      BY <1>5, <1>11 DEF Types
    <3>2. \A d : ~(Callee(d)' /\ Opposite(c, d)')
      BY <1>8, <1>10 DEF Opposite
    <3>3. QED
      BY <1>8, <3>1, <3>2 DEF Sent
  <2>3. QED
    BY <1>6, <1>8, <2>1, <2>2 DEF Inv, Offering
<1>13. OneOffer'
  BY <1>5, <1>8 DEF Inv, OneOffer
<1>14. AnswerMade'
  BY <1>6, <1>8 DEF Inv, AnswerMade
<1>15. Answered'
  <2> SUFFICES ASSUME NEW e \in Conn, NEW d \in Conn, Callee(d), Opposite(e, d),
                      sig[d] = "stable", remote[d] # None
               PROVE  Told(e)' \/ e \notin list'[user'[e]] \/ "answer" \in Types(net'[Pair(d)'])
    BY <1>6, <1>8, <1>10 DEF Answered
  <2>1. Told(e) \/ e \notin list[user[e]] \/ "answer" \in Types(net[Pair(d)])
    BY DEF Inv, Answered
  <2>2. e \in Made /\ d \in Made
    BY DEF Opposite
  <2>3. e \in list'[user'[e]] => e \in list[user[e]]
    BY <1>8, <2>2
  <2>4. QED
    BY <1>5, <1>8, <2>1, <2>2, <2>3
<1>16. MessagesFollow'
  <2> SUFFICES ASSUME NEW d \in Conn, Caller(d)', ~Told(d)', d \in list'[user'[d]]
               PROVE  Leads(net'[Back(d)'], AnswerMessages, CandidateMessages)
    BY DEF MessagesFollow
  <2>1. CASE d = c
    <3>1. Members(net'[<<v, u>>]) = {}
      BY <1>5, <1>11
    <3>2. Leads(net'[<<v, u>>], AnswerMessages, CandidateMessages)
      BY <3>1 DEF Leads, Members
    <3>3. QED
      BY <1>8, <2>1, <3>2
  <2>2. CASE d # c
    <3>1. Caller(d) /\ d \in Made /\ ~Told(d)
      BY <1>8, <2>2
    <3>2. d \in list[user[d]]
      BY <1>8, <3>1
    <3>3. QED
      BY <1>5, <1>8, <3>1, <3>2 DEF Inv, MessagesFollow
  <2>3. QED
    BY <2>1, <2>2
<1>17. QED
  BY <1>9, <1>12, <1>13, <1>14, <1>15, <1>16 DEF Inv

LEMMA OnOfferInv ==
  ASSUME General, Inv, OneCallEach, NEW u \in Users, NEW v \in Users, net[<<u, v>>] # <<>>,
         net' = [net EXCEPT ![<<u, v>>] = Tail(@)], UNCHANGED <<open, awaiting, camera, page>>,
         Head(net[<<u, v>>]).type = "offer", OnOffer(u, v, Head(net[<<u, v>>]))
  PROVE  Inv'
<1> DEFINE m == Head(net[<<u, v>>])
<1>1. TypeOK /\ Lists /\ Unique /\ UNCHANGED <<open, awaiting, sig, remote, offers, refused, stray>>
  BY DEF General, Inv, page
<1>2. PICK t : t = Handle(m)
  OBVIOUS
<1>3. PICK a : a = t.from
  OBVIOUS
<1>4. /\ t \in Task /\ t.do = "offer" /\ Takes(<<u, v>>, t.do)
      /\ a \in Made /\ a \in Conn /\ Pair(a) = <<u, v>> /\ Caller(a)
  BY <1>2, <1>3, Delivered
<1>5. "offer" \in Types(net[<<u, v>>])
  <2>1. Head(net[<<u, v>>]) \in Members(net[<<u, v>>])
    BY <1>1, TakenTypes
  <2>2. QED
    BY <2>1 DEF Types
<1>6. Create(v, u, "callee", t) /\ "callee" \in Roles
  BY <1>2 DEF OnOffer, Roles
<1> HIDE DEF m
<1>7. PICK c \in Conn : New(c, v, u, "callee", t)
  BY <1>1, <1>4, <1>6, CreatesNew
<1>8. <<u, v>> \in CallPairs /\ u # v /\ <<u, v>> \in Users \X Users
  BY <1>4, SignalingAssumption DEF Inv, Unique
<1>9. \A d \in Made : Pair(d) # <<v, u>>
  <2> SUFFICES ASSUME NEW d \in Made, Pair(d) = <<v, u>> PROVE FALSE
    OBVIOUS
  <2>1. Opposite(a, d) /\ Back(d) = <<u, v>> /\ d \in Conn
    BY <1>4 DEF Opposite, Pair, Back, Made
  <2>2. Callee(d)
    BY <1>1, <1>4, <2>1, EndsDiffer DEF Caller, Callee
  <2>3. QED
    BY <1>5, <2>1, <2>2 DEF Inv, OneOffer
<1>10. /\ \A d \in Made : /\ d \in Conn /\ d # c /\ role'[d] = role[d]
                          /\ Pair(d)' = Pair(d) /\ Back(d)' = Back(d)
                          /\ Pair(d) \in Users \X Users /\ Back(d) \in Users \X Users
                          /\ todo'[d] = todo[d] /\ (Told(d)' <=> Told(d))
                          /\ (d \in list'[user'[d]] <=> d \in list[user[d]])
       /\ \A d : /\ Caller(d)' <=> Caller(d)
                 /\ Callee(d)' <=> Callee(d) \/ d = c
                 /\ Caller(d) \/ Callee(d) => d \in Made
       /\ \A d, e \in Made : Opposite(d, e)' <=> Opposite(d, e)
       /\ c \notin Made /\ Made' = Made \cup {c} /\ Pair(c)' = <<v, u>> /\ Back(c)' = <<u, v>>
       /\ c \notin awaiting /\ sig[c] = "stable" /\ remote[c] = None
  BY <1>4, <1>6, <1>7, NewEnds
<1>11. /\ \A d \in Made : Opposite(d, c)' <=> d = a
       /\ \A d \in Made : Opposite(c, d)' => d = a
       /\ ~Opposite(c, c)'
  <2>1. user'[c] = v /\ peer'[c] = u
    BY <1>7 DEF New
  <2>2. \A d \in Made : Pair(d)' = <<user'[d], peer'[d]>> /\ d \in Made' /\ c \in Made'
    BY <1>10 DEF Pair
  <2>3. \A d \in Made : Pair(d) = <<u, v>> <=> d = a
    BY <1>1, <1>4 DEF Unique, Pair
  <2>4. \A d \in Made : <<user'[d], peer'[d]>> = <<u, v>> <=> d = a
    BY <1>10, <2>2, <2>3
  <2>5. \A d \in Made : Opposite(d, c)' <=> <<user'[d], peer'[d]>> = <<u, v>>
    BY <2>1, <2>2 DEF Opposite
  <2>6. \A d \in Made : Opposite(c, d)' => <<user'[d], peer'[d]>> = <<u, v>>
    BY <2>1, <2>2 DEF Opposite
  <2>7. ~Opposite(c, c)'
    BY <1>8, <2>1 DEF Opposite
  <2>8. QED
    BY <2>4, <2>5, <2>6, <2>7
<1>12. /\ \A pair \in Users \X Users :
            /\ Members(net'[pair]) \subseteq Members(net[pair])
            /\ Types(net'[pair]) \subseteq Types(net[pair])
            /\ Once(net[pair], Offered) => Once(net'[pair], Offered)
            /\ pair # <<u, v>> => net'[pair] = net[pair]
       /\ Types(net[<<u, v>>]) = Types(net'[<<u, v>>]) \cup {"offer"}
       /\ "offer" \notin Types(net'[<<u, v>>])
  <2>1. \A pair \in Users \X Users :
            /\ Members(net'[pair]) \subseteq Members(net[pair])
            /\ Once(net[pair], Offered) => Once(net'[pair], Offered)
            /\ pair # <<u, v>> => net'[pair] = net[pair]
    BY <1>4 DEF Takes
  <2>2. \A pair \in Users \X Users : Types(net'[pair]) \subseteq Types(net[pair])
    BY <2>1 DEF Types
  <2>3. Types(net[<<u, v>>]) = Types(net'[<<u, v>>]) \cup {"offer"}
    BY <1>4 DEF Takes
  <2>4. Once(net[<<u, v>>], Offered)
    BY <1>8 DEF Inv, OneOffer
  <2>5. "offer" \notin Types(net'[<<u, v>>])
    BY <1>4, <2>4 DEF Takes
  <2>6. QED
    BY <2>1, <2>2, <2>3, <2>5
<1>13. Unique' /\ Posted' /\ Given' /\ Described' /\ Starting' /\ TasksFollow' /\ CandidatesFollowDescriptions'
  <2>1. t.do = "offer" => Opposite(t.from, c)' /\ role'[t.from] = "caller" /\ "callee" = "callee"
    <3>1. role'[a] = "caller" /\ Opposite(a, c)'
      BY <1>4, <1>10, <1>11 DEF Caller
    <3>2. QED
      BY <1>3, <1>7, <3>1 DEF New
  <2>2. t.do \in {"call", "offer"}
    BY <1>4
  <2>3. QED
    BY <1>4, <1>6, <1>7, <1>8, <1>9, <1>12, <2>1, <2>2, NewKept
<1>14. Offering'
  <2>1. ASSUME NEW d, Caller(d) PROVE Sent(d)' <=> Sent(d)
    <3>1. CASE d = a
      <4>1. Sent(a)
        BY <1>4, <1>5 DEF Sent
      <4>2. Sent(a)'
        BY <1>4, <1>10, <1>11 DEF Sent
      <4>3. QED
        BY <3>1, <4>1, <4>2
    <3>2. CASE d # a
      <4>1. Pair(d) # <<u, v>> /\ d \in Made
        BY <1>1, <1>4, <1>10, <2>1, <3>2 DEF Unique, Pair
      <4>2. Types(net'[Pair(d)']) = Types(net[Pair(d)])
        BY <1>10, <1>12, <4>1
      <4>3. \A e \in Conn : Callee(e)' /\ Opposite(d, e)' <=> Callee(e) /\ Opposite(d, e)
        BY <1>10, <1>11, <3>2, <4>1
      <4>4. QED
        BY <4>2, <4>3 DEF Sent
    <3>3. QED
      BY <3>1, <3>2
  <2>2. QED
    BY <1>1, <1>10, <2>1 DEF Inv, Offering
<1>15. OneOffer'
  <2>1. \A pair \in Users \X Users : Once(net'[pair], Offered)
    BY <1>12 DEF Inv, OneOffer
  <2>2. ASSUME NEW d \in Conn, Callee(d)' PROVE "offer" \notin Types(net'[Back(d)'])
    <3>1. CASE d = c
      BY <1>10, <1>12, <3>1
    <3>2. CASE d # c
      BY <1>10, <1>12, <2>2, <3>2 DEF Inv, OneOffer
    <3>3. QED
      BY <3>1, <3>2
  <2>3. QED
    BY <2>1, <2>2 DEF OneOffer
<1>16. AnswerMade'
  <2>1. /\ todo'[c] = <<t>> /\ Dos(todo'[c]) = {"offer"}
    <3>1. ~Waits(c, t)
      BY <1>4 DEF Waits
    <3>2. QED
      BY <1>4, <1>7, <3>1, OneTask DEF New
  <2>2. Told(c)' /\ Dos(todo'[c]) \cap Answers = {}
    BY <2>1 DEF Told, Answers
  <2>3. QED
    BY <1>1, <1>10, <2>2 DEF Inv, AnswerMade
<1>17. Answered'
  <2> SUFFICES ASSUME NEW e \in Conn, NEW d \in Conn, Callee(d)', Opposite(e, d)',
                      sig[d] = "stable", remote[d] # None
               PROVE  Told(e)' \/ e \notin list'[user'[e]] \/ "answer" \in Types(net'[Pair(d)'])
    BY <1>1 DEF Answered
  <2>1. d # c /\ Callee(d) /\ d \in Made
    BY <1>10
  <2>2. e # c
    BY <1>4, <1>11, <2>1 DEF Caller, Callee
  <2>3. e \in Made /\ Opposite(e, d)
    <3>1. e \in Made'
      BY DEF Opposite
    <3>2. QED
      BY <1>10, <2>1, <2>2, <3>1
  <2>4. Told(e) \/ e \notin list[user[e]] \/ "answer" \in Types(net[Pair(d)])
    BY <2>1, <2>3 DEF Inv, Answered
  <2>5. "answer" \in Types(net[Pair(d)]) => "answer" \in Types(net'[Pair(d)])
    BY <1>10, <1>12, <2>1
  <2>6. QED
    BY <1>10, <2>1, <2>3, <2>4, <2>5
<1>18. MessagesFollow'
  <2> SUFFICES ASSUME NEW d \in Conn, Caller(d)', ~Told(d)', d \in list'[user'[d]]
               PROVE  Leads(net'[Back(d)'], AnswerMessages, CandidateMessages)
    BY DEF MessagesFollow
  <2>1. Caller(d) /\ d \in Made /\ ~Told(d) /\ d \in list[user[d]]
    BY <1>10
  <2>2. Leads(net[Back(d)], AnswerMessages, CandidateMessages)
    BY <2>1 DEF Inv, MessagesFollow
  <2>3. CASE Back(d) = <<u, v>>
    <3>1. Leads(net'[<<u, v>>], AnswerMessages, CandidateMessages)
      BY <1>4, <2>2, <2>3 DEF Takes
    <3>2. QED
      BY <1>10, <2>1, <2>3, <3>1
  <2>4. CASE Back(d) # <<u, v>>
    BY <1>10, <1>12, <2>1, <2>2, <2>4
  <2>5. QED
    BY <2>3, <2>4
<1>19. QED
  BY <1>13, <1>14, <1>15, <1>16, <1>17, <1>18 DEF Inv

LEMMA DeliverInv ==
  ASSUME General, Inv, OneCallEach, NEW u \in Users, NEW v \in Users, Deliver(u, v)
  PROVE  Inv'
BY OnOfferInv, OnAnswerInv, OnCandidateInv DEF Deliver

LEMMA StepInv == ASSUME General, Inv, OneCallEach, [Next]_vars PROVE Inv'
<1>1. CASE UNCHANGED vars
  BY <1>1, StutterInv
<1>2. ASSUME NEW c \in Conn, Perform(c) PROVE Inv'
  BY <1>2, BeginInv, OfferInv, LocalOfferInv, RemoteOfferInv, AnswerInv, LocalAnswerInv,
     RemoteAnswerInv, CandidateInv DEF Perform
<1>3. ASSUME NEW c \in Conn, NegotiationNeeded(c) \/ FindCandidate(c) \/ IceFails(c) PROVE Inv'
  BY <1>3, NegotiationNever, FoundInv, FailedInv
<1>4. ASSUME NEW c \in Conn, Open(c) \/ StreamAnswers(c) PROVE Inv'
  BY <1>4, OpenInv, StreamInv
<1>5. ASSUME NEW u \in Users, CameraAnswers(u) PROVE Inv'
  BY <1>5, CameraInv
<1>6. ASSUME NEW u \in Users, NEW v \in Users, Connect(u, v) \/ Deliver(u, v) PROVE Inv'
  BY <1>6, ConnectInv, DeliverInv
<1>7. QED
  BY <1>1, <1>2, <1>3, <1>4, <1>5, <1>6 DEF Next, Progress

LEMMA AlwaysInv == ASSUME OneCallEach PROVE Spec => []Inv
<1>1. General /\ Inv /\ [Next]_vars => Inv'
  BY StepInv
<1>2. QED
  BY <1>1, InitInv, AlwaysGeneral, PTL DEF Spec

(* Both ends of a call get each other's descriptions, and those of no other *)
(* call: an answer is applied by the connection whose offer it answers, and *)
(* every offer is applied by one connection.                                *)
THEOREM EndsPaired == ASSUME OneCallEach PROVE Spec => []Paired
<1>1. General /\ Inv => Paired
  BY InvPaired
<1>2. QED
  BY <1>1, AlwaysGeneral, AlwaysInv, PTL

(* The candidates of the other end are handed to a page after the           *)
(* description they belong to: no page refuses one, or gets that of another *)
(* call, whichever of page, camera and messages is slow.                    *)
THEOREM CandidatesInOrder == ASSUME OneCallEach PROVE Spec => []CandidatesFollowDescriptions
<1>1. Inv => CandidatesFollowDescriptions
  BY DEF Inv
<1>2. QED
  BY <1>1, AlwaysInv, PTL

-----------------------------------------------------------------------------
(* A call is one exchange of an offer and an answer.                        *)

\* A callee is handed one offer, and none once it has applied it.
Ringing(d) ==
  /\ Once(todo[d], KeyOf({"offer"}))
  /\ "offer" \in Dos(todo[d]) => remote[d] = None

\* What is answered is settled, at the callee before the caller.
Replied ==
  \A pair \in Users \X Users : \A m \in Members(net[pair]) : m.type = "answer" => sig[m.from] = "stable"
Heard(c) ==
  \A t \in Members(todo[c]) \cup Members(onPage[c]) : t.do = "answer" => sig[t.from] = "stable"
Concluded(c) == Caller(c) /\ remote[c] # None => sig[remote[c]] = "stable"

Settling == Replied /\ \A c \in Conn : Ringing(c) /\ Heard(c) /\ Concluded(c)

\* Answers that were not there before are those of stable connections.
NewReplies ==
  \A pair \in Users \X Users : \A m \in Members(net'[pair]) :
    m \in Members(net[pair]) \/ m.type # "answer" \/ sig'[m.from] = "stable"
NewHeard(c) ==
  \A t \in Members(todo'[c]) \cup Members(onPage'[c]) :
    t \in Members(todo[c]) \cup Members(onPage[c]) \/ t.do # "answer" \/ sig'[t.from] = "stable"

LEMMA NetSame == net' = net => NewReplies
BY DEF NewReplies

LEMMA InitSettling == ASSUME Init PROVE Settling
<1>1. \A c \in Conn : Dos(todo[c]) = {} /\ Once(todo[c], KeyOf({"offer"}))
                      /\ Members(todo[c]) = {} /\ Members(onPage[c]) = {}
  BY NoTasks, EmptyQueue DEF Init
<1>2. \A pair \in Users \X Users : Members(net[pair]) = {}
  BY EmptyQueue DEF Init
<1>3. Made = {}
  BY DEF Made, Init
<1>4. QED
  BY <1>1, <1>2, <1>3 DEF Settling, Replied, Ringing, Heard, Concluded, Caller

(* Nothing happens to descriptions.                                         *)
LEMMA QuietSettling ==
  ASSUME Settling, UNCHANGED <<sig, remote>>, NewReplies,
         \A c \in Conn : Ringing(c)' /\ NewHeard(c),
         \A c \in Conn : Caller(c)' => Caller(c) \/ remote[c] = None
  PROVE  Settling'
<1>1. Replied'
  BY DEF Settling, Replied, NewReplies
<1>2. ASSUME NEW c \in Conn PROVE Heard(c)'
  BY DEF Settling, Heard, NewHeard
<1>3. ASSUME NEW c \in Conn PROVE Concluded(c)'
  BY DEF Settling, Concluded
<1>4. QED
  BY <1>1, <1>2, <1>3 DEF Settling

\* A connection of which nothing changes that Settling speaks of.
Aside(d) == todo'[d] = todo[d] /\ onPage'[d] = onPage[d] /\ remote'[d] = remote[d]

LEMMA AsideSettling ==
  ASSUME Settling, NEW d \in Conn, Aside(d)
  PROVE  Ringing(d)' /\ NewHeard(d)
BY DEF Settling, Aside, Ringing, NewHeard

(* Something happens to the description of one connection, of which no      *)
(* answer is under way unless it is stable.                                 *)
LEMMA MovedSettling ==
  ASSUME General, Inv, OneCallEach, Settling, NEW c \in Conn, UNCHANGED <<user, peer, role>>,
         \A d \in Conn \ {c} : sig'[d] = sig[d] /\ Aside(d),
         sig'[c] = "stable" \/ Caller(c) \/ remote[c] = None,
         NewReplies, NewHeard(c), Ringing(c)',
         Caller(c) /\ remote'[c] # None => remote'[c] = remote[c] \/ sig'[remote'[c]] = "stable"
  PROVE  Settling'
<1>1. TypeOK /\ Lists /\ Unique /\ Posted /\ Given /\ Described
  BY DEF General, Inv
<1>2. \A d \in Conn : Callee(d) /\ remote[d] # None /\ sig[d] = "stable" => sig'[d] = "stable"
  BY DEF Caller, Callee
<1>3. Replied'
  <2> SUFFICES ASSUME NEW pair \in Users \X Users, NEW m \in Members(net[pair]), m.type = "answer"
               PROVE  sig'[m.from] = "stable"
    BY DEF Replied, NewReplies
  <2>1. m.from \in Conn /\ Callee(m.from) /\ remote[m.from] # None
    BY <1>1 DEF Posted, Callee, Made
  <2>2. sig[m.from] = "stable"
    BY DEF Settling, Replied
  <2>3. QED
    BY <1>2, <2>1, <2>2
<1>4. ASSUME NEW d \in Conn PROVE Heard(d)'
  <2>1. NewHeard(d)
    BY AsideSettling
  <2> SUFFICES ASSUME NEW t \in Members(todo[d]) \cup Members(onPage[d]), t.do = "answer"
               PROVE  sig'[t.from] = "stable"
    BY <2>1 DEF Heard, NewHeard
  <2>2. t.from \in Conn /\ Callee(t.from) /\ remote[t.from] # None
    BY <1>1 DEF Given, Callee, Opposite, Made
  <2>3. sig[t.from] = "stable"
    BY DEF Settling, Heard
  <2>4. QED
    BY <1>2, <2>2, <2>3
<1>5. ASSUME NEW d \in Conn, Caller(d), remote'[d] # None PROVE sig'[remote'[d]] = "stable"
  <2>1. CASE remote'[d] = remote[d]
    <3>1. Opposite(remote[d], d) /\ remote[remote[d]] # None
      BY <1>1, <1>5, <2>1 DEF Described, Caller
    <3>2. Callee(remote[d]) /\ remote[d] \in Conn
      BY <1>1, <1>5, <3>1, EndsDiffer DEF Caller, Callee, Made
    <3>3. sig[remote[d]] = "stable"
      BY <1>5, <2>1 DEF Settling, Concluded
    <3>4. QED
      BY <1>2, <2>1, <3>1, <3>2, <3>3
  <2>2. CASE remote'[d] # remote[d]
    BY <1>5, <2>2 DEF Aside
  <2>3. QED
    BY <2>1, <2>2
<1>6. \A d \in Conn : Caller(d)' <=> Caller(d)
  BY DEF Caller, Made
<1>7. \A d \in Conn : Ringing(d)'
  BY AsideSettling
<1>8. QED
  BY <1>3, <1>4, <1>5, <1>6, <1>7 DEF Settling, Concluded

(* A connection whose first task is done.                                   *)
LEMMA DoneSettling ==
  ASSUME General, Settling, NEW c \in Conn, todo[c] # <<>>, todo' = [todo EXCEPT ![c] = Tail(@)],
         onPage' = onPage
  PROVE  /\ NewHeard(c)
         /\ \A d \in Conn \ {c} : todo'[d] = todo[d] /\ onPage'[d] = onPage[d]
         /\ Once(todo'[c], KeyOf({"offer"}))
         /\ "offer" \in Dos(todo'[c]) => remote[c] = None /\ Head(todo[c]).do # "offer"
<1>1. /\ \A d \in Conn \ {c} : todo'[d] = todo[d]
      /\ Members(todo[c]) = Members(todo'[c]) \cup {Head(todo[c])}
      /\ Dos(todo[c]) = Dos(todo'[c]) \cup {Head(todo[c]).do}
      /\ \A D : Once(todo[c], KeyOf(D)) =>
           Once(todo'[c], KeyOf(D)) /\ (Head(todo[c]).do \in D => Dos(todo'[c]) \cap D = {})
  BY Dequeued DEF General
<1>2. Once(todo[c], KeyOf({"offer"})) /\ ("offer" \in Dos(todo[c]) => remote[c] = None)
  BY DEF Settling, Ringing
<1>3. /\ Once(todo'[c], KeyOf({"offer"}))
      /\ Head(todo[c]).do \in {"offer"} => Dos(todo'[c]) \cap {"offer"} = {}
  BY <1>1, <1>2
<1>4. NewHeard(c)
  BY <1>1 DEF NewHeard
<1>5. QED
  BY <1>1, <1>2, <1>3, <1>4

(* A connection that is given something of its own to do.                   *)
LEMMA OwnTaskSettling ==
  ASSUME Settling, NEW c \in Conn, NEW what \in Starts \cup Answers, onPage' = onPage, remote' = remote,
         \A t \in Members(todo'[c]) : t \in Members(todo[c]) \/ t.do = what,
         Dos(todo'[c]) \subseteq Dos(todo[c]) \cup {what},
         Once(todo[c], KeyOf({"offer"})) => Once(todo'[c], KeyOf({"offer"})),
         \A d \in Conn \ {c} : todo'[d] = todo[d]
  PROVE  \A d \in Conn : Ringing(d)' /\ NewHeard(d)
<1>1. what # "offer" /\ what # "answer"
  BY DEF Starts, Answers
<1>2. Ringing(c)' /\ NewHeard(c)
  BY <1>1 DEF Settling, Ringing, NewHeard
<1>3. ASSUME NEW d \in Conn \ {c} PROVE Ringing(d)' /\ NewHeard(d)
  BY AsideSettling DEF Aside
<1>4. QED
  BY <1>2, <1>3

LEMMA StillSettling ==
  ASSUME Settling, UNCHANGED <<user, peer, role, todo, onPage, sig, remote>>, NewReplies
  PROVE  Settling'
<1>1. \A c \in Conn : Ringing(c)' /\ NewHeard(c)
  BY AsideSettling DEF Aside
<1>2. \A c \in Conn : Caller(c)' => Caller(c)
  BY DEF Caller, Made
<1>3. QED
  BY <1>1, <1>2, QuietSettling

LEMMA SendsReplies ==
  ASSUME General, NEW c \in Made, NEW type \in {"offer", "answer", "candidate"},
         NEW re \in Conn \cup {None}, net' = Send(c, type, re), type = "answer" => sig'[c] = "stable"
  PROVE  NewReplies
<1>1. Sends(c, type) /\ Pair(c) \in Users \X Users /\ net[Pair(c)] \in Seq(Message)
  BY SendSends DEF General, TypeOK
<1>2. PICK m \in Message : m.type = type /\ m.from = c /\ net'[Pair(c)] = Append(net[Pair(c)], m)
  BY <1>1 DEF Sends
<1>3. Members(net'[Pair(c)]) = Members(net[Pair(c)]) \cup {m}
  BY <1>1, <1>2, MessageAdded
<1>4. \A pair \in Users \X Users : pair # Pair(c) => net'[pair] = net[pair]
  BY <1>1 DEF Sends
<1>5. QED
  BY <1>2, <1>3, <1>4 DEF NewReplies

LEMMA OpenSettling ==
  ASSUME General, Settling, NEW c \in Conn, Open(c)
  PROVE  Settling'
<1>1. TypeOK /\ Sound(c) /\ todo[c] \in Seq(Task) /\ onPage[c] \in Seq(Task)
  BY DEF General, TypeOK
<1>2. /\ Members(todo[c] \o onPage[c]) = Members(todo[c]) \cup Members(onPage[c])
      /\ Dos(todo[c] \o onPage[c]) = Dos(todo[c]) \cup Dos(onPage[c])
      /\ \A D : Once(todo[c], KeyOf(D)) /\ Once(onPage[c], KeyOf(D))
                /\ (Dos(todo[c]) \cap D = {} \/ Dos(onPage[c]) \cap D = {}) =>
              Once(todo[c] \o onPage[c], KeyOf(D))
  BY <1>1, TasksJoined
<1>3. /\ todo'[c] = todo[c] \o onPage[c] /\ onPage'[c] = <<>>
      /\ \A d \in Conn \ {c} : todo'[d] = todo[d] /\ onPage'[d] = onPage[d]
      /\ UNCHANGED <<user, peer, role, net, sig, remote>>
  BY <1>1 DEF TypeOK, Open, own, page
<1>4. Members(onPage'[c]) = {}
  BY <1>3, EmptyQueue
<1>5. Dos(onPage[c]) \cap {"offer"} = {}
  BY <1>1 DEF Sound, Paged
<1>6. Once(onPage[c], KeyOf({"offer"}))
  <2>1. Keys(onPage[c], KeyOf({"offer"})) = {}
    BY <1>1, <1>5, KeysAreDos
  <2>2. QED
    BY <2>1 DEF Once, Keys, Members
<1>7. Once(todo[c], KeyOf({"offer"})) /\ ("offer" \in Dos(todo[c]) => remote[c] = None)
  BY DEF Settling, Ringing
<1>8. Ringing(c)'
  <2>1. Once(todo'[c], KeyOf({"offer"}))
    BY <1>2, <1>3, <1>5, <1>6, <1>7
  <2>2. QED
    BY <1>2, <1>3, <1>5, <1>7, <2>1 DEF Ringing
<1>9. NewHeard(c)
  BY <1>2, <1>3, <1>4 DEF NewHeard
<1>10. \A d \in Conn : Ringing(d)' /\ NewHeard(d)
  BY <1>3, <1>8, <1>9, AsideSettling DEF Aside
<1>11. \A d \in Conn : Caller(d)' => Caller(d)
  BY <1>3 DEF Caller, Made
<1>12. QED
  BY <1>3, <1>10, <1>11, NetSame, QuietSettling

LEMMA StreamSettling ==
  ASSUME General, Settling, NEW c \in Conn, StreamAnswers(c)
  PROVE  Settling'
<1>1. TypeOK /\ UNCHANGED <<user, peer, role, net, sig, remote, onPage>>
  BY DEF General, StreamAnswers, own
<1>2. \A d \in Conn : Caller(d)' => Caller(d)
  BY <1>1 DEF Caller, Made
<1>3. CASE todo' = todo
  BY <1>1, <1>3, NetSame, StillSettling
<1>4. ASSUME NEW what \in Starts \cup Answers, todo' = [todo EXCEPT ![c] = Append(@, Do(what))]
      PROVE  Settling'
  <2>1. /\ \A d \in Conn \ {c} : todo'[d] = todo[d]
        /\ Do(what).do = what
        /\ Members(todo'[c]) = Members(todo[c]) \cup {Do(what)}
        /\ Dos(todo'[c]) = Dos(todo[c]) \cup {what}
        /\ \A D : Once(todo[c], KeyOf(D)) /\ (what \in D => Dos(todo[c]) \cap D = {}) =>
             Once(todo'[c], KeyOf(D))
    BY <1>1, <1>4, EnqueuedDo
  <2>2. Once(todo[c], KeyOf({"offer"})) => Once(todo'[c], KeyOf({"offer"}))
    <3>1. what \notin {"offer"}
      BY DEF Starts, Answers
    <3>2. QED
      BY <2>1, <3>1
  <2>3. \A t \in Members(todo'[c]) : t \in Members(todo[c]) \/ t.do = what
    BY <2>1
  <2>4. \A d \in Conn : Ringing(d)' /\ NewHeard(d)
    BY <1>1, <2>1, <2>2, <2>3, OwnTaskSettling
  <2>5. QED
    BY <1>1, <1>2, <2>4, NetSame, QuietSettling
<1>5. \/ todo' = todo
      \/ todo' = [todo EXCEPT ![c] = Append(@, Do("createAnswer"))]
      \/ todo' = [todo EXCEPT ![c] = Append(@, Do("createOffer"))]
  BY DEF StreamAnswers
<1>6. {"createAnswer", "createOffer"} \subseteq Starts \cup Answers
  BY DEF Starts, Answers
<1>7. QED
  BY <1>3, <1>4, <1>5, <1>6

LEMMA FoundSettling ==
  ASSUME General, Settling, NEW c \in Conn, FindCandidate(c)
  PROVE  Settling'
<1>1. /\ UNCHANGED <<user, peer, role, todo, onPage, sig, remote>>
      /\ c \in Made /\ net' = Send(c, "candidate", None)
  BY DEF FindCandidate, own, General, Sound, Blank
<1>2. NewReplies
  BY <1>1, SendsReplies
<1>3. QED
  BY <1>1, <1>2, StillSettling

LEMMA IdleSettling ==
  ASSUME Settling,
         \/ UNCHANGED vars
         \/ \E c \in Conn : IceFails(c)
         \/ \E u \in Users : CameraAnswers(u)
  PROVE  Settling'
<1>1. UNCHANGED <<user, peer, role, todo, onPage, sig, remote, net>>
  BY DEF vars, own, page, IceFails, CameraAnswers
<1>2. QED
  BY <1>1, NetSame, StillSettling

(* A task that leaves descriptions alone.                                   *)
LEMMA PassedSettling ==
  ASSUME General, Settling, NEW c \in Conn, todo[c] # <<>>, todo' = [todo EXCEPT ![c] = Tail(@)],
         UNCHANGED <<user, peer, role, onPage, sig, remote, net>>
  PROVE  Settling'
<1>1. /\ NewHeard(c)
      /\ \A d \in Conn \ {c} : todo'[d] = todo[d] /\ onPage'[d] = onPage[d]
      /\ Once(todo'[c], KeyOf({"offer"}))
      /\ "offer" \in Dos(todo'[c]) => remote[c] = None /\ Head(todo[c]).do # "offer"
  BY DoneSettling
<1>2. Ringing(c)'
  BY <1>1 DEF Ringing
<1>3. \A d \in Conn : Ringing(d)' /\ NewHeard(d)
  BY <1>1, <1>2, AsideSettling DEF Aside
<1>4. \A d \in Conn : Caller(d)' => Caller(d)
  BY DEF Caller, Made
<1>5. QED
  BY <1>3, <1>4, NetSame, QuietSettling

LEMMA RenewedSettling ==
  ASSUME General, Settling, NEW c \in Conn, todo[c] # <<>>, NEW what \in Starts \cup Answers,
         todo' = [todo EXCEPT ![c] = Append(Tail(@), Do(what))],
         UNCHANGED <<user, peer, role, onPage, sig, remote, net>>
  PROVE  Settling'
<1>1. TypeOK
  BY DEF General
<1>2. /\ \A d \in Conn \ {c} : todo'[d] = todo[d]
      /\ Do(what).do = what
      /\ Members(todo'[c]) \cup {Head(todo[c])} = Members(todo[c]) \cup {Do(what)}
      /\ Dos(todo'[c]) \cup {Head(todo[c]).do} = Dos(todo[c]) \cup {what}
      /\ \A D : Once(todo[c], KeyOf(D)) /\ (what \in D => Head(todo[c]).do \in D) =>
           Once(todo'[c], KeyOf(D))
  BY <1>1, ReplacedDo
<1>3. Once(todo[c], KeyOf({"offer"})) => Once(todo'[c], KeyOf({"offer"}))
  <2>1. what \notin {"offer"}
    BY DEF Starts, Answers
  <2>2. QED
    BY <1>2, <2>1
<1>4. \A t \in Members(todo'[c]) : t \in Members(todo[c]) \/ t.do = what
  BY <1>2
<1>5. Dos(todo'[c]) \subseteq Dos(todo[c]) \cup {what}
  BY <1>2
<1>6. \A d \in Conn : Ringing(d)' /\ NewHeard(d)
  BY <1>2, <1>3, <1>4, <1>5, OwnTaskSettling
<1>7. \A d \in Conn : Caller(d)' => Caller(d)
  BY DEF Caller, Made
<1>8. QED
  BY <1>6, <1>7, NetSame, QuietSettling

\* A connection does something with its peer connection.
Performs(c) == c \in open /\ todo[c] # <<>> /\ UNCHANGED <<own, open, onPage, camera>>

LEMMA LocalOfferSettling ==
  ASSUME General, Inv, OneCallEach, Settling, NEW c \in Conn, Performs(c), SetLocalOffer(c)
  PROVE  Settling' /\ Caller(c) /\ sig[c] = "stable" /\ remote[c] = None /\ sig'[c] = "have-local-offer"
<1>1. Done(c) /\ TypeOK /\ UNCHANGED <<user, peer, role, onPage>>
  BY TailDone DEF SetLocalOffer, General, Performs, own
<1>2. /\ Head(todo[c]).do = "setLocalOffer" /\ todo' = [todo EXCEPT ![c] = Tail(@)]
      /\ net' = Send(c, "offer", None) /\ remote' = remote
      /\ sig' = [sig EXCEPT ![c] = "have-local-offer"]
  BY DEF SetLocalOffer
<1>3. sig'[c] = "have-local-offer" /\ \A d \in Conn \ {c} : sig'[d] = sig[d]
  BY <1>1, <1>2 DEF TypeOK
<1>4. Caller(c) /\ ~Sent(c)
  BY <1>1, <1>2 DEF Done, Inv, Starting, Offering, Starts
<1>5. sig[c] = "stable" /\ remote[c] = None
  BY <1>4 DEF Inv, Offering
<1>6. NewReplies
  BY <1>1, <1>2, SendsReplies DEF Done
<1>7. /\ NewHeard(c)
      /\ \A d \in Conn \ {c} : todo'[d] = todo[d] /\ onPage'[d] = onPage[d]
      /\ Once(todo'[c], KeyOf({"offer"}))
      /\ "offer" \in Dos(todo'[c]) => remote[c] = None /\ Head(todo[c]).do # "offer"
  BY <1>1, <1>2, DoneSettling DEF Performs
<1>8. Ringing(c)'
  BY <1>2, <1>7 DEF Ringing
<1>9. \A d \in Conn \ {c} : sig'[d] = sig[d] /\ Aside(d)
  BY <1>2, <1>3, <1>7 DEF Aside
<1>10. Settling'
  BY <1>1, <1>2, <1>4, <1>6, <1>7, <1>8, <1>9, MovedSettling
<1>11. QED
  BY <1>3, <1>4, <1>5, <1>10

LEMMA RemoteOfferSettling ==
  ASSUME General, Inv, OneCallEach, Settling, NEW c \in Conn, Performs(c), SetRemoteOffer(c)
  PROVE  /\ Settling' /\ Callee(c) /\ remote[c] = None
         /\ sig'[c] = "have-remote-offer" /\ remote'[c] # None
<1>1. Done(c) /\ TypeOK /\ UNCHANGED <<user, peer, role, onPage>>
  BY TailDone DEF SetRemoteOffer, General, Performs, own
<1>2. /\ Head(todo[c]).do = "offer" /\ todo' = [todo EXCEPT ![c] = Tail(@)] /\ net' = net
      /\ sig' = [sig EXCEPT ![c] = "have-remote-offer"]
      /\ remote' = [remote EXCEPT ![c] = Head(todo[c]).from]
  BY DEF SetRemoteOffer
<1>3. /\ sig'[c] = "have-remote-offer" /\ remote'[c] = Head(todo[c]).from
      /\ \A d \in Conn \ {c} : sig'[d] = sig[d] /\ remote'[d] = remote[d]
  BY <1>1, <1>2 DEF TypeOK
<1>4. Opposite(Head(todo[c]).from, c) /\ role[c] = "callee"
  BY <1>1, <1>2 DEF Done, Inv, Given
<1>5. remote'[c] # None /\ Callee(c)
  BY <1>1, <1>3, <1>4 DEF Opposite, Made, Conn, None, Callee
<1>6. remote[c] = None
  BY <1>1, <1>2 DEF Done, Settling, Ringing
<1>7. /\ NewHeard(c)
      /\ \A d \in Conn \ {c} : todo'[d] = todo[d] /\ onPage'[d] = onPage[d]
      /\ Once(todo'[c], KeyOf({"offer"}))
      /\ "offer" \in Dos(todo'[c]) => remote[c] = None /\ Head(todo[c]).do # "offer"
  BY <1>1, <1>2, DoneSettling DEF Performs
<1>8. Ringing(c)'
  BY <1>2, <1>7 DEF Ringing
<1>9. \A d \in Conn \ {c} : sig'[d] = sig[d] /\ Aside(d)
  BY <1>3, <1>7 DEF Aside
<1>10. ~Caller(c)
  BY <1>5 DEF Caller, Callee
<1>11. Settling'
  BY <1>1, <1>2, <1>6, <1>7, <1>8, <1>9, <1>10, NetSame, MovedSettling
<1>12. QED
  BY <1>3, <1>5, <1>6, <1>11

LEMMA LocalAnswerSettling ==
  ASSUME General, Inv, OneCallEach, Settling, NEW c \in Conn, Performs(c), SetLocalAnswer(c)
  PROVE  /\ Settling' /\ Callee(c) /\ remote[c] # None /\ remote' = remote
         /\ sig[c] \in {"stable", "have-remote-offer"} /\ sig'[c] = "stable"
<1>1. Done(c) /\ TypeOK /\ UNCHANGED <<user, peer, role, onPage>> /\ Sound(c)
  BY TailDone DEF SetLocalAnswer, General, Performs, own
<1>2. /\ Head(todo[c]).do = "setLocalAnswer" /\ todo' = [todo EXCEPT ![c] = Tail(@)]
      /\ net' = Send(c, "answer", remote[c]) /\ remote' = remote
      /\ sig' = [sig EXCEPT ![c] = "stable"]
  BY DEF SetLocalAnswer
<1>3. sig'[c] = "stable" /\ \A d \in Conn \ {c} : sig'[d] = sig[d]
  BY <1>1, <1>2 DEF TypeOK
<1>4. Dos(todo[c]) \cap Answers # {} /\ role[c] \in Roles /\ remote[c] \in Conn \cup {None}
  BY <1>1, <1>2 DEF Done, Answers, TypeOK
<1>5. Callee(c)
  BY <1>1, <1>4 DEF Sound, RoleTasks, Callee, Roles, Done
<1>6. remote[c] # None /\ sig[c] # "have-local-offer" /\ sig[c] \in Sigs
  BY <1>1, <1>4, <1>5 DEF Inv, AnswerMade, TypeOK
<1>7. NewReplies
  BY <1>1, <1>2, <1>3, <1>4, SendsReplies DEF Done
<1>8. /\ NewHeard(c)
      /\ \A d \in Conn \ {c} : todo'[d] = todo[d] /\ onPage'[d] = onPage[d]
      /\ Once(todo'[c], KeyOf({"offer"}))
      /\ "offer" \in Dos(todo'[c]) => remote[c] = None /\ Head(todo[c]).do # "offer"
  BY <1>1, <1>2, DoneSettling DEF Performs
<1>9. Ringing(c)'
  BY <1>2, <1>8 DEF Ringing
<1>10. \A d \in Conn \ {c} : sig'[d] = sig[d] /\ Aside(d)
  BY <1>2, <1>3, <1>8 DEF Aside
<1>11. Settling'
  BY <1>1, <1>2, <1>3, <1>7, <1>8, <1>9, <1>10, MovedSettling
<1>12. QED
  BY <1>2, <1>3, <1>5, <1>6, <1>11 DEF Sigs

LEMMA RemoteAnswerSettling ==
  ASSUME General, Inv, OneCallEach, Settling, NEW c \in Conn, Performs(c), SetRemoteAnswer(c)
  PROVE  /\ Settling' /\ Caller(c)
         /\ \A d \in Conn \ {c} : sig'[d] = sig[d] /\ remote'[d] = remote[d]
         /\ \/ UNCHANGED <<sig, remote>>
            \/ /\ sig[c] = "have-local-offer" /\ remote'[c] # None
               /\ \E d \in Conn : Callee(d) /\ Opposite(d, c) /\ remote[d] # None /\ sig[d] = "stable"
<1>1. Done(c) /\ TypeOK /\ UNCHANGED <<user, peer, role, onPage>> /\ Sound(c)
  BY TailDone DEF SetRemoteAnswer, General, Performs, own
<1>2. /\ Head(todo[c]).do = "answer" /\ todo' = [todo EXCEPT ![c] = Tail(@)] /\ net' = net
      /\ \/ UNCHANGED <<sig, remote>>
         \/ /\ sig[c] = "have-local-offer" /\ sig' = [sig EXCEPT ![c] = "stable"]
            /\ remote' = [remote EXCEPT ![c] = Head(todo[c]).from]
  BY DEF SetRemoteAnswer
<1>3. PICK e : e = Head(todo[c]).from
  OBVIOUS
<1>4. Opposite(e, c) /\ role[e] = "callee" /\ role[c] = "caller" /\ remote[e] # None /\ sig[e] = "stable"
  BY <1>1, <1>2, <1>3 DEF Done, Inv, Given, Settling, Heard
<1>5. Callee(e) /\ e \in Conn /\ e # None /\ Caller(c) /\ e # c
  BY <1>4 DEF Callee, Caller, Opposite, Made, Conn, None
<1>6. \/ UNCHANGED <<sig, remote>>
      \/ /\ sig[c] = "have-local-offer" /\ sig'[c] = "stable" /\ remote'[c] = e
         /\ \A d \in Conn \ {c} : sig'[d] = sig[d] /\ remote'[d] = remote[d]
  BY <1>1, <1>2, <1>3 DEF TypeOK
<1>7. sig'[e] = "stable"
  BY <1>4, <1>5, <1>6
<1>8. /\ NewHeard(c)
      /\ \A d \in Conn \ {c} : todo'[d] = todo[d] /\ onPage'[d] = onPage[d]
      /\ Once(todo'[c], KeyOf({"offer"}))
  BY <1>1, <1>2, DoneSettling DEF Performs
<1>9. Ringing(c)'
  BY <1>1, <1>4, <1>8 DEF Ringing, Sound, RoleTasks, Done
<1>10. \A d \in Conn \ {c} : sig'[d] = sig[d] /\ remote'[d] = remote[d] /\ Aside(d)
  BY <1>6, <1>8 DEF Aside
<1>11. remote'[c] = remote[c] \/ sig'[remote'[c]] = "stable"
  BY <1>6, <1>7
<1>12. Settling'
  BY <1>1, <1>2, <1>5, <1>8, <1>9, <1>10, <1>11, NetSame, MovedSettling
<1>13. QED
  BY <1>4, <1>5, <1>6, <1>10, <1>12

LEMMA HandedSettling ==
  ASSUME General, Settling, NEW cs, NEW t \in Task, HandTo(cs, t),
         t.do \in {"answer", "candidate"}, t.do = "answer" => sig[t.from] = "stable",
         UNCHANGED <<user, peer, role, sig, remote>>, NewReplies
  PROVE  Settling'
<1>1. TypeOK
  BY DEF General
<1>2. \A c \in Conn :
        /\ todo'[c] = IF c \in cs /\ ~Waits(c, t) THEN Append(todo[c], t) ELSE todo[c]
        /\ onPage'[c] = IF c \in cs /\ Waits(c, t) THEN Append(onPage[c], t) ELSE onPage[c]
  BY <1>1, Handed
<1>3. ASSUME NEW c \in Conn PROVE Ringing(c)' /\ NewHeard(c)
  <2>1. todo[c] \in Seq(Task) /\ onPage[c] \in Seq(Task)
    BY <1>1 DEF TypeOK
  <2>2. /\ Members(Append(onPage[c], t)) = Members(onPage[c]) \cup {t}
        /\ Members(Append(todo[c], t)) = Members(todo[c]) \cup {t}
    BY <2>1, TaskAdded
  <2>3. Dos(Append(todo[c], t)) = Dos(todo[c]) \cup {t.do}
    BY <2>1, TaskAdded
  <2>4. Once(todo[c], KeyOf({"offer"})) => Once(Append(todo[c], t), KeyOf({"offer"}))
    BY <2>1, TaskAdded
  <2>5. Ringing(c)'
    BY <1>2, <2>3, <2>4 DEF Settling, Ringing
  <2>6. \A e \in Members(todo'[c]) \cup Members(onPage'[c]) :
          e \in Members(todo[c]) \cup Members(onPage[c]) \cup {t}
    BY <1>2, <2>2
  <2>7. t.do # "answer" \/ sig'[t.from] = "stable"
    OBVIOUS
  <2>8. NewHeard(c)
    BY <2>6, <2>7 DEF NewHeard
  <2>9. QED
    BY <2>5, <2>8
<1>4. \A c \in Conn : Caller(c)' => Caller(c)
  BY DEF Caller, Made
<1>5. QED
  BY <1>3, <1>4, QuietSettling

LEMMA TakesReplies ==
  ASSUME NEW p, NEW type, Takes(p, type)
  PROVE  NewReplies
BY DEF Takes, NewReplies

LEMMA NewSettling ==
  ASSUME General, Inv, Settling, NEW c \in Conn, NEW u \in Users, NEW v \in Users, NEW as \in Roles,
         NEW t \in Task, New(c, u, v, as, t), UNCHANGED <<open, awaiting, camera, page>>,
         t.do # "answer", NewReplies
  PROVE  Settling'
<1>1. /\ todo[c] = <<>> /\ onPage[c] = <<>> /\ remote[c] = None
      /\ \A d : Caller(d)' => Caller(d) \/ d = c
  BY NewEnds
<1>2. UNCHANGED <<sig, remote>>
  BY DEF page
<1>3. /\ todo'[c] \in {<<>>, <<t>>} /\ onPage'[c] \in {<<>>, <<t>>}
      /\ \A d \in Conn \ {c} : todo'[d] = todo[d] /\ onPage'[d] = onPage[d]
  BY DEF New
<1>4. /\ \A q \in {<<>>, <<t>>} : Members(q) \subseteq {t} /\ Once(q, KeyOf({"offer"}))
  BY NoTasks, OneTask, EmptyQueue
<1>5. Ringing(c)' /\ NewHeard(c)
  <2>1. Once(todo'[c], KeyOf({"offer"})) /\ remote'[c] = None
    BY <1>1, <1>2, <1>3, <1>4
  <2>2. \A e \in Members(todo'[c]) \cup Members(onPage'[c]) : e = t
    BY <1>3, <1>4
  <2>3. QED
    BY <2>1, <2>2 DEF Ringing, NewHeard
<1>6. \A d \in Conn : Ringing(d)' /\ NewHeard(d)
  BY <1>2, <1>3, <1>5, AsideSettling DEF Aside
<1>7. QED
  BY <1>1, <1>2, <1>6, QuietSettling

\* Nothing happens to a connection that shows in a call.
Apart(d) ==
  /\ user'[d] = user[d] /\ peer'[d] = peer[d] /\ role'[d] = role[d]
  /\ sig'[d] = sig[d] /\ remote'[d] = remote[d]

LEMMA ConnectSettling ==
  ASSUME General, Inv, OneCallEach, Settling, NEW u \in Users, NEW v \in Users, Connect(u, v)
  PROVE  /\ Settling' /\ <<u, v>> \in CallPairs
         /\ \A d \in Made : Pair(d) # <<u, v>>
         /\ \E c \in Conn \ Made : /\ Caller(c)' /\ Pair(c)' = <<u, v>>
                                   /\ sig'[c] = "stable" /\ remote'[c] = None
                                   /\ \A d \in Conn \ {c} : Apart(d)
<1>1. Create(u, v, "caller", Do("call")) /\ UNCHANGED <<open, awaiting, camera, page>> /\ net' = net
  BY DEF Connect
<1>2. PICK t : t = Do("call")
  OBVIOUS
<1>3. "caller" \in Roles /\ t \in Task /\ t.do = "call"
  BY <1>2, TasksMade DEF Roles
<1>4. PICK c \in Conn : New(c, u, v, "caller", t)
  BY <1>1, <1>2, <1>3, CreatesNew
<1>5. /\ c \notin Made /\ Pair(c)' = <<u, v>> /\ sig[c] = "stable" /\ remote[c] = None
      /\ \A d : Caller(d)' <=> Caller(d) \/ d = c
  BY <1>1, <1>3, <1>4, NewEnds
<1>6. Settling'
  BY <1>1, <1>3, <1>4, NetSame, NewSettling
<1>7. \A d \in Conn \ {c} : Apart(d)
  BY <1>1, <1>4 DEF Apart, New, page
<1>8. sig'[c] = "stable" /\ remote'[c] = None
  BY <1>1, <1>5 DEF page
<1>9. QED
  BY <1>5, <1>6, <1>7, <1>8, NoCallYet

LEMMA OnOfferSettling ==
  ASSUME General, Inv, OneCallEach, Settling, NEW u \in Users, NEW v \in Users, net[<<u, v>>] # <<>>,
         net' = [net EXCEPT ![<<u, v>>] = Tail(@)], UNCHANGED <<open, awaiting, camera, page>>,
         Head(net[<<u, v>>]).type = "offer", OnOffer(u, v, Head(net[<<u, v>>]))
  PROVE  /\ Settling' /\ <<u, v>> \in CallPairs
         /\ \A d \in Conn : Callee(d) => Back(d) # <<u, v>>
         /\ \E a \in Conn : /\ Caller(a) /\ Pair(a) = <<u, v>>
                            /\ sig[a] = "have-local-offer" /\ remote[a] = None
         /\ \E c \in Conn \ Made : /\ Callee(c)' /\ Back(c)' = <<u, v>> /\ remote'[c] = None
                                   /\ \A d \in Conn \ {c} : Apart(d)
<1> DEFINE m == Head(net[<<u, v>>])
<1>1. TypeOK /\ Lists /\ Unique /\ <<u, v>> \in Users \X Users /\ UNCHANGED <<sig, remote>>
  BY DEF General, Inv, page
<1>2. PICK t : t = Handle(m)
  OBVIOUS
<1>3. PICK a : a = t.from
  OBVIOUS
<1>4. /\ t \in Task /\ t.do = "offer" /\ Takes(<<u, v>>, t.do)
      /\ a \in Made /\ a \in Conn /\ Pair(a) = <<u, v>> /\ Caller(a)
  BY <1>2, <1>3, Delivered
<1>5. "offer" \in Types(net[<<u, v>>])
  <2>1. Head(net[<<u, v>>]) \in Members(net[<<u, v>>])
    BY <1>1, TakenTypes
  <2>2. QED
    BY <2>1 DEF Types
<1>6. Create(v, u, "callee", t) /\ "callee" \in Roles
  BY <1>2 DEF OnOffer, Roles
<1> HIDE DEF m
<1>7. \A d \in Conn : Callee(d) => Back(d) # <<u, v>>
  BY <1>5 DEF Inv, OneOffer
<1>8. <<u, v>> \in CallPairs
  BY <1>4 DEF Inv, Unique
<1>9. remote[a] = None
  <2> SUFFICES ASSUME remote[a] # None PROVE FALSE
    OBVIOUS
  <2>1. Opposite(remote[a], a)
    BY <1>4 DEF Inv, Described
  <2>2. Callee(remote[a]) /\ remote[a] \in Conn /\ Back(remote[a]) = <<u, v>>
    BY <1>1, <1>4, <2>1, EndsDiffer, OppositeBack DEF Caller, Callee, Made
  <2>3. QED
    BY <1>7, <2>2
<1>10. sig[a] = "have-local-offer"
  <2>1. Sent(a)
    BY <1>4, <1>5 DEF Sent
  <2>2. sig[a] \in Sigs
    BY <1>1, <1>4 DEF TypeOK
  <2>3. QED
    BY <1>4, <1>9, <2>1, <2>2 DEF Inv, Offering, AnswerMade, Sigs
<1>11. PICK c \in Conn : New(c, v, u, "callee", t)
  BY <1>1, <1>4, <1>6, CreatesNew DEF General
<1>12. /\ c \notin Made /\ Back(c)' = <<u, v>> /\ remote[c] = None
       /\ \A d : Callee(d)' <=> Callee(d) \/ d = c
  BY <1>4, <1>6, <1>11, NewEnds
<1>13. Settling'
  BY <1>4, <1>6, <1>11, TakesReplies, NewSettling
<1>14. \A d \in Conn \ {c} : Apart(d)
  BY <1>1, <1>11 DEF Apart, New
<1>15. QED
  BY <1>1, <1>4, <1>7, <1>8, <1>9, <1>10, <1>12, <1>13, <1>14

LEMMA OnMessageSettling ==
  ASSUME General, Inv, Settling, NEW u \in Users, NEW v \in Users, net[<<u, v>>] # <<>>,
         net' = [net EXCEPT ![<<u, v>>] = Tail(@)], UNCHANGED <<open, awaiting, camera, page>>,
         LET m == Head(net[<<u, v>>])
         IN  (m.type = "answer" /\ OnAnswer(u, v, m)) \/ (m.type = "candidate" /\ OnCandidate(u, v, m))
  PROVE  Settling' /\ UNCHANGED <<user, peer, role, sig, remote>>
<1> DEFINE m == Head(net[<<u, v>>])
<1>1. TypeOK /\ <<u, v>> \in Users \X Users /\ UNCHANGED <<user, peer, role, sig, remote>>
  BY DEF General, page, OnAnswer, OnCandidate, own
<1>2. PICK t : t = Handle(m)
  OBVIOUS
<1>3. /\ t \in Task /\ t.do = m.type /\ t.from = m.from /\ Takes(<<u, v>>, t.do)
  BY <1>2, Delivered
<1>4. m \in Members(net[<<u, v>>])
  BY <1>1, TakenTypes
<1>5. PICK cs : HandTo(cs, t)
  BY <1>2 DEF OnAnswer, OnCandidate
<1>6. t.do \in {"answer", "candidate"}
  BY <1>3
<1> HIDE DEF m
<1>7. t.do = "answer" => sig[t.from] = "stable"
  BY <1>1, <1>3, <1>4 DEF Settling, Replied
<1>8. NewReplies
  BY <1>3, TakesReplies
<1>9. QED
  BY <1>1, <1>3, <1>5, <1>6, <1>7, <1>8, HandedSettling

LEMMA QuietPerforms ==
  ASSUME General, Settling, NEW c \in Conn, Performs(c),
         BeginCall(c) \/ CreateOffer(c) \/ CreateAnswer(c) \/ AddCandidate(c)
  PROVE  Settling' /\ UNCHANGED <<user, peer, role, sig, remote>>
<1>1. UNCHANGED <<user, peer, role, onPage, sig, remote, net>> /\ todo[c] # <<>>
  BY DEF Performs, own, BeginCall, CreateOffer, CreateAnswer, AddCandidate, page
<1>2. CASE todo' = [todo EXCEPT ![c] = Tail(@)]
  BY <1>1, <1>2, PassedSettling
<1>3. ASSUME NEW what \in Starts \cup Answers, todo' = [todo EXCEPT ![c] = Append(Tail(@), Do(what))]
      PROVE  Settling'
  BY <1>1, <1>3, RenewedSettling
<1>4. {"setLocalOffer", "setLocalAnswer"} \subseteq Starts \cup Answers
  BY DEF Starts, Answers
<1>5. QED
  BY <1>1, <1>2, <1>3, <1>4 DEF BeginCall, CreateOffer, CreateAnswer, AddCandidate

LEMMA StepSettling == ASSUME General, Inv, OneCallEach, Settling, [Next]_vars PROVE Settling'
<1>1. CASE UNCHANGED vars
  BY <1>1, IdleSettling
<1>2. ASSUME NEW c \in Conn, Perform(c) PROVE Settling'
  BY <1>2, QuietPerforms, LocalOfferSettling, RemoteOfferSettling, LocalAnswerSettling,
     RemoteAnswerSettling DEF Perform, Performs
<1>3. ASSUME NEW c \in Conn, NegotiationNeeded(c) \/ FindCandidate(c) \/ IceFails(c) PROVE Settling'
  BY <1>3, NegotiationNever, FoundSettling, IdleSettling
<1>4. ASSUME NEW c \in Conn, Open(c) \/ StreamAnswers(c) PROVE Settling'
  BY <1>4, OpenSettling, StreamSettling
<1>5. ASSUME NEW u \in Users, CameraAnswers(u) PROVE Settling'
  BY <1>5, IdleSettling
<1>6. ASSUME NEW u \in Users, NEW v \in Users, Connect(u, v) \/ Deliver(u, v) PROVE Settling'
  BY <1>6, ConnectSettling, OnOfferSettling, OnMessageSettling DEF Deliver
<1>7. QED
  BY <1>1, <1>2, <1>3, <1>4, <1>5, <1>6 DEF Next, Progress

LEMMA AlwaysSettling == ASSUME OneCallEach PROVE Spec => []Settling
<1>1. General /\ Inv /\ Settling /\ [Next]_vars => Settling'
  BY StepSettling
<1>2. QED
  BY <1>1, InitSettling, AlwaysGeneral, AlwaysInv, PTL DEF Spec

\* What OfferAnswer is told of a caller and of a callee.
CallerStage(c) ==
  IF remote[c] # None THEN "stable"
  ELSE IF sig[c] = "have-local-offer" THEN "have-local-offer" ELSE "made"
CalleeStage(d) ==
  IF remote[d] = None THEN "made"
  ELSE IF sig[d] = "have-remote-offer" THEN "have-remote-offer" ELSE "stable"

\* Each end of a call is one connection at most, and shows how far that is.
Staged ==
  /\ \A c \in Conn : Caller(c) => CallerAt(Pair(c)) = CallerStage(c)
  /\ \A d \in Conn : Callee(d) => CalleeAt(Back(d)) = CalleeStage(d)
  /\ \A k \in CallPairs : (\A c \in Conn : Caller(c) => Pair(c) # k) => CallerAt(k) = "none"
  /\ \A k \in CallPairs : (\A d \in Conn : Callee(d) => Back(d) # k) => CalleeAt(k) = "none"

\* The connections of an end of a call, seen from a connection.
LEMMA CallersOfPair ==
  ASSUME NEW u, NEW v, u # Nobody
  PROVE  CallersOf(<<u, v>>) = {c \in Conn : Caller(c) /\ Pair(c) = <<u, v>>}
  BY DEF CallersOf, Caller, Pair, Made

LEMMA CalleesOfPair ==
  ASSUME NEW u, NEW v, v # Nobody
  PROVE  CalleesOf(<<u, v>>) = {c \in Conn : Callee(c) /\ Back(c) = <<u, v>>}
  BY DEF CalleesOf, Callee, Back, Made

LEMMA EndsOfCallPair ==
  ASSUME NEW k \in CallPairs
  PROVE  /\ CallersOf(k) = {c \in Conn : Caller(c) /\ Pair(c) = k}
         /\ CalleesOf(k) = {c \in Conn : Callee(c) /\ Back(c) = k}
<1>1. PICK u \in Users, v \in Users : k = <<u, v>>
  BY SignalingAssumption
<1>2. u # Nobody /\ v # Nobody
  BY SignalingAssumption
<1>3. QED
  BY <1>1, <1>2, CallersOfPair, CalleesOfPair

LEMMA EndsOfCall ==
  ASSUME General, Unique
  PROVE  /\ \A c \in Conn : Caller(c) => CallersOf(Pair(c)) = {c}
         /\ \A d \in Conn : Callee(d) => CalleesOf(Back(d)) = {d}
<1>1. Made \subseteq Conn
  BY DEF Made
<1>2. \A c \in Conn : Caller(c) => CallersOf(Pair(c)) = {c}
  <2> SUFFICES ASSUME NEW c \in Conn, Caller(c) PROVE CallersOf(Pair(c)) = {c}
    OBVIOUS
  <2>1. CallersOf(Pair(c)) = {b \in Conn : Caller(b) /\ Pair(b) = Pair(c)}
    BY CallersOfPair DEF Caller, Made, Pair
  <2>2. QED
    BY <1>1, <2>1 DEF Unique, Caller, Pair
<1>3. \A d \in Conn : Callee(d) => CalleesOf(Back(d)) = {d}
  <2> SUFFICES ASSUME NEW d \in Conn, Callee(d) PROVE CalleesOf(Back(d)) = {d}
    OBVIOUS
  <2>1. CalleesOf(Back(d)) = {b \in Conn : Callee(b) /\ Back(b) = Back(d)}
    BY CalleesOfPair DEF Callee, Made, Back
  <2>2. QED
    BY <1>1, <2>1 DEF Unique, Callee, Back
<1>4. QED
  BY <1>2, <1>3

LEMMA InvStaged ==
  ASSUME General, OneCallEach, Inv
  PROVE  Staged
<1>1. TypeOK /\ Lists /\ Unique /\ Described /\ Made \subseteq Conn
  BY DEF General, Inv, Made
<1>2. ASSUME NEW c \in Conn, Caller(c) PROVE CallerAt(Pair(c)) = CallerStage(c)
  <2>1. CallersOf(Pair(c)) = {c}
    BY <1>1, <1>2, EndsOfCall
  <2>2. remote[c] # None => remote[c] \in CalleesOf(Pair(c))
    <3> SUFFICES ASSUME remote[c] # None PROVE remote[c] \in CalleesOf(Pair(c))
      OBVIOUS
    <3>1. Opposite(remote[c], c)
      BY <1>1 DEF Described
    <3>2. Callee(remote[c]) /\ Back(remote[c]) = Pair(c)
      BY <1>1, <1>2, <3>1, EndsDiffer, OppositeBack DEF Caller, Callee
    <3>3. QED
      BY <1>1, <3>2 DEF CalleesOf, Callee, Back, Made
  <2>3. None \notin CalleesOf(Pair(c))
    BY <1>1 DEF CalleesOf, Conn, None
  <2>4. QED
    BY <2>1, <2>2, <2>3 DEF CallerAt, CallerStage
<1>3. ASSUME NEW d \in Conn, Callee(d) PROVE CalleeAt(Back(d)) = CalleeStage(d)
  <2>1. CalleesOf(Back(d)) = {d}
    BY <1>1, <1>3, EndsOfCall
  <2>2. remote[d] # None => remote[d] \in CallersOf(Back(d))
    <3> SUFFICES ASSUME remote[d] # None PROVE remote[d] \in CallersOf(Back(d))
      OBVIOUS
    <3>1. Opposite(remote[d], d)
      BY <1>1 DEF Described
    <3>2. Caller(remote[d]) /\ Pair(remote[d]) = Back(d)
      BY <1>1, <1>3, <3>1, EndsDiffer, OppositeBack DEF Caller, Callee
    <3>3. QED
      BY <1>1, <3>2 DEF CallersOf, Caller, Pair, Made
  <2>3. None \notin CallersOf(Back(d))
    BY <1>1 DEF CallersOf, Conn, None
  <2>4. QED
    BY <2>1, <2>2, <2>3 DEF CalleeAt, CalleeStage
<1>4. ASSUME NEW k \in CallPairs, \A c \in Conn : Caller(c) => Pair(c) # k PROVE CallerAt(k) = "none"
  <2>1. CallersOf(k) = {}
    BY <1>4, EndsOfCallPair
  <2>2. QED
    BY <2>1 DEF CallerAt
<1>5. ASSUME NEW k \in CallPairs, \A d \in Conn : Callee(d) => Back(d) # k PROVE CalleeAt(k) = "none"
  <2>1. CalleesOf(k) = {}
    BY <1>5, EndsOfCallPair
  <2>2. QED
    BY <2>1 DEF CalleeAt
<1>6. QED
  BY <1>2, <1>3, <1>4, <1>5 DEF Staged

(* A step that moves one end of one call.                                   *)
CallerOnly(k) ==
  /\ \A j \in CallPairs \ {k} : CallerAt(j)' = CallerAt(j)
  /\ \A j \in CallPairs : CalleeAt(j)' = CalleeAt(j)
CalleeOnly(k) ==
  /\ \A j \in CallPairs \ {k} : CalleeAt(j)' = CalleeAt(j)
  /\ \A j \in CallPairs : CallerAt(j)' = CallerAt(j)

LEMMA ApartEnds ==
  ASSUME NEW d \in Conn, Apart(d)
  PROVE  /\ Caller(d)' <=> Caller(d)
         /\ Callee(d)' <=> Callee(d)
         /\ Pair(d)' = Pair(d) /\ Back(d)' = Back(d)
         /\ CallerStage(d)' = CallerStage(d) /\ CalleeStage(d)' = CalleeStage(d)
<1>1. d \in Made' <=> d \in Made
  BY DEF Made, Apart
<1>2. QED
  BY <1>1 DEF Apart, Caller, Callee, Pair, Back, CallerStage, CalleeStage

LEMMA CallerMoves ==
  ASSUME Staged, Staged', NEW c \in Conn, NEW k \in CallPairs, Caller(c)', Pair(c)' = k,
         Caller(c) => Pair(c) = k, ~Callee(c), \A d \in Conn \ {c} : Apart(d)
  PROVE  CallerAt(k)' = CallerStage(c)' /\ CallerOnly(k)
<1>1. CallerAt(k)' = CallerStage(c)'
  BY DEF Staged
<1>2. \A d \in Conn \ {c} : /\ Caller(d)' <=> Caller(d)
                            /\ Callee(d)' <=> Callee(d)
                            /\ Pair(d)' = Pair(d) /\ Back(d)' = Back(d)
                            /\ CallerStage(d)' = CallerStage(d) /\ CalleeStage(d)' = CalleeStage(d)
  BY ApartEnds
<1>3. ~Callee(c)'
  BY DEF Caller, Callee
<1>4. ASSUME NEW j \in CallPairs \ {k} PROVE CallerAt(j)' = CallerAt(j)
  <2>1. CASE \A d \in Conn : Caller(d) => Pair(d) # j
    <3>1. \A d \in Conn : Caller(d)' => Pair(d)' # j
      BY <1>2, <1>4, <2>1
    <3>2. QED
      BY <2>1, <3>1 DEF Staged
  <2>2. CASE \E d \in Conn : Caller(d) /\ Pair(d) = j
    <3>1. PICK d \in Conn : Caller(d) /\ Pair(d) = j
      BY <2>2
    <3>2. d # c
      BY <1>4, <3>1
    <3>3. Caller(d)' /\ Pair(d)' = j /\ CallerStage(d)' = CallerStage(d)
      BY <1>2, <3>1, <3>2
    <3>4. QED
      BY <3>1, <3>3 DEF Staged
  <2>3. QED
    BY <2>1, <2>2
<1>5. ASSUME NEW j \in CallPairs PROVE CalleeAt(j)' = CalleeAt(j)
  <2>1. CASE \A d \in Conn : Callee(d) => Back(d) # j
    <3>1. \A d \in Conn : Callee(d)' => Back(d)' # j
      BY <1>2, <1>3, <2>1
    <3>2. QED
      BY <2>1, <3>1 DEF Staged
  <2>2. CASE \E d \in Conn : Callee(d) /\ Back(d) = j
    <3>1. PICK d \in Conn : Callee(d) /\ Back(d) = j
      BY <2>2
    <3>2. Callee(d)' /\ Back(d)' = j /\ CalleeStage(d)' = CalleeStage(d)
      BY <1>2, <3>1
    <3>3. QED
      BY <3>1, <3>2 DEF Staged
  <2>3. QED
    BY <2>1, <2>2
<1>6. QED
  BY <1>1, <1>4, <1>5 DEF CallerOnly

LEMMA CalleeMoves ==
  ASSUME Staged, Staged', NEW c \in Conn, NEW k \in CallPairs, Callee(c)', Back(c)' = k,
         Callee(c) => Back(c) = k, ~Caller(c), \A d \in Conn \ {c} : Apart(d)
  PROVE  CalleeAt(k)' = CalleeStage(c)' /\ CalleeOnly(k)
<1>1. CalleeAt(k)' = CalleeStage(c)'
  BY DEF Staged
<1>2. \A d \in Conn \ {c} : /\ Caller(d)' <=> Caller(d)
                            /\ Callee(d)' <=> Callee(d)
                            /\ Pair(d)' = Pair(d) /\ Back(d)' = Back(d)
                            /\ CallerStage(d)' = CallerStage(d) /\ CalleeStage(d)' = CalleeStage(d)
  BY ApartEnds
<1>3. ~Caller(c)'
  BY DEF Caller, Callee
<1>4. ASSUME NEW j \in CallPairs \ {k} PROVE CalleeAt(j)' = CalleeAt(j)
  <2>1. CASE \A d \in Conn : Callee(d) => Back(d) # j
    <3>1. \A d \in Conn : Callee(d)' => Back(d)' # j
      BY <1>2, <1>4, <2>1
    <3>2. QED
      BY <2>1, <3>1 DEF Staged
  <2>2. CASE \E d \in Conn : Callee(d) /\ Back(d) = j
    <3>1. PICK d \in Conn : Callee(d) /\ Back(d) = j
      BY <2>2
    <3>2. d # c
      BY <1>4, <3>1
    <3>3. Callee(d)' /\ Back(d)' = j /\ CalleeStage(d)' = CalleeStage(d)
      BY <1>2, <3>1, <3>2
    <3>4. QED
      BY <3>1, <3>3 DEF Staged
  <2>3. QED
    BY <2>1, <2>2
<1>5. ASSUME NEW j \in CallPairs PROVE CallerAt(j)' = CallerAt(j)
  <2>1. CASE \A d \in Conn : Caller(d) => Pair(d) # j
    <3>1. \A d \in Conn : Caller(d)' => Pair(d)' # j
      BY <1>2, <1>3, <2>1
    <3>2. QED
      BY <2>1, <3>1 DEF Staged
  <2>2. CASE \E d \in Conn : Caller(d) /\ Pair(d) = j
    <3>1. PICK d \in Conn : Caller(d) /\ Pair(d) = j
      BY <2>2
    <3>2. Caller(d)' /\ Pair(d)' = j /\ CallerStage(d)' = CallerStage(d)
      BY <1>2, <3>1
    <3>3. QED
      BY <3>1, <3>2 DEF Staged
  <2>3. QED
    BY <2>1, <2>2
<1>6. QED
  BY <1>1, <1>4, <1>5 DEF CalleeOnly

\* A step of the exchange, or none that it shows.
Shown == Exchange!Next \/ UNCHANGED <<CallerStates, CalleeStates>>

LEMMA CallerStep ==
  ASSUME NEW k \in CallPairs, CallerOnly(k),
         \/ CallerAt(k) = "none" /\ CallerAt(k)' = "made"
         \/ CallerAt(k) = "made" /\ CallerAt(k)' = "have-local-offer"
         \/ CallerAt(k) = "have-local-offer" /\ CalleeAt(k) = "stable" /\ CallerAt(k)' = "stable"
         \/ CallerAt(k)' = CallerAt(k)
  PROVE  Shown
<1>1. CalleeStates' = CalleeStates
  BY DEF CalleeStates, CallerOnly
<1>2. CallerStates' = [CallerStates EXCEPT ![k] = CallerAt(k)']
  BY DEF CallerStates, CallerOnly
<1>3. CallerStates[k] = CallerAt(k) /\ CalleeStates[k] = CalleeAt(k)
  BY DEF CallerStates, CalleeStates
<1>4. CASE CallerAt(k) = "none" /\ CallerAt(k)' = "made"
  <2>1. Exchange!Place(k)
    BY <1>1, <1>2, <1>3, <1>4 DEF Exchange!Place
  <2>2. QED
    BY <2>1 DEF Shown, Exchange!Next
<1>5. CASE CallerAt(k) = "made" /\ CallerAt(k)' = "have-local-offer"
  <2>1. Exchange!Offer(k)
    BY <1>1, <1>2, <1>3, <1>5 DEF Exchange!Offer
  <2>2. QED
    BY <2>1 DEF Shown, Exchange!Next
<1>6. CASE CallerAt(k) = "have-local-offer" /\ CalleeAt(k) = "stable" /\ CallerAt(k)' = "stable"
  <2>1. Exchange!Connect(k)
    BY <1>1, <1>2, <1>3, <1>6 DEF Exchange!Connect
  <2>2. QED
    BY <2>1 DEF Shown, Exchange!Next
<1>7. CASE CallerAt(k)' = CallerAt(k)
  <2>1. CallerStates' = CallerStates
    BY <1>7 DEF CallerStates, CallerOnly
  <2>2. QED
    BY <1>1, <2>1 DEF Shown
<1>8. QED
  BY <1>4, <1>5, <1>6, <1>7

LEMMA CalleeStep ==
  ASSUME NEW k \in CallPairs, CalleeOnly(k),
         \/ /\ CallerAt(k) = "have-local-offer"
            /\ \/ CalleeAt(k) = "none" /\ CalleeAt(k)' = "made"
               \/ CalleeAt(k) = "made" /\ CalleeAt(k)' = "have-remote-offer"
               \/ CalleeAt(k) = "have-remote-offer" /\ CalleeAt(k)' = "stable"
         \/ CalleeAt(k)' = CalleeAt(k)
  PROVE  Shown
<1>1. CallerStates' = CallerStates
  BY DEF CallerStates, CalleeOnly
<1>2. CalleeStates' = [CalleeStates EXCEPT ![k] = CalleeAt(k)']
  BY DEF CalleeStates, CalleeOnly
<1>3. CallerStates[k] = CallerAt(k) /\ CalleeStates[k] = CalleeAt(k)
  BY DEF CallerStates, CalleeStates
<1>4. CASE CallerAt(k) = "have-local-offer" /\ CalleeAt(k) = "none" /\ CalleeAt(k)' = "made"
  <2>1. Exchange!Ring(k)
    BY <1>1, <1>2, <1>3, <1>4 DEF Exchange!Ring
  <2>2. QED
    BY <2>1 DEF Shown, Exchange!Next
<1>5. CASE CallerAt(k) = "have-local-offer" /\ CalleeAt(k) = "made" /\ CalleeAt(k)' = "have-remote-offer"
  <2>1. Exchange!Accept(k)
    BY <1>1, <1>2, <1>3, <1>5 DEF Exchange!Accept
  <2>2. QED
    BY <2>1 DEF Shown, Exchange!Next
<1>6. CASE CallerAt(k) = "have-local-offer" /\ CalleeAt(k) = "have-remote-offer" /\ CalleeAt(k)' = "stable"
  <2>1. Exchange!Answer(k)
    BY <1>1, <1>2, <1>3, <1>6 DEF Exchange!Answer
  <2>2. QED
    BY <2>1 DEF Shown, Exchange!Next
<1>7. CASE CalleeAt(k)' = CalleeAt(k)
  <2>1. CalleeStates' = CalleeStates
    BY <1>7 DEF CalleeStates, CalleeOnly
  <2>2. QED
    BY <1>1, <2>1 DEF Shown
<1>8. QED
  BY <1>4, <1>5, <1>6, <1>7

(* What the exchange does not show.                                         *)
LEMMA Unseen ==
  ASSUME UNCHANGED <<user, peer, role, sig, remote>>
  PROVE  Shown
<1>1. Made' = Made
  BY DEF Made
<1>2. \A k : CallersOf(k)' = CallersOf(k) /\ CalleesOf(k)' = CalleesOf(k)
  BY <1>1 DEF CallersOf, CalleesOf
<1>3. \A k : CallerAt(k)' = CallerAt(k) /\ CalleeAt(k)' = CalleeAt(k)
  BY <1>2 DEF CallerAt, CalleeAt
<1>4. QED
  BY <1>3 DEF Shown, CallerStates, CalleeStates

(* The end of a caller whose offer was taken, and that has no answer yet.   *)
LEMMA CallerWaits ==
  ASSUME General, Inv, OneCallEach, Settling, Staged, NEW d \in Conn, Callee(d),
         remote[d] = None \/ sig[d] = "have-remote-offer"
  PROVE  CallerAt(Back(d)) = "have-local-offer"
<1>1. PICK c \in Conn : Caller(c) /\ Opposite(c, d)
  BY HasCaller
<1>2. Sent(c) /\ Unique
  BY <1>1 DEF Sent, Inv
<1>3. remote[c] = None
  <2> SUFFICES ASSUME remote[c] # None PROVE FALSE
    OBVIOUS
  <2>1. Opposite(remote[c], c) /\ remote[remote[c]] # None /\ sig[remote[c]] = "stable"
    BY <1>1 DEF Inv, Described, Caller, Settling, Concluded
  <2>2. Opposite(d, c)
    BY <1>1, OppositeBack
  <2>3. remote[c] = d
    BY <1>2, <2>1, <2>2, OneEnd
  <2>4. QED
    BY <2>1, <2>3
<1>4. sig[c] \in Sigs
  BY DEF General, TypeOK
<1>5. sig[c] = "have-local-offer"
  BY <1>1, <1>2, <1>3, <1>4 DEF Inv, Offering, AnswerMade, Sigs
<1>6. Pair(c) = Back(d)
  BY <1>1, OppositeBack
<1>7. QED
  BY <1>1, <1>3, <1>5, <1>6 DEF Staged, CallerStage

LEMMA PerformShown ==
  ASSUME General, Inv, OneCallEach, Settling, Staged, Staged', NEW c \in Conn, Performs(c),
         SetLocalOffer(c) \/ SetRemoteOffer(c) \/ SetLocalAnswer(c) \/ SetRemoteAnswer(c)
  PROVE  Shown
<1>1. /\ UNCHANGED <<user, peer, role>> /\ TypeOK /\ c \in Made
      /\ \A k : k = Pair(c) => Pair(c)' = k
      /\ \A k : k = Back(c) => Back(c)' = k
      /\ Caller(c)' <=> Caller(c)
      /\ Callee(c)' <=> Callee(c)
  BY DEF Performs, own, General, Sound, Blank, Caller, Callee, Made, Pair, Back
<1>2. /\ Caller(c) => Pair(c) \in CallPairs /\ ~Callee(c)
      /\ Callee(c) => Back(c) \in CallPairs /\ ~Caller(c)
  BY DEF Inv, Unique, Caller, Callee
<1>3. \A d \in Conn \ {c} : Apart(d)
  <2>1. \A d \in Conn \ {c} : sig'[d] = sig[d] /\ remote'[d] = remote[d]
    BY <1>1 DEF SetLocalOffer, SetRemoteOffer, SetLocalAnswer, SetRemoteAnswer, TypeOK
  <2>2. QED
    BY <1>1, <2>1 DEF Apart
<1>4. ASSUME Caller(c)
      PROVE  \E k \in CallPairs : /\ CallerAt(k) = CallerStage(c) /\ CallerAt(k)' = CallerStage(c)'
                                 /\ CallerOnly(k) /\ k = Pair(c)
  <2>1. PICK k \in CallPairs : k = Pair(c)
    BY <1>2, <1>4
  <2>2. CallerAt(k)' = CallerStage(c)' /\ CallerOnly(k)
    BY <1>1, <1>2, <1>3, <1>4, <2>1, CallerMoves
  <2>3. QED
    BY <1>4, <2>1, <2>2 DEF Staged
<1>5. ASSUME Callee(c)
      PROVE  \E k \in CallPairs : /\ CalleeAt(k) = CalleeStage(c) /\ CalleeAt(k)' = CalleeStage(c)'
                                 /\ CalleeOnly(k) /\ k = Back(c)
  <2>1. PICK k \in CallPairs : k = Back(c)
    BY <1>2, <1>5
  <2>2. CalleeAt(k)' = CalleeStage(c)' /\ CalleeOnly(k)
    BY <1>1, <1>2, <1>3, <1>5, <2>1, CalleeMoves
  <2>3. QED
    BY <1>5, <2>1, <2>2 DEF Staged
<1>6. CASE SetLocalOffer(c)
  <2>1. /\ Caller(c) /\ sig[c] = "stable" /\ remote[c] = None /\ sig'[c] = "have-local-offer"
        /\ remote' = remote
    BY <1>6, LocalOfferSettling DEF SetLocalOffer
  <2>2. CallerStage(c) = "made" /\ CallerStage(c)' = "have-local-offer"
    BY <2>1 DEF CallerStage
  <2>3. QED
    BY <1>4, <2>1, <2>2, CallerStep
<1>7. CASE SetRemoteOffer(c)
  <2>1. Callee(c) /\ remote[c] = None /\ sig'[c] = "have-remote-offer" /\ remote'[c] # None
    BY <1>7, RemoteOfferSettling
  <2>2. CalleeStage(c) = "made" /\ CalleeStage(c)' = "have-remote-offer"
    BY <2>1 DEF CalleeStage
  <2>3. CallerAt(Back(c)) = "have-local-offer"
    BY <2>1, CallerWaits
  <2>4. QED
    BY <1>5, <2>1, <2>2, <2>3, CalleeStep
<1>8. CASE SetLocalAnswer(c)
  <2>1. /\ Callee(c) /\ remote[c] # None /\ remote' = remote
        /\ sig[c] \in {"stable", "have-remote-offer"} /\ sig'[c] = "stable"
    BY <1>8, LocalAnswerSettling
  <2>2. CalleeStage(c) = sig[c] /\ CalleeStage(c)' = "stable"
    BY <2>1 DEF CalleeStage
  <2>3. sig[c] = "have-remote-offer" => CallerAt(Back(c)) = "have-local-offer"
    BY <2>1, CallerWaits
  <2>4. QED
    BY <1>5, <2>1, <2>2, <2>3, CalleeStep
<1>9. CASE SetRemoteAnswer(c)
  <2>1. /\ Caller(c)
        /\ \/ UNCHANGED <<sig, remote>>
           \/ /\ sig[c] = "have-local-offer" /\ remote'[c] # None
              /\ \E d \in Conn : Callee(d) /\ Opposite(d, c) /\ remote[d] # None /\ sig[d] = "stable"
    BY <1>9, RemoteAnswerSettling
  <2>2. CASE UNCHANGED <<sig, remote>>
    BY <1>1, <2>2, Unseen
  <2>3. ASSUME sig[c] = "have-local-offer", remote'[c] # None, NEW d \in Conn,
               Callee(d), Opposite(d, c), remote[d] # None, sig[d] = "stable"
        PROVE  Shown
    <3>1. CalleeAt(Back(d)) = "stable" /\ Back(d) = Pair(c)
      BY <2>3, OppositeBack DEF Staged, CalleeStage
    <3>2. CallerStage(c) \in {"have-local-offer", "stable"} /\ CallerStage(c)' = "stable"
      BY <2>3 DEF CallerStage
    <3>3. QED
      BY <1>4, <2>1, <3>1, <3>2, CallerStep
  <2>4. QED
    BY <2>1, <2>2, <2>3
<1>10. QED
  BY <1>6, <1>7, <1>8, <1>9

LEMMA ConnectShown ==
  ASSUME General, Inv, OneCallEach, Settling, Staged, Staged', NEW u \in Users, NEW v \in Users, Connect(u, v)
  PROVE  Shown
<1>1. PICK k : k = <<u, v>>
  OBVIOUS
<1>2. /\ k \in CallPairs /\ \A d \in Made : Pair(d) # k
      /\ \E c \in Conn \ Made : /\ Caller(c)' /\ Pair(c)' = k
                                /\ sig'[c] = "stable" /\ remote'[c] = None
                                /\ \A d \in Conn \ {c} : Apart(d)
  BY <1>1, ConnectSettling
<1>3. PICK c \in Conn \ Made : /\ Caller(c)' /\ Pair(c)' = k
                               /\ sig'[c] = "stable" /\ remote'[c] = None
                               /\ \A d \in Conn \ {c} : Apart(d)
  BY <1>2
<1>4. ~Caller(c) /\ ~Callee(c)
  BY DEF Caller, Callee
<1>5. CallerAt(k)' = CallerStage(c)' /\ CallerOnly(k)
  BY <1>2, <1>3, <1>4, CallerMoves
<1>6. CallerStage(c)' = "made"
  BY <1>3 DEF CallerStage
<1>7. CallerAt(k) = "none"
  BY <1>2 DEF Staged, Caller
<1>8. QED
  BY <1>2, <1>5, <1>6, <1>7, CallerStep

LEMMA DeliverShown ==
  ASSUME General, Inv, OneCallEach, Settling, Staged, Staged', NEW u \in Users, NEW v \in Users, Deliver(u, v)
  PROVE  Shown
<1>1. CASE Head(net[<<u, v>>]).type = "offer" /\ OnOffer(u, v, Head(net[<<u, v>>]))
  <2>1. PICK k : k = <<u, v>>
    OBVIOUS
  <2>2. /\ k \in CallPairs
        /\ \A d \in Conn : Callee(d) => Back(d) # k
        /\ \E a \in Conn : Caller(a) /\ Pair(a) = k /\ sig[a] = "have-local-offer" /\ remote[a] = None
        /\ \E c \in Conn \ Made : /\ Callee(c)' /\ Back(c)' = k /\ remote'[c] = None
                                  /\ \A d \in Conn \ {c} : Apart(d)
    BY <1>1, <2>1, OnOfferSettling DEF Deliver
  <2>3. PICK c \in Conn \ Made : /\ Callee(c)' /\ Back(c)' = k /\ remote'[c] = None
                                 /\ \A d \in Conn \ {c} : Apart(d)
    BY <2>2
  <2>4. ~Caller(c) /\ ~Callee(c)
    BY DEF Caller, Callee
  <2>5. CalleeAt(k)' = CalleeStage(c)' /\ CalleeOnly(k)
    BY <2>2, <2>3, <2>4, CalleeMoves
  <2>6. CalleeStage(c)' = "made"
    BY <2>3 DEF CalleeStage
  <2>7. CalleeAt(k) = "none"
    BY <2>2 DEF Staged
  <2>8. CallerAt(k) = "have-local-offer"
    BY <2>2 DEF Staged, CallerStage
  <2>9. QED
    BY <2>2, <2>5, <2>6, <2>7, <2>8, CalleeStep
<1>2. CASE LET m == Head(net[<<u, v>>])
           IN  (m.type = "answer" /\ OnAnswer(u, v, m)) \/ (m.type = "candidate" /\ OnCandidate(u, v, m))
  BY <1>2, OnMessageSettling, Unseen DEF Deliver
<1>3. QED
  BY <1>1, <1>2 DEF Deliver

LEMMA StepShown ==
  ASSUME General, Inv, OneCallEach, Settling, Staged, Staged', [Next]_vars
  PROVE  Shown
<1>1. CASE UNCHANGED vars
  BY <1>1, Unseen DEF vars, own, page
<1>2. ASSUME NEW c \in Conn, Perform(c) PROVE Shown
  BY <1>2, QuietPerforms, Unseen, PerformShown DEF Perform, Performs
<1>3. ASSUME NEW c \in Conn, NegotiationNeeded(c) \/ FindCandidate(c) \/ IceFails(c) PROVE Shown
  <2>1. UNCHANGED <<user, peer, role, sig, remote>>
    BY <1>3 DEF NegotiationNeeded, FindCandidate, IceFails, own, page
  <2>2. QED
    BY <2>1, Unseen
<1>4. ASSUME NEW c \in Conn, Open(c) \/ StreamAnswers(c) PROVE Shown
  <2>1. UNCHANGED <<user, peer, role, sig, remote>>
    BY <1>4 DEF Open, StreamAnswers, own, page
  <2>2. QED
    BY <2>1, Unseen
<1>5. ASSUME NEW u \in Users, CameraAnswers(u) PROVE Shown
  <2>1. UNCHANGED <<user, peer, role, sig, remote>>
    BY <1>5 DEF CameraAnswers, own, page
  <2>2. QED
    BY <2>1, Unseen
<1>6. ASSUME NEW u \in Users, NEW v \in Users, Connect(u, v) \/ Deliver(u, v) PROVE Shown
  BY <1>6, ConnectShown, DeliverShown
<1>7. QED
  BY <1>1, <1>2, <1>3, <1>4, <1>5, <1>6 DEF Next, Progress

LEMMA InitShown == ASSUME Init PROVE Exchange!Init
<1>1. Made = {}
  BY DEF Made, Init
<1>2. \A k \in CallPairs : CallersOf(k) = {} /\ CalleesOf(k) = {}
  BY <1>1, EndsOfCallPair DEF Caller, Callee
<1>3. \A k \in CallPairs : CallerAt(k) = "none" /\ CalleeAt(k) = "none"
  BY <1>2 DEF CallerAt, CalleeAt
<1>4. QED
  BY <1>3 DEF Exchange!Init, CallerStates, CalleeStates

(* For any users and any calls between them, each placed once and           *)
(* negotiated once: what sessions, connections, pages and messages do is    *)
(* one exchange of an offer and an answer per call, whose steps come in     *)
(* order and each of them once.                                             *)
THEOREM KeepsExchange == ASSUME OneCallEach PROVE Spec => FollowsExchange
<1>1. General /\ Inv => Staged
  BY InvStaged
<1>2. General /\ Inv /\ Settling /\ Staged /\ Staged' /\ [Next]_vars => [Exchange!Next]_(Exchange!ends)
  BY StepShown DEF Shown, Exchange!ends
<1>3. Init => Exchange!Init
  BY InitShown
<1>4. QED
  BY <1>1, <1>2, <1>3, AlwaysGeneral, AlwaysInv, AlwaysSettling, PTL
  DEF Spec, FollowsExchange, Exchange!Spec
=============================================================================
