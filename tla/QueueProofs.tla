---------------------------- MODULE QueueProofs ----------------------------
(***************************************************************************)
(* What happens to a queue when something is added to its end or taken from *)
(* its front.                                                               *)
(***************************************************************************)
EXTENDS Queues, SequenceTheorems, WellFoundedInduction, TLAPS

(* Numbers have a least one.                                                *)
LEMMA LeastNumber ==
  ASSUME NEW T, T \subseteq Nat, T # {}
  PROVE  \E n \in T : \A m \in T : n <= m
<1> DEFINE R == OpToRel(<, Nat)
<1>1. IsWellFoundedOn(R, Nat)
  BY NatLessThanWellFounded
<1>2. \A x, y \in Nat : <<y, x>> \notin R => x <= y
  BY DEF OpToRel
<1> HIDE DEF R
<1>3. PICK n \in T : \A m \in T : <<m, n>> \notin R
  BY <1>1, WFMin
<1>4. QED
  BY <1>2, <1>3

LEMMA EmptyQueue == Members(<<>>) = {} /\ Increases(<<>>)
BY DEF Members, Increases

LEMMA OneMember == ASSUME NEW S, NEW e \in S PROVE <<e>> \in Seq(S) /\ Members(<<e>>) = {e}
<1>1. DOMAIN <<e>> = {1} /\ <<e>>[1] = e
  OBVIOUS
<1>2. QED
  BY <1>1 DEF Members

LEMMA MembersType ==
  ASSUME NEW S, NEW q \in Seq(S)
  PROVE  Members(q) \subseteq S /\ (q # <<>> <=> Members(q) # {})
<1>1. Len(q) \in Nat /\ DOMAIN q = 1 .. Len(q) /\ (q # <<>> => Len(q) # 0)
  BY LenProperties, EmptySeq
<1>2. \A i \in DOMAIN q : q[i] \in S
  BY ElementOfSeq, <1>1
<1>3. q # <<>> => 1 \in DOMAIN q
  BY <1>1
<1>4. q = <<>> => Members(q) = {}
  BY EmptyQueue
<1>5. QED
  BY <1>2, <1>3, <1>4 DEF Members

(* Positions in a queue that gains an element.                              *)
LEMMA AppendPlaces ==
  ASSUME NEW S, NEW q \in Seq(S), NEW e \in S
  PROVE  /\ Append(q, e) \in Seq(S)
         /\ Len(q) \in Nat /\ DOMAIN q = 1 .. Len(q) /\ DOMAIN Append(q, e) = 1 .. Len(q) + 1
         /\ \A i \in DOMAIN q : i \in DOMAIN Append(q, e) /\ Append(q, e)[i] = q[i]
         /\ Append(q, e)[Len(q) + 1] = e
         /\ \A i \in DOMAIN Append(q, e) : i \in DOMAIN q \/ i = Len(q) + 1
         /\ \A i \in DOMAIN q : i < Len(q) + 1
<1>1. Len(q) \in Nat /\ DOMAIN q = 1 .. Len(q)
  BY LenProperties
<1>2. /\ Append(q, e) \in Seq(S) /\ Len(Append(q, e)) = Len(q) + 1
      /\ \A i \in 1 .. Len(q) : Append(q, e)[i] = q[i]
      /\ Append(q, e)[Len(q) + 1] = e
  BY AppendProperties
<1>3. DOMAIN Append(q, e) = 1 .. Len(q) + 1
  BY <1>2, LenProperties
<1>4. QED
  BY <1>1, <1>2, <1>3

LEMMA AppendMembers ==
  ASSUME NEW S, NEW q \in Seq(S), NEW e \in S
  PROVE  /\ Append(q, e) \in Seq(S) /\ Append(q, e) # <<>>
         /\ Members(Append(q, e)) = Members(q) \cup {e}
<1>1. Members(Append(q, e)) = Members(q) \cup {e}
  <2>1. ASSUME NEW x \in Members(Append(q, e)) PROVE x \in Members(q) \cup {e}
    BY AppendPlaces DEF Members
  <2>2. ASSUME NEW x \in Members(q) PROVE x \in Members(Append(q, e))
    BY AppendPlaces DEF Members
  <2>3. e \in Members(Append(q, e))
    <3>1. Len(q) + 1 \in DOMAIN Append(q, e) /\ Append(q, e)[Len(q) + 1] = e
      BY AppendPlaces
    <3>2. QED
      BY <3>1 DEF Members
  <2>4. QED
    BY <2>1, <2>2, <2>3
<1>2. QED
  BY <1>1, AppendPlaces, EmptyQueue

LEMMA MayAppend ==
  ASSUME NEW S, NEW q \in Seq(S), NEW e \in S, NEW r, r = q \/ r = Append(q, e)
  PROVE  /\ r \in Seq(S)
         /\ r = q \/ Members(r) = Members(q) \cup {e}
<1>1. CASE r = q
  BY <1>1
<1>2. CASE r = Append(q, e)
  BY <1>2, AppendMembers
<1>3. QED
  BY <1>1, <1>2

(* Positions in a queue that loses its first element.                       *)
LEMMA TailPlaces ==
  ASSUME NEW S, NEW q \in Seq(S), q # <<>>
  PROVE  /\ Tail(q) \in Seq(S) /\ Head(q) \in S
         /\ 1 \in DOMAIN q /\ Head(q) = q[1] /\ DOMAIN q \subseteq Nat \ {0}
         /\ \A i \in DOMAIN Tail(q) : i \in Nat /\ i + 1 \in DOMAIN q /\ Tail(q)[i] = q[i + 1]
         /\ \A i \in DOMAIN q : i # 1 => i - 1 \in DOMAIN Tail(q) /\ Tail(q)[i - 1] = q[i]
<1>1. Len(q) \in Nat \ {0} /\ DOMAIN q = 1 .. Len(q)
  BY LenProperties, EmptySeq
<1>2. Head(q) = q[1] /\ Head(q) \in S /\ Tail(q) \in Seq(S) /\ Len(Tail(q)) = Len(q) - 1
  BY HeadTailProperties
<1>3. DOMAIN Tail(q) = 1 .. Len(q) - 1
  BY <1>2, LenProperties
<1>4. \A i \in 1 .. Len(q) - 1 : Tail(q)[i] = q[i + 1]
  BY <1>1, <1>2, HeadTailProperties
<1>5. QED
  BY <1>1, <1>2, <1>3, <1>4

LEMMA TailMembers ==
  ASSUME NEW S, NEW q \in Seq(S), q # <<>>
  PROVE  /\ Tail(q) \in Seq(S) /\ Head(q) \in S
         /\ Members(q) = Members(Tail(q)) \cup {Head(q)}
<1>1. ASSUME NEW x \in Members(Tail(q)) PROVE x \in Members(q)
  BY TailPlaces DEF Members
<1>2. Head(q) \in Members(q)
  BY TailPlaces DEF Members
<1>3. ASSUME NEW x \in Members(q), x # Head(q) PROVE x \in Members(Tail(q))
  <2>1. PICK i \in DOMAIN q : q[i] = x
    BY DEF Members
  <2>2. i - 1 \in DOMAIN Tail(q) /\ Tail(q)[i - 1] = x
    BY <1>3, <2>1, TailPlaces
  <2>3. QED
    BY <2>2 DEF Members
<1>4. QED
  BY <1>1, <1>2, <1>3, TailPlaces

(* Numbers in a queue stay in the order of their making when a later one is *)
(* added, and the first is the least.                                       *)
LEMMA AppendIncreases ==
  ASSUME NEW S, S \subseteq Nat, NEW q \in Seq(S), NEW e \in S,
         Increases(q), Precede(Members(q), {e})
  PROVE  Increases(Append(q, e))
<1> SUFFICES ASSUME NEW i \in DOMAIN Append(q, e), NEW j \in DOMAIN Append(q, e), i < j
             PROVE  Append(q, e)[i] < Append(q, e)[j]
  BY DEF Increases
<1>1. i \in DOMAIN q /\ i \in Nat
  BY AppendPlaces
<1>2. CASE j \in DOMAIN q
  BY <1>1, <1>2, AppendPlaces DEF Increases
<1>3. CASE j = Len(q) + 1
  <2>1. Append(q, e)[i] = q[i] /\ Append(q, e)[j] = e /\ q[i] \in Members(q)
    BY <1>1, <1>3, AppendPlaces DEF Members
  <2>2. QED
    BY <2>1 DEF Precede
<1>4. QED
  BY <1>2, <1>3, AppendPlaces

LEMMA TailIncreases ==
  ASSUME NEW S, S \subseteq Nat, NEW q \in Seq(S), q # <<>>, Increases(q)
  PROVE  /\ Increases(Tail(q))
         /\ Precede({Head(q)}, Members(Tail(q)))
<1>1. Increases(Tail(q))
  <2> SUFFICES ASSUME NEW i \in DOMAIN Tail(q), NEW j \in DOMAIN Tail(q), i < j
               PROVE  Tail(q)[i] < Tail(q)[j]
    BY DEF Increases
  <2>1. /\ i \in Nat /\ i + 1 \in DOMAIN q /\ Tail(q)[i] = q[i + 1]
        /\ j \in Nat /\ j + 1 \in DOMAIN q /\ Tail(q)[j] = q[j + 1]
    BY TailPlaces
  <2>2. i + 1 < j + 1
    BY <2>1
  <2>3. QED
    BY <2>1, <2>2 DEF Increases
<1>2. ASSUME NEW x \in Members(Tail(q)) PROVE Head(q) < x
  <2>1. PICK i \in DOMAIN Tail(q) : Tail(q)[i] = x
    BY DEF Members
  <2>2. i \in Nat /\ i + 1 \in DOMAIN q /\ q[i + 1] = x /\ 1 \in DOMAIN q /\ q[1] = Head(q)
        /\ i + 1 \in Nat \ {0} /\ i \in Nat \ {0}
    <3>1. i \in Nat /\ i + 1 \in DOMAIN q /\ q[i + 1] = x /\ 1 \in DOMAIN q /\ q[1] = Head(q)
      BY <2>1, TailPlaces
    <3>2. i \in Nat \ {0}
      BY TailPlaces, LenProperties
    <3>3. QED
      BY <3>1, <3>2
  <2>3. 1 < i + 1
    BY <2>2
  <2>4. QED
    BY <2>2, <2>3 DEF Increases
<1>3. QED
  BY <1>1, <1>2 DEF Precede

(***************************************************************************)
(* Queues of records.                                                      *)
(***************************************************************************)
LEMMA NoNumbers == \A t : Numbers(<<>>, t) = {} /\ Ascends(<<>>, t)
BY EmptyQueue DEF Numbers, Ascends

LEMMA AppendNumbers ==
  ASSUME NEW S, NEW q \in Seq(S), NEW e \in S, NEW t
  PROVE  Numbers(Append(q, e), t) = IF e.type = t THEN Numbers(q, t) \cup {e.number}
                                    ELSE Numbers(q, t)
BY AppendMembers DEF Numbers

LEMMA TailNumbers ==
  ASSUME NEW S, NEW q \in Seq(S), q # <<>>, NEW t
  PROVE  Numbers(q, t) = IF Head(q).type = t THEN Numbers(Tail(q), t) \cup {Head(q).number}
                         ELSE Numbers(Tail(q), t)
BY TailMembers DEF Numbers

LEMMA AppendAscends ==
  ASSUME NEW S, NEW q \in Seq(S), NEW e \in S, NEW t, Ascends(q, t),
         e.type = t => Precede(Numbers(q, t), {e.number})
  PROVE  Ascends(Append(q, e), t)
<1> SUFFICES ASSUME NEW i \in DOMAIN Append(q, e), NEW j \in DOMAIN Append(q, e), i < j,
                    Append(q, e)[i].type = t, Append(q, e)[j].type = t
             PROVE  Append(q, e)[i].number < Append(q, e)[j].number
  BY DEF Ascends
<1>1. /\ Len(q) \in Nat /\ DOMAIN q = 1 .. Len(q) /\ DOMAIN Append(q, e) = 1 .. Len(q) + 1
      /\ \A k \in DOMAIN q : Append(q, e)[k] = q[k]
      /\ Append(q, e)[Len(q) + 1] = e
  BY AppendPlaces
<1>2. i \in DOMAIN q /\ Append(q, e)[i] = q[i]
  BY <1>1
<1>3. CASE j \in DOMAIN q
  BY <1>1, <1>2, <1>3 DEF Ascends
<1>4. CASE j = Len(q) + 1
  <2>1. q[i].number \in Numbers(q, t)
    BY <1>2 DEF Numbers, Members
  <2>2. QED
    BY <1>1, <1>2, <1>4, <2>1 DEF Precede
<1>5. QED
  BY <1>1, <1>3, <1>4

LEMMA TailAscends ==
  ASSUME NEW S, NEW q \in Seq(S), q # <<>>, NEW t, Ascends(q, t)
  PROVE  /\ Ascends(Tail(q), t)
         /\ Head(q).type = t => Precede({Head(q).number}, Numbers(Tail(q), t))
<1>1. /\ 1 \in DOMAIN q /\ Head(q) = q[1]
      /\ \A i \in DOMAIN Tail(q) : i \in Nat /\ i + 1 \in DOMAIN q /\ Tail(q)[i] = q[i + 1]
      /\ \A i \in DOMAIN Tail(q) : i # 0
  BY TailPlaces, LenProperties
<1>2. Ascends(Tail(q), t)
  <2> SUFFICES ASSUME NEW i \in DOMAIN Tail(q), NEW j \in DOMAIN Tail(q), i < j,
                      Tail(q)[i].type = t, Tail(q)[j].type = t
               PROVE  Tail(q)[i].number < Tail(q)[j].number
    BY DEF Ascends
  <2>1. i + 1 < j + 1
    BY <1>1
  <2>2. QED
    BY <1>1, <2>1 DEF Ascends
<1>3. ASSUME Head(q).type = t, NEW n \in Numbers(Tail(q), t) PROVE Head(q).number < n
  <2>1. PICK i \in DOMAIN Tail(q) : Tail(q)[i].type = t /\ Tail(q)[i].number = n
    BY DEF Numbers, Members
  <2>2. i + 1 \in DOMAIN q /\ 1 < i + 1 /\ q[i + 1] = Tail(q)[i]
    BY <1>1
  <2>3. QED
    BY <1>1, <1>3, <2>1, <2>2 DEF Ascends
<1>4. QED
  BY <1>2, <1>3 DEF Precede

(* The first of an unbroken run of numbers, and what remains of the run.    *)
LEMMA FirstOfRun ==
  ASSUME NEW a \in Nat, NEW B \in SUBSET Nat, NEW m \in Nat, NEW n \in Nat,
         Precede({a}, B), {a} \cup B = m .. n
  PROVE  a = m /\ m <= n /\ B = m + 1 .. n
<1>1. a \in m .. n /\ m <= n
  OBVIOUS
<1>2. m \in {a} \cup B
  BY <1>1
<1>3. a = m
  BY <1>1, <1>2 DEF Precede
<1>4. \A b \in B : b \in m + 1 .. n
  BY <1>3 DEF Precede
<1>5. \A b \in m + 1 .. n : b \in {a} \cup B /\ b # a
  BY <1>3
<1>6. QED
  BY <1>1, <1>3, <1>4, <1>5

(***************************************************************************)
(* Queues in which f tells what matters.                                    *)
(***************************************************************************)
LEMMA NoKeys == ASSUME NEW f PROVE Keys(<<>>, f) = {} /\ Once(<<>>, f) /\ Rises(<<>>, f)
BY EmptyQueue DEF Keys, Once, Rises

LEMMA AppendKeys ==
  ASSUME NEW S, NEW q \in Seq(S), NEW e \in S, NEW f
  PROVE  Keys(Append(q, e), f) = IF e \in DOMAIN f THEN Keys(q, f) \cup {f[e]} ELSE Keys(q, f)
<1>1. Members(Append(q, e)) = Members(q) \cup {e}
  BY AppendMembers
<1>2. QED
  BY <1>1 DEF Keys

LEMMA TailKeys ==
  ASSUME NEW S, NEW q \in Seq(S), q # <<>>, NEW f
  PROVE  Keys(q, f) = IF Head(q) \in DOMAIN f THEN Keys(Tail(q), f) \cup {f[Head(q)]}
                      ELSE Keys(Tail(q), f)
<1>1. Members(q) = Members(Tail(q)) \cup {Head(q)}
  BY TailMembers
<1>2. QED
  BY <1>1 DEF Keys

LEMMA AppendOnce ==
  ASSUME NEW S, NEW q \in Seq(S), NEW e \in S, NEW f, Once(q, f),
         e \in DOMAIN f => f[e] \notin Keys(q, f)
  PROVE  Once(Append(q, e), f)
<1> DEFINE r == Append(q, e)
<1>1. /\ \A i \in DOMAIN r : (i \in DOMAIN q /\ r[i] = q[i]) \/ (i = Len(q) + 1 /\ r[i] = e)
  BY AppendPlaces
<1>2. \A i \in DOMAIN q : e \in DOMAIN f /\ q[i] \in DOMAIN f => f[q[i]] # f[e]
  BY DEF Keys, Members
<1> HIDE DEF r
<1>3. Once(r, f)
  BY <1>1, <1>2 DEF Once
<1>4. QED
  BY <1>3 DEF r

LEMMA TailOnce ==
  ASSUME NEW S, NEW q \in Seq(S), q # <<>>, NEW f, Once(q, f)
  PROVE  Once(Tail(q), f) /\ (Head(q) \in DOMAIN f => f[Head(q)] \notin Keys(Tail(q), f))
<1> DEFINE r == Tail(q)
<1>1. /\ \A i \in DOMAIN r : i \in Nat /\ i + 1 \in DOMAIN q /\ r[i] = q[i + 1]
      /\ DOMAIN q \subseteq Nat \ {0} /\ 1 \in DOMAIN q /\ Head(q) = q[1]
  BY TailPlaces
<1> HIDE DEF r
<1>2. Once(r, f)
  <2> SUFFICES ASSUME NEW i \in DOMAIN r, NEW j \in DOMAIN r,
                      r[i] \in DOMAIN f, r[j] \in DOMAIN f, f[r[i]] = f[r[j]]
               PROVE  i = j
    BY DEF Once
  <2>1. i + 1 = j + 1
    BY <1>1 DEF Once
  <2>2. QED
    BY <1>1, <2>1
<1>3. ASSUME Head(q) \in DOMAIN f, f[Head(q)] \in Keys(r, f) PROVE FALSE
  <2>1. PICK i \in DOMAIN r : r[i] \in DOMAIN f /\ f[r[i]] = f[Head(q)]
    BY <1>3 DEF Keys, Members
  <2>2. i + 1 = 1
    BY <1>1, <1>3, <2>1 DEF Once
  <2>3. i + 1 \in DOMAIN q /\ i \in Nat /\ i # 0
    <3>1. i \in Nat
      BY <1>1
    <3>2. DOMAIN r \subseteq Nat \ {0}
      BY LenProperties, TailPlaces DEF r
    <3>3. QED
      BY <1>1, <3>1, <3>2
  <2>4. QED
    BY <2>2, <2>3
<1>4. QED
  BY <1>2, <1>3 DEF r

LEMMA AppendRises ==
  ASSUME NEW S, NEW q \in Seq(S), NEW e \in S, NEW f, Rises(q, f),
         e \in DOMAIN f => Precede(Keys(q, f), {f[e]})
  PROVE  Rises(Append(q, e), f)
<1> DEFINE r == Append(q, e)
<1>1. /\ \A i \in DOMAIN r : (i \in DOMAIN q /\ r[i] = q[i]) \/ (i = Len(q) + 1 /\ r[i] = e)
      /\ Len(q) \in Nat /\ DOMAIN q = 1 .. Len(q)
  BY AppendPlaces
<1>2. \A i \in DOMAIN q : e \in DOMAIN f /\ q[i] \in DOMAIN f => f[q[i]] < f[e]
  BY DEF Keys, Members, Precede
<1> HIDE DEF r
<1>3. Rises(r, f)
  <2> SUFFICES ASSUME NEW i \in DOMAIN r, NEW j \in DOMAIN r, i < j,
                      r[i] \in DOMAIN f, r[j] \in DOMAIN f
               PROVE  f[r[i]] < f[r[j]]
    BY DEF Rises
  <2>1. i \in DOMAIN q /\ r[i] = q[i]
    BY <1>1
  <2>2. CASE j \in DOMAIN q /\ r[j] = q[j]
    BY <2>1, <2>2 DEF Rises
  <2>3. CASE j = Len(q) + 1 /\ r[j] = e
    BY <1>2, <2>1, <2>3
  <2>4. QED
    BY <1>1, <2>2, <2>3
<1>4. QED
  BY <1>3 DEF r

LEMMA TailRises ==
  ASSUME NEW S, NEW q \in Seq(S), q # <<>>, NEW f, Rises(q, f)
  PROVE  Rises(Tail(q), f) /\ (Head(q) \in DOMAIN f => Precede({f[Head(q)]}, Keys(Tail(q), f)))
<1> DEFINE r == Tail(q)
<1>1. /\ \A i \in DOMAIN r : i \in Nat /\ i + 1 \in DOMAIN q /\ r[i] = q[i + 1]
      /\ 1 \in DOMAIN q /\ Head(q) = q[1]
  BY TailPlaces
<1>2. DOMAIN r \subseteq Nat \ {0}
  BY LenProperties, TailPlaces
<1> HIDE DEF r
<1>3. Rises(r, f)
  <2> SUFFICES ASSUME NEW i \in DOMAIN r, NEW j \in DOMAIN r, i < j,
                      r[i] \in DOMAIN f, r[j] \in DOMAIN f
               PROVE  f[r[i]] < f[r[j]]
    BY DEF Rises
  <2>1. i + 1 \in DOMAIN q /\ j + 1 \in DOMAIN q /\ i + 1 < j + 1
    BY <1>1
  <2>2. QED
    BY <1>1, <2>1 DEF Rises
<1>4. ASSUME Head(q) \in DOMAIN f, NEW k \in Keys(r, f) PROVE f[Head(q)] < k
  <2>1. PICK i \in DOMAIN r : r[i] \in DOMAIN f /\ k = f[r[i]]
    BY DEF Keys, Members
  <2>2. i + 1 \in DOMAIN q /\ 1 < i + 1 /\ r[i] = q[i + 1]
    BY <1>1, <1>2
  <2>3. QED
    BY <1>1, <1>4, <2>1, <2>2 DEF Rises
<1>5. QED
  BY <1>3, <1>4 DEF r, Precede

(* The last record that matters says what is there.                         *)
LEMMA AppendLands ==
  ASSUME NEW S, NEW q \in Seq(S), NEW e \in S, NEW f, NEW now, NEW there, Lands(now, q, f, there)
  PROVE  Lands(now, Append(q, e), f, IF e \in DOMAIN f THEN f[e] ELSE there)
<1> DEFINE r == Append(q, e)
           to == IF e \in DOMAIN f THEN f[e] ELSE there
<1>1. /\ Members(r) = Members(q) \cup {e} /\ Len(q) \in Nat /\ DOMAIN q = 1 .. Len(q)
      /\ Len(q) + 1 \in DOMAIN r /\ r[Len(q) + 1] = e
      /\ \A i \in DOMAIN q : i \in DOMAIN r /\ r[i] = q[i] /\ i < Len(q) + 1
      /\ \A i \in DOMAIN r : i \in DOMAIN q \/ i = Len(q) + 1
  BY AppendMembers, AppendPlaces
<1> HIDE DEF r
<1>2. Members(r) \cap DOMAIN f = {} => now = to
  BY <1>1 DEF Lands
<1>3. ASSUME NEW i \in DOMAIN r, r[i] \in DOMAIN f,
             \A j \in DOMAIN r : i < j => r[j] \notin DOMAIN f
      PROVE  f[r[i]] = to
  <2>1. CASE i = Len(q) + 1
    BY <1>1, <1>3, <2>1
  <2>2. CASE i \in DOMAIN q
    <3>1. e \notin DOMAIN f
      BY <1>1, <1>3, <2>2
    <3>2. f[q[i]] = there
      BY <1>1, <1>3, <2>2 DEF Lands
    <3>3. QED
      BY <1>1, <2>2, <3>1, <3>2
  <2>3. QED
    BY <1>1, <2>1, <2>2
<1>4. Lands(now, r, f, to)
  BY <1>2, <1>3 DEF Lands
<1>5. QED
  BY <1>4 DEF r

LEMMA TailLands ==
  ASSUME NEW S, NEW q \in Seq(S), q # <<>>, NEW f, NEW now, NEW there, Lands(now, q, f, there)
  PROVE  Lands(IF Head(q) \in DOMAIN f THEN f[Head(q)] ELSE now, Tail(q), f, there)
<1> DEFINE r == Tail(q)
           at == IF Head(q) \in DOMAIN f THEN f[Head(q)] ELSE now
<1>1. /\ \A i \in DOMAIN r : i \in Nat /\ i + 1 \in DOMAIN q /\ r[i] = q[i + 1]
      /\ 1 \in DOMAIN q /\ Head(q) = q[1] /\ DOMAIN q \subseteq Nat \ {0}
      /\ \A i \in DOMAIN q : i # 1 => i - 1 \in DOMAIN r /\ r[i - 1] = q[i]
      /\ Members(q) = Members(r) \cup {Head(q)}
  BY TailPlaces, TailMembers
<1> HIDE DEF r
<1>2. ASSUME Members(r) \cap DOMAIN f = {} PROVE at = there
  <2>1. CASE Head(q) \in DOMAIN f
    <3>1. \A j \in DOMAIN q : 1 < j => q[j] \notin DOMAIN f
      <4> SUFFICES ASSUME NEW j \in DOMAIN q, 1 < j PROVE q[j] \notin DOMAIN f
        OBVIOUS
      <4>1. j - 1 \in DOMAIN r /\ r[j - 1] = q[j]
        BY <1>1
      <4>2. q[j] \in Members(r)
        BY <4>1 DEF Members
      <4>3. QED
        BY <1>2, <4>2
    <3>2. QED
      BY <1>1, <2>1, <3>1 DEF Lands
  <2>2. CASE Head(q) \notin DOMAIN f
    BY <1>1, <1>2, <2>2 DEF Lands
  <2>3. QED
    BY <2>1, <2>2
<1>3. ASSUME NEW i \in DOMAIN r, r[i] \in DOMAIN f,
             \A j \in DOMAIN r : i < j => r[j] \notin DOMAIN f
      PROVE  f[r[i]] = there
  <2>1. \A j \in DOMAIN q : i + 1 < j => q[j] \notin DOMAIN f
    <3> SUFFICES ASSUME NEW j \in DOMAIN q, i + 1 < j PROVE q[j] \notin DOMAIN f
      OBVIOUS
    <3>1. i \in Nat /\ j \in Nat /\ j - 1 \in DOMAIN r /\ r[j - 1] = q[j] /\ i < j - 1
      BY <1>1
    <3>2. QED
      BY <1>3, <3>1
  <2>2. i + 1 \in DOMAIN q /\ r[i] = q[i + 1]
    BY <1>1
  <2>3. QED
    BY <1>3, <2>1, <2>2 DEF Lands
<1>4. Lands(at, r, f, there)
  BY <1>2, <1>3 DEF Lands
<1>5. QED
  BY <1>4 DEF r

(* A queue to whose end another is added.                                   *)
LEMMA ConcatPlaces ==
  ASSUME NEW S, NEW q \in Seq(S), NEW r \in Seq(S)
  PROVE  /\ q \o r \in Seq(S)
         /\ Len(q) \in Nat /\ DOMAIN q = 1 .. Len(q) /\ DOMAIN r \subseteq Nat \ {0}
         /\ \A i \in DOMAIN q : i \in DOMAIN (q \o r) /\ (q \o r)[i] = q[i]
         /\ \A i \in DOMAIN r : i + Len(q) \in DOMAIN (q \o r) /\ (q \o r)[i + Len(q)] = r[i]
         /\ \A i \in DOMAIN (q \o r) : i \in Nat /\ (i \in DOMAIN q \/ (Len(q) < i /\ i - Len(q) \in DOMAIN r))
<1>1. /\ Len(q) \in Nat /\ DOMAIN q = 1 .. Len(q) /\ Len(r) \in Nat /\ DOMAIN r = 1 .. Len(r)
  BY LenProperties
<1>2. /\ q \o r \in Seq(S) /\ Len(q \o r) = Len(q) + Len(r)
      /\ \A i \in 1 .. Len(q) + Len(r) :
            (q \o r)[i] = IF i <= Len(q) THEN q[i] ELSE r[i - Len(q)]
  BY ConcatProperties
<1>3. DOMAIN (q \o r) = 1 .. Len(q) + Len(r)
  BY <1>2, LenProperties
<1> DEFINE t == q \o r
<1> HIDE DEF t
<1>4. /\ \A i \in DOMAIN q : i \in DOMAIN t /\ t[i] = q[i]
      /\ \A i \in DOMAIN t : i \in Nat /\ (i \in DOMAIN q \/ (Len(q) < i /\ i - Len(q) \in DOMAIN r))
  BY <1>1, <1>2, <1>3 DEF t
<1>5. ASSUME NEW i \in DOMAIN r PROVE i + Len(q) \in DOMAIN t /\ t[i + Len(q)] = r[i]
  <2>1. i + Len(q) \in 1 .. Len(q) + Len(r) /\ ~(i + Len(q) <= Len(q)) /\ (i + Len(q)) - Len(q) = i
    BY <1>1
  <2>2. QED
    BY <1>2, <1>3, <2>1 DEF t
<1>6. QED
  BY <1>1, <1>2, <1>4, <1>5 DEF t

LEMMA ConcatMembers ==
  ASSUME NEW S, NEW q \in Seq(S), NEW r \in Seq(S)
  PROVE  q \o r \in Seq(S) /\ Members(q \o r) = Members(q) \cup Members(r)
<1> DEFINE t == q \o r
<1>1. /\ t \in Seq(S)
      /\ \A i \in DOMAIN q : i \in DOMAIN t /\ t[i] = q[i]
      /\ \A i \in DOMAIN r : i + Len(q) \in DOMAIN t /\ t[i + Len(q)] = r[i]
      /\ \A i \in DOMAIN t : i \in Nat /\ (i \in DOMAIN q \/ (Len(q) < i /\ i - Len(q) \in DOMAIN r))
      /\ Len(q) \in Nat
  BY ConcatPlaces
<1> HIDE DEF t
<1>2. ASSUME NEW i \in DOMAIN t PROVE t[i] \in Members(q) \cup Members(r)
  <2>1. CASE i \in DOMAIN q
    BY <1>1, <2>1 DEF Members
  <2>2. CASE i - Len(q) \in DOMAIN r
    <3>1. t[(i - Len(q)) + Len(q)] = r[i - Len(q)] /\ (i - Len(q)) + Len(q) = i
      BY <1>1, <2>2
    <3>2. QED
      BY <2>2, <3>1 DEF Members
  <2>3. QED
    BY <1>1, <2>1, <2>2
<1>3. \A i \in DOMAIN q : q[i] \in Members(t)
  BY <1>1 DEF Members
<1>4. ASSUME NEW i \in DOMAIN r PROVE r[i] \in Members(t)
  <2>1. i + Len(q) \in DOMAIN t /\ t[i + Len(q)] = r[i]
    BY <1>1
  <2>2. QED
    BY <2>1 DEF Members
<1>5. Members(t) \subseteq Members(q) \cup Members(r)
  BY <1>2 DEF Members
<1>6. Members(q) \cup Members(r) \subseteq Members(t)
  BY <1>3, <1>4 DEF Members
<1>7. QED
  BY <1>1, <1>5, <1>6 DEF t

LEMMA ConcatKeys ==
  ASSUME NEW S, NEW q \in Seq(S), NEW r \in Seq(S), NEW f
  PROVE  Keys(q \o r, f) = Keys(q, f) \cup Keys(r, f)
<1>1. Members(q \o r) = Members(q) \cup Members(r)
  BY ConcatMembers
<1>2. QED
  BY <1>1 DEF Keys

LEMMA ConcatOnce ==
  ASSUME NEW S, NEW q \in Seq(S), NEW r \in Seq(S), NEW f, Once(q, f), Once(r, f),
         Keys(q, f) \cap Keys(r, f) = {}
  PROVE  Once(q \o r, f)
<1> DEFINE t == q \o r
<1>1. /\ Len(q) \in Nat
      /\ \A i \in DOMAIN q : i \in DOMAIN t /\ t[i] = q[i]
      /\ \A i \in DOMAIN r : i + Len(q) \in DOMAIN t /\ t[i + Len(q)] = r[i]
      /\ \A i \in DOMAIN t : i \in Nat /\ (i \in DOMAIN q \/ (Len(q) < i /\ i - Len(q) \in DOMAIN r))
  BY ConcatPlaces
<1> HIDE DEF t
<1>2. \A i \in DOMAIN t : \/ i \in DOMAIN q /\ t[i] = q[i]
                          \/ i - Len(q) \in DOMAIN r /\ t[i] = r[i - Len(q)]
  <2> SUFFICES ASSUME NEW i \in DOMAIN t, i \notin DOMAIN q
               PROVE  i - Len(q) \in DOMAIN r /\ t[i] = r[i - Len(q)]
    BY <1>1
  <2>1. i - Len(q) \in DOMAIN r /\ (i - Len(q)) + Len(q) = i
    BY <1>1
  <2>2. t[(i - Len(q)) + Len(q)] = r[i - Len(q)]
    BY <1>1, <2>1
  <2>3. QED
    BY <2>1, <2>2
<1>3. \A i \in DOMAIN q, j \in DOMAIN r :
         q[i] \in DOMAIN f /\ r[j] \in DOMAIN f => f[q[i]] # f[r[j]]
  BY DEF Keys, Members
<1>4. Once(t, f)
  <2> SUFFICES ASSUME NEW i \in DOMAIN t, NEW j \in DOMAIN t,
                      t[i] \in DOMAIN f, t[j] \in DOMAIN f, f[t[i]] = f[t[j]]
               PROVE  i = j
    BY DEF Once
  <2>1. CASE (i \in DOMAIN q /\ t[i] = q[i]) /\ (j \in DOMAIN q /\ t[j] = q[j])
    BY <2>1 DEF Once
  <2>2. CASE (i - Len(q) \in DOMAIN r /\ t[i] = r[i - Len(q)]) /\ (j - Len(q) \in DOMAIN r /\ t[j] = r[j - Len(q)])
    <3>1. i - Len(q) = j - Len(q)
      BY <2>2 DEF Once
    <3>2. QED
      BY <1>1, <3>1
  <2>3. QED
    BY <1>2, <1>3, <2>1, <2>2
<1>5. QED
  BY <1>4 DEF t

LEMMA ConcatRises ==
  ASSUME NEW S, NEW q \in Seq(S), NEW r \in Seq(S), NEW f, Rises(q, f), Rises(r, f),
         Precede(Keys(q, f), Keys(r, f))
  PROVE  Rises(q \o r, f)
<1> DEFINE t == q \o r
<1>1. /\ Len(q) \in Nat /\ DOMAIN q = 1 .. Len(q)
      /\ \A i \in DOMAIN q : i \in DOMAIN t /\ t[i] = q[i]
      /\ \A i \in DOMAIN r : i + Len(q) \in DOMAIN t /\ t[i + Len(q)] = r[i]
      /\ \A i \in DOMAIN t : i \in Nat /\ (i \in DOMAIN q \/ (Len(q) < i /\ i - Len(q) \in DOMAIN r))
  BY ConcatPlaces
<1> HIDE DEF t
<1>2. \A i \in DOMAIN t : \/ i \in DOMAIN q /\ t[i] = q[i]
                          \/ Len(q) < i /\ i - Len(q) \in DOMAIN r /\ t[i] = r[i - Len(q)]
  <2> SUFFICES ASSUME NEW i \in DOMAIN t, i \notin DOMAIN q
               PROVE  Len(q) < i /\ i - Len(q) \in DOMAIN r /\ t[i] = r[i - Len(q)]
    BY <1>1
  <2>1. Len(q) < i /\ i - Len(q) \in DOMAIN r /\ (i - Len(q)) + Len(q) = i
    BY <1>1
  <2>2. t[(i - Len(q)) + Len(q)] = r[i - Len(q)]
    BY <1>1, <2>1
  <2>3. QED
    BY <2>1, <2>2
<1>3. \A i \in DOMAIN q, j \in DOMAIN r :
         q[i] \in DOMAIN f /\ r[j] \in DOMAIN f => f[q[i]] < f[r[j]]
  BY DEF Keys, Members, Precede
<1>4. Rises(t, f)
  <2> SUFFICES ASSUME NEW i \in DOMAIN t, NEW j \in DOMAIN t, i < j,
                      t[i] \in DOMAIN f, t[j] \in DOMAIN f
               PROVE  f[t[i]] < f[t[j]]
    BY DEF Rises
  <2>1. CASE (i \in DOMAIN q /\ t[i] = q[i]) /\ (j \in DOMAIN q /\ t[j] = q[j])
    BY <2>1 DEF Rises
  <2>2. CASE (i - Len(q) \in DOMAIN r /\ t[i] = r[i - Len(q)]) /\ (j - Len(q) \in DOMAIN r /\ t[j] = r[j - Len(q)])
    <3>1. i - Len(q) < j - Len(q)
      BY <1>1
    <3>2. QED
      BY <2>2, <3>1 DEF Rises
  <2>3. CASE i \in DOMAIN q /\ t[i] = q[i] /\ j - Len(q) \in DOMAIN r /\ t[j] = r[j - Len(q)]
    BY <1>3, <2>3
  <2>4. ~(Len(q) < i /\ j \in DOMAIN q)
    BY <1>1
  <2>5. QED
    BY <1>2, <2>1, <2>2, <2>3, <2>4
<1>5. QED
  BY <1>4 DEF t

(* Records of one kind that stand behind one of another.                    *)
LEMMA AppendLeads ==
  ASSUME NEW S, NEW q \in Seq(S), NEW e \in S, NEW A, NEW B, Leads(q, A, B),
         e \in B => Members(q) \cap A # {}
  PROVE  Leads(Append(q, e), A, B)
<1> DEFINE r == Append(q, e)
<1>1. /\ \A i \in DOMAIN r : (i \in DOMAIN q /\ r[i] = q[i]) \/ (i = Len(q) + 1 /\ r[i] = e)
      /\ \A i \in DOMAIN q : i \in DOMAIN r /\ r[i] = q[i] /\ i < Len(q) + 1
  BY AppendPlaces
<1> HIDE DEF r
<1>2. Leads(r, A, B)
  <2> SUFFICES ASSUME NEW i \in DOMAIN r, r[i] \in B PROVE \E j \in DOMAIN r : j < i /\ r[j] \in A
    BY DEF Leads
  <2>1. CASE i \in DOMAIN q /\ r[i] = q[i]
    <3>1. PICK j \in DOMAIN q : j < i /\ q[j] \in A
      BY <2>1 DEF Leads
    <3>2. QED
      BY <1>1, <3>1
  <2>2. CASE i = Len(q) + 1 /\ r[i] = e
    <3>1. PICK j \in DOMAIN q : q[j] \in A
      BY <2>2 DEF Members
    <3>2. QED
      BY <1>1, <2>2, <3>1
  <2>3. QED
    BY <1>1, <2>1, <2>2
<1>3. QED
  BY <1>2 DEF r

LEMMA TailLeads ==
  ASSUME NEW S, NEW q \in Seq(S), q # <<>>, NEW A, NEW B, Leads(q, A, B)
  PROVE  Head(q) \notin B /\ (Head(q) \notin A => Leads(Tail(q), A, B))
<1> DEFINE r == Tail(q)
<1>1. /\ \A i \in DOMAIN r : i \in Nat /\ i + 1 \in DOMAIN q /\ r[i] = q[i + 1]
      /\ 1 \in DOMAIN q /\ Head(q) = q[1] /\ DOMAIN q \subseteq Nat \ {0}
      /\ \A i \in DOMAIN q : i # 1 => i - 1 \in DOMAIN r /\ r[i - 1] = q[i]
  BY TailPlaces
<1> HIDE DEF r
<1>2. Head(q) \notin B
  BY <1>1 DEF Leads
<1>3. ASSUME Head(q) \notin A PROVE Leads(r, A, B)
  <2> SUFFICES ASSUME NEW i \in DOMAIN r, r[i] \in B PROVE \E j \in DOMAIN r : j < i /\ r[j] \in A
    BY DEF Leads
  <2>1. PICK j \in DOMAIN q : j < i + 1 /\ q[j] \in A
    BY <1>1 DEF Leads
  <2>2. j # 1 /\ j \in Nat /\ i \in Nat
    BY <1>1, <1>3, <2>1
  <2>3. j - 1 \in DOMAIN r /\ r[j - 1] = q[j] /\ j - 1 < i
    BY <1>1, <2>1, <2>2
  <2>4. QED
    BY <2>1, <2>3
<1>4. QED
  BY <1>2, <1>3 DEF r

LEMMA ConcatLeads ==
  ASSUME NEW S, NEW q \in Seq(S), NEW r \in Seq(S), NEW A, NEW B, Leads(q, A, B),
         Members(r) \cap B = {}
  PROVE  Leads(q \o r, A, B)
<1> DEFINE t == q \o r
<1>1. /\ Len(q) \in Nat
      /\ \A i \in DOMAIN q : i \in DOMAIN t /\ t[i] = q[i]
      /\ \A i \in DOMAIN r : i + Len(q) \in DOMAIN t /\ t[i + Len(q)] = r[i]
      /\ \A i \in DOMAIN t : i \in Nat /\ (i \in DOMAIN q \/ (Len(q) < i /\ i - Len(q) \in DOMAIN r))
  BY ConcatPlaces
<1> HIDE DEF t
<1>2. ASSUME NEW i \in DOMAIN t, i \notin DOMAIN q PROVE t[i] \in Members(r)
  <2>1. i - Len(q) \in DOMAIN r /\ (i - Len(q)) + Len(q) = i
    BY <1>1, <1>2
  <2>2. t[(i - Len(q)) + Len(q)] = r[i - Len(q)]
    BY <1>1, <2>1
  <2>3. QED
    BY <2>1, <2>2 DEF Members
<1>3. Leads(t, A, B)
  <2> SUFFICES ASSUME NEW i \in DOMAIN t, t[i] \in B PROVE \E j \in DOMAIN t : j < i /\ t[j] \in A
    BY DEF Leads
  <2>1. i \in DOMAIN q
    BY <1>2
  <2>2. PICK j \in DOMAIN q : j < i /\ q[j] \in A
    BY <1>1, <2>1 DEF Leads
  <2>3. QED
    BY <1>1, <2>2
<1>4. QED
  BY <1>3 DEF t
=============================================================================
