--------------------------- MODULE LaneSetsProofs ---------------------------
(***************************************************************************)
(* Both lane sets implement OwnerOrder, and a stop of either loses only    *)
(* what is sent backward, for every set of messages, every number of lanes *)
(* and producers and every flow of messages.  The order rests on three     *)
(* facts about a queue, of a thread or of a strand.  A message is in one   *)
(* place only: in its lane's queue, in hand or done, and at most once.     *)
(* Whatever was posted before it for its owner is done, in hand on its     *)
(* lane or further ahead in the same queue, because an owner has one lane. *)
(* And a message that is still to be pushed is nowhere yet, because it has *)
(* one sender.                                                             *)
(***************************************************************************)
EXTENDS LaneSets, TLAPS

Positions(k) == 1 .. Len(queue[k])

Types ==
    /\ queue \in [Lanes -> Seq(Msgs)]
    /\ current \in [Lanes -> Msgs \cup {NoMsg}]
    /\ pushed \in [Lanes -> Nat]
    /\ done \in SUBSET Msgs
    /\ ahead \in [Msgs -> SUBSET Msgs]

\* A message is in hand or queued on its own lane, once, and not done.
InOnePlace ==
    /\ \A k \in Lanes : current[k] # NoMsg =>
           LaneFor(current[k]) = k /\ current[k] \notin done
    /\ \A k \in Lanes : \A i \in Positions(k) :
           /\ LaneFor(queue[k][i]) = k
           /\ queue[k][i] \notin done /\ queue[k][i] # current[k]
           /\ \A j \in Positions(k) : queue[k][i] = queue[k][j] => i = j

\* What came before a queued message for its owner has left the queue or is
\* ahead in it.
BeforeItInQueue ==
    \A k \in Lanes : \A i \in Positions(k) : \A n \in ahead[queue[k][i]] :
        n \in done \/ n = current[k] \/ \E j \in 1 .. i - 1 : queue[k][j] = n

\* What a handler has not pushed yet is nowhere.
NotYetPushed ==
    /\ \A n \in Msgs : n \notin Queue!Running \cup done =>
           \A i \in 1 .. Len(Pushes[n]) : Pushes[n][i] \notin Queue!Posted
    /\ \A k \in Lanes : current[k] # NoMsg =>
           \A i \in 1 .. Len(Pushes[current[k]]) :
               pushed[k] < i => Pushes[current[k]][i] \notin Queue!Posted

OrderInv == Types /\ InOnePlace /\ BeforeItInQueue /\ NotYetPushed

(***************************************************************************)
(* The steps of either backend, as far as messages are concerned.          *)
(***************************************************************************)
Put(m) ==
    /\ queue' = [queue EXCEPT ![LaneFor(m)] = Append(@, m)]
    /\ ahead' = [ahead EXCEPT ![m] = {n \in Queue!Posted : OwnerOf[n] = OwnerOf[m]}]

Arrives(m) ==
    /\ m \in External \ Queue!Posted
    /\ Put(m)
    /\ UNCHANGED <<current, pushed, done>>

HasNext(k) == current[k] # NoMsg /\ pushed[k] < Len(Pushes[current[k]])

PutsNext(k) ==
    /\ HasNext(k)
    /\ Put(Pushes[current[k]][pushed[k] + 1])
    /\ pushed' = [pushed EXCEPT ![k] = @ + 1]
    /\ UNCHANGED <<current, done>>

LosesNext(k) ==
    /\ HasNext(k)
    /\ pushed' = [pushed EXCEPT ![k] = @ + 1]
    /\ UNCHANGED <<queue, current, done, ahead>>

Begins(k) ==
    /\ current[k] = NoMsg /\ queue[k] # <<>>
    /\ current' = [current EXCEPT ![k] = Head(queue[k])]
    /\ queue' = [queue EXCEPT ![k] = Tail(@)]
    /\ UNCHANGED <<pushed, done, ahead>>

Finishes(k) ==
    /\ current[k] # NoMsg
    /\ current' = [current EXCEPT ![k] = NoMsg]
    /\ done' = done \cup {current[k]}
    /\ pushed' = [pushed EXCEPT ![k] = 0]
    /\ UNCHANGED <<queue, ahead>>

\* Waiting, by positions.
LEMMA WaitingIsQueued ==
  ASSUME NEW q
  PROVE  \A x : x \in UNION {{q[k][i] : i \in 1 .. Len(q[k])} : k \in Lanes}
                <=> \E k \in Lanes : \E i \in 1 .. Len(q[k]) : q[k][i] = x
  OBVIOUS

\* Nothing is anywhere at first.
LEMMA InitOrderInv == Init => OrderInv /\ Queue!Abstract!Init
<1> SUFFICES ASSUME Init PROVE OrderInv /\ Queue!Abstract!Init
  OBVIOUS
<1>1. Types
  BY LanesAssumption DEF Init, Queue!Init, Types
<1>2. Queue!Waiting = {} /\ Queue!Running = {}
  BY DEF Init, Queue!Init, Queue!Waiting, Queue!Running
<1>3. InOnePlace /\ BeforeItInQueue
  BY DEF Init, Queue!Init, InOnePlace, BeforeItInQueue, Positions
<1>4. NotYetPushed
  BY <1>2 DEF Init, Queue!Init, NotYetPushed, Queue!Posted
<1>5. QED
  BY <1>1, <1>2, <1>3, <1>4 DEF OrderInv, Init, Queue!Init, Queue!Abstract!Init

\* A push of a message that is nowhere yet puts it last in its lane's queue.
LEMMA PutStep ==
  ASSUME OrderInv, NEW m \in Msgs, m \notin Queue!Posted, Put(m),
         UNCHANGED <<current, done>>, pushed' \in [Lanes -> Nat]
  PROVE  /\ Types' /\ InOnePlace' /\ BeforeItInQueue'
         /\ Queue!Posted' = Queue!Posted \cup {m} /\ Queue!Running' = Queue!Running
         /\ Queue!Abstract!Post(m)
<1> DEFINE home == LaneFor(m)
<1>1. home \in Lanes /\ Types /\ InOnePlace /\ BeforeItInQueue
  BY LanesAssumption DEF OrderInv, LaneFor
<1>2. /\ queue' \in [Lanes -> Seq(Msgs)]
      /\ \A k \in Lanes : k # home => queue'[k] = queue[k]
      /\ Len(queue'[home]) = Len(queue[home]) + 1
      /\ queue'[home][Len(queue[home]) + 1] = m
      /\ \A i \in 1 .. Len(queue[home]) : queue'[home][i] = queue[home][i]
  BY <1>1 DEF Types, Put
<1>3. \A x : x \in Queue!Waiting <=> \E k \in Lanes : \E i \in Positions(k) : queue[k][i] = x
  BY WaitingIsQueued DEF Queue!Waiting, Positions
<1>4. \A x : x \in Queue!Waiting' <=> \E k \in Lanes : \E i \in Positions(k)' : queue'[k][i] = x
  BY WaitingIsQueued DEF Queue!Waiting, Positions
<1>5. \A k \in Lanes : \A i \in Positions(k)' :
          \/ i \in Positions(k) /\ queue'[k][i] = queue[k][i]
          \/ k = home /\ i = Len(queue[home]) + 1 /\ queue'[k][i] = m
  <2> SUFFICES ASSUME NEW k \in Lanes, NEW i \in Positions(k)'
               PROVE  \/ i \in Positions(k) /\ queue'[k][i] = queue[k][i]
                      \/ k = home /\ i = Len(queue[home]) + 1 /\ queue'[k][i] = m
    OBVIOUS
  <2>1. CASE k # home
    BY <1>2, <2>1 DEF Positions
  <2>2. CASE k = home
    <3>1. Len(queue[home]) \in Nat /\ i \in 1 .. Len(queue[home]) + 1
      BY <1>1, <1>2, <2>2 DEF Positions, Types
    <3>2. i \in 1 .. Len(queue[home]) \/ i = Len(queue[home]) + 1
      BY <3>1
    <3>3. QED
      BY <1>2, <2>2, <3>2 DEF Positions
  <2>3. QED
    BY <2>1, <2>2
<1>6. \A k \in Lanes : \A i \in Positions(k) :
          i \in Positions(k)' /\ queue'[k][i] = queue[k][i] /\ queue[k][i] # m
  <2> SUFFICES ASSUME NEW k \in Lanes, NEW i \in Positions(k)
               PROVE  i \in Positions(k)' /\ queue'[k][i] = queue[k][i] /\ queue[k][i] # m
    OBVIOUS
  <2>1. queue[k][i] # m
    BY <1>3 DEF Queue!Posted
  <2>2. CASE k # home
    BY <1>2, <2>1, <2>2 DEF Positions
  <2>3. CASE k = home
    <3>1. Len(queue[home]) \in Nat /\ i \in 1 .. Len(queue[home])
      BY <1>1, <2>3 DEF Positions, Types
    <3>2. i \in 1 .. Len(queue[home]) + 1
      BY <3>1
    <3>3. QED
      BY <1>2, <2>1, <2>3, <3>1, <3>2 DEF Positions
  <2>4. QED
    BY <2>2, <2>3
<1>7. Queue!Waiting' = Queue!Waiting \cup {m}
  <2>1. \A x \in Queue!Waiting' : x \in Queue!Waiting \cup {m}
    BY <1>3, <1>4, <1>5
  <2>2. \A x \in Queue!Waiting : x \in Queue!Waiting'
    BY <1>3, <1>4, <1>6
  <2>3. m \in Queue!Waiting'
    <3>1. Len(queue[home]) \in Nat
      BY <1>1 DEF Types
    <3>2. Len(queue[home]) + 1 \in Positions(home)'
      BY <1>2, <3>1 DEF Positions
    <3>3. QED
      BY <1>1, <1>2, <1>4, <3>2
  <2>4. QED
    BY <2>1, <2>2, <2>3
<1>8. Queue!Running' = Queue!Running
  BY DEF Queue!Running
<1>9. m \notin Queue!Running /\ m \notin done /\ \A k \in Lanes : m # current[k]
  BY LanesAssumption DEF Queue!Posted, Queue!Running
<1>10. Types'
  <2>1. ahead' \in [Msgs -> SUBSET Msgs]
    <3>1. Queue!Posted \subseteq Msgs
      <4>1. \A k \in Lanes : \A i \in Positions(k) : queue[k][i] \in Msgs
        BY <1>1 DEF Types, Positions
      <4>2. Queue!Waiting \subseteq Msgs
        BY <1>3, <4>1
      <4>3. Queue!Running \subseteq Msgs
        BY <1>1 DEF Queue!Running, Types
      <4>4. QED
        BY <1>1, <4>2, <4>3 DEF Queue!Posted, Types
    <3>2. QED
      BY <1>1, <3>1 DEF Types, Put
  <2>2. QED
    BY <1>1, <1>2, <2>1 DEF Types
<1>11. InOnePlace'
  <2>1. \A k \in Lanes : \A i \in Positions(k)' :
            LaneFor(queue'[k][i]) = k /\ queue'[k][i] \notin done /\ queue'[k][i] # current[k]
    BY <1>1, <1>5, <1>9 DEF InOnePlace
  <2>2. \A k \in Lanes : \A i, j \in Positions(k)' : queue'[k][i] = queue'[k][j] => i = j
    BY <1>1, <1>5, <1>6 DEF InOnePlace
  <2>3. QED
    BY <1>1, <2>1, <2>2 DEF InOnePlace, Positions
<1>12. BeforeItInQueue'
  <2> SUFFICES ASSUME NEW k \in Lanes, NEW i \in Positions(k)', NEW n \in ahead'[queue'[k][i]]
               PROVE  n \in done \/ n = current[k] \/ \E j \in 1 .. i - 1 : queue'[k][j] = n
    BY DEF BeforeItInQueue, Positions
  <2>1. CASE i \in Positions(k) /\ queue'[k][i] = queue[k][i]
    <3>1. queue[k][i] # m /\ queue[k][i] \in Msgs
      BY <1>1, <1>6, <2>1 DEF Types, Positions
    <3>2. n \in ahead[queue[k][i]]
      BY <1>1, <2>1, <3>1 DEF Put, Types
    <3>3. CASE \E j \in 1 .. i - 1 : queue[k][j] = n
      <4>1. PICK j \in 1 .. i - 1 : queue[k][j] = n
        BY <3>3
      <4>2. j \in Positions(k)
        BY <1>1, <2>1 DEF Positions, Types
      <4>3. QED
        BY <1>6, <4>1, <4>2
    <3>4. QED
      BY <1>1, <2>1, <3>2, <3>3 DEF BeforeItInQueue
  <2>2. CASE k = home /\ i = Len(queue[home]) + 1 /\ queue'[k][i] = m
    <3>1. n \in Queue!Posted /\ OwnerOf[n] = OwnerOf[m]
      BY <1>1, <2>2 DEF Put, Types
    <3>2. LaneFor(n) = home
      BY <3>1 DEF LaneFor
    <3>3. CASE n \in Queue!Waiting
      <4>1. PICK h \in Lanes : \E j \in Positions(h) : queue[h][j] = n
        BY <1>3, <3>3
      <4>2. h = home
        BY <1>1, <3>2, <4>1 DEF InOnePlace
      <4>3. PICK j \in Positions(home) : queue[home][j] = n
        BY <4>1, <4>2
      <4>4. j \in 1 .. i - 1 /\ queue'[k][j] = n
        BY <1>1, <1>6, <2>2, <4>3 DEF Positions, Types
      <4>5. QED
        BY <4>4
    <3>4. CASE n \in Queue!Running
      <4>1. PICK h \in Lanes : current[h] = n /\ n # NoMsg
        BY <3>4 DEF Queue!Running
      <4>2. h = home
        BY <1>1, <3>2, <4>1 DEF InOnePlace
      <4>3. QED
        BY <2>2, <4>1, <4>2
    <3>5. QED
      BY <3>1, <3>3, <3>4 DEF Queue!Posted
  <2>3. QED
    BY <1>5, <2>1, <2>2
<1>13. Queue!Posted' = Queue!Posted \cup {m}
  BY <1>7, <1>8 DEF Queue!Posted
<1>14. Queue!Abstract!Post(m)
  BY <1>7, <1>8 DEF Queue!Abstract!Post, Queue!Posted, Put
<1>15. QED
  BY <1>8, <1>10, <1>11, <1>12, <1>13, <1>14

\* A network thread posts: its message is pushed by no handler.
LEMMA ArrivesStep ==
  ASSUME OrderInv, NEW m \in Msgs, Arrives(m)
  PROVE  OrderInv' /\ [Queue!Abstract!Next]_(Queue!Abstract!vars)
<1>1. m \notin Queue!Posted /\ Put(m) /\ UNCHANGED <<current, pushed, done>>
  BY DEF Arrives
<1>2. pushed' \in [Lanes -> Nat]
  BY <1>1 DEF OrderInv, Types
<1>3. /\ Types' /\ InOnePlace' /\ BeforeItInQueue'
      /\ Queue!Posted' = Queue!Posted \cup {m} /\ Queue!Running' = Queue!Running
      /\ Queue!Abstract!Post(m)
  BY <1>1, <1>2, PutStep
<1>4. \A n \in Msgs : \A i \in 1 .. Len(Pushes[n]) : Pushes[n][i] # m
  BY DEF Arrives, External
<1>5. NotYetPushed'
  <2>1. \A n \in Msgs : n \notin Queue!Running' \cup done' =>
            \A i \in 1 .. Len(Pushes[n]) : Pushes[n][i] \notin Queue!Posted'
    BY <1>1, <1>3, <1>4 DEF OrderInv, NotYetPushed
  <2>2. \A k \in Lanes : current'[k] # NoMsg =>
            \A i \in 1 .. Len(Pushes[current'[k]]) :
                pushed'[k] < i => Pushes[current'[k]][i] \notin Queue!Posted'
    BY <1>1, <1>3, <1>4 DEF OrderInv, NotYetPushed, Types
  <2>3. QED
    BY <2>1, <2>2 DEF NotYetPushed
<1>6. QED
  BY <1>3, <1>5 DEF OrderInv, Queue!Abstract!Next

\* A handler pushes: its next message is nowhere yet, and nobody else has it.
LEMMA PutsNextStep ==
  ASSUME OrderInv, NEW k \in Lanes, PutsNext(k)
  PROVE  OrderInv' /\ [Queue!Abstract!Next]_(Queue!Abstract!vars)
<1> DEFINE c == current[k]
           p == pushed[k] + 1
           m == Pushes[c][p]
<1>1. /\ c \in Msgs /\ c # NoMsg /\ pushed[k] \in Nat
      /\ Pushes[c] \in Seq(Msgs) /\ p \in 1 .. Len(Pushes[c]) /\ m \in Msgs
  <2>1. c \in Msgs /\ c # NoMsg /\ pushed[k] \in Nat /\ pushed[k] < Len(Pushes[c])
    BY DEF PutsNext, HasNext, OrderInv, Types
  <2>2. Pushes[c] \in Seq(Msgs)
    BY <2>1, LanesAssumption
  <2>3. p \in 1 .. Len(Pushes[c])
    BY <2>1, <2>2
  <2>4. QED
    BY <2>1, <2>2, <2>3
<1>2. m \notin Queue!Posted
  BY <1>1 DEF OrderInv, NotYetPushed
<1>3. Put(m) /\ UNCHANGED <<current, done>>
  BY DEF PutsNext
<1>4. /\ pushed' \in [Lanes -> Nat] /\ pushed'[k] = p
      /\ \A j \in Lanes : j # k => pushed'[j] = pushed[j]
  BY <1>1 DEF PutsNext, OrderInv, Types
<1>5. /\ Types' /\ InOnePlace' /\ BeforeItInQueue'
      /\ Queue!Posted' = Queue!Posted \cup {m} /\ Queue!Running' = Queue!Running
      /\ Queue!Abstract!Post(m)
  BY <1>1, <1>2, <1>3, <1>4, PutStep
<1>6. c \in Queue!Running
  BY <1>1 DEF Queue!Running
<1>7. \A n \in Msgs : \A i \in 1 .. Len(Pushes[n]) : Pushes[n][i] = m => n = c /\ i = p
  BY <1>1, SendersAssumption
<1>8. NotYetPushed'
  <2>1. ASSUME NEW n \in Msgs, n \notin Queue!Running' \cup done', NEW i \in 1 .. Len(Pushes[n])
        PROVE  Pushes[n][i] \notin Queue!Posted'
    BY <1>3, <1>5, <1>6, <1>7, <2>1 DEF OrderInv, NotYetPushed
  <2>2. ASSUME NEW j \in Lanes, current'[j] # NoMsg,
               NEW i \in 1 .. Len(Pushes[current'[j]]), pushed'[j] < i
        PROVE  Pushes[current'[j]][i] \notin Queue!Posted'
    <3>1. current'[j] = current[j] /\ current[j] \in Msgs
      BY <1>3, <2>2 DEF OrderInv, Types
    <3>2. pushed[j] < i /\ (j = k => i # p)
      BY <1>1, <1>4, <2>2
    <3>3. Pushes[current[j]][i] \notin Queue!Posted
      BY <2>2, <3>1, <3>2 DEF OrderInv, NotYetPushed
    <3>4. Pushes[current[j]][i] # m
      <4>1. SUFFICES ASSUME Pushes[current[j]][i] = m PROVE FALSE
        OBVIOUS
      <4>2. current[j] = c /\ i = p
        BY <1>7, <2>2, <3>1, <4>1
      <4>3. j = k
        BY <1>1, <4>2 DEF OrderInv, InOnePlace
      <4>4. QED
        BY <3>2, <4>2, <4>3
    <3>5. QED
      BY <1>5, <3>1, <3>3, <3>4
  <2>3. QED
    BY <2>1, <2>2 DEF NotYetPushed
<1>9. QED
  BY <1>1, <1>5, <1>8 DEF OrderInv, Queue!Abstract!Next

\* A thread takes the head of its queue: nothing of its owner that came
\* before it is left.
LEMMA BeginsStep ==
  ASSUME OrderInv, NEW k \in Lanes, Begins(k)
  PROVE  OrderInv' /\ [Queue!Abstract!Next]_(Queue!Abstract!vars)
<1> DEFINE h == queue[k][1]
<1>1. /\ Types /\ InOnePlace /\ BeforeItInQueue /\ NotYetPushed
      /\ current[k] = NoMsg /\ queue[k] \in Seq(Msgs) /\ queue[k] # <<>>
      /\ Len(queue[k]) \in Nat /\ Len(queue[k]) >= 1 /\ h \in Msgs /\ h # NoMsg
  <2>1. current[k] = NoMsg /\ queue[k] \in Seq(Msgs) /\ queue[k] # <<>>
    BY DEF Begins, OrderInv, Types
  <2>2. Len(queue[k]) \in Nat /\ Len(queue[k]) >= 1
    BY <2>1
  <2>3. h \in Msgs
    BY <2>1, <2>2
  <2>4. QED
    BY <2>1, <2>2, <2>3, LanesAssumption DEF OrderInv
<1>2. /\ queue' \in [Lanes -> Seq(Msgs)]
      /\ \A j \in Lanes : j # k => queue'[j] = queue[j] /\ current'[j] = current[j]
      /\ Len(queue'[k]) = Len(queue[k]) - 1
      /\ \A i \in 1 .. Len(queue[k]) - 1 : queue'[k][i] = queue[k][i + 1]
      /\ current' \in [Lanes -> Msgs \cup {NoMsg}] /\ current'[k] = h
  BY <1>1 DEF Types, Begins
<1>3. UNCHANGED <<pushed, done, ahead>>
  BY DEF Begins
<1>4. \A j \in Lanes : \A i \in Positions(j)' :
          \/ j # k /\ i \in Positions(j) /\ queue'[j][i] = queue[j][i]
          \/ j = k /\ i + 1 \in Positions(k) /\ i \in Positions(k) /\ queue'[k][i] = queue[k][i + 1]
  <2> SUFFICES ASSUME NEW j \in Lanes, NEW i \in Positions(j)'
               PROVE  \/ j # k /\ i \in Positions(j) /\ queue'[j][i] = queue[j][i]
                      \/ /\ j = k /\ i + 1 \in Positions(k) /\ i \in Positions(k)
                         /\ queue'[k][i] = queue[k][i + 1]
    OBVIOUS
  <2>1. CASE j # k
    BY <1>2, <2>1 DEF Positions
  <2>2. CASE j = k
    <3>1. i \in 1 .. Len(queue[k]) - 1
      BY <1>2, <2>2 DEF Positions
    <3>2. i + 1 \in 1 .. Len(queue[k]) /\ i \in 1 .. Len(queue[k])
      BY <1>1, <3>1
    <3>3. QED
      BY <1>2, <2>2, <3>1, <3>2 DEF Positions
  <2>3. QED
    BY <2>1, <2>2
<1>5. 1 \in Positions(k)
  BY <1>1 DEF Positions
<1>6. LaneFor(h) = k /\ h \notin done /\ \A i \in Positions(k) : queue[k][i] = h => i = 1
  BY <1>1, <1>5 DEF InOnePlace
<1>7. \A j \in Lanes : \A i \in Positions(j)' : queue'[j][i] # h
  <2> SUFFICES ASSUME NEW j \in Lanes, NEW i \in Positions(j)', queue'[j][i] = h PROVE FALSE
    OBVIOUS
  <2>1. CASE j # k
    BY <1>1, <1>4, <1>6, <2>1 DEF InOnePlace
  <2>2. CASE j = k
    <3>1. i + 1 \in Positions(k) /\ queue[k][i + 1] = h /\ i \in Positions(k)
      BY <1>4, <2>2
    <3>2. i + 1 = 1 /\ i \in 1 .. Len(queue[k])
      BY <1>6, <3>1 DEF Positions
    <3>3. QED
      BY <1>1, <3>2
  <2>3. QED
    BY <2>1, <2>2
<1>8. \A x : x \in Queue!Waiting <=> \E j \in Lanes : \E i \in Positions(j) : queue[j][i] = x
  BY WaitingIsQueued DEF Queue!Waiting, Positions
<1>9. \A x : x \in Queue!Waiting' <=> \E j \in Lanes : \E i \in Positions(j)' : queue'[j][i] = x
  BY WaitingIsQueued DEF Queue!Waiting, Positions
<1>10. Queue!Waiting' = Queue!Waiting \ {h} /\ h \in Queue!Waiting
  <2>1. \A x \in Queue!Waiting' : x \in Queue!Waiting /\ x # h
    BY <1>4, <1>7, <1>8, <1>9
  <2>2. ASSUME NEW x \in Queue!Waiting, x # h PROVE x \in Queue!Waiting'
    <3>1. PICK j \in Lanes : \E i \in Positions(j) : queue[j][i] = x
      BY <1>8
    <3>2. PICK i \in Positions(j) : queue[j][i] = x
      BY <3>1
    <3>3. CASE j # k
      BY <1>2, <1>9, <3>2, <3>3 DEF Positions
    <3>4. CASE j = k
      <4>1. i \in 1 .. Len(queue[k]) /\ i # 1
        BY <2>2, <3>2, <3>4 DEF Positions
      <4>2. i - 1 \in 1 .. Len(queue[k]) - 1 /\ (i - 1) + 1 = i
        BY <1>1, <4>1
      <4>3. i - 1 \in Positions(k)' /\ queue'[k][i - 1] = x
        BY <1>2, <3>2, <3>4, <4>2 DEF Positions
      <4>4. QED
        BY <1>9, <4>3
    <3>5. QED
      BY <3>3, <3>4
  <2>3. h \in Queue!Waiting
    BY <1>5, <1>8
  <2>4. QED
    BY <2>1, <2>2, <2>3
<1>11. Queue!Running' = Queue!Running \cup {h}
  <2>1. \A x \in Queue!Running' : x \in Queue!Running \cup {h}
    BY <1>2 DEF Queue!Running
  <2>2. \A x \in Queue!Running : x \in Queue!Running'
    BY <1>1, <1>2 DEF Queue!Running
  <2>3. h \in Queue!Running'
    BY <1>1, <1>2 DEF Queue!Running
  <2>4. QED
    BY <2>1, <2>2, <2>3
<1>12. Queue!Posted' = Queue!Posted
  BY <1>3, <1>10, <1>11 DEF Queue!Posted
<1>13. \A n \in ahead[h] : n \in done
  <2> SUFFICES ASSUME NEW n \in ahead[h] PROVE n \in done
    OBVIOUS
  <2>1. n \in Msgs
    BY <1>1 DEF Types
  <2>2. n \in done \/ n = current[k] \/ \E j \in 1 .. 1 - 1 : queue[k][j] = n
    BY <1>1, <1>5 DEF BeforeItInQueue
  <2>3. n # current[k]
    BY <1>1, <2>1, LanesAssumption
  <2>4. QED
    BY <2>2, <2>3
<1>14. Types'
  BY <1>1, <1>2, <1>3 DEF Types, Begins
<1>15. InOnePlace'
  <2>1. \A j \in Lanes : current'[j] # NoMsg => LaneFor(current'[j]) = j /\ current'[j] \notin done'
    BY <1>1, <1>2, <1>3, <1>6 DEF InOnePlace
  <2>2. ASSUME NEW j \in Lanes, NEW i \in Positions(j)'
        PROVE  /\ LaneFor(queue'[j][i]) = j
               /\ queue'[j][i] \notin done' /\ queue'[j][i] # current'[j]
               /\ \A l \in Positions(j)' : queue'[j][i] = queue'[j][l] => i = l
    <3>1. CASE j # k
      <4>1. queue'[j] = queue[j] /\ current'[j] = current[j]
        BY <1>2, <3>1
      <4>2. QED
        BY <1>1, <1>3, <2>2, <4>1 DEF InOnePlace, Positions
    <3>2. CASE j = k
      <4>1. i + 1 \in Positions(k) /\ queue'[k][i] = queue[k][i + 1]
        BY <1>4, <3>2
      <4>2. ASSUME NEW l \in Positions(j)', queue'[j][i] = queue'[j][l] PROVE i = l
        <5>1. l + 1 \in Positions(k) /\ queue'[k][l] = queue[k][l + 1]
          BY <1>4, <3>2
        <5>2. i + 1 = l + 1
          BY <1>1, <3>2, <4>1, <4>2, <5>1 DEF InOnePlace
        <5>3. i \in Nat /\ l \in Nat
          BY <1>1, <1>4, <3>2 DEF Positions
        <5>4. QED
          BY <5>2, <5>3
      <4>3. queue'[k][i] # h
        BY <1>7, <3>2
      <4>4. QED
        BY <1>1, <1>2, <1>3, <3>2, <4>1, <4>2, <4>3 DEF InOnePlace
    <3>3. QED
      BY <3>1, <3>2
  <2>3. QED
    BY <2>1, <2>2 DEF InOnePlace, Positions
<1>16. BeforeItInQueue'
  <2> SUFFICES ASSUME NEW j \in Lanes, NEW i \in Positions(j)', NEW n \in ahead[queue'[j][i]]
               PROVE  n \in done \/ n = current'[j] \/ \E l \in 1 .. i - 1 : queue'[j][l] = n
    BY <1>3 DEF BeforeItInQueue, Positions
  <2>1. CASE j # k
    <3>1. queue'[j] = queue[j] /\ current'[j] = current[j]
      BY <1>2, <2>1
    <3>2. i \in Positions(j)
      BY <3>1 DEF Positions
    <3>3. QED
      BY <1>1, <3>1, <3>2 DEF BeforeItInQueue
  <2>2. CASE j = k
    <3>1. i + 1 \in Positions(k) /\ i \in Positions(k) /\ queue'[k][i] = queue[k][i + 1]
      BY <1>4, <2>2
    <3>2. i \in Nat /\ i <= Len(queue[k]) - 1
      BY <1>1, <3>1 DEF Positions
    <3>3. n \in ahead[queue[k][i + 1]] /\ n \in Msgs
      <4>1. queue[k][i + 1] \in Msgs
        BY <1>1, <3>1 DEF Positions
      <4>2. n \in ahead[queue[k][i + 1]]
        BY <2>2, <3>1
      <4>3. QED
        BY <1>1, <4>1, <4>2 DEF Types
    <3>4. n \in done \/ n = current[k] \/ \E l \in 1 .. (i + 1) - 1 : queue[k][l] = n
      BY <1>1, <3>1, <3>3 DEF BeforeItInQueue
    <3>5. n # current[k]
      BY <1>1, <3>3, LanesAssumption
    <3>6. CASE \E l \in 1 .. (i + 1) - 1 : queue[k][l] = n
      <4>1. PICK l \in 1 .. (i + 1) - 1 : queue[k][l] = n
        BY <3>6
      <4>2. CASE l = 1
        BY <1>2, <2>2, <4>1, <4>2
      <4>3. CASE l # 1
        <5>0. i \in Nat /\ i <= Len(queue[k]) - 1 /\ Len(queue[k]) \in Nat
          BY <1>1, <3>2
        <5>1. /\ l - 1 \in 1 .. i - 1 /\ l - 1 \in 1 .. Len(queue[k]) - 1
              /\ (l - 1) + 1 = l
          BY <4>1, <4>3, <5>0
        <5>2. queue'[k][l - 1] = n
          BY <1>2, <4>1, <5>1
        <5>3. QED
          BY <2>2, <5>1, <5>2
      <4>4. QED
        BY <4>2, <4>3
    <3>7. QED
      BY <3>4, <3>5, <3>6
  <2>3. QED
    BY <2>1, <2>2
<1>17. NotYetPushed'
  <2>1. ASSUME NEW n \in Msgs, n \notin Queue!Running' \cup done', NEW i \in 1 .. Len(Pushes[n])
        PROVE  Pushes[n][i] \notin Queue!Posted'
    BY <1>1, <1>3, <1>11, <1>12, <2>1 DEF NotYetPushed
  <2>2. ASSUME NEW j \in Lanes, current'[j] # NoMsg, NEW i \in 1 .. Len(Pushes[current'[j]]),
               pushed'[j] < i
        PROVE  Pushes[current'[j]][i] \notin Queue!Posted'
    <3>1. CASE j # k
      BY <1>1, <1>2, <1>3, <1>12, <2>2, <3>1 DEF NotYetPushed
    <3>2. CASE j = k
      <4>1. h \notin Queue!Running
        <5>1. SUFFICES ASSUME NEW l \in Lanes, current[l] = h PROVE FALSE
          BY DEF Queue!Running
        <5>2. l = k
          BY <1>1, <1>6, <5>1 DEF InOnePlace
        <5>3. QED
          BY <1>1, <5>1, <5>2
      <4>2. QED
        BY <1>1, <1>2, <1>6, <1>12, <2>2, <3>2, <4>1 DEF NotYetPushed
    <3>3. QED
      BY <3>1, <3>2
  <2>3. QED
    BY <2>1, <2>2 DEF NotYetPushed
<1>18. Queue!Abstract!Begin(h)
  BY <1>3, <1>10, <1>11, <1>13 DEF Queue!Abstract!Begin
<1>19. QED
  BY <1>1, <1>14, <1>15, <1>16, <1>17, <1>18 DEF OrderInv, Queue!Abstract!Next

\* A handler returns: its message was in hand on its own lane only.
LEMMA FinishesStep ==
  ASSUME OrderInv, NEW k \in Lanes, Finishes(k)
  PROVE  OrderInv' /\ [Queue!Abstract!Next]_(Queue!Abstract!vars)
<1> DEFINE c == current[k]
<1>1. /\ Types /\ InOnePlace /\ BeforeItInQueue /\ NotYetPushed
      /\ c \in Msgs /\ c # NoMsg /\ LaneFor(c) = k
  BY DEF OrderInv, Types, InOnePlace, Finishes
<1>2. /\ UNCHANGED <<queue, ahead>> /\ done' = done \cup {c}
      /\ current' \in [Lanes -> Msgs \cup {NoMsg}] /\ current'[k] = NoMsg
      /\ \A j \in Lanes : j # k => current'[j] = current[j] /\ pushed'[j] = pushed[j]
  BY <1>1 DEF Finishes, Types
<1>3. Queue!Waiting' = Queue!Waiting
  BY <1>2 DEF Queue!Waiting
<1>4. \A j \in Lanes : j # k => current[j] # c
  BY <1>1 DEF InOnePlace
<1>5. c \in Queue!Running /\ Queue!Running' = Queue!Running \ {c}
  <2>1. c \in Queue!Running
    BY <1>1 DEF Queue!Running
  <2>2. \A x \in Queue!Running' : x \in Queue!Running /\ x # c
    BY <1>1, <1>2, <1>4 DEF Queue!Running
  <2>3. \A x \in Queue!Running : x # c => x \in Queue!Running'
    BY <1>1, <1>2 DEF Queue!Running
  <2>4. QED
    BY <2>1, <2>2, <2>3
<1>6. Queue!Posted' = Queue!Posted /\ Queue!Running' \cup done' = Queue!Running \cup done
  BY <1>2, <1>3, <1>5 DEF Queue!Posted
<1>7. Types'
  BY <1>1, <1>2 DEF Types, Finishes
<1>8. InOnePlace'
  <2>1. \A j \in Lanes : current'[j] # NoMsg => LaneFor(current'[j]) = j /\ current'[j] \notin done'
    BY <1>1, <1>2, <1>4 DEF InOnePlace
  <2>2. ASSUME NEW j \in Lanes, NEW i \in Positions(j)
        PROVE  /\ LaneFor(queue[j][i]) = j
               /\ queue[j][i] \notin done' /\ queue[j][i] # current'[j]
               /\ \A l \in Positions(j) : queue[j][i] = queue[j][l] => i = l
    <3>1. queue[j][i] # c
      BY <1>1 DEF InOnePlace
    <3>2. queue[j][i] # NoMsg
      BY <1>1, LanesAssumption DEF Types, Positions
    <3>3. QED
      BY <1>1, <1>2, <3>1, <3>2 DEF InOnePlace
  <2>3. QED
    BY <1>2, <2>1, <2>2 DEF InOnePlace, Positions
<1>9. BeforeItInQueue'
  BY <1>1, <1>2 DEF BeforeItInQueue, Positions
<1>10. NotYetPushed'
  BY <1>1, <1>2, <1>6 DEF NotYetPushed
<1>11. Queue!Abstract!End(c)
  BY <1>2, <1>3, <1>5 DEF Queue!Abstract!End
<1>12. QED
  BY <1>1, <1>7, <1>8, <1>9, <1>10, <1>11 DEF OrderInv, Queue!Abstract!Next

\* Notifying, sleeping, leaving and stopping move no message.
LEMMA QuietStep ==
  ASSUME OrderInv, UNCHANGED <<queue, current, pushed, done, ahead>>
  PROVE  OrderInv' /\ [Queue!Abstract!Next]_(Queue!Abstract!vars)
<1>1. Queue!Waiting' = Queue!Waiting /\ Queue!Running' = Queue!Running
  BY DEF Queue!Waiting, Queue!Running
<1>2. Queue!Posted' = Queue!Posted
  BY <1>1 DEF Queue!Posted
<1>3. InOnePlace' /\ BeforeItInQueue'
  BY DEF OrderInv, InOnePlace, BeforeItInQueue, Positions
<1>4. NotYetPushed'
  BY <1>1, <1>2 DEF OrderInv, NotYetPushed
<1>5. Types'
  BY DEF OrderInv, Types
<1>6. QED
  BY <1>1, <1>3, <1>4, <1>5 DEF OrderInv, Queue!Abstract!vars

\* A push that is lost leaves the message nowhere.
LEMMA LosesNextStep ==
  ASSUME OrderInv, NEW k \in Lanes, LosesNext(k)
  PROVE  OrderInv' /\ [Queue!Abstract!Next]_(Queue!Abstract!vars)
<1>1. Queue!Waiting' = Queue!Waiting /\ Queue!Running' = Queue!Running
  BY DEF LosesNext, Queue!Waiting, Queue!Running
<1>2. Queue!Posted' = Queue!Posted
  BY <1>1 DEF LosesNext, Queue!Posted
<1>3. InOnePlace' /\ BeforeItInQueue'
  BY DEF LosesNext, OrderInv, InOnePlace, BeforeItInQueue, Positions
<1>4. /\ pushed \in [Lanes -> Nat] /\ pushed' \in [Lanes -> Nat]
      /\ \A j \in Lanes : pushed[j] <= pushed'[j]
  BY DEF LosesNext, OrderInv, Types
<1>5. NotYetPushed'
  <2>1. \A n \in Msgs : n \notin Queue!Running' \cup done' =>
            \A i \in 1 .. Len(Pushes[n]) : Pushes[n][i] \notin Queue!Posted'
    BY <1>1, <1>2 DEF LosesNext, OrderInv, NotYetPushed
  <2>2. ASSUME NEW j \in Lanes, current'[j] # NoMsg, NEW i \in 1 .. Len(Pushes[current'[j]]),
               pushed'[j] < i
        PROVE  Pushes[current'[j]][i] \notin Queue!Posted'
    <3>1. current' = current /\ pushed[j] \in Nat /\ pushed'[j] \in Nat /\ i \in Nat
      BY <1>4 DEF LosesNext
    <3>2. pushed[j] < i
      BY <1>4, <2>2, <3>1
    <3>3. QED
      BY <1>2, <2>2, <3>1, <3>2 DEF OrderInv, NotYetPushed
  <2>3. QED
    BY <2>1, <2>2 DEF NotYetPushed
<1>6. Types'
  BY <1>4 DEF LosesNext, OrderInv, Types
<1>7. QED
  BY <1>1, <1>3, <1>5, <1>6 DEF LosesNext, OrderInv, Queue!Abstract!vars

\* Where messages are, in what order they came and what is still to be pushed:
\* kept whatever a backend does, and each step one of OwnerOrder or none.
Moves ==
    \/ \E m \in Msgs : Arrives(m)
    \/ \E k \in Lanes : PutsNext(k) \/ LosesNext(k) \/ Begins(k) \/ Finishes(k)
    \/ UNCHANGED <<queue, current, pushed, done, ahead>>

LEMMA MovesStep ==
  ASSUME OrderInv, Moves
  PROVE  OrderInv' /\ [Queue!Abstract!Next]_(Queue!Abstract!vars)
BY ArrivesStep, PutsNextStep, LosesNextStep, BeginsStep, FinishesStep, QuietStep DEF Moves

(***************************************************************************)
(* What each backend keeps of its own.  A thread of the queue backend is   *)
(* gone only after its queue has been found empty and its flag set, and    *)
(* producers are joined in their order.  The threads of the strand backend *)
(* have been joined only when no lane of the producer had any work, and a  *)
(* producer is stopped only when the strands of those before it are gone.  *)
(***************************************************************************)
QueueState ==
    /\ consumer \in [Lanes -> {"awake", "asleep", "handling", "gone"}]
    /\ \A k \in Lanes : consumer[k] = "handling" <=> current[k] # NoMsg
    /\ stopped \in SUBSET Producers /\ stopping \in SUBSET Lanes
    /\ \A k \in stopping : ProducerOf[k] \in stopped
    /\ \A k \in Lanes : consumer[k] = "gone" => k \in stopping
    /\ \A p \in stopped : \A q \in Producers : q < p => q \in stopped /\ Queue!Joined(q)
    /\ ended = {}

StrandState ==
    /\ consumer \in [Lanes -> {"awake"}]
    /\ cleared \subseteq ended /\ ended \subseteq stopped /\ stopped \subseteq Producers
    /\ \A p \in stopped : \A q \in Producers : q < p => q \in cleared
    /\ \A k \in Lanes : ProducerOf[k] \in ended => current[k] = NoMsg
    /\ \A m \in stray : m \in Msgs /\ ProducerOf[LaneFor(m)] \in ended

LaneInv ==
    /\ backend \in {"queue", "strand"}
    /\ OrderInv
    /\ backend = "queue" => QueueState
    /\ backend = "strand" => StrandState
    /\ OnlyBackwardLost

\* The flows are the same for both.
LEMMA SameFlows ==
    /\ Queue!External = External /\ Strand!External = External
    /\ \A m : Queue!LaneFor(m) = LaneFor(m) /\ Strand!LaneFor(m) = LaneFor(m)
    /\ \A m : Queue!SenderOf(m) = SenderOf(m) /\ Strand!SenderOf(m) = SenderOf(m)
BY DEF Queue!External, Strand!External, External, Queue!LaneFor, Strand!LaneFor, LaneFor,
       Queue!SenderOf, Strand!SenderOf, SenderOf

\* What the two backends do to messages.
LEMMA HandlerPuts ==
  ASSUME NEW k \in Lanes, consumer[k] = "handling" => current[k] # NoMsg, Queue!PostFromHandler(k)
  PROVE  /\ consumer[k] = "handling" /\ PutsNext(k)
         /\ UNCHANGED <<consumer, current, stopping, stopped>>
<1> DEFINE m == Pushes[current[k]][pushed[k] + 1]
<1>1. /\ consumer[k] = "handling" /\ pushed[k] < Len(Pushes[current[k]]) /\ Queue!Enqueue(m)
      /\ pushed' = [pushed EXCEPT ![k] = @ + 1]
      /\ UNCHANGED <<consumer, current, stopping, stopped, done>>
  BY DEF Queue!PostFromHandler, Queue!HandlerGoesOn
<1> HIDE DEF m
<1>2. Put(m)
  BY <1>1, SameFlows DEF Queue!Enqueue, Queue!Appended, Put
<1>3. QED
  BY <1>1, <1>2 DEF PutsNext, HasNext, m

LEMMA QueueMoves ==
  ASSUME OrderInv, QueueState, Queue!Next
  PROVE  Moves
<1>1. ASSUME NEW m \in Msgs, Queue!PostExternal(m) PROVE Moves
  <2>1. Arrives(m)
    BY <1>1, SameFlows DEF Queue!PostExternal, Queue!Enqueue, Queue!Appended, Arrives, Put
  <2>2. QED
    BY <2>1 DEF Moves
<1>2. ASSUME NEW m \in Msgs, Queue!NotifyOne(m) PROVE Moves
  BY <1>2 DEF Queue!NotifyOne, Moves
<1>3. ASSUME NEW k \in Lanes, Queue!PostFromHandler(k) PROVE Moves
  <2>1. PutsNext(k)
    BY <1>3, HandlerPuts DEF QueueState
  <2>2. QED
    BY <2>1 DEF Moves
<1>4. ASSUME NEW k \in Lanes, Queue!Sleep(k) \/ Queue!Leave(k) PROVE Moves
  BY <1>4 DEF Queue!Sleep, Queue!Leave, Moves
<1>5. ASSUME NEW k \in Lanes, Queue!Take(k) PROVE Moves
  <2>1. Begins(k)
    BY <1>5 DEF QueueState, Queue!Take, Queue!Exits, Begins
  <2>2. QED
    BY <2>1 DEF Moves
<1>6. ASSUME NEW k \in Lanes, Queue!Return(k) PROVE Moves
  <2>1. Finishes(k)
    BY <1>6 DEF QueueState, Queue!Return, Queue!HandlerGoesOn, Finishes
  <2>2. QED
    BY <2>1 DEF Moves
<1>7. ASSUME Queue!StopStep PROVE Moves
  BY <1>7 DEF Queue!StopStep, Queue!FlagLane, Queue!NotifyAll, Queue!StopProducer, Moves
<1>8. QED
  BY <1>1, <1>2, <1>3, <1>4, <1>5, <1>6, <1>7 DEF Queue!Next, Queue!ConsumerStep

LEMMA SamePlaces ==
  /\ Queue!Waiting = Strand!Waiting /\ Queue!Waiting' = Strand!Waiting'
  /\ Queue!Running = Strand!Running /\ Queue!Posted = Strand!Posted
BY DEF Queue!Waiting, Strand!Waiting, Queue!Running, Strand!Running, Queue!Posted, Strand!Posted

\* Posting to a strand: the message is put, or the strand is gone.
LEMMA PostPutsOrLoses ==
  ASSUME NEW m, Strand!Post(m)
  PROVE  Put(m) \/ UNCHANGED <<queue, ahead>>
BY SameFlows, SamePlaces DEF Strand!Post, Put

LEMMA StrandMoves ==
  ASSUME OrderInv, Strand!Next
  PROVE  Moves
<1>1. ASSUME NEW m \in Msgs, Strand!PostExternal(m) PROVE Moves
  <2>1. /\ Put(m) \/ UNCHANGED <<queue, ahead>>
        /\ m \in External \ Queue!Posted /\ UNCHANGED <<current, pushed, done>>
    BY <1>1, SameFlows, SamePlaces, PostPutsOrLoses DEF Strand!PostExternal
  <2>2. QED
    BY <2>1 DEF Moves, Arrives
<1>2. ASSUME NEW k \in Lanes, Strand!PostFromHandler(k) PROVE Moves
  <2> DEFINE m == Pushes[current[k]][pushed[k] + 1]
  <2>1. Strand!Post(m)
    BY <1>2 DEF Strand!PostFromHandler
  <2>2. Put(m) \/ UNCHANGED <<queue, ahead>>
    BY <2>1, PostPutsOrLoses
  <2>3. PutsNext(k) \/ LosesNext(k)
    BY <1>2, <2>2 DEF Strand!PostFromHandler, PutsNext, LosesNext, HasNext
  <2>4. QED
    BY <2>3 DEF Moves
<1>3. ASSUME NEW k \in Lanes, Strand!Take(k) PROVE Moves
  <2>1. Begins(k)
    BY <1>3 DEF Strand!Take, Strand!StrandIsFree, Begins
  <2>2. QED
    BY <2>1 DEF Moves
<1>4. ASSUME NEW k \in Lanes, Strand!Return(k) PROVE Moves
  <2>1. Finishes(k)
    BY <1>4 DEF Strand!Return, Finishes
  <2>2. QED
    BY <2>1 DEF Moves
<1>5. ASSUME Strand!StopStep PROVE Moves
  BY <1>5 DEF Strand!StopStep, Strand!StopProducer, Strand!End, Strand!Clear, Moves
<1>6. QED
  BY <1>1, <1>2, <1>3, <1>4, <1>5 DEF Strand!Next, Strand!LaneStep

LEMMA SenderIsTheHandler ==
  ASSUME NEW c \in Msgs, NEW i \in 1 .. Len(Pushes[c])
  PROVE  SenderOf(Pushes[c][i]) = c
BY SendersAssumption DEF SenderOf

\* What a handler pushes next has it as its sender and came from no outside.
LEMMA NextHasItsSender ==
  ASSUME OrderInv, NEW k \in Lanes, HasNext(k)
  PROVE  LET m == Pushes[current[k]][pushed[k] + 1]
         IN  /\ m \in Msgs /\ m \notin External
             /\ LaneFor(m) \in Lanes /\ LaneFor(SenderOf(m)) = k
<1> DEFINE c == current[k]
           i == pushed[k] + 1
<1>1. c \in Msgs /\ LaneFor(c) = k /\ pushed[k] \in Nat /\ pushed[k] < Len(Pushes[c])
  BY DEF HasNext, OrderInv, Types, InOnePlace
<1>2. i \in 1 .. Len(Pushes[c]) /\ Pushes[c][i] \in Msgs
  <2>1. Pushes[c] \in Seq(Msgs)
    BY <1>1, LanesAssumption
  <2>2. i \in 1 .. Len(Pushes[c])
    BY <1>1, <2>1
  <2>3. QED
    BY <2>1, <2>2
<1>3. SenderOf(Pushes[c][i]) = c
  BY <1>1, <1>2, SenderIsTheHandler
<1>4. Pushes[c][i] \notin External
  BY <1>1, <1>2 DEF External
<1>5. LaneFor(Pushes[c][i]) \in Lanes
  BY <1>2, LanesAssumption DEF LaneFor
<1>6. QED
  BY <1>1, <1>2, <1>3, <1>4, <1>5

(***************************************************************************)
(* What a stop of the queue backend leaves behind.                         *)
(***************************************************************************)
\* In a queue whose thread is gone is nothing but what was sent backward.
Left(k) ==
    \A i \in Positions(k) :
        /\ queue[k][i] \notin External
        /\ ProducerOf[LaneFor(SenderOf(queue[k][i]))] >= ProducerOf[k]

LEMMA LostIsLeft ==
  /\ Queue!OnlyBackwardLost <=> \A k \in Lanes : consumer[k] = "gone" => Left(k)
  /\ Queue!OnlyBackwardLost' <=> \A k \in Lanes : consumer'[k] = "gone" => Left(k)'
BY SameFlows DEF Queue!OnlyBackwardLost, Left, Positions

\* Who handles a message has not been joined, so no later producer has begun
\* to stop.
LEMMA HandlerIsNotEarlier ==
  ASSUME QueueState, NEW j \in Lanes, consumer[j] = "handling",
         NEW k \in Lanes, consumer[k] = "gone"
  PROVE  ProducerOf[j] >= ProducerOf[k]
<1>1. ProducerOf[k] \in stopped
  BY DEF QueueState
<1>2. ProducerOf[j] \in Producers /\ ProducerOf[j] \in Nat /\ ProducerOf[k] \in Nat
  BY LanesAssumption
<1>3. SUFFICES ASSUME ProducerOf[j] < ProducerOf[k] PROVE FALSE
  BY <1>2
<1>4. Queue!Joined(ProducerOf[j])
  BY <1>1, <1>2, <1>3 DEF QueueState
<1>5. QED
  BY <1>4 DEF Queue!Joined

\* A message put in the queue of a thread that is gone.
LEMMA PutKeepsLeft ==
  ASSUME OrderInv, NEW k \in Lanes, Left(k), NEW m \in Msgs, Put(m),
         LaneFor(m) = k => m \notin External /\ ProducerOf[LaneFor(SenderOf(m))] >= ProducerOf[k]
  PROVE  Left(k)'
<1>1. LaneFor(m) \in Lanes /\ queue \in [Lanes -> Seq(Msgs)]
  BY LanesAssumption DEF LaneFor, OrderInv, Types
<1>2. CASE k # LaneFor(m)
  <2>1. queue'[k] = queue[k]
    BY <1>1, <1>2 DEF Put
  <2>2. QED
    BY <2>1 DEF Left, Positions
<1>3. CASE k = LaneFor(m)
  <2>1. queue[k] \in Seq(Msgs) /\ queue'[k] = Append(queue[k], m)
    BY <1>1, <1>3 DEF Put
  <2>2. Len(queue[k]) \in Nat /\ Len(queue'[k]) = Len(queue[k]) + 1
    BY <2>1
  <2> SUFFICES ASSUME NEW i \in 1 .. Len(queue'[k])
               PROVE  /\ queue'[k][i] \notin External
                      /\ ProducerOf[LaneFor(SenderOf(queue'[k][i]))] >= ProducerOf[k]
    BY DEF Left, Positions
  <2>3. CASE i = Len(queue[k]) + 1
    <3>1. queue'[k][i] = m
      BY <2>1, <2>3
    <3>2. QED
      BY <1>3, <3>1
  <2>4. CASE i # Len(queue[k]) + 1
    <3>1. i \in 1 .. Len(queue[k])
      BY <2>2, <2>4
    <3>2. queue'[k][i] = queue[k][i]
      BY <2>1, <3>1
    <3>3. QED
      BY <3>1, <3>2 DEF Left, Positions
  <2>5. QED
    BY <2>3, <2>4
<1>4. QED
  BY <1>2, <1>3

\* Every step of the queue backend keeps its order of stopping, and leaves
\* only what was sent backward.
LEMMA QueueStep ==
  ASSUME OrderInv, QueueState, Queue!OnlyBackwardLost, Queue!Next, UNCHANGED ended
  PROVE  QueueState' /\ Queue!OnlyBackwardLost'
<1> DEFINE Gone(k) == consumer[k] = "gone"
<1>0. \A k \in Lanes : Gone(k) => Left(k)
  BY LostIsLeft
<1> SUFFICES QueueState' /\ \A k \in Lanes : Gone(k)' => Left(k)'
  BY LostIsLeft
<1>1. ASSUME NEW m \in Msgs, Queue!PostExternal(m)
      PROVE  QueueState' /\ \A k \in Lanes : Gone(k)' => Left(k)'
  <2>1. stopped = {} /\ UNCHANGED <<consumer, current, stopping, stopped>>
    BY <1>1 DEF Queue!PostExternal
  <2>2. \A k \in Lanes : ~Gone(k)
    BY <2>1 DEF QueueState
  <2>3. QED
    BY <2>1, <2>2 DEF QueueState, Queue!Joined
<1>2. ASSUME NEW m \in Msgs, Queue!NotifyOne(m)
      PROVE  QueueState' /\ \A k \in Lanes : Gone(k)' => Left(k)'
  <2>1. /\ consumer' \in [Lanes -> {"awake", "asleep", "handling", "gone"}]
        /\ \A k \in Lanes : Gone(k)' <=> Gone(k)
        /\ \A k \in Lanes : consumer'[k] = "handling" <=> consumer[k] = "handling"
        /\ UNCHANGED <<queue, current, stopping, stopped>>
    BY <1>2 DEF Queue!NotifyOne, Queue!Wake, QueueState
  <2>2. QED
    BY <1>0, <2>1 DEF QueueState, Left, Positions, Queue!Joined
<1>3. ASSUME NEW j \in Lanes, Queue!PostFromHandler(j)
      PROVE  QueueState' /\ \A k \in Lanes : Gone(k)' => Left(k)'
  <2> DEFINE m == Pushes[current[j]][pushed[j] + 1]
  <2>1. /\ consumer[j] = "handling" /\ HasNext(j) /\ Put(m)
        /\ UNCHANGED <<consumer, current, stopping, stopped>>
    BY <1>3, HandlerPuts DEF QueueState, PutsNext
  <2>2. m \in Msgs /\ m \notin External /\ LaneFor(SenderOf(m)) = j
    BY <2>1, NextHasItsSender
  <2> HIDE DEF m
  <2>3. ASSUME NEW k \in Lanes, Gone(k) PROVE Left(k)'
    <3>1. ProducerOf[j] >= ProducerOf[k]
      BY <2>1, <2>3, HandlerIsNotEarlier
    <3>2. QED
      BY <1>0, <2>1, <2>2, <2>3, <3>1, PutKeepsLeft
  <2>4. QED
    BY <2>1, <2>3 DEF QueueState, Queue!Joined
<1>4. ASSUME NEW j \in Lanes, Queue!Sleep(j) \/ Queue!Return(j)
      PROVE  QueueState' /\ \A k \in Lanes : Gone(k)' => Left(k)'
  <2>1. /\ consumer' \in [Lanes -> {"awake", "asleep", "handling", "gone"}]
        /\ \A k \in Lanes : Gone(k)' <=> Gone(k)
        /\ UNCHANGED <<queue, stopping, stopped>>
    BY <1>4 DEF Queue!Sleep, Queue!Return, Queue!HandlerGoesOn, QueueState
  <2>2. \A k \in Lanes : consumer'[k] = "handling" <=> current'[k] # NoMsg
    BY <1>4 DEF Queue!Sleep, Queue!Return, Queue!HandlerGoesOn, QueueState, OrderInv, Types
  <2>3. QED
    BY <1>0, <2>1, <2>2 DEF QueueState, Left, Positions, Queue!Joined
<1>5. ASSUME NEW j \in Lanes, Queue!Leave(j)
      PROVE  QueueState' /\ \A k \in Lanes : Gone(k)' => Left(k)'
  <2>1. /\ queue[j] = <<>> /\ j \in stopping
        /\ consumer' \in [Lanes -> {"awake", "asleep", "handling", "gone"}]
        /\ \A k \in Lanes : Gone(k)' <=> Gone(k) \/ k = j
        /\ \A k \in Lanes : consumer'[k] = "handling" <=> consumer[k] = "handling"
        /\ UNCHANGED <<queue, current, stopping, stopped>>
    BY <1>5 DEF Queue!Leave, Queue!MayWake, Queue!Exits, QueueState
  <2>2. Left(j)
    BY <2>1 DEF Left, Positions
  <2>3. QED
    BY <1>0, <2>1, <2>2 DEF QueueState, Left, Positions, Queue!Joined
<1>6. ASSUME NEW j \in Lanes, Queue!Take(j)
      PROVE  QueueState' /\ \A k \in Lanes : Gone(k)' => Left(k)'
  <2>1. /\ consumer[j] = "awake" /\ queue[j] # <<>> /\ queue[j] \in Seq(Msgs)
        /\ consumer' = [consumer EXCEPT ![j] = "handling"]
        /\ current' = [current EXCEPT ![j] = Head(queue[j])]
        /\ UNCHANGED <<stopping, stopped>>
    BY <1>6 DEF Queue!Take, Queue!Exits, OrderInv, Types
  <2>2. Head(queue[j]) # NoMsg
    <3>1. Head(queue[j]) \in Msgs
      BY <2>1
    <3>2. QED
      BY <3>1, LanesAssumption
  <2>3. /\ consumer' \in [Lanes -> {"awake", "asleep", "handling", "gone"}]
        /\ \A k \in Lanes : Gone(k)' <=> Gone(k)
        /\ \A k \in Lanes : consumer'[k] = "handling" <=> current'[k] # NoMsg
    BY <2>1, <2>2 DEF QueueState, OrderInv, Types
  <2>4. ASSUME NEW k \in Lanes, Gone(k)' PROVE Left(k)'
    <3>1. k # j /\ queue'[k] = queue[k]
      BY <1>6, <2>1, <2>3, <2>4 DEF Queue!Take, OrderInv, Types
    <3>2. QED
      BY <1>0, <2>3, <2>4, <3>1 DEF Left, Positions
  <2>5. QED
    BY <2>1, <2>3, <2>4 DEF QueueState, Queue!Joined
<1>7. ASSUME NEW j \in Lanes, Queue!FlagLane(j) \/ Queue!NotifyAll(j)
      PROVE  QueueState' /\ \A k \in Lanes : Gone(k)' => Left(k)'
  <2>1. /\ consumer' \in [Lanes -> {"awake", "asleep", "handling", "gone"}]
        /\ \A k \in Lanes : Gone(k)' <=> Gone(k)
        /\ \A k \in Lanes : consumer'[k] = "handling" <=> consumer[k] = "handling"
        /\ UNCHANGED <<queue, current, stopped>>
    BY <1>7 DEF Queue!FlagLane, Queue!NotifyAll, Queue!Wake, QueueState
  <2>2. /\ stopping' = stopping \/ stopping' = stopping \cup {j}
        /\ j \in stopping' => ProducerOf[j] \in stopped
    BY <1>7 DEF Queue!FlagLane, Queue!NotifyAll, QueueState
  <2>3. /\ stopping \subseteq stopping' /\ stopping' \in SUBSET Lanes
        /\ \A k \in stopping' : ProducerOf[k] \in stopped
    BY <2>2 DEF QueueState
  <2>4. QED
    BY <1>0, <2>1, <2>3 DEF QueueState, Left, Positions, Queue!Joined
<1>8. ASSUME NEW p \in Producers, Queue!StopProducer(p)
      PROVE  QueueState' /\ \A k \in Lanes : Gone(k)' => Left(k)'
  <2>1. /\ stopped' = stopped \cup {p} /\ UNCHANGED <<queue, consumer, current, stopping>>
        /\ \A q \in Producers : q < p => q \in stopped /\ Queue!Joined(q)
    BY <1>8 DEF Queue!StopProducer
  <2>2. QED
    BY <1>0, <2>1 DEF QueueState, Left, Positions, Queue!Joined
<1>9. QED
  BY <1>1, <1>2, <1>3, <1>4, <1>5, <1>6, <1>7, <1>8
     DEF Queue!Next, Queue!ConsumerStep, Queue!StopStep

(***************************************************************************)
(* What a stop of the strand backend leaves behind.                        *)
(***************************************************************************)
\* Message m was sent backward, or its producer has not ended.
SentBackward(m) ==
    ProducerOf[LaneFor(m)] \in ended =>
        m \notin External /\ ProducerOf[LaneFor(SenderOf(m))] > ProducerOf[LaneFor(m)]

LEMMA LostIsSentBackward ==
  ASSUME OrderInv, StrandState
  PROVE  Strand!OnlyBackwardLost <=> \A m \in Queue!Waiting \cup stray : SentBackward(m)
<1>1. Queue!Waiting \subseteq Msgs
  BY DEF Queue!Waiting, OrderInv, Types
<1>2. stray \subseteq Msgs
  BY DEF StrandState
<1>3. QED
  BY <1>1, <1>2, SameFlows, SamePlaces DEF Strand!OnlyBackwardLost, SentBackward

\* What a step puts in the queues.
LEMMA WaitingAfter ==
  ASSUME OrderInv
  PROVE  /\ \A m \in Msgs : Put(m) => Queue!Waiting' \subseteq Queue!Waiting \cup {m}
         /\ \A k \in Lanes : Begins(k) => Queue!Waiting' \subseteq Queue!Waiting
         /\ UNCHANGED queue => Queue!Waiting' = Queue!Waiting
<1>1. queue \in [Lanes -> Seq(Msgs)]
  BY DEF OrderInv, Types
<1>2. \A x : x \in Queue!Waiting <=> \E k \in Lanes : \E i \in 1 .. Len(queue[k]) : queue[k][i] = x
  BY WaitingIsQueued DEF Queue!Waiting
<1>3. \A x : x \in Queue!Waiting' <=>
          \E k \in Lanes : \E i \in 1 .. Len(queue'[k]) : queue'[k][i] = x
  BY WaitingIsQueued DEF Queue!Waiting
<1>4. ASSUME NEW m \in Msgs, Put(m), NEW x \in Queue!Waiting'
      PROVE  x \in Queue!Waiting \cup {m}
  <2>0. PICK k \in Lanes : \E i \in 1 .. Len(queue'[k]) : queue'[k][i] = x
    BY <1>3, <1>4
  <2>1. PICK i \in 1 .. Len(queue'[k]) : queue'[k][i] = x
    BY <2>0
  <2>2. CASE k # LaneFor(m)
    <3>1. queue'[k] = queue[k]
      BY <1>1, <1>4, <2>2 DEF Put
    <3>2. QED
      BY <1>2, <2>1, <3>1
  <2>3. CASE k = LaneFor(m)
    <3>1. queue[k] \in Seq(Msgs) /\ queue'[k] = Append(queue[k], m)
      BY <1>1, <1>4, <2>3 DEF Put
    <3>2. \/ i = Len(queue[k]) + 1 /\ queue'[k][i] = m
          \/ i \in 1 .. Len(queue[k]) /\ queue'[k][i] = queue[k][i]
      BY <2>1, <3>1
    <3>3. QED
      BY <1>2, <2>1, <3>2
  <2>4. QED
    BY <2>2, <2>3
<1>5. ASSUME NEW k \in Lanes, Begins(k), NEW x \in Queue!Waiting' PROVE x \in Queue!Waiting
  <2>0. PICK j \in Lanes : \E i \in 1 .. Len(queue'[j]) : queue'[j][i] = x
    BY <1>3, <1>5
  <2>1. PICK i \in 1 .. Len(queue'[j]) : queue'[j][i] = x
    BY <2>0
  <2>2. CASE j # k
    <3>1. queue'[j] = queue[j]
      BY <1>1, <1>5, <2>2 DEF Begins
    <3>2. QED
      BY <1>2, <2>1, <3>1
  <2>3. CASE j = k
    <3>1. queue[k] \in Seq(Msgs) /\ queue[k] # <<>> /\ queue'[k] = Tail(queue[k])
      BY <1>1, <1>5 DEF Begins
    <3>2. Len(queue[k]) \in Nat /\ Len(queue'[k]) = Len(queue[k]) - 1
      BY <3>1
    <3>3. i + 1 \in 1 .. Len(queue[k]) /\ queue'[k][i] = queue[k][i + 1]
      BY <2>1, <2>3, <3>1, <3>2
    <3>4. QED
      BY <1>2, <2>1, <2>3, <3>3
  <2>4. QED
    BY <2>2, <2>3
<1>6. UNCHANGED queue => Queue!Waiting' = Queue!Waiting
  BY DEF Queue!Waiting
<1>7. QED
  BY <1>4, <1>5, <1>6

\* Posting to a strand puts the message in its queue or nowhere, and marks it
\* as stray only if the threads of its producer have been joined.
LEMMA PostIsBackward ==
  ASSUME OrderInv, StrandState, NEW m \in Msgs, Strand!Post(m), SentBackward(m)
  PROVE  /\ \A n \in Queue!Waiting' \cup stray' : n \in Queue!Waiting \cup stray \/ n = m
         /\ \A n \in stray' : n \in Msgs /\ ProducerOf[LaneFor(n)] \in ended
<1>1. Put(m) \/ UNCHANGED queue
  BY PostPutsOrLoses
<1>2. Queue!Waiting' \subseteq Queue!Waiting \cup {m}
  BY <1>1, WaitingAfter
<1>3. stray' = stray \/ (stray' = stray \cup {m} /\ ProducerOf[LaneFor(m)] \in ended)
  BY SameFlows DEF Strand!Post
<1>4. QED
  BY <1>2, <1>3 DEF StrandState

\* Every step of the strand backend keeps its order of stopping, and loses
\* only what was sent backward.
LEMMA StrandStep ==
  ASSUME OrderInv, OrderInv', StrandState, Strand!OnlyBackwardLost, Strand!Next, UNCHANGED consumer
  PROVE  StrandState' /\ Strand!OnlyBackwardLost'
<1> DEFINE Kept == \A m \in Queue!Waiting \cup stray : SentBackward(m)
<1>0. Kept
  BY LostIsSentBackward
<1> SUFFICES StrandState' /\ Kept'
  <2>1. StrandState' => (Strand!OnlyBackwardLost' <=> Kept')
    <3>1. ASSUME StrandState' PROVE Queue!Waiting' \subseteq Msgs /\ stray' \subseteq Msgs
      BY <3>1 DEF Queue!Waiting, OrderInv, Types, StrandState
    <3>2. QED
      BY <3>1, SameFlows, SamePlaces DEF Strand!OnlyBackwardLost, SentBackward
  <2>2. QED
    BY <2>1
<1>1. ASSUME NEW m \in Msgs, Strand!PostExternal(m) PROVE StrandState' /\ Kept'
  <2>1. /\ stopped = {} /\ Strand!Post(m)
        /\ UNCHANGED <<current, stopped, ended, cleared>>
    BY <1>1 DEF Strand!PostExternal
  <2>2. ended = {}
    BY <2>1 DEF StrandState
  <2>3. \A n : SentBackward(n) /\ SentBackward(n)'
    BY <2>1, <2>2 DEF SentBackward
  <2>4. \A n \in stray' : n \in Msgs /\ ProducerOf[LaneFor(n)] \in ended
    BY <2>1, <2>3, PostIsBackward
  <2>5. QED
    BY <2>1, <2>3, <2>4 DEF StrandState
<1>2. ASSUME NEW k \in Lanes, Strand!PostFromHandler(k) PROVE StrandState' /\ Kept'
  <2> DEFINE m == Pushes[current[k]][pushed[k] + 1]
  <2>1. /\ HasNext(k) /\ Strand!Post(m)
        /\ UNCHANGED <<current, stopped, ended, cleared>>
    BY <1>2 DEF Strand!PostFromHandler, HasNext
  <2>2. m \in Msgs /\ m \notin External /\ LaneFor(m) \in Lanes /\ LaneFor(SenderOf(m)) = k
    BY <2>1, NextHasItsSender
  <2> HIDE DEF m
  <2>3. SentBackward(m)
    <3>1. SUFFICES ASSUME ProducerOf[LaneFor(m)] \in ended
                   PROVE  ProducerOf[k] > ProducerOf[LaneFor(m)]
      BY <2>2 DEF SentBackward
    <3>2. ProducerOf[k] \notin ended
      BY <2>1 DEF StrandState, HasNext
    <3>3. ProducerOf[LaneFor(m)] \in stopped /\ ProducerOf[k] \notin cleared
      BY <3>1, <3>2 DEF StrandState
    <3>4. ProducerOf[k] \in Producers /\ ProducerOf[k] \in Nat /\ ProducerOf[LaneFor(m)] \in Nat
      BY <2>2, LanesAssumption
    <3>5. ~(ProducerOf[k] < ProducerOf[LaneFor(m)])
      BY <3>3, <3>4 DEF StrandState
    <3>6. ProducerOf[k] # ProducerOf[LaneFor(m)]
      BY <3>1, <3>2
    <3>7. QED
      BY <3>4, <3>5, <3>6
  <2>4. /\ \A n \in Queue!Waiting' \cup stray' : n \in Queue!Waiting \cup stray \/ n = m
        /\ \A n \in stray' : n \in Msgs /\ ProducerOf[LaneFor(n)] \in ended
    BY <2>1, <2>2, <2>3, PostIsBackward
  <2>5. \A n : SentBackward(n)' <=> SentBackward(n)
    BY <2>1 DEF SentBackward
  <2>6. QED
    BY <1>0, <2>1, <2>3, <2>4, <2>5 DEF StrandState
<1>3. ASSUME NEW k \in Lanes, Strand!Take(k) PROVE StrandState' /\ Kept'
  <2>1. /\ Begins(k) /\ ProducerOf[k] \notin ended
        /\ UNCHANGED <<stopped, ended, cleared, stray>>
    BY <1>3 DEF Strand!Take, Strand!StrandIsFree, Begins
  <2>2. \A j \in Lanes : j # k => current'[j] = current[j]
    BY <2>1 DEF Begins, OrderInv, Types
  <2>3. Queue!Waiting' \subseteq Queue!Waiting
    BY <2>1, WaitingAfter
  <2>4. QED
    BY <1>0, <2>1, <2>2, <2>3 DEF StrandState, SentBackward
<1>4. ASSUME NEW k \in Lanes, Strand!Return(k) PROVE StrandState' /\ Kept'
  <2>1. /\ UNCHANGED <<queue, stopped, ended, cleared, stray>>
        /\ \A j \in Lanes : current'[j] = current[j] \/ current'[j] = NoMsg
    BY <1>4 DEF Strand!Return, OrderInv, Types
  <2>2. Queue!Waiting' = Queue!Waiting
    BY <2>1, WaitingAfter
  <2>3. QED
    BY <1>0, <2>1, <2>2 DEF StrandState, SentBackward
<1>5. ASSUME NEW p \in Producers, Strand!StopProducer(p) PROVE StrandState' /\ Kept'
  <2>1. /\ stopped' = stopped \cup {p} /\ \A q \in Producers : q < p => q \in cleared
        /\ UNCHANGED <<queue, current, ended, cleared, stray>>
    BY <1>5 DEF Strand!StopProducer
  <2>2. Queue!Waiting' = Queue!Waiting
    BY <2>1, WaitingAfter
  <2>3. QED
    BY <1>0, <2>1, <2>2 DEF StrandState, SentBackward
<1>6. ASSUME NEW p \in Producers, Strand!End(p) PROVE StrandState' /\ Kept'
  <2>1. /\ p \in stopped \ ended /\ ended' = ended \cup {p}
        /\ \A k \in Lanes : ProducerOf[k] = p => current[k] = NoMsg /\ queue[k] = <<>>
        /\ UNCHANGED <<queue, current, stopped, cleared, stray>>
    BY <1>6 DEF Strand!End, Strand!OutOfWork
  <2>2. Queue!Waiting' = Queue!Waiting
    BY <2>1, WaitingAfter
  <2>3. ASSUME NEW m \in Queue!Waiting PROVE ProducerOf[LaneFor(m)] # p
    <3>0. PICK k \in Lanes : \E i \in Positions(k) : queue[k][i] = m
      BY <2>3, WaitingIsQueued DEF Queue!Waiting, Positions
    <3>1. PICK i \in Positions(k) : queue[k][i] = m
      BY <3>0
    <3>2. LaneFor(m) = k /\ queue[k] # <<>>
      BY <3>1 DEF OrderInv, InOnePlace, Positions
    <3>3. QED
      BY <2>1, <3>2
  <2>4. \A m \in stray : ProducerOf[LaneFor(m)] # p
    BY <2>1 DEF StrandState
  <2>5. Kept'
    BY <1>0, <2>1, <2>2, <2>3, <2>4 DEF SentBackward
  <2>6. QED
    BY <2>1, <2>5 DEF StrandState
<1>7. ASSUME NEW p \in Producers, Strand!Clear(p) PROVE StrandState' /\ Kept'
  <2>1. /\ p \in ended /\ cleared' = cleared \cup {p}
        /\ UNCHANGED <<queue, current, stopped, ended, stray>>
    BY <1>7 DEF Strand!Clear
  <2>2. Queue!Waiting' = Queue!Waiting
    BY <2>1, WaitingAfter
  <2>3. QED
    BY <1>0, <2>1, <2>2 DEF StrandState, SentBackward
<1>8. QED
  BY <1>1, <1>2, <1>3, <1>4, <1>5, <1>6, <1>7 DEF Strand!Next, Strand!LaneStep, Strand!StopStep

(***************************************************************************)
(* Both.                                                                   *)
(***************************************************************************)
LEMMA InitLaneInv == Init => LaneInv /\ Queue!Abstract!Init
<1> SUFFICES ASSUME Init PROVE LaneInv /\ Queue!Abstract!Init
  OBVIOUS
<1>1. OrderInv /\ Queue!Abstract!Init
  BY InitOrderInv
<1>2. /\ queue = [k \in Lanes |-> <<>>] /\ current = [k \in Lanes |-> NoMsg]
      /\ consumer = [k \in Lanes |-> "awake"]
      /\ stopping = {} /\ stopped = {} /\ ended = {} /\ cleared = {} /\ stray = {}
      /\ backend \in {"queue", "strand"}
  BY DEF Init, Queue!Init, Strand!Init
<1>3. QueueState
  BY <1>2 DEF QueueState
<1>4. StrandState
  BY <1>2 DEF StrandState
<1>5. OnlyBackwardLost
  BY <1>2 DEF OnlyBackwardLost, Queue!OnlyBackwardLost, Strand!OnlyBackwardLost
<1>6. QED
  BY <1>1, <1>2, <1>3, <1>4, <1>5 DEF LaneInv

\* A backend that is not in use has nobody gone and nothing ended.
LEMMA OtherLosesNothing ==
  /\ QueueState => Strand!OnlyBackwardLost
  /\ QueueState' => Strand!OnlyBackwardLost'
  /\ StrandState => Queue!OnlyBackwardLost
  /\ StrandState' => Queue!OnlyBackwardLost'
BY DEF QueueState, StrandState, Queue!OnlyBackwardLost, Strand!OnlyBackwardLost

LEMMA StepLaneInv ==
  ASSUME LaneInv, [Next]_vars
  PROVE  LaneInv' /\ [Queue!Abstract!Next]_(Queue!Abstract!vars)
<1>1. OrderInv
  BY DEF LaneInv
<1>2. CASE OnQueue(Queue!Next)
  <2>1. backend = "queue" /\ Queue!Next /\ UNCHANGED <<backend, ended>> /\ QueueState
    BY <1>2 DEF OnQueue, strandOnly, LaneInv
  <2>2. OrderInv' /\ [Queue!Abstract!Next]_(Queue!Abstract!vars)
    BY <1>1, <2>1, QueueMoves, MovesStep
  <2>3. QueueState' /\ Queue!OnlyBackwardLost'
    BY <1>1, <2>1, QueueStep DEF LaneInv, OnlyBackwardLost
  <2>4. QED
    BY <2>1, <2>2, <2>3, OtherLosesNothing DEF LaneInv, OnlyBackwardLost
<1>3. CASE OnStrand(Strand!Next)
  <2>1. backend = "strand" /\ Strand!Next /\ UNCHANGED <<backend, consumer>> /\ StrandState
    BY <1>3 DEF OnStrand, queueOnly, LaneInv
  <2>2. OrderInv' /\ [Queue!Abstract!Next]_(Queue!Abstract!vars)
    BY <1>1, <2>1, StrandMoves, MovesStep
  <2>3. StrandState' /\ Strand!OnlyBackwardLost'
    BY <1>1, <2>1, <2>2, StrandStep DEF LaneInv, OnlyBackwardLost
  <2>4. QED
    BY <2>1, <2>2, <2>3, OtherLosesNothing DEF LaneInv, OnlyBackwardLost
<1>4. CASE UNCHANGED vars
  <2>1. UNCHANGED <<backend, queue, current, pushed, stopped, done, ahead>>
        /\ UNCHANGED <<consumer, stopping, ended, cleared, stray>>
    BY <1>4 DEF vars, shared, queueOnly, strandOnly
  <2>2. OrderInv' /\ [Queue!Abstract!Next]_(Queue!Abstract!vars)
    BY <1>1, <2>1, QuietStep
  <2>3. (QueueState => QueueState') /\ (StrandState => StrandState')
    BY <2>1 DEF QueueState, StrandState, Queue!Joined
  <2>4. OnlyBackwardLost'
    BY <2>1 DEF LaneInv, OnlyBackwardLost, Queue!OnlyBackwardLost, Strand!OnlyBackwardLost,
                Strand!Waiting
  <2>5. QED
    BY <2>1, <2>2, <2>3, <2>4 DEF LaneInv
<1>5. QED
  BY <1>2, <1>3, <1>4 DEF Next

\* Every message is in one place, in the order of its owner, and producers
\* are stopped and joined in their order: the invariant of both backends
\* (QueueLaneSet, StrandLaneSet, ProducerHolder::Stop).
THEOREM EveryMessageInOnePlace == Spec => []LaneInv
<1>1. Init => LaneInv
  BY InitLaneInv
<1>2. LaneInv /\ [Next]_vars => LaneInv'
  BY StepLaneInv
<1>3. QED
  BY <1>1, <1>2, PTL DEF Spec

\* Messages of one owner are handled in the order they were posted and one at
\* a time, on either backend, whatever the lanes, the handlers and a stop do
\* meanwhile: both lane sets implement the promise of MessageProcessor.
THEOREM BothKeepOwnersInOrder == Spec => OwnersInOrder
<1>1. Init => LaneInv /\ Queue!Abstract!Init
  BY InitLaneInv
<1>2. LaneInv /\ [Next]_vars => LaneInv' /\ [Queue!Abstract!Next]_(Queue!Abstract!vars)
  BY StepLaneInv
<1>3. QED
  BY <1>1, <1>2, PTL DEF Spec, OwnersInOrder, Queue!OwnersInOrder, Queue!Abstract!Spec

\* A stop drains: on queues a message stays behind only if its sender runs on
\* the same producer or on one that is stopped later, on strands only if on
\* one that is stopped later (ProducerHolder::Stop over either lane set).
THEOREM StopsLoseOnlyBackward == Spec => []OnlyBackwardLost
<1>1. LaneInv => OnlyBackwardLost
  BY DEF LaneInv
<1>2. QED
  BY <1>1, EveryMessageInOnePlace, PTL
=============================================================================
