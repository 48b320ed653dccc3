--------------------------- MODULE UniqueIdsProofs ---------------------------
(***************************************************************************)
(* Proofs about UniqueIds, for every set of processes and threads, every   *)
(* width of the fields and every behaviour of the clocks.  The argument:   *)
(* what a thread is about to store is later than what it loaded, so a swap *)
(* that finds the word unchanged raises it, and as long as the clock is    *)
(* past what earlier lives stamped, the word is past all of it.            *)
(***************************************************************************)
EXTENDS UniqueIds, SequenceTheorems, TLAPS

Before(s, r) == s.ms < r.ms \/ (s.ms = r.ms /\ s.sequence < r.sequence)

AtMost(s, r) == s = r \/ Before(s, r)

\* The ids of a process so far, and what its threads are about to store.
Ordered(p) ==
    \A i, j \in 1 .. Len(ids[p]) : i < j => Before(ids[p][i], ids[p][j])

Remembered(p) ==
    \A i \in 1 .. Len(ids[p]) : ids[p][i].ms <= floor[p] \/ AtMost(ids[p][i], last[p])

Raising(t) ==
    pc[t] = "swap" =>
        /\ Before(observed[t], desired[t])
        /\ ~behind[ProcessOf[t]] => floor[ProcessOf[t]] < desired[t].ms

Numbered(p) == ids[p] # <<>> => NodeOf(p) \in 0 .. NodeMask

IdsInv ==
    /\ TypeOK
    /\ \A p \in Processes : ~behind[p] => Ordered(p) /\ (Up(p) => Remembered(p))
    /\ \A t \in Threads : Raising(t)
    /\ \A p \in Processes : Numbered(p)

-----------------------------------------------------------------------------
\* A place-value number is a natural.
LEMMA PlacesAreNat ==
  ASSUME NEW a \in Nat, NEW k \in Nat, NEW s \in 0 .. k
  PROVE  a * (k + 1) \in Nat /\ a * (k + 1) + s \in Nat
<1>1. a * (k + 1) \in Nat
  OBVIOUS
<1>2. QED
  BY <1>1

\* A digit of a higher place weighs more than all lower places together.
LEMMA HigherPlace ==
  ASSUME NEW a \in Nat, NEW b \in Nat, a < b,
         NEW k \in Nat, NEW s \in 0 .. k, NEW r \in 0 .. k
  PROVE  a * (k + 1) + s < b * (k + 1) + r
<1>1. PICK d \in Nat : b = a + 1 + d
  <2>1. b - a - 1 \in Nat /\ b = a + 1 + (b - a - 1)
    OBVIOUS
  <2>2. QED
    BY <2>1
<1>2. b * (k + 1) = a * (k + 1) + (k + 1) + d * (k + 1)
  BY <1>1
<1>3. d * (k + 1) \in Nat /\ a * (k + 1) \in Nat
  OBVIOUS
<1>4. QED
  BY <1>2, <1>3

\* A later stamp of the same node makes a greater id.
LEMMA LaterIsGreater ==
  ASSUME NEW s \in Stamps, NEW r \in Stamps, NEW n \in 0 .. NodeMask, Before(s, r)
  PROVE  Assemble(s, n) < Assemble(r, n)
<1>1. /\ s.ms \in Nat /\ r.ms \in Nat
      /\ s.sequence \in 0 .. SequenceMask /\ r.sequence \in 0 .. SequenceMask
  BY UniqueIdsAssumption DEF Stamps
<1>2. CASE s.ms < r.ms
  <2> DEFINE a == s.ms * (NodeMask + 1) + n
             b == r.ms * (NodeMask + 1) + n
  <2>1. a < b
    BY <1>1, <1>2, HigherPlace, UniqueIdsAssumption
  <2>2. a \in Nat /\ b \in Nat
    BY <1>1, PlacesAreNat, UniqueIdsAssumption
  <2>3. a * (SequenceMask + 1) + s.sequence < b * (SequenceMask + 1) + r.sequence
    BY <1>1, <2>1, <2>2, HigherPlace, UniqueIdsAssumption
  <2>4. QED
    BY <2>3 DEF Assemble
<1>3. CASE s.ms = r.ms /\ s.sequence < r.sequence
  <2> DEFINE a == (s.ms * (NodeMask + 1) + n) * (SequenceMask + 1)
  <2>1. a \in Nat
    <3>1. s.ms * (NodeMask + 1) + n \in Nat
      BY <1>1, PlacesAreNat, UniqueIdsAssumption
    <3>2. QED
      BY <3>1, PlacesAreNat, UniqueIdsAssumption
  <2>2. a + s.sequence < a + r.sequence
    BY <1>1, <1>3, <2>1, UniqueIdsAssumption
  <2>3. QED
    BY <1>3, <2>2 DEF Assemble
<1>4. QED
  BY <1>2, <1>3 DEF Before

\* Different nodes make different ids.
LEMMA NodesDiffer ==
  ASSUME NEW s \in Stamps, NEW r \in Stamps,
         NEW n \in 0 .. NodeMask, NEW m \in 0 .. NodeMask, n # m
  PROVE  Assemble(s, n) # Assemble(r, m)
<1> DEFINE a == s.ms * (NodeMask + 1) + n
           b == r.ms * (NodeMask + 1) + m
<1>1. /\ s.ms \in Nat /\ r.ms \in Nat
      /\ s.sequence \in 0 .. SequenceMask /\ r.sequence \in 0 .. SequenceMask
  BY UniqueIdsAssumption DEF Stamps
<1>2. a \in Nat /\ b \in Nat
  BY <1>1, PlacesAreNat, UniqueIdsAssumption
<1>3. a # b
  <2>1. CASE s.ms = r.ms
    <3>1. s.ms * (NodeMask + 1) \in Nat
      BY <1>1, PlacesAreNat, UniqueIdsAssumption
    <3>2. QED
      BY <2>1, <3>1, UniqueIdsAssumption
  <2>2. CASE s.ms < r.ms
    BY <1>1, <2>2, HigherPlace, UniqueIdsAssumption
  <2>3. CASE r.ms < s.ms
    BY <1>1, <2>3, HigherPlace, UniqueIdsAssumption
  <2>4. QED
    BY <1>1, <2>1, <2>2, <2>3
<1>4. CASE a < b
  <2>1. a * (SequenceMask + 1) + s.sequence < b * (SequenceMask + 1) + r.sequence
    BY <1>1, <1>2, <1>4, HigherPlace, UniqueIdsAssumption
  <2>2. /\ a * (SequenceMask + 1) + s.sequence \in Nat
        /\ b * (SequenceMask + 1) + r.sequence \in Nat
    BY <1>1, <1>2, PlacesAreNat, UniqueIdsAssumption
  <2>3. QED
    BY <2>1, <2>2 DEF Assemble
<1>5. CASE b < a
  <2>1. b * (SequenceMask + 1) + r.sequence < a * (SequenceMask + 1) + s.sequence
    BY <1>1, <1>2, <1>5, HigherPlace, UniqueIdsAssumption
  <2>2. /\ a * (SequenceMask + 1) + s.sequence \in Nat
        /\ b * (SequenceMask + 1) + r.sequence \in Nat
    BY <1>1, <1>2, PlacesAreNat, UniqueIdsAssumption
  <2>3. QED
    BY <2>1, <2>2 DEF Assemble
<1>6. QED
  BY <1>2, <1>3, <1>4, <1>5

\* No two processes have the same number.
LEMMA NumbersDiffer ==
  ASSUME NEW p \in Processes, NEW q \in Processes, p # q
  PROVE  NodeOf(p) # NodeOf(q)
<1>1. ASSUME NEW x \in Processes \ {World}
      PROVE  Least(ServedBy[x]) \in Nat \ {0} /\ Least(ServedBy[x]) \in ServedBy[x]
  BY <1>1, UniqueIdsAssumption
<1>2. CASE p = World
  BY <1>1, <1>2, UniqueIdsAssumption DEF NodeOf
<1>3. CASE q = World
  BY <1>1, <1>3, UniqueIdsAssumption DEF NodeOf
<1>4. CASE p # World /\ q # World
  <2>1. Least(ServedBy[p]) # Least(ServedBy[q])
    BY <1>1, <1>4, UniqueIdsAssumption
  <2>2. QED
    BY <1>1, <1>4, <2>1, UniqueIdsAssumption DEF NodeOf
<1>5. QED
  BY <1>2, <1>3, <1>4

-----------------------------------------------------------------------------
\* What most steps need of the assumption.
LEMMA Sizes ==
  /\ ProcessOf \in [Threads -> Processes]
  /\ NodeMask \in Nat /\ SequenceMask \in Nat /\ TimestampMask \in Nat
  /\ MaxClock \in Nat
  BY UniqueIdsAssumption

LEMMA NoneIsStamp == None \in Stamps
  BY Sizes DEF None, Stamp, Stamps

LEMMA StampFields ==
  ASSUME NEW s \in Stamps
  PROVE  /\ s.ms \in 0 .. TimestampMask /\ s.ms \in Int
         /\ s.sequence \in 0 .. SequenceMask /\ s.sequence \in Int
  BY Sizes DEF Stamps

LEMMA InitIdsInv == Init => IdsInv
  BY Sizes, NoneIsStamp
  DEF Init, IdsInv, TypeOK, Ordered, Remembered, Raising, Numbered, Up, NodeIdReserved

\* A stamp that may be stored fits the word, is later than what was seen and
\* not before the clock.
LEMMA NextStampLater ==
  ASSUME NEW seen \in Stamps, NEW elapsed \in Int, InRange(elapsed),
         NextStamp(seen, elapsed).sequence <= SequenceMask
  PROVE  /\ NextStamp(seen, elapsed) \in Stamps
         /\ Before(seen, NextStamp(seen, elapsed))
         /\ elapsed <= NextStamp(seen, elapsed).ms
<1> USE Sizes
<1>1. /\ seen.ms \in 0 .. TimestampMask /\ seen.sequence \in 0 .. SequenceMask
      /\ elapsed \in 0 .. TimestampMask
  BY StampFields DEF InRange
<1>2. CASE elapsed <= seen.ms
  <2>1. NextStamp(seen, elapsed) = Stamp(seen.ms, seen.sequence + 1)
    BY <1>2 DEF NextStamp
  <2>2. seen.sequence + 1 \in 0 .. SequenceMask
    BY <1>1, <2>1 DEF Stamp
  <2>3. Stamp(seen.ms, seen.sequence + 1) \in Stamps
    BY <1>1, <2>2 DEF Stamp, Stamps
  <2>4. /\ NextStamp(seen, elapsed).ms = seen.ms
        /\ NextStamp(seen, elapsed).sequence = seen.sequence + 1
    BY <2>1 DEF Stamp
  <2>5. QED
    BY <1>1, <1>2, <2>1, <2>3, <2>4 DEF Before
<1>3. CASE ~(elapsed <= seen.ms)
  <2>1. NextStamp(seen, elapsed) = Stamp(elapsed, 0)
    BY <1>3 DEF NextStamp
  <2>2. QED
    BY <1>1, <1>3, <2>1 DEF Stamp, Stamps, Before
<1>4. QED
  BY <1>2, <1>3

LEMMA InitRuidKeeps == ASSUME IdsInv, NEW p \in Processes, InitRuid(p) PROVE IdsInv'
<1> USE DEF IdsInv
<1>1. TypeOK'
  <2>1. NodeOf(p) \in 0 .. NodeMask
    <3>1. NodeOf(p) \in Nat
      BY UniqueIdsAssumption DEF NodeOf
    <3>2. QED
      BY <3>1, Sizes DEF InitRuid
  <2>2. ids[p] # <<>> => ids[p][Len(ids[p])].ms \in 0 .. TimestampMask
    <3>1. ids[p] \in Seq(Stamps)
      BY DEF TypeOK
    <3>2. ids[p] # <<>> => ids[p][Len(ids[p])] \in Stamps
      BY <3>1
    <3>3. QED
      BY <3>2, StampFields
  <2>3. None \in Stamps
    BY NoneIsStamp
  <2>4. floor' \in [Processes -> -1 .. TimestampMask]
    BY <2>2, Sizes DEF TypeOK, InitRuid
  <2>5. node' \in [Processes -> 0 .. NodeMask] /\ \A q \in Processes : Up(q)' => node'[q] = NodeOf(q)
    BY <2>1 DEF TypeOK, InitRuid, Up
  <2>6. last' \in [Processes -> Stamps] /\ lives' \in [Processes -> Nat]
    BY <2>3 DEF TypeOK, InitRuid
  <2>7. \A t \in Threads : pc'[t] # "out" => Up(ProcessOf[t])'
    BY Sizes DEF TypeOK, InitRuid, Up
  <2>8. QED
    BY <2>4, <2>5, <2>6, <2>7 DEF TypeOK, InitRuid
<1>2. ASSUME NEW q \in Processes, ~behind'[q]
      PROVE  Ordered(q)' /\ (Up(q)' => Remembered(q)')
  <2>1. Ordered(q) /\ ids' = ids /\ behind' = behind
    BY <1>2 DEF InitRuid
  <2>2. CASE q = p
    <3>1. ASSUME NEW i \in 1 .. Len(ids[p])
          PROVE  ids[p][i].ms <= ids[p][Len(ids[p])].ms /\ ids[p] # <<>>
      <4>1. ids[p] \in Seq(Stamps)
        BY DEF TypeOK
      <4>2. \A j \in 1 .. Len(ids[p]) : ids[p][j].ms \in Int
        BY <4>1, StampFields
      <4>3. Len(ids[p]) \in Nat
        BY <4>1
      <4>4. CASE i = Len(ids[p])
        BY <4>1, <4>2, <4>4
      <4>5. CASE i < Len(ids[p])
        BY <2>1, <2>2, <4>1, <4>2, <4>3, <4>5 DEF Ordered, Before
      <4>6. QED
        BY <4>3, <4>4, <4>5
    <3>2. floor'[p] = IF ids[p] = <<>> THEN -1 ELSE ids[p][Len(ids[p])].ms
      BY DEF InitRuid, TypeOK
    <3>3. Remembered(q)'
      BY <2>1, <2>2, <3>1, <3>2 DEF Remembered
    <3>4. QED
      BY <2>1, <3>3 DEF Ordered
  <2>3. CASE q # p
    BY <1>2, <2>1, <2>3 DEF InitRuid, TypeOK, Ordered, Remembered, Up, AtMost
  <2>4. QED
    BY <2>2, <2>3
<1>3. ASSUME NEW t \in Threads PROVE Raising(t)'
  <2>1. CASE ProcessOf[t] = p
    BY <2>1 DEF InitRuid, TypeOK, Raising
  <2>2. CASE ProcessOf[t] # p
    BY <2>2, Sizes DEF InitRuid, TypeOK, Raising
  <2>3. QED
    BY <2>1, <2>2
<1>4. \A q \in Processes : Numbered(q)'
  BY DEF InitRuid, Numbered
<1>5. QED
  BY <1>1, <1>2, <1>3, <1>4

LEMMA DownKeeps == ASSUME IdsInv, NEW p \in Processes, Down(p) PROVE IdsInv'
<1> USE DEF IdsInv
<1>1. TypeOK'
  <2>1. None \in Stamps
    BY NoneIsStamp
  <2>2. node' \in [Processes -> 0 .. NodeMask] /\ \A q \in Processes : Up(q)' => node'[q] = NodeOf(q)
    BY Sizes DEF TypeOK, Down, Up, NodeIdReserved
  <2>3. /\ last' \in [Processes -> Stamps] /\ observed' \in [Threads -> Stamps]
        /\ desired' \in [Threads -> Stamps]
        /\ pc' \in [Threads -> {"out", "load", "read", "swap"}]
    BY <2>1 DEF TypeOK, Down
  <2>4. \A t \in Threads : pc'[t] # "out" => Up(ProcessOf[t])'
    BY Sizes DEF TypeOK, Down, Up
  <2>5. QED
    BY <2>2, <2>3, <2>4 DEF TypeOK, Down
<1>2. \A q \in Processes : ~behind'[q] => Ordered(q)' /\ (Up(q)' => Remembered(q)')
  BY DEF Down, TypeOK, Ordered, Remembered, Up, AtMost
<1>3. \A t \in Threads : Raising(t)'
  BY Sizes DEF Down, TypeOK, Raising
<1>4. \A q \in Processes : Numbered(q)'
  BY DEF Down, Numbered
<1>5. QED
  BY <1>1, <1>2, <1>3, <1>4

\* Steps that leave the word and the ids alone.
LEMMA SetClockKeeps == ASSUME IdsInv, NEW p \in Processes, SetClock(p) PROVE IdsInv'
<1>1. TypeOK'
  BY Sizes DEF IdsInv, TypeOK, SetClock, Up
<1>2. QED
  BY <1>1 DEF IdsInv, SetClock, Ordered, Remembered, Raising, Numbered, Up, AtMost

LEMMA ThreadOnlyKeeps ==
  ASSUME IdsInv, NEW t \in Threads, Create(t) \/ Load(t) \/ SwapFails(t)
  PROVE  IdsInv'
<1> USE DEF IdsInv
<1>1. /\ UNCHANGED <<clock, node, last, ids, lives, floor, behind>>
      /\ Up(ProcessOf[t])
      /\ pc' = [pc EXCEPT ![t] = "load"] \/ pc' = [pc EXCEPT ![t] = "read"]
  BY DEF Create, Load, SwapFails, TypeOK
<1>2. /\ observed' \in [Threads -> Stamps] /\ desired' \in [Threads -> Stamps]
      /\ \A u \in Threads : u # t => observed'[u] = observed[u] /\ desired'[u] = desired[u]
  BY Sizes, NoneIsStamp DEF Create, Load, SwapFails, TypeOK
<1>3. TypeOK'
  BY <1>1, <1>2 DEF TypeOK, Up
<1>4. \A q \in Processes : ~behind'[q] => Ordered(q)' /\ (Up(q)' => Remembered(q)')
  BY <1>1 DEF Ordered, Remembered, Up, AtMost
<1>5. ASSUME NEW u \in Threads PROVE Raising(u)'
  BY <1>1, <1>2 DEF TypeOK, Raising
<1>6. \A q \in Processes : Numbered(q)'
  BY <1>1 DEF Numbered
<1>7. QED
  BY <1>3, <1>4, <1>5, <1>6

LEMMA ReadClockKeeps == ASSUME IdsInv, NEW t \in Threads, ReadClock(t) PROVE IdsInv'
<1> USE DEF IdsInv
<1> DEFINE p == ProcessOf[t]
           stamp == NextStamp(observed[t], clock[p])
<1>1. /\ p \in Processes /\ Up(p) /\ clock[p] \in Int /\ floor[p] \in Int
      /\ observed[t] \in Stamps /\ InRange(clock[p])
      /\ stamp.sequence \in Int
  <2>1. pc[t] = "read" /\ InRange(clock[p])
    BY DEF ReadClock
  <2>2. p \in Processes /\ observed[t] \in Stamps /\ Up(p)
    BY <2>1, Sizes DEF TypeOK
  <2>3. clock[p] \in Int /\ floor[p] \in Int
    BY <2>2, Sizes DEF TypeOK
  <2>4. stamp.sequence \in Int
    BY <2>2, StampFields DEF NextStamp, Stamp
  <2>5. QED
    BY <2>1, <2>2, <2>3, <2>4
<1>2. stamp.sequence <= SequenceMask =>
        stamp \in Stamps /\ Before(observed[t], stamp) /\ clock[p] <= stamp.ms
  BY <1>1, NextStampLater
<1>3. \/ /\ stamp.sequence > SequenceMask
         /\ pc' = [pc EXCEPT ![t] = "load"] /\ desired' = desired
      \/ /\ stamp.sequence <= SequenceMask
         /\ pc' = [pc EXCEPT ![t] = "swap"] /\ desired' = [desired EXCEPT ![t] = stamp]
  BY <1>1, Sizes DEF ReadClock
<1>4. /\ behind' = [behind EXCEPT ![p] = @ \/ clock[p] <= floor[p]]
      /\ UNCHANGED <<clock, node, last, observed, ids, lives, floor>>
  BY DEF ReadClock
<1>5. TypeOK'
  BY <1>1, <1>2, <1>3, <1>4 DEF TypeOK, Up
<1>6. \A q \in Processes : ~behind'[q] => ~behind[q]
  BY <1>4 DEF TypeOK
<1>7. \A q \in Processes : ~behind'[q] => Ordered(q)' /\ (Up(q)' => Remembered(q)')
  BY <1>4, <1>6 DEF Ordered, Remembered, Up, AtMost
<1>8. ASSUME NEW u \in Threads PROVE Raising(u)'
  <2>1. CASE u = t
    <3>1. CASE stamp.sequence > SequenceMask
      BY <1>1, <1>3, <2>1, <3>1, Sizes DEF Raising, TypeOK
    <3>2. CASE stamp.sequence <= SequenceMask
      <4>1. desired'[t] = stamp /\ observed'[t] = observed[t]
        BY <1>1, <1>3, <1>4, <3>2, Sizes DEF TypeOK
      <4>2. ~behind'[p] => ~(clock[p] <= floor[p])
        BY <1>1, <1>4 DEF TypeOK
      <4>3. stamp.ms \in Int
        BY <1>2, <3>2, StampFields
      <4>4. ~behind'[p] => floor[p] < stamp.ms
        BY <1>1, <1>2, <3>2, <4>2, <4>3
      <4>5. QED
        BY <1>2, <1>4, <2>1, <3>2, <4>1, <4>4 DEF Raising
    <3>3. QED
      BY <1>1, <3>1, <3>2, Sizes
  <2>2. CASE u # t
    BY <1>3, <1>4, <1>6, <2>2, Sizes DEF TypeOK, Raising
  <2>3. QED
    BY <2>1, <2>2
<1>9. \A q \in Processes : Numbered(q)'
  BY <1>4 DEF Numbered
<1>10. QED
  BY <1>5, <1>7, <1>8, <1>9

LEMMA SwapKeeps == ASSUME IdsInv, NEW t \in Threads, Swap(t) PROVE IdsInv'
<1> USE DEF IdsInv
<1> DEFINE p == ProcessOf[t]
<1>1. /\ p \in Processes /\ Up(p) /\ desired[t] \in Stamps /\ ids[p] \in Seq(Stamps)
      /\ last[p] = observed[t] /\ last[p] \in Stamps /\ floor[p] \in Int
  <2>1. pc[t] = "swap" /\ last[p] = observed[t]
    BY DEF Swap
  <2>2. p \in Processes /\ desired[t] \in Stamps /\ Up(p)
    BY <2>1, Sizes DEF TypeOK
  <2>3. ids[p] \in Seq(Stamps) /\ last[p] \in Stamps /\ floor[p] \in Int
    BY <2>2, Sizes DEF TypeOK
  <2>4. QED
    BY <2>1, <2>2, <2>3
<1>2. /\ Before(last[p], desired[t])
      /\ ~behind[p] => floor[p] < desired[t].ms
  BY <1>1 DEF Raising, Swap
<1>3. /\ last' = [last EXCEPT ![p] = desired[t]]
      /\ ids' = [ids EXCEPT ![p] = Append(@, desired[t])]
      /\ pc' = [pc EXCEPT ![t] = "out"]
      /\ observed' = [observed EXCEPT ![t] = None] /\ desired' = [desired EXCEPT ![t] = None]
      /\ UNCHANGED <<clock, node, lives, floor, behind>>
  BY DEF Swap
<1>4. /\ ids'[p] = Append(ids[p], desired[t]) /\ last'[p] = desired[t]
      /\ ids'[p] \in Seq(Stamps)
      /\ Len(ids'[p]) = Len(ids[p]) + 1 /\ Len(ids[p]) \in Nat
      /\ ids'[p][Len(ids[p]) + 1] = desired[t]
      /\ \A i \in 1 .. Len(ids[p]) : ids'[p][i] = ids[p][i] /\ ids[p][i] \in Stamps
  BY <1>1, <1>3 DEF TypeOK
<1>5. TypeOK'
  <2>1. None \in Stamps
    BY NoneIsStamp
  <2>2. ids' \in [Processes -> Seq(Stamps)]
    BY <1>1, <1>3, <1>4 DEF TypeOK
  <2>3. QED
    BY <1>1, <1>3, <2>1, <2>2 DEF TypeOK, Up
<1>6. ASSUME ~behind[p], NEW i \in 1 .. Len(ids[p])
      PROVE  Before(ids[p][i], desired[t])
  <2>1. ids[p][i].ms <= floor[p] \/ AtMost(ids[p][i], last[p])
    BY <1>1, <1>6 DEF Remembered
  <2>2. /\ ids[p][i].ms \in Int /\ ids[p][i].sequence \in Int
        /\ desired[t].ms \in Int /\ desired[t].sequence \in Int
        /\ last[p].ms \in Int /\ last[p].sequence \in Int
    BY <1>1, <1>4, StampFields
  <2>3. CASE ids[p][i].ms <= floor[p]
    <3>1. floor[p] < desired[t].ms
      BY <1>2, <1>6
    <3>2. QED
      BY <1>1, <2>2, <2>3, <3>1 DEF Before
  <2>4. CASE ids[p][i] = last[p]
    BY <1>2, <2>4
  <2>5. CASE Before(ids[p][i], last[p])
    BY <1>2, <2>2, <2>5 DEF Before
  <2>6. QED
    BY <2>1, <2>3, <2>4, <2>5 DEF AtMost
<1>7. ASSUME NEW q \in Processes, ~behind'[q]
      PROVE  Ordered(q)' /\ (Up(q)' => Remembered(q)')
  <2>1. Ordered(q) /\ ~behind[q]
    BY <1>3, <1>7
  <2>2. CASE q = p
    <3>1. ASSUME NEW i \in 1 .. Len(ids'[p]), NEW j \in 1 .. Len(ids'[p]), i < j
          PROVE  Before(ids'[p][i], ids'[p][j])
      <4>1. CASE j = Len(ids[p]) + 1
        BY <1>4, <1>6, <2>1, <2>2, <3>1, <4>1
      <4>2. CASE j # Len(ids[p]) + 1
        BY <1>4, <2>1, <2>2, <3>1, <4>2 DEF Ordered
      <4>3. QED
        BY <4>1, <4>2
    <3>2. ASSUME NEW i \in 1 .. Len(ids'[p])
          PROVE  AtMost(ids'[p][i], last'[p])
      BY <1>4, <1>6, <2>1, <2>2, <3>2 DEF AtMost
    <3>3. QED
      BY <2>2, <3>1, <3>2 DEF Ordered, Remembered
  <2>3. CASE q # p
    BY <1>3, <2>1, <2>3 DEF TypeOK, Ordered, Remembered, Up, AtMost
  <2>4. QED
    BY <2>2, <2>3
<1>8. ASSUME NEW u \in Threads PROVE Raising(u)'
  BY <1>3 DEF TypeOK, Raising
<1>9. ASSUME NEW q \in Processes PROVE Numbered(q)'
  <2>1. NodeOf(p) \in 0 .. NodeMask
    BY <1>1 DEF TypeOK
  <2>2. QED
    BY <1>3, <2>1 DEF TypeOK, Numbered
<1>10. QED
  BY <1>5, <1>7, <1>8, <1>9

LEMMA StutterKeeps == ASSUME IdsInv, UNCHANGED vars PROVE IdsInv'
  BY DEF IdsInv, TypeOK, vars, Ordered, Remembered, Raising, Numbered, Up, AtMost

LEMMA IdsInvIsInductive == IdsInv /\ [Next]_vars => IdsInv'
<1> SUFFICES ASSUME IdsInv, [Next]_vars PROVE IdsInv'
  OBVIOUS
<1>1. ASSUME NEW p \in Processes, InitRuid(p) PROVE IdsInv'
  BY <1>1, InitRuidKeeps
<1>2. ASSUME NEW p \in Processes, Crash(p) PROVE IdsInv'
  BY <1>2, DownKeeps DEF Crash
<1>3. ASSUME NEW p \in Processes, SetClock(p) PROVE IdsInv'
  BY <1>3, SetClockKeeps
<1>4. ASSUME NEW t \in Threads, Create(t) \/ Load(t) \/ SwapFails(t) PROVE IdsInv'
  BY <1>4, ThreadOnlyKeeps
<1>5. ASSUME NEW t \in Threads, Abort(t) PROVE IdsInv'
  BY <1>5, DownKeeps, Sizes DEF Abort
<1>6. ASSUME NEW t \in Threads, ReadClock(t) PROVE IdsInv'
  BY <1>6, ReadClockKeeps
<1>7. ASSUME NEW t \in Threads, Swap(t) PROVE IdsInv'
  BY <1>7, SwapKeeps
<1>8. QED
  BY <1>1, <1>2, <1>3, <1>4, <1>5, <1>6, <1>7, StutterKeeps DEF Next

LEMMA IdsInvHolds == Spec => []IdsInv
<1>1. Init => IdsInv
  BY InitIdsInv
<1>2. IdsInv /\ [Next]_vars => IdsInv'
  BY IdsInvIsInductive
<1>3. QED
  BY <1>1, <1>2, PTL DEF Spec

\* No stamp ever outgrows its bits, whatever the widths.
THEOREM TypeCorrect == Spec => []TypeOK
<1>1. IdsInv => TypeOK
  BY DEF IdsInv
<1>2. QED
  BY <1>1, IdsInvHolds, PTL

\* RuidGenerator::Next: the ids of a process grow, across threads, clock
\* jumps and restarts, unless a restart lost a floor the clock is not past.
THEOREM IdsAlwaysIncrease == Spec => []IdsIncrease
<1>1. IdsInv => IdsIncrease
  <2> SUFFICES ASSUME IdsInv, NEW p \in Processes, ~behind[p],
                      NEW i \in 1 .. Len(ids[p]), NEW j \in 1 .. Len(ids[p]), i < j
               PROVE  Id(p, i) < Id(p, j)
    BY DEF IdsIncrease
  <2>1. ids[p] \in Seq(Stamps) /\ Numbered(p) /\ Ordered(p)
    BY DEF IdsInv, TypeOK
  <2>2. /\ ids[p][i] \in Stamps /\ ids[p][j] \in Stamps /\ ids[p] # <<>>
        /\ Before(ids[p][i], ids[p][j])
    BY <2>1 DEF Ordered
  <2>3. NodeOf(p) \in 0 .. NodeMask
    BY <2>1, <2>2 DEF Numbered
  <2>4. QED
    BY <2>2, <2>3, LaterIsGreater DEF Id
<1>2. QED
  BY <1>1, IdsInvHolds, PTL

\* RUID.h's ranges of node numbers: no two processes ever issue the same id.
THEOREM NodesAlwaysDiffer == Spec => []NodesNeverMeet
<1>1. IdsInv => NodesNeverMeet
  <2> SUFFICES ASSUME IdsInv, NEW p \in Processes, NEW q \in Processes, p # q,
                      NEW i \in 1 .. Len(ids[p]), NEW j \in 1 .. Len(ids[q])
               PROVE  Id(p, i) # Id(q, j)
    BY DEF NodesNeverMeet
  <2>1. /\ ids[p] \in Seq(Stamps) /\ ids[q] \in Seq(Stamps)
        /\ Numbered(p) /\ Numbered(q)
    BY DEF IdsInv, TypeOK
  <2>2. /\ ids[p][i] \in Stamps /\ ids[q][j] \in Stamps
        /\ ids[p] # <<>> /\ ids[q] # <<>>
    BY <2>1
  <2>3. NodeOf(p) \in 0 .. NodeMask /\ NodeOf(q) \in 0 .. NodeMask
    BY <2>1, <2>2 DEF Numbered
  <2>4. QED
    BY <2>2, <2>3, NumbersDiffer, NodesDiffer DEF Id
<1>2. QED
  BY <1>1, IdsInvHolds, PTL
=============================================================================
