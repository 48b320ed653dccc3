----------------------------- MODULE ZoneProofs -----------------------------
(***************************************************************************)
(* Machine-checked proofs about the two things a zone server keeps: its    *)
(* units (UnitContainer) and what its players own (PlayerContent), for     *)
(* every set of units and every bound of the mails.                        *)
(*                                                                         *)
(* UnitContainer: its IInv is inductive.  The only step that takes the     *)
(* backing of a snapshot pointer away is RetireUnits, which erases the     *)
(* pointer in the same step unless the object still waits in               *)
(* readyingUnits_, and then records it in `doubled`.                       *)
(*                                                                         *)
(* PlayerContent: what its folds come to is found first, by an argument    *)
(* about the least set for which it would not be so.  Then the invariant   *)
(* is shown part by part, each part an account of what is under way        *)
(* between the zone and one that follows it; at the end of the module the  *)
(* promises of PlayerContent follow from it.                               *)
(***************************************************************************)
EXTENDS PlayerContent, ZoneUnits, WellFoundedInduction, FiniteSetTheorems, SequenceTheorems, TLAPS

(***************************************************************************)
(* The units of a zone.                                                    *)
(***************************************************************************)
Unit == INSTANCE UnitContainer

\* Nothing is constructed, mapped or queued at first, so IInv holds.
LEMMA UnitInit == Unit!Init => Unit!IInv
  BY UnitContainerAssumption, SMTT(30)
  DEF Unit!Init, Unit!IInv, Unit!TypeOK, Unit!LaneInv, Unit!Owned, Unit!Maybe, Unit!BasicSteps, Unit!TickSteps

\* One critical section of a BASIC handler keeps the two maps at a definite
\* distance and the snapshot's pointers backed.
LEMMA UnitBasicStep ==
  ASSUME Unit!IInv, NEW id \in Ids, Unit!BasicStep(id)
  PROVE  Unit!IInv'
<1> USE UnitContainerAssumption DEF Unit!IInv, Unit!TypeOK, Unit!LaneInv, Unit!Owned, Unit!Maybe, Unit!BasicSteps, Unit!tickVars
<1>1. ASSUME NEW o \in Objs, Unit!AddToUnits(id, o) PROVE Unit!IInv'
  BY <1>1, SMTT(60) DEF Unit!AddToUnits, Unit!FindPlayer
<1>2. CASE Unit!AddToPlayers(id)
  BY <1>2, SMTT(60) DEF Unit!AddToPlayers
<1>3. CASE Unit!AddToReadying(id)
  BY <1>3, SMTT(60) DEF Unit!AddToReadying
<1>4. CASE Unit!RemoveFromUnits(id)
  BY <1>4, SMTT(60) DEF Unit!RemoveFromUnits, Unit!FindPlayer
<1>5. CASE Unit!RemoveFromPlayers(id)
  BY <1>5, SMTT(60) DEF Unit!RemoveFromPlayers, Unit!Unindexed
<1>6. CASE Unit!QueueForRemoval(id)
  BY <1>6, SMTT(60) DEF Unit!QueueForRemoval, Unit!Queued
<1>7. CASE Unit!ReturnFromHandler(id)
  BY <1>7, SMTT(60) DEF Unit!ReturnFromHandler
<1>8. QED
  BY <1>1, <1>2, <1>3, <1>4, <1>5, <1>6, <1>7 DEF Unit!BasicStep

\* One step of the TICK lane keeps the snapshot's pointers backed: RetireUnits
\* erases what it unbacks or records it, EnlistUnits only moves pointers.
LEMMA UnitTickStep ==
  ASSUME Unit!IInv, Unit!TickStep
  PROVE  Unit!IInv'
<1> USE UnitContainerAssumption DEF Unit!IInv, Unit!TypeOK, Unit!LaneInv, Unit!Owned, Unit!Maybe, Unit!TickSteps, Unit!basicVars
<1>1. CASE Unit!BeginTick
  BY <1>1, SMTT(60) DEF Unit!BeginTick
<1>2. ASSUME NEW o \in Objs, Unit!VisitUnit(o) PROVE Unit!IInv'
  BY <1>2, SMTT(60) DEF Unit!VisitUnit
<1>3. CASE Unit!EndVisits
  BY <1>3, SMTT(60) DEF Unit!EndVisits
<1>4. CASE Unit!RetireUnits
  BY <1>4, SMTT(60) DEF Unit!RetireUnits, Unit!SnapshotWithoutRetired, Unit!SwappedRemoving
<1>5. CASE Unit!EnlistUnits
  BY <1>5, SMTT(60) DEF Unit!EnlistUnits, Unit!SnapshotWithNew
<1>6. CASE Unit!ReleaseRetired
  BY <1>6, SMTT(60) DEF Unit!ReleaseRetired
<1>7. ASSUME NEW id \in Ids, Unit!PinCrossing(id) PROVE Unit!IInv'
  BY <1>7, SMTT(60) DEF Unit!PinCrossing, Unit!FindPlayer
<1>8. CASE Unit!EndTick
  BY <1>8, SMTT(60) DEF Unit!EndTick
<1>9. QED
  BY <1>1, <1>2, <1>3, <1>4, <1>5, <1>6, <1>7, <1>8 DEF Unit!TickStep

\* IInv holds in every reachable state.
THEOREM UnitInvariant == Unit!Spec => []Unit!IInv
<1>1. Unit!IInv /\ [Unit!Next]_(Unit!vars) => Unit!IInv'
  <2> SUFFICES ASSUME Unit!IInv, [Unit!Next]_(Unit!vars) PROVE Unit!IInv'
    OBVIOUS
  <2>1. CASE Unit!TickStep
    BY <2>1, UnitTickStep
  <2>2. ASSUME NEW id \in Ids, Unit!BasicStep(id) PROVE Unit!IInv'
    BY <2>2, UnitBasicStep
  <2>3. CASE UNCHANGED Unit!vars
    BY <2>3 DEF Unit!vars, Unit!tickVars, Unit!IInv, Unit!TypeOK, Unit!LaneInv, Unit!Owned
  <2>4. QED
    BY <2>1, <2>2, <2>3 DEF Unit!Next
<1>2. QED
  BY UnitInit, <1>1, PTL DEF Unit!Spec

\* The members of UnitContainer and the locals of its callers keep their
\* types.
THEOREM UnitTypes == Unit!Spec => []Unit!TypeOK
<1>1. Unit!IInv => Unit!TypeOK
  BY DEF Unit!IInv
<1>2. QED
  BY UnitInvariant, <1>1, PTL

\* However entries and exits interleave with the ticks, every raw pointer the
\* tick holds names a live object, except those whose removal OnEndTick
\* confirmed before their enlisting.
THEOREM SnapshotIsOwned == Unit!Spec => []SnapshotOwned
<1>1. Unit!IInv => SnapshotOwned
  <2> SUFFICES ASSUME Unit!IInv, NEW o \in readied \cup toVisit, o \notin doubled
               PROVE  Alive(o)
    BY DEF SnapshotOwned
  <2>1. o \in Objs /\ UnitIdOf[o] \in Ids
    BY UnitContainerAssumption DEF Unit!IInv, Unit!TypeOK
  <2>2. Unit!Owned(o)
    BY DEF Unit!IInv
  <2>3. QED
    BY <2>1, <2>2 DEF Unit!Owned, Alive
<1>2. QED
  BY UnitInvariant, <1>1, PTL

\* units_ and players_ agree outside the two-lock window of their own lane,
\* and whatever FindPlayer returns is owned by units_ or by a running handler.
THEOREM IndexesAgree == Unit!Spec => []IndexAgrees
<1>1. Unit!IInv => IndexAgrees
  BY DEF Unit!IInv, Unit!TypeOK, Unit!LaneInv, IndexAgrees, Unit!BasicSteps
<1>2. QED
  BY UnitInvariant, <1>1, PTL

(***************************************************************************)
(* Numbers and folds.  The operators of the community modules that go      *)
(* through a sequence or a set one element at a time are CHOOSEn functions:*)
(* what they are is known once such a function is shown to exist.  There is*)
(* one for every number of elements, and the least number without one does *)
(* not exist (LeastNumber).                                                *)
(***************************************************************************)

\* Every set of numbers that is not empty has a least one.
LEMMA LeastNumber ==
  ASSUME NEW T, T \subseteq Nat, T # {}
  PROVE  \E n \in T : \A m \in T : n <= m
<1>1. PICK n \in T : \A m \in T : ~(<<m, n>> \in OpToRel(<, Nat))
  BY NatLessThanWellFounded, WFMin
<1>2. \A m \in T : ~(m < n)
  BY <1>1 DEF OpToRel
<1>3. QED
  BY <1>2

\* Induction, about a set.
LEMMA AllNumbers ==
  ASSUME NEW T, 0 \in T, \A n \in Nat : n \in T => n + 1 \in T
  PROVE  Nat \subseteq T
<1> SUFFICES ASSUME ~(Nat \subseteq T) PROVE FALSE
  OBVIOUS
<1>1. PICK n \in Nat \ T : \A m \in Nat \ T : n <= m
  BY LeastNumber
<1>2. n # 0 /\ n - 1 \in Nat /\ n - 1 \in T
  BY <1>1
<1>3. QED
  BY <1>1, <1>2

\* Induction up to a bound
LEMMA UpTo ==
  ASSUME NEW N \in Nat, NEW T, 0 \in T, \A n \in 0 .. N - 1 : n \in T => n + 1 \in T
  PROVE  0 .. N \subseteq T
<1> DEFINE U == {n \in Nat : n \in 0 .. N => n \in T}
<1>1. 0 \in U /\ \A n \in Nat : n \in U => n + 1 \in U
  OBVIOUS
<1>2. Nat \subseteq U
  <2> HIDE DEF U
  <2> QED
    BY <1>1, AllNumbers
<1>3. QED
  BY <1>2

\* Max of some numbers up to n is one of them and none is larger.
LEMMA MaxIs ==
  ASSUME NEW n \in Nat, NEW S, S \subseteq 1 .. n, S # {}
  PROVE  Max(S) \in S /\ \A x \in S : Max(S) >= x
<1> DEFINE T == {n - x : x \in S}
<1>0. \A x \in S : x \in 1 .. n /\ n - x \in Nat
  OBVIOUS
<1>1. T \subseteq Nat /\ T # {}
  BY <1>0
<1>2. PICK y \in T : \A x \in T : y <= x
  <2> HIDE DEF T
  <2> QED
    BY <1>1, LeastNumber
<1>3. PICK x \in S : y = n - x
  OBVIOUS
<1>4. \A z \in S : x >= z
  <2> TAKE z \in S
  <2>1. n - z \in T
    OBVIOUS
  <2>2. y <= n - z
    BY <1>2, <2>1
  <2>3. QED
    BY <1>3, <2>2
<1>5. QED
  BY <1>4 DEF Max

(***************************************************************************)
(* Folds.  A fold over a set of numbers takes them away one at a time, in  *)
(* the order of a function that picks one.                                 *)
(***************************************************************************)
Picks(N) == {p \in [SUBSET (1 .. N) -> Nat] : \A s \in SUBSET (1 .. N) : s # {} => p[s] \in s}

FoldsUpTo(g, N, base, next, pick, k) ==
    /\ g[{}] = base
    /\ \A s \in SUBSET (1 .. N) :
          s # {} /\ Cardinality(s) <= k => g[s] = next[g[s \ {pick[s]}], pick[s]]

HasFold(V, N, base, next, pick) ==
    \E g \in [SUBSET (1 .. N) -> V] :
        /\ g[{}] = base
        /\ \A s \in SUBSET (1 .. N) : s # {} => g[s] = next[g[s \ {pick[s]}], pick[s]]

\* A set of numbers up to N has at most N of them, one less without one.
LEMMA CardinalityUpTo ==
  ASSUME NEW N \in Nat, NEW s \in SUBSET (1 .. N)
  PROVE  /\ IsFiniteSet(s) /\ Cardinality(s) \in 0 .. N
         /\ (Cardinality(s) = 0 <=> s = {})
         /\ \A x \in s : Cardinality(s \ {x}) = Cardinality(s) - 1
<1>1. IsFiniteSet(1 .. N) /\ Cardinality(1 .. N) = N
  BY FS_Interval
<1>2. IsFiniteSet(s) /\ Cardinality(s) <= N
  BY <1>1, FS_Subset
<1>3. Cardinality(s) \in Nat
  BY <1>2, FS_CardinalityType
<1>4. Cardinality(s) = 0 <=> s = {}
  BY <1>2, FS_EmptySet
<1>5. \A x \in s : Cardinality(s \ {x}) = Cardinality(s) - 1
  BY <1>2, FS_RemoveElement
<1>6. QED
  BY <1>2, <1>3, <1>4, <1>5

\* What a fold does for the sets of k numbers determines what it does for the
\* sets of one more.
LEMMA FoldOneMore ==
  ASSUME NEW N \in Nat, NEW V, NEW base \in V, NEW next \in [V \X (1 .. N) -> V],
         NEW pick \in Picks(N), NEW k \in Nat,
         NEW g \in [SUBSET (1 .. N) -> V], FoldsUpTo(g, N, base, next, pick, k)
  PROVE  \E h \in [SUBSET (1 .. N) -> V] : FoldsUpTo(h, N, base, next, pick, k + 1)
<1> DEFINE h == [s \in SUBSET (1 .. N) |->
                    IF Cardinality(s) = k + 1 THEN next[g[s \ {pick[s]}], pick[s]] ELSE g[s]]
<1>1. \A s \in SUBSET (1 .. N) : s # {} => pick[s] \in s /\ pick[s] \in 1 .. N /\ s \ {pick[s]} \in SUBSET (1 .. N)
  BY DEF Picks
<1>2. {} \in SUBSET (1 .. N) /\ Cardinality({}) = 0
  BY FS_EmptySet
<1>8. /\ \A s \in SUBSET (1 .. N) : Cardinality(s) = k + 1 => h[s] = next[g[s \ {pick[s]}], pick[s]]
      /\ \A s \in SUBSET (1 .. N) : Cardinality(s) # k + 1 => h[s] = g[s]
      /\ h = [s \in SUBSET (1 .. N) |-> h[s]]
  OBVIOUS
<1> HIDE DEF h
<1>3. ASSUME NEW s \in SUBSET (1 .. N) PROVE h[s] \in V
  <2>1. CASE s = {}
    <3>1. Cardinality(s) # k + 1
      BY <1>2, <2>1
    <3>2. h[s] = g[s]
      BY <1>8, <3>1
    <3>3. QED
      BY <3>2
  <2>2. CASE s # {}
    <3>1. g[s \ {pick[s]}] \in V /\ g[s] \in V
      BY <1>1, <2>2
    <3>2. next[g[s \ {pick[s]}], pick[s]] \in V
      BY <1>1, <2>2, <3>1
    <3>3. CASE Cardinality(s) = k + 1
      BY <1>8, <3>2, <3>3
    <3>4. CASE Cardinality(s) # k + 1
      BY <1>8, <3>1, <3>4
    <3>5. QED
      BY <3>3, <3>4
  <2>3. QED
    BY <2>1, <2>2
<1>4. ASSUME NEW s \in SUBSET (1 .. N), s # {}, Cardinality(s) <= k + 1
      PROVE  h[s] = next[h[s \ {pick[s]}], pick[s]]
  <2>1. Cardinality(s \ {pick[s]}) = Cardinality(s) - 1 /\ Cardinality(s) \in Nat
    BY <1>1, <1>4, CardinalityUpTo
  <2>2. h[s \ {pick[s]}] = g[s \ {pick[s]}]
    <3>1. s \ {pick[s]} \in SUBSET (1 .. N)
      BY <1>1, <1>4
    <3>2. Cardinality(s \ {pick[s]}) # k + 1
      BY <1>4, <2>1
    <3>3. QED
      BY <1>8, <3>1, <3>2
  <2>3. CASE Cardinality(s) = k + 1
    BY <1>8, <2>2, <2>3
  <2>4. CASE Cardinality(s) # k + 1
    <3>0. h[s] = g[s]
      BY <1>8, <2>4
    <3>1. Cardinality(s) <= k /\ h[s] = g[s]
      BY <1>4, <2>1, <2>4, <3>0
    <3>2. g[s] = next[g[s \ {pick[s]}], pick[s]]
      BY <1>4, <3>1 DEF FoldsUpTo
    <3>3. QED
      BY <2>2, <3>1, <3>2
  <2>5. QED
    BY <2>3, <2>4
<1>5. h[{}] = base
  <2>1. Cardinality({}) # k + 1
    BY <1>2
  <2>2. h[{}] = g[{}]
    BY <1>2, <1>8, <2>1
  <2>3. QED
    BY <2>2 DEF FoldsUpTo
<1>6. h \in [SUBSET (1 .. N) -> V]
  BY <1>3, <1>8
<1>7. QED
  BY <1>4, <1>5, <1>6 DEF FoldsUpTo

\* There is a function that does what every fold over numbers asks.
LEMMA FoldExists ==
  ASSUME NEW N \in Nat, NEW V, NEW base \in V, NEW next \in [V \X (1 .. N) -> V],
         NEW pick \in Picks(N)
  PROVE  HasFold(V, N, base, next, pick)
<1> DEFINE T == {k \in Nat : \E g \in [SUBSET (1 .. N) -> V] : FoldsUpTo(g, N, base, next, pick, k)}
<1>1. 0 \in T
  <2> DEFINE g == [s \in SUBSET (1 .. N) |-> base]
  <2>1. \A s \in SUBSET (1 .. N) : Cardinality(s) <= 0 => s = {}
    BY CardinalityUpTo
  <2>2. FoldsUpTo(g, N, base, next, pick, 0)
    BY <2>1 DEF FoldsUpTo
  <2>3. QED
    BY <2>2
<1>2. ASSUME NEW k \in Nat, k \in T PROVE k + 1 \in T
  <2>1. PICK g \in [SUBSET (1 .. N) -> V] : FoldsUpTo(g, N, base, next, pick, k)
    BY <1>2
  <2>2. \E h \in [SUBSET (1 .. N) -> V] : FoldsUpTo(h, N, base, next, pick, k + 1)
    BY <2>1, FoldOneMore
  <2>3. QED
    BY <2>2
<1>3. N \in T
  <2> HIDE DEF T
  <2> QED
    BY <1>1, <1>2, AllNumbers
<1>4. PICK g \in [SUBSET (1 .. N) -> V] : FoldsUpTo(g, N, base, next, pick, N)
  BY <1>3
<1>5. \A s \in SUBSET (1 .. N) : Cardinality(s) <= N
  BY CardinalityUpTo
<1>6. QED
  BY <1>4, <1>5 DEF FoldsUpTo, HasFold

(***************************************************************************)
(* What a unit of work does, whatever its tasks are.                       *)
(***************************************************************************)
DelTasks == {DelTask(m) : m \in MailIds}
AddTasks == {AddTask(m) : m \in MailIds}
GoldenTasks == {GoldTask(new, prev) : new \in Nat, prev \in Nat}
Tasks == AddTasks \cup DelTasks \cup GoldenTasks

\* A task is one of the three kinds, and its kind says what is in it.
LEMMA TaskKinds ==
  ASSUME NEW task \in Tasks
  PROVE  /\ task.kind \in {"add", "del", "gold"}
         /\ task.kind # "gold" => task.mail \in MailIds
         /\ task.kind = "gold" => task.new \in Nat /\ task.prev \in Nat
         /\ task.kind = "add" => task = AddTask(task.mail)
         /\ task.kind = "del" => task = DelTask(task.mail)
         /\ task.kind = "gold" <=> task \in GoldenTasks
BY DEF Tasks, AddTasks, DelTasks, GoldenTasks, AddTask, DelTask, GoldTask

LargestOf(N) == [s \in SUBSET (1 .. N) |-> IF s = {} THEN 0 ELSE Max(s)]

HasLeftFold(V, N, base, next) ==
    \E g \in [SUBSET (1 .. N) -> V] :
        /\ g[{}] = base
        /\ \A s \in SUBSET (1 .. N) : s # {} => Max(s) \in 1 .. N /\ g[s] = next[g[s \ {Max(s)}], Max(s)]

\* FoldLeft goes through a sequence by taking the largest index off.
LEMMA FoldLeftExists ==
  ASSUME NEW N \in Nat, NEW V, NEW base \in V, NEW next \in [V \X (1 .. N) -> V]
  PROVE  HasLeftFold(V, N, base, next)
<1> DEFINE pick == LargestOf(N)
<1>1. \A s \in SUBSET (1 .. N) : s # {} => Max(s) \in s
  BY MaxIs
<1>2. /\ \A s \in SUBSET (1 .. N) : s # {} => pick[s] = Max(s)
      /\ \A s \in SUBSET (1 .. N) : s = {} => pick[s] = 0
      /\ pick = [s \in SUBSET (1 .. N) |-> pick[s]]
  BY DEF LargestOf
<1> HIDE DEF pick
<1>7. ASSUME NEW s \in SUBSET (1 .. N) PROVE pick[s] \in Nat
  <2>1. CASE s = {}
    <3>1. pick[s] = 0
      BY <1>2, <2>1
    <3>2. QED
      BY <3>1
  <2>2. CASE s # {}
    <3>0. Max(s) \in s
      BY <1>1, <2>2
    <3>1. Max(s) \in 1 .. N
      BY <3>0
    <3>2. 1 .. N \subseteq Nat
      OBVIOUS
    <3>3. Max(s) \in Nat
      BY <3>1, <3>2
    <3>4. QED
      BY <1>2, <2>2, <3>3
  <2>3. QED
    BY <2>1, <2>2
<1>3. pick \in Picks(N)
  BY <1>1, <1>2, <1>7 DEF Picks
<1>4. PICK g \in [SUBSET (1 .. N) -> V] :
            /\ g[{}] = base
            /\ \A s \in SUBSET (1 .. N) : s # {} => g[s] = next[g[s \ {pick[s]}], pick[s]]
  <2>1. HasFold(V, N, base, next, pick)
    BY <1>3, FoldExists
  <2>2. QED
    BY <2>1 DEF HasFold
<1>5. ASSUME NEW s \in SUBSET (1 .. N), s # {} PROVE Max(s) \in 1 .. N /\ g[s] = next[g[s \ {Max(s)}], Max(s)]
  BY <1>1, <1>2, <1>4, <1>5
<1>6. QED
  BY <1>4, <1>5 DEF HasLeftFold

\* The largest index of the first n is n.
LEMMA Prefix ==
  ASSUME NEW n \in Nat, n # 0
  PROVE  Max(1 .. n) = n /\ (1 .. n) \ {n} = 1 .. n - 1 /\ 1 .. n # {}
<1>1. 1 .. n # {} /\ n \in 1 .. n /\ (1 .. n) \ {n} = 1 .. n - 1
  OBVIOUS
<1>2. Max(1 .. n) \in 1 .. n /\ Max(1 .. n) >= n
  BY <1>1, MaxIs
<1>3. QED
  BY <1>1, <1>2

\* The client's list after each task of a result.
LEMMA ClientFold ==
  ASSUME NEW c \in SUBSET MailIds, NEW tasks \in Seq(Tasks)
  PROVE  \E f : /\ f[0] = c /\ f[Len(tasks)] = FoldLeft(ClientTask, c, tasks)
                /\ \A n \in 1 .. Len(tasks) : f[n] = ClientTask(f[n - 1], tasks[n])
<1> DEFINE N == Len(tasks)
           V == SUBSET MailIds
           next == [x \in V \X (1 .. N) |-> ClientTask(x[1], tasks[x[2]])]
           Is(g) == g = [s \in SUBSET DOMAIN tasks |->
                            IF s = {} THEN c ELSE ClientTask(g[s \ {Max(s)}], tasks[Max(s)])]
           h == CHOOSE g : Is(g)
           f == [n \in 0 .. N |-> h[1 .. n]]
<1>1. N \in Nat /\ DOMAIN tasks = 1 .. N /\ \A n \in 1 .. N : tasks[n] \in Tasks
  OBVIOUS
<1>2. \A x \in V \X (1 .. N) : next[x] = ClientTask(x[1], tasks[x[2]]) /\ next[x] \in V
  BY <1>1, TaskKinds DEF ClientTask
<1>3. next \in [V \X (1 .. N) -> V]
  <2>1. next = [x \in V \X (1 .. N) |-> next[x]]
    OBVIOUS
  <2> HIDE DEF next
  <2> QED
    BY <1>2, <2>1
<1> HIDE DEF next
<1>4. PICK g \in [SUBSET (1 .. N) -> V] :
         /\ g[{}] = c
         /\ \A s \in SUBSET (1 .. N) : s # {} => Max(s) \in 1 .. N /\ g[s] = next[g[s \ {Max(s)}], Max(s)]
  <2>1. HasLeftFold(V, N, c, next)
    <3> HIDE DEF V, N
    <3> QED
      BY <1>1, <1>3, FoldLeftExists DEF V
  <2>2. QED
    BY <2>1 DEF HasLeftFold
<1>5. \A s \in SUBSET (1 .. N) : s # {} => g[s] = ClientTask(g[s \ {Max(s)}], tasks[Max(s)])
  BY <1>2, <1>4
<1>6. Is(g)
  BY <1>1, <1>4, <1>5
<1>7. Is(h)
  <2> HIDE DEF Is
  <2> QED
    BY <1>6
<1>8. FoldLeft(ClientTask, c, tasks) = h[1 .. N]
  BY <1>1 DEF FoldLeft, MapThenFoldSet
<1>9. h[{}] = c /\ \A s \in SUBSET (1 .. N) : s # {} => h[s] = ClientTask(h[s \ {Max(s)}], tasks[Max(s)])
  BY <1>1, <1>7
<1> HIDE DEF h
<1>10. f[0] = c /\ f[N] = h[1 .. N]
  <2>1. 1 .. 0 = {}
    OBVIOUS
  <2>2. QED
    BY <1>1, <1>9, <2>1
<1>11. ASSUME NEW n \in 1 .. N PROVE f[n] = ClientTask(f[n - 1], tasks[n])
  <2>1. 1 .. n \in SUBSET (1 .. N) /\ n \in Nat /\ n # 0 /\ n \in 0 .. N /\ n - 1 \in 0 .. N
    BY <1>1
  <2>2. h[1 .. n] = ClientTask(h[1 .. n - 1], tasks[n])
    BY <1>9, <2>1, Prefix
  <2>3. QED
    BY <2>1, <2>2
<1>12. QED
  <2> HIDE DEF f
  <2> QED
    BY <1>8, <1>10, <1>11

(***************************************************************************)
(* What a unit of work is: the tasks it may hold and what they come to.    *)
(***************************************************************************)

Units ==
    Seq(DelTasks)
    \cup {<<AddTask(m)>> : m \in MailIds}
    \cup {<<AddTask(m), GoldTask(new, prev)>> : m \in MailIds, new \in Nat, prev \in Nat}

Adds(tasks) == AddedIn(tasks)
Dels(tasks) == {m \in MailIds : DelTask(m) \in ToSet(tasks)}
Pays(tasks) == Len(tasks) = 2 /\ tasks[2].kind = "gold"
\* The gold it found and the gold it leaves, if it pays.
OldGold(tasks) == tasks[2].prev
NewGold(tasks) == tasks[2].new

DelsOnly(tasks) ==
    /\ tasks \in Seq(DelTasks) /\ tasks \in Seq(Tasks) /\ Adds(tasks) = {} /\ ~Pays(tasks)
    /\ \A i \in 1 .. Len(tasks) : tasks[i].mail \in MailIds /\ tasks[i] = DelTask(tasks[i].mail)
    /\ Dels(tasks) = {m \in MailIds : \E i \in 1 .. Len(tasks) : tasks[i] = DelTask(m)}

AddsOne(tasks, m) ==
    /\ m \in MailIds /\ tasks = <<AddTask(m)>> /\ tasks \in Seq(Tasks)
    /\ Len(tasks) = 1 /\ tasks[1] = AddTask(m)
    /\ Adds(tasks) = {m} /\ Dels(tasks) = {} /\ ~Pays(tasks)

BuysOne(tasks, m) ==
    /\ m \in MailIds /\ tasks \in Seq(Tasks)
    /\ NewGold(tasks) \in Nat /\ OldGold(tasks) \in Nat
    /\ tasks = <<AddTask(m), GoldTask(NewGold(tasks), OldGold(tasks))>>
    /\ Len(tasks) = 2 /\ tasks[1] = AddTask(m) /\ tasks[2] = GoldTask(NewGold(tasks), OldGold(tasks))
    /\ Adds(tasks) = {m} /\ Dels(tasks) = {} /\ Pays(tasks)

\* Tasks of different kinds or of different mails are different tasks.
LEMMA DifferentTasks ==
  /\ \A m, n : AddTask(m) = AddTask(n) <=> m = n
  /\ \A m, n : DelTask(m) = DelTask(n) <=> m = n
  /\ \A m, n : AddTask(m) # DelTask(n)
  /\ \A m, new, prev : AddTask(m) # GoldTask(new, prev) /\ DelTask(m) # GoldTask(new, prev)
  /\ \A m : AddTask(m).kind = "add" /\ AddTask(m).mail = m
  /\ \A m : DelTask(m).kind = "del" /\ DelTask(m).mail = m
  /\ \A new, prev : /\ GoldTask(new, prev).kind = "gold" /\ GoldTask(new, prev).new = new
                    /\ GoldTask(new, prev).prev = prev
BY DEF AddTask, DelTask, GoldTask

\* A unit of work of removals, a request's or the tick's, adds and pays nothing.
LEMMA RemovalUnit ==
  ASSUME NEW tasks \in Seq(DelTasks)
  PROVE  DelsOnly(tasks)
<1>1. \A i \in 1 .. Len(tasks) : tasks[i] \in DelTasks
  OBVIOUS
<1>2. \A t \in DelTasks : t.mail \in MailIds /\ t = DelTask(t.mail) /\ t.kind = "del"
  BY DEF DelTasks, DelTask
<1>3. ToSet(tasks) = {tasks[i] : i \in 1 .. Len(tasks)}
  BY DEF ToSet
<1>4. Adds(tasks) = {}
  BY <1>1, <1>2, <1>3, DifferentTasks DEF Adds, AddedIn
<1>5. Dels(tasks) = {m \in MailIds : \E i \in 1 .. Len(tasks) : tasks[i] = DelTask(m)}
  BY <1>3 DEF Dels
<1>6. tasks \in Seq(Tasks)
  BY DEF Tasks
<1>7. ~Pays(tasks)
  <2> SUFFICES ASSUME Len(tasks) = 2, tasks[2].kind = "gold" PROVE FALSE
    BY DEF Pays
  <2>1. tasks[2] \in DelTasks
    BY <1>1
  <2>2. QED
    BY <1>2, <2>1
<1>8. QED
  BY <1>1, <1>2, <1>4, <1>5, <1>6, <1>7 DEF DelsOnly

\* The unit of work of HandleMailAdd adds one mail.
LEMMA AdditionUnit ==
  ASSUME NEW m \in MailIds
  PROVE  AddsOne(<<AddTask(m)>>, m)
<1> DEFINE u == <<AddTask(m)>>
<1>1. Len(u) = 1 /\ u[1] = AddTask(m) /\ ToSet(u) = {AddTask(m)}
  BY DEF ToSet
<1>2. Adds(u) = {m} /\ Dels(u) = {}
  BY <1>1, DifferentTasks DEF Adds, AddedIn, Dels
<1>3. u \in Seq(Tasks)
  <2>1. AddTask(m) \in Tasks
    BY DEF Tasks, AddTasks
  <2>2. QED
    BY <2>1
<1>4. ~Pays(u)
  BY <1>1 DEF Pays
<1>5. QED
  BY <1>1, <1>2, <1>3, <1>4 DEF AddsOne

\* The unit of work of HandleMailBuy adds one mail and says what gold is left.
LEMMA PurchaseUnit ==
  ASSUME NEW m \in MailIds, NEW new \in Nat, NEW prev \in Nat
  PROVE  LET u == <<AddTask(m), GoldTask(new, prev)>>
         IN  BuysOne(u, m) /\ NewGold(u) = new /\ OldGold(u) = prev
<1> DEFINE u == <<AddTask(m), GoldTask(new, prev)>>
<1>1. Len(u) = 2 /\ u[1] = AddTask(m) /\ u[2] = GoldTask(new, prev) /\ ToSet(u) = {AddTask(m), GoldTask(new, prev)}
  BY DEF ToSet
<1>2. NewGold(u) = new /\ OldGold(u) = prev /\ Pays(u)
  BY <1>1, DifferentTasks DEF NewGold, OldGold, Pays
<1>3. Adds(u) = {m} /\ Dels(u) = {}
  BY <1>1, DifferentTasks DEF Adds, AddedIn, Dels
<1>4. u \in Seq(Tasks)
  <2>1. AddTask(m) \in Tasks /\ GoldTask(new, prev) \in Tasks
    BY DEF Tasks, AddTasks, GoldenTasks
  <2>2. QED
    BY <2>1
<1>5. QED
  BY <1>1, <1>2, <1>3, <1>4 DEF BuysOne

\* Every unit of work is of one of these three shapes.
LEMMA UnitShape ==
  ASSUME NEW u \in Units
  PROVE  /\ u \in Seq(Tasks) /\ Adds(u) \subseteq MailIds /\ Dels(u) \subseteq MailIds
         /\ DelsOnly(u) \/ \E m \in MailIds : AddsOne(u, m) \/ BuysOne(u, m)
         /\ Pays(u) => NewGold(u) \in Nat /\ OldGold(u) \in Nat /\ Adds(u) # {}
         /\ Adds(u) = {} \/ Dels(u) = {}
<1>1. CASE u \in Seq(DelTasks)
  BY <1>1, RemovalUnit DEF DelsOnly, Adds, AddedIn, Dels
<1>2. ASSUME NEW m \in MailIds, u = <<AddTask(m)>> PROVE AddsOne(u, m)
  BY <1>2, AdditionUnit
<1>3. ASSUME NEW m \in MailIds, NEW new \in Nat, NEW prev \in Nat, u = <<AddTask(m), GoldTask(new, prev)>>
      PROVE  BuysOne(u, m)
  BY <1>3, PurchaseUnit
<1>4. ASSUME NEW m \in MailIds, AddsOne(u, m) \/ BuysOne(u, m)
      PROVE  /\ u \in Seq(Tasks) /\ Adds(u) \subseteq MailIds /\ Dels(u) \subseteq MailIds
             /\ \E n \in MailIds : AddsOne(u, n) \/ BuysOne(u, n)
             /\ Pays(u) => NewGold(u) \in Nat /\ OldGold(u) \in Nat /\ Adds(u) # {}
             /\ Dels(u) = {}
  BY <1>4 DEF AddsOne, BuysOne
<1>5. CASE \E m \in MailIds : AddsOne(u, m) \/ BuysOne(u, m)
  BY <1>4, <1>5
<1>6. u \in Seq(DelTasks) \/ \E m \in MailIds : AddsOne(u, m) \/ BuysOne(u, m)
  <2>1. \/ u \in Seq(DelTasks) \/ \E m \in MailIds : u = <<AddTask(m)>>
        \/ \E m \in MailIds, new \in Nat, prev \in Nat : u = <<AddTask(m), GoldTask(new, prev)>>
    BY DEF Units
  <2>2. QED
    BY <2>1, <1>2, <1>3
<1>7. QED
  BY <1>1, <1>5, <1>6

\* What is left of a set when the first n removals are done.
LEMMA RemovedSoFar ==
  ASSUME NEW u, DelsOnly(u), NEW n \in 1 .. Len(u)
  PROVE  \A m \in MailIds : (\E i \in 1 .. n : u[i] = DelTask(m)) <=>
                            (m = u[n].mail \/ \E i \in 1 .. n - 1 : u[i] = DelTask(m))
<1>1. Len(u) \in Nat /\ u[n] = DelTask(u[n].mail)
  BY DEF DelsOnly
<1>2. \A i : i \in 1 .. n <=> i = n \/ i \in 1 .. n - 1
  BY <1>1
<1>3. QED
  BY <1>1, <1>2, DifferentTasks

\* The client's list after a result.
LEMMA ClientEffect ==
  ASSUME NEW c \in SUBSET MailIds, NEW u \in Units
  PROVE  FoldLeft(ClientTask, c, u) = (c \cup Adds(u)) \ Dels(u)
<1> DEFINE N == Len(u)
<1>1. u \in Seq(Tasks) /\ N \in Nat
  BY UnitShape
<1>2. PICK f : /\ f[0] = c /\ f[N] = FoldLeft(ClientTask, c, u)
               /\ \A n \in 1 .. N : f[n] = ClientTask(f[n - 1], u[n])
  BY <1>1, ClientFold
<1> HIDE DEF N
<1>3. CASE DelsOnly(u)
  <2> DEFINE Left(n) == c \ {m \in MailIds : \E i \in 1 .. n : u[i] = DelTask(m)}
             T == {n \in 0 .. N : f[n] = Left(n)}
  <2>1. 0 \in T
    BY <1>1, <1>2
  <2>2. ASSUME NEW n \in 0 .. N - 1, n \in T PROVE n + 1 \in T
    <3>1. n + 1 \in 1 .. N /\ (n + 1) - 1 = n /\ n + 1 \in 0 .. N
      BY <1>1
    <3>2. f[n + 1] = f[n] \ {u[n + 1].mail}
      <4>1. f[n + 1] = ClientTask(f[n], u[n + 1])
        BY <1>2, <3>1
      <4>2. u[n + 1] = DelTask(u[n + 1].mail)
        BY <1>3, <3>1 DEF DelsOnly, N
      <4>3. u[n + 1].kind = "del"
        BY <4>2, DifferentTasks
      <4>4. QED
        BY <4>1, <4>3 DEF ClientTask
    <3>3. \A m \in MailIds : (\E i \in 1 .. n + 1 : u[i] = DelTask(m)) <=>
                             (m = u[n + 1].mail \/ \E i \in 1 .. n : u[i] = DelTask(m))
      BY <1>3, <3>1, RemovedSoFar DEF N
    <3>4. f[n] = Left(n)
      BY <2>2
    <3>5. f[n + 1] = Left(n + 1)
      BY <3>2, <3>3, <3>4
    <3>6. QED
      BY <3>1, <3>5
  <2>3. N \in T
    <3> HIDE DEF T
    <3>1. 0 .. N \subseteq T
      BY <1>1, <2>1, <2>2, UpTo
    <3>2. QED
      BY <1>1, <3>1
  <2>4. QED
    BY <1>2, <1>3, <2>3 DEF DelsOnly, N
<1>4. ASSUME NEW m \in MailIds, AddsOne(u, m) \/ BuysOne(u, m)
      PROVE  FoldLeft(ClientTask, c, u) = (c \cup Adds(u)) \ Dels(u)
  <2>1. N \in {1, 2} /\ u[1] = AddTask(m) /\ Adds(u) = {m} /\ Dels(u) = {} /\ (N = 2 => u[2].kind = "gold")
    BY <1>4, DifferentTasks DEF AddsOne, BuysOne, N
  <2>5. 1 \in 1 .. N /\ 1 - 1 = 0 /\ (N = 2 => 2 \in 1 .. N) /\ 2 - 1 = 1
    BY <2>1
  <2>6. f[1] = ClientTask(c, u[1]) /\ (N = 2 => f[2] = ClientTask(f[1], u[2]))
    BY <1>2, <2>5
  <2>2. f[1] = c \cup {m}
    BY <2>1, <2>6, DifferentTasks DEF ClientTask
  <2>3. N = 2 => f[2] = f[1]
    BY <2>1, <2>6 DEF ClientTask
  <2>4. QED
    BY <1>2, <2>1, <2>2, <2>3
<1>5. QED
  BY <1>3, <1>4, UnitShape

(***************************************************************************)
(* World's cache: what a stream does to PlayerManager's table.             *)
(***************************************************************************)

Row(p, z, known, mails, gold) ==
    [playerId |-> p, zoneId |-> z, authenticated |-> known, mails |-> mails, gold |-> gold]

Yes == TRUE

RowOf(mails, gold) == Row(Player, NoZone, Yes, mails, gold)

\* World's table while the player is connected.
TableOf(mails, gold) ==
    [players |-> [x \in {Session} |-> RowOf(mails, gold)],
     sessionByPlayerId |-> [x \in {Player} |-> Session]]

Tables == {TableOf(mails, gold) : mails \in SUBSET MailIds, gold \in Nat}

\* What the setters of PlayerManager write into a row.
LEMMA RowUpdate ==
  ASSUME NEW p, NEW z, NEW known, NEW mails, NEW gold, NEW x
  PROVE  /\ Row(p, z, known, mails, gold).mails = mails /\ Row(p, z, known, mails, gold).gold = gold
         /\ [Row(p, z, known, mails, gold) EXCEPT !.mails = x] = Row(p, z, known, x, gold)
         /\ [Row(p, z, known, mails, gold) EXCEPT !.gold = x] = Row(p, z, known, mails, x)
BY DEF Row

\* What one task does to World's table (ApplyMailTask, ApplyCurrencyTask).
LEMMA TableStep ==
  ASSUME NEW mails, NEW gold
  PROVE  LET t == TableOf(mails, gold) IN
         /\ PM!Has(t, Session) /\ PM!HasPlayer(t, Player)
         /\ PM!Find(t, Session).mails = mails /\ PM!Find(t, Session).gold = gold
         /\ \A task : task.kind = "add" => CacheTask(t, task) = TableOf(mails \cup {task.mail}, gold)
         /\ \A task : task.kind = "del" => CacheTask(t, task) = TableOf(mails \ {task.mail}, gold)
         /\ \A task : task.kind = "gold" => CacheTask(t, task) = TableOf(mails, task.new)
<1> DEFINE t == TableOf(mails, gold)
<1>1. PM!Has(t, Session) /\ PM!HasPlayer(t, Player) /\ PM!Find(t, Session) = RowOf(mails, gold)
  BY DEF TableOf, PM!Has, PM!Find, PM!HasPlayer
<1>2. /\ RowOf(mails, gold).mails = mails /\ RowOf(mails, gold).gold = gold
      /\ \A x : [RowOf(mails, gold) EXCEPT !.mails = x] = RowOf(x, gold)
      /\ \A x : [RowOf(mails, gold) EXCEPT !.gold = x] = RowOf(mails, x)
  BY RowUpdate DEF RowOf
<1>3. ASSUME NEW b, NEW g PROVE PM!Update(t, Session, RowOf(b, g)) = TableOf(b, g)
  BY <1>1 DEF PM!Update, TableOf
<1> HIDE DEF t
<1>4. ASSUME NEW m PROVE /\ PM!AddMail(t, Session, m) = TableOf(mails \cup {m}, gold)
                         /\ PM!RemoveMail(t, Session, m) = TableOf(mails \ {m}, gold)
                         /\ PM!SetCurrency(t, Session, m) = TableOf(mails, m)
  <2>1. /\ [PM!Find(t, Session) EXCEPT !.mails = @ \cup {m}] = RowOf(mails \cup {m}, gold)
        /\ [PM!Find(t, Session) EXCEPT !.mails = @ \ {m}] = RowOf(mails \ {m}, gold)
        /\ [PM!Find(t, Session) EXCEPT !.gold = m] = RowOf(mails, m)
    BY <1>1, <1>2
  <2>2. QED
    BY <1>3, <2>1 DEF PM!AddMail, PM!RemoveMail, PM!SetCurrency
<1>5. /\ \A task : task.kind = "add" => CacheTask(t, task) = TableOf(mails \cup {task.mail}, gold)
      /\ \A task : task.kind = "del" => CacheTask(t, task) = TableOf(mails \ {task.mail}, gold)
      /\ \A task : task.kind = "gold" => CacheTask(t, task) = TableOf(mails, task.new)
  BY <1>4 DEF CacheTask, ApplyTask
<1>6. QED
  BY <1>1, <1>2, <1>5 DEF t

\* World's table keeps its form under every task.
LEMMA TableStays ==
  ASSUME NEW t \in Tables, NEW task \in Tasks
  PROVE  CacheTask(t, task) \in Tables
<1>1. PICK mails \in SUBSET MailIds, gold \in Nat : t = TableOf(mails, gold)
  BY DEF Tables
<1>2. \A b \in SUBSET MailIds, g \in Nat : TableOf(b, g) \in Tables
  BY DEF Tables
<1>7. /\ task.kind = "add" => CacheTask(t, task) = TableOf(mails \cup {task.mail}, gold)
      /\ task.kind = "del" => CacheTask(t, task) = TableOf(mails \ {task.mail}, gold)
      /\ task.kind = "gold" => CacheTask(t, task) = TableOf(mails, task.new)
  BY <1>1, TableStep
<1>3. CASE task.kind = "add"
  BY <1>2, <1>3, <1>7, TaskKinds
<1>4. CASE task.kind = "del"
  BY <1>2, <1>4, <1>7, TaskKinds
<1>5. CASE task.kind = "gold"
  BY <1>2, <1>5, <1>7, TaskKinds
<1>6. QED
  BY <1>3, <1>4, <1>5, TaskKinds

\* World's table after each task of a stream.
LEMMA CacheFold ==
  ASSUME NEW c \in Tables, NEW tasks \in Seq(Tasks)
  PROVE  \E f : /\ f[0] = c /\ f[Len(tasks)] = FoldLeft(CacheTask, c, tasks)
                /\ \A n \in 1 .. Len(tasks) : f[n] = CacheTask(f[n - 1], tasks[n])
<1> DEFINE N == Len(tasks)
           V == Tables
           next == [x \in V \X (1 .. N) |-> CacheTask(x[1], tasks[x[2]])]
           Is(g) == g = [s \in SUBSET DOMAIN tasks |->
                            IF s = {} THEN c ELSE CacheTask(g[s \ {Max(s)}], tasks[Max(s)])]
           h == CHOOSE g : Is(g)
           f == [n \in 0 .. N |-> h[1 .. n]]
<1>1. N \in Nat /\ DOMAIN tasks = 1 .. N /\ \A n \in 1 .. N : tasks[n] \in Tasks
  OBVIOUS
<1>2. \A x \in V \X (1 .. N) : next[x] = CacheTask(x[1], tasks[x[2]]) /\ next[x] \in V
  BY <1>1, TableStays
<1>3. next \in [V \X (1 .. N) -> V]
  <2>1. next = [x \in V \X (1 .. N) |-> next[x]]
    OBVIOUS
  <2> HIDE DEF next
  <2> QED
    BY <1>2, <2>1
<1> HIDE DEF next
<1>4. PICK g \in [SUBSET (1 .. N) -> V] :
         /\ g[{}] = c
         /\ \A s \in SUBSET (1 .. N) : s # {} => Max(s) \in 1 .. N /\ g[s] = next[g[s \ {Max(s)}], Max(s)]
  <2>1. HasLeftFold(V, N, c, next)
    <3> HIDE DEF V, N
    <3> QED
      BY <1>1, <1>3, FoldLeftExists DEF V
  <2>2. QED
    BY <2>1 DEF HasLeftFold
<1>5. \A s \in SUBSET (1 .. N) : s # {} => g[s] = CacheTask(g[s \ {Max(s)}], tasks[Max(s)])
  BY <1>2, <1>4
<1>6. Is(g)
  BY <1>1, <1>4, <1>5
<1>7. Is(h)
  <2> HIDE DEF Is
  <2> QED
    BY <1>6
<1>8. FoldLeft(CacheTask, c, tasks) = h[1 .. N]
  BY <1>1 DEF FoldLeft, MapThenFoldSet
<1>9. h[{}] = c /\ \A s \in SUBSET (1 .. N) : s # {} => h[s] = CacheTask(h[s \ {Max(s)}], tasks[Max(s)])
  BY <1>1, <1>7
<1> HIDE DEF h
<1>10. f[0] = c /\ f[N] = h[1 .. N]
  <2>1. 1 .. 0 = {}
    OBVIOUS
  <2>2. QED
    BY <1>1, <1>9, <2>1
<1>11. ASSUME NEW n \in 1 .. N PROVE f[n] = CacheTask(f[n - 1], tasks[n])
  <2>1. 1 .. n \in SUBSET (1 .. N) /\ n \in Nat /\ n # 0 /\ n \in 0 .. N /\ n - 1 \in 0 .. N
    BY <1>1
  <2>2. h[1 .. n] = CacheTask(h[1 .. n - 1], tasks[n])
    BY <1>9, <2>1, Prefix
  <2>3. QED
    BY <2>1, <2>2
<1>12. QED
  <2> HIDE DEF f
  <2> QED
    BY <1>8, <1>10, <1>11

\* What a whole unit of work does to World's cache, in one step.
LEMMA CacheEffect ==
  ASSUME NEW mails \in SUBSET MailIds, NEW gold \in Nat, NEW u \in Units
  PROVE  FoldLeft(CacheTask, TableOf(mails, gold), u) =
            TableOf((mails \cup Adds(u)) \ Dels(u), IF Pays(u) THEN NewGold(u) ELSE gold)
<1> DEFINE N == Len(u)
           t == TableOf(mails, gold)
<1>0. u \in Seq(Tasks) /\ t \in Tables
  BY UnitShape DEF Tables
<1>1. u \in Seq(Tasks) /\ N \in Nat /\ t \in Tables
  BY <1>0
<1>2. PICK f : /\ f[0] = t /\ f[N] = FoldLeft(CacheTask, t, u)
               /\ \A n \in 1 .. N : f[n] = CacheTask(f[n - 1], u[n])
  BY <1>1, CacheFold
<1> HIDE DEF N
<1>3. CASE DelsOnly(u)
  <2> DEFINE Left(n) == mails \ {m \in MailIds : \E i \in 1 .. n : u[i] = DelTask(m)}
             T == {n \in 0 .. N : f[n] = TableOf(Left(n), gold)}
  <2>1. 0 \in T
    <3>1. Left(0) = mails /\ 0 \in 0 .. N
      BY <1>1
    <3> HIDE DEF Left
    <3>2. f[0] = TableOf(Left(0), gold)
      BY <1>2, <3>1
    <3>3. QED
      BY <3>1, <3>2
  <2>2. ASSUME NEW n \in 0 .. N - 1, n \in T PROVE n + 1 \in T
    <3>1. n + 1 \in 1 .. N /\ (n + 1) - 1 = n /\ n + 1 \in 0 .. N
      BY <1>1
    <3>4. f[n] = TableOf(Left(n), gold)
      BY <2>2
    <3>2. f[n + 1] = TableOf(Left(n) \ {u[n + 1].mail}, gold)
      <4>1. f[n + 1] = CacheTask(f[n], u[n + 1])
        BY <1>2, <3>1
      <4>2. u[n + 1] = DelTask(u[n + 1].mail)
        BY <1>3, <3>1 DEF DelsOnly, N
      <4>3. u[n + 1].kind = "del"
        BY <4>2, DifferentTasks
      <4> HIDE DEF Left
      <4>4. QED
        BY <3>4, <4>1, <4>3, TableStep
    <3>3. \A m \in MailIds : (\E i \in 1 .. n + 1 : u[i] = DelTask(m)) <=>
                             (m = u[n + 1].mail \/ \E i \in 1 .. n : u[i] = DelTask(m))
      BY <1>3, <3>1, RemovedSoFar DEF N
    <3>5. Left(n + 1) = Left(n) \ {u[n + 1].mail}
      BY <3>3
    <3>6. QED
      BY <3>1, <3>2, <3>5
  <2>3. N \in T
    <3> HIDE DEF T
    <3>1. 0 .. N \subseteq T
      BY <1>1, <2>1, <2>2, UpTo
    <3>2. QED
      BY <1>1, <3>1
  <2>4. Left(N) = (mails \cup Adds(u)) \ Dels(u) /\ ~Pays(u)
    BY <1>3 DEF DelsOnly, N
  <2>5. QED
    BY <1>2, <2>3, <2>4
<1>4. ASSUME NEW m \in MailIds, AddsOne(u, m) \/ BuysOne(u, m)
      PROVE  FoldLeft(CacheTask, t, u) =
                TableOf((mails \cup Adds(u)) \ Dels(u), IF Pays(u) THEN NewGold(u) ELSE gold)
  <2>1. /\ u[1] = AddTask(m) /\ Adds(u) = {m} /\ Dels(u) = {}
        /\ \/ N = 1 /\ ~Pays(u)
           \/ N = 2 /\ Pays(u) /\ u[2].kind = "gold" /\ u[2].new = NewGold(u)
    BY <1>4, DifferentTasks DEF AddsOne, BuysOne, N
  <2>2. 1 \in 1 .. N /\ 1 - 1 = 0 /\ (N = 2 => 2 \in 1 .. N) /\ 2 - 1 = 1
    BY <2>1
  <2>3. f[1] = CacheTask(t, u[1]) /\ (N = 2 => f[2] = CacheTask(f[1], u[2]))
    BY <1>2, <2>2
  <2>4. f[1] = TableOf(mails \cup {m}, gold)
    BY <2>1, <2>3, DifferentTasks, TableStep
  <2>5. N = 2 => f[2] = TableOf(mails \cup {m}, NewGold(u))
    BY <2>1, <2>3, <2>4, TableStep
  <2>6. (mails \cup Adds(u)) \ Dels(u) = mails \cup {m}
    BY <2>1
  <2>7. QED
    BY <1>2, <2>1, <2>4, <2>5, <2>6
<1>5. QED
  BY <1>3, <1>4, UnitShape

(***************************************************************************)
(* The DB: what a transaction does.                                        *)
(***************************************************************************)

DbStates == {"none", "alive", "deleted"}
Dbs == [mail : [MailIds -> DbStates], gold : Nat]

DbOf(mail, gold) == [mail |-> mail, gold |-> gold]

\* What one command does to the DB (usp_mails_upsert, usp_mails_delete).
LEMMA DbStep ==
  ASSUME NEW f \in [MailIds -> DbStates], NEW g
  PROVE  /\ \A task : task.kind = "add" => ExecuteOne(DbOf(f, g), task) =
                DbOf([f EXCEPT ![task.mail] = IF @ = "none" THEN "alive" ELSE @], g)
         /\ \A task : task.kind = "del" => ExecuteOne(DbOf(f, g), task) =
                DbOf([f EXCEPT ![task.mail] = IF @ = "alive" THEN "deleted" ELSE @], g)
         /\ \A task : task.kind = "gold" => ExecuteOne(DbOf(f, g), task) = DbOf(f, task.new)
BY DEF DbOf, ExecuteOne

\* The DB keeps its type under every command.
LEMMA DbStays ==
  ASSUME NEW d \in Dbs, NEW task \in Tasks
  PROVE  ExecuteOne(d, task) \in Dbs
<1>1. d = DbOf(d.mail, d.gold) /\ d.mail \in [MailIds -> DbStates] /\ d.gold \in Nat
  BY DEF Dbs, DbOf
<1>2. \A f \in [MailIds -> DbStates], g \in Nat : DbOf(f, g) \in Dbs
  BY DEF Dbs, DbOf
<1>3. /\ task.kind = "add" => ExecuteOne(d, task) =
             DbOf([d.mail EXCEPT ![task.mail] = IF @ = "none" THEN "alive" ELSE @], d.gold)
      /\ task.kind = "del" => ExecuteOne(d, task) =
             DbOf([d.mail EXCEPT ![task.mail] = IF @ = "alive" THEN "deleted" ELSE @], d.gold)
      /\ task.kind = "gold" => ExecuteOne(d, task) = DbOf(d.mail, task.new)
  BY <1>1, DbStep
<1>4. ASSUME NEW m \in MailIds
      PROVE  /\ [d.mail EXCEPT ![m] = IF @ = "none" THEN "alive" ELSE @] \in [MailIds -> DbStates]
             /\ [d.mail EXCEPT ![m] = IF @ = "alive" THEN "deleted" ELSE @] \in [MailIds -> DbStates]
  BY <1>1 DEF DbStates
<1>5. QED
  BY <1>1, <1>2, <1>3, <1>4, TaskKinds

\* The DB after each command of a transaction.
LEMMA DbFold ==
  ASSUME NEW c \in Dbs, NEW tasks \in Seq(Tasks)
  PROVE  \E f : /\ f[0] = c /\ f[Len(tasks)] = FoldLeft(ExecuteOne, c, tasks)
                /\ \A n \in 1 .. Len(tasks) : f[n] = ExecuteOne(f[n - 1], tasks[n])
<1> DEFINE N == Len(tasks)
           V == Dbs
           next == [x \in V \X (1 .. N) |-> ExecuteOne(x[1], tasks[x[2]])]
           Is(g) == g = [s \in SUBSET DOMAIN tasks |->
                            IF s = {} THEN c ELSE ExecuteOne(g[s \ {Max(s)}], tasks[Max(s)])]
           h == CHOOSE g : Is(g)
           f == [n \in 0 .. N |-> h[1 .. n]]
<1>1. N \in Nat /\ DOMAIN tasks = 1 .. N /\ \A n \in 1 .. N : tasks[n] \in Tasks
  OBVIOUS
<1>2. \A x \in V \X (1 .. N) : next[x] = ExecuteOne(x[1], tasks[x[2]]) /\ next[x] \in V
  BY <1>1, DbStays
<1>3. next \in [V \X (1 .. N) -> V]
  <2>1. next = [x \in V \X (1 .. N) |-> next[x]]
    OBVIOUS
  <2> HIDE DEF next
  <2> QED
    BY <1>2, <2>1
<1> HIDE DEF next
<1>4. PICK g \in [SUBSET (1 .. N) -> V] :
         /\ g[{}] = c
         /\ \A s \in SUBSET (1 .. N) : s # {} => Max(s) \in 1 .. N /\ g[s] = next[g[s \ {Max(s)}], Max(s)]
  <2>1. HasLeftFold(V, N, c, next)
    <3> HIDE DEF V, N
    <3> QED
      BY <1>1, <1>3, FoldLeftExists DEF V
  <2>2. QED
    BY <2>1 DEF HasLeftFold
<1>5. \A s \in SUBSET (1 .. N) : s # {} => g[s] = ExecuteOne(g[s \ {Max(s)}], tasks[Max(s)])
  BY <1>2, <1>4
<1>6. Is(g)
  BY <1>1, <1>4, <1>5
<1>7. Is(h)
  <2> HIDE DEF Is
  <2> QED
    BY <1>6
<1>8. FoldLeft(ExecuteOne, c, tasks) = h[1 .. N]
  BY <1>1 DEF FoldLeft, MapThenFoldSet
<1>9. h[{}] = c /\ \A s \in SUBSET (1 .. N) : s # {} => h[s] = ExecuteOne(h[s \ {Max(s)}], tasks[Max(s)])
  BY <1>1, <1>7
<1> HIDE DEF h
<1>10. f[0] = c /\ f[N] = h[1 .. N]
  <2>1. 1 .. 0 = {}
    OBVIOUS
  <2>2. QED
    BY <1>1, <1>9, <2>1
<1>11. ASSUME NEW n \in 1 .. N PROVE f[n] = ExecuteOne(f[n - 1], tasks[n])
  <2>1. 1 .. n \in SUBSET (1 .. N) /\ n \in Nat /\ n # 0 /\ n \in 0 .. N /\ n - 1 \in 0 .. N
    BY <1>1
  <2>2. h[1 .. n] = ExecuteOne(h[1 .. n - 1], tasks[n])
    BY <1>9, <2>1, Prefix
  <2>3. QED
    BY <2>1, <2>2
<1>12. QED
  <2> HIDE DEF f
  <2> QED
    BY <1>8, <1>10, <1>11

\* What a transaction makes of the state of a mail.
AfterUnit(u, m, state) ==
    IF m \in Adds(u) /\ state = "none" THEN "alive"
    ELSE IF m \in Dels(u) /\ state = "alive" THEN "deleted"
    ELSE state

\* What a whole transaction does to the DB.
LEMMA DbEffect ==
  ASSUME NEW d \in Dbs, NEW u \in Units
  PROVE  Execute(d, u) = DbOf([m \in MailIds |-> AfterUnit(u, m, d.mail[m])],
                              IF Pays(u) THEN NewGold(u) ELSE d.gold)
<1> DEFINE N == Len(u)
<1>0. u \in Seq(Tasks)
  BY UnitShape
<1>1. u \in Seq(Tasks) /\ N \in Nat
  BY <1>0
<1>2. PICK f : /\ f[0] = d /\ f[N] = FoldLeft(ExecuteOne, d, u)
               /\ \A n \in 1 .. N : f[n] = ExecuteOne(f[n - 1], u[n])
  BY <1>1, DbFold
<1> HIDE DEF N
<1>9. d = DbOf(d.mail, d.gold) /\ d.mail \in [MailIds -> DbStates] /\ d.gold \in Nat
  BY DEF Dbs, DbOf
<1>3. CASE DelsOnly(u)
  <2> DEFINE Gone(n) == {m \in MailIds : \E i \in 1 .. n : u[i] = DelTask(m)}
             Mail(n) == [m \in MailIds |-> IF m \in Gone(n) /\ d.mail[m] = "alive" THEN "deleted" ELSE d.mail[m]]
             T == {n \in 0 .. N : f[n] = DbOf(Mail(n), d.gold)}
  <2>1. 0 \in T
    <3>1. Gone(0) = {} /\ 0 \in 0 .. N
      BY <1>1
    <3>2. Mail(0) = d.mail
      <4> HIDE DEF Gone
      <4> QED
        BY <3>1, <1>9
    <3> HIDE DEF Mail
    <3>3. f[0] = DbOf(Mail(0), d.gold)
      BY <1>2, <1>9, <3>2
    <3>4. QED
      BY <3>1, <3>3
  <2>2. ASSUME NEW n \in 0 .. N - 1, n \in T PROVE n + 1 \in T
    <3>1. n + 1 \in 1 .. N /\ (n + 1) - 1 = n /\ n + 1 \in 0 .. N
      BY <1>1
    <3>2. f[n] = DbOf(Mail(n), d.gold)
      BY <2>2
    <3>3. u[n + 1] = DelTask(u[n + 1].mail) /\ u[n + 1].mail \in MailIds /\ u[n + 1].kind = "del"
      BY <1>3, <3>1, DifferentTasks DEF DelsOnly, N
    <3>4. \A m \in MailIds : (\E i \in 1 .. n + 1 : u[i] = DelTask(m)) <=>
                             (m = u[n + 1].mail \/ \E i \in 1 .. n : u[i] = DelTask(m))
      BY <1>3, <3>1, RemovedSoFar DEF N
    <3>5. Gone(n + 1) = Gone(n) \cup {u[n + 1].mail}
      BY <3>3, <3>4
    <3> HIDE DEF Gone
    <3>6. Mail(n) \in [MailIds -> DbStates]
      BY <1>9 DEF DbStates
    <3>7. Mail(n + 1) = [Mail(n) EXCEPT ![u[n + 1].mail] = IF @ = "alive" THEN "deleted" ELSE @]
      <4> DEFINE x == u[n + 1].mail
      <4> HIDE DEF x
      <4>1. Gone(n + 1) = Gone(n) \cup {x} /\ x \in MailIds
        BY <3>3, <3>5 DEF x
      <4>2. Mail(n + 1) = [Mail(n) EXCEPT ![x] = IF @ = "alive" THEN "deleted" ELSE @]
        BY <4>1, <1>9 DEF DbStates
      <4>3. QED
        BY <4>2 DEF x
    <3> HIDE DEF Mail
    <3>8. f[n + 1] = ExecuteOne(f[n], u[n + 1])
      BY <1>2, <3>1
    <3>9. f[n + 1] = DbOf(Mail(n + 1), d.gold)
      <4>1. f[n + 1] = ExecuteOne(DbOf(Mail(n), d.gold), u[n + 1])
        BY <3>2, <3>8
      <4>2. ExecuteOne(DbOf(Mail(n), d.gold), u[n + 1]) =
               DbOf([Mail(n) EXCEPT ![u[n + 1].mail] = IF @ = "alive" THEN "deleted" ELSE @], d.gold)
        BY <3>3, <3>6, DbStep
      <4>3. QED
        BY <3>7, <4>1, <4>2
    <3>10. QED
      BY <3>1, <3>9
  <2>3. N \in T
    <3> HIDE DEF T
    <3>1. 0 .. N \subseteq T
      BY <1>1, <2>1, <2>2, UpTo
    <3>2. QED
      BY <1>1, <3>1
  <2>4. Gone(N) = Dels(u) /\ Adds(u) = {} /\ ~Pays(u)
    BY <1>3 DEF DelsOnly, N
  <2>5. f[N] = DbOf(Mail(N), d.gold)
    BY <2>3
  <2> HIDE DEF Gone
  <2>6. Mail(N) = [m \in MailIds |-> AfterUnit(u, m, d.mail[m])]
    BY <2>4 DEF AfterUnit
  <2> HIDE DEF Mail
  <2>7. QED
    BY <1>2, <2>4, <2>5, <2>6 DEF Execute
<1>4. ASSUME NEW x \in MailIds, AddsOne(u, x) \/ BuysOne(u, x)
      PROVE  Execute(d, u) = DbOf([m \in MailIds |-> AfterUnit(u, m, d.mail[m])],
                                  IF Pays(u) THEN NewGold(u) ELSE d.gold)
  <2> DEFINE mail == [m \in MailIds |-> AfterUnit(u, m, d.mail[m])]
  <2>1. /\ u[1] = AddTask(x) /\ Adds(u) = {x} /\ Dels(u) = {}
        /\ \/ N = 1 /\ ~Pays(u)
           \/ N = 2 /\ Pays(u) /\ u[2].kind = "gold" /\ u[2].new = NewGold(u)
    BY <1>4, DifferentTasks DEF AddsOne, BuysOne, N
  <2>2. 1 \in 1 .. N /\ 1 - 1 = 0 /\ (N = 2 => 2 \in 1 .. N) /\ 2 - 1 = 1
    BY <2>1
  <2>3. f[1] = ExecuteOne(d, u[1]) /\ (N = 2 => f[2] = ExecuteOne(f[1], u[2]))
    BY <1>2, <2>2
  <2>4. mail = [d.mail EXCEPT ![x] = IF @ = "none" THEN "alive" ELSE @]
    BY <1>4, <1>9, <2>1 DEF AfterUnit
  <2>5. mail \in [MailIds -> DbStates]
    BY <1>9, <2>1 DEF AfterUnit, DbStates
  <2> HIDE DEF mail
  <2>6. f[1] = DbOf(mail, d.gold)
    BY <1>9, <2>1, <2>3, <2>4, DifferentTasks, DbStep
  <2>7. N = 2 => f[2] = DbOf(mail, NewGold(u))
    BY <2>1, <2>3, <2>5, <2>6, DbStep
  <2>8. Execute(d, u) = DbOf(mail, IF Pays(u) THEN NewGold(u) ELSE d.gold)
    BY <1>2, <2>1, <2>6, <2>7 DEF Execute
  <2>9. QED
    BY <2>8 DEF mail
<1>5. QED
  BY <1>3, <1>4, UnitShape

(***************************************************************************)
(* The mail box: MailModel and its cached next expiry.                     *)
(***************************************************************************)

\* A finite set of numbers has a least one, so Earliest is one of the ends.
LEMMA EarliestExists ==
  ASSUME NoExpire \in Int, NEW ends \in Seq(Int), NEW mails, mails \subseteq DOMAIN ends
  PROVE  /\ Earliest(mails, ends) \in EndsOf(mails, ends) \cup {NoExpire}
         /\ \A x \in EndsOf(mails, ends) \cup {NoExpire} : Earliest(mails, ends) <= x
         /\ Earliest(mails, ends) \in Int
<1> DEFINE N == Len(ends)
           S(b) == EndsOf(b, ends) \cup {NoExpire}
           HasLeast(b) == \E x \in S(b) : \A y \in S(b) : x <= y
           T == {n \in 0 .. N : \A b \in SUBSET (1 .. n) : HasLeast(b)}
<1>1. N \in Nat /\ DOMAIN ends = 1 .. N /\ \A n \in 1 .. N : ends[n] \in Int
  OBVIOUS
<1>2. S({}) = {NoExpire}
  BY DEF EndsOf
<1>3. \A b \in SUBSET (1 .. N) : \A m \in b : S(b) = S(b \ {m}) \cup {ends[m]}
  BY DEF EndsOf
<1>4. \A b \in SUBSET (1 .. N) : S(b) \subseteq Int
  BY <1>1 DEF EndsOf
<1> HIDE DEF S, N
<1>5. 0 \in T
  <2>1. \A b \in SUBSET (1 .. 0) : b = {}
    OBVIOUS
  <2>2. HasLeast({})
    BY <1>2
  <2> HIDE DEF HasLeast
  <2>3. 0 \in 0 .. N
    BY <1>1
  <2>4. \A b \in SUBSET (1 .. 0) : HasLeast(b)
    BY <2>1, <2>2
  <2>5. QED
    BY <2>3, <2>4
<1>6. ASSUME NEW n \in 0 .. N - 1, n \in T PROVE n + 1 \in T
  <2>1. n + 1 \in 1 .. N /\ n + 1 \in 0 .. N
    BY <1>1
  <2>2. ASSUME NEW b \in SUBSET (1 .. n + 1) PROVE HasLeast(b)
    <3>0. b \in SUBSET (1 .. N)
      BY <1>1, <2>1
    <3>1. CASE n + 1 \notin b
      <4>1. b \in SUBSET (1 .. n)
        BY <3>1
      <4>2. QED
        BY <1>6, <4>1
    <3>2. CASE n + 1 \in b
      <4>1. b \ {n + 1} \in SUBSET (1 .. n) /\ b \ {n + 1} \in SUBSET (1 .. N)
        BY <3>0
      <4>2. HasLeast(b \ {n + 1})
        BY <1>6, <4>1
      <4>3. PICK x \in S(b \ {n + 1}) : \A y \in S(b \ {n + 1}) : x <= y
        BY <4>2
      <4>4. S(b) = S(b \ {n + 1}) \cup {ends[n + 1]}
        BY <1>3, <3>0, <3>2
      <4>5. x \in Int /\ ends[n + 1] \in Int /\ S(b \ {n + 1}) \subseteq Int
        BY <1>1, <1>4, <2>1, <4>1, <4>3
      <4>6. CASE x <= ends[n + 1]
        <5>1. x \in S(b) /\ \A y \in S(b) : x <= y
          BY <4>3, <4>4, <4>6
        <5>2. QED
          BY <5>1
      <4>7. CASE ~(x <= ends[n + 1])
        <5>1. ends[n + 1] \in S(b) /\ \A y \in S(b) : ends[n + 1] <= y
          <6>1. ASSUME NEW y \in S(b) PROVE ends[n + 1] <= y
            <7>1. CASE y = ends[n + 1]
              BY <4>5, <7>1
            <7>2. CASE y \in S(b \ {n + 1})
              <8>1. x <= y /\ y \in Int
                BY <4>3, <4>5, <7>2
              <8>2. QED
                BY <4>5, <4>7, <8>1
            <7>3. QED
              BY <4>4, <7>1, <7>2
          <6>2. QED
            BY <4>4, <6>1
        <5>2. QED
          BY <5>1
      <4>8. QED
        BY <4>6, <4>7
    <3>3. QED
      BY <3>1, <3>2
  <2>3. QED
    BY <2>1, <2>2
<1>7. 0 .. N \subseteq T
  <2> HIDE DEF T
  <2> QED
    BY <1>1, <1>5, <1>6, UpTo
<1>8. N \in 0 .. N /\ mails \in SUBSET (1 .. N)
  BY <1>1
<1>9. HasLeast(mails)
  BY <1>7, <1>8
<1>10. Earliest(mails, ends) = CHOOSE x \in S(mails) : \A y \in S(mails) : x <= y
  BY DEF Earliest, Min, S
<1>11. Earliest(mails, ends) \in S(mails) /\ \A x \in S(mails) : Earliest(mails, ends) <= x
  BY <1>9, <1>10
<1>12. QED
  BY <1>4, <1>8, <1>11 DEF S

\* There is only one least number.
LEMMA EarliestIs ==
  ASSUME NoExpire \in Int, NEW ends \in Seq(Int), NEW mails, mails \subseteq DOMAIN ends,
         NEW x \in EndsOf(mails, ends) \cup {NoExpire},
         \A y \in EndsOf(mails, ends) \cup {NoExpire} : x <= y
  PROVE  Earliest(mails, ends) = x
<1>1. Earliest(mails, ends) <= x /\ x <= Earliest(mails, ends) /\ Earliest(mails, ends) \in Int
  BY EarliestExists
<1>2. x \in Int
  <2>1. \A m \in mails : ends[m] \in Int
    OBVIOUS
  <2>2. QED
    BY <2>1 DEF EndsOf
<1>3. QED
  BY <1>1, <1>2

\* Adding a mail to the box takes the smaller of the two ends (InsertMail).
LEMMA EarliestOfMore ==
  ASSUME NoExpire \in Int, NEW ends \in Seq(Int), NEW mails, mails \subseteq DOMAIN ends, NEW m \in DOMAIN ends
  PROVE  Earliest(mails \cup {m}, ends) = Min({Earliest(mails, ends), ends[m]})
<1> DEFINE x == Earliest(mails, ends)
           e == ends[m]
           S == EndsOf(mails, ends) \cup {NoExpire}
<1>1. x \in S /\ (\A y \in S : x <= y) /\ x \in Int /\ e \in Int
  BY EarliestExists
<1>2. EndsOf(mails \cup {m}, ends) \cup {NoExpire} = S \cup {e}
  BY DEF EndsOf
<1>3. S \subseteq Int
  <2>1. \A n \in mails : ends[n] \in Int
    OBVIOUS
  <2>2. QED
    BY <2>1 DEF EndsOf
<1> HIDE DEF x, e, S
<1>4. CASE x <= e
  <2>1. Min({x, e}) = x
    BY <1>1, <1>4 DEF Min
  <2>2. \A y \in S \cup {e} : x <= y
    BY <1>1, <1>4
  <2>3. Earliest(mails \cup {m}, ends) = x
    BY <1>1, <1>2, <2>2, EarliestIs
  <2>4. QED
    BY <2>1, <2>3 DEF x, e
<1>5. CASE e <= x
  <2>1. Min({x, e}) = e
    BY <1>1, <1>5 DEF Min
  <2>2. \A y \in S \cup {e} : e <= y
    BY <1>1, <1>3, <1>5
  <2>3. Earliest(mails \cup {m}, ends) = e
    BY <1>1, <1>2, <2>2, EarliestIs
  <2>4. QED
    BY <2>1, <2>3 DEF x, e
<1>6. QED
  BY <1>1, <1>4, <1>5

\* A later mail's end is nothing to the mails before it.
LEMMA EarliestOfBefore ==
  ASSUME NEW ends \in Seq(Int), NEW mails, mails \subseteq DOMAIN ends, NEW end \in Int
  PROVE  Earliest(mails, Append(ends, end)) = Earliest(mails, ends)
<1>1. \A m \in mails : Append(ends, end)[m] = ends[m]
  OBVIOUS
<1>2. EndsOf(mails, Append(ends, end)) = EndsOf(mails, ends)
  BY <1>1 DEF EndsOf
<1>3. QED
  BY <1>2 DEF Earliest

\* The zone's models, with nextExpireUt_ what it should be.
ContentOf(mails, gold) == [box |-> mails, next |-> Earliest(mails, endOf), gold |-> gold]

Contents(gold) == {ContentOf(mails, gold) : mails \in SUBSET DOMAIN endOf}

\* What RemoveMail does to the three fields of the models.
LEMMA RemovedForm ==
  ASSUME NEW mails, NEW next, NEW gold, NEW m
  PROVE  Removed([box |-> mails, next |-> next, gold |-> gold], m) =
            [box |-> mails \ {m}, next |-> IF endOf[m] <= next THEN Earliest(mails \ {m}, endOf) ELSE next,
             gold |-> gold]
<1>1. ASSUME NEW x, NEW y
      PROVE  [[box |-> mails, next |-> next, gold |-> gold] EXCEPT !.box = x, !.next = y] =
                [box |-> x, next |-> y, gold |-> gold]
  <2>1. [[box |-> mails, next |-> next, gold |-> gold] EXCEPT !.box = x] =
           [box |-> x, next |-> next, gold |-> gold]
    OBVIOUS
  <2>2. [[box |-> x, next |-> next, gold |-> gold] EXCEPT !.next = y] =
           [box |-> x, next |-> y, gold |-> gold]
    OBVIOUS
  <2>3. QED
    BY <2>1, <2>2
<1>2. QED
  BY <1>1 DEF Removed

\* RemoveMail keeps nextExpireUt_ what it should be.
LEMMA RemovedIs ==
  ASSUME NoExpire \in Int, endOf \in Seq(Int), NEW mails \in SUBSET DOMAIN endOf, NEW gold, NEW m \in DOMAIN endOf
  PROVE  Removed(ContentOf(mails, gold), m) = ContentOf(mails \ {m}, gold)
<1> DEFINE x == Earliest(mails, endOf)
           y == Earliest(mails \ {m}, endOf)
           c == ContentOf(mails, gold)
<1>1. c = [box |-> mails, next |-> x, gold |-> gold]
  BY DEF ContentOf
<1>2. /\ ContentOf(mails \ {m}, gold) = [box |-> mails \ {m}, next |-> y, gold |-> gold]
      /\ Earliest(c.box \ {m}, endOf) = y
  BY DEF ContentOf
<1>3. ASSUME ~(endOf[m] <= x) PROVE y = x
  <2>1. /\ x \in EndsOf(mails, endOf) \cup {NoExpire} /\ x \in Int
        /\ \A z \in EndsOf(mails, endOf) \cup {NoExpire} : x <= z
    BY EarliestExists
  <2>2. x # endOf[m]
    BY <1>3, <2>1
  <2> HIDE DEF x
  <2>3. x \in EndsOf(mails \ {m}, endOf) \cup {NoExpire}
    BY <2>1, <2>2 DEF EndsOf
  <2>4. \A z \in EndsOf(mails \ {m}, endOf) \cup {NoExpire} : x <= z
    BY <2>1 DEF EndsOf
  <2>5. QED
    BY <2>3, <2>4, EarliestIs
<1> HIDE DEF x, y
<1>4. Removed(c, m) = [box |-> mails \ {m}, next |-> IF endOf[m] <= x THEN y ELSE x, gold |-> gold]
  <2> HIDE DEF c
  <2> QED
    <3>1. Earliest(mails \ {m}, endOf) = y
      BY DEF y
    <3>2. QED
      BY <1>1, <3>1, RemovedForm
<1>5. QED
  BY <1>2, <1>3, <1>4

\* ... and so the form of the models.
LEMMA ContentStays ==
  ASSUME NoExpire \in Int, endOf \in Seq(Int), NEW gold, NEW c \in Contents(gold), NEW m \in DOMAIN endOf
  PROVE  Removed(c, m) \in Contents(gold)
<1>1. PICK mails \in SUBSET DOMAIN endOf : c = ContentOf(mails, gold)
  BY DEF Contents
<1>2. Removed(c, m) = ContentOf(mails \ {m}, gold)
  BY <1>1, RemovedIs
<1>3. QED
  BY <1>2 DEF Contents

RemovalFolds(c, q) ==
    \E f : /\ f[0] = c /\ f[Len(q)] = FoldLeft(Removed, c, q)
           /\ \A n \in 1 .. Len(q) : f[n] = Removed(f[n - 1], q[n])

\* The models after each removal.
LEMMA RemovedFold ==
  ASSUME NoExpire \in Int, endOf \in Seq(Int), NEW gold, NEW c \in Contents(gold), NEW tasks \in Seq(DOMAIN endOf)
  PROVE  RemovalFolds(c, tasks)
<1> DEFINE N == Len(tasks)
           V == Contents(gold)
           next == [x \in V \X (1 .. N) |-> Removed(x[1], tasks[x[2]])]
           Is(g) == g = [s \in SUBSET DOMAIN tasks |->
                            IF s = {} THEN c ELSE Removed(g[s \ {Max(s)}], tasks[Max(s)])]
           h == CHOOSE g : Is(g)
           f == [n \in 0 .. N |-> h[1 .. n]]
<1>1. N \in Nat /\ DOMAIN tasks = 1 .. N /\ \A n \in 1 .. N : tasks[n] \in DOMAIN endOf
  OBVIOUS
<1>2. \A x \in V \X (1 .. N) : next[x] = Removed(x[1], tasks[x[2]]) /\ next[x] \in V
  BY <1>1, ContentStays
<1>3. next \in [V \X (1 .. N) -> V]
  <2>1. next = [x \in V \X (1 .. N) |-> next[x]]
    OBVIOUS
  <2> HIDE DEF next
  <2> QED
    BY <1>2, <2>1
<1> HIDE DEF next
<1>4. PICK g \in [SUBSET (1 .. N) -> V] :
         /\ g[{}] = c
         /\ \A s \in SUBSET (1 .. N) : s # {} => Max(s) \in 1 .. N /\ g[s] = next[g[s \ {Max(s)}], Max(s)]
  <2>1. HasLeftFold(V, N, c, next)
    <3> HIDE DEF V, N
    <3> QED
      BY <1>1, <1>3, FoldLeftExists DEF V
  <2>2. QED
    BY <2>1 DEF HasLeftFold
<1>5. \A s \in SUBSET (1 .. N) : s # {} => g[s] = Removed(g[s \ {Max(s)}], tasks[Max(s)])
  BY <1>2, <1>4
<1>6. Is(g)
  BY <1>1, <1>4, <1>5
<1>7. Is(h)
  <2> HIDE DEF Is
  <2> QED
    BY <1>6
<1>8. FoldLeft(Removed, c, tasks) = h[1 .. N]
  BY <1>1 DEF FoldLeft, MapThenFoldSet
<1>9. h[{}] = c /\ \A s \in SUBSET (1 .. N) : s # {} => h[s] = Removed(h[s \ {Max(s)}], tasks[Max(s)])
  BY <1>1, <1>7
<1> HIDE DEF h
<1>10. f[0] = c /\ f[N] = h[1 .. N]
  <2>1. 1 .. 0 = {}
    OBVIOUS
  <2>2. QED
    BY <1>1, <1>9, <2>1
<1>11. ASSUME NEW n \in 1 .. N PROVE f[n] = Removed(f[n - 1], tasks[n])
  <2>1. 1 .. n \in SUBSET (1 .. N) /\ n \in Nat /\ n # 0 /\ n \in 0 .. N /\ n - 1 \in 0 .. N
    BY <1>1
  <2>2. h[1 .. n] = Removed(h[1 .. n - 1], tasks[n])
    BY <1>9, <2>1, Prefix
  <2>3. QED
    BY <2>1, <2>2
<1>12. QED
  <2> HIDE DEF f
  <2> QED
    BY <1>8, <1>10, <1>11 DEF RemovalFolds

\* SetToSeq lists a set, each element somewhere.
LEMMA Listed ==
  ASSUME NEW N \in Nat, NEW S \in SUBSET (1 .. N)
  PROVE  LET q == SetToSeq(S) IN
         /\ q \in Seq(S) /\ (q = <<>> <=> S = {}) /\ ToSet(q) = S
         /\ \A m \in S : \E i \in 1 .. Len(q) : q[i] = m
         /\ \A i \in 1 .. Len(q) : q[i] \in S
<1> DEFINE n == Cardinality(S)
           q == SetToSeq(S)
<1>1. IsFiniteSet(S) /\ n \in Nat /\ (n = 0 <=> S = {})
  BY CardinalityUpTo
<1>2. ExistsBijection(1 .. n, S)
  BY <1>1, FS_CardinalityType
<1>3. PICK b \in [1 .. n -> S] : IsInjective(b)
  BY <1>2 DEF ExistsBijection, Bijection, Injection, IsInjective
<1>4. q \in [1 .. n -> S] /\ IsInjective(q)
  BY <1>3 DEF SetToSeq
<1> HIDE DEF q
<1>5. q \in Injection(1 .. n, S)
  BY <1>4 DEF Injection, IsInjective
<1>6. IsFiniteSet(1 .. n) /\ Cardinality(1 .. n) = n
  BY <1>1, FS_Interval
<1>7. q \in Surjection(1 .. n, S)
  <2> HIDE DEF n
  <2>1. Cardinality(1 .. n) = Cardinality(S)
    BY <1>6 DEF n
  <2>2. QED
    BY <1>1, <1>5, <2>1, FS_Injection
<1>8. \A m \in S : \E i \in 1 .. n : q[i] = m
  BY <1>7 DEF Surjection
<1> HIDE DEF n
<1>9. q \in Seq(S) /\ Len(q) = n
  BY <1>1, <1>4
<1>10. ToSet(q) = {q[i] : i \in 1 .. n}
  BY <1>4 DEF ToSet
<1>11. ToSet(q) = S
  BY <1>4, <1>8, <1>10
<1>12. q = <<>> <=> S = {}
  BY <1>1, <1>9
<1>13. QED
  BY <1>4, <1>8, <1>9, <1>11, <1>12 DEF q

\* TickMail's removals.
LEMMA RemovedEffect ==
  ASSUME NoExpire \in Int, endOf \in Seq(Int), NEW gold, NEW mails \in SUBSET DOMAIN endOf,
         NEW S \in SUBSET DOMAIN endOf
  PROVE  FoldLeft(Removed, ContentOf(mails, gold), SetToSeq(S)) = ContentOf(mails \ S, gold)
<1> DEFINE q == SetToSeq(S)
           c == ContentOf(mails, gold)
           N == Len(q)
<1>1. DOMAIN endOf = 1 .. Len(endOf) /\ Len(endOf) \in Nat
  OBVIOUS
<1>2. /\ q \in Seq(S) /\ (\A m \in S : \E i \in 1 .. N : q[i] = m) /\ \A i \in 1 .. N : q[i] \in S
  BY <1>1, Listed
<1> HIDE DEF q
<1>3. N \in Nat /\ q \in Seq(DOMAIN endOf)
  BY <1>2
<1>4. c \in Contents(gold)
  BY DEF Contents
<1>5. PICK f : /\ f[0] = c /\ f[N] = FoldLeft(Removed, c, q)
               /\ \A n \in 1 .. N : f[n] = Removed(f[n - 1], q[n])
  <2> HIDE DEF c
  <2>1. RemovalFolds(c, q)
    BY <1>3, <1>4, RemovedFold
  <2>2. QED
    BY <2>1 DEF RemovalFolds, N
<1> HIDE DEF N
<1> DEFINE Left(n) == mails \ {m \in S : \E i \in 1 .. n : q[i] = m}
           T == {n \in 0 .. N : f[n] = ContentOf(Left(n), gold)}
<1>6. 0 \in T
  <2>1. Left(0) = mails /\ 0 \in 0 .. N
    BY <1>3
  <2> HIDE DEF Left
  <2>2. f[0] = ContentOf(Left(0), gold)
    BY <1>5, <2>1
  <2>3. QED
    BY <2>1, <2>2
<1>7. ASSUME NEW n \in 0 .. N - 1, n \in T PROVE n + 1 \in T
  <2>1. n + 1 \in 1 .. N /\ (n + 1) - 1 = n /\ n + 1 \in 0 .. N /\ \A i : i \in 1 .. n + 1 <=> i = n + 1 \/ i \in 1 .. n
    BY <1>3
  <2>2. f[n] = ContentOf(Left(n), gold)
    BY <1>7
  <2>3. q[n + 1] \in S
    BY <1>2, <2>1 DEF N
  <2>4. Left(n + 1) = Left(n) \ {q[n + 1]} /\ Left(n) \in SUBSET DOMAIN endOf
    BY <2>1, <2>3
  <2> HIDE DEF Left
  <2>5. f[n + 1] = Removed(f[n], q[n + 1])
    BY <1>5, <2>1
  <2>6. f[n + 1] = ContentOf(Left(n + 1), gold)
    BY <2>2, <2>3, <2>4, <2>5, RemovedIs
  <2>7. QED
    BY <2>1, <2>6
<1>8. N \in T
  <2> HIDE DEF T
  <2>1. 0 .. N \subseteq T
    BY <1>3, <1>6, <1>7, UpTo
  <2>2. QED
    BY <1>3, <2>1
<1>9. Left(N) = mails \ S
  BY <1>2 DEF N
<1>10. QED
  BY <1>5, <1>8, <1>9 DEF q

(***************************************************************************)
(* Sums.                                                                   *)
(***************************************************************************)
Total(f, S) == MapThenSumSet(LAMBDA m : f[m], S)

AnyOf(s) == CHOOSE x \in s : TRUE

SumsUp(f, N, g) ==
    /\ g \in [SUBSET (1 .. N) -> Nat] /\ g[{}] = 0
    /\ \A s \in SUBSET (1 .. N) : s # {} => g[s] = f[AnyOf(s)] + g[s \ {AnyOf(s)}]

\* There is a function that gives the sum over every set of numbers up to N.
LEMMA SumExists ==
  ASSUME NEW N \in Nat, NEW f \in [1 .. N -> Nat]
  PROVE  \E g : SumsUp(f, N, g)
<1> DEFINE next == [x \in Nat \X (1 .. N) |-> f[x[2]] + x[1]]
           pick == [s \in SUBSET (1 .. N) |-> IF s = {} THEN 0 ELSE AnyOf(s)]
<1>1. \A x \in Nat \X (1 .. N) : next[x] = f[x[2]] + x[1] /\ next[x] \in Nat
  OBVIOUS
<1>2. next \in [Nat \X (1 .. N) -> Nat]
  <2>1. next = [x \in Nat \X (1 .. N) |-> next[x]]
    OBVIOUS
  <2> HIDE DEF next
  <2>2. QED
    BY <1>1, <2>1
<1> HIDE DEF next
<1>3. \A s : s # {} => AnyOf(s) \in s
  BY DEF AnyOf
<1>4. ASSUME NEW s \in SUBSET (1 .. N), s # {} PROVE AnyOf(s) \in 1 .. N /\ s \ {AnyOf(s)} \in SUBSET (1 .. N)
  BY <1>3, <1>4
<1>5. /\ \A s \in SUBSET (1 .. N) : s # {} => pick[s] = AnyOf(s)
      /\ \A s \in SUBSET (1 .. N) : s = {} => pick[s] = 0
      /\ pick = [s \in SUBSET (1 .. N) |-> pick[s]]
  OBVIOUS
<1> HIDE DEF pick
<1>6. ASSUME NEW s \in SUBSET (1 .. N) PROVE pick[s] \in Nat
  <2>1. CASE s = {}
    <3>1. pick[s] = 0
      BY <1>5, <2>1
    <3>2. QED
      BY <3>1
  <2>2. CASE s # {}
    <3>1. pick[s] = AnyOf(s) /\ AnyOf(s) \in 1 .. N
      BY <1>4, <1>5, <2>2
    <3>2. 1 .. N \subseteq Nat
      OBVIOUS
    <3>3. QED
      BY <3>1, <3>2
  <2>3. QED
    BY <2>1, <2>2
<1>7. pick \in Picks(N)
  BY <1>3, <1>5, <1>6 DEF Picks
<1>8. HasFold(Nat, N, 0, next, pick)
  BY <1>2, <1>7, FoldExists
<1>9. PICK g \in [SUBSET (1 .. N) -> Nat] :
        /\ g[{}] = 0
        /\ \A s \in SUBSET (1 .. N) : s # {} => g[s] = next[g[s \ {pick[s]}], pick[s]]
  BY <1>8 DEF HasFold
<1>10. ASSUME NEW s \in SUBSET (1 .. N), s # {} PROVE g[s] = f[AnyOf(s)] + g[s \ {AnyOf(s)}]
  <2>1. g[s] = next[g[s \ {AnyOf(s)}], AnyOf(s)]
    BY <1>5, <1>9, <1>10
  <2>2. g[s \ {AnyOf(s)}] \in Nat /\ AnyOf(s) \in 1 .. N
    BY <1>4, <1>10
  <2>3. <<g[s \ {AnyOf(s)}], AnyOf(s)>> \in Nat \X (1 .. N)
    BY <2>2
  <2>4. QED
    BY <1>1, <2>1, <2>3
<1>11. QED
  BY <1>9, <1>10 DEF SumsUp

\* One function gives the sums over every set of mails.
LEMMA SumIs ==
  ASSUME NEW N \in Nat, NEW f \in [1 .. N -> Nat], NEW g, SumsUp(f, N, g), NEW S \in SUBSET (1 .. N)
  PROVE  Total(f, S) = g[S]
<1> DEFINE Is(j) == j = [s \in SUBSET S |-> IF s = {} THEN 0 ELSE f[AnyOf(s)] + j[s \ {AnyOf(s)}]]
           h == CHOOSE j : Is(j)
           r == [s \in SUBSET S |-> g[s]]
<1>1. \A s \in SUBSET S : s \in SUBSET (1 .. N) /\ (s # {} => AnyOf(s) \in s /\ s \ {AnyOf(s)} \in SUBSET S)
  BY DEF AnyOf
<1>2. Is(r)
  <2>1. ASSUME NEW s \in SUBSET S PROVE r[s] = IF s = {} THEN 0 ELSE f[AnyOf(s)] + r[s \ {AnyOf(s)}]
    <3>1. CASE s = {}
      BY <3>1 DEF SumsUp
    <3>2. CASE s # {}
      <4>1. g[s] = f[AnyOf(s)] + g[s \ {AnyOf(s)}]
        BY <1>1, <3>2 DEF SumsUp
      <4>2. r[s] = g[s] /\ r[s \ {AnyOf(s)}] = g[s \ {AnyOf(s)}]
        BY <1>1, <3>2
      <4>3. QED
        BY <3>2, <4>1, <4>2
    <3>3. QED
      BY <3>1, <3>2
  <2>2. r = [s \in SUBSET S |-> r[s]]
    OBVIOUS
  <2> HIDE DEF r
  <2>3. QED
    BY <2>1, <2>2
<1>3. Is(h)
  <2> HIDE DEF Is
  <2>1. QED
    BY <1>2
<1>4. Total(f, S) = h[S]
  BY DEF Total, MapThenSumSet, MapThenFoldSet, AnyOf
<1>5. \A s \in SUBSET S : h[s] = IF s = {} THEN 0 ELSE f[AnyOf(s)] + h[s \ {AnyOf(s)}]
  BY <1>3
<1> HIDE DEF h
<1> DEFINE T == {k \in Nat : \A s \in SUBSET S : Cardinality(s) <= k => h[s] = g[s]}
<1>6. 0 \in T
  <2>1. ASSUME NEW s \in SUBSET S, Cardinality(s) <= 0 PROVE h[s] = g[s]
    <3>1. s = {}
      BY <1>1, <2>1, CardinalityUpTo
    <3>2. QED
      BY <1>5, <3>1 DEF SumsUp
  <2>2. QED
    BY <2>1
<1>7. ASSUME NEW k \in Nat, k \in T PROVE k + 1 \in T
  <2>1. ASSUME NEW s \in SUBSET S, Cardinality(s) <= k + 1 PROVE h[s] = g[s]
    <3>1. CASE s = {}
      BY <1>5, <3>1 DEF SumsUp
    <3>2. CASE s # {}
      <4>1. AnyOf(s) \in s /\ s \ {AnyOf(s)} \in SUBSET S /\ s \in SUBSET (1 .. N)
        BY <1>1, <3>2
      <4>2. Cardinality(s \ {AnyOf(s)}) <= k
        <5>1. Cardinality(s \ {AnyOf(s)}) = Cardinality(s) - 1 /\ Cardinality(s) \in 0 .. N
          BY <4>1, CardinalityUpTo
        <5>2. QED
          BY <2>1, <5>1
      <4>3. h[s \ {AnyOf(s)}] = g[s \ {AnyOf(s)}]
        BY <1>7, <4>1, <4>2
      <4>4. h[s] = f[AnyOf(s)] + h[s \ {AnyOf(s)}]
        BY <1>5, <3>2
      <4>5. g[s] = f[AnyOf(s)] + g[s \ {AnyOf(s)}]
        BY <3>2, <4>1 DEF SumsUp
      <4>6. QED
        BY <4>3, <4>4, <4>5
    <3>3. QED
      BY <3>1, <3>2
  <2>2. QED
    BY <2>1
<1>8. Cardinality(S) \in T /\ S \in SUBSET S
  <2> HIDE DEF T
  <2>1. Cardinality(S) \in Nat
    BY CardinalityUpTo
  <2>2. QED
    BY <1>6, <1>7, <2>1, AllNumbers
<1>9. Cardinality(S) <= Cardinality(S)
  <2>1. Cardinality(S) \in Nat
    BY CardinalityUpTo
  <2>2. QED
    BY <2>1
<1>10. QED
  BY <1>4, <1>8, <1>9

\* A sum of prices is a number, and none sum to 0.
LEMMA TotalType ==
  ASSUME NEW N \in Nat, NEW f \in [1 .. N -> Nat], NEW S \in SUBSET (1 .. N)
  PROVE  Total(f, S) \in Nat /\ Total(f, {}) = 0
<1>1. PICK g : SumsUp(f, N, g)
  BY SumExists
<1>2. {} \in SUBSET (1 .. N)
  OBVIOUS
<1>3. Total(f, S) = g[S] /\ Total(f, {}) = g[{}]
  BY <1>1, <1>2, SumIs
<1>4. QED
  BY <1>1, <1>3 DEF SumsUp

\* The order of a sum does not matter: any element can be taken off.
LEMMA TotalWithout ==
  ASSUME NEW N \in Nat, NEW f \in [1 .. N -> Nat], NEW S \in SUBSET (1 .. N), NEW x \in S
  PROVE  Total(f, S) = f[x] + Total(f, S \ {x})
<1>1. PICK g : SumsUp(f, N, g)
  BY SumExists
<1> DEFINE Chosen(s) == \A y \in s : g[s] = f[y] + g[s \ {y}]
           T == {k \in Nat : \A s \in SUBSET (1 .. N) : Cardinality(s) <= k => Chosen(s)}
<1>2. 0 \in T
  <2>1. ASSUME NEW s \in SUBSET (1 .. N), Cardinality(s) <= 0 PROVE Chosen(s)
    <3>1. s = {}
      BY <2>1, CardinalityUpTo
    <3>2. QED
      BY <3>1
  <2>2. QED
    BY <2>1
<1>3. ASSUME NEW k \in Nat, k \in T PROVE k + 1 \in T
  <2>1. ASSUME NEW s \in SUBSET (1 .. N), Cardinality(s) <= k + 1, NEW y \in s PROVE g[s] = f[y] + g[s \ {y}]
    <3> DEFINE p == AnyOf(s)
    <3>1. p \in s
      BY DEF AnyOf
    <3>2. g[s] = f[p] + g[s \ {p}]
      BY <1>1 DEF SumsUp
    <3> HIDE DEF p
    <3>3. CASE p = y
      BY <3>2, <3>3
    <3>4. CASE p # y
      <4>1. \A z \in s : s \ {z} \in SUBSET (1 .. N) /\ Cardinality(s \ {z}) <= k
        <5>1. \A z \in s : Cardinality(s \ {z}) = Cardinality(s) - 1
          BY CardinalityUpTo
        <5>2. Cardinality(s) \in 0 .. N
          BY CardinalityUpTo
        <5>3. QED
          BY <2>1, <5>1, <5>2
      <4>2. g[s \ {p}] = f[y] + g[(s \ {p}) \ {y}]
        BY <1>3, <3>1, <3>4, <4>1
      <4>3. g[s \ {y}] = f[p] + g[(s \ {y}) \ {p}]
        BY <1>3, <3>1, <3>4, <4>1
      <4>4. (s \ {p}) \ {y} = (s \ {y}) \ {p} /\ (s \ {y}) \ {p} \in SUBSET (1 .. N)
        OBVIOUS
      <4>5. g[(s \ {y}) \ {p}] \in Nat /\ f[p] \in Nat /\ f[y] \in Nat
        BY <1>1, <3>1, <4>4 DEF SumsUp
      <4>6. \A a, b, c \in Nat : a + (b + c) = b + (a + c)
        OBVIOUS
      <4>7. f[p] + (f[y] + g[(s \ {y}) \ {p}]) = f[y] + (f[p] + g[(s \ {y}) \ {p}])
        BY <4>5, <4>6
      <4>8. g[s] = f[p] + (f[y] + g[(s \ {y}) \ {p}])
        BY <3>2, <4>2, <4>4
      <4>9. QED
        BY <4>3, <4>7, <4>8
    <3>5. QED
      BY <3>3, <3>4
  <2>2. \A s \in SUBSET (1 .. N) : Cardinality(s) <= k + 1 => Chosen(s)
    BY <2>1
  <2> HIDE DEF Chosen
  <2>3. QED
    BY <2>2
<1>4. Cardinality(S) \in T
  <2> HIDE DEF T
  <2>1. Cardinality(S) \in Nat
    BY CardinalityUpTo
  <2>2. QED
    BY <1>2, <1>3, <2>1, AllNumbers
<1>5. Chosen(S)
  <2>1. Cardinality(S) <= Cardinality(S)
    <3>1. Cardinality(S) \in Nat
      BY CardinalityUpTo
    <3>2. QED
      BY <3>1
  <2>2. QED
    BY <1>4, <2>1
<1>6. S \ {x} \in SUBSET (1 .. N)
  OBVIOUS
<1>7. Total(f, S) = g[S] /\ Total(f, S \ {x}) = g[S \ {x}]
  BY <1>1, <1>6, SumIs
<1>8. QED
  BY <1>5, <1>7

\* A larger set sums to no less, and to the same if what is more adds nothing.
LEMMA TotalOfMore ==
  ASSUME NEW N \in Nat, NEW f \in [1 .. N -> Nat], NEW U \in SUBSET (1 .. N), NEW S \in SUBSET U
  PROVE  /\ Total(f, S) <= Total(f, U)
         /\ (\A m \in U \ S : f[m] = 0) => Total(f, S) = Total(f, U)
<1> DEFINE More(s) == /\ Total(f, S) <= Total(f, s)
                      /\ (\A m \in s \ S : f[m] = 0) => Total(f, S) = Total(f, s)
           T == {k \in Nat : \A s \in SUBSET (1 .. N) : S \subseteq s /\ Cardinality(s \ S) <= k => More(s)}
<1>1. \A s \in SUBSET (1 .. N) : Total(f, s) \in Nat
  BY TotalType
<1>2. S \in SUBSET (1 .. N)
  OBVIOUS
<1>3. More(S)
  BY <1>1, <1>2
<1>4. 0 \in T
  <2>1. ASSUME NEW s \in SUBSET (1 .. N), S \subseteq s, Cardinality(s \ S) <= 0 PROVE s = S
    <3>1. s \ S \in SUBSET (1 .. N)
      OBVIOUS
    <3>2. s \ S = {}
      BY <2>1, <3>1, CardinalityUpTo
    <3>3. QED
      BY <2>1, <3>2
  <2> HIDE DEF More
  <2>2. QED
    BY <1>3, <2>1
<1>5. ASSUME NEW k \in Nat, k \in T PROVE k + 1 \in T
  <2>1. ASSUME NEW s \in SUBSET (1 .. N), S \subseteq s, Cardinality(s \ S) <= k + 1 PROVE More(s)
    <3>1. CASE s = S
      BY <1>3, <3>1
    <3>2. CASE s # S
      <4>1. PICK x \in s : x \notin S
        BY <2>1, <3>2
      <4>2. s \ {x} \in SUBSET (1 .. N) /\ S \subseteq s \ {x} /\ x \in 1 .. N
        BY <2>1, <4>1
      <4>3. Cardinality((s \ {x}) \ S) <= k
        <5>1. (s \ {x}) \ S = (s \ S) \ {x} /\ s \ S \in SUBSET (1 .. N) /\ x \in s \ S
          BY <4>1
        <5>2. Cardinality((s \ S) \ {x}) = Cardinality(s \ S) - 1 /\ Cardinality(s \ S) \in 0 .. N
          BY <5>1, CardinalityUpTo
        <5>3. Cardinality((s \ S) \ {x}) <= k
          BY <2>1, <5>2
        <5>4. QED
          BY <5>1, <5>3
      <4>4. More(s \ {x})
        BY <1>5, <4>2, <4>3
      <4>5. Total(f, s) = f[x] + Total(f, s \ {x})
        BY TotalWithout
      <4>6. f[x] \in Nat /\ Total(f, s \ {x}) \in Nat /\ Total(f, S) \in Nat
        BY <1>1, <1>2, <4>2
      <4>7. Total(f, S) <= Total(f, s)
        <5>1. Total(f, S) <= Total(f, s \ {x})
          BY <4>4
        <5>2. QED
          BY <4>5, <4>6, <5>1
      <4>8. ASSUME \A m \in s \ S : f[m] = 0 PROVE Total(f, S) = Total(f, s)
        <5>1. f[x] = 0 /\ \A m \in (s \ {x}) \ S : f[m] = 0
          BY <4>1, <4>8
        <5>2. Total(f, S) = Total(f, s \ {x})
          BY <4>4, <5>1
        <5>3. QED
          BY <4>5, <4>6, <5>1, <5>2
      <4>9. QED
        BY <4>7, <4>8
    <3>3. QED
      BY <3>1, <3>2
  <2> HIDE DEF More
  <2>2. QED
    BY <2>1
<1>6. Cardinality(U \ S) \in T
  <2> HIDE DEF T
  <2>1. Cardinality(U \ S) \in Nat
    <3>1. U \ S \in SUBSET (1 .. N)
      OBVIOUS
    <3>2. QED
      BY <3>1, CardinalityUpTo
  <2>2. QED
    BY <1>4, <1>5, <2>1, AllNumbers
<1>7. Cardinality(U \ S) <= Cardinality(U \ S)
  <2>1. Cardinality(U \ S) \in Nat
    BY <1>6
  <2>2. QED
    BY <2>1
<1>8. More(U)
  <2> HIDE DEF More
  <2>1. QED
    BY <1>6, <1>7
<1>9. QED
  BY <1>8

\* A sum with one element more.
LEMMA TotalWith ==
  ASSUME NEW N \in Nat, NEW f \in [1 .. N -> Nat], NEW S \in SUBSET (1 .. N), NEW x \in 1 .. N, x \notin S
  PROVE  Total(f, S \cup {x}) = f[x] + Total(f, S)
<1>1. S \cup {x} \in SUBSET (1 .. N) /\ x \in S \cup {x} /\ (S \cup {x}) \ {x} = S
  OBVIOUS
<1>2. QED
  BY <1>1, TotalWithout

\* Only what is summed up counts.
LEMMA TotalOfSame ==
  ASSUME NEW N \in Nat, NEW f \in [1 .. N -> Nat], NEW g \in [1 .. N -> Nat], NEW S \in SUBSET (1 .. N),
         \A m \in S : f[m] = g[m]
  PROVE  Total(f, S) = Total(g, S)
<1> DEFINE T == {k \in Nat : \A s \in SUBSET S : Cardinality(s) <= k => Total(f, s) = Total(g, s)}
<1>1. \A s \in SUBSET S : s \in SUBSET (1 .. N)
  OBVIOUS
<1>6. \A s \in SUBSET (1 .. N) : \A x \in s : Total(f, s) = f[x] + Total(f, s \ {x})
  BY TotalWithout
<1>7. \A s \in SUBSET (1 .. N) : \A x \in s : Total(g, s) = g[x] + Total(g, s \ {x})
  BY TotalWithout
<1>2. 0 \in T
  <2>1. ASSUME NEW s \in SUBSET S, Cardinality(s) <= 0 PROVE Total(f, s) = Total(g, s)
    <3>1. s = {}
      BY <1>1, <2>1, CardinalityUpTo
    <3>2. Total(f, {}) = 0 /\ Total(g, {}) = 0
      BY TotalType
    <3>3. QED
      BY <3>1, <3>2
  <2>2. QED
    BY <2>1
<1>3. ASSUME NEW k \in Nat, k \in T PROVE k + 1 \in T
  <2>1. ASSUME NEW s \in SUBSET S, Cardinality(s) <= k + 1 PROVE Total(f, s) = Total(g, s)
    <3>1. CASE s = {}
      <4>1. Total(f, {}) = 0 /\ Total(g, {}) = 0
        BY TotalType
      <4>2. QED
        BY <3>1, <4>1
    <3>2. CASE s # {}
      <4>1. PICK x \in s : TRUE
        BY <3>2
      <4>2. s \ {x} \in SUBSET S /\ s \in SUBSET (1 .. N) /\ f[x] = g[x]
        OBVIOUS
      <4>3. Cardinality(s \ {x}) <= k
        <5>1. Cardinality(s \ {x}) = Cardinality(s) - 1 /\ Cardinality(s) \in 0 .. N
          BY <4>2, CardinalityUpTo
        <5>2. QED
          BY <2>1, <5>1
      <4>4. Total(f, s \ {x}) = Total(g, s \ {x})
        BY <1>3, <4>2, <4>3
      <4>5. Total(f, s) = f[x] + Total(f, s \ {x}) /\ Total(g, s) = g[x] + Total(g, s \ {x})
        BY <1>6, <1>7, <4>2
      <4>6. QED
        BY <4>2, <4>4, <4>5
    <3>3. QED
      BY <3>1, <3>2
  <2>2. QED
    BY <2>1
<1>4. Cardinality(S) \in T /\ Cardinality(S) <= Cardinality(S)
  <2> HIDE DEF T
  <2>1. Cardinality(S) \in Nat
    BY CardinalityUpTo
  <2>2. Cardinality(S) \in T
    BY <1>2, <1>3, <2>1, AllNumbers
  <2>3. QED
    BY <2>1, <2>2
<1>5. QED
  BY <1>4

(***************************************************************************)
(* Types, and what the requests and the tick do to the models.             *)
(***************************************************************************)

Known == DOMAIN endOf
Packets == [type : {"stream", "result"}, tasks : Units, error : BOOLEAN]

ContentOK ==
    /\ endOf \in Seq(Int) /\ Len(endOf) \in Len(InitialEnds) .. MaxMailId
    /\ content.box \subseteq Known /\ content.gold \in Nat
    /\ content = ContentOf(content.box, content.gold)

BasicOK ==
    /\ basic \in [step : {"idle", "pay", "close", "answer"}, tasks : Units, price : Nat, error : BOOLEAN]
    /\ Adds(basic.tasks) \subseteq Known
    /\ basic.step = "idle" => basic.tasks = <<>> /\ ~basic.error
    /\ basic.step = "pay" => ~basic.error /\ \E m \in Known : basic.tasks = <<AddTask(m)>>
    /\ basic.error /\ basic.step = "close" =>
           basic.tasks = <<>> \/ \E m \in Known : basic.tasks = <<AddTask(m)>>
    /\ basic.error /\ basic.step = "answer" => basic.tasks = <<>>

TickOK ==
    /\ tick \in [step : {"idle", "mail", "close", "answer"}, tasks : Seq(DelTasks), nowUt : Nat]
    /\ tick.step \in {"idle", "mail"} => tick.tasks = <<>>

WorldOK ==
    /\ Connected => table \in Tables
    /\ PM!HasPlayer(table, Player) <=> Connected
    /\ dbLane \in Seq(Units) /\ db \in Dbs

HistoryOK ==
    /\ priceOf \in [MailIds -> Nat]
    /\ bought \subseteq Known /\ refused \subseteq Known /\ overtaken \subseteq Known
    /\ unsaved \subseteq MailIds \cup {0}

TypeOK ==
    /\ now \in Nat /\ requests \in Nat /\ failures \in Nat
    /\ ContentOK /\ BasicOK /\ TickOK /\ WorldOK /\ HistoryOK
    /\ up \in Seq(Packets) /\ client \subseteq MailIds

\* Mails are numbered from 1 in the order of issue, up to the bound.
LEMMA KnownMails ==
  ASSUME ContentOK
  PROVE  /\ Known \subseteq MailIds /\ Known = 1 .. Len(endOf) /\ Len(endOf) \in Nat /\ MaxMailId \in Nat
         /\ NoExpire \in Int
BY PlayerContentAssumption DEF ContentOK, Known, MailIds

\* The unit of work of a request that failed does nothing.
LEMMA NothingUnit == <<>> \in Units /\ Adds(<<>>) = {} /\ Dels(<<>>) = {} /\ ~Pays(<<>>)
<1>1. <<>> \in Seq(DelTasks)
  OBVIOUS
<1>2. DelsOnly(<<>>)
  BY <1>1, RemovalUnit
<1>3. Len(<<>>) = 0
  OBVIOUS
<1>4. QED
  BY <1>1, <1>2, <1>3 DEF DelsOnly, Units

\* What a request that issues a mail does.
LEMMA AddMailEffect ==
  ASSUME ContentOK, now \in Int, NEW d \in Durations, NEW price, NEW step, AddMail(d, price, step)
  PROVE  LET m == Len(endOf) + 1 IN
         /\ m \in MailIds /\ m \notin Known /\ Known' = Known \cup {m} /\ endOf' \in Seq(Int)
         /\ Len(endOf') = Len(endOf) + 1
         /\ content'.box = content.box \cup {m} /\ content'.gold = content.gold
         /\ (content = ContentOf(content.box, content.gold))'
         /\ basic' = [step |-> step, tasks |-> <<AddTask(m)>>, price |-> price, error |-> FALSE]
         /\ priceOf' = [priceOf EXCEPT ![m] = price]
         /\ requests' = requests + 1
<1> DEFINE m == Len(endOf) + 1
           e == now + d
<1>1. /\ m \in MailIds /\ endOf' = Append(endOf, e) /\ content' = Added(content, m, e)
      /\ basic' = [step |-> step, tasks |-> <<AddTask(m)>>, price |-> price, error |-> FALSE]
      /\ priceOf' = [priceOf EXCEPT ![m] = price] /\ requests' = requests + 1
  BY DEF AddMail, Open
<1>2. endOf \in Seq(Int) /\ e \in Int /\ Len(endOf) \in Nat
  BY PlayerContentAssumption DEF ContentOK
<1>3. NoExpire \in Int
  BY PlayerContentAssumption
<1> HIDE DEF e
<1>4. /\ endOf' \in Seq(Int) /\ DOMAIN endOf' = DOMAIN endOf \cup {m} /\ m \notin DOMAIN endOf /\ endOf'[m] = e
      /\ Len(endOf') = Len(endOf) + 1 /\ m \in DOMAIN endOf'
  BY <1>1, <1>2
<1>5. content.box \subseteq DOMAIN endOf /\ content.box \subseteq DOMAIN endOf'
  BY <1>4 DEF ContentOK, Known
<1>6. content = [box |-> content.box, next |-> Earliest(content.box, endOf), gold |-> content.gold]
  BY DEF ContentOK, ContentOf
<1>7. Earliest(content.box, endOf') = Earliest(content.box, endOf)
  BY <1>1, <1>2, <1>5, EarliestOfBefore
<1>8. Earliest(content.box \cup {m}, endOf') = Min({Earliest(content.box, endOf'), endOf'[m]})
  <2> HIDE DEF m
  <2> QED
    BY <1>3, <1>4, <1>5, EarliestOfMore
<1>9. Added(content, m, e) = [box |-> content.box \cup {m}, next |-> Min({Earliest(content.box, endOf), e}),
                              gold |-> content.gold]
  <2> DEFINE x == Earliest(content.box, endOf)
             y == Min({x, e})
             b == content.box
             g == content.gold
  <2>1. content = [box |-> b, next |-> x, gold |-> g] /\ content.next = x
    BY <1>6
  <2> HIDE DEF x, b, g, m
  <2>2. [content EXCEPT !.box = @ \cup {m}] = [box |-> b \cup {m}, next |-> x, gold |-> g]
    BY <2>1
  <2>3. Added(content, m, e) = [[content EXCEPT !.box = @ \cup {m}] EXCEPT !.next = y]
    BY <2>1, <2>2 DEF Added
  <2> HIDE DEF y
  <2>4. Added(content, m, e) = [box |-> b \cup {m}, next |-> y, gold |-> g]
    BY <2>2, <2>3
  <2>5. QED
    BY <2>4 DEF x, y, b, g
<1>10. content' = [box |-> content.box \cup {m}, next |-> Earliest(content.box \cup {m}, endOf'), gold |-> content.gold]
  BY <1>1, <1>4, <1>7, <1>8, <1>9
<1>11. content'.box = content.box \cup {m} /\ content'.gold = content.gold
  BY <1>10
<1>12. content' = [box |-> content'.box, next |-> Earliest(content'.box, endOf'), gold |-> content'.gold]
  BY <1>10, <1>11
<1>13. (content = ContentOf(content.box, content.gold))'
  BY <1>12 DEF ContentOf
<1>14. QED
  BY <1>1, <1>4, <1>11, <1>13 DEF Known

\* What it does to the models when an error takes the changes back.
LEMMA TakeBackEffect ==
  ASSUME ContentOK, BasicOK, TakeBack
  PROVE  /\ content' = ContentOf(content.box \ Adds(basic.tasks), content.gold)
         /\ content'.box = content.box \ Adds(basic.tasks) /\ content'.gold = content.gold
<1>1. /\ content' = RollbackUoW(content, basic.tasks)
      /\ basic.tasks = <<>> \/ \E m \in Known : basic.tasks = <<AddTask(m)>>
  BY DEF TakeBack, BasicOK
<1>2. content = ContentOf(content.box, content.gold) /\ content.box \subseteq Known /\ endOf \in Seq(Int)
  BY DEF ContentOK
<1>3. CASE basic.tasks = <<>>
  <2>1. DOMAIN <<>> = {}
    OBVIOUS
  <2>2. FoldRight(Undo, <<>>, content) = content
    BY <2>1 DEF FoldRight, MapThenFoldSet
  <2>3. Adds(basic.tasks) = {}
    BY <1>3, NothingUnit
  <2>4. content.box \ Adds(basic.tasks) = content.box
    BY <2>3
  <2>5. QED
    BY <1>1, <1>2, <1>3, <2>2, <2>4 DEF RollbackUoW
<1>4. ASSUME NEW m \in Known, basic.tasks = <<AddTask(m)>>
      PROVE  content' = ContentOf(content.box \ Adds(basic.tasks), content.gold)
  <2>1. m \in MailIds /\ NoExpire \in Int
    BY KnownMails
  <2>2. Adds(basic.tasks) = {m}
    BY <1>4, <2>1, AdditionUnit DEF AddsOne
  <2>3. FoldRight(Undo, <<AddTask(m)>>, content) = Undo(AddTask(m), content)
    <3> DEFINE u == <<AddTask(m)>>
               Is(j) == j = [s \in SUBSET DOMAIN u |-> IF s = {} THEN content ELSE Undo(u[Min(s)], j[s \ {Min(s)}])]
               h == CHOOSE j : Is(j)
               r == [s \in SUBSET DOMAIN u |-> IF s = {} THEN content ELSE Undo(u[1], content)]
    <3>1. DOMAIN u = {1} /\ u[1] = AddTask(m)
      OBVIOUS
    <3> HIDE DEF u
    <3>2. \A s \in SUBSET DOMAIN u : s # {} => s = {1}
      BY <3>1
    <3>3. Min({1}) = 1 /\ {1} \ {1} = {} /\ {} \in SUBSET DOMAIN u /\ {1} \in SUBSET DOMAIN u /\ {1} # {}
      BY <3>1 DEF Min
    <3>4. ASSUME NEW s \in SUBSET DOMAIN u PROVE r[s] = IF s = {} THEN content ELSE Undo(u[Min(s)], r[s \ {Min(s)}])
      <4>1. CASE s = {}
        BY <4>1
      <4>2. CASE s # {}
        <5>1. s = {1} /\ Min(s) = 1 /\ s \ {Min(s)} = {}
          BY <3>2, <3>3, <4>2
        <5>2. r[{}] = content /\ r[s] = Undo(u[1], content)
          BY <3>3, <4>2
        <5>3. QED
          BY <4>2, <5>1, <5>2
      <4>3. QED
        BY <4>1, <4>2
    <3>5. Is(r)
      <4>1. r = [s \in SUBSET DOMAIN u |-> r[s]]
        OBVIOUS
      <4> HIDE DEF r
      <4>2. QED
        BY <3>4, <4>1
    <3>6. Is(h)
      <4> HIDE DEF Is
      <4>1. QED
        BY <3>5
    <3>7. FoldRight(Undo, u, content) = h[DOMAIN u]
      BY DEF FoldRight, MapThenFoldSet
    <3>8. \A s \in SUBSET DOMAIN u : h[s] = IF s = {} THEN content ELSE Undo(u[Min(s)], h[s \ {Min(s)}])
      BY <3>6
    <3> HIDE DEF h
    <3>9. h[{}] = content
      BY <3>3, <3>8
    <3>10. h[{1}] = Undo(u[Min({1})], h[{1} \ {Min({1})}])
      BY <3>3, <3>8
    <3>11. h[{1}] = Undo(u[1], content)
      BY <3>3, <3>9, <3>10
    <3>12. QED
      BY <3>1, <3>7, <3>11 DEF u
  <2>4. Undo(AddTask(m), content) = RemovedIfThere(content, m)
    BY DifferentTasks DEF Undo
  <2>5. CASE m \in content.box
    <3>1. Removed(ContentOf(content.box, content.gold), m) = ContentOf(content.box \ {m}, content.gold)
      BY <1>2, <1>4, <2>1, RemovedIs DEF Known
    <3>2. QED
      BY <1>1, <1>2, <1>4, <2>2, <2>3, <2>4, <2>5, <3>1 DEF RollbackUoW, RemovedIfThere
  <2>6. CASE m \notin content.box
    <3>1. content.box \ {m} = content.box
      BY <2>6
    <3>2. QED
      BY <1>1, <1>2, <1>4, <2>2, <2>3, <2>4, <2>6, <3>1 DEF RollbackUoW, RemovedIfThere
  <2>7. QED
    BY <2>5, <2>6
<1>5. content' = ContentOf(content.box \ Adds(basic.tasks), content.gold)
  BY <1>1, <1>3, <1>4, NothingUnit
<1>6. QED
  BY <1>5 DEF ContentOf

\* A mail of the box is removed from it, and nextExpireUt_ follows.
LEMMA RemoveEffect ==
  ASSUME ContentOK, NEW m \in content.box
  PROVE  Removed(content, m) = ContentOf(content.box \ {m}, content.gold)
<1>1. NoExpire \in Int /\ endOf \in Seq(Int) /\ content.box \in SUBSET DOMAIN endOf /\ m \in DOMAIN endOf
  BY PlayerContentAssumption DEF ContentOK, Known
<1>2. content = ContentOf(content.box, content.gold)
  BY DEF ContentOK
<1>3. Removed(ContentOf(content.box, content.gold), m) = ContentOf(content.box \ {m}, content.gold)
  BY <1>1, RemovedIs
<1>4. QED
  BY <1>2, <1>3

Expired == ExpiredMailIds(tick.nowUt)

\* What the tick removes, and the unit of work it leaves.
LEMMA TickMailEffect ==
  ASSUME ContentOK, TickMail
  PROVE  /\ content' = ContentOf(content.box \ Expired, content.gold)
         /\ content'.box = content.box \ Expired /\ content'.gold = content.gold
         /\ Expired \subseteq content.box /\ Expired \subseteq MailIds
         /\ overtaken' = overtaken \cup (Expired \cap Adds(basic.tasks))
         /\ \/ Expired = {} /\ tick' = IdleTick
            \/ /\ Expired # {} /\ tick'.step = "close" /\ tick'.nowUt = tick.nowUt
               /\ tick'.tasks \in Seq(DelTasks) /\ Dels(tick'.tasks) = Expired
<1> DEFINE q == SetToSeq(Expired)
           u == [i \in DOMAIN q |-> DelTask(q[i])]
<1>1. NoExpire \in Int /\ endOf \in Seq(Int) /\ content.box \in SUBSET DOMAIN endOf
  BY PlayerContentAssumption DEF ContentOK, Known
<1>2. Known \subseteq MailIds /\ Known = 1 .. Len(endOf) /\ Len(endOf) \in Nat
  BY KnownMails
<1>3. Expired \subseteq content.box /\ Expired \in SUBSET (1 .. Len(endOf)) /\ Expired \subseteq MailIds
  BY <1>2 DEF Expired, ExpiredMailIds, ContentOK
<1>4. Expired \in SUBSET DOMAIN endOf
  BY <1>1, <1>3
<1>5. /\ content' = FoldLeft(Removed, content, q)
      /\ tick' = IF q = <<>> THEN IdleTick ELSE [tick EXCEPT !.step = "close", !.tasks = u]
      /\ overtaken' = overtaken \cup (ToSet(q) \cap Adds(basic.tasks))
  BY DEF TickMail, Expired, Adds
<1>6. /\ q \in Seq(Expired) /\ (q = <<>> <=> Expired = {}) /\ ToSet(q) = Expired
      /\ \A m \in Expired : \E i \in 1 .. Len(q) : q[i] = m
      /\ \A i \in 1 .. Len(q) : q[i] \in Expired
  BY <1>2, <1>3, Listed
<1>7. FoldLeft(Removed, ContentOf(content.box, content.gold), q) = ContentOf(content.box \ Expired, content.gold)
  BY <1>1, <1>4, RemovedEffect
<1>8. content = ContentOf(content.box, content.gold)
  BY DEF ContentOK
<1>9. content' = ContentOf(content.box \ Expired, content.gold)
  BY <1>5, <1>7, <1>8
<1>10. u \in Seq(DelTasks) /\ Dels(u) = Expired
  <2> HIDE DEF q
  <2>1. DOMAIN q = 1 .. Len(q) /\ Len(q) \in Nat
    BY <1>6
  <2>2. \A i \in 1 .. Len(q) : u[i] = DelTask(q[i]) /\ u[i] \in DelTasks
    BY <1>3, <1>6, <2>1 DEF DelTasks
  <2>3. u \in Seq(DelTasks) /\ Len(u) = Len(q)
    <3>1. DOMAIN u = 1 .. Len(q)
      BY <2>1
    <3> HIDE DEF u
    <3>2. u \in [1 .. Len(q) -> DelTasks]
      <4>1. u = [i \in 1 .. Len(q) |-> u[i]]
        BY <2>1 DEF u
      <4>2. QED
        BY <2>2, <4>1
    <3>3. QED
      BY <2>1, <3>2
  <2> HIDE DEF u
  <2>4. Dels(u) = {m \in MailIds : \E i \in 1 .. Len(u) : u[i] = DelTask(m)}
    BY <2>3, RemovalUnit DEF DelsOnly
  <2>5. \A m \in MailIds : (\E i \in 1 .. Len(u) : u[i] = DelTask(m)) <=> m \in Expired
    BY <1>6, <2>2, <2>3, DifferentTasks
  <2>6. Dels(u) = Expired
    BY <1>3, <2>4, <2>5
  <2>7. QED
    BY <2>3, <2>6
<1> HIDE DEF u
<1>11. CASE Expired = {}
  BY <1>3, <1>5, <1>6, <1>9, <1>11 DEF ContentOf
<1>12. CASE Expired # {}
  <2>1. tick' = [tick EXCEPT !.step = "close", !.tasks = u]
    BY <1>5, <1>6, <1>12
  <2>2. tick'.step = "close" /\ tick'.tasks = u /\ tick'.nowUt = tick.nowUt
    BY <2>1
  <2>3. content'.box = content.box \ Expired /\ content'.gold = content.gold
    BY <1>9 DEF ContentOf
  <2>4. QED
    BY <1>3, <1>5, <1>6, <1>9, <1>10, <1>12, <2>2, <2>3
<1>13. QED
  BY <1>11, <1>12

(***************************************************************************)
(* What the steps of World do.                                             *)
(***************************************************************************)

CacheMails == Cache.mails
CacheGold == Cache.gold

\* What World makes of a unit of work that arrives.
StreamEffect(u) ==
    \/ /\ Connected /\ Connected'
       /\ CacheMails' = (CacheMails \cup Adds(u)) \ Dels(u)
       /\ CacheGold' = IF Pays(u) THEN NewGold(u) ELSE CacheGold
       /\ table' \in Tables
       /\ dbLane' = Append(dbLane, u)
    \/ ~Connected /\ ~Connected' /\ table' = table /\ dbLane' = dbLane

\* A connected player's table is what its cache says, and nothing else.
LEMMA TableIs ==
  ASSUME WorldOK, Connected
  PROVE  /\ table = TableOf(CacheMails, CacheGold) /\ CacheMails \in SUBSET MailIds /\ CacheGold \in Nat
<1>1. PICK mails \in SUBSET MailIds, gold \in Nat : table = TableOf(mails, gold)
  BY DEF WorldOK, Tables
<1>2. PM!Find(table, Session).mails = mails /\ PM!Find(table, Session).gold = gold
  BY <1>1, TableStep
<1>3. QED
  BY <1>1, <1>2 DEF CacheMails, CacheGold, Cache

\* ... and a table of that form is one of a connected player.
LEMMA TableHas ==
  ASSUME NEW mails \in SUBSET MailIds, NEW gold \in Nat, table' = TableOf(mails, gold)
  PROVE  /\ Connected' /\ PM!HasPlayer(table, Player)' /\ table' \in Tables
         /\ CacheMails' = mails /\ CacheGold' = gold
<1>1. /\ PM!Has(table', Session) /\ PM!HasPlayer(table', Player)
      /\ PM!Find(table', Session).mails = mails /\ PM!Find(table', Session).gold = gold
  BY TableStep
<1>2. Connected' /\ PM!HasPlayer(table, Player)'
  BY <1>1 DEF Connected, PM!Has, PM!HasPlayer
<1>3. CacheMails' = mails /\ CacheGold' = gold
  BY <1>1 DEF CacheMails, CacheGold, Cache, PM!Find
<1>4. QED
  BY <1>2, <1>3 DEF Tables

\* What HandleUnitOfWorkStream does with the stream that came first: cache and
\* DB lane together, or nothing when the player is gone.
LEMMA HandleStreamEffect ==
  ASSUME WorldOK, up \in Seq(Packets), HandleUnitOfWorkStream
  PROVE  /\ up # <<>> /\ Head(up) \in Packets /\ Head(up).type = "stream" /\ up' = Tail(up)
         /\ Head(up).tasks \in Units /\ StreamEffect(Head(up).tasks)
         /\ PM!HasPlayer(table, Player)' <=> Connected'
<1> DEFINE u == Head(up).tasks
<1>0. up # <<>> /\ Head(up) \in Packets /\ Head(up).type = "stream" /\ up' = Tail(up)
  BY DEF HandleUnitOfWorkStream
<1>1. up # <<>> /\ Head(up) \in Packets /\ Head(up).type = "stream" /\ up' = Tail(up) /\ u \in Units
  BY <1>0 DEF Packets
<1>2. \/ Connected /\ table' = FoldLeft(CacheTask, table, u) /\ dbLane' = Append(dbLane, u)
      \/ ~Connected /\ table' = table /\ dbLane' = dbLane
  BY DEF HandleUnitOfWorkStream, WorldOK
<1> HIDE DEF u
<1>3. CASE Connected /\ table' = FoldLeft(CacheTask, table, u) /\ dbLane' = Append(dbLane, u)
  <2> DEFINE b == (CacheMails \cup Adds(u)) \ Dels(u)
             g == IF Pays(u) THEN NewGold(u) ELSE CacheGold
  <2>1. table = TableOf(CacheMails, CacheGold) /\ CacheMails \in SUBSET MailIds /\ CacheGold \in Nat
    BY <1>3, TableIs
  <2>2. FoldLeft(CacheTask, TableOf(CacheMails, CacheGold), u) = TableOf(b, g)
    BY <1>1, <2>1, CacheEffect
  <2>3. Adds(u) \subseteq MailIds /\ (Pays(u) => NewGold(u) \in Nat)
    BY <1>1, UnitShape
  <2>4. b \in SUBSET MailIds /\ g \in Nat
    BY <2>1, <2>3
  <2>5. table' = TableOf(b, g)
    BY <1>3, <2>1, <2>2
  <2> HIDE DEF b, g
  <2>6. /\ Connected' /\ PM!HasPlayer(table, Player)' /\ table' \in Tables
        /\ CacheMails' = b /\ CacheGold' = g
    BY <2>4, <2>5, TableHas
  <2>7. QED
    BY <1>1, <1>3, <2>6 DEF StreamEffect, b, g, u
<1>4. CASE ~Connected /\ table' = table /\ dbLane' = dbLane
  <2>1. Connected' <=> Connected
    BY <1>4 DEF Connected, PM!Has
  <2>2. PM!HasPlayer(table, Player)' <=> PM!HasPlayer(table, Player)
    BY <1>4 DEF PM!HasPlayer
  <2>3. QED
    BY <1>1, <1>4, <2>1, <2>2 DEF StreamEffect, WorldOK, u
<1>5. QED
  BY <1>2, <1>3, <1>4

\* With the table the same, so are the connection and the cache.
LEMMA SameTable ==
  ASSUME table' = table
  PROVE  /\ Connected' <=> Connected
         /\ PM!HasPlayer(table, Player)' <=> PM!HasPlayer(table, Player)
         /\ CacheMails' = CacheMails /\ CacheGold' = CacheGold
BY DEF Connected, PM!Has, PM!HasPlayer, CacheMails, CacheGold, Cache, PM!Find

\* What a result that arrives does to the client's list.
LEMMA ApplyResultEffect ==
  ASSUME up \in Seq(Packets), client \subseteq MailIds, ApplyTaskResult
  PROVE  /\ up # <<>> /\ Head(up) \in Packets /\ Head(up).type = "result" /\ up' = Tail(up)
         /\ Head(up).tasks \in Units
         /\ Connected => client' = (client \cup Adds(Head(up).tasks)) \ Dels(Head(up).tasks)
         /\ ~Connected => client' = client
<1>0. up # <<>> /\ Head(up) \in Packets /\ Head(up).type = "result" /\ up' = Tail(up)
  BY DEF ApplyTaskResult
<1>1. /\ up # <<>> /\ Head(up) \in Packets /\ Head(up).type = "result" /\ up' = Tail(up)
      /\ Head(up).tasks \in Units
  BY <1>0 DEF Packets
<1>2. client' = IF Connected THEN FoldLeft(ClientTask, client, Head(up).tasks) ELSE client
  BY DEF ApplyTaskResult, Answered
<1>3. FoldLeft(ClientTask, client, Head(up).tasks) = (client \cup Adds(Head(up).tasks)) \ Dels(Head(up).tasks)
  BY <1>1, ClientEffect
<1>4. QED
  BY <1>1, <1>2, <1>3

\* A disconnect takes the player out of World's table, session and index.
LEMMA DisconnectEffect ==
  ASSUME WorldOK, Disconnect
  PROVE  Connected /\ ~Connected' /\ ~PM!HasPlayer(table, Player)'
<1>1. PICK mails \in SUBSET MailIds, gold \in Nat : table = TableOf(mails, gold)
  BY DEF Disconnect, WorldOK, Tables
<1>2. table' = PM!Remove(table, Session) /\ Connected
  BY DEF Disconnect
<1>3. table'.players = PM!Without(table.players, Session)
  BY <1>2 DEF PM!Remove
<1>4. Session \notin DOMAIN table'.players
  BY <1>3 DEF PM!Without
<1>5. PM!FindPlayerId(table, Session) = Player
  BY <1>1 DEF PM!FindPlayerId, TableOf, RowOf, Row, PM!Has
<1>6. table'.sessionByPlayerId = PM!Without(table.sessionByPlayerId, Player)
  BY <1>2, <1>5, PlayerContentAssumption DEF PM!Remove
<1>7. Player \notin DOMAIN table'.sessionByPlayerId
  BY <1>6 DEF PM!Without
<1>8. QED
  BY <1>2, <1>4, <1>7 DEF Connected, PM!Has, PM!HasPlayer

\* What a transaction writes.
LEMMA WrittenIs ==
  ASSUME NEW u \in Units
  PROVE  Written(u) = Adds(u) \cup Dels(u) \cup (IF Pays(u) THEN {0} ELSE {})
<1>1. ToSet(u) = {u[i] : i \in 1 .. Len(u)} /\ Len(u) \in Nat
  <2>1. u \in Seq(Tasks)
    BY UnitShape
  <2>2. QED
    BY <2>1 DEF ToSet
<1>2. CASE DelsOnly(u)
  <2>1. \A i \in 1 .. Len(u) : u[i].kind = "del" /\ u[i].mail \in MailIds /\ u[i] = DelTask(u[i].mail)
    BY <1>2, DifferentTasks DEF DelsOnly
  <2>2. {t \in ToSet(u) : t.kind # "gold"} = ToSet(u) /\ {t \in ToSet(u) : t.kind = "gold"} = {}
    BY <1>1, <2>1
  <2>3. Written(u) = {t.mail : t \in ToSet(u)}
    BY <2>2 DEF Written
  <2>4. Dels(u) = {m \in MailIds : \E i \in 1 .. Len(u) : u[i] = DelTask(m)} /\ Adds(u) = {} /\ ~Pays(u)
    BY <1>2 DEF DelsOnly
  <2>5. \A m : m \in Written(u) <=> m \in Dels(u)
    <3>1. ASSUME NEW m \in Written(u) PROVE m \in Dels(u)
      <4>1. PICK i \in 1 .. Len(u) : m = u[i].mail
        BY <1>1, <2>3
      <4>2. QED
        BY <2>1, <2>4, <4>1
    <3>2. ASSUME NEW m \in Dels(u) PROVE m \in Written(u)
      <4>1. PICK i \in 1 .. Len(u) : u[i] = DelTask(m)
        BY <2>4
      <4>2. u[i].mail = m
        BY <4>1, DifferentTasks
      <4>3. QED
        BY <1>1, <2>3, <4>2
    <3>3. QED
      BY <3>1, <3>2
  <2>6. QED
    BY <2>4, <2>5
<1>3. ASSUME NEW m \in MailIds, AddsOne(u, m) PROVE Written(u) = Adds(u) \cup Dels(u) \cup (IF Pays(u) THEN {0} ELSE {})
  <2>1. Len(u) = 1 /\ u[1].kind = "add" /\ u[1].mail = m /\ Adds(u) = {m} /\ Dels(u) = {} /\ ~Pays(u)
    BY <1>3, DifferentTasks DEF AddsOne
  <2>2. ToSet(u) = {u[1]}
    BY <1>1, <2>1
  <2>3. {t \in ToSet(u) : t.kind # "gold"} = {u[1]} /\ {t \in ToSet(u) : t.kind = "gold"} = {}
    BY <2>1, <2>2
  <2>4. Written(u) = {m}
    BY <2>1, <2>3 DEF Written
  <2>5. QED
    BY <2>1, <2>4
<1>4. ASSUME NEW m \in MailIds, BuysOne(u, m) PROVE Written(u) = Adds(u) \cup Dels(u) \cup (IF Pays(u) THEN {0} ELSE {})
  <2>1. /\ Len(u) = 2 /\ u[1].kind = "add" /\ u[1].mail = m /\ u[2].kind = "gold"
        /\ Adds(u) = {m} /\ Dels(u) = {} /\ Pays(u)
    BY <1>4, DifferentTasks DEF BuysOne
  <2>2. ToSet(u) = {u[1], u[2]}
    BY <1>1, <2>1
  <2>3. {t \in ToSet(u) : t.kind # "gold"} = {u[1]} /\ {t \in ToSet(u) : t.kind = "gold"} = {u[2]}
    BY <2>1, <2>2
  <2>4. Written(u) = {m} \cup {0}
    BY <2>1, <2>3 DEF Written
  <2>5. QED
    BY <2>1, <2>4
<1>5. QED
  BY <1>2, <1>3, <1>4, UnitShape

\* A transaction is done, or undone as a whole.
LEMMA ExecuteEffect ==
  ASSUME dbLane \in Seq(Units), db \in Dbs, OnExecute
  PROVE  LET u == Head(dbLane) IN
         /\ dbLane # <<>> /\ u \in Units /\ dbLane' = Tail(dbLane)
         /\ Written(u) = Adds(u) \cup Dels(u) \cup (IF Pays(u) THEN {0} ELSE {})
         /\ \/ /\ db'.gold = IF Pays(u) THEN NewGold(u) ELSE db.gold
               /\ db'.mail \in [MailIds -> DbStates]
               /\ \A m \in MailIds : db'.mail[m] = AfterUnit(u, m, db.mail[m])
               /\ unsaved' = unsaved \ Written(u) /\ failures' = failures
            \/ db' = db /\ unsaved' = unsaved \cup Written(u) /\ failures' = failures + 1
         /\ db' \in Dbs
<1> DEFINE u == Head(dbLane)
<1>1. /\ dbLane # <<>> /\ u \in Units /\ dbLane' = Tail(dbLane)
      /\ \/ db' = Execute(db, u) /\ unsaved' = unsaved \ Written(u) /\ failures' = failures
         \/ db' = db /\ unsaved' = unsaved \cup Written(u) /\ failures' = failures + 1
  BY DEF OnExecute, AfterFailure
<1> HIDE DEF u
<1>2. Written(u) = Adds(u) \cup Dels(u) \cup (IF Pays(u) THEN {0} ELSE {})
  BY <1>1, WrittenIs
<1>3. CASE db' = Execute(db, u) /\ unsaved' = unsaved \ Written(u) /\ failures' = failures
  <2> DEFINE mail == [m \in MailIds |-> AfterUnit(u, m, db.mail[m])]
             gold == IF Pays(u) THEN NewGold(u) ELSE db.gold
  <2>1. db' = DbOf(mail, gold)
    BY <1>1, <1>3, DbEffect
  <2>2. mail \in [MailIds -> DbStates]
    BY DEF Dbs, AfterUnit, DbStates
  <2>3. gold \in Nat
    BY <1>1, UnitShape DEF Dbs
  <2>4. \A m \in MailIds : mail[m] = AfterUnit(u, m, db.mail[m])
    OBVIOUS
  <2> HIDE DEF mail, gold
  <2>5. db'.mail = mail /\ db'.gold = gold /\ db' \in Dbs
    BY <2>1, <2>2, <2>3 DEF DbOf, Dbs
  <2>6. /\ db'.gold = gold /\ db'.mail \in [MailIds -> DbStates] /\ db' \in Dbs
        /\ \A m \in MailIds : db'.mail[m] = AfterUnit(u, m, db.mail[m])
    BY <2>2, <2>4, <2>5
  <2>7. QED
    BY <1>1, <1>2, <1>3, <2>6 DEF u, gold
<1>4. CASE db' = db /\ unsaved' = unsaved \cup Written(u) /\ failures' = failures + 1
  BY <1>1, <1>2, <1>4 DEF u
<1>5. QED
  BY <1>1, <1>3, <1>4

(***************************************************************************)
(* What the steps of a request do.                                         *)
(***************************************************************************)

IssueStep(d, price, step) ==
    /\ MayStart /\ AddMail(d, price, step)
    /\ UNCHANGED <<now, tick, up, worldVars, client, bought, refused, overtaken>>

RefuseStep ==
    /\ MayStart /\ Refuse
    /\ UNCHANGED <<now, tick, up, worldVars, client, bought, refused, overtaken>>

DeleteStep(m) ==
    /\ MayStart
    /\ content' = Removed(content, m)
    /\ Open("close", <<DelTask(m)>>, 0, FALSE)
    /\ UNCHANGED <<endOf, priceOf>>
    /\ UNCHANGED <<now, tick, up, worldVars, client, bought, refused, overtaken>>

\* A request is refused, removes a mail or issues one.
LEMMA RequestCases ==
  ASSUME Request
  PROVE  \/ RefuseStep \/ \E m \in content.box : DeleteStep(m)
         \/ \E d \in Durations : IssueStep(d, 0, "close")
         \/ \E d \in Durations, price \in Prices : IssueStep(d, price, "pay")
BY DEF Request, HandleMailAdd, HandleMailDel, HandleMailBuy, RefuseStep, DeleteStep, IssueStep

\* A purchase's task follows the addition's.
LEMMA Joined ==
  ASSUME NEW a, NEW b
  PROVE  <<a>> \o <<b>> = <<a, b>>
<1> DEFINE T == {a, b}
           q == <<a>> \o <<b>>
<1>1. <<a>> \in Seq(T) /\ <<b>> \in Seq(T) /\ <<a, b>> \in Seq(T)
  OBVIOUS
<1>2. q \in Seq(T) /\ Len(q) = 2 /\ q[1] = a /\ q[2] = b
  BY <1>1
<1> HIDE DEF q
<1>3. Len(q) = Len(<<a, b>>) /\ \A i \in 1 .. Len(q) : q[i] = <<a, b>>[i]
  BY <1>2
<1>4. q = <<a, b>>
  BY <1>1, <1>2, <1>3, SeqEqual
<1>5. QED
  BY <1>4 DEF q

\* The gold a purchase leaves, and the task that says so.
LEMMA DecCurrencyEffect ==
  ASSUME ContentOK, BasicOK, DecCurrency
  PROVE  /\ \E m \in Known :
              /\ m \in MailIds /\ basic.tasks = <<AddTask(m)>> /\ Adds(basic.tasks) = {m}
              /\ basic'.tasks \in Units /\ Adds(basic'.tasks) = {m} /\ Dels(basic'.tasks) = {} /\ Dels(basic.tasks) = {}
              /\ Pays(basic'.tasks) => /\ ~basic'.error /\ OldGold(basic'.tasks) = content.gold
                                       /\ NewGold(basic'.tasks) = content'.gold
              /\ ~Pays(basic'.tasks) => content'.gold = content.gold /\ basic'.tasks = <<AddTask(m)>>
         /\ basic' \in [step : {"close"}, tasks : Units, price : Nat, error : BOOLEAN]
         /\ basic'.step = "close" /\ basic'.price = basic.price /\ basic'.error \in BOOLEAN
         /\ content'.box = content.box /\ content'.gold \in Nat /\ endOf' = endOf
         /\ (content = ContentOf(content.box, content.gold))'
         /\ \/ ~basic'.error /\ content'.gold = content.gold - basic.price
            \/ basic'.error /\ content'.gold = content.gold
<1> DEFINE left == IF CanPay(content, basic.price) THEN content.gold - basic.price ELSE content.gold
<1>1. /\ basic.step = "pay" /\ content' = [content EXCEPT !.gold = left]
      /\ basic' = [basic EXCEPT !.step = "close", !.tasks = @ \o GoldTasks(left, content.gold),
                                !.error = Fails(content, basic.price)]
      /\ endOf' = endOf
  BY DEF DecCurrency
<1>2. /\ content = ContentOf(content.box, content.gold) /\ content.gold \in Nat
      /\ basic \in [step : {"idle", "pay", "close", "answer"}, tasks : Units, price : Nat, error : BOOLEAN]
      /\ basic.price \in Nat
  BY DEF ContentOK, BasicOK
<1>3. left \in Nat /\ (Fails(content, basic.price) => left = content.gold)
      /\ (~Fails(content, basic.price) => left = content.gold - basic.price)
  BY <1>2 DEF CanPay, Fails
<1>4. Fails(content, basic.price) \in BOOLEAN
  BY DEF Fails
<1>5. PICK m \in Known : basic.tasks = <<AddTask(m)>>
  BY <1>1 DEF BasicOK
<1>6. m \in MailIds
  BY KnownMails
<1>7. Adds(basic.tasks) = {m} /\ Dels(basic.tasks) = {}
  BY <1>5, <1>6, AdditionUnit DEF AddsOne
<1> DEFINE u == basic.tasks \o GoldTasks(left, content.gold)
<1> HIDE DEF left
<1>8. content' = ContentOf(content.box, left)
  <2> DEFINE b == content.box
             x == Earliest(content.box, endOf)
             g == content.gold
  <2>1. content = [box |-> b, next |-> x, gold |-> g]
    BY <1>2 DEF ContentOf
  <2> HIDE DEF b, x, g
  <2>2. [content EXCEPT !.gold = left] = [box |-> b, next |-> x, gold |-> left]
    BY <2>1
  <2>3. QED
    BY <1>1, <2>2 DEF ContentOf, b, x
<1>9. content'.box = content.box /\ content'.gold = left
  BY <1>8 DEF ContentOf
<1>10. (content = ContentOf(content.box, content.gold))'
  <2>1. content' = [box |-> content'.box, next |-> Earliest(content'.box, endOf'), gold |-> content'.gold]
    BY <1>1, <1>8, <1>9 DEF ContentOf
  <2>2. QED
    BY <2>1 DEF ContentOf
<1>13. /\ u \in Units /\ Adds(u) = {m} /\ Dels(u) = {}
       /\ Pays(u) => left # content.gold /\ NewGold(u) = left /\ OldGold(u) = content.gold
       /\ ~Pays(u) => left = content.gold /\ u = <<AddTask(m)>>
  <2>1. CASE left = content.gold
    <3>1. u = <<AddTask(m)>>
      BY <1>5, <2>1 DEF GoldTasks
    <3>2. u \in Units /\ Adds(u) = {m} /\ Dels(u) = {} /\ ~Pays(u)
      BY <1>6, <3>1, AdditionUnit DEF AddsOne, Units
    <3>3. QED
      BY <2>1, <3>1, <3>2
  <2>2. CASE left # content.gold
    <3>0. GoldTasks(left, content.gold) = <<GoldTask(left, content.gold)>>
      BY <2>2 DEF GoldTasks
    <3>1. u = <<AddTask(m), GoldTask(left, content.gold)>>
      BY <1>5, <3>0, Joined
    <3>2. BuysOne(u, m) /\ NewGold(u) = left /\ OldGold(u) = content.gold
      BY <1>2, <1>3, <1>6, <3>1, PurchaseUnit
    <3>3. u \in Units
      BY <1>2, <1>3, <1>6, <3>1 DEF Units
    <3>4. Adds(u) = {m} /\ Dels(u) = {} /\ Pays(u)
      BY <3>2 DEF BuysOne
    <3>5. QED
      BY <2>2, <3>2, <3>3, <3>4
  <2>3. QED
    BY <2>1, <2>2
<1> DEFINE e == Fails(content, basic.price)
<1>14. basic' = [step |-> "close", tasks |-> u, price |-> basic.price, error |-> e]
  <2> HIDE DEF u, e
  <2>1. basic' = [basic EXCEPT !.step = "close", !.tasks = u, !.error = e]
    BY <1>1 DEF u, e, left
  <2>2. QED
    BY <1>2, <2>1
<1> HIDE DEF u, e
<1>15. basic'.step = "close" /\ basic'.tasks = u /\ basic'.price = basic.price /\ basic'.error = e
  BY <1>14
<1>16. e \in BOOLEAN
  BY <1>4 DEF e
<1>17. basic' \in [step : {"close"}, tasks : Units, price : Nat, error : BOOLEAN]
  BY <1>2, <1>13, <1>14, <1>16
<1>18. /\ Pays(u) => ~e
       /\ \/ ~e /\ left = content.gold - basic.price
          \/ e /\ left = content.gold
  BY <1>3, <1>13 DEF e
<1>19. \E n \in Known :
              /\ n \in MailIds /\ basic.tasks = <<AddTask(n)>> /\ Adds(basic.tasks) = {n}
              /\ basic'.tasks \in Units /\ Adds(basic'.tasks) = {n} /\ Dels(basic'.tasks) = {} /\ Dels(basic.tasks) = {}
              /\ Pays(basic'.tasks) => /\ ~basic'.error /\ OldGold(basic'.tasks) = content.gold
                                       /\ NewGold(basic'.tasks) = content'.gold
              /\ ~Pays(basic'.tasks) => content'.gold = content.gold /\ basic'.tasks = <<AddTask(n)>>
  <2> WITNESS m \in Known
  <2>1. QED
    BY <1>5, <1>6, <1>7, <1>9, <1>13, <1>15, <1>18
<1>20. QED
  BY <1>1, <1>3, <1>9, <1>10, <1>15, <1>16, <1>17, <1>18, <1>19

(***************************************************************************)
(* Every variable keeps its type.                                          *)
(***************************************************************************)

\* World's table when the player has entered.
LEMMA InitTable ==
  ASSUME Init
  PROVE  table = TableOf(DOMAIN InitialEnds, InitialGold)
<1> DEFINE mails == DOMAIN InitialEnds
<1>1. table = PM!SetAuthenticated(PM!Add(PM!EmptyTable, Session), Session, Player, mails, InitialGold)
  BY DEF Init
<1> HIDE DEF mails
<1> DEFINE t == PM!Add(PM!EmptyTable, Session)
<1>2. /\ t.players = [y \in {Session} |-> PM!FreshInfo] /\ t.sessionByPlayerId = <<>>
      /\ DOMAIN t.sessionByPlayerId = {}
  <2>1. DOMAIN <<>> = {}
    OBVIOUS
  <2>2. PM!With(<<>>, Session, PM!FreshInfo) = [y \in {Session} |-> PM!FreshInfo]
    BY <2>1 DEF PM!With
  <2>3. QED
    BY <2>1, <2>2 DEF PM!Add, PM!EmptyTable
<1> HIDE DEF t
<1>3. PM!Has(t, Session) /\ t.players[Session].zoneId = NoZone
  BY <1>2 DEF PM!Has, PM!FreshInfo
<1>4. PM!With(t.sessionByPlayerId, Player, Session) = [x \in {Player} |-> Session]
  BY <1>2 DEF PM!With
<1> DEFINE row == [playerId |-> Player, zoneId |-> NoZone, authenticated |-> TRUE,
                   mails |-> mails, gold |-> InitialGold]
<1>5. row = RowOf(mails, InitialGold)
  BY DEF RowOf, Row, Yes
<1>6. PM!SetAuthenticated(t, Session, Player, mails, InitialGold) =
         [players |-> [t.players EXCEPT ![Session] = row], sessionByPlayerId |-> [x \in {Player} |-> Session]]
  BY <1>3, <1>4 DEF PM!SetAuthenticated
<1> HIDE DEF row
<1>7. [t.players EXCEPT ![Session] = row] = [x \in {Session} |-> row]
  BY <1>2
<1>8. QED
  BY <1>1, <1>5, <1>6, <1>7 DEF TableOf, t, mails

\* At the start every variable has its type.
LEMMA TypeInit == Init => TypeOK
<1> SUFFICES ASSUME Init PROVE TypeOK
  OBVIOUS
<1> DEFINE mails == DOMAIN InitialEnds
           entered == EnterZoneBody(mails)
<1>1. /\ InitialEnds \in Seq(Int) /\ Len(InitialEnds) <= MaxMailId /\ MaxMailId \in Nat /\ InitialGold \in Nat
      /\ NoPlayer # Player
  BY PlayerContentAssumption
<1>2. mails \subseteq MailIds /\ entered \subseteq mails /\ Len(InitialEnds) \in Nat
  BY <1>1 DEF MailIds, EnterZoneBody
<1>3. endOf = InitialEnds /\ content = [box |-> entered, next |-> Earliest(entered, InitialEnds), gold |-> InitialGold]
  BY DEF Init
<1>4. ContentOK
  <2>1. content.box = entered /\ content.gold = InitialGold
    BY <1>3
  <2>2. content = ContentOf(content.box, content.gold)
    BY <1>3, <2>1 DEF ContentOf
  <2>3. Len(endOf) \in Len(InitialEnds) .. MaxMailId
    BY <1>1, <1>2, <1>3
  <2> HIDE DEF entered
  <2>4. QED
    BY <1>1, <1>2, <1>3, <2>1, <2>2, <2>3 DEF ContentOK, Known
<1>5. BasicOK
  <2>1. basic = Idle
    BY DEF Init
  <2>2. basic \in [step : {"idle", "pay", "close", "answer"}, tasks : Units, price : Nat, error : BOOLEAN]
    BY <2>1, NothingUnit DEF Idle
  <2>3. basic.step = "idle" /\ basic.tasks = <<>> /\ ~basic.error
    BY <2>1 DEF Idle
  <2>4. QED
    BY <2>2, <2>3, NothingUnit DEF BasicOK
<1>6. TickOK
  <2>1. tick = IdleTick
    BY DEF Init
  <2>2. QED
    BY <2>1 DEF TickOK, IdleTick
<1>7. table = TableOf(mails, InitialGold)
  BY InitTable
<1>8. WorldOK
  <2>1. mails \in SUBSET MailIds
    BY <1>2
  <2> HIDE DEF mails
  <2>2. PM!Has(table, Session) /\ PM!HasPlayer(table, Player) /\ table \in Tables
    BY <1>1, <1>7, <2>1, TableStep DEF Tables
  <2>3. dbLane = <<>> /\ db = [mail |-> [m \in MailIds |-> IF m \in mails THEN "alive" ELSE "none"], gold |-> InitialGold]
    BY DEF Init, mails
  <2>4. db \in Dbs
    BY <1>1, <2>3 DEF Dbs, DbStates
  <2>5. dbLane \in Seq(Units)
    BY <2>3
  <2>6. QED
    BY <2>2, <2>4, <2>5 DEF WorldOK, Connected
<1>9. HistoryOK
  BY DEF Init, HistoryOK
<1>10. QED
  BY <1>4, <1>5, <1>6, <1>8, <1>9 DEF Init, TypeOK

\* Models nobody changed are what they were.
LEMMA SameContent ==
  ASSUME ContentOK, UNCHANGED <<content, endOf>>
  PROVE  ContentOK'
<1>1. content' = content /\ endOf' = endOf
  OBVIOUS
<1>2. (content = ContentOf(content.box, content.gold))'
  <2>1. content = [box |-> content.box, next |-> Earliest(content.box, endOf), gold |-> content.gold]
    BY DEF ContentOK, ContentOf
  <2>2. content' = [box |-> content'.box, next |-> Earliest(content'.box, endOf'), gold |-> content'.gold]
    BY <1>1, <2>1
  <2>3. QED
    BY <2>2 DEF ContentOf
<1>3. QED
  BY <1>1, <1>2 DEF ContentOK, Known

\* A box that got smaller, with the next expiry it should have.
LEMMA SmallerContent ==
  ASSUME ContentOK, NEW mails, mails \subseteq content.box, content' = ContentOf(mails, content.gold), endOf' = endOf
  PROVE  ContentOK' /\ content'.box = mails /\ content'.gold = content.gold
<1>1. content' = [box |-> mails, next |-> Earliest(mails, endOf'), gold |-> content.gold]
  BY DEF ContentOf
<1>2. content'.box = mails /\ content'.gold = content.gold
  BY <1>1
<1>3. content' = [box |-> content'.box, next |-> Earliest(content'.box, endOf'), gold |-> content'.gold]
  BY <1>1, <1>2
<1>4. (content = ContentOf(content.box, content.gold))'
  BY <1>3 DEF ContentOf
<1>5. QED
  BY <1>2, <1>4 DEF ContentOK, Known

\* Every step leaves the models well formed, nextExpireUt_ the earliest end of
\* the box included, and forgets no mail that was issued.
LEMMA ContentNext ==
  ASSUME TypeOK, [Next]_vars
  PROVE  ContentOK' /\ Known \subseteq Known'
<1> USE DEF TypeOK
<1>1. ASSUME NEW d \in Durations, NEW price, NEW step, IssueStep(d, price, step) PROVE ContentOK' /\ Known \subseteq Known'
  <2> DEFINE m == Len(endOf) + 1
  <2>1. /\ m \in MailIds /\ Known' = Known \cup {m} /\ endOf' \in Seq(Int) /\ Len(endOf') = Len(endOf) + 1
        /\ content'.box = content.box \cup {m} /\ content'.gold = content.gold
        /\ (content = ContentOf(content.box, content.gold))'
    BY <1>1, AddMailEffect DEF IssueStep
  <2>2. Len(endOf') \in Len(InitialEnds) .. MaxMailId
    BY <2>1 DEF ContentOK, MailIds
  <2>3. QED
    BY <2>1, <2>2 DEF ContentOK
<1>2. ASSUME NEW m \in content.box, DeleteStep(m) PROVE ContentOK' /\ Known \subseteq Known'
  <2>1. content' = ContentOf(content.box \ {m}, content.gold) /\ endOf' = endOf
    BY <1>2, RemoveEffect DEF DeleteStep
  <2>2. content.box \ {m} \subseteq content.box
    OBVIOUS
  <2>3. QED
    BY <2>1, <2>2, SmallerContent DEF Known
<1>3. CASE DecCurrency
  <2>1. /\ content'.box = content.box /\ content'.gold \in Nat /\ endOf' = endOf
        /\ (content = ContentOf(content.box, content.gold))'
    BY <1>3, DecCurrencyEffect
  <2>2. QED
    BY <2>1 DEF ContentOK, Known
<1>4. CASE TakeBack
  <2>1. content' = ContentOf(content.box \ Adds(basic.tasks), content.gold) /\ endOf' = endOf
    BY <1>4, TakeBackEffect DEF TakeBack
  <2>2. content.box \ Adds(basic.tasks) \subseteq content.box
    OBVIOUS
  <2>3. QED
    BY <2>1, <2>2, SmallerContent DEF Known
<1>5. CASE TickMail
  <2>1. content' = ContentOf(content.box \ Expired, content.gold) /\ endOf' = endOf
    BY <1>5, TickMailEffect DEF TickMail
  <2>2. content.box \ Expired \subseteq content.box
    OBVIOUS
  <2>3. QED
    BY <2>1, <2>2, SmallerContent DEF Known
<1>6. CASE UNCHANGED <<content, endOf>>
  BY <1>6, SameContent DEF Known
<1>7. RefuseStep => UNCHANGED <<content, endOf>>
  BY DEF RefuseStep, Refuse
<1>8. SendToWorld \/ SendTaskResult \/ Tick \/ TickSends \/ TickAnswers \/ World \/ OnExecute \/ Disconnect \/ Clock
      \/ UNCHANGED vars
         => UNCHANGED <<content, endOf>>
  BY DEF SendToWorld, SendTaskResult, Tick, TickSends, TickAnswers, World, HandleUnitOfWorkStream, ApplyTaskResult,
         OnExecute, Disconnect, Clock, vars, zoneVars
<1>9. QED
  BY <1>1, <1>2, <1>3, <1>4, <1>5, <1>6, <1>7, <1>8, RequestCases DEF Next, BasicStep, TickStep

Steps == {"idle", "pay", "close", "answer"}
Basics == [step : Steps, tasks : Units, price : Nat, error : BOOLEAN]
Ticks == [step : {"idle", "mail", "close", "answer"}, tasks : Seq(DelTasks), nowUt : Nat]

\* The BASIC lane between two requests is well formed.
LEMMA IdleBasic ==
  ASSUME basic' = Idle
  PROVE  BasicOK'
<1>1. basic' = [step |-> "idle", tasks |-> <<>>, price |-> 0, error |-> FALSE]
  BY DEF Idle
<1>2. basic'.step = "idle" /\ basic'.tasks = <<>> /\ basic'.error = FALSE
  BY <1>1
<1>3. basic' \in Basics
  BY <1>1, NothingUnit DEF Basics, Steps
<1>4. QED
  BY <1>2, <1>3, NothingUnit DEF BasicOK, Basics, Steps

\* A unit of work of one task that adds a mail, or of nothing.
LEMMA AddingBasic ==
  ASSUME NEW m \in MailIds, m \in Known', NEW step \in {"pay", "close"}, NEW price \in Nat,
         basic' = [step |-> step, tasks |-> <<AddTask(m)>>, price |-> price, error |-> FALSE]
  PROVE  BasicOK'
<1>1. <<AddTask(m)>> \in Units /\ Adds(<<AddTask(m)>>) = {m}
  BY AdditionUnit DEF AddsOne, Units
<1>2. basic'.step = step /\ basic'.tasks = <<AddTask(m)>> /\ basic'.error = FALSE
  OBVIOUS
<1>3. basic' \in Basics
  BY <1>1 DEF Basics, Steps
<1>4. QED
  BY <1>1, <1>2, <1>3 DEF BasicOK, Basics, Steps

\* Every step leaves the BASIC lane's unit of work well formed.
LEMMA BasicNext ==
  ASSUME TypeOK, [Next]_vars
  PROVE  BasicOK'
<1> USE DEF TypeOK
<1>0. Known \subseteq Known'
  BY ContentNext
<1>1. ASSUME NEW d \in Durations, NEW price \in Nat, NEW step \in {"pay", "close"}, IssueStep(d, price, step)
      PROVE  BasicOK'
  <2> DEFINE m == Len(endOf) + 1
  <2>1. /\ m \in MailIds /\ Known' = Known \cup {m}
        /\ basic' = [step |-> step, tasks |-> <<AddTask(m)>>, price |-> price, error |-> FALSE]
    BY <1>1, AddMailEffect DEF IssueStep
  <2> HIDE DEF m
  <2>2. QED
    BY <2>1, AddingBasic
<1>2. ASSUME NEW m \in content.box, DeleteStep(m) PROVE BasicOK'
  <2>1. basic' = [step |-> "close", tasks |-> <<DelTask(m)>>, price |-> 0, error |-> FALSE]
    BY <1>2 DEF DeleteStep, Open
  <2>2. m \in MailIds
    BY KnownMails DEF ContentOK
  <2>3. <<DelTask(m)>> \in Seq(DelTasks)
    BY <2>2 DEF DelTasks
  <2>4. <<DelTask(m)>> \in Units /\ Adds(<<DelTask(m)>>) = {}
    <3>1. DelsOnly(<<DelTask(m)>>)
      BY <2>3, RemovalUnit
    <3>2. <<DelTask(m)>> \in Units
      BY <2>3 DEF Units
    <3>3. QED
      BY <3>1, <3>2 DEF DelsOnly
  <2>5. basic' \in Basics
    BY <2>1, <2>4 DEF Basics, Steps
  <2>6. basic'.step = "close" /\ basic'.tasks = <<DelTask(m)>> /\ basic'.error = FALSE
    BY <2>1
  <2>7. QED
    BY <2>4, <2>5, <2>6 DEF BasicOK, Basics, Steps
<1>3. CASE RefuseStep
  <2>1. basic' = [step |-> "close", tasks |-> <<>>, price |-> 0, error |-> TRUE]
    BY <1>3 DEF RefuseStep, Refuse, Open
  <2>2. basic' \in Basics
    BY <2>1, NothingUnit DEF Basics, Steps
  <2>3. basic'.step = "close" /\ basic'.tasks = <<>>
    BY <2>1
  <2>4. QED
    BY <2>2, <2>3, NothingUnit DEF BasicOK, Basics, Steps
<1>4. CASE DecCurrency
  <2>1. PICK m \in Known : /\ m \in MailIds /\ Adds(basic'.tasks) = {m} /\ (Pays(basic'.tasks) => ~basic'.error)
                           /\ ~Pays(basic'.tasks) => basic'.tasks = <<AddTask(m)>>
    BY <1>4, DecCurrencyEffect
  <2>2. /\ basic' \in [step : {"close"}, tasks : Units, price : Nat, error : BOOLEAN]
        /\ basic'.step = "close" /\ basic'.error \in BOOLEAN
    BY <1>4, DecCurrencyEffect
  <2>3. basic' \in Basics
    BY <2>2 DEF Basics, Steps
  <2>4. QED
    BY <1>0, <2>1, <2>2, <2>3 DEF BasicOK, Basics, Steps
<1>5. CASE TakeBack
  <2>1. basic' = [basic EXCEPT !.step = "answer", !.tasks = <<>>] /\ basic \in Basics
    BY <1>5 DEF TakeBack, BasicOK, Basics, Steps
  <2>2. basic'.step = "answer" /\ basic'.tasks = <<>>
    BY <2>1 DEF Basics
  <2>3. basic' \in Basics
    BY <2>1, NothingUnit DEF Basics, Steps
  <2>4. QED
    BY <2>2, <2>3, NothingUnit DEF BasicOK, Basics, Steps
<1>6. CASE SendToWorld
  <2>1. basic' = [basic EXCEPT !.step = "answer"] /\ basic \in Basics /\ ~basic.error
    BY <1>6 DEF SendToWorld, BasicOK, Basics, Steps
  <2>2. basic'.step = "answer" /\ basic'.tasks = basic.tasks /\ basic'.error = basic.error
    BY <2>1 DEF Basics
  <2>3. basic' \in Basics
    BY <2>1 DEF Basics, Steps
  <2>4. QED
    BY <1>0, <2>1, <2>2, <2>3 DEF BasicOK, Basics, Steps
<1>7. CASE SendTaskResult
  BY <1>7, IdleBasic DEF SendTaskResult
<1>8. CASE UNCHANGED basic
  BY <1>0, <1>8 DEF BasicOK
<1>9. TickStep \/ World \/ OnExecute \/ Disconnect \/ Clock \/ UNCHANGED vars => UNCHANGED basic
  BY DEF Tick, TickMail, TickSends, TickAnswers, World, HandleUnitOfWorkStream, ApplyTaskResult, TickStep,
         OnExecute, Disconnect, Clock, vars, zoneVars
<1>10. Prices \subseteq Nat /\ 0 \in Nat
  BY PlayerContentAssumption
<1>11. QED
  BY <1>1, <1>2, <1>3, <1>4, <1>5, <1>6, <1>7, <1>8, <1>9, <1>10, RequestCases DEF Next, BasicStep

\* Every step leaves the TICK lane's unit of work well formed.
LEMMA TickNext ==
  ASSUME TypeOK, [Next]_vars
  PROVE  TickOK'
<1> USE DEF TypeOK
<1>0. IdleTick \in Ticks /\ IdleTick.tasks = <<>>
  BY DEF IdleTick, Ticks
<1>1. CASE Tick
  <2>1. tick' = [step |-> "mail", tasks |-> <<>>, nowUt |-> now]
    BY <1>1 DEF Tick
  <2>2. tick' \in Ticks /\ tick'.tasks = <<>>
    BY <2>1 DEF Ticks
  <2>3. QED
    BY <2>2 DEF TickOK, Ticks
<1>2. CASE TickMail
  <2>1. CASE tick' = IdleTick
    BY <1>0, <2>1 DEF TickOK, Ticks
  <2>2. CASE tick' # IdleTick
    <3> DEFINE q == [i \in DOMAIN SetToSeq(ExpiredMailIds(tick.nowUt)) |-> DelTask(SetToSeq(ExpiredMailIds(tick.nowUt))[i])]
    <3>1. tick' = [tick EXCEPT !.step = "close", !.tasks = q]
      BY <1>2, <2>2 DEF TickMail
    <3> HIDE DEF q
    <3>2. tick'.step = "close" /\ tick'.tasks \in Seq(DelTasks)
      BY <1>2, <2>2, TickMailEffect
    <3>3. tick \in Ticks
      BY DEF TickOK, Ticks
    <3>4. tick'.tasks = q
      BY <3>1, <3>3 DEF Ticks
    <3>5. tick' \in Ticks
      BY <3>1, <3>2, <3>3, <3>4 DEF Ticks
    <3>6. QED
      BY <3>2, <3>5 DEF TickOK, Ticks
  <2>3. QED
    BY <2>1, <2>2
<1>3. CASE TickSends
  <2>1. tick' = [tick EXCEPT !.step = "answer"] /\ tick \in Ticks
    BY <1>3 DEF TickSends, TickOK, Ticks
  <2>2. tick' \in Ticks /\ tick'.step = "answer"
    BY <2>1 DEF Ticks
  <2>3. QED
    BY <2>2 DEF TickOK, Ticks
<1>4. CASE TickAnswers
  BY <1>0, <1>4 DEF TickAnswers, TickOK, Ticks
<1>5. CASE UNCHANGED tick
  BY <1>5 DEF TickOK
<1>6. Request \/ BasicStep \/ World \/ OnExecute \/ Disconnect \/ Clock \/ UNCHANGED vars => UNCHANGED tick
  BY DEF Request, HandleMailAdd, HandleMailDel, HandleMailBuy, BasicStep, DecCurrency, TakeBack, SendToWorld,
         SendTaskResult, World, HandleUnitOfWorkStream, ApplyTaskResult, OnExecute, Disconnect, Clock, vars, zoneVars
<1>7. QED
  BY <1>1, <1>2, <1>3, <1>4, <1>5, <1>6 DEF Next, TickStep

\* Every step leaves World's table, its DB lane and the DB well formed.
LEMMA WorldNext ==
  ASSUME TypeOK, [Next]_vars
  PROVE  WorldOK'
<1> USE DEF TypeOK
<1>1. CASE HandleUnitOfWorkStream
  <2>1. /\ Head(up).tasks \in Units /\ StreamEffect(Head(up).tasks)
        /\ PM!HasPlayer(table, Player)' <=> Connected'
    BY <1>1, HandleStreamEffect
  <2>2. dbLane' \in Seq(Units)
    BY <2>1 DEF StreamEffect, WorldOK
  <2>3. Connected' => table' \in Tables
    BY <2>1 DEF StreamEffect
  <2>4. db' = db
    BY <1>1 DEF HandleUnitOfWorkStream
  <2>5. QED
    BY <2>1, <2>2, <2>3, <2>4 DEF WorldOK
<1>2. CASE OnExecute
  <2>1. dbLane # <<>> /\ dbLane' = Tail(dbLane) /\ db' \in Dbs
    BY <1>2, ExecuteEffect DEF WorldOK
  <2>2. table' = table
    BY <1>2 DEF OnExecute
  <2>3. dbLane' \in Seq(Units)
    BY <2>1 DEF WorldOK
  <2>4. QED
    BY <2>1, <2>2, <2>3, SameTable DEF WorldOK
<1>3. CASE Disconnect
  <2>1. ~Connected' /\ ~PM!HasPlayer(table, Player)'
    BY <1>3, DisconnectEffect
  <2>2. QED
    BY <1>3, <2>1 DEF Disconnect, WorldOK
<1>4. CASE UNCHANGED <<table, dbLane, db>>
  BY <1>4, SameTable DEF WorldOK
<1>5. Request \/ BasicStep \/ TickStep \/ ApplyTaskResult \/ Clock \/ UNCHANGED vars => UNCHANGED <<table, dbLane, db>>
  BY DEF Request, HandleMailAdd, HandleMailDel, HandleMailBuy, BasicStep, DecCurrency, TakeBack, SendToWorld,
         SendTaskResult, TickStep, Tick, TickMail, TickSends, TickAnswers, ApplyTaskResult, Clock, vars, worldVars
<1>6. QED
  BY <1>1, <1>2, <1>3, <1>4, <1>5 DEF Next, World

\* Every step keeps the types of the history.
LEMMA HistoryNext ==
  ASSUME TypeOK, [Next]_vars
  PROVE  HistoryOK'
<1> USE DEF TypeOK
<1>0. Known \subseteq Known' /\ Known \subseteq MailIds
  BY ContentNext, KnownMails
<1>1. ASSUME NEW d \in Durations, NEW price \in Nat, NEW step \in {"pay", "close"}, IssueStep(d, price, step)
      PROVE  HistoryOK'
  <2> DEFINE m == Len(endOf) + 1
  <2>1. m \in MailIds /\ priceOf' = [priceOf EXCEPT ![m] = price]
    BY <1>1, AddMailEffect DEF IssueStep
  <2> HIDE DEF m
  <2>2. priceOf' \in [MailIds -> Nat]
    BY <2>1 DEF HistoryOK
  <2>3. bought' = bought /\ refused' = refused /\ overtaken' = overtaken /\ unsaved' = unsaved
    BY <1>1 DEF IssueStep, worldVars
  <2>4. QED
    BY <1>0, <2>2, <2>3 DEF HistoryOK
<1>2. CASE TakeBack
  <2>1. refused' = refused \cup Adds(basic.tasks) /\ UNCHANGED <<priceOf, bought, overtaken, unsaved>>
    BY <1>2 DEF TakeBack, Adds, worldVars
  <2>2. QED
    BY <1>0, <2>1 DEF HistoryOK, BasicOK
<1>3. CASE SendTaskResult
  <2>1. bought' = bought \cup Adds(basic.tasks) /\ UNCHANGED <<priceOf, refused, overtaken, unsaved>>
    BY <1>3 DEF SendTaskResult, Adds, worldVars
  <2>2. QED
    BY <1>0, <2>1 DEF HistoryOK, BasicOK
<1>4. CASE TickMail
  <2>1. overtaken' = overtaken \cup (Expired \cap Adds(basic.tasks)) /\ UNCHANGED <<priceOf, bought, refused, unsaved>>
    BY <1>4, TickMailEffect DEF TickMail, worldVars, history
  <2>2. QED
    BY <1>0, <2>1 DEF HistoryOK, BasicOK
<1>5. CASE OnExecute
  <2>1. Written(Head(dbLane)) \subseteq MailIds \cup {0} /\ (unsaved' = unsaved \ Written(Head(dbLane)) \/ unsaved' = unsaved \cup Written(Head(dbLane)))
    <3>1. /\ Head(dbLane) \in Units
          /\ Written(Head(dbLane)) = Adds(Head(dbLane)) \cup Dels(Head(dbLane)) \cup (IF Pays(Head(dbLane)) THEN {0} ELSE {})
          /\ (unsaved' = unsaved \ Written(Head(dbLane)) \/ unsaved' = unsaved \cup Written(Head(dbLane)))
      BY <1>5, ExecuteEffect DEF WorldOK
    <3>2. QED
      BY <3>1, UnitShape
  <2>2. UNCHANGED <<priceOf, bought, refused, overtaken>>
    BY <1>5 DEF OnExecute, history
  <2>3. QED
    BY <1>0, <2>1, <2>2 DEF HistoryOK
<1>6. CASE UNCHANGED <<history, overtaken, unsaved>>
  BY <1>0, <1>6 DEF HistoryOK, history
<1>7. RefuseStep \/ (\E m \in content.box : DeleteStep(m)) \/ DecCurrency \/ SendToWorld \/ Tick \/ TickSends \/ TickAnswers
         \/ World \/ Disconnect \/ Clock \/ UNCHANGED vars => UNCHANGED <<history, overtaken, unsaved>>
  BY DEF RefuseStep, Refuse, DeleteStep, DecCurrency, SendToWorld, Tick, TickSends, TickAnswers, World,
         HandleUnitOfWorkStream, ApplyTaskResult, Disconnect, Clock, vars, worldVars, history
<1>8. Prices \subseteq Nat /\ 0 \in Nat
  BY PlayerContentAssumption
<1>9. QED
  BY <1>1, <1>2, <1>3, <1>4, <1>5, <1>6, <1>7, <1>8, RequestCases DEF Next, BasicStep, TickStep

\* What the zone sends.
LEMMA PacketIs ==
  ASSUME NEW u \in Units, NEW e \in BOOLEAN
  PROVE  /\ Stream(u) \in Packets /\ Stream(u).type = "stream" /\ Stream(u).tasks = u
         /\ Result(u, e) \in Packets /\ Result(u, e).type = "result" /\ Result(u, e).tasks = u
BY DEF Stream, Result, Packets

\* What is on its way after each action.
LEMMA SentEffect ==
  ASSUME TypeOK
  PROVE  /\ SendToWorld => /\ basic.tasks \in Units /\ up' = Append(up, Stream(basic.tasks)) /\ Stream(basic.tasks) \in Packets
                           /\ Stream(basic.tasks).type = "stream" /\ Stream(basic.tasks).tasks = basic.tasks
         /\ SendTaskResult => /\ basic.tasks \in Units /\ up' = Append(up, Result(basic.tasks, basic.error)) /\ Result(basic.tasks, basic.error) \in Packets
                              /\ Result(basic.tasks, basic.error).type = "result" /\ Result(basic.tasks, basic.error).tasks = basic.tasks
         /\ TickSends => /\ tick.tasks \in Units /\ up' = Append(up, Stream(tick.tasks)) /\ Stream(tick.tasks) \in Packets
                         /\ Stream(tick.tasks).type = "stream" /\ Stream(tick.tasks).tasks = tick.tasks
         /\ TickAnswers => /\ tick.tasks \in Units /\ up' = Append(up, Result(tick.tasks, FALSE)) /\ Result(tick.tasks, FALSE) \in Packets
                           /\ Result(tick.tasks, FALSE).type = "result" /\ Result(tick.tasks, FALSE).tasks = tick.tasks
<1>1. basic.tasks \in Units /\ basic.error \in BOOLEAN
  BY DEF TypeOK, BasicOK
<1>2. tick.tasks \in Units
  BY DEF TypeOK, TickOK, Units
<1>3. QED
  BY <1>1, <1>2, PacketIs DEF SendToWorld, SendTaskResult, TickSends, TickAnswers

\* Every step keeps the types of all variables.
LEMMA TypeNext == TypeOK /\ [Next]_vars => TypeOK'
<1> SUFFICES ASSUME TypeOK, [Next]_vars PROVE TypeOK'
  OBVIOUS
<1>1. ContentOK' /\ BasicOK' /\ TickOK' /\ WorldOK' /\ HistoryOK'
  BY ContentNext, BasicNext, TickNext, WorldNext, HistoryNext
<1>2. now' \in Nat
  <2>1. now' = now \/ now' = now + 1
    BY DEF Next, Request, HandleMailAdd, HandleMailDel, HandleMailBuy, BasicStep, DecCurrency, TakeBack, SendToWorld,
       SendTaskResult, TickStep, Tick, TickMail, TickSends, TickAnswers, World, HandleUnitOfWorkStream, ApplyTaskResult,
       OnExecute, Disconnect, Clock, vars
  <2>2. QED
    BY <2>1 DEF TypeOK
<1>3. requests' \in Nat
  <2>1. requests' = requests \/ requests' = requests + 1
    BY DEF Next, Request, HandleMailAdd, HandleMailDel, HandleMailBuy, AddMail, Refuse, Open, BasicStep, DecCurrency, TakeBack, SendToWorld,
       SendTaskResult, TickStep, Tick, TickMail, TickSends, TickAnswers, World, HandleUnitOfWorkStream, ApplyTaskResult,
       OnExecute, Disconnect, Clock, vars
  <2>2. QED
    BY <2>1 DEF TypeOK
<1>4. failures' \in Nat
  <2>1. failures' = failures \/ failures' = failures + 1
    BY DEF Next, Request, HandleMailAdd, HandleMailDel, HandleMailBuy, BasicStep, DecCurrency, TakeBack, SendToWorld,
       SendTaskResult, TickStep, Tick, TickMail, TickSends, TickAnswers, World, HandleUnitOfWorkStream, ApplyTaskResult,
       OnExecute, Disconnect, Clock, vars, worldVars
  <2>2. QED
    BY <2>1 DEF TypeOK
<1>5. up' \in Seq(Packets)
  <2>1. \/ up' = up \/ (up # <<>> /\ up' = Tail(up)) \/ \E x \in Packets : up' = Append(up, x)
    <3>1. SendToWorld \/ SendTaskResult \/ TickSends \/ TickAnswers => \E x \in Packets : up' = Append(up, x)
      BY SentEffect
    <3>2. World => up # <<>> /\ up' = Tail(up)
      BY DEF World, HandleUnitOfWorkStream, ApplyTaskResult
    <3>3. Request \/ DecCurrency \/ TakeBack \/ Tick \/ TickMail \/ OnExecute \/ Disconnect \/ Clock \/ UNCHANGED vars => up' = up
      BY DEF Request, HandleMailAdd, HandleMailDel, HandleMailBuy, DecCurrency, TakeBack, Tick, TickMail, OnExecute,
             Disconnect, Clock, vars
    <3>4. QED
      BY <3>1, <3>2, <3>3 DEF Next, BasicStep, TickStep
  <2>2. up \in Seq(Packets)
    BY DEF TypeOK
  <2>3. QED
    BY <2>1, <2>2
<1>6. client' \subseteq MailIds
  <2>1. CASE ApplyTaskResult
    <3>1. /\ Head(up).tasks \in Units
          /\ client' = client \/ client' = (client \cup Adds(Head(up).tasks)) \ Dels(Head(up).tasks)
      BY <2>1, ApplyResultEffect DEF TypeOK
    <3>2. QED
      BY <3>1, UnitShape DEF TypeOK
  <2>2. CASE client' = client
    BY <2>2 DEF TypeOK
  <2>3. ApplyTaskResult \/ client' = client
    BY DEF Next, Request, HandleMailAdd, HandleMailDel, HandleMailBuy, BasicStep, DecCurrency, TakeBack, SendToWorld,
       SendTaskResult, TickStep, Tick, TickMail, TickSends, TickAnswers, World, HandleUnitOfWorkStream,
       OnExecute, Disconnect, Clock, vars
  <2>4. QED
    BY <2>1, <2>2, <2>3
<1>7. QED
  BY <1>1, <1>2, <1>3, <1>4, <1>5, <1>6 DEF TypeOK

(***************************************************************************)
(* What is on its way.                                                     *)
(***************************************************************************)

AddIn(x, type, m) == x.type = type /\ m \in Adds(x.tasks)
DelIn(x, type, m) == x.type = type /\ m \in Dels(x.tasks)
SomeAdd(q, type, m) == \E i \in DOMAIN q : AddIn(q[i], type, m)
SomeDel(q, type, m) == \E i \in DOMAIN q : DelIn(q[i], type, m)
\* Whatever adds a mail, something that removes it comes later.
DelAfter(q, type, m) ==
    \A i \in DOMAIN q : AddIn(q[i], type, m) => \E j \in DOMAIN q : j > i /\ DelIn(q[j], type, m)

\* What is left of a queue when the first has been taken.
LEMMA TailIs ==
  ASSUME NEW P, NEW q \in Seq(P), q # <<>>
  PROVE  /\ Len(q) \in Nat /\ Len(q) >= 1 /\ DOMAIN q = 1 .. Len(q) /\ DOMAIN Tail(q) = 1 .. Len(q) - 1
         /\ Head(q) = q[1] /\ Head(q) \in P /\ Tail(q) \in Seq(P) /\ Len(Tail(q)) = Len(q) - 1
         /\ \A i \in 1 .. Len(q) - 1 : Tail(q)[i] = q[i + 1]
OBVIOUS

\* What a queue is when one more has been put into it.
LEMMA AppendIs ==
  ASSUME NEW P, NEW q \in Seq(P), NEW x \in P
  PROVE  /\ Len(q) \in Nat /\ DOMAIN q = 1 .. Len(q) /\ DOMAIN Append(q, x) = 1 .. Len(q) + 1
         /\ Append(q, x)[Len(q) + 1] = x /\ Append(q, x) \in Seq(P) /\ Len(Append(q, x)) = Len(q) + 1
         /\ \A i \in 1 .. Len(q) : Append(q, x)[i] = q[i]
OBVIOUS

\* What is on its way when a packet has been sent.
LEMMA SendIs ==
  ASSUME NEW q \in Seq(Packets), NEW x \in Packets, NEW type, NEW m
  PROVE  /\ SomeAdd(Append(q, x), type, m) <=> SomeAdd(q, type, m) \/ AddIn(x, type, m)
         /\ SomeDel(Append(q, x), type, m) <=> SomeDel(q, type, m) \/ DelIn(x, type, m)
         /\ DelAfter(q, type, m) /\ ~AddIn(x, type, m) => DelAfter(Append(q, x), type, m)
         /\ DelIn(x, type, m) /\ ~AddIn(x, type, m) => DelAfter(Append(q, x), type, m)
<1> DEFINE r == Append(q, x)
           N == Len(q)
<1>1. /\ N \in Nat /\ DOMAIN q = 1 .. N /\ DOMAIN r = 1 .. N + 1 /\ r[N + 1] = x
      /\ \A i \in 1 .. N : r[i] = q[i]
  BY AppendIs
<1> HIDE DEF r, N
<1>2. \A i : i \in 1 .. N + 1 <=> i \in 1 .. N \/ i = N + 1
  BY <1>1
<1>3. \A i \in 1 .. N : N + 1 > i
  BY <1>1
<1>4. SomeAdd(r, type, m) <=> SomeAdd(q, type, m) \/ AddIn(x, type, m)
  <2> HIDE DEF AddIn
  <2>1. QED
    BY <1>1, <1>2 DEF SomeAdd
<1>5. SomeDel(r, type, m) <=> SomeDel(q, type, m) \/ DelIn(x, type, m)
  <2> HIDE DEF DelIn
  <2>1. QED
    BY <1>1, <1>2 DEF SomeDel
<1>6. ASSUME DelAfter(q, type, m), ~AddIn(x, type, m) PROVE DelAfter(r, type, m)
  <2>1. ASSUME NEW i \in 1 .. N + 1, AddIn(r[i], type, m) PROVE \E j \in 1 .. N + 1 : j > i /\ DelIn(r[j], type, m)
    <3>1. i \in 1 .. N /\ AddIn(q[i], type, m)
      BY <1>1, <1>2, <1>6, <2>1
    <3>2. PICK j \in 1 .. N : j > i /\ DelIn(q[j], type, m)
      BY <1>1, <1>6, <3>1 DEF DelAfter
    <3>3. QED
      BY <1>1, <1>2, <3>2
  <2>2. QED
    BY <1>1, <2>1 DEF DelAfter
<1>7. ASSUME DelIn(x, type, m), ~AddIn(x, type, m) PROVE DelAfter(r, type, m)
  <2>1. ASSUME NEW i \in 1 .. N + 1, AddIn(r[i], type, m) PROVE \E j \in 1 .. N + 1 : j > i /\ DelIn(r[j], type, m)
    <3>1. i \in 1 .. N
      BY <1>1, <1>2, <1>7, <2>1
    <3>2. QED
      BY <1>1, <1>2, <1>3, <1>7, <3>1
  <2>2. QED
    BY <1>1, <2>1 DEF DelAfter
<1>8. QED
  BY <1>4, <1>5, <1>6, <1>7 DEF r

\* ... and when the first has arrived.
LEMMA TakeIs ==
  ASSUME NEW q \in Seq(Packets), q # <<>>, NEW type, NEW m
  PROVE  /\ SomeAdd(q, type, m) <=> SomeAdd(Tail(q), type, m) \/ AddIn(Head(q), type, m)
         /\ SomeDel(q, type, m) <=> SomeDel(Tail(q), type, m) \/ DelIn(Head(q), type, m)
         /\ DelAfter(q, type, m) => DelAfter(Tail(q), type, m)
         /\ DelAfter(q, type, m) /\ AddIn(Head(q), type, m) => SomeDel(Tail(q), type, m)
<1> DEFINE r == Tail(q)
           N == Len(q)
<1>1. /\ N \in Nat /\ N >= 1 /\ DOMAIN q = 1 .. N /\ DOMAIN r = 1 .. N - 1 /\ Head(q) = q[1]
      /\ \A i \in 1 .. N - 1 : r[i] = q[i + 1]
  BY TailIs
<1> HIDE DEF r, N
<1>2. /\ 1 \in 1 .. N /\ \A i \in 1 .. N - 1 : i + 1 \in 1 .. N
      /\ \A i \in 1 .. N : i = 1 \/ (i - 1 \in 1 .. N - 1 /\ (i - 1) + 1 = i)
  BY <1>1
<1>3. \A i \in 1 .. N : i = 1 \/ (i - 1 \in 1 .. N - 1 /\ r[i - 1] = q[i])
  <2>1. ASSUME NEW i \in 1 .. N, i # 1 PROVE i - 1 \in 1 .. N - 1 /\ r[i - 1] = q[i]
    <3>1. i - 1 \in 1 .. N - 1 /\ (i - 1) + 1 = i
      BY <1>2, <2>1
    <3>2. r[i - 1] = q[(i - 1) + 1]
      BY <1>1, <3>1
    <3>3. QED
      BY <3>1, <3>2
  <2>2. QED
    BY <2>1
<1>4. SomeAdd(q, type, m) <=> SomeAdd(r, type, m) \/ AddIn(Head(q), type, m)
  BY <1>1, <1>2, <1>3 DEF SomeAdd
<1>5. SomeDel(q, type, m) <=> SomeDel(r, type, m) \/ DelIn(Head(q), type, m)
  BY <1>1, <1>2, <1>3 DEF SomeDel
<1>6. ASSUME DelAfter(q, type, m) PROVE DelAfter(r, type, m)
  <2>1. ASSUME NEW i \in 1 .. N - 1, AddIn(r[i], type, m) PROVE \E j \in 1 .. N - 1 : j > i /\ DelIn(r[j], type, m)
    <3>1. i + 1 \in 1 .. N /\ AddIn(q[i + 1], type, m)
      BY <1>1, <1>2, <2>1
    <3>2. PICK j \in 1 .. N : j > i + 1 /\ DelIn(q[j], type, m)
      BY <1>1, <1>6, <3>1 DEF DelAfter
    <3>3. j # 1 /\ j - 1 > i
      BY <3>2
    <3>4. j - 1 \in 1 .. N - 1 /\ r[j - 1] = q[j]
      BY <1>3, <3>3
    <3>5. QED
      BY <3>2, <3>3, <3>4
  <2>2. QED
    BY <1>1, <2>1 DEF DelAfter
<1>7. ASSUME DelAfter(q, type, m), AddIn(Head(q), type, m) PROVE SomeDel(r, type, m)
  <2>1. PICK j \in 1 .. N : j > 1 /\ DelIn(q[j], type, m)
    BY <1>1, <1>2, <1>7 DEF DelAfter
  <2>2. j # 1
    BY <2>1
  <2>3. j - 1 \in 1 .. N - 1 /\ DelIn(r[j - 1], type, m)
    BY <1>3, <2>1, <2>2
  <2>4. QED
    BY <1>1, <2>3 DEF SomeDel
<1>8. QED
  BY <1>4, <1>5, <1>6, <1>7 DEF r

(***************************************************************************)
(* What nobody has been told of, and what nobody is going to remove.       *)
(***************************************************************************)

InLane(q, m) == \E k \in DOMAIN q : m \in Adds(q[k])

\* A mail nobody has been told of.
Unknown(m) ==
    /\ m \notin client /\ (Connected => m \notin CacheMails)
    /\ db.mail[m] = "none"
    /\ ~SomeAdd(up, "stream", m) /\ ~SomeAdd(up, "result", m)
    /\ ~InLane(dbLane, m)

Fresh ==
    /\ \A m \in (MailIds \ Known) \cup refused :
          Unknown(m) /\ m \notin content.box /\ m \notin Adds(basic.tasks)
    /\ \A m \in Adds(basic.tasks) : m \notin bought /\ (basic.step \in {"pay", "close"} => Unknown(m))

NoDels(m) ==
    /\ m \notin Dels(basic.tasks) /\ m \notin Dels(tick.tasks)
    /\ ~SomeDel(up, "stream", m) /\ ~SomeDel(up, "result", m)

\* What is in the box, and what is not issued, nobody is going to remove.
Gone == \A m \in content.box \cup (MailIds \ Known) : NoDels(m)

\* What the DB lane adds when a unit of work has been posted to it.
LEMMA LaneAppend ==
  ASSUME NEW q \in Seq(Units), NEW u \in Units, NEW m
  PROVE  InLane(Append(q, u), m) <=> InLane(q, m) \/ m \in Adds(u)
<1> DEFINE r == Append(q, u)
           N == Len(q)
<1>1. /\ N \in Nat /\ DOMAIN q = 1 .. N /\ DOMAIN r = 1 .. N + 1 /\ r[N + 1] = u
      /\ \A i \in 1 .. N : r[i] = q[i]
  BY AppendIs
<1> HIDE DEF r, N
<1>2. \A i : i \in 1 .. N + 1 <=> i \in 1 .. N \/ i = N + 1
  BY <1>1
<1>3. QED
  BY <1>1, <1>2 DEF InLane, r

\* ... and when the first has been executed.
LEMMA LaneTail ==
  ASSUME NEW q \in Seq(Units), q # <<>>, NEW m
  PROVE  InLane(q, m) <=> InLane(Tail(q), m) \/ m \in Adds(Head(q))
<1> DEFINE r == Tail(q)
           N == Len(q)
<1>1. /\ N \in Nat /\ N >= 1 /\ DOMAIN q = 1 .. N /\ DOMAIN r = 1 .. N - 1 /\ Head(q) = q[1]
      /\ \A i \in 1 .. N - 1 : r[i] = q[i + 1]
  BY TailIs
<1> HIDE DEF r, N
<1>2. /\ 1 \in 1 .. N /\ \A i \in 1 .. N - 1 : i + 1 \in 1 .. N
      /\ \A i \in 1 .. N : i = 1 \/ (i - 1 \in 1 .. N - 1 /\ (i - 1) + 1 = i)
  BY <1>1
<1>3. \A i \in 1 .. N : i = 1 \/ (i - 1 \in 1 .. N - 1 /\ r[i - 1] = q[i])
  <2>1. ASSUME NEW i \in 1 .. N, i # 1 PROVE i - 1 \in 1 .. N - 1 /\ r[i - 1] = q[i]
    <3>1. i - 1 \in 1 .. N - 1 /\ (i - 1) + 1 = i
      BY <1>2, <2>1
    <3>2. r[i - 1] = q[(i - 1) + 1]
      BY <1>1, <3>1
    <3>3. QED
      BY <3>1, <3>2
  <2>2. QED
    BY <2>1
<1>4. QED
  BY <1>1, <1>2, <1>3 DEF InLane, r

\* What nobody has been told of stays so until the zone says it.
LEMMA UnknownStays ==
  ASSUME TypeOK, [Next]_vars, NEW m \in MailIds, Unknown(m),
         m \notin Adds(basic.tasks) \/ ~(SendToWorld \/ SendTaskResult)
  PROVE  Unknown(m)'
<1> USE DEF TypeOK
<1>0. up \in Seq(Packets) /\ dbLane \in Seq(Units) /\ db \in Dbs
  BY DEF WorldOK
<1>1. CASE HandleUnitOfWorkStream
  <2> DEFINE u == Head(up).tasks
  <2>1. /\ up # <<>> /\ Head(up).type = "stream" /\ up' = Tail(up) /\ u \in Units /\ StreamEffect(u)
    BY <1>1, HandleStreamEffect
  <2>2. m \notin Adds(u) /\ ~SomeAdd(up', "stream", m) /\ ~SomeAdd(up', "result", m)
    BY <1>0, <2>1, TakeIs DEF Unknown, AddIn
  <2>3. client' = client /\ db' = db
    BY <1>1 DEF HandleUnitOfWorkStream
  <2> HIDE DEF u
  <2>4. Connected' => m \notin CacheMails'
    BY <2>1, <2>2 DEF StreamEffect, Unknown
  <2>5. ~InLane(dbLane', m)
    BY <1>0, <2>1, <2>2, LaneAppend DEF StreamEffect, Unknown
  <2>6. QED
    BY <2>2, <2>3, <2>4, <2>5 DEF Unknown
<1>2. CASE ApplyTaskResult
  <2> DEFINE u == Head(up).tasks
  <2>1. /\ up # <<>> /\ Head(up).type = "result" /\ up' = Tail(up) /\ u \in Units
        /\ client' = client \/ client' = (client \cup Adds(u)) \ Dels(u)
    BY <1>2, ApplyResultEffect
  <2>2. m \notin Adds(u) /\ ~SomeAdd(up', "stream", m) /\ ~SomeAdd(up', "result", m)
    BY <1>0, <2>1, TakeIs DEF Unknown, AddIn
  <2>3. table' = table /\ dbLane' = dbLane /\ db' = db
    BY <1>2 DEF ApplyTaskResult, worldVars
  <2>4. QED
    BY <2>1, <2>2, <2>3, SameTable DEF Unknown
<1>3. CASE OnExecute
  <2> DEFINE u == Head(dbLane)
  <2>1. /\ dbLane # <<>> /\ u \in Units /\ dbLane' = Tail(dbLane)
        /\ \/ \A n \in MailIds : db'.mail[n] = AfterUnit(u, n, db.mail[n])
           \/ db' = db
    BY <1>0, <1>3, ExecuteEffect
  <2>2. m \notin Adds(u) /\ ~InLane(dbLane', m)
    BY <1>0, <2>1, LaneTail DEF Unknown
  <2>3. db'.mail[m] = "none"
    BY <2>1, <2>2 DEF AfterUnit, Unknown
  <2>4. table' = table /\ client' = client /\ up' = up
    BY <1>3 DEF OnExecute
  <2>5. QED
    BY <2>2, <2>3, <2>4, SameTable DEF Unknown
<1>4. CASE Disconnect
  <2>1. ~Connected'
    BY <1>4, DisconnectEffect
  <2>2. client' = client /\ db' = db /\ up' = up /\ dbLane' = dbLane
    BY <1>4 DEF Disconnect
  <2>3. QED
    BY <2>1, <2>2 DEF Unknown
<1>5. CASE SendToWorld \/ SendTaskResult \/ TickSends \/ TickAnswers
  <2>1. PICK x \in Packets : up' = Append(up, x) /\ m \notin Adds(x.tasks)
    <3>1. tick.tasks \in Seq(DelTasks)
      BY DEF TickOK
    <3>2. Adds(tick.tasks) = {}
      BY <3>1, RemovalUnit DEF DelsOnly
    <3>3. CASE SendToWorld \/ SendTaskResult
      BY <3>3, SentEffect
    <3>4. CASE TickSends \/ TickAnswers
      BY <3>2, <3>4, SentEffect
    <3>5. QED
      BY <1>5, <3>3, <3>4
  <2>2. ~SomeAdd(up', "stream", m) /\ ~SomeAdd(up', "result", m)
    BY <1>0, <2>1, SendIs DEF Unknown, AddIn
  <2>3. table' = table /\ dbLane' = dbLane /\ db' = db /\ client' = client
    BY <1>5 DEF SendToWorld, SendTaskResult, TickSends, TickAnswers, worldVars
  <2>4. QED
    BY <2>2, <2>3, SameTable DEF Unknown
<1>6. CASE UNCHANGED <<up, worldVars, client>>
  BY <1>6, SameTable DEF Unknown, worldVars
<1>7. Request \/ DecCurrency \/ TakeBack \/ Tick \/ TickMail \/ Clock \/ UNCHANGED vars => UNCHANGED <<up, worldVars, client>>
  BY DEF Request, HandleMailAdd, HandleMailDel, HandleMailBuy, DecCurrency, TakeBack, Tick, TickMail, Clock, vars
<1>8. QED
  BY <1>1, <1>2, <1>3, <1>4, <1>5, <1>6, <1>7 DEF Next, BasicStep, TickStep, World

\* At the start nothing has been issued, refused or removed.
LEMMA FreshInit == Init => Fresh /\ Gone
<1> SUFFICES ASSUME Init PROVE Fresh /\ Gone
  OBVIOUS
<1>1. TypeOK
  BY TypeInit
<1>2. basic.tasks = <<>> /\ tick.tasks = <<>>
  BY DEF Init, Idle, IdleTick
<1>3. Adds(<<>>) = {} /\ Dels(<<>>) = {}
  BY NothingUnit
<1>4. up = <<>> /\ dbLane = <<>> /\ DOMAIN <<>> = {}
  BY DEF Init
<1>5. \A type, m : ~SomeAdd(up, type, m) /\ ~SomeDel(up, type, m) /\ ~InLane(dbLane, m)
  BY <1>4 DEF SomeAdd, SomeDel, InLane
<1>6. \A m : NoDels(m)
  BY <1>2, <1>3, <1>5 DEF NoDels
<1>7. refused = {} /\ client = {} /\ Known = DOMAIN InitialEnds
  BY DEF Init, Known
<1>8. CacheMails = Known
  <2>1. table = TableOf(Known, InitialGold)
    BY <1>7, InitTable
  <2>2. PM!Find(table, Session).mails = Known
    BY <2>1, TableStep
  <2>3. QED
    BY <2>2 DEF CacheMails, Cache, PM!Find
<1>9. \A m \in MailIds \ Known : db.mail[m] = "none"
  BY <1>7 DEF Init
<1>10. content.box \subseteq Known
  BY <1>1 DEF TypeOK, ContentOK
<1>11. \A m \in MailIds \ Known : Unknown(m)
  BY <1>5, <1>7, <1>8, <1>9 DEF Unknown
<1>12. QED
  BY <1>2, <1>3, <1>6, <1>7, <1>10, <1>11 DEF Fresh, Gone

\* Nobody hears of a mail before the zone sends it, and of a refused one never
\* (ZoneUnitOfWork takes back before it sends).
LEMMA FreshNext ==
  ASSUME TypeOK, Fresh, [Next]_vars
  PROVE  Fresh'
<1> USE DEF TypeOK
<1>0. /\ Known \subseteq Known' /\ Known' \subseteq MailIds /\ Known \subseteq MailIds
      /\ bought \subseteq Known /\ refused \subseteq Known /\ Adds(basic.tasks) \subseteq Known
      /\ BasicOK' /\ Adds(basic'.tasks) \subseteq Known' /\ content.box \subseteq Known
  <2>1. TypeOK'
    BY TypeNext
  <2>2. Known' \subseteq MailIds
    BY <2>1, PlayerContentAssumption DEF ContentOK, MailIds, Known
  <2>3. QED
    BY <2>1, <2>2, ContentNext, KnownMails DEF HistoryOK, BasicOK, ContentOK
<1> DEFINE Lost == (MailIds \ Known) \cup refused
<1>1. \A m \in Lost : Unknown(m) /\ m \notin content.box /\ m \notin Adds(basic.tasks) /\ m \in MailIds
  BY <1>0 DEF Fresh
<1>2. \A m \in Lost : Unknown(m)'
  BY <1>1, UnknownStays
<1>3. ASSUME UNCHANGED <<endOf, refused, bought>>, content'.box \subseteq content.box,
             Adds(basic'.tasks) = Adds(basic.tasks), basic'.step \in {"pay", "close"} => basic.step \in {"pay", "close"},
             ~(SendToWorld \/ SendTaskResult)
      PROVE  Fresh'
  <2>1. Known' = Known
    BY <1>3 DEF Known
  <2>2. \A m \in Adds(basic.tasks) : m \notin bought' /\ (basic'.step \in {"pay", "close"} => Unknown(m)')
    BY <1>0, <1>3, UnknownStays DEF Fresh
  <2>3. \A m \in Lost : Unknown(m)' /\ m \notin content'.box /\ m \notin Adds(basic'.tasks)
    BY <1>1, <1>2, <1>3
  <2>4. QED
    BY <1>3, <2>1, <2>2, <2>3 DEF Fresh
<1>4. ASSUME UNCHANGED <<endOf, refused>>, content'.box \subseteq content.box,
             Adds(basic'.tasks) = {}
      PROVE  Fresh'
  <2>1. Known' = Known
    BY <1>4 DEF Known
  <2>2. \A m \in Lost : Unknown(m)' /\ m \notin content'.box /\ m \notin Adds(basic'.tasks)
    BY <1>1, <1>2, <1>4
  <2>3. QED
    BY <1>4, <2>1, <2>2 DEF Fresh
<1>5. ASSUME NEW d \in Durations, NEW price, NEW step, IssueStep(d, price, step)
      PROVE  Fresh'
  <2>1. PICK m \in MailIds :
           /\ m \notin Known /\ Known' = Known \cup {m} /\ content'.box = content.box \cup {m}
           /\ basic' = [step |-> step, tasks |-> <<AddTask(m)>>, price |-> price, error |-> FALSE]
    BY <1>5, AddMailEffect DEF IssueStep
  <2>2. refused' = refused /\ bought' = bought
    BY <1>5 DEF IssueStep
  <2>3. Adds(basic'.tasks) = {m}
    BY <2>1, AdditionUnit DEF AddsOne
  <2>4. m \in Lost /\ m \notin bought' /\ Unknown(m)'
    BY <1>0, <1>2, <2>1, <2>2
  <2>5. \A n \in (MailIds \ Known') \cup refused' : n \in Lost /\ n # m
    BY <1>0, <2>1, <2>2
  <2>6. \A n \in (MailIds \ Known') \cup refused' : Unknown(n)' /\ n \notin content'.box /\ n \notin Adds(basic'.tasks)
    BY <1>1, <1>2, <2>1, <2>3, <2>5
  <2>7. QED
    BY <2>3, <2>4, <2>6 DEF Fresh
<1>6. CASE TakeBack
  <2>1. /\ content'.box = content.box \ Adds(basic.tasks) /\ refused' = refused \cup Adds(basic.tasks)
        /\ basic'.tasks = <<>> /\ endOf' = endOf /\ basic.step = "close"
    <3>1. content'.box = content.box \ Adds(basic.tasks)
      BY <1>6, TakeBackEffect
    <3>2. basic' = [basic EXCEPT !.step = "answer", !.tasks = <<>>] /\ basic \in Basics
      BY <1>6 DEF TakeBack, BasicOK, Basics, Steps
    <3>3. basic'.tasks = <<>>
      BY <3>2 DEF Basics
    <3>4. QED
      BY <1>6, <3>1, <3>3 DEF TakeBack, Adds
  <2>2. Adds(basic'.tasks) = {}
    BY <2>1, NothingUnit
  <2>3. ~(SendToWorld \/ SendTaskResult)
    BY <1>6, <2>1 DEF SendToWorld, SendTaskResult, TakeBack
  <2>4. \A m \in Adds(basic.tasks) : Unknown(m)'
    BY <1>0, <2>1, <2>3, UnknownStays DEF Fresh
  <2>5. Known' = Known
    BY <2>1 DEF Known
  <2>6. \A m \in (MailIds \ Known') \cup refused' : Unknown(m)' /\ m \notin content'.box /\ m \notin Adds(basic'.tasks)
    BY <1>1, <1>2, <2>1, <2>2, <2>4, <2>5
  <2>7. QED
    BY <2>2, <2>6 DEF Fresh
<1>7. CASE SendToWorld
  <2>1. basic' = [basic EXCEPT !.step = "answer"] /\ basic \in Basics /\ UNCHANGED <<content, endOf, history>>
    BY <1>7 DEF SendToWorld, BasicOK, Basics, Steps
  <2>2. basic'.step = "answer" /\ basic'.tasks = basic.tasks /\ Known' = Known /\ refused' = refused /\ bought' = bought
    BY <2>1 DEF Basics, Known, history
  <2>3. QED
    BY <1>1, <1>2, <2>1, <2>2 DEF Fresh
<1>8. CASE SendTaskResult
  <2>1. basic'.tasks = <<>> /\ UNCHANGED <<endOf, refused, content>>
    BY <1>8 DEF SendTaskResult, Idle
  <2>2. QED
    BY <1>4, <2>1, NothingUnit
<1>9. CASE RefuseStep
  <2>1. basic'.tasks = <<>> /\ UNCHANGED <<endOf, refused, content>>
    BY <1>9 DEF RefuseStep, Refuse, Open
  <2>2. QED
    BY <1>4, <2>1, NothingUnit
<1>10. ASSUME NEW m \in content.box, DeleteStep(m) PROVE Fresh'
  <2>1. basic'.tasks = <<DelTask(m)>> /\ UNCHANGED <<endOf, refused>>
    BY <1>10 DEF DeleteStep, Open
  <2>2. content'.box = content.box \ {m}
    <3>1. content' = ContentOf(content.box \ {m}, content.gold)
      BY <1>10, RemoveEffect DEF DeleteStep
    <3>2. QED
      BY <3>1 DEF ContentOf
  <2>3. <<DelTask(m)>> \in Seq(DelTasks)
    BY <1>0 DEF DelTasks
  <2>4. Adds(basic'.tasks) = {}
    BY <2>1, <2>3, RemovalUnit DEF DelsOnly
  <2>5. QED
    BY <1>4, <2>1, <2>2, <2>4
<1>11. CASE DecCurrency
  <2>1. Adds(basic'.tasks) = Adds(basic.tasks) /\ content'.box = content.box /\ basic.step = "pay"
        /\ UNCHANGED <<endOf, refused, bought>>
    BY <1>11, DecCurrencyEffect DEF DecCurrency, history
  <2>2. QED
    BY <1>3, <1>11, <2>1 DEF SendToWorld, SendTaskResult
<1>12. CASE TickMail
  <2>1. content'.box \subseteq content.box /\ UNCHANGED <<endOf, refused, bought, basic, up>>
    BY <1>12, TickMailEffect DEF TickMail, history
  <2>2. ~(SendToWorld \/ SendTaskResult)
    <3>1. \A x : Append(up, x) # up
      <4>1. \A x : Len(Append(up, x)) = Len(up) + 1
        OBVIOUS
      <4>2. Len(up) \in Nat
        OBVIOUS
      <4>3. QED
        BY <4>1, <4>2
    <3>2. QED
      BY <2>1, <3>1 DEF SendToWorld, SendTaskResult
  <2>3. QED
    BY <1>3, <2>1, <2>2
<1>13. ASSUME Tick \/ TickSends \/ TickAnswers \/ World \/ OnExecute \/ Disconnect \/ Clock \/ UNCHANGED vars
       PROVE  Fresh'
  <2>1. UNCHANGED <<endOf, refused, bought, basic, content>>
    BY <1>13 DEF Tick, TickSends, TickAnswers, World, HandleUnitOfWorkStream, ApplyTaskResult, OnExecute, Disconnect,
                 Clock, vars, history, zoneVars
  <2>2. ~(SendToWorld \/ SendTaskResult)
    <3>1. SendToWorld => basic'.step = "answer" /\ basic.step = "close"
      BY DEF SendToWorld, BasicOK
    <3>2. SendTaskResult => basic'.step = "idle" /\ basic.step = "answer"
      BY DEF SendTaskResult, Idle
    <3>3. QED
      BY <2>1, <3>1, <3>2
  <2>3. QED
    BY <1>3, <2>1, <2>2
<1>14. QED
  BY <1>5, <1>6, <1>7, <1>8, <1>9, <1>10, <1>11, <1>12, <1>13, RequestCases DEF Next, BasicStep, TickStep

\* Where a removal comes from.
LEMMA GoneNext ==
  ASSUME TypeOK, Gone, [Next]_vars
  PROVE  Gone'
<1> USE DEF TypeOK
<1>0. /\ Known \subseteq Known' /\ Known \subseteq MailIds /\ Known = 1 .. Len(endOf)
      /\ content.box \subseteq Known /\ up \in Seq(Packets)
  BY ContentNext, KnownMails DEF ContentOK
<1> DEFINE Here == content.box \cup (MailIds \ Known)
<1>1. ASSUME content'.box \cup (MailIds \ Known') \subseteq Here, up' = up,
             \A m \in content'.box \cup (MailIds \ Known') : m \in Dels(basic'.tasks) => m \in Dels(basic.tasks),
             \A m \in content'.box \cup (MailIds \ Known') : m \in Dels(tick'.tasks) => m \in Dels(tick.tasks)
      PROVE  Gone'
  BY <1>1 DEF Gone, NoDels
<1>2. ASSUME content' = content, endOf' = endOf, NEW x \in Packets, up' = Append(up, x),
             x.tasks = basic.tasks \/ x.tasks = tick.tasks,
             basic'.tasks \in {basic.tasks, <<>>}, tick'.tasks \in {tick.tasks, <<>>}
      PROVE  Gone'
  <2>1. Known' = Known /\ content'.box = content.box
    BY <1>2 DEF Known
  <2>2. ASSUME NEW m \in Here PROVE NoDels(m)'
    <3>1. NoDels(m)
      BY <2>2 DEF Gone
    <3>2. m \notin Dels(x.tasks) /\ m \notin Dels(basic'.tasks) /\ m \notin Dels(tick'.tasks)
      BY <1>2, <3>1, NothingUnit DEF NoDels
    <3>3. ~SomeDel(up', "stream", m) /\ ~SomeDel(up', "result", m)
      BY <1>0, <1>2, <3>1, <3>2, SendIs DEF NoDels, DelIn
    <3>4. QED
      BY <3>2, <3>3 DEF NoDels
  <2>3. QED
    BY <2>1, <2>2 DEF Gone
<1>3. ASSUME NEW d \in Durations, NEW price, NEW step, IssueStep(d, price, step) PROVE Gone'
  <2> DEFINE m == Len(endOf) + 1
  <2>1. /\ m \in MailIds /\ m \notin Known /\ Known' = Known \cup {m} /\ content'.box = content.box \cup {m}
        /\ basic' = [step |-> step, tasks |-> <<AddTask(m)>>, price |-> price, error |-> FALSE]
    BY <1>3, AddMailEffect DEF IssueStep
  <2>2. up' = up /\ tick' = tick
    BY <1>3 DEF IssueStep
  <2> HIDE DEF m
  <2>3. Dels(basic'.tasks) = {}
    BY <2>1, AdditionUnit DEF AddsOne
  <2>4. QED
    BY <1>1, <2>1, <2>2, <2>3
<1>4. ASSUME NEW m \in content.box, DeleteStep(m) PROVE Gone'
  <2>1. basic'.tasks = <<DelTask(m)>> /\ UNCHANGED <<endOf, up, tick>>
    BY <1>4 DEF DeleteStep, Open
  <2>2. content'.box = content.box \ {m} /\ Known' = Known
    <3>1. content' = ContentOf(content.box \ {m}, content.gold)
      BY <1>4, RemoveEffect DEF DeleteStep
    <3>2. QED
      BY <2>1, <3>1 DEF ContentOf, Known
  <2>3. <<DelTask(m)>> \in Seq(DelTasks) /\ m \in MailIds
    BY <1>0 DEF DelTasks
  <2>4. Dels(basic'.tasks) = {n \in MailIds : \E i \in 1 .. Len(<<DelTask(m)>>) : <<DelTask(m)>>[i] = DelTask(n)}
    BY <2>1, <2>3, RemovalUnit DEF DelsOnly
  <2>5. Len(<<DelTask(m)>>) = 1 /\ <<DelTask(m)>>[1] = DelTask(m)
    OBVIOUS
  <2>6. Dels(basic'.tasks) \subseteq {m}
    BY <2>4, <2>5, DifferentTasks
  <2>7. \A n \in content'.box \cup (MailIds \ Known') : n # m /\ n \in Here
    BY <1>0, <2>2
  <2>8. QED
    BY <1>1, <2>1, <2>2, <2>6, <2>7
<1>5. CASE DecCurrency
  <2>1. Dels(basic'.tasks) = {} /\ content'.box = content.box /\ UNCHANGED <<endOf, up, tick>>
    BY <1>5, DecCurrencyEffect DEF DecCurrency
  <2>2. QED
    BY <1>1, <2>1 DEF Known
<1>6. CASE TakeBack
  <2>1. content'.box \subseteq content.box /\ UNCHANGED <<endOf, up, tick>>
    BY <1>6, TakeBackEffect DEF TakeBack
  <2>2. basic' = [basic EXCEPT !.step = "answer", !.tasks = <<>>] /\ basic \in Basics
    BY <1>6 DEF TakeBack, BasicOK, Basics, Steps
  <2>3. basic'.tasks = <<>>
    BY <2>2 DEF Basics
  <2>4. Dels(basic'.tasks) = {}
    BY <2>3, NothingUnit
  <2>5. QED
    BY <1>1, <2>1, <2>4 DEF Known
<1>7. CASE TickMail
  <2>1. /\ content'.box = content.box \ Expired /\ Expired \subseteq content.box
        /\ tick' = IdleTick \/ Dels(tick'.tasks) = Expired
        /\ UNCHANGED <<endOf, up, basic>>
    BY <1>7, TickMailEffect DEF TickMail
  <2>2. Dels(IdleTick.tasks) = {}
    BY NothingUnit DEF IdleTick
  <2>3. \A n \in content'.box \cup (MailIds \ Known') : n \notin Dels(tick'.tasks) /\ n \in Here
    BY <1>0, <2>1, <2>2 DEF Known
  <2>4. QED
    BY <1>1, <2>1, <2>3
<1>8. CASE RefuseStep \/ Tick \/ Clock \/ OnExecute \/ Disconnect \/ UNCHANGED vars
  <2>1. UNCHANGED <<content, endOf, up>> /\ basic'.tasks \in {basic.tasks, <<>>} /\ tick'.tasks \in {tick.tasks, <<>>}
    BY <1>8 DEF RefuseStep, Refuse, Open, Tick, Clock, OnExecute, Disconnect, vars, zoneVars
  <2>2. Dels(<<>>) = {}
    BY NothingUnit
  <2>3. QED
    BY <1>1, <2>1, <2>2 DEF Known
<1>9. CASE World
  <2>1. up # <<>> /\ up' = Tail(up) /\ UNCHANGED zoneVars
    BY <1>9 DEF World, HandleUnitOfWorkStream, ApplyTaskResult
  <2>2. \A m, type : ~SomeDel(up, type, m) => ~SomeDel(up', type, m)
    BY <1>0, <2>1, TakeIs
  <2>3. QED
    BY <2>1, <2>2 DEF Gone, NoDels, zoneVars, Known
<1>10. CASE SendToWorld \/ SendTaskResult \/ TickSends \/ TickAnswers
  <2>1. \E x \in Packets : up' = Append(up, x) /\ (x.tasks = basic.tasks \/ x.tasks = tick.tasks)
    BY <1>10, SentEffect
  <2>2. content' = content /\ endOf' = endOf
    BY <1>10 DEF SendToWorld, SendTaskResult, TickSends, TickAnswers
  <2>3. basic'.tasks \in {basic.tasks, <<>>}
    <3>1. basic \in Basics
      BY DEF BasicOK, Basics, Steps
    <3>2. basic' = basic \/ basic' = [basic EXCEPT !.step = "answer"] \/ basic' = Idle
      BY <1>10 DEF SendToWorld, SendTaskResult, TickSends, TickAnswers
    <3>3. QED
      BY <3>1, <3>2 DEF Basics, Idle
  <2>4. tick'.tasks \in {tick.tasks, <<>>}
    <3>1. tick \in Ticks
      BY DEF TickOK, Ticks
    <3>2. tick' = tick \/ tick' = [tick EXCEPT !.step = "answer"] \/ tick' = IdleTick
      BY <1>10 DEF SendToWorld, SendTaskResult, TickSends, TickAnswers
    <3>3. QED
      BY <3>1, <3>2 DEF Ticks, IdleTick
  <2>5. QED
    BY <1>2, <2>1, <2>2, <2>3, <2>4
<1>11. QED
  BY <1>3, <1>4, <1>5, <1>6, <1>7, <1>8, <1>9, <1>10, RequestCases DEF Next, BasicStep, TickStep

(***************************************************************************)
(* The two that follow the zone, World by streams and the client by results.*)
(* A mail on one side and not on the other is explained by what has yet to *)
(* be sent or handled; the box keeps BASIC and TICK from removing or adding*)
(* what the other has on its way.                                          *)
(***************************************************************************)

Types == {"stream", "result"}

\* The steps of a unit of work before it sends a packet of a type.
Before(type) == IF type = "stream" THEN {"pay", "close"} ELSE {"pay", "close", "answer"}
AddsToCome(type, m) == basic.step \in Before(type) /\ m \in Adds(basic.tasks)
DelsToCome(type, m) ==
    \/ basic.step \in Before(type) /\ m \in Dels(basic.tasks)
    \/ tick.step \in Before(type) /\ m \in Dels(tick.tasks)

\* What World and the client have that apply the packets of a type, and
\* where they differ from the zone at the start.
Told(type) == IF type = "stream" THEN CacheMails ELSE client
Hidden(type) == IF type = "stream" THEN 1 .. Len(InitialEnds) - EnterBudget ELSE {}
Unsent(type) == IF type = "stream" THEN {} ELSE DOMAIN InitialEnds

Follows(type, m) ==
    /\ m \in content.box =>
           m \in Told(type) \cup Unsent(type) \/ AddsToCome(type, m) \/ SomeAdd(up, type, m)
    /\ m \in Told(type) \ content.box =>
           m \in overtaken \cup Hidden(type) \/ DelsToCome(type, m) \/ SomeDel(up, type, m)
    /\ m \notin content.box \cup overtaken => DelsToCome(type, m) \/ DelAfter(up, type, m)
    /\ AddsToCome(type, m) /\ m \notin content.box => m \in overtaken

Following == Connected => \A type \in Types, m \in MailIds : Follows(type, m)

\* Nothing that concerns the followers.
LEMMA FollowsSame ==
  ASSUME NEW type, NEW m, Follows(type, m), up' = up, content'.box = content.box, overtaken' = overtaken,
         Told(type)' = Told(type), AddsToCome(type, m)' <=> AddsToCome(type, m),
         DelsToCome(type, m)' <=> DelsToCome(type, m)
  PROVE  Follows(type, m)'
<1>1. Hidden(type)' = Hidden(type) /\ Unsent(type)' = Unsent(type)
  BY DEF Hidden, Unsent
<1>2. QED
  BY <1>1 DEF Follows

\* A packet is sent.
LEMMA FollowsSent ==
  ASSUME up \in Seq(Packets), NEW x \in Packets, NEW type, NEW m, Follows(type, m),
         up' = Append(up, x), content'.box = content.box, overtaken' = overtaken, Told(type)' = Told(type),
         AddsToCome(type, m) <=> AddsToCome(type, m)' \/ AddIn(x, type, m),
         DelsToCome(type, m) <=> DelsToCome(type, m)' \/ DelIn(x, type, m)
  PROVE  Follows(type, m)'
<1>1. Hidden(type)' = Hidden(type) /\ Unsent(type)' = Unsent(type)
  BY DEF Hidden, Unsent
<1>2. ~(AddIn(x, type, m) /\ DelIn(x, type, m))
  <2>1. x.tasks \in Units
    BY DEF Packets
  <2>2. QED
    BY <2>1, UnitShape DEF AddIn, DelIn
<1>3. /\ SomeAdd(up', type, m) <=> SomeAdd(up, type, m) \/ AddIn(x, type, m)
      /\ SomeDel(up', type, m) <=> SomeDel(up, type, m) \/ DelIn(x, type, m)
      /\ DelAfter(up, type, m) /\ ~AddIn(x, type, m) => DelAfter(up', type, m)
      /\ DelIn(x, type, m) /\ ~AddIn(x, type, m) => DelAfter(up', type, m)
  BY SendIs
<1>4. AddIn(x, type, m) /\ m \notin content.box => m \in overtaken
  BY DEF Follows
<1>5. QED
  BY <1>1, <1>2, <1>3, <1>4 DEF Follows

\* A packet arrives.
LEMMA FollowsTaken ==
  ASSUME up \in Seq(Packets), up # <<>>, NEW type, NEW m, Follows(type, m), m \in content.box => NoDels(m),
         type \in Types,
         up' = Tail(up), content'.box = content.box, overtaken' = overtaken,
         IF Head(up).type = type THEN Told(type)' = (Told(type) \cup Adds(Head(up).tasks)) \ Dels(Head(up).tasks)
         ELSE Told(type)' = Told(type),
         AddsToCome(type, m)' <=> AddsToCome(type, m), DelsToCome(type, m)' <=> DelsToCome(type, m)
  PROVE  Follows(type, m)'
<1> DEFINE x == Head(up)
<1>1. Hidden(type)' = Hidden(type) /\ Unsent(type)' = Unsent(type)
  BY DEF Hidden, Unsent
<1>2. /\ SomeAdd(up, type, m) <=> SomeAdd(up', type, m) \/ AddIn(x, type, m)
      /\ SomeDel(up, type, m) <=> SomeDel(up', type, m) \/ DelIn(x, type, m)
      /\ DelAfter(up, type, m) => DelAfter(up', type, m)
      /\ DelAfter(up, type, m) /\ AddIn(x, type, m) => SomeDel(up', type, m)
  BY TakeIs
<1>3. ~(AddIn(x, type, m) /\ DelIn(x, type, m))
  <2>1. x \in Packets
    OBVIOUS
  <2>2. x.tasks \in Units
    BY <2>1 DEF Packets
  <2>3. QED
    BY <2>2, UnitShape DEF AddIn, DelIn
<1>4. m \in content.box => ~SomeDel(up, type, m)
  BY DEF NoDels, Types
<1>5. m \in Told(type)' <=> (m \in Told(type) \/ AddIn(x, type, m)) /\ ~DelIn(x, type, m)
  BY DEF AddIn, DelIn
<1> HIDE DEF x
<1>6. QED
  BY <1>1, <1>2, <1>3, <1>4, <1>5 DEF Follows

\* Followers that were told nothing have what they had.
LEMMA ToldSame ==
  ASSUME UNCHANGED <<table, client>>, NEW type
  PROVE  Told(type)' = Told(type)
BY SameTable DEF Told

\* At the start World has all mails and the client lists none.
LEMMA FollowingInit == Init => Following
<1> SUFFICES ASSUME Init, NEW type \in Types, NEW m \in MailIds PROVE Follows(type, m)
  BY DEF Following
<1> DEFINE L == Len(InitialEnds)
<1>1. TypeOK
  BY TypeInit
<1>2. content.box = EnterZoneBody(DOMAIN InitialEnds) /\ client = {} /\ overtaken = {} /\ up = <<>>
      /\ basic.step = "idle" /\ tick.step = "idle"
  BY DEF Init, Idle, IdleTick
<1>3. L \in Nat /\ DOMAIN InitialEnds = 1 .. L /\ EnterBudget \in Nat
  BY PlayerContentAssumption
<1>4. CacheMails = DOMAIN InitialEnds
  <2>1. table = TableOf(DOMAIN InitialEnds, InitialGold)
    BY InitTable
  <2>2. PM!Find(table, Session).mails = DOMAIN InitialEnds
    BY <2>1, TableStep
  <2>3. QED
    BY <2>2 DEF CacheMails, Cache, PM!Find
<1>5. DelAfter(up, type, m)
  BY <1>2 DEF DelAfter
<1>6. ~AddsToCome(type, m)
  BY <1>2 DEF AddsToCome, Before
<1>7. content.box \subseteq DOMAIN InitialEnds
  BY <1>2 DEF EnterZoneBody
<1>8. m \in DOMAIN InitialEnds \ content.box => m \in 1 .. L - EnterBudget
  <2> SUFFICES ASSUME m \in 1 .. L, m \notin content.box PROVE m \in 1 .. L - EnterBudget
    BY <1>3
  <2>1. ~(Cardinality({n \in 1 .. L : n > m}) < EnterBudget)
    BY <1>2, <1>3 DEF EnterZoneBody
  <2>2. {n \in 1 .. L : n > m} = m + 1 .. L
    BY <1>3
  <2> DEFINE k == m + 1
             C == Cardinality(k .. L)
  <2>3. k \in Int /\ L \in Int /\ k <= L + 1
    BY <1>3
  <2> HIDE DEF k, L
  <2>4. C = IF k > L THEN 0 ELSE L - k + 1
    BY <2>3, FS_Interval
  <2>5. ~(C < EnterBudget)
    BY <2>1, <2>2 DEF k
  <2> HIDE DEF C
  <2>6. m \in 1 .. L /\ k = m + 1 /\ L \in Nat
    BY <1>3 DEF k, L
  <2>7. QED
    BY <1>3, <2>4, <2>5, <2>6
<1>9. CASE type = "stream"
  BY <1>4, <1>5, <1>6, <1>7, <1>8, <1>9 DEF Follows, Told, Hidden, Unsent
<1>10. CASE type = "result"
  BY <1>2, <1>5, <1>6, <1>7, <1>10 DEF Follows, Told, Hidden, Unsent
<1>11. QED
  BY <1>9, <1>10 DEF Types

\* Every step keeps both followers at the distance of what is under way.
LEMMA FollowingNext ==
  ASSUME TypeOK, Fresh, Gone, Following, [Next]_vars
  PROVE  Following'
<1> SUFFICES ASSUME Connected', NEW type \in Types, NEW m \in MailIds PROVE Follows(type, m)'
  BY DEF Following
<1> USE DEF TypeOK
<1>0. /\ up \in Seq(Packets) /\ basic \in Basics /\ tick \in Ticks /\ Known \subseteq MailIds
      /\ content.box \subseteq Known
  BY KnownMails DEF BasicOK, Basics, Steps, TickOK, Ticks, ContentOK
<1>1. Connected
  <2>1. CASE Disconnect
    BY <2>1, DisconnectEffect
  <2>2. CASE HandleUnitOfWorkStream
    BY <2>2, HandleStreamEffect DEF StreamEffect
  <2>3. CASE table' = table
    BY <2>3, SameTable
  <2>4. Disconnect \/ HandleUnitOfWorkStream \/ table' = table
    BY DEF Next, Request, HandleMailAdd, HandleMailDel, HandleMailBuy, BasicStep, DecCurrency, TakeBack, SendToWorld,
       SendTaskResult, TickStep, Tick, TickMail, TickSends, TickAnswers, World, ApplyTaskResult, OnExecute, Clock, vars, worldVars
  <2>5. QED
    BY <2>1, <2>2, <2>3, <2>4
<1>2. Follows(type, m)
  BY <1>1 DEF Following
<1>3. ASSUME up' = up, UNCHANGED <<table, client>>, content'.box = content.box, overtaken' = overtaken,
             basic' = basic \/ (basic.step = "idle" /\ basic'.tasks = <<>>)
                \/ (basic.step = "pay" /\ basic'.step = "close" /\ Adds(basic'.tasks) = Adds(basic.tasks)
                      /\ Dels(basic'.tasks) = Dels(basic.tasks)),
             tick' = tick \/ (tick.tasks = <<>> /\ tick'.tasks = <<>>)
      PROVE  Follows(type, m)'
  <2>1. Told(type)' = Told(type)
    BY <1>3, ToldSame
  <2>2. basic.step = "idle" => basic.tasks = <<>>
    BY DEF BasicOK
  <2>3. AddsToCome(type, m)' <=> AddsToCome(type, m)
    BY <1>3, <2>2, NothingUnit DEF AddsToCome, Before
  <2>4. DelsToCome(type, m)' <=> DelsToCome(type, m)
    BY <1>3, <2>2, NothingUnit DEF DelsToCome, Before
  <2>5. QED
    BY <1>2, <1>3, <2>1, <2>3, <2>4, FollowsSame
<1>4. CASE DecCurrency
  <2>1. Adds(basic'.tasks) = Adds(basic.tasks) /\ Dels(basic'.tasks) = Dels(basic.tasks) /\ basic'.step = "close"
        /\ content'.box = content.box
    BY <1>4, DecCurrencyEffect
  <2>2. basic.step = "pay" /\ UNCHANGED <<up, table, client, overtaken, tick>>
    BY <1>4 DEF DecCurrency, worldVars
  <2>3. QED
    BY <1>3, <2>1, <2>2
<1>5. CASE RefuseStep
  <2>1. basic.step = "idle" /\ basic'.tasks = <<>> /\ UNCHANGED <<up, table, client, overtaken, tick, content>>
    BY <1>5 DEF RefuseStep, Refuse, Open, MayStart, worldVars
  <2>2. QED
    BY <1>3, <2>1
<1>6. CASE Tick
  <2>1. tick.tasks = <<>> /\ tick'.tasks = <<>> /\ UNCHANGED <<up, table, client, overtaken, basic, content>>
    BY <1>6 DEF Tick, TickOK, worldVars
  <2>2. QED
    BY <1>3, <2>1
<1>7. CASE OnExecute \/ Clock \/ UNCHANGED vars
  BY <1>3, <1>7 DEF OnExecute, Clock, vars, zoneVars, worldVars
<1>8. ASSUME NEW d \in Durations, NEW price, NEW step \in {"pay", "close"}, IssueStep(d, price, step)
      PROVE  Follows(type, m)'
  <2>1. PICK n \in MailIds :
           /\ n \notin Known /\ content'.box = content.box \cup {n}
           /\ basic' = [step |-> step, tasks |-> <<AddTask(n)>>, price |-> price, error |-> FALSE]
    BY <1>8, AddMailEffect DEF IssueStep
  <2>2. UNCHANGED <<up, table, client, overtaken, tick>> /\ basic.step = "idle" /\ basic.tasks = <<>>
    BY <1>8 DEF IssueStep, worldVars, MayStart, BasicOK
  <2>3. Adds(basic'.tasks) = {n} /\ Dels(basic'.tasks) = {} /\ basic'.step \in {"pay", "close"}
    BY <2>1, AdditionUnit DEF AddsOne
  <2>4. Told(type)' = Told(type)
    BY <2>2, ToldSame
  <2>5. CASE m = n
    <3>1. AddsToCome(type, m)' /\ m \in content'.box
      BY <2>1, <2>3, <2>5 DEF AddsToCome, Before
    <3>2. QED
      BY <3>1 DEF Follows
  <2>6. CASE m # n
    <3>1. ~AddsToCome(type, m)' /\ ~AddsToCome(type, m)
      BY <2>2, <2>3, <2>6 DEF AddsToCome, Before
    <3>2. DelsToCome(type, m)' <=> DelsToCome(type, m)
      BY <2>2, <2>3, NothingUnit DEF DelsToCome
    <3>3. Hidden(type)' = Hidden(type) /\ Unsent(type)' = Unsent(type)
      BY DEF Hidden, Unsent
    <3>4. m \in content'.box <=> m \in content.box
      BY <2>1, <2>6
    <3>5. QED
      BY <1>2, <2>2, <2>4, <3>1, <3>2, <3>3, <3>4 DEF Follows
  <2>7. QED
    BY <2>5, <2>6
<1>9. ASSUME NEW n \in content.box, DeleteStep(n) PROVE Follows(type, m)'
  <2>1. basic' = [step |-> "close", tasks |-> <<DelTask(n)>>, price |-> 0, error |-> FALSE]
        /\ UNCHANGED <<up, table, client, overtaken, tick>> /\ basic.step = "idle" /\ basic.tasks = <<>>
    BY <1>9 DEF DeleteStep, Open, worldVars, MayStart, BasicOK
  <2>2. content'.box = content.box \ {n}
    <3>1. content' = ContentOf(content.box \ {n}, content.gold)
      BY <1>9, RemoveEffect DEF DeleteStep
    <3>2. QED
      BY <3>1 DEF ContentOf
  <2>3. Adds(basic'.tasks) = {} /\ Dels(basic'.tasks) = {n} /\ basic'.step = "close"
    <3>1. n \in MailIds /\ <<DelTask(n)>> \in Seq(DelTasks)
      BY <1>0 DEF DelTasks
    <3>2. DelsOnly(<<DelTask(n)>>)
      BY <3>1, RemovalUnit
    <3>3. Len(<<DelTask(n)>>) = 1 /\ <<DelTask(n)>>[1] = DelTask(n)
      OBVIOUS
    <3>4. Dels(<<DelTask(n)>>) = {n} /\ Adds(<<DelTask(n)>>) = {}
      BY <3>1, <3>2, <3>3, DifferentTasks DEF DelsOnly
    <3>5. QED
      BY <2>1, <3>4
  <2>4. Told(type)' = Told(type)
    BY <2>1, ToldSame
  <2>5. ~AddsToCome(type, m)'
    BY <2>3 DEF AddsToCome
  <2>6. CASE m = n
    <3>1. DelsToCome(type, m)' /\ m \notin content'.box
      BY <2>2, <2>3, <2>6 DEF DelsToCome, Before
    <3>2. QED
      BY <2>5, <3>1 DEF Follows
  <2>7. CASE m # n
    <3>1. ~AddsToCome(type, m)
      BY <2>1 DEF AddsToCome, Before
    <3>2. DelsToCome(type, m)' <=> DelsToCome(type, m)
      BY <2>1, <2>3, <2>7, NothingUnit DEF DelsToCome
    <3>3. Hidden(type)' = Hidden(type) /\ Unsent(type)' = Unsent(type)
      BY DEF Hidden, Unsent
    <3>4. m \in content'.box <=> m \in content.box
      BY <2>2, <2>7
    <3>5. QED
      BY <1>2, <2>1, <2>4, <2>5, <3>1, <3>2, <3>3, <3>4 DEF Follows
  <2>8. QED
    BY <2>6, <2>7
<1>10. CASE TakeBack
  <2>1. /\ content'.box = content.box \ Adds(basic.tasks) /\ basic'.tasks = <<>>
        /\ UNCHANGED <<up, table, client, overtaken, tick>> /\ basic.step = "close"
        /\ Dels(basic.tasks) = {}
    <3>1. content'.box = content.box \ Adds(basic.tasks)
      BY <1>10, TakeBackEffect
    <3>2. basic' = [basic EXCEPT !.step = "answer", !.tasks = <<>>]
      BY <1>10 DEF TakeBack
    <3>3. basic'.tasks = <<>>
      BY <1>0, <3>2 DEF Basics
    <3>4. basic.tasks = <<>> \/ \E n \in Known : basic.tasks = <<AddTask(n)>>
      BY <1>10 DEF TakeBack, BasicOK
    <3>5. Dels(basic.tasks) = {}
      BY <1>0, <3>4, NothingUnit, AdditionUnit DEF AddsOne
    <3>6. QED
      BY <1>10, <3>1, <3>3, <3>5 DEF TakeBack, worldVars
  <2>2. Told(type)' = Told(type) /\ Hidden(type)' = Hidden(type) /\ Unsent(type)' = Unsent(type)
    BY <2>1, ToldSame DEF Hidden, Unsent
  <2>3. ~AddsToCome(type, m)'
    BY <2>1, NothingUnit DEF AddsToCome
  <2>4. DelsToCome(type, m)' <=> DelsToCome(type, m)
    BY <2>1, NothingUnit DEF DelsToCome
  <2>5. CASE m \in Adds(basic.tasks)
    <3>1. Unknown(m)
      BY <2>1, <2>5 DEF Fresh
    <3>2. m \notin Told(type) /\ ~SomeAdd(up, type, m)
      BY <1>1, <3>1 DEF Unknown, Told, Types
    <3>3. DelAfter(up', type, m)
      BY <2>1, <3>2 DEF SomeAdd, DelAfter
    <3>4. QED
      BY <2>1, <2>2, <2>3, <2>5, <3>2, <3>3 DEF Follows
  <2>6. CASE m \notin Adds(basic.tasks)
    <3>1. m \in content'.box <=> m \in content.box
      BY <2>1, <2>6
    <3>2. ~AddsToCome(type, m)
      BY <2>6 DEF AddsToCome
    <3>3. QED
      BY <1>2, <2>1, <2>2, <2>3, <2>4, <3>1, <3>2 DEF Follows
  <2>7. QED
    BY <2>5, <2>6
<1>11. CASE TickMail
  <2>1. /\ content'.box = content.box \ Expired /\ Expired \subseteq content.box
        /\ overtaken' = overtaken \cup (Expired \cap Adds(basic.tasks))
        /\ \/ Expired = {} /\ tick' = IdleTick
           \/ tick'.step = "close" /\ Dels(tick'.tasks) = Expired
    BY <1>11, TickMailEffect
  <2>2. UNCHANGED <<up, table, client, basic>> /\ tick.tasks = <<>>
    BY <1>11 DEF TickMail, worldVars, TickOK
  <2>3. Told(type)' = Told(type) /\ Hidden(type)' = Hidden(type) /\ Unsent(type)' = Unsent(type)
    BY <2>2, ToldSame DEF Hidden, Unsent
  <2>4. AddsToCome(type, m)' <=> AddsToCome(type, m)
    BY <2>2 DEF AddsToCome
  <2>5. CASE m \in Expired
    <3>1. DelsToCome(type, m)' /\ m \notin content'.box
      BY <2>1, <2>5 DEF DelsToCome, Before
    <3>2. AddsToCome(type, m) => m \in overtaken'
      BY <2>1, <2>5 DEF AddsToCome
    <3>3. QED
      BY <2>4, <3>1, <3>2 DEF Follows
  <2>6. CASE m \notin Expired
    <3>1. m \in content'.box <=> m \in content.box
      BY <2>1, <2>6
    <3>2. m \in overtaken' <=> m \in overtaken
      BY <2>1, <2>6
    <3>3. DelsToCome(type, m)' <=> DelsToCome(type, m)
      <4>1. m \notin Dels(tick'.tasks) /\ m \notin Dels(tick.tasks)
        BY <2>1, <2>2, <2>6, NothingUnit DEF IdleTick
      <4>2. QED
        BY <2>2, <4>1 DEF DelsToCome
    <3>4. QED
      BY <1>2, <2>2, <2>3, <2>4, <3>1, <3>2, <3>3 DEF Follows
  <2>7. QED
    BY <2>5, <2>6
<1>12. CASE SendToWorld \/ SendTaskResult
  <2>1. /\ content'.box = content.box /\ overtaken' = overtaken /\ tick' = tick
        /\ UNCHANGED <<table, client>>
    BY <1>12 DEF SendToWorld, SendTaskResult, worldVars
  <2>2. Told(type)' = Told(type)
    BY <2>1, ToldSame
  <2>3. PICK x \in Packets :
           /\ up' = Append(up, x) /\ x.tasks = basic.tasks
           /\ \/ x.type = "stream" /\ basic.step = "close" /\ basic'.step = "answer" /\ basic'.tasks = basic.tasks
              \/ x.type = "result" /\ basic.step = "answer" /\ basic'.step = "idle"
    <3>1. CASE SendToWorld
      <4>1. basic' = [basic EXCEPT !.step = "answer"] /\ basic.step = "close"
        BY <3>1 DEF SendToWorld
      <4>2. basic'.step = "answer" /\ basic'.tasks = basic.tasks
        BY <1>0, <4>1 DEF Basics
      <4>3. QED
        BY <3>1, <4>1, <4>2, SentEffect
    <3>2. CASE SendTaskResult
      <4>1. basic'.step = "idle" /\ basic.step = "answer"
        BY <3>2 DEF SendTaskResult, Idle
      <4>2. QED
        BY <3>2, <4>1, SentEffect
    <3>3. QED
      BY <1>12, <3>1, <3>2
  <2>4. AddsToCome(type, m) <=> AddsToCome(type, m)' \/ AddIn(x, type, m)
    BY <2>3 DEF AddsToCome, Before, AddIn, Types
  <2>5. DelsToCome(type, m) <=> DelsToCome(type, m)' \/ DelIn(x, type, m)
    BY <2>1, <2>3 DEF DelsToCome, Before, DelIn, Types
  <2>6. QED
    BY <1>0, <1>2, <2>1, <2>2, <2>3, <2>4, <2>5, FollowsSent
<1>13. CASE TickSends \/ TickAnswers
  <2>1. /\ content'.box = content.box /\ overtaken' = overtaken /\ basic' = basic
        /\ UNCHANGED <<table, client>>
    BY <1>13 DEF TickSends, TickAnswers, worldVars
  <2>2. Told(type)' = Told(type)
    BY <2>1, ToldSame
  <2>3. PICK x \in Packets :
           /\ up' = Append(up, x) /\ x.tasks = tick.tasks
           /\ \/ x.type = "stream" /\ tick.step = "close" /\ tick'.step = "answer" /\ tick'.tasks = tick.tasks
              \/ x.type = "result" /\ tick.step = "answer" /\ tick'.step = "idle"
    <3>1. CASE TickSends
      <4>1. tick' = [tick EXCEPT !.step = "answer"] /\ tick.step = "close"
        BY <3>1 DEF TickSends
      <4>2. tick'.step = "answer" /\ tick'.tasks = tick.tasks
        BY <1>0, <4>1 DEF Ticks
      <4>3. QED
        BY <3>1, <4>1, <4>2, SentEffect
    <3>2. CASE TickAnswers
      <4>1. tick'.step = "idle" /\ tick.step = "answer"
        BY <3>2 DEF TickAnswers, IdleTick
      <4>2. QED
        BY <3>2, <4>1, SentEffect
    <3>3. QED
      BY <1>13, <3>1, <3>2
  <2>4. AddsToCome(type, m) <=> AddsToCome(type, m)' \/ AddIn(x, type, m)
    <3>1. tick.tasks \in Seq(DelTasks)
      BY <1>0 DEF Ticks
    <3>2. ~AddIn(x, type, m)
      BY <2>3, <3>1, RemovalUnit DEF DelsOnly, AddIn
    <3>3. QED
      BY <2>1, <3>2 DEF AddsToCome
  <2>5. DelsToCome(type, m) <=> DelsToCome(type, m)' \/ DelIn(x, type, m)
    BY <2>1, <2>3 DEF DelsToCome, Before, DelIn, Types
  <2>6. QED
    BY <1>0, <1>2, <2>1, <2>2, <2>3, <2>4, <2>5, FollowsSent
<1>14. CASE World
  <2>1. up # <<>> /\ up' = Tail(up) /\ UNCHANGED <<content, overtaken, basic, tick>>
    BY <1>14 DEF World, HandleUnitOfWorkStream, ApplyTaskResult, zoneVars
  <2>2. IF Head(up).type = type THEN Told(type)' = (Told(type) \cup Adds(Head(up).tasks)) \ Dels(Head(up).tasks)
        ELSE Told(type)' = Told(type)
    <3>1. CASE HandleUnitOfWorkStream
      <4>1. Head(up).type = "stream" /\ StreamEffect(Head(up).tasks) /\ client' = client
        BY <3>1, HandleStreamEffect DEF HandleUnitOfWorkStream
      <4>2. QED
        BY <1>1, <4>1 DEF StreamEffect, Told, Types
    <3>2. CASE ApplyTaskResult
      <4>1. Head(up).type = "result" /\ table' = table
            /\ client' = (client \cup Adds(Head(up).tasks)) \ Dels(Head(up).tasks)
        BY <1>1, <3>2, ApplyResultEffect DEF ApplyTaskResult, worldVars
      <4>2. QED
        BY <4>1, SameTable DEF Told, Types
    <3>3. QED
      BY <1>14, <3>1, <3>2 DEF World
  <2>3. AddsToCome(type, m)' <=> AddsToCome(type, m)
    BY <2>1 DEF AddsToCome
  <2>4. DelsToCome(type, m)' <=> DelsToCome(type, m)
    BY <2>1 DEF DelsToCome
  <2>5. m \in content.box => NoDels(m)
    BY DEF Gone
  <2>6. QED
    BY <1>0, <1>2, <2>1, <2>2, <2>3, <2>4, <2>5, FollowsTaken
<1>15. CASE Disconnect
  BY <1>15, DisconnectEffect
<1>16. QED
  BY <1>4, <1>5, <1>6, <1>7, <1>8, <1>9, <1>10, <1>11, <1>12, <1>13, <1>14, <1>15, RequestCases
     DEF Next, BasicStep, TickStep

(***************************************************************************)
(* What streams write, on their way to World and in the DB lane.           *)
(***************************************************************************)

Lane == [k \in DOMAIN dbLane |-> Stream(dbLane[k])]

\* What a stream writes: mails by their ids, gold as 0.
Keys == MailIds \cup {0}
Writes(x, k) == x.type = "stream" /\ k \in Written(x.tasks)
Value(u, k) == IF k = 0 THEN NewGold(u) ELSE IF k \in Adds(u) THEN 1 ELSE 0
LastIs(q, k, v) ==
    \A i \in DOMAIN q :
        Writes(q[i], k) /\ (\A j \in DOMAIN q : j > i => ~Writes(q[j], k)) => Value(q[i].tasks, k) = v
Untouched(q, k) == \A i \in DOMAIN q : ~Writes(q[i], k)
\* Wherever a stream that adds n is before one that adds m, n is the smaller.
InOrder(q, n, m) ==
    \A i, j \in DOMAIN q : i < j /\ AddIn(q[i], "stream", n) /\ AddIn(q[j], "stream", m) => n < m

\* What a stream writes into the cache and the DB.
LEMMA WritesIs ==
  ASSUME NEW x \in Packets, x.type = "stream"
  PROVE  /\ Writes(x, 0) <=> Pays(x.tasks)
         /\ \A m \in MailIds : Writes(x, m) <=> m \in Adds(x.tasks) \cup Dels(x.tasks)
         /\ Adds(x.tasks) \cap Dels(x.tasks) = {}
<1>1. x.tasks \in Units
  BY DEF Packets
<1>2. Written(x.tasks) = Adds(x.tasks) \cup Dels(x.tasks) \cup (IF Pays(x.tasks) THEN {0} ELSE {})
  BY <1>1, WrittenIs
<1>3. Adds(x.tasks) \subseteq MailIds /\ Dels(x.tasks) \subseteq MailIds /\ (Adds(x.tasks) = {} \/ Dels(x.tasks) = {})
  BY <1>1, UnitShape
<1>4. 0 \notin MailIds
  BY PlayerContentAssumption DEF MailIds
<1>5. QED
  BY <1>2, <1>3, <1>4 DEF Writes

\* The last write of a value when one more stream has been sent.
LEMMA SendWrites ==
  ASSUME NEW q \in Seq(Packets), NEW x \in Packets, NEW k
  PROVE  /\ Untouched(Append(q, x), k) <=> Untouched(q, k) /\ ~Writes(x, k)
         /\ ~Writes(x, k) => \A v : LastIs(q, k, v) => LastIs(Append(q, x), k, v)
         /\ Writes(x, k) => LastIs(Append(q, x), k, Value(x.tasks, k))
<1> DEFINE r == Append(q, x)
           N == Len(q)
<1>1. /\ N \in Nat /\ DOMAIN q = 1 .. N /\ DOMAIN r = 1 .. N + 1 /\ r[N + 1] = x
      /\ \A i \in 1 .. N : r[i] = q[i]
  BY AppendIs
<1> HIDE DEF r, N
<1>2. \A i : i \in 1 .. N + 1 <=> i \in 1 .. N \/ i = N + 1
  BY <1>1
<1>3. \A i \in 1 .. N : N + 1 > i
  BY <1>1
<1>4. Untouched(r, k) <=> Untouched(q, k) /\ ~Writes(x, k)
  BY <1>1, <1>2 DEF Untouched
<1>5. ASSUME ~Writes(x, k), NEW v, LastIs(q, k, v) PROVE LastIs(r, k, v)
  <2>1. ASSUME NEW i \in 1 .. N + 1, Writes(r[i], k), \A j \in 1 .. N + 1 : j > i => ~Writes(r[j], k)
        PROVE  Value(r[i].tasks, k) = v
    <3>1. i \in 1 .. N /\ Writes(q[i], k) /\ r[i] = q[i]
      BY <1>1, <1>2, <1>5, <2>1
    <3>2. \A j \in 1 .. N : j > i => ~Writes(q[j], k)
      BY <1>1, <1>2, <2>1
    <3>3. QED
      BY <1>1, <1>5, <3>1, <3>2 DEF LastIs
  <2>2. QED
    BY <1>1, <2>1 DEF LastIs
<1>6. ASSUME Writes(x, k) PROVE LastIs(r, k, Value(x.tasks, k))
  <2>1. ASSUME NEW i \in 1 .. N + 1, Writes(r[i], k), \A j \in 1 .. N + 1 : j > i => ~Writes(r[j], k)
        PROVE  r[i] = x
    BY <1>1, <1>2, <1>3, <1>6, <2>1
  <2>2. QED
    BY <1>1, <2>1 DEF LastIs
<1>7. QED
  BY <1>4, <1>5, <1>6 DEF r

\* ... and when the first has been handled.
LEMMA TakeWrites ==
  ASSUME NEW q \in Seq(Packets), q # <<>>, NEW k
  PROVE  /\ Untouched(q, k) <=> Untouched(Tail(q), k) /\ ~Writes(Head(q), k)
         /\ \A v : LastIs(q, k, v) => LastIs(Tail(q), k, v)
         /\ \A v : LastIs(q, k, v) /\ Writes(Head(q), k) /\ Untouched(Tail(q), k) => Value(Head(q).tasks, k) = v
<1> DEFINE r == Tail(q)
           N == Len(q)
<1>1. /\ N \in Nat /\ N >= 1 /\ DOMAIN q = 1 .. N /\ DOMAIN r = 1 .. N - 1 /\ Head(q) = q[1]
      /\ \A i \in 1 .. N - 1 : r[i] = q[i + 1]
  BY TailIs
<1> HIDE DEF r, N
<1>2. /\ 1 \in 1 .. N /\ \A i \in 1 .. N - 1 : i + 1 \in 1 .. N
      /\ \A i \in 1 .. N : i = 1 \/ (i - 1 \in 1 .. N - 1 /\ (i - 1) + 1 = i)
  BY <1>1
<1>3. \A i \in 1 .. N : i = 1 \/ (i - 1 \in 1 .. N - 1 /\ r[i - 1] = q[i])
  <2>1. ASSUME NEW i \in 1 .. N, i # 1 PROVE i - 1 \in 1 .. N - 1 /\ r[i - 1] = q[i]
    <3>1. i - 1 \in 1 .. N - 1 /\ (i - 1) + 1 = i
      BY <1>2, <2>1
    <3>2. r[i - 1] = q[(i - 1) + 1]
      BY <1>1, <3>1
    <3>3. QED
      BY <3>1, <3>2
  <2>2. QED
    BY <2>1
<1>4. Untouched(q, k) <=> Untouched(r, k) /\ ~Writes(q[1], k)
  BY <1>1, <1>2, <1>3 DEF Untouched
<1>5. ASSUME NEW v, LastIs(q, k, v) PROVE LastIs(r, k, v)
  <2>1. ASSUME NEW i \in 1 .. N - 1, Writes(r[i], k), \A j \in 1 .. N - 1 : j > i => ~Writes(r[j], k)
        PROVE  Value(r[i].tasks, k) = v
    <3>1. i + 1 \in 1 .. N /\ Writes(q[i + 1], k) /\ r[i] = q[i + 1]
      BY <1>1, <1>2, <2>1
    <3>2. ASSUME NEW j \in 1 .. N, j > i + 1 PROVE ~Writes(q[j], k)
      <4>1. j # 1 /\ j - 1 > i
        BY <3>2
      <4>2. j - 1 \in 1 .. N - 1 /\ r[j - 1] = q[j]
        BY <1>3, <4>1
      <4>3. QED
        BY <2>1, <4>1, <4>2
    <3>3. QED
      BY <1>1, <1>5, <3>1, <3>2 DEF LastIs
  <2>2. QED
    BY <1>1, <2>1 DEF LastIs
<1>6. ASSUME NEW v, LastIs(q, k, v), Writes(q[1], k), Untouched(r, k) PROVE Value(q[1].tasks, k) = v
  <2>1. ASSUME NEW j \in 1 .. N, j > 1 PROVE ~Writes(q[j], k)
    <3>1. j # 1
      BY <2>1
    <3>2. j - 1 \in 1 .. N - 1 /\ r[j - 1] = q[j]
      BY <1>3, <3>1
    <3>3. QED
      BY <1>1, <1>6, <3>2 DEF Untouched
  <2>2. QED
    BY <1>1, <1>2, <1>6, <2>1 DEF LastIs
<1>7. QED
  BY <1>1, <1>4, <1>5, <1>6 DEF r

\* Mails stay in order when a later one is sent or the first is handled.
LEMMA InOrderIs ==
  ASSUME NEW q \in Seq(Packets), NEW n, NEW m
  PROVE  /\ \A x \in Packets : InOrder(q, n, m) /\ (SomeAdd(q, "stream", n) /\ AddIn(x, "stream", m) => n < m)
                                   => InOrder(Append(q, x), n, m)
         /\ q # <<>> /\ InOrder(q, n, m) =>
               /\ InOrder(Tail(q), n, m)
               /\ AddIn(Head(q), "stream", n) /\ SomeAdd(Tail(q), "stream", m) => n < m
<1> DEFINE N == Len(q)
<1>1. ASSUME NEW x \in Packets, InOrder(q, n, m), SomeAdd(q, "stream", n) /\ AddIn(x, "stream", m) => n < m
      PROVE  InOrder(Append(q, x), n, m)
  <2> DEFINE r == Append(q, x)
  <2>1. /\ N \in Nat /\ DOMAIN q = 1 .. N /\ DOMAIN r = 1 .. N + 1 /\ r[N + 1] = x
        /\ \A i \in 1 .. N : r[i] = q[i]
    BY AppendIs
  <2> HIDE DEF r, N
  <2>2. \A i \in 1 .. N + 1 : i \in 1 .. N \/ i = N + 1
    BY <2>1
  <2>3. \A i, j \in 1 .. N + 1 : i < j => i \in 1 .. N
    BY <2>1
  <2>4. \A i \in 1 .. N : AddIn(q[i], "stream", n) => SomeAdd(q, "stream", n)
    BY <2>1 DEF SomeAdd
  <2>5. \A i, j \in 1 .. N : i < j /\ AddIn(q[i], "stream", n) /\ AddIn(q[j], "stream", m) => n < m
    BY <1>1, <2>1 DEF InOrder
  <2>6. ASSUME NEW i \in 1 .. N + 1, NEW j \in 1 .. N + 1, i < j, AddIn(r[i], "stream", n), AddIn(r[j], "stream", m)
        PROVE  n < m
    BY <1>1, <2>1, <2>2, <2>3, <2>4, <2>5, <2>6
  <2>7. QED
    BY <2>1, <2>6 DEF InOrder, r
<1>2. ASSUME q # <<>>, InOrder(q, n, m)
      PROVE  InOrder(Tail(q), n, m) /\ (AddIn(Head(q), "stream", n) /\ SomeAdd(Tail(q), "stream", m) => n < m)
  <2> DEFINE r == Tail(q)
  <2>1. /\ N \in Nat /\ N >= 1 /\ DOMAIN q = 1 .. N /\ DOMAIN r = 1 .. N - 1 /\ Head(q) = q[1]
        /\ \A i \in 1 .. N - 1 : r[i] = q[i + 1]
    BY <1>2, TailIs
  <2> HIDE DEF r, N
  <2>2. 1 \in 1 .. N /\ \A i \in 1 .. N - 1 : i + 1 \in 1 .. N /\ 1 < i + 1
    BY <2>1
  <2>3. \A i, j \in 1 .. N : i < j /\ AddIn(q[i], "stream", n) /\ AddIn(q[j], "stream", m) => n < m
    BY <1>2, <2>1 DEF InOrder
  <2>4. ASSUME NEW i \in 1 .. N - 1, NEW j \in 1 .. N - 1, i < j, AddIn(r[i], "stream", n), AddIn(r[j], "stream", m)
        PROVE  n < m
    <3>1. i + 1 < j + 1
      BY <2>4
    <3>2. QED
      BY <2>1, <2>2, <2>3, <2>4, <3>1
  <2>5. ASSUME NEW j \in 1 .. N - 1, AddIn(q[1], "stream", n), AddIn(r[j], "stream", m) PROVE n < m
    BY <2>1, <2>2, <2>3, <2>5
  <2>6. QED
    BY <2>1, <2>4, <2>5 DEF InOrder, SomeAdd, r
<1>3. QED
  BY <1>1, <1>2

\* A unit of work as the stream that carries it.
LEMMA StreamIs ==
  ASSUME NEW u \in Units
  PROVE  Stream(u) \in Packets /\ Stream(u).type = "stream" /\ Stream(u).tasks = u
BY DEF Stream, Packets

\* The lane's transactions as the streams they came with.
LEMMA LaneIs ==
  ASSUME dbLane \in Seq(Units)
  PROVE  /\ Lane \in Seq(Packets) /\ (Lane = <<>> <=> dbLane = <<>>)
         /\ \A m : InLane(dbLane, m) <=> SomeAdd(Lane, "stream", m)
<1>1. DOMAIN dbLane = 1 .. Len(dbLane) /\ Len(dbLane) \in Nat /\ \A k \in 1 .. Len(dbLane) : dbLane[k] \in Units
  OBVIOUS
<1>2. Lane \in [1 .. Len(dbLane) -> Packets] /\ DOMAIN Lane = 1 .. Len(dbLane)
  BY <1>1, StreamIs DEF Lane
<1>3. Lane \in Seq(Packets) /\ Len(Lane) = Len(dbLane)
  BY <1>1, <1>2
<1>4. Lane = <<>> <=> dbLane = <<>>
  BY <1>1, <1>3
<1>5. \A k \in 1 .. Len(dbLane) : Lane[k].type = "stream" /\ Lane[k].tasks = dbLane[k]
  BY <1>1, StreamIs DEF Lane
<1>6. \A m : InLane(dbLane, m) <=> SomeAdd(Lane, "stream", m)
  BY <1>1, <1>2, <1>5 DEF InLane, SomeAdd, AddIn
<1>7. QED
  BY <1>3, <1>4, <1>6

\* Posting to the DB lane, and ...
LEMMA LaneSent ==
  ASSUME dbLane \in Seq(Units), NEW u \in Units, dbLane' = Append(dbLane, u)
  PROVE  Lane' = Append(Lane, Stream(u))
<1> DEFINE N == Len(dbLane)
<1>1. /\ N \in Nat /\ DOMAIN dbLane = 1 .. N /\ DOMAIN dbLane' = 1 .. N + 1 /\ dbLane'[N + 1] = u
      /\ \A i \in 1 .. N : dbLane'[i] = dbLane[i]
  BY AppendIs
<1>2. Lane \in Seq(Packets) /\ Stream(u) \in Packets
  BY LaneIs, StreamIs
<1>3. Len(Lane) = N /\ DOMAIN Lane = 1 .. N
  BY <1>1, <1>2 DEF Lane
<1> DEFINE r == Append(Lane, Stream(u))
<1>4. /\ DOMAIN r = 1 .. N + 1 /\ r[N + 1] = Stream(u) /\ r \in Seq(Packets) /\ Len(r) = N + 1
      /\ \A i \in 1 .. N : r[i] = Lane[i]
  BY <1>2, <1>3, AppendIs
<1> HIDE DEF r, N
<1>5. \A i : i \in 1 .. N + 1 <=> i \in 1 .. N \/ i = N + 1
  BY <1>1
<1>6. Lane' = [i \in 1 .. N + 1 |-> Stream(dbLane'[i])]
  BY <1>1 DEF Lane
<1>7. \A i \in 1 .. N + 1 : Lane'[i] = r[i]
  BY <1>1, <1>3, <1>4, <1>5, <1>6 DEF Lane
<1>8. DOMAIN Lane' = 1 .. N + 1
  BY <1>6
<1>9. r = [i \in 1 .. N + 1 |-> r[i]] /\ Lane' = [i \in 1 .. N + 1 |-> Lane'[i]]
  <2>1. r = [i \in DOMAIN r |-> r[i]]
    BY <1>4
  <2>2. QED
    BY <1>4, <1>6, <2>1
<1>10. QED
  BY <1>7, <1>9 DEF r

\* ... executing its first transaction, seen as streams.
LEMMA LaneTaken ==
  ASSUME dbLane \in Seq(Units), dbLane # <<>>, dbLane' = Tail(dbLane)
  PROVE  Lane # <<>> /\ Lane' = Tail(Lane) /\ Head(Lane) = Stream(Head(dbLane))
<1> DEFINE N == Len(dbLane)
<1>1. /\ N \in Nat /\ N >= 1 /\ DOMAIN dbLane = 1 .. N /\ DOMAIN dbLane' = 1 .. N - 1
      /\ Head(dbLane) = dbLane[1] /\ \A i \in 1 .. N - 1 : dbLane'[i] = dbLane[i + 1]
  BY TailIs
<1>2. Lane \in Seq(Packets) /\ Lane # <<>>
  BY LaneIs
<1>3. Len(Lane) = N /\ DOMAIN Lane = 1 .. N
  BY <1>1, <1>2 DEF Lane
<1> DEFINE r == Tail(Lane)
<1>4. /\ DOMAIN r = 1 .. N - 1 /\ r \in Seq(Packets) /\ Head(Lane) = Lane[1]
      /\ \A i \in 1 .. N - 1 : r[i] = Lane[i + 1]
  BY <1>2, <1>3, TailIs
<1> HIDE DEF r, N
<1>5. 1 \in 1 .. N /\ \A i \in 1 .. N - 1 : i + 1 \in 1 .. N
  BY <1>1
<1>6. Lane' = [i \in 1 .. N - 1 |-> Stream(dbLane'[i])]
  BY <1>1 DEF Lane
<1>7. \A i \in 1 .. N - 1 : Lane'[i] = r[i]
  <2>1. ASSUME NEW i \in 1 .. N - 1 PROVE Lane'[i] = r[i]
    <3>1. Lane'[i] = Stream(dbLane[i + 1])
      BY <1>1, <1>6
    <3>2. Lane[i + 1] = Stream(dbLane[i + 1])
      BY <1>1, <1>5 DEF Lane
    <3>3. QED
      BY <1>4, <3>1, <3>2
  <2>2. QED
    BY <2>1
<1>8. r = [i \in 1 .. N - 1 |-> r[i]] /\ Lane' = [i \in 1 .. N - 1 |-> Lane'[i]]
  <2>1. r = [i \in DOMAIN r |-> r[i]]
    BY <1>4
  <2>2. QED
    BY <1>4, <1>6, <2>1
<1>9. r = Lane'
  BY <1>7, <1>8
<1>10. Head(Lane) = Stream(Head(dbLane))
  BY <1>1, <1>4, <1>5 DEF Lane
<1>11. QED
  BY <1>2, <1>9, <1>10 DEF r

(***************************************************************************)
(* Gold, and the DB behind World's cache.                                  *)
(***************************************************************************)

\* The zone has a purchase to send.
ToPay == basic.step = "close" /\ Pays(basic.tasks)
\* The gold the zone had when it last sent something.
LastSent == IF ToPay THEN OldGold(basic.tasks) ELSE content.gold

GoldFollows ==
    /\ ToPay => NewGold(basic.tasks) = content.gold /\ ~basic.error
    /\ Connected => LastIs(up, 0, LastSent) /\ (Untouched(up, 0) => CacheGold = LastSent)

\* The mail of the request at hand is the newest there is.
Newest == \A m \in Adds(basic.tasks) : m = Len(endOf) /\ m \notin DOMAIN InitialEnds

\* Mails reach the DB in the order of their ids, each of them once.
AddedInOrder ==
    \A n, m \in MailIds :
        /\ InOrder(up, n, m) /\ InOrder(Lane, n, m)
        /\ SomeAdd(Lane, "stream", n) /\ SomeAdd(up, "stream", m) => n < m
        /\ db.mail[n] # "none" /\ (SomeAdd(Lane, "stream", m) \/ SomeAdd(up, "stream", m)) => n < m

CacheValue(k) == IF k = 0 THEN CacheGold ELSE IF k \in CacheMails THEN 1 ELSE 0
DbValue(k) == IF k = 0 THEN db.gold ELSE IF db.mail[k] = "alive" THEN 1 ELSE 0

DbBehind ==
    Connected => \A k \in Keys :
        /\ LastIs(Lane, k, CacheValue(k))
        /\ Untouched(Lane, k) /\ k \notin unsaved => DbValue(k) = CacheValue(k)

\* At the start the DB, World and the zone agree.
LEMMA BehindInit == Init => GoldFollows /\ Newest /\ AddedInOrder /\ DbBehind
<1> SUFFICES ASSUME Init PROVE GoldFollows /\ Newest /\ AddedInOrder /\ DbBehind
  OBVIOUS
<1>1. TypeOK
  BY TypeInit
<1>2. up = <<>> /\ dbLane = <<>> /\ basic.step = "idle" /\ content.gold = InitialGold
  BY DEF Init, Idle
<1>3. Lane = <<>>
  BY <1>1, <1>2, LaneIs DEF TypeOK, WorldOK
<1>4. DOMAIN <<>> = {}
  OBVIOUS
<1>5. \A k, v : Untouched(<<>>, k) /\ LastIs(<<>>, k, v)
  BY <1>4 DEF Untouched, LastIs
<1>6. \A n, m : InOrder(<<>>, n, m) /\ ~SomeAdd(<<>>, "stream", m)
  BY <1>4 DEF InOrder, SomeAdd
<1>7. CacheMails = DOMAIN InitialEnds /\ CacheGold = InitialGold
  <2>1. table = TableOf(DOMAIN InitialEnds, InitialGold)
    BY InitTable
  <2>2. PM!Find(table, Session).mails = DOMAIN InitialEnds /\ PM!Find(table, Session).gold = InitialGold
    BY <2>1, TableStep
  <2>3. QED
    BY <2>2 DEF CacheMails, CacheGold, Cache, PM!Find
<1>8. GoldFollows
  BY <1>2, <1>5, <1>7 DEF GoldFollows, ToPay, LastSent
<1>9. AddedInOrder
  BY <1>2, <1>3, <1>6 DEF AddedInOrder
<1>10. \A k \in Keys : DbValue(k) = CacheValue(k)
  <2>1. db = [mail |-> [m \in MailIds |-> IF m \in DOMAIN InitialEnds THEN "alive" ELSE "none"], gold |-> InitialGold]
    BY DEF Init
  <2>2. db.gold = InitialGold /\ \A m \in MailIds : db.mail[m] = "alive" <=> m \in DOMAIN InitialEnds
    BY <2>1
  <2>3. QED
    BY <1>7, <2>2 DEF DbValue, CacheValue, Keys
<1>11. Newest
  BY NothingUnit DEF Newest, Init, Idle
<1>12. QED
  BY <1>3, <1>5, <1>8, <1>9, <1>10, <1>11 DEF DbBehind

\* The streams of a DB lane that did not change.
LEMMA SameLane ==
  ASSUME dbLane' = dbLane
  PROVE  Lane' = Lane
BY DEF Lane

\* A request works on the mail it has issued, and no other request issues one
\* meanwhile.
LEMMA NewestNext ==
  ASSUME TypeOK, Newest, [Next]_vars
  PROVE  Newest'
<1> USE DEF TypeOK
<1>1. ASSUME NEW d \in Durations, NEW price, NEW step, IssueStep(d, price, step) PROVE Newest'
  <2>1. PICK m \in MailIds :
           /\ m = Len(endOf) + 1 /\ Len(endOf') = Len(endOf) + 1
           /\ basic' = [step |-> step, tasks |-> <<AddTask(m)>>, price |-> price, error |-> FALSE]
    BY <1>1, AddMailEffect DEF IssueStep
  <2>2. Adds(basic'.tasks) = {m}
    BY <2>1, AdditionUnit DEF AddsOne
  <2>3. m \notin DOMAIN InitialEnds
    <3>1. Len(endOf) >= Len(InitialEnds) /\ Len(endOf) \in Nat /\ Len(InitialEnds) \in Nat
          /\ DOMAIN InitialEnds = 1 .. Len(InitialEnds)
      BY PlayerContentAssumption DEF ContentOK
    <3>2. QED
      BY <2>1, <3>1
  <2>4. QED
    BY <2>1, <2>2, <2>3 DEF Newest
<1>2. ASSUME endOf' = endOf, Adds(basic'.tasks) = {} \/ Adds(basic'.tasks) = Adds(basic.tasks) PROVE Newest'
  BY <1>2 DEF Newest
<1>3. ASSUME NEW m \in content.box, DeleteStep(m) PROVE Newest'
  <2>1. basic'.tasks = <<DelTask(m)>> /\ endOf' = endOf
    BY <1>3 DEF DeleteStep, Open
  <2>2. m \in MailIds
    BY KnownMails DEF ContentOK
  <2>3. <<DelTask(m)>> \in Seq(DelTasks)
    BY <2>2 DEF DelTasks
  <2>4. QED
    BY <1>2, <2>1, <2>3, RemovalUnit DEF DelsOnly
<1>4. CASE DecCurrency
  BY <1>2, <1>4, DecCurrencyEffect
<1>5. CASE RefuseStep \/ TakeBack \/ SendToWorld \/ SendTaskResult
  <2>1. basic \in Basics
    BY DEF BasicOK, Basics, Steps
  <2>2. basic'.tasks = <<>> \/ basic'.tasks = basic.tasks
    <3>1. CASE RefuseStep \/ SendTaskResult
      BY <3>1 DEF RefuseStep, Refuse, Open, SendTaskResult, Idle
    <3>2. CASE TakeBack
      <4>1. basic' = [basic EXCEPT !.step = "answer", !.tasks = <<>>]
        BY <3>2 DEF TakeBack
      <4>2. QED
        BY <2>1, <4>1 DEF Basics
    <3>3. CASE SendToWorld
      <4>1. basic' = [basic EXCEPT !.step = "answer"]
        BY <3>3 DEF SendToWorld
      <4>2. QED
        BY <2>1, <4>1 DEF Basics
    <3>4. QED
      BY <1>5, <3>1, <3>2, <3>3
  <2>3. endOf' = endOf
    BY <1>5 DEF RefuseStep, Refuse, TakeBack, SendToWorld, SendTaskResult
  <2>4. QED
    BY <1>2, <2>2, <2>3, NothingUnit
<1>6. TickStep \/ World \/ OnExecute \/ Disconnect \/ Clock \/ UNCHANGED vars => endOf' = endOf /\ basic' = basic
  BY DEF TickStep, Tick, TickMail, TickSends, TickAnswers, World, HandleUnitOfWorkStream, ApplyTaskResult, OnExecute,
         Disconnect, Clock, vars, zoneVars
<1>7. QED
  BY <1>1, <1>2, <1>3, <1>4, <1>5, <1>6, RequestCases DEF Next, BasicStep

\* No step puts a mail behind a later one: streams are sent, handled and
\* executed in order.
LEMMA AddedInOrderNext ==
  ASSUME TypeOK, Fresh, Newest, AddedInOrder, [Next]_vars
  PROVE  AddedInOrder'
<1> SUFFICES ASSUME NEW n \in MailIds, NEW m \in MailIds
             PROVE  /\ InOrder(up', n, m) /\ InOrder(Lane', n, m)
                    /\ SomeAdd(Lane', "stream", n) /\ SomeAdd(up', "stream", m) => n < m
                    /\ db'.mail[n] # "none" /\ (SomeAdd(Lane', "stream", m) \/ SomeAdd(up', "stream", m)) => n < m
  BY DEF AddedInOrder
<1> USE DEF TypeOK
<1>0. /\ up \in Seq(Packets) /\ dbLane \in Seq(Units) /\ db \in Dbs /\ Lane \in Seq(Packets)
  BY LaneIs DEF WorldOK
<1>1. /\ InOrder(up, n, m) /\ InOrder(Lane, n, m)
      /\ SomeAdd(Lane, "stream", n) /\ SomeAdd(up, "stream", m) => n < m
      /\ db.mail[n] # "none" /\ (SomeAdd(Lane, "stream", m) \/ SomeAdd(up, "stream", m)) => n < m
  BY DEF AddedInOrder
<1>2. CASE SendToWorld \/ SendTaskResult \/ TickSends \/ TickAnswers
  <2>1. PICK x \in Packets : /\ up' = Append(up, x)
                             /\ AddIn(x, "stream", m) => Unknown(m) /\ m = Len(endOf)
    <3>1. tick.tasks \in Seq(DelTasks)
      BY DEF TickOK
    <3>2. Adds(tick.tasks) = {}
      BY <3>1, RemovalUnit DEF DelsOnly
    <3>3. CASE SendToWorld
      <4>1. basic.step = "close"
        BY <3>3 DEF SendToWorld
      <4>2. m \in Adds(basic.tasks) => Unknown(m) /\ m = Len(endOf)
        BY <4>1 DEF Fresh, Newest
      <4>3. QED
        BY <3>3, <4>2, SentEffect DEF AddIn
    <3>4. CASE SendTaskResult
      BY <3>4, SentEffect DEF AddIn
    <3>5. CASE TickSends \/ TickAnswers
      BY <3>2, <3>5, SentEffect DEF AddIn
    <3>6. QED
      BY <1>2, <3>3, <3>4, <3>5
  <2>2. dbLane' = dbLane /\ db' = db
    BY <1>2 DEF SendToWorld, SendTaskResult, TickSends, TickAnswers, worldVars
  <2>3. Lane' = Lane
    BY <2>2, SameLane
  <2>4. AddIn(x, "stream", m) =>
           (db.mail[n] # "none" \/ SomeAdd(Lane, "stream", n) \/ SomeAdd(up, "stream", n) => n < m)
    <3> SUFFICES ASSUME AddIn(x, "stream", m), db.mail[n] # "none" \/ SomeAdd(Lane, "stream", n) \/ SomeAdd(up, "stream", n)
                 PROVE  n < m
      OBVIOUS
    <3>1. ~Unknown(n) /\ Unknown(m) /\ m = Len(endOf)
      BY <1>0, <2>1, LaneIs DEF Unknown
    <3>2. n \in Known /\ n # m
      BY <3>1 DEF Fresh
    <3>3. Known = 1 .. Len(endOf) /\ Len(endOf) \in Nat
      BY KnownMails
    <3>4. QED
      BY <3>1, <3>2, <3>3
  <2>5. SomeAdd(up', "stream", m) <=> SomeAdd(up, "stream", m) \/ AddIn(x, "stream", m)
    BY <1>0, <2>1, SendIs
  <2>6. InOrder(up', n, m)
    BY <1>0, <1>1, <2>1, <2>4, InOrderIs
  <2>7. QED
    BY <1>1, <2>2, <2>3, <2>4, <2>5, <2>6
<1>3. CASE HandleUnitOfWorkStream
  <2> DEFINE u == Head(up).tasks
  <2>1. /\ up # <<>> /\ Head(up) \in Packets /\ Head(up).type = "stream" /\ up' = Tail(up) /\ u \in Units /\ StreamEffect(u)
    BY <1>3, HandleStreamEffect
  <2>2. db' = db
    BY <1>3 DEF HandleUnitOfWorkStream
  <2>3. /\ SomeAdd(up, "stream", m) <=> SomeAdd(up', "stream", m) \/ m \in Adds(u)
        /\ InOrder(up', n, m) /\ (n \in Adds(u) /\ SomeAdd(up', "stream", m) => n < m)
    BY <1>0, <1>1, <2>1, TakeIs, InOrderIs DEF AddIn
  <2> HIDE DEF u
  <2>4. CASE dbLane' = dbLane
    BY <1>1, <2>2, <2>3, <2>4, SameLane
  <2>5. CASE dbLane' = Append(dbLane, u)
    <3>1. Lane' = Append(Lane, Stream(u)) /\ Stream(u) \in Packets /\ Stream(u).type = "stream" /\ Stream(u).tasks = u
      BY <1>0, <2>1, <2>5, LaneSent, StreamIs
    <3>2. /\ SomeAdd(Lane', "stream", m) <=> SomeAdd(Lane, "stream", m) \/ m \in Adds(u)
          /\ SomeAdd(Lane', "stream", n) <=> SomeAdd(Lane, "stream", n) \/ n \in Adds(u)
      BY <1>0, <3>1, SendIs DEF AddIn
    <3>3. InOrder(Lane', n, m)
      BY <1>0, <1>1, <2>3, <3>1, InOrderIs DEF AddIn
    <3>4. QED
      BY <1>1, <2>2, <2>3, <3>2, <3>3
  <2>6. QED
    BY <2>1, <2>4, <2>5 DEF StreamEffect
<1>4. CASE ApplyTaskResult
  <2>1. /\ up # <<>> /\ Head(up).type = "result" /\ up' = Tail(up)
    BY <1>4 DEF ApplyTaskResult
  <2>2. dbLane' = dbLane /\ db' = db
    BY <1>4 DEF ApplyTaskResult, worldVars
  <2>3. (SomeAdd(up, "stream", m) <=> SomeAdd(up', "stream", m)) /\ InOrder(up', n, m)
    BY <1>0, <1>1, <2>1, TakeIs, InOrderIs DEF AddIn
  <2>4. QED
    BY <1>1, <2>2, <2>3, SameLane
<1>5. CASE OnExecute
  <2> DEFINE u == Head(dbLane)
  <2>1. /\ dbLane # <<>> /\ u \in Units /\ dbLane' = Tail(dbLane)
        /\ \/ \A k \in MailIds : db'.mail[k] = AfterUnit(u, k, db.mail[k])
           \/ db' = db
    BY <1>0, <1>5, ExecuteEffect
  <2>2. up' = up
    BY <1>5 DEF OnExecute
  <2>3. Lane # <<>> /\ Lane' = Tail(Lane) /\ Head(Lane) = Stream(u) /\ Stream(u).type = "stream" /\ Stream(u).tasks = u
    BY <1>0, <2>1, LaneTaken, StreamIs
  <2>4. /\ SomeAdd(Lane, "stream", m) <=> SomeAdd(Lane', "stream", m) \/ m \in Adds(u)
        /\ SomeAdd(Lane, "stream", n) <=> SomeAdd(Lane', "stream", n) \/ n \in Adds(u)
        /\ InOrder(Lane', n, m) /\ (n \in Adds(u) /\ SomeAdd(Lane', "stream", m) => n < m)
    BY <1>0, <1>1, <2>3, TakeIs, InOrderIs DEF AddIn
  <2> HIDE DEF u
  <2>5. db'.mail[n] # "none" => n \in Adds(u) \/ db.mail[n] # "none"
    BY <2>1 DEF AfterUnit
  <2>6. QED
    BY <1>1, <2>2, <2>4, <2>5
<1>6. CASE UNCHANGED <<up, dbLane, db>>
  BY <1>1, <1>6, SameLane
<1>7. Request \/ DecCurrency \/ TakeBack \/ Tick \/ TickMail \/ Clock \/ Disconnect \/ UNCHANGED vars => UNCHANGED <<up, dbLane, db>>
  BY DEF Request, HandleMailAdd, HandleMailDel, HandleMailBuy, DecCurrency, TakeBack, Tick, TickMail, Clock, Disconnect,
         vars, worldVars
<1>8. QED
  BY <1>2, <1>3, <1>4, <1>5, <1>6, <1>7 DEF Next, BasicStep, TickStep, World

\* Who stays connected was.
LEMMA WasConnected ==
  ASSUME TypeOK, [Next]_vars, Connected'
  PROVE  Connected
<1> USE DEF TypeOK
<1>1. CASE Disconnect
  BY <1>1, DisconnectEffect
<1>2. CASE HandleUnitOfWorkStream
  BY <1>2, HandleStreamEffect DEF StreamEffect
<1>3. CASE table' = table
  BY <1>3, SameTable
<1>4. Disconnect \/ HandleUnitOfWorkStream \/ table' = table
  BY DEF Next, Request, HandleMailAdd, HandleMailDel, HandleMailBuy, BasicStep, DecCurrency, TakeBack, SendToWorld,
     SendTaskResult, TickStep, Tick, TickMail, TickSends, TickAnswers, World, ApplyTaskResult, OnExecute, Clock, vars, worldVars
<1>5. QED
  BY <1>1, <1>2, <1>3, <1>4

\* The DB is behind World's cache by what its lane holds and what was refused.
LEMMA DbBehindNext ==
  ASSUME TypeOK, AddedInOrder, DbBehind, [Next]_vars
  PROVE  DbBehind'
<1> SUFFICES ASSUME Connected', NEW k \in Keys
             PROVE  /\ LastIs(Lane', k, CacheValue(k)')
                    /\ Untouched(Lane', k) /\ k \notin unsaved' => DbValue(k)' = CacheValue(k)'
  BY DEF DbBehind, Keys, MailIds
<1> USE DEF TypeOK
<1>0. /\ up \in Seq(Packets) /\ dbLane \in Seq(Units) /\ db \in Dbs /\ Lane \in Seq(Packets) /\ 0 \notin MailIds
  BY LaneIs, PlayerContentAssumption DEF WorldOK, MailIds
<1>1. /\ Connected /\ LastIs(Lane, k, CacheValue(k))
      /\ Untouched(Lane, k) /\ k \notin unsaved => DbValue(k) = CacheValue(k)
  BY WasConnected DEF DbBehind
<1>2. CASE HandleUnitOfWorkStream
  <2> DEFINE u == Head(up).tasks
  <2>1. /\ up # <<>> /\ Head(up) \in Packets /\ Head(up).type = "stream" /\ up' = Tail(up) /\ u \in Units /\ StreamEffect(u)
    BY <1>2, HandleStreamEffect
  <2>2. db' = db /\ unsaved' = unsaved
    BY <1>2 DEF HandleUnitOfWorkStream
  <2> HIDE DEF u
  <2>3. /\ dbLane' = Append(dbLane, u) /\ CacheMails' = (CacheMails \cup Adds(u)) \ Dels(u)
        /\ CacheGold' = IF Pays(u) THEN NewGold(u) ELSE CacheGold
    BY <1>1, <2>1 DEF StreamEffect
  <2> DEFINE x == Stream(u)
  <2>4. Lane' = Append(Lane, x) /\ x \in Packets /\ x.type = "stream" /\ x.tasks = u
    BY <1>0, <2>1, <2>3, LaneSent, StreamIs
  <2> HIDE DEF x
  <2>5. /\ Writes(x, 0) <=> Pays(u)
        /\ \A m \in MailIds : Writes(x, m) <=> m \in Adds(u) \cup Dels(u)
        /\ Adds(u) \cap Dels(u) = {}
    BY <2>4, WritesIs
  <2>6. CacheValue(k)' = IF Writes(x, k) THEN Value(u, k) ELSE CacheValue(k)
    <3>1. CASE k = 0
      BY <2>3, <2>5, <3>1 DEF CacheValue, Value
    <3>2. CASE k # 0
      <4>1. k \in MailIds
        BY <3>2 DEF Keys
      <4>2. QED
        BY <2>3, <2>5, <3>2, <4>1 DEF CacheValue, Value
    <3>3. QED
      BY <3>1, <3>2
  <2>7. /\ Untouched(Lane', k) <=> Untouched(Lane, k) /\ ~Writes(x, k)
        /\ ~Writes(x, k) => LastIs(Lane', k, CacheValue(k))
        /\ Writes(x, k) => LastIs(Lane', k, Value(u, k))
    BY <1>0, <1>1, <2>4, SendWrites
  <2>8. DbValue(k)' = DbValue(k)
    BY <2>2 DEF DbValue
  <2>9. QED
    BY <1>1, <2>2, <2>6, <2>7, <2>8
<1>3. CASE OnExecute
  <2> DEFINE u == Head(dbLane)
  <2>1. /\ dbLane # <<>> /\ u \in Units /\ dbLane' = Tail(dbLane)
        /\ \/ /\ db'.gold = IF Pays(u) THEN NewGold(u) ELSE db.gold
              /\ \A n \in MailIds : db'.mail[n] = AfterUnit(u, n, db.mail[n])
              /\ unsaved' = unsaved \ Written(u)
           \/ db' = db /\ unsaved' = unsaved \cup Written(u)
    BY <1>0, <1>3, ExecuteEffect
  <2>2. CacheValue(k)' = CacheValue(k)
    BY <1>3, SameTable DEF OnExecute, CacheValue
  <2> DEFINE x == Stream(u)
  <2>3. Lane # <<>> /\ Lane' = Tail(Lane) /\ Head(Lane) = x /\ x \in Packets /\ x.type = "stream" /\ x.tasks = u
    BY <1>0, <2>1, LaneTaken, StreamIs
  <2> HIDE DEF u, x
  <2>4. /\ Writes(x, 0) <=> Pays(u)
        /\ \A m \in MailIds : Writes(x, m) <=> m \in Adds(u) \cup Dels(u)
        /\ Adds(u) \cap Dels(u) = {}
    BY <2>3, WritesIs
  <2>5. Writes(x, k) <=> k \in Written(u)
    BY <2>3 DEF Writes
  <2>6. /\ Untouched(Lane, k) <=> Untouched(Lane', k) /\ ~Writes(x, k)
        /\ LastIs(Lane', k, CacheValue(k))
        /\ Writes(x, k) /\ Untouched(Lane', k) => Value(u, k) = CacheValue(k)
    BY <1>0, <1>1, <2>3, TakeWrites
  <2>7. CASE db' = db /\ unsaved' = unsaved \cup Written(u)
    <3>1. DbValue(k)' = DbValue(k)
      BY <2>7 DEF DbValue
    <3>2. QED
      BY <1>1, <2>2, <2>5, <2>6, <2>7, <3>1
  <2>8. CASE /\ db'.gold = IF Pays(u) THEN NewGold(u) ELSE db.gold
             /\ \A n \in MailIds : db'.mail[n] = AfterUnit(u, n, db.mail[n])
             /\ unsaved' = unsaved \ Written(u)
    <3>1. DbValue(k)' = IF Writes(x, k) THEN Value(u, k) ELSE DbValue(k)
      <4>1. CASE k = 0
        BY <2>4, <2>8, <4>1 DEF DbValue, Value
      <4>2. CASE k # 0
        <5>1. k \in MailIds
          BY <4>2 DEF Keys
        <5>2. k \in Adds(u) => db.mail[k] = "none"
          <6>1. k \in Adds(u) => SomeAdd(Lane, "stream", k)
            BY <1>0, <2>3, TakeIs DEF AddIn
          <6>2. k \in Adds(u) /\ db.mail[k] # "none" => k < k
            BY <5>1, <6>1 DEF AddedInOrder
          <6>3. k \in Int
            BY <5>1 DEF MailIds
          <6>4. QED
            BY <6>2, <6>3
        <5>3. db'.mail[k] = AfterUnit(u, k, db.mail[k]) /\ db.mail[k] \in DbStates
          BY <1>0, <2>8, <5>1 DEF Dbs
        <5>4. QED
          BY <2>4, <4>2, <5>1, <5>2, <5>3 DEF DbValue, Value, AfterUnit, DbStates
      <4>3. QED
        BY <4>1, <4>2
    <3>2. QED
      BY <1>1, <2>2, <2>5, <2>6, <2>8, <3>1
  <2>9. QED
    BY <2>1, <2>7, <2>8
<1>4. CASE Disconnect
  BY <1>4, DisconnectEffect
<1>5. CASE UNCHANGED worldVars
  BY <1>1, <1>5, SameTable, SameLane DEF worldVars, CacheValue, DbValue
<1>6. Request \/ BasicStep \/ TickStep \/ ApplyTaskResult \/ Clock \/ UNCHANGED vars => UNCHANGED worldVars
  BY DEF Request, HandleMailAdd, HandleMailDel, HandleMailBuy, BasicStep, DecCurrency, TakeBack, SendToWorld,
         SendTaskResult, TickStep, Tick, TickMail, TickSends, TickAnswers, ApplyTaskResult, Clock, vars
<1>7. QED
  BY <1>2, <1>3, <1>4, <1>5, <1>6 DEF Next, World

\* World's gold is behind the zone's by what is on its way.
LEMMA GoldFollowsNext ==
  ASSUME TypeOK, GoldFollows, [Next]_vars
  PROVE  GoldFollows'
<1> USE DEF TypeOK
<1>0. /\ up \in Seq(Packets) /\ basic \in Basics /\ tick \in Ticks
  BY DEF BasicOK, Basics, Steps, TickOK, Ticks
<1>1. ASSUME up' = up, table' = table, LastSent' = LastSent,
             ToPay' => NewGold(basic'.tasks) = content'.gold /\ ~basic'.error
      PROVE  GoldFollows'
  BY <1>1, SameTable DEF GoldFollows
<1>2. ASSUME NEW x \in Packets, up' = Append(up, x), table' = table, ~Writes(x, 0), LastSent' = LastSent,
             ToPay' => NewGold(basic'.tasks) = content'.gold /\ ~basic'.error
      PROVE  GoldFollows'
  <2>1. /\ Untouched(up', 0) <=> Untouched(up, 0)
        /\ LastIs(up, 0, LastSent) => LastIs(up', 0, LastSent)
    BY <1>0, <1>2, SendWrites
  <2>2. QED
    BY <1>2, <2>1, SameTable DEF GoldFollows
<1>3. ASSUME NEW d \in Durations, NEW price, NEW step, IssueStep(d, price, step) PROVE GoldFollows'
  <2>1. PICK m \in MailIds :
           /\ content'.gold = content.gold
           /\ basic' = [step |-> step, tasks |-> <<AddTask(m)>>, price |-> price, error |-> FALSE]
    BY <1>3, AddMailEffect DEF IssueStep
  <2>2. ~Pays(basic'.tasks)
    BY <2>1, AdditionUnit DEF AddsOne
  <2>3. UNCHANGED <<up, table>> /\ basic.step = "idle"
    BY <1>3 DEF IssueStep, worldVars, MayStart
  <2>4. QED
    BY <1>1, <2>1, <2>2, <2>3 DEF LastSent, ToPay
<1>4. ASSUME NEW m \in content.box, DeleteStep(m) PROVE GoldFollows'
  <2>1. basic'.tasks = <<DelTask(m)>> /\ UNCHANGED <<up, table>> /\ basic.step = "idle"
    BY <1>4 DEF DeleteStep, Open, worldVars, MayStart
  <2>2. content'.gold = content.gold
    <3>1. content' = ContentOf(content.box \ {m}, content.gold)
      BY <1>4, RemoveEffect DEF DeleteStep
    <3>2. QED
      BY <3>1 DEF ContentOf
  <2>3. ~Pays(basic'.tasks)
    <3>1. m \in MailIds
      BY KnownMails DEF ContentOK
    <3>2. <<DelTask(m)>> \in Seq(DelTasks)
      BY <3>1 DEF DelTasks
    <3>3. QED
      BY <2>1, <3>2, RemovalUnit DEF DelsOnly
  <2>4. QED
    BY <1>1, <2>1, <2>2, <2>3 DEF LastSent, ToPay
<1>5. CASE RefuseStep
  <2>1. basic'.tasks = <<>> /\ UNCHANGED <<up, table, content>> /\ basic.step = "idle"
    BY <1>5 DEF RefuseStep, Refuse, Open, worldVars, MayStart
  <2>2. QED
    BY <1>1, <2>1, NothingUnit DEF LastSent, ToPay
<1>6. CASE DecCurrency
  <2>1. /\ Pays(basic'.tasks) => /\ ~basic'.error /\ OldGold(basic'.tasks) = content.gold
                                 /\ NewGold(basic'.tasks) = content'.gold
        /\ ~Pays(basic'.tasks) => content'.gold = content.gold
        /\ basic'.step = "close"
    BY <1>6, DecCurrencyEffect
  <2>2. basic.step = "pay" /\ UNCHANGED <<up, table>>
    BY <1>6 DEF DecCurrency, worldVars
  <2>3. QED
    BY <1>1, <2>1, <2>2 DEF LastSent, ToPay
<1>7. CASE TakeBack
  <2>1. content'.gold = content.gold
    BY <1>7, TakeBackEffect
  <2>2. basic' = [basic EXCEPT !.step = "answer", !.tasks = <<>>] /\ basic.error /\ UNCHANGED <<up, table>>
    BY <1>7 DEF TakeBack, worldVars
  <2>3. basic'.step = "answer"
    BY <1>0, <2>2 DEF Basics
  <2>4. ~ToPay
    BY <2>2 DEF GoldFollows
  <2>5. QED
    BY <1>1, <2>1, <2>2, <2>3, <2>4 DEF LastSent, ToPay
<1>8. CASE TickMail
  <2>1. content'.gold = content.gold /\ UNCHANGED <<up, table, basic>>
    BY <1>8, TickMailEffect DEF TickMail, worldVars
  <2>2. LastSent' = LastSent /\ (ToPay' <=> ToPay)
    BY <2>1 DEF LastSent, ToPay
  <2>3. QED
    BY <1>1, <2>1, <2>2 DEF GoldFollows
<1>9. CASE Tick \/ OnExecute \/ Clock \/ UNCHANGED vars
  <2>1. UNCHANGED <<up, table, basic, content>>
    BY <1>9 DEF Tick, OnExecute, Clock, vars, zoneVars, worldVars
  <2>2. LastSent' = LastSent /\ (ToPay' <=> ToPay)
    BY <2>1 DEF LastSent, ToPay
  <2>3. QED
    BY <1>1, <2>1, <2>2 DEF GoldFollows
<1>10. CASE Disconnect
  <2>1. ~Connected' /\ UNCHANGED <<basic, content>>
    BY <1>10, DisconnectEffect DEF Disconnect, zoneVars
  <2>2. QED
    BY <2>1 DEF GoldFollows, ToPay
<1>11. CASE SendToWorld
  <2> DEFINE x == Stream(basic.tasks)
  <2>1. /\ up' = Append(up, x) /\ x \in Packets /\ x.type = "stream" /\ x.tasks = basic.tasks
    BY <1>11, SentEffect
  <2>2. basic.step = "close" /\ UNCHANGED <<table, content>>
    BY <1>11 DEF SendToWorld, worldVars
  <2>3. basic' = [basic EXCEPT !.step = "answer"]
    BY <1>11 DEF SendToWorld
  <2>4. basic'.step = "answer"
    BY <1>0, <2>3 DEF Basics
  <2>5. ~ToPay' /\ LastSent' = content.gold
    BY <2>2, <2>4 DEF ToPay, LastSent
  <2> HIDE DEF x
  <2>6. Writes(x, 0) <=> Pays(basic.tasks)
    BY <2>1, WritesIs
  <2>7. CASE ~Pays(basic.tasks)
    <3>1. LastSent = content.gold
      BY <2>7 DEF ToPay, LastSent
    <3>2. QED
      BY <1>2, <2>1, <2>2, <2>5, <2>6, <2>7, <3>1
  <2>8. CASE Pays(basic.tasks)
    <3>1. NewGold(basic.tasks) = content.gold
      BY <2>2, <2>8 DEF GoldFollows, ToPay
    <3>2. LastIs(up', 0, Value(basic.tasks, 0)) /\ ~Untouched(up', 0)
      BY <1>0, <2>1, <2>6, <2>8, SendWrites
    <3>3. LastIs(up', 0, LastSent')
      BY <2>5, <3>1, <3>2 DEF Value
    <3>4. QED
      BY <2>5, <3>2, <3>3 DEF GoldFollows
  <2>9. QED
    BY <2>7, <2>8
<1>12. CASE SendTaskResult
  <2>1. \E x \in Packets : up' = Append(up, x) /\ ~Writes(x, 0)
    BY <1>12, SentEffect DEF Writes
  <2>2. basic.step = "answer" /\ basic' = Idle /\ UNCHANGED <<table, content>>
    BY <1>12 DEF SendTaskResult, worldVars
  <2>3. basic'.step = "idle"
    BY <2>2 DEF Idle
  <2>4. QED
    BY <1>2, <2>1, <2>2, <2>3 DEF ToPay, LastSent
<1>13. CASE TickSends \/ TickAnswers
  <2>1. \E x \in Packets : up' = Append(up, x) /\ ~Writes(x, 0)
    <3>1. tick.tasks \in Seq(DelTasks)
      BY <1>0 DEF Ticks
    <3>2. ~Pays(tick.tasks)
      BY <3>1, RemovalUnit DEF DelsOnly
    <3>3. CASE TickSends
      BY <3>2, <3>3, SentEffect, WritesIs
    <3>4. CASE TickAnswers
      BY <3>4, SentEffect DEF Writes
    <3>5. QED
      BY <1>13, <3>3, <3>4
  <2>2. UNCHANGED <<table, content, basic>>
    BY <1>13 DEF TickSends, TickAnswers, worldVars
  <2>3. LastSent' = LastSent /\ (ToPay' <=> ToPay)
    BY <2>2 DEF LastSent, ToPay
  <2>4. QED
    BY <1>2, <2>1, <2>2, <2>3 DEF GoldFollows
<1>14. CASE World
  <2>1. up # <<>> /\ up' = Tail(up) /\ UNCHANGED <<content, basic>>
    BY <1>14 DEF World, HandleUnitOfWorkStream, ApplyTaskResult, zoneVars
  <2>2. LastSent' = LastSent /\ (ToPay' <=> ToPay)
    BY <2>1 DEF LastSent, ToPay
  <2>3. /\ Untouched(up, 0) <=> Untouched(up', 0) /\ ~Writes(Head(up), 0)
        /\ LastIs(up, 0, LastSent) => LastIs(up', 0, LastSent)
        /\ LastIs(up, 0, LastSent) /\ Writes(Head(up), 0) /\ Untouched(up', 0) => Value(Head(up).tasks, 0) = LastSent
    BY <1>0, <2>1, TakeWrites
  <2>4. Connected' => Connected
    BY WasConnected
  <2>5. Connected => CacheGold' = IF Writes(Head(up), 0) THEN Value(Head(up).tasks, 0) ELSE CacheGold
    <3>1. CASE HandleUnitOfWorkStream
      <4>1. Head(up) \in Packets /\ Head(up).type = "stream" /\ StreamEffect(Head(up).tasks)
        BY <3>1, HandleStreamEffect
      <4>2. Writes(Head(up), 0) <=> Pays(Head(up).tasks)
        BY <4>1, WritesIs
      <4>3. QED
        BY <4>1, <4>2 DEF StreamEffect, Value
    <3>2. CASE ApplyTaskResult
      <4>1. Head(up).type = "result" /\ table' = table
        BY <3>2 DEF ApplyTaskResult, worldVars
      <4>2. QED
        BY <4>1, SameTable DEF Writes
    <3>3. QED
      BY <1>14, <3>1, <3>2 DEF World
  <2>6. QED
    BY <2>1, <2>2, <2>3, <2>4, <2>5 DEF GoldFollows
<1>15. QED
  BY <1>3, <1>4, <1>5, <1>6, <1>7, <1>8, <1>9, <1>10, <1>11, <1>12, <1>13, <1>14, RequestCases
     DEF Next, BasicStep, TickStep

(***************************************************************************)
(* The account of the gold.  A purchase carries the gold that is left when *)
(* its mail and all before it have been paid for; since additions reach the*)
(* DB in the order of their ids, the DB has at most those when it writes   *)
(* that amount, whatever was refused before.                               *)
(***************************************************************************)

\* The mails whose purchase World has been sent, those of the start
\* included, and those that have been paid for.
Sold ==
    bought \cup DOMAIN InitialEnds \cup (IF basic.step = "answer" THEN Adds(basic.tasks) ELSE {})
Paid == Sold \cup (IF basic.step = "close" /\ ~basic.error THEN Adds(basic.tasks) ELSE {})
Through(m) == {n \in Sold : n <= m}

PricesOK ==
    /\ \A m \in DOMAIN InitialEnds : priceOf[m] = 0
    /\ basic.step = "pay" => \A m \in Adds(basic.tasks) : priceOf[m] = basic.price
    /\ basic.step = "close" /\ ~basic.error /\ ~Pays(basic.tasks) =>
           \A m \in Adds(basic.tasks) : priceOf[m] = 0

\* What a unit of work leaves of the gold is what remains when its mail and
\* all before it have been paid for.
UnitPaid(u) ==
    /\ Adds(u) \subseteq Sold
    /\ Pays(u) => \A m \in Adds(u) : NewGold(u) + Total(priceOf, Through(m)) <= InitialGold
    /\ ~Pays(u) => \A m \in Adds(u) : priceOf[m] = 0

InStreams(u) == \E i \in DOMAIN up : up[i].type = "stream" /\ up[i].tasks = u
InQueue(u) == \E k \in DOMAIN dbLane : dbLane[k] = u

DbMails == {m \in MailIds : db.mail[m] # "none"}

ZoneKept == content.gold + Total(priceOf, Paid) = InitialGold
WayPaid == \A u \in Units : InStreams(u) \/ InQueue(u) => UnitPaid(u)
DbKept == DbMails \subseteq Sold /\ db.gold + Total(priceOf, DbMails) <= InitialGold

GoldKept == PricesOK /\ ZoneKept /\ WayPaid /\ DbKept

\* What was sold has been issued, and prices are numbers.
LEMMA SoldIs ==
  ASSUME TypeOK
  PROVE  /\ Sold \subseteq Known /\ Paid \subseteq Known /\ Known \in SUBSET MailIds
         /\ DOMAIN InitialEnds \subseteq Known
         /\ MaxMailId \in Nat /\ MailIds = 1 .. MaxMailId
         /\ priceOf \in [1 .. MaxMailId -> Nat]
         /\ \A m : Through(m) \subseteq Sold
<1> USE DEF TypeOK
<1>1. Known \subseteq MailIds /\ Known = 1 .. Len(endOf) /\ Len(endOf) \in Nat /\ MaxMailId \in Nat
  BY KnownMails
<1>2. Len(endOf) >= Len(InitialEnds) /\ Len(InitialEnds) \in Nat /\ DOMAIN InitialEnds = 1 .. Len(InitialEnds)
  BY <1>1, PlayerContentAssumption DEF ContentOK
<1>3. DOMAIN InitialEnds \subseteq Known
  BY <1>1, <1>2
<1>4. QED
  BY <1>1, <1>3 DEF Sold, Paid, BasicOK, HistoryOK, MailIds, Through

\* At the start nothing has been bought.
LEMMA GoldInit == Init => GoldKept
<1> SUFFICES ASSUME Init PROVE GoldKept
  OBVIOUS
<1>1. TypeOK
  BY TypeInit
<1>2. up = <<>> /\ dbLane = <<>> /\ basic = Idle /\ content.gold = InitialGold /\ bought = {}
      /\ priceOf = [m \in MailIds |-> 0]
  BY DEF Init
<1>3. db = [mail |-> [m \in MailIds |-> IF m \in DOMAIN InitialEnds THEN "alive" ELSE "none"], gold |-> InitialGold]
  BY DEF Init
<1>4. db.gold = InitialGold /\ DbMails \subseteq DOMAIN InitialEnds /\ DbMails \subseteq MailIds
  <2>1. db.gold = InitialGold /\ \A m \in MailIds : db.mail[m] # "none" <=> m \in DOMAIN InitialEnds
    BY <1>3
  <2>2. QED
    BY <2>1 DEF DbMails
<1>5. basic.step = "idle" /\ Sold = DOMAIN InitialEnds /\ Paid = DOMAIN InitialEnds
  BY <1>2 DEF Idle, Sold, Paid
<1>6. \A S \in SUBSET MailIds : Total(priceOf, S) = 0
  <2> TAKE S \in SUBSET MailIds
  <2>1. {} \in SUBSET S /\ S \in SUBSET (1 .. MaxMailId) /\ \A m \in S \ {} : priceOf[m] = 0
    BY <1>2 DEF MailIds
  <2>2. Total(priceOf, {}) = Total(priceOf, S)
    BY <1>1, <2>1, SoldIs, TotalOfMore
  <2>3. Total(priceOf, {}) = 0
    BY <1>1, <2>1, SoldIs, TotalType
  <2>4. QED
    BY <2>2, <2>3
<1>7. InitialGold \in Int
  BY PlayerContentAssumption
<1>8. ZoneKept
  <2>1. Paid \in SUBSET MailIds
    BY <1>1, SoldIs
  <2>2. QED
    BY <1>2, <1>6, <1>7, <2>1 DEF ZoneKept
<1>9. DbKept
  <2>1. DbMails \in SUBSET MailIds
    BY <1>4
  <2>2. QED
    BY <1>4, <1>5, <1>6, <1>7, <2>1 DEF DbKept
<1>10. PricesOK
  <2>1. DOMAIN InitialEnds \subseteq MailIds
    BY <1>1, SoldIs
  <2>2. QED
    BY <1>2, <1>5, <2>1 DEF PricesOK
<1>11. WayPaid
  <2>1. DOMAIN <<>> = {}
    OBVIOUS
  <2>2. QED
    BY <1>2, <2>1 DEF WayPaid, InStreams, InQueue
<1>12. QED
  BY <1>8, <1>9, <1>10, <1>11 DEF GoldKept

\* A mail is sold when the zone sends its purchase, and no other way.
LEMMA SoldNext ==
  ASSUME TypeOK, [Next]_vars
  PROVE  \/ SendToWorld /\ Sold' = Sold \cup Adds(basic.tasks) /\ priceOf' = priceOf
         \/ ~SendToWorld /\ Sold' = Sold /\ \A m \in Known : priceOf'[m] = priceOf[m]
<1> USE DEF TypeOK
<1>0. basic \in Basics
  BY DEF BasicOK, Basics, Steps
<1>1. CASE SendToWorld
  <2>1. basic' = [basic EXCEPT !.step = "answer"] /\ basic.step = "close" /\ bought' = bought /\ priceOf' = priceOf
    BY <1>1 DEF SendToWorld, history
  <2>2. basic'.step = "answer" /\ basic'.tasks = basic.tasks
    BY <1>0, <2>1 DEF Basics
  <2>3. QED
    BY <1>1, <2>1, <2>2 DEF Sold
<1>2. CASE SendTaskResult
  <2>1. /\ bought' = bought \cup Adds(basic.tasks) /\ basic.step = "answer" /\ basic'.step = "idle" /\ priceOf' = priceOf
        /\ ~SendToWorld
    BY <1>2 DEF SendTaskResult, SendToWorld, Idle, Adds
  <2>2. QED
    BY <2>1 DEF Sold
<1>3. CASE TakeBack
  <2>1. basic' = [basic EXCEPT !.step = "answer", !.tasks = <<>>] /\ basic.step = "close" /\ bought' = bought /\ priceOf' = priceOf
        /\ ~SendToWorld
    BY <1>3 DEF TakeBack, SendToWorld
  <2>2. basic'.step = "answer" /\ basic'.tasks = <<>>
    BY <1>0, <2>1 DEF Basics
  <2>3. Adds(basic'.tasks) = {}
    BY <2>2, NothingUnit
  <2>4. QED
    BY <2>1, <2>2, <2>3 DEF Sold
<1>4. CASE DecCurrency
  <2>1. basic'.step = "close"
    BY <1>4, DecCurrencyEffect
  <2>2. basic.step = "pay" /\ bought' = bought /\ priceOf' = priceOf /\ ~SendToWorld
    BY <1>4 DEF DecCurrency, history, SendToWorld
  <2>3. QED
    BY <2>1, <2>2 DEF Sold
<1>5. ASSUME NEW d \in Durations, NEW price, NEW step \in {"pay", "close"}, IssueStep(d, price, step)
      PROVE  ~SendToWorld /\ Sold' = Sold /\ \A m \in Known : priceOf'[m] = priceOf[m]
  <2>1. PICK m \in MailIds :
           /\ m \notin Known /\ priceOf' = [priceOf EXCEPT ![m] = price]
           /\ basic' = [step |-> step, tasks |-> <<AddTask(m)>>, price |-> price, error |-> FALSE]
    BY <1>5, AddMailEffect DEF IssueStep
  <2>2. basic'.step = step
    BY <2>1
  <2>3. basic.step = "idle" /\ bought' = bought
    BY <1>5 DEF IssueStep, MayStart
  <2>4. Sold' = Sold
    BY <2>2, <2>3 DEF Sold
  <2>5. \A n \in Known : priceOf'[n] = priceOf[n]
    BY <2>1, SoldIs DEF HistoryOK
  <2>6. QED
    BY <2>3, <2>4, <2>5 DEF SendToWorld
<1>6. ASSUME RefuseStep \/ \E m \in content.box : DeleteStep(m)
      PROVE  ~SendToWorld /\ Sold' = Sold /\ priceOf' = priceOf
  <2>1. basic'.step = "close" /\ basic.step = "idle" /\ bought' = bought /\ priceOf' = priceOf
    BY <1>6 DEF RefuseStep, DeleteStep, Refuse, Open, MayStart
  <2>2. QED
    BY <2>1 DEF Sold, SendToWorld
<1>7. CASE Request
  BY <1>5, <1>6, <1>7, RequestCases
<1>8. TickStep \/ World \/ OnExecute \/ Disconnect \/ Clock \/ UNCHANGED vars => UNCHANGED <<basic, bought, priceOf>>
  BY DEF TickStep, Tick, TickMail, TickSends, TickAnswers, World, HandleUnitOfWorkStream, ApplyTaskResult, OnExecute,
         Disconnect, Clock, vars, zoneVars, history
<1>9. ASSUME UNCHANGED <<basic, bought, priceOf>>
      PROVE  Sold' = Sold /\ priceOf' = priceOf /\ ~SendToWorld
  <2>1. ~SendToWorld
    <3>1. ASSUME SendToWorld PROVE FALSE
      <4>1. basic' = [basic EXCEPT !.step = "answer"] /\ basic.step = "close"
        BY <3>1 DEF SendToWorld
      <4>2. basic'.step = "answer"
        BY <1>0, <4>1 DEF Basics
      <4>3. QED
        BY <1>9, <4>1, <4>2
    <3>2. QED
      BY <3>1
  <2>2. QED
    BY <1>9, <2>1 DEF Sold
<1>10. QED
  BY <1>1, <1>2, <1>3, <1>4, <1>7, <1>8, <1>9 DEF Next, BasicStep

\* The purchase at hand is of a mail later than all that have been sold.
LEMMA LatestMail ==
  ASSUME TypeOK, Fresh, Newest, basic.step # "answer", NEW m \in Adds(basic.tasks)
  PROVE  m \in MailIds /\ m \in Known /\ m \notin Sold /\ \A n \in Sold : n < m
<1> USE DEF TypeOK
<1>1. m \in Known /\ m = Len(endOf) /\ m \notin DOMAIN InitialEnds /\ m \notin bought
  BY DEF Newest, Fresh, BasicOK
<1>2. m \notin Sold
  BY <1>1 DEF Sold
<1>3. Known \subseteq MailIds /\ Known = 1 .. Len(endOf) /\ Len(endOf) \in Nat
  BY KnownMails
<1>4. ASSUME NEW n \in Sold PROVE n < m
  <2>1. n \in Known /\ n # m
    BY <1>2, SoldIs
  <2>2. QED
    BY <1>1, <1>3, <2>1
<1>5. QED
  BY <1>1, <1>2, <1>3, <1>4

\* A sum over mails that were sold stays what it is.
LEMMA SumStays ==
  ASSUME TypeOK, TypeOK', [Next]_vars, NEW S, S \subseteq Sold
  PROVE  Total(priceOf, S)' = Total(priceOf, S) /\ S \subseteq Sold' /\ \A m \in S : priceOf'[m] = priceOf[m]
<1>1. S \subseteq Sold' /\ \A m \in S : priceOf'[m] = priceOf[m]
  BY SoldNext, SoldIs
<1>2. /\ S \in SUBSET (1 .. MaxMailId) /\ MaxMailId \in Nat /\ priceOf \in [1 .. MaxMailId -> Nat]
      /\ priceOf' \in [1 .. MaxMailId -> Nat]
  <2>1. priceOf' \in [1 .. MaxMailId -> Nat]
    BY DEF TypeOK, HistoryOK, MailIds
  <2>2. QED
    BY <2>1, SoldIs
<1>3. Total(priceOf, S) = Total(priceOf', S)
  BY <1>1, <1>2, TotalOfSame
<1>4. Total(priceOf, S)' = Total(priceOf', S)
  OBVIOUS
<1>5. QED
  BY <1>1, <1>3, <1>4

\* What had been sold up to a mail stays what it was: later ones are later.
LEMMA ThroughStays ==
  ASSUME TypeOK, Fresh, Newest, [Next]_vars, NEW m \in Sold
  PROVE  Through(m)' = Through(m) /\ m \in Sold'
<1> USE DEF TypeOK
<1>1. CASE Sold' = Sold
  BY <1>1 DEF Through
<1>2. CASE SendToWorld /\ Sold' = Sold \cup Adds(basic.tasks)
  <2>1. basic.step # "answer"
    BY <1>2 DEF SendToWorld
  <2>2. \A x \in Adds(basic.tasks) : m < x /\ x \in Int
    BY <2>1, LatestMail DEF MailIds
  <2>3. m \in Int
    BY SoldIs
  <2>4. \A x \in Adds(basic.tasks) : ~(x <= m)
    BY <2>2, <2>3
  <2>5. QED
    BY <1>2, <2>4 DEF Through
<1>3. QED
  BY <1>1, <1>2, SoldNext

\* A unit of work that is paid for stays so while others are sent.
LEMMA UnitPaidStays ==
  ASSUME TypeOK, TypeOK', Fresh, Newest, [Next]_vars, NEW u \in Units, UnitPaid(u)
  PROVE  UnitPaid(u)'
<1>1. Adds(u) \subseteq Sold
  BY DEF UnitPaid
<1>2. Adds(u) \subseteq Sold' /\ \A m \in Adds(u) : priceOf'[m] = priceOf[m]
  BY <1>1, SumStays
<1>3. ASSUME NEW m \in Adds(u) PROVE Total(priceOf, Through(m))' = Total(priceOf, Through(m))
  <2>1. Through(m)' = Through(m) /\ Through(m) \subseteq Sold
    BY <1>1, ThroughStays, SoldIs
  <2>2. PICK S : S = Through(m)
    OBVIOUS
  <2>3. Total(priceOf, S)' = Total(priceOf, S)
    BY <2>1, <2>2, SumStays
  <2>4. Total(priceOf', S) = Total(priceOf, S)
    BY <2>3
  <2>5. QED
    BY <2>1, <2>2, <2>4
<1>4. QED
  BY <1>2, <1>3 DEF UnitPaid

\* Nothing is on its way that was not or has just been sent.
LEMMA WayNext ==
  ASSUME TypeOK, [Next]_vars, NEW u \in Units, InStreams(u)' \/ InQueue(u)'
  PROVE  \/ InStreams(u) \/ InQueue(u)
         \/ SendToWorld /\ u = basic.tasks
         \/ TickSends /\ u = tick.tasks
<1> USE DEF TypeOK
<1>0. up \in Seq(Packets) /\ dbLane \in Seq(Units)
  BY DEF WorldOK
<1>1. ASSUME NEW x \in Packets, up' = Append(up, x), dbLane' = dbLane
      PROVE  InStreams(u) \/ InQueue(u) \/ (x.type = "stream" /\ x.tasks = u)
  <2>1. InQueue(u)' => InQueue(u)
    BY <1>1 DEF InQueue
  <2>2. ASSUME InStreams(u)' PROVE InStreams(u) \/ (x.type = "stream" /\ x.tasks = u)
    <3>1. PICK i \in DOMAIN up' : up'[i].type = "stream" /\ up'[i].tasks = u
      BY <2>2 DEF InStreams
    <3>2. (i \in DOMAIN up /\ up'[i] = up[i]) \/ up'[i] = x
      <4>1. /\ Len(up) \in Nat /\ DOMAIN up = 1 .. Len(up) /\ DOMAIN up' = 1 .. Len(up) + 1
            /\ up'[Len(up) + 1] = x /\ \A j \in 1 .. Len(up) : up'[j] = up[j]
        BY <1>0, <1>1, AppendIs
      <4>2. QED
        BY <3>1, <4>1
    <3>3. QED
      BY <3>1, <3>2 DEF InStreams
  <2>3. QED
    BY <2>1, <2>2
<1>2. ASSUME up # <<>>, up' = Tail(up), InStreams(u)' PROVE InStreams(u)
  <2>1. PICK i \in DOMAIN up' : up'[i].type = "stream" /\ up'[i].tasks = u
    BY <1>2 DEF InStreams
  <2>2. i + 1 \in DOMAIN up /\ up'[i] = up[i + 1]
    <3>1. /\ Len(up) \in Nat /\ DOMAIN up = 1 .. Len(up) /\ DOMAIN up' = 1 .. Len(up) - 1
          /\ \A j \in 1 .. Len(up) - 1 : up'[j] = up[j + 1]
      BY <1>0, <1>2, TailIs
    <3>2. QED
      BY <2>1, <3>1
  <2>3. QED
    BY <2>1, <2>2 DEF InStreams
<1>3. CASE SendToWorld \/ SendTaskResult \/ TickSends \/ TickAnswers
  <2>1. dbLane' = dbLane
    BY <1>3 DEF SendToWorld, SendTaskResult, TickSends, TickAnswers, worldVars
  <2>2. QED
    BY <1>1, <1>3, <2>1, SentEffect
<1>4. CASE HandleUnitOfWorkStream
  <2>1. /\ up # <<>> /\ Head(up) \in Packets /\ Head(up).type = "stream" /\ up' = Tail(up) /\ Head(up).tasks \in Units
        /\ StreamEffect(Head(up).tasks)
    BY <1>4, HandleStreamEffect
  <2>2. CASE InStreams(u)'
    BY <1>2, <2>1, <2>2
  <2>3. CASE InQueue(u)' /\ dbLane' = dbLane
    BY <2>3 DEF InQueue
  <2>4. CASE InQueue(u)' /\ dbLane' = Append(dbLane, Head(up).tasks)
    <3>1. PICK k \in DOMAIN dbLane' : dbLane'[k] = u
      BY <2>4 DEF InQueue
    <3>2. (k \in DOMAIN dbLane /\ dbLane[k] = u) \/ u = Head(up).tasks
      <4> DEFINE v == Head(up).tasks
      <4>1. v \in Units /\ dbLane' = Append(dbLane, v)
        BY <2>1, <2>4
      <4> HIDE DEF v
      <4>2. /\ Len(dbLane) \in Nat /\ DOMAIN dbLane = 1 .. Len(dbLane) /\ DOMAIN dbLane' = 1 .. Len(dbLane) + 1
            /\ dbLane'[Len(dbLane) + 1] = v /\ \A j \in 1 .. Len(dbLane) : dbLane'[j] = dbLane[j]
        BY <1>0, <4>1, AppendIs
      <4>3. (k \in DOMAIN dbLane /\ dbLane[k] = u) \/ u = v
        BY <3>1, <4>2
      <4>4. QED
        BY <4>3 DEF v
    <3>3. up[1] = Head(up) /\ 1 \in DOMAIN up
      BY <1>0, <2>1, TailIs
    <3>4. QED
      BY <2>1, <3>2, <3>3 DEF InQueue, InStreams
  <2>5. QED
    BY <2>1, <2>2, <2>3, <2>4 DEF StreamEffect
<1>5. CASE ApplyTaskResult
  <2>1. up # <<>> /\ up' = Tail(up) /\ dbLane' = dbLane
    BY <1>5 DEF ApplyTaskResult, worldVars
  <2>2. QED
    BY <1>2, <2>1 DEF InQueue
<1>6. CASE OnExecute
  <2>1. dbLane # <<>> /\ dbLane' = Tail(dbLane) /\ up' = up
    BY <1>6 DEF OnExecute
  <2>2. ASSUME InQueue(u)' PROVE InQueue(u)
    <3>1. PICK i \in DOMAIN dbLane' : dbLane'[i] = u
      BY <2>2 DEF InQueue
    <3>2. i + 1 \in DOMAIN dbLane /\ dbLane'[i] = dbLane[i + 1]
      <4>1. /\ Len(dbLane) \in Nat /\ DOMAIN dbLane = 1 .. Len(dbLane) /\ DOMAIN dbLane' = 1 .. Len(dbLane) - 1
            /\ \A j \in 1 .. Len(dbLane) - 1 : dbLane'[j] = dbLane[j + 1]
        BY <1>0, <2>1, TailIs
      <4>2. QED
        BY <3>1, <4>1
    <3>3. QED
      BY <3>1, <3>2 DEF InQueue
  <2>3. QED
    BY <2>1, <2>2 DEF InStreams
<1>7. Request \/ DecCurrency \/ TakeBack \/ Tick \/ TickMail \/ Clock \/ Disconnect \/ UNCHANGED vars => UNCHANGED <<up, dbLane>>
  BY DEF Request, HandleMailAdd, HandleMailDel, HandleMailBuy, DecCurrency, TakeBack, Tick, TickMail, Clock, Disconnect,
         vars, worldVars
<1>8. UNCHANGED <<up, dbLane>> => InStreams(u) \/ InQueue(u)
  BY DEF InStreams, InQueue
<1>9. QED
  BY <1>3, <1>4, <1>5, <1>6, <1>7, <1>8 DEF Next, BasicStep, TickStep, World

\* Whatever is on its way to the DB is paid for.
LEMMA WayPaidNext ==
  ASSUME TypeOK, TypeOK', Fresh, Newest, GoldFollows, GoldKept, [Next]_vars
  PROVE  WayPaid'
<1> SUFFICES ASSUME NEW u \in Units, InStreams(u)' \/ InQueue(u)' PROVE UnitPaid(u)'
  BY DEF WayPaid
<1>1. CASE InStreams(u) \/ InQueue(u)
  <2>1. UnitPaid(u)
    BY <1>1 DEF GoldKept, WayPaid
  <2>2. QED
    BY <2>1, UnitPaidStays
<1>2. CASE TickSends /\ u = tick.tasks
  <2>1. u \in Seq(DelTasks)
    BY <1>2 DEF TypeOK, TickOK
  <2>2. Adds(u) = {}
    BY <2>1, RemovalUnit DEF DelsOnly
  <2>3. QED
    BY <2>2 DEF UnitPaid
<1>3. CASE SendToWorld /\ u = basic.tasks
  <2>1. basic.step = "close" /\ ~basic.error
    BY <1>3 DEF SendToWorld
  <2>2. Sold' = Sold \cup Adds(u) /\ priceOf' = priceOf
    BY <1>3, SoldNext
  <2>3. Sold' = Paid
    BY <1>3, <2>1, <2>2 DEF Paid
  <2>4. CASE ~Pays(u)
    <3>1. \A m \in Adds(u) : priceOf'[m] = 0
      BY <1>3, <2>1, <2>2, <2>4 DEF GoldKept, PricesOK
    <3>2. QED
      BY <2>2, <2>4, <3>1 DEF UnitPaid
  <2>5. CASE Pays(u)
    <3>1. NewGold(u) = content.gold
      BY <1>3, <2>1, <2>5 DEF GoldFollows, ToPay
    <3>2. ASSUME NEW m \in Adds(u) PROVE NewGold(u) + Total(priceOf, Through(m))' <= InitialGold
      <4>1. Through(m)' = Sold'
        <5>1. Adds(u) = {m}
          BY UnitShape DEF DelsOnly, AddsOne, BuysOne
        <5>2. (\A n \in Sold : n < m) /\ m \in Int
          BY <1>3, <2>1, LatestMail DEF MailIds
        <5>3. Sold \subseteq Int
          BY SoldIs
        <5>4. \A n \in Sold : n <= m
          BY <5>2, <5>3
        <5>5. \A n \in Sold' : n <= m
          BY <2>2, <5>1, <5>2, <5>4
        <5>6. QED
          BY <5>5 DEF Through
      <4>2. Total(priceOf, Through(m))' = Total(priceOf, Paid)
        BY <2>2, <2>3, <4>1
      <4>3. content.gold + Total(priceOf, Paid) = InitialGold
        BY DEF GoldKept, ZoneKept
      <4>4. InitialGold \in Int
        BY PlayerContentAssumption
      <4>5. QED
        BY <3>1, <4>2, <4>3, <4>4
    <3>3. QED
      BY <2>2, <2>5, <3>2 DEF UnitPaid
  <2>6. QED
    BY <2>4, <2>5
<1>4. QED
  BY <1>1, <1>2, <1>3, WayNext DEF TypeOK

\* The DB keeps no mail whose price it has not taken: a transaction is done
\* or undone as a whole.
LEMMA DbKeptNext ==
  ASSUME TypeOK, TypeOK', AddedInOrder, GoldKept, [Next]_vars
  PROVE  DbKept'
<1> USE DEF TypeOK
<1>0. /\ dbLane \in Seq(Units) /\ db \in Dbs /\ DbMails \subseteq Sold /\ db.gold + Total(priceOf, DbMails) <= InitialGold
      /\ InitialGold \in Int
  BY PlayerContentAssumption DEF WorldOK, GoldKept, DbKept
<1> HIDE DEF TypeOK
<1>1. ASSUME db' = db PROVE DbKept'
  <2>1. DbMails' = DbMails
    BY <1>1 DEF DbMails
  <2>2. PICK S : S = DbMails
    OBVIOUS
  <2>3. Total(priceOf, S)' = Total(priceOf, S) /\ S \subseteq Sold'
    BY <1>0, <2>2, SumStays
  <2>4. Total(priceOf', S) = Total(priceOf, S)
    BY <2>3
  <2>5. QED
    BY <1>0, <1>1, <2>1, <2>2, <2>3, <2>4 DEF DbKept
<1>2. CASE OnExecute
  <2> DEFINE u == Head(dbLane)
  <2>1. /\ dbLane # <<>> /\ u \in Units
        /\ \/ /\ db'.gold = IF Pays(u) THEN NewGold(u) ELSE db.gold
              /\ \A m \in MailIds : db'.mail[m] = AfterUnit(u, m, db.mail[m])
           \/ db' = db
    BY <1>0, <1>2, ExecuteEffect
  <2>2. Sold' = Sold /\ priceOf' = priceOf
    BY <1>2 DEF OnExecute, zoneVars, history, Sold
  <2>3. UnitPaid(u)
    <3>1. dbLane[1] = u /\ 1 \in DOMAIN dbLane
      BY <1>0, <2>1, TailIs
    <3>2. InQueue(u)
      BY <3>1 DEF InQueue
    <3>3. QED
      BY <2>1, <3>2 DEF GoldKept, WayPaid
  <2>4. Lane # <<>> /\ Head(Lane) = Stream(u) /\ Stream(u).type = "stream" /\ Stream(u).tasks = u /\ Lane \in Seq(Packets)
    <3>1. dbLane' = Tail(dbLane)
      BY <1>2 DEF OnExecute
    <3>2. QED
      BY <1>0, <2>1, <3>1, LaneTaken, StreamIs, LaneIs
  <2> HIDE DEF u
  <2>5. ASSUME db'.gold = IF Pays(u) THEN NewGold(u) ELSE db.gold,
               \A m \in MailIds : db'.mail[m] = AfterUnit(u, m, db.mail[m])
        PROVE  DbKept'
    <3>1. DbMails' = DbMails \cup Adds(u)
      <4>1. Adds(u) \subseteq MailIds
        BY <2>1, UnitShape
      <4>2. \A m \in MailIds : db'.mail[m] # "none" <=> db.mail[m] # "none" \/ m \in Adds(u)
        BY <2>5 DEF AfterUnit
      <4>3. QED
        BY <4>1, <4>2 DEF DbMails
    <3>2. DbMails' \subseteq Sold /\ Sold \in SUBSET (1 .. MaxMailId)
      BY <1>0, <2>3, <3>1, SoldIs DEF UnitPaid
    <3>3. MaxMailId \in Nat /\ priceOf \in [1 .. MaxMailId -> Nat]
      BY SoldIs
    <3>4. db'.gold + Total(priceOf, DbMails') <= InitialGold
      <4>1. CASE Pays(u)
        <5>1. PICK m \in MailIds : Adds(u) = {m}
          BY <2>1, <4>1, UnitShape DEF DelsOnly, AddsOne, BuysOne
        <5>2. NewGold(u) + Total(priceOf, Through(m)) <= InitialGold /\ m \in Sold
          BY <2>3, <4>1, <5>1 DEF UnitPaid
        <5>3. DbMails' \subseteq Through(m)
          <6>1. SomeAdd(Lane, "stream", m)
            BY <2>4, <5>1, TakeIs DEF AddIn
          <6>2. ASSUME NEW n \in DbMails PROVE n < m
            BY <6>1 DEF AddedInOrder, DbMails
          <6>3. DbMails \subseteq Int /\ m \in Int
            BY DEF DbMails, MailIds
          <6>4. \A n \in DbMails : n <= m
            BY <6>2, <6>3
          <6>5. m <= m
            BY <6>3
          <6>6. QED
            BY <3>1, <3>2, <5>1, <6>4, <6>5 DEF Through
        <5>4. Through(m) \in SUBSET (1 .. MaxMailId)
          BY <3>2, SoldIs
        <5>5. Total(priceOf, DbMails') <= Total(priceOf, Through(m))
          BY <3>3, <5>3, <5>4, TotalOfMore
        <5>6. Total(priceOf, DbMails') \in Nat /\ Total(priceOf, Through(m)) \in Nat
          BY <3>2, <3>3, <5>4, TotalType
        <5>7. NewGold(u) \in Nat
          BY <2>1, <4>1, UnitShape
        <5>8. QED
          BY <1>0, <2>5, <4>1, <5>2, <5>5, <5>6, <5>7
      <4>2. CASE ~Pays(u)
        <5>1. \A m \in DbMails' \ DbMails : priceOf[m] = 0
          BY <2>3, <3>1, <4>2 DEF UnitPaid
        <5>2. DbMails' \in SUBSET (1 .. MaxMailId) /\ DbMails \in SUBSET DbMails'
          BY <3>1, <3>2
        <5>3. Total(priceOf, DbMails) = Total(priceOf, DbMails')
          BY <3>3, <5>1, <5>2, TotalOfMore
        <5>4. QED
          BY <1>0, <2>5, <4>2, <5>3
      <4>3. QED
        BY <4>1, <4>2
    <3>5. Total(priceOf, DbMails)' = Total(priceOf, DbMails')
      BY <2>2
    <3>6. QED
      BY <2>2, <3>2, <3>4, <3>5 DEF DbKept
  <2>6. QED
    BY <1>1, <2>1, <2>5
<1>3. OnExecute \/ db' = db
  BY DEF Next, Request, HandleMailAdd, HandleMailDel, HandleMailBuy, BasicStep, DecCurrency, TakeBack, SendToWorld,
     SendTaskResult, TickStep, Tick, TickMail, TickSends, TickAnswers, World, HandleUnitOfWorkStream, ApplyTaskResult,
     Disconnect, Clock, vars, worldVars
<1>4. QED
  BY <1>1, <1>2, <1>3

\* The wallet and what has been paid, after each step of the zone.
LEMMA ZoneKeptNext ==
  ASSUME TypeOK, TypeOK', Fresh, Newest, GoldKept, [Next]_vars
  PROVE  PricesOK' /\ ZoneKept'
<1> USE DEF TypeOK
<1>0. /\ basic \in Basics /\ content.gold \in Nat /\ content.gold + Total(priceOf, Paid) = InitialGold
      /\ \A m \in DOMAIN InitialEnds : priceOf[m] = 0
      /\ MaxMailId \in Nat /\ priceOf \in [1 .. MaxMailId -> Nat] /\ Sold \in SUBSET (1 .. MaxMailId)
      /\ Sold \subseteq Known /\ DOMAIN InitialEnds \subseteq Known
  BY SoldIs DEF BasicOK, Basics, Steps, ContentOK, GoldKept, PricesOK, ZoneKept
<1>1. ASSUME basic.step # "close" \/ basic.error, basic'.step # "pay",
             basic'.step = "close" => basic'.error,
             content'.gold = content.gold, Sold' = Sold, priceOf' = priceOf
      PROVE  PricesOK' /\ ZoneKept'
  <2>1. Paid = Sold /\ Paid' = Sold
    BY <1>1 DEF Paid
  <2>2. Total(priceOf, Paid)' = Total(priceOf, Paid)
    BY <1>1, <2>1
  <2>3. QED
    BY <1>0, <1>1, <2>2 DEF PricesOK, ZoneKept
<1>2. ASSUME UNCHANGED <<basic, priceOf>>, content'.gold = content.gold, Sold' = Sold
      PROVE  PricesOK' /\ ZoneKept'
  <2>1. Paid' = Paid
    BY <1>2 DEF Paid
  <2>2. Total(priceOf, Paid)' = Total(priceOf, Paid)
    BY <1>2, <2>1
  <2>3. QED
    BY <1>0, <1>2, <2>2 DEF PricesOK, ZoneKept, GoldKept
<1>3. ASSUME NEW d \in Durations, NEW price, NEW step, IssueStep(d, price, step),
             \/ step = "close" /\ price = 0
             \/ step = "pay" /\ price \in Prices
      PROVE  PricesOK' /\ ZoneKept'
  <2>1. PICK m \in MailIds :
           /\ m \notin Known /\ content'.gold = content.gold
           /\ basic' = [step |-> step, tasks |-> <<AddTask(m)>>, price |-> price, error |-> FALSE]
           /\ priceOf' = [priceOf EXCEPT ![m] = price]
    BY <1>3, AddMailEffect DEF IssueStep
  <2>2. basic'.step = step /\ basic'.tasks = <<AddTask(m)>> /\ basic'.price = price /\ ~basic'.error
    BY <2>1
  <2>3. Adds(basic'.tasks) = {m}
    BY <2>2, AdditionUnit DEF AddsOne
  <2>4. basic.step = "idle"
    BY <1>3 DEF IssueStep, MayStart
  <2>5. Sold' = Sold /\ \A n \in Known : priceOf'[n] = priceOf[n]
    BY <2>4, SoldNext DEF SendToWorld
  <2>6. priceOf'[m] = price
    BY <1>0, <2>1 DEF MailIds
  <2>7. PricesOK'
    BY <1>0, <1>3, <2>2, <2>3, <2>5, <2>6 DEF PricesOK
  <2>8. Paid = Sold
    BY <2>4 DEF Paid
  <2>9. Total(priceOf', Sold) = Total(priceOf, Sold)
    <3>1. priceOf' \in [1 .. MaxMailId -> Nat]
      BY DEF HistoryOK, MailIds
    <3>2. \A n \in Sold : priceOf'[n] = priceOf[n]
      BY <1>0, <2>5
    <3>3. QED
      BY <1>0, <3>1, <3>2, TotalOfSame
  <2>10. Total(priceOf, Paid)' = Total(priceOf, Paid)
    <3>1. CASE step = "pay"
      <4>1. Paid' = Sold
        BY <2>2, <2>5, <3>1 DEF Paid
      <4>2. QED
        BY <2>8, <2>9, <4>1
    <3>2. CASE step = "close"
      <4>1. Paid' = Sold \cup {m}
        BY <2>2, <2>3, <2>5, <3>2 DEF Paid
      <4>2. /\ m \in 1 .. MaxMailId /\ m \notin Sold /\ priceOf' \in [1 .. MaxMailId -> Nat]
        BY <1>0, <2>1 DEF HistoryOK, MailIds
      <4>3. Total(priceOf', Sold \cup {m}) = priceOf'[m] + Total(priceOf', Sold)
        <5>1. \A S \in SUBSET (1 .. MaxMailId), x \in 1 .. MaxMailId :
                 x \notin S => Total(priceOf', S \cup {x}) = priceOf'[x] + Total(priceOf', S)
          BY <1>0, <4>2, TotalWith
        <5>2. QED
          BY <1>0, <4>2, <5>1
      <4>4. Total(priceOf', Sold) \in Nat /\ priceOf'[m] = 0
        BY <1>0, <1>3, <2>6, <3>2, <4>2, TotalType
      <4>5. Total(priceOf', Sold \cup {m}) = Total(priceOf', Sold)
        BY <4>3, <4>4
      <4>6. QED
        BY <2>8, <2>9, <4>1, <4>5
    <3>3. QED
      BY <1>3, <3>1, <3>2
  <2>11. QED
    BY <1>0, <2>1, <2>7, <2>10 DEF ZoneKept
<1>4. ASSUME NEW m \in content.box, DeleteStep(m) PROVE PricesOK' /\ ZoneKept'
  <2>1. /\ basic'.tasks = <<DelTask(m)>> /\ basic'.step = "close" /\ basic.step = "idle" /\ priceOf' = priceOf
    BY <1>4 DEF DeleteStep, Open, MayStart
  <2>2. content'.gold = content.gold
    <3>1. content' = ContentOf(content.box \ {m}, content.gold)
      BY <1>4, RemoveEffect DEF DeleteStep
    <3>2. QED
      BY <3>1 DEF ContentOf
  <2>3. Adds(basic'.tasks) = {}
    <3>1. m \in MailIds
      BY KnownMails DEF ContentOK
    <3>2. <<DelTask(m)>> \in Seq(DelTasks)
      BY <3>1 DEF DelTasks
    <3>3. QED
      BY <2>1, <3>2, RemovalUnit DEF DelsOnly
  <2>4. Sold' = Sold
    BY <2>1, SoldNext DEF SendToWorld
  <2>5. Paid' = Paid
    BY <2>1, <2>3, <2>4 DEF Paid
  <2>6. Total(priceOf, Paid)' = Total(priceOf, Paid)
    BY <2>1, <2>5
  <2>7. QED
    BY <1>0, <2>1, <2>2, <2>3, <2>6 DEF PricesOK, ZoneKept
<1>5. CASE RefuseStep
  <2>1. basic'.step = "close" /\ basic'.error /\ UNCHANGED <<content, priceOf>> /\ basic.step = "idle"
    BY <1>5 DEF RefuseStep, Refuse, Open, MayStart
  <2>2. Sold' = Sold
    BY <2>1, SoldNext DEF SendToWorld
  <2>3. QED
    BY <1>1, <2>1, <2>2
<1>6. CASE DecCurrency
  <2>1. PICK m \in Known :
           /\ m \in MailIds /\ Adds(basic.tasks) = {m} /\ Adds(basic'.tasks) = {m}
           /\ ~Pays(basic'.tasks) => content'.gold = content.gold
    BY <1>6, DecCurrencyEffect
  <2>2. /\ basic'.step = "close" /\ content'.gold \in Nat /\ basic.price \in Nat
        /\ \/ ~basic'.error /\ content'.gold = content.gold - basic.price
           \/ basic'.error /\ content'.gold = content.gold
    BY <1>6, DecCurrencyEffect DEF BasicOK
  <2>3. basic.step = "pay" /\ priceOf' = priceOf
    BY <1>6 DEF DecCurrency, history
  <2>4. Sold' = Sold
    BY <2>3, SoldNext DEF SendToWorld
  <2>5. priceOf[m] = basic.price
    BY <2>1, <2>3 DEF GoldKept, PricesOK
  <2>6. CASE basic'.error
    BY <1>1, <2>2, <2>3, <2>4, <2>6
  <2>7. CASE ~basic'.error
    <3>1. ~Pays(basic'.tasks) => priceOf[m] = 0
      BY <1>0, <2>1, <2>2, <2>5, <2>7
    <3>2. PricesOK'
      BY <1>0, <2>1, <2>2, <2>3, <3>1 DEF PricesOK
    <3>3. Paid = Sold /\ Paid' = Sold \cup {m}
      BY <2>1, <2>2, <2>3, <2>4, <2>7 DEF Paid
    <3>4. m \in 1 .. MaxMailId /\ m \notin Sold
      BY <2>1, <2>3, LatestMail DEF MailIds
    <3>5. Total(priceOf, Sold \cup {m}) = priceOf[m] + Total(priceOf, Sold)
      <4>1. \A S \in SUBSET (1 .. MaxMailId), x \in 1 .. MaxMailId :
               x \notin S => Total(priceOf, S \cup {x}) = priceOf[x] + Total(priceOf, S)
        BY <1>0, TotalWith
      <4>2. QED
        BY <1>0, <3>4, <4>1
    <3>6. Total(priceOf, Sold) \in Nat
      BY <1>0, TotalType
    <3>7. Total(priceOf, Paid)' = Total(priceOf, Sold \cup {m})
      BY <2>3, <3>3
    <3>8. Total(priceOf, Paid) = Total(priceOf, Sold)
      BY <3>3
    <3>9. content'.gold + Total(priceOf, Sold \cup {m}) = InitialGold
      BY <1>0, <2>2, <2>5, <2>7, <3>5, <3>6, <3>8
    <3>10. QED
      BY <3>2, <3>7, <3>9 DEF ZoneKept
  <2>8. QED
    BY <2>6, <2>7
<1>7. CASE TakeBack
  <2>1. content'.gold = content.gold
    BY <1>7, TakeBackEffect
  <2>2. basic' = [basic EXCEPT !.step = "answer", !.tasks = <<>>] /\ basic.error /\ basic.step = "close" /\ priceOf' = priceOf
    BY <1>7 DEF TakeBack
  <2>3. basic'.step = "answer"
    BY <1>0, <2>2 DEF Basics
  <2>4. Sold' = Sold
    BY <2>2, SoldNext DEF SendToWorld
  <2>5. QED
    BY <1>1, <2>1, <2>2, <2>3, <2>4
<1>8. CASE SendToWorld
  <2>1. basic' = [basic EXCEPT !.step = "answer"] /\ basic.step = "close" /\ ~basic.error /\ content' = content
    BY <1>8 DEF SendToWorld
  <2>2. basic'.step = "answer"
    BY <1>0, <2>1 DEF Basics
  <2>3. Sold' = Sold \cup Adds(basic.tasks) /\ priceOf' = priceOf
    BY <1>8, SoldNext
  <2>4. Paid' = Paid
    BY <2>1, <2>2, <2>3 DEF Paid
  <2>5. Total(priceOf, Paid)' = Total(priceOf, Paid)
    BY <2>3, <2>4
  <2>6. QED
    BY <1>0, <2>1, <2>2, <2>3, <2>5 DEF PricesOK, ZoneKept
<1>9. CASE SendTaskResult
  <2>1. basic.step = "answer" /\ basic' = Idle /\ content' = content /\ priceOf' = priceOf
    BY <1>9 DEF SendTaskResult
  <2>2. basic'.step = "idle"
    BY <2>1 DEF Idle
  <2>3. Sold' = Sold
    BY <2>1, SoldNext DEF SendToWorld
  <2>4. QED
    BY <1>1, <2>1, <2>2, <2>3
<1>10. CASE TickStep \/ World \/ OnExecute \/ Disconnect \/ Clock \/ UNCHANGED vars
  <2>1. UNCHANGED <<basic, bought, priceOf>>
    BY <1>10 DEF TickStep, Tick, TickMail, TickSends, TickAnswers, World, HandleUnitOfWorkStream, ApplyTaskResult, OnExecute,
       Disconnect, Clock, vars, zoneVars, history
  <2>2. content'.gold = content.gold
    <3>1. CASE TickMail
      BY <3>1, TickMailEffect
    <3>2. CASE content' = content
      BY <3>2
    <3>3. TickMail \/ content' = content
      BY <1>10 DEF TickStep, Tick, TickSends, TickAnswers, World, HandleUnitOfWorkStream, ApplyTaskResult, OnExecute,
         Disconnect, Clock, vars, zoneVars
    <3>4. QED
      BY <3>1, <3>2, <3>3
  <2>3. Sold' = Sold
    BY <2>1 DEF Sold
  <2>4. QED
    BY <1>2, <2>1, <2>2, <2>3
<1>11. QED
  BY <1>3, <1>4, <1>5, <1>6, <1>7, <1>8, <1>9, <1>10, RequestCases DEF Next, BasicStep

\* Every step keeps the account of the gold, in the zone, on its way and in
\* the DB.
LEMMA GoldNext ==
  ASSUME TypeOK, TypeOK', Fresh, Newest, AddedInOrder, GoldFollows, GoldKept, [Next]_vars
  PROVE  GoldKept'
BY WayPaidNext, DbKeptNext, ZoneKeptNext DEF GoldKept

(***************************************************************************)
(* The invariant, and what follows from it.                                *)
(***************************************************************************)

PlayerContentInvariant ==
    /\ TypeOK /\ Fresh /\ Gone /\ Following
    /\ GoldFollows /\ Newest /\ AddedInOrder /\ DbBehind /\ GoldKept

\* The invariant holds at the start, and ...
LEMMA InvariantInit == Init => PlayerContentInvariant
BY TypeInit, FreshInit, FollowingInit, BehindInit, GoldInit DEF PlayerContentInvariant

\* ... after every step.
LEMMA InvariantNext == PlayerContentInvariant /\ [Next]_vars => PlayerContentInvariant'
<1> SUFFICES ASSUME PlayerContentInvariant, [Next]_vars PROVE PlayerContentInvariant'
  OBVIOUS
<1>1. TypeOK /\ Fresh /\ Gone /\ Following /\ GoldFollows /\ Newest /\ AddedInOrder /\ DbBehind /\ GoldKept
  BY DEF PlayerContentInvariant
<1>2. TypeOK'
  BY <1>1, TypeNext
<1>3. Fresh' /\ Gone' /\ Following'
  BY <1>1, FreshNext, GoneNext, FollowingNext
<1>4. GoldFollows' /\ Newest' /\ AddedInOrder' /\ DbBehind'
  BY <1>1, GoldFollowsNext, NewestNext, AddedInOrderNext, DbBehindNext
<1>5. GoldKept'
  BY <1>1, <1>2, GoldNext
<1>6. QED
  BY <1>2, <1>3, <1>4, <1>5 DEF PlayerContentInvariant

\* What every reachable state satisfies: types, what is unknown, removed, on
\* its way and behind, and the account of the gold.
THEOREM InvariantHolds == Spec => []PlayerContentInvariant
<1>1. Init => PlayerContentInvariant
  BY InvariantInit
<1>2. PlayerContentInvariant /\ [Next]_vars => PlayerContentInvariant'
  BY InvariantNext
<1>3. QED
  BY <1>1, <1>2, PTL DEF Spec

\* The one number MailModel::HasExpired looks at is the earliest end in the
\* box, after every addition, removal, expiry and rollback.
THEOREM ExpiryLooksAtTheEarliest == Spec => []NextIsEarliest
<1>1. PlayerContentInvariant => NextIsEarliest
  <2> SUFFICES ASSUME PlayerContentInvariant PROVE NextIsEarliest
    OBVIOUS
  <2>1. content = ContentOf(content.box, content.gold)
    BY DEF PlayerContentInvariant, TypeOK, ContentOK
  <2>2. content.next = Earliest(content.box, endOf)
    BY <2>1 DEF ContentOf
  <2>3. QED
    BY <2>2 DEF NextIsEarliest
<1>2. QED
  BY <1>1, InvariantHolds, PTL

\* A mail whose request ended in an error is nowhere: not in the zone, in
\* World's cache, in the DB or in the client's list (ZoneUnitOfWork,
\* RollbackUoW).
THEOREM RefusalsLeaveNothing == Spec => []RefusedLeavesNothing
<1>1. PlayerContentInvariant => RefusedLeavesNothing
  <2> SUFFICES ASSUME PlayerContentInvariant, NEW m \in refused
               PROVE  /\ m \notin content.box /\ m \notin client /\ db.mail[m] # "alive"
                      /\ Connected => m \notin Cache.mails
    BY DEF RefusedLeavesNothing
  <2>1. Unknown(m) /\ m \notin content.box
    BY DEF PlayerContentInvariant, Fresh
  <2>2. QED
    BY <2>1 DEF Unknown, CacheMails
<1>2. QED
  BY <1>1, InvariantHolds, PTL

\* When nothing is under way World's cache is what the zone has, the mails
\* aside that did not fit into the entry or expired before their addition was
\* sent (HandleUnitOfWorkStream).
THEOREM WorldFollowsTheZone == Spec => []CacheFollowsZone
<1>1. PlayerContentInvariant => CacheFollowsZone
  <2> SUFFICES ASSUME PlayerContentInvariant, Quiet, Connected
               PROVE  /\ CacheGold = content.gold
                      /\ content.box \subseteq CacheMails
                      /\ \A m \in CacheMails \ content.box : m \in overtaken \/ m <= Len(InitialEnds) - EnterBudget
    BY DEF CacheFollowsZone, CacheGold, CacheMails
  <2>1. up = <<>> /\ basic.step = "idle" /\ tick.step = "idle" /\ DOMAIN up = {}
    BY DEF Quiet
  <2>2. CacheGold = content.gold
    BY <2>1 DEF PlayerContentInvariant, GoldFollows, Untouched, LastSent, ToPay
  <2>3. content.box \subseteq MailIds /\ CacheMails \subseteq MailIds
    BY TableIs, KnownMails DEF PlayerContentInvariant, TypeOK, ContentOK
  <2>4. \A m \in MailIds : ~AddsToCome("stream", m) /\ ~DelsToCome("stream", m)
                           /\ ~SomeAdd(up, "stream", m) /\ ~SomeDel(up, "stream", m)
    BY <2>1 DEF AddsToCome, DelsToCome, Before, SomeAdd, SomeDel
  <2>5. \A m \in MailIds : Follows("stream", m)
    BY DEF PlayerContentInvariant, Following, Types
  <2>6. \A m \in MailIds : /\ m \in content.box => m \in CacheMails
                           /\ m \in CacheMails \ content.box => m \in overtaken \cup Hidden("stream")
    BY <2>4, <2>5 DEF Follows, Told, Unsent
  <2>7. \A m \in Hidden("stream") : m <= Len(InitialEnds) - EnterBudget
    <3>1. Len(InitialEnds) - EnterBudget \in Int
      BY PlayerContentAssumption
    <3>2. QED
      BY <3>1 DEF Hidden
  <2>8. QED
    BY <2>2, <2>3, <2>6, <2>7
<1>2. QED
  BY <1>1, InvariantHolds, PTL

\* When nothing is under way the client lists what the zone has of what it was
\* sent, those aside that expired too early (SendTaskResult).
THEOREM TheClientFollowsTheZone == Spec => []ClientFollowsZone
<1>1. PlayerContentInvariant => ClientFollowsZone
  <2> SUFFICES ASSUME PlayerContentInvariant, Quiet, Connected, NEW m \in MailIds \ (DOMAIN InitialEnds \cup overtaken)
               PROVE  m \in client <=> m \in content.box
    BY DEF ClientFollowsZone
  <2>1. up = <<>> /\ basic.step = "idle" /\ tick.step = "idle" /\ DOMAIN up = {}
    BY DEF Quiet
  <2>2. /\ ~AddsToCome("result", m) /\ ~DelsToCome("result", m)
        /\ ~SomeAdd(up, "result", m) /\ ~SomeDel(up, "result", m)
    BY <2>1 DEF AddsToCome, DelsToCome, Before, SomeAdd, SomeDel
  <2>3. Follows("result", m)
    BY DEF PlayerContentInvariant, Following, Types
  <2>4. Told("result") = client /\ Unsent("result") = DOMAIN InitialEnds /\ Hidden("result") = {}
    BY DEF Told, Unsent, Hidden
  <2>5. QED
    BY <2>2, <2>3, <2>4 DEF Follows
<1>2. QED
  BY <1>1, InvariantHolds, PTL

\* With its lane empty the DB is what World has, but for what the last
\* transaction that wrote it failed to write (DbProcessor::OnExecute).
THEOREM TheDbFollowsWorld == Spec => []DbFollowsCache
<1>1. PlayerContentInvariant => DbFollowsCache
  <2> SUFFICES ASSUME PlayerContentInvariant, dbLane = <<>>, Connected
               PROVE  /\ \A m \in MailIds \ unsaved : db.mail[m] = "alive" <=> m \in CacheMails
                      /\ 0 \notin unsaved => db.gold = CacheGold
    BY DEF DbFollowsCache, CacheGold, CacheMails
  <2>1. Lane = <<>>
    BY LaneIs DEF PlayerContentInvariant, TypeOK, WorldOK
  <2>2. \A k : Untouched(Lane, k)
    BY <2>1 DEF Untouched
  <2>3. \A k \in Keys \ unsaved : DbValue(k) = CacheValue(k)
    BY <2>2 DEF PlayerContentInvariant, DbBehind
  <2>4. 0 \notin MailIds /\ 0 \in Keys /\ MailIds \subseteq Keys
    BY PlayerContentAssumption DEF MailIds, Keys
  <2>5. ASSUME NEW m \in MailIds \ unsaved PROVE db.mail[m] = "alive" <=> m \in CacheMails
    <3>1. DbValue(m) = CacheValue(m) /\ m # 0
      BY <2>3, <2>4
    <3>2. QED
      BY <3>1 DEF DbValue, CacheValue
  <2>6. ASSUME 0 \notin unsaved PROVE db.gold = CacheGold
    BY <2>3, <2>4, <2>6 DEF DbValue, CacheValue
  <2>7. QED
    BY <2>5, <2>6
<1>2. QED
  BY <1>1, InvariantHolds, PTL

\* Between requests the wallet is what was there at first less the price of
\* every mail bought, and the DB never keeps a mail whose price it has not
\* taken (HandleMailBuy, AutoSpCommands).
THEOREM EveryMailIsPaidFor == Spec => []GoldPaysForMails
<1>1. PlayerContentInvariant => GoldPaysForMails
  <2> SUFFICES ASSUME PlayerContentInvariant
               PROVE  /\ basic.step = "idle" => content.gold + Total(priceOf, bought) = InitialGold
                      /\ db.gold + Total(priceOf, DbMails) <= InitialGold
    BY DEF GoldPaysForMails, Total, DbMails
  <2>1. db.gold + Total(priceOf, DbMails) <= InitialGold
    BY DEF PlayerContentInvariant, GoldKept, DbKept
  <2>2. ASSUME basic.step = "idle" PROVE content.gold + Total(priceOf, bought) = InitialGold
    <3>1. Paid = bought \cup DOMAIN InitialEnds /\ bought \subseteq Paid
      BY <2>2 DEF Paid, Sold
    <3>2. content.gold + Total(priceOf, Paid) = InitialGold /\ \A m \in Paid \ bought : priceOf[m] = 0
      BY <3>1 DEF PlayerContentInvariant, GoldKept, ZoneKept, PricesOK
    <3>3. /\ MaxMailId \in Nat /\ priceOf \in [1 .. MaxMailId -> Nat] /\ Paid \in SUBSET (1 .. MaxMailId)
          /\ bought \in SUBSET Paid
      BY <3>1, SoldIs DEF PlayerContentInvariant
    <3>4. Total(priceOf, bought) = Total(priceOf, Paid)
      BY <3>2, <3>3, TotalOfMore
    <3>5. QED
      BY <3>2, <3>4
  <2>3. QED
    BY <2>1, <2>2
<1>2. QED
  BY <1>1, InvariantHolds, PTL

=============================================================================
