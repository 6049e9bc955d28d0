-------------------------- MODULE TaskQueueProofs --------------------------
(***************************************************************************)
(* Theorems about TaskQueue for any tasks, channels, callers and limit.    *)
(***************************************************************************)
EXTENDS TaskQueue, FiniteSetTheorems, TLAPS

-----------------------------------------------------------------------------
\* Sequences without repetition, as tq.waiting is.

\* Removing the i-th element removes exactly that element from the range, and
\* keeps the sequence free of repetitions.
LEMMA RemoveAtFacts ==
    ASSUME NEW S, NEW s \in Seq(S), NEW i \in 1 .. Len(s), IsInjective(s)
    PROVE  /\ RemoveAt(s, i) \in Seq(S)
           /\ Len(RemoveAt(s, i)) = Len(s) - 1
           /\ \A j \in 1 .. (Len(s) - 1) :
                  RemoveAt(s, i)[j] = IF j < i THEN s[j] ELSE s[j + 1]
           /\ ToSet(RemoveAt(s, i)) = ToSet(s) \ {s[i]}
           /\ IsInjective(RemoveAt(s, i))
<1> DEFINE a == SubSeq(s, 1, i - 1)
           b == SubSeq(s, i + 1, Len(s))
           r == RemoveAt(s, i)
<1>1. /\ a \in Seq(S) /\ Len(a) = i - 1
      /\ \A j \in 1 .. (i - 1) : a[j] = s[j]
  OBVIOUS
<1>2. /\ b \in Seq(S) /\ Len(b) = Len(s) - i
      /\ \A j \in 1 .. (Len(s) - i) : b[j] = s[i + j]
  OBVIOUS
<1>3. r = a \o b
  BY DEF RemoveAt
<1> HIDE DEF a, b, r
<1>4. r \in Seq(S) /\ Len(r) = Len(s) - 1
  BY <1>1, <1>2, <1>3
<1>5. ASSUME NEW j \in 1 .. (Len(s) - 1)
      PROVE  r[j] = IF j < i THEN s[j] ELSE s[j + 1]
  <2>1. CASE j < i
    BY <2>1, <1>1, <1>2, <1>3
  <2>2. CASE j >= i
    <3>1. r[j] = b[j - (i - 1)] /\ j - (i - 1) \in 1 .. (Len(s) - i)
      BY <2>2, <1>1, <1>2, <1>3
    <3>2. i + (j - (i - 1)) = j + 1
      OBVIOUS
    <3> QED  BY <3>1, <3>2, <1>2, <2>2
  <2> QED  BY <2>1, <2>2
<1>6. ToSet(r) = ToSet(s) \ {s[i]}
  <2>1. ASSUME NEW x \in ToSet(r)  PROVE x \in ToSet(s) \ {s[i]}
    <3>1. PICK j \in 1 .. (Len(s) - 1) : x = r[j]
      BY <2>1, <1>4 DEF ToSet
    <3>2. PICK k \in 1 .. Len(s) : k # i /\ x = s[k]
      <4>1. CASE j < i  BY <4>1, <3>1, <1>5
      <4>2. CASE j >= i
        <5>1. x = s[j + 1] /\ j + 1 \in 1 .. Len(s) /\ j + 1 # i
          BY <4>2, <3>1, <1>5
        <5> QED  BY <5>1
      <4> QED  BY <4>1, <4>2
    <3> QED  BY <3>2 DEF ToSet, IsInjective
  <2>2. ASSUME NEW x \in ToSet(s), x # s[i]  PROVE x \in ToSet(r)
    <3>1. PICK k \in 1 .. Len(s) : x = s[k]
      BY DEF ToSet
    <3>2. CASE k < i
      <4>1. k \in 1 .. (Len(s) - 1) /\ r[k] = x
        BY <3>1, <3>2, <1>5
      <4> QED  BY <4>1, <1>4 DEF ToSet
    <3>3. CASE k > i
      <4>1. k - 1 \in 1 .. (Len(s) - 1) /\ r[k - 1] = x
        BY <3>1, <3>3, <1>5
      <4> QED  BY <4>1, <1>4 DEF ToSet
    <3> QED  BY <2>2, <3>1, <3>2, <3>3
  <2> QED  BY <2>1, <2>2
<1>7. IsInjective(r)
  <2> SUFFICES ASSUME NEW j \in 1 .. (Len(s) - 1), NEW k \in 1 .. (Len(s) - 1), r[j] = r[k]
               PROVE  j = k
    BY <1>4 DEF IsInjective
  <2> DEFINE up(n) == IF n < i THEN n ELSE n + 1
  <2>1. s[up(j)] = s[up(k)] /\ up(j) \in 1 .. Len(s) /\ up(k) \in 1 .. Len(s)
    BY <1>5
  <2>2. up(j) = up(k)
    BY <2>1 DEF IsInjective
  <2> QED  BY <2>2
<1> QED  BY <1>4, <1>5, <1>6, <1>7 DEF r

\* Appending a new element.
LEMMA AppendFacts ==
    ASSUME NEW S, NEW s \in Seq(S), NEW x \in S, IsInjective(s), x \notin ToSet(s)
    PROVE  /\ Append(s, x) \in Seq(S)
           /\ Len(Append(s, x)) = Len(s) + 1
           /\ ToSet(Append(s, x)) = ToSet(s) \cup {x}
           /\ IsInjective(Append(s, x))
<1>1. /\ Append(s, x) \in Seq(S) /\ Len(Append(s, x)) = Len(s) + 1
      /\ \A j \in 1 .. Len(s) : Append(s, x)[j] = s[j]
      /\ Append(s, x)[Len(s) + 1] = x
  OBVIOUS
<1>2. ToSet(Append(s, x)) = ToSet(s) \cup {x}
  BY <1>1 DEF ToSet
<1>3. IsInjective(Append(s, x))
  BY <1>1 DEF IsInjective, ToSet
<1> QED  BY <1>1, <1>2, <1>3

-----------------------------------------------------------------------------
(***************************************************************************)
(* The inductive invariant.  TypeOK alone is not inductive: that RemoveAt  *)
(* takes a task out of the queue for good needs a queue without            *)
(* repetitions, and that Enqueue keeps it so needs fresh tasks to be       *)
(* nowhere in the queue.                                                   *)
(***************************************************************************)
Placement ==
    /\ IsInjective(waiting)
    /\ \A t \in ToSet(waiting) : /\ t \notin running
                                 /\ status[t] = "queued"
                                 /\ entry[t] = "none"
    /\ \A t \in running : status[t] # "fresh" /\ entry[t] # "none"
    /\ \A t \in Tasks : status[t] = "fresh" => entry[t] = "none"

IInv == TypeOK /\ Placement

LEMMA InitIInv == Init => IInv
BY QueueAssumption
   DEF Init, IInv, TypeOK, Placement, Statuses, Steps, Entries, ToSet, IsInjective

\* Taking the i-th task out of tq.waiting.
LEMMA WaitingRemoved ==
    ASSUME IInv, NEW i \in DOMAIN waiting, waiting' = RemoveAt(waiting, i)
    PROVE  /\ waiting[i] \in Tasks /\ waiting[i] \in ToSet(waiting)
           /\ waiting[i] \notin running
           /\ status[waiting[i]] = "queued" /\ entry[waiting[i]] = "none"
           /\ waiting' \in Seq(Tasks)
           /\ Len(waiting) \in Nat /\ Len(waiting') = Len(waiting) - 1
           /\ ToSet(waiting') = ToSet(waiting) \ {waiting[i]}
           /\ IsInjective(waiting')
<1>1. waiting \in Seq(Tasks) /\ IsInjective(waiting) /\ i \in 1 .. Len(waiting)
  BY DEF IInv, TypeOK, Placement
<1>2. waiting[i] \in Tasks /\ waiting[i] \in ToSet(waiting)
  BY <1>1 DEF ToSet
<1>3. /\ waiting' \in Seq(Tasks) /\ Len(waiting') = Len(waiting) - 1
      /\ ToSet(waiting') = ToSet(waiting) \ {waiting[i]}
      /\ IsInjective(waiting')
  BY <1>1, RemoveAtFacts
<1> QED  BY <1>1, <1>2, <1>3 DEF IInv, Placement

LEMMA ChannelMapType ==
    ASSUME channels \in [Channels -> Nat], NEW c \in Channels
    PROVE  Increment(c) \in [Channels -> Nat] /\ Decrement(c) \in [Channels -> Nat]
BY DEF Increment, Decrement

LEMMA StepIInv == IInv /\ [Next]_vars => IInv'
<1> SUFFICES ASSUME IInv, [Next]_vars
             PROVE  IInv'
  OBVIOUS
<1> USE QueueAssumption
<1>0. TypeOK /\ Placement
  BY DEF IInv
<1>1. ASSUME NEW g \in Callers, NEW t \in Tasks, Enqueue(g, t)
      PROVE  IInv'
  <2>1. /\ waiting' \in Seq(Tasks)
        /\ ToSet(waiting') = ToSet(waiting) \cup {t}
        /\ IsInjective(waiting')
    BY <1>0, <1>1, AppendFacts DEF TypeOK, Placement, Enqueue
  <2>2. TypeOK'
    BY <1>0, <1>1, <2>1, ChannelMapType
       DEF TypeOK, Enqueue, Statuses, Steps, Entries, callVars, history
  <2>3. Placement'
    BY <1>0, <1>1, <2>1 DEF TypeOK, Placement, Enqueue, Statuses, Entries, history
  <2> QED  BY <2>2, <2>3 DEF IInv
<1>2. ASSUME NEW g \in Callers, NEW i \in DOMAIN waiting, MarkRunning(g, i)
      PROVE  IInv'
  <2>1. /\ waiting[i] \in Tasks /\ waiting[i] \in ToSet(waiting)
        /\ waiting[i] \notin running
        /\ status[waiting[i]] = "queued"
        /\ waiting' \in Seq(Tasks)
        /\ ToSet(waiting') = ToSet(waiting) \ {waiting[i]}
        /\ IsInjective(waiting')
    BY <1>2, WaitingRemoved DEF MarkRunning
  <2>a. channels' \in [Channels -> Nat]
    BY <1>0, <1>2, <2>1, ChannelMapType DEF TypeOK, MarkRunning
  <2>b. queuedTasks' \in Int /\ activeTasks' \in Int /\ running' \subseteq Tasks
    BY <1>0, <1>2, <2>1 DEF TypeOK, MarkRunning
  <2>c. entry' \in [Tasks -> Entries] /\ pc' \in [Callers -> Steps]
    BY <1>0, <1>2, <2>1 DEF TypeOK, MarkRunning, Entries, Steps, callVars
  <2>2. Transition("queued", "running") = "queued"
    BY DEF Transition, IsValidTransition, ValidTransitions
  <2>3. status' = status
    BY <1>0, <1>2, <2>1, <2>2 DEF TypeOK, Placement, MarkRunning
  <2>4. TypeOK'
    BY <1>0, <1>2, <2>1, <2>3, <2>a, <2>b, <2>c
       DEF TypeOK, MarkRunning, Statuses, callVars
  <2>5. Placement'
    BY <1>0, <1>2, <2>1, <2>3 DEF TypeOK, Placement, MarkRunning, Statuses, Entries
  <2> QED  BY <2>4, <2>5 DEF IInv
<1>3. ASSUME NEW g \in Callers, NEW t \in Tasks, MarkDispatched(g, t)
      PROVE  IInv'
  <2>1. status' = [status EXCEPT ![t] = "running"]
    BY <1>3 DEF MarkDispatched, Transition
  <2>2. TypeOK'
    BY <1>0, <1>3, <2>1
       DEF TypeOK, MarkDispatched, Statuses, Steps, Entries, gauges, callVars, history
  <2>3. Placement'
    BY <1>0, <1>3, <2>1 DEF TypeOK, Placement, MarkDispatched, history
  <2> QED  BY <2>2, <2>3 DEF IInv
<1>4. ASSUME NEW g \in Callers, NEW t \in Tasks, MarkRunningDirect(g, t)
      PROVE  IInv'
  <2>1. TypeOK'
    BY <1>0, <1>4, ChannelMapType
       DEF TypeOK, MarkRunningDirect, Statuses, Steps, Entries, callVars
  <2>2. Placement'
    BY <1>0, <1>4 DEF TypeOK, Placement, MarkRunningDirect
  <2> QED  BY <2>1, <2>2 DEF IInv
<1>5. ASSUME NEW g \in Callers, NEW t \in Tasks \cup {NoTask}, MarkDone(g, t)
      PROVE  IInv'
  <2>1. TypeOK'
    BY <1>0, <1>5 DEF TypeOK, MarkDone, Steps, queueVars
  <2>2. Placement'
    BY <1>0, <1>5 DEF Placement, MarkDone, queueVars
  <2> QED  BY <2>1, <2>2 DEF IInv
<1>6. ASSUME NEW g \in Callers, Unregister(g)
      PROVE  IInv'
  <2>1. TypeOK'
    BY <1>0, <1>6 DEF TypeOK, Unregister, Steps, gauges
  <2>2. Placement'
    BY <1>0, <1>6 DEF Placement, Unregister
  <2> QED  BY <2>1, <2>2 DEF IInv
<1>7. ASSUME NEW g \in Callers, NEW t \in Tasks, NEW isDone \in BOOLEAN,
             ReleaseTerminalTask(g, t, isDone)
      PROVE  IInv'
  <2>1. TypeOK'
    BY <1>0, <1>7, ChannelMapType
       DEF TypeOK, ReleaseTerminalTask, Steps, Entries, gauges
  <2>2. Placement'
    BY <1>0, <1>7 DEF TypeOK, Placement, ReleaseTerminalTask
  <2> QED  BY <2>1, <2>2 DEF IInv
<1>8. ASSUME NEW g \in Callers, UncountReleased(g)
      PROVE  IInv'
  <2>1. TypeOK'
    BY <1>0, <1>8 DEF TypeOK, UncountReleased, Steps, queueVars, history
  <2>2. Placement'
    BY <1>0, <1>8 DEF Placement, UncountReleased, queueVars, history
  <2> QED  BY <2>1, <2>2 DEF IInv
<1>9. ASSUME NEW g \in Callers, NEW i \in DOMAIN waiting, Dequeue(g, i)
      PROVE  IInv'
  <2>1. /\ waiting[i] \in Tasks /\ waiting[i] \in ToSet(waiting)
        /\ waiting[i] \notin running
        /\ status[waiting[i]] = "queued"
        /\ waiting' \in Seq(Tasks)
        /\ ToSet(waiting') = ToSet(waiting) \ {waiting[i]}
        /\ IsInjective(waiting')
    BY <1>9, WaitingRemoved DEF Dequeue
  <2>a. channels' \in [Channels -> Nat]
    BY <1>0, <1>9, <2>1, ChannelMapType DEF TypeOK, Dequeue
  <2>b. queuedTasks' \in Int /\ activeTasks' \in Int /\ running' \subseteq Tasks
    BY <1>0, <1>9, <2>1 DEF TypeOK, Dequeue
  <2>c. entry' \in [Tasks -> Entries] /\ pc' \in [Callers -> Steps]
    BY <1>0, <1>9, <2>1 DEF TypeOK, Dequeue, Entries, Steps, callVars
  <2>2. Transition("queued", "dispatching") = "dispatching"
    BY DEF Transition, IsValidTransition, ValidTransitions
  <2>3. status' = [status EXCEPT ![waiting[i]] = "dispatching"]
    BY <1>0, <1>9, <2>1, <2>2 DEF TypeOK, Placement, Dequeue
  <2>4. TypeOK'
    BY <1>0, <1>9, <2>1, <2>3, <2>a, <2>b, <2>c
       DEF TypeOK, Dequeue, Statuses, callVars
  <2>5. Placement'
    BY <1>0, <1>9, <2>1, <2>3 DEF TypeOK, Placement, Dequeue, Statuses, Entries
  <2> QED  BY <2>4, <2>5 DEF IInv
<1>10. ASSUME NEW g \in Callers, DequeueNothing(g)
       PROVE  IInv'
  <2>1. TypeOK'
    BY <1>0, <1>10 DEF TypeOK, DequeueNothing, Steps, queueVars, gauges, history
  <2>2. Placement'
    BY <1>0, <1>10 DEF Placement, DequeueNothing, queueVars, history
  <2> QED  BY <2>1, <2>2 DEF IInv
<1>11. ASSUME UNCHANGED vars
       PROVE  IInv'
  BY <1>0, <1>11 DEF IInv, TypeOK, Placement, vars, queueVars, gauges, callVars, history
<1> QED
  BY <1>1, <1>2, <1>3, <1>4, <1>5, <1>6, <1>7, <1>8, <1>9, <1>10, <1>11
     DEF Next, TryDequeue

LEMMA AlwaysIInv == Spec => []IInv
BY InitIInv, StepIInv, PTL DEF Spec

\* Every variable always has a value of its type, however many goroutines
\* call the queue and in whatever order.
THEOREM TypeCorrect == Spec => []TypeOK
BY AlwaysIInv, PTL DEF IInv

-----------------------------------------------------------------------------
(***************************************************************************)
(* The channel counters.  Each action that changes a counter changes one   *)
(* of the two sets it counts by one task, so the four cases of adding a    *)
(* task to, or removing one from, either set are lemmas.                   *)
(***************************************************************************)
LEMMA CountAdded ==
    ASSUME NEW S, IsFiniteSet(S), NEW x, x \notin S
    PROVE  /\ IsFiniteSet(S \cup {x})
           /\ Cardinality(S) \in Nat
           /\ Cardinality(S \cup {x}) = Cardinality(S) + 1
BY FS_AddElement, FS_CardinalityType

LEMMA CountRemoved ==
    ASSUME NEW S, IsFiniteSet(S), NEW x \in S
    PROVE  /\ IsFiniteSet(S \ {x})
           /\ Cardinality(S) \in Nat \ {0}
           /\ Cardinality(S \ {x}) = Cardinality(S) - 1
<1>1. IsFiniteSet(S \ {x}) /\ Cardinality(S \ {x}) = Cardinality(S) - 1
  BY FS_RemoveElement
<1>2. Cardinality(S) \in Nat /\ Cardinality(S \ {x}) \in Nat
  BY <1>1, FS_CardinalityType
<1> QED  BY <1>1, <1>2

LEMMA CountedSetsFinite ==
    ASSUME IInv, NEW c \in Channels
    PROVE  /\ IsFiniteSet(WaitingIn(c)) /\ Cardinality(WaitingIn(c)) \in Nat
           /\ IsFiniteSet(DirectIn(c))  /\ Cardinality(DirectIn(c)) \in Nat
<1>1. WaitingIn(c) \subseteq Tasks /\ DirectIn(c) \subseteq Tasks
  BY DEF IInv, TypeOK, WaitingIn, DirectIn, ToSet
<1> QED  BY <1>1, QueueAssumption, FS_Subset, FS_CardinalityType

LEMMA AccountWaitingAdded ==
    ASSUME IInv, ChannelAccounting, NEW t \in Tasks, t \notin ToSet(waiting),
           ToSet(waiting') = ToSet(waiting) \cup {t},
           channels' = Increment(ChannelOf[t]),
           \A c \in Channels : DirectIn(c)' = DirectIn(c)
    PROVE  ChannelAccounting'
<1> SUFFICES ASSUME NEW c \in Channels
             PROVE  channels'[c] = Cardinality(WaitingIn(c)') + Cardinality(DirectIn(c))
  BY DEF ChannelAccounting
<1>0. /\ ChannelOf[t] \in Channels
      /\ channels \in [Channels -> Nat]
      /\ channels[c] = Cardinality(WaitingIn(c)) + Cardinality(DirectIn(c))
  BY QueueAssumption DEF ChannelAccounting, IInv, TypeOK
<1>1. CASE c = ChannelOf[t]
  <2>1. WaitingIn(c)' = WaitingIn(c) \cup {t} /\ t \notin WaitingIn(c)
    BY <1>1 DEF WaitingIn
  <2>2. Cardinality(WaitingIn(c)') = Cardinality(WaitingIn(c)) + 1
    BY <2>1, CountedSetsFinite, CountAdded
  <2>3. channels'[c] = channels[c] + 1
    BY <1>0, <1>1 DEF Increment
  <2> QED  BY <1>0, <2>2, <2>3, CountedSetsFinite
<1>2. CASE c # ChannelOf[t]
  <2>1. WaitingIn(c)' = WaitingIn(c)
    BY <1>2 DEF WaitingIn
  <2>2. channels'[c] = channels[c]
    BY <1>0, <1>2 DEF Increment
  <2> QED  BY <1>0, <2>1, <2>2
<1> QED  BY <1>1, <1>2

LEMMA AccountWaitingRemoved ==
    ASSUME IInv, ChannelAccounting, NEW t \in Tasks, t \in ToSet(waiting),
           ToSet(waiting') = ToSet(waiting) \ {t},
           channels' = Decrement(ChannelOf[t]),
           \A c \in Channels : DirectIn(c)' = DirectIn(c)
    PROVE  ChannelAccounting'
<1> SUFFICES ASSUME NEW c \in Channels
             PROVE  channels'[c] = Cardinality(WaitingIn(c)') + Cardinality(DirectIn(c))
  BY DEF ChannelAccounting
<1>0. /\ ChannelOf[t] \in Channels
      /\ channels \in [Channels -> Nat]
      /\ channels[c] = Cardinality(WaitingIn(c)) + Cardinality(DirectIn(c))
  BY QueueAssumption DEF ChannelAccounting, IInv, TypeOK
<1>1. CASE c = ChannelOf[t]
  <2>1. WaitingIn(c)' = WaitingIn(c) \ {t} /\ t \in WaitingIn(c)
    BY <1>1 DEF WaitingIn
  <2>2. /\ Cardinality(WaitingIn(c)') = Cardinality(WaitingIn(c)) - 1
        /\ Cardinality(WaitingIn(c)) \in Nat \ {0}
    BY <2>1, CountedSetsFinite, CountRemoved
  <2>3. channels[c] \in Nat \ {0}
    BY <1>0, <2>2, CountedSetsFinite
  <2>4. channels'[c] = channels[c] - 1
    BY <1>0, <1>1, <2>3 DEF Decrement
  <2> QED  BY <1>0, <2>2, <2>4, CountedSetsFinite
<1>2. CASE c # ChannelOf[t]
  <2>1. WaitingIn(c)' = WaitingIn(c)
    BY <1>2 DEF WaitingIn
  <2>2. channels'[c] = channels[c]
    BY <1>0, <1>2 DEF Decrement
  <2> QED  BY <1>0, <2>1, <2>2
<1> QED  BY <1>1, <1>2

LEMMA AccountDirectAdded ==
    ASSUME IInv, ChannelAccounting, NEW t \in Tasks, entry[t] # "direct",
           entry' = [entry EXCEPT ![t] = "direct"],
           channels' = Increment(ChannelOf[t]),
           waiting' = waiting
    PROVE  ChannelAccounting'
<1> SUFFICES ASSUME NEW c \in Channels
             PROVE  channels'[c] = Cardinality(WaitingIn(c)) + Cardinality(DirectIn(c)')
  BY DEF ChannelAccounting, WaitingIn
<1>0. /\ ChannelOf[t] \in Channels
      /\ channels \in [Channels -> Nat] /\ entry \in [Tasks -> Entries]
      /\ channels[c] = Cardinality(WaitingIn(c)) + Cardinality(DirectIn(c))
  BY QueueAssumption DEF ChannelAccounting, IInv, TypeOK
<1>1. CASE c = ChannelOf[t]
  <2>1. DirectIn(c)' = DirectIn(c) \cup {t} /\ t \notin DirectIn(c)
    BY <1>0, <1>1 DEF DirectIn
  <2>2. Cardinality(DirectIn(c)') = Cardinality(DirectIn(c)) + 1
    BY <2>1, CountedSetsFinite, CountAdded
  <2>3. channels'[c] = channels[c] + 1
    BY <1>0, <1>1 DEF Increment
  <2> QED  BY <1>0, <2>2, <2>3, CountedSetsFinite
<1>2. CASE c # ChannelOf[t]
  <2>1. DirectIn(c)' = DirectIn(c)
    BY <1>0, <1>2 DEF DirectIn
  <2>2. channels'[c] = channels[c]
    BY <1>0, <1>2 DEF Increment
  <2> QED  BY <1>0, <2>1, <2>2
<1> QED  BY <1>1, <1>2

LEMMA AccountDirectRemoved ==
    ASSUME IInv, ChannelAccounting, NEW t \in Tasks, entry[t] = "direct",
           entry' = [entry EXCEPT ![t] = "released"],
           channels' = Decrement(ChannelOf[t]),
           waiting' = waiting
    PROVE  ChannelAccounting'
<1> SUFFICES ASSUME NEW c \in Channels
             PROVE  channels'[c] = Cardinality(WaitingIn(c)) + Cardinality(DirectIn(c)')
  BY DEF ChannelAccounting, WaitingIn
<1>0. /\ ChannelOf[t] \in Channels
      /\ channels \in [Channels -> Nat] /\ entry \in [Tasks -> Entries]
      /\ channels[c] = Cardinality(WaitingIn(c)) + Cardinality(DirectIn(c))
  BY QueueAssumption DEF ChannelAccounting, IInv, TypeOK
<1>1. CASE c = ChannelOf[t]
  <2>1. DirectIn(c)' = DirectIn(c) \ {t} /\ t \in DirectIn(c)
    BY <1>0, <1>1 DEF DirectIn
  <2>2. /\ Cardinality(DirectIn(c)') = Cardinality(DirectIn(c)) - 1
        /\ Cardinality(DirectIn(c)) \in Nat \ {0}
    BY <2>1, CountedSetsFinite, CountRemoved
  <2>3. channels[c] \in Nat \ {0}
    BY <1>0, <2>2, CountedSetsFinite
  <2>4. channels'[c] = channels[c] - 1
    BY <1>0, <1>1, <2>3 DEF Decrement
  <2> QED  BY <1>0, <2>2, <2>4, CountedSetsFinite
<1>2. CASE c # ChannelOf[t]
  <2>1. DirectIn(c)' = DirectIn(c)
    BY <1>0, <1>2 DEF DirectIn
  <2>2. channels'[c] = channels[c]
    BY <1>0, <1>2 DEF Decrement
  <2> QED  BY <1>0, <2>1, <2>2
<1> QED  BY <1>1, <1>2

LEMMA AccountUnchanged ==
    ASSUME ChannelAccounting, UNCHANGED <<waiting, channels, entry>>
    PROVE  ChannelAccounting'
BY DEF ChannelAccounting, WaitingIn, DirectIn

LEMMA InitAccounting == Init => ChannelAccounting
<1> SUFFICES ASSUME Init, NEW c \in Channels
             PROVE  channels[c] = Cardinality(WaitingIn(c)) + Cardinality(DirectIn(c))
  BY DEF ChannelAccounting
<1>1. WaitingIn(c) = {} /\ DirectIn(c) = {} /\ channels[c] = 0
  BY DEF Init, WaitingIn, DirectIn, ToSet
<1> QED  BY <1>1, FS_EmptySet

LEMMA StepAccounting == IInv /\ ChannelAccounting /\ [Next]_vars => ChannelAccounting'
<1> SUFFICES ASSUME IInv, ChannelAccounting, [Next]_vars
             PROVE  ChannelAccounting'
  OBVIOUS
<1>1. ASSUME NEW g \in Callers, NEW t \in Tasks, Enqueue(g, t)
      PROVE  ChannelAccounting'
  <2>1. ToSet(waiting') = ToSet(waiting) \cup {t} /\ t \notin ToSet(waiting)
    BY <1>1, AppendFacts DEF IInv, TypeOK, Placement, Enqueue
  <2>2. \A c \in Channels : DirectIn(c)' = DirectIn(c)
    BY <1>1 DEF Enqueue, history, DirectIn
  <2> QED  BY <1>1, <2>1, <2>2, AccountWaitingAdded DEF Enqueue
<1>2. ASSUME NEW g \in Callers, NEW i \in DOMAIN waiting, MarkRunning(g, i)
      PROVE  ChannelAccounting'
  <2>1. /\ waiting[i] \in Tasks /\ waiting[i] \in ToSet(waiting)
        /\ ToSet(waiting') = ToSet(waiting) \ {waiting[i]}
        /\ entry[waiting[i]] = "none"
    BY <1>2, WaitingRemoved DEF MarkRunning
  <2>2. \A c \in Channels : DirectIn(c)' = DirectIn(c)
    BY <1>2, <2>1 DEF MarkRunning, DirectIn, IInv, TypeOK
  <2> QED  BY <1>2, <2>1, <2>2, AccountWaitingRemoved DEF MarkRunning
<1>3. ASSUME NEW g \in Callers, NEW t \in Tasks, MarkDispatched(g, t)
      PROVE  ChannelAccounting'
  BY <1>3, AccountUnchanged DEF MarkDispatched, history
<1>4. ASSUME NEW g \in Callers, NEW t \in Tasks, MarkRunningDirect(g, t)
      PROVE  ChannelAccounting'
  BY <1>4, AccountDirectAdded DEF MarkRunningDirect, IInv, Placement
<1>5. ASSUME NEW g \in Callers, NEW t \in Tasks \cup {NoTask}, MarkDone(g, t)
      PROVE  ChannelAccounting'
  BY <1>5, AccountUnchanged DEF MarkDone, queueVars
<1>6. ASSUME NEW g \in Callers, Unregister(g)
      PROVE  ChannelAccounting'
  BY <1>6, AccountUnchanged DEF Unregister
<1>7. ASSUME NEW g \in Callers, NEW t \in Tasks, NEW isDone \in BOOLEAN,
             ReleaseTerminalTask(g, t, isDone)
      PROVE  ChannelAccounting'
  BY <1>7, AccountDirectRemoved DEF ReleaseTerminalTask
<1>8. ASSUME NEW g \in Callers, UncountReleased(g)
      PROVE  ChannelAccounting'
  BY <1>8, AccountUnchanged DEF UncountReleased, queueVars, history
<1>9. ASSUME NEW g \in Callers, NEW i \in DOMAIN waiting, Dequeue(g, i)
      PROVE  ChannelAccounting'
  <2>1. /\ waiting[i] \in Tasks /\ waiting[i] \in ToSet(waiting)
        /\ ToSet(waiting') = ToSet(waiting) \ {waiting[i]}
        /\ entry[waiting[i]] = "none"
    BY <1>9, WaitingRemoved DEF Dequeue
  <2>2. \A c \in Channels : DirectIn(c)' = DirectIn(c)
    BY <1>9, <2>1 DEF Dequeue, DirectIn, IInv, TypeOK
  <2> QED  BY <1>9, <2>1, <2>2, AccountWaitingRemoved DEF Dequeue
<1>10. ASSUME NEW g \in Callers, DequeueNothing(g)
       PROVE  ChannelAccounting'
  BY <1>10, AccountUnchanged DEF DequeueNothing, queueVars, history
<1>11. ASSUME UNCHANGED vars
       PROVE  ChannelAccounting'
  BY <1>11, AccountUnchanged DEF vars, queueVars, history
<1> QED
  BY <1>1, <1>2, <1>3, <1>4, <1>5, <1>6, <1>7, <1>8, <1>9, <1>10, <1>11
     DEF Next, TryDequeue

\* The counter that decides whether a mention is queued or executed is, at
\* every moment and for any callers, the waiting tasks of the channel plus
\* its directly registered tasks that were never released.
THEOREM ChannelAccountingHolds == Spec => []ChannelAccounting
<1>1. Init => IInv /\ ChannelAccounting
  BY InitIInv, InitAccounting
<1>2. IInv /\ ChannelAccounting /\ [Next]_vars => (IInv /\ ChannelAccounting)'
  BY StepIInv, StepAccounting
<1> QED  BY <1>1, <1>2, PTL DEF Spec

-----------------------------------------------------------------------------
(***************************************************************************)
(* The limits.  Only Dequeue adds to the dequeued running tasks, and it    *)
(* looks at the whole running map, which holds them all.                   *)
(***************************************************************************)
LEMMA DequeuedShrinks ==
    ASSUME IInv, DequeuedWithinLimits, Dequeued' \subseteq Dequeued
    PROVE  DequeuedWithinLimits'
<1>1. IsFiniteSet(Dequeued)
  BY QueueAssumption, FS_Subset DEF IInv, TypeOK, Dequeued
<1>2. /\ Cardinality(Dequeued') \in Nat /\ Cardinality(Dequeued) \in Nat
      /\ Cardinality(Dequeued') <= Cardinality(Dequeued)
  BY <1>1, FS_Subset, FS_CardinalityType
<1> QED  BY <1>2, QueueAssumption DEF DequeuedWithinLimits

LEMMA StepLimits == IInv /\ DequeuedWithinLimits /\ [Next]_vars => DequeuedWithinLimits'
<1> SUFFICES ASSUME IInv, DequeuedWithinLimits, [Next]_vars
             PROVE  DequeuedWithinLimits'
  OBVIOUS
<1>0. TypeOK /\ Placement
  BY DEF IInv
<1>1. ASSUME NEW g \in Callers, NEW t \in Tasks, Enqueue(g, t)
      PROVE  Dequeued' \subseteq Dequeued
  BY <1>1 DEF Enqueue, history, Dequeued
<1>2. ASSUME NEW g \in Callers, NEW i \in DOMAIN waiting, MarkRunning(g, i)
      PROVE  Dequeued' \subseteq Dequeued
  <2>1. waiting[i] \in Tasks
    BY <1>2, WaitingRemoved DEF MarkRunning
  <2> QED  BY <1>0, <1>2, <2>1 DEF MarkRunning, Dequeued, TypeOK
<1>3. ASSUME NEW g \in Callers, NEW t \in Tasks, MarkDispatched(g, t)
      PROVE  Dequeued' \subseteq Dequeued
  BY <1>3 DEF MarkDispatched, history, Dequeued
<1>4. ASSUME NEW g \in Callers, NEW t \in Tasks, MarkRunningDirect(g, t)
      PROVE  Dequeued' \subseteq Dequeued
  BY <1>0, <1>4 DEF MarkRunningDirect, Dequeued, TypeOK
<1>5. ASSUME NEW g \in Callers, NEW t \in Tasks \cup {NoTask}, MarkDone(g, t)
      PROVE  Dequeued' \subseteq Dequeued
  BY <1>5 DEF MarkDone, queueVars, Dequeued
<1>6. ASSUME NEW g \in Callers, Unregister(g)
      PROVE  Dequeued' \subseteq Dequeued
  BY <1>6 DEF Unregister, Dequeued
<1>7. ASSUME NEW g \in Callers, NEW t \in Tasks, NEW isDone \in BOOLEAN,
             ReleaseTerminalTask(g, t, isDone)
      PROVE  Dequeued' \subseteq Dequeued
  BY <1>0, <1>7 DEF ReleaseTerminalTask, Dequeued, TypeOK
<1>8. ASSUME NEW g \in Callers, UncountReleased(g)
      PROVE  Dequeued' \subseteq Dequeued
  BY <1>8 DEF UncountReleased, queueVars, history, Dequeued
<1>9. ASSUME NEW g \in Callers, NEW i \in DOMAIN waiting, Dequeue(g, i)
      PROVE  DequeuedWithinLimits'
  <2> DEFINE next == waiting[i]
  <2>1. next \in Tasks /\ next \notin running
    BY <1>9, WaitingRemoved DEF Dequeue
  <2>2. Cardinality(running) < MaxConcurrentTasks /\ ~ChannelBusy(ChannelOf[next])
    BY <1>9 DEF Dequeue, FirstEligible, Eligible
  <2>3. Dequeued' = Dequeued \cup {next} /\ next \notin Dequeued
    BY <1>0, <1>9, <2>1 DEF Dequeue, Dequeued, TypeOK
  <2>4. IsFiniteSet(running) /\ Dequeued \subseteq running
    BY <1>0, QueueAssumption, FS_Subset DEF TypeOK, Dequeued
  <2>5. /\ Cardinality(running) \in Nat /\ Cardinality(Dequeued) \in Nat
        /\ Cardinality(Dequeued) <= Cardinality(running)
        /\ Cardinality(Dequeued') = Cardinality(Dequeued) + 1
    BY <2>3, <2>4, FS_Subset, FS_CardinalityType, CountAdded
  <2>6. Cardinality(Dequeued') <= MaxConcurrentTasks
    BY <2>2, <2>5, QueueAssumption
  <2>7. \A t \in Dequeued : ChannelOf[t] # ChannelOf[next]
    BY <2>2, <2>4 DEF ChannelBusy
  <2> QED  BY <2>3, <2>6, <2>7 DEF DequeuedWithinLimits
<1>10. ASSUME NEW g \in Callers, DequeueNothing(g)
       PROVE  Dequeued' \subseteq Dequeued
  BY <1>10 DEF DequeueNothing, queueVars, history, Dequeued
<1>11. ASSUME UNCHANGED vars
       PROVE  Dequeued' \subseteq Dequeued
  BY <1>11 DEF vars, queueVars, history, Dequeued
<1> QED
  BY <1>1, <1>2, <1>3, <1>4, <1>5, <1>6, <1>7, <1>8, <1>9, <1>10, <1>11,
     DequeuedShrinks DEF Next, TryDequeue

\* However the callers race, the tasks that tryDequeue has dispatched never
\* exceed MaxConcurrentTasks and never share a channel.
THEOREM DequeuedLimitsHold == Spec => []DequeuedWithinLimits
<1>1. Init => DequeuedWithinLimits
  <2> SUFFICES ASSUME Init  PROVE DequeuedWithinLimits
    OBVIOUS
  <2>1. Dequeued = {}
    BY DEF Init, Dequeued
  <2> QED  BY <2>1, FS_EmptySet, QueueAssumption DEF DequeuedWithinLimits
<1>2. IInv /\ DequeuedWithinLimits /\ [Next]_vars => (IInv /\ DequeuedWithinLimits)'
  BY StepIInv, StepLimits
<1> QED  BY <1>1, <1>2, InitIInv, PTL DEF Spec

-----------------------------------------------------------------------------
(***************************************************************************)
(* Completions keep the queue moving.  The one step that could stop it is  *)
(* a tryDequeue that finds nothing; but with no task running the first     *)
(* waiting task is always eligible.                                        *)
(***************************************************************************)
LEMMA SomeoneEligible ==
    ASSUME IInv, waiting # <<>>, running = {}
    PROVE  1 \in DOMAIN waiting /\ Eligible(1)
<1>1. 1 \in DOMAIN waiting
  BY DEF IInv, TypeOK
<1>2. Cardinality(running) = 0
  BY FS_EmptySet
<1> QED  BY <1>1, <1>2, QueueAssumption DEF Eligible, ChannelBusy

\* A queue that moves keeps moving until it is empty, whatever the callers
\* do, unless a recovered task is released with a status other than "done".
THEOREM QueueKeepsMoving == Spec => CompletionKeepsQueueMoving
<1> DEFINE Kept == waiting' = <<>> \/ Moving' \/ ReleaseWithoutDequeue
<1>1. ASSUME IInv, Next, waiting # <<>>, Moving
      PROVE  Kept
  <2>0. pc \in [Callers -> Steps]
    BY <1>1 DEF IInv, TypeOK
  <2>1. ASSUME NEW g \in Callers, NEW t \in Tasks, Enqueue(g, t)
        PROVE  Kept
    BY <1>1, <2>1 DEF Enqueue, callVars, Moving, DequeuePending, At
  <2>2. ASSUME NEW g \in Callers, NEW i \in DOMAIN waiting, MarkRunning(g, i)
        PROVE  Kept
    BY <2>2 DEF MarkRunning, Moving
  <2>3. ASSUME NEW g \in Callers, NEW t \in Tasks, MarkDispatched(g, t)
        PROVE  Kept
    BY <1>1, <2>3 DEF MarkDispatched, callVars, Moving, DequeuePending, At
  <2>4. ASSUME NEW g \in Callers, NEW t \in Tasks, MarkRunningDirect(g, t)
        PROVE  Kept
    BY <2>4 DEF MarkRunningDirect, Moving
  <2>5. ASSUME NEW g \in Callers, NEW t \in Tasks \cup {NoTask}, MarkDone(g, t)
        PROVE  Kept
    BY <2>0, <2>5 DEF MarkDone, Moving, DequeuePending, At
  <2>6. ASSUME NEW g \in Callers, Unregister(g)
        PROVE  Kept
    BY <2>0, <2>6 DEF Unregister, Moving, DequeuePending, At
  <2>7. ASSUME NEW g \in Callers, NEW t \in Tasks, NEW isDone \in BOOLEAN,
               ReleaseTerminalTask(g, t, isDone)
        PROVE  Kept
    <3>1. CASE isDone
      BY <2>0, <2>7, <3>1 DEF ReleaseTerminalTask, Moving, DequeuePending, At
    <3>2. CASE ~isDone
      BY <2>0, <2>7, <3>2 DEF ReleaseTerminalTask, ReleaseWithoutDequeue
    <3> QED  BY <3>1, <3>2
  <2>8. ASSUME NEW g \in Callers, UncountReleased(g)
        PROVE  Kept
    <3>1. CASE pc[g] = "uncountDone"
      BY <2>0, <2>8, <3>1 DEF UncountReleased, Moving, DequeuePending, At
    <3>2. CASE pc[g] = "uncount"
      BY <1>1, <2>0, <2>8, <3>2 DEF UncountReleased, queueVars, Moving, DequeuePending, At
    <3> QED  BY <2>8, <3>1, <3>2 DEF UncountReleased
  <2>9. ASSUME NEW g \in Callers, NEW i \in DOMAIN waiting, Dequeue(g, i)
        PROVE  Kept
    BY <2>9 DEF Dequeue, Moving
  <2>10. ASSUME NEW g \in Callers, DequeueNothing(g)
         PROVE  Kept
    <3>1. running # {}
      BY <1>1, <2>10, SomeoneEligible DEF DequeueNothing
    <3> QED  BY <2>10, <3>1 DEF DequeueNothing, queueVars, Moving
  <2> QED
    BY <1>1, <2>1, <2>2, <2>3, <2>4, <2>5, <2>6, <2>7, <2>8, <2>9, <2>10
       DEF Next, TryDequeue
<1>2. IInv /\ [Next]_vars => [(waiting # <<>> /\ Moving) => Kept]_vars
  BY <1>1
<1> QED  BY <1>2, AlwaysIInv, PTL DEF Spec, CompletionKeepsQueueMoving

-----------------------------------------------------------------------------
(***************************************************************************)
(* The gauges.  One lemma says how the number of goroutines at a set of    *)
(* steps changes when one goroutine moves.                                 *)
(***************************************************************************)
Moves(g, x) == pc' = [pc EXCEPT ![g] = x]

LEMMA CallersAt ==
    ASSUME IInv, NEW S, NEW g \in Callers, NEW x, Moves(g, x)
    PROVE  /\ Cardinality(At(S)) \in Nat
           /\ (pc[g] \in S <=> x \in S) => At(S)' = At(S)
           /\ (pc[g] \notin S /\ x \in S) => Cardinality(At(S)') = Cardinality(At(S)) + 1
           /\ (pc[g] \in S /\ x \notin S) => Cardinality(At(S)') = Cardinality(At(S)) - 1
<1>1. IsFiniteSet(At(S)) /\ Cardinality(At(S)) \in Nat
  BY QueueAssumption, FS_Subset, FS_CardinalityType DEF At
<1>2. pc \in [Callers -> Steps]
  BY DEF IInv, TypeOK
<1>3. (pc[g] \in S <=> x \in S) => At(S)' = At(S)
  BY <1>2 DEF At, Moves
<1>4. ASSUME pc[g] \notin S, x \in S
      PROVE  Cardinality(At(S)') = Cardinality(At(S)) + 1
  <2>1. At(S)' = At(S) \cup {g} /\ g \notin At(S)
    BY <1>2, <1>4 DEF At, Moves
  <2> QED  BY <1>1, <2>1, CountAdded
<1>5. ASSUME pc[g] \in S, x \notin S
      PROVE  Cardinality(At(S)') = Cardinality(At(S)) - 1
  <2>1. At(S)' = At(S) \ {g} /\ g \in At(S)
    BY <1>2, <1>5 DEF At, Moves
  <2> QED  BY <1>1, <2>1, CountRemoved
<1> QED  BY <1>1, <1>3, <1>4, <1>5

\* The same for the running map, in the shape the actions change it.
LEMMA RunningCount ==
    ASSUME IInv
    PROVE  /\ IsFiniteSet(running) /\ Cardinality(running) \in Nat
           /\ \A t : t \notin running => Cardinality(running \cup {t}) = Cardinality(running) + 1
           /\ \A t : t \in running => Cardinality(running \ {t}) = Cardinality(running) - 1
           /\ \A t : t \notin running => running \ {t} = running
<1>1. IsFiniteSet(running) /\ Cardinality(running) \in Nat
  BY QueueAssumption, FS_Subset, FS_CardinalityType DEF IInv, TypeOK
<1> QED  BY <1>1, CountAdded, CountRemoved

ReleasesInFlight == Cardinality(At({"uncount", "uncountDone"}))
FinishesInFlight == Cardinality(At({"unregister"}))

LEMMA ReleasesAfter ==
    ASSUME IInv, NEW g \in Callers, NEW x, Moves(g, x)
    PROVE  LET S == {"uncount", "uncountDone"} IN
           /\ (pc[g] \in S <=> x \in S) => ReleasesInFlight' = ReleasesInFlight
           /\ (pc[g] \notin S /\ x \in S) => ReleasesInFlight' = ReleasesInFlight + 1
           /\ (pc[g] \in S /\ x \notin S) => ReleasesInFlight' = ReleasesInFlight - 1
<1> DEFINE S == {"uncount", "uncountDone"}
<1>1. ReleasesInFlight = Cardinality(At(S)) /\ ReleasesInFlight' = Cardinality(At(S)')
  BY DEF ReleasesInFlight
<1> HIDE DEF S
<1>2. /\ (pc[g] \in S <=> x \in S) => At(S)' = At(S)
      /\ (pc[g] \notin S /\ x \in S) => Cardinality(At(S)') = Cardinality(At(S)) + 1
      /\ (pc[g] \in S /\ x \notin S) => Cardinality(At(S)') = Cardinality(At(S)) - 1
  BY CallersAt
<1> QED  BY <1>1, <1>2 DEF S

LEMMA FinishesAfter ==
    ASSUME IInv, NEW g \in Callers, NEW x, Moves(g, x)
    PROVE  LET S == {"unregister"} IN
           /\ (pc[g] \in S <=> x \in S) => FinishesInFlight' = FinishesInFlight
           /\ (pc[g] \notin S /\ x \in S) => FinishesInFlight' = FinishesInFlight + 1
           /\ (pc[g] \in S /\ x \notin S) => FinishesInFlight' = FinishesInFlight - 1
<1> DEFINE S == {"unregister"}
<1>1. FinishesInFlight = Cardinality(At(S)) /\ FinishesInFlight' = Cardinality(At(S)')
  BY DEF FinishesInFlight
<1> HIDE DEF S
<1>2. /\ (pc[g] \in S <=> x \in S) => At(S)' = At(S)
      /\ (pc[g] \notin S /\ x \in S) => Cardinality(At(S)') = Cardinality(At(S)) + 1
      /\ (pc[g] \in S /\ x \notin S) => Cardinality(At(S)') = Cardinality(At(S)) - 1
  BY CallersAt
<1> QED  BY <1>1, <1>2 DEF S

LEMMA StepGauges == IInv /\ GaugesExact /\ [Next]_vars => GaugesExact'
<1> SUFFICES ASSUME IInv, GaugesExact, [Next]_vars
             PROVE  GaugesExact'
  OBVIOUS
<1>0. /\ waiting \in Seq(Tasks) /\ Len(waiting) \in Nat
      /\ queuedTasks = Len(waiting) /\ misses \in Nat
      /\ activeTasks = Cardinality(running) + ReleasesInFlight - FinishesInFlight - misses
      /\ pc \in [Callers -> Steps]
  BY DEF IInv, TypeOK, GaugesExact, ReleasesInFlight, FinishesInFlight
<1>a. Cardinality(running) \in Nat
  BY RunningCount
<1>b. ReleasesInFlight \in Nat /\ FinishesInFlight \in Nat
  <2>1. At({"uncount", "uncountDone"}) \subseteq Callers /\ At({"unregister"}) \subseteq Callers
    BY DEF At
  <2> QED  BY <2>1, QueueAssumption, FS_Subset, FS_CardinalityType
              DEF ReleasesInFlight, FinishesInFlight
<1>c. ASSUME /\ queuedTasks' = Len(waiting')
             /\ activeTasks' = Cardinality(running') + ReleasesInFlight' - FinishesInFlight' - misses'
      PROVE  GaugesExact'
  BY <1>c DEF GaugesExact, ReleasesInFlight, FinishesInFlight
<1>d. ASSUME pc' = pc
      PROVE  ReleasesInFlight' = ReleasesInFlight /\ FinishesInFlight' = FinishesInFlight
  BY <1>d DEF ReleasesInFlight, FinishesInFlight, At
<1>1. ASSUME NEW g \in Callers, NEW t \in Tasks, Enqueue(g, t)
      PROVE  GaugesExact'
  <2>1. Len(waiting') = Len(waiting) + 1
    BY <1>0, <1>1 DEF Enqueue
  <2> QED  BY <1>0, <1>1, <1>c, <1>d, <2>1 DEF Enqueue, callVars, history
<1>2. ASSUME NEW g \in Callers, NEW i \in DOMAIN waiting, MarkRunning(g, i)
      PROVE  GaugesExact'
  <2>1. waiting[i] \notin running /\ Len(waiting') = Len(waiting) - 1
    BY <1>2, WaitingRemoved DEF MarkRunning
  <2>2. Cardinality(running') = Cardinality(running) + 1
    BY <1>2, <2>1, RunningCount DEF MarkRunning
  <2>3. /\ queuedTasks' = queuedTasks - 1 /\ activeTasks' = activeTasks + 1
        /\ pc' = pc /\ misses' = misses
    BY <1>2 DEF MarkRunning, callVars
  <2> QED  BY <1>0, <1>a, <1>b, <1>c, <1>d, <2>1, <2>2, <2>3
<1>3. ASSUME NEW g \in Callers, NEW t \in Tasks, MarkDispatched(g, t)
      PROVE  GaugesExact'
  BY <1>0, <1>3, <1>c, <1>d DEF MarkDispatched, gauges, callVars, history
<1>4. ASSUME NEW g \in Callers, NEW t \in Tasks, MarkRunningDirect(g, t)
      PROVE  GaugesExact'
  <2>1. Cardinality(running') = Cardinality(running) + 1
    BY <1>4, RunningCount DEF MarkRunningDirect
  <2>2. /\ queuedTasks' = queuedTasks /\ activeTasks' = activeTasks + 1
        /\ pc' = pc /\ misses' = misses /\ waiting' = waiting
    BY <1>4 DEF MarkRunningDirect, callVars
  <2> QED  BY <1>0, <1>a, <1>b, <1>c, <1>d, <2>1, <2>2
<1>5. ASSUME NEW g \in Callers, NEW t \in Tasks \cup {NoTask}, MarkDone(g, t)
      PROVE  GaugesExact'
  <2>0. Moves(g, "unregister")
    BY <1>5 DEF MarkDone, Moves
  <2>1. ReleasesInFlight' = ReleasesInFlight
    BY <1>5, <2>0, ReleasesAfter DEF MarkDone
  <2>2. FinishesInFlight' = FinishesInFlight + 1
    BY <1>5, <2>0, FinishesAfter DEF MarkDone
  <2>3. /\ queuedTasks' = queuedTasks /\ activeTasks' = activeTasks - 1
        /\ running' = running /\ misses' = misses /\ waiting' = waiting
    BY <1>5 DEF MarkDone, queueVars
  <2> QED  BY <1>0, <1>a, <1>b, <1>c, <2>1, <2>2, <2>3
<1>6. ASSUME NEW g \in Callers, Unregister(g)
      PROVE  GaugesExact'
  <2>0. Moves(g, "dequeue")
    BY <1>6 DEF Unregister, Moves
  <2>1. ReleasesInFlight' = ReleasesInFlight
    BY <1>6, <2>0, ReleasesAfter DEF Unregister
  <2>2. FinishesInFlight' = FinishesInFlight - 1
    BY <1>6, <2>0, FinishesAfter DEF Unregister
  <2>3. queuedTasks' = queuedTasks /\ activeTasks' = activeTasks /\ waiting' = waiting
    BY <1>6 DEF Unregister, gauges
  <2>4. CASE arg[g] \in running
    <3>1. Cardinality(running') = Cardinality(running) - 1 /\ misses' = misses
      BY <1>6, <2>4, RunningCount DEF Unregister
    <3> QED  BY <1>0, <1>a, <1>b, <1>c, <2>1, <2>2, <2>3, <3>1
  <2>5. CASE arg[g] \notin running
    <3>1. running' = running /\ misses' = misses + 1
      BY <1>6, <2>5, RunningCount DEF Unregister
    <3> QED  BY <1>0, <1>a, <1>b, <1>c, <2>1, <2>2, <2>3, <3>1
  <2> QED  BY <2>4, <2>5
<1>7. ASSUME NEW g \in Callers, NEW t \in Tasks, NEW isDone \in BOOLEAN,
             ReleaseTerminalTask(g, t, isDone)
      PROVE  GaugesExact'
  <2>0. Moves(g, IF isDone THEN "uncountDone" ELSE "uncount")
    BY <1>7 DEF ReleaseTerminalTask, Moves
  <2>1. ReleasesInFlight' = ReleasesInFlight + 1
    BY <1>7, <2>0, ReleasesAfter DEF ReleaseTerminalTask
  <2>2. FinishesInFlight' = FinishesInFlight
    BY <1>7, <2>0, FinishesAfter DEF ReleaseTerminalTask
  <2>3. Cardinality(running') = Cardinality(running) - 1
    BY <1>7, RunningCount DEF ReleaseTerminalTask
  <2>4. /\ queuedTasks' = queuedTasks /\ activeTasks' = activeTasks
        /\ misses' = misses /\ waiting' = waiting
    BY <1>7 DEF ReleaseTerminalTask, gauges
  <2> QED  BY <1>0, <1>a, <1>b, <1>c, <2>1, <2>2, <2>3, <2>4
<1>8. ASSUME NEW g \in Callers, UncountReleased(g)
      PROVE  GaugesExact'
  <2>0. Moves(g, IF pc[g] = "uncountDone" THEN "dequeue" ELSE "idle")
    BY <1>8 DEF UncountReleased, Moves
  <2>1. ReleasesInFlight' = ReleasesInFlight - 1
    BY <1>8, <2>0, ReleasesAfter DEF UncountReleased
  <2>2. FinishesInFlight' = FinishesInFlight
    BY <1>8, <2>0, FinishesAfter DEF UncountReleased
  <2>3. /\ queuedTasks' = queuedTasks /\ activeTasks' = activeTasks - 1
        /\ running' = running /\ misses' = misses /\ waiting' = waiting
    BY <1>8 DEF UncountReleased, queueVars, history
  <2> QED  BY <1>0, <1>a, <1>b, <1>c, <2>1, <2>2, <2>3
<1>9. ASSUME NEW g \in Callers, NEW i \in DOMAIN waiting, Dequeue(g, i)
      PROVE  GaugesExact'
  <2>0. Moves(g, "idle")
    BY <1>9 DEF Dequeue, Moves
  <2>1. waiting[i] \notin running /\ Len(waiting') = Len(waiting) - 1
    BY <1>9, WaitingRemoved DEF Dequeue
  <2>2. Cardinality(running') = Cardinality(running) + 1
    BY <1>9, <2>1, RunningCount DEF Dequeue
  <2>3. ReleasesInFlight' = ReleasesInFlight
    BY <1>9, <2>0, ReleasesAfter DEF Dequeue
  <2>4. FinishesInFlight' = FinishesInFlight
    BY <1>9, <2>0, FinishesAfter DEF Dequeue
  <2>5. /\ queuedTasks' = queuedTasks - 1 /\ activeTasks' = activeTasks + 1
        /\ misses' = misses
    BY <1>9 DEF Dequeue
  <2> QED  BY <1>0, <1>a, <1>b, <1>c, <2>1, <2>2, <2>3, <2>4, <2>5
<1>10. ASSUME NEW g \in Callers, DequeueNothing(g)
       PROVE  GaugesExact'
  <2>0. Moves(g, "idle")
    BY <1>10 DEF DequeueNothing, Moves
  <2>1. ReleasesInFlight' = ReleasesInFlight
    BY <1>10, <2>0, ReleasesAfter DEF DequeueNothing
  <2>2. FinishesInFlight' = FinishesInFlight
    BY <1>10, <2>0, FinishesAfter DEF DequeueNothing
  <2> QED  BY <1>0, <1>10, <1>c, <2>1, <2>2 DEF DequeueNothing, queueVars, gauges, history
<1>11. ASSUME UNCHANGED vars
       PROVE  GaugesExact'
  BY <1>0, <1>11, <1>c, <1>d DEF vars, queueVars, gauges, callVars, history
<1> QED
  BY <1>1, <1>2, <1>3, <1>4, <1>5, <1>6, <1>7, <1>8, <1>9, <1>10, <1>11
     DEF Next, TryDequeue

\* The two gauges follow the queue exactly, up to the calls in flight and the
\* calls of MarkDone and MarkError that had no task to delete.
THEOREM GaugesExactHold == Spec => []GaugesExact
<1>1. Init => GaugesExact
  <2> SUFFICES ASSUME Init  PROVE GaugesExact
    OBVIOUS
  <2>1. /\ At({"uncount", "uncountDone"}) = {} /\ At({"unregister"}) = {} /\ running = {}
        /\ waiting = <<>> /\ queuedTasks = 0 /\ activeTasks = 0 /\ misses = 0
    BY DEF Init, At
  <2>2. Cardinality({}) = 0 /\ Len(waiting) = 0
    BY <2>1, FS_EmptySet
  <2>3. activeTasks = Cardinality({}) + Cardinality({}) - Cardinality({}) - misses
    BY <2>1, <2>2
  <2> QED  BY <2>1, <2>2, <2>3 DEF GaugesExact
<1>2. IInv /\ GaugesExact /\ [Next]_vars => (IInv /\ GaugesExact)'
  BY StepIInv, StepGauges
<1> QED  BY <1>1, <1>2, InitIInv, PTL DEF Spec

-----------------------------------------------------------------------------
(***************************************************************************)
(* The refinement.  Each action moves at most one task, along one edge of  *)
(* the abstract lifecycle.                                                 *)
(***************************************************************************)
PhaseOf(t) == IF t \in running THEN "running"
              ELSE IF t \in ToSet(waiting) THEN "waiting"
              ELSE IF status[t] = "fresh" THEN "new"
              ELSE "gone"

\* If the phase of t alone changes, phase changes at t alone.
LEMMA PhaseMove ==
    ASSUME NEW t \in Tasks, NEW to, PhaseOf(t)' = to,
           \A u \in Tasks \ {t} : PhaseOf(u)' = PhaseOf(u)
    PROVE  phase' = [phase EXCEPT ![t] = to]
<1>1. phase = [u \in Tasks |-> PhaseOf(u)] /\ phase' = [u \in Tasks |-> PhaseOf(u)']
  BY DEF phase, PhaseOf
<1> HIDE DEF PhaseOf
<1> QED  BY <1>1

LEMMA PhaseKept ==
    ASSUME \A u \in Tasks : PhaseOf(u)' = PhaseOf(u)
    PROVE  phase' = phase
<1>1. phase = [u \in Tasks |-> PhaseOf(u)] /\ phase' = [u \in Tasks |-> PhaseOf(u)']
  BY DEF phase, PhaseOf
<1> QED  BY <1>1

LEMMA PhaseAt == \A t \in Tasks : phase[t] = PhaseOf(t)
BY DEF phase, PhaseOf

LEMMA StepLifecycle == IInv /\ [Next]_vars => [Lifecycle!Next]_phase
<1> SUFFICES ASSUME IInv, [Next]_vars
             PROVE  Lifecycle!Next \/ phase' = phase
  OBVIOUS
<1>0. TypeOK /\ Placement
  BY DEF IInv
<1>1. ASSUME NEW g \in Callers, NEW t \in Tasks, Enqueue(g, t)
      PROVE  Lifecycle!Next
  <2>1. ToSet(waiting') = ToSet(waiting) \cup {t}
    BY <1>0, <1>1, AppendFacts DEF TypeOK, Placement, Enqueue
  <2>2. PhaseOf(t) = "new" /\ PhaseOf(t)' = "waiting"
    BY <1>0, <1>1, <2>1 DEF PhaseOf, Enqueue, TypeOK
  <2>3. \A u \in Tasks \ {t} : PhaseOf(u)' = PhaseOf(u)
    BY <1>0, <1>1, <2>1 DEF PhaseOf, Enqueue, TypeOK
  <2> QED  BY <2>2, <2>3, PhaseMove, PhaseAt
              DEF Lifecycle!Next, Lifecycle!Accept, Lifecycle!Move
<1>2. ASSUME NEW g \in Callers, NEW i \in DOMAIN waiting, MarkRunning(g, i)
      PROVE  Lifecycle!Next
  <2>0. PICK t \in Tasks : t = waiting[i]
    BY <1>2, WaitingRemoved DEF MarkRunning
  <2>1. /\ t \in Tasks /\ t \in ToSet(waiting) /\ t \notin running
        /\ ToSet(waiting') = ToSet(waiting) \ {t}
    BY <1>2, <2>0, WaitingRemoved DEF MarkRunning
  <2>2. PhaseOf(t) = "waiting" /\ PhaseOf(t)' = "running"
    BY <1>0, <1>2, <2>0, <2>1 DEF PhaseOf, MarkRunning
  <2>3. \A u \in Tasks \ {t} : PhaseOf(u)' = PhaseOf(u)
    BY <1>0, <1>2, <2>0, <2>1 DEF PhaseOf, MarkRunning, TypeOK
  <2> QED  BY <2>1, <2>2, <2>3, PhaseMove, PhaseAt
              DEF Lifecycle!Next, Lifecycle!Start, Lifecycle!Move
<1>3. ASSUME NEW g \in Callers, NEW t \in Tasks, MarkDispatched(g, t)
      PROVE  phase' = phase
  <2>1. status[t] # "fresh" /\ status' = [status EXCEPT ![t] = "running"]
    BY <1>3 DEF MarkDispatched, Transition, IsValidTransition, ValidTransitions
  <2> QED  BY <1>0, <1>3, <2>1, PhaseKept DEF PhaseOf, MarkDispatched, TypeOK
<1>4. ASSUME NEW g \in Callers, NEW t \in Tasks, MarkRunningDirect(g, t)
      PROVE  Lifecycle!Next
  <2>1. PhaseOf(t) = "new" /\ PhaseOf(t)' = "running"
    BY <1>0, <1>4 DEF PhaseOf, MarkRunningDirect, Placement
  <2>2. \A u \in Tasks \ {t} : PhaseOf(u)' = PhaseOf(u)
    BY <1>0, <1>4 DEF PhaseOf, MarkRunningDirect, TypeOK
  <2> QED  BY <2>1, <2>2, PhaseMove, PhaseAt
              DEF Lifecycle!Next, Lifecycle!RunNow, Lifecycle!Move
<1>5. ASSUME NEW g \in Callers, NEW t \in Tasks \cup {NoTask}, MarkDone(g, t)
      PROVE  phase' = phase
  BY <1>5 DEF MarkDone, queueVars, phase
<1>6. ASSUME NEW g \in Callers, Unregister(g)
      PROVE  Lifecycle!Next \/ phase' = phase
  <2>0. PICK t : t = arg[g]
    OBVIOUS
  <2>1. CASE t \in running
    <3>1. t \in Tasks /\ t \notin ToSet(waiting) /\ status[t] # "fresh"
      BY <1>0, <2>1 DEF TypeOK, Placement
    <3>2. PhaseOf(t) = "running" /\ PhaseOf(t)' = "gone"
      BY <1>6, <2>0, <2>1, <3>1 DEF PhaseOf, Unregister
    <3>3. \A u \in Tasks \ {t} : PhaseOf(u)' = PhaseOf(u)
      BY <1>6, <2>0 DEF PhaseOf, Unregister
    <3> QED  BY <3>1, <3>2, <3>3, PhaseMove, PhaseAt
                DEF Lifecycle!Next, Lifecycle!Finish, Lifecycle!Move
  <2>2. CASE t \notin running
    <3>1. running' = running
      BY <1>6, <2>0, <2>2 DEF Unregister
    <3> QED  BY <1>6, <3>1 DEF Unregister, phase
  <2> QED  BY <2>1, <2>2
<1>7. ASSUME NEW g \in Callers, NEW t \in Tasks, NEW isDone \in BOOLEAN,
             ReleaseTerminalTask(g, t, isDone)
      PROVE  Lifecycle!Next
  <2>1. t \in running /\ t \notin ToSet(waiting) /\ status[t] # "fresh"
    BY <1>0, <1>7 DEF Placement, ReleaseTerminalTask
  <2>2. PhaseOf(t) = "running" /\ PhaseOf(t)' = "gone"
    BY <1>7, <2>1 DEF PhaseOf, ReleaseTerminalTask
  <2>3. \A u \in Tasks \ {t} : PhaseOf(u)' = PhaseOf(u)
    BY <1>7 DEF PhaseOf, ReleaseTerminalTask
  <2> QED  BY <2>2, <2>3, PhaseMove, PhaseAt
              DEF Lifecycle!Next, Lifecycle!Finish, Lifecycle!Move
<1>8. ASSUME NEW g \in Callers, UncountReleased(g)
      PROVE  phase' = phase
  BY <1>8 DEF UncountReleased, queueVars, phase
<1>9. ASSUME NEW g \in Callers, NEW i \in DOMAIN waiting, Dequeue(g, i)
      PROVE  Lifecycle!Next
  <2>0. PICK t \in Tasks : t = waiting[i]
    BY <1>9, WaitingRemoved DEF Dequeue
  <2>1. /\ t \in Tasks /\ t \in ToSet(waiting) /\ t \notin running
        /\ ToSet(waiting') = ToSet(waiting) \ {t}
    BY <1>9, <2>0, WaitingRemoved DEF Dequeue
  <2>2. PhaseOf(t) = "waiting" /\ PhaseOf(t)' = "running"
    BY <1>0, <1>9, <2>0, <2>1 DEF PhaseOf, Dequeue
  <2>3. \A u \in Tasks \ {t} : PhaseOf(u)' = PhaseOf(u)
    BY <1>0, <1>9, <2>0, <2>1 DEF PhaseOf, Dequeue, TypeOK
  <2> QED  BY <2>1, <2>2, <2>3, PhaseMove, PhaseAt
              DEF Lifecycle!Next, Lifecycle!Start, Lifecycle!Move
<1>10. ASSUME NEW g \in Callers, DequeueNothing(g)
       PROVE  phase' = phase
  BY <1>10 DEF DequeueNothing, queueVars, phase
<1>11. ASSUME UNCHANGED vars
       PROVE  phase' = phase
  BY <1>11 DEF vars, queueVars, phase
<1> QED
  BY <1>1, <1>2, <1>3, <1>4, <1>5, <1>6, <1>7, <1>8, <1>9, <1>10, <1>11
     DEF Next, TryDequeue

\* The queue implements the abstract lifecycle of a task: no task is lost
\* between its acceptance and its end, and none runs twice.
THEOREM QueueImplementsLifecycle == Spec => ImplementsLifecycle
<1>1. Init => Lifecycle!Init
  BY DEF Init, Lifecycle!Init, phase, ToSet
<1> QED  BY <1>1, StepLifecycle, AlwaysIInv, PTL DEF Spec, ImplementsLifecycle, Lifecycle!Spec

-----------------------------------------------------------------------------
(***************************************************************************)
(* Order.                                                                  *)
(***************************************************************************)
\* A task that Dequeue passes over is not eligible although the limit is not
\* reached, so its channel is busy.
THEOREM OvertakingNeedsBusyChannel == Spec => OvertakenOnlyWhenBusy
<1> DEFINE Excused == \A t \in ToSet(waiting) : PassedOver(t) => ChannelBusy(ChannelOf[t])
<1>1. ASSUME IInv, Next
      PROVE  Excused
  <2>0. TypeOK /\ Placement
    BY <1>1 DEF IInv
  <2>1. SUFFICES ASSUME NEW t \in ToSet(waiting), PassedOver(t)
                 PROVE  ChannelBusy(ChannelOf[t])
    OBVIOUS
  <2>2. PICK k \in DOMAIN waiting, j \in DOMAIN waiting :
            k < j /\ waiting[k] = t /\ status'[waiting[j]] = "dispatching"
    BY <2>1 DEF PassedOver
  <2>3. /\ waiting[j] \in ToSet(waiting) /\ waiting[j] \in Tasks
        /\ status[waiting[j]] = "queued"
    BY <2>0, <2>2 DEF TypeOK, Placement, ToSet
  <2>4. PICK g \in Callers, i \in DOMAIN waiting : Dequeue(g, i) /\ waiting[i] = waiting[j]
    <3> SUFFICES ASSUME NEW g \in Callers,
                        \A i \in DOMAIN waiting : ~(Dequeue(g, i) /\ waiting[i] = waiting[j]),
                        \/ \E u \in Tasks : Enqueue(g, u)
                        \/ \E i \in DOMAIN waiting : MarkRunning(g, i)
                        \/ \E u \in Tasks : MarkDispatched(g, u)
                        \/ \E u \in Tasks : MarkRunningDirect(g, u)
                        \/ \E u \in Tasks \cup {NoTask} : MarkDone(g, u)
                        \/ Unregister(g)
                        \/ \E u \in Tasks, isDone \in BOOLEAN :
                               ReleaseTerminalTask(g, u, isDone)
                        \/ UncountReleased(g)
                        \/ TryDequeue(g)
                 PROVE  status'[waiting[j]] = "queued" \/ status'[waiting[j]] = "running"
      BY <1>1, <2>2 DEF Next
    <3>1. ASSUME NEW u \in Tasks, Enqueue(g, u)
          PROVE  status'[waiting[j]] = "queued"
      BY <2>0, <2>3, <3>1 DEF Enqueue, TypeOK
    <3>2. ASSUME NEW i \in DOMAIN waiting, MarkRunning(g, i)
          PROVE  status'[waiting[j]] = "queued"
      <4>1. waiting[i] \in Tasks /\ status[waiting[i]] = "queued"
        BY <1>1, <3>2, WaitingRemoved DEF MarkRunning
      <4>2. status' = [status EXCEPT ![waiting[i]] = "queued"]
        BY <2>0, <3>2, <4>1
           DEF MarkRunning, Transition, IsValidTransition, ValidTransitions, TypeOK
      <4> QED  BY <2>0, <2>3, <4>1, <4>2 DEF TypeOK
    <3>3. ASSUME NEW u \in Tasks, MarkDispatched(g, u)
          PROVE  status'[waiting[j]] = "queued"
      BY <2>0, <2>3, <3>3 DEF MarkDispatched, Placement, TypeOK
    <3>4. ASSUME NEW u \in Tasks, MarkRunningDirect(g, u)
          PROVE  status'[waiting[j]] \in {"queued", "running"}
      BY <2>0, <2>3, <3>4 DEF MarkRunningDirect, TypeOK
    <3>5. ASSUME NEW i \in DOMAIN waiting, Dequeue(g, i)
          PROVE  status'[waiting[j]] = "queued"
      <4>1. waiting[i] # waiting[j]
        BY <3>5
      <4> QED  BY <2>0, <2>3, <3>5, <4>1 DEF Dequeue, TypeOK
    <3>6. ASSUME DequeueNothing(g)
          PROVE  status'[waiting[j]] = "queued"
      BY <2>3, <3>6 DEF DequeueNothing, queueVars
    <3> QED
      BY <2>3, <3>1, <3>2, <3>3, <3>4, <3>5, <3>6
         DEF TryDequeue, MarkDone, Unregister, ReleaseTerminalTask, UncountReleased, queueVars
  <2>5. i = j
    BY <2>0, <2>2, <2>4 DEF Placement, IsInjective
  <2>6. /\ Eligible(i) /\ k \in 1 .. (i - 1) /\ ~Eligible(k)
    BY <2>0, <2>2, <2>4, <2>5 DEF Dequeue, FirstEligible, TypeOK
  <2> QED  BY <2>2, <2>6 DEF Eligible
<1> QED  BY <1>1, AlwaysIInv, PTL DEF Spec, OvertakenOnlyWhenBusy

=============================================================================
