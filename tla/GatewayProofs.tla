--------------------------- MODULE GatewayProofs ---------------------------
(***************************************************************************)
(* Theorems about Gateway: the event loop runs one task per channel,       *)
(* executes one mention per channel at once, finds the right task for its  *)
(* callbacks, nests executions only in finished ones, gives back the slots *)
(* of its tasks, and starts the mentions of a channel in their order.      *)
(*                                                                         *)
(* All of it rests on the channel counter.  TaskQueueProofs shows what it  *)
(* counts; here Rooted says that a channel whose mentions have begun has a *)
(* direct task that is never released, so that its counter stays above 0.  *)
(***************************************************************************)
EXTENDS Gateway, TaskQueueProofs, SequenceTheorems

USE DEF loopVars

Mentions == Tasks \ Recovered

\* Recovery's tasks come first, and none of them waits.
BeforeMentions == ~serving => /\ waiting = <<>>
                              /\ \A t \in Mentions : status[t] = "fresh"
FromRecovery == \A t \in Recovered : /\ t \notin ToSet(waiting)
                                     /\ t \in running => entry[t] = "direct"

\* A channel with a mention has a task that was registered directly.
Rooted == \A t \in Mentions : status[t] # "fresh" => DirectIn(ChannelOf[t]) # {}

\* Mentions are created in order, wait in order, and wait if they are queued.
InOrder == /\ \A t, u \in Mentions :
                  (u < t /\ ChannelOf[u] = ChannelOf[t] /\ status[u] = "fresh")
                      => status[t] = "fresh"
           /\ \A i, j \in DOMAIN waiting :
                  (i < j /\ ChannelOf[waiting[i]] = ChannelOf[waiting[j]])
                      => waiting[i] < waiting[j]
           /\ \A t \in Mentions : status[t] = "queued" => t \in ToSet(waiting)

QueueFits == /\ BeforeMentions /\ FromRecovery /\ Rooted
             /\ OneDirectPerChannel /\ OneRunningPerChannel
             /\ InOrder

\* Only the innermost execution may be unfinished, its task then runs, and none
\* is while a call of the queue is under way.
StackFits == /\ ~serving => stack = <<>>
             /\ \A k \in DOMAIN stack :
                    /\ stack[k].task \in Mentions
                    /\ stack[k].output \in Unfinished
                           => k = Len(stack) /\ stack[k].task \in running /\ Idle

GInv == IInv /\ ChannelAccounting /\ GTypeOK /\ QueueFits /\ StackFits

-----------------------------------------------------------------------------
\* The stack.

LEMMA Pushed ==
    ASSUME stack \in Seq(Executions), NEW t \in Tasks, Push(t, TRUE) \/ Push(t, FALSE)
    PROVE  /\ stack' \in Seq(Executions)
           /\ Len(stack') = Len(stack) + 1
           /\ \A k \in 1 .. Len(stack) : stack'[k] = stack[k]
           /\ stack'[Len(stack) + 1].task = t
<1>1. \A direct \in BOOLEAN : [task |-> t, direct |-> direct, output |-> "spawned"] \in Executions
  BY DEF Executions, Progress
<1>2. PICK e \in Executions : e.task = t /\ stack' = Append(stack, e)
  BY <1>1 DEF Push
<1> QED  BY <1>2

LEMMA ButLast ==
    ASSUME NEW S, NEW s \in Seq(S), NEW n \in 1 .. Len(s)
    PROVE  /\ SubSeq(s, 1, n - 1) \in Seq(S)
           /\ Len(SubSeq(s, 1, n - 1)) = n - 1
           /\ \A k \in 1 .. (n - 1) : SubSeq(s, 1, n - 1)[k] = s[k]
OBVIOUS

LEMMA Popped ==
    ASSUME stack \in Seq(Executions), stack # <<>>, Pop
    PROVE  /\ stack' \in Seq(Executions)
           /\ Len(stack') = Len(stack) - 1
           /\ \A k \in 1 .. (Len(stack) - 1) : stack'[k] = stack[k]
<1>1. Len(stack) \in 1 .. Len(stack)
  OBVIOUS
<1> QED  BY <1>1, ButLast DEF Pop

LEMMA TopSet ==
    ASSUME stack \in Seq(Executions), stack # <<>>, NEW output \in Progress, SetTop(output)
    PROVE  /\ stack' \in Seq(Executions)
           /\ Len(stack') = Len(stack)
           /\ Len(stack) \in DOMAIN stack
           /\ \A k \in DOMAIN stack : k # Len(stack) => stack'[k] = stack[k]
           /\ stack'[Len(stack)].task = Top.task
           /\ stack'[Len(stack)].output = output
<1>1. Len(stack) \in 1 .. Len(stack) /\ Top \in Executions
  BY DEF Top
<1>2. [Top EXCEPT !.output = output] \in Executions
  BY <1>1 DEF Executions
<1>3. stack' = [stack EXCEPT ![Len(stack)] = [Top EXCEPT !.output = output]]
  BY DEF SetTop, Top
<1>4. [Top EXCEPT !.output = output].task = Top.task
      /\ [Top EXCEPT !.output = output].output = output
  BY <1>1 DEF Executions
<1> QED  BY <1>1, <1>2, <1>3, <1>4

-----------------------------------------------------------------------------
\* The loop's steps are steps of the queue.

LEMMA LoopCalls == EventLoop \in Callers
BY GatewayAssumption

\* In an execution that has not finished, a direct task is the only one that
\* runs in its channel.
LEMMA OwnTaskAlone ==
    ASSUME GInv, NEW k \in DOMAIN stack, stack[k].output \in Unfinished
    PROVE  RunningIn(ChannelOf[stack[k].task]) = {stack[k].task}
<1>1. stack[k].task \in Mentions /\ stack[k].task \in running
  BY DEF GInv, StackFits
<1> QED  BY <1>1 DEF GInv, QueueFits, OneRunningPerChannel, RunningIn, Mentions

\* A start event never finds a waiting task: the execution's own task runs.
LEMMA QueueStart ==
    ASSUME GInv, StartEvent
    PROVE  UNCHANGED <<running, entry, pc, arg>>
<1>0. Len(stack) \in DOMAIN stack /\ Top = stack[Len(stack)] /\ Top.output \in Unfinished
  BY DEF GInv, GTypeOK, StartEvent, Top, Unfinished
<1>1. CASE Top.direct
  <2>1. RunningIn(ChannelOf[Top.task]) # {}
    BY <1>0, OwnTaskAlone
  <2> QED  BY <1>1, <2>1 DEF StartEvent, StartOfDirect, vars, queueVars, callVars, history
<1>2. CASE ~Top.direct
  BY <1>2 DEF StartEvent, MarkDispatched, callVars, history
<1> QED  BY <1>1, <1>2

\* What each disjunct of GNext does to the queue.
LEMMA QueueCalls ==
    ASSUME GInv, GNext
    PROVE  \/ \E t \in Recovered : ReconcileRegister(t)
           \/ \E t \in Recovered : ReconcileRelease(t)
           \/ \E c \in Channels, t \in Tasks : QueueMention(c, t) \/ ExecuteMention(c, t)
           \/ \E i \in DOMAIN waiting : DispatchQueuedTask(i)
           \/ Start
           \/ Continue
           \/ /\ stack # <<>> /\ UNCHANGED <<serving, outcome>>
              /\ UNCHANGED vars /\ Idle
              /\ SetTop("broken") \/ Pop \/ (SetTop("started") /\ Top.output = "spawned")
           \/ /\ stack # <<>> /\ UNCHANGED <<serving, outcome>>
              /\ MarkDispatched(EventLoop, Top.task)
              /\ SetTop("started") /\ Top.output = "spawned"
           \/ /\ stack # <<>> /\ UNCHANGED <<serving, outcome>>
              /\ \E t \in Tasks \cup {NoTask} : MarkDone(EventLoop, t)
              /\ SetTop("ended") \/ SetTop("broken") \/ Pop
<1>0. /\ stack \in Seq(Executions) /\ waiting \in Seq(Tasks) /\ running \subseteq Tasks
      /\ stack # <<>> => Len(stack) \in DOMAIN stack /\ Top \in Executions
  BY DEF GInv, GTypeOK, TypeOK, Top
<1>1. CASE StartEvent
  <2>1. CASE Top.direct
    <3>1. RunningIn(ChannelOf[Top.task]) # {}
      BY <1>0, <1>1, OwnTaskAlone DEF StartEvent, Top, Unfinished
    <3>2. Idle /\ UNCHANGED vars
      BY <1>1, <2>1, <3>1 DEF StartEvent, StartOfDirect
    <3> QED  BY <1>1, <3>2 DEF StartEvent
  <2>2. CASE ~Top.direct
    BY <1>1, <2>2 DEF StartEvent
  <2> QED  BY <2>1, <2>2
<1>2. CASE TerminalEvent
  <2>1. PICK t \in IF Top.direct THEN FindRunningTaskID(ChannelOf[Top.task]) ELSE {Top.task} :
            MarkDone(EventLoop, t)
    BY <1>2 DEF TerminalEvent
  <2>2. t \in Tasks \cup {NoTask}
    BY <1>0, <1>2, <2>1 DEF TerminalEvent, FindRunningTaskID, RunningIn, Executions, Unfinished
  <2> QED  BY <1>2, <2>1, <2>2 DEF TerminalEvent
<1>3. CASE ScanError
  <2> DEFINE hit == IF Top.direct THEN FindByChannel(ChannelOf[Top.task]) ELSE {Top.task}
  <2>1. hit \subseteq Tasks
    <3>1. RunningIn(ChannelOf[Top.task]) \subseteq Tasks
      BY <1>0 DEF RunningIn
    <3>2. {waiting[i] : i \in FirstWaitingIn(ChannelOf[Top.task])} \subseteq Tasks
      BY <1>0 DEF FirstWaitingIn
    <3> QED  BY <1>0, <1>3, <3>1, <3>2 DEF ScanError, FindByChannel, Executions
  <2>2. CASE hit = {}
    BY <1>3, <2>2 DEF ScanError
  <2>3. CASE hit # {}
    <3>1. \E t \in hit : MarkDone(EventLoop, t)
      BY <1>3, <2>3 DEF ScanError
    <3> QED  BY <1>3, <2>1, <3>1 DEF ScanError
  <2> QED  BY <2>2, <2>3
<1>4. CASE ReturnOk
  BY <1>4 DEF ReturnOk
<1>5. CASE ReturnError
  <2>1. Top.task \in Tasks
    BY <1>0, <1>5 DEF ReturnError, Executions
  <2> QED  BY <1>5, <2>1 DEF ReturnError
<1> QED  BY <1>1, <1>2, <1>3, <1>4, <1>5 DEF GNext

\* Each of them is a step of the queue, or leaves it alone.
LEMMA QueueStep ==
    ASSUME GInv, [GNext]_gvars
    PROVE  [Next]_vars
<1> USE LoopCalls, GatewayAssumption
<1>1. CASE UNCHANGED gvars
  BY <1>1 DEF gvars
<1>2. ASSUME NEW t \in Recovered, ReconcileRegister(t)  PROVE Next
  BY <1>2 DEF ReconcileRegister, Next
<1>3. ASSUME NEW t \in Recovered, ReconcileRelease(t)  PROVE Next
  <2>1. \E isDone \in BOOLEAN : ReleaseTerminalTask(EventLoop, t, isDone)
    BY <1>3 DEF ReconcileRelease
  <2> QED  BY <2>1 DEF Next
<1>4. ASSUME NEW c \in Channels, NEW t \in Tasks, QueueMention(c, t) \/ ExecuteMention(c, t)
      PROVE  Next
  BY <1>4 DEF QueueMention, ExecuteMention, Next
<1>5. ASSUME NEW i \in DOMAIN waiting, DispatchQueuedTask(i)  PROVE Next
  BY <1>5 DEF DispatchQueuedTask, Next, TryDequeue
<1>6. CASE Start
  BY <1>6 DEF Start
<1>7. CASE Continue
  BY <1>7 DEF Continue, Next, TryDequeue
<1>8. ASSUME MarkDispatched(EventLoop, Top.task), stack # <<>>  PROVE Next
  <2>1. Top.task \in Tasks
    BY <1>8 DEF GInv, IInv, TypeOK, MarkDispatched
  <2> QED  BY <1>8, <2>1 DEF Next
<1>9. ASSUME NEW t \in Tasks \cup {NoTask}, MarkDone(EventLoop, t)  PROVE Next
  BY <1>9 DEF Next
<1> QED  BY <1>1, <1>2, <1>3, <1>4, <1>5, <1>6, <1>7, <1>8, <1>9, QueueCalls

-----------------------------------------------------------------------------
\* QueueFits, step by step.

LEMMA InitGInv == GInit => GInv
<1> SUFFICES ASSUME GInit  PROVE GInv
  OBVIOUS
<1>1. IInv /\ ChannelAccounting
  BY InitIInv, InitAccounting DEF GInit
<1>2. /\ waiting = <<>> /\ running = {} /\ stack = <<>> /\ serving = FALSE
      /\ \A t \in Tasks : status[t] = "fresh" /\ entry[t] = "none"
  BY DEF GInit, Init
<1>3. ToSet(waiting) = {} /\ DOMAIN waiting = {} /\ DOMAIN stack = {}
  BY <1>2 DEF ToSet
<1>4. QueueFits
  <2>1. BeforeMentions /\ FromRecovery /\ Rooted
    BY <1>2, <1>3 DEF BeforeMentions, FromRecovery, Rooted, Mentions
  <2>2. OneDirectPerChannel /\ OneRunningPerChannel /\ InOrder
    BY <1>2, <1>3 DEF OneDirectPerChannel, OneRunningPerChannel, InOrder, Mentions
  <2> QED  BY <2>1, <2>2 DEF QueueFits
<1>5. StackFits
  BY <1>2, <1>3 DEF StackFits
<1>6. stack \in Seq(Executions)
  BY <1>2, EmptySeq
<1>7. GTypeOK
  BY <1>1, <1>6 DEF GTypeOK, GInit, IInv
<1> QED  BY <1>1, <1>4, <1>5, <1>7 DEF GInv

\* A step that registers no task, lets none wait, and at most reports that a
\* dispatched task runs.
LEMMA QuietKeeps ==
    ASSUME GInv, UNCHANGED <<waiting, entry>>, running' \subseteq running,
           serving' \in {serving, TRUE},
           \A t \in Tasks : \/ status'[t] = status[t]
                            \/ status[t] = "dispatching" /\ status'[t] = "running"
    PROVE  QueueFits'
<1>0. Mentions \subseteq Tasks /\ Recovered \subseteq Tasks /\ serving \in BOOLEAN
  BY GatewayAssumption DEF Mentions, GInv, GTypeOK
<1> USE DEF GInv, QueueFits
<1>1. BeforeMentions' /\ FromRecovery'
  BY <1>0 DEF BeforeMentions, FromRecovery
<1>2. Rooted'
  BY <1>0 DEF Rooted, DirectIn
<1>3. OneDirectPerChannel' /\ OneRunningPerChannel'
  BY DEF OneDirectPerChannel, OneRunningPerChannel
<1>4. InOrder'
  BY <1>0 DEF InOrder
<1> QED  BY <1>1, <1>2, <1>3, <1>4

\* Before the loop serves, only tasks of recovery have been registered.
LEMMA OnlyRecovered ==
    ASSUME GInv, ~serving
    PROVE  /\ waiting = <<>>
           /\ \A t \in Mentions : status[t] = "fresh"
           /\ \A t \in Tasks : entry[t] = "direct" => t \in Recovered
           /\ running \subseteq Recovered
<1>1. waiting = <<>> /\ \A t \in Mentions : status[t] = "fresh"
  BY DEF GInv, QueueFits, BeforeMentions
<1> QED  BY <1>1 DEF GInv, IInv, Placement, TypeOK, Mentions

LEMMA ReconcileKeeps ==
    ASSUME GInv, NEW t \in Recovered, ReconcileRegister(t) \/ ReconcileRelease(t)
    PROVE  QueueFits'
<1>0. t \in Tasks /\ Mentions \subseteq Tasks /\ t \notin Mentions
  BY GatewayAssumption DEF Mentions
<1>1. /\ ~serving /\ UNCHANGED <<waiting, serving>>
      /\ \A u \in Tasks \ {t} : status'[u] = status[u] /\ entry'[u] = entry[u]
      /\ running' \subseteq running \cup {t}
      /\ t \in running' => entry'[t] = "direct"
  BY <1>0 DEF ReconcileRegister, ReconcileRelease, MarkRunningDirect, ReleaseTerminalTask,
              gatewayVars, GInv, IInv, TypeOK
<1>2. /\ waiting = <<>> /\ \A u \in Mentions : status[u] = "fresh"
      /\ \A u \in Tasks : entry[u] = "direct" => u \in Recovered
      /\ running \subseteq Recovered
  BY <1>1, OnlyRecovered
<1>3. \A u \in Mentions : status'[u] = "fresh"
  BY <1>0, <1>1, <1>2
<1>4. BeforeMentions' /\ Rooted' /\ InOrder'
  BY <1>1, <1>2, <1>3 DEF BeforeMentions, Rooted, InOrder
<1>5. FromRecovery'
  BY <1>0, <1>1, <1>2, GatewayAssumption DEF FromRecovery, GInv, QueueFits, ToSet
<1>6. OneDirectPerChannel' /\ OneRunningPerChannel'
  BY <1>1, <1>2 DEF OneDirectPerChannel, OneRunningPerChannel
<1> QED  BY <1>4, <1>5, <1>6 DEF QueueFits

\* The counter of a channel is 0 only if nothing waits in it and none of its
\* tasks was registered directly; it is above 0 only otherwise.
LEMMA CounterTells ==
    ASSUME GInv, NEW c \in Channels
    PROVE  ChannelHasActiveTask(c) <=> (WaitingIn(c) # {} \/ DirectIn(c) # {})
<1>1. /\ IsFiniteSet(WaitingIn(c)) /\ Cardinality(WaitingIn(c)) \in Nat
      /\ IsFiniteSet(DirectIn(c))  /\ Cardinality(DirectIn(c)) \in Nat
  BY CountedSetsFinite DEF GInv
<1>2. /\ Cardinality(WaitingIn(c)) = 0 <=> WaitingIn(c) = {}
      /\ Cardinality(DirectIn(c)) = 0 <=> DirectIn(c) = {}
  BY <1>1, FS_EmptySet
<1>3. channels[c] = Cardinality(WaitingIn(c)) + Cardinality(DirectIn(c))
  BY DEF GInv, ChannelAccounting
<1> HIDE DEF WaitingIn, DirectIn
<1> QED  BY <1>1, <1>2, <1>3 DEF ChannelHasActiveTask

\* A waiting task is a mention, and a running one has a channel with a task
\* that was registered directly.
LEMMA Placed ==
    ASSUME GInv
    PROVE  /\ \A t \in ToSet(waiting) : t \in Mentions /\ status[t] = "queued"
           /\ \A t \in running : DirectIn(ChannelOf[t]) # {}
<1>1. \A t \in ToSet(waiting) : t \in Tasks /\ t \notin Recovered /\ status[t] = "queued"
  BY DEF GInv, QueueFits, FromRecovery, IInv, TypeOK, Placement, ToSet
<1>2. ASSUME NEW t \in running  PROVE DirectIn(ChannelOf[t]) # {}
  <2>1. t \in Tasks /\ status[t] # "fresh"
    BY DEF GInv, IInv, TypeOK, Placement
  <2>2. CASE t \in Recovered
    BY <2>1, <2>2 DEF GInv, QueueFits, FromRecovery, DirectIn
  <2>3. CASE t \notin Recovered
    BY <2>1, <2>3 DEF GInv, QueueFits, Rooted, Mentions
  <2> QED  BY <2>2, <2>3
<1> QED  BY <1>1, <1>2 DEF Mentions

LEMMA QueueMentionKeeps ==
    ASSUME GInv, NEW c \in Channels, NEW t \in Tasks, QueueMention(c, t)
    PROVE  QueueFits'
<1>0. /\ waiting \in Seq(Tasks) /\ IsInjective(waiting) /\ status \in [Tasks -> Statuses]
      /\ Mentions \subseteq Tasks /\ Tasks \subseteq Nat
  BY GatewayAssumption DEF GInv, IInv, TypeOK, Placement, Mentions
<1>1. /\ t \in Mentions /\ ChannelOf[t] = c /\ status[t] = "fresh" /\ t \notin ToSet(waiting)
      /\ \A u \in Mentions : u < t /\ ChannelOf[u] = c => status[u] # "fresh"
      /\ serving' = serving /\ serving
      /\ waiting' = Append(waiting, t) /\ status' = [status EXCEPT ![t] = "queued"]
      /\ UNCHANGED <<running, entry>>
      /\ ChannelHasActiveTask(c)
  BY DEF QueueMention, NextMention, Enqueue, gatewayVars, history, Mentions
<1>2. /\ Len(waiting') = Len(waiting) + 1
      /\ \A i \in 1 .. Len(waiting) : waiting'[i] = waiting[i]
      /\ waiting'[Len(waiting) + 1] = t
      /\ waiting' \in Seq(Tasks)
      /\ ToSet(waiting') = ToSet(waiting) \cup {t}
  BY <1>0, <1>1, AppendFacts
<1>3. \A u \in ToSet(waiting) : u \in Mentions /\ status[u] = "queued"
  BY Placed
<1>4. DirectIn(c) # {}
  <2>1. CASE WaitingIn(c) # {}
    <3>1. PICK u \in ToSet(waiting) : ChannelOf[u] = c
      BY <2>1 DEF WaitingIn
    <3> QED  BY <1>3, <3>1 DEF GInv, QueueFits, Rooted
  <2> QED  BY <1>1, <2>1, CounterTells
<1>5. \A u \in Mentions \ {t} : status'[u] = status[u]
  BY <1>0, <1>1
<1>6. status'[t] = "queued"
  BY <1>0, <1>1
<1>7. BeforeMentions' /\ FromRecovery'
  BY <1>1, <1>2 DEF BeforeMentions, FromRecovery, GInv, QueueFits, Mentions
<1>8. Rooted'
  BY <1>1, <1>4, <1>5 DEF Rooted, GInv, QueueFits, DirectIn
<1>9. OneDirectPerChannel' /\ OneRunningPerChannel'
  BY <1>1 DEF OneDirectPerChannel, OneRunningPerChannel, GInv, QueueFits
<1>10. InOrder'
  <2>1. \A v, u \in Mentions :
            (u < v /\ ChannelOf[u] = ChannelOf[v] /\ status'[u] = "fresh") => status'[v] = "fresh"
    BY <1>1, <1>5, <1>6 DEF InOrder, GInv, QueueFits
  <2>2. ASSUME NEW u \in ToSet(waiting), ChannelOf[u] = ChannelOf[t]  PROVE u < t
    <3>1. u \in Mentions /\ u \in Nat /\ t \in Nat /\ u # t /\ status[u] # "fresh"
      BY <1>0, <1>1, <1>3
    <3>2. ~(t < u)
      BY <1>1, <2>2, <3>1 DEF InOrder, GInv, QueueFits
    <3> QED  BY <3>1, <3>2
  <2>3. \A i, j \in DOMAIN waiting' :
            (i < j /\ ChannelOf[waiting'[i]] = ChannelOf[waiting'[j]]) => waiting'[i] < waiting'[j]
    <3>1. SUFFICES ASSUME NEW i \in 1 .. (Len(waiting) + 1), NEW j \in 1 .. (Len(waiting) + 1),
                          i < j, ChannelOf[waiting'[i]] = ChannelOf[waiting'[j]]
                   PROVE  waiting'[i] < waiting'[j]
      BY <1>0, <1>2
    <3>2. i \in DOMAIN waiting /\ waiting'[i] = waiting[i] /\ waiting[i] \in ToSet(waiting)
      BY <1>0, <1>2, <3>1 DEF ToSet
    <3>3. CASE j = Len(waiting) + 1
      BY <1>2, <2>2, <3>1, <3>2, <3>3
    <3>4. CASE j # Len(waiting) + 1
      BY <1>0, <1>2, <3>1, <3>2, <3>4 DEF InOrder, GInv, QueueFits
    <3> QED  BY <3>3, <3>4
  <2>4. \A u \in Mentions : status'[u] = "queued" => u \in ToSet(waiting')
    BY <1>2, <1>5 DEF InOrder, GInv, QueueFits
  <2> QED  BY <2>1, <2>3, <2>4 DEF InOrder
<1> QED  BY <1>7, <1>8, <1>9, <1>10 DEF QueueFits

LEMMA ExecuteMentionKeeps ==
    ASSUME GInv, NEW c \in Channels, NEW t \in Tasks, ExecuteMention(c, t)
    PROVE  QueueFits'
<1>0. /\ status \in [Tasks -> Statuses] /\ entry \in [Tasks -> Entries] /\ running \subseteq Tasks
      /\ Mentions \subseteq Tasks /\ Recovered \subseteq Tasks
  BY GatewayAssumption DEF GInv, IInv, TypeOK, Mentions
<1>1. /\ t \in Mentions /\ ChannelOf[t] = c /\ status[t] = "fresh"
      /\ \A u \in Mentions : u < t /\ ChannelOf[u] = c => status[u] # "fresh"
      /\ serving' = serving /\ serving
      /\ status' = [status EXCEPT ![t] = "running"]
      /\ entry' = [entry EXCEPT ![t] = "direct"]
      /\ running' = running \cup {t}
      /\ waiting' = waiting
  BY DEF ExecuteMention, NextMention, MarkRunningDirect, Mentions
<1>2. DirectIn(c) = {} /\ WaitingIn(c) = {}
  BY CounterTells DEF ExecuteMention
<1>3. \A u \in running : ChannelOf[u] # c
  BY <1>2, Placed
<1>4. \A u \in Tasks \ {t} : status'[u] = status[u] /\ entry'[u] = entry[u]
  BY <1>0, <1>1
<1>5. status'[t] = "running" /\ entry'[t] = "direct"
  BY <1>0, <1>1
<1>6. BeforeMentions' /\ FromRecovery'
  BY <1>0, <1>1, <1>4 DEF BeforeMentions, FromRecovery, GInv, QueueFits, Mentions
<1>7. Rooted'
  <2>1. SUFFICES ASSUME NEW u \in Mentions, status'[u] # "fresh"
                 PROVE  \E v \in Tasks : entry'[v] = "direct" /\ ChannelOf[v] = ChannelOf[u]
    BY DEF Rooted, DirectIn
  <2>2. CASE u = t
    BY <1>5, <2>2
  <2>3. CASE u # t
    <3>1. PICK v \in Tasks : entry[v] = "direct" /\ ChannelOf[v] = ChannelOf[u]
      BY <1>0, <1>4, <2>1, <2>3 DEF GInv, QueueFits, Rooted, DirectIn
    <3> QED  BY <1>4, <1>5, <3>1
  <2> QED  BY <2>2, <2>3
<1>8. OneDirectPerChannel'
  BY <1>1, <1>2, <1>4 DEF OneDirectPerChannel, GInv, QueueFits, DirectIn
<1>9. OneRunningPerChannel'
  BY <1>1, <1>3 DEF OneRunningPerChannel, GInv, QueueFits
<1>10. InOrder'
  BY <1>0, <1>1, <1>4, <1>5 DEF InOrder, GInv, QueueFits
<1> QED  BY <1>6, <1>7, <1>8, <1>9, <1>10 DEF QueueFits

LEMMA DispatchKeeps ==
    ASSUME GInv, NEW i \in DOMAIN waiting, DispatchQueuedTask(i)
    PROVE  QueueFits'
<1> DEFINE t == waiting[i]
<1>0. /\ waiting \in Seq(Tasks) /\ IsInjective(waiting) /\ status \in [Tasks -> Statuses]
      /\ entry \in [Tasks -> Entries] /\ running \subseteq Tasks /\ i \in 1 .. Len(waiting)
      /\ Mentions \subseteq Tasks /\ Tasks \subseteq Nat
  BY GatewayAssumption DEF GInv, IInv, TypeOK, Placement, Mentions
<1>1. /\ waiting' = RemoveAt(waiting, i)
      /\ status' = [status EXCEPT ![t] = Transition(@, "dispatching")]
      /\ entry' = [entry EXCEPT ![t] = "dequeued"]
      /\ running' = running \cup {t}
      /\ serving' = serving
      /\ ~ChannelBusy(ChannelOf[t])
  BY DEF DispatchQueuedTask, Dequeue, FirstEligible, Eligible
<1>2. /\ t \in Mentions /\ t \in ToSet(waiting) /\ status[t] = "queued" /\ entry[t] = "none"
      /\ Len(waiting') = Len(waiting) - 1 /\ waiting' \in Seq(Tasks)
      /\ ToSet(waiting') = ToSet(waiting) \ {t}
  BY <1>1, WaitingRemoved, Placed DEF GInv
<1>3. serving
  BY <1>0, OnlyRecovered
<1>4. /\ status'[t] = "dispatching"
      /\ \A u \in Tasks \ {t} : status'[u] = status[u]
      /\ entry'[t] = "dequeued"
      /\ \A u \in Tasks \ {t} : entry'[u] = entry[u]
  BY <1>0, <1>1, <1>2 DEF Transition, IsValidTransition, ValidTransitions
<1>5. BeforeMentions' /\ FromRecovery'
  BY <1>0, <1>1, <1>2, <1>3, <1>4, GatewayAssumption
     DEF BeforeMentions, FromRecovery, GInv, QueueFits, Mentions
<1>6. \A u \in Tasks : entry'[u] = "direct" <=> entry[u] = "direct"
  BY <1>0, <1>2, <1>4
<1>7. Rooted'
  <2>1. \A c : DirectIn(c)' = DirectIn(c)
    BY <1>6 DEF DirectIn
  <2> QED  BY <1>0, <1>2, <1>4, <2>1 DEF Rooted, GInv, QueueFits
<1>8. OneDirectPerChannel'
  BY <1>6 DEF OneDirectPerChannel, GInv, QueueFits
<1>9. OneRunningPerChannel'
  BY <1>1 DEF OneRunningPerChannel, GInv, QueueFits, ChannelBusy
<1>10. InOrder'
  <2>1. \A j \in 1 .. (Len(waiting) - 1) :
            waiting'[j] = IF j < i THEN waiting[j] ELSE waiting[j + 1]
    BY <1>0, <1>1, RemoveAtFacts
  <2>2. \A j, k \in DOMAIN waiting' :
            (j < k /\ ChannelOf[waiting'[j]] = ChannelOf[waiting'[k]]) => waiting'[j] < waiting'[k]
    <3>1. SUFFICES ASSUME NEW j \in 1 .. (Len(waiting) - 1), NEW k \in 1 .. (Len(waiting) - 1),
                          j < k, ChannelOf[waiting'[j]] = ChannelOf[waiting'[k]]
                   PROVE  waiting'[j] < waiting'[k]
      BY <1>0, <1>2
    <3> DEFINE up(n) == IF n < i THEN n ELSE n + 1
    <3>2. /\ waiting'[j] = waiting[up(j)] /\ up(j) \in DOMAIN waiting
          /\ waiting'[k] = waiting[up(k)] /\ up(k) \in DOMAIN waiting
          /\ up(j) < up(k)
      BY <1>0, <2>1, <3>1
    <3> QED  BY <3>1, <3>2 DEF InOrder, GInv, QueueFits
  <2>3. \A v, u \in Mentions :
            (u < v /\ ChannelOf[u] = ChannelOf[v] /\ status'[u] = "fresh") => status'[v] = "fresh"
    BY <1>0, <1>2, <1>4 DEF InOrder, GInv, QueueFits
  <2>4. \A u \in Mentions : status'[u] = "queued" => u \in ToSet(waiting')
    BY <1>0, <1>2, <1>4 DEF InOrder, GInv, QueueFits
  <2> QED  BY <2>2, <2>3, <2>4 DEF InOrder
<1> QED  BY <1>5, <1>7, <1>8, <1>9, <1>10 DEF QueueFits

-----------------------------------------------------------------------------
\* The whole invariant.

\* Only a return with status 0 adds to the unreported tasks: the task of the
\* execution that returns, if that has not ended.
LEMMA UnreportedKept ==
    ASSUME GInv, GNext
    PROVE  /\ unreported' \subseteq Tasks
           /\ unreported \subseteq unreported'
<1>0. /\ unreported \subseteq Tasks
      /\ stack # <<>> => Top.task \in Tasks
  <2>1. stack # <<>> => Top \in Executions
    BY DEF GInv, GTypeOK, Top
  <2> QED  BY <2>1 DEF GInv, GTypeOK, Executions
<1>1. CASE ReturnOk
  BY <1>0, <1>1 DEF ReturnOk
<1>2. ~ReturnOk => UNCHANGED unreported
  <2>1. ASSUME NEW t \in Recovered, ReconcileRegister(t) \/ ReconcileRelease(t)
        PROVE  UNCHANGED unreported
    BY <2>1 DEF ReconcileRegister, ReconcileRelease, gatewayVars
  <2>2. ASSUME NEW c \in Channels, NEW t \in Tasks, QueueMention(c, t) \/ ExecuteMention(c, t)
        PROVE  UNCHANGED unreported
    BY <2>2 DEF QueueMention, ExecuteMention, gatewayVars
  <2>3. ASSUME NEW i \in DOMAIN waiting, DispatchQueuedTask(i)  PROVE UNCHANGED unreported
    BY <2>3 DEF DispatchQueuedTask
  <2>4. ASSUME Start \/ Continue \/ StartEvent \/ TerminalEvent \/ ScanError \/ ReturnError
        PROVE  UNCHANGED unreported
    BY <2>4 DEF Start, Continue, StartEvent, TerminalEvent, ScanError, ReturnError, gatewayVars
  <2> QED  BY <2>1, <2>2, <2>3, <2>4 DEF GNext
<1> QED  BY <1>0, <1>1, <1>2

LEMMA NextGInv ==
    ASSUME GInv, GNext
    PROVE  GInv'
<1>0. /\ stack \in Seq(Executions) /\ Len(stack) \in Nat /\ DOMAIN stack = 1 .. Len(stack)
      /\ stack # <<>> => Len(stack) \in DOMAIN stack /\ Top = stack[Len(stack)]
      /\ status \in [Tasks -> Statuses] /\ pc \in [Callers -> Steps] /\ waiting \in Seq(Tasks)
      /\ serving \in BOOLEAN /\ outcome \in [Recovered -> {"running", "done", "error"}]
      /\ Mentions \subseteq Tasks /\ Recovered \subseteq Tasks
  BY GatewayAssumption DEF GInv, GTypeOK, TypeOK, Top, Mentions
<1>a. Len(stack) \in Nat /\ DOMAIN stack = 1 .. Len(stack)
  BY <1>0
<1>1. IInv' /\ ChannelAccounting'
  BY QueueStep, StepIInv, StepAccounting DEF GInv
<1>b. unreported' \subseteq Tasks
  BY UnreportedKept
<1> DEFINE Kept == /\ QueueFits' /\ StackFits'
                   /\ serving' \in BOOLEAN /\ UNCHANGED outcome /\ stack' \in Seq(Executions)
<1>2. SUFFICES Kept
  BY <1>0, <1>1, <1>b DEF GInv, GTypeOK, IInv
<1>3. ASSUME NEW t \in Recovered, ReconcileRegister(t) \/ ReconcileRelease(t)
      PROVE  Kept
  <2>1. ~serving /\ UNCHANGED <<serving, outcome, stack>> /\ stack = <<>>
    BY <1>3 DEF ReconcileRegister, ReconcileRelease, gatewayVars, GInv, StackFits
  <2>2. StackFits'
    BY <2>1 DEF StackFits
  <2> QED  BY <1>0, <1>3, <2>1, <2>2, ReconcileKeeps
<1>4. ASSUME NEW c \in Channels, NEW t \in Tasks, QueueMention(c, t)
      PROVE  Kept
  <2>1. stack = <<>> /\ UNCHANGED <<serving, outcome, stack>>
    BY <1>4 DEF QueueMention, gatewayVars
  <2>2. StackFits'
    BY <2>1 DEF StackFits
  <2> QED  BY <1>0, <1>4, <2>1, <2>2, QueueMentionKeeps
<1>5. ASSUME NEW c \in Channels, NEW t \in Tasks, ExecuteMention(c, t)
      PROVE  Kept
  <2>1. /\ stack = <<>> /\ serving /\ UNCHANGED <<serving, outcome, pc>> /\ Push(t, TRUE)
        /\ t \in Mentions /\ t \in running' /\ Idle
    BY <1>5 DEF ExecuteMention, NextMention, MarkRunningDirect, callVars, Mentions, Idle
  <2>2. /\ stack' \in Seq(Executions) /\ Len(stack') = Len(stack) + 1
        /\ stack'[Len(stack) + 1].task = t
    BY <1>0, <2>1, Pushed
  <2>3. Len(stack') = 1 /\ stack'[1].task = t /\ DOMAIN stack' = 1 .. 1
    BY <2>1, <2>2
  <2>4. StackFits'
    BY <2>1, <2>3 DEF StackFits, Idle
  <2> QED  BY <1>0, <1>5, <2>1, <2>2, <2>4, ExecuteMentionKeeps
<1>6. ASSUME NEW i \in DOMAIN waiting, DispatchQueuedTask(i)
      PROVE  Kept
  <2>0. PICK t \in Tasks : t = waiting[i]
    BY <1>0
  <2>1. /\ UNCHANGED <<serving, outcome>> /\ Push(t, FALSE)
        /\ t \in running' /\ pc[EventLoop] = "dequeue"
        /\ pc' = [pc EXCEPT ![EventLoop] = "idle"]
    BY <1>6, <2>0 DEF DispatchQueuedTask, Dequeue
  <2>2. t \in Mentions
    BY <1>0, <2>0, Placed DEF ToSet
  <2>3. /\ stack' \in Seq(Executions) /\ Len(stack') = Len(stack) + 1
        /\ \A k \in 1 .. Len(stack) : stack'[k] = stack[k]
        /\ stack'[Len(stack) + 1].task = t
    BY <1>0, <2>1, Pushed
  <2>4. \A k \in 1 .. Len(stack) : stack[k].output \notin Unfinished
    BY <1>0, <2>1 DEF GInv, StackFits, Idle
  <2>5. Idle' /\ serving
    BY <1>0, <2>1, LoopCalls, OnlyRecovered DEF Idle
  <2>6. \A k \in DOMAIN stack' : k \in 1 .. Len(stack) \/ k = Len(stack) + 1
    BY <1>0, <2>3
  <2>7. StackFits'
    BY <1>0, <2>1, <2>2, <2>3, <2>4, <2>5, <2>6 DEF GInv, StackFits
  <2> QED  BY <1>0, <1>6, <2>1, <2>3, <2>7, DispatchKeeps
<1>7. CASE Start
  <2>1. /\ serving' = TRUE /\ ~serving /\ stack = <<>>
        /\ UNCHANGED <<outcome, stack, waiting, entry, running, status>>
    BY <1>7 DEF Start, vars, queueVars, history, GInv, StackFits
  <2>2. QueueFits'
    BY <2>1, QuietKeeps
  <2>3. StackFits'
    BY <2>1 DEF StackFits
  <2> QED  BY <1>0, <2>1, <2>2, <2>3
<1>8. CASE Continue
  <2>1. /\ pc[EventLoop] # "idle" /\ UNCHANGED <<serving, outcome, stack, waiting, entry, status>>
        /\ running' \subseteq running
    BY <1>8 DEF Continue, Unregister, UncountReleased, DequeueNothing, gatewayVars, queueVars, history
  <2>2. QueueFits'
    BY <2>1, QuietKeeps
  <2>3. \A k \in DOMAIN stack : stack[k].output \notin Unfinished
    BY <2>1 DEF GInv, StackFits, Idle
  <2>4. StackFits'
    BY <2>1, <2>3 DEF GInv, StackFits
  <2> QED  BY <1>0, <2>1, <2>2, <2>4
<1>9. ASSUME stack # <<>>, UNCHANGED <<serving, outcome>>, UNCHANGED vars, Idle,
             SetTop("broken") \/ Pop \/ (SetTop("started") /\ Top.output = "spawned")
      PROVE  Kept
  <2>1. UNCHANGED <<waiting, entry, running, status, pc>>
    BY <1>9 DEF vars, queueVars, history, callVars
  <2>2. QueueFits'
    BY <1>9, <2>1, QuietKeeps
  <2>3. CASE Pop
    <3>1. /\ stack' \in Seq(Executions) /\ Len(stack') = Len(stack) - 1
          /\ \A k \in 1 .. (Len(stack) - 1) : stack'[k] = stack[k]
      BY <1>0, <1>9, <2>3, Popped
    <3>2. StackFits'
      BY <1>0, <1>9, <2>1, <3>1 DEF GInv, StackFits
    <3> QED  BY <1>0, <1>9, <2>2, <3>1, <3>2
  <2>4. ASSUME NEW o \in Progress, SetTop(o), o \in Unfinished => Top.output \in Unfinished
        PROVE  Kept
    <3>1. /\ stack' \in Seq(Executions) /\ Len(stack') = Len(stack)
          /\ \A k \in DOMAIN stack : k # Len(stack) => stack'[k] = stack[k]
          /\ stack'[Len(stack)].task = Top.task
          /\ stack'[Len(stack)].output = o
      BY <1>0, <1>9, <2>4, TopSet
    <3>2. DOMAIN stack' = DOMAIN stack
      BY <1>0, <3>1
    <3>3. StackFits'
      BY <1>0, <1>9, <2>1, <2>4, <3>1, <3>2 DEF GInv, StackFits, Idle
    <3> QED  BY <1>0, <1>9, <2>2, <3>1, <3>3
  <2> QED  BY <1>9, <2>3, <2>4 DEF Progress, Unfinished
<1>10. ASSUME stack # <<>>, UNCHANGED <<serving, outcome>>, MarkDispatched(EventLoop, Top.task),
              SetTop("started"), Top.output = "spawned"
       PROVE  Kept
  <2>1. /\ UNCHANGED <<waiting, entry, running, pc>> /\ Idle
        /\ IsValidTransition(status[Top.task], "running")
        /\ status' = [status EXCEPT ![Top.task] = Transition(@, "running")]
    BY <1>10 DEF MarkDispatched, history, callVars, Idle
  <2>2. \A t \in Tasks : \/ status'[t] = status[t]
                         \/ status[t] = "dispatching" /\ status'[t] = "running"
    BY <1>0, <2>1 DEF IsValidTransition, Transition, ValidTransitions
  <2>3. QueueFits'
    BY <1>10, <2>1, <2>2, QuietKeeps
  <2>4. /\ stack' \in Seq(Executions) /\ Len(stack') = Len(stack)
        /\ \A k \in DOMAIN stack : k # Len(stack) => stack'[k] = stack[k]
        /\ stack'[Len(stack)].task = Top.task
    BY <1>0, <1>10, TopSet DEF Progress
  <2>5. DOMAIN stack' = DOMAIN stack
    BY <1>0, <2>4
  <2>6. StackFits'
    BY <1>0, <1>10, <2>1, <2>4, <2>5 DEF GInv, StackFits, Unfinished, Idle
  <2> QED  BY <1>0, <1>10, <2>3, <2>4, <2>6
<1>11. ASSUME stack # <<>>, UNCHANGED <<serving, outcome>>,
              NEW t \in Tasks \cup {NoTask}, MarkDone(EventLoop, t),
              SetTop("ended") \/ SetTop("broken") \/ Pop
       PROVE  Kept
  <2>1. UNCHANGED <<waiting, entry, running, status>>
    BY <1>11 DEF MarkDone, queueVars
  <2>2. QueueFits'
    BY <1>11, <2>1, QuietKeeps
  <2>3. serving
    BY <1>11 DEF GInv, StackFits
  <2>4. CASE Pop
    <3>1. /\ stack' \in Seq(Executions) /\ Len(stack') = Len(stack) - 1
          /\ \A k \in 1 .. (Len(stack) - 1) : stack'[k] = stack[k]
      BY <1>0, <1>11, <2>4, Popped
    <3>2. DOMAIN stack' = 1 .. (Len(stack) - 1)
      BY <1>0, <3>1
    <3>3. \A n \in Nat : \A k \in 1 .. (n - 1) : k \in 1 .. n /\ k # n
      OBVIOUS
    <3>4. \A k \in 1 .. (Len(stack) - 1) : stack[k].output \notin Unfinished
      BY <1>a, <3>3 DEF GInv, StackFits
    <3>5. StackFits'
      BY <1>0, <1>11, <2>3, <3>1, <3>2, <3>3, <3>4 DEF GInv, StackFits
    <3> QED  BY <1>0, <1>11, <2>2, <3>1, <3>5
  <2>5. ASSUME NEW o \in {"ended", "broken"}, SetTop(o)
        PROVE  Kept
    <3>1. /\ stack' \in Seq(Executions) /\ Len(stack') = Len(stack)
          /\ \A k \in DOMAIN stack : k # Len(stack) => stack'[k] = stack[k]
          /\ stack'[Len(stack)].task = Top.task
          /\ stack'[Len(stack)].output = o
      BY <1>0, <1>11, <2>5, TopSet DEF Progress
    <3>2. DOMAIN stack' = DOMAIN stack
      BY <1>0, <3>1
    <3>3. \A k \in DOMAIN stack : stack'[k].output \notin Unfinished
      BY <1>0, <3>1 DEF GInv, StackFits, Unfinished
    <3>4. StackFits'
      BY <1>0, <1>11, <2>3, <3>1, <3>2, <3>3 DEF GInv, StackFits
    <3> QED  BY <1>0, <1>11, <2>2, <3>1, <3>4
  <2> QED  BY <1>11, <2>4, <2>5
<1> QED
  BY <1>3, <1>4, <1>5, <1>6, <1>7, <1>8, <1>9, <1>10, <1>11, QueueCalls

LEMMA GInvStep == GInv /\ [GNext]_gvars => GInv'
<1>1. ASSUME GInv, UNCHANGED gvars
      PROVE  GInv'
  <2>1. IInv' /\ ChannelAccounting'
    BY <1>1, QueueStep, StepIInv, StepAccounting DEF GInv
  <2>2. UNCHANGED <<waiting, running, channels, status, entry, pc, serving, outcome, unreported,
                    stack>>
    BY <1>1 DEF gvars, vars, queueVars, callVars, history, gatewayVars
  <2>3. QueueFits'
    BY <1>1, <2>2, QuietKeeps
  <2>4. StackFits'
    BY <1>1, <2>2 DEF GInv, StackFits, Idle
  <2> QED  BY <1>1, <2>1, <2>2, <2>3, <2>4 DEF GInv, GTypeOK, IInv
<1> QED  BY <1>1, NextGInv

LEMMA AlwaysGInv == GSpec => []GInv
BY GInvStep, InitGInv, PTL DEF GSpec

-----------------------------------------------------------------------------
\* The slots of the running map.

\* A mention that holds a slot is the one of the unfinished execution, or the
\* one that MarkDone is about to delete, or it was never reported finished.
Executing(t)     == stack # <<>> /\ Top.output \in Unfinished /\ Top.task = t
Unregistering(t) == pc[EventLoop] = "unregister" /\ arg[EventLoop] = t

SlotsHeld == \A t \in running \ Recovered :
                 t \in unreported \/ Executing(t) \/ Unregistering(t)
Released  == serving => ToRelease = {}

LEMMA PushedExecutes ==
    ASSUME stack \in Seq(Executions), NEW t \in Tasks, Push(t, TRUE) \/ Push(t, FALSE)
    PROVE  Executing(t)'
<1>1. \A direct \in BOOLEAN : [task |-> t, direct |-> direct, output |-> "spawned"] \in Executions
  BY DEF Executions, Progress
<1>2. PICK e \in Executions : e.task = t /\ e.output = "spawned" /\ stack' = Append(stack, e)
  BY <1>1 DEF Push
<1>3. Len(stack') = Len(stack) + 1 /\ stack'[Len(stack) + 1] = e /\ Len(stack) \in Nat
  BY <1>2
<1>4. stack' # <<>>
  BY <1>3
<1> QED  BY <1>2, <1>3, <1>4 DEF Executing, Top, Unfinished

\* MarkDone of the execution's own task, or of any task once it has ended.
OwnEnd == \E t \in Tasks \cup {NoTask} :
              /\ MarkDone(EventLoop, t)
              /\ Top.output \in Unfinished => t = Top.task

LEMMA EndsOwnTask ==
    ASSUME GInv, stack # <<>>, TerminalEvent \/ ScanError \/ ReturnError
    PROVE  \/ OwnEnd
           \/ ScanError /\ Top.output \notin Unfinished /\ UNCHANGED vars
<1>0. /\ Len(stack) \in DOMAIN stack /\ Top = stack[Len(stack)] /\ Top.task \in Tasks
      /\ waiting \in Seq(Tasks) /\ running \subseteq Tasks
  <2>1. stack # <<>> => Len(stack) \in DOMAIN stack /\ Top \in Executions
    BY DEF GInv, GTypeOK, Top
  <2> QED  BY <2>1 DEF GInv, GTypeOK, TypeOK, Top, Executions
<1> DEFINE mine == RunningIn(ChannelOf[Top.task])
<1>1. Top.output \in Unfinished => mine = {Top.task}
  BY <1>0, OwnTaskAlone
<1>2. mine \subseteq Tasks
  BY <1>0 DEF RunningIn
<1>3. CASE TerminalEvent
  <2>1. PICK t \in IF Top.direct THEN FindRunningTaskID(ChannelOf[Top.task]) ELSE {Top.task} :
            MarkDone(EventLoop, t)
    BY <1>3 DEF TerminalEvent
  <2>2. t = Top.task
    BY <1>1, <1>3, <2>1 DEF TerminalEvent, FindRunningTaskID
  <2> QED  BY <1>0, <2>1, <2>2 DEF OwnEnd
<1>4. CASE ScanError
  <2> DEFINE hit == IF Top.direct THEN FindByChannel(ChannelOf[Top.task]) ELSE {Top.task}
  <2>1. hit \subseteq Tasks
    <3>1. {waiting[i] : i \in FirstWaitingIn(ChannelOf[Top.task])} \subseteq Tasks
      BY <1>0 DEF FirstWaitingIn
    <3> QED  BY <1>0, <1>2, <3>1 DEF FindByChannel
  <2>2. Top.output \in Unfinished => hit = {Top.task}
    BY <1>1 DEF FindByChannel
  <2>3. CASE hit = {}
    <3>1. UNCHANGED vars
      BY <1>4, <2>3 DEF ScanError
    <3> QED  BY <1>4, <2>2, <2>3, <3>1
  <2>4. CASE hit # {}
    <3>1. PICK t \in hit : MarkDone(EventLoop, t)
      BY <1>4, <2>4 DEF ScanError
    <3> QED  BY <2>1, <2>2, <3>1 DEF OwnEnd
  <2> QED  BY <2>3, <2>4
<1>5. CASE ReturnError
  BY <1>0, <1>5 DEF ReturnError, OwnEnd
<1> QED  BY <1>3, <1>4, <1>5

LEMMA StepSlotsHeld ==
    ASSUME GInv, SlotsHeld, GNext
    PROVE  SlotsHeld'
<1>0. /\ stack \in Seq(Executions) /\ waiting \in Seq(Tasks) /\ running \subseteq Tasks
      /\ pc \in [Callers -> Steps] /\ arg \in [Callers -> Tasks \cup {NoTask}]
      /\ unreported \subseteq unreported'
  BY UnreportedKept DEF GInv, GTypeOK, TypeOK
<1>a. pc[EventLoop] # "idle" => \A t : ~Executing(t)
  <2>1. stack # <<>> => Len(stack) \in DOMAIN stack
    BY <1>0
  <2> QED  BY <2>1 DEF GInv, StackFits, Executing, Top, Idle
<1>1. ASSUME NEW t \in Recovered, ReconcileRegister(t) \/ ReconcileRelease(t)
      PROVE  SlotsHeld'
  <2>1. ~serving /\ running' \subseteq running \cup {t}
    BY <1>1 DEF ReconcileRegister, ReconcileRelease, MarkRunningDirect, ReleaseTerminalTask
  <2> QED  BY <2>1, OnlyRecovered DEF SlotsHeld
<1>2. ASSUME UNCHANGED <<running, stack, pc, arg>>  PROVE SlotsHeld'
  BY <1>0, <1>2 DEF SlotsHeld, Executing, Unregistering, Top
<1>3. ASSUME NEW c \in Channels, NEW t \in Tasks, ExecuteMention(c, t)
      PROVE  SlotsHeld'
  <2>1. /\ stack = <<>> /\ Idle /\ running' = running \cup {t} /\ Push(t, TRUE)
        /\ UNCHANGED unreported
    BY <1>3 DEF ExecuteMention, MarkRunningDirect, Idle
  <2>2. Executing(t)'
    BY <1>0, <2>1, PushedExecutes
  <2>3. \A u \in running \ Recovered : u \in unreported
    BY <2>1 DEF SlotsHeld, Executing, Unregistering, Idle
  <2> QED  BY <2>1, <2>2, <2>3 DEF SlotsHeld
<1>4. ASSUME NEW i \in DOMAIN waiting, DispatchQueuedTask(i)
      PROVE  SlotsHeld'
  <2>0. PICK t \in Tasks : t = waiting[i]
    BY <1>0
  <2>1. /\ pc[EventLoop] = "dequeue" /\ running' = running \cup {t} /\ Push(t, FALSE)
        /\ UNCHANGED unreported
    BY <1>4, <2>0 DEF DispatchQueuedTask, Dequeue
  <2>2. Executing(t)'
    BY <1>0, <2>1, PushedExecutes
  <2>3. \A u \in running \ Recovered : u \in unreported
    BY <1>a, <2>1 DEF SlotsHeld, Unregistering
  <2> QED  BY <2>1, <2>2, <2>3 DEF SlotsHeld
<1>5. CASE StartEvent
  <2>1. /\ stack # <<>> /\ Top.output = "spawned" /\ SetTop("started")
        /\ UNCHANGED <<running, pc, arg>>
    BY <1>5, QueueStart DEF StartEvent
  <2>2. /\ Len(stack') = Len(stack) /\ stack' # <<>>
        /\ stack'[Len(stack)].task = Top.task /\ stack'[Len(stack)].output = "started"
    BY <1>0, <2>1, TopSet DEF Progress
  <2>3. \A t : Executing(t) => Executing(t)'
    BY <2>2 DEF Executing, Top, Unfinished
  <2> QED  BY <1>0, <2>1, <2>3 DEF SlotsHeld, Unregistering
<1>6. ASSUME OwnEnd, stack # <<>>  PROVE SlotsHeld'
  <2>1. PICK t \in Tasks \cup {NoTask} :
            /\ MarkDone(EventLoop, t)
            /\ Top.output \in Unfinished => t = Top.task
    BY <1>6 DEF OwnEnd
  <2>2. /\ pc[EventLoop] = "idle" /\ UNCHANGED running
        /\ pc'[EventLoop] = "unregister" /\ arg'[EventLoop] = t
    BY <1>0, <2>1, LoopCalls DEF MarkDone, queueVars
  <2> QED  BY <1>0, <2>1, <2>2 DEF SlotsHeld, Executing, Unregistering
<1>7. ASSUME ScanError, Top.output \notin Unfinished, UNCHANGED vars
      PROVE  SlotsHeld'
  BY <1>0, <1>7 DEF SlotsHeld, Executing, Unregistering, vars, queueVars, callVars
<1>8. CASE ReturnOk
  <2>1. /\ Idle /\ UNCHANGED <<running, pc, arg>>
        /\ Top.output \in Unfinished => Top.task \in unreported'
    BY <1>8 DEF ReturnOk, vars, queueVars, callVars
  <2> QED  BY <1>0, <2>1 DEF SlotsHeld, Executing, Unregistering
<1>9. CASE Continue
  <2>1. /\ pc[EventLoop] # "idle" /\ UNCHANGED <<stack, unreported>>
        /\ running' \subseteq running
        /\ pc[EventLoop] = "unregister" => running' = running \ {arg[EventLoop]}
    BY <1>9 DEF Continue, Unregister, UncountReleased, DequeueNothing, gatewayVars, queueVars
  <2> QED  BY <1>a, <2>1 DEF SlotsHeld, Unregistering
<1>10. CASE Start
  BY <1>2, <1>10 DEF Start, vars, queueVars, callVars
<1>11. ASSUME NEW c \in Channels, NEW t \in Tasks, QueueMention(c, t)
       PROVE  SlotsHeld'
  BY <1>2, <1>11 DEF QueueMention, Enqueue, callVars, gatewayVars
<1>12. CASE TerminalEvent \/ ScanError \/ ReturnError
  <2>1. stack # <<>>
    BY <1>12 DEF TerminalEvent, ScanError, ReturnError
  <2> QED  BY <1>6, <1>7, <1>12, <2>1, EndsOwnTask
<1> QED
  BY <1>1, <1>3, <1>4, <1>5, <1>8, <1>9, <1>10, <1>11, <1>12 DEF GNext

\* Before Start everything to be released has been, and afterwards nothing
\* registers a task of recovery.
LEMMA StepReleased ==
    ASSUME GInv, Released, GNext
    PROVE  Released'
<1>0. /\ waiting \in Seq(Tasks) /\ entry \in [Tasks -> Entries] /\ serving \in BOOLEAN
      /\ Recovered \subseteq Tasks
  BY GatewayAssumption DEF GInv, GTypeOK, TypeOK
<1>1. ASSUME NEW t \in Recovered, ReconcileRegister(t) \/ ReconcileRelease(t)
      PROVE  Released'
  BY <1>1 DEF ReconcileRegister, ReconcileRelease, gatewayVars, Released
<1>2. CASE Start
  BY <1>2 DEF Start, Released, ToRelease, vars, history
<1>3. ASSUME UNCHANGED <<serving, outcome>>,
             \A t \in Recovered : entry'[t] = "direct" => entry[t] = "direct"
      PROVE  Released'
  BY <1>3 DEF Released, ToRelease
<1>4. ASSUME NEW c \in Channels, NEW t \in Tasks, ExecuteMention(c, t)
      PROVE  Released'
  <2>1. /\ t \notin Recovered /\ entry' = [entry EXCEPT ![t] = "direct"]
        /\ UNCHANGED <<serving, outcome>>
    BY <1>4 DEF ExecuteMention, NextMention, MarkRunningDirect
  <2> QED  BY <1>0, <1>3, <2>1
<1>5. ASSUME NEW i \in DOMAIN waiting, DispatchQueuedTask(i)
      PROVE  Released'
  <2>1. /\ waiting[i] \in Tasks /\ entry' = [entry EXCEPT ![waiting[i]] = "dequeued"]
        /\ UNCHANGED <<serving, outcome>>
    BY <1>0, <1>5 DEF DispatchQueuedTask, Dequeue
  <2> QED  BY <1>0, <1>3, <2>1
<1>6. CASE Continue
  BY <1>3, <1>6 DEF Continue, Unregister, UncountReleased, DequeueNothing, gatewayVars, history
<1>7. ASSUME NEW c \in Channels, NEW t \in Tasks, QueueMention(c, t)
      PROVE  Released'
  BY <1>3, <1>7 DEF QueueMention, Enqueue, gatewayVars, history
<1>8. CASE StartEvent
  <2>1. UNCHANGED <<serving, outcome, entry>>
    BY <1>8, QueueStart DEF StartEvent
  <2> QED  BY <1>3, <2>1
<1>9. CASE ReturnOk
  BY <1>3, <1>9 DEF ReturnOk, vars, history
<1>10. CASE TerminalEvent \/ ScanError \/ ReturnError
  <2>1. stack # <<>> /\ UNCHANGED <<serving, outcome>>
    BY <1>10 DEF TerminalEvent, ScanError, ReturnError
  <2>2. UNCHANGED entry
    BY <1>10, <2>1, EndsOwnTask DEF OwnEnd, MarkDone, vars, history
  <2> QED  BY <1>3, <2>1, <2>2
<1> QED
  BY <1>1, <1>2, <1>4, <1>5, <1>6, <1>7, <1>8, <1>9, <1>10 DEF GNext

-----------------------------------------------------------------------------
\* The variables of the queue, of recovery's results and of the stack keep
\* their types.
THEOREM GTypeCorrect == GSpec => []GTypeOK
<1>1. GInv => GTypeOK
  BY DEF GInv
<1> QED  BY <1>1, AlwaysGInv, PTL

\* The loop's steps are calls of the queue by one of its callers.
LEMMA GatewayUsesQueue == GSpec => Spec
<1>1. GInit => Init
  BY DEF GInit
<1>2. GInv /\ [GNext]_gvars => [Next]_vars
  BY QueueStep
<1> QED  BY <1>1, <1>2, AlwaysGInv, PTL DEF GSpec, Spec

\* What TaskQueueProofs shows of any callers, of the gateway's own.
COROLLARY QueueTheoremsApply ==
    GSpec => /\ [](ChannelAccounting /\ GaugesExact /\ DequeuedWithinLimits)
             /\ CompletionKeepsQueueMoving
             /\ OvertakenOnlyWhenBusy
             /\ ImplementsLifecycle
<1>1. Spec => [](ChannelAccounting /\ GaugesExact /\ DequeuedWithinLimits)
  BY ChannelAccountingHolds, GaugesExactHold, DequeuedLimitsHold, PTL
<1> QED
  BY <1>1, GatewayUsesQueue, QueueKeepsMoving, OvertakingNeedsBusyChannel, QueueImplementsLifecycle

\* At most one task runs in a channel, although MarkRunningDirect checks no
\* limit (tasks that recovery has registered apart).
THEOREM OneRunningPerChannelHolds == GSpec => []OneRunningPerChannel
<1>1. GInv => OneRunningPerChannel
  BY DEF GInv, QueueFits
<1> QED  BY <1>1, AlwaysGInv, PTL

\* A channel executes one mention directly in the life of the process: the
\* counter that MarkRunningDirect raises is never lowered again.
THEOREM OneDirectPerChannelHolds == GSpec => []OneDirectPerChannel
<1>1. GInv => OneDirectPerChannel
  BY DEF GInv, QueueFits
<1> QED  BY <1>1, AlwaysGInv, PTL

\* A callback that looks its task up by channel finds its own.
THEOREM EventsReachOwnTaskHolds == GSpec => []EventsReachOwnTask
<1>1. ASSUME GInv  PROVE EventsReachOwnTask
  BY <1>1, OwnTaskAlone DEF EventsReachOwnTask, FindRunningTaskID, Unfinished
<1> QED  BY <1>1, AlwaysGInv, PTL

\* Executions nest only in ones whose worker has reported its end.
THEOREM OneUnfinishedExecutionHolds == GSpec => []OneUnfinishedExecution
<1>1. ASSUME GInv  PROVE OneUnfinishedExecution
  BY <1>1 DEF GInv, StackFits, OneUnfinishedExecution, Unfinished
<1> QED  BY <1>1, AlwaysGInv, PTL

\* When the loop is back at the events, only tasks that nothing will end hold a
\* slot: those that recovery found running and those whose worker exited with
\* status 0 without an end.
THEOREM SlotsAreReturnedHolds == GSpec => []SlotsAreReturned
<1> DEFINE SInv == GInv /\ SlotsHeld /\ Released
<1>1. GInit => SInv
  <2>1. GInit => running = {} /\ serving = FALSE
    BY DEF GInit, Init
  <2> QED  BY <2>1, InitGInv DEF SlotsHeld, Released
<1>2. SInv /\ [GNext]_gvars => SInv'
  <2>1. ASSUME GInv, SlotsHeld, Released, UNCHANGED gvars
        PROVE  SlotsHeld' /\ Released'
    <3>1. UNCHANGED <<running, unreported, stack, pc, arg, serving, outcome, entry>>
      BY <2>1 DEF gvars, vars, queueVars, callVars, history, gatewayVars
    <3> QED  BY <2>1, <3>1 DEF SlotsHeld, Executing, Unregistering, Top, Released, ToRelease
  <2>2. GInv /\ [GNext]_gvars => GInv'
    BY GInvStep
  <2> QED  BY <2>1, <2>2, StepSlotsHeld, StepReleased
<1>3. ASSUME SInv  PROVE SlotsAreReturned
  <2>1. ASSUME serving, stack = <<>>, Idle, NEW t \in running
        PROVE  t \in {r \in Recovered : outcome[r] = "running"} \cup unreported
    <3>1. CASE t \in Recovered
      BY <1>3, <2>1, <3>1 DEF GInv, QueueFits, FromRecovery, Released, ToRelease
    <3>2. CASE t \notin Recovered
      BY <1>3, <2>1, <3>2 DEF SlotsHeld, Executing, Unregistering, Idle
    <3> QED  BY <3>1, <3>2
  <2> QED  BY <2>1 DEF SlotsAreReturned
<1> HIDE DEF SInv
<1> QED  BY <1>1, <1>2, <1>3, PTL DEF GSpec

\* The mentions of a channel start in their order, through counter, queue and
\* nested executions.
THEOREM MentionsStartInOrder == GSpec => StartsInMentionOrder
<1> DEFINE Ordered ==
        \A t \in running' \ running : t \notin Recovered =>
            \A u \in Tasks \ Recovered :
                (u < t /\ ChannelOf[u] = ChannelOf[t]) => status'[u] \notin {"fresh", "queued"}
<1>1. ASSUME GInv, GNext  PROVE Ordered
  <2>0. /\ status \in [Tasks -> Statuses] /\ waiting \in Seq(Tasks) /\ IsInjective(waiting)
        /\ Tasks \subseteq Nat
    BY <1>1, GatewayAssumption DEF GInv, IInv, TypeOK, Placement
  <2>1. ASSUME NEW t \in Recovered, ReconcileRegister(t) \/ ReconcileRelease(t)
        PROVE  Ordered
    BY <2>1 DEF ReconcileRegister, ReconcileRelease, MarkRunningDirect, ReleaseTerminalTask
  <2>2. ASSUME NEW c \in Channels, NEW t \in Tasks, ExecuteMention(c, t)
        PROVE  Ordered
    <3>1. /\ running' = running \cup {t} /\ ChannelOf[t] = c
          /\ \A u \in Mentions : u < t /\ ChannelOf[u] = c => status[u] # "fresh"
          /\ status' = [status EXCEPT ![t] = "running"]
      BY <2>2 DEF ExecuteMention, NextMention, MarkRunningDirect, Mentions
    <3>2. WaitingIn(c) = {}
      BY <1>1, <2>2, CounterTells DEF ExecuteMention
    <3>3. \A u \in Mentions : ChannelOf[u] = c => status[u] # "queued"
      BY <1>1, <3>2 DEF GInv, QueueFits, InOrder, WaitingIn
    <3>4. \A u \in Mentions : u < t => status'[u] = status[u]
      BY <2>0, <3>1 DEF Mentions
    <3> QED  BY <3>1, <3>3, <3>4 DEF Mentions
  <2>3. ASSUME NEW i \in DOMAIN waiting, DispatchQueuedTask(i)
        PROVE  Ordered
    <3>0. PICK t \in Tasks : t = waiting[i]
      BY <2>0
    <3>1. /\ running' = running \cup {t}
          /\ status' = [status EXCEPT ![t] = Transition(@, "dispatching")]
          /\ \A j \in 1 .. (i - 1) : ~Eligible(j)
          /\ Eligible(i)
      BY <2>3, <3>0 DEF DispatchQueuedTask, Dequeue, FirstEligible
    <3>2. t \in Mentions /\ status[t] = "queued"
      BY <1>1, <2>0, <3>0, Placed DEF ToSet
    <3>3. ASSUME NEW u \in Mentions, u < t, ChannelOf[u] = ChannelOf[t]
          PROVE  status[u] \notin {"fresh", "queued"}
      <4>1. status[u] # "fresh"
        BY <1>1, <3>2, <3>3 DEF GInv, QueueFits, InOrder
      <4>2. ASSUME status[u] = "queued"  PROVE FALSE
        <5>1. PICK j \in 1 .. Len(waiting) : waiting[j] = u
          BY <1>1, <2>0, <4>2 DEF GInv, QueueFits, InOrder, ToSet
        <5>2. i \in 1 .. Len(waiting) /\ Len(waiting) \in Nat
              /\ u \in Nat /\ t \in Nat
          BY <2>0, <3>2 DEF Mentions
        <5>3. ~(i < j)
          BY <1>1, <2>0, <3>0, <3>3, <5>1, <5>2 DEF GInv, QueueFits, InOrder
        <5>4. j # i
          BY <3>0, <3>3, <5>1, <5>2
        <5>5. j \in 1 .. (i - 1)
          BY <5>1, <5>2, <5>3, <5>4
        <5> QED  BY <3>0, <3>1, <3>3, <5>1, <5>5 DEF Eligible
      <4> QED  BY <4>1, <4>2
    <3>4. \A u \in Mentions : u < t => status'[u] = status[u]
      BY <2>0, <3>1, <3>2 DEF Mentions
    <3> QED  BY <3>1, <3>3, <3>4 DEF Mentions
  <2>4. ASSUME running' \subseteq running  PROVE Ordered
    BY <2>4
  <2>5. \/ \E t \in Recovered : ReconcileRegister(t) \/ ReconcileRelease(t)
        \/ \E c \in Channels, t \in Tasks : ExecuteMention(c, t)
        \/ \E i \in DOMAIN waiting : DispatchQueuedTask(i)
        \/ running' \subseteq running
    BY <1>1, QueueCalls DEF QueueMention, Enqueue, Start, Continue, Unregister, UncountReleased,
            DequeueNothing, MarkDispatched, MarkDone, vars, queueVars
  <2> QED  BY <2>1, <2>2, <2>3, <2>4, <2>5
<1>2. GInv /\ [GNext]_gvars => [Ordered]_gvars
  BY <1>1
<1> QED  BY <1>2, AlwaysGInv, PTL DEF GSpec, StartsInMentionOrder
=============================================================================
