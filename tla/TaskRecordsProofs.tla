------------------------- MODULE TaskRecordsProofs -------------------------
(***************************************************************************)
(* Theorems about the records of the state store, for any tasks and        *)
(* channels.  IInv, the inductive invariant, says what an event that has   *)
(* been read but not yet recorded can still do to its record.              *)
(***************************************************************************)
EXTENDS TaskRecords, TLAPS

Present(t) == records[t].status # "absent"

\* Of the executions: nothing of an earlier process is left in this one, and
\* the queue keeps started tasks out of the channels of tracked ones.
ExecutionsFit ==
    /\ phase \in {"down", "recovering"} => \A t \in Tasks : exec[t] \in {"new", "past"}
    /\ \A t \in Tasks : exec[t] = "started" => ChannelFree(ChannelOf[t])

\* Of the events read: the start event is recorded before the next is read,
\* and the end event is recorded once.
PendingFit ==
    /\ \A p \in pending : exec[p[1]] \in {"started", "ended", "over"}
    /\ \A t \in Tasks : <<t, "start">> \in pending =>
            /\ ~Present(t)
            /\ \A k \in Final \cup Bufferable : <<t, k>> \notin pending
    /\ \A t \in Tasks : exec[t] \in {"started", "ended", "over"} =>
            (Present(t) \/ <<t, "start">> \in pending)
    /\ \A t \in Tasks : exec[t] = "started" => records[t].status \notin Final
    /\ \A t \in Tasks : exec[t] = "started" => \A k \in Final : <<t, k>> \notin pending
    /\ \A t \in Tasks, k \in Final : <<t, k>> \in pending =>
            /\ records[t].status \notin Final
            /\ \A j \in Final : <<t, j>> \in pending => j = k
    /\ \A t \in Tasks : exec[t] = "new" => ~Present(t)

\* Of the lists: recovery works through running records, and so does Stop,
\* though a callback may have overtaken it.
ListsFit ==
    /\ phase = "recovering" => todo \subseteq ListActive
    /\ \A t \in todo \cup asked : Present(t)

\* Of the channels: a record has its own or none, and in the JSON store what
\* is recorded stays; what recovery tracks has the channel of its record.
ChannelsFit ==
    /\ \A t \in Tasks : records[t].channel \in {NoChannel, ChannelOf[t]}
    /\ store = "json" => \A t \in Tasks : Complete(records[t])
    /\ store = "json" => \A r \in tracked : r.channel = ChannelOf[r.task]

IInv == /\ TypeOK
        /\ ExecutionsFit
        /\ PendingFit
        /\ ListsFit
        /\ ChannelsFit
        /\ RunningAccounted

-----------------------------------------------------------------------------
\* What Set does to the record it is given and to the others.
LEMMA SetFacts ==
    ASSUME TypeOK,
           NEW t \in Tasks, NEW channel \in Channels \cup {NoChannel},
           NEW prompt \in BOOLEAN, NEW status \in Statuses,
           Set(t, channel, prompt, status)
    PROVE  /\ records' \in [Tasks -> Records]
           /\ \A u \in Tasks : u # t => records'[u] = records[u]
           /\ records'[t].status = status
           /\ records'[t].channel \in {channel, records[t].channel}
           /\ (store = "json" /\ Complete(records[t])
                    /\ (Present(t) \/ (channel # NoChannel /\ prompt)))
                => Complete(records'[t])
<1> DEFINE rec == [channel |-> channel, prompt |-> prompt, status |-> status]
           new == IF store = "json" THEN Merged(records[t], rec) ELSE rec
<1>1. records' = [records EXCEPT ![t] = new]
  BY DEF Set
<1>2. records[t] \in Records /\ rec \in Records
  BY DEF TypeOK, Records
<1>3. /\ new \in Records /\ new.status = status
      /\ new.channel \in {channel, records[t].channel}
  <2>1. CASE store = "json"
    <3>1. new = [channel |-> IF channel = NoChannel THEN records[t].channel ELSE channel,
                 prompt |-> (prompt \/ records[t].prompt), status |-> status]
      BY <2>1 DEF Merged
    <3> QED  BY <3>1, <1>2 DEF Records
  <2>2. CASE store # "json"
    BY <2>2, <1>2
  <2> QED  BY <2>1, <2>2
<1>4. ASSUME store = "json", Complete(records[t]),
             Present(t) \/ (channel # NoChannel /\ prompt)
      PROVE  Complete(new)
  <2>1. /\ new.channel = IF channel = NoChannel THEN records[t].channel ELSE channel
        /\ new.prompt = (prompt \/ records[t].prompt)
    BY <1>4 DEF Merged
  <2> QED  BY <2>1, <1>4 DEF Complete, Present
<1> HIDE DEF new
<1>5. /\ records' \in [Tasks -> Records]
      /\ \A u \in Tasks : u # t => records'[u] = records[u]
      /\ records'[t] = new
  BY <1>1, <1>3 DEF TypeOK
<1> QED  BY <1>3, <1>4, <1>5

\* The same of the Set that a callback makes.
WrittenStatus(kind) == IF kind \in {"start", "progress"} THEN "running" ELSE kind

LEMMA WrittenFacts ==
    ASSUME TypeOK, RecordsAssumption,
           NEW t \in Tasks, NEW kind \in Immediate \cup Bufferable,
           records[t].channel \in {NoChannel, ChannelOf[t]},
           kind # "start" => Present(t),
           Written(t, kind)
    PROVE  /\ records' \in [Tasks -> Records]
           /\ \A u \in Tasks : u # t => records'[u] = records[u]
           /\ records'[t].status = WrittenStatus(kind)
           /\ records'[t].channel \in {NoChannel, ChannelOf[t]}
           /\ (store = "json" /\ Complete(records[t])) => Complete(records'[t])
<1> ChannelOf[t] \in Channels /\ ChannelOf[t] # NoChannel
  BY DEF RecordsAssumption
<1>1. CASE kind = "start"
  <2>1. Set(t, ChannelOf[t], TRUE, "running")
    BY <1>1 DEF Written
  <2> QED  BY <2>1, <1>1, SetFacts DEF Statuses, WrittenStatus
<1>2. CASE kind = "progress"
  <2>1. Set(t, NoChannel, FALSE, "running")
    BY <1>2 DEF Written, SetStatus
  <2> QED  BY <2>1, <1>2, SetFacts DEF Statuses, WrittenStatus
<1>3. CASE kind \in Final \cup {"paused"}
  <2>1. Set(t, ChannelOf[t], FALSE, kind)
    BY <1>3 DEF Written, Final
  <2>2. kind \in Statuses /\ WrittenStatus(kind) = kind /\ Present(t)
    BY <1>3 DEF Statuses, WrittenStatus, Final
  <2> QED  BY <2>1, <2>2, SetFacts
<1> QED  BY <1>1, <1>2, <1>3 DEF Immediate, Bufferable, Final

\* The same of a Set of the status alone.
LEMMA SetStatusFacts ==
    ASSUME TypeOK, NEW t \in Tasks, NEW status \in Statuses, SetStatus(t, status)
    PROVE  /\ records' \in [Tasks -> Records]
           /\ \A u \in Tasks : u # t => records'[u] = records[u]
           /\ records'[t].status = status
           /\ records'[t].channel \in {NoChannel, records[t].channel}
           /\ (store = "json" /\ Complete(records[t]) /\ Present(t))
                => Complete(records'[t])
BY SetFacts DEF SetStatus

-----------------------------------------------------------------------------
LEMMA InitEstablishes == ASSUME RecordsAssumption, Init  PROVE IInv
<1>1. TypeOK
  BY DEF Init, TypeOK, Absent, Records, Statuses, Executions
<1>2. ExecutionsFit /\ PendingFit /\ ListsFit /\ RunningAccounted
  BY DEF Init, ExecutionsFit, PendingFit, ListsFit, RunningAccounted, Present,
         Absent, Final
<1>3. ChannelsFit
  BY DEF Init, ChannelsFit, Absent, Complete
<1> QED  BY <1>1, <1>2, <1>3 DEF IInv

\* The steps of the stream.
LEMMA ReadStartPreserves ==
    ASSUME IInv, NEW t \in Tasks, ReadStart(t)  PROVE IInv'
<1> USE DEF IInv, ReadStart
<1>1. TypeOK'
  BY DEF TypeOK, Executions, Immediate, Bufferable
<1>2. ExecutionsFit'
  BY DEF ExecutionsFit, ChannelFree, TypeOK
<1>3. PendingFit'
  BY DEF PendingFit, Present, TypeOK, Final, Bufferable
<1>4. ListsFit' /\ ChannelsFit'
  BY DEF ListsFit, ListActive, Present, ChannelsFit, Complete
<1>5. RunningAccounted'
  BY DEF RunningAccounted, Accounted, ListActive, TypeOK
<1> QED  BY <1>1, <1>2, <1>3, <1>4, <1>5

LEMMA ReadEventPreserves ==
    ASSUME IInv, NEW t \in Tasks, NEW kind \in Final \cup Bufferable, ReadEvent(t, kind)
    PROVE  IInv'
<1> USE DEF IInv, ReadEvent
<1>1. TypeOK'
  BY DEF TypeOK, Executions, Immediate, Bufferable, Final
<1>2. ExecutionsFit'
  BY DEF ExecutionsFit, ChannelFree, TypeOK
<1>3. PendingFit'
  <2>1. /\ <<t, "start">> \notin pending /\ Present(t) /\ records[t].status \notin Final
        /\ \A k \in Final : <<t, k>> \notin pending
    BY DEF PendingFit, ReaderWaits, Immediate
  <2>2. \A u \in Tasks : /\ u # t => exec'[u] = exec[u]
                         /\ u = t => exec'[u] \in {"started", "ended"}
                         /\ exec'[u] = "started" /\ u = t => kind \notin Final
    BY DEF TypeOK
  <2>3. \A p \in pending' : exec'[p[1]] \in {"started", "ended", "over"}
    BY <2>2 DEF PendingFit, TypeOK
  <2>4. \A u \in Tasks : <<u, "start">> \in pending' =>
            /\ ~Present(u)'
            /\ \A k \in Final \cup Bufferable : <<u, k>> \notin pending'
    BY <2>1 DEF PendingFit, Present, Final, Bufferable
  <2>5. \A u \in Tasks : exec'[u] \in {"started", "ended", "over"} =>
            (Present(u)' \/ <<u, "start">> \in pending')
    BY <2>1, <2>2 DEF PendingFit, Present
  <2>6. \A u \in Tasks : exec'[u] = "started" =>
            /\ records'[u].status \notin Final
            /\ \A k \in Final : <<u, k>> \notin pending'
    BY <2>1, <2>2 DEF PendingFit
  <2>7. \A u \in Tasks, k \in Final : <<u, k>> \in pending' =>
            /\ records'[u].status \notin Final
            /\ \A j \in Final : <<u, j>> \in pending' => j = k
    BY <2>1 DEF PendingFit
  <2>8. \A u \in Tasks : exec'[u] = "new" => ~Present(u)'
    BY <2>2 DEF PendingFit, Present
  <2> QED  BY <2>3, <2>4, <2>5, <2>6, <2>7, <2>8 DEF PendingFit
<1>4. ListsFit' /\ ChannelsFit'
  BY DEF ListsFit, ListActive, Present, ChannelsFit, Complete
<1>5. RunningAccounted'
  BY DEF RunningAccounted, Accounted, ListActive, TypeOK
<1> QED  BY <1>1, <1>2, <1>3, <1>4, <1>5

LEMMA EndOfReadingPreserves ==
    ASSUME IInv, NEW t \in Tasks, ScanError(t) \/ Return(t)  PROVE IInv'
<1> USE DEF IInv, ScanError, Return
<1>1. TypeOK'
  BY DEF TypeOK, Executions
<1>2. ExecutionsFit'
  BY DEF ExecutionsFit, ChannelFree, TypeOK, Alive
<1>3. PendingFit'
  BY DEF PendingFit, Present, TypeOK
<1>4. ListsFit' /\ ChannelsFit'
  BY DEF ListsFit, ListActive, Present, ChannelsFit, Complete
<1>5. RunningAccounted'
  BY DEF RunningAccounted, Accounted, ListActive, TypeOK
<1> QED  BY <1>1, <1>2, <1>3, <1>4, <1>5

LEMMA PersistPreserves ==
    ASSUME RecordsAssumption, IInv,
           NEW t \in Tasks, NEW kind \in Immediate \cup Bufferable, Persist(t, kind)
    PROVE  IInv'
<1> USE DEF IInv, Persist
<1>1. /\ exec[t] \in {"started", "ended", "over"}
      /\ kind # "start" => Present(t)
  BY DEF PendingFit, Immediate, Bufferable, Final
<1>2. /\ records' \in [Tasks -> Records]
      /\ \A u \in Tasks : u # t => records'[u] = records[u]
      /\ records'[t].status = WrittenStatus(kind)
      /\ records'[t].channel \in {NoChannel, ChannelOf[t]}
      /\ (store = "json" /\ Complete(records[t])) => Complete(records'[t])
  BY <1>1, WrittenFacts DEF ChannelsFit
<1>3. records'[t].status # "absent" /\ (kind \notin Final => records'[t].status \notin Final)
  BY <1>2 DEF WrittenStatus, Immediate, Bufferable, Final
<1>4. TypeOK'
  BY <1>2 DEF TypeOK
<1>5. ExecutionsFit'
  BY DEF ExecutionsFit, ChannelFree
<1>6. PendingFit'
  BY <1>1, <1>2, <1>3 DEF PendingFit, Present, Final, Bufferable, Immediate
<1>7. ListsFit'
  BY <1>2, <1>3 DEF ListsFit, Present, Alive, TypeOK
<1>8. ChannelsFit'
  BY <1>2 DEF ChannelsFit, Complete
<1>9. RunningAccounted'
  BY <1>1, <1>2 DEF RunningAccounted, Accounted, ListActive, TypeOK
<1> QED  BY <1>4, <1>5, <1>6, <1>7, <1>8, <1>9

-----------------------------------------------------------------------------
\* The buttons, and Stop.
LEMMA ButtonPreserves ==
    ASSUME IInv, NEW t \in Tasks, StopTask(t) \/ Resume(t)  PROVE IInv'
<1> USE DEF IInv
<1>1. PICK status \in {"stopped", "resuming"} : SetStatus(t, status)
  BY DEF StopTask, Resume
<1>2. Present(t) /\ LoopFree /\ Alive /\ UNCHANGED <<store, asked, process>>
  BY DEF StopTask, Resume, ListsFit, ListActive, Present
<1> USE DEF process
<1>3. /\ records' \in [Tasks -> Records]
      /\ \A u \in Tasks : u # t => records'[u] = records[u]
      /\ records'[t].status = status
      /\ records'[t].channel \in {NoChannel, records[t].channel}
      /\ (store = "json" /\ Complete(records[t])) => Complete(records'[t])
  BY <1>1, <1>2, SetStatusFacts DEF Statuses
<1>4. status \notin Final \cup {"absent", "running"}
  BY DEF Final
<1>5. TypeOK'
  BY <1>2, <1>3 DEF TypeOK
<1>6. ExecutionsFit'
  BY <1>2 DEF ExecutionsFit, ChannelFree
<1>7. PendingFit'
  BY <1>2, <1>3, <1>4 DEF PendingFit, Present
<1>8. ListsFit'
  BY <1>2, <1>3, <1>4 DEF ListsFit, Present, Alive, TypeOK
<1>9. ChannelsFit'
  BY <1>2, <1>3 DEF ChannelsFit
<1>10. RunningAccounted'
  BY <1>2, <1>3, <1>4 DEF RunningAccounted, Accounted, ListActive
<1> QED  BY <1>5, <1>6, <1>7, <1>8, <1>9, <1>10

LEMMA MarkInterruptedPreserves ==
    ASSUME IInv, NEW t \in Tasks, MarkInterrupted(t)  PROVE IInv'
<1> USE DEF IInv, MarkInterrupted
<1>1. Present(t)
  BY DEF ListsFit
<1>2. /\ records' \in [Tasks -> Records]
      /\ \A u \in Tasks : u # t => records'[u] = records[u]
      /\ records'[t].status = "interrupted"
      /\ records'[t].channel \in {NoChannel, records[t].channel}
      /\ (store = "json" /\ Complete(records[t])) => Complete(records'[t])
  BY <1>1, SetStatusFacts DEF Statuses
<1>3. TypeOK'
  BY <1>2 DEF TypeOK
<1>4. ExecutionsFit'
  BY DEF ExecutionsFit, ChannelFree
<1>5. PendingFit'
  BY <1>1, <1>2 DEF PendingFit, Present, Final
<1>6. ListsFit' /\ RunningAccounted'
  BY <1>2 DEF ListsFit, Present, RunningAccounted, TypeOK
<1>7. ChannelsFit'
  BY <1>2 DEF ChannelsFit
<1> QED  BY <1>3, <1>4, <1>5, <1>6, <1>7

LEMMA StopPreserves == ASSUME IInv, Stop  PROVE IInv'
<1> USE DEF IInv, Stop
<1>1. TypeOK' /\ ListsFit' /\ ChannelsFit' /\ RunningAccounted'
  BY DEF TypeOK, ListsFit, ListActive, Present, ChannelsFit, Complete, RunningAccounted
<1>2. ExecutionsFit' /\ PendingFit'
  BY DEF ExecutionsFit, ChannelFree, PendingFit, Present
<1> QED  BY <1>1, <1>2

-----------------------------------------------------------------------------
\* The end of a process, and the start of the next.
LEMMA ExitPreserves == ASSUME IInv, Exit  PROVE IInv'
<1> USE DEF IInv, Exit
<1>1. TypeOK'
  BY DEF TypeOK, Executions
<1>2. ExecutionsFit' /\ PendingFit'
  BY DEF ExecutionsFit, PendingFit, Present, TypeOK
<1>3. ListsFit' /\ ChannelsFit' /\ RunningAccounted'
  BY DEF ListsFit, Present, ChannelsFit, Complete, RunningAccounted
<1> QED  BY <1>1, <1>2, <1>3

LEMMA RecoverActiveTasksPreserves == ASSUME IInv, RecoverActiveTasks  PROVE IInv'
<1> USE DEF IInv, RecoverActiveTasks
<1>1. TypeOK' /\ ListsFit' /\ ChannelsFit'
  BY DEF TypeOK, ListsFit, ListActive, Present, ChannelsFit, Complete
<1>2. ExecutionsFit' /\ PendingFit' /\ RunningAccounted'
  BY DEF ExecutionsFit, ChannelFree, PendingFit, Present, RunningAccounted,
         Accounted, ListActive
<1> QED  BY <1>1, <1>2

LEMMA RecoverSinglePreserves ==
    ASSUME RecordsAssumption, IInv,
           NEW t \in Tasks, NEW status \in {"running"} \cup Final, RecoverSingle(t, status)
    PROVE  IInv'
<1> USE DEF IInv, RecoverSingle
<1>1. records[t].status = "running" /\ records[t].channel \in Channels \cup {NoChannel}
  BY DEF ListsFit, ListActive, TypeOK, Records
<1>2. status \in Statuses /\ status # "absent"
  BY DEF Statuses, Final
<1>3. /\ records' \in [Tasks -> Records]
      /\ \A u \in Tasks : u # t => records'[u] = records[u]
      /\ records'[t].status = status
      /\ records'[t].channel = records[t].channel
      /\ (store = "json" /\ Complete(records[t])) => Complete(records'[t])
  BY <1>1, <1>2, SetFacts DEF Present
<1>4. TypeOK'
  BY <1>1, <1>3 DEF TypeOK
<1>5. ExecutionsFit'
  BY DEF ExecutionsFit
<1>6. PendingFit'
  BY <1>1, <1>2, <1>3 DEF PendingFit, Present, ExecutionsFit, TypeOK
<1>7. ListsFit'
  BY <1>2, <1>3 DEF ListsFit, Present, ListActive, TypeOK
<1>8. ChannelsFit'
  <2>1. store = "json" => records[t].channel = ChannelOf[t]
    BY <1>1 DEF ChannelsFit, Complete
  <2> QED  BY <1>3, <2>1 DEF ChannelsFit
<1>9. RunningAccounted'
  <2>1. \A u \in Tasks : u # t /\ u \in Accounted => u \in Accounted'
    BY DEF Accounted
  <2>2. status = "running" => t \in Accounted'
    <3> DEFINE r == [task |-> t, channel |-> records[t].channel]
    <3>1. status = "running" => r \in tracked'
      OBVIOUS
    <3>2. r.task = t
      OBVIOUS
    <3> HIDE DEF r
    <3>3. status = "running" => t \in {x.task : x \in tracked'}
      BY ONLY <3>1, <3>2
    <3> QED  BY <3>3 DEF Accounted
  <2>3. ListActive \subseteq Accounted
    BY DEF RunningAccounted
  <2> QED  BY <1>3, <2>1, <2>2, <2>3 DEF RunningAccounted, ListActive
<1> QED  BY <1>4, <1>5, <1>6, <1>7, <1>8, <1>9

LEMMA RecoverFailsPreserves ==
    ASSUME IInv, NEW t \in Tasks, RecoverFails(t)  PROVE IInv'
<1> USE DEF IInv, RecoverFails
<1>1. TypeOK' /\ ListsFit' /\ ChannelsFit'
  BY DEF TypeOK, ListsFit, ListActive, Present, ChannelsFit, Complete
<1>2. ExecutionsFit' /\ PendingFit' /\ RunningAccounted'
  BY DEF ExecutionsFit, ChannelFree, PendingFit, Present, RunningAccounted,
         Accounted, ListActive
<1> QED  BY <1>1, <1>2

LEMMA StartPreserves == ASSUME IInv, Start  PROVE IInv'
<1> USE DEF IInv, Start
<1>1. TypeOK' /\ ListsFit' /\ ChannelsFit'
  BY DEF TypeOK, ListsFit, ListActive, Present, ChannelsFit, Complete
<1>2. ExecutionsFit' /\ PendingFit' /\ RunningAccounted'
  BY DEF ExecutionsFit, ChannelFree, PendingFit, Present, RunningAccounted,
         Accounted, ListActive
<1> QED  BY <1>1, <1>2

-----------------------------------------------------------------------------
LEMMA StepPreserves == ASSUME RecordsAssumption, IInv, [Next]_vars  PROVE IInv'
<1>1. CASE UNCHANGED vars
  BY <1>1 DEF vars, process, IInv, TypeOK, ExecutionsFit, ChannelFree, PendingFit,
              Present, ListsFit, ListActive, ChannelsFit, Complete,
              RunningAccounted, Accounted
<1>2. CASE Next
  BY <1>2, ReadStartPreserves, ReadEventPreserves, EndOfReadingPreserves,
     PersistPreserves, ButtonPreserves, MarkInterruptedPreserves, StopPreserves,
     ExitPreserves, RecoverActiveTasksPreserves, RecoverSinglePreserves,
     RecoverFailsPreserves, StartPreserves DEF Next
<1> QED  BY <1>1, <1>2

LEMMA IInvHolds == Spec => []IInv
BY RecordsAssumption, InitEstablishes, StepPreserves, PTL DEF Spec

\* The variables keep their types for any tasks and channels.
THEOREM TypeCorrect == Spec => []TypeOK
BY IInvHolds, PTL DEF IInv

\* After any crashes, every record that says running is accounted for: it is
\* to be recovered, tracked, given up on, or of this process.
THEOREM RunningAccountedHolds == Spec => []RunningAccounted
BY IInvHolds, PTL DEF IInv

\* In the JSON store every record keeps its channel and its prompt.
THEOREM JsonCompleteHolds == Spec => []JsonComplete
<1>1. IInv => JsonComplete
  BY DEF IInv, ChannelsFit, JsonComplete
<1> QED  BY <1>1, IInvHolds, PTL

\* With the JSON store no mention is executed beside a recovered task of its
\* channel.
THEOREM JsonNotBypassedHolds == Spec => []JsonNotBypassed
<1>1. IInv => JsonNotBypassed
  BY DEF IInv, ChannelsFit, ExecutionsFit, ChannelFree, JsonNotBypassed, NotBypassed
<1> QED  BY <1>1, IInvHolds, PTL

\* A recorded end is taken back only as EndsStay says.
EndKept(t) == (records[t].status \in Final /\ records'[t] # records[t])
                => TakenBackBy(t, records'[t].status)

LEMMA StepKeepsEnds ==
    ASSUME RecordsAssumption, IInv, [Next]_vars, NEW t \in Tasks  PROVE EndKept(t)
<1> USE DEF IInv
<1>1. CASE UNCHANGED records
  BY <1>1 DEF EndKept
<1>2. ASSUME NEW u \in Tasks, NEW kind \in Immediate \cup Bufferable, Persist(u, kind)
      PROVE  EndKept(t)
  <2>1. kind # "start" => Present(u)
    BY <1>2 DEF Persist, PendingFit, Immediate, Bufferable, Final
  <2>2. /\ u # t => records'[t] = records[t]
        /\ u = t => records'[t].status = WrittenStatus(kind)
    BY <1>2, <2>1, WrittenFacts DEF Persist, ChannelsFit
  <2>3. u = t /\ records[t].status \in Final => kind \in Bufferable
    BY <1>2 DEF Persist, PendingFit, Present, Immediate, Bufferable, Final
  <2> QED  BY <1>2, <2>2, <2>3 DEF EndKept, TakenBackBy, Persist, WrittenStatus, Bufferable
<1>3. ASSUME NEW u \in Tasks, StopTask(u) \/ Resume(u)  PROVE EndKept(t)
  <2>1. CASE StopTask(u)
    BY <2>1, SetStatusFacts DEF StopTask, Statuses, ListActive, EndKept, Final
  <2>2. CASE Resume(u)
    BY <2>2, SetStatusFacts DEF Resume, Statuses, EndKept, TakenBackBy
  <2> QED  BY <1>3, <2>1, <2>2
<1>4. ASSUME NEW u \in Tasks, MarkInterrupted(u)  PROVE EndKept(t)
  BY <1>4, SetStatusFacts DEF MarkInterrupted, Statuses, EndKept, TakenBackBy
<1>5. ASSUME NEW u \in Tasks, NEW status \in {"running"} \cup Final, RecoverSingle(u, status)
      PROVE  EndKept(t)
  <2>1. records[u].status = "running" /\ records[u].channel \in Channels \cup {NoChannel}
    BY <1>5 DEF RecoverSingle, ListsFit, ListActive, TypeOK, Records
  <2>2. u # t => records'[t] = records[t]
    BY <1>5, <2>1, SetFacts DEF RecoverSingle, Statuses
  <2> QED  BY <2>1, <2>2 DEF EndKept, Final
<1>6. CASE UNCHANGED vars
  BY <1>6, <1>1 DEF vars
<1>7. CASE Next
  BY <1>7, <1>1, <1>2, <1>3, <1>4, <1>5
     DEF Next, ReadStart, ReadEvent, ScanError, Return, Stop, Exit, RecoverActiveTasks,
         RecoverFails, Start
<1> QED  BY <1>6, <1>7

THEOREM EndsStayHolds == Spec => EndsStay
<1>1. RecordsAssumption /\ IInv /\ [Next]_vars =>
          [\A t \in Tasks : (records[t].status \in Final /\ records'[t] # records[t])
                                => TakenBackBy(t, records'[t].status)]_vars
  BY StepKeepsEnds DEF EndKept
<1> QED  BY <1>1, RecordsAssumption, IInvHolds, PTL DEF Spec, EndsStay
=============================================================================
