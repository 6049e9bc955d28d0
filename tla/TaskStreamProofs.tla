-------------------------- MODULE TaskStreamProofs --------------------------
(***************************************************************************)
(* Theorems about TaskStream: types, that no event is delivered twice,     *)
(* that a buffered event is watched, and that the throttler is silent when *)
(* Execute has returned.                                                   *)
(*                                                                         *)
(* At any time an event is in one place only: in the buffer, in the hands  *)
(* of one callback that has yet to show it, or on the card.  Placement     *)
(* says so, and that the numbers given out so far bound all of them, so    *)
(* that the next event is in none.                                         *)
(***************************************************************************)
EXTENDS TaskStream, SequenceTheorems, TLAPS

\* Callbacks that have yet to show their event.
Unshown == {c \in callbacks : c.step # "persist"}

\* Room for the events that are still to be made up.
Room == /\ Len(output) <= MaxEvents
        /\ worker = "cline" => reader # "reading"
        /\ reader = "report" => worker = "cline"
        /\ reader = "announce" => output = <<>>
        /\ worker = "cline" /\ reader \in {"waiting", "flush", "report"} => Len(output) < MaxEvents

Numbers == /\ buffer # NoEvent => buffer.n \in 1 .. Len(output)
           /\ \A c \in callbacks : c.event.n \in 0 .. Len(output)
           /\ \A i \in DOMAIN delivered : delivered[i] \in 1 .. Len(output)

Placement == /\ \A c, d \in Unshown : c.event.n = d.event.n => c = d \/ c.event.n = 0
             /\ \A c \in Unshown : buffer # NoEvent => c.event.n # buffer.n
             /\ \A c \in Unshown, i \in DOMAIN delivered : c.event.n # delivered[i]
             /\ \A i \in DOMAIN delivered : buffer # NoEvent => buffer.n # delivered[i]

\* Stop has emptied the buffer, and nothing is buffered after it.
Silent == Stopped => buffer = NoEvent

Held == Numbers /\ Placement /\ ShownOnce

IInv == TypeOK /\ Room /\ Held /\ BufferIsWatched /\ Silent

-----------------------------------------------------------------------------
\* What the steps are built from, and what each does to the one place of an
\* event.

\* The next event goes to the buffer or to a callback; its number is new.
LEMMA PushKeeps ==
    ASSUME IInv, NEW kind \in Immediate \cup Bufferable, NEW by \in {"reader", "adapter"},
           Push(kind, by), Len(output) < MaxEvents, UNCHANGED delivered
    PROVE  /\ output' \in Seq(Immediate \cup Bufferable)
           /\ Len(output') = Len(output) + 1
           /\ buffer' \in Events \cup {NoEvent}
           /\ timer' \in {"nil", "armed", "expired"}
           /\ UNCHANGED <<orphans, flushes>>
           /\ callbacks' \subseteq Callbacks
           /\ Held'
           /\ BufferIsWatched'
           /\ Stopped => buffer' = buffer
<1> DEFINE e == [n |-> Len(output) + 1, kind |-> kind]
<1> USE StreamAssumption DEF IInv, TypeOK
<1>1. /\ output' \in Seq(Immediate \cup Bufferable)
      /\ Len(output') = Len(output) + 1
    BY AppendProperties DEF Push
<1>2. e \in Events /\ e.n = Len(output) + 1 /\ e.n \in Nat /\ Len(output) \in Nat
    BY DEF Events
<1>3. CASE kind \in Immediate
  <2>1. /\ callbacks' = callbacks \cup {Callback(e, by)}
        /\ UNCHANGED throttler
      BY <1>3 DEF Push, PushNow
  <2>2. Callback(e, by) \in Callbacks /\ Callback(e, by).event.n = Len(output) + 1
      BY <1>2 DEF Callback, Callbacks
  <2>3. Numbers'
      BY <1>1, <1>2, <2>1, <2>2 DEF Held, Numbers, throttler, Events, Callbacks
  <2>4. Unshown' \subseteq Unshown \cup {Callback(e, by)}
      BY <2>1 DEF Unshown
  <2>5. Placement'
      BY <1>2, <2>1, <2>2, <2>4 DEF Held, Numbers, Placement, throttler, Unshown
  <2> QED
      BY <1>1, <2>1, <2>2, <2>3, <2>5 DEF Held, ShownOnce, BufferIsWatched, throttler
<1>4. CASE kind \notin Immediate
  <2>1. /\ \/ ~Stopped /\ buffer' = e /\ timer' = "armed"
           \/ Stopped /\ buffer' = buffer /\ timer' = timer
        /\ UNCHANGED <<orphans, flushes, callbacks>>
      BY <1>4 DEF Push, PushBuffered
  <2>2. Numbers'
      BY <1>1, <1>2, <2>1 DEF Held, Numbers, Callbacks, Events
  <2>3. Placement'
      BY <1>2, <2>1 DEF Held, Numbers, Placement, Unshown, Callbacks, Events
  <2> QED
      BY <1>1, <1>2, <2>1, <2>2, <2>3 DEF Held, ShownOnce, BufferIsWatched
<1> QED
    BY <1>3, <1>4

\* Timer, Flush and Stop move the buffered event into a callback's hands.
LEMMA TakenKeeps ==
    ASSUME IInv, NEW by \in {"reader", "timer"},
           callbacks' = callbacks \cup Taken(by), buffer' = NoEvent,
           UNCHANGED <<output, delivered>>
    PROVE  callbacks' \subseteq Callbacks /\ Held' /\ BufferIsWatched'
<1> USE StreamAssumption DEF IInv, TypeOK
<1>1. CASE buffer = NoEvent
    BY <1>1 DEF Taken, Held, Numbers, Placement, Unshown, ShownOnce, BufferIsWatched
<1>2. CASE buffer # NoEvent
  <2>1. /\ callbacks' = callbacks \cup {Callback(buffer, by)}
        /\ Callback(buffer, by) \in Callbacks
        /\ Callback(buffer, by).event = buffer
      BY <1>2 DEF Taken, Callback, Callbacks
  <2>2. Numbers'
      BY <1>2, <2>1 DEF Held, Numbers
  <2>3. Unshown' \subseteq Unshown \cup {Callback(buffer, by)}
      BY <2>1 DEF Unshown
  <2>4. Placement'
      BY <1>2, <2>1, <2>3 DEF Held, Placement
  <2> QED
      BY <2>1, <2>2, <2>4 DEF Held, ShownOnce, BufferIsWatched
<1> QED
    BY <1>1, <1>2

\* An error that is only reported has no number to be confused with.
LEMMA ReportKeeps ==
    ASSUME IInv, callbacks' \in {callbacks, callbacks \cup {Callback(Report, "reader")}},
           UNCHANGED <<output, delivered, throttler>>
    PROVE  callbacks' \subseteq Callbacks /\ Held' /\ BufferIsWatched'
<1> USE StreamAssumption DEF IInv, TypeOK
<1>1. Callback(Report, "reader") \in Callbacks /\ Callback(Report, "reader").event.n = 0
    BY DEF Callback, Callbacks, Report, Events, Immediate
<1>2. Numbers'
    BY <1>1 DEF Held, Numbers, throttler
<1>3. Unshown' \subseteq Unshown \cup {Callback(Report, "reader")}
    BY DEF Unshown
<1>4. \A c \in Unshown' : c \in Unshown \/ c.event.n = 0
    BY <1>1, <1>3
<1>5. /\ buffer # NoEvent => buffer.n # 0
      /\ \A i \in DOMAIN delivered : delivered[i] # 0
    BY DEF Held, Numbers
<1>6. Placement'
    BY <1>4, <1>5 DEF Held, Placement, throttler
<1> QED
    BY <1>1, <1>2, <1>6 DEF Held, ShownOnce, BufferIsWatched, throttler

\* A callback that goes on to its next step, or ends, with nothing delivered.
LEMMA StepKeeps ==
    ASSUME IInv, NEW c \in callbacks, NEW s \in {"show", "post", "persist"},
           c.step = "persist" => s = "persist", HasCard(c.event),
           callbacks' \in {callbacks \ {c}, (callbacks \ {c}) \cup {[c EXCEPT !.step = s]}},
           UNCHANGED <<output, delivered, throttler>>
    PROVE  callbacks' \subseteq Callbacks /\ Held' /\ BufferIsWatched'
<1> USE StreamAssumption DEF IInv, TypeOK
<1> DEFINE d == [c EXCEPT !.step = s]
<1>1. d \in Callbacks /\ d.event = c.event /\ d.step = s
    BY DEF Callbacks, HasCard
<1>2. Numbers'
    BY <1>1 DEF Held, Numbers, throttler
<1>3. \A x \in Unshown' : (x \in Unshown /\ x # c) \/ (x = d /\ c \in Unshown)
    BY <1>1 DEF Unshown
<1>4. Placement'
    BY <1>1, <1>3 DEF Held, Placement, throttler
<1> QED
    BY <1>1, <1>2, <1>4 DEF Held, ShownOnce, BufferIsWatched, throttler

\* A callback delivers its event.
LEMMA DisplayedKeeps ==
    ASSUME IInv, NEW c \in callbacks, c.step # "persist", Displayed(c)
    PROVE  /\ callbacks' \subseteq Callbacks
           /\ delivered' \in Seq(1 .. MaxEvents)
           /\ card' \in {"none", "start", "progress", "paused", "done", "error"}
           /\ Held' /\ BufferIsWatched'
<1> USE StreamAssumption DEF IInv, TypeOK
<1> DEFINE d == [c EXCEPT !.step = "persist"]
<1>1. /\ c \in Callbacks /\ c \in Unshown
      /\ c.event \in Events /\ c.event.n \in 0 .. MaxEvents
      /\ d.event = c.event /\ d.step = "persist"
      /\ Recorded(c.event) => d \in Callbacks
    BY DEF Callbacks, Unshown, Events, Recorded
<1>2. /\ callbacks' \subseteq (callbacks \ {c}) \cup {d}
      /\ UNCHANGED <<output, throttler>>
      /\ card' \in {card, c.event.kind} /\ card' # "other"
    BY DEF Displayed, HasCard
<1>3. Unshown' \subseteq Unshown \ {c}
    BY <1>1, <1>2 DEF Unshown
<1>4. callbacks' \subseteq Callbacks /\ BufferIsWatched'
  <2>1. callbacks' \subseteq Callbacks
      BY <1>1 DEF Displayed
  <2> QED
      BY <1>2, <2>1 DEF BufferIsWatched, throttler
<1>5. card' \in {"none", "start", "progress", "paused", "done", "error"}
    BY <1>1, <1>2 DEF Events, Immediate, Bufferable
<1>6. \A x \in callbacks' : x.event.n \in 0 .. Len(output)
    BY <1>1, <1>2 DEF Held, Numbers
<1>7. CASE c.event.n = 0
  <2>1. delivered' = delivered
      BY <1>7 DEF Displayed
  <2>2. Numbers'
      BY <1>2, <1>6, <2>1 DEF Held, Numbers, throttler
  <2>3. Placement'
      BY <1>2, <1>3, <2>1 DEF Held, Placement, throttler
  <2> QED
      BY <1>2, <1>4, <1>5, <2>1, <2>2, <2>3 DEF Held, ShownOnce
<1>8. CASE c.event.n # 0
  <2>1. /\ delivered' = Append(delivered, c.event.n)
        /\ c.event.n \in 1 .. MaxEvents
      BY <1>1, <1>8 DEF Displayed
  <2>2. /\ delivered' \in Seq(1 .. MaxEvents)
        /\ Len(delivered') = Len(delivered) + 1
        /\ \A i \in 1 .. Len(delivered) : delivered'[i] = delivered[i]
        /\ delivered'[Len(delivered) + 1] = c.event.n
      BY <2>1, AppendProperties
  <2>3. /\ Len(delivered) \in Nat
        /\ DOMAIN delivered = 1 .. Len(delivered)
        /\ DOMAIN delivered' = 1 .. (Len(delivered) + 1)
      BY <2>2
  <2>4. \A i \in DOMAIN delivered' :
            (i \in DOMAIN delivered /\ delivered'[i] = delivered[i]) \/ (i = Len(delivered) + 1 /\ delivered'[i] = c.event.n)
      BY <2>2, <2>3
  <2>5. c.event.n \in 1 .. Len(output)
      BY <1>1, <1>8 DEF Held, Numbers
  <2>6. Numbers'
      BY <1>2, <1>6, <2>4, <2>5 DEF Held, Numbers, throttler
  <2>7. \A x \in Unshown' : x.event.n # c.event.n
      BY <1>1, <1>3, <1>8 DEF Held, Placement
  <2>8. /\ buffer # NoEvent => c.event.n # buffer.n
        /\ \A i \in DOMAIN delivered : delivered[i] # c.event.n
      BY <1>1 DEF Held, Placement
  <2>9. Placement'
    <3>1. \A x, y \in Unshown' : x.event.n = y.event.n => x = y \/ x.event.n = 0
        BY <1>3 DEF Held, Placement
    <3>2. \A x \in Unshown' : buffer' # NoEvent => x.event.n # buffer'.n
        BY <1>2, <1>3 DEF Held, Placement, throttler
    <3>3. \A x \in Unshown', i \in DOMAIN delivered' : x.event.n # delivered'[i]
        BY <1>3, <2>4, <2>7 DEF Held, Placement
    <3>4. \A i \in DOMAIN delivered' : buffer' # NoEvent => buffer'.n # delivered'[i]
        BY <1>2, <2>4, <2>8 DEF Held, Placement, throttler
    <3> QED
        BY <3>1, <3>2, <3>3, <3>4 DEF Placement
  <2>10. ShownOnce'
      BY <2>3, <2>4, <2>8 DEF Held, ShownOnce, IsInjective
  <2> QED
      BY <1>2, <1>4, <1>5, <2>2, <2>6, <2>9, <2>10 DEF Held
<1> QED
    BY <1>7, <1>8

-----------------------------------------------------------------------------
LEMMA InitIInv ==
    ASSUME Init PROVE IInv
<1> USE StreamAssumption DEF Init
<1>1. TypeOK
  <2>1. /\ \A S : <<>> \in Seq(S)
        /\ orphans \in Nat /\ flushes \in Nat /\ messages \in Nat
        /\ worker \in Workers /\ persisted \in BOOLEAN
      BY EmptySeq
  <2>2. buffer \in Events \cup {NoEvent} /\ callbacks \subseteq Callbacks
      OBVIOUS
  <2>3. reader \in Readers
      BY DEF Readers
  <2> QED
      BY <2>1, <2>2, <2>3 DEF TypeOK
<1>2. /\ output = <<>> /\ Len(output) = 0 /\ buffer = NoEvent
      /\ callbacks = {} /\ DOMAIN delivered = {}
      /\ reader \in {"reading", "announce"}
      /\ worker = "cline" => reader = "announce"
    BY DEF Workers
<1>3. Room /\ Silent /\ BufferIsWatched
    BY <1>2 DEF Room, Silent, Stopped, BufferIsWatched
<1>4. Held
    BY <1>2 DEF Held, Numbers, Placement, Unshown, ShownOnce, IsInjective
<1> QED
    BY <1>1, <1>3, <1>4 DEF IInv

\* Every step keeps the types, the room and the places.
LEMMA NextIInv ==
    ASSUME IInv, Next PROVE IInv'
<1> USE StreamAssumption
<1> USE DEF Immediate, Bufferable, Workers, Readers, outside, history
<1>a. /\ TypeOK /\ Room /\ Held /\ BufferIsWatched /\ Silent
      /\ Len(output) \in Nat
      /\ reader = "announce" => buffer = NoEvent
  <2>1. Len(output) \in Nat
      BY DEF IInv, TypeOK
  <2>2. reader = "announce" => Len(output) = 0
      BY DEF IInv, Room
  <2> QED
      BY <2>1, <2>2 DEF IInv, Held, Numbers
<1>1. CASE Announce
  <2>1. /\ Push("start", "reader") /\ At("announce")
        /\ reader' = IF worker = "cline" THEN "waiting" ELSE "reading"
        /\ UNCHANGED <<worker, outside, history>>
      BY <1>1 DEF Announce
  <2>2. Len(output) = 0 /\ Len(output) < MaxEvents /\ UNCHANGED delivered
      BY <1>a, <2>1 DEF At, Room
  <2>3. /\ output' \in Seq(Immediate \cup Bufferable)
        /\ Len(output') = Len(output) + 1
        /\ buffer' \in Events \cup {NoEvent}
        /\ timer' \in {"nil", "armed", "expired"}
        /\ UNCHANGED <<orphans, flushes>>
        /\ callbacks' \subseteq Callbacks
        /\ Held' /\ BufferIsWatched'
      BY <2>1, <2>2, PushKeeps
  <2>4. TypeOK' /\ Silent'
      BY <1>a, <2>1, <2>3 DEF TypeOK, Silent, Stopped
  <2>5. Room'
      BY <1>a, <2>1, <2>2, <2>3 DEF Room, TypeOK
  <2> QED
      BY <2>3, <2>4, <2>5 DEF IInv
<1>2. ASSUME NEW kind \in Immediate \cup Bufferable, ReadLine(kind) PROVE IInv'
  <2>1. /\ Push(kind, "reader") /\ At("reading") /\ Len(output) < MaxEvents
        /\ UNCHANGED <<worker, reader, outside, history>>
      BY <1>2 DEF ReadLine, NextLine
  <2>2. UNCHANGED delivered
      BY <2>1
  <2>3. /\ output' \in Seq(Immediate \cup Bufferable)
        /\ Len(output') = Len(output) + 1
        /\ buffer' \in Events \cup {NoEvent}
        /\ timer' \in {"nil", "armed", "expired"}
        /\ UNCHANGED <<orphans, flushes>>
        /\ callbacks' \subseteq Callbacks
        /\ Held' /\ BufferIsWatched'
      BY <2>1, <2>2, PushKeeps
  <2>4. TypeOK' /\ Silent'
      BY <1>a, <2>1, <2>3 DEF TypeOK, Silent, Stopped, At
  <2>5. Room'
      BY <1>a, <2>1, <2>3 DEF Room, At
  <2> QED
      BY <2>3, <2>4, <2>5 DEF IInv
<1>3. ASSUME NEW mentions \in Mentions, AdapterLine(mentions) PROVE IInv'
  <2> DEFINE kind == ParseLine(mentions)
  <2>1. /\ Push(kind, "adapter") /\ output # <<>> /\ Len(output) < MaxEvents - 1
        /\ kind \in Immediate \cup Bufferable
        /\ UNCHANGED <<worker, reader, outside, history>>
      BY <1>3 DEF AdapterLine, ParseLine
  <2>2. UNCHANGED delivered /\ Len(output) < MaxEvents
      BY <1>a, <2>1
  <2> HIDE DEF kind
  <2>3. /\ output' \in Seq(Immediate \cup Bufferable)
        /\ Len(output') = Len(output) + 1
        /\ buffer' \in Events \cup {NoEvent}
        /\ timer' \in {"nil", "armed", "expired"}
        /\ UNCHANGED <<orphans, flushes>>
        /\ callbacks' \subseteq Callbacks
        /\ Held' /\ BufferIsWatched'
        /\ Stopped => buffer' = buffer
      BY <2>1, <2>2, PushKeeps
  <2>4. TypeOK' /\ Silent'
      BY <1>a, <2>1, <2>3 DEF TypeOK, Silent, Stopped
  <2>5. Room'
      BY <1>a, <2>1, <2>3 DEF Room
  <2> QED
      BY <2>3, <2>4, <2>5 DEF IInv
<1>4. CASE ClineStartFails \/ OutputEnds \/ ScannerFails \/ ReportError
           \/ \E ok \in BOOLEAN : ProcessExits(ok)
  <2>1. /\ callbacks' \in {callbacks, callbacks \cup {Callback(Report, "reader")}}
        /\ UNCHANGED <<worker, output, throttler, outside, history>>
      BY <1>4 DEF ClineStartFails, OutputEnds, ScannerFails, ReportError, ProcessExits
  <2>2. /\ reader' \in Readers
        /\ reader' \in {"failed", "returned"} => reader \in {"failed", "announce"}
        /\ reader' \notin {"announce", "reading", "report"}
        /\ reader' \in {"waiting", "flush"} => reader \in {"reading", "waiting"}
      BY <1>4 DEF ClineStartFails, OutputEnds, ScannerFails, ReportError, ProcessExits, At
  <2>3. callbacks' \subseteq Callbacks /\ Held' /\ BufferIsWatched'
      BY <2>1, ReportKeeps
  <2>4. TypeOK'
      BY <1>a, <2>1, <2>2, <2>3 DEF TypeOK, throttler
  <2>5. Silent'
      BY <1>a, <2>1, <2>2 DEF Silent, Stopped, throttler
  <2>6. Room'
      BY <1>a, <2>1, <2>2 DEF Room
  <2> QED
      BY <2>3, <2>4, <2>5, <2>6 DEF IInv
<1>4a. CASE Interrupted
    \* The line that is lost has a number, and that is all.
  <2>1. /\ reader = "reading" /\ reader' = "stopFailed" /\ cutoff' = Len(output)
        /\ UNCHANGED <<worker, throttler, callbacks, outside, delivered>>
      BY <1>4a DEF Interrupted, At
  <2>2. /\ output' \in Seq(Immediate \cup Bufferable)
        /\ Len(output') \in Len(output) .. MaxEvents
    <3>1. CASE output' = output
        BY <1>a, <3>1 DEF TypeOK, Room
    <3>2. ASSUME NEW kind \in Immediate \cup Bufferable, Len(output) < MaxEvents,
                 output' = Append(output, kind)
          PROVE  output' \in Seq(Immediate \cup Bufferable) /\ Len(output') = Len(output) + 1
        BY <1>a, <3>2, AppendProperties DEF TypeOK
    <3> QED
        BY <1>a, <1>4a, <3>1, <3>2 DEF Interrupted, NextLine
  <2>3. TypeOK'
      BY <1>a, <2>1, <2>2 DEF TypeOK, throttler, Room
  <2>4. Room' /\ Silent' /\ BufferIsWatched'
      BY <1>a, <2>1, <2>2 DEF Room, Silent, Stopped, BufferIsWatched, throttler
  <2>5. Held'
      BY <1>a, <2>1, <2>2 DEF Held, Numbers, Placement, Unshown, ShownOnce, throttler
  <2> QED
      BY <2>3, <2>4, <2>5 DEF IInv
<1>5. CASE Flush \/ Stop
  <2>1. /\ Empty
        /\ UNCHANGED <<worker, output, outside, delivered>>
        /\ cutoff' \in {cutoff, Len(output)}
      BY <1>5 DEF Flush, Stop, Stopping
  <2>2. /\ reader' \in {"report", "stop", "returned", "failed"}
        /\ reader' = "report" => reader = "flush" /\ worker = "cline"
      BY <1>5 DEF Flush, Stop, Stopping, At
  <2>3. callbacks' \subseteq Callbacks /\ Held' /\ BufferIsWatched'
      BY <2>1, TakenKeeps DEF Empty
  <2>4. TypeOK' /\ Silent'
      BY <1>a, <2>1, <2>2, <2>3 DEF TypeOK, Silent, Empty, Room
  <2>5. Room'
      BY <1>a, <2>1, <2>2 DEF Room
  <2> QED
      BY <2>3, <2>4, <2>5 DEF IInv
<1>6. CASE ReportDone
  <2>1. /\ Push("done", "reader") /\ At("report") /\ reader' = "stop"
        /\ UNCHANGED <<worker, outside, history>>
      BY <1>6 DEF ReportDone
  <2>2. Len(output) < MaxEvents /\ UNCHANGED delivered
      BY <1>a, <2>1 DEF Room, At
  <2>3. /\ output' \in Seq(Immediate \cup Bufferable)
        /\ Len(output') = Len(output) + 1
        /\ buffer' \in Events \cup {NoEvent}
        /\ timer' \in {"nil", "armed", "expired"}
        /\ UNCHANGED <<orphans, flushes>>
        /\ callbacks' \subseteq Callbacks
        /\ Held' /\ BufferIsWatched'
      BY <2>1, <2>2, PushKeeps
  <2>4. TypeOK' /\ Silent'
      BY <1>a, <2>1, <2>3 DEF TypeOK, Silent, Stopped
  <2>5. Room'
      BY <1>a, <2>1, <2>2, <2>3 DEF Room
  <2> QED
      BY <2>3, <2>4, <2>5 DEF IInv
<1>7. CASE TimerExpires \/ OrphanExpires
  <2>1. /\ UNCHANGED <<worker, output, reader, buffer, callbacks, outside, history>>
        /\ flushes' = flushes + 1
        /\ timer' \in {timer, "expired"} /\ orphans' \in {orphans, orphans - 1}
        /\ orphans' = orphans - 1 => orphans > 0
      BY <1>a, <1>7 DEF TimerExpires, OrphanExpires, TypeOK
  <2>2. TypeOK' /\ BufferIsWatched'
      BY <1>a, <2>1 DEF TypeOK, BufferIsWatched
  <2>3. Room' /\ Silent'
      BY <1>a, <2>1 DEF Room, Silent, Stopped
  <2>4. Held'
      BY <1>a, <2>1 DEF Held, Numbers, Placement, Unshown, ShownOnce
  <2> QED
      BY <2>2, <2>3, <2>4 DEF IInv
<1>8. CASE TimerFlush
  <2>1. callbacks' \subseteq Callbacks /\ Held' /\ BufferIsWatched'
      BY <1>8, TakenKeeps DEF TimerFlush
  <2>2. TypeOK'
      BY <1>a, <1>8, <2>1 DEF TypeOK, TimerFlush
  <2>3. Room' /\ Silent'
      BY <1>a, <1>8 DEF Room, Silent, Stopped, TimerFlush
  <2> QED
      BY <2>1, <2>2, <2>3 DEF IInv
<1>9. ASSUME NEW c \in callbacks, Show(c) PROVE IInv'
  <2>1. CASE Posts(c.event)
    <3>1. /\ callbacks' = (callbacks \ {c}) \cup {[c EXCEPT !.step = "post"]}
          /\ c.step = "show"
          /\ UNCHANGED <<worker, output, reader, throttler, outside, history>>
        BY <1>9, <2>1 DEF Show
    <3>2. callbacks' \subseteq Callbacks /\ Held' /\ BufferIsWatched'
        BY <2>1, <3>1, StepKeeps DEF Posts
    <3>3. TypeOK'
        BY <1>a, <3>1, <3>2 DEF TypeOK, throttler
    <3>4. Room' /\ Silent'
        BY <1>a, <3>1 DEF Room, Silent, Stopped, throttler
    <3> QED
        BY <3>2, <3>3, <3>4 DEF IInv
  <2>2. CASE ~Posts(c.event)
    <3>1. Displayed(c) /\ c.step = "show" /\ UNCHANGED messages
        BY <1>9, <2>2 DEF Show
    <3>2. /\ callbacks' \subseteq Callbacks /\ delivered' \in Seq(1 .. MaxEvents)
          /\ card' \in {"none", "start", "progress", "paused", "done", "error"}
          /\ Held' /\ BufferIsWatched'
        BY <3>1, DisplayedKeeps
    <3>3. UNCHANGED <<worker, output, reader, throttler, persisted, record, cutoff>>
        BY <3>1 DEF Displayed
    <3>4. TypeOK'
        BY <1>a, <3>1, <3>2, <3>3 DEF TypeOK, throttler
    <3>5. Room' /\ Silent'
        BY <1>a, <3>3 DEF Room, Silent, Stopped, throttler
    <3> QED
        BY <3>2, <3>4, <3>5 DEF IInv
  <2> QED
      BY <2>1, <2>2
<1>10. ASSUME NEW c \in callbacks, Post(c) PROVE IInv'
  <2>1. Displayed(c) /\ c.step = "post" /\ messages' = messages + 1
      BY <1>10 DEF Post
  <2>2. /\ callbacks' \subseteq Callbacks /\ delivered' \in Seq(1 .. MaxEvents)
        /\ card' \in {"none", "start", "progress", "paused", "done", "error"}
        /\ Held' /\ BufferIsWatched'
      BY <2>1, DisplayedKeeps
  <2>3. UNCHANGED <<worker, output, reader, throttler, persisted, record, cutoff>>
      BY <2>1 DEF Displayed
  <2>4. TypeOK'
      BY <1>a, <2>1, <2>2, <2>3 DEF TypeOK, throttler
  <2>5. Room' /\ Silent'
      BY <1>a, <2>3 DEF Room, Silent, Stopped, throttler
  <2> QED
      BY <2>2, <2>4, <2>5 DEF IInv
<1>11. ASSUME NEW c \in callbacks, Persist(c) PROVE IInv'
  <2>1. /\ callbacks' = callbacks \ {c} /\ c.step = "persist"
        /\ UNCHANGED <<worker, output, reader, throttler, card, messages, history>>
      BY <1>11 DEF Persist
  <2>2. HasCard(c.event)
      BY <1>a, <2>1 DEF TypeOK, Callbacks
  <2>3. c.event.kind \in {"start", "progress", "paused", "done", "error"}
      BY <1>a, <2>2 DEF TypeOK, Callbacks, Events, HasCard
  <2>3a. callbacks' \subseteq Callbacks /\ Held' /\ BufferIsWatched'
      BY <2>1, <2>2, StepKeeps
  <2>4. persisted' \in BOOLEAN /\ record' \in {"absent", "running", "paused", "done", "error"}
      BY <1>a, <1>11, <2>3 DEF Persist, StatusOf, TypeOK
  <2>5. TypeOK'
      BY <1>a, <2>1, <2>3a, <2>4 DEF TypeOK, throttler
  <2>6. Room' /\ Silent'
      BY <1>a, <2>1 DEF Room, Silent, Stopped, throttler
  <2> QED
      BY <2>3a, <2>5, <2>6 DEF IInv
<1> QED
    BY <1>1, <1>2, <1>3, <1>4, <1>4a, <1>5, <1>6, <1>7, <1>8, <1>9, <1>10, <1>11 DEF Next

LEMMA StepIInv == ASSUME IInv, [Next]_vars PROVE IInv'
<1>1. CASE UNCHANGED vars
    BY <1>1 DEF vars, throttler, outside, history, IInv, TypeOK, Room, Held, Numbers, Placement, Unshown,
             ShownOnce, IsInjective, BufferIsWatched, Silent, Stopped
<1> QED
    BY <1>1, NextIInv

LEMMA IInvHolds == Spec => []IInv
<1>1. Init => IInv
    BY InitIInv
<1>2. IInv /\ [Next]_vars => IInv'
    BY StepIInv
<1> QED
    BY <1>1, <1>2, PTL DEF Spec

-----------------------------------------------------------------------------
\* Every variable keeps its type.
THEOREM TypeCorrect == Spec => []TypeOK
<1>1. IInv => TypeOK
    BY DEF IInv
<1> QED
    BY <1>1, IInvHolds, PTL

\* No event is delivered twice, though timers, Flush and Stop race to empty
\* the buffer (MessageThrottler, stream callback).
THEOREM ShownOnceHolds == Spec => []ShownOnce
<1>1. IInv => ShownOnce
    BY DEF IInv, Held
<1> QED
    BY <1>1, IInvHolds, PTL

\* A buffered event has a timer, or the goroutine of one, that will flush it
\* (MessageThrottler's Push, flush, Flush and Stop).
THEOREM BufferIsWatchedHolds == Spec => []BufferIsWatched
<1>1. IInv => BufferIsWatched
    BY DEF IInv
<1> QED
    BY <1>1, IInvHolds, PTL

\* Once Execute has returned, no new callback starts, whatever timers are still
\* to expire (StreamWorker's deferred Stop).
THEOREM QuietAfterReturnHolds == Spec => QuietAfterReturn
<1>1. ASSUME IInv, [Next]_vars, Returned
      PROVE  {c.event : c \in callbacks'} \subseteq {c.event : c \in callbacks}
  <2>1. buffer = NoEvent /\ reader = "returned" /\ worker # "cline"
      BY <1>1 DEF IInv, Silent, Stopped, Returned
  <2>2. \A by : Taken(by) = {}
      BY <2>1 DEF Taken
  <2>3. \/ callbacks' \subseteq callbacks
        \/ \E c \in callbacks : \E s \in {"show", "post", "persist"} :
              callbacks' \subseteq callbacks \cup {[c EXCEPT !.step = s]}
    <3>1. CASE UNCHANGED vars
        BY <3>1 DEF vars
    <3>2. CASE \E c \in callbacks : Show(c) \/ Post(c) \/ Persist(c)
        BY <3>2 DEF Show, Post, Persist, Displayed
    <3>3. CASE TimerExpires \/ OrphanExpires \/ TimerFlush
        BY <2>2, <3>3 DEF TimerExpires, OrphanExpires, TimerFlush
    <3>4. /\ ~Announce /\ ~Interrupted /\ ~ClineStartFails /\ ~OutputEnds /\ ~ScannerFails
          /\ ~Flush /\ ~ReportDone /\ ~Stop /\ ~ReportError
        BY <2>1 DEF At, Announce, Interrupted, ClineStartFails, OutputEnds,
                    ScannerFails, Flush, ReportDone, Stop, Stopping, ReportError
    <3>5. /\ \A kind : ~ReadLine(kind)
          /\ \A mentions : ~AdapterLine(mentions)
          /\ \A ok : ~ProcessExits(ok)
        BY <2>1 DEF At, ReadLine, AdapterLine, ProcessExits
    <3> QED
        BY <1>1, <3>1, <3>2, <3>3, <3>4, <3>5 DEF Next
  <2>4. \A c \in callbacks : \A s : [c EXCEPT !.step = s].event = c.event
      BY <1>1 DEF IInv, TypeOK, Callbacks
  <2>5. \A x \in callbacks' : \E y \in callbacks : x.event = y.event
    <3>1. SUFFICES ASSUME NEW x \in callbacks', x \notin callbacks
                   PROVE  \E y \in callbacks : x.event = y.event
        OBVIOUS
    <3>2. PICK c \in callbacks, s \in {"show", "post", "persist"} : x = [c EXCEPT !.step = s]
        BY <2>3, <3>1
    <3>3. [c EXCEPT !.step = s].event = c.event
        BY <2>4
    <3> QED
        BY <3>2, <3>3
  <2> QED
      BY <2>5
<1> QED
    BY <1>1, IInvHolds, PTL DEF Spec, QuietAfterReturn
=============================================================================
