----------------------- MODULE TaskStreamCardProofs ------------------------
(***************************************************************************)
(* Theorems about what a TaskStream does to the card: a task has one card  *)
(* for each start event, the stream implements UpdateChannel, an update is *)
(* given up only for a newer one or when the stream is cut off, and only   *)
(* an older update takes a recorded end back.                              *)
(*                                                                         *)
(* For the first: a callback that finds no message posts one, and it does  *)
(* not say so until the message is there, so two callbacks might both      *)
(* post.  They do not, because the start event is the first one, is posted *)
(* by the reader's goroutine, and nothing else is pushed before it is; if  *)
(* there is no event at all, only the reader has something to report, one  *)
(* thing after the other.  The same holds if the first line is the one     *)
(* that is lost when the worker is stopped.                                *)
(*                                                                         *)
(* For the others: an event is in hand, in the buffer or with a callback,  *)
(* until it is delivered or replaced in the buffer by the next; it is      *)
(* dropped only when the throttler or the worker has been stopped.         *)
(***************************************************************************)
EXTENDS TaskStreamProofs, FiniteSetTheorems

\* Callbacks that have yet to post a start event.
Starting == {c \in callbacks : c.event.kind = "start" /\ c.step # "persist"}
Pending  == IF Starting = {} THEN 0 ELSE 1

\* The reader has one callback at a time, and start events are its own.
Attributed == /\ \A c, d \in callbacks : c.by = "reader" /\ d.by = "reader" => c = d
              /\ \A c \in callbacks : c.event.kind = "start" => c.by = "reader"
              /\ buffer # NoEvent => buffer.kind \in Bufferable
              /\ output # <<>> => output[1] = "start"
              /\ cutoff = 0 => worker = "python" /\ reader \in {"stopFailed", "failed", "returned"}

\* An event of the output has been pushed.
Heard == output # <<>> /\ cutoff # 0

\* Before that there are only the reader's reports of errors.
NoCardYet ==
    ~Heard =>
        /\ buffer = NoEvent
        /\ worker # "python" => reader \in {"announce", "failed", "returned"}
        /\ \A c \in callbacks : c.by = "reader" /\ c.event.kind # "start"
        /\ messages <= 1
        /\ messages = 1 => \A c \in callbacks : c.step # "post"
        /\ (messages # 0 \/ callbacks # {}) => reader \notin {"announce", "reading"}

\* After it only start events are posted, and the first is alone until it is.
CardPosted ==
    Heard =>
        /\ \A c \in callbacks : c.step = "post" => c.event.kind = "start"
        /\ messages = 0 => /\ buffer = NoEvent
                           /\ \E c \in Starting : callbacks = {c} /\ c.event.n = 1
        /\ messages + Pending <= Cardinality(Starts)

CardInv == Attributed /\ NoCardYet /\ CardPosted

-----------------------------------------------------------------------------
\* The number of start events, before and after one more event.
LEMMA StartsCounted ==
    ASSUME TypeOK
    PROVE  /\ Cardinality(Starts) \in Nat
           /\ \A kind \in Immediate \cup Bufferable :
                output' = Append(output, kind) =>
                    Cardinality(Starts') = Cardinality(Starts) + (IF kind = "start" THEN 1 ELSE 0)
           /\ output # <<>> /\ output[1] = "start" => Starts # {} /\ Cardinality(Starts) >= 1
           /\ output = <<>> => Starts = {}
<1>1. output \in Seq(Immediate \cup Bufferable) /\ Len(output) \in Nat /\ DOMAIN output = 1 .. Len(output)
    BY DEF TypeOK
<1>2. Starts \in SUBSET (1 .. Len(output))
    BY <1>1 DEF Starts
<1>3. IsFiniteSet(Starts)
  <2>1. IsFiniteSet(1 .. Len(output))
      BY <1>1, FS_Interval
  <2> QED
      BY <1>2, <2>1, FS_Subset
<1>4. ASSUME NEW kind \in Immediate \cup Bufferable, output' = Append(output, kind)
      PROVE  Cardinality(Starts') = Cardinality(Starts) + (IF kind = "start" THEN 1 ELSE 0)
  <2>1. /\ DOMAIN output' = 1 .. Len(output) + 1
        /\ output'[Len(output) + 1] = kind
        /\ \A i \in 1 .. Len(output) : output'[i] = output[i]
      BY <1>1, <1>4
  <2>2. CASE kind = "start"
    <3>1. Starts' = Starts \cup {Len(output) + 1} /\ Len(output) + 1 \notin Starts
        BY <1>1, <2>1, <2>2 DEF Starts
    <3> QED
        BY <1>3, <2>2, <3>1, FS_AddElement
  <2>3. CASE kind # "start"
    <3>1. Starts' = Starts
        BY <1>1, <2>1, <2>3 DEF Starts
    <3>2. Cardinality(Starts) \in Nat
        BY <1>3, FS_CardinalityType
    <3> QED
        BY <2>3, <3>1, <3>2
  <2> QED
      BY <2>2, <2>3
<1>5. output # <<>> /\ output[1] = "start" => Starts # {} /\ Cardinality(Starts) >= 1
  <2>1. output # <<>> /\ output[1] = "start" => Starts # {}
      BY <1>1 DEF Starts
  <2>2. Cardinality(Starts) = 0 <=> Starts = {}
      BY <1>3, FS_EmptySet
  <2>3. Cardinality(Starts) \in Nat
      BY <1>3, FS_CardinalityType
  <2> QED
      BY <2>1, <2>2, <2>3
<1>6. output = <<>> => Starts = {}
    BY DEF Starts
<1> QED
    BY <1>3, <1>4, <1>5, <1>6, FS_CardinalityType

\* The next event.  A start event is the reader's, the first event is a start,
\* and the adapter waits for the first one's callback.
LEMMA PushKeepsCard ==
    ASSUME IInv, CardInv, NEW kind \in Immediate \cup Bufferable, NEW by \in {"reader", "adapter"},
           Push(kind, by), UNCHANGED <<worker, messages, cutoff>>, cutoff # 0,
           by = "reader" => Free("reader"),
           by = "adapter" => kind # "start" /\ output # <<>> /\ \A c \in callbacks : c.event.n # 1,
           ~Heard => output = <<>> /\ kind = "start" /\ callbacks = {} /\ messages = 0
    PROVE  CardInv'
<1> DEFINE e == [n |-> Len(output) + 1, kind |-> kind]
<1> DEFINE k == Callback(e, by)
<1>1. /\ TypeOK /\ Attributed /\ NoCardYet /\ CardPosted
      /\ Len(output) \in Nat /\ messages \in Nat
      /\ output = <<>> => buffer = NoEvent /\ Len(output) = 0
    BY DEF IInv, CardInv, TypeOK, Held, Numbers
<1>2. /\ k.event = e /\ k.by = by /\ k.step = "show"
      /\ e.n = Len(output) + 1 /\ e.kind = kind
    BY DEF Callback
<1>3. /\ output' = Append(output, kind)
      /\ output' # <<>>
      /\ output'[1] = IF output = <<>> THEN kind ELSE output[1]
    BY <1>1 DEF Push, TypeOK
<1>4. \/ /\ kind \in Immediate
         /\ callbacks' = callbacks \cup {k}
         /\ buffer' = buffer
      \/ /\ kind \notin Immediate
         /\ callbacks' = callbacks
         /\ buffer' \in {buffer, e}
    BY DEF Push, PushNow, PushBuffered, throttler
<1>5. kind = "start" => kind \in Immediate /\ by = "reader"
    BY DEF Immediate
<1> HIDE DEF k, e
<1>6. Attributed'
  <2>1. \A c, d \in callbacks' : c.by = "reader" /\ d.by = "reader" => c = d
      BY <1>1, <1>2, <1>4 DEF Attributed, Free
  <2>2. \A c \in callbacks' : c.event.kind = "start" => c.by = "reader"
      BY <1>1, <1>2, <1>4, <1>5 DEF Attributed
  <2>3. buffer' # NoEvent => buffer'.kind \in Bufferable
      BY <1>1, <1>2, <1>4 DEF Attributed
  <2> QED
      BY <1>1, <1>3, <2>1, <2>2, <2>3 DEF Attributed, Heard
<1>7. Heard' /\ NoCardYet'
    BY <1>3 DEF Heard, NoCardYet
<1>8. CASE ~Heard
  <2>1. /\ kind = "start" /\ messages' = 0 /\ buffer' = NoEvent /\ output = <<>>
        /\ callbacks' = {k} /\ k.event.n = 1
      BY <1>1, <1>2, <1>4, <1>5, <1>8
  <2>2. Starting' = {k}
      BY <1>2, <2>1 DEF Starting
  <2>3. Cardinality(Starts') = 1
    <3>1. Starts = {} /\ Cardinality(Starts) = 0
        BY <1>1, <2>1, StartsCounted, FS_EmptySet
    <3> QED
        BY <1>1, <1>3, <2>1, <3>1, StartsCounted
  <2> QED
      BY <1>2, <1>6, <1>7, <2>1, <2>2, <2>3 DEF CardInv, CardPosted, Pending
<1>9. CASE Heard
  <2>1. messages # 0 /\ messages + Pending <= Cardinality(Starts)
      BY <1>1, <1>9, Zenon DEF Attributed, CardPosted, Starting, Free
  <2>2. \A c \in callbacks' : c.step = "post" => c.event.kind = "start"
      BY <1>1, <1>2, <1>4, <1>9 DEF CardPosted
  <2>3. CASE kind = "start"
    <3>1. Starting = {}
        BY <1>1, <1>5, <2>3 DEF Attributed, Free, Starting
    <3>2. Cardinality(Starts') = Cardinality(Starts) + 1
        BY <1>1, <1>3, <2>3, StartsCounted
    <3>3. messages' + Pending' <= Cardinality(Starts')
        BY <1>1, <2>1, <3>1, <3>2, StartsCounted DEF Pending
    <3> QED
        BY <1>6, <1>7, <2>1, <2>2, <3>3 DEF CardInv, CardPosted
  <2>4. CASE kind # "start"
    <3>1. Starting' = Starting
        BY <1>2, <1>4, <2>4 DEF Starting
    <3>2. Cardinality(Starts') = Cardinality(Starts)
        BY <1>1, <1>3, <2>4, StartsCounted
    <3> QED
        BY <1>6, <1>7, <2>1, <2>2, <3>1, <3>2 DEF CardInv, CardPosted, Pending
  <2> QED
      BY <2>3, <2>4
<1> QED
    BY <1>8, <1>9

\* New callbacks that are no start events: the buffered event, or a report.
\* The reader's goroutine runs the new one if it is free.
LEMMA AddedKeepsCard ==
    ASSUME IInv, CardInv, NEW c \in Callbacks, c.step = "show", c.event.kind # "start",
           callbacks' = callbacks \cup {c},
           buffer' \in {buffer, NoEvent},
           UNCHANGED <<worker, output, messages>>, Heard' <=> Heard,
           cutoff' = 0 => worker = "python" /\ reader' \in {"stopFailed", "failed", "returned"},
           c.by = "reader" => Free("reader"),
           ~Heard => c.by = "reader" /\ reader' \notin {"announce", "reading"},
           ~Heard /\ worker # "python" => reader' \in {"announce", "failed", "returned"},
           Heard /\ c.by # "reader" => messages # 0
    PROVE  CardInv'
<1>1. /\ TypeOK /\ Attributed /\ NoCardYet /\ CardPosted /\ messages \in Nat
    BY DEF IInv, CardInv, TypeOK
<1>2. Starting' = Starting
    BY DEF Starting
<1>3. Attributed'
    BY <1>1 DEF Attributed, Free
<1>4. NoCardYet'
    BY <1>1 DEF NoCardYet
<1>5. CardPosted'
  <2>1. CASE Heard
    <3>1. messages # 0
        BY <1>1, <2>1 DEF CardPosted, Attributed, Free, Starting
    <3> QED
        BY <1>1, <1>2, <2>1, <3>1 DEF CardPosted, Pending, Starts
  <2>2. CASE ~Heard
      BY <2>2 DEF CardPosted
  <2> QED
      BY <2>1, <2>2
<1> QED
    BY <1>3, <1>4, <1>5 DEF CardInv

\* Steps that add no callback and post nothing.
LEMMA QuietKeepsCard ==
    ASSUME IInv, CardInv,
           UNCHANGED <<worker, output, messages, callbacks>>, Heard' <=> Heard,
           cutoff' = 0 => worker = "python" /\ reader' \in {"stopFailed", "failed", "returned"},
           buffer' \in {buffer, NoEvent},
           reader' \notin {"announce", "reading"} \/ reader' = reader,
           ~Heard /\ worker # "python" => reader' \in {"announce", "failed", "returned"}
    PROVE  CardInv'
<1>1. Starting' = Starting /\ Starts' = Starts
    BY DEF Starting, Starts
<1>2. Attributed'
    BY DEF CardInv, Attributed
<1>3. NoCardYet'
    BY DEF CardInv, NoCardYet
<1>4. CardPosted'
    BY <1>1 DEF CardInv, CardPosted, Pending
<1> QED
    BY <1>2, <1>3, <1>4 DEF CardInv

\* A callback that finds no message goes on to post one.
LEMMA PostBegins ==
    ASSUME IInv, CardInv, NEW c \in callbacks, c.step = "show", Posts(c.event),
           callbacks' = (callbacks \ {c}) \cup {[c EXCEPT !.step = "post"]},
           UNCHANGED <<worker, output, reader, throttler, messages, cutoff>>
    PROVE  CardInv'
<1> DEFINE d == [c EXCEPT !.step = "post"]
<1>1. /\ TypeOK /\ Attributed /\ NoCardYet /\ CardPosted /\ messages \in Nat
      /\ UNCHANGED <<buffer, Starts, cutoff>> /\ (Heard' <=> Heard)
    BY DEF IInv, CardInv, TypeOK, throttler, Starts, Heard
<1>2. d.step = "post" /\ d.event = c.event /\ d.by = c.by
    BY DEF IInv, TypeOK, Callbacks
<1> HIDE DEF d
<1>3. \A x \in callbacks' : (x \in callbacks /\ x # c) \/ x = d
    BY DEF d
<1>4. d \in callbacks'
    BY DEF d
<1>5. Attributed'
    BY <1>1, <1>2, <1>3 DEF Attributed
<1>6. NoCardYet'
    BY <1>1, <1>2, <1>3 DEF NoCardYet, Posts
<1>7. CASE Heard
  <2>1. messages = 0 => callbacks = {c} /\ c \in Starting /\ c.event.n = 1
      BY <1>1, <1>7 DEF CardPosted
  <2>2. c.event.kind = "start"
      BY <2>1 DEF Posts, Starting
  <2>3. c \in Starting /\ d \in Starting' /\ Pending' = Pending
      BY <1>2, <1>4, <2>2 DEF Starting, Pending
  <2>4. messages = 0 => callbacks' = {d}
      BY <1>3, <1>4, <2>1
  <2> QED
      BY <1>1, <1>2, <1>3, <1>5, <1>6, <1>7, <2>1, <2>2, <2>3, <2>4 DEF CardInv, CardPosted
<1>8. CASE ~Heard
    BY <1>1, <1>5, <1>6, <1>8 DEF CardInv, CardPosted
<1> QED
    BY <1>7, <1>8

\* A callback that has put its event on the card, with or without a message
\* of its own, or that ends.
LEMMA EventDelivered ==
    ASSUME IInv, CardInv, NEW c \in callbacks,
           callbacks' \in {callbacks \ {c}, (callbacks \ {c}) \cup {[c EXCEPT !.step = "persist"]}},
           \/ c.step = "show" /\ ~Posts(c.event) /\ messages' = messages
           \/ c.step = "post" /\ messages' = messages + 1
           \/ c.step = "persist" /\ messages' = messages,
           UNCHANGED <<worker, output, reader, throttler, cutoff>>
    PROVE  CardInv'
<1> DEFINE d == [c EXCEPT !.step = "persist"]
<1>1. /\ TypeOK /\ Attributed /\ NoCardYet /\ CardPosted /\ messages \in Nat
      /\ UNCHANGED <<buffer, Starts, cutoff>> /\ (Heard' <=> Heard)
    BY DEF IInv, CardInv, TypeOK, throttler, Starts, Heard
<1>2. d.step = "persist" /\ d.event = c.event /\ d.by = c.by
    BY DEF IInv, TypeOK, Callbacks
<1>3. \A x \in callbacks' : (x \in callbacks /\ x # c) \/ x = d
    OBVIOUS
<1>4. Starting' = Starting \ {c}
    BY <1>2 DEF Starting
<1> HIDE DEF d
<1>5. Attributed'
    BY <1>1, <1>2, <1>3 DEF Attributed
<1>6. Heard => \A x \in callbacks' : x.step = "post" => x.event.kind = "start"
    BY <1>1, <1>2, <1>3 DEF CardPosted
<1>7. CASE c.step # "post"
  <2>1. c \notin Starting /\ messages' = messages
      BY <1>7 DEF Starting, Posts, HasCard
  <2>2. Pending' = Pending
      BY <1>4, <2>1 DEF Pending
  <2>3. Heard => messages # 0
      BY <1>1, <1>7, <2>1 DEF CardPosted, Posts, HasCard, Starting
  <2>4. NoCardYet'
      BY <1>1, <1>2, <1>3, <2>1 DEF NoCardYet
  <2> QED
      BY <1>1, <1>5, <1>6, <2>1, <2>2, <2>3, <2>4 DEF CardInv, CardPosted
<1>8. CASE c.step = "post"
  <2>1. messages' = messages + 1
      BY <1>8
  <2>2. CASE ~Heard
    <3>1. /\ messages = 0 /\ \A x \in callbacks : x = c
          /\ c.event.kind # "start" /\ c.by = "reader"
          /\ reader \notin {"announce", "reading"}
          /\ worker # "python" => reader \in {"announce", "failed", "returned"}
        BY <1>1, <1>8, <2>2 DEF NoCardYet, Attributed
    <3>2. NoCardYet'
        BY <1>1, <1>2, <1>3, <2>1, <2>2, <3>1 DEF NoCardYet
    <3> QED
        BY <1>1, <1>5, <2>2, <3>2 DEF CardInv, CardPosted
  <2>3. CASE Heard
    <3>1. c.event.kind = "start" /\ c \in Starting
        BY <1>1, <1>8, <2>3 DEF CardPosted, Starting
    <3>2. Starting = {c}
        BY <1>1, <3>1 DEF Starting, Attributed
    <3>3. Pending = 1 /\ Pending' = 0
        BY <1>4, <3>2 DEF Pending
    <3>4. messages' + Pending' <= Cardinality(Starts')
        BY <1>1, <2>1, <2>3, <3>3 DEF CardPosted
    <3>5. NoCardYet'
        BY <1>1, <2>3 DEF NoCardYet
    <3> QED
        BY <1>1, <1>5, <1>6, <2>1, <3>4, <3>5 DEF CardInv, CardPosted
  <2> QED
      BY <2>2, <2>3
<1> QED
    BY <1>7, <1>8

-----------------------------------------------------------------------------
LEMMA NextCardInv ==
    ASSUME IInv, CardInv, [Next]_vars PROVE CardInv'
<1> USE DEF outside, history
<1>a. /\ TypeOK /\ Room /\ Held /\ Attributed /\ NoCardYet /\ CardPosted
      /\ Len(output) \in Nat /\ (output = <<>> <=> Len(output) = 0)
      /\ output = <<>> => ~Heard
      /\ reader \notin {"stopFailed", "failed", "returned"} \/ worker # "python" =>
            cutoff # 0 /\ (~Heard => output = <<>>)
    BY DEF Heard, Attributed, IInv, CardInv, Held, Numbers, TypeOK
<1>1. CASE Announce
  <2>1. /\ Push("start", "reader") /\ Free("reader") /\ reader = "announce"
        /\ UNCHANGED <<worker, messages, cutoff>>
      BY <1>1 DEF Announce, At
  <2>2. output = <<>> /\ callbacks = {} /\ messages = 0
      BY <1>a, <2>1 DEF Room, NoCardYet
  <2>3. "start" \in Immediate \cup Bufferable
      BY DEF Immediate
  <2> QED
      BY <1>a, <2>1, <2>2, <2>3, PushKeepsCard
<1>2. ASSUME NEW kind \in Immediate \cup Bufferable, ReadLine(kind) PROVE CardInv'
  <2>1. /\ Push(kind, "reader") /\ Free("reader") /\ reader = "reading"
        /\ UNCHANGED <<worker, messages, cutoff>>
      BY <1>2 DEF ReadLine, At
  <2>2. ~Heard => output = <<>> /\ kind = "start" /\ callbacks = {} /\ messages = 0
      BY <1>a, <1>2, <2>1 DEF NoCardYet, ReadLine, NextLine
  <2> QED
      BY <1>a, <2>1, <2>2, PushKeepsCard
<1>3. ASSUME NEW mentions \in Mentions, AdapterLine(mentions) PROVE CardInv'
  <2> DEFINE kind == ParseLine(mentions)
  <2>1. /\ Push(kind, "adapter") /\ output # <<>> /\ worker = "cline"
        /\ UNCHANGED <<worker, messages, cutoff>>
        /\ kind \in Immediate \cup Bufferable /\ kind # "start"
        /\ \A c \in callbacks : c.event.n # 1
      BY <1>3 DEF AdapterLine, ParseLine, Immediate, Bufferable
  <2> HIDE DEF kind
  <2> QED
      BY <1>a, <2>1, PushKeepsCard
<1>4. CASE ClineStartFails \/ OutputEnds \/ ScannerFails \/ ReportError
           \/ \E ok \in BOOLEAN : ProcessExits(ok)
  <2> DEFINE r == Callback(Report, "reader")
  <2>1. /\ callbacks' \in {callbacks, callbacks \cup {r}}
        /\ UNCHANGED <<worker, output, throttler, messages, cutoff>>
        /\ Free("reader")
        /\ reader' \notin {"announce", "reading"}
        /\ reader = "failed" => reader' = "returned"
        /\ reader \in {"announce", "reading", "waiting", "failed"}
        /\ reader = "announce" => worker = "cline"
      BY <1>4 DEF ClineStartFails, OutputEnds, ScannerFails, ReportError, ProcessExits, At
  <2>2. ~Heard /\ worker # "python" => reader' \in {"announce", "failed", "returned"}
      BY <1>a, <1>4 DEF NoCardYet, ClineStartFails, OutputEnds, ScannerFails,
                        ReportError, ProcessExits, At
  <2>3. r \in Callbacks /\ r.by = "reader" /\ r.step = "show" /\ r.event.kind # "start"
      BY StreamAssumption DEF Callback, Callbacks, Report, Events, Immediate
  <2>4. UNCHANGED buffer /\ (Heard' <=> Heard)
      BY <2>1 DEF throttler, Heard
  <2>5. cutoff' = 0 => worker = "python" /\ reader' \in {"stopFailed", "failed", "returned"}
      BY <1>a, <2>1 DEF Attributed
  <2> HIDE DEF r
  <2>6. CASE callbacks' = callbacks
      BY <2>1, <2>2, <2>4, <2>5, <2>6, QuietKeepsCard
  <2>7. CASE callbacks' = callbacks \cup {r}
      BY <2>1, <2>2, <2>3, <2>4, <2>5, <2>7, AddedKeepsCard
  <2> QED
      BY <2>1, <2>6, <2>7
<1>4a. CASE Interrupted
    \* The line that is lost counts as output; nothing else has changed.
  <2>1. /\ reader = "reading" /\ Free("reader") /\ reader' = "stopFailed" /\ cutoff' = Len(output)
        /\ UNCHANGED <<worker, buffer, callbacks, messages>>
      BY <1>4a DEF Interrupted, At, throttler
  <2>2. /\ output = <<>> => worker = "python"
        /\ Heard' <=> Heard
      BY <1>a, <1>4a, <2>1 DEF NoCardYet, Heard, Interrupted, NextLine, TypeOK
  <2>3. /\ output' # <<>> => output'[1] = "start"
        /\ Cardinality(Starts') \in Nat /\ Cardinality(Starts) \in Nat
        /\ Cardinality(Starts') >= Cardinality(Starts)
    <3>1. CASE output' = output
        BY <1>a, <3>1, StartsCounted DEF Attributed, Starts
    <3>2. ASSUME NEW kind \in Immediate \cup Bufferable, NextLine(kind), output' = Append(output, kind)
          PROVE  /\ output' # <<>> => output'[1] = "start"
                 /\ Cardinality(Starts') \in Nat /\ Cardinality(Starts) \in Nat
                 /\ Cardinality(Starts') >= Cardinality(Starts)
      <4>1. output'[1] = IF output = <<>> THEN kind ELSE output[1]
          BY <1>a, <3>2 DEF TypeOK
      <4>2. output = <<>> => kind = "start"
          BY <2>2, <3>2 DEF NextLine
      <4>3. Cardinality(Starts') = Cardinality(Starts) + (IF kind = "start" THEN 1 ELSE 0)
          BY <1>a, <3>2, StartsCounted
      <4> QED
          BY <1>a, <4>1, <4>2, <4>3, StartsCounted DEF Attributed
    <3> QED
        BY <1>4a, <3>1, <3>2 DEF Interrupted
  <2>4. Attributed'
      BY <1>a, <2>1, <2>2, <2>3 DEF Attributed
  <2>5. NoCardYet'
      BY <1>a, <2>1, <2>2 DEF NoCardYet, Heard
  <2>6. CardPosted'
    <3>1. UNCHANGED <<Starting, Pending>>
        BY <2>1 DEF Starting, Pending
    <3> QED
        BY <1>a, <2>1, <2>2, <2>3, <3>1 DEF CardPosted, TypeOK, Pending
  <2> QED
      BY <2>4, <2>5, <2>6 DEF CardInv
<1>5. CASE Flush \/ Stop \/ TimerFlush
  <2>1. PICK goroutine \in {"reader", "timer"} :
          /\ callbacks' = callbacks \cup Taken(goroutine)
          /\ buffer' = NoEvent
          /\ UNCHANGED <<worker, output, messages>>
          /\ goroutine = "reader" => Free("reader")
          /\ reader' = reader \/ reader' \notin {"announce", "reading"}
      BY <1>5 DEF Flush, Stop, Stopping, TimerFlush, Empty, At
  <2>2. ~Heard /\ worker # "python" => reader' \in {"announce", "failed", "returned"}
      BY <1>a, <1>5 DEF NoCardYet, Flush, Stop, Stopping, TimerFlush, At
  <2>5. /\ Heard' <=> Heard
        /\ cutoff' = 0 => worker = "python" /\ reader' \in {"stopFailed", "failed", "returned"}
    <3>1. CASE UNCHANGED cutoff
        BY <1>a, <1>5, <2>1, <3>1 DEF Attributed, Heard, Flush, Stop, Stopping, TimerFlush, At
    <3>2. CASE Stop /\ cutoff' = Len(output) /\ cutoff > MaxEvents
      <4>1. cutoff # 0 /\ reader \in {"stop", "stopFailed"} /\ reader' \in {"failed", "returned"}
          BY <3>2, StreamAssumption DEF Stop, Stopping, At
      <4>2. output = <<>> => worker = "python"
          BY <1>a, <4>1 DEF NoCardYet
      <4> QED
          BY <1>a, <2>1, <3>2, <4>1, <4>2 DEF Heard
    <3> QED
        BY <1>a, <1>5, <3>1, <3>2, StreamAssumption DEF Flush, Stop, Stopping, TimerFlush, TypeOK
  <2>3. CASE buffer = NoEvent
    <3>1. callbacks' = callbacks
        BY <2>1, <2>3 DEF Taken
    <3> QED
        BY <2>1, <2>2, <2>5, <3>1, QuietKeepsCard
  <2>4. CASE buffer # NoEvent
    <3> DEFINE k == Callback(buffer, goroutine)
    <3>1. /\ callbacks' = callbacks \cup {k} /\ k \in Callbacks
          /\ k.step = "show" /\ k.by = goroutine /\ k.event = buffer
        BY <1>a, <2>1, <2>4 DEF Taken, Callback, Callbacks, TypeOK
    <3>2. k.event.kind # "start"
        BY <1>a, <2>4, <3>1 DEF Attributed, Bufferable
    <3>3. Heard /\ messages # 0
        BY <1>a, <2>4 DEF NoCardYet, CardPosted
    <3> HIDE DEF k
    <3> QED
        BY <2>1, <2>5, <3>1, <3>2, <3>3, AddedKeepsCard
  <2> QED
      BY <2>3, <2>4
<1>6. CASE ReportDone
  <2>1. /\ Push("done", "reader") /\ Free("reader") /\ reader = "report"
        /\ UNCHANGED <<worker, messages, cutoff>>
      BY <1>6 DEF ReportDone, At
  <2>2. Heard /\ output # <<>>
      BY <1>a, <2>1 DEF Room, NoCardYet, Heard
  <2>3. "done" \in Immediate \cup Bufferable
      BY DEF Immediate
  <2> QED
      BY <1>a, <2>1, <2>2, <2>3, PushKeepsCard
<1>7. CASE TimerExpires \/ OrphanExpires \/ UNCHANGED vars
  <2>1. UNCHANGED <<worker, output, reader, messages, callbacks, buffer, cutoff>>
      BY <1>7 DEF TimerExpires, OrphanExpires, vars, throttler
  <2>2. /\ ~Heard /\ worker # "python" => reader' \in {"announce", "failed", "returned"}
        /\ Heard' <=> Heard
        /\ cutoff' = 0 => worker = "python" /\ reader' \in {"stopFailed", "failed", "returned"}
      BY <1>a, <2>1 DEF NoCardYet, Attributed, Heard
  <2> QED
      BY <2>1, <2>2, QuietKeepsCard
<1>8. ASSUME NEW c \in callbacks, Show(c) PROVE CardInv'
  <2>1. CASE Posts(c.event)
      BY <1>8, <2>1, PostBegins DEF Show
  <2>2. CASE ~Posts(c.event)
      BY <1>8, <2>2, EventDelivered DEF Show, Displayed
  <2> QED
      BY <2>1, <2>2
<1>9. ASSUME NEW c \in callbacks, Post(c) PROVE CardInv'
    BY <1>9, EventDelivered DEF Post, Displayed
<1>10. ASSUME NEW c \in callbacks, Persist(c) PROVE CardInv'
    BY <1>10, EventDelivered DEF Persist
<1> QED
    BY <1>1, <1>2, <1>3, <1>4, <1>4a, <1>5, <1>6, <1>7, <1>8, <1>9, <1>10 DEF Next

LEMMA InitCardInv ==
    ASSUME Init PROVE CardInv
<1>1. /\ output = <<>> /\ callbacks = {} /\ messages = 0 /\ buffer = NoEvent /\ cutoff # 0
      /\ worker # "python" => reader = "announce"
    BY StreamAssumption DEF Init
<1> QED
    BY <1>1 DEF CardInv, Attributed, NoCardYet, CardPosted, Heard

\* A task's card is posted once for each start event, and once if there is
\* none, though callbacks of three goroutines post it when they find none
\* (the stream callback and the error reports of gateway/slack.go).
THEOREM OneCardHolds == Spec => []OneCard
<1>1. Init => CardInv
    BY InitCardInv
<1>2. IInv /\ CardInv /\ [Next]_vars => CardInv'
    BY NextCardInv
<1>3. IInv /\ CardInv => OneCard
  <2> SUFFICES ASSUME IInv, CardInv PROVE OneCard
      OBVIOUS
  <2>1. /\ output # <<>> => Starts # {} /\ Cardinality(Starts) >= 1
        /\ output = <<>> => Starts = {} /\ ~Heard
        /\ Cardinality(Starts) \in Nat /\ messages \in Nat
      BY StartsCounted DEF IInv, TypeOK, CardInv, Attributed, Heard
  <2>2. CASE ~Heard
      BY <2>1, <2>2 DEF CardInv, NoCardYet, OneCard
  <2>3. CASE Heard
    <3>1. messages <= Cardinality(Starts)
        BY <2>1, <2>3 DEF CardInv, CardPosted, Pending
    <3> QED
        BY <2>1, <2>3, <3>1 DEF OneCard, Heard
  <2> QED
      BY <2>2, <2>3
<1> QED
    BY <1>1, <1>2, <1>3, IInvHolds, PTL DEF Spec

-----------------------------------------------------------------------------
\* The refinement of UpdateChannel.

\* A callback that has only the record left has delivered its event.
PersistDelivered == \A c \in callbacks : c.step = "persist" => c.event.n \in ToSet(delivered)

\* When the channel is closed: Stop has run, or is about to for a worker that was
\* stopped or timed out.
Cut == /\ cutoff <= MaxEvents =>
            /\ cutoff <= Len(output)
            /\ reader \in {"failed", "returned"} \/ (reader = "stopFailed" /\ worker # "cline")
       /\ Stopped /\ output # <<>> => cutoff <= MaxEvents

LEMMA PhaseMove ==
    ASSUME NEW t \in 1 .. MaxEvents, NEW to, PhaseOf(t)' = to,
           \A u \in (1 .. MaxEvents) \ {t} : PhaseOf(u)' = PhaseOf(u)
    PROVE  phase' = [phase EXCEPT ![t] = to]
<1>1. phase = [u \in 1 .. MaxEvents |-> PhaseOf(u)] /\ phase' = [u \in 1 .. MaxEvents |-> PhaseOf(u)']
    BY DEF phase, PhaseOf
<1> HIDE DEF PhaseOf
<1> QED
    BY <1>1

LEMMA PhasesMove ==
    ASSUME NEW t \in 1 .. MaxEvents, PhaseOf(t)' = "waiting",
           NEW s \in 1 .. MaxEvents, PhaseOf(s)' = "replaced",
           \A u \in (1 .. MaxEvents) \ {s, t} : PhaseOf(u)' = PhaseOf(u)
    PROVE  phase' = [phase EXCEPT ![t] = "waiting", ![s] = "replaced"]
<1>1. phase = [u \in 1 .. MaxEvents |-> PhaseOf(u)] /\ phase' = [u \in 1 .. MaxEvents |-> PhaseOf(u)']
    BY DEF phase, PhaseOf
<1> HIDE DEF PhaseOf
<1> QED
    BY <1>1

LEMMA PhaseAt == \A t \in 1 .. MaxEvents : phase[t] = PhaseOf(t) /\ phase'[t] = PhaseOf(t)'
BY DEF phase, PhaseOf

\* Before and after the cut, the events so far keep their chance.
CutoffKept == cutoff' = cutoff \/ (cutoff = MaxEvents + 1 /\ cutoff' = Len(output))

LEMMA MissedKept ==
    ASSUME TypeOK, Len(output) <= MaxEvents, CutoffKept, UNCHANGED worker,
           NEW u \in DOMAIN output, u \in DOMAIN output', output'[u] = output[u]
    PROVE  Missed(u)' <=> Missed(u)
<1>1. Len(output) \in Nat /\ DOMAIN output = 1 .. Len(output) /\ MaxEvents \in Nat
    BY StreamAssumption DEF TypeOK
<1>2. u > cutoff' <=> u > cutoff
    BY <1>1 DEF CutoffKept, TypeOK
<1> QED
    BY <1>2 DEF Missed

LEMMA PhaseSame ==
    ASSUME NEW u \in 1 .. MaxEvents, u \in DOMAIN output' <=> u \in DOMAIN output,
           u \in DOMAIN output =>
              /\ u \in ToSet(delivered') <=> u \in ToSet(delivered)
              /\ u \notin ToSet(delivered) => (InHand(u)' <=> InHand(u))
              /\ Missed(u)' <=> Missed(u)
    PROVE  PhaseOf(u)' = PhaseOf(u)
BY DEF PhaseOf

\* As long as no event comes and none is delivered, what matters is which
\* events are in hand, those that are delivered already apart.
LEMMA PhaseKept ==
    ASSUME TypeOK, Len(output) <= MaxEvents, CutoffKept,
           UNCHANGED <<worker, output, delivered>>,
           \A u \in 1 .. MaxEvents : u \notin ToSet(delivered) => (InHand(u)' <=> InHand(u))
    PROVE  phase' = phase
<1>1. phase = [u \in 1 .. MaxEvents |-> PhaseOf(u)] /\ phase' = [u \in 1 .. MaxEvents |-> PhaseOf(u)']
    BY DEF phase, PhaseOf
<1>2. \A u \in 1 .. MaxEvents : PhaseOf(u)' = PhaseOf(u)
  <2>1. SUFFICES ASSUME NEW u \in 1 .. MaxEvents PROVE PhaseOf(u)' = PhaseOf(u)
      OBVIOUS
  <2>2. u \in DOMAIN output => (Missed(u)' <=> Missed(u))
      BY MissedKept
  <2> QED
      BY <2>2, PhaseSame
<1> HIDE DEF PhaseOf
<1> QED
    BY <1>1, <1>2

LEMMA DeliveredAppended ==
    ASSUME TypeOK, NEW n, delivered' = Append(delivered, n)
    PROVE  ToSet(delivered') = ToSet(delivered) \cup {n}
<1>1. /\ DOMAIN delivered = 1 .. Len(delivered) /\ Len(delivered) \in Nat
      /\ DOMAIN delivered' = 1 .. Len(delivered) + 1
      /\ delivered'[Len(delivered) + 1] = n
      /\ \A i \in 1 .. Len(delivered) : delivered'[i] = delivered[i]
    BY DEF TypeOK
<1> QED
    BY <1>1 DEF ToSet

\* The events so far keep their phase when one more comes, but for those whose
\* place in the buffer it takes.
LEMMA OthersKept ==
    ASSUME IInv, CutoffKept, UNCHANGED <<worker, delivered>>,
           NEW kind \in Immediate \cup Bufferable, output' = Append(output, kind),
           NEW u \in 1 .. MaxEvents, u # Len(output) + 1, InHand(u)' <=> InHand(u)
    PROVE  PhaseOf(u)' = PhaseOf(u)
<1>1. /\ TypeOK /\ Len(output) \in Nat /\ Len(output) <= MaxEvents
      /\ DOMAIN output = 1 .. Len(output) /\ DOMAIN output' = 1 .. Len(output) + 1
      /\ \A i \in DOMAIN output : output'[i] = output[i]
    BY DEF IInv, TypeOK, Room
<1>2. u \in DOMAIN output' <=> u \in DOMAIN output
    BY <1>1
<1>3. u \in DOMAIN output => (Missed(u)' <=> Missed(u))
    BY <1>1, <1>2, MissedKept
<1> QED
    BY <1>2, <1>3, PhaseSame

\* An event of the output that no one has ever had in hand is dropped.
LEMMA LineDropped ==
    ASSUME IInv, CutoffKept, cutoff' <= Len(output), UNCHANGED <<worker, delivered, buffer, callbacks>>,
           NEW kind \in Immediate \cup Bufferable, output' = Append(output, kind),
           worker = "cline" => kind \in Bufferable, Len(output) < MaxEvents
    PROVE  Channel!Next
<1>0. PICK new \in 1 .. MaxEvents : new = Len(output) + 1
    BY StreamAssumption DEF IInv, TypeOK
<1>1. /\ TypeOK /\ Numbers
      /\ Len(output) \in Nat /\ MaxEvents \in Nat
      /\ DOMAIN output = 1 .. Len(output)
      /\ DOMAIN output' = 1 .. new /\ output'[new] = kind
    BY <1>0, StreamAssumption DEF IInv, Held, TypeOK
<1>2. new \notin ToSet(delivered) /\ ~InHand(new)
    BY <1>0, <1>1 DEF Numbers, ToSet, InHand
<1>3. Channel!Turn(new)
  <2>1. PhaseOf(new) = "new" /\ \A u \in 1 .. MaxEvents : u < new => PhaseOf(u) # "new"
      BY <1>0, <1>1 DEF PhaseOf
  <2> QED
      BY <1>1, <2>1, PhaseAt DEF Channel!Turn
<1>4. ~Open'
    BY <1>1 DEF Open, CutoffKept, TypeOK
<1>5. InHand(new)' <=> InHand(new)
    BY DEF InHand
<1>6. Missed(new)'
    BY <1>0, <1>1 DEF Missed, CutoffKept, TypeOK
<1>7. PhaseOf(new)' = "dropped"
    BY <1>1, <1>2, <1>5, <1>6 DEF PhaseOf
<1>8. \A u \in (1 .. MaxEvents) \ {new} : PhaseOf(u)' = PhaseOf(u)
  <2>1. \A u \in 1 .. MaxEvents : InHand(u)' <=> InHand(u)
      BY DEF InHand
  <2> QED
      BY <1>0, <2>1, OthersKept
<1>9. Channel!Drop(new)
    BY <1>3, <1>4, <1>7, <1>8, PhaseMove DEF Channel!Drop
<1> QED
    BY <1>9 DEF Channel!Next

\* The next event is offered; if it is buffered while another one is, it
\* replaces that one, which is in no one else's hands; if the throttler has
\* stopped, it is dropped.
LEMMA PushOffers ==
    ASSUME IInv, Cut, PersistDelivered, NEW kind \in Immediate \cup Bufferable,
           NEW by \in {"reader", "adapter"}, Push(kind, by), Len(output) < MaxEvents,
           UNCHANGED <<worker, delivered, cutoff>>,
           by = "reader" => reader \in {"announce", "reading", "report"},
           by = "adapter" => worker = "cline" /\ output # <<>>
    PROVE  Channel!Next /\ PersistDelivered'
<1>0. PICK new \in 1 .. MaxEvents : new = Len(output) + 1
    BY StreamAssumption DEF IInv, TypeOK
<1> DEFINE e == [n |-> new, kind |-> kind]
<1>1. /\ TypeOK /\ Numbers /\ Placement
      /\ Len(output) \in Nat /\ MaxEvents \in Nat
      /\ DOMAIN output = 1 .. Len(output) /\ output' = Append(output, kind)
      /\ DOMAIN output' = 1 .. new /\ new = Len(output) + 1
      /\ new \in 1 .. MaxEvents
    BY <1>0, StreamAssumption DEF IInv, Held, TypeOK, Push
<1>2. new \notin ToSet(delivered) /\ ~InHand(new)
    BY <1>1 DEF Numbers, ToSet, InHand
<1>3. \A u \in 1 .. MaxEvents : u < new => PhaseOf(u) # "new"
    BY <1>1 DEF PhaseOf
<1>4. PhaseOf(new) = "new"
    BY <1>1 DEF PhaseOf
<1>5. Channel!Turn(new)
    BY <1>1, <1>3, <1>4, PhaseAt DEF Channel!Turn
<1>6. \/ /\ callbacks' = callbacks \cup {Callback(e, by)}
         /\ buffer' = buffer
      \/ /\ callbacks' = callbacks
         /\ buffer' = e
         /\ ~Stopped
      \/ /\ UNCHANGED <<buffer, callbacks>>
         /\ kind \in Bufferable
         /\ Stopped
    BY <1>0 DEF Push, PushNow, PushBuffered, throttler
<1>7. PersistDelivered'
    BY <1>6 DEF PersistDelivered, Callback
<1>8. e \in Events /\ e # NoEvent /\ e.n = new /\ Callback(e, by).event = e
    BY <1>1, StreamAssumption DEF Events, Callback
<1>a. CutoffKept /\ (Open' = Open)
    BY DEF CutoffKept, Open
<1> HIDE DEF e
<1>9. ~(UNCHANGED <<buffer, callbacks>>) => PhaseOf(new)' = "waiting"
  <2>1. ~(UNCHANGED <<buffer, callbacks>>) => InHand(new)'
      BY <1>6, <1>8 DEF InHand
  <2> QED
      BY <1>1, <1>2, <2>1 DEF PhaseOf
<1>b. CASE UNCHANGED <<buffer, callbacks>>
  <2>1. Stopped /\ kind \in Bufferable
      BY <1>2, <1>6, <1>8, <1>b DEF InHand
  <2>2. cutoff' <= Len(output)
      BY <1>1, <2>1 DEF Cut, Stopped
  <2> QED
      BY <1>1, <1>7, <1>a, <1>b, <2>1, <2>2, LineDropped
<1>10. CASE /\ ~(UNCHANGED <<buffer, callbacks>>)
            /\ (callbacks' = callbacks \cup {Callback(e, by)} /\ buffer' = buffer) \/ buffer = NoEvent
  <2>1. \A u \in (1 .. MaxEvents) \ {new} : InHand(u)' <=> InHand(u)
      BY <1>6, <1>8, <1>10 DEF InHand
  <2>2. \A u \in (1 .. MaxEvents) \ {new} : PhaseOf(u)' = PhaseOf(u)
      BY <1>1, <1>a, <2>1, OthersKept
  <2>3. PhaseOf(new)' = "waiting"
      BY <1>9, <1>10
  <2>4. Channel!Offer(new)
      BY <1>1, <1>5, <1>a, <2>2, <2>3, PhaseMove DEF Channel!Offer
  <2> QED
      BY <1>1, <1>7, <2>4 DEF Channel!Next
<1>11. CASE callbacks' = callbacks /\ buffer' = e /\ buffer # NoEvent /\ ~Stopped
  <2>0. PICK old : old = buffer.n
      OBVIOUS
  <2>1. /\ old = buffer.n /\ old \in 1 .. Len(output) /\ old \in 1 .. MaxEvents /\ old # new
        /\ old \notin ToSet(delivered)
      BY <1>1, <1>11, <2>0 DEF Numbers, Placement, ToSet
  <2>2. \A c \in callbacks : c.event.n # old
      BY <1>1, <1>11, <2>1 DEF Placement, PersistDelivered, Unshown
  <2>3. InHand(old) /\ ~InHand(old)' /\ InHand(new)'
      BY <1>8, <1>11, <2>1, <2>2 DEF InHand
  <2>4. Open
      BY <1>1, <1>11 DEF Cut, Stopped, Open, TypeOK
  <2>5. PhaseOf(old) = "waiting" /\ PhaseOf(old)' = "replaced" /\ PhaseOf(new)' = "waiting"
    <3>1. ~Missed(old)'
        BY <1>1, <2>1, <2>4 DEF Missed, Open, TypeOK
    <3> QED
        BY <1>1, <1>2, <2>1, <2>3, <3>1 DEF PhaseOf
  <2>6. \A u \in (1 .. MaxEvents) \ {old, new} : PhaseOf(u)' = PhaseOf(u)
    <3>1. \A u \in (1 .. MaxEvents) \ {old, new} : InHand(u)' <=> InHand(u)
        BY <1>8, <1>11, <2>1 DEF InHand
    <3> QED
        BY <1>1, <1>a, <3>1, OthersKept
  <2>8. phase' = [phase EXCEPT ![new] = "waiting", ![old] = "replaced"]
    <3> HIDE DEF PhaseOf
    <3> QED
        BY <2>1, <2>5, <2>6, PhasesMove
  <2>9. Channel!Replace(old, new)
      BY <1>5, <1>a, <2>1, <2>4, <2>5, <2>8, PhaseAt DEF Channel!Replace
  <2> QED
      BY <1>1, <1>7, <2>1, <2>9 DEF Channel!Next
<1> QED
    BY <1>6, <1>b, <1>10, <1>11

\* The channel's steps, and the steps it does not notice.
ChannelStep == Channel!Next \/ (phase' = phase /\ Open' = Open)

\* What a step does that leaves the events where they are, but may close the
\* channel.
LEMMA ChannelRests ==
    ASSUME TypeOK, Len(output) <= MaxEvents, CutoffKept,
           UNCHANGED <<worker, output, delivered>>,
           \A u \in 1 .. MaxEvents : u \notin ToSet(delivered) => (InHand(u)' <=> InHand(u))
    PROVE  ChannelStep
<1>1. phase' = phase
    BY PhaseKept
<1>2. (Open' = Open) \/ (Open /\ Open' = FALSE)
    BY StreamAssumption DEF CutoffKept, Open, TypeOK
<1> QED
    BY <1>1, <1>2 DEF ChannelStep, Channel!Next, Channel!Close

\* The callback has put its event on the card, or an error that has no number.
LEMMA DisplayedDelivers ==
    ASSUME IInv, PersistDelivered, NEW c \in callbacks, c.step # "persist", Displayed(c)
    PROVE  ChannelStep /\ PersistDelivered'
<1> DEFINE n == c.event.n
<1> DEFINE d == [c EXCEPT !.step = "persist"]
<1>1. /\ TypeOK /\ Numbers /\ Placement
      /\ Len(output) \in Nat /\ DOMAIN output = 1 .. Len(output) /\ Len(output) <= MaxEvents
      /\ UNCHANGED <<worker, output, buffer, cutoff>> /\ CutoffKept
      /\ c \in Unshown /\ d.event = c.event /\ n \in 0 .. Len(output)
    BY DEF IInv, Held, TypeOK, Displayed, throttler, Unshown, Callbacks, Numbers, Room, CutoffKept
<1>2. callbacks' \in {callbacks \ {c}, (callbacks \ {c}) \cup {d}}
    BY DEF Displayed
<1>3. n = 0 => callbacks' = callbacks \ {c} /\ delivered' = delivered
    BY <1>1 DEF Displayed, Recorded
<1>4. n # 0 => ToSet(delivered') = ToSet(delivered) \cup {n}
    BY <1>1, DeliveredAppended DEF Displayed
<1> HIDE DEF d
<1>5. PersistDelivered'
    BY <1>1, <1>2, <1>3, <1>4 DEF PersistDelivered
<1>6. \A u \in 1 .. MaxEvents : u # n => (InHand(u)' <=> InHand(u))
    BY <1>1, <1>2 DEF InHand
<1>7. CASE n = 0
  <2>1. \A u \in 1 .. MaxEvents : InHand(u)' <=> InHand(u)
      BY <1>6, <1>7
  <2> QED
      BY <1>1, <1>3, <1>5, <1>7, <2>1, ChannelRests
<1>8. CASE n # 0
  <2>1. n \in 1 .. Len(output) /\ n \in 1 .. MaxEvents /\ n \notin ToSet(delivered) /\ InHand(n)
      BY <1>1, <1>8, StreamAssumption DEF Placement, ToSet, InHand
  <2>2. PhaseOf(n) = "waiting" /\ PhaseOf(n)' = "delivered"
      BY <1>1, <1>4, <1>8, <2>1 DEF PhaseOf
  <2>3. \A u \in (1 .. MaxEvents) \ {n} : PhaseOf(u)' = PhaseOf(u)
    <3>1. SUFFICES ASSUME NEW u \in (1 .. MaxEvents) \ {n} PROVE PhaseOf(u)' = PhaseOf(u)
        OBVIOUS
    <3>2. u \in DOMAIN output => (Missed(u)' <=> Missed(u))
        BY <1>1, MissedKept
    <3> QED
        BY <1>1, <1>4, <1>6, <1>8, <3>2, PhaseSame
  <2>4. Open' = Open
      BY <1>1 DEF Open
  <2> HIDE DEF n
  <2>5. Channel!Deliver(n)
      BY <2>1, <2>2, <2>3, <2>4, PhaseMove, PhaseAt DEF Channel!Deliver
  <2> QED
      BY <1>5, <2>1, <2>5 DEF ChannelStep, Channel!Next
<1> QED
    BY <1>7, <1>8

LEMMA StepCut ==
    ASSUME IInv, Cut, [Next]_vars
    PROVE  Cut'
<1> USE DEF outside, history
<1>a. /\ Len(output) \in Nat /\ Len(output) <= MaxEvents /\ MaxEvents \in Nat
      /\ output \in Seq(Immediate \cup Bufferable) /\ Room /\ cutoff \in 0 .. MaxEvents + 1
      /\ \A kind \in Immediate \cup Bufferable :
            output' = Append(output, kind) => Len(output') = Len(output) + 1 /\ output' # <<>>
    BY StreamAssumption DEF IInv, TypeOK, Room
<1>1. CASE Announce \/ ReportDone \/ OutputEnds \/ ScannerFails \/ Flush
           \/ (\E kind \in Immediate \cup Bufferable : ReadLine(kind))
           \/ (\E ok \in BOOLEAN : ProcessExits(ok))
    \* The reader is neither at the end nor stopped.
  <2>1. /\ reader \notin {"stopFailed", "failed", "returned"} /\ reader' \notin {"failed", "returned"}
        /\ cutoff' = cutoff
      BY <1>1 DEF At, Announce, ReportDone, OutputEnds, ScannerFails, Flush, ReadLine, ProcessExits
  <2> QED
      BY <1>a, <2>1 DEF Cut, Stopped
<1>2. ASSUME NEW mentions \in Mentions, AdapterLine(mentions)
      PROVE  Cut'
  <2>1. UNCHANGED <<worker, reader, cutoff>> /\ output # <<>>
      BY <1>2 DEF AdapterLine
  <2>2. output' = Append(output, ParseLine(mentions)) /\ ParseLine(mentions) \in Immediate \cup Bufferable
      BY <1>2 DEF AdapterLine, Push, ParseLine, Immediate, Bufferable
  <2>3. Len(output') = Len(output) + 1
      BY <1>a, <2>2
  <2> QED
      BY <1>a, <2>1, <2>3 DEF Cut, Stopped
<1>3. CASE Interrupted
  <2>1. /\ worker # "cline" /\ worker' = worker /\ reader' = "stopFailed" /\ cutoff' = Len(output)
        /\ Len(output') >= Len(output)
      BY <1>a, <1>3 DEF Interrupted, At, Room
  <2> QED
      BY <1>a, <2>1 DEF Cut, Stopped
<1>4. CASE ClineStartFails
  <2>1. reader = "announce" /\ output = <<>> /\ UNCHANGED <<output, cutoff>> /\ reader' = "failed"
      BY <1>a, <1>4 DEF ClineStartFails, At, Room
  <2> QED
      BY <2>1 DEF Cut
<1>5. CASE Stop
  <2>1. /\ cutoff' = IF cutoff <= MaxEvents THEN cutoff ELSE Len(output)
        /\ output' = output /\ reader' \in {"failed", "returned"}
      BY <1>5 DEF Stop, Stopping
  <2> QED
      BY <1>a, <2>1 DEF Cut
<1>6. CASE ReportError
  <2>1. reader = "failed" /\ reader' = "returned" /\ UNCHANGED <<worker, output, cutoff>>
      BY <1>6 DEF ReportError, At
  <2> QED
      BY <2>1 DEF Cut, Stopped
<1>7. CASE TimerExpires \/ OrphanExpires \/ TimerFlush \/ UNCHANGED vars
           \/ (\E c \in callbacks : Show(c) \/ Post(c) \/ Persist(c))
  <2>1. UNCHANGED <<worker, output, reader, cutoff>>
      BY <1>7 DEF TimerExpires, OrphanExpires, TimerFlush, vars, Show, Post, Persist, Displayed
  <2> QED
      BY <2>1 DEF Cut, Stopped
<1> QED
    BY <1>1, <1>2, <1>3, <1>4, <1>5, <1>6, <1>7 DEF Next

LEMMA StepChannel ==
    ASSUME IInv, Cut, PersistDelivered, [Next]_vars
    PROVE  ChannelStep /\ PersistDelivered'
<1> USE DEF outside, history
<1>a. /\ TypeOK /\ Room /\ Numbers /\ Placement
      /\ Len(output) \in Nat /\ MaxEvents \in Nat /\ Len(output) <= MaxEvents
      /\ output = <<>> => Len(output) = 0
    BY StreamAssumption DEF IInv, Held, TypeOK, Room
<1>1. CASE Announce
  <2>1. /\ Push("start", "reader") /\ reader = "announce" /\ UNCHANGED <<worker, delivered, cutoff>>
        /\ "start" \in Immediate \cup Bufferable
      BY <1>1 DEF Announce, At, Immediate
  <2>2. Len(output) < MaxEvents
      BY <1>a, <2>1, StreamAssumption DEF Room
  <2> QED
      BY <2>1, <2>2, PushOffers DEF ChannelStep
<1>2. ASSUME NEW kind \in Immediate \cup Bufferable, ReadLine(kind)
      PROVE  ChannelStep /\ PersistDelivered'
    BY <1>2, PushOffers DEF ReadLine, NextLine, At, ChannelStep
<1>3. ASSUME NEW mentions \in Mentions, AdapterLine(mentions)
      PROVE  ChannelStep /\ PersistDelivered'
  <2> DEFINE kind == ParseLine(mentions)
  <2>1. /\ Push(kind, "adapter") /\ Len(output) < MaxEvents /\ UNCHANGED <<worker, delivered, cutoff>>
        /\ kind \in Immediate \cup Bufferable /\ worker = "cline" /\ output # <<>>
      BY <1>3, <1>a DEF AdapterLine, ParseLine, Immediate, Bufferable
  <2> HIDE DEF kind
  <2> QED
      BY <2>1, PushOffers DEF ChannelStep
<1>4. CASE ReportDone
  <2>1. /\ Push("done", "reader") /\ reader = "report" /\ UNCHANGED <<worker, delivered, cutoff>>
        /\ "done" \in Immediate \cup Bufferable
      BY <1>4 DEF ReportDone, At, Immediate
  <2>2. Len(output) < MaxEvents
      BY <1>a, <2>1 DEF Room
  <2> QED
      BY <2>1, <2>2, PushOffers DEF ChannelStep
<1>5. CASE Flush \/ Stop \/ TimerFlush
    \* The buffered event changes hands.
  <2>1. PICK goroutine :
          /\ callbacks' = callbacks \cup Taken(goroutine)
          /\ buffer' = NoEvent
          /\ UNCHANGED <<worker, output, delivered>>
      BY <1>5 DEF Flush, Stop, Stopping, TimerFlush, Empty
  <2>2. \A c \in Taken(goroutine) : c.event = buffer /\ c.step = "show" /\ buffer # NoEvent
      BY DEF Taken, Callback
  <2>3. buffer # NoEvent => \E c \in Taken(goroutine) : c.event = buffer
      BY DEF Taken, Callback
  <2>4. \A u \in 1 .. MaxEvents : InHand(u)' <=> InHand(u)
      BY <2>1, <2>2, <2>3 DEF InHand
  <2>5. PersistDelivered'
      BY <2>1, <2>2 DEF PersistDelivered
  <2>6. CutoffKept
      BY <1>a, <1>5 DEF Flush, Stop, Stopping, TimerFlush, CutoffKept, TypeOK
  <2> QED
      BY <1>a, <2>1, <2>4, <2>5, <2>6, ChannelRests
<1>6. CASE \/ ClineStartFails \/ OutputEnds \/ ScannerFails \/ ReportError
           \/ (\E ok \in BOOLEAN : ProcessExits(ok))
           \/ TimerExpires \/ OrphanExpires \/ UNCHANGED vars
    \* At most an error without a number comes into hand.
  <2> DEFINE r == Callback(Report, "reader")
  <2>1. /\ callbacks' \in {callbacks, callbacks \cup {r}}
        /\ UNCHANGED <<worker, output, delivered, buffer, cutoff>>
      BY <1>6 DEF ClineStartFails, OutputEnds, ScannerFails, ReportError,
                  ProcessExits, TimerExpires, OrphanExpires, vars, throttler
  <2>2. r.event.n = 0 /\ r.step = "show"
      BY DEF Callback, Report
  <2> HIDE DEF r
  <2>3. \A u \in 1 .. MaxEvents : InHand(u)' <=> InHand(u)
      BY <2>1, <2>2 DEF InHand
  <2>4. PersistDelivered'
      BY <2>1, <2>2 DEF PersistDelivered
  <2> QED
      BY <1>a, <2>1, <2>3, <2>4, ChannelRests DEF CutoffKept
<1>7. CASE Interrupted
    \* The channel is closed, with or without the loss of a line.
  <2>1. /\ reader = "reading" /\ cutoff' = Len(output)
        /\ UNCHANGED <<worker, buffer, callbacks, delivered>>
      BY <1>7 DEF Interrupted, At, throttler
  <2>2. worker # "cline"
      BY <1>a, <2>1 DEF Room
  <2>3. CutoffKept
      BY <1>a, <2>1 DEF Cut, CutoffKept, TypeOK
  <2>4. PersistDelivered'
      BY <2>1 DEF PersistDelivered
  <2>5. CASE output' = output
    <3>1. \A u \in 1 .. MaxEvents : InHand(u)' <=> InHand(u)
        BY <2>1 DEF InHand
    <3> QED
        BY <1>a, <2>1, <2>3, <2>4, <2>5, <3>1, ChannelRests
  <2>6. ASSUME NEW kind \in Immediate \cup Bufferable, NextLine(kind), output' = Append(output, kind)
        PROVE  ChannelStep /\ PersistDelivered'
    <3>1. cutoff' <= Len(output) /\ Len(output) < MaxEvents
        BY <1>a, <2>1, <2>6 DEF NextLine
    <3> QED
        BY <2>1, <2>2, <2>3, <2>4, <2>6, <3>1, LineDropped DEF ChannelStep
  <2> QED
      BY <1>7, <2>5, <2>6 DEF Interrupted
<1>8. ASSUME NEW c \in callbacks, Show(c)
      PROVE  ChannelStep /\ PersistDelivered'
  <2>1. CASE Posts(c.event)
    <3> DEFINE d == [c EXCEPT !.step = "post"]
    <3>1. /\ callbacks' = (callbacks \ {c}) \cup {d}
          /\ UNCHANGED <<worker, output, delivered, buffer, cutoff>>
        BY <1>8, <2>1 DEF Show, throttler
    <3>2. d.event = c.event /\ d.step = "post"
        BY <1>a DEF TypeOK, Callbacks
    <3> HIDE DEF d
    <3>3. \A u \in 1 .. MaxEvents : InHand(u)' <=> InHand(u)
        BY <3>1, <3>2 DEF InHand
    <3>4. PersistDelivered'
        BY <3>1, <3>2 DEF PersistDelivered
    <3> QED
        BY <1>a, <3>1, <3>3, <3>4, ChannelRests DEF CutoffKept
  <2>2. CASE ~Posts(c.event)
      BY <1>8, <2>2, DisplayedDelivers DEF Show
  <2> QED
      BY <2>1, <2>2
<1>9. ASSUME NEW c \in callbacks, Post(c)
      PROVE  ChannelStep /\ PersistDelivered'
    BY <1>9, DisplayedDelivers DEF Post
<1>10. ASSUME NEW c \in callbacks, Persist(c)
      PROVE  ChannelStep /\ PersistDelivered'
    \* The event that leaves the callback's hands is on the card.
  <2>1. /\ callbacks' = callbacks \ {c} /\ c.step = "persist"
        /\ UNCHANGED <<worker, output, delivered, buffer, cutoff>>
      BY <1>10 DEF Persist, throttler
  <2>2. c.event.n \in ToSet(delivered)
      BY <2>1 DEF PersistDelivered
  <2>3. \A u \in 1 .. MaxEvents : u \notin ToSet(delivered) => (InHand(u)' <=> InHand(u))
      BY <2>1, <2>2 DEF InHand
  <2>4. PersistDelivered'
      BY <2>1 DEF PersistDelivered
  <2> QED
      BY <1>a, <2>1, <2>3, <2>4, ChannelRests DEF CutoffKept
<1> QED
    BY <1>1, <1>2, <1>3, <1>4, <1>5, <1>6, <1>7, <1>8, <1>9, <1>10 DEF Next

LEMMA InitChannel ==
    ASSUME Init PROVE Channel!Init /\ PersistDelivered /\ Cut
<1>1. DOMAIN output = {} /\ output = <<>> /\ callbacks = {} /\ cutoff = MaxEvents + 1 /\ MaxEvents \in Nat
    BY StreamAssumption DEF Init
<1>2. \A n \in 1 .. MaxEvents : PhaseOf(n) = "new"
    BY <1>1 DEF PhaseOf
<1>3. Open = TRUE
    BY <1>1 DEF Open
<1> QED
    BY <1>1, <1>2, <1>3 DEF Channel!Init, phase, PersistDelivered, Cut

\* The stream implements the channel of updates: whatever timers, Flush, Stop,
\* the adapter and the callbacks do, each update is offered in order, delivered
\* at most once, and given up only in the step that brings its successor;
\* what is neither is dropped when the worker is stopped or times out or the
\* throttler has stopped (MessageThrottler, readLoop and the stream callback).
THEOREM StreamImplementsChannel == Spec => ImplementsChannel
<1>1. Init => Channel!Init /\ PersistDelivered /\ Cut
    BY InitChannel
<1>2. IInv /\ Cut /\ PersistDelivered /\ [Next]_vars
        => [Channel!Next]_(Channel!vars) /\ PersistDelivered' /\ Cut'
    BY StepChannel, StepCut DEF ChannelStep, Channel!vars
<1> QED
    BY <1>1, <1>2, IInvHolds, PTL DEF Spec, ImplementsChannel, Channel!Spec

-----------------------------------------------------------------------------
\* What became of the updates that are not shown.

\* The buffered event is the one the output has under its number.
BufferFits == buffer # NoEvent => /\ buffer.n \in DOMAIN output
                                  /\ output[buffer.n] = buffer.kind
                                  /\ buffer.kind \in Bufferable

NothingLost == \A n \in DOMAIN output :
                  n \in ToSet(delivered) \/ InHand(n) \/ Superseded(n) \/ Missed(n)

\* How the output grows: the next event is pushed, or its line is lost.
Pushed == \E kind \in Immediate \cup Bufferable, by \in {"reader", "adapter"} :
             /\ Push(kind, by)
             /\ by = "reader"  => reader \in {"announce", "reading", "report"}
             /\ by = "adapter" => worker = "cline" /\ output # <<>>

LineLost == /\ \E kind \in Immediate \cup Bufferable : output' = Append(output, kind)
            /\ worker # "cline" /\ cutoff' = Len(output)
            /\ UNCHANGED <<buffer, callbacks>>

LEMMA OutputGrows ==
    ASSUME IInv, Cut, [Next]_vars
    PROVE  /\ worker' = worker /\ CutoffKept
           /\ \/ output' = output /\ buffer' \in {buffer, NoEvent}
              \/ UNCHANGED <<delivered, cutoff>> /\ Pushed
              \/ UNCHANGED delivered /\ LineLost
<1> USE DEF outside, history
<1>a. TypeOK /\ Room
    BY DEF IInv
<1>1. CASE Announce \/ ReportDone
    BY <1>1 DEF Announce, ReportDone, At, Immediate, Pushed, CutoffKept
<1>2. CASE \E kind \in Immediate \cup Bufferable : ReadLine(kind)
    BY <1>2 DEF ReadLine, At, Pushed, CutoffKept
<1>3. ASSUME NEW mentions \in Mentions, AdapterLine(mentions)
      PROVE  UNCHANGED <<worker, delivered, cutoff>> /\ Pushed
    BY <1>3 DEF AdapterLine, ParseLine, Immediate, Bufferable, Pushed
<1>4. CASE Interrupted
  <2>1. /\ worker # "cline" /\ CutoffKept /\ cutoff' = Len(output)
        /\ UNCHANGED <<worker, buffer, callbacks, delivered>>
      BY <1>a, <1>4, StreamAssumption DEF Interrupted, At, Room, Cut, CutoffKept, TypeOK, throttler
  <2> QED
      BY <1>4, <2>1 DEF Interrupted, LineLost
<1>5. CASE ClineStartFails \/ OutputEnds \/ ScannerFails \/ ReportError
           \/ (\E ok \in BOOLEAN : ProcessExits(ok)) \/ Flush \/ TimerFlush
           \/ TimerExpires \/ OrphanExpires \/ UNCHANGED vars
    BY <1>5 DEF ClineStartFails, OutputEnds, ScannerFails, ReportError, ProcessExits,
                Flush, TimerFlush, Empty, TimerExpires, OrphanExpires, vars, throttler, CutoffKept
<1>6. CASE Stop
    BY <1>a, <1>6, StreamAssumption DEF Stop, Stopping, Empty, CutoffKept, TypeOK
<1>7. CASE \E c \in callbacks : Show(c) \/ Post(c) \/ Persist(c)
    BY <1>7 DEF Show, Post, Persist, Displayed, throttler, CutoffKept
<1> QED
    BY <1>1, <1>2, <1>3, <1>4, <1>5, <1>6, <1>7 DEF Next, CutoffKept

LEMMA StepNothingLost ==
    ASSUME IInv, Cut, PersistDelivered, BufferFits, NothingLost, [Next]_vars
    PROVE  (BufferFits /\ NothingLost)'
<1>a. /\ TypeOK /\ output \in Seq(Immediate \cup Bufferable)
      /\ Len(output) \in Nat /\ DOMAIN output = 1 .. Len(output)
      /\ Len(output) <= MaxEvents /\ MaxEvents \in Nat
    BY StreamAssumption DEF IInv, TypeOK, Room
<1>b. Len(output') <= MaxEvents
  <2>1. IInv'
      BY StepIInv
  <2> QED
      BY <2>1 DEF IInv, Room
<1>c. /\ DOMAIN output \subseteq DOMAIN output'
      /\ \A n \in DOMAIN output : output'[n] = output[n]
  <2>1. output' = output \/ \E kind \in Immediate \cup Bufferable : output' = Append(output, kind)
      BY OutputGrows DEF Pushed, Push, LineLost
  <2>2. ASSUME NEW kind \in Immediate \cup Bufferable, output' = Append(output, kind)
        PROVE  /\ DOMAIN output \subseteq DOMAIN output'
               /\ \A n \in DOMAIN output : output'[n] = output[n]
      BY <1>a, <2>2
  <2> QED
      BY <2>1, <2>2
<1>d. \A n \in DOMAIN output : Missed(n)' <=> Missed(n)
    BY <1>a, <1>c, OutputGrows, MissedKept
<1>e. \A n \in DOMAIN output : Superseded(n) => Superseded(n)'
  <2>1. SUFFICES ASSUME NEW n \in DOMAIN output, NEW m \in DOMAIN output, n < m, ~Missed(m),
                        {output[n], output[m]} \subseteq Bufferable
                 PROVE  Superseded(n)'
      BY DEF Superseded
  <2>2. m \in DOMAIN output' /\ ~Missed(m)' /\ {output'[n], output'[m]} \subseteq Bufferable
      BY <1>c, <1>d, <2>1
  <2> QED
      BY <2>1, <2>2 DEF Superseded
<1>1. CASE output' = output /\ buffer' \in {buffer, NoEvent}
    \* An event that was in hand still is, or is delivered.
  <2>1. BufferFits'
      BY <1>1 DEF BufferFits
  <2>2. Channel!Next \/ phase' = phase
      BY StepChannel DEF ChannelStep
  <2>3. ASSUME NEW n \in DOMAIN output, PhaseOf(n) \in {"delivered", "waiting"}
        PROVE  PhaseOf(n)' \in {"delivered", "waiting"}
    <3>1. n \in 1 .. MaxEvents
        BY <1>a
    <3>2. \A m \in 1 .. MaxEvents : PhaseOf(m)' = "new" <=> PhaseOf(m) = "new"
        BY <1>1 DEF PhaseOf
    <3>3. phase \in [1 .. MaxEvents -> {"new", "delivered", "waiting", "dropped", "replaced"}]
        BY DEF phase, PhaseOf
    <3>4. phase'[n] \in {"delivered", "waiting"}
        \* Nothing is replaced or dropped, as that takes a new event.
      <4>1. \A m \in 1 .. MaxEvents : phase'[m] = "new" <=> phase[m] = "new"
          BY <3>2, PhaseAt
      <4>2. /\ ~ \E m, k \in 1 .. MaxEvents : Channel!Replace(m, k)
            /\ ~ \E m \in 1 .. MaxEvents : Channel!Drop(m)
          BY <3>3, <4>1 DEF Channel!Replace, Channel!Drop, Channel!Turn
      <4>3. phase[n] \in {"delivered", "waiting"}
          BY <2>3, <3>1, PhaseAt
      <4> QED
          BY <2>2, <3>1, <3>3, <4>2, <4>3
             DEF Channel!Next, Channel!Offer, Channel!Deliver, Channel!Close
    <3> QED
        BY <3>1, <3>4, PhaseAt
  <2>4. \A n \in DOMAIN output : n \in ToSet(delivered) \/ InHand(n) => n \in ToSet(delivered') \/ InHand(n)'
      BY <1>1, <2>3 DEF PhaseOf, InHand
  <2> QED
      BY <1>1, <1>d, <1>e, <2>1, <2>4 DEF NothingLost
<1>2. ASSUME NEW kind \in Immediate \cup Bufferable, NEW by \in {"reader", "adapter"},
             Push(kind, by), UNCHANGED <<worker, delivered, cutoff>>,
             by = "reader"  => reader \in {"announce", "reading", "report"},
             by = "adapter" => worker = "cline" /\ output # <<>>
      PROVE  (BufferFits /\ NothingLost)'
  <2>0. PICK new : new = Len(output) + 1
      OBVIOUS
  <2> DEFINE e == [n |-> new, kind |-> kind]
  <2>1. /\ output' = Append(output, kind) /\ new \in Nat /\ new = Len(output) + 1
      BY <1>a, <1>2, <2>0 DEF Push
  <2>2. /\ DOMAIN output' = 1 .. new /\ output'[new] = kind
        /\ \A n \in DOMAIN output : n \in DOMAIN output' /\ n < new /\ output'[n] = output[n]
      BY <1>a, <2>1
  <2>3. \/ callbacks' = callbacks \cup {Callback(e, by)} /\ buffer' = buffer
        \/ callbacks' = callbacks /\ buffer' = e /\ kind \in Bufferable /\ ~Stopped
        \/ UNCHANGED <<callbacks, buffer>> /\ kind \in Bufferable /\ Stopped
      BY <1>2, <2>0 DEF Push, PushNow, PushBuffered, throttler
  <2>4. e \in Events /\ e # NoEvent /\ Callback(e, by).event = e /\ e.n = new /\ e.kind = kind
    <3>1. new <= MaxEvents
        BY <1>a, <1>b, <2>1 DEF Push
    <3> QED
        BY <2>1, <3>1, <1>a, StreamAssumption DEF Events, Callback
  <2> HIDE DEF e
  <2>5. BufferFits'
      BY <2>1, <2>2, <2>3, <2>4 DEF BufferFits
  <2>6. InHand(new)' \/ Missed(new)'
    <3>1. ~Stopped => InHand(new)'
        BY <2>3, <2>4 DEF InHand
    <3>2. CASE callbacks' = callbacks \cup {Callback(e, by)}
        BY <2>4, <3>2 DEF InHand
    <3>3. CASE kind \in Bufferable /\ Stopped
      <4>1. cutoff' = cutoff /\ cutoff <= Len(output) /\ cutoff \in Nat
          BY <1>2, <1>a, <3>3 DEF Cut, Stopped, TypeOK
      <4> QED
          BY <1>a, <2>1, <2>2, <3>3, <4>1 DEF Missed
    <3> QED
        BY <2>3, <3>1, <3>2, <3>3
  <2>7. \A n \in DOMAIN output : InHand(n) => InHand(n)' \/ Superseded(n)'
    <3>1. \A n \in DOMAIN output : (\E c \in callbacks : c.event.n = n) => InHand(n)'
        BY <2>3 DEF InHand
    <3>2. ASSUME NEW n \in DOMAIN output, buffer # NoEvent, buffer.n = n, buffer' # buffer
          PROVE  Superseded(n)'
      <4>1. output'[n] \in Bufferable /\ output'[new] \in Bufferable /\ ~Stopped
          BY <2>2, <2>3, <3>2 DEF BufferFits
      <4>2. ~Missed(new)'
          BY <1>2, <1>a, <1>b, <2>1, <2>2, <4>1 DEF Cut, Stopped, Missed, TypeOK
      <4> QED
          BY <2>1, <2>2, <4>1, <4>2 DEF Superseded
    <3> QED
        BY <3>1, <3>2 DEF InHand
  <2>8. \A n \in DOMAIN output' : n \in DOMAIN output \/ n = new
      BY <1>a, <2>1, <2>2
  <2> QED
      BY <1>2, <1>d, <1>e, <2>5, <2>6, <2>7, <2>8 DEF NothingLost
<1>3. CASE UNCHANGED delivered /\ LineLost
    \* The line's event misses the channel.
  <2>0. PICK kind \in Immediate \cup Bufferable : output' = Append(output, kind)
      BY <1>3 DEF LineLost
  <2>1. PICK new : new = Len(output) + 1
      OBVIOUS
  <2>2. DOMAIN output' = 1 .. new /\ new \in Nat /\ \A n \in DOMAIN output' : n \in DOMAIN output \/ n = new
      BY <1>a, <2>0, <2>1
  <2>3. Missed(new)'
      BY <1>3, <1>a, <2>1, <2>2, OutputGrows DEF Missed, LineLost
  <2>4. BufferFits'
      BY <1>3, <1>c DEF BufferFits, LineLost
  <2>5. \A n \in DOMAIN output : InHand(n) => InHand(n)'
      BY <1>3 DEF InHand, LineLost
  <2> QED
      BY <1>3, <1>d, <1>e, <2>2, <2>3, <2>4, <2>5 DEF NothingLost
<1> QED
    BY <1>1, <1>2, <1>3, OutputGrows DEF Pushed

\* What becomes of an update: every event of the output has been delivered, is
\* on its way (in the buffer, which BufferIsWatched, or with a callback), is a
\* bufferable one that a later one in the channel has superseded, or has missed
\* the channel because the reader threw its line away or the throttler had
\* stopped.  This is what the stream keeps true at all times of
\* EveryUpdateDelivered.
THEOREM NoUpdateLost == Spec => []NothingLost
<1>1. Init => PersistDelivered /\ Cut /\ BufferFits /\ NothingLost
  <2>1. Init => DOMAIN output = {}
      BY DEF Init
  <2> QED
      BY InitChannel, <2>1 DEF Init, BufferFits, NothingLost
<1>2. IInv /\ PersistDelivered /\ Cut /\ BufferFits /\ NothingLost /\ [Next]_vars
        => (PersistDelivered /\ Cut /\ BufferFits /\ NothingLost)'
    BY StepChannel, StepCut, StepNothingLost
<1> QED
    BY <1>1, <1>2, IInvHolds, PTL DEF Spec

-----------------------------------------------------------------------------
\* How an end can be taken back.

\* The callbacks know their event, and record only what has a number.
EventsFit == /\ \A c \in callbacks : c.event.n # 0 => output[c.event.n] = c.event.kind
             /\ \A c \in callbacks : c.step = "persist" => Recorded(c.event)

\* Without an adapter, an event that is not buffered is the last one as long
\* as the reader is in its callback, the end is the last one anyway, and a
\* recorded end is that of the output.
EndsFit == worker # "cline" =>
    /\ \A c \in callbacks : (c.event.n # 0 /\ c.event.kind \in Immediate)
            => c.by = "reader" /\ c.event.n = Len(output)
    /\ \A i \in DOMAIN output : output[i] \in Final => i = Len(output)
    /\ record \in Final => output # <<>> /\ record = output[Len(output)]

LEMMA PushKeepsEnds ==
    ASSUME IInv, EventsFit, EndsFit,
           NEW kind \in Immediate \cup Bufferable, NEW by \in {"reader", "adapter"}, Push(kind, by),
           worker # "cline" => /\ by = "reader" /\ Free("reader")
                               /\ output # <<>> => Last(output) \notin Final,
           UNCHANGED <<worker, record>>
    PROVE  EventsFit' /\ EndsFit'
<1> DEFINE e == [n |-> Len(output) + 1, kind |-> kind]
<1> DEFINE k == Callback(e, by)
<1>1. /\ output \in Seq(Immediate \cup Bufferable) /\ Len(output) \in Nat
      /\ DOMAIN output = 1 .. Len(output)
      /\ \A c \in callbacks : c.event.n \in 0 .. Len(output)
    BY DEF IInv, TypeOK, Held, Numbers
<1>2. /\ output' = Append(output, kind) /\ Len(output') = Len(output) + 1
      /\ DOMAIN output' = 1 .. Len(output) + 1
      /\ output'[Len(output) + 1] = kind
      /\ \A i \in 1 .. Len(output) : output'[i] = output[i]
    BY <1>1 DEF Push
<1>3. k.event = e /\ e.n = Len(output) + 1 /\ e.kind = kind /\ k.by = by /\ k.step = "show"
    BY DEF Callback
<1>4. callbacks' \in {callbacks, callbacks \cup {k}}
    BY DEF Push, PushNow, PushBuffered
<1> HIDE DEF k, e
<1>5. EventsFit'
    BY <1>1, <1>2, <1>3, <1>4 DEF EventsFit, Recorded
<1>6. CASE worker # "cline"
  <2>1. \A c \in callbacks : c.event.n # 0 => c.event.kind \notin Immediate
      BY <1>6 DEF EndsFit, Free
  <2>2. \A i \in DOMAIN output : output[i] \notin Final
      BY <1>1, <1>6 DEF EndsFit, Last
  <2>3. record \notin Final
      BY <1>1, <1>6, <2>2 DEF EndsFit
  <2> QED
      BY <1>1, <1>2, <1>3, <1>4, <1>5, <1>6, <2>1, <2>2, <2>3 DEF EndsFit
<1> QED
    BY <1>5, <1>6 DEF EndsFit

\* Callbacks that come, go or move on without a record written.
LEMMA MoveKeepsEnds ==
    ASSUME EventsFit, EndsFit, UNCHANGED <<worker, output, record>>,
           \A d \in callbacks' :
              \/ d \in callbacks
              \/ /\ d.step # "persist"
                 /\ d.event.n # 0 => output[d.event.n] = d.event.kind /\ d.event.kind \notin Immediate
              \/ \E c \in callbacks : /\ d.event = c.event /\ d.by = c.by
                                      /\ d.step = "persist" => Recorded(d.event)
    PROVE  EventsFit' /\ EndsFit'
<1>1. EventsFit'
    BY DEF EventsFit, Recorded
<1>2. EndsFit'
    BY DEF EndsFit
<1> QED
    BY <1>1, <1>2

\* A line that is lost comes from the reader, who is in no callback.
LEMMA LostLineKeepsEnds ==
    ASSUME IInv, EventsFit, EndsFit, Free("reader"), reader = "reading",
           NEW kind \in Immediate \cup Bufferable, NextLine(kind), output' = Append(output, kind),
           UNCHANGED <<worker, callbacks, record>>
    PROVE  EventsFit' /\ EndsFit'
<1>1. /\ output \in Seq(Immediate \cup Bufferable) /\ Len(output) \in Nat
      /\ DOMAIN output = 1 .. Len(output)
      /\ \A c \in callbacks : c.event.n \in 0 .. Len(output)
      /\ worker # "cline"
    BY DEF IInv, TypeOK, Held, Numbers, Room
<1>2. /\ Len(output') = Len(output) + 1 /\ DOMAIN output' = 1 .. Len(output) + 1
      /\ \A i \in 1 .. Len(output) : output'[i] = output[i]
    BY <1>1
<1>3. EventsFit'
    BY <1>1, <1>2 DEF EventsFit, Recorded
<1>4. \A c \in callbacks : c.event.n # 0 => c.event.kind \notin Immediate
    BY <1>1 DEF EndsFit, Free
<1>5. \A i \in DOMAIN output : output[i] \notin Final
    BY <1>1 DEF EndsFit, NextLine, Last
<1>6. record \notin Final
    BY <1>1, <1>5 DEF EndsFit
<1> QED
    BY <1>1, <1>2, <1>3, <1>4, <1>5, <1>6 DEF EndsFit

LEMMA StepEnds ==
    ASSUME IInv, BufferFits, EventsFit, EndsFit, [Next]_vars
    PROVE  EventsFit' /\ EndsFit'
<1> USE DEF outside, history
<1>a. TypeOK /\ Room
    BY DEF IInv
<1>1. CASE Announce
  <2>1. /\ Push("start", "reader") /\ Free("reader") /\ output = <<>> /\ UNCHANGED <<worker, record>>
        /\ "start" \in Immediate \cup Bufferable
      BY <1>a, <1>1 DEF Announce, At, Room, Immediate
  <2> QED
      BY <2>1, PushKeepsEnds
<1>2. ASSUME NEW kind \in Immediate \cup Bufferable, ReadLine(kind)
      PROVE  EventsFit' /\ EndsFit'
    BY <1>2, PushKeepsEnds DEF ReadLine, NextLine, At
<1>3. ASSUME NEW mentions \in Mentions, AdapterLine(mentions)
      PROVE  EventsFit' /\ EndsFit'
  <2> DEFINE kind == ParseLine(mentions)
  <2>1. /\ Push(kind, "adapter") /\ worker = "cline" /\ UNCHANGED <<worker, record>>
        /\ kind \in Immediate \cup Bufferable
      BY <1>3 DEF AdapterLine, ParseLine, Immediate, Bufferable
  <2> HIDE DEF kind
  <2> QED
      BY <2>1, PushKeepsEnds
<1>4. CASE ReportDone
  <2>1. /\ Push("done", "reader") /\ worker = "cline" /\ UNCHANGED <<worker, record>>
        /\ "done" \in Immediate \cup Bufferable
      BY <1>a, <1>4 DEF ReportDone, At, Room, Immediate
  <2> QED
      BY <2>1, PushKeepsEnds
<1>5. CASE Flush \/ Stop \/ TimerFlush
  <2>1. /\ \E goroutine : callbacks' = callbacks \cup Taken(goroutine)
        /\ UNCHANGED <<worker, output, record>>
      BY <1>5 DEF Flush, Stop, Stopping, TimerFlush, Empty
  <2>2. \A goroutine : \A d \in Taken(goroutine) :
          d.event = buffer /\ d.step = "show" /\ buffer # NoEvent
      BY DEF Taken, Callback
  <2>3. buffer # NoEvent => output[buffer.n] = buffer.kind /\ buffer.kind \notin Immediate
      BY DEF BufferFits, Bufferable, Immediate
  <2> QED
      BY <2>1, <2>2, <2>3, MoveKeepsEnds
<1>6. CASE (Interrupted /\ output' = output) \/ ClineStartFails \/ OutputEnds \/ ScannerFails \/ ReportError
           \/ (\E ok \in BOOLEAN : ProcessExits(ok)) \/ TimerExpires \/ OrphanExpires \/ UNCHANGED vars
  <2> DEFINE r == Callback(Report, "reader")
  <2>1. /\ callbacks' \in {callbacks, callbacks \cup {r}}
        /\ UNCHANGED <<worker, output, record>>
      BY <1>6 DEF Interrupted, ClineStartFails, OutputEnds, ScannerFails, ReportError,
                  ProcessExits, TimerExpires, OrphanExpires, vars
  <2>2. r.event.n = 0 /\ r.step = "show"
      BY DEF Callback, Report
  <2> HIDE DEF r
  <2> QED
      BY <2>1, <2>2, MoveKeepsEnds
<1>b. ASSUME NEW kind \in Immediate \cup Bufferable, Interrupted, NextLine(kind),
             output' = Append(output, kind)
      PROVE  EventsFit' /\ EndsFit'
    BY <1>b, LostLineKeepsEnds DEF Interrupted, At
<1>7. ASSUME NEW c \in callbacks, Show(c) \/ Post(c)
      PROVE  EventsFit' /\ EndsFit'
  <2>1. \A s : [c EXCEPT !.step = s].event = c.event /\ [c EXCEPT !.step = s].by = c.by
               /\ [c EXCEPT !.step = s].step = s
      BY <1>a DEF TypeOK, Callbacks
  <2> DEFINE p == [c EXCEPT !.step = "post"]
  <2> DEFINE q == [c EXCEPT !.step = "persist"]
  <2>2. /\ \/ callbacks' = (callbacks \ {c}) \cup {p}
           \/ callbacks' = callbacks \ {c}
           \/ callbacks' = (callbacks \ {c}) \cup {q} /\ Recorded(c.event)
        /\ UNCHANGED <<worker, output, record>>
      BY <1>7 DEF Show, Post, Displayed
  <2>3. /\ p.event = c.event /\ p.by = c.by /\ p.step = "post"
        /\ q.event = c.event /\ q.by = c.by /\ q.step = "persist"
      BY <2>1
  <2> HIDE DEF p, q
  <2>4. \A d \in callbacks' : d \in callbacks \/ d = p \/ (d = q /\ Recorded(c.event))
      BY <2>2
  <2>5. \A d \in callbacks' :
          \/ d \in callbacks
          \/ \E b \in callbacks : /\ d.event = b.event /\ d.by = b.by
                                  /\ d.step = "persist" => Recorded(d.event)
      BY <2>3, <2>4
  <2> QED
      BY <2>2, <2>5, MoveKeepsEnds
<1>8. ASSUME NEW c \in callbacks, Persist(c)
      PROVE  EventsFit' /\ EndsFit'
  <2>1. /\ callbacks' = callbacks \ {c} /\ c.step = "persist" /\ UNCHANGED <<worker, output>>
        /\ record' = record \/ record' = StatusOf(c.event.kind)
      BY <1>8 DEF Persist
  <2>2. EventsFit'
      BY <2>1 DEF EventsFit, Recorded
  <2>3. /\ c.event.n # 0 /\ output[c.event.n] = c.event.kind /\ worker # "cline"
        /\ c.event.n \in 1 .. Len(output)
    <3>1. Recorded(c.event) /\ c.event.n \in 0 .. Len(output) /\ Len(output) \in Nat
        BY <1>a, <2>1 DEF EventsFit, IInv, Held, Numbers, TypeOK
    <3> QED
        BY <3>1 DEF Recorded, EventsFit
  <2>4. record' \in Final => record' = output[Len(output)]
    <3>1. CASE record' = record
        BY <2>3, <3>1 DEF EndsFit
    <3>2. CASE record' = StatusOf(c.event.kind) /\ record' \in Final
      <4>1. c.event.kind \in Final /\ record' = c.event.kind
          BY <1>a, <3>2 DEF StatusOf, Final
      <4>2. c.event.n = Len(output)
          BY <2>3, <4>1 DEF EndsFit, Final, Immediate
      <4> QED
          BY <2>3, <4>1, <4>2
    <3> QED
        BY <2>1, <3>1, <3>2
  <2>5. output # <<>>
      BY <2>3
  <2> QED
      BY <2>1, <2>2, <2>3, <2>4, <2>5 DEF EndsFit
<1>9. Interrupted => EventsFit' /\ EndsFit'
    BY <1>6, <1>b DEF Interrupted
<1> QED
    BY <1>1, <1>2, <1>3, <1>4, <1>5, <1>6, <1>7, <1>8, <1>9 DEF Next

\* A recorded end is taken back by an update from before it that was still in
\* the throttler or with a timer's callback, and by nothing else: a second
\* start event comes before it, a later error has no event, and a worker ends
\* once (the stream callback, which persists every event that has a task).
THEOREM EndUndoneByOlderUpdateHolds == Spec => EndUndoneByOlderUpdate
<1>1. Init => PersistDelivered /\ Cut /\ BufferFits /\ NothingLost /\ EventsFit /\ EndsFit
  <2>1. Init => DOMAIN output = {} /\ record \notin Final
      BY DEF Init, Final
  <2> QED
      BY InitChannel, <2>1 DEF Init, BufferFits, NothingLost, EventsFit, EndsFit
<1>2. IInv /\ PersistDelivered /\ Cut /\ BufferFits /\ NothingLost /\ EventsFit /\ EndsFit /\ [Next]_vars
        => (PersistDelivered /\ Cut /\ BufferFits /\ NothingLost /\ EventsFit /\ EndsFit)'
    BY StepChannel, StepCut, StepNothingLost, StepEnds
<1>3. ASSUME IInv, EventsFit, EndsFit, [Next]_vars, record \in Final, record' # record
      PROVE  \E c \in callbacks \ callbacks' :
                c.event.kind \in Bufferable /\ c.event.n < Len(output)
  <2>1. PICK c \in callbacks : Persist(c)
    <3>1. CASE \E c \in callbacks : Show(c) \/ Post(c) \/ Persist(c)
        BY <1>3, <3>1 DEF Show, Post, Displayed, outside
    <3>2. CASE UNCHANGED record
        BY <1>3, <3>2
    <3>3. ~ (\E c \in callbacks : Show(c) \/ Post(c) \/ Persist(c)) => UNCHANGED record
        BY <1>3 DEF Next, Announce, ReadLine, AdapterLine, Interrupted, ClineStartFails, OutputEnds,
               ScannerFails, ProcessExits, Flush, ReportDone, Stop, Stopping, ReportError, TimerExpires,
               OrphanExpires, TimerFlush, vars, outside
    <3> QED
        BY <3>1, <3>2, <3>3
  <2>2. /\ c \notin callbacks' /\ c.step = "persist"
        /\ record' = record \/ record' = StatusOf(c.event.kind)
      BY <2>1 DEF Persist
  <2>3. /\ c.event.kind \in Immediate \cup Bufferable /\ Recorded(c.event)
        /\ c.event.n \in 0 .. Len(output) /\ Len(output) \in Nat
      BY <1>3, <2>2 DEF IInv, TypeOK, Callbacks, Events, Held, Numbers, EventsFit
  <2>4. worker # "cline" /\ c.event.n # 0 /\ output[c.event.n] = c.event.kind
      BY <1>3, <2>3 DEF Recorded, EventsFit
  <2>5. record = output[Len(output)]
      BY <1>3, <2>4 DEF EndsFit
  <2>6. c.event.kind \notin Immediate
      BY <1>3, <2>2, <2>4, <2>5 DEF EndsFit, StatusOf, Final, Immediate
  <2>7. c.event.n # Len(output)
      BY <1>3, <2>4, <2>5, <2>6 DEF Final, Immediate
  <2> QED
      BY <2>2, <2>3, <2>6, <2>7
<1> QED
    BY <1>1, <1>2, <1>3, IInvHolds, PTL DEF Spec, EndUndoneByOlderUpdate
=============================================================================
