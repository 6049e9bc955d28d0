---------------------------- MODULE ServiceProofs ----------------------------
(***************************************************************************)
(* Theorems about Service: types, that the store is closed only after Stop *)
(* has marked the running records or phase 1 has run out of time, that the *)
(* connection's flag lags the link only by what waits in the inbox, and    *)
(* that no envelope is lost.                                               *)
(*                                                                         *)
(* The second is not inductive.  Main learns that Stop is over only        *)
(* through errCh, which its select or its waiting goroutine takes, so the  *)
(* invariant follows the error from the end of Start to phase 2.           *)
(***************************************************************************)
EXTENDS Service, SequenceTheorems, TLAPS

\* What errCh and what has been taken from it say about Stop.
Handover == /\ main = "starting" => start = "none"
            /\ errCh # "nothing" => start = "returned"
            /\ waiter = "done" => errCh = "taken"
            /\ main \in {"phase2", "leaving"} => timedOut \/ errCh = "taken"

\* Before its last step Stop has marked nothing; afterwards it has, unless it
\* found the store closed, which then was the time limit's doing.
Marking == /\ start # "returned" => ~marked
           /\ start = "returned" => marked \/ timedOut

IInv == TypeOK /\ Handover /\ Marking /\ ClosedAfterMarking

LEMMA Bounds == /\ MaxInbox \in Nat /\ MaxDeliveries \in Nat
                /\ MaxFaults \in Nat /\ MaxStreak \in Nat
BY ServiceAssumption

LEMMA InitIInv == Init => IInv
<1> SUFFICES ASSUME Init PROVE IInv
    OBVIOUS
<1>1. inbox \in Seq(LinkEvents \cup Envelopes) /\ Len(inbox) <= MaxInbox
    BY Bounds DEF Init
<1>2. sent \in [Envelopes -> 0 .. MaxDeliveries]
    BY Bounds DEF Init
<1>3. faults \in 0 .. MaxFaults /\ streak \in 0 .. MaxStreak /\ acked \subseteq Envelopes
    BY Bounds DEF Init
<1>4. {signalled, timedOut, cancelled, marked, connected} \subseteq BOOLEAN
    BY DEF Init
<1>5. TypeOK
    BY <1>1, <1>2, <1>3, <1>4 DEF Init, TypeOK
<1> QED
    BY <1>5 DEF Init, IInv, Handover, Marking, ClosedAfterMarking

\* What a step does to the channel of events keeps its type and its bound.
LEMMA InboxTypes ==
    ASSUME TypeOK
    PROVE  /\ \A e \in LinkEvents \cup Envelopes :
                Emit(e) => inbox' \in Seq(LinkEvents \cup Envelopes) /\ Len(inbox') <= MaxInbox
           /\ inbox # <<>> =>
                Tail(inbox) \in Seq(LinkEvents \cup Envelopes) /\ Len(Tail(inbox)) <= MaxInbox
<1> USE Bounds DEF TypeOK
<1>1. \A e \in LinkEvents \cup Envelopes :
        Emit(e) => inbox' \in Seq(LinkEvents \cup Envelopes) /\ Len(inbox') <= MaxInbox
    BY DEF Emit
<1>2. inbox # <<>> =>
        Tail(inbox) \in Seq(LinkEvents \cup Envelopes) /\ Len(Tail(inbox)) <= MaxInbox
    BY HeadTailProperties
<1> QED
    BY <1>1, <1>2

LEMMA NextTypeOK == ASSUME TypeOK, [Next]_vars PROVE TypeOK'
<1> USE Bounds DEF TypeOK, vars, mainVars, startVars, linkVars, loopVars, monitorVars
<1>1. CASE Signal \/ Killed
    BY <1>1 DEF Signal, Killed
<1>2. CASE GoStart \/ Main \/ WaiterReceives
    BY <1>2 DEF Main, GoStart, SignalSeen, GatewayExited, Phase1Complete, Phase1TimesOut,
                Phase2, Leave, WaiterReceives
<1>3. CASE StartServing \/ RunContextReturns
    BY <1>3 DEF StartServing, RunContextReturns
<1>4. CASE Stop
    BY <1>4 DEF Stop, StopCancels, StopDrains, StopMarks
<1>5. CASE Connect \/ Established \/ AttemptFails \/ LinkLost
    BY <1>5, InboxTypes DEF Connect, Established, AttemptFails, LinkLost, LinkChanges, Fault,
                            LinkEvents
<1>6. ASSUME NEW e \in Envelopes, Deliver(e)
      PROVE  TypeOK'
    BY <1>6, InboxTypes DEF Deliver
<1>7. ASSUME NEW e \in LinkEvents, HandleLinkEvent(e)
      PROVE  TypeOK'
    BY <1>7, InboxTypes DEF HandleLinkEvent, Take, SetConnected
<1>8. ASSUME NEW e \in Envelopes, HandleEnvelope(e)
      PROVE  TypeOK'
    BY <1>8, InboxTypes DEF HandleEnvelope, Take
<1>9. CASE HandlerReturns \/ HandlerPanics
    BY <1>9 DEF HandlerReturns, HandlerPanics
<1>10. CASE Check \/ MonitorEnds
    BY <1>10 DEF Check, MonitorEnds
<1>11. CASE UNCHANGED vars
    BY <1>11
<1> QED
    BY <1>1, <1>2, <1>3, <1>4, <1>5, <1>6, <1>7, <1>8, <1>9, <1>10, <1>11 DEF Next, Loop

\* The steps that touch neither main, Start nor what passes between them.
LEMMA OthersKeepShutdown ==
    ASSUME UNCHANGED <<main, waiter, timedOut, store, errCh, marked>>,
           start' = start \/ (start # "none" /\ "returned" \notin {start, start'}),
           Handover, Marking, ClosedAfterMarking
    PROVE  (Handover /\ Marking /\ ClosedAfterMarking)'
BY DEF Handover, Marking, ClosedAfterMarking

LEMMA NextShutdown ==
    ASSUME IInv, [Next]_vars
    PROVE  (Handover /\ Marking /\ ClosedAfterMarking)'
<1> USE DEF IInv, TypeOK, mainVars, startVars
<1>1. CASE GoStart \/ SignalSeen
    BY <1>1 DEF GoStart, SignalSeen, Handover, Marking, ClosedAfterMarking
<1>11. CASE GatewayExited
    BY <1>11 DEF GatewayExited, Handover, Marking, ClosedAfterMarking
<1>12. CASE WaiterReceives
    BY <1>12 DEF WaiterReceives, Handover, Marking, ClosedAfterMarking
<1>2. CASE Phase1Complete \/ Phase1TimesOut
    BY <1>2 DEF Phase1Complete, Phase1TimesOut, Handover, Marking, ClosedAfterMarking
<1>3. CASE Phase2 \/ Leave
    \* Whoever closes the store has the error or the end of the time limit.
    BY <1>3 DEF Phase2, Leave, Handover, Marking, ClosedAfterMarking
<1>4. CASE Stop
  <2>1. CASE StopCancels
      BY <2>1 DEF StopCancels, Handover, Marking, ClosedAfterMarking
  <2>2. ASSUME NEW ok \in BOOLEAN, StopDrains(ok)
        PROVE  (Handover /\ Marking /\ ClosedAfterMarking)'
      BY <2>2 DEF StopDrains, Handover, Marking, ClosedAfterMarking
  <2>3. CASE StopMarks
      BY <2>3 DEF StopMarks, Handover, Marking, ClosedAfterMarking
  <2> QED
      BY <1>4, <2>1, <2>2, <2>3 DEF Stop
<1>5. CASE Signal \/ Killed
    BY <1>5 DEF Signal, Killed, Handover, Marking, ClosedAfterMarking
<1>6. CASE StartServing \/ RunContextReturns
    BY <1>6, OthersKeepShutdown DEF StartServing, RunContextReturns
<1>7. CASE Connect \/ Established \/ AttemptFails \/ LinkLost
    BY <1>7, OthersKeepShutdown DEF Connect, Established, AttemptFails, LinkLost, LinkChanges
<1>8. ASSUME NEW e, Deliver(e) \/ HandleLinkEvent(e) \/ HandleEnvelope(e)
      PROVE  (Handover /\ Marking /\ ClosedAfterMarking)'
    BY <1>8, OthersKeepShutdown DEF Deliver, HandleLinkEvent, HandleEnvelope
<1>9. CASE HandlerReturns \/ HandlerPanics \/ Check \/ MonitorEnds
    BY <1>9, OthersKeepShutdown DEF HandlerReturns, HandlerPanics, Check, MonitorEnds
<1>10. CASE UNCHANGED vars
    BY <1>10, OthersKeepShutdown DEF vars
<1> QED
    BY <1>1, <1>2, <1>3, <1>4, <1>5, <1>6, <1>7, <1>8, <1>9, <1>10, <1>11, <1>12 DEF Next, Main, Loop

LEMMA IInvHolds == Spec => []IInv
<1>1. IInv /\ [Next]_vars => IInv'
    BY NextTypeOK, NextShutdown DEF IInv
<1> QED
    BY InitIInv, <1>1, PTL DEF Spec

\* The variables keep their types, for any envelopes and bounds.
THEOREM TypeCorrect == Spec => []TypeOK
<1>1. IInv => TypeOK
    BY DEF IInv
<1> QED
    BY IInvHolds, <1>1, PTL

\* Main, its waiting goroutine, its time limit and the goroutine of Start race
\* for the end: whatever they do, the store is closed only after Stop has
\* marked the running records as interrupted, unless the time ran out.
THEOREM ClosedAfterMarkingHolds == Spec => []ClosedAfterMarking
<1>1. IInv => ClosedAfterMarking
    BY DEF IInv
<1> QED
    BY IInvHolds, <1>1, PTL

-----------------------------------------------------------------------------
\* The link and the flag, with the events of the link between them.  Before
\* the loop starts nothing has happened on either side.
Unserved == start \in {"none", "launched"} =>
                inbox = <<>> /\ link = "down" /\ ~connected /\ loop = "none"
Lag == TypeOK /\ Unserved /\ ConnectedLagsInbox

\* An event of the link waits behind the others, and tells what the link is.
LEMMA EmitLinkEvent ==
    ASSUME TypeOK, NEW e \in LinkEvents, Emit(e), e = "connected" <=> link' = "up"
    PROVE  ConnectedLagsInbox'
<1>1. /\ inbox \in Seq(LinkEvents \cup Envelopes) /\ Len(inbox) \in Nat
      /\ inbox' = Append(inbox, e)
    BY DEF TypeOK, Emit
<1>2. /\ DOMAIN inbox' = 1 .. Len(inbox) + 1
      /\ inbox'[Len(inbox) + 1] = e
    BY <1>1
<1>3. Len(inbox) + 1 \in DOMAIN inbox'
    BY <1>1, <1>2
<1>4. e \in ToSet(inbox') \cap LinkEvents
    BY <1>2, <1>3 DEF ToSet
<1>5. \A i \in DOMAIN inbox' : LastLinkEvent(i)' => i = Len(inbox) + 1
    BY <1>1, <1>2, <1>3 DEF LastLinkEvent
<1> QED
    BY <1>2, <1>4, <1>5 DEF ConnectedLagsInbox

\* An envelope behind the others changes nothing.
LEMMA EmitEnvelope ==
    ASSUME TypeOK, ConnectedLagsInbox, NEW e \in Envelopes, Emit(e),
           UNCHANGED <<start, link, connected>>
    PROVE  ConnectedLagsInbox'
<1>1. /\ inbox \in Seq(LinkEvents \cup Envelopes) /\ Len(inbox) \in Nat
      /\ inbox' = Append(inbox, e) /\ e \notin LinkEvents
    BY ServiceAssumption DEF TypeOK, Emit
<1>2. /\ DOMAIN inbox = 1 .. Len(inbox)
      /\ DOMAIN inbox' = 1 .. Len(inbox) + 1
      /\ inbox'[Len(inbox) + 1] = e
      /\ \A i \in 1 .. Len(inbox) : inbox'[i] = inbox[i]
    BY <1>1
<1>3. ASSUME ToSet(inbox') \cap LinkEvents = {}
      PROVE  ToSet(inbox) \cap LinkEvents = {}
    BY <1>1, <1>2, <1>3 DEF ToSet
<1>4. ASSUME NEW i \in DOMAIN inbox', LastLinkEvent(i)'
      PROVE  i \in DOMAIN inbox /\ LastLinkEvent(i) /\ inbox'[i] = inbox[i]
    BY <1>1, <1>2, <1>4 DEF LastLinkEvent
<1> QED
    BY <1>3, <1>4 DEF ConnectedLagsInbox

\* The loop takes the first event: if no other event of the link waits, the
\* flag takes over what this one says; otherwise the last one still waits.
LEMMA TakeEvent ==
    ASSUME TypeOK, ConnectedLagsInbox, NEW e, Take(e), UNCHANGED <<start, link>>,
           e \in LinkEvents => SetConnected(e),
           e \notin LinkEvents => UNCHANGED connected
    PROVE  ConnectedLagsInbox'
<1>1. /\ inbox \in Seq(LinkEvents \cup Envelopes) /\ inbox # <<>>
      /\ inbox' = Tail(inbox) /\ inbox[1] = e
      /\ Len(inbox) \in Nat \ {0}
    BY DEF TypeOK, Take
<1>2. /\ DOMAIN inbox = 1 .. Len(inbox)
      /\ DOMAIN inbox' = 1 .. Len(inbox) - 1
      /\ \A i \in 1 .. Len(inbox) - 1 : inbox'[i] = inbox[i + 1]
    BY <1>1, HeadTailProperties
<1>3. \A j \in DOMAIN inbox : j = 1 \/ (j - 1 \in DOMAIN inbox' /\ inbox'[j - 1] = inbox[j])
    BY <1>1, <1>2
<1>4. ASSUME ToSet(inbox') \cap LinkEvents = {}, start' = "running"
      PROVE  connected' <=> link' = "up"
  <2>1. \A j \in DOMAIN inbox : inbox[j] \in LinkEvents => j = 1
      BY <1>3, <1>4 DEF ToSet
  <2>2. CASE e \in LinkEvents
    <3>1. 1 \in DOMAIN inbox /\ LastLinkEvent(1)
        BY <1>1, <1>2, <2>1, <2>2 DEF LastLinkEvent
    <3>2. inbox[1] = "connected" <=> link = "up"
        BY <1>4, <3>1 DEF ConnectedLagsInbox
    <3>3. connected' = (e = "connected")
        BY <2>2 DEF SetConnected
    <3> QED
        BY <1>1, <3>2, <3>3
  <2>3. CASE e \notin LinkEvents
    <3>1. ToSet(inbox) \cap LinkEvents = {}
        BY <1>1, <2>1, <2>3 DEF ToSet
    <3> QED
        BY <1>4, <2>3, <3>1 DEF ConnectedLagsInbox
  <2> QED
      BY <2>2, <2>3
<1>5. ASSUME NEW i \in DOMAIN inbox', LastLinkEvent(i)', start' = "running"
      PROVE  inbox'[i] = "connected" <=> link' = "up"
  <2>1. i \in Nat /\ i + 1 \in DOMAIN inbox /\ inbox'[i] = inbox[i + 1] /\ inbox'[i] \in LinkEvents
      BY <1>1, <1>2, <1>5 DEF LastLinkEvent
  <2>2. \A j \in DOMAIN inbox : inbox[j] \in LinkEvents => j <= i + 1
      BY <1>2, <1>3, <1>5, <2>1 DEF LastLinkEvent
  <2>3. LastLinkEvent(i + 1)
      BY <2>1, <2>2 DEF LastLinkEvent
  <2> QED
      BY <1>5, <2>1, <2>3 DEF ConnectedLagsInbox
<1> QED
    BY <1>4, <1>5 DEF ConnectedLagsInbox

LEMMA LagKept ==
    ASSUME IInv, Lag, [Next]_vars PROVE Lag'
<1> USE DEF mainVars, startVars, linkVars, loopVars, monitorVars
<1>1. TypeOK'
    BY NextTypeOK DEF Lag
<1>2. CASE UNCHANGED <<inbox, link, connected, loop>> /\ start' = start
    BY <1>1, <1>2 DEF Lag, Unserved, ConnectedLagsInbox, LastLinkEvent
<1>3. CASE Connect \/ Established \/ AttemptFails \/ LinkLost
  <2>1. PICK e \in LinkEvents : Emit(e) /\ (e = "connected" <=> link' = "up")
      BY <1>3 DEF Connect, Established, AttemptFails, LinkLost, LinkChanges, LinkEvents
  <2>2. Unserved'
      BY <1>3 DEF Connect, Established, AttemptFails, LinkLost, LinkChanges, Unserved
  <2> QED
      BY <1>1, <2>1, <2>2, EmitLinkEvent DEF Lag
<1>4. ASSUME NEW e \in Envelopes, Deliver(e) PROVE Lag'
  <2>1. Emit(e) /\ link = "up" /\ UNCHANGED <<start, link, connected, loop>>
      BY <1>4 DEF Deliver
  <2> QED
      BY <1>1, <2>1, EmitEnvelope DEF Lag, Unserved
<1>5. ASSUME NEW e \in LinkEvents \cup Envelopes,
             \/ e \in LinkEvents /\ HandleLinkEvent(e)
             \/ e \in Envelopes /\ HandleEnvelope(e)
      PROVE  Lag'
  <2>1. /\ Take(e) /\ loop = "idle" /\ UNCHANGED <<start, link>>
        /\ e \in LinkEvents => SetConnected(e)
        /\ e \notin LinkEvents => UNCHANGED connected
      BY <1>5, ServiceAssumption DEF HandleLinkEvent, HandleEnvelope, Take
  <2>2. ConnectedLagsInbox'
      BY <2>1, TakeEvent DEF Lag
  <2> QED
      BY <1>1, <2>1, <2>2 DEF Lag, Unserved
<1>6. CASE StartServing
  <2>1. /\ inbox = <<>> /\ link = "down" /\ ~connected
        /\ UNCHANGED <<inbox, link, connected>> /\ start' = "running"
      BY <1>6 DEF StartServing, Lag, Unserved
  <2>2. DOMAIN inbox' = {} /\ ~connected' /\ link' = "down"
      BY <2>1
  <2> QED
      BY <1>1, <2>1, <2>2 DEF Lag, Unserved, ConnectedLagsInbox
<1>7. CASE GoStart \/ Signal \/ Killed \/ SignalSeen \/ GatewayExited \/ Phase1Complete
           \/ Phase1TimesOut \/ Phase2 \/ Leave \/ WaiterReceives \/ Check \/ MonitorEnds
  <2>1. /\ UNCHANGED <<inbox, link, connected, loop>>
        /\ start' = start \/ (start = "none" /\ start' = "launched")
      BY <1>7 DEF IInv, Handover, GoStart, Signal, Killed, SignalSeen, GatewayExited, Phase1Complete,
                  Phase1TimesOut, Phase2, Leave, WaiterReceives, Check, MonitorEnds
  <2> QED
      BY <1>1, <1>2, <2>1 DEF Lag, Unserved, ConnectedLagsInbox
<1>8. CASE RunContextReturns \/ Stop
  <2>1. UNCHANGED <<inbox, connected, loop>> /\ start' \notin {"none", "launched", "running"}
      BY <1>8 DEF RunContextReturns, Stop, StopCancels, StopDrains, StopMarks
  <2> QED
      BY <1>1, <2>1 DEF Lag, Unserved, ConnectedLagsInbox
<1>9. CASE HandlerReturns \/ HandlerPanics
  <2>1. loop = "busy" /\ UNCHANGED <<inbox, link, connected, start>>
      BY <1>9 DEF HandlerReturns, HandlerPanics
  <2> QED
      BY <1>1, <2>1 DEF Lag, Unserved, ConnectedLagsInbox, LastLinkEvent
<1>10. CASE UNCHANGED vars
    BY <1>2, <1>10 DEF vars
<1>11. (\E e \in Envelopes : Deliver(e)) => Lag'
    BY <1>4
<1>12. CASE Loop
  <2>1. (\E e \in LinkEvents : HandleLinkEvent(e)) => Lag'
      BY <1>5
  <2>2. (\E e \in Envelopes : HandleEnvelope(e)) => Lag'
      BY <1>5
  <2> QED
      BY <1>9, <1>12, <2>1, <2>2 DEF Loop
<1> QED
    BY <1>3, <1>6, <1>7, <1>8, <1>9, <1>10, <1>11, <1>12 DEF Next, Main

\* The flag that the monitor reads lags the link only by the events of the
\* link that still wait in the inbox, whose last one tells what the link is,
\* however long a handler blocks the loop and however many envelopes are
\* between them (setConnected in the event loop).
THEOREM ConnectedLagsInboxHolds == Spec => []ConnectedLagsInbox
<1>1. Init => Lag
    BY InitIInv DEF Init, IInv, Lag, Unserved, ConnectedLagsInbox
<1>2. IInv /\ Lag /\ [Next]_vars => Lag'
    BY LagKept
<1>3. Lag => ConnectedLagsInbox
    BY DEF Lag
<1> QED
    BY IInvHolds, <1>1, <1>2, <1>3, PTL DEF Spec

-----------------------------------------------------------------------------
\* What was delivered is handled or waits in the inbox.
NoneLost == \A e \in Envelopes : sent[e] > 0 => e \in acked \cup ToSet(inbox)

LEMMA NoneLostKept ==
    ASSUME TypeOK, NoneLost, [Next]_vars PROVE NoneLost'
<1> USE DEF mainVars, startVars, linkVars, loopVars, monitorVars
<1>1. inbox \in Seq(LinkEvents \cup Envelopes) /\ Len(inbox) \in Nat
    BY DEF TypeOK
<1>2. ASSUME NEW e, Emit(e)
      PROVE  ToSet(inbox') = ToSet(inbox) \cup {e}
  <2>1. /\ inbox' = Append(inbox, e)
        /\ DOMAIN inbox = 1 .. Len(inbox)
        /\ DOMAIN inbox' = 1 .. Len(inbox) + 1
        /\ inbox'[Len(inbox) + 1] = e
        /\ \A i \in 1 .. Len(inbox) : inbox'[i] = inbox[i]
      BY <1>1, <1>2 DEF Emit
  <2> QED
      BY <1>1, <2>1 DEF ToSet
<1>3. ASSUME NEW e, Take(e)
      PROVE  \A d \in ToSet(inbox) : d = e \/ d \in ToSet(inbox')
  <2>1. /\ inbox # <<>> /\ inbox' = Tail(inbox) /\ inbox[1] = e
        /\ DOMAIN inbox = 1 .. Len(inbox) /\ Len(inbox) \in Nat \ {0}
      BY <1>1, <1>3 DEF Take
  <2>2. /\ DOMAIN inbox' = 1 .. Len(inbox) - 1
        /\ \A i \in 1 .. Len(inbox) - 1 : inbox'[i] = inbox[i + 1]
      BY <1>1, <2>1, HeadTailProperties
  <2>3. \A j \in DOMAIN inbox : j = 1 \/ (j - 1 \in DOMAIN inbox' /\ inbox'[j - 1] = inbox[j])
      BY <2>1, <2>2
  <2>4. \A j \in DOMAIN inbox : inbox[j] = e \/ \E i \in DOMAIN inbox' : inbox[j] = inbox'[i]
      BY <2>1, <2>3
  <2> QED
      BY <2>4 DEF ToSet
<1>4. CASE Connect \/ Established \/ AttemptFails \/ LinkLost
  <2>1. (\E e \in LinkEvents : Emit(e)) /\ UNCHANGED <<sent, acked>>
      BY <1>4 DEF Connect, Established, AttemptFails, LinkLost, LinkChanges, LinkEvents
  <2> QED
      BY <1>2, <2>1 DEF NoneLost
<1>5. ASSUME NEW e \in Envelopes, Deliver(e) PROVE NoneLost'
  <2>1. Emit(e) /\ sent' = [sent EXCEPT ![e] = @ + 1] /\ UNCHANGED acked
      BY <1>5 DEF Deliver
  <2>2. \A d \in Envelopes : d # e => sent'[d] = sent[d]
      BY <2>1 DEF TypeOK
  <2> QED
      BY <1>2, <2>1, <2>2 DEF NoneLost
<1>6. ASSUME NEW e \in LinkEvents, HandleLinkEvent(e) PROVE NoneLost'
  <2>1. Take(e) /\ e \notin Envelopes /\ UNCHANGED <<sent, acked>>
      BY <1>6, ServiceAssumption DEF HandleLinkEvent
  <2> QED
      BY <1>3, <2>1 DEF NoneLost
<1>7. ASSUME NEW e \in Envelopes, HandleEnvelope(e) PROVE NoneLost'
  <2>1. Take(e) /\ acked' = acked \cup {e} /\ UNCHANGED sent
      BY <1>7 DEF HandleEnvelope
  <2> QED
      BY <1>3, <2>1 DEF NoneLost
<1>8. CASE UNCHANGED <<sent, acked, inbox>>
    BY <1>8 DEF NoneLost
<1>9. CASE \/ Signal \/ Killed \/ GoStart \/ Main \/ WaiterReceives \/ StartServing \/ RunContextReturns
           \/ Stop \/ HandlerReturns \/ HandlerPanics \/ Check \/ MonitorEnds
    BY <1>8, <1>9 DEF Signal, Killed, Main, GoStart, SignalSeen, GatewayExited, Phase1Complete,
           Phase1TimesOut, Phase2, Leave, WaiterReceives, StartServing, RunContextReturns,
           Stop, StopCancels, StopDrains, StopMarks, HandlerReturns, HandlerPanics, Check, MonitorEnds
<1>10. (\E e \in Envelopes : Deliver(e)) => NoneLost'
    BY <1>5
<1>11. CASE Loop
  <2>1. (\E e \in LinkEvents : HandleLinkEvent(e)) => NoneLost'
      BY <1>6
  <2>2. (\E e \in Envelopes : HandleEnvelope(e)) => NoneLost'
      BY <1>7
  <2> QED
      BY <1>9, <1>11, <2>1, <2>2 DEF Loop
<1>12. CASE UNCHANGED vars
    BY <1>8, <1>12 DEF vars
<1> QED
    BY <1>4, <1>9, <1>10, <1>11, <1>12 DEF Next

\* No envelope is lost on the way to the event loop: one that Slack delivered
\* has been handled or still waits in the inbox, whatever becomes of the link,
\* the loop and the process (the safety half of EnvelopesHandled).
THEOREM NoEnvelopeLost == Spec => []NoneLost
<1>1. Init => NoneLost
    BY DEF Init, NoneLost
<1>2. IInv => TypeOK
    BY DEF IInv
<1>3. NoneLost /\ TypeOK /\ [Next]_vars => NoneLost'
    BY NoneLostKept
<1> QED
    BY IInvHolds, <1>1, <1>2, <1>3, PTL DEF Spec
=============================================================================
