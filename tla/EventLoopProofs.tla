---------------------------- MODULE EventLoopProofs ---------------------------
(***************************************************************************)
(* Theorems about EventLoop, for every number of events, every socket      *)
(* capacity and every set of sizes.                                        *)
(***************************************************************************)
EXTENDS EventLoop, SequenceTheorems, TLAPS

LEMMA InitTypeOK == Init => TypeOK
<1> SUFFICES ASSUME Init PROVE TypeOK
  OBVIOUS
<1>1. pc \in {"poll", "prepare", "flush", "read", "dispatch", "handle", "done"}
  BY DEF Init
<1>2. revents \in [in : BOOLEAN, err : BOOLEAN]
  BY DEF Init
<1>3. interrupts \in 0 .. MaxInterrupts
  BY EventLoopAssumption DEF Init
<1>4. quit \in BOOLEAN /\ error \in BOOLEAN /\ up \in BOOLEAN
  BY DEF Init
<1>5. events \in Seq(AppEvent) /\ received \in Seq(AppEvent)
  BY DEF Init
<1>6. queue \in Seq(Event) /\ inbox \in Seq(Event) /\ handled \in Seq(Event)
  BY DEF Init
<1>7. /\ out \in Seq(Request) /\ sent \in Seq(Request)
      /\ wire \in Seq(Request) /\ Len(wire) <= SockCap
  BY EventLoopAssumption DEF Init, Req, Request
<1>8. srv \in [ issued : 0 .. MaxIssued, committed : BOOLEAN, acked : 0 .. MaxIssued,
                unanswered : SUBSET (1 .. MaxIssued), ponged : SUBSET (0 .. MaxIssued),
                closed : BOOLEAN, fatal : BOOLEAN, refused : BOOLEAN ]
  BY EventLoopAssumption DEF Init
<1> QED
  BY <1>1, <1>2, <1>3, <1>4, <1>5, <1>6, <1>7, <1>8 DEF TypeOK

\* Cutting a sequence in two, as flush and read_events do.
LEMMA Cut ==
  ASSUME NEW S, NEW s \in Seq(S), NEW n \in 0 .. Len(s)
  PROVE  SubSeq(s, 1, n) \in Seq(S) /\ SubSeq(s, n + 1, Len(s)) \in Seq(S)
<1>1. \A i \in 1 .. n : s[i] \in S
  OBVIOUS
<1>2. \A i \in n + 1 .. Len(s) : s[i] \in S
  OBVIOUS
<1> QED
  BY <1>1, <1>2, SubSeqProperties

\* Moving the first n of a sequence to the end of another.
LEMMA MoveFirst ==
  ASSUME NEW S, NEW s \in Seq(S), NEW t \in Seq(S), NEW n \in 0 .. Len(s)
  PROVE  /\ t \o SubSeq(s, 1, n) \in Seq(S)
         /\ Len(t \o SubSeq(s, 1, n)) = Len(t) + n
<1> DEFINE r == SubSeq(s, 1, n)
<1>1. r \in Seq(S) /\ Len(r) = n
  <2>1. \A i \in 1 .. n : s[i] \in S
    OBVIOUS
  <2> QED
    BY <2>1, SubSeqProperties
<1> HIDE DEF r
<1>2. t \o r \in Seq(S) /\ Len(t \o r) = Len(t) + Len(r)
  BY <1>1, ConcatProperties
<1> QED
  BY <1>1, <1>2 DEF r

LEMMA LastAndFront ==
  ASSUME NEW S, NEW s \in Seq(S), s # <<>>
  PROVE  Last(s) \in S /\ Front(s) \in Seq(S)
<1>1. Len(s) \in Nat /\ Len(s) # 0
  OBVIOUS
<1>2. Last(s) \in S
  BY <1>1 DEF Last
<1>3. Front(s) = SubSeq(s, 1, Len(s) - 1)
  BY DEF Front
<1> QED
  BY <1>1, <1>2, <1>3, Cut

\* What the listeners add to the output buffer and to the array.
LEMMA ListenerTypes ==
  ASSUME NEW e \in Event
  PROVE  Answer(e) \in Seq(Request) /\ Pushed(e) \in Seq(AppEvent)
<1>1. e.kind \in Kinds /\ e.id \in 1 .. MaxIssued /\ (e.kind = "toplevel" => e.size \in Int)
  BY EventLoopAssumption DEF Event
<1>2. Answer(e) \in Seq(Request)
  <2>1. Req("pong", e.id) \in Request /\ Req("ack", e.id) \in Request
    BY <1>1, EventLoopAssumption DEF Req, Request
  <2> QED
    BY <2>1 DEF Answer
<1>3. Pushed(e) \in Seq(AppEvent)
  <2>1. CASE e.kind = "toplevel"
    <3>1. Clamp(e.size) \in Nat \ {0}
      BY <1>1, <2>1 DEF Clamp
    <3>2. [kind |-> "resize", id |-> e.id, size |-> Clamp(e.size)] \in AppEvent
      BY <1>1, <3>1 DEF AppEvent
    <3> QED
      BY <2>1, <3>2 DEF Pushed
  <2>2. CASE e.kind = "close"
    <3>1. [kind |-> "close", id |-> e.id, size |-> None] \in AppEvent
      BY <1>1 DEF AppEvent
    <3> QED
      BY <2>2, <3>1 DEF Pushed
  <2>3. CASE e.kind \notin {"toplevel", "close"}
    BY <2>3 DEF Pushed
  <2> QED
    BY <2>1, <2>2, <2>3
<1> QED
  BY <1>2, <1>3

\* What the compositor does leaves the client alone.
LEMMA CompositorStep ==
  ASSUME Compositor
  PROVE  UNCHANGED << client, history >> /\ (up' = up \/ up' = FALSE)
<1>1. CASE SrvPing
  BY <1>1 DEF SrvPing
<1>2. CASE SrvClose
  BY <1>2 DEF SrvClose
<1>3. CASE SrvError
  BY <1>3 DEF SrvError
<1>4. CASE SrvHangup
  BY <1>4 DEF SrvHangup
<1>5. CASE SrvReceive
  BY <1>5 DEF SrvReceive
<1>6. ASSUME NEW size \in Sizes, SrvConfigure(size)
      PROVE  UNCHANGED << client, history >> /\ up' = up
  BY <1>6 DEF SrvConfigure
<1> QED
  BY <1>1, <1>2, <1>3, <1>4, <1>5, <1>6 DEF Compositor

\* What it does to the variables it has.
LEMMA CompositorTypes ==
  ASSUME TypeOK, Compositor
  PROVE  TypeOK'
<1> DEFINE Srv == [ issued : 0 .. MaxIssued, committed : BOOLEAN, acked : 0 .. MaxIssued,
                    unanswered : SUBSET (1 .. MaxIssued), ponged : SUBSET (0 .. MaxIssued),
                    closed : BOOLEAN, fatal : BOOLEAN, refused : BOOLEAN ]
<1>1. UNCHANGED << client, history >> /\ up' \in BOOLEAN
  BY CompositorStep DEF TypeOK
<1>2. CanSend => Serial \in 1 .. MaxIssued /\ Serial \in 0 .. MaxIssued
  BY EventLoopAssumption DEF TypeOK, CanSend, Serial
<1>3. ASSUME CanSend, NEW k \in Kinds \ {"toplevel"}
      PROVE  Ev(k, Serial, None) \in Event
  BY <1>2, <1>3 DEF Event, Ev
<1>4. /\ inbox' \in Seq(Event) /\ srv' \in Srv
      /\ wire' \in Seq(Request) /\ Len(wire') <= SockCap
  <2>1. CASE SrvPing
    <3>1. inbox' \in Seq(Event) /\ wire' = wire
      BY <2>1, <1>3 DEF SrvPing, TypeOK, Kinds
    <3>2. srv' \in Srv
      BY <2>1, <1>2 DEF SrvPing, TypeOK
    <3> QED
      BY <3>1, <3>2 DEF TypeOK
  <2>2. CASE SrvClose
    <3>1. inbox' \in Seq(Event) /\ wire' = wire
      BY <2>2, <1>3 DEF SrvClose, TypeOK, Kinds
    <3>2. srv' \in Srv
      BY <2>2, <1>2 DEF SrvClose, TypeOK
    <3> QED
      BY <3>1, <3>2 DEF TypeOK
  <2>3. CASE SrvError
    <3>1. inbox' \in Seq(Event) /\ wire' = wire
      BY <2>3, <1>3 DEF SrvError, TypeOK, Kinds
    <3>2. srv' \in Srv
      BY <2>3, <1>2 DEF SrvError, TypeOK
    <3> QED
      BY <3>1, <3>2 DEF TypeOK
  <2>4. CASE SrvHangup
    BY <2>4, EventLoopAssumption DEF SrvHangup, TypeOK
  <2>5. ASSUME NEW size \in Sizes, SrvConfigure(size)
        PROVE  inbox' \in Seq(Event) /\ wire' = wire /\ srv' \in Srv
    <3>1. Ev("toplevel", Serial, size) \in Event /\ Ev("configure", Serial, None) \in Event
      BY <2>5, <1>2, <1>3 DEF SrvConfigure, Event, Ev, Kinds
    <3>2. inbox' \in Seq(Event) /\ wire' = wire
      BY <2>5, <3>1, ConcatProperties DEF SrvConfigure, TypeOK
    <3>3. srv' \in Srv
      BY <2>5, <1>2 DEF SrvConfigure, TypeOK
    <3> QED
      BY <3>2, <3>3 DEF TypeOK
  <2>6. CASE SrvReceive
    <3> DEFINE r == Head(wire)
    <3>1. /\ r \in Request /\ inbox' = inbox
          /\ wire' \in Seq(Request) /\ Len(wire') <= SockCap
      BY <2>6, EventLoopAssumption, HeadTailProperties DEF SrvReceive, TypeOK
    <3>2. r.kind \in {"commit", "pong", "ack"} /\ r.id \in 0 .. MaxIssued
      BY <3>1 DEF Request
    <3> HIDE DEF r
    <3>3. srv \in Srv
      BY DEF TypeOK
    <3>4. CASE r.kind = "commit"
      <4>1. srv' = [srv EXCEPT !.committed = TRUE]
        BY <2>6, <3>4 DEF SrvReceive, r
      <4> QED
        BY <3>1, <3>3, <4>1 DEF TypeOK
    <3>5. CASE r.kind = "pong"
      <4> DEFINE refused == srv.refused \/ r.id \notin srv.unanswered
      <4>1. srv' = [srv EXCEPT !.refused = refused,
                               !.unanswered = @ \ {r.id},
                               !.ponged = @ \union {r.id}]
        BY <2>6, <3>5 DEF SrvReceive, r
      <4>2. refused \in BOOLEAN
        BY <3>3
      <4> HIDE DEF refused
      <4>3. srv' \in Srv
        BY <3>2, <3>3, <4>1, <4>2
      <4> QED
        BY <3>1, <4>3 DEF TypeOK
    <3>6. CASE r.kind = "ack"
      <4> DEFINE refused == srv.refused \/ r.id \notin srv.acked + 1 .. srv.issued
      <4>1. srv' = [srv EXCEPT !.refused = refused, !.acked = r.id]
        BY <2>6, <3>6 DEF SrvReceive, r
      <4>2. refused \in BOOLEAN
        BY <3>3
      <4> HIDE DEF refused
      <4>3. srv' \in Srv
        BY <3>2, <3>3, <4>1, <4>2
      <4> QED
        BY <3>1, <4>3 DEF TypeOK
    <3> QED
      BY <3>2, <3>4, <3>5, <3>6
  <2> QED
    BY <2>1, <2>2, <2>3, <2>4, <2>5, <2>6 DEF Compositor, TypeOK
<1> QED
  BY <1>1, <1>4 DEF TypeOK, client, history

LEMMA StepTypeOK == TypeOK /\ [Next]_vars => TypeOK'
<1> SUFFICES ASSUME TypeOK, [Next]_vars PROVE TypeOK'
  OBVIOUS
<1> USE DEF TypeOK
<1>1. CASE Compositor
  BY <1>1, CompositorTypes
<1>2. CASE Client
  <2>1. CASE Poll
    <3>1. revents' \in [in : BOOLEAN, err : BOOLEAN]
      BY <2>1 DEF Poll
    <3> QED
      BY <2>1, <3>1 DEF Poll, history
  <2>2. CASE PollInterrupted
    BY <2>2, EventLoopAssumption DEF PollInterrupted, history
  <2>3. CASE Prepare
    BY <2>3 DEF Prepare, history
  <2>4. CASE FlushAll
    <3>1. wire' \in Seq(Request) /\ sent' \in Seq(Request) /\ out' \in Seq(Request)
      BY <2>4, ConcatProperties DEF FlushAll
    <3>2. Len(wire') <= SockCap
      BY <2>4, ConcatProperties, EventLoopAssumption DEF FlushAll
    <3> QED
      BY <2>4, <3>1, <3>2 DEF FlushAll
  <2>5. CASE FlushBlocked
    <3> DEFINE n == SockCap - Len(wire)
    <3>1. n \in 0 .. Len(out)
      BY <2>5, EventLoopAssumption DEF FlushBlocked
    <3>2. /\ wire' = wire \o SubSeq(out, 1, n) /\ sent' = sent \o SubSeq(out, 1, n)
          /\ out' = SubSeq(out, n + 1, Len(out))
      BY <2>5 DEF FlushBlocked
    <3>3. out \in Seq(Request) /\ wire \in Seq(Request) /\ sent \in Seq(Request)
      OBVIOUS
    <3> HIDE DEF n, TypeOK
    <3>4. /\ wire' \in Seq(Request) /\ sent' \in Seq(Request) /\ out' \in Seq(Request)
          /\ Len(wire') = Len(wire) + n
      BY <3>1, <3>2, <3>3, Cut, MoveFirst
    <3>5. Len(wire') <= SockCap
      BY <3>3, <3>4, EventLoopAssumption DEF n
    <3> QED
      BY <2>5, <3>4, <3>5 DEF FlushBlocked, TypeOK
  <2>6. CASE FlushFails
    BY <2>6 DEF FlushFails, history
  <2>7. CASE SkipRead
    BY <2>7 DEF SkipRead, history
  <2>8. CASE CancelRead
    BY <2>8 DEF CancelRead, history
  <2>9. CASE ReadEvents
    <3>1. PICK n \in 1 .. Len(inbox) :
            /\ queue' = queue \o SubSeq(inbox, 1, n)
            /\ inbox' = SubSeq(inbox, n + 1, Len(inbox))
      BY <2>9 DEF ReadEvents
    <3>2. SubSeq(inbox, 1, n) \in Seq(Event) /\ inbox' \in Seq(Event)
      BY <3>1, Cut, SMTT(30)
    <3>3. queue' \in Seq(Event)
      BY <3>1, <3>2, ConcatProperties
    <3> QED
      BY <2>9, <3>2, <3>3 DEF ReadEvents, history
  <2>10. CASE ReadFails
    BY <2>10 DEF ReadFails, history
  <2>11. CASE DispatchError
    <3>1. queue' \in Seq(Event)
      BY <2>11, LastAndFront DEF DispatchError, HasError
    <3> QED
      BY <2>11, <3>1 DEF DispatchError, history
  <2>12. CASE DispatchEvent
    <3>1. Head(queue) \in Event /\ queue' \in Seq(Event)
      BY <2>12, HeadTailProperties DEF DispatchEvent
    <3>2. out' \in Seq(Request) /\ events' \in Seq(AppEvent)
      BY <2>12, <3>1, ListenerTypes, ConcatProperties DEF DispatchEvent
    <3>3. handled' \in Seq(Event)
      BY <2>12, <3>1 DEF DispatchEvent
    <3> QED
      BY <2>12, <3>1, <3>2, <3>3 DEF DispatchEvent
  <2>13. CASE DispatchDone
    BY <2>13 DEF DispatchDone, history
  <2>14. CASE HandleEvent
    <3>1. Last(events) \in AppEvent /\ events' \in Seq(AppEvent)
      BY <2>14, LastAndFront DEF HandleEvent
    <3>2. received' \in Seq(AppEvent)
      BY <2>14, <3>1 DEF HandleEvent
    <3>3. quit' \in BOOLEAN
      BY <2>14 DEF HandleEvent
    <3> QED
      BY <2>14, <3>1, <3>2, <3>3 DEF HandleEvent
  <2>15. CASE HandleDone
    BY <2>15 DEF HandleDone, history
  <2>16. CASE Exit
    BY <2>16 DEF Exit, history
  <2> QED
    BY <1>2, <2>1, <2>2, <2>3, <2>4, <2>5, <2>6, <2>7, <2>8, <2>9, <2>10,
       <2>11, <2>12, <2>13, <2>14, <2>15, <2>16 DEF Client
<1>3. CASE UNCHANGED vars
  BY <1>3 DEF vars, client, history
<1> QED
  BY <1>1, <1>2, <1>3 DEF Next

\* The variables have their types; in particular no resize event carries a size
\* of zero, and the counters stay in their bounds.
THEOREM LoopTypeOK == Spec => []TypeOK
  BY InitTypeOK, StepTypeOK, PTL DEF Spec

-------------------------------------------------------------------------------

\* DrainedBeforePoll is inductive: the only way back to the poll is HandleDone,
\* which waits for the array to be empty, and the only ways to handle_events are
\* through an empty queue or an error that stays.
LEMMA InitDrained == Init => DrainedBeforePoll
  BY DEF Init, DrainedBeforePoll

LEMMA StepDrained == DrainedBeforePoll /\ [Next]_vars => DrainedBeforePoll'
<1> SUFFICES ASSUME DrainedBeforePoll, [Next]_vars PROVE DrainedBeforePoll'
  OBVIOUS
<1> USE DEF DrainedBeforePoll
<1>1. CASE Compositor
  BY <1>1, CompositorStep DEF client
<1>2. CASE Client
  <2>1. CASE Poll
    BY <2>1 DEF Poll
  <2>2. CASE PollInterrupted
    BY <2>2 DEF PollInterrupted
  <2>3. CASE Prepare
    BY <2>3 DEF Prepare
  <2>4. CASE FlushAll
    BY <2>4 DEF FlushAll
  <2>5. CASE FlushBlocked
    BY <2>5 DEF FlushBlocked
  <2>6. CASE FlushFails
    BY <2>6 DEF FlushFails
  <2>7. CASE SkipRead
    BY <2>7 DEF SkipRead
  <2>8. CASE CancelRead
    BY <2>8 DEF CancelRead
  <2>9. CASE ReadEvents
    BY <2>9 DEF ReadEvents
  <2>10. CASE ReadFails
    BY <2>10 DEF ReadFails
  <2>11. CASE DispatchError
    BY <2>11 DEF DispatchError
  <2>12. CASE DispatchEvent
    BY <2>12 DEF DispatchEvent
  <2>13. CASE DispatchDone
    BY <2>13 DEF DispatchDone
  <2>14. CASE HandleEvent
    BY <2>14 DEF HandleEvent
  <2>15. CASE HandleDone
    BY <2>15 DEF HandleDone
  <2>16. CASE Exit
    BY <2>16 DEF Exit
  <2> QED
    BY <1>2, <2>1, <2>2, <2>3, <2>4, <2>5, <2>6, <2>7, <2>8, <2>9, <2>10,
       <2>11, <2>12, <2>13, <2>14, <2>15, <2>16 DEF Client
<1>3. CASE UNCHANGED vars
  BY <1>3 DEF vars, client
<1> QED
  BY <1>1, <1>2, <1>3 DEF Next

\* Nothing is left over from one iteration of main to the next.
THEOREM LoopDrained == Spec => []DrainedBeforePoll
  BY InitDrained, StepDrained, PTL DEF Spec

-------------------------------------------------------------------------------

\* One step of a loop that has lost its connection.  The queue is empty while
\* there is no error (DrainedBeforePoll), so that prepare_read accepts, and the
\* read is skipped.
LEMMA LostStep ==
  ASSUME TypeOK, DrainedBeforePoll, [Next]_vars, Lost, ~quit, events = <<>>
  PROVE  Lost' /\ ~quit' /\ handled' = handled
<1> USE DEF TypeOK, Lost
<1>1. CASE Compositor
  <2>1. /\ pc' = pc /\ revents' = revents /\ error' = error /\ quit' = quit
        /\ handled' = handled
    BY <1>1, CompositorStep DEF client, history
  <2>2. ~up => ~up'
    BY <1>1, CompositorStep
  <2> QED
    BY <2>1, <2>2
<1>2. CASE Client
  <2>1. CASE Poll
    BY <2>1 DEF Poll, history
  <2>2. CASE PollInterrupted
    BY <2>2 DEF PollInterrupted, history
  <2>3. CASE Prepare
    BY <2>3 DEF Prepare, history, DrainedBeforePoll
  <2>4. CASE FlushAll
    BY <2>4 DEF FlushAll
  <2>5. CASE FlushBlocked
    BY <2>5 DEF FlushBlocked
  <2>6. CASE FlushFails
    BY <2>6 DEF FlushFails, history
  <2>7. CASE SkipRead
    BY <2>7 DEF SkipRead, history
  <2>8. CASE CancelRead
    BY <2>8 DEF CancelRead, history
  <2>9. CASE ReadEvents
    BY <2>9 DEF ReadEvents, history
  <2>10. CASE ReadFails
    BY <2>10 DEF ReadFails, history
  <2>11. CASE DispatchError
    BY <2>11 DEF DispatchError, history
  <2>12. CASE DispatchEvent
    BY <2>12 DEF DispatchEvent
  <2>13. CASE DispatchDone
    BY <2>13 DEF DispatchDone, history
  <2>14. CASE HandleEvent
    BY <2>14 DEF HandleEvent
  <2>15. CASE HandleDone
    BY <2>15 DEF HandleDone, history
  <2>16. CASE Exit
    BY <2>16 DEF Exit
  <2> QED
    BY <1>2, <2>1, <2>2, <2>3, <2>4, <2>5, <2>6, <2>7, <2>8, <2>9, <2>10,
       <2>11, <2>12, <2>13, <2>14, <2>15, <2>16 DEF Client
<1>3. CASE UNCHANGED vars
  BY <1>3 DEF vars, client, history
<1> QED
  BY <1>1, <1>2, <1>3 DEF Next

\* A lost connection is lost for good and main never ends.
THEOREM LoopLostForever == Spec => LostIsForever
<1>1. TypeOK /\ DrainedBeforePoll /\ [Next]_vars =>
        [Lost /\ ~quit /\ events = <<>> =>
           Lost' /\ ~quit' /\ handled' = handled]_vars
  BY LostStep
<1> QED
  BY LoopDrained, LoopTypeOK, <1>1, PTL DEF Spec, LostIsForever

===============================================================================
