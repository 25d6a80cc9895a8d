------------------------------ MODULE EventLoop -------------------------------
(***************************************************************************)
(* The event loop of src/windowing.c and the loop of main in src/spaze.c   *)
(* that drives it, with one window, from the end of window_init on.        *)
(*                                                                         *)
(* main alternates event_loop_update and handle_events.  An update asks    *)
(* poll what the socket has, prepares to read, flushes, reads and          *)
(* dispatches; the compositor and the network run between any two of these *)
(* steps.  The listeners answer pings and configures and push the events   *)
(* of the toplevel to the array "events", which event_loop_get pops.       *)
(*                                                                         *)
(* External: libwayland-client (its event queue, its output buffer, what   *)
(* prepare_read, flush, read_events and dispatch_pending do), the socket,  *)
(* and the compositor.                                                     *)
(***************************************************************************)
EXTENDS Integers, Sequences, SequencesExt

CONSTANTS
  Sizes,          \* the int32_t widths a toplevel configure may carry
  MaxIssued,      \* bound: the events the compositor sends in all
  SockCap,        \* requests the socket takes before flush gets EAGAIN
  MaxInterrupts,  \* bound: the polls a signal interrupts in all
  None            \* no size

ASSUME EventLoopAssumption ==
  /\ Sizes # {} /\ Sizes \subseteq Int /\ None \notin Int
  /\ MaxIssued \in Nat /\ MaxInterrupts \in Nat
  /\ SockCap \in Nat \ {0}

VARIABLES
  pc,          \* where the only thread is
  revents,     \* what poll found: in, and err (rc < 0, POLLHUP or POLLERR)
  interrupts,  \* the polls interrupted so far
  quit,        \* should_quit
  events,      \* event_loop_s.events
  queue,       \* libwayland: the events read and not dispatched
  out,         \* libwayland: the requests not written to the socket
  error,       \* libwayland: the display's last_error is set
  inbox,       \* the socket, compositor to client
  wire,        \* the socket, client to compositor
  up,          \* the compositor has its end open
  srv,         \* the compositor: see Init
  \* History, oldest first.
  handled,     \* the events a listener was called for
  received,    \* the events event_loop_get returned
  sent         \* the requests written to the socket

client == << pc, revents, interrupts, quit, events, queue, out, error >>
history == << handled, received, sent >>
vars == << client, inbox, wire, up, srv, history >>

\* What the compositor sends.  A toplevel configure and the surface configure
\* that ends its sequence carry the same id, the serial.
Kinds  == {"ping", "toplevel", "configure", "close", "error"}
Event  == { e \in [kind : Kinds, id : 1 .. MaxIssued, size : Sizes \union {None}] :
              e.kind = "toplevel" => e.size \in Sizes }
Ev(k, i, s) == [kind |-> k, id |-> i, size |-> s]

Request == [kind : {"commit", "pong", "ack"}, id : 0 .. MaxIssued]
Req(k, i) == [kind |-> k, id |-> i]

\* event_s as the application sees it
AppEvent == [kind : {"close", "resize"}, id : 1 .. MaxIssued,
             size : (Nat \ {0}) \union {None}]

Init ==
  /\ pc = "poll" /\ quit = FALSE /\ events = <<>>
  /\ revents = [in |-> FALSE, err |-> FALSE] /\ interrupts = 0
  /\ queue = <<>> /\ error = FALSE
  /\ out = << Req("commit", 0) >>
  /\ inbox = <<>> /\ wire = <<>> /\ up = TRUE
  /\ srv = [ issued |-> 0, committed |-> FALSE, acked |-> 0,
             unanswered |-> {}, ponged |-> {}, closed |-> FALSE,
             fatal |-> FALSE, refused |-> FALSE ]
  /\ handled = <<>> /\ received = <<>> /\ sent = <<>>

-------------------------------------------------------------------------------
(***************************************************************************)
(* event_loop_update                                                       *)
(***************************************************************************)

\* Mutant: POLLHUP is not looked at.
PollBlind ==
  /\ pc = "poll"
  /\ pc' = "prepare"
  /\ revents' = [in |-> inbox # <<>>, err |-> FALSE]
  /\ UNCHANGED << interrupts, quit, events, queue, out, error,
                  inbox, wire, up, srv, history >>

\* poll with a timeout of 0.  A socket whose other end is closed reads as
\* POLLIN and POLLHUP.
Poll ==
  /\ pc = "poll"
  /\ pc' = "prepare"
  /\ revents' = [in |-> inbox # <<>> \/ ~up, err |-> ~up]
  /\ UNCHANGED << interrupts, quit, events, queue, out, error,
                  inbox, wire, up, srv, history >>

PollInterrupted ==
  /\ pc = "poll" /\ interrupts < MaxInterrupts
  /\ pc' = "prepare"
  /\ interrupts' = interrupts + 1
  /\ revents' = [in |-> FALSE, err |-> TRUE]
  /\ UNCHANGED << quit, events, queue, out, error, inbox, wire, up, srv, history >>

\* wl_display_prepare_read refuses while the queue holds an event; the update
\* then dispatches and returns.
Prepare ==
  /\ pc = "prepare"
  /\ pc' = IF queue = <<>> THEN "flush" ELSE "dispatch"
  /\ UNCHANGED << revents, interrupts, quit, events, queue, out, error,
                  inbox, wire, up, srv, history >>

\* Everything fits, or there is nothing to write: wl_display_flush returns 0.
FlushAll ==
  /\ pc = "flush" /\ ~error
  /\ out = <<>> \/ (up /\ Len(wire) + Len(out) <= SockCap)
  /\ wire' = wire \o out
  /\ sent' = sent \o out
  /\ out' = <<>>
  /\ pc' = "read"
  /\ UNCHANGED << revents, interrupts, quit, events, queue, error,
                  inbox, up, srv, handled, received >>

\* Mutant: what the socket did not take is thrown away.
FlushBlockedDrops ==
  /\ pc = "flush" /\ ~error /\ up
  /\ Len(wire) + Len(out) > SockCap
  /\ LET n == SockCap - Len(wire)
     IN  /\ wire' = wire \o SubSeq(out, 1, n)
         /\ sent' = sent \o SubSeq(out, 1, n)
         /\ out' = <<>>
  /\ pc' = "handle"
  /\ UNCHANGED << revents, interrupts, quit, events, queue, error,
                  inbox, up, srv, handled, received >>

\* EAGAIN: what fits is written, the rest stays, and the update returns without
\* a read or a dispatch.
FlushBlocked ==
  /\ pc = "flush" /\ ~error /\ up
  /\ Len(wire) + Len(out) > SockCap
  /\ LET n == SockCap - Len(wire)
     IN  /\ wire' = wire \o SubSeq(out, 1, n)
         /\ sent' = sent \o SubSeq(out, 1, n)
         /\ out' = SubSeq(out, n + 1, Len(out))
  /\ pc' = "handle"
  /\ UNCHANGED << revents, interrupts, quit, events, queue, error,
                  inbox, up, srv, handled, received >>

\* EPIPE, which libwayland does not record, or an error it has recorded.
FlushFails ==
  /\ pc = "flush"
  /\ error \/ (~up /\ out # <<>>)
  /\ pc' = "handle"
  /\ UNCHANGED << revents, interrupts, quit, events, queue, out, error,
                  inbox, wire, up, srv, history >>

\* has_errors: cancel_read and return.
SkipRead ==
  /\ pc = "read" /\ revents.err
  /\ pc' = "handle"
  /\ UNCHANGED << revents, interrupts, quit, events, queue, out, error,
                  inbox, wire, up, srv, history >>

CancelRead ==
  /\ pc = "read" /\ ~revents.err /\ ~revents.in
  /\ pc' = "dispatch"
  /\ UNCHANGED << revents, interrupts, quit, events, queue, out, error,
                  inbox, wire, up, srv, history >>

\* wl_display_read_events takes what the socket gives, at least one event: poll
\* saw one and nobody else reads.
ReadEvents ==
  /\ pc = "read" /\ ~revents.err /\ revents.in
  /\ \E n \in 1 .. Len(inbox) :
       /\ queue' = queue \o SubSeq(inbox, 1, n)
       /\ inbox' = SubSeq(inbox, n + 1, Len(inbox))
  /\ pc' = "dispatch"
  /\ UNCHANGED << revents, interrupts, quit, events, out, error,
                  wire, up, srv, history >>

\* The compositor closed its end after the poll: read gives ECONNRESET.
ReadFails ==
  /\ pc = "read" /\ ~revents.err /\ revents.in /\ ~up
  /\ error' = TRUE
  /\ pc' = "dispatch"
  /\ UNCHANGED << revents, interrupts, quit, events, queue, out,
                  inbox, wire, up, srv, history >>

-------------------------------------------------------------------------------
(***************************************************************************)
(* wl_display_dispatch_pending, and the listeners it calls.  wl_display's  *)
(* own events have a queue that goes first: an error, which is the last    *)
(* thing a compositor sends, sets last_error before any other event read   *)
(* with it is looked at, and nothing is dispatched from then on.           *)
(***************************************************************************)
HasError(q) == q # <<>> /\ Last(q).kind = "error"

DispatchError ==
  /\ pc = "dispatch"
  /\ error \/ HasError(queue)
  /\ error' = TRUE
  /\ queue' = IF HasError(queue) THEN Front(queue) ELSE queue
  /\ pc' = "handle"
  /\ UNCHANGED << revents, interrupts, quit, events, out,
                  inbox, wire, up, srv, history >>

\* Mutant: window_configure acknowledges too.
AnswerTwice(e) ==
  CASE e.kind = "ping" -> << Req("pong", e.id) >>
    [] e.kind \in {"toplevel", "configure"} -> << Req("ack", e.id) >>
    [] OTHER -> <<>>

\* wm_base_ping, surface_configure: a request for the output buffer
Answer(e) ==
  CASE e.kind = "ping"      -> << Req("pong", e.id) >>
    [] e.kind = "configure" -> << Req("ack", e.id) >>
    [] OTHER                -> <<>>

ClampNegative(size) == IF size >= 0 THEN size ELSE 1  \* mutant: zero stays

\* window_configure, window_close: an event for the array.  A width or height
\* that is not positive becomes 1.
Clamp(size) == IF size > 0 THEN size ELSE 1

\* Mutant: a configure without a size makes no event.
PushedIfSized(e) ==
  CASE e.kind = "toplevel" /\ e.size > 0 -> << [kind |-> "resize", id |-> e.id, size |-> e.size] >>
    [] e.kind = "close" -> << [kind |-> "close", id |-> e.id, size |-> None] >>
    [] OTHER -> <<>>

Pushed(e) ==
  CASE e.kind = "toplevel" -> << [kind |-> "resize", id |-> e.id, size |-> Clamp(e.size)] >>
    [] e.kind = "close"    -> << [kind |-> "close", id |-> e.id, size |-> None] >>
    [] OTHER               -> <<>>

DispatchEvent ==
  /\ pc = "dispatch" /\ queue # <<>>
  /\ ~error /\ ~HasError(queue)
  /\ LET e == Head(queue)
     IN  /\ out' = out \o Answer(e)
         /\ events' = events \o Pushed(e)
         /\ handled' = Append(handled, e)
  /\ queue' = Tail(queue)
  /\ UNCHANGED << pc, revents, interrupts, quit, error,
                  inbox, wire, up, srv, received, sent >>

DispatchDone ==
  /\ pc = "dispatch" /\ queue = <<>> /\ ~error
  /\ pc' = "handle"
  /\ UNCHANGED << revents, interrupts, quit, events, queue, out, error,
                  inbox, wire, up, srv, history >>

-------------------------------------------------------------------------------
(***************************************************************************)
(* handle_events, and main around it.                                      *)
(***************************************************************************)

\* Mutant: array_pop leaves the length.
HandleEventKeeps ==
  /\ pc = "handle" /\ events # <<>>
  /\ received' = Append(received, Last(events))
  /\ quit' = (quit \/ Last(events).kind = "close")
  /\ UNCHANGED << pc, revents, interrupts, events, queue, out, error,
                  inbox, wire, up, srv, handled, sent >>

\* Mutant: should_quit is assigned for every event.
HandleEventForgets ==
  /\ pc = "handle" /\ events # <<>>
  /\ LET e == Last(events)
     IN  received' = Append(received, e) /\ quit' = (e.kind = "close")
  /\ events' = Front(events)
  /\ UNCHANGED << pc, revents, interrupts, queue, out, error,
                  inbox, wire, up, srv, handled, sent >>

\* event_loop_get pops the event pushed last; handle_events looks at it.
HandleEvent ==
  /\ pc = "handle" /\ events # <<>>
  /\ LET e == Last(events)
     IN  /\ received' = Append(received, e)
         /\ quit' = (quit \/ e.kind = "close")
  /\ events' = Front(events)
  /\ UNCHANGED << pc, revents, interrupts, queue, out, error,
                  inbox, wire, up, srv, handled, sent >>

\* Mutant: "if" for "while": one event per iteration.
HandleDoneEarly ==
  /\ pc = "handle" /\ ~quit
  /\ pc' = "poll"
  /\ UNCHANGED << revents, interrupts, quit, events, queue, out, error,
                  inbox, wire, up, srv, history >>

HandleDone ==
  /\ pc = "handle" /\ events = <<>> /\ ~quit
  /\ pc' = "poll"
  /\ UNCHANGED << revents, interrupts, quit, events, queue, out, error,
                  inbox, wire, up, srv, history >>

\* event_loop_deinit disconnects without a flush.
Exit ==
  /\ pc = "handle" /\ events = <<>> /\ quit
  /\ pc' = "done"
  /\ queue' = <<>> /\ out' = <<>>
  /\ UNCHANGED << revents, interrupts, quit, events, error,
                  inbox, wire, up, srv, history >>

Client ==
  \/ Poll \/ PollInterrupted \/ Prepare
  \/ FlushAll \/ FlushBlocked \/ FlushFails
  \/ SkipRead \/ CancelRead \/ ReadEvents \/ ReadFails
  \/ DispatchError \/ DispatchEvent \/ DispatchDone
  \/ HandleEvent \/ HandleDone \/ Exit

-------------------------------------------------------------------------------
(***************************************************************************)
(* The compositor, external.  It speaks xdg-shell as it should: the first  *)
(* configure follows the first commit, and after a fatal error it sends    *)
(* nothing.                                                                *)
(***************************************************************************)
CanSend == up /\ ~srv.fatal /\ srv.issued < MaxIssued
Serial == srv.issued + 1

SrvPing ==
  /\ CanSend
  /\ inbox' = Append(inbox, Ev("ping", Serial, None))
  /\ srv' = [srv EXCEPT !.issued = Serial, !.unanswered = @ \union {Serial}]
  /\ UNCHANGED << client, wire, up, history >>

SrvConfigure(size) ==
  /\ CanSend /\ srv.committed
  /\ inbox' = inbox \o << Ev("toplevel", Serial, size), Ev("configure", Serial, None) >>
  /\ srv' = [srv EXCEPT !.issued = Serial]
  /\ UNCHANGED << client, wire, up, history >>

SrvClose ==
  /\ CanSend /\ srv.committed /\ ~srv.closed
  /\ inbox' = Append(inbox, Ev("close", Serial, None))
  /\ srv' = [srv EXCEPT !.issued = Serial, !.closed = TRUE]
  /\ UNCHANGED << client, wire, up, history >>

SrvError ==
  /\ CanSend
  /\ inbox' = Append(inbox, Ev("error", Serial, None))
  /\ srv' = [srv EXCEPT !.issued = Serial, !.fatal = TRUE]
  /\ UNCHANGED << client, wire, up, history >>

SrvHangup ==
  /\ up
  /\ up' = FALSE
  /\ wire' = <<>>
  /\ UNCHANGED << client, inbox, srv, history >>

\* An ack must name a configure sent and later than the last one acknowledged
\* (invalid_serial), a pong a ping that waits for it.
SrvReceive ==
  /\ up /\ wire # <<>>
  /\ LET r == Head(wire)
     IN  srv' = CASE r.kind = "commit" -> [srv EXCEPT !.committed = TRUE]
                  [] r.kind = "pong" ->
                       [srv EXCEPT !.refused = @ \/ r.id \notin srv.unanswered,
                                   !.unanswered = @ \ {r.id},
                                   !.ponged = @ \union {r.id}]
                  [] r.kind = "ack" ->
                       [srv EXCEPT !.refused = @ \/ r.id \notin srv.acked + 1 .. srv.issued,
                                   !.acked = r.id]
  /\ wire' = Tail(wire)
  /\ UNCHANGED << client, inbox, up, history >>

Compositor ==
  \/ SrvPing \/ SrvClose \/ SrvError \/ SrvHangup \/ SrvReceive
  \/ \E size \in Sizes : SrvConfigure(size)

-------------------------------------------------------------------------------

Next == Client \/ Compositor
Spec == Init /\ [][Next]_vars

\* The only thread goes on (no call of the loop blocks: poll has timeout 0 and
\* the socket is non-blocking), and the compositor reads its end.  It need not
\* send anything, and a poll need not be interrupted.
FairSpec == Spec /\ WF_vars(Client) /\ WF_vars(SrvReceive)

-------------------------------------------------------------------------------
(***************************************************************************)
(* Properties                                                              *)
(***************************************************************************)

\* The values the variables may have.
TypeOK ==
  /\ pc \in {"poll", "prepare", "flush", "read", "dispatch", "handle", "done"}
  /\ revents \in [in : BOOLEAN, err : BOOLEAN]
  /\ interrupts \in 0 .. MaxInterrupts
  /\ quit \in BOOLEAN /\ error \in BOOLEAN /\ up \in BOOLEAN
  /\ events \in Seq(AppEvent) /\ received \in Seq(AppEvent)
  /\ queue \in Seq(Event) /\ inbox \in Seq(Event) /\ handled \in Seq(Event)
  /\ out \in Seq(Request) /\ sent \in Seq(Request)
  /\ wire \in Seq(Request) /\ Len(wire) <= SockCap
  /\ srv \in [ issued : 0 .. MaxIssued, committed : BOOLEAN, acked : 0 .. MaxIssued,
               unanswered : SUBSET (1 .. MaxIssued), ponged : SUBSET (0 .. MaxIssued),
               closed : BOOLEAN, fatal : BOOLEAN, refused : BOOLEAN ]

\* Each iteration of main starts with nothing left over from the one before: no
\* event waits in the array, and none in libwayland's queue unless the display
\* is in error.  So prepare_read refuses only on a connection that is lost, and
\* the branch of event_loop_update that dispatches and returns delivers nothing.
DrainedBeforePoll ==
  /\ pc \in {"poll", "prepare", "flush", "read"} => events = <<>>
  /\ pc \in {"poll", "prepare", "handle"} => queue = <<>> \/ error
  /\ pc \in {"flush", "read"} => queue = <<>>

\* Flushes cut short by EAGAIN, skipped reads and split reads included, the
\* requests that left the client and those that wait are the initial commit and
\* one answer for each ping and configure handled, in that order.
AnswersInOrder ==
  pc # "done" =>
    sent \o out =
      << Req("commit", 0) >> \o
        FlattenSeq([i \in 1 .. Len(handled) |-> Answer(handled[i])])

\* Each event of the toplevel that a listener was called for comes out of
\* event_loop_get once: none is lost in the array and none returned twice.
EventsConserved ==
  LET pushed == FlattenSeq([i \in 1 .. Len(handled) |-> Pushed(handled[i])])
  IN  /\ Len(received) + Len(events) = Len(pushed)
      /\ Range(received) \union Range(events) = Range(pushed)

\* The compositor has no reason to raise invalid_serial, or to take a pong for
\* one too many.
NeverRefused == ~srv.refused

\* An ack_configure leaves the client only after the application got the resize
\* event of the same configure sequence, although the listener that makes the
\* request runs before the application sees anything.
AckAfterResize ==
  \A i \in 1 .. Len(sent) : sent[i].kind = "ack" =>
    \E j \in 1 .. Len(received) : received[j].kind = "resize" /\ received[j].id = sent[i].id

\* The loop never looks at what the socket holds once it is lost, nor leaves:
\* from the first poll that finds the connection closed, or the first error of
\* the display, no event is handled and main goes round for ever.
Lost == error \/ (~up /\ (pc = "poll" \/ (revents.err /\ pc # "dispatch")))
LostIsForever ==
  [][ Lost /\ ~quit /\ events = <<>> =>
        Lost' /\ ~quit' /\ handled' = handled ]_vars

\* A ping is answered while the connection lasts and the window is open.
PingAnswered ==
  \A i \in 1 .. MaxIssued :
    (i \in srv.unanswered) ~> (i \in srv.ponged \/ ~up \/ srv.fatal \/ quit)

\* A close makes the program leave its loop, while the connection lasts.
CloseQuits == srv.closed ~> (pc = "done" \/ ~up \/ srv.fatal)

\* "If the client receives multiple configure events before it can respond to
\* one, it is free to discard all but the last event it received"
\* (include/spaze/xdg-shell.h): when a configure sequence is complete and the
\* loop is between two updates, the size the application was given last is the
\* size that was configured last.
LastSizeStands ==
  LET resizes == SelectSeq(received, LAMBDA e : e.kind = "resize")
      configs == SelectSeq(handled, LAMBDA e : e.kind = "toplevel")
  IN  pc = "poll" /\ handled # <<>> /\ Last(handled).kind = "configure" =>
        Last(resizes).size = Clamp(Last(configs).size)

===============================================================================
