-------------------------------- MODULE Window ---------------------------------
(***************************************************************************)
(* The windows of src/windowing.c: window_init with its three failures,    *)
(* window_deinit, the listeners, and the event array whose entries name    *)
(* windows by pointer, for an application that opens and closes several    *)
(* windows, and the same struct window_s again, on one connection.         *)
(*                                                                         *)
(* A window has three protocol objects.  The gen of an object tells the    *)
(* calls of window_init apart; the code has no such number.  Requests and  *)
(* events each go through one channel, which stands for libwayland's       *)
(* buffers and the socket (EventLoop has their insides).                   *)
(*                                                                         *)
(* External: the application, libwayland, the compositor.                  *)
(***************************************************************************)
EXTENDS Integers, Sequences

CONSTANTS
  Windows,   \* the struct window_s of the application
  MaxInits,  \* bound: the calls of window_init in all
  MaxSerial, \* bound: the configures and closes the compositor sends in all
  NULL       \* no object, no window

VARIABLES
  win,       \* the structs
  inits,     \* the calls of window_init so far
  proxies,   \* libwayland: the objects of the client
  data,      \* libwayland: the window a listener of an object is called with
  requests,  \* the requests on their way to the compositor
  inbox,     \* the events on their way to the listeners
  events,    \* event_loop_s.events
  alive,     \* event_loop_s.alive
  srv,       \* the compositor: its objects, the gens committed, the serials
             \* it used (of which gen), and its error
  fault,     \* a listener went through the loop pointer of a cleared window
  \* History.
  untidy,    \* the gens that were deinit'ed with an event of theirs in the array
  late       \* the events that were returned when their window was gone

client == << win, inits, proxies, data, events, alive, fault, untidy, late >>
vars == << client, requests, inbox, srv >>

Gens == 1 .. MaxInits
Object == [kind : {"wl_surface", "xdg_surface", "xdg_toplevel"}, gen : Gens]
Surface(n)  == [kind |-> "wl_surface", gen |-> n]
Xdg(n)      == [kind |-> "xdg_surface", gen |-> n]
Toplevel(n) == [kind |-> "xdg_toplevel", gen |-> n]

ASSUME WindowAssumption ==
  /\ MaxInits \in Nat /\ MaxSerial \in Nat
  /\ NULL \notin Windows /\ NULL \notin Object

Request == [op : {"create", "commit", "ack", "destroy"}, obj : Object, serial : 0 .. MaxSerial]
Create(o)  == [op |-> "create", obj |-> o, serial |-> 0]
Commit(o)  == [op |-> "commit", obj |-> o, serial |-> 0]
Ack(o, s)  == [op |-> "ack", obj |-> o, serial |-> s]
Destroy(o) == [op |-> "destroy", obj |-> o, serial |-> 0]

Event == [kind : {"resize", "close", "configure"}, obj : Object, serial : 1 .. MaxSerial]

\* event_s, with the gen of the object it came for
AppEvent == [kind : {"close", "resize"}, window : Windows, gen : Gens]

\* memset(window, 0, sizeof(*window))
Cleared == [alive |-> FALSE, surface |-> NULL, xdg_surface |-> NULL, xdg_toplevel |-> NULL]

\* Mutant: window->xdg_toplevel is not assigned.
StructNoToplevel(n) == [alive |-> TRUE, surface |-> Surface(n), xdg_surface |-> Xdg(n),
                        xdg_toplevel |-> NULL]

\* What window_init leaves in it.
Struct(n) == [alive |-> TRUE, surface |-> Surface(n), xdg_surface |-> Xdg(n),
              xdg_toplevel |-> Toplevel(n)]

Init ==
  /\ win = [w \in Windows |-> Cleared]
  /\ inits = 0 /\ proxies = {}
  /\ data = [o \in Object |-> NULL]
  /\ requests = <<>> /\ inbox = <<>> /\ events = <<>>
  /\ alive = TRUE /\ fault = FALSE
  /\ srv = [objects |-> {}, committed |-> {}, serials |-> <<>>, error |-> "none"]
  /\ untidy = {} /\ late = {}

-------------------------------------------------------------------------------
(***************************************************************************)
(* window_init.  Nothing is dispatched on the way, so a call is one step.  *)
(***************************************************************************)
New == inits + 1
CanInit(w) == alive /\ ~fault /\ ~win[w].alive /\ inits < MaxInits

InitSurfaceFails(w) ==
  /\ CanInit(w)
  /\ inits' = New
  /\ UNCHANGED << win, proxies, data, requests, inbox, events, alive, srv,
                  fault, untidy, late >>

\* Mutant: the proxy is freed and the request not made.
InitXdgFailsSilent(w) ==
  /\ CanInit(w)
  /\ inits' = New
  /\ requests' = requests \o << Create(Surface(New)) >>
  /\ UNCHANGED << win, proxies, data, inbox, events, alive, srv, fault, untidy, late >>

InitXdgFails(w) ==
  /\ CanInit(w)
  /\ inits' = New
  /\ requests' = requests \o << Create(Surface(New)), Destroy(Surface(New)) >>
  /\ UNCHANGED << win, proxies, data, inbox, events, alive, srv, fault, untidy, late >>

\* Mutant: the wl_surface is forgotten.
InitToplevelFailsLeaks(w) ==
  /\ CanInit(w)
  /\ inits' = New
  /\ requests' = requests \o << Create(Surface(New)), Create(Xdg(New)), Destroy(Xdg(New)) >>
  /\ proxies' = proxies \union {Surface(New)}
  /\ UNCHANGED << win, data, inbox, events, alive, srv, fault, untidy, late >>

\* Mutant: a common exit path destroys the wl_surface once more.
InitToplevelFailsTwice(w) ==
  /\ CanInit(w)
  /\ inits' = New
  /\ requests' = requests \o << Create(Surface(New)), Create(Xdg(New)), Destroy(Xdg(New)),
                                Destroy(Surface(New)), Destroy(Surface(New)) >>
  /\ UNCHANGED << win, proxies, data, inbox, events, alive, srv, fault, untidy, late >>

InitToplevelFails(w) ==
  /\ CanInit(w)
  /\ inits' = New
  /\ requests' = requests \o << Create(Surface(New)), Create(Xdg(New)),
                                Destroy(Xdg(New)), Destroy(Surface(New)) >>
  /\ UNCHANGED << win, proxies, data, inbox, events, alive, srv, fault, untidy, late >>

WindowInit(w) ==
  /\ CanInit(w)
  /\ inits' = New
  /\ win' = [win EXCEPT ![w] = Struct(New)]
  /\ proxies' = proxies \union {Surface(New), Xdg(New), Toplevel(New)}
  /\ data' = [data EXCEPT ![Xdg(New)] = w, ![Toplevel(New)] = w]
  /\ requests' = requests \o << Create(Surface(New)), Create(Xdg(New)),
                                Create(Toplevel(New)), Commit(Surface(New)) >>
  /\ UNCHANGED << inbox, events, alive, srv, fault, untidy, late >>

-------------------------------------------------------------------------------
(***************************************************************************)
(* window_deinit, and event_loop_deinit after it                           *)
(***************************************************************************)

\* The events in the array that name window w.
Waiting(w) == { i \in DOMAIN events : events[i].window = w }

\* Mutant: the xdg_toplevel is forgotten.
WindowDeinitLeaks(w) ==
  /\ alive /\ ~fault /\ win[w].alive
  /\ requests' = requests \o << Destroy(win[w].surface), Destroy(win[w].xdg_surface) >>
  /\ proxies' = proxies \ {win[w].surface, win[w].xdg_surface}
  /\ win' = [win EXCEPT ![w] = Cleared]
  /\ untidy' = untidy \union { events[i].gen : i \in Waiting(w) }
  /\ UNCHANGED << inits, data, inbox, events, alive, srv, fault, late >>

\* Mutant: alive is not looked at.
WindowDeinitUnchecked(w) ==
  /\ alive /\ ~fault /\ ~win[w].alive
  /\ requests' = requests \o << Destroy(win[w].surface), Destroy(win[w].xdg_surface),
                                Destroy(win[w].xdg_toplevel) >>
  /\ UNCHANGED << client, inbox, srv >>

\* The three destroys go out in this order; the array is left as it is.
WindowDeinit(w) ==
  /\ alive /\ ~fault /\ win[w].alive
  /\ requests' = requests \o << Destroy(win[w].surface), Destroy(win[w].xdg_surface),
                                Destroy(win[w].xdg_toplevel) >>
  /\ proxies' = proxies \ {win[w].surface, win[w].xdg_surface, win[w].xdg_toplevel}
  /\ win' = [win EXCEPT ![w] = Cleared]
  /\ untidy' = untidy \union { events[i].gen : i \in Waiting(w) }
  /\ UNCHANGED << inits, data, inbox, events, alive, srv, fault, late >>

\* The application destroys its windows first, as main does.  What was not
\* flushed is lost: the compositor sees the connection close.
EventLoopDeinit ==
  /\ alive /\ ~fault /\ \A w \in Windows : ~win[w].alive
  /\ alive' = FALSE
  /\ requests' = <<>> /\ inbox' = <<>> /\ events' = <<>>
  /\ srv' = [srv EXCEPT !.objects = {}]
  /\ UNCHANGED << win, inits, proxies, data, fault, untidy, late >>

-------------------------------------------------------------------------------
(***************************************************************************)
(* The listeners.  libwayland drops an event whose object was destroyed    *)
(* after the event was sent.                                               *)
(***************************************************************************)
Dispatch(e) == /\ alive /\ ~fault /\ inbox # <<>> /\ e = Head(inbox)
               /\ inbox' = Tail(inbox)

DispatchDropped ==
  /\ \E e \in Event : Dispatch(e) /\ e.obj \notin proxies
  /\ UNCHANGED << client, requests, srv >>

\* surface_configure looks at nothing but the proxy.
SurfaceConfigure ==
  /\ \E e \in Event :
       /\ Dispatch(e) /\ e.obj \in proxies /\ e.kind = "configure"
       /\ requests' = Append(requests, Ack(e.obj, e.serial))
  /\ UNCHANGED << client, srv >>

\* window_configure and window_close: window->loop is NULL in a cleared window.
ToplevelListener ==
  /\ \E e \in Event :
       /\ Dispatch(e) /\ e.obj \in proxies /\ e.kind # "configure"
       /\ LET w == data[e.obj]
          IN  IF w \in Windows /\ win[w].alive
              THEN /\ events' = Append(events, [kind |-> e.kind, window |-> w, gen |-> e.obj.gen])
                   /\ UNCHANGED fault
              ELSE fault' = TRUE /\ UNCHANGED events
  /\ UNCHANGED << win, inits, proxies, data, alive, untidy, late, requests, srv >>

\* The window an event names is the one it came for.
IsOf(w, n) == win[w].alive /\ win[w].xdg_toplevel = Toplevel(n)

\* event_loop_get
EventLoopGet ==
  /\ alive /\ ~fault /\ events # <<>>
  /\ LET e == events[Len(events)]
     IN  late' = IF IsOf(e.window, e.gen) THEN late ELSE late \union {e.gen}
  /\ events' = SubSeq(events, 1, Len(events) - 1)
  /\ UNCHANGED << win, inits, proxies, data, alive, fault, untidy, requests, inbox, srv >>

-------------------------------------------------------------------------------
(***************************************************************************)
(* The compositor, external.  It keeps xdg-shell's rule on the order of    *)
(* destruction, refuses requests for what it does not have, and does       *)
(* nothing after an error.                                                 *)
(***************************************************************************)
Parent(o) == CASE o.kind = "xdg_toplevel" -> {Xdg(o.gen)}
               [] o.kind = "xdg_surface" -> {Surface(o.gen)}
               [] OTHER -> {}

Handled(s, r) ==
  CASE r.op = "create" /\ Parent(r.obj) \subseteq s.objects ->
         [s EXCEPT !.objects = @ \union {r.obj}]
    [] r.op # "create" /\ r.obj \notin s.objects -> [s EXCEPT !.error = "invalid_object"]
    [] r.op = "commit" /\ r.obj \in s.objects ->
         [s EXCEPT !.committed = @ \union {r.obj.gen}]
    [] r.op = "ack" /\ r.obj \in s.objects ->
         IF r.serial \in DOMAIN s.serials /\ s.serials[r.serial] = r.obj.gen
         THEN s ELSE [s EXCEPT !.error = "invalid_serial"]
    [] r.op = "destroy" /\ r.obj \in s.objects ->
         IF r.obj.kind = "xdg_surface" /\ Toplevel(r.obj.gen) \in s.objects
         THEN [s EXCEPT !.error = "defunct_role_object"]
         ELSE [s EXCEPT !.objects = @ \ {r.obj}]
    [] OTHER -> [s EXCEPT !.error = "invalid_object"]

SrvReceive ==
  /\ requests # <<>>
  /\ srv' = IF srv.error = "none" THEN Handled(srv, Head(requests)) ELSE srv
  /\ requests' = Tail(requests)
  /\ UNCHANGED << client, inbox >>

CanSend(n) == /\ alive /\ srv.error = "none" /\ n \in srv.committed
              /\ {Xdg(n), Toplevel(n)} \subseteq srv.objects
              /\ Len(srv.serials) < MaxSerial
Sent(n, kinds) ==
  LET s == Len(srv.serials) + 1
      EventOf(kind) == [kind |-> kind, serial |-> s,
                        obj |-> IF kind = "configure" THEN Xdg(n) ELSE Toplevel(n)]
  IN  /\ inbox' = inbox \o [i \in DOMAIN kinds |-> EventOf(kinds[i])]
      /\ srv' = [srv EXCEPT !.serials = Append(@, n)]

SrvConfigure(n) ==
  /\ CanSend(n) /\ Sent(n, << "resize", "configure" >>)
  /\ UNCHANGED << client, requests >>

SrvClose(n) ==
  /\ CanSend(n) /\ Sent(n, << "close" >>)
  /\ UNCHANGED << client, requests >>

-------------------------------------------------------------------------------

Next ==
  \/ \E w \in Windows : \/ InitSurfaceFails(w) \/ InitXdgFails(w)
                        \/ InitToplevelFails(w) \/ WindowInit(w) \/ WindowDeinit(w)
  \/ DispatchDropped \/ SurfaceConfigure \/ ToplevelListener
  \/ EventLoopGet \/ EventLoopDeinit
  \/ SrvReceive
  \/ \E n \in Gens : SrvConfigure(n) \/ SrvClose(n)

Spec == Init /\ [][Next]_vars

-------------------------------------------------------------------------------
(***************************************************************************)
(* Properties                                                              *)
(***************************************************************************)

\* The values the variables may have.
TypeOK ==
  /\ win \in [Windows -> [ alive : BOOLEAN,
                           surface : Object \union {NULL}, xdg_surface : Object \union {NULL},
                           xdg_toplevel : Object \union {NULL} ]]
  /\ inits \in 0 .. MaxInits
  /\ proxies \subseteq Object
  /\ data \in [Object -> Windows \union {NULL}]
  /\ requests \in Seq(Request) /\ inbox \in Seq(Event) /\ events \in Seq(AppEvent)
  /\ alive \in BOOLEAN /\ fault \in BOOLEAN
  /\ srv \in [ objects : SUBSET Object, committed : SUBSET Gens, serials : Seq(Gens),
               error : {"none", "invalid_object", "invalid_serial", "defunct_role_object"} ]
  /\ untidy \subseteq Gens /\ late \subseteq Gens

\* Every object the client has belongs to one window that is alive, and every
\* window that is alive has its three: whichever of its steps window_init fails
\* at, and however often a struct is used again, nothing is left behind.
Owned(w) == {win[w].surface, win[w].xdg_surface, win[w].xdg_toplevel} \ {NULL}
NoOrphans ==
  /\ proxies = UNION { Owned(w) : w \in Windows }
  /\ \A v, w \in Windows : v # w => Owned(v) \intersect Owned(w) = {}
  /\ \A w \in Windows :
       win[w].alive => \E n \in 1 .. inits : Owned(w) = {Surface(n), Xdg(n), Toplevel(n)}

\* A listener is called with the window its object belongs to, and never goes
\* through the NULL that window_deinit leaves: events that were on their way
\* when the window went are stopped with its objects.
ListenerFindsWindow ==
  /\ ~fault
  /\ \A o \in proxies : o.kind # "wl_surface" => data[o] \in Windows /\ o \in Owned(data[o])

\* An event names a window that is gone, or a later one in the same struct, only
\* when window_deinit was called with events of that window in the array: one
\* that drains the array first, as main does, never sees such an event.
StaleCause ==
  /\ late \subseteq untidy
  /\ \A i \in DOMAIN events :
       IsOf(events[i].window, events[i].gen) \/ events[i].gen \in untidy

\* The requests of window_init and of the listeners are in order on every path,
\* failures included, with any number of windows: what the compositor refuses is
\* a window_deinit, and nothing else.
ErrorCause ==
  /\ srv.error \in {"none", "defunct_role_object"}
  /\ alive /\ srv.error # "none" =>
       \E n \in 1 .. inits : Toplevel(n) \in srv.objects \ proxies

\* When everything was received and nothing refused, both ends have the same
\* objects.
SameObjects == alive /\ requests = <<>> /\ srv.error = "none" => srv.objects = proxies

\* "An xdg_surface must only be destroyed after its role object has been
\* destroyed, otherwise a defunct_role_object error is raised"
\* (include/spaze/xdg-shell.h): window_deinit does not make the compositor raise it.
NotDefunct == srv.error # "defunct_role_object"

================================================================================
