------------------------------ MODULE WindowProofs ------------------------------
(***************************************************************************)
(* Theorems about Window, for every set of structs and every number of     *)
(* calls and events.                                                       *)
(***************************************************************************)
EXTENDS Window, SequenceTheorems, TLAPS

-------------------------------------------------------------------------------
(***************************************************************************)
(* Objects and structs                                                     *)
(***************************************************************************)
Three(n) == {Surface(n), Xdg(n), Toplevel(n)}

\* The objects of two calls, and those of one, are apart.
LEMMA ObjectFacts ==
  ASSUME NEW m \in Gens, NEW n \in Gens
  PROVE  /\ Three(n) \subseteq Object /\ NULL \notin Three(n)
         /\ Surface(n).kind = "wl_surface" /\ Xdg(n).kind = "xdg_surface"
         /\ Toplevel(n).kind = "xdg_toplevel"
         /\ m # n => Three(m) \cap Three(n) = {}
         /\ Toplevel(m) = Toplevel(n) => m = n
  BY WindowAssumption DEF Three, Object, Surface, Xdg, Toplevel

LEMMA ToplevelOf ==
  ASSUME NEW o \in Object, o.kind = "xdg_toplevel"
  PROVE  o.gen \in Gens /\ o = Toplevel(o.gen)
  BY DEF Object, Toplevel

\* An object of a call is the one its kind says.
LEMMA OneOfThree ==
  ASSUME NEW n \in Gens, NEW o \in Three(n)
  PROVE  /\ o.kind = "wl_surface" \/ o = Xdg(n) \/ o = Toplevel(n)
         /\ o.kind = "xdg_toplevel" => o = Toplevel(n)
         /\ o.gen = n
  BY DEF Three, Surface, Xdg, Toplevel

WinType == [ alive : BOOLEAN,
             surface : Object \union {NULL}, xdg_surface : Object \union {NULL},
             xdg_toplevel : Object \union {NULL} ]

SrvType == [ objects : SUBSET Object, committed : SUBSET Gens, serials : Seq(Gens),
             error : {"none", "invalid_object", "invalid_serial", "defunct_role_object"} ]

LEMMA StructFacts ==
  ASSUME NEW n \in Gens
  PROVE  /\ Struct(n) \in WinType /\ Struct(n).alive /\ Struct(n) # Cleared
         /\ Struct(n).surface = Surface(n) /\ Struct(n).xdg_surface = Xdg(n)
         /\ Struct(n).xdg_toplevel = Toplevel(n)
         /\ {Struct(n).surface, Struct(n).xdg_surface, Struct(n).xdg_toplevel} \ {NULL} = Three(n)
<1>1. Surface(n) \in Object /\ Xdg(n) \in Object /\ Toplevel(n) \in Object /\ NULL \notin Three(n)
  BY ObjectFacts DEF Three
<1>2. /\ Struct(n).alive /\ Struct(n).surface = Surface(n) /\ Struct(n).xdg_surface = Xdg(n)
      /\ Struct(n).xdg_toplevel = Toplevel(n)
  BY DEF Struct
<1>3. Struct(n) \in WinType
  BY <1>1 DEF Struct, WinType
<1>4. Struct(n) # Cleared
  BY <1>2 DEF Cleared
<1> QED
  BY <1>1, <1>2, <1>3, <1>4 DEF Three

LEMMA ClearedFacts ==
  /\ Cleared \in WinType /\ ~Cleared.alive
  /\ {Cleared.surface, Cleared.xdg_surface, Cleared.xdg_toplevel} \ {NULL} = {}
  BY DEF Cleared, WinType

-------------------------------------------------------------------------------
(***************************************************************************)
(* The inductive invariant                                                 *)
(***************************************************************************)

\* Every struct is clear, or what a call of window_init left, each its own.
Structs ==
  /\ \A w \in Windows : win[w] = Cleared \/ \E n \in 1 .. inits : win[w] = Struct(n)
  /\ \A v, w \in Windows, n \in 1 .. inits :
       win[v] = Struct(n) /\ win[w] = Struct(n) => v = w

\* The client's objects are those of the structs, and have their window as data.
Objects ==
  /\ proxies = UNION { Owned(w) : w \in Windows }
  /\ \A w \in Windows, n \in 1 .. inits :
       win[w] = Struct(n) => data[Xdg(n)] = w /\ data[Toplevel(n)] = w

\* Events other than configure are for toplevels.
InboxKinds ==
  \A i \in DOMAIN inbox : inbox[i].kind # "configure" => inbox[i].obj.kind = "xdg_toplevel"

Inv == TypeOK /\ Structs /\ Objects /\ InboxKinds /\ ~fault /\ StaleCause

LEMMA OwnedFacts ==
  ASSUME NEW w \in Windows
  PROVE  /\ win[w] = Cleared => Owned(w) = {}
         /\ \A n \in Gens : win[w] = Struct(n) => Owned(w) = Three(n)
  BY ClearedFacts, StructFacts DEF Owned

LEMMA Ranges ==
  ASSUME Inv
  PROVE  /\ 1 .. inits \subseteq Gens
         /\ \A i \in DOMAIN events : events[i].window \in Windows /\ events[i].gen \in Gens
         /\ \A i \in DOMAIN inbox : inbox[i] \in Event
<1>1. 1 .. inits \subseteq Gens
  <2>1. inits \in 0 .. MaxInits
    BY DEF Inv, TypeOK
  <2> QED
    BY <2>1, WindowAssumption DEF Gens
<1>2. events \in Seq(AppEvent) /\ inbox \in Seq(Event)
  BY DEF Inv, TypeOK
<1>3. \A i \in DOMAIN events : events[i] \in AppEvent
  BY <1>2
<1>4. \A i \in DOMAIN inbox : inbox[i] \in Event
  BY <1>2
<1> QED
  BY <1>1, <1>3, <1>4 DEF AppEvent

LEMMA InitInv == Init => Inv
<1> SUFFICES ASSUME Init PROVE Inv
  OBVIOUS
<1>1. win \in [Windows -> WinType] /\ \A w \in Windows : win[w] = Cleared
  BY ClearedFacts DEF Init
<1>2. \A w \in Windows : Owned(w) = {}
  BY <1>1, OwnedFacts
<1>3. srv \in [ objects : SUBSET Object, committed : SUBSET Gens, serials : Seq(Gens),
                error : {"none", "invalid_object", "invalid_serial", "defunct_role_object"} ]
  BY DEF Init
<1>4. TypeOK
  <2>1. inits \in 0 .. MaxInits /\ proxies \subseteq Object /\ data \in [Object -> Windows \union {NULL}]
    BY WindowAssumption DEF Init
  <2>2. requests \in Seq(Request) /\ inbox \in Seq(Event) /\ events \in Seq(AppEvent)
    BY DEF Init
  <2> QED
    BY <1>1, <1>3, <2>1, <2>2 DEF Init, TypeOK, WinType
<1>5. Structs
  BY <1>1, StructFacts DEF Init, Structs, Gens
<1>6. Objects
  BY <1>2, <1>5 DEF Init, Objects
<1>7. InboxKinds /\ StaleCause /\ ~fault
  BY DEF Init, InboxKinds, StaleCause
<1> QED
  BY <1>4, <1>5, <1>6, <1>7 DEF Inv

-------------------------------------------------------------------------------
(***************************************************************************)
(* Facts about sequences                                                   *)
(***************************************************************************)
LEMMA RequestTypes ==
  ASSUME NEW o \in Object
  PROVE  /\ Create(o) \in Request /\ Commit(o) \in Request /\ Destroy(o) \in Request
         /\ \A s \in 1 .. MaxSerial : Ack(o, s) \in Request
  BY WindowAssumption DEF Create, Commit, Destroy, Ack, Request

\* A batch of at most four requests on the way.
LEMMA MoreRequests ==
  ASSUME NEW q \in Seq(Request), NEW a \in Request, NEW b \in Request,
         NEW c \in Request, NEW d \in Request
  PROVE  /\ q \o << a >> \in Seq(Request) /\ q \o << a, b >> \in Seq(Request)
         /\ q \o << a, b, c >> \in Seq(Request) /\ q \o << a, b, c, d >> \in Seq(Request)
  OBVIOUS

\* The tail of a sequence, and a sequence without its last element.
LEMMA Shorter ==
  ASSUME NEW S, NEW q \in Seq(S), q # <<>>
  PROVE  /\ Tail(q) \in Seq(S)
         /\ \A i \in DOMAIN Tail(q) : i + 1 \in DOMAIN q /\ Tail(q)[i] = q[i + 1]
         /\ Head(q) \in S /\ 1 \in DOMAIN q /\ Head(q) = q[1]
         /\ SubSeq(q, 1, Len(q) - 1) \in Seq(S)
         /\ \A i \in DOMAIN SubSeq(q, 1, Len(q) - 1) :
              i \in DOMAIN q /\ SubSeq(q, 1, Len(q) - 1)[i] = q[i]
         /\ Len(q) \in DOMAIN q
  OBVIOUS

LEMMA Longer ==
  ASSUME NEW S, NEW q \in Seq(S), NEW e \in S
  PROVE  /\ Append(q, e) \in Seq(S)
         /\ \A i \in DOMAIN Append(q, e) :
              \/ i \in DOMAIN q /\ Append(q, e)[i] = q[i]
              \/ Append(q, e)[i] = e
  OBVIOUS

-------------------------------------------------------------------------------
(***************************************************************************)
(* window_init                                                             *)
(***************************************************************************)

\* What the compositor and the channels have is typed as it was.
LEMMA NoFresh ==
  ASSUME Inv, inits < MaxInits
  PROVE  /\ New \in Gens /\ New \in 0 .. MaxInits
         /\ \A w \in Windows : win[w] # Struct(New)
         /\ \A w \in Windows : Owned(w) \cap Three(New) = {}
<1>1. inits \in 0 .. MaxInits /\ New \in Gens /\ New \in 0 .. MaxInits
  BY WindowAssumption DEF Inv, TypeOK, New, Gens
<1>2. ASSUME NEW w \in Windows
      PROVE  win[w] # Struct(New) /\ Owned(w) \cap Three(New) = {}
  <2>1. CASE win[w] = Cleared
    BY <1>1, <1>2, <2>1, OwnedFacts, StructFacts
  <2>2. CASE \E n \in 1 .. inits : win[w] = Struct(n)
    <3>1. PICK n \in 1 .. inits : win[w] = Struct(n)
      BY <2>2
    <3>2. n \in Gens /\ n # New
      BY <1>1, WindowAssumption DEF Gens, New
    <3>3. win[w].xdg_toplevel = Toplevel(n) /\ Struct(New).xdg_toplevel = Toplevel(New)
      BY <1>1, <3>1, <3>2, StructFacts
    <3>4. Toplevel(n) # Toplevel(New) /\ Three(n) \cap Three(New) = {}
      BY <1>1, <3>2, ObjectFacts
    <3>5. Owned(w) = Three(n)
      BY <1>2, <3>1, <3>2, OwnedFacts
    <3> QED
      BY <3>3, <3>4, <3>5
  <2> QED
    BY <1>2, <2>1, <2>2 DEF Inv, Structs
<1> QED
  BY <1>1, <1>2

\* One more call, whatever became of it: the structs count as before.
LEMMA StructsGrow ==
  ASSUME Inv, inits < MaxInits, inits' = New, UNCHANGED << win, proxies, data >>
  PROVE  Structs' /\ Objects'
<1>1. 1 .. inits' = (1 .. inits) \union {New}
  BY DEF Inv, TypeOK, New
<1>2. \A w \in Windows : win[w] # Struct(New) /\ Owned(w)' = Owned(w)
  BY NoFresh DEF Owned
<1>3. Structs'
  BY <1>1, <1>2 DEF Inv, Structs
<1>4. Objects'
  BY <1>1, <1>2 DEF Inv, Objects
<1> QED
  BY <1>3, <1>4

LEMMA InitFailsInv ==
  ASSUME Inv, NEW w \in Windows, InitSurfaceFails(w) \/ InitXdgFails(w) \/ InitToplevelFails(w)
  PROVE  Inv'
<1>1. /\ inits < MaxInits /\ inits' = New
      /\ UNCHANGED << win, proxies, data, inbox, events, alive, srv, fault, untidy, late >>
  BY DEF InitSurfaceFails, InitXdgFails, InitToplevelFails, CanInit
<1>2. requests' \in Seq(Request)
  <2>1. Surface(New) \in Object /\ Xdg(New) \in Object
    BY <1>1, NoFresh, ObjectFacts DEF Three
  <2>2. requests \in Seq(Request)
    BY DEF Inv, TypeOK
  <2>3. CASE InitSurfaceFails(w)
    BY <2>2, <2>3 DEF InitSurfaceFails
  <2>4. CASE InitXdgFails(w)
    BY <2>1, <2>2, <2>4, RequestTypes, MoreRequests DEF InitXdgFails
  <2>5. CASE InitToplevelFails(w)
    BY <2>1, <2>2, <2>5, RequestTypes, MoreRequests DEF InitToplevelFails
  <2> QED
    BY <2>3, <2>4, <2>5
<1>3. TypeOK'
  BY <1>1, <1>2, NoFresh DEF Inv, TypeOK
<1>4. StaleCause' /\ InboxKinds' /\ ~fault'
  BY <1>1 DEF Inv, StaleCause, InboxKinds, IsOf
<1> QED
  BY <1>1, <1>3, <1>4, StructsGrow DEF Inv

LEMMA WindowInitInv ==
  ASSUME Inv, NEW w \in Windows, WindowInit(w)
  PROVE  Inv'
<1>1. /\ inits < MaxInits /\ inits' = New /\ ~win[w].alive
      /\ win' = [win EXCEPT ![w] = Struct(New)]
      /\ proxies' = proxies \union Three(New)
      /\ data' = [data EXCEPT ![Xdg(New)] = w, ![Toplevel(New)] = w]
      /\ UNCHANGED << inbox, events, alive, srv, fault, untidy, late >>
  BY DEF WindowInit, CanInit, Three
<1>2. /\ New \in Gens /\ New \in 0 .. MaxInits /\ \A v \in Windows : win[v] # Struct(New)
      /\ \A v \in Windows : Owned(v) \cap Three(New) = {}
  BY <1>1, NoFresh
<1>3. Three(New) \subseteq Object /\ Struct(New) \in WinType
  BY <1>2, ObjectFacts, StructFacts
<1>4. /\ win \in [Windows -> WinType] /\ data \in [Object -> Windows \union {NULL}]
      /\ proxies \subseteq Object /\ requests \in Seq(Request)
  BY DEF Inv, TypeOK, WinType
<1>5. win[w] = Cleared
  <2>1. \A n \in 1 .. inits : Struct(n).alive
    BY Ranges, StructFacts
  <2> QED
    BY <1>1, <2>1 DEF Inv, Structs
<1>6. 1 .. inits' = (1 .. inits) \union {New}
  BY <1>1 DEF Inv, TypeOK, New
<1>7. TypeOK'
  <2>1. requests' \in Seq(Request)
    BY <1>3, <1>4, RequestTypes, MoreRequests DEF WindowInit, Three
  <2>2. win' \in [Windows -> WinType]
    BY <1>1, <1>3, <1>4
  <2>3. data' \in [Object -> Windows \union {NULL}]
    BY <1>1, <1>4
  <2>4. inits' \in 0 .. MaxInits /\ proxies' \subseteq Object
    BY <1>1, <1>2, <1>3, <1>4
  <2> QED
    BY <1>1, <2>1, <2>2, <2>3, <2>4 DEF Inv, TypeOK, WinType
<1>8. Structs'
  BY <1>1, <1>2, <1>4, <1>6 DEF Inv, Structs
<1>9. \A v \in Windows : Owned(v)' = IF v = w THEN Three(New) ELSE Owned(v)
  <2>1. Owned(w)' = Three(New)
    BY <1>1, <1>2, <1>4, StructFacts DEF Owned
  <2>2. \A v \in Windows : v # w => Owned(v)' = Owned(v)
    BY <1>1, <1>4 DEF Owned
  <2> QED
    BY <2>1, <2>2
<1>10. Objects'
  <2>1. proxies' = UNION { Owned(v)' : v \in Windows }
    <3>1. Owned(w) = {}
      BY <1>5, OwnedFacts
    <3>2. proxies = UNION { Owned(v) : v \in Windows }
      BY DEF Inv, Objects
    <3> QED
      BY <1>1, <1>9, <3>1, <3>2
  <2>2. ASSUME NEW v \in Windows, NEW n \in 1 .. inits', win'[v] = Struct(n)
        PROVE  data'[Xdg(n)] = v /\ data'[Toplevel(n)] = v
    <3>1. CASE v = w
      <4>1. win'[w] = Struct(New)
        BY <1>1, <1>4
      <4>2. n \in Gens
        BY <1>2, <1>6, Ranges
      <4>3. Toplevel(n) = Toplevel(New)
        BY <1>2, <2>2, <3>1, <4>1, <4>2, StructFacts
      <4>4. n = New
        BY <1>2, <4>2, <4>3, ObjectFacts
      <4> QED
        BY <1>1, <1>3, <1>4, <3>1, <4>4 DEF Three
    <3>2. CASE v # w
      <4>1. win[v] = Struct(n)
        BY <1>1, <1>4, <2>2, <3>2
      <4>2. n \in 1 .. inits /\ n \in Gens
        BY <1>2, <1>6, <4>1, Ranges
      <4>3. data[Xdg(n)] = v /\ data[Toplevel(n)] = v
        BY <4>1, <4>2 DEF Inv, Objects
      <4>4. Three(n) \cap Three(New) = {} /\ Three(n) \subseteq Object
        BY <1>2, <4>1, <4>2, ObjectFacts DEF Inv, TypeOK, New
      <4> QED
        BY <1>1, <1>4, <4>3, <4>4 DEF Three
    <3> QED
      BY <3>1, <3>2
  <2> QED
    BY <2>1, <2>2 DEF Objects
<1>11. StaleCause'
  <2>1. ASSUME NEW i \in DOMAIN events, IsOf(events[i].window, events[i].gen)
        PROVE  IsOf(events[i].window, events[i].gen)'
    <3>1. events[i].window \in Windows
      BY Ranges
    <3>2. events[i].window # w
      BY <1>5, <2>1, ClearedFacts DEF IsOf
    <3> QED
      BY <1>1, <1>4, <2>1, <3>1, <3>2 DEF IsOf
  <2> QED
    BY <1>1, <2>1 DEF Inv, StaleCause
<1>12. InboxKinds' /\ ~fault'
  BY <1>1 DEF Inv, InboxKinds
<1> QED
  BY <1>7, <1>8, <1>10, <1>11, <1>12 DEF Inv

-------------------------------------------------------------------------------
(***************************************************************************)
(* window_deinit                                                           *)
(***************************************************************************)
LEMMA WindowDeinitInv ==
  ASSUME Inv, NEW w \in Windows, WindowDeinit(w)
  PROVE  Inv'
<1>1. /\ win[w].alive /\ win' = [win EXCEPT ![w] = Cleared]
      /\ untidy' = untidy \union { events[i].gen : i \in Waiting(w) }
      /\ UNCHANGED << inits, data, inbox, events, alive, srv, fault, late >>
  BY DEF WindowDeinit
<1>2. PICK n \in 1 .. inits : win[w] = Struct(n)
  BY <1>1, ClearedFacts DEF Inv, Structs
<1>3. n \in Gens
  BY <1>2, Ranges
<1>4. /\ win[w].surface = Surface(n) /\ win[w].xdg_surface = Xdg(n)
      /\ win[w].xdg_toplevel = Toplevel(n) /\ Owned(w) = Three(n)
  BY <1>2, <1>3, StructFacts, OwnedFacts
<1>5. proxies' = proxies \ Three(n)
  BY <1>4 DEF WindowDeinit, Three
<1>6. /\ win \in [Windows -> WinType] /\ requests \in Seq(Request)
      /\ proxies \subseteq Object /\ untidy \subseteq Gens
  BY DEF Inv, TypeOK, WinType
<1>7. TypeOK'
  <2>1. requests' \in Seq(Request)
    BY <1>3, <1>4, <1>6, ObjectFacts, RequestTypes, MoreRequests DEF WindowDeinit, Three
  <2>2. win' \in [Windows -> WinType]
    BY <1>1, <1>6, ClearedFacts
  <2>3. untidy' \subseteq Gens
    BY <1>1, <1>6, Ranges DEF Waiting
  <2>4. proxies' \subseteq Object
    BY <1>5, <1>6
  <2> QED
    BY <1>1, <2>1, <2>2, <2>3, <2>4 DEF Inv, TypeOK, WinType
<1>8. \A m \in 1 .. inits : Cleared # Struct(m)
  BY Ranges, StructFacts
<1>9. Structs'
  BY <1>1, <1>6, <1>8 DEF Inv, Structs
<1>10. Objects'
  <2>1. \A v \in Windows : Owned(v)' = IF v = w THEN {} ELSE Owned(v)
    BY <1>1, <1>6, ClearedFacts DEF Owned
  <2>2. ASSUME NEW v \in Windows, v # w PROVE Owned(v) \cap Three(n) = {}
    <3>1. CASE win[v] = Cleared
      BY <3>1, OwnedFacts
    <3>2. CASE \E m \in 1 .. inits : win[v] = Struct(m)
      <4>1. PICK m \in 1 .. inits : win[v] = Struct(m)
        BY <3>2
      <4>2. m \in Gens /\ m # n
        BY <1>2, <2>2, <4>1, Ranges DEF Inv, Structs
      <4> QED
        BY <1>3, <4>1, <4>2, OwnedFacts, ObjectFacts
    <3> QED
      BY <3>1, <3>2 DEF Inv, Structs
  <2>3. proxies' = UNION { Owned(v)' : v \in Windows }
    <3>1. proxies = UNION { Owned(v) : v \in Windows }
      BY DEF Inv, Objects
    <3> QED
      BY <1>4, <1>5, <2>1, <2>2, <3>1
  <2>4. \A v \in Windows, m \in 1 .. inits : win'[v] = Struct(m) => win[v] = Struct(m)
    BY <1>1, <1>6, <1>8
  <2> QED
    BY <1>1, <2>3, <2>4 DEF Inv, Objects
<1>11. StaleCause'
  <2>1. ASSUME NEW i \in DOMAIN events
        PROVE  IsOf(events[i].window, events[i].gen)' \/ events[i].gen \in untidy'
    <3>1. CASE events[i].window = w
      BY <1>1, <3>1 DEF Waiting
    <3>2. CASE events[i].window # w
      BY <1>1, <1>6, <3>2, Ranges DEF Inv, StaleCause, IsOf
    <3> QED
      BY <3>1, <3>2
  <2> QED
    BY <1>1, <2>1 DEF Inv, StaleCause
<1>12. InboxKinds' /\ ~fault'
  BY <1>1 DEF Inv, InboxKinds
<1> QED
  BY <1>7, <1>9, <1>10, <1>11, <1>12 DEF Inv

-------------------------------------------------------------------------------
(***************************************************************************)
(* The steps that leave the structs and their objects alone                *)
(***************************************************************************)
SameWindows == UNCHANGED << win, inits, proxies, data, alive, untidy >>

LEMMA SameStructs ==
  ASSUME Inv, SameWindows
  PROVE  Structs' /\ Objects'
<1>1. \A w : Owned(w)' = Owned(w)
  BY DEF SameWindows, Owned
<1> QED
  BY <1>1 DEF Inv, SameWindows, Structs, Objects

\* Dropping the first event of the channel.
LEMMA InboxTail ==
  ASSUME Inv, NEW e, Dispatch(e)
  PROVE  /\ e \in Event /\ (e.kind # "configure" => e.obj.kind = "xdg_toplevel")
         /\ inbox' \in Seq(Event) /\ InboxKinds'
<1>1. inbox \in Seq(Event) /\ inbox # <<>> /\ e = Head(inbox) /\ inbox' = Tail(inbox)
  BY DEF Dispatch, Inv, TypeOK
<1>2. /\ inbox' \in Seq(Event) /\ e \in Event /\ 1 \in DOMAIN inbox /\ e = inbox[1]
      /\ \A i \in DOMAIN inbox' : i + 1 \in DOMAIN inbox /\ inbox'[i] = inbox[i + 1]
  BY <1>1, Shorter
<1> QED
  BY <1>2 DEF Inv, InboxKinds

LEMMA DispatchDroppedInv ==
  ASSUME Inv, DispatchDropped
  PROVE  Inv'
<1>1. PICK e \in Event : Dispatch(e)
  BY DEF DispatchDropped
<1>2. UNCHANGED << client, requests, srv >>
  BY DEF DispatchDropped
<1>3. TypeOK' /\ InboxKinds'
  BY <1>1, <1>2, InboxTail DEF Inv, TypeOK, client
<1>4. StaleCause'
  BY <1>2 DEF Inv, StaleCause, IsOf, client
<1> QED
  BY <1>2, <1>3, <1>4, SameStructs DEF Inv, client, SameWindows

LEMMA SurfaceConfigureInv ==
  ASSUME Inv, SurfaceConfigure
  PROVE  Inv'
<1>1. PICK e \in Event : Dispatch(e) /\ requests' = Append(requests, Ack(e.obj, e.serial))
  BY DEF SurfaceConfigure
<1>2. UNCHANGED << client, srv >>
  BY DEF SurfaceConfigure
<1>3. requests' \in Seq(Request)
  <2>1. Ack(e.obj, e.serial) \in Request
    BY RequestTypes DEF Event
  <2> QED
    BY <1>1, <2>1, Longer DEF Inv, TypeOK
<1>4. TypeOK' /\ InboxKinds'
  BY <1>1, <1>2, <1>3, InboxTail DEF Inv, TypeOK, client
<1>5. StaleCause'
  BY <1>2 DEF Inv, StaleCause, IsOf, client
<1> QED
  BY <1>2, <1>4, <1>5, SameStructs DEF Inv, client, SameWindows

\* The event is for a toplevel the client has, so for one that a struct holds.
LEMMA ToplevelListenerInv ==
  ASSUME Inv, ToplevelListener
  PROVE  Inv'
<1>1. PICK e \in Event :
        /\ Dispatch(e) /\ e.obj \in proxies /\ e.kind # "configure"
        /\ LET w == data[e.obj]
           IN  IF w \in Windows /\ win[w].alive
               THEN /\ events' = Append(events, [kind |-> e.kind, window |-> w, gen |-> e.obj.gen])
                    /\ UNCHANGED fault
               ELSE fault' = TRUE /\ UNCHANGED events
  BY DEF ToplevelListener
<1>2. UNCHANGED << win, inits, proxies, data, alive, untidy, late, requests, srv >>
  BY DEF ToplevelListener
<1>3. e.obj \in Object /\ e.obj.kind = "xdg_toplevel" /\ e.kind \in {"close", "resize"}
  <2>1. e.obj \in Object /\ e.kind \in {"close", "resize"}
    BY <1>1 DEF Event
  <2> QED
    BY <1>1, <2>1, InboxTail
<1>4. PICK v \in Windows : e.obj \in Owned(v)
  BY <1>1 DEF Inv, Objects
<1>5. PICK n \in 1 .. inits : win[v] = Struct(n)
  BY <1>4, OwnedFacts DEF Inv, Structs
<1>6. n \in Gens /\ win[v].alive /\ win[v].xdg_toplevel = Toplevel(n) /\ Owned(v) = Three(n)
  BY <1>5, Ranges, StructFacts, OwnedFacts
<1>7. e.obj = Toplevel(n) /\ e.obj.gen = n
  BY <1>3, <1>4, <1>6, OneOfThree
<1>8. data[e.obj] = v
  BY <1>5, <1>7 DEF Inv, Objects
<1> DEFINE a == [kind |-> e.kind, window |-> v, gen |-> n]
<1>9. events' = Append(events, a) /\ fault' = fault
  BY <1>1, <1>6, <1>7, <1>8
<1>10. a \in AppEvent /\ a.window = v /\ a.gen = n
  BY <1>3, <1>6 DEF AppEvent
<1> HIDE DEF a
<1>11. /\ events' \in Seq(AppEvent)
       /\ \A i \in DOMAIN events' : (i \in DOMAIN events /\ events'[i] = events[i]) \/ events'[i] = a
  BY <1>9, <1>10, Longer DEF Inv, TypeOK
<1>12. TypeOK' /\ InboxKinds'
  BY <1>1, <1>2, <1>9, <1>11, InboxTail DEF Inv, TypeOK
<1>13. StaleCause'
  <2>1. IsOf(v, n)'
    BY <1>2, <1>6 DEF IsOf
  <2>2. \A w, m : IsOf(w, m) => IsOf(w, m)'
    BY <1>2 DEF IsOf
  <2>3. ASSUME NEW i \in DOMAIN events'
        PROVE  IsOf(events[i].window, events[i].gen)' \/ events'[i].gen \in untidy'
    <3>1. CASE i \in DOMAIN events /\ events'[i] = events[i]
      BY <1>2, <2>2, <3>1 DEF Inv, StaleCause
    <3>2. CASE events'[i] = a
      BY <1>10, <2>1, <3>2
    <3> QED
      BY <1>11, <2>3, <3>1, <3>2
  <2> QED
    BY <1>2, <2>3 DEF Inv, StaleCause
<1> QED
  BY <1>2, <1>9, <1>12, <1>13, SameStructs DEF Inv, SameWindows

LEMMA EventLoopGetInv ==
  ASSUME Inv, EventLoopGet
  PROVE  Inv'
<1> DEFINE e == events[Len(events)]
<1>1. /\ events # <<>> /\ events' = SubSeq(events, 1, Len(events) - 1)
      /\ late' = IF IsOf(e.window, e.gen) THEN late ELSE late \union {e.gen}
      /\ UNCHANGED << win, inits, proxies, data, alive, fault, untidy, requests, inbox, srv >>
  BY DEF EventLoopGet
<1>2. events \in Seq(AppEvent) /\ late \subseteq Gens
  BY DEF Inv, TypeOK
<1>3. /\ Len(events) \in DOMAIN events /\ events' \in Seq(AppEvent)
      /\ \A i \in DOMAIN events' : i \in DOMAIN events /\ events'[i] = events[i]
  BY <1>1, <1>2, Shorter
<1>4. e.gen \in Gens /\ (IsOf(e.window, e.gen) \/ e.gen \in untidy)
  BY <1>3, Ranges DEF Inv, StaleCause
<1> HIDE DEF e
<1>5. TypeOK' /\ InboxKinds'
  BY <1>1, <1>2, <1>3, <1>4 DEF Inv, TypeOK, InboxKinds
<1>6. StaleCause'
  <2>1. \A w, m : IsOf(w, m) => IsOf(w, m)'
    BY <1>1 DEF IsOf
  <2>2. late' \subseteq untidy'
    BY <1>1, <1>4 DEF Inv, StaleCause
  <2>3. \A i \in DOMAIN events' :
          IsOf(events[i].window, events[i].gen)' \/ events'[i].gen \in untidy'
    BY <1>1, <1>3, <2>1 DEF Inv, StaleCause
  <2> QED
    BY <2>2, <2>3 DEF StaleCause
<1> QED
  BY <1>1, <1>5, <1>6, SameStructs DEF Inv, SameWindows

LEMMA EventLoopDeinitInv ==
  ASSUME Inv, EventLoopDeinit
  PROVE  Inv'
<1>1. /\ alive' = FALSE /\ requests' = <<>> /\ inbox' = <<>> /\ events' = <<>>
      /\ srv' = [srv EXCEPT !.objects = {}]
      /\ UNCHANGED << win, inits, proxies, data, fault, untidy, late >>
  BY DEF EventLoopDeinit
<1>2. \A w : Owned(w)' = Owned(w)
  BY <1>1 DEF Owned
<1>3. Structs' /\ Objects'
  BY <1>1, <1>2 DEF Inv, Structs, Objects
<1>4. srv' \in SrvType
  BY <1>1 DEF Inv, TypeOK, SrvType
<1>5. << >> \in Seq(Request) /\ << >> \in Seq(Event) /\ << >> \in Seq(AppEvent)
  OBVIOUS
<1>6. TypeOK'
  BY <1>1, <1>4, <1>5 DEF Inv, TypeOK, SrvType
<1> QED
  BY <1>1, <1>3, <1>6 DEF Inv, StaleCause, InboxKinds

-------------------------------------------------------------------------------
(***************************************************************************)
(* The compositor                                                          *)
(***************************************************************************)
LEMMA HandledType ==
  ASSUME NEW s \in SrvType, NEW r \in Request
  PROVE  Handled(s, r) \in SrvType
<1>1. r.obj \in Object /\ r.obj.gen \in Gens
  BY DEF Request, Object
<1>2. /\ [s EXCEPT !.objects = @ \union {r.obj}] \in SrvType
      /\ [s EXCEPT !.objects = @ \ {r.obj}] \in SrvType
      /\ [s EXCEPT !.committed = @ \union {r.obj.gen}] \in SrvType
  BY <1>1 DEF SrvType
<1>3. \A k \in {"invalid_object", "invalid_serial", "defunct_role_object"} :
        [s EXCEPT !.error = k] \in SrvType
  BY DEF SrvType
<1> HIDE DEF SrvType
<1> QED
  BY <1>2, <1>3 DEF Handled

LEMMA SrvReceiveInv ==
  ASSUME Inv, SrvReceive
  PROVE  Inv'
<1>1. requests # <<>> /\ requests' = Tail(requests) /\ UNCHANGED << client, inbox >>
  BY DEF SrvReceive
<1>2. requests' \in Seq(Request) /\ Head(requests) \in Request
  BY <1>1, Shorter DEF Inv, TypeOK
<1>3. srv' \in SrvType
  <2>1. srv \in SrvType
    BY DEF Inv, TypeOK, SrvType
  <2> QED
    BY <1>2, <2>1, HandledType DEF SrvReceive
<1>4. TypeOK'
  BY <1>1, <1>2, <1>3 DEF Inv, TypeOK, client, SrvType
<1>5. StaleCause' /\ InboxKinds'
  BY <1>1 DEF Inv, StaleCause, IsOf, InboxKinds, client
<1> QED
  BY <1>1, <1>4, <1>5, SameStructs DEF Inv, client, SameWindows

\* What the compositor sends: events of the kinds it says, for their objects.
LEMMA SentFacts ==
  ASSUME Inv, NEW n \in Gens, CanSend(n), NEW kinds \in Seq({"resize", "close", "configure"}),
         Sent(n, kinds)
  PROVE  inbox' \in Seq(Event) /\ InboxKinds' /\ srv' \in SrvType
<1> DEFINE s == Len(srv.serials) + 1
           EventOf(kind) == [kind |-> kind, serial |-> s,
                             obj |-> IF kind = "configure" THEN Xdg(n) ELSE Toplevel(n)]
           batch == [i \in DOMAIN kinds |-> EventOf(kinds[i])]
<1>1. inbox' = inbox \o batch /\ srv' = [srv EXCEPT !.serials = Append(@, n)]
  BY DEF Sent
<1>2. srv \in SrvType /\ inbox \in Seq(Event)
  BY DEF Inv, TypeOK, SrvType
<1>3. srv' \in SrvType
  <2>1. srv.serials \in Seq(Gens)
    BY <1>2 DEF SrvType
  <2>2. Append(srv.serials, n) \in Seq(Gens)
    BY <2>1
  <2> QED
    BY <1>1, <1>2, <2>2 DEF SrvType
<1>4. s \in 1 .. MaxSerial
  <2>1. Len(srv.serials) \in Nat /\ Len(srv.serials) < MaxSerial
    BY <1>2 DEF CanSend, SrvType
  <2> QED
    BY <2>1, WindowAssumption
<1> HIDE DEF s
<1>5. ASSUME NEW i \in DOMAIN kinds
      PROVE  /\ EventOf(kinds[i]) \in Event
             /\ EventOf(kinds[i]).kind # "configure" => EventOf(kinds[i]).obj.kind = "xdg_toplevel"
  <2>1. kinds[i] \in {"resize", "close", "configure"}
    OBVIOUS
  <2>2. Xdg(n) \in Object /\ Toplevel(n) \in Object /\ Toplevel(n).kind = "xdg_toplevel"
    BY ObjectFacts DEF Three
  <2> QED
    BY <1>4, <2>1, <2>2 DEF Event
<1> HIDE DEF EventOf
<1>6. batch \in Seq(Event) /\ Len(batch) = Len(kinds) /\ DOMAIN kinds = 1 .. Len(kinds)
  BY <1>5
<1>7. \A i \in DOMAIN batch : batch[i].kind # "configure" => batch[i].obj.kind = "xdg_toplevel"
  BY <1>5
<1> HIDE DEF batch
<1>8. /\ inbox' \in Seq(Event)
      /\ \A i \in DOMAIN inbox' :
           \/ i \in DOMAIN inbox /\ inbox'[i] = inbox[i]
           \/ i - Len(inbox) \in DOMAIN batch /\ inbox'[i] = batch[i - Len(inbox)]
  BY <1>1, <1>2, <1>6
<1>9. InboxKinds'
  BY <1>7, <1>8 DEF Inv, InboxKinds
<1> QED
  BY <1>3, <1>8, <1>9

LEMMA SrvSendInv ==
  ASSUME Inv, NEW n \in Gens, SrvConfigure(n) \/ SrvClose(n)
  PROVE  Inv'
<1>1. CanSend(n) /\ UNCHANGED << client, requests >>
  BY DEF SrvConfigure, SrvClose
<1>2. PICK kinds \in Seq({"resize", "close", "configure"}) : Sent(n, kinds)
  <2>1. /\ << "resize", "configure" >> \in Seq({"resize", "close", "configure"})
        /\ << "close" >> \in Seq({"resize", "close", "configure"})
    OBVIOUS
  <2> QED
    BY <2>1 DEF SrvConfigure, SrvClose
<1>3. inbox' \in Seq(Event) /\ InboxKinds' /\ srv' \in SrvType
  BY <1>1, <1>2, SentFacts
<1>4. TypeOK'
  BY <1>1, <1>3 DEF Inv, TypeOK, client, SrvType
<1>5. StaleCause'
  BY <1>1 DEF Inv, StaleCause, IsOf, client
<1> QED
  BY <1>1, <1>3, <1>4, <1>5, SameStructs DEF Inv, client, SameWindows

LEMMA NextInv == Inv /\ [Next]_vars => Inv'
<1> SUFFICES ASSUME Inv, [Next]_vars PROVE Inv'
  OBVIOUS
<1>1. CASE UNCHANGED vars
  <2>1. TypeOK' /\ StaleCause' /\ InboxKinds'
    BY <1>1 DEF Inv, TypeOK, StaleCause, IsOf, InboxKinds, vars, client
  <2> QED
    BY <1>1, <2>1, SameStructs DEF Inv, vars, client, SameWindows
<1> QED
  BY <1>1, InitFailsInv, WindowInitInv, WindowDeinitInv, DispatchDroppedInv,
     SurfaceConfigureInv, ToplevelListenerInv, EventLoopGetInv, EventLoopDeinitInv,
     SrvReceiveInv, SrvSendInv
     DEF Next

LEMMA Invariance == Spec => []Inv
  BY InitInv, NextInv, PTL DEF Spec

-------------------------------------------------------------------------------
(***************************************************************************)
(* The theorems                                                            *)
(***************************************************************************)

\* With any number of windows, calls and events, every variable keeps to its
\* type: window_deinit never destroys a proxy that is NULL.
THEOREM WindowTypeOK == Spec => []TypeOK
<1>1. Inv => TypeOK
  BY DEF Inv
<1> QED
  BY <1>1, Invariance, PTL

\* window_init leaves nothing behind when it fails, window_deinit nothing at all.
THEOREM WindowNoOrphans == Spec => []NoOrphans
<1>1. ASSUME Inv PROVE NoOrphans
  <2>1. ASSUME NEW w \in Windows
        PROVE  \/ ~win[w].alive /\ Owned(w) = {}
               \/ \E n \in 1 .. inits : win[w] = Struct(n) /\ Owned(w) = Three(n) /\ n \in Gens
    BY <1>1, Ranges, OwnedFacts, ClearedFacts DEF Inv, Structs
  <2>2. ASSUME NEW v \in Windows, NEW w \in Windows, v # w
        PROVE  Owned(v) \cap Owned(w) = {}
    <3>1. CASE Owned(v) = {} \/ Owned(w) = {}
      BY <3>1
    <3>2. CASE ~(Owned(v) = {} \/ Owned(w) = {})
      <4>1. PICK m \in 1 .. inits : win[v] = Struct(m) /\ Owned(v) = Three(m) /\ m \in Gens
        BY <2>1, <3>2
      <4>2. PICK n \in 1 .. inits : win[w] = Struct(n) /\ Owned(w) = Three(n) /\ n \in Gens
        BY <2>1, <3>2
      <4>3. m # n
        BY <1>1, <2>2, <4>1, <4>2 DEF Inv, Structs
      <4> QED
        BY <4>1, <4>2, <4>3, ObjectFacts
    <3> QED
      BY <3>1, <3>2
  <2> QED
    BY <1>1, <2>1, <2>2 DEF Inv, Objects, NoOrphans, Three
<1> QED
  BY <1>1, Invariance, PTL

\* Each listener gets the window of its object, and never a cleared one.
THEOREM WindowListenerFindsWindow == Spec => []ListenerFindsWindow
<1>1. ASSUME Inv PROVE ListenerFindsWindow
  <2>1. ASSUME NEW o \in proxies, o.kind # "wl_surface"
        PROVE  data[o] \in Windows /\ o \in Owned(data[o])
    <3>1. PICK w \in Windows : o \in Owned(w)
      BY <1>1 DEF Inv, Objects
    <3>2. PICK n \in 1 .. inits : win[w] = Struct(n)
      BY <1>1, <3>1, OwnedFacts DEF Inv, Structs
    <3>3. n \in Gens /\ Owned(w) = Three(n)
      BY <1>1, <3>2, Ranges, OwnedFacts
    <3>4. o = Xdg(n) \/ o = Toplevel(n)
      BY <2>1, <3>1, <3>3, OneOfThree
    <3> QED
      BY <1>1, <3>1, <3>2, <3>4 DEF Inv, Objects
  <2> QED
    BY <1>1, <2>1 DEF Inv, ListenerFindsWindow
<1> QED
  BY <1>1, Invariance, PTL

\* Only a window_deinit before the array is drained makes an event stale.
THEOREM WindowStaleCause == Spec => []StaleCause
<1>1. Inv => StaleCause
  BY DEF Inv
<1> QED
  BY <1>1, Invariance, PTL

-------------------------------------------------------------------------------
(***************************************************************************)
(* The requests on their way.  Those of a connection in order lead from    *)
(* the compositor's objects to the client's, except that a window_deinit   *)
(* among them will be refused.                                             *)
(***************************************************************************)
\* Request r makes objects b of objects a, but for the rule on role objects.
Reads(a, r, b) ==
  \/ r.op = "create" /\ Parent(r.obj) \subseteq a /\ b = a \union {r.obj}
  \/ r.op \in {"commit", "ack"} /\ r.obj \in a /\ b = a
  \/ r.op = "destroy" /\ r.obj \in a /\ b = a \ {r.obj}

\* The sets h of objects from a to b, each left by a request of q.
Path(q, a, b, h) ==
  /\ DOMAIN h = 0 .. Len(q)
  /\ h[0] = a /\ h[Len(q)] = b
  /\ \A i \in 1 .. Len(q) : Reads(h[i - 1], q[i], h[i])

Leads(q, a, b) == \E h : Path(q, a, b, h)

LEMMA LeadsNowhere ==
  ASSUME NEW a, NEW b
  PROVE  Leads(<<>>, a, b) <=> a = b
<1>1. ASSUME a = b PROVE Leads(<<>>, a, b)
  <2> DEFINE h == [i \in 0 .. 0 |-> a]
  <2>1. Path(<<>>, a, b, h)
    BY <1>1 DEF Path
  <2> QED
    BY <2>1 DEF Leads
<1>2. ASSUME Leads(<<>>, a, b) PROVE a = b
  <2>1. Len(<<>>) = 0
    OBVIOUS
  <2> QED
    BY <1>2, <2>1 DEF Leads, Path
<1> QED
  BY <1>1, <1>2

LEMMA LeadsOn ==
  ASSUME NEW S, NEW q \in Seq(S), NEW a, NEW b, NEW c, NEW r,
         Leads(q, a, b), Reads(b, r, c)
  PROVE  Leads(Append(q, r), a, c)
<1> DEFINE n == Len(q)
           u == Append(q, r)
<1>1. PICK h : Path(q, a, b, h)
  BY DEF Leads
<1>2. /\ DOMAIN h = 0 .. n /\ h[0] = a /\ h[n] = b
      /\ \A i \in 1 .. n : Reads(h[i - 1], q[i], h[i])
  BY <1>1 DEF Path
<1> DEFINE g == [i \in 0 .. n + 1 |-> IF i = n + 1 THEN c ELSE h[i]]
<1>3. n \in Nat /\ Len(u) = n + 1 /\ u[n + 1] = r /\ \A i \in 1 .. n : u[i] = q[i]
  OBVIOUS
<1>4. DOMAIN g = 0 .. n + 1 /\ g[n + 1] = c /\ \A i \in 0 .. n : g[i] = h[i]
  BY <1>3
<1> HIDE DEF g, u
<1>5. ASSUME NEW i \in 1 .. n + 1 PROVE Reads(g[i - 1], u[i], g[i])
  <2>1. CASE i = n + 1
    <3>1. i - 1 = n /\ n \in 0 .. n
      BY <1>3, <2>1
    <3>2. g[i - 1] = b /\ u[i] = r /\ g[i] = c
      BY <1>2, <1>3, <1>4, <2>1, <3>1
    <3> QED
      BY <3>2
  <2>2. CASE i \in 1 .. n
    <3>1. i - 1 \in 0 .. n /\ i \in 0 .. n
      BY <1>3, <2>2
    <3>2. g[i - 1] = h[i - 1] /\ u[i] = q[i] /\ g[i] = h[i]
      BY <1>3, <1>4, <2>2, <3>1
    <3> QED
      BY <1>2, <2>2, <3>2
  <2> QED
    BY <1>3, <2>1, <2>2
<1>6. g[0] = a
  BY <1>2, <1>3, <1>4
<1>7. Path(u, a, c, g)
  BY <1>3, <1>4, <1>5, <1>6 DEF Path
<1> QED
  BY <1>7 DEF Leads, u

LEMMA LeadsFirst ==
  ASSUME NEW S, NEW q \in Seq(S), q # <<>>, NEW a, NEW b, Leads(q, a, b)
  PROVE  \E c : Reads(a, Head(q), c) /\ Leads(Tail(q), c, b)
<1> DEFINE n == Len(q)
           u == Tail(q)
<1>1. PICK h : Path(q, a, b, h)
  BY DEF Leads
<1>2. /\ DOMAIN h = 0 .. n /\ h[0] = a /\ h[n] = b
      /\ \A i \in 1 .. n : Reads(h[i - 1], q[i], h[i])
  BY <1>1 DEF Path
<1> DEFINE g == [i \in 0 .. n - 1 |-> h[i + 1]]
<1>3. n \in Nat \ {0} /\ Len(u) = n - 1 /\ \A i \in 1 .. n - 1 : u[i] = q[i + 1]
  BY EmptySeq, HeadTailProperties
<1>4. DOMAIN g = 0 .. n - 1 /\ \A i \in 0 .. n - 1 : g[i] = h[i + 1]
  BY <1>3
<1> HIDE DEF g, u
<1>5. ASSUME NEW i \in 1 .. n - 1 PROVE Reads(g[i - 1], u[i], g[i])
  <2>1. i - 1 \in 0 .. n - 1 /\ i \in 0 .. n - 1 /\ (i - 1) + 1 = (i + 1) - 1
        /\ i + 1 \in 1 .. n
    BY <1>3
  <2>2. g[i - 1] = h[(i + 1) - 1] /\ u[i] = q[i + 1] /\ g[i] = h[i + 1]
    BY <1>3, <1>4, <2>1
  <2> QED
    BY <1>2, <2>1, <2>2
<1>6. g[0] = h[0 + 1] /\ g[n - 1] = h[(n - 1) + 1] /\ (n - 1) + 1 = n /\ 0 + 1 = 1
  BY <1>3, <1>4
<1>7. g[0] = h[1] /\ g[n - 1] = b
  BY <1>2, <1>6
<1>8. Path(u, h[1], b, g)
  BY <1>3, <1>4, <1>5, <1>7 DEF Path
<1>9. Reads(a, Head(q), h[1])
  <2>1. Reads(h[1 - 1], q[1], h[1]) /\ 1 - 1 = 0 /\ q[1] = Head(q)
    BY <1>2, <1>3
  <2> QED
    BY <1>2, <2>1
<1> QED
  BY <1>8, <1>9 DEF Leads, u

\* The requests of a batch go behind those that are on their way.
Behind(u, q, batch) ==
  \A i \in DOMAIN u : (i \in DOMAIN q /\ u[i] = q[i]) \/ u[i] \in batch

LEMMA BatchOfTwo ==
  ASSUME NEW q \in Seq(Request), NEW a \in Request, NEW b \in Request,
         NEW x, NEW y, NEW y1, NEW y2, Reads(y, a, y1), Reads(y1, b, y2)
  PROVE  /\ q \o << a, b >> \in Seq(Request)
         /\ Behind(q \o << a, b >>, q, {a, b})
         /\ Leads(q, x, y) => Leads(q \o << a, b >>, x, y2)
<1> DEFINE q1 == Append(q, a)
<1> HIDE DEF Request
<1>1. q1 \in Seq(Request) /\ q \o << a, b >> = Append(q1, b) /\ q \o << a, b >> \in Seq(Request)
  OBVIOUS
<1>2. Behind(q \o << a, b >>, q, {a, b})
  BY DEF Behind
<1>3. ASSUME Leads(q, x, y) PROVE Leads(Append(q1, b), x, y2)
  <2>1. Leads(q1, x, y1)
    BY <1>3, LeadsOn
  <2> HIDE DEF q1
  <2> QED
    BY <1>1, <2>1, LeadsOn
<1> QED
  BY <1>1, <1>2, <1>3

LEMMA BatchOfThree ==
  ASSUME NEW q \in Seq(Request), NEW a \in Request, NEW b \in Request, NEW c \in Request,
         NEW x, NEW y, NEW y1, NEW y2, NEW y3,
         Reads(y, a, y1), Reads(y1, b, y2), Reads(y2, c, y3)
  PROVE  /\ q \o << a, b, c >> \in Seq(Request)
         /\ Behind(q \o << a, b, c >>, q, {a, b, c})
         /\ Leads(q, x, y) => Leads(q \o << a, b, c >>, x, y3)
<1> DEFINE u == q \o << a, b >>
<1> HIDE DEF Request
<1>1. q \o << a, b, c >> = Append(u, c) /\ q \o << a, b, c >> \in Seq(Request)
  OBVIOUS
<1>2. Behind(q \o << a, b, c >>, q, {a, b, c})
  BY DEF Behind
<1>3. u \in Seq(Request) /\ (Leads(q, x, y) => Leads(u, x, y2))
  BY BatchOfTwo
<1> HIDE DEF u
<1>4. Leads(u, x, y2) => Leads(Append(u, c), x, y3)
  BY <1>3, LeadsOn
<1> QED
  BY <1>1, <1>2, <1>3, <1>4

LEMMA BatchOfFour ==
  ASSUME NEW q \in Seq(Request), NEW a \in Request, NEW b \in Request,
         NEW c \in Request, NEW d \in Request,
         NEW x, NEW y, NEW y1, NEW y2, NEW y3, NEW y4,
         Reads(y, a, y1), Reads(y1, b, y2), Reads(y2, c, y3), Reads(y3, d, y4)
  PROVE  /\ q \o << a, b, c, d >> \in Seq(Request)
         /\ Behind(q \o << a, b, c, d >>, q, {a, b, c, d})
         /\ Leads(q, x, y) => Leads(q \o << a, b, c, d >>, x, y4)
<1> DEFINE u == q \o << a, b, c >>
<1> HIDE DEF Request
<1>1. q \o << a, b, c, d >> = Append(u, d)
  OBVIOUS
<1>2. q \o << a, b, c, d >> \in Seq(Request)
  OBVIOUS
<1>3. Behind(q \o << a, b, c, d >>, q, {a, b, c, d})
  BY DEF Behind
<1>4. u \in Seq(Request) /\ (Leads(q, x, y) => Leads(u, x, y3))
  BY BatchOfThree
<1> HIDE DEF u
<1>5. Leads(u, x, y3) => Leads(Append(u, d), x, y4)
  BY <1>4, LeadsOn
<1> QED
  BY <1>1, <1>2, <1>3, <1>4, <1>5

\* The serials the compositor is told of are those it used for that surface.
Known(s, n) == s \in DOMAIN srv.serials /\ srv.serials[s] = n

\* An xdg_surface to be destroyed is one of a window whose toplevel the client
\* has no more, and an ack is for a serial that was used.
InOrder(r) ==
  /\ r.op = "destroy" /\ r.obj.kind = "xdg_surface" =>
       r.obj.gen \in 1 .. inits /\ Toplevel(r.obj.gen) \notin proxies
  /\ r.op = "ack" => Known(r.serial, r.obj.gen)

Channel ==
  /\ alive /\ srv.error = "none" => Leads(requests, srv.objects, proxies)
  /\ ~alive => requests = <<>>
  /\ \A i \in DOMAIN requests : InOrder(requests[i])
  /\ \A i \in DOMAIN inbox :
       inbox[i].kind = "configure" => Known(inbox[i].serial, inbox[i].obj.gen)
  /\ ErrorCause

LEMMA InitChannel == Init => Channel
<1> SUFFICES ASSUME Init PROVE Channel
  OBVIOUS
<1>1. requests = <<>> /\ inbox = <<>> /\ alive /\ srv.objects = {} /\ proxies = {}
      /\ srv.error = "none"
  BY DEF Init
<1>2. Leads(requests, srv.objects, proxies)
  BY <1>1, LeadsNowhere
<1>3. DOMAIN requests = {} /\ DOMAIN inbox = {}
  BY <1>1
<1> QED
  BY <1>1, <1>2, <1>3 DEF Channel, ErrorCause

\* A step of the client: calls are counted up, and what is new in the objects
\* belongs to the call that just was.
ClientStep ==
  /\ UNCHANGED << srv, alive >>
  /\ \/ inits' = inits /\ proxies' \subseteq proxies
     \/ /\ inits < MaxInits /\ inits' = New
        /\ proxies' \subseteq proxies \union Three(New)

LEMMA ClientKeeps ==
  ASSUME Inv, ClientStep
  PROVE  /\ \A r \in Request : InOrder(r) => InOrder(r)'
         /\ \A s, n : Known(s, n) => Known(s, n)'
         /\ ErrorCause => ErrorCause'
<1>1. inits \in 0 .. MaxInits /\ 1 .. inits \subseteq Gens /\ MaxInits \in Nat
  BY Ranges, WindowAssumption DEF Inv, TypeOK
<1>2. 1 .. inits \subseteq 1 .. inits'
  BY <1>1 DEF ClientStep, New
<1>3. ASSUME NEW n \in 1 .. inits, Toplevel(n) \notin proxies
      PROVE  Toplevel(n) \notin proxies'
  <2>1. CASE inits' = inits /\ proxies' \subseteq proxies
    BY <1>3, <2>1
  <2>2. CASE inits < MaxInits /\ inits' = New /\ proxies' \subseteq proxies \union Three(New)
    <3>1. New \in Gens /\ n \in Gens /\ n # New
      BY <1>1, <2>2, NoFresh DEF New
    <3>2. Three(n) \cap Three(New) = {}
      BY <3>1, ObjectFacts
    <3> QED
      BY <1>3, <2>2, <3>2 DEF Three
  <2> QED
    BY <2>1, <2>2 DEF ClientStep
<1>4. \A s, n : Known(s, n) => Known(s, n)'
  BY DEF ClientStep, Known
<1>5. \A r \in Request : InOrder(r) => InOrder(r)'
  BY <1>2, <1>3, <1>4 DEF InOrder
<1>6. ErrorCause => ErrorCause'
  <2> SUFFICES ASSUME ErrorCause PROVE ErrorCause'
    OBVIOUS
  <2>1. srv' = srv /\ alive' = alive
    BY DEF ClientStep
  <2>2. ASSUME alive, srv.error # "none"
        PROVE  \E n \in 1 .. inits' : Toplevel(n) \in srv.objects \ proxies'
    <3>1. PICK n \in 1 .. inits : Toplevel(n) \in srv.objects \ proxies
      BY <2>2 DEF ErrorCause
    <3> QED
      BY <1>2, <1>3, <3>1
  <2> QED
    BY <2>1, <2>2 DEF ErrorCause
<1> QED
  BY <1>4, <1>5, <1>6

\* A batch of requests that is in order goes out.
LEMMA BatchSent ==
  ASSUME Inv, Channel, ClientStep, alive, NEW batch \in SUBSET Request,
         requests' \in Seq(Request), Behind(requests', requests, batch),
         \A r \in batch : InOrder(r)',
         Leads(requests, srv.objects, proxies) => Leads(requests', srv.objects, proxies'),
         inbox' \in Seq(Event),
         \A i \in DOMAIN inbox' : \E j \in DOMAIN inbox : inbox'[i] = inbox[j]
  PROVE  Channel'
<1>1. requests \in Seq(Request)
  BY DEF Inv, TypeOK
<1>2. srv' = srv /\ alive'
  BY DEF ClientStep
<1>3. ASSUME NEW i \in DOMAIN requests' PROVE InOrder(requests[i])'
  <2>1. CASE i \in DOMAIN requests /\ requests'[i] = requests[i]
    <3>1. requests[i] \in Request /\ InOrder(requests[i])
      BY <1>1, <2>1 DEF Channel
    <3> DEFINE r == requests[i]
    <3>2. r \in Request /\ InOrder(r) /\ requests'[i] = r
      BY <2>1, <3>1
    <3> HIDE DEF r
    <3> QED
      BY <3>2, ClientKeeps DEF InOrder, Known
  <2>2. CASE requests'[i] \in batch
    BY <2>2 DEF InOrder, Known
  <2> QED
    BY <2>1, <2>2 DEF Behind
<1>4. ASSUME NEW i \in DOMAIN inbox', inbox'[i].kind = "configure"
      PROVE  Known(inbox[i].serial, inbox[i].obj.gen)'
  <2>1. PICK j \in DOMAIN inbox : inbox'[i] = inbox[j]
    OBVIOUS
  <2>2. Known(inbox[j].serial, inbox[j].obj.gen)
    BY <1>4, <2>1 DEF Channel
  <2> QED
    BY <1>2, <2>1, <2>2 DEF Known
<1>5. ErrorCause'
  BY ClientKeeps DEF Channel
<1>6. srv'.error = "none" => Leads(requests', srv'.objects, proxies')
  BY <1>2 DEF Channel
<1> QED
  BY <1>2, <1>3, <1>4, <1>5, <1>6 DEF Channel

\* What the requests do one at a time.
LEMMA RequestReads ==
  ASSUME NEW a, NEW o \in Object
  PROVE  /\ Parent(o) \subseteq a => Reads(a, Create(o), a \union {o})
         /\ o \in a => Reads(a, Commit(o), a)
         /\ \A s : o \in a => Reads(a, Ack(o, s), a)
         /\ o \in a => Reads(a, Destroy(o), a \ {o})
<1>1. Create(o).op = "create" /\ Create(o).obj = o
  BY DEF Create
<1>2. Commit(o).op = "commit" /\ Commit(o).obj = o
  BY DEF Commit
<1>3. \A s : Ack(o, s).op = "ack" /\ Ack(o, s).obj = o
  BY DEF Ack
<1>4. Destroy(o).op = "destroy" /\ Destroy(o).obj = o
  BY DEF Destroy
<1> HIDE DEF Create, Commit, Ack, Destroy
<1> QED
  BY <1>1, <1>2, <1>3, <1>4 DEF Reads

LEMMA ParentFacts ==
  ASSUME NEW n \in Gens
  PROVE  /\ Parent(Surface(n)) = {} /\ Parent(Xdg(n)) = {Surface(n)}
         /\ Parent(Toplevel(n)) = {Xdg(n)}
         /\ Surface(n) # Xdg(n) /\ Surface(n) # Toplevel(n) /\ Xdg(n) # Toplevel(n)
         /\ Surface(n) \in Object /\ Xdg(n) \in Object /\ Toplevel(n) \in Object
         /\ Surface(n).kind # "xdg_surface" /\ Toplevel(n).kind # "xdg_surface"
         /\ Xdg(n).gen = n
  BY ObjectFacts DEF Parent, Surface, Xdg, Toplevel, Three

LEMMA InitFailsChannel ==
  ASSUME Inv, Channel, NEW w \in Windows,
         InitSurfaceFails(w) \/ InitXdgFails(w) \/ InitToplevelFails(w)
  PROVE  Channel'
<1>0. PICK n : n = New
  OBVIOUS
<1> DEFINE S == Surface(n)
           X == Xdg(n)
<1>1. /\ alive /\ inits < MaxInits /\ inits' = New
      /\ UNCHANGED << win, proxies, data, inbox, events, alive, srv, fault, untidy, late >>
  BY DEF InitSurfaceFails, InitXdgFails, InitToplevelFails, CanInit
<1>2. n \in Gens /\ S \notin proxies /\ X \notin proxies /\ Toplevel(n) \notin proxies
  <2>1. n \in Gens /\ \A v \in Windows : Owned(v) \cap Three(n) = {}
    BY <1>0, <1>1, NoFresh
  <2> QED
    BY <2>1 DEF Inv, Objects, Three
<1>3. n \in 1 .. inits'
  BY <1>0, <1>1 DEF Inv, TypeOK, New
<1>4. ClientStep
  BY <1>1 DEF ClientStep
<1>5. /\ Parent(S) = {} /\ Parent(X) = {S} /\ S # X /\ S \in Object /\ X \in Object
  BY <1>2, ParentFacts
<1>6. /\ Create(S) \in Request /\ Create(X) \in Request /\ Destroy(S) \in Request
      /\ Destroy(X) \in Request
  BY <1>5, RequestTypes
<1>7. requests \in Seq(Request) /\ inbox \in Seq(Event)
  BY DEF Inv, TypeOK
<1>8. /\ InOrder(Create(S))' /\ InOrder(Create(X))' /\ InOrder(Destroy(S))'
      /\ InOrder(Destroy(X))'
  BY <1>1, <1>2, <1>3, ParentFacts DEF InOrder, Create, Destroy
<1>9. \A i \in DOMAIN inbox' : \E j \in DOMAIN inbox : inbox'[i] = inbox[j]
  BY <1>1
<1> DEFINE p == proxies
<1>10. Reads(p, Create(S), p \union {S}) /\ Reads(p \union {S}, Destroy(S), p)
  <2>1. (p \union {S}) \ {S} = p
    BY <1>2
  <2> QED
    BY <1>5, <2>1, RequestReads, Zenon
<1>11. /\ Reads(p \union {S}, Create(X), p \union {S, X})
       /\ Reads(p \union {S, X}, Destroy(X), p \union {S})
  <2>1. (p \union {S}) \union {X} = p \union {S, X} /\ (p \union {S, X}) \ {X} = p \union {S}
    BY <1>2, <1>5
  <2>2. Parent(X) \subseteq p \union {S} /\ X \in p \union {S, X}
    BY <1>5
  <2>3. Reads(p \union {S}, Create(X), (p \union {S}) \union {X})
    BY <1>5, <2>2, RequestReads
  <2>4. Reads(p \union {S, X}, Destroy(X), (p \union {S, X}) \ {X})
    BY <1>5, <2>2, RequestReads
  <2> QED
    BY <2>1, <2>3, <2>4
<1> HIDE DEF S, X
<1>12. CASE InitSurfaceFails(w)
  <2>1. requests' = requests
    BY <1>12 DEF InitSurfaceFails
  <2>2. Behind(requests', requests, {})
    BY <2>1 DEF Behind
  <2>3. inbox' \in Seq(Event)
    BY <1>1, <1>7
  <2> QED
    BY <1>1, <1>4, <1>7, <1>9, <2>1, <2>2, <2>3, BatchSent
<1>13. CASE InitXdgFails(w)
  <2> DEFINE batch == {Create(S), Destroy(S)}
             q == requests \o << Create(S), Destroy(S) >>
  <2>1. requests' = q
    BY <1>0, <1>13 DEF InitXdgFails, S
  <2>2. /\ q \in Seq(Request) /\ Behind(q, requests, batch)
        /\ Leads(requests, srv.objects, p) => Leads(q, srv.objects, p)
    BY <1>6, <1>7, <1>10, BatchOfTwo
  <2>3. batch \in SUBSET Request /\ \A r \in batch : InOrder(r)'
    BY <1>6, <1>8 DEF InOrder, Known
  <2>4. inbox' \in Seq(Event) /\ proxies' = p
    BY <1>1, <1>7
  <2> HIDE DEF batch, q
  <2> QED
    BY <1>1, <1>4, <1>9, <2>1, <2>2, <2>3, <2>4, BatchSent
<1>14. CASE InitToplevelFails(w)
  <2> DEFINE batch == {Create(S), Create(X), Destroy(X), Destroy(S)}
             q == requests \o << Create(S), Create(X), Destroy(X), Destroy(S) >>
  <2>1. requests' = q
    BY <1>0, <1>14 DEF InitToplevelFails, S, X
  <2>2. /\ q \in Seq(Request) /\ Behind(q, requests, batch)
        /\ Leads(requests, srv.objects, p) => Leads(q, srv.objects, p)
    BY <1>6, <1>7, <1>10, <1>11, BatchOfFour
  <2>3. batch \in SUBSET Request /\ \A r \in batch : InOrder(r)'
    BY <1>6, <1>8 DEF InOrder, Known
  <2>4. inbox' \in Seq(Event) /\ proxies' = p
    BY <1>1, <1>7
  <2> HIDE DEF batch, q
  <2> QED
    BY <1>1, <1>4, <1>9, <2>1, <2>2, <2>3, <2>4, BatchSent
<1> QED
  BY <1>12, <1>13, <1>14

LEMMA WindowInitChannel ==
  ASSUME Inv, Channel, NEW w \in Windows, WindowInit(w)
  PROVE  Channel'
<1>0. PICK n : n = New
  OBVIOUS
<1> DEFINE S == Surface(n)
           X == Xdg(n)
           T == Toplevel(n)
           p == proxies
           batch == {Create(S), Create(X), Create(T), Commit(S)}
           q == requests \o << Create(S), Create(X), Create(T), Commit(S) >>
<1>1. /\ alive /\ inits < MaxInits /\ inits' = New
      /\ proxies' = p \union {S, X, T} /\ requests' = q
      /\ UNCHANGED << inbox, alive, srv >>
  BY <1>0 DEF WindowInit, CanInit
<1>2. n \in Gens
  BY <1>0, <1>1, NoFresh
<1>3. ClientStep
  BY <1>0, <1>1 DEF ClientStep, Three
<1>4. /\ Parent(S) = {} /\ Parent(X) = {S} /\ Parent(T) = {X}
      /\ S \in Object /\ X \in Object /\ T \in Object
  BY <1>2, ParentFacts
<1>5. /\ Create(S) \in Request /\ Create(X) \in Request /\ Create(T) \in Request
      /\ Commit(S) \in Request
  BY <1>4, RequestTypes
<1>6. requests \in Seq(Request) /\ inbox' \in Seq(Event)
  BY <1>1 DEF Inv, TypeOK
<1>7. \A i \in DOMAIN inbox' : \E j \in DOMAIN inbox : inbox'[i] = inbox[j]
  BY <1>1
<1>8. \A r \in batch : InOrder(r)'
  BY DEF InOrder, Known, Create, Commit
<1> HIDE DEF S, X, T
<1>9. /\ Reads(p, Create(S), p \union {S})
      /\ Reads(p \union {S}, Create(X), p \union {S, X})
      /\ Reads(p \union {S, X}, Create(T), p \union {S, X, T})
      /\ Reads(p \union {S, X, T}, Commit(S), p \union {S, X, T})
  <2>1. /\ (p \union {S}) \union {X} = p \union {S, X}
        /\ (p \union {S, X}) \union {T} = p \union {S, X, T}
    OBVIOUS
  <2>2. /\ {S} \subseteq p \union {S} /\ {X} \subseteq p \union {S, X}
        /\ {} \subseteq p /\ S \in p \union {S, X, T}
    OBVIOUS
  <2>3. Reads(p, Create(S), p \union {S})
    BY <1>4, <2>2, RequestReads
  <2>4. Reads(p \union {S}, Create(X), (p \union {S}) \union {X})
    BY <1>4, <2>2, RequestReads
  <2>5. Reads(p \union {S, X}, Create(T), (p \union {S, X}) \union {T})
    BY <1>4, <2>2, RequestReads
  <2>6. Reads(p \union {S, X, T}, Commit(S), p \union {S, X, T})
    BY <1>4, <2>2, RequestReads
  <2> QED
    BY <2>1, <2>3, <2>4, <2>5, <2>6
<1>10. /\ q \in Seq(Request) /\ Behind(q, requests, batch)
       /\ Leads(requests, srv.objects, p) => Leads(q, srv.objects, p \union {S, X, T})
  BY <1>5, <1>6, <1>9, BatchOfFour
<1>11. batch \in SUBSET Request
  BY <1>5
<1> HIDE DEF batch, q
<1> QED
  BY <1>1, <1>3, <1>6, <1>7, <1>8, <1>10, <1>11, BatchSent

LEMMA WindowDeinitChannel ==
  ASSUME Inv, Channel, NEW w \in Windows, WindowDeinit(w)
  PROVE  Channel'
<1>1. /\ alive /\ win[w].alive /\ UNCHANGED << inits, inbox, alive, srv >>
      /\ proxies' = proxies \ {win[w].surface, win[w].xdg_surface, win[w].xdg_toplevel}
      /\ requests' = requests \o << Destroy(win[w].surface), Destroy(win[w].xdg_surface),
                                    Destroy(win[w].xdg_toplevel) >>
  BY DEF WindowDeinit
<1>2. PICK n \in 1 .. inits : win[w] = Struct(n)
  BY <1>1, ClearedFacts DEF Inv, Structs
<1>3. n \in Gens
  BY <1>2, Ranges
<1> DEFINE S == Surface(n)
           X == Xdg(n)
           T == Toplevel(n)
           p == proxies
           batch == {Destroy(S), Destroy(X), Destroy(T)}
           q == requests \o << Destroy(S), Destroy(X), Destroy(T) >>
<1>4. /\ win[w].surface = S /\ win[w].xdg_surface = X /\ win[w].xdg_toplevel = T
      /\ Owned(w) = {S, X, T}
  BY <1>2, <1>3, StructFacts, OwnedFacts DEF Three
<1>5. {S, X, T} \subseteq p
  BY <1>4 DEF Inv, Objects
<1>6. ClientStep
  BY <1>1 DEF ClientStep
<1>7. /\ S \in Object /\ X \in Object /\ T \in Object
      /\ S # X /\ S # T /\ X # T
      /\ S.kind # "xdg_surface" /\ T.kind # "xdg_surface" /\ X.gen = n
  BY <1>3, ParentFacts
<1>8. Destroy(S) \in Request /\ Destroy(X) \in Request /\ Destroy(T) \in Request
  BY <1>7, RequestTypes
<1>9. requests \in Seq(Request) /\ inbox' \in Seq(Event)
  BY <1>1 DEF Inv, TypeOK
<1>10. \A i \in DOMAIN inbox' : \E j \in DOMAIN inbox : inbox'[i] = inbox[j]
  BY <1>1
<1>11. \A r \in batch : InOrder(r)'
  <2>1. n \in 1 .. inits' /\ T \notin proxies'
    BY <1>1, <1>2, <1>4
  <2>2. InOrder(Destroy(S))' /\ InOrder(Destroy(T))'
    BY <1>7 DEF InOrder, Destroy
  <2>3. InOrder(Destroy(X))'
    BY <1>7, <2>1 DEF InOrder, Destroy
  <2> QED
    BY <2>2, <2>3 DEF InOrder, Known
<1> HIDE DEF S, X, T
<1>12. /\ Reads(p, Destroy(S), p \ {S})
       /\ Reads(p \ {S}, Destroy(X), p \ {S, X})
       /\ Reads(p \ {S, X}, Destroy(T), p \ {S, X, T})
  <2>1. (p \ {S}) \ {X} = p \ {S, X} /\ (p \ {S, X}) \ {T} = p \ {S, X, T}
    OBVIOUS
  <2>2. S \in p /\ X \in p \ {S} /\ T \in p \ {S, X}
    BY <1>5, <1>7
  <2>3. Reads(p, Destroy(S), p \ {S})
    BY <1>7, <2>2, RequestReads
  <2>4. Reads(p \ {S}, Destroy(X), (p \ {S}) \ {X})
    BY <1>7, <2>2, RequestReads
  <2>5. Reads(p \ {S, X}, Destroy(T), (p \ {S, X}) \ {T})
    BY <1>7, <2>2, RequestReads
  <2> QED
    BY <2>1, <2>3, <2>4, <2>5
<1>13. /\ q \in Seq(Request) /\ Behind(q, requests, batch)
       /\ Leads(requests, srv.objects, p) => Leads(q, srv.objects, p \ {S, X, T})
  BY <1>8, <1>9, <1>12, BatchOfThree
<1>14. batch \in SUBSET Request
  BY <1>8
<1>15. requests' = q /\ proxies' = p \ {S, X, T}
  BY <1>1, <1>4
<1> HIDE DEF batch, q
<1> QED
  BY <1>1, <1>6, <1>9, <1>10, <1>11, <1>13, <1>14, <1>15, BatchSent

\* The client steps that send nothing new.
LEMMA QuietChannel ==
  ASSUME Inv, Channel, UNCHANGED << inits, proxies, alive, srv, requests >>,
         inbox' \in Seq(Event),
         \A i \in DOMAIN inbox' : \E j \in DOMAIN inbox : inbox'[i] = inbox[j]
  PROVE  Channel'
<1>1. \A i \in DOMAIN requests' : InOrder(requests[i])'
  BY DEF Channel, InOrder, Known
<1>2. ASSUME NEW i \in DOMAIN inbox', inbox'[i].kind = "configure"
      PROVE  Known(inbox[i].serial, inbox[i].obj.gen)'
  <2>1. PICK j \in DOMAIN inbox : inbox'[i] = inbox[j]
    OBVIOUS
  <2>2. Known(inbox[j].serial, inbox[j].obj.gen)
    BY <1>2, <2>1 DEF Channel
  <2> QED
    BY <2>1, <2>2 DEF Known
<1>3. ErrorCause'
  BY DEF Channel, ErrorCause
<1> QED
  BY <1>1, <1>2, <1>3 DEF Channel

LEMMA InboxRest ==
  ASSUME Inv, NEW e, Dispatch(e)
  PROVE  /\ inbox' \in Seq(Event) /\ e \in Event
         /\ \A i \in DOMAIN inbox' : \E j \in DOMAIN inbox : inbox'[i] = inbox[j]
         /\ \E j \in DOMAIN inbox : e = inbox[j]
<1>1. inbox \in Seq(Event) /\ inbox # <<>> /\ e = Head(inbox) /\ inbox' = Tail(inbox)
  BY DEF Dispatch, Inv, TypeOK
<1>2. /\ inbox' \in Seq(Event) /\ e \in Event /\ 1 \in DOMAIN inbox /\ e = inbox[1]
      /\ \A i \in DOMAIN inbox' : i + 1 \in DOMAIN inbox /\ inbox'[i] = inbox[i + 1]
  BY <1>1, Shorter
<1> QED
  BY <1>2

LEMMA ListenerChannel ==
  ASSUME Inv, Channel, DispatchDropped \/ ToplevelListener \/ EventLoopGet
  PROVE  Channel'
<1>1. UNCHANGED << inits, proxies, alive, srv, requests >>
  BY DEF DispatchDropped, ToplevelListener, EventLoopGet, client
<1>2. CASE \E e \in Event : Dispatch(e)
  BY <1>1, <1>2, InboxRest, QuietChannel
<1>3. CASE EventLoopGet
  <2>1. inbox' = inbox /\ inbox \in Seq(Event)
    BY <1>3 DEF EventLoopGet, Inv, TypeOK
  <2> QED
    BY <1>1, <2>1, QuietChannel
<1> QED
  BY <1>2, <1>3 DEF DispatchDropped, ToplevelListener

LEMMA SurfaceConfigureChannel ==
  ASSUME Inv, Channel, SurfaceConfigure
  PROVE  Channel'
<1>1. PICK e \in Event : /\ Dispatch(e) /\ e.obj \in proxies /\ e.kind = "configure"
                         /\ requests' = Append(requests, Ack(e.obj, e.serial))
  BY DEF SurfaceConfigure
<1> DEFINE a == Ack(e.obj, e.serial)
<1>2. alive /\ UNCHANGED << inits, proxies, alive, srv >>
  BY <1>1 DEF SurfaceConfigure, client, Dispatch
<1>3. a \in Request /\ e.obj \in Object
  BY RequestTypes DEF Event
<1>4. requests \in Seq(Request)
  BY DEF Inv, TypeOK
<1>5. /\ inbox' \in Seq(Event)
      /\ \A i \in DOMAIN inbox' : \E j \in DOMAIN inbox : inbox'[i] = inbox[j]
  BY <1>1, InboxRest
<1>6. Known(e.serial, e.obj.gen)
  <2>1. PICK j \in DOMAIN inbox : e = inbox[j]
    BY <1>1, InboxRest
  <2> QED
    BY <1>1, <2>1 DEF Channel
<1>7. Reads(proxies, a, proxies)
  BY <1>1, <1>3, RequestReads
<1>8. a.op = "ack" /\ a.serial = e.serial /\ a.obj = e.obj
  BY DEF Ack
<1> HIDE DEF a
<1>9. requests' = Append(requests, a)
  BY <1>1 DEF a
<1>10. requests' \in Seq(Request) /\ Behind(requests', requests, {a})
  BY <1>3, <1>4, <1>9, Longer DEF Behind
<1>11. Leads(requests, srv.objects, proxies) => Leads(requests', srv.objects, proxies')
  BY <1>2, <1>4, <1>7, <1>9, LeadsOn
<1>12. \A r \in {a} : InOrder(r)'
  BY <1>2, <1>6, <1>8 DEF InOrder, Known
<1>13. ClientStep
  BY <1>2 DEF ClientStep
<1>14. {a} \in SUBSET Request
  BY <1>3
<1> QED
  BY <1>2, <1>5, <1>10, <1>11, <1>12, <1>13, <1>14, BatchSent

LEMMA EventLoopDeinitChannel ==
  ASSUME Inv, Channel, EventLoopDeinit
  PROVE  Channel'
<1>1. /\ alive' = FALSE /\ requests' = <<>> /\ inbox' = <<>>
      /\ srv' = [srv EXCEPT !.objects = {}]
  BY DEF EventLoopDeinit
<1>2. srv'.error = srv.error
  BY <1>1 DEF Inv, TypeOK
<1>3. ErrorCause'
  BY <1>1, <1>2 DEF Channel, ErrorCause
<1>4. DOMAIN requests' = {} /\ DOMAIN inbox' = {}
  BY <1>1
<1> QED
  BY <1>1, <1>3, <1>4 DEF Channel

-------------------------------------------------------------------------------
\* A request read right is refused only as a window_deinit is.
LEMMA HandledRight ==
  ASSUME NEW s \in SrvType, NEW r \in Request, NEW c, Reads(s.objects, r, c),
         r.op = "ack" => r.serial \in DOMAIN s.serials /\ s.serials[r.serial] = r.obj.gen
  PROVE  /\ Handled(s, r).serials = s.serials
         /\ \/ Handled(s, r).error = s.error /\ Handled(s, r).objects = c
            \/ /\ r.op = "destroy" /\ r.obj.kind = "xdg_surface"
               /\ Toplevel(r.obj.gen) \in s.objects
               /\ Handled(s, r).error = "defunct_role_object"
               /\ Handled(s, r).objects = s.objects
<1>1. CASE r.op = "create"
  <2>1. Parent(r.obj) \subseteq s.objects /\ c = s.objects \union {r.obj}
    BY <1>1 DEF Reads
  <2>2. Handled(s, r) = [s EXCEPT !.objects = @ \union {r.obj}]
    BY <1>1, <2>1 DEF Handled
  <2> QED
    BY <2>1, <2>2 DEF SrvType
<1>2. CASE r.op = "commit"
  <2>1. r.obj \in s.objects /\ c = s.objects
    BY <1>2 DEF Reads
  <2>2. Handled(s, r) = [s EXCEPT !.committed = @ \union {r.obj.gen}]
    BY <1>2, <2>1 DEF Handled
  <2> QED
    BY <2>1, <2>2 DEF SrvType
<1>3. CASE r.op = "ack"
  <2>1. r.obj \in s.objects /\ c = s.objects
    BY <1>3 DEF Reads
  <2>2. Handled(s, r) = s
    BY <1>3, <2>1 DEF Handled
  <2> QED
    BY <2>1, <2>2
<1>4. CASE r.op = "destroy"
  <2>1. r.obj \in s.objects /\ c = s.objects \ {r.obj}
    BY <1>4 DEF Reads
  <2>2. Handled(s, r) = IF r.obj.kind = "xdg_surface" /\ Toplevel(r.obj.gen) \in s.objects
                        THEN [s EXCEPT !.error = "defunct_role_object"]
                        ELSE [s EXCEPT !.objects = @ \ {r.obj}]
    BY <1>4, <2>1 DEF Handled
  <2> QED
    BY <1>4, <2>1, <2>2 DEF SrvType
<1> QED
  BY <1>1, <1>2, <1>3, <1>4 DEF Request

LEMMA SrvReceiveChannel ==
  ASSUME Inv, Channel, SrvReceive
  PROVE  Channel'
<1> DEFINE r == Head(requests)
<1>1. /\ requests # <<>> /\ requests' = Tail(requests) /\ UNCHANGED << client, inbox >>
      /\ srv' = IF srv.error = "none" THEN Handled(srv, r) ELSE srv
  BY DEF SrvReceive
<1>2. alive /\ alive' = alive /\ proxies' = proxies /\ inits' = inits
  BY <1>1 DEF Channel, client
<1>3. requests \in Seq(Request) /\ srv \in SrvType
  BY DEF Inv, TypeOK, SrvType
<1>4. /\ r \in Request /\ 1 \in DOMAIN requests /\ r = requests[1]
      /\ \A i \in DOMAIN requests' : i + 1 \in DOMAIN requests /\ requests'[i] = requests[i + 1]
  BY <1>1, <1>3, Shorter
<1>5. InOrder(r)
  BY <1>4 DEF Channel
<1> HIDE DEF r
<1>6. CASE srv.error # "none"
  <2>1. srv' = srv
    BY <1>1, <1>6
  <2>2. \A i \in DOMAIN requests' : InOrder(requests[i])'
    BY <1>2, <1>4, <2>1 DEF Channel, InOrder, Known
  <2>3. \A i \in DOMAIN inbox' :
          inbox'[i].kind = "configure" => Known(inbox[i].serial, inbox[i].obj.gen)'
    BY <1>1, <2>1 DEF Channel, Known
  <2>4. ErrorCause'
    BY <1>2, <2>1 DEF Channel, ErrorCause
  <2> QED
    BY <1>2, <1>6, <2>1, <2>2, <2>3, <2>4 DEF Channel
<1>7. CASE srv.error = "none"
  <2>1. Leads(requests, srv.objects, proxies)
    BY <1>2, <1>7 DEF Channel
  <2>2. PICK c : Reads(srv.objects, r, c) /\ Leads(Tail(requests), c, proxies)
    BY <1>1, <1>3, <2>1, LeadsFirst DEF r
  <2>3. srv' = Handled(srv, r)
    BY <1>1, <1>7
  <2>4. r.op = "ack" => r.serial \in DOMAIN srv.serials /\ srv.serials[r.serial] = r.obj.gen
    BY <1>5 DEF InOrder, Known
  <2>5. /\ srv'.serials = srv.serials
        /\ \/ srv'.error = srv.error /\ srv'.objects = c
           \/ /\ r.op = "destroy" /\ r.obj.kind = "xdg_surface"
              /\ Toplevel(r.obj.gen) \in srv.objects
              /\ srv'.error = "defunct_role_object"
              /\ srv'.objects = srv.objects
    BY <1>3, <1>4, <2>2, <2>3, <2>4, HandledRight
  <2>6. \A i \in DOMAIN requests' : InOrder(requests[i])'
    BY <1>2, <1>4, <2>5 DEF Channel, InOrder, Known
  <2>7. \A i \in DOMAIN inbox' :
          inbox'[i].kind = "configure" => Known(inbox[i].serial, inbox[i].obj.gen)'
    BY <1>1, <2>5 DEF Channel, Known
  <2>8. srv'.error = "none" => Leads(requests', srv'.objects, proxies')
    BY <1>1, <1>2, <2>2, <2>5
  <2>9. ErrorCause'
    <3>1. CASE srv'.error = srv.error
      BY <1>7, <3>1 DEF ErrorCause
    <3>2. CASE srv'.error # srv.error
      <4>1. /\ srv'.error = "defunct_role_object" /\ r.obj.gen \in 1 .. inits
            /\ Toplevel(r.obj.gen) \in srv'.objects \ proxies
        BY <1>5, <2>5, <3>2 DEF InOrder
      <4> QED
        BY <1>2, <4>1 DEF ErrorCause
    <3> QED
      BY <3>1, <3>2
  <2> QED
    BY <1>2, <2>6, <2>7, <2>8, <2>9 DEF Channel
<1> QED
  BY <1>6, <1>7

LEMMA SrvSendChannel ==
  ASSUME Inv, Channel, NEW n \in Gens, SrvConfigure(n) \/ SrvClose(n)
  PROVE  Channel'
<1>0. PICK s : s = Len(srv.serials) + 1
  OBVIOUS
<1> DEFINE EventOf(kind) == [kind |-> kind, serial |-> s,
                             obj |-> IF kind = "configure" THEN Xdg(n) ELSE Toplevel(n)]
<1>1. PICK kinds \in Seq({"resize", "close", "configure"}) : Sent(n, kinds)
  <2>1. /\ << "resize", "configure" >> \in Seq({"resize", "close", "configure"})
        /\ << "close" >> \in Seq({"resize", "close", "configure"})
    OBVIOUS
  <2> QED
    BY <2>1 DEF SrvConfigure, SrvClose
<1> DEFINE batch == [i \in DOMAIN kinds |-> EventOf(kinds[i])]
<1>2. UNCHANGED << client, requests >>
  BY DEF SrvConfigure, SrvClose
<1>3. alive' = alive /\ proxies' = proxies /\ inits' = inits
  BY <1>2 DEF client
<1>4. inbox' = inbox \o batch /\ srv' = [srv EXCEPT !.serials = Append(@, n)]
  BY <1>0, <1>1 DEF Sent
<1>5. srv \in SrvType /\ inbox \in Seq(Event)
  BY DEF Inv, TypeOK, SrvType
<1>6. srv'.serials = Append(srv.serials, n) /\ srv'.objects = srv.objects /\ srv'.error = srv.error
  BY <1>4, <1>5 DEF SrvType
<1>7. srv.serials \in Seq(Gens)
  BY <1>5 DEF SrvType
<1>8. \A k, m : Known(k, m) => Known(k, m)'
  BY <1>6, <1>7 DEF Known
<1>9. Known(s, n)'
  BY <1>0, <1>6, <1>7 DEF Known
<1>10. \A i \in DOMAIN requests' : InOrder(requests[i])'
  BY <1>2, <1>3, <1>8 DEF Channel, InOrder
<1>11. \A i \in DOMAIN batch :
         batch[i].kind = "configure" => batch[i].serial = s /\ batch[i].obj.gen = n
  BY DEF Xdg
<1>12. batch \in Seq({EventOf(k) : k \in {"resize", "close", "configure"}})
  OBVIOUS
<1> HIDE DEF batch
<1>13. \A i \in DOMAIN inbox' :
         \/ i \in DOMAIN inbox /\ inbox'[i] = inbox[i]
         \/ i - Len(inbox) \in DOMAIN batch /\ inbox'[i] = batch[i - Len(inbox)]
  BY <1>4, <1>5, <1>12
<1>14. ASSUME NEW i \in DOMAIN inbox', inbox'[i].kind = "configure"
       PROVE  Known(inbox[i].serial, inbox[i].obj.gen)'
  <2>1. CASE i \in DOMAIN inbox /\ inbox'[i] = inbox[i]
    <3>1. Known(inbox[i].serial, inbox[i].obj.gen)
      BY <1>14, <2>1 DEF Channel
    <3> QED
      BY <1>6, <1>7, <2>1, <3>1 DEF Known
  <2>2. CASE i - Len(inbox) \in DOMAIN batch /\ inbox'[i] = batch[i - Len(inbox)]
    <3>1. inbox'[i].serial = s /\ inbox'[i].obj.gen = n
      BY <1>11, <1>14, <2>2
    <3> QED
      BY <1>9, <3>1 DEF Known
  <2> QED
    BY <1>13, <1>14, <2>1, <2>2
<1>15. ErrorCause'
  BY <1>3, <1>6 DEF Channel, ErrorCause
<1> QED
  BY <1>2, <1>3, <1>6, <1>10, <1>14, <1>15 DEF Channel

LEMMA StepChannel == Inv /\ Channel /\ [Next]_vars => Channel'
<1> SUFFICES ASSUME Inv, Channel, [Next]_vars PROVE Channel'
  OBVIOUS
<1>1. CASE UNCHANGED vars
  <2>1. UNCHANGED << inits, proxies, alive, srv, requests >> /\ inbox' = inbox
    BY <1>1 DEF vars, client
  <2>2. inbox \in Seq(Event)
    BY DEF Inv, TypeOK
  <2> QED
    BY <2>1, <2>2, QuietChannel
<1> QED
  BY <1>1, InitFailsChannel, WindowInitChannel, WindowDeinitChannel, ListenerChannel,
     SurfaceConfigureChannel, EventLoopDeinitChannel, SrvReceiveChannel, SrvSendChannel
     DEF Next

LEMMA ChannelInvariance == Spec => []Channel
<1>1. Init => Inv /\ Channel
  BY InitInv, InitChannel
<1>2. Inv /\ Channel /\ [Next]_vars => (Inv /\ Channel)'
  BY NextInv, StepChannel
<1> QED
  BY <1>1, <1>2, PTL DEF Spec

\* Whatever fails in window_init, and whatever acks are sent, the only request the
\* compositor refuses is one of window_deinit, for a window it still has a
\* toplevel of.
THEOREM WindowErrorCause == Spec => []ErrorCause
<1>1. Channel => ErrorCause
  BY DEF Channel
<1> QED
  BY <1>1, ChannelInvariance, PTL

\* A compositor that has received everything and refused nothing has exactly the
\* objects the client has: no failure of window_init leaves one behind there.
THEOREM WindowSameObjects == Spec => []SameObjects
<1>1. Channel => SameObjects
  BY LeadsNowhere DEF Channel, SameObjects
<1> QED
  BY <1>1, ChannelInvariance, PTL

===============================================================================
