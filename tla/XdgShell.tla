-------------------------------- MODULE XdgShell --------------------------------
(***************************************************************************)
(* The xdg-shell code at work: an application calls the functions of       *)
(* include/spaze/xdg-shell.h on the proxies it has, libwayland puts them   *)
(* on the wire by opcode, the compositor reads them by the tables of       *)
(* xdg-shell.c, and events come back by opcode to the slots of the         *)
(* listener structs.                                                       *)
(*                                                                         *)
(* The application may call any function of a proxy it has not destroyed,  *)
(* with any object of the right C type that it has; src/windowing.c calls  *)
(* a few of them and sets the listeners modelled in Handlers.  Objects get *)
(* numbers that are not used again: libwayland uses one again only when    *)
(* both ends have let it go.                                               *)
(*                                                                         *)
(* External: libwayland and the compositor.  The compositor's tables are   *)
(* those of the same protocol, so it reads with the tables of xdg-shell.c; *)
(* of what a request means to it there are the objects it makes and        *)
(* destroys, and the complaints the header documents: whether the          *)
(* condition of one holds is left open, so both answers are possible.      *)
(***************************************************************************)
EXTENDS XdgTables

CONSTANTS
  Versions,    \* versions of xdg_wm_base an application may bind, beside spaze's
  Foreign,     \* the interfaces of the other objects it has: surface, seat, output
  MaxObjects,  \* bound: the objects of xdg-shell made in all
  MaxFlight    \* bound: the messages on their way, both directions together

ASSUME XdgShellAssumption ==
  /\ Versions \subseteq Nat \ {0}
  /\ Foreign \in Seq({"wl_surface", "wl_seat", "wl_output"})
  /\ MaxObjects \in Nat /\ MaxFlight \in Nat

WL_VERSION_LATER == 5  \* mutant: a later version, the same listeners
WL_VERSION == 1

VARIABLES
  version,    \* the version xdg_wm_base was bound with
  proxies,    \* the client's objects: interface and version of each number
  resources,  \* the compositor's
  last,       \* the last number given to an object
  wire,       \* requests, client to compositor
  inbox,      \* events, compositor to client
  error,      \* the compositor's complaint, and the function it is about
  aborted,    \* libwayland: an event came for a slot that is NULL
  heard       \* the last event dispatched, and the slot that was called for it

vars == << version, proxies, resources, last, wire, inbox, error, aborted, heard >>

WmBase == 1
Ids == 1 .. 1 + Len(Foreign) + MaxObjects

Object == [interface : Interfaces \union {"wl_surface", "wl_seat", "wl_output", Nothing},
           version : Nat]
NoObject == [interface |-> Nothing, version |-> 0]

\* What spaze hands to the add_listener functions: WM_BASE_LISTENER,
\* XDG_SURFACE_LISTENER and XDG_TOPLEVEL_LISTENER.  The other slots are NULL,
\* the other interfaces have no listener and their events are dropped.
Handlers(interface) ==
  CASE interface = "xdg_wm_base"  -> {"ping"}
    [] interface = "xdg_surface"  -> {"configure"}
    [] interface = "xdg_toplevel" -> {"close", "configure"}
    [] OTHER                      -> {}

\* registry_global has bound xdg_wm_base.
Init ==
  /\ version \in Versions \union {WL_VERSION}
  /\ proxies = [o \in Ids |->
       CASE o = WmBase -> [interface |-> "xdg_wm_base", version |-> version]
         [] o \in 2 .. 1 + Len(Foreign) -> [interface |-> Foreign[o - 1], version |-> 1]
         [] OTHER -> NoObject]
  /\ resources = proxies
  /\ last = 1 + Len(Foreign)
  /\ wire = <<>> /\ inbox = <<>>
  /\ error = [kind |-> "none", of |-> Nothing, name |-> Nothing]
  /\ aborted = FALSE
  /\ heard = [sent |-> Nothing, slot |-> Nothing, fits |-> TRUE]

CanFly == Len(wire) + Len(inbox) < MaxFlight

-------------------------------------------------------------------------------
(***************************************************************************)
(* A call of a request function, which is a call of wl_proxy_marshal_flags *)
(***************************************************************************)

\* The values an argument can have: NULL (0) only where libwayland's marshalling
\* accepts it, by the client's own table.
Candidates(interface, f, k) ==
  LET request == Requests(interface)[f.opcode + 1]
  IN  CASE f.args[k] = "new" -> {last + 1}
        [] f.args[k] \in {"int", "uint", "string"} -> {0}
        [] OTHER -> { o \in Ids : proxies[o].interface = f.args[k] }
                      \union { o \in {0} : request.signature[k] = "?o" }

Arguments(interface, f) ==
  { v \in [DOMAIN f.args -> UNION { Candidates(interface, f, k) : k \in DOMAIN f.args }] :
      \A k \in DOMAIN f.args : v[k] \in Candidates(interface, f, k) }

\* The version a new proxy gets: wl_proxy_get_version of the one it is made from.
NewVersionLatest(o) == 7  \* mutant: that of the interface in xdg-shell.c
NewVersion(o) == proxies[o].version

Call(o, f) ==
  /\ ~aborted /\ CanFly
  /\ f \in Functions(proxies[o].interface)
  /\ f.makes # Nothing => last + 1 \in Ids
  /\ \E v \in Arguments(proxies[o].interface, f) :
       wire' = Append(wire, [obj |-> o, of |-> proxies[o].interface, fn |-> f, values |-> v])
  /\ proxies' = [x \in Ids |->
       CASE f.makes # Nothing /\ x = last + 1 ->
              [interface |-> f.makes, version |-> NewVersion(o)]
         [] f.destroys /\ x = o -> NoObject
         [] OTHER -> proxies[x]]
  /\ last' = IF f.makes = Nothing THEN last ELSE last + 1
  /\ UNCHANGED << version, resources, inbox, error, aborted, heard >>

-------------------------------------------------------------------------------
(***************************************************************************)
(* The compositor reads a request                                          *)
(***************************************************************************)
Refuse(kind, m) == error' = [kind |-> kind, of |-> m.of, name |-> m.fn.name]

\* The request an opcode stands for, if the object has it in its version.
HasMethod(o, opcode) ==
  /\ opcode < Len(Requests(resources[o].interface))
  /\ Requests(resources[o].interface)[opcode + 1].since <= resources[o].version

ObjectsFit(request, m) ==
  \A k \in DOMAIN m.values :
    k \in DOMAIN request.signature /\ request.signature[k] \in {"o", "?o"} =>
      m.values[k] = 0 \/ resources[m.values[k]].interface = TypeAt(request, k)

\* What the header says a function may be refused for, once it has been read.
Complaints ==
  { << "xdg_wm_base", "destroy", "defunct_surfaces" >>,
    << "xdg_wm_base", "get_xdg_surface", "role" >>,
    << "xdg_positioner", "set_size", "invalid_input" >>,
    << "xdg_positioner", "set_anchor_rect", "invalid_input" >>,
    << "xdg_positioner", "set_gravity", "invalid_input" >>,
    << "xdg_surface", "destroy", "defunct_role_object" >>,
    << "xdg_surface", "get_toplevel", "already_constructed" >>,
    << "xdg_surface", "get_popup", "already_constructed" >>,
    << "xdg_surface", "get_popup", "invalid_positioner" >>,
    << "xdg_surface", "get_popup", "invalid_popup_parent" >>,
    << "xdg_surface", "set_window_geometry", "invalid_size" >>,
    << "xdg_surface", "ack_configure", "invalid_serial" >>,
    << "xdg_toplevel", "set_parent", "invalid_parent" >>,
    << "xdg_toplevel", "resize", "invalid_resize_edge" >>,
    << "xdg_toplevel", "set_max_size", "invalid_size" >>,
    << "xdg_toplevel", "set_min_size", "invalid_size" >>,
    << "xdg_popup", "destroy", "not_the_topmost_popup" >>,
    << "xdg_popup", "grab", "invalid_grab" >>,
    << "xdg_popup", "reposition", "invalid_positioner" >> }

\* A request that can be read is carried out or complained of.
SrvReceive ==
  /\ wire # <<>> /\ error.kind = "none"
  /\ LET m == Head(wire)
         request == Requests(resources[m.obj].interface)[m.fn.opcode + 1]
         Read == resources' = [x \in Ids |->
                   CASE Made(request) # Nothing /\ x = m.values[1] ->
                          [interface |-> Made(request), version |-> resources[m.obj].version]
                     [] request.name = "destroy" /\ x = m.obj -> NoObject
                     [] OTHER -> resources[x]]
     IN  CASE resources[m.obj] = NoObject ->
                Refuse("invalid_object", m) /\ UNCHANGED resources
           [] resources[m.obj] # NoObject /\ ~HasMethod(m.obj, m.fn.opcode) ->
                Refuse("invalid_method", m) /\ UNCHANGED resources
           [] resources[m.obj] # NoObject /\ HasMethod(m.obj, m.fn.opcode) ->
                IF Fits(request, m.fn.args) /\ ObjectsFit(request, m)
                THEN \/ Read /\ UNCHANGED error
                     \/ /\ \E c \in Complaints :
                             /\ c[1] = resources[m.obj].interface /\ c[2] = request.name
                             /\ Refuse(c[3], m)
                        /\ UNCHANGED resources
                ELSE Refuse("misread", m) /\ UNCHANGED resources
  /\ wire' = Tail(wire)
  /\ UNCHANGED << version, proxies, last, inbox, aborted, heard >>

-------------------------------------------------------------------------------
(***************************************************************************)
(* Events                                                                  *)
(***************************************************************************)

\* A compositor sends no event that is newer than the object.
SrvSend(o, k) ==
  /\ error.kind = "none" /\ CanFly
  /\ k \in DOMAIN Events(resources[o].interface)
  /\ Since(resources[o].interface, Events(resources[o].interface)[k].name)
       <= resources[o].version
  /\ inbox' = Append(inbox, [obj |-> o, opcode |-> k - 1])
  /\ UNCHANGED << version, proxies, resources, last, wire, error, aborted, heard >>

\* The object was destroyed meanwhile, or has no listener.
DispatchDropped ==
  /\ ~aborted /\ inbox # <<>>
  /\ Handlers(proxies[Head(inbox).obj].interface) = {}
  /\ inbox' = Tail(inbox)
  /\ UNCHANGED << version, proxies, resources, last, wire, error, aborted, heard >>

\* The function in the slot of the opcode is called; a NULL one aborts.
Dispatch ==
  /\ ~aborted /\ inbox # <<>>
  /\ LET interface == proxies[Head(inbox).obj].interface
         event == Events(interface)[Head(inbox).opcode + 1]
         slot == Listener(interface)[Head(inbox).opcode + 1]
     IN  /\ Handlers(interface) # {}
         /\ IF slot.name \in Handlers(interface)
            THEN /\ heard' = [sent |-> event.name, slot |-> slot.name,
                               fits |-> Fits(event, slot.args)]
                 /\ UNCHANGED aborted
            ELSE aborted' = TRUE /\ UNCHANGED heard
  /\ inbox' = Tail(inbox)
  /\ UNCHANGED << version, proxies, resources, last, wire, error >>

-------------------------------------------------------------------------------

Next ==
  \/ \E o \in Ids : \E f \in Functions(proxies[o].interface) : Call(o, f)
  \/ SrvReceive
  \/ \E o \in Ids, k \in 1 .. 4 : SrvSend(o, k)
  \/ DispatchDropped \/ Dispatch

Spec == Init /\ [][Next]_vars

-------------------------------------------------------------------------------
(***************************************************************************)
(* Properties                                                              *)
(***************************************************************************)

\* The values the variables may have.
AllFunctions == UNION { Functions(i) : i \in Interfaces }
TypeOK ==
  /\ version \in Nat \ {0}
  /\ proxies \in [Ids -> Object] /\ resources \in [Ids -> Object]
  /\ last \in Ids
  /\ \A i \in DOMAIN wire : wire[i].obj \in Ids /\ wire[i].fn \in AllFunctions
  /\ \A i \in DOMAIN inbox : inbox[i].obj \in Ids /\ inbox[i].opcode \in 0 .. 3
  /\ error.kind \in {"none", "invalid_method"} \union { c[3] : c \in Complaints }
  /\ aborted \in BOOLEAN

\* Every request on the wire will be read as the function that was called: the
\* same name, arguments of the same types, and the object it makes of the
\* interface the application's proxy has.
MeansWhatWasCalled ==
  \A i \in DOMAIN wire :
    LET m == wire[i]
        request == Requests(m.of)[m.fn.opcode + 1]
    IN  /\ m.fn.opcode < Len(Requests(m.of))
        /\ request.name = m.fn.name
        /\ Fits(request, m.fn.args)
        /\ Made(request) = m.fn.makes

\* When the compositor has read everything and refused nothing, both ends have
\* the same objects with the same interfaces and versions.
SameObjects == wire = <<>> /\ error.kind = "none" => resources = proxies

\* The compositor is sent nothing it cannot read but a function the header says
\* is newer than the version that was bound: no object it does not know, no
\* opcode beyond the table, no argument of another type.  Nothing on the client's
\* side checks the version.  What it may complain of in a request that it has
\* read is another matter, see Complaints.
UnreadableCause ==
  error.kind \in {"invalid_object", "invalid_method", "misread"} =>
    error.kind = "invalid_method" /\ Since(error.of, error.name) > version

\* An event gets to the function its listener struct names for it, with the
\* arguments the function takes.
HeardAsSent == heard.sent = heard.slot /\ heard.fits

\* The slots that XDG_TOPLEVEL_LISTENER leaves NULL are never called, with the
\* version spaze binds.
NoNullSlot == version = WL_VERSION => ~aborted

================================================================================
