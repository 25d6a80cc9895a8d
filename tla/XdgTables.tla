------------------------------- MODULE XdgTables -------------------------------
(***************************************************************************)
(* The two halves of the xdg-shell client code, as data.                   *)
(*                                                                         *)
(* include/spaze/xdg-shell.h has one function per request, which puts an   *)
(* opcode and arguments on the wire, and one struct per interface for the  *)
(* listeners of its events, in the order of the opcodes.  xdg-shell.c has  *)
(* the tables libwayland marshals and dispatches by: the name, signature   *)
(* and argument types of each request and event, at the place of its       *)
(* opcode.  Both are generated from one protocol; nothing in C compares    *)
(* them.                                                                   *)
(***************************************************************************)
EXTENDS Naturals, Sequences

Nothing == "nothing"

Interfaces == {"xdg_wm_base", "xdg_positioner", "xdg_surface", "xdg_toplevel", "xdg_popup"}

-------------------------------------------------------------------------------
(***************************************************************************)
(* xdg-shell.h: the request functions.  "makes" is the interface of the    *)
(* new proxy, "destroys" WL_MARSHAL_FLAG_DESTROY; an argument is "new",    *)
(* the interface of an object, or the C type of a value.                   *)
(***************************************************************************)
Fn(opcode, name, args) ==
  [opcode |-> opcode, name |-> name, args |-> args, makes |-> Nothing, destroys |-> FALSE]
Maker(opcode, name, interface, args) ==
  [opcode |-> opcode, name |-> name, args |-> << "new" >> \o args,
   makes |-> interface, destroys |-> FALSE]
Destructor(opcode) ==
  [opcode |-> opcode, name |-> "destroy", args |-> <<>>, makes |-> Nothing, destroys |-> TRUE]

WmBaseFunctions == {
  Destructor(0),
  Maker(1, "create_positioner", "xdg_positioner", <<>>),
  Maker(2, "get_xdg_surface", "xdg_surface", << "wl_surface" >>),
  Fn(3, "pong", << "uint" >>) }

\* A positioner that places a popup once, and one that keeps placing it.
PositionerPlacement == {
  Destructor(0),
  Fn(1, "set_size", << "int", "int" >>),
  Fn(2, "set_anchor_rect", << "int", "int", "int", "int" >>),
  Fn(3, "set_anchor", << "uint" >>),
  Fn(4, "set_gravity", << "uint" >>),
  Fn(5, "set_constraint_adjustment", << "uint" >>),
  Fn(6, "set_offset", << "int", "int" >>) }
PositionerReaction == {
  Fn(7, "set_reactive", <<>>),
  Fn(8, "set_parent_size", << "int", "int" >>),
  Fn(9, "set_parent_configure", << "uint" >>) }

SurfaceFunctions == {
  Destructor(0),
  Maker(1, "get_toplevel", "xdg_toplevel", <<>>),
  Maker(2, "get_popup", "xdg_popup", << "xdg_surface", "xdg_positioner" >>),
  Fn(3, "set_window_geometry", << "int", "int", "int", "int" >>),
  Fn(4, "ack_configure", << "uint" >>) }

\* The functions of xdg_toplevel, in the order of the header: those about what
\* the window is, those an input event starts, sizes, and states.
ToplevelIdentity == {
  Destructor(0),
  Fn(1, "set_parent", << "xdg_toplevel" >>),
  Fn(2, "set_title", << "string" >>),
  Fn(3, "set_app_id", << "string" >>) }
ToplevelInteractions == {
  Fn(4, "show_window_menu", << "wl_seat", "uint", "int", "int" >>),
  Fn(5, "move", << "wl_seat", "uint" >>),
  Fn(6, "resize", << "wl_seat", "uint", "uint" >>) }
ToplevelSizes == {
  Fn(7, "set_max_size", << "int", "int" >>),
  Fn(8, "set_min_size", << "int", "int" >>) }
ToplevelStates == {
  Fn(9, "set_maximized", <<>>),
  Fn(10, "unset_maximized", <<>>),
  Fn(11, "set_fullscreen", << "wl_output" >>),
  Fn(12, "unset_fullscreen", <<>>),
  Fn(13, "set_minimized", <<>>) }

PopupFunctionsSwapped == {  \* mutant: the opcodes of two functions swapped
  Destructor(0),
  Fn(2, "grab", << "wl_seat", "uint" >>),
  Fn(1, "reposition", << "xdg_positioner", "uint" >>) }
PopupFunctions == {
  Destructor(0),
  Fn(1, "grab", << "wl_seat", "uint" >>),
  Fn(2, "reposition", << "xdg_positioner", "uint" >>) }

Functions(interface) ==
  CASE interface = "xdg_wm_base"    -> WmBaseFunctions
    [] interface = "xdg_positioner" -> PositionerPlacement \union PositionerReaction
    [] interface = "xdg_surface"    -> SurfaceFunctions
    [] interface = "xdg_toplevel"   -> ToplevelIdentity \union ToplevelInteractions
                                         \union ToplevelSizes \union ToplevelStates
    [] interface = "xdg_popup"      -> PopupFunctions
    [] OTHER                        -> {}

\* The *_SINCE_VERSION of the header that are not 1: requests and events.
PositionerSince == {"set_reactive", "set_parent_size", "set_parent_configure"}
PopupSince      == {"reposition", "repositioned"}
Since(interface, name) ==
  CASE interface = "xdg_positioner" /\ name \in PositionerSince   -> 3
    [] interface = "xdg_popup" /\ name \in PopupSince             -> 3
    [] interface = "xdg_toplevel" /\ name = "configure_bounds"    -> 4
    [] interface = "xdg_toplevel" /\ name = "wm_capabilities"     -> 5
    [] OTHER                                                      -> 1

\* The listener structs: a slot per event, with the types of its arguments.
Slot(name, args) == [name |-> name, args |-> args]
WmBaseListener  == << Slot("ping", << "uint" >>) >>
SurfaceListener == << Slot("configure", << "uint" >>) >>
ToplevelListenerSwapped == <<  \* mutant: two members in the wrong order
  Slot("close", <<>>), Slot("configure", << "int", "int", "array" >>),
  Slot("configure_bounds", << "int", "int" >>), Slot("wm_capabilities", << "array" >>) >>
ToplevelListener == <<
  Slot("configure", << "int", "int", "array" >>), Slot("close", <<>>),
  Slot("configure_bounds", << "int", "int" >>), Slot("wm_capabilities", << "array" >>) >>
PopupListener == <<
  Slot("configure", << "int", "int", "int", "int" >>), Slot("popup_done", <<>>),
  Slot("repositioned", << "uint" >>) >>

Listener(interface) ==
  CASE interface = "xdg_wm_base"  -> WmBaseListener
    [] interface = "xdg_surface"  -> SurfaceListener
    [] interface = "xdg_toplevel" -> ToplevelListener
    [] interface = "xdg_popup"    -> PopupListener
    [] OTHER                      -> <<>>

-------------------------------------------------------------------------------
(***************************************************************************)
(* xdg-shell.c: the tables.  A message has the place in xdg_shell_types of *)
(* the type of its first argument; "since" is the number its signature     *)
(* begins with.                                                            *)
(***************************************************************************)
Types == <<
  Nothing, Nothing, Nothing, Nothing,
  "xdg_positioner", "xdg_surface", "wl_surface", "xdg_toplevel",
  "xdg_popup", "xdg_surface", "xdg_positioner", "xdg_toplevel",
  "wl_seat", Nothing, Nothing, Nothing, "wl_seat", Nothing, "wl_seat", Nothing, Nothing,
  "wl_output", "wl_seat", Nothing, "xdg_positioner", Nothing >>

Msg(name, since, signature, types) ==
  [name |-> name, since |-> since, signature |-> signature, types |-> types]

WmBaseRequestsOffByOne == <<  \* mutant: get_xdg_surface has the place after its own
  Msg("destroy", 1, <<>>, 0), Msg("create_positioner", 1, << "n" >>, 4),
  Msg("get_xdg_surface", 1, << "n", "o" >>, 6), Msg("pong", 1, << "u" >>, 0) >>
WmBaseRequests == <<
  Msg("destroy", 1, <<>>, 0), Msg("create_positioner", 1, << "n" >>, 4),
  Msg("get_xdg_surface", 1, << "n", "o" >>, 5), Msg("pong", 1, << "u" >>, 0) >>
WmBaseEvents == << Msg("ping", 1, << "u" >>, 0) >>

PositionerRequestsNoSince == <<  \* mutant: the versions are written one message late
  Msg("destroy", 1, <<>>, 0), Msg("set_size", 1, << "i", "i" >>, 0),
  Msg("set_anchor_rect", 1, << "i", "i", "i", "i" >>, 0), Msg("set_anchor", 1, << "u" >>, 0),
  Msg("set_gravity", 1, << "u" >>, 0), Msg("set_constraint_adjustment", 3, << "u" >>, 0),
  Msg("set_offset", 3, << "i", "i" >>, 0), Msg("set_reactive", 3, <<>>, 0),
  Msg("set_parent_size", 3, << "i", "i" >>, 0), Msg("set_parent_configure", 3, << "u" >>, 0) >>
PositionerRequests == <<
  Msg("destroy", 1, <<>>, 0), Msg("set_size", 1, << "i", "i" >>, 0),
  Msg("set_anchor_rect", 1, << "i", "i", "i", "i" >>, 0), Msg("set_anchor", 1, << "u" >>, 0),
  Msg("set_gravity", 1, << "u" >>, 0), Msg("set_constraint_adjustment", 1, << "u" >>, 0),
  Msg("set_offset", 1, << "i", "i" >>, 0), Msg("set_reactive", 3, <<>>, 0),
  Msg("set_parent_size", 3, << "i", "i" >>, 0), Msg("set_parent_configure", 3, << "u" >>, 0) >>

SurfaceRequests == <<
  Msg("destroy", 1, <<>>, 0), Msg("get_toplevel", 1, << "n" >>, 7),
  Msg("get_popup", 1, << "n", "?o", "o" >>, 8),
  Msg("set_window_geometry", 1, << "i", "i", "i", "i" >>, 0),
  Msg("ack_configure", 1, << "u" >>, 0) >>
SurfaceEvents == << Msg("configure", 1, << "u" >>, 0) >>

ToplevelRequests == <<
  Msg("destroy", 1, <<>>, 0), Msg("set_parent", 1, << "?o" >>, 11),
  Msg("set_title", 1, << "s" >>, 0), Msg("set_app_id", 1, << "s" >>, 0),
  Msg("show_window_menu", 1, << "o", "u", "i", "i" >>, 12), Msg("move", 1, << "o", "u" >>, 16),
  Msg("resize", 1, << "o", "u", "u" >>, 18), Msg("set_max_size", 1, << "i", "i" >>, 0),
  Msg("set_min_size", 1, << "i", "i" >>, 0), Msg("set_maximized", 1, <<>>, 0),
  Msg("unset_maximized", 1, <<>>, 0), Msg("set_fullscreen", 1, << "?o" >>, 21),
  Msg("unset_fullscreen", 1, <<>>, 0), Msg("set_minimized", 1, <<>>, 0) >>
ToplevelEvents == <<
  Msg("configure", 1, << "i", "i", "a" >>, 0), Msg("close", 1, <<>>, 0),
  Msg("configure_bounds", 4, << "i", "i" >>, 0), Msg("wm_capabilities", 5, << "a" >>, 0) >>

PopupRequests == <<
  Msg("destroy", 1, <<>>, 0), Msg("grab", 1, << "o", "u" >>, 22),
  Msg("reposition", 3, << "o", "u" >>, 24) >>
PopupEvents == <<
  Msg("configure", 1, << "i", "i", "i", "i" >>, 0), Msg("popup_done", 1, <<>>, 0),
  Msg("repositioned", 3, << "u" >>, 0) >>

Requests(interface) ==
  CASE interface = "xdg_wm_base"    -> WmBaseRequests
    [] interface = "xdg_positioner" -> PositionerRequests
    [] interface = "xdg_surface"    -> SurfaceRequests
    [] interface = "xdg_toplevel"   -> ToplevelRequests
    [] interface = "xdg_popup"      -> PopupRequests
    [] OTHER                        -> <<>>

Events(interface) ==
  CASE interface = "xdg_wm_base"  -> WmBaseEvents
    [] interface = "xdg_surface"  -> SurfaceEvents
    [] interface = "xdg_toplevel" -> ToplevelEvents
    [] interface = "xdg_popup"    -> PopupEvents
    [] OTHER                      -> <<>>

-------------------------------------------------------------------------------
(***************************************************************************)
(* libwayland's reading of a table, external.                              *)
(***************************************************************************)

\* The type of the k-th argument of a message.
TypeAt(msg, k) == Types[msg.types + k]

\* A C value of type t can stand where the message has its k-th argument.
FitsAt(msg, k, t) ==
  CASE msg.signature[k] = "i" -> t = "int"
    [] msg.signature[k] = "u" -> t = "uint"
    [] msg.signature[k] = "s" -> t = "string"
    [] msg.signature[k] = "a" -> t = "array"
    [] msg.signature[k] = "n" -> t = "new"
    [] msg.signature[k] \in {"o", "?o"} -> t = TypeAt(msg, k)

Fits(msg, args) ==
  /\ Len(args) = Len(msg.signature)
  /\ \A k \in DOMAIN args : FitsAt(msg, k, args[k])

\* The interface of the object a message creates.
Made(msg) ==
  IF \E k \in DOMAIN msg.signature : msg.signature[k] = "n"
  THEN TypeAt(msg, CHOOSE k \in DOMAIN msg.signature : msg.signature[k] = "n")
  ELSE Nothing

================================================================================
