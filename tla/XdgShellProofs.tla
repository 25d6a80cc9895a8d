----------------------------- MODULE XdgShellProofs -----------------------------
(***************************************************************************)
(* Theorems about XdgShell, for every version the application may bind,    *)
(* whatever other objects it has, and any number of objects and messages.  *)
(* The first part compares the header's functions and listener structs     *)
(* with the tables of xdg-shell.c, one message after the other.            *)
(***************************************************************************)
EXTENDS XdgShell, SequenceTheorems, TLAPS

\* Function f of interface i puts on the wire what the table of xdg-shell.c
\* reads at its opcode.
Matches(i, f) ==
  LET r == Requests(i)[f.opcode + 1]
  IN  /\ f.opcode \in Nat /\ f.opcode < Len(Requests(i))
      /\ r.name = f.name
      /\ Fits(r, f.args)
      /\ Made(r) = f.makes
      /\ r.since = Since(i, f.name)
      /\ f.destroys <=> r.name = "destroy"
      /\ f.makes # Nothing => /\ f.makes \in Interfaces
                              /\ 1 \in DOMAIN f.args /\ f.args[1] = "new"
      /\ \A k \in DOMAIN f.args :
           r.signature[k] \in {"o", "?o"} => f.args[k] \notin {"new", "int", "uint", "string"}

LEMMA Joins ==
  ASSUME NEW a, NEW b, NEW c
  PROVE  /\ << a >> \o <<>> = << a >>
         /\ << a >> \o << b >> = << a, b >>
         /\ << a >> \o << b, c >> = << a, b, c >>
<1> DEFINE S == {a, b, c}
<1>1. << a >> \in Seq(S) /\ << b >> \in Seq(S) /\ << b, c >> \in Seq(S)
      /\ << a, b >> \in Seq(S) /\ << a, b, c >> \in Seq(S)
  OBVIOUS
<1>2. << a >> \o <<>> = << a >>
  BY <1>1, ConcatEmptySeq
<1>3. << a >> \o << b >> = << a, b >>
  <2> DEFINE s == << a >> \o << b >>
  <2>1. s \in Seq(S) /\ Len(s) = 2 /\ s[1] = a /\ s[2] = b
    BY <1>1, ConcatProperties
  <2>2. << a, b >> \in Seq(S) /\ Len(<< a, b >>) = 2
        /\ << a, b >>[1] = a /\ << a, b >>[2] = b
    BY <1>1
  <2>3. \A i \in 1 .. 2 : i = 1 \/ i = 2
    OBVIOUS
  <2> HIDE DEF s, S
  <2> QED
    BY <2>1, <2>2, <2>3, SeqEqual DEF s
<1>4. << a >> \o << b, c >> = << a, b, c >>
  <2> DEFINE s == << a >> \o << b, c >>
  <2>1. s \in Seq(S) /\ Len(s) = 3 /\ s[1] = a /\ s[2] = b /\ s[3] = c
    BY <1>1, ConcatProperties
  <2>2. << a, b, c >> \in Seq(S) /\ Len(<< a, b, c >>) = 3
        /\ << a, b, c >>[1] = a /\ << a, b, c >>[2] = b /\ << a, b, c >>[3] = c
    BY <1>1
  <2>3. \A i \in 1 .. 3 : i = 1 \/ i = 2 \/ i = 3
    OBVIOUS
  <2> HIDE DEF s, S
  <2> QED
    BY <2>1, <2>2, <2>3, SeqEqual DEF s
<1> QED
  BY <1>2, <1>3, <1>4

LEMMA MadeNothing ==
  ASSUME NEW r, \A k \in DOMAIN r.signature : r.signature[k] # "n"
  PROVE  Made(r) = Nothing
  BY DEF Made

LEMMA MadeFirst ==
  ASSUME NEW r, 1 \in DOMAIN r.signature, r.signature[1] = "n",
         \A k \in DOMAIN r.signature : r.signature[k] = "n" => k = 1
  PROVE  Made(r) = TypeAt(r, 1)
<1>1. (CHOOSE k \in DOMAIN r.signature : r.signature[k] = "n") = 1
  OBVIOUS
<1> QED
  BY <1>1 DEF Made

\* Arguments fit when each of them does.
LEMMA FitsNone ==
  ASSUME NEW r, r.signature = <<>>
  PROVE  Fits(r, <<>>)
  BY DEF Fits

LEMMA FitsOne ==
  ASSUME NEW r, Len(r.signature) = 1, NEW t1, FitsAt(r, 1, t1)
  PROVE  Fits(r, << t1 >>)
  BY DEF Fits

LEMMA FitsTwo ==
  ASSUME NEW r, Len(r.signature) = 2,
         NEW t1, FitsAt(r, 1, t1), NEW t2, FitsAt(r, 2, t2)
  PROVE  Fits(r, << t1, t2 >>)
  BY DEF Fits

LEMMA FitsThree ==
  ASSUME NEW r, Len(r.signature) = 3,
         NEW t1, FitsAt(r, 1, t1), NEW t2, FitsAt(r, 2, t2), NEW t3, FitsAt(r, 3, t3)
  PROVE  Fits(r, << t1, t2, t3 >>)
  BY DEF Fits

LEMMA FitsFour ==
  ASSUME NEW r, Len(r.signature) = 4,
         NEW t1, FitsAt(r, 1, t1), NEW t2, FitsAt(r, 2, t2),
         NEW t3, FitsAt(r, 3, t3), NEW t4, FitsAt(r, 4, t4)
  PROVE  Fits(r, << t1, t2, t3, t4 >>)
  BY DEF Fits

\* The signatures without objects that occur.
LEMMA PlainFits ==
  ASSUME NEW r
  PROVE  /\ r.signature = << "u" >> => Fits(r, << "uint" >>)
         /\ r.signature = << "s" >> => Fits(r, << "string" >>)
         /\ r.signature = << "a" >> => Fits(r, << "array" >>)
         /\ r.signature = <<>> => Fits(r, <<>>)
         /\ r.signature = << "i", "i" >> => Fits(r, << "int", "int" >>)
         /\ r.signature = << "i", "i", "a" >> => Fits(r, << "int", "int", "array" >>)
         /\ r.signature = << "i", "i", "i", "i" >> => Fits(r, << "int", "int", "int", "int" >>)
<1>1. ASSUME r.signature = << "u" >> PROVE Fits(r, << "uint" >>)
  <2>1. FitsAt(r, 1, "uint") /\ Len(r.signature) = 1
    BY <1>1 DEF FitsAt
  <2> QED
    BY <2>1, FitsOne
<1>2. ASSUME r.signature = << "s" >> PROVE Fits(r, << "string" >>)
  <2>1. FitsAt(r, 1, "string") /\ Len(r.signature) = 1
    BY <1>2 DEF FitsAt
  <2> QED
    BY <2>1, FitsOne
<1>3. ASSUME r.signature = << "a" >> PROVE Fits(r, << "array" >>)
  <2>1. FitsAt(r, 1, "array") /\ Len(r.signature) = 1
    BY <1>3 DEF FitsAt
  <2> QED
    BY <2>1, FitsOne
<1>4. ASSUME r.signature = << "i", "i" >> PROVE Fits(r, << "int", "int" >>)
  <2>1. FitsAt(r, 1, "int") /\ FitsAt(r, 2, "int") /\ Len(r.signature) = 2
    BY <1>4 DEF FitsAt
  <2> QED
    BY <2>1, FitsTwo
<1>5. ASSUME r.signature = << "i", "i", "a" >> PROVE Fits(r, << "int", "int", "array" >>)
  <2>1. FitsAt(r, 1, "int") /\ FitsAt(r, 2, "int") /\ FitsAt(r, 3, "array")
        /\ Len(r.signature) = 3
    BY <1>5 DEF FitsAt
  <2> QED
    BY <2>1, FitsThree
<1>6. ASSUME r.signature = << "i", "i", "i", "i" >>
      PROVE  Fits(r, << "int", "int", "int", "int" >>)
  <2>1. FitsAt(r, 1, "int") /\ FitsAt(r, 2, "int") /\ FitsAt(r, 3, "int")
        /\ FitsAt(r, 4, "int") /\ Len(r.signature) = 4
    BY <1>6 DEF FitsAt
  <2> QED
    BY <2>1, FitsFour
<1> QED
  BY <1>1, <1>2, <1>3, <1>4, <1>5, <1>6, FitsNone

\* A function without objects and its row of the table.
LEMMA PlainMatches ==
  ASSUME NEW i, NEW op \in Nat, NEW name, NEW args,
         op < Len(Requests(i)),
         NEW sig, Requests(i)[op + 1] = Msg(name, Since(i, name), sig, 0),
         << sig, args >> \in { << <<>>, <<>> >>, << << "u" >>, << "uint" >> >>,
                               << << "s" >>, << "string" >> >>,
                               << << "i", "i" >>, << "int", "int" >> >>,
                               << << "i", "i", "i", "i" >>, << "int", "int", "int", "int" >> >> }
  PROVE  /\ name # "destroy" => Matches(i, Fn(op, name, args))
         /\ name = "destroy" /\ sig = <<>> => Matches(i, Destructor(op))
<1> DEFINE r == Requests(i)[op + 1]
<1>1. r.name = name /\ r.since = Since(i, name) /\ r.signature = sig
  BY DEF Msg
<1> HIDE DEF r
<1>2. Fits(r, args)
  BY <1>1, PlainFits
<1>3. Len(sig) \in Nat /\ DOMAIN sig = 1 .. Len(sig) /\ DOMAIN args = 1 .. Len(sig)
      /\ \A k \in 1 .. Len(sig) : sig[k] \in {"u", "s", "i"}
  OBVIOUS
<1>4. Made(r) = Nothing
  BY <1>1, <1>3, MadeNothing
<1>5. ASSUME name # "destroy" PROVE Matches(i, Fn(op, name, args))
  <2> DEFINE f == Fn(op, name, args)
  <2>1. f.opcode = op /\ f.name = name /\ f.args = args /\ f.makes = Nothing
        /\ f.destroys = FALSE
    BY DEF Fn
  <2> HIDE DEF f
  <2>2. r = Requests(i)[f.opcode + 1]
    BY <2>1 DEF r
  <2> QED
    BY <1>1, <1>2, <1>3, <1>4, <1>5, <2>1, <2>2 DEF Matches, f
<1>6. ASSUME name = "destroy", sig = <<>> PROVE Matches(i, Destructor(op))
  <2> DEFINE f == Destructor(op)
  <2>1. f.opcode = op /\ f.name = name /\ f.args = <<>> /\ f.makes = Nothing
        /\ f.destroys = TRUE
    BY <1>6 DEF Destructor
  <2> HIDE DEF f
  <2>2. r = Requests(i)[f.opcode + 1] /\ Fits(r, <<>>)
    BY <1>1, <1>6, <2>1, FitsNone DEF r
  <2> QED
    BY <1>1, <1>4, <1>6, <2>1, <2>2 DEF Matches, f
<1> QED
  BY <1>5, <1>6

LEMMA PositionerMatches == \A f \in Functions("xdg_positioner") : Matches("xdg_positioner", f)
<1> DEFINE i == "xdg_positioner"
<1>1. Matches(i, Destructor(0))
  <2>1. 0 < Len(Requests(i)) /\ Requests(i)[0 + 1] = Msg("destroy", Since(i, "destroy"), <<>>, 0)
    BY DEF Requests, PositionerRequests, Since, PositionerSince
  <2> QED
    BY <2>1, PlainMatches
<1>2. Matches(i, Fn(1, "set_size", << "int", "int" >>))
  <2>1. 1 < Len(Requests(i)) /\ Requests(i)[1 + 1] = Msg("set_size", Since(i, "set_size"), << "i", "i" >>, 0)
    BY DEF Requests, PositionerRequests, Since, PositionerSince
  <2> QED
    BY <2>1, PlainMatches
<1>3. Matches(i, Fn(2, "set_anchor_rect", << "int", "int", "int", "int" >>))
  <2>1. 2 < Len(Requests(i)) /\ Requests(i)[2 + 1] = Msg("set_anchor_rect", Since(i, "set_anchor_rect"), << "i", "i", "i", "i" >>, 0)
    BY DEF Requests, PositionerRequests, Since, PositionerSince
  <2> QED
    BY <2>1, PlainMatches
<1>4. Matches(i, Fn(3, "set_anchor", << "uint" >>))
  <2>1. 3 < Len(Requests(i)) /\ Requests(i)[3 + 1] = Msg("set_anchor", Since(i, "set_anchor"), << "u" >>, 0)
    BY DEF Requests, PositionerRequests, Since, PositionerSince
  <2> QED
    BY <2>1, PlainMatches
<1>5. Matches(i, Fn(4, "set_gravity", << "uint" >>))
  <2>1. 4 < Len(Requests(i)) /\ Requests(i)[4 + 1] = Msg("set_gravity", Since(i, "set_gravity"), << "u" >>, 0)
    BY DEF Requests, PositionerRequests, Since, PositionerSince
  <2> QED
    BY <2>1, PlainMatches
<1>6. Matches(i, Fn(5, "set_constraint_adjustment", << "uint" >>))
  <2>1. 5 < Len(Requests(i)) /\ Requests(i)[5 + 1] = Msg("set_constraint_adjustment", Since(i, "set_constraint_adjustment"), << "u" >>, 0)
    BY DEF Requests, PositionerRequests, Since, PositionerSince
  <2> QED
    BY <2>1, PlainMatches
<1>7. Matches(i, Fn(6, "set_offset", << "int", "int" >>))
  <2>1. 6 < Len(Requests(i)) /\ Requests(i)[6 + 1] = Msg("set_offset", Since(i, "set_offset"), << "i", "i" >>, 0)
    BY DEF Requests, PositionerRequests, Since, PositionerSince
  <2> QED
    BY <2>1, PlainMatches
<1>8. Matches(i, Fn(7, "set_reactive", <<>>))
  <2>1. 7 < Len(Requests(i)) /\ Requests(i)[7 + 1] = Msg("set_reactive", Since(i, "set_reactive"), <<>>, 0)
    BY DEF Requests, PositionerRequests, Since, PositionerSince
  <2> QED
    BY <2>1, PlainMatches
<1>9. Matches(i, Fn(8, "set_parent_size", << "int", "int" >>))
  <2>1. 8 < Len(Requests(i)) /\ Requests(i)[8 + 1] = Msg("set_parent_size", Since(i, "set_parent_size"), << "i", "i" >>, 0)
    BY DEF Requests, PositionerRequests, Since, PositionerSince
  <2> QED
    BY <2>1, PlainMatches
<1>10. Matches(i, Fn(9, "set_parent_configure", << "uint" >>))
  <2>1. 9 < Len(Requests(i)) /\ Requests(i)[9 + 1] = Msg("set_parent_configure", Since(i, "set_parent_configure"), << "u" >>, 0)
    BY DEF Requests, PositionerRequests, Since, PositionerSince
  <2> QED
    BY <2>1, PlainMatches
<1> QED
  BY <1>1, <1>2, <1>3, <1>4, <1>5, <1>6, <1>7, <1>8, <1>9, <1>10 DEF Functions, PositionerPlacement, PositionerReaction

\* A function with objects among its arguments and its row of the table.
LEMMA ObjectMatches ==
  ASSUME NEW i, NEW op \in Nat, NEW name, NEW args, NEW r, r = Requests(i)[op + 1],
         op < Len(Requests(i)), r.name = name, name # "destroy", r.since = Since(i, name),
         Fits(r, args),
         \A k \in DOMAIN r.signature : r.signature[k] # "n",
         \A k \in DOMAIN args :
           r.signature[k] \in {"o", "?o"} => args[k] \notin {"new", "int", "uint", "string"}
  PROVE  Matches(i, Fn(op, name, args))
<1>1. Made(r) = Nothing
  BY MadeNothing
<1> DEFINE f == Fn(op, name, args)
<1>2. f.opcode = op /\ f.name = name /\ f.args = args /\ f.makes = Nothing
      /\ f.destroys = FALSE
  BY DEF Fn
<1> HIDE DEF f
<1> QED
  BY <1>1, <1>2 DEF Matches, f

\* A function that makes an object and its row of the table.
LEMMA MakerMatches ==
  ASSUME NEW i, NEW op \in Nat, NEW name, NEW args, NEW made \in Interfaces, NEW r,
         NEW all, << "new" >> \o args = all,
         r = Requests(i)[op + 1], op < Len(Requests(i)),
         r.name = name, name # "destroy", r.since = Since(i, name),
         Fits(r, all), 1 \in DOMAIN all, all[1] = "new",
         1 \in DOMAIN r.signature, r.signature[1] = "n", TypeAt(r, 1) = made,
         \A k \in DOMAIN r.signature : r.signature[k] = "n" => k = 1,
         \A k \in DOMAIN all :
           r.signature[k] \in {"o", "?o"} => all[k] \notin {"new", "int", "uint", "string"}
  PROVE  Matches(i, Maker(op, name, made, args))
<1>1. Made(r) = made
  BY MadeFirst
<1> DEFINE f == Maker(op, name, made, args)
<1>2. f.opcode = op /\ f.name = name /\ f.args = all /\ f.makes = made
      /\ f.destroys = FALSE
  BY DEF Maker
<1> HIDE DEF f
<1> QED
  BY <1>1, <1>2 DEF Matches, f

LEMMA WmBaseMatches == \A f \in Functions("xdg_wm_base") : Matches("xdg_wm_base", f)
<1> DEFINE i == "xdg_wm_base"
<1>1. Matches(i, Destructor(0))
  <2>1. /\ 0 < Len(Requests(i))
        /\ Requests(i)[0 + 1] = Msg("destroy", Since(i, "destroy"), <<>>, 0)
    BY DEF Requests, WmBaseRequests, Since
  <2> QED
    BY <2>1, PlainMatches
<1>2. Matches(i, Maker(1, "create_positioner", "xdg_positioner", <<>>))
  <2> DEFINE r == Requests(i)[1 + 1]
  <2>1. 1 < Len(Requests(i)) /\ r = Msg("create_positioner", Since(i, "create_positioner"), << "n" >>, 4)
    BY DEF Requests, WmBaseRequests, Since
  <2> HIDE DEF r
  <2>2. /\ r.name = "create_positioner" /\ r.since = Since(i, "create_positioner")
        /\ r.signature = << "n" >> /\ r.types = 4
    BY <2>1 DEF Msg
  <2>3. FitsAt(r, 1, "new")
    BY <2>2 DEF FitsAt, TypeAt, Types
  <2>4. Fits(r, << "new" >>)
    BY <2>2, <2>3, FitsOne
  <2>5. TypeAt(r, 1) = "xdg_positioner" /\ "xdg_positioner" \in Interfaces
    BY <2>2 DEF TypeAt, Types, Interfaces
  <2>6. << "new" >> \o <<>> = << "new" >>
    BY Joins
  <2> DEFINE all == << "new" >>
  <2>7. /\ 1 \in DOMAIN all /\ all[1] = "new"
        /\ 1 \in DOMAIN r.signature /\ r.signature[1] = "n"
        /\ \A k \in DOMAIN r.signature : r.signature[k] = "n" => k = 1
        /\ \A k \in DOMAIN all :
             r.signature[k] \in {"o", "?o"} => all[k] \notin {"new", "int", "uint", "string"}
    BY <2>2
  <2> HIDE DEF all
  <2>8. Fits(r, all) /\ << "new" >> \o <<>> = all
    BY <2>4, <2>6 DEF all
  <2> QED
    BY <2>1, <2>2, <2>5, <2>7, <2>8, MakerMatches DEF r
<1>3. Matches(i, Maker(2, "get_xdg_surface", "xdg_surface", << "wl_surface" >>))
  <2> DEFINE r == Requests(i)[2 + 1]
  <2>1. 2 < Len(Requests(i)) /\ r = Msg("get_xdg_surface", Since(i, "get_xdg_surface"), << "n", "o" >>, 5)
    BY DEF Requests, WmBaseRequests, Since
  <2> HIDE DEF r
  <2>2. /\ r.name = "get_xdg_surface" /\ r.since = Since(i, "get_xdg_surface")
        /\ r.signature = << "n", "o" >> /\ r.types = 5
    BY <2>1 DEF Msg
  <2>3. FitsAt(r, 1, "new") /\ FitsAt(r, 2, "wl_surface")
    BY <2>2 DEF FitsAt, TypeAt, Types
  <2>4. Fits(r, << "new", "wl_surface" >>)
    BY <2>2, <2>3, FitsTwo
  <2>5. TypeAt(r, 1) = "xdg_surface" /\ "xdg_surface" \in Interfaces
    BY <2>2 DEF TypeAt, Types, Interfaces
  <2>6. << "new" >> \o << "wl_surface" >> = << "new", "wl_surface" >>
    BY Joins
  <2> DEFINE all == << "new", "wl_surface" >>
  <2>7. /\ 1 \in DOMAIN all /\ all[1] = "new"
        /\ 1 \in DOMAIN r.signature /\ r.signature[1] = "n"
        /\ \A k \in DOMAIN r.signature : r.signature[k] = "n" => k = 1
        /\ \A k \in DOMAIN all :
             r.signature[k] \in {"o", "?o"} => all[k] \notin {"new", "int", "uint", "string"}
    BY <2>2
  <2> HIDE DEF all
  <2>8. Fits(r, all) /\ << "new" >> \o << "wl_surface" >> = all
    BY <2>4, <2>6 DEF all
  <2> QED
    BY <2>1, <2>2, <2>5, <2>7, <2>8, MakerMatches DEF r
<1>4. Matches(i, Fn(3, "pong", << "uint" >>))
  <2>1. /\ 3 < Len(Requests(i))
        /\ Requests(i)[3 + 1] = Msg("pong", Since(i, "pong"), << "u" >>, 0)
    BY DEF Requests, WmBaseRequests, Since
  <2> QED
    BY <2>1, PlainMatches
<1> QED
  BY <1>1, <1>2, <1>3, <1>4 DEF Functions, WmBaseFunctions

LEMMA SurfaceMatches == \A f \in Functions("xdg_surface") : Matches("xdg_surface", f)
<1> DEFINE i == "xdg_surface"
<1>1. Matches(i, Destructor(0))
  <2>1. /\ 0 < Len(Requests(i))
        /\ Requests(i)[0 + 1] = Msg("destroy", Since(i, "destroy"), <<>>, 0)
    BY DEF Requests, SurfaceRequests, Since
  <2> QED
    BY <2>1, PlainMatches
<1>2. Matches(i, Maker(1, "get_toplevel", "xdg_toplevel", <<>>))
  <2> DEFINE r == Requests(i)[1 + 1]
  <2>1. 1 < Len(Requests(i)) /\ r = Msg("get_toplevel", Since(i, "get_toplevel"), << "n" >>, 7)
    BY DEF Requests, SurfaceRequests, Since
  <2> HIDE DEF r
  <2>2. /\ r.name = "get_toplevel" /\ r.since = Since(i, "get_toplevel")
        /\ r.signature = << "n" >> /\ r.types = 7
    BY <2>1 DEF Msg
  <2>3. FitsAt(r, 1, "new")
    BY <2>2 DEF FitsAt, TypeAt, Types
  <2>4. Fits(r, << "new" >>)
    BY <2>2, <2>3, FitsOne
  <2>5. TypeAt(r, 1) = "xdg_toplevel" /\ "xdg_toplevel" \in Interfaces
    BY <2>2 DEF TypeAt, Types, Interfaces
  <2>6. << "new" >> \o <<>> = << "new" >>
    BY Joins
  <2> DEFINE all == << "new" >>
  <2>7. /\ 1 \in DOMAIN all /\ all[1] = "new"
        /\ 1 \in DOMAIN r.signature /\ r.signature[1] = "n"
        /\ \A k \in DOMAIN r.signature : r.signature[k] = "n" => k = 1
        /\ \A k \in DOMAIN all :
             r.signature[k] \in {"o", "?o"} => all[k] \notin {"new", "int", "uint", "string"}
    BY <2>2
  <2> HIDE DEF all
  <2>8. Fits(r, all) /\ << "new" >> \o <<>> = all
    BY <2>4, <2>6 DEF all
  <2> QED
    BY <2>1, <2>2, <2>5, <2>7, <2>8, MakerMatches DEF r
<1>3. Matches(i, Maker(2, "get_popup", "xdg_popup", << "xdg_surface", "xdg_positioner" >>))
  <2> DEFINE r == Requests(i)[2 + 1]
  <2>1. 2 < Len(Requests(i)) /\ r = Msg("get_popup", Since(i, "get_popup"), << "n", "?o", "o" >>, 8)
    BY DEF Requests, SurfaceRequests, Since
  <2> HIDE DEF r
  <2>2. /\ r.name = "get_popup" /\ r.since = Since(i, "get_popup")
        /\ r.signature = << "n", "?o", "o" >> /\ r.types = 8
    BY <2>1 DEF Msg
  <2>3. FitsAt(r, 1, "new") /\ FitsAt(r, 2, "xdg_surface") /\ FitsAt(r, 3, "xdg_positioner")
    BY <2>2 DEF FitsAt, TypeAt, Types
  <2>4. Fits(r, << "new", "xdg_surface", "xdg_positioner" >>)
    BY <2>2, <2>3, FitsThree
  <2>5. TypeAt(r, 1) = "xdg_popup" /\ "xdg_popup" \in Interfaces
    BY <2>2 DEF TypeAt, Types, Interfaces
  <2>6. << "new" >> \o << "xdg_surface", "xdg_positioner" >> = << "new", "xdg_surface", "xdg_positioner" >>
    BY Joins
  <2> DEFINE all == << "new", "xdg_surface", "xdg_positioner" >>
  <2>7. /\ 1 \in DOMAIN all /\ all[1] = "new"
        /\ 1 \in DOMAIN r.signature /\ r.signature[1] = "n"
        /\ \A k \in DOMAIN r.signature : r.signature[k] = "n" => k = 1
        /\ \A k \in DOMAIN all :
             r.signature[k] \in {"o", "?o"} => all[k] \notin {"new", "int", "uint", "string"}
    BY <2>2
  <2> HIDE DEF all
  <2>8. Fits(r, all) /\ << "new" >> \o << "xdg_surface", "xdg_positioner" >> = all
    BY <2>4, <2>6 DEF all
  <2> QED
    BY <2>1, <2>2, <2>5, <2>7, <2>8, MakerMatches DEF r
<1>4. Matches(i, Fn(3, "set_window_geometry", << "int", "int", "int", "int" >>))
  <2>1. /\ 3 < Len(Requests(i))
        /\ Requests(i)[3 + 1] = Msg("set_window_geometry", Since(i, "set_window_geometry"), << "i", "i", "i", "i" >>, 0)
    BY DEF Requests, SurfaceRequests, Since
  <2> QED
    BY <2>1, PlainMatches
<1>5. Matches(i, Fn(4, "ack_configure", << "uint" >>))
  <2>1. /\ 4 < Len(Requests(i))
        /\ Requests(i)[4 + 1] = Msg("ack_configure", Since(i, "ack_configure"), << "u" >>, 0)
    BY DEF Requests, SurfaceRequests, Since
  <2> QED
    BY <2>1, PlainMatches
<1> QED
  BY <1>1, <1>2, <1>3, <1>4, <1>5 DEF Functions, SurfaceFunctions

LEMMA ToplevelMatches == \A f \in Functions("xdg_toplevel") : Matches("xdg_toplevel", f)
<1> DEFINE i == "xdg_toplevel"
<1>1. Matches(i, Destructor(0))
  <2>1. /\ 0 < Len(Requests(i))
        /\ Requests(i)[0 + 1] = Msg("destroy", Since(i, "destroy"), <<>>, 0)
    BY DEF Requests, ToplevelRequests, Since
  <2> QED
    BY <2>1, PlainMatches
<1>2. Matches(i, Fn(1, "set_parent", << "xdg_toplevel" >>))
  <2> DEFINE r == Requests(i)[1 + 1]
  <2>1. 1 < Len(Requests(i)) /\ r = Msg("set_parent", Since(i, "set_parent"), << "?o" >>, 11)
    BY DEF Requests, ToplevelRequests, Since
  <2> HIDE DEF r
  <2>2. /\ r.name = "set_parent" /\ r.since = Since(i, "set_parent")
        /\ r.signature = << "?o" >> /\ r.types = 11
    BY <2>1 DEF Msg
  <2>3. FitsAt(r, 1, "xdg_toplevel")
    BY <2>2 DEF FitsAt, TypeAt, Types
  <2>4. Fits(r, << "xdg_toplevel" >>)
    BY <2>2, <2>3, FitsOne
  <2>5. /\ \A k \in DOMAIN r.signature : r.signature[k] # "n"
        /\ \A k \in DOMAIN << "xdg_toplevel" >> : r.signature[k] \in {"o", "?o"} =>
             << "xdg_toplevel" >>[k] \notin {"new", "int", "uint", "string"}
    BY <2>2
  <2> QED
    BY <2>1, <2>2, <2>4, <2>5, ObjectMatches DEF r
<1>3. Matches(i, Fn(2, "set_title", << "string" >>))
  <2>1. /\ 2 < Len(Requests(i))
        /\ Requests(i)[2 + 1] = Msg("set_title", Since(i, "set_title"), << "s" >>, 0)
    BY DEF Requests, ToplevelRequests, Since
  <2> QED
    BY <2>1, PlainMatches
<1>4. Matches(i, Fn(3, "set_app_id", << "string" >>))
  <2>1. /\ 3 < Len(Requests(i))
        /\ Requests(i)[3 + 1] = Msg("set_app_id", Since(i, "set_app_id"), << "s" >>, 0)
    BY DEF Requests, ToplevelRequests, Since
  <2> QED
    BY <2>1, PlainMatches
<1>5. Matches(i, Fn(4, "show_window_menu", << "wl_seat", "uint", "int", "int" >>))
  <2> DEFINE r == Requests(i)[4 + 1]
  <2>1. 4 < Len(Requests(i)) /\ r = Msg("show_window_menu", Since(i, "show_window_menu"), << "o", "u", "i", "i" >>, 12)
    BY DEF Requests, ToplevelRequests, Since
  <2> HIDE DEF r
  <2>2. /\ r.name = "show_window_menu" /\ r.since = Since(i, "show_window_menu")
        /\ r.signature = << "o", "u", "i", "i" >> /\ r.types = 12
    BY <2>1 DEF Msg
  <2>3. FitsAt(r, 1, "wl_seat") /\ FitsAt(r, 2, "uint") /\ FitsAt(r, 3, "int") /\ FitsAt(r, 4, "int")
    BY <2>2 DEF FitsAt, TypeAt, Types
  <2>4. Fits(r, << "wl_seat", "uint", "int", "int" >>)
    BY <2>2, <2>3, FitsFour
  <2>5. /\ \A k \in DOMAIN r.signature : r.signature[k] # "n"
        /\ \A k \in DOMAIN << "wl_seat", "uint", "int", "int" >> : r.signature[k] \in {"o", "?o"} =>
             << "wl_seat", "uint", "int", "int" >>[k] \notin {"new", "int", "uint", "string"}
    BY <2>2
  <2> QED
    BY <2>1, <2>2, <2>4, <2>5, ObjectMatches DEF r
<1>6. Matches(i, Fn(5, "move", << "wl_seat", "uint" >>))
  <2> DEFINE r == Requests(i)[5 + 1]
  <2>1. 5 < Len(Requests(i)) /\ r = Msg("move", Since(i, "move"), << "o", "u" >>, 16)
    BY DEF Requests, ToplevelRequests, Since
  <2> HIDE DEF r
  <2>2. /\ r.name = "move" /\ r.since = Since(i, "move")
        /\ r.signature = << "o", "u" >> /\ r.types = 16
    BY <2>1 DEF Msg
  <2>3. FitsAt(r, 1, "wl_seat") /\ FitsAt(r, 2, "uint")
    BY <2>2 DEF FitsAt, TypeAt, Types
  <2>4. Fits(r, << "wl_seat", "uint" >>)
    BY <2>2, <2>3, FitsTwo
  <2>5. /\ \A k \in DOMAIN r.signature : r.signature[k] # "n"
        /\ \A k \in DOMAIN << "wl_seat", "uint" >> : r.signature[k] \in {"o", "?o"} =>
             << "wl_seat", "uint" >>[k] \notin {"new", "int", "uint", "string"}
    BY <2>2
  <2> QED
    BY <2>1, <2>2, <2>4, <2>5, ObjectMatches DEF r
<1>7. Matches(i, Fn(6, "resize", << "wl_seat", "uint", "uint" >>))
  <2> DEFINE r == Requests(i)[6 + 1]
  <2>1. 6 < Len(Requests(i)) /\ r = Msg("resize", Since(i, "resize"), << "o", "u", "u" >>, 18)
    BY DEF Requests, ToplevelRequests, Since
  <2> HIDE DEF r
  <2>2. /\ r.name = "resize" /\ r.since = Since(i, "resize")
        /\ r.signature = << "o", "u", "u" >> /\ r.types = 18
    BY <2>1 DEF Msg
  <2>3. FitsAt(r, 1, "wl_seat") /\ FitsAt(r, 2, "uint") /\ FitsAt(r, 3, "uint")
    BY <2>2 DEF FitsAt, TypeAt, Types
  <2>4. Fits(r, << "wl_seat", "uint", "uint" >>)
    BY <2>2, <2>3, FitsThree
  <2>5. /\ \A k \in DOMAIN r.signature : r.signature[k] # "n"
        /\ \A k \in DOMAIN << "wl_seat", "uint", "uint" >> : r.signature[k] \in {"o", "?o"} =>
             << "wl_seat", "uint", "uint" >>[k] \notin {"new", "int", "uint", "string"}
    BY <2>2
  <2> QED
    BY <2>1, <2>2, <2>4, <2>5, ObjectMatches DEF r
<1>8. Matches(i, Fn(7, "set_max_size", << "int", "int" >>))
  <2>1. /\ 7 < Len(Requests(i))
        /\ Requests(i)[7 + 1] = Msg("set_max_size", Since(i, "set_max_size"), << "i", "i" >>, 0)
    BY DEF Requests, ToplevelRequests, Since
  <2> QED
    BY <2>1, PlainMatches
<1>9. Matches(i, Fn(8, "set_min_size", << "int", "int" >>))
  <2>1. /\ 8 < Len(Requests(i))
        /\ Requests(i)[8 + 1] = Msg("set_min_size", Since(i, "set_min_size"), << "i", "i" >>, 0)
    BY DEF Requests, ToplevelRequests, Since
  <2> QED
    BY <2>1, PlainMatches
<1>10. Matches(i, Fn(9, "set_maximized", <<>>))
  <2>1. /\ 9 < Len(Requests(i))
        /\ Requests(i)[9 + 1] = Msg("set_maximized", Since(i, "set_maximized"), <<>>, 0)
    BY DEF Requests, ToplevelRequests, Since
  <2> QED
    BY <2>1, PlainMatches
<1>11. Matches(i, Fn(10, "unset_maximized", <<>>))
  <2>1. /\ 10 < Len(Requests(i))
        /\ Requests(i)[10 + 1] = Msg("unset_maximized", Since(i, "unset_maximized"), <<>>, 0)
    BY DEF Requests, ToplevelRequests, Since
  <2> QED
    BY <2>1, PlainMatches
<1>12. Matches(i, Fn(11, "set_fullscreen", << "wl_output" >>))
  <2> DEFINE r == Requests(i)[11 + 1]
  <2>1. 11 < Len(Requests(i)) /\ r = Msg("set_fullscreen", Since(i, "set_fullscreen"), << "?o" >>, 21)
    BY DEF Requests, ToplevelRequests, Since
  <2> HIDE DEF r
  <2>2. /\ r.name = "set_fullscreen" /\ r.since = Since(i, "set_fullscreen")
        /\ r.signature = << "?o" >> /\ r.types = 21
    BY <2>1 DEF Msg
  <2>3. FitsAt(r, 1, "wl_output")
    BY <2>2 DEF FitsAt, TypeAt, Types
  <2>4. Fits(r, << "wl_output" >>)
    BY <2>2, <2>3, FitsOne
  <2>5. /\ \A k \in DOMAIN r.signature : r.signature[k] # "n"
        /\ \A k \in DOMAIN << "wl_output" >> : r.signature[k] \in {"o", "?o"} =>
             << "wl_output" >>[k] \notin {"new", "int", "uint", "string"}
    BY <2>2
  <2> QED
    BY <2>1, <2>2, <2>4, <2>5, ObjectMatches DEF r
<1>13. Matches(i, Fn(12, "unset_fullscreen", <<>>))
  <2>1. /\ 12 < Len(Requests(i))
        /\ Requests(i)[12 + 1] = Msg("unset_fullscreen", Since(i, "unset_fullscreen"), <<>>, 0)
    BY DEF Requests, ToplevelRequests, Since
  <2> QED
    BY <2>1, PlainMatches
<1>14. Matches(i, Fn(13, "set_minimized", <<>>))
  <2>1. /\ 13 < Len(Requests(i))
        /\ Requests(i)[13 + 1] = Msg("set_minimized", Since(i, "set_minimized"), <<>>, 0)
    BY DEF Requests, ToplevelRequests, Since
  <2> QED
    BY <2>1, PlainMatches
<1> QED
  BY <1>1, <1>2, <1>3, <1>4, <1>5, <1>6, <1>7, <1>8, <1>9, <1>10, <1>11, <1>12, <1>13, <1>14 DEF Functions, ToplevelIdentity, ToplevelInteractions, ToplevelSizes, ToplevelStates

LEMMA PopupMatches == \A f \in Functions("xdg_popup") : Matches("xdg_popup", f)
<1> DEFINE i == "xdg_popup"
<1>1. Matches(i, Destructor(0))
  <2>1. /\ 0 < Len(Requests(i))
        /\ Requests(i)[0 + 1] = Msg("destroy", Since(i, "destroy"), <<>>, 0)
    BY DEF Requests, PopupRequests, Since, PopupSince
  <2> QED
    BY <2>1, PlainMatches
<1>2. Matches(i, Fn(1, "grab", << "wl_seat", "uint" >>))
  <2> DEFINE r == Requests(i)[1 + 1]
  <2>1. 1 < Len(Requests(i)) /\ r = Msg("grab", Since(i, "grab"), << "o", "u" >>, 22)
    BY DEF Requests, PopupRequests, Since, PopupSince
  <2> HIDE DEF r
  <2>2. /\ r.name = "grab" /\ r.since = Since(i, "grab")
        /\ r.signature = << "o", "u" >> /\ r.types = 22
    BY <2>1 DEF Msg
  <2>3. FitsAt(r, 1, "wl_seat") /\ FitsAt(r, 2, "uint")
    BY <2>2 DEF FitsAt, TypeAt, Types
  <2>4. Fits(r, << "wl_seat", "uint" >>)
    BY <2>2, <2>3, FitsTwo
  <2>5. /\ \A k \in DOMAIN r.signature : r.signature[k] # "n"
        /\ \A k \in DOMAIN << "wl_seat", "uint" >> : r.signature[k] \in {"o", "?o"} =>
             << "wl_seat", "uint" >>[k] \notin {"new", "int", "uint", "string"}
    BY <2>2
  <2> QED
    BY <2>1, <2>2, <2>4, <2>5, ObjectMatches DEF r
<1>3. Matches(i, Fn(2, "reposition", << "xdg_positioner", "uint" >>))
  <2> DEFINE r == Requests(i)[2 + 1]
  <2>1. 2 < Len(Requests(i)) /\ r = Msg("reposition", Since(i, "reposition"), << "o", "u" >>, 24)
    BY DEF Requests, PopupRequests, Since, PopupSince
  <2> HIDE DEF r
  <2>2. /\ r.name = "reposition" /\ r.since = Since(i, "reposition")
        /\ r.signature = << "o", "u" >> /\ r.types = 24
    BY <2>1 DEF Msg
  <2>3. FitsAt(r, 1, "xdg_positioner") /\ FitsAt(r, 2, "uint")
    BY <2>2 DEF FitsAt, TypeAt, Types
  <2>4. Fits(r, << "xdg_positioner", "uint" >>)
    BY <2>2, <2>3, FitsTwo
  <2>5. /\ \A k \in DOMAIN r.signature : r.signature[k] # "n"
        /\ \A k \in DOMAIN << "xdg_positioner", "uint" >> : r.signature[k] \in {"o", "?o"} =>
             << "xdg_positioner", "uint" >>[k] \notin {"new", "int", "uint", "string"}
    BY <2>2
  <2> QED
    BY <2>1, <2>2, <2>4, <2>5, ObjectMatches DEF r
<1> QED
  BY <1>1, <1>2, <1>3 DEF Functions, PopupFunctions

LEMMA Tables ==
  ASSUME NEW i, NEW f \in Functions(i)
  PROVE  i \in Interfaces /\ Matches(i, f)
<1>1. i \in Interfaces
  BY DEF Functions, Interfaces
<1> QED
  BY <1>1, WmBaseMatches, PositionerMatches, SurfaceMatches, ToplevelMatches, PopupMatches
     DEF Interfaces

\* The slots of the listener structs are those of the events, and spaze leaves
\* no slot empty that an object of version 1 has an event for.
EventMatches(i, k) ==
  LET e == Events(i)[k]
      slot == Listener(i)[k]
  IN  /\ k \in 1 .. 4
      /\ e.name = slot.name
      /\ Fits(e, slot.args)
      /\ Handlers(i) # {} /\ Since(i, e.name) <= 1 => slot.name \in Handlers(i)

LEMMA EventTables ==
  ASSUME NEW i, NEW k \in DOMAIN Events(i)
  PROVE  i \in Interfaces /\ EventMatches(i, k)
<1>1. i \in Interfaces
  BY DEF Events, Interfaces
<1> DEFINE e == Events(i)[k]
           slot == Listener(i)[k]
<1>2. CASE i = "xdg_wm_base"
  <2>1. /\ k = 1 /\ e.name = "ping" /\ e.signature = << "u" >>
        /\ slot.name = "ping" /\ slot.args = << "uint" >>
    BY <1>2 DEF Events, WmBaseEvents, Listener, WmBaseListener, Msg, Slot
  <2> QED
    BY <1>1, <1>2, <2>1, PlainFits DEF EventMatches, Handlers
<1>3. CASE i = "xdg_surface"
  <2>1. /\ k = 1 /\ e.name = "configure" /\ e.signature = << "u" >>
        /\ slot.name = "configure" /\ slot.args = << "uint" >>
    BY <1>3 DEF Events, SurfaceEvents, Listener, SurfaceListener, Msg, Slot
  <2> QED
    BY <1>1, <1>3, <2>1, PlainFits DEF EventMatches, Handlers
<1>4. CASE i = "xdg_toplevel"
  <2>1. \/ /\ k = 1 /\ e.name = "configure" /\ e.signature = << "i", "i", "a" >>
           /\ slot.name = "configure" /\ slot.args = << "int", "int", "array" >>
        \/ /\ k = 2 /\ e.name = "close" /\ e.signature = <<>>
           /\ slot.name = "close" /\ slot.args = <<>>
        \/ /\ k = 3 /\ e.name = "configure_bounds" /\ e.signature = << "i", "i" >>
           /\ slot.name = "configure_bounds" /\ slot.args = << "int", "int" >>
        \/ /\ k = 4 /\ e.name = "wm_capabilities" /\ e.signature = << "a" >>
           /\ slot.name = "wm_capabilities" /\ slot.args = << "array" >>
    BY <1>4 DEF Events, ToplevelEvents, Listener, ToplevelListener, Msg, Slot
  <2> HIDE DEF e, slot
  <2>2. k \in 1 .. 4 /\ e.name = slot.name /\ Fits(e, slot.args)
    BY <2>1, PlainFits
  <2>3. Since(i, e.name) <= 1 => slot.name \in Handlers(i)
    BY <1>4, <2>1 DEF Since, Handlers
  <2> QED
    BY <1>1, <2>2, <2>3 DEF EventMatches, e, slot
<1>5. CASE i = "xdg_popup"
  <2>1. \/ /\ k = 1 /\ e.name = "configure" /\ e.signature = << "i", "i", "i", "i" >>
           /\ slot.name = "configure" /\ slot.args = << "int", "int", "int", "int" >>
        \/ /\ k = 2 /\ e.name = "popup_done" /\ e.signature = <<>>
           /\ slot.name = "popup_done" /\ slot.args = <<>>
        \/ /\ k = 3 /\ e.name = "repositioned" /\ e.signature = << "u" >>
           /\ slot.name = "repositioned" /\ slot.args = << "uint" >>
    BY <1>5 DEF Events, PopupEvents, Listener, PopupListener, Msg, Slot
  <2> HIDE DEF e, slot
  <2>2. k \in 1 .. 4 /\ e.name = slot.name /\ Fits(e, slot.args)
    BY <2>1, PlainFits
  <2>3. Handlers(i) = {}
    BY <1>5 DEF Handlers
  <2> QED
    BY <1>1, <2>2, <2>3 DEF EventMatches, e, slot
<1>6. i # "xdg_positioner"
  BY DEF Events
<1> QED
  BY <1>1, <1>2, <1>3, <1>4, <1>5, <1>6 DEF Interfaces

-------------------------------------------------------------------------------
(***************************************************************************)
(* The inductive invariant.  What the compositor will make of the requests *)
(* on their way is a sequence of maps of objects: the first is what it has *)
(* now, the last what the client has, and each request is read right in    *)
(* the one before it.                                                      *)
(***************************************************************************)
\* What a request does to a map of objects.
After(r, m) == [x \in Ids |->
  CASE m.fn.makes # Nothing /\ x = m.values[1] ->
         [interface |-> m.fn.makes, version |-> r[m.obj].version]
    [] m.fn.destroys /\ x = m.obj -> NoObject
    [] OTHER -> r[x]]

\* An object that stands where the function takes one is of the C type it takes.
Plain == {"new", "int", "uint", "string"}
ArgsFit(r, m) ==
  \A k \in DOMAIN m.values :
    m.fn.args[k] \notin Plain =>
      m.values[k] = 0 \/ (m.values[k] \in Ids /\ r[m.values[k]].interface = m.fn.args[k])

\* Read in r, request m is addressed to an object of its interface, names
\* objects of the types it takes, and leaves n.
Reads(r, m, n) ==
  r[m.obj].interface = m.of /\ ArgsFit(r, m) /\ n = After(r, m)

\* A request on the wire is a call of a function of an xdg-shell interface.
Sent(m) ==
  /\ m.obj \in Ids /\ m.of \in Interfaces /\ m.fn \in Functions(m.of)
  /\ DOMAIN m.values = DOMAIN m.fn.args

\* The numbers up to last have been given, and a number is one object for ever:
\* what the compositor has of it, or will have made, the client has or had.
Numbered ==
  /\ \A o \in Ids : o > last => proxies[o] = NoObject /\ resources[o] = NoObject
  /\ \A o \in Ids : resources[o] # NoObject => proxies[o] \in {resources[o], NoObject}
  /\ \A i \in 1 .. Len(wire) :
       wire[i].fn.makes # Nothing =>
         /\ wire[i].values[1] \in Ids /\ wire[i].values[1] <= last
         /\ proxies[wire[i].values[1]]
              \in {[interface |-> wire[i].fn.makes, version |-> version], NoObject}

\* Every object of xdg-shell has the version the application bound.
OneVersion ==
  \A o \in Ids :
    /\ proxies[o].interface \in Interfaces => proxies[o].version = version
    /\ resources[o].interface \in Interfaces => resources[o].version = version

\* An event on its way is one its object has in that version, unless the object
\* is gone by now.
Deliverable(e) ==
  LET i == proxies[e.obj].interface
  IN  /\ e.obj <= last
      /\ i # Nothing => /\ e.opcode + 1 \in DOMAIN Events(i)
                        /\ Since(i, Events(i)[e.opcode + 1].name) <= version

\* Maps h from a to b, each left by a request of w read in the one before it.
Path(w, a, b, h) ==
  /\ DOMAIN h = 0 .. Len(w)
  /\ h[0] = a /\ h[Len(w)] = b
  /\ \A i \in 1 .. Len(w) : Reads(h[i - 1], w[i], h[i])

\* The maps between the compositor's and the client's.
History(h) == Path(wire, resources, proxies, h)

Typed ==
  /\ version \in Nat \ {0}
  /\ proxies \in [Ids -> Object] /\ resources \in [Ids -> Object]
  /\ last \in Ids
  /\ \E S : wire \in Seq(S)
  /\ inbox \in Seq([obj : Ids, opcode : 0 .. 3])
  /\ aborted \in BOOLEAN

KnownError ==
  error.kind \in {"none", "invalid_method"} \union { c[3] : c \in Complaints }

XdgInv ==
  /\ Typed
  /\ \A i \in 1 .. Len(wire) : Sent(wire[i])
  /\ \A i \in 1 .. Len(inbox) : Deliverable(inbox[i])
  /\ Numbered /\ OneVersion
  /\ error.kind = "none" => \E h : History(h)
  /\ KnownError /\ UnreadableCause /\ HeardAsSent /\ NoNullSlot

LEMMA InitXdgInv == Init => XdgInv
<1> SUFFICES ASSUME Init PROVE XdgInv
  OBVIOUS
<1> DEFINE n == 1 + Len(Foreign)
<1>1. Len(Foreign) \in Nat /\ MaxObjects \in Nat /\ n \in Ids /\ WmBase \in Ids
      /\ WmBase <= n /\ Ids \subseteq Nat
  BY XdgShellAssumption DEF Ids, WmBase
<1>2. version \in Nat \ {0}
  BY XdgShellAssumption DEF Init, WL_VERSION
<1>3. \A o \in Ids :
        /\ o = WmBase => proxies[o] = [interface |-> "xdg_wm_base", version |-> version]
        /\ o # WmBase /\ o <= n => /\ proxies[o] = [interface |-> Foreign[o - 1], version |-> 1]
                                   /\ Foreign[o - 1] \in {"wl_surface", "wl_seat", "wl_output"}
        /\ o > n => proxies[o] = NoObject
  <2> SUFFICES ASSUME NEW o \in Ids
               PROVE  /\ o = WmBase => proxies[o] = [interface |-> "xdg_wm_base", version |-> version]
                      /\ o # WmBase /\ o <= n =>
                           /\ proxies[o] = [interface |-> Foreign[o - 1], version |-> 1]
                           /\ Foreign[o - 1] \in {"wl_surface", "wl_seat", "wl_output"}
                      /\ o > n => proxies[o] = NoObject
    OBVIOUS
  <2>1. proxies[o] = CASE o = WmBase -> [interface |-> "xdg_wm_base", version |-> version]
                       [] o \in 2 .. 1 + Len(Foreign) -> [interface |-> Foreign[o - 1], version |-> 1]
                       [] OTHER -> NoObject
    BY DEF Init
  <2>2. o # WmBase /\ o <= n => o \in 2 .. 1 + Len(Foreign) /\ o - 1 \in 1 .. Len(Foreign)
    BY <1>1 DEF Ids, WmBase
  <2>3. o = WmBase => o \notin 2 .. 1 + Len(Foreign)
    BY DEF WmBase
  <2>4. o > n => o # WmBase /\ o \notin 2 .. 1 + Len(Foreign)
    BY <1>1 DEF WmBase
  <2> QED
    BY <2>1, <2>2, <2>3, <2>4, XdgShellAssumption
<1>4. \A o \in Ids : o = WmBase \/ (o # WmBase /\ o <= n) \/ o > n
  BY <1>1
<1>5. DOMAIN proxies = Ids /\ \A o \in Ids : proxies[o] \in Object
  <2>1. DOMAIN proxies = Ids
    BY DEF Init
  <2> QED
    BY <1>2, <1>3, <1>4, <2>1 DEF Object, NoObject, Interfaces
<1>6. proxies \in [Ids -> Object]
  <2>1. proxies = [o \in Ids |-> proxies[o]]
    BY DEF Init
  <2> QED
    BY <1>5, <2>1
<1>7. /\ resources = proxies /\ last = n /\ wire = <<>> /\ inbox = <<>>
      /\ error.kind = "none" /\ aborted = FALSE /\ heard.sent = heard.slot /\ heard.fits
  BY DEF Init
<1>8. OneVersion
  <2>1. ASSUME NEW o \in Ids, proxies[o].interface \in Interfaces
        PROVE  proxies[o].version = version
    <3>1. CASE o = WmBase
      <4>1. proxies[o] = [interface |-> "xdg_wm_base", version |-> version]
        BY <1>3, <3>1
      <4> QED
        BY <4>1
    <3>2. CASE o # WmBase /\ o <= n
      <4>1. /\ proxies[o] = [interface |-> Foreign[o - 1], version |-> 1]
            /\ Foreign[o - 1] \in {"wl_surface", "wl_seat", "wl_output"}
        BY <1>3, <3>2
      <4>2. proxies[o].interface = Foreign[o - 1]
        BY <4>1
      <4>3. proxies[o].interface \notin Interfaces
        BY <4>1, <4>2 DEF Interfaces
      <4> QED
        BY <2>1, <4>3
    <3>3. CASE o > n
      <4>1. proxies[o] = NoObject
        BY <1>3, <3>3
      <4> QED
        BY <2>1, <4>1 DEF NoObject, Nothing, Interfaces
    <3> QED
      BY <1>4, <3>1, <3>2, <3>3
  <2> QED
    BY <1>7, <2>1 DEF OneVersion
<1>9. Numbered
  <2>1. 1 .. Len(wire) = {}
    BY <1>7
  <2>2. \A o \in Ids : o > last => proxies[o] = NoObject /\ resources[o] = NoObject
    BY <1>3, <1>7
  <2>3. \A o \in Ids : resources[o] # NoObject => proxies[o] \in {resources[o], NoObject}
    BY <1>7
  <2> QED
    BY <2>1, <2>2, <2>3 DEF Numbered
<1>10. \E h : History(h)
  <2> DEFINE h == [i \in 0 .. 0 |-> resources]
  <2>1. History(h)
    BY <1>7 DEF History, Path
  <2> QED
    BY <2>1
<1>11. Typed
  <2>1. wire \in Seq({}) /\ inbox \in Seq([obj : Ids, opcode : 0 .. 3])
    BY <1>7
  <2> QED
    BY <1>1, <1>2, <1>6, <1>7, <2>1 DEF Typed
<1> QED
  BY <1>7, <1>8, <1>9, <1>10, <1>11 DEF XdgInv, KnownError, UnreadableCause, HeardAsSent, NoNullSlot

\* A sequence of maps that is a History stays one when a request is sent.
LEMMA HistoryGrows ==
  ASSUME NEW S, NEW w \in Seq(S), NEW a, NEW b, NEW c, NEW m, NEW h,
         Path(w, a, b, h), Reads(b, m, c)
  PROVE  \E g : Path(Append(w, m), a, c, g)
<1> DEFINE n == Len(w)
           g == [i \in 0 .. n + 1 |-> IF i = n + 1 THEN c ELSE h[i]]
           u == Append(w, m)
<1>0. /\ DOMAIN h = 0 .. n /\ h[0] = a /\ h[n] = b
      /\ \A i \in 1 .. n : Reads(h[i - 1], w[i], h[i])
  BY DEF Path
<1>1. n \in Nat /\ Len(u) = n + 1 /\ u[n + 1] = m /\ \A i \in 1 .. n : u[i] = w[i]
  OBVIOUS
<1>2. DOMAIN g = 0 .. n + 1 /\ g[n + 1] = c /\ \A i \in 0 .. n : g[i] = h[i]
  BY <1>1
<1> HIDE DEF g, u
<1>3. ASSUME NEW i \in 1 .. n + 1 PROVE Reads(g[i - 1], u[i], g[i])
  <2>1. CASE i = n + 1
    <3>1. i - 1 = n /\ n \in 0 .. n
      BY <1>1, <2>1
    <3>2. g[i - 1] = b /\ u[i] = m /\ g[i] = c
      BY <1>0, <1>1, <1>2, <2>1, <3>1
    <3> QED
      BY <3>2
  <2>2. CASE i \in 1 .. n
    <3>1. i - 1 \in 0 .. n /\ i \in 0 .. n
      BY <1>1, <2>2
    <3>2. g[i - 1] = h[i - 1] /\ u[i] = w[i] /\ g[i] = h[i]
      BY <1>1, <1>2, <2>2, <3>1
    <3> QED
      BY <1>0, <2>2, <3>2
  <2> QED
    BY <1>1, <2>1, <2>2
<1>4. g[0] = a /\ 0 \in 0 .. n
  BY <1>0, <1>1, <1>2
<1>5. Path(u, a, c, g)
  BY <1>1, <1>2, <1>3, <1>4 DEF Path
<1> QED
  BY <1>5 DEF u

\* ... and when the first request is read.
LEMMA HistoryShrinks ==
  ASSUME NEW S, NEW w \in Seq(S), w # <<>>, NEW a, NEW b, NEW h, Path(w, a, b, h)
  PROVE  /\ Reads(a, Head(w), h[1])
         /\ \E g : Path(Tail(w), h[1], b, g)
<1> DEFINE n == Len(w)
           u == Tail(w)
           g == [i \in 0 .. n - 1 |-> h[i + 1]]
<1>0. /\ DOMAIN h = 0 .. n /\ h[n] = b
      /\ \A i \in 1 .. n : Reads(h[i - 1], w[i], h[i])
  BY DEF Path
<1>1. n \in Nat \ {0} /\ Len(u) = n - 1 /\ \A i \in 1 .. n - 1 : u[i] = w[i + 1]
  BY EmptySeq, HeadTailProperties
<1>2. DOMAIN g = 0 .. n - 1 /\ \A i \in 0 .. n - 1 : g[i] = h[i + 1]
  BY <1>1
<1> HIDE DEF g, u
<1>3. ASSUME NEW i \in 1 .. n - 1 PROVE Reads(g[i - 1], u[i], g[i])
  <2>1. i - 1 \in 0 .. n - 1 /\ i \in 0 .. n - 1 /\ (i - 1) + 1 = (i + 1) - 1
        /\ i + 1 \in 1 .. n
    BY <1>1
  <2>2. g[i - 1] = h[(i + 1) - 1] /\ u[i] = w[i + 1] /\ g[i] = h[i + 1]
    BY <1>1, <1>2, <2>1
  <2> QED
    BY <1>0, <2>1, <2>2
<1>4. g[0] = h[0 + 1] /\ g[n - 1] = h[(n - 1) + 1] /\ (n - 1) + 1 = n /\ 0 + 1 = 1
  BY <1>1, <1>2
<1>5. g[0] = h[1] /\ g[n - 1] = b
  BY <1>0, <1>4
<1>6. Path(u, h[1], b, g)
  BY <1>1, <1>2, <1>3, <1>5 DEF Path
<1>7. Reads(h[1 - 1], w[1], h[1]) /\ 1 - 1 = 0 /\ h[0] = a /\ w[1] = Head(w)
  BY <1>0, <1>1 DEF Path
<1> QED
  BY <1>6, <1>7 DEF u

\* A number given out before stays below the next one.
LEMMA UpTo ==
  ASSUME NEW n \in Nat, NEW a \in Nat, NEW b \in Nat, n <= a, a <= b
  PROVE  n # a + 1 /\ n <= b
  OBVIOUS

\* A function called by the application.
LEMMA CallXdgInv ==
  ASSUME XdgInv, NEW o \in Ids, NEW f \in Functions(proxies[o].interface), Call(o, f)
  PROVE  XdgInv'
<1> DEFINE i == proxies[o].interface
<1>1. PICK v \in Arguments(i, f) :
        wire' = Append(wire, [obj |-> o, of |-> i, fn |-> f, values |-> v])
  BY DEF Call
<1> DEFINE m == [obj |-> o, of |-> i, fn |-> f, values |-> v]
<1>2. m.obj = o /\ m.of = i /\ m.fn = f /\ m.values = v
  OBVIOUS
<1>3. wire' = Append(wire, m)
  BY <1>1
<1> HIDE DEF m
<1>4. /\ proxies \in [Ids -> Object] /\ last \in Ids /\ last \in Nat /\ version \in Nat \ {0}
      /\ UNCHANGED << version, resources, inbox, error, aborted, heard >>
      /\ f.makes # Nothing => last + 1 \in Ids
      /\ last' = IF f.makes = Nothing THEN last ELSE last + 1
      /\ Ids \subseteq Nat
  BY DEF XdgInv, Typed, Call, Ids
<1>5. i \in Interfaces /\ Matches(i, f)
  BY Tables
<1>6. /\ f.makes # Nothing => /\ f.makes \in Interfaces
                              /\ 1 \in DOMAIN f.args /\ f.args[1] = "new"
      /\ \A k \in DOMAIN f.args : f.args[k] \in Plain \/ f.args[k] \notin Plain
  BY <1>5 DEF Matches
<1>7. DOMAIN v = DOMAIN f.args /\ \A k \in DOMAIN f.args : v[k] \in Candidates(i, f, k)
  BY DEF Arguments
<1>8. f.makes # Nothing => v[1] = last + 1
  BY <1>6, <1>7 DEF Candidates
<1>9. ArgsFit(proxies, m)
  <2> SUFFICES ASSUME NEW k \in DOMAIN v, f.args[k] \notin Plain
               PROVE  v[k] = 0 \/ (v[k] \in Ids /\ proxies[v[k]].interface = f.args[k])
    BY <1>2 DEF ArgsFit
  <2>1. f.args[k] \notin {"int", "uint", "string"} /\ f.args[k] # "new"
    BY DEF Plain
  <2>2. v[k] \in { x \in Ids : proxies[x].interface = f.args[k] } \union {0}
    BY <1>7, <2>1 DEF Candidates
  <2> QED
    BY <2>2
<1>10. proxies' = After(proxies, m)
  <2>1. \A x \in Ids : (f.makes # Nothing /\ x = last + 1) <=> (f.makes # Nothing /\ x = v[1])
    BY <1>8
  <2>2. proxies' = [x \in Ids |->
          CASE f.makes # Nothing /\ x = last + 1 ->
                 [interface |-> f.makes, version |-> proxies[o].version]
            [] f.destroys /\ x = o -> NoObject
            [] OTHER -> proxies[x]]
    BY DEF Call, NewVersion
  <2>3. \A x \in Ids :
          (CASE f.makes # Nothing /\ x = last + 1 ->
                 [interface |-> f.makes, version |-> proxies[o].version]
            [] f.destroys /\ x = o -> NoObject
            [] OTHER -> proxies[x])
          = (CASE f.makes # Nothing /\ x = v[1] ->
                 [interface |-> f.makes, version |-> proxies[o].version]
            [] f.destroys /\ x = o -> NoObject
            [] OTHER -> proxies[x])
    BY <2>1, Zenon
  <2> QED
    BY <1>2, <2>2, <2>3 DEF After
<1>11. proxies[o].version = version
  BY <1>5 DEF XdgInv, OneVersion
<1>12. o <= last
  <2>1. proxies[o] # NoObject
    BY <1>5 DEF NoObject, Interfaces, Nothing
  <2> QED
    BY <1>4, <2>1 DEF XdgInv, Numbered
<1>13. \A x \in Ids :
         /\ f.makes # Nothing /\ x = last + 1 =>
              proxies'[x] = [interface |-> f.makes, version |-> version]
         /\ ~(f.makes # Nothing /\ x = last + 1) =>
              proxies'[x] = proxies[x] \/ proxies'[x] = NoObject
  <2> SUFFICES ASSUME NEW x \in Ids
               PROVE  /\ f.makes # Nothing /\ x = last + 1 =>
                           proxies'[x] = [interface |-> f.makes, version |-> version]
                      /\ ~(f.makes # Nothing /\ x = last + 1) =>
                           proxies'[x] = proxies[x] \/ proxies'[x] = NoObject
    OBVIOUS
  <2>1. proxies'[x] = CASE f.makes # Nothing /\ x = last + 1 ->
                             [interface |-> f.makes, version |-> proxies[o].version]
                        [] f.destroys /\ x = o -> NoObject
                        [] OTHER -> proxies[x]
    BY DEF Call, NewVersion
  <2>2. f.makes # Nothing => ~(f.destroys /\ x = o /\ x = last + 1)
    BY <1>4, <1>12
  <2> QED
    BY <1>11, <2>1, <2>2
<1>14. /\ DOMAIN proxies' = Ids
       /\ \A x \in Ids : proxies'[x] \in Object
  BY <1>4, <1>6, <1>10, <1>13 DEF After, Object, NoObject
<1>15. proxies' \in [Ids -> Object]
  <2>1. proxies' = [x \in Ids |-> proxies'[x]]
    BY <1>10 DEF After
  <2> QED
    BY <1>14, <2>1
<1>16. PICK S : wire \in Seq(S)
  BY DEF XdgInv, Typed
<1>17. /\ Len(wire') = Len(wire) + 1 /\ wire'[Len(wire) + 1] = m /\ Len(wire) \in Nat
       /\ \A j \in 1 .. Len(wire) : wire'[j] = wire[j]
  BY <1>3, <1>16
<1>18. wire' \in Seq(S \union {m})
  BY <1>3, <1>16
<1>19. last' \in Ids /\ last <= last' /\ last' \in Nat
  BY <1>4
<1>20. Typed'
  BY <1>4, <1>15, <1>18, <1>19 DEF XdgInv, Typed
<1>21. ASSUME NEW j \in 1 .. Len(wire') PROVE Sent(wire'[j])
  <2>1. Sent(m)
    BY <1>2, <1>5, <1>7 DEF Sent
  <2> QED
    BY <1>17, <2>1 DEF XdgInv
<1>22. ASSUME NEW j \in 1 .. Len(inbox) PROVE Deliverable(inbox[j])'
  <2> DEFINE x == inbox[j].obj
  <2>1. x \in Ids /\ x <= last /\ Deliverable(inbox[j])
    <3>1. inbox \in Seq([obj : Ids, opcode : 0 .. 3])
      BY DEF XdgInv, Typed
    <3>2. inbox[j] \in [obj : Ids, opcode : 0 .. 3]
      BY <3>1, ElementOfSeq
    <3>3. Deliverable(inbox[j])
      BY DEF XdgInv
    <3> QED
      BY <3>2, <3>3 DEF Deliverable
  <2> HIDE DEF x
  <2>2. x # last + 1
    <3>1. x \in Nat
      BY <1>4, <2>1
    <3> QED
      BY <1>4, <1>19, <2>1, <3>1, UpTo
  <2>3. proxies'[x] = proxies[x] \/ proxies'[x].interface = Nothing
    BY <1>13, <2>1, <2>2 DEF NoObject
  <2>4. x <= last'
    BY <1>4, <1>19, <2>1
  <2> QED
    BY <1>4, <2>1, <2>3, <2>4 DEF Deliverable, x
<1>23. Numbered'
  <2>1. ASSUME NEW x \in Ids, x > last' PROVE proxies'[x] = NoObject /\ resources'[x] = NoObject
    <3>1. x > last /\ ~(f.makes # Nothing /\ x = last + 1)
      BY <1>4, <2>1
    <3> QED
      BY <1>4, <1>13, <3>1 DEF XdgInv, Numbered
  <2>2. ASSUME NEW x \in Ids, resources'[x] # NoObject
        PROVE  proxies'[x] \in {resources'[x], NoObject}
    <3>1. ~(x > last) /\ proxies[x] \in {resources[x], NoObject}
      BY <1>4, <2>2 DEF XdgInv, Numbered
    <3>2. x # last + 1
      BY <1>4, <3>1
    <3> QED
      BY <1>4, <1>13, <3>1, <3>2
  <2>3. ASSUME NEW j \in 1 .. Len(wire'), wire'[j].fn.makes # Nothing
        PROVE  /\ wire'[j].values[1] \in Ids /\ wire'[j].values[1] <= last'
               /\ proxies'[wire'[j].values[1]]
                    \in {[interface |-> wire'[j].fn.makes, version |-> version'], NoObject}
    <3>1. CASE j = Len(wire) + 1
      BY <1>2, <1>4, <1>8, <1>13, <1>17, <1>19, <2>3, <3>1
    <3>2. CASE j \in 1 .. Len(wire)
      <4> DEFINE x == wire[j].values[1]
      <4>1. /\ wire'[j] = wire[j] /\ x \in Ids /\ x <= last
            /\ proxies[x] \in {[interface |-> wire[j].fn.makes, version |-> version], NoObject}
        BY <1>17, <2>3, <3>2 DEF XdgInv, Numbered
      <4> HIDE DEF x
      <4>2. x \in Nat /\ x # last + 1 /\ x <= last'
        <5>1. x \in Nat /\ x <= last
          BY <1>4, <4>1
        <5> QED
          BY ONLY <1>4, <1>19, <5>1, UpTo
      <4>3. proxies'[x] \in {[interface |-> wire[j].fn.makes, version |-> version], NoObject}
        BY <1>13, <4>1, <4>2
      <4> QED
        BY <1>4, <4>1, <4>2, <4>3 DEF x
    <3> QED
      BY <1>17, <3>1, <3>2
  <2> QED
    BY <2>1, <2>2, <2>3 DEF Numbered
<1>24. OneVersion'
  <2>1. ASSUME NEW x \in Ids, proxies'[x].interface \in Interfaces
        PROVE  proxies'[x].version = version
    <3>1. CASE f.makes # Nothing /\ x = last + 1
      BY <1>13, <3>1
    <3>2. CASE proxies'[x] = proxies[x]
      BY <2>1, <3>2 DEF XdgInv, OneVersion
    <3>3. proxies'[x] # NoObject
      BY <2>1 DEF NoObject, Interfaces, Nothing
    <3> QED
      BY <1>13, <3>1, <3>2, <3>3
  <2> QED
    BY <1>4, <2>1 DEF XdgInv, OneVersion
<1>25. error'.kind = "none" => \E g : History(g)'
  <2> SUFFICES ASSUME error.kind = "none" PROVE \E g : History(g)'
    BY <1>4
  <2>1. PICK h : History(h)
    BY DEF XdgInv
  <2>2. Reads(proxies, m, proxies')
    BY <1>2, <1>9, <1>10 DEF Reads
  <2>3. Path(wire, resources, proxies, h)
    BY <2>1 DEF History
  <2>4. PICK g : Path(Append(wire, m), resources, proxies', g)
    BY <1>16, <2>2, <2>3, HistoryGrows
  <2>5. History(g)'
    BY <1>3, <1>4, <2>4 DEF History
  <2> QED
    BY <2>5
<1>26. KnownError' /\ UnreadableCause' /\ HeardAsSent' /\ NoNullSlot'
  BY <1>4 DEF XdgInv, KnownError, UnreadableCause, HeardAsSent, NoNullSlot
<1> QED
  BY <1>4, <1>20, <1>21, <1>22, <1>23, <1>24, <1>25, <1>26 DEF XdgInv

\* No documented complaint is one of those about a request that cannot be read.
LEMMA ReadComplaints ==
  ASSUME NEW c \in Complaints
  PROVE  c[3] \notin {"none", "invalid_object", "invalid_method", "misread"}
<1> QED
  BY DEF Complaints

\* A request got by the compositor: it reads what was called, and fails to only
\* for its version.
LEMMA ReceiveXdgInv == XdgInv /\ SrvReceive => XdgInv'
<1> SUFFICES ASSUME XdgInv, SrvReceive PROVE XdgInv'
  OBVIOUS
<1> DEFINE m == Head(wire)
           i == m.of
           f == m.fn
           r == Requests(i)[f.opcode + 1]
<1>1. PICK S : wire \in Seq(S)
  BY DEF XdgInv, Typed
<1>2. /\ wire # <<>> /\ error.kind = "none" /\ wire' = Tail(wire)
      /\ UNCHANGED << version, proxies, last, inbox, aborted, heard >>
  BY DEF SrvReceive
<1>3. /\ Len(wire) \in Nat \ {0} /\ m = wire[1] /\ 1 \in 1 .. Len(wire)
      /\ wire' \in Seq(S) /\ Len(wire') = Len(wire) - 1
      /\ \A j \in 1 .. Len(wire') : wire'[j] = wire[j + 1] /\ j + 1 \in 1 .. Len(wire)
  <2>1. Len(wire) \in Nat \ {0}
    BY <1>1, <1>2, EmptySeq
  <2> QED
    BY <1>1, <1>2, <2>1, HeadTailProperties
<1>4. PICK h : Path(wire, resources, proxies, h)
  BY <1>2 DEF XdgInv, History
<1>5. /\ Reads(resources, m, h[1])
      /\ \E g : Path(Tail(wire), h[1], proxies, g)
  BY <1>1, <1>2, <1>4, HistoryShrinks
<1>6. Sent(m)
  BY <1>3 DEF XdgInv
<1>7. /\ resources[m.obj].interface = i /\ ArgsFit(resources, m)
      /\ h[1] = After(resources, m)
  BY <1>5 DEF Reads
<1>8. /\ m.obj \in Ids /\ i \in Interfaces /\ f \in Functions(i)
      /\ DOMAIN m.values = DOMAIN f.args
  BY <1>6 DEF Sent
<1>9. Matches(i, f)
  BY <1>8, Tables
<1>10. resources[m.obj].version = version /\ resources[m.obj] # NoObject
  <2>1. resources[m.obj].version = version
    BY <1>7, <1>8 DEF XdgInv, OneVersion
  <2>2. resources[m.obj].interface # Nothing
    BY <1>7, <1>8 DEF Interfaces, Nothing
  <2> QED
    BY <2>1, <2>2 DEF NoObject
<1>11. /\ f.opcode \in Nat /\ f.opcode < Len(Requests(i))
       /\ r.name = f.name /\ Fits(r, f.args) /\ Made(r) = f.makes
       /\ r.since = Since(i, f.name)
       /\ f.destroys <=> r.name = "destroy"
       /\ f.makes # Nothing => f.makes \in Interfaces
  BY <1>9 DEF Matches
<1>12. ObjectsFit(r, m)
  <2> SUFFICES ASSUME NEW k \in DOMAIN m.values, k \in DOMAIN r.signature,
                      r.signature[k] \in {"o", "?o"}
               PROVE  m.values[k] = 0 \/ resources[m.values[k]].interface = TypeAt(r, k)
    BY DEF ObjectsFit
  <2>1. k \in DOMAIN f.args
    BY <1>8
  <2>2. f.args[k] \notin Plain
    BY <1>9, <2>1 DEF Matches, Plain
  <2>3. m.values[k] = 0 \/ resources[m.values[k]].interface = f.args[k]
    BY <1>7, <2>2 DEF ArgsFit
  <2>4. FitsAt(r, k, f.args[k])
    BY <1>11, <2>1 DEF Fits
  <2>5. f.args[k] = TypeAt(r, k)
    BY <2>4 DEF FitsAt
  <2> QED
    BY <2>3, <2>5
<1>13. HasMethod(m.obj, f.opcode) <=> r.since <= version
  BY <1>7, <1>10, <1>11 DEF HasMethod
<1>14. \/ /\ ~(r.since <= version)
          /\ Refuse("invalid_method", m) /\ resources' = resources
       \/ /\ UNCHANGED error
          /\ resources' = h[1]
       \/ /\ \E c \in Complaints : Refuse(c[3], m)
          /\ resources' = resources
  <2> DEFINE Q == Requests(resources[m.obj].interface)[m.fn.opcode + 1]
  <2>1. Q = r
    BY <1>7
  <2>2. CASE ~HasMethod(m.obj, f.opcode)
    <3>1. Refuse("invalid_method", m) /\ UNCHANGED resources
      BY <1>10, <2>2 DEF SrvReceive
    <3> QED
      BY <1>13, <2>2, <3>1
  <2>3. CASE HasMethod(m.obj, f.opcode)
    <3>1. Fits(Q, f.args) /\ ObjectsFit(Q, m)
      BY <1>11, <1>12, <2>1
    <3>2. \/ /\ UNCHANGED error
             /\ resources' = [x \in Ids |->
                  CASE Made(Q) # Nothing /\ x = m.values[1] ->
                         [interface |-> Made(Q), version |-> resources[m.obj].version]
                    [] Q.name = "destroy" /\ x = m.obj -> NoObject
                    [] OTHER -> resources[x]]
          \/ /\ \E c \in Complaints : Refuse(c[3], m)
             /\ resources' = resources
      BY <1>10, <2>3, <3>1 DEF SrvReceive
    <3>3. Made(Q) = f.makes /\ ((Q.name = "destroy") <=> f.destroys)
      BY <1>11, <2>1
    <3> HIDE DEF Q, m
    <3>4. \A x \in Ids :
            (CASE Made(Q) # Nothing /\ x = m.values[1] ->
                   [interface |-> Made(Q), version |-> resources[m.obj].version]
              [] Q.name = "destroy" /\ x = m.obj -> NoObject
              [] OTHER -> resources[x])
            = (CASE f.makes # Nothing /\ x = m.values[1] ->
                   [interface |-> f.makes, version |-> resources[m.obj].version]
              [] f.destroys /\ x = m.obj -> NoObject
              [] OTHER -> resources[x])
      BY <3>3, Zenon
    <3>5. \/ UNCHANGED error /\ resources' = After(resources, m)
          \/ (\E c \in Complaints : Refuse(c[3], m)) /\ resources' = resources
      BY <3>2, <3>4 DEF After
    <3> QED
      BY <1>7, <3>5
  <2> QED
    BY <2>2, <2>3
<1> HIDE DEF m, r
<1>15. \A x \in Ids :
         \/ resources'[x] = resources[x] \/ resources'[x] = NoObject
         \/ /\ f.makes # Nothing /\ x = m.values[1]
            /\ resources'[x] = [interface |-> f.makes, version |-> version]
  <2>1. CASE resources' = resources
    BY <2>1
  <2>2. CASE resources' = h[1]
    <3> SUFFICES ASSUME NEW x \in Ids
                 PROVE  \/ resources'[x] = resources[x] \/ resources'[x] = NoObject
                        \/ /\ f.makes # Nothing /\ x = m.values[1]
                           /\ resources'[x] = [interface |-> f.makes, version |-> version]
      OBVIOUS
    <3>1. resources'[x] =
            CASE f.makes # Nothing /\ x = m.values[1] ->
                   [interface |-> f.makes, version |-> resources[m.obj].version]
              [] f.destroys /\ x = m.obj -> NoObject
              [] OTHER -> resources[x]
      BY <1>7, <2>2 DEF After
    <3>2. resources[m.obj].version = version
      BY <1>10
    <3> QED
      BY <3>1, <3>2
  <2> QED
    BY <1>14, <2>1, <2>2
<1>16. resources' \in [Ids -> Object]
  <2>1. resources \in [Ids -> Object] /\ version \in Nat
    BY DEF XdgInv, Typed
  <2>2. CASE resources' = resources
    BY <2>1, <2>2
  <2>3. CASE resources' = h[1]
    <3>1. resources' = [x \in Ids |-> resources'[x]]
      BY <1>7, <2>3 DEF After
    <3>2. ASSUME NEW x \in Ids PROVE resources'[x] \in Object
      <4>1. resources[x] \in Object
        BY <2>1
      <4>2. NoObject \in Object
        BY DEF NoObject, Object
      <4>3. f.makes # Nothing => [interface |-> f.makes, version |-> version] \in Object
        BY <1>11, <2>1 DEF Object
      <4> QED
        BY <1>15, <4>1, <4>2, <4>3
    <3> QED
      BY <3>1, <3>2
  <2> QED
    BY <1>14, <2>2, <2>3
<1>17. Typed'
  BY <1>2, <1>3, <1>16 DEF XdgInv, Typed
<1>18. \A j \in 1 .. Len(wire') : Sent(wire[j])'
  BY <1>3 DEF XdgInv, Sent
<1>19. ASSUME NEW j \in 1 .. Len(inbox') PROVE Deliverable(inbox[j])'
  <2>1. Deliverable(inbox[j])
    BY <1>2, <1>19 DEF XdgInv
  <2> QED
    BY <1>2, <2>1 DEF Deliverable
<1>20. f.makes # Nothing =>
         /\ m.values[1] <= last
         /\ proxies[m.values[1]] \in {[interface |-> f.makes, version |-> version], NoObject}
  BY <1>3 DEF XdgInv, Numbered
<1>21. Numbered'
  <2>1. ASSUME NEW x \in Ids, x > last PROVE proxies[x] = NoObject /\ resources'[x] = NoObject
    <3>1. proxies[x] = NoObject /\ resources[x] = NoObject
      BY <2>1 DEF XdgInv, Numbered
    <3>2. ~(f.makes # Nothing /\ x = m.values[1])
      <4>1. last \in Nat /\ x \in Nat
        BY DEF XdgInv, Typed, Ids
      <4> QED
        BY <1>20, <2>1, <4>1
    <3> QED
      BY <1>15, <3>1, <3>2
  <2>2. ASSUME NEW x \in Ids, resources'[x] # NoObject
        PROVE  proxies[x] \in {resources'[x], NoObject}
    <3>1. CASE resources'[x] = resources[x]
      BY <2>2, <3>1 DEF XdgInv, Numbered
    <3>2. CASE /\ f.makes # Nothing /\ x = m.values[1]
               /\ resources'[x] = [interface |-> f.makes, version |-> version]
      BY <1>20, <3>2
    <3> QED
      BY <1>15, <2>2, <3>1, <3>2
  <2>3. ASSUME NEW j \in 1 .. Len(wire'), wire'[j].fn.makes # Nothing
        PROVE  /\ wire'[j].values[1] \in Ids /\ wire'[j].values[1] <= last
               /\ proxies[wire'[j].values[1]]
                    \in {[interface |-> wire'[j].fn.makes, version |-> version], NoObject}
    BY <1>3, <2>3 DEF XdgInv, Numbered
  <2> QED
    BY <1>2, <2>1, <2>2, <2>3 DEF Numbered
<1>22. OneVersion'
  <2>1. ASSUME NEW x \in Ids, resources'[x].interface \in Interfaces
        PROVE  resources'[x].version = version
    <3>1. resources'[x] # NoObject
      BY <2>1 DEF NoObject, Interfaces, Nothing
    <3>2. CASE resources'[x] = resources[x]
      BY <2>1, <3>2 DEF XdgInv, OneVersion
    <3>3. CASE resources'[x] = [interface |-> f.makes, version |-> version]
      BY <3>3
    <3> QED
      BY <1>15, <3>1, <3>2, <3>3
  <2> QED
    BY <1>2, <2>1 DEF XdgInv, OneVersion
<1>23. error'.kind = "none" => \E g : History(g)'
  <2> SUFFICES ASSUME error'.kind = "none" PROVE \E g : History(g)'
    OBVIOUS
  <2>1. resources' = h[1]
    BY <1>14, ReadComplaints DEF Refuse
  <2>2. PICK g : Path(Tail(wire), h[1], proxies, g)
    BY <1>5
  <2>3. History(g)'
    BY <1>2, <2>1, <2>2 DEF History
  <2> QED
    BY <2>3
<1>24. KnownError' /\ UnreadableCause'
  <2>1. CASE ~(r.since <= version) /\ Refuse("invalid_method", m)
    <3>1. error'.kind = "invalid_method" /\ error'.of = i /\ error'.name = f.name
      BY <2>1 DEF Refuse
    <3>2. Since(i, f.name) > version
      <4>1. Since(i, f.name) \in Nat /\ version \in Nat
        BY DEF Since, XdgInv, Typed
      <4> QED
        BY <1>11, <2>1, <4>1
    <3> QED
      BY <1>2, <3>1, <3>2 DEF UnreadableCause, KnownError
  <2>2. CASE UNCHANGED error
    BY <1>2, <2>2 DEF UnreadableCause, KnownError
  <2>3. ASSUME NEW c \in Complaints, Refuse(c[3], m) PROVE KnownError' /\ UnreadableCause'
    <3>1. error'.kind = c[3]
      BY <2>3 DEF Refuse
    <3> QED
      BY <3>1, ReadComplaints DEF UnreadableCause, KnownError
  <2> QED
    BY <1>14, <2>1, <2>2, <2>3
<1>25. HeardAsSent' /\ NoNullSlot'
  BY <1>2 DEF XdgInv, HeardAsSent, NoNullSlot
<1> QED
  BY <1>17, <1>18, <1>19, <1>21, <1>22, <1>23, <1>24, <1>25 DEF XdgInv

\* An event sent by the compositor: it knows the object by the number the client
\* gave it, as the same object or as one that is gone by now.
LEMMA SendXdgInv ==
  ASSUME XdgInv, NEW o \in Ids, NEW k \in 1 .. 4, SrvSend(o, k)
  PROVE  XdgInv'
<1> DEFINE i == resources[o].interface
           e == [obj |-> o, opcode |-> k - 1]
<1>1. /\ k \in DOMAIN Events(i) /\ Since(i, Events(i)[k].name) <= resources[o].version
      /\ inbox' = Append(inbox, e)
      /\ UNCHANGED << version, proxies, resources, last, wire, error, aborted, heard >>
  BY DEF SrvSend
<1>2. i \in Interfaces
  BY <1>1, EventTables
<1>3. resources[o] # NoObject /\ resources[o].version = version
  BY <1>2 DEF XdgInv, OneVersion, NoObject, Interfaces, Nothing
<1>4. o <= last /\ proxies[o] \in {resources[o], NoObject}
  <2>1. o \in Nat /\ last \in Nat
    BY DEF XdgInv, Typed, Ids
  <2> QED
    BY <1>3, <2>1 DEF XdgInv, Numbered
<1>5. e.obj = o /\ e.opcode + 1 = k /\ e \in [obj : Ids, opcode : 0 .. 3]
  OBVIOUS
<1> HIDE DEF e
<1>6. Deliverable(e)
  <2>1. proxies[o].interface = i \/ proxies[o].interface = Nothing
    BY <1>4 DEF NoObject
  <2> QED
    BY <1>1, <1>3, <1>4, <1>5, <2>1 DEF Deliverable
<1>7. inbox \in Seq([obj : Ids, opcode : 0 .. 3])
  BY DEF XdgInv, Typed
<1>8. /\ inbox' \in Seq([obj : Ids, opcode : 0 .. 3]) /\ Len(inbox') = Len(inbox) + 1
      /\ Len(inbox) \in Nat /\ inbox'[Len(inbox) + 1] = e
      /\ \A j \in 1 .. Len(inbox) : inbox'[j] = inbox[j]
  BY <1>1, <1>5, <1>7
<1>9. ASSUME NEW j \in 1 .. Len(inbox') PROVE Deliverable(inbox[j])'
  <2>1. Deliverable(inbox'[j])
    BY <1>6, <1>8 DEF XdgInv
  <2> QED
    BY <1>1, <2>1 DEF Deliverable
<1> HIDE DEF i
<1>10. Typed' /\ (\A j \in 1 .. Len(inbox') : Deliverable(inbox[j])')
  BY <1>1, <1>8, <1>9 DEF XdgInv, Typed
<1>11. Numbered' /\ OneVersion' /\ KnownError' /\ UnreadableCause' /\ HeardAsSent' /\ NoNullSlot'
  BY <1>1 DEF XdgInv, Numbered, OneVersion, KnownError, UnreadableCause, HeardAsSent, NoNullSlot
<1>12. error'.kind = "none" => \E h : History(h)'
  BY <1>1 DEF XdgInv, History
<1>13. \A j \in 1 .. Len(wire') : Sent(wire[j])'
  BY <1>1 DEF XdgInv, Sent
<1> QED
  BY <1>10, <1>11, <1>12, <1>13 DEF XdgInv

\* The event at the head of the queue taken out of it.
LEMMA TakenXdgInv ==
  ASSUME XdgInv, inbox # <<>>, inbox' = Tail(inbox),
         UNCHANGED << version, proxies, resources, last, wire, error >>,
         aborted' \in BOOLEAN, HeardAsSent', NoNullSlot'
  PROVE  XdgInv'
<1>1. inbox \in Seq([obj : Ids, opcode : 0 .. 3])
  BY DEF XdgInv, Typed
<1>2. /\ inbox' \in Seq([obj : Ids, opcode : 0 .. 3]) /\ Len(inbox') = Len(inbox) - 1
      /\ \A j \in 1 .. Len(inbox') : inbox'[j] = inbox[j + 1] /\ j + 1 \in 1 .. Len(inbox)
  <2>1. Len(inbox) \in Nat \ {0}
    BY <1>1, EmptySeq
  <2> QED
    BY <1>1, <2>1, HeadTailProperties
<1>3. ASSUME NEW j \in 1 .. Len(inbox') PROVE Deliverable(inbox[j])'
  <2>1. Deliverable(inbox'[j])
    BY <1>2 DEF XdgInv
  <2> QED
    BY <2>1 DEF Deliverable
<1>4. Typed'
  BY <1>2 DEF XdgInv, Typed
<1>5. Numbered' /\ OneVersion' /\ KnownError' /\ UnreadableCause'
  BY DEF XdgInv, Numbered, OneVersion, KnownError, UnreadableCause
<1>6. error'.kind = "none" => \E h : History(h)'
  BY DEF XdgInv, History
<1>7. \A j \in 1 .. Len(wire') : Sent(wire[j])'
  BY DEF XdgInv, Sent
<1> QED
  BY <1>3, <1>4, <1>5, <1>6, <1>7 DEF XdgInv

\* An event that nobody listens for.
LEMMA DroppedXdgInv == XdgInv /\ DispatchDropped => XdgInv'
<1> SUFFICES ASSUME XdgInv, DispatchDropped PROVE XdgInv'
  OBVIOUS
<1>1. /\ inbox # <<>> /\ inbox' = Tail(inbox)
      /\ UNCHANGED << version, proxies, resources, last, wire, error, aborted, heard >>
  BY DEF DispatchDropped
<1>2. aborted' \in BOOLEAN /\ HeardAsSent' /\ NoNullSlot'
  BY <1>1 DEF XdgInv, Typed, HeardAsSent, NoNullSlot
<1> QED
  BY <1>1, <1>2, TakenXdgInv

\* An event that reaches a listener struct: the slot called is that of the event,
\* and one that spaze fills when the objects have version 1.
LEMMA DispatchXdgInv == XdgInv /\ Dispatch => XdgInv'
<1> SUFFICES ASSUME XdgInv, Dispatch PROVE XdgInv'
  OBVIOUS
<1> DEFINE e == Head(inbox)
           i == proxies[e.obj].interface
           k == e.opcode + 1
           event == Events(i)[k]
           slot == Listener(i)[k]
<1>1. /\ inbox # <<>> /\ inbox' = Tail(inbox) /\ Handlers(i) # {} /\ ~aborted
      /\ UNCHANGED << version, proxies, resources, last, wire, error >>
      /\ \/ /\ slot.name \in Handlers(i) /\ UNCHANGED aborted
            /\ heard' = [sent |-> event.name, slot |-> slot.name, fits |-> Fits(event, slot.args)]
         \/ /\ slot.name \notin Handlers(i) /\ aborted' = TRUE
            /\ UNCHANGED heard
  BY DEF Dispatch
<1>2. Deliverable(e)
  <2>1. inbox \in Seq([obj : Ids, opcode : 0 .. 3])
    BY DEF XdgInv, Typed
  <2>2. 1 \in 1 .. Len(inbox) /\ e = inbox[1]
    BY <1>1, <2>1, EmptySeq, SMTT(30)
  <2> QED
    BY <2>2 DEF XdgInv
<1>3. i # Nothing
  BY <1>1 DEF Handlers, Nothing
<1>4. k \in DOMAIN Events(i) /\ Since(i, event.name) <= version
  BY <1>2, <1>3 DEF Deliverable
<1>5. EventMatches(i, k)
  BY <1>4, EventTables
<1>6. /\ event.name = slot.name /\ Fits(event, slot.args)
      /\ Handlers(i) # {} /\ Since(i, event.name) <= 1 => slot.name \in Handlers(i)
  BY <1>5 DEF EventMatches
<1> HIDE DEF e, i, k, event, slot
<1>7. HeardAsSent'
  BY <1>1, <1>6 DEF XdgInv, HeardAsSent
<1>8. version = WL_VERSION => slot.name \in Handlers(i)
  BY <1>1, <1>4, <1>6 DEF WL_VERSION
<1>9. NoNullSlot' /\ aborted' \in BOOLEAN
  <2>1. CASE slot.name \in Handlers(i)
    <3>1. aborted' = aborted /\ version' = version
      BY <1>1, <2>1
    <3>2. aborted' \in BOOLEAN
      BY <3>1 DEF XdgInv, Typed
    <3> QED
      BY <1>1, <3>1, <3>2 DEF NoNullSlot
  <2>2. CASE slot.name \notin Handlers(i)
    <3>1. aborted' = TRUE /\ version' = version /\ version # WL_VERSION
      BY <1>1, <1>8, <2>2
    <3> QED
      BY <3>1 DEF NoNullSlot
  <2> QED
    BY <2>1, <2>2
<1> QED
  BY <1>1, <1>7, <1>9, TakenXdgInv

LEMMA XdgStep == XdgInv /\ [Next]_vars => XdgInv'
<1> SUFFICES ASSUME XdgInv, [Next]_vars PROVE XdgInv'
  OBVIOUS
<1>1. ASSUME NEW o \in Ids, NEW f \in Functions(proxies[o].interface), Call(o, f)
      PROVE  XdgInv'
  BY <1>1, CallXdgInv
<1>2. CASE SrvReceive
  BY <1>2, ReceiveXdgInv
<1>3. ASSUME NEW o \in Ids, NEW k \in 1 .. 4, SrvSend(o, k) PROVE XdgInv'
  BY <1>3, SendXdgInv
<1>4. CASE DispatchDropped
  BY <1>4, DroppedXdgInv
<1>5. CASE Dispatch
  BY <1>5, DispatchXdgInv
<1>6. CASE UNCHANGED vars
  <2>1. UNCHANGED << version, proxies, resources, last, wire, inbox, error, aborted, heard >>
    BY <1>6 DEF vars
  <2>2. Typed' /\ Numbered' /\ OneVersion'
    BY <2>1 DEF XdgInv, Typed, Numbered, OneVersion
  <2>3. KnownError' /\ UnreadableCause' /\ HeardAsSent' /\ NoNullSlot'
    BY <2>1 DEF XdgInv, KnownError, UnreadableCause, HeardAsSent, NoNullSlot
  <2>4. error'.kind = "none" => \E h : History(h)'
    BY <2>1 DEF XdgInv, History
  <2>5. \A j \in 1 .. Len(wire') : Sent(wire[j])'
    BY <2>1 DEF XdgInv, Sent
  <2>6. \A j \in 1 .. Len(inbox') : Deliverable(inbox[j])'
    BY <2>1 DEF XdgInv, Deliverable
  <2> QED
    BY <2>2, <2>3, <2>4, <2>5, <2>6 DEF XdgInv
<1> QED
  BY <1>1, <1>2, <1>3, <1>4, <1>5, <1>6 DEF Next

LEMMA XdgInvariant == Spec => []XdgInv
<1> QED
  BY InitXdgInv, XdgStep, PTL DEF Spec

-------------------------------------------------------------------------------
(***************************************************************************)
(* Theorems                                                                *)
(***************************************************************************)
\* Whatever the application calls, with whatever version it bound, the objects of
\* both ends, the numbers, the requests and the events on their way and the
\* compositor's complaint keep the values they may have: in particular it never
\* finds an object it does not know or arguments it cannot read.
THEOREM XdgTypeOK == Spec => []TypeOK
<1>1. XdgInv => TypeOK
  <2> SUFFICES ASSUME XdgInv PROVE TypeOK
    OBVIOUS
  <2>1. /\ version \in Nat \ {0} /\ last \in Ids /\ aborted \in BOOLEAN
        /\ proxies \in [Ids -> Object] /\ resources \in [Ids -> Object]
        /\ inbox \in Seq([obj : Ids, opcode : 0 .. 3])
    BY DEF XdgInv, Typed
  <2>2. PICK S : wire \in Seq(S)
    BY DEF XdgInv, Typed
  <2>3. ASSUME NEW j \in DOMAIN wire PROVE wire[j].obj \in Ids /\ wire[j].fn \in AllFunctions
    <3>1. Sent(wire[j])
      BY <2>2 DEF XdgInv
    <3> QED
      BY <3>1 DEF Sent, AllFunctions
  <2>4. ASSUME NEW j \in DOMAIN inbox PROVE inbox[j].obj \in Ids /\ inbox[j].opcode \in 0 .. 3
    <3>1. inbox[j] \in [obj : Ids, opcode : 0 .. 3]
      <4>1. j \in 1 .. Len(inbox)
        BY <2>1
      <4> QED
        BY <2>1, <4>1, ElementOfSeq
    <3> QED
      BY <3>1
  <2>5. error.kind \in {"none", "invalid_method"} \union { c[3] : c \in Complaints }
    BY DEF XdgInv, KnownError
  <2> QED
    BY <2>1, <2>3, <2>4, <2>5 DEF TypeOK
<1> QED
  BY <1>1, XdgInvariant, PTL

\* The functions of xdg-shell.h and the tables of xdg-shell.c never disagree on
\* a request that was sent: at its opcode stands the request of that name, with
\* arguments of those types, that makes an object of that interface.
THEOREM XdgMeansWhatWasCalled == Spec => []MeansWhatWasCalled
<1>1. XdgInv => MeansWhatWasCalled
  <2> SUFFICES ASSUME XdgInv, NEW j \in DOMAIN wire
               PROVE  /\ wire[j].fn.opcode < Len(Requests(wire[j].of))
                      /\ Requests(wire[j].of)[wire[j].fn.opcode + 1].name = wire[j].fn.name
                      /\ Fits(Requests(wire[j].of)[wire[j].fn.opcode + 1], wire[j].fn.args)
                      /\ Made(Requests(wire[j].of)[wire[j].fn.opcode + 1]) = wire[j].fn.makes
    BY DEF MeansWhatWasCalled
  <2>1. PICK S : wire \in Seq(S)
    BY DEF XdgInv, Typed
  <2>2. Sent(wire[j])
    BY <2>1 DEF XdgInv
  <2>3. Matches(wire[j].of, wire[j].fn)
    BY <2>2, Tables DEF Sent
  <2> QED
    BY <2>3 DEF Matches
<1> QED
  BY <1>1, XdgInvariant, PTL

\* A compositor that has read all the requests and refused none has exactly the
\* client's objects, of the same interfaces and versions.
THEOREM XdgSameObjects == Spec => []SameObjects
<1>1. XdgInv => SameObjects
  <2> SUFFICES ASSUME XdgInv, wire = <<>>, error.kind = "none" PROVE resources = proxies
    BY DEF SameObjects
  <2>1. PICK h : Path(wire, resources, proxies, h)
    BY DEF XdgInv, History
  <2>2. Len(wire) = 0
    OBVIOUS
  <2> QED
    BY <2>1, <2>2 DEF Path
<1> QED
  BY <1>1, XdgInvariant, PTL

\* The only request a compositor can be unable to read is a function the header
\* knows to be newer than the version xdg_wm_base was bound with.
THEOREM XdgUnreadableCause == Spec => []UnreadableCause
<1>1. XdgInv => UnreadableCause
  BY DEF XdgInv
<1> QED
  BY <1>1, XdgInvariant, PTL

\* The function in a listener's slot is called for the event it is named for,
\* with the arguments it takes.
THEOREM XdgHeardAsSent == Spec => []HeardAsSent
<1>1. XdgInv => HeardAsSent
  BY DEF XdgInv
<1> QED
  BY <1>1, XdgInvariant, PTL

\* Bound with the version spaze asks for, no object gets an event whose slot spaze
\* left empty.
THEOREM XdgNoNullSlot == Spec => []NoNullSlot
<1>1. XdgInv => NoNullSlot
  BY DEF XdgInv
<1> QED
  BY <1>1, XdgInvariant, PTL


===============================================================================
