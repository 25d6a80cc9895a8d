-------------------------------- MODULE MCGfx ---------------------------------
(***************************************************************************)
(* Small instances of Gfx.  A pool starts with a few units, a word holds a *)
(* small multiple of what the wire can tell apart, so that a few blocks    *)
(* make the pool grow, leave the range of the wire, exhaust the doublings, *)
(* wrap the sum or arrive cut.                                             *)
(***************************************************************************)
EXTENDS Gfx

Rect(w, h, s) == [width |-> w, height |-> h, stride |-> s]

\* Two shapes that fit the wire in small numbers.
SmallShapes == { Rect(1, 1, 1), Rect(1, 3, 1) }

\* For a pool of 8, a wire up to 31 and a word of 256: two shapes that arrive
\* whole, one whose stride arrives as 4, one whose height arrives as 1, one
\* whose size wraps to 1 and arrives as 1, one that takes exactly half the word
\* and, behind another, more than any doubling can serve, and one whose size
\* wraps when added to a used pool.
LimitShapes == { Rect(1, 1, 4), Rect(1, 6, 4), Rect(1, 1, 68), Rect(1, 65, 1),
                 Rect(1, 193, 65), Rect(1, 2, 64), Rect(1, 1, 254) }

\* What the calls do to a list that is broken is left out: no safety property
\* under the hypothesis "not tainted" speaks of the states beyond.
Untainted == ~tainted

\* The same, but a broken list is followed as long as there is one block and it
\* stays there, to where a loop reads through the junk in it.
OneWhenTainted == tainted => Cardinality(Allocated) = 1 /\ held = {}

\* Or the loop that taints a list is followed to its end.
TaintedInLoop == tainted => call.op \in {"resize", "unchain"}

Symmetry == Permutations(Links)

===============================================================================
