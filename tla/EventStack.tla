------------------------------ MODULE EventStack ------------------------------
(***************************************************************************)
(* What the users of src/array.c rely on: a stack without a bound.         *)
(* EventArray is shown to implement it, and EventLoop keeps the events of  *)
(* an event_loop_s in such a stack.                                        *)
(***************************************************************************)
EXTENDS Integers, Sequences

CONSTANTS Elems, None

VARIABLES
  stack,  \* the elements pushed and not popped, oldest first
  result  \* what the last pop returned: an element, or None

Init == stack = <<>> /\ result = None

Push(e) == stack' = Append(stack, e) /\ result' = result

Pop ==
  IF stack = <<>>
  THEN stack' = stack /\ result' = None
  ELSE /\ stack' = SubSeq(stack, 1, Len(stack) - 1)
       /\ result' = stack[Len(stack)]

Clear == stack' = <<>> /\ result' = result

Next == (\E e \in Elems : Push(e)) \/ Pop \/ Clear

Spec == Init /\ [][Next]_<< stack, result >>

===============================================================================
