------------------------------ MODULE EventArray ------------------------------
(***************************************************************************)
(* The growable array of src/array.c, with the arithmetic of usize_t.      *)
(*                                                                         *)
(* An allocation is the sequence of the element slots that fit in it; a    *)
(* slot nobody has written holds None.  mimalloc is built to abort rather  *)
(* than return NULL (deps/mimalloc.mk), so malloc gives what it is asked   *)
(* for.  The process stops at a failed assert ("panic") and, for all that  *)
(* can be said of it, at the first access outside an allocation.           *)
(***************************************************************************)
EXTENDS Integers, Sequences

CONSTANTS
  Elems,      \* the values of an element
  ElemSizes,  \* the sizes an element type may have (sizeof(T))
  Word,       \* usize_t counts modulo this (a power of two, of which it
              \* only matters that it is even)
  None        \* no element

ARRAY_INITIAL == 4
ARRAY_GROWTH  == 2

ASSUME EventArrayAssumption ==
  /\ ElemSizes \subseteq Nat \ {0}
  /\ Word \in Nat /\ Word > ARRAY_INITIAL /\ Word % 2 = 0
  /\ \A size \in ElemSizes : ARRAY_INITIAL * size < Word
  /\ None \notin Elems

VARIABLES
  slots,      \* array_s.ptr
  length,     \* array_s.length
  capacity,   \* array_s.capacity
  elem_size,  \* array_s.elem_size
  status,     \* "ok", "panic" or "overrun"
  result      \* what array_pop put in *out, None if it returned NULL

vars == << slots, length, capacity, elem_size, status, result >>

\* array_init(T)
Init ==
  /\ slots = <<>> /\ length = 0 /\ capacity = 0
  /\ elem_size \in ElemSizes
  /\ status = "ok" /\ result = None

-------------------------------------------------------------------------------

\* array_needs_resize(arr, 1) and array_new_capacity
NeedsResize == (length + 1) % Word > capacity
\* Mutant: the array keeps its capacity.
NewCapacitySame == IF capacity = 0 THEN ARRAY_INITIAL ELSE capacity
NewCapacity == IF capacity = 0 THEN ARRAY_INITIAL ELSE (capacity * ARRAY_GROWTH) % Word

RoomInBytes == NewCapacity \div elem_size  \* mutant: mi_malloc(new_capacity)

\* mi_malloc(new_capacity * elem_size), in elements
Room == ((NewCapacity * elem_size) % Word) \div elem_size

\* Mutant: the copy leaves the last element out.
MovedShort == [i \in 1 .. Room |-> IF i < length THEN slots[i] ELSE None]

\* memcpy of the elements there are
Moved == [i \in 1 .. Room |-> IF i <= length THEN slots[i] ELSE None]

\* The write of array_push after the possible resize.
PushInto(s, cap, e) ==
  /\ slots' = [s EXCEPT ![length + 1] = e]
  /\ length' = length + 1
  /\ capacity' = cap
  /\ UNCHANGED << elem_size, status, result >>

PushInPlace(e) ==
  /\ status = "ok" /\ ~NeedsResize
  /\ PushInto(slots, capacity, e)

PushGrown(e) ==
  /\ status = "ok" /\ NeedsResize /\ NewCapacity > capacity
  /\ length < Room
  /\ PushInto(Moved, NewCapacity, e)

\* The product wrapped: the new allocation is too small for the copy or for
\* the element.
PushOverruns ==
  /\ status = "ok" /\ NeedsResize /\ NewCapacity > capacity
  /\ length >= Room
  /\ status' = "overrun"
  /\ UNCHANGED << slots, length, capacity, elem_size, result >>

\* assert(new_capacity > arr->capacity)
PushPanics ==
  /\ status = "ok" /\ NeedsResize /\ NewCapacity <= capacity
  /\ status' = "panic"
  /\ UNCHANGED << slots, length, capacity, elem_size, result >>

\* array_pop
PopEmpty ==
  /\ status = "ok" /\ length = 0
  /\ result' = None
  /\ UNCHANGED << slots, length, capacity, elem_size, status >>

Pop ==
  /\ status = "ok" /\ length # 0
  /\ length' = length - 1
  /\ result' = slots[length]
  /\ UNCHANGED << slots, capacity, elem_size, status >>

\* array_deinit
Deinit ==
  /\ status = "ok" /\ slots # <<>>
  /\ slots' = <<>> /\ length' = 0 /\ capacity' = 0
  /\ UNCHANGED << elem_size, status, result >>

Next ==
  \/ \E e \in Elems : PushInPlace(e) \/ PushGrown(e)
  \/ PushOverruns \/ PushPanics
  \/ PopEmpty \/ Pop \/ Deinit

Spec == Init /\ [][Next]_vars

-------------------------------------------------------------------------------

\* Every element the array counts is in the allocation and was written, the
\* allocation has room for "capacity" elements, and the array counts no more.
TypeOK ==
  /\ elem_size \in ElemSizes
  /\ status \in {"ok", "panic", "overrun"}
  /\ result \in Elems \union {None}
  /\ length \in Nat /\ capacity \in Nat /\ length <= capacity /\ capacity % 2 = 0
  /\ capacity * elem_size < Word
  /\ slots \in Seq(Elems \union {None}) /\ Len(slots) = capacity
  /\ \A i \in 1 .. length : slots[i] \in Elems

\* A push leaves the allocation only when twice the bytes it has are more than
\* usize_t counts; the assert of array_resize, which is there to catch a capacity
\* that wrapped, does not see the bytes wrap.
OverrunCause ==
  status = "overrun" => ARRAY_GROWTH * capacity * elem_size >= Word

\* The assert fails only for the size that lets the capacity itself wrap before
\* the bytes do.
PanicCause == status = "panic" => elem_size = 1

\* How an array can stop.  array_resize asserts on the capacity alone, so that
\* the wrap of the bytes goes by unseen for all elements but bytes.
LimitCause == OverrunCause /\ PanicCause

\* The array is a stack: what is popped is what was pushed last and not popped,
\* whatever the moves between allocations, until the process stops.
Stack == INSTANCE EventStack WITH stack <- SubSeq(slots, 1, length)
ImplementsStack == Stack!Spec

===============================================================================
