--------------------------- MODULE EventArrayProofs ---------------------------
(***************************************************************************)
(* Theorems about EventArray, for every size of an element, every width of *)
(* usize_t and every set of elements.                                      *)
(***************************************************************************)
EXTENDS EventArray, SequenceTheorems, TLAPS

\* Arithmetic modulo w: a value in range stays, one just past it loses one w.
LEMMA Modulo ==
  ASSUME NEW n \in Nat, NEW w \in Nat, 0 < w
  PROVE  /\ n < w => n % w = n
         /\ w <= n /\ n < 2 * w => n % w = n - w
  OBVIOUS

\* Dividing bytes by the size of an element gives the elements that fit.
LEMMA DivExact ==
  ASSUME NEW n \in Nat, NEW e \in Nat, 0 < e
  PROVE  (n * e) \div e = n
  OBVIOUS

LEMMA DivLess ==
  ASSUME NEW b \in Nat, NEW n \in Nat, NEW e \in Nat, 0 < e, b < n * e
  PROVE  b \div e < n /\ b \div e \in Nat
  OBVIOUS

LEMMA Products ==
  ASSUME NEW c \in Nat, NEW e \in Nat, 0 < e
  PROVE  /\ c <= c * e
         /\ c * e \in Nat
         /\ (2 * c) * e = 2 * (c * e)
         /\ 2 * c * e = 2 * (c * e)
  OBVIOUS

LEMMA TwiceAtLeast ==
  ASSUME NEW c \in Nat, NEW d \in Nat
  PROVE  2 * c <= c * (d + 2)
<1>1. c * (d + 2) = c * d + 2 * c /\ c * d \in Nat
  OBVIOUS
<1> QED
  BY <1>1

\* What the growth computes.  The array is full when it asks for it.  If twice
\* the bytes do not wrap, the capacity doubles and the allocation has room for
\* all of it; if they do wrap, it has less room than the elements there are.
LEMMA Growth ==
  ASSUME TypeOK, NeedsResize
  PROVE  /\ length = capacity
         /\ NewCapacity > capacity =>
              /\ NewCapacity = IF capacity = 0 THEN 4 ELSE 2 * capacity
              /\ NewCapacity * elem_size < Word =>
                   Room = NewCapacity
              /\ NewCapacity * elem_size >= Word =>
                   /\ 2 * capacity * elem_size >= Word
                   /\ Room < capacity /\ Room \in Nat
         /\ NewCapacity <= capacity => elem_size = 1
<1>1. /\ elem_size \in Nat /\ 0 < elem_size /\ 4 * elem_size < Word
      /\ Word \in Nat /\ 4 < Word
      /\ length \in Nat /\ capacity \in Nat /\ length <= capacity
      /\ capacity * elem_size < Word
  BY EventArrayAssumption DEF TypeOK, ARRAY_INITIAL
<1>2. /\ capacity <= capacity * elem_size
      /\ capacity * elem_size \in Nat
      /\ (2 * capacity) * elem_size = 2 * (capacity * elem_size)
      /\ 2 * capacity * elem_size = 2 * (capacity * elem_size)
  BY <1>1, Products
<1>3. capacity < Word
  BY <1>1, <1>2
<1>4. length = capacity
  <2>1. (length + 1) % Word > capacity
    BY DEF NeedsResize
  <2>2. CASE length + 1 < Word
    <3>1. (length + 1) % Word = length + 1
      BY <1>1, <2>2, Modulo
    <3> QED
      BY <1>1, <2>1, <3>1
  <2>3. CASE length + 1 >= Word
    BY <1>1, <1>3, <2>3
  <2> QED
    BY <1>1, <2>2, <2>3
<1>5. ASSUME NewCapacity > capacity
      PROVE  /\ NewCapacity = IF capacity = 0 THEN 4 ELSE 2 * capacity
             /\ NewCapacity * elem_size < Word => Room = NewCapacity
             /\ NewCapacity * elem_size >= Word =>
                  /\ 2 * capacity * elem_size >= Word
                  /\ Room < capacity /\ Room \in Nat
  <2>1. NewCapacity = IF capacity = 0 THEN 4 ELSE 2 * capacity
    <3>1. CASE capacity = 0
      BY <3>1 DEF NewCapacity, ARRAY_INITIAL
    <3>2. CASE capacity # 0 /\ 2 * capacity < Word
      <4> DEFINE m == 2 * capacity
      <4>1. m % Word = m
        <5>1. m \in Nat /\ m < Word
          BY <1>1, <3>2
        <5> HIDE DEF m
        <5> QED
          BY <1>1, <5>1, Modulo
      <4>2. capacity * 2 = 2 * capacity
        BY <1>1
      <4> QED
        BY <3>2, <4>1, <4>2 DEF NewCapacity, ARRAY_GROWTH
    <3>3. CASE capacity # 0 /\ 2 * capacity >= Word
      <4> DEFINE m == 2 * capacity
      <4>1. m % Word = m - Word
        <5>1. m \in Nat /\ Word <= m /\ m < 2 * Word
          BY <1>1, <1>3, <3>3
        <5> HIDE DEF m
        <5> QED
          BY <1>1, <5>1, Modulo
      <4>2. capacity * 2 = 2 * capacity
        BY <1>1
      <4>3. NewCapacity = 2 * capacity - Word
        BY <3>3, <4>1, <4>2 DEF NewCapacity, ARRAY_GROWTH
      <4> QED
        BY <1>1, <1>3, <1>5, <4>3
    <3> QED
      BY <1>1, <3>1, <3>2, <3>3
  <2>2. NewCapacity \in Nat
    BY <1>1, <2>1
  <2>3. ASSUME NewCapacity * elem_size < Word
        PROVE  Room = NewCapacity
    <3>1. NewCapacity * elem_size \in Nat
      BY <1>1, <2>2, Products
    <3>2. (NewCapacity * elem_size) % Word = NewCapacity * elem_size
      BY <1>1, <2>3, <3>1, Modulo
    <3>3. (NewCapacity * elem_size) \div elem_size = NewCapacity
      BY <1>1, <2>2, DivExact
    <3> QED
      BY <3>2, <3>3 DEF Room
  <2>4. ASSUME NewCapacity * elem_size >= Word
        PROVE  2 * capacity * elem_size >= Word /\ Room < capacity /\ Room \in Nat
    <3>1. NewCapacity = 2 * capacity
      BY <1>1, <2>1, <2>4
    <3>2. NewCapacity * elem_size = 2 * (capacity * elem_size)
      BY <1>2, <3>1
    <3> DEFINE bytes == (NewCapacity * elem_size) % Word
    <3>3. bytes = 2 * (capacity * elem_size) - Word
      <4>1. /\ 2 * (capacity * elem_size) \in Nat
            /\ Word <= 2 * (capacity * elem_size)
            /\ 2 * (capacity * elem_size) < 2 * Word
        BY <1>1, <1>2, <2>4, <3>2
      <4> DEFINE m == 2 * (capacity * elem_size)
      <4>2. m \in Nat /\ Word <= m /\ m < 2 * Word
        BY <4>1
      <4>3. m % Word = m - Word
        <5> HIDE DEF m
        <5> QED
          BY <1>1, <4>2, Modulo
      <4> QED
        BY <3>2, <4>3
    <3>4. bytes \in Nat /\ bytes < capacity * elem_size
      BY <1>1, <1>2, <2>4, <3>2, <3>3
    <3>5. bytes \div elem_size < capacity /\ bytes \div elem_size \in Nat
      <4> HIDE DEF bytes
      <4> QED
        BY <1>1, <3>4, DivLess
    <3> QED
      BY <1>2, <2>4, <3>2, <3>5 DEF Room
  <2> QED
    BY <2>1, <2>3, <2>4
<1>6. ASSUME NewCapacity <= capacity
      PROVE  elem_size = 1
  <2>1. capacity # 0
    BY <1>1, <1>6 DEF NewCapacity, ARRAY_INITIAL
  <2>2. NewCapacity = (2 * capacity) % Word
    BY <1>1, <2>1 DEF NewCapacity, ARRAY_GROWTH
  <2>3. 2 * capacity >= Word
    <3>1. CASE 2 * capacity < Word
      <4> DEFINE m == 2 * capacity
      <4>1. m % Word = m
        <5>1. m \in Nat /\ m < Word
          BY <1>1, <3>1
        <5> HIDE DEF m
        <5> QED
          BY <1>1, <5>1, Modulo
      <4>2. NewCapacity = 2 * capacity
        BY <2>2, <4>1
      <4> QED
        BY <1>1, <1>6, <2>1, <4>2
    <3> QED
      BY <1>1, <3>1
  <2>4. CASE elem_size >= 2
    <3>1. 2 * capacity <= capacity * elem_size
      <4>1. elem_size - 2 \in Nat /\ (elem_size - 2) + 2 = elem_size
        BY <1>1, <2>4
      <4> QED
        BY <1>1, <4>1, TwiceAtLeast
    <3> QED
      BY <1>1, <1>2, <2>3, <3>1
  <2> QED
    BY <1>1, <2>4
<1> QED
  BY <1>4, <1>5, <1>6

-------------------------------------------------------------------------------

\* The capacity stays even, so that the length never reaches the last value of
\* usize_t (see Growth), and OverrunCause and PanicCause need nothing else: the
\* inductive invariant is the conjunction of the three.
IInv == TypeOK /\ OverrunCause /\ PanicCause

LEMMA InitIInv == Init => IInv
<1> SUFFICES ASSUME Init PROVE IInv
  OBVIOUS
<1>1. elem_size \in Nat /\ 0 * elem_size = 0 /\ 0 < Word /\ 0 % 2 = 0
  BY EventArrayAssumption DEF Init, ARRAY_INITIAL
<1>2. TypeOK
  BY <1>1 DEF Init, TypeOK
<1> QED
  BY <1>2 DEF Init, IInv, OverrunCause, PanicCause

LEMMA StepIInv == IInv /\ [Next]_vars => IInv'
<1> SUFFICES ASSUME IInv, [Next]_vars PROVE IInv'
  OBVIOUS
<1> USE DEF IInv
<1>1. /\ elem_size \in Nat /\ 0 < elem_size /\ 4 * elem_size < Word
      /\ Word \in Nat /\ 4 < Word
      /\ length \in Nat /\ capacity \in Nat /\ length <= capacity
      /\ capacity * elem_size < Word
      /\ capacity <= capacity * elem_size /\ capacity < Word
      /\ None \notin Elems
  BY EventArrayAssumption, Products DEF TypeOK, ARRAY_INITIAL
<1>2. ASSUME NEW e \in Elems, PushInPlace(e) PROVE IInv'
  <2>1. length + 1 <= capacity
    <3>1. (length + 1) % Word <= capacity
      BY <1>2, <1>1 DEF PushInPlace, NeedsResize
    <3>2. CASE length + 1 < Word
      BY <1>1, <3>1, <3>2, Modulo
    <3>3. CASE length + 1 >= Word
      BY <1>1, <3>3, EventArrayAssumption DEF TypeOK
    <3> QED
      BY <1>1, <3>2, <3>3
  <2>2. /\ slots' = [slots EXCEPT ![length + 1] = e] /\ length' = length + 1
        /\ UNCHANGED << capacity, elem_size, status, result >>
    BY <1>2 DEF PushInPlace, PushInto
  <2>3. slots' \in Seq(Elems \union {None}) /\ Len(slots') = capacity
    BY <1>1, <2>1, <2>2 DEF TypeOK
  <2>4. \A i \in 1 .. length' : slots'[i] \in Elems
    BY <1>1, <2>1, <2>2 DEF TypeOK
  <2> QED
    BY <1>1, <2>1, <2>2, <2>3, <2>4 DEF TypeOK, OverrunCause, PanicCause
<1>3. ASSUME NEW e \in Elems, PushGrown(e) PROVE IInv'
  <2>1. NeedsResize /\ NewCapacity > capacity /\ length < Room
    BY <1>3 DEF PushGrown
  <2>2. /\ length = capacity
        /\ NewCapacity = IF capacity = 0 THEN 4 ELSE 2 * capacity
        /\ NewCapacity * elem_size < Word => Room = NewCapacity
        /\ NewCapacity * elem_size >= Word => Room < capacity /\ Room \in Nat
    BY <2>1, Growth
  <2>3. /\ NewCapacity \in Nat /\ NewCapacity % 2 = 0
        /\ NewCapacity * elem_size < Word /\ Room = NewCapacity
    BY <1>1, <2>1, <2>2 DEF TypeOK
  <2>4. /\ slots' = [Moved EXCEPT ![length + 1] = e] /\ length' = length + 1
        /\ capacity' = NewCapacity /\ UNCHANGED << elem_size, status, result >>
    BY <1>3 DEF PushGrown, PushInto
  <2>5. /\ Moved \in Seq(Elems \union {None}) /\ Len(Moved) = Room
        /\ \A i \in 1 .. length : Moved[i] \in Elems
    <3>1. \A i \in 1 .. length : slots[i] \in Elems /\ i \in 1 .. Room
      BY <1>1, <2>1, <2>3 DEF TypeOK
    <3>2. \A i \in 1 .. Room : Moved[i] \in Elems \union {None}
      BY <1>1, <2>3, <3>1 DEF Moved
    <3> QED
      BY <2>3, <3>1, <3>2 DEF Moved
  <2>6. slots' \in Seq(Elems \union {None}) /\ Len(slots') = capacity'
    BY <1>1, <2>1, <2>3, <2>4, <2>5
  <2>7. \A i \in 1 .. length' : slots'[i] \in Elems
    BY <1>1, <2>1, <2>3, <2>4, <2>5
  <2>8. TypeOK'
    BY <1>1, <2>1, <2>2, <2>3, <2>4, <2>6, <2>7 DEF TypeOK
  <2>9. status' = "ok"
    BY <1>3, <2>4 DEF PushGrown
  <2> QED
    BY <2>8, <2>9 DEF OverrunCause, PanicCause
<1>4. CASE PushOverruns
  <2>1. NeedsResize /\ NewCapacity > capacity /\ length >= Room
    BY <1>4 DEF PushOverruns
  <2>2. 2 * capacity * elem_size >= Word
    BY <1>1, <2>1, Growth
  <2> QED
    BY <1>4, <2>2 DEF PushOverruns, TypeOK, OverrunCause, PanicCause, ARRAY_GROWTH
<1>5. CASE PushPanics
  <2>1. NeedsResize /\ NewCapacity <= capacity
    BY <1>5 DEF PushPanics
  <2>2. elem_size = 1
    BY <2>1, Growth
  <2> QED
    BY <1>5, <2>2 DEF PushPanics, TypeOK, OverrunCause, PanicCause
<1>6. CASE PopEmpty
  BY <1>6 DEF PopEmpty, TypeOK, OverrunCause, PanicCause
<1>7. CASE Pop
  <2>1. slots[length] \in Elems /\ length - 1 \in Nat
    BY <1>1, <1>7, SMTT(30) DEF Pop, TypeOK
  <2> QED
    BY <1>1, <1>7, <2>1 DEF Pop, TypeOK, OverrunCause, PanicCause
<1>8. CASE Deinit
  <2>1. /\ slots' = <<>> /\ length' = 0 /\ capacity' = 0 /\ status = "ok"
        /\ UNCHANGED << elem_size, status, result >>
    BY <1>8 DEF Deinit
  <2>2. 0 * elem_size < Word /\ 0 % 2 = 0
    BY <1>1
  <2> QED
    BY <2>1, <2>2 DEF TypeOK, OverrunCause, PanicCause
<1>9. CASE UNCHANGED vars
  BY <1>9 DEF vars, TypeOK, OverrunCause, PanicCause
<1> QED
  BY <1>2, <1>3, <1>4, <1>5, <1>6, <1>7, <1>8, <1>9 DEF Next

\* Every element the array counts is in its allocation, whatever was pushed and
\* popped: the code around array_push and array_pop never reads a slot that was
\* not written.
THEOREM ArrayTypeOK == Spec => []TypeOK
<1>1. IInv => TypeOK
  BY DEF IInv
<1> QED
  BY InitIInv, StepIInv, <1>1, PTL DEF Spec

\* An array leaves its allocation only when the bytes of the next one wrap, and
\* the assert of array_resize catches only the arrays of bytes.
THEOREM ArrayLimitCause == Spec => []LimitCause
<1>1. IInv => LimitCause
  BY DEF IInv, LimitCause
<1> QED
  BY InitIInv, StepIInv, <1>1, PTL DEF Spec

-------------------------------------------------------------------------------

\* A prefix determined by its elements, and a prefix one longer.
LEMMA PrefixEqual ==
  ASSUME NEW S, NEW s \in Seq(S), NEW t \in Seq(S), NEW n \in Nat,
         n <= Len(s), n <= Len(t), \A i \in 1 .. n : s[i] = t[i]
  PROVE  SubSeq(s, 1, n) = SubSeq(t, 1, n)
<1>1. /\ SubSeq(s, 1, n) \in Seq(S) /\ Len(SubSeq(s, 1, n)) = n
      /\ \A i \in 1 .. n : SubSeq(s, 1, n)[i] = s[i]
  BY SubSeqProperties
<1>2. /\ SubSeq(t, 1, n) \in Seq(S) /\ Len(SubSeq(t, 1, n)) = n
      /\ \A i \in 1 .. n : SubSeq(t, 1, n)[i] = t[i]
  BY SubSeqProperties
<1> QED
  BY <1>1, <1>2, SeqEqual

LEMMA PrefixAppend ==
  ASSUME NEW S, NEW s \in Seq(S), NEW t \in Seq(S), NEW n \in Nat,
         n <= Len(s), n + 1 <= Len(t), \A i \in 1 .. n : s[i] = t[i]
  PROVE  SubSeq(t, 1, n + 1) = Append(SubSeq(s, 1, n), t[n + 1])
<1>1. SubSeq(t, 1, n + 1) = SubSeq(t, 1, n) \o << t[n + 1] >>
  <2> DEFINE m == n + 1
  <2>1. 1 \in 1 .. Len(t) /\ m \in 1 .. Len(t) /\ m - 1 = n
    OBVIOUS
  <2> HIDE DEF m
  <2>2. SubSeq(t, 1, m) = SubSeq(t, 1, m - 1) \o << t[m] >>
    BY <2>1, SubSeqRecursiveSecond
  <2> QED
    BY <2>1, <2>2 DEF m
<1>2. SubSeq(t, 1, n) = SubSeq(s, 1, n)
  BY PrefixEqual
<1>3. SubSeq(s, 1, n) \in Seq(S) /\ t[n + 1] \in S
  BY SubSeqProperties
<1> QED
  BY <1>1, <1>2, <1>3, AppendIsConcat

LEMMA InitStack == Init => Stack!Init
<1>1. SubSeq(<<>>, 1, 0) = <<>>
  BY SubSeqEmpty
<1> QED
  BY <1>1 DEF Init, Stack!Init

\* Each step of the array is the step of the stack with the same name, or leaves
\* the stack alone.
LEMMA StepStack ==
  ASSUME TypeOK, TypeOK', [Next]_vars
  PROVE  [Stack!Next]_<< SubSeq(slots, 1, length), result >>
<1> DEFINE S == Elems \union {None}
           stack == SubSeq(slots, 1, length)
<1>1. /\ slots \in Seq(S) /\ slots' \in Seq(S)
      /\ length \in Nat /\ length <= Len(slots)
      /\ length' \in Nat /\ length' <= Len(slots')
  BY DEF TypeOK
<1>2. Len(stack) = length
  BY <1>1, SubSeqProperties
<1>3. ASSUME NEW e \in Elems, PushInPlace(e) PROVE Stack!Push(e)
  <2>1. /\ slots' = [slots EXCEPT ![length + 1] = e]
        /\ length' = length + 1 /\ result' = result
    BY <1>3 DEF PushInPlace, PushInto
  <2>2. Len(slots') = Len(slots)
    BY <1>1, <2>1
  <2>3. slots'[length + 1] = e /\ \A i \in 1 .. length : slots[i] = slots'[i]
    BY <1>1, <2>1, <2>2
  <2>4. SubSeq(slots', 1, length + 1) = Append(stack, slots'[length + 1])
    BY <1>1, <2>1, <2>3, PrefixAppend
  <2> QED
    BY <2>1, <2>3, <2>4 DEF Stack!Push
<1>4. ASSUME NEW e \in Elems, PushGrown(e) PROVE Stack!Push(e)
  <2>1. /\ slots' = [Moved EXCEPT ![length + 1] = e] /\ length < Room
        /\ length' = length + 1 /\ result' = result
    BY <1>4 DEF PushGrown, PushInto
  <2>2. slots'[length + 1] = e /\ \A i \in 1 .. length : slots[i] = slots'[i]
    <3>1. Room \in Nat
      <4>1. NeedsResize /\ NewCapacity > capacity
        BY <1>4 DEF PushGrown
      <4>2. capacity \in Nat /\ elem_size \in Nat /\ Word \in Nat
        BY EventArrayAssumption DEF TypeOK
      <4>3. NewCapacity = IF capacity = 0 THEN 4 ELSE 2 * capacity
        BY <4>1, Growth
      <4>4. NewCapacity \in Nat /\ NewCapacity * elem_size \in Nat
        BY <4>2, <4>3
      <4> QED
        BY <4>1, <4>2, <4>4, Growth
    <3>2. /\ length + 1 \in 1 .. Room /\ \A i \in 1 .. length : i \in 1 .. Room
          /\ \A i \in 1 .. length : i # length + 1
      BY <1>1, <2>1, <3>1
    <3> QED
      BY <1>1, <2>1, <3>2 DEF Moved
  <2>3. SubSeq(slots', 1, length + 1) = Append(stack, slots'[length + 1])
    BY <1>1, <2>1, <2>2, PrefixAppend
  <2> QED
    BY <2>1, <2>2, <2>3 DEF Stack!Push
<1>5. ASSUME PopEmpty PROVE Stack!Pop
  <2>1. stack = <<>>
    BY <1>5, SubSeqEmpty DEF PopEmpty
  <2> QED
    BY <1>5, <2>1 DEF PopEmpty, Stack!Pop
<1>6. ASSUME Pop PROVE Stack!Pop
  <2>1. /\ length # 0 /\ length' = length - 1 /\ slots' = slots
        /\ result' = slots[length]
    BY <1>6 DEF Pop
  <2>2. stack # <<>> /\ stack[Len(stack)] = slots[length]
    BY <1>1, <1>2, <2>1, SubSeqProperties
  <2>3. SubSeq(stack, 1, length - 1) = SubSeq(slots, 1, length - 1)
    <3>1. /\ stack \in Seq(S)
          /\ \A i \in 1 .. length - 1 : stack[i] = slots[i]
      BY <1>1, <2>1, SubSeqProperties
    <3> QED
      BY <1>1, <1>2, <2>1, <3>1, PrefixEqual
  <2> QED
    BY <1>2, <2>1, <2>2, <2>3 DEF Stack!Pop
<1>7. ASSUME Deinit PROVE Stack!Clear
  <2>1. SubSeq(slots', 1, length') = <<>>
    BY <1>7, SubSeqEmpty DEF Deinit
  <2> QED
    BY <1>7, <2>1 DEF Deinit, Stack!Clear
<1>8. ASSUME PushOverruns \/ PushPanics \/ UNCHANGED vars
      PROVE  UNCHANGED << stack, result >>
  BY <1>8 DEF PushOverruns, PushPanics, vars
<1> QED
  BY <1>3, <1>4, <1>5, <1>6, <1>7, <1>8 DEF Next, Stack!Next

\* The growable array implements the unbounded stack.
THEOREM ArrayIsStack == Spec => ImplementsStack
<1>1. TypeOK /\ TypeOK' /\ [Next]_vars =>
        [Stack!Next]_<< SubSeq(slots, 1, length), result >>
  BY StepStack
<1> QED
  BY ArrayTypeOK, InitStack, <1>1, PTL DEF Spec, ImplementsStack, Stack!Spec

===============================================================================
