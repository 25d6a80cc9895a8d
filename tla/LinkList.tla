------------------------------- MODULE LinkList -------------------------------
(***************************************************************************)
(* The intrusive doubly linked list of src/list.c, at pointer level.       *)
(*                                                                         *)
(* A link is embedded in the object it chains, and belongs to the caller.  *)
(* The operators below map the memory before a call to the memory after    *)
(* it, one operator per C function, with the reads and writes in the order *)
(* of the code.  Nothing in list.c ever clears the two pointers of a link: *)
(* list_remove leaves them as they were and list_push to an empty list     *)
(* does not set them.                                                      *)
(***************************************************************************)
EXTENDS Integers, Sequences

CONSTANTS
  Links,  \* the link objects
  Lists,  \* the struct list_s objects
  NULL,   \* the null pointer
  Junk    \* any other bit pattern: the pointer of memory nobody initialised

ASSUME PointersDistinct ==
  /\ NULL \notin Links
  /\ Junk \notin Links
  /\ NULL # Junk

Ptr == Links \union {NULL, Junk}

\* What the list code can see of the memory.  "fault" records that the code
\* followed a pointer that leads to no link: the process is gone from there on.
Memory == [ next  : [Links -> Ptr],
            prev  : [Links -> Ptr],
            head  : [Lists -> Links \union {NULL}],
            tail  : [Lists -> Links \union {NULL}],
            fault : BOOLEAN ]

Fault(m) == [m EXCEPT !.fault = TRUE]

\* (struct list_s){0}
Zeroed(m, l) == [m EXCEPT !.head[l] = NULL, !.tail[l] = NULL]

-------------------------------------------------------------------------------

ListInsertAfter(m, l, link, new) ==
  LET after == m.next[link]
      m1 == [m EXCEPT !.next[new] = after, !.prev[new] = link]
      m2 == IF after = NULL THEN [m1 EXCEPT !.tail[l] = new]
                            ELSE [m1 EXCEPT !.prev[after] = new]
  IN  IF after = Junk THEN Fault(m) ELSE [m2 EXCEPT !.next[link] = new]

ListPush(m, l, new) ==
  IF m.tail[l] = NULL THEN [m EXCEPT !.head[l] = new, !.tail[l] = new]
                      ELSE ListInsertAfter(m, l, m.tail[l], new)

\* Mutant: removing the last link leaves the tail.
ListRemoveKeepsTail(m, l, link) ==
  LET before == m.prev[link]
      after  == m.next[link]
      m1 == IF before = NULL THEN [m EXCEPT !.head[l] = after]
                             ELSE [m EXCEPT !.next[before] = after]
  IN  IF before = Junk \/ after = Junk THEN Fault(m)
      ELSE IF after = NULL THEN m1 ELSE [m1 EXCEPT !.prev[after] = before]

ListRemove(m, l, link) ==
  LET before == m.prev[link]
      m1 == IF before = NULL THEN [m EXCEPT !.head[l] = m.next[link]]
                             ELSE [m EXCEPT !.next[before] = m.next[link]]
      after == m1.next[link]
      m2 == IF after = NULL THEN [m1 EXCEPT !.tail[l] = before]
                            ELSE [m1 EXCEPT !.prev[after] = before]
  IN  IF before = Junk \/ after = Junk THEN Fault(m) ELSE m2

\* The link list_pop_front returns, and the memory it leaves.
ListFront(m, l) == m.head[l]

ListPopFront(m, l) ==
  IF m.head[l] = NULL THEN m ELSE ListRemove(m, l, m.head[l])

-------------------------------------------------------------------------------

\* What a caller means by "the list l holds the links of s, in that order".
Represents(m, l, s) ==
  /\ m.head[l] = IF s = <<>> THEN NULL ELSE s[1]
  /\ m.tail[l] = IF s = <<>> THEN NULL ELSE s[Len(s)]
  /\ \A i \in 1 .. Len(s) :
       /\ m.next[s[i]] = IF i = Len(s) THEN NULL ELSE s[i + 1]
       /\ m.prev[s[i]] = IF i = 1 THEN NULL ELSE s[i - 1]
  /\ \A i, j \in 1 .. Len(s) : s[i] = s[j] => i = j

\* Both pointers of a link are null.
Clean(m, link) == m.next[link] = NULL /\ m.prev[link] = NULL

===============================================================================
