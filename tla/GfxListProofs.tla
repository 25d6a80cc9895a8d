----------------------------- MODULE GfxListProofs -----------------------------
(***************************************************************************)
(* The lists of Gfx hold what its callers believe they hold, for every set *)
(* of blocks, however long the lists are and whatever fresh memory holds.  *)
(* The first part is about list.c alone: what each operation does to the   *)
(* list it is called on, and that it leaves every other list as it was.    *)
(***************************************************************************)
EXTENDS GfxProofs

-------------------------------------------------------------------------------
(***************************************************************************)
(* Sequences without repetition.                                           *)
(***************************************************************************)
Injective(s) == \A i, j \in 1 .. Len(s) : s[i] = s[j] => i = j

\* t is s without its k-th element.
Without(s, k, t) ==
  /\ k \in 1 .. Len(s)
  /\ Len(t) = Len(s) - 1
  /\ \A i \in 1 .. Len(t) : t[i] = IF i < k THEN s[i] ELSE s[i + 1]

LEMMA RangeOf ==
  ASSUME NEW S, NEW s \in Seq(S)
  PROVE  /\ \A i \in 1 .. Len(s) : s[i] \in Range(s)
         /\ \A x \in Range(s) : \E i \in 1 .. Len(s) : x = s[i]
         /\ Range(s) \subseteq S
         /\ s = <<>> <=> Range(s) = {}
<1>1. Range(s) = { s[i] : i \in 1 .. Len(s) }
  BY DEF Range
<1>2. s = <<>> <=> Len(s) = 0
  BY EmptySeq
<1>3. Len(s) = 0 <=> 1 .. Len(s) = {}
  <2>1. Len(s) \in Nat
    OBVIOUS
  <2>2. Len(s) # 0 => 1 \in 1 .. Len(s)
    BY <2>1
  <2> QED
    BY <2>2
<1>4. \A i \in 1 .. Len(s) : s[i] \in S
  OBVIOUS
<1> QED
  BY <1>1, <1>2, <1>3, <1>4

LEMMA RemoveAtWithout ==
  ASSUME NEW S, NEW s \in Seq(S), NEW k \in Nat, 1 <= k, k <= Len(s)
  PROVE  RemoveAt(s, k) \in Seq(S) /\ Without(s, k, RemoveAt(s, k))
<1> DEFINE a == SubSeq(s, 1, k - 1)
           b == SubSeq(s, k + 1, Len(s))
<1>1. /\ a \in Seq(S) /\ Len(a) = k - 1
      /\ \A i \in 1 .. Len(a) : a[i] = s[i]
  BY SubSeqProperties
<1>2. /\ b \in Seq(S) /\ Len(b) = Len(s) - k
      /\ \A i \in 1 .. Len(b) : b[i] = s[k + i]
  BY SubSeqProperties
<1>3. RemoveAt(s, k) = a \o b
  BY DEF RemoveAt
<1> HIDE DEF a, b
<1>4. /\ a \o b \in Seq(S) /\ Len(a \o b) = Len(a) + Len(b)
      /\ \A i \in 1 .. Len(a) + Len(b) :
           (a \o b)[i] = IF i <= Len(a) THEN a[i] ELSE b[i - Len(a)]
  BY <1>1, <1>2, ConcatProperties
<1> DEFINE t == a \o b
<1> HIDE DEF t
<1>5. t \in Seq(S) /\ Len(t) = Len(s) - 1
  BY <1>1, <1>2, <1>4 DEF t
<1>6. ASSUME NEW i \in 1 .. Len(t) PROVE t[i] = IF i < k THEN s[i] ELSE s[i + 1]
  <2>1. CASE i < k
    BY <1>1, <1>2, <1>4, <1>5, <2>1 DEF t
  <2>2. CASE ~(i < k)
    <3>1. i - (k - 1) \in 1 .. Len(b) /\ k + (i - (k - 1)) = i + 1
      BY <1>1, <1>2, <1>5, <2>2
    <3>2. t[i] = b[i - (k - 1)]
      BY <1>1, <1>2, <1>4, <1>5, <2>2 DEF t
    <3> QED
      BY <1>2, <2>2, <3>1, <3>2
  <2> QED
    BY <2>1, <2>2
<1> QED
  BY <1>3, <1>5, <1>6 DEF Without, t

\* RemoveFirst takes out the one place where the element is.
LEMMA RemoveFirstWithout ==
  ASSUME NEW S, NEW s \in Seq(S), Injective(s), NEW e, e \in Range(s)
  PROVE  /\ RemoveFirst(s, e) \in Seq(S)
         /\ \E k \in 1 .. Len(s) : s[k] = e /\ Without(s, k, RemoveFirst(s, e))
<1>1. PICK k \in 1 .. Len(s) : s[k] = e
  BY RangeOf
<1> DEFINE I == { i \in 1 .. Len(s) : s[i] = e }
<1>2. I = {k}
  BY <1>1 DEF Injective
<1>3. SelectInSeq(s, LAMBDA v : v = e) = Min(I)
  BY <1>2 DEF SelectInSeq
<1>4. Min(I) = k
  <2>1. Min({k}) \in {k}
    <3>1. \E x \in {k} : \A y \in {k} : x <= y
      OBVIOUS
    <3> QED
      BY <3>1 DEF Min
  <2> QED
    BY <1>2, <2>1
<1>5. RemoveFirst(s, e) = RemoveAt(s, k)
  BY <1>1, <1>3, <1>4 DEF RemoveFirst
<1> QED
  BY <1>1, <1>5, RemoveAtWithout

LEMMA WithoutFacts ==
  ASSUME NEW S, NEW s \in Seq(S), NEW t \in Seq(S), Injective(s),
         NEW k, Without(s, k, t)
  PROVE  /\ Injective(t)
         /\ Range(t) = Range(s) \ {s[k]}
         /\ s[k] \in Range(s) /\ s[k] \notin Range(t)
<1>1. k \in 1 .. Len(s) /\ Len(t) = Len(s) - 1 /\ Len(s) \in Nat
  BY DEF Without
<1>2. \A i \in 1 .. Len(t) : t[i] = IF i < k THEN s[i] ELSE s[i + 1]
  BY DEF Without
<1>3. Injective(t)
  BY <1>1, <1>2 DEF Injective
<1>4. ASSUME NEW x \in Range(t) PROVE x \in Range(s) \ {s[k]}
  <2>1. PICK i \in 1 .. Len(t) : x = t[i]
    BY RangeOf
  <2>2. PICK j \in 1 .. Len(s) : j # k /\ x = s[j]
    <3>1. CASE i < k
      BY <1>1, <1>2, <2>1, <3>1
    <3>2. CASE ~(i < k)
      BY <1>1, <1>2, <2>1, <3>2
    <3> QED
      BY <3>1, <3>2
  <2> QED
    BY <1>1, <2>2, RangeOf DEF Injective
<1>5. ASSUME NEW x \in Range(s), x # s[k] PROVE x \in Range(t)
  <2>1. PICK j \in 1 .. Len(s) : x = s[j]
    BY RangeOf
  <2>2. PICK i \in 1 .. Len(t) : x = t[i]
    <3>1. CASE j < k
      BY <1>1, <1>2, <2>1, <3>1
    <3>2. CASE ~(j < k)
      <4>1. j # k
        BY <1>5, <2>1
      <4>2. j - 1 \in 1 .. Len(t) /\ ~(j - 1 < k) /\ (j - 1) + 1 = j
        BY <1>1, <3>2, <4>1
      <4> QED
        BY <1>2, <2>1, <4>2
    <3> QED
      BY <3>1, <3>2
  <2> QED
    BY <2>2, RangeOf
<1> QED
  BY <1>1, <1>3, <1>4, <1>5, RangeOf

\* Appending an element a sequence does not have.
LEMMA AppendOnceFacts ==
  ASSUME NEW S, NEW s \in Seq(S), Injective(s), NEW e \in S, e \notin Range(s)
  PROVE  /\ AppendOnce(s, e) = Append(s, e)
         /\ AppendOnce(s, e) \in Seq(S)
         /\ Injective(AppendOnce(s, e))
         /\ Range(AppendOnce(s, e)) = Range(s) \union {e}
<1>1. ~Contains(s, e)
  BY RangeOf DEF Contains
<1>2. AppendOnce(s, e) = Append(s, e)
  BY <1>1 DEF AppendOnce
<1> DEFINE t == Append(s, e)
<1>3. /\ t \in Seq(S) /\ Len(t) = Len(s) + 1 /\ t[Len(s) + 1] = e
      /\ \A i \in 1 .. Len(s) : t[i] = s[i]
  OBVIOUS
<1> HIDE DEF t
<1>4. Injective(t)
  <2> SUFFICES ASSUME NEW i \in 1 .. Len(t), NEW j \in 1 .. Len(t), t[i] = t[j]
               PROVE  i = j
    BY DEF Injective
  <2>1. \A n \in 1 .. Len(s) : s[n] # e
    BY RangeOf
  <2>2. CASE i = Len(s) + 1
    BY <1>3, <2>1, <2>2
  <2>3. CASE j = Len(s) + 1
    BY <1>3, <2>1, <2>3
  <2>4. CASE i \in 1 .. Len(s) /\ j \in 1 .. Len(s)
    BY <1>3, <2>4 DEF Injective
  <2> QED
    BY <1>3, <2>2, <2>3, <2>4
<1>5. Range(t) = Range(s) \union {e}
  <2>1. ASSUME NEW x \in Range(t) PROVE x \in Range(s) \union {e}
    <3>1. PICK i \in 1 .. Len(t) : x = t[i]
      BY <1>3, RangeOf
    <3> QED
      BY <1>3, <3>1, RangeOf
  <2>2. ASSUME NEW x \in Range(s) PROVE x \in Range(t)
    <3>1. PICK i \in 1 .. Len(s) : x = s[i]
      BY RangeOf
    <3>2. i \in 1 .. Len(t) /\ t[i] = x
      BY <1>3, <3>1
    <3> QED
      BY <1>3, <3>2, RangeOf
  <2>3. e \in Range(t)
    <3>1. Len(s) + 1 \in 1 .. Len(t)
      BY <1>3
    <3> QED
      BY <1>3, <3>1, RangeOf
  <2> QED
    BY <2>1, <2>2, <2>3
<1> QED
  BY <1>2, <1>3, <1>4, <1>5 DEF t


-------------------------------------------------------------------------------
(***************************************************************************)
(* list.c.  Between two memories a list is untouched when its two ends and *)
(* the pointers of its links are the same.                                 *)
(***************************************************************************)
Untouched(m, n, l, X) ==
  /\ n.head[l] = m.head[l] /\ n.tail[l] = m.tail[l]
  /\ \A x \in X : n.next[x] = m.next[x] /\ n.prev[x] = m.prev[x]

LEMMA UntouchedList ==
  ASSUME NEW m, NEW n, NEW l, NEW S, NEW s \in Seq(S),
         Represents(m, l, s), Untouched(m, n, l, Range(s))
  PROVE  Represents(n, l, s)
<1>1. \A i \in 1 .. Len(s) : s[i] \in Range(s)
  BY RangeOf
<1> QED
  BY <1>1 DEF Represents, Untouched

\* The ends of a list that holds the links of s.
LEMMA Ends ==
  ASSUME NEW m, NEW l, NEW s \in Seq(Links), Represents(m, l, s)
  PROVE  /\ Injective(s)
         /\ s = <<>> <=> m.head[l] = NULL
         /\ s = <<>> <=> m.tail[l] = NULL
         /\ s # <<>> => /\ Len(s) \in 1 .. Len(s) /\ 1 \in 1 .. Len(s)
                        /\ m.head[l] = s[1] /\ m.tail[l] = s[Len(s)]
                        /\ m.head[l] \in Range(s) /\ m.tail[l] \in Range(s)
<1>1. Injective(s)
  BY DEF Represents, Injective
<1>2. ASSUME s # <<>>
      PROVE  Len(s) \in 1 .. Len(s) /\ 1 \in 1 .. Len(s)
  BY <1>2, EmptySeq
<1>3. ASSUME s # <<>>
      PROVE  /\ m.head[l] = s[1] /\ m.tail[l] = s[Len(s)]
             /\ m.head[l] \in Range(s) /\ m.tail[l] \in Range(s)
  BY <1>2, <1>3, RangeOf DEF Represents
<1>4. NULL \notin Range(s)
  BY RangeOf, PointersDistinct
<1>5. s = <<>> => m.head[l] = NULL /\ m.tail[l] = NULL
  BY DEF Represents
<1> QED
  BY <1>1, <1>2, <1>3, <1>4, <1>5

\* An empty list is one whose ends are null.
LEMMA EmptyList ==
  ASSUME NEW m, NEW l
  PROVE  Represents(m, l, <<>>) <=> m.head[l] = NULL /\ m.tail[l] = NULL
  BY DEF Represents

\* list_push: the list has the link behind those it had.
THEOREM PushRepresents ==
  ASSUME NEW m \in Memory, NEW l \in Lists, NEW s \in Seq(Links),
         Represents(m, l, s), NEW b \in Links, b \notin Range(s),
         s = <<>> => Clean(m, b)
  PROVE  /\ Represents(ListPush(m, l, b), l, Append(s, b))
         /\ ListPush(m, l, b).fault = m.fault
<1> DEFINE n == ListPush(m, l, b)
           t == Append(s, b)
<1>1. /\ t \in Seq(Links) /\ Len(t) = Len(s) + 1 /\ t[Len(s) + 1] = b
      /\ \A i \in 1 .. Len(s) : t[i] = s[i]
      /\ t # <<>> /\ Len(s) \in Nat
  OBVIOUS
<1>2. Injective(t)
  <2>1. Injective(s)
    BY Ends
  <2>2. AppendOnce(s, b) = t /\ Injective(AppendOnce(s, b))
    BY <2>1, AppendOnceFacts
  <2> QED
    BY <2>2, Zenon
<1>3. CASE s = <<>>
  <2>1. n = [m EXCEPT !.head[l] = b, !.tail[l] = b]
    BY <1>3, Ends DEF ListPush
  <2>2. n.head[l] = b /\ n.tail[l] = b /\ n.next[b] = NULL /\ n.prev[b] = NULL
        /\ n.fault = m.fault
    BY <1>3, <2>1 DEF Memory, Clean
  <2>3. Len(t) = 1 /\ t[1] = b
    BY <1>1, <1>3
  <2> HIDE DEF n, t
  <2> QED
    BY <1>1, <1>2, <2>2, <2>3 DEF Represents, Injective, n, t
<1>4. CASE s # <<>>
  <2> DEFINE k == Len(s)
             last == s[k]
  <2>1. m.tail[l] = last /\ last \in Links /\ k \in 1 .. Len(s) /\ last # b
    BY <1>4, Ends, RangeOf
  <2>2. m.next[last] = NULL
    BY <2>1 DEF Represents
  <2>3. n = [m EXCEPT !.next[b] = NULL, !.prev[b] = last, !.tail[l] = b,
                      !.next[last] = b]
    BY <2>1, <2>2, PointersDistinct DEF ListPush, ListInsertAfter
  <2> HIDE DEF n, t, k, last
  <2>4. /\ n.head[l] = m.head[l] /\ n.tail[l] = b /\ n.fault = m.fault
        /\ n.next[b] = NULL /\ n.prev[b] = last /\ n.next[last] = b
        /\ \A x \in Links \ {b} : n.prev[x] = m.prev[x]
        /\ \A x \in Links \ {b, last} : n.next[x] = m.next[x]
    BY <2>1, <2>3 DEF Memory
  <2>5. n.head[l] = t[1] /\ n.tail[l] = t[Len(t)]
    <3>1. m.head[l] = s[1] /\ 1 \in 1 .. Len(s)
      BY <1>4, Ends
    <3> QED
      BY <1>1, <2>4, <3>1
  <2>6. ASSUME NEW i \in 1 .. Len(t)
        PROVE  /\ n.next[t[i]] = IF i = Len(t) THEN NULL ELSE t[i + 1]
               /\ n.prev[t[i]] = IF i = 1 THEN NULL ELSE t[i - 1]
    <3>1. CASE i = Len(t)
      <4>1. t[i] = b /\ i # 1 /\ i - 1 = k /\ k \in 1 .. Len(s)
        BY <1>1, <2>1, <3>1 DEF k
      <4>2. t[i - 1] = last
        BY <1>1, <4>1 DEF last
      <4> QED
        BY <2>4, <3>1, <4>1, <4>2
    <3>2. CASE i # Len(t)
      <4>1. i \in 1 .. Len(s) /\ t[i] = s[i] /\ s[i] \in Links /\ s[i] # b
        BY <1>1, <3>2, RangeOf
      <4>2. /\ m.next[s[i]] = IF i = Len(s) THEN NULL ELSE s[i + 1]
            /\ m.prev[s[i]] = IF i = 1 THEN NULL ELSE s[i - 1]
        BY <4>1 DEF Represents
      <4>3. n.prev[t[i]] = IF i = 1 THEN NULL ELSE t[i - 1]
        BY <1>1, <2>4, <4>1, <4>2
      <4>4. CASE i = k
        BY <1>1, <2>4, <3>2, <4>1, <4>3, <4>4 DEF last, k
      <4>5. CASE i # k
        <5>1. s[i] # last
          BY <2>1, <4>1, <4>5, Ends DEF Injective, last
        <5>2. i # Len(s) /\ i + 1 \in 1 .. Len(s)
          BY <1>1, <4>1, <4>5 DEF k
        <5> QED
          BY <1>1, <2>4, <3>2, <4>1, <4>2, <4>3, <5>1, <5>2
      <4> QED
        BY <4>4, <4>5
    <3> QED
      BY <3>1, <3>2
  <2> QED
    BY <1>1, <1>2, <2>4, <2>5, <2>6 DEF Represents, Injective, n, t
<1> QED
  BY <1>3, <1>4

\* ... and nothing else is touched.
LEMMA PushUntouched ==
  ASSUME NEW m \in Memory, NEW l \in Lists, NEW s \in Seq(Links),
         Represents(m, l, s), NEW b \in Links,
         NEW X, X \subseteq Links, b \notin X, X \cap Range(s) = {}
  PROVE  /\ \A o \in Lists \ {l} : Untouched(m, ListPush(m, l, b), o, X)
         /\ \A x \in X : /\ ListPush(m, l, b).next[x] = m.next[x]
                         /\ ListPush(m, l, b).prev[x] = m.prev[x]
<1> DEFINE n == ListPush(m, l, b)
<1>1. CASE s = <<>>
  <2>1. n = [m EXCEPT !.head[l] = b, !.tail[l] = b]
    BY <1>1, Ends DEF ListPush
  <2> QED
    BY <2>1 DEF Untouched, Memory
<1>2. CASE s # <<>>
  <2> DEFINE k == Len(s)
             last == s[k]
  <2>1. m.tail[l] = last /\ last \in Links /\ last \notin X /\ k \in 1 .. Len(s)
    BY <1>2, Ends, RangeOf
  <2>2. m.next[last] = NULL
    BY <2>1 DEF Represents
  <2>3. n = [m EXCEPT !.next[b] = NULL, !.prev[b] = last, !.tail[l] = b,
                      !.next[last] = b]
    BY <2>1, <2>2, PointersDistinct DEF ListPush, ListInsertAfter
  <2> HIDE DEF n, k, last
  <2> QED
    BY <2>1, <2>3 DEF Untouched, Memory, n
<1> QED
  BY <1>1, <1>2

\* list_remove of the k-th link: what it writes.
LEMMA RemoveEffect ==
  ASSUME NEW m \in Memory, NEW l \in Lists, NEW s \in Seq(Links),
         Represents(m, l, s), NEW k \in Nat, 1 <= k, k <= Len(s),
         NEW n, n = ListRemove(m, l, s[k])
  PROVE  /\ n.fault = m.fault
         /\ n.head[l] = IF k = 1 THEN m.next[s[k]] ELSE m.head[l]
         /\ n.tail[l] = IF k = Len(s) THEN m.prev[s[k]] ELSE m.tail[l]
         /\ \A o \in Lists \ {l} : n.head[o] = m.head[o] /\ n.tail[o] = m.tail[o]
         /\ \A x \in Links :
              /\ n.next[x] = IF k # 1 /\ x = s[k - 1] THEN m.next[s[k]] ELSE m.next[x]
              /\ n.prev[x] = IF k # Len(s) /\ x = s[k + 1] THEN m.prev[s[k]] ELSE m.prev[x]
<1> DEFINE b == s[k]
           before == m.prev[b]
           after == m.next[b]
<1>1. k \in 1 .. Len(s) /\ b \in Links /\ Len(s) \in Nat
  OBVIOUS
<1>2. /\ after = IF k = Len(s) THEN NULL ELSE s[k + 1]
      /\ before = IF k = 1 THEN NULL ELSE s[k - 1]
  BY <1>1 DEF Represents
<1>3. /\ k # 1 => s[k - 1] \in Links /\ s[k - 1] # b
      /\ k # Len(s) => s[k + 1] \in Links /\ s[k + 1] # b
  <2>1. k # 1 => k - 1 \in 1 .. Len(s) /\ k - 1 # k
    BY <1>1
  <2>2. k # Len(s) => k + 1 \in 1 .. Len(s) /\ k + 1 # k
    BY <1>1
  <2>3. Injective(s)
    BY Ends
  <2> QED
    BY <1>1, <2>1, <2>2, <2>3 DEF Injective
<1>4. before # Junk /\ after # Junk
      /\ (before = NULL <=> k = 1) /\ (after = NULL <=> k = Len(s))
  BY <1>2, <1>3, PointersDistinct
<1> DEFINE m1 == IF k = 1 THEN [m EXCEPT !.head[l] = after]
                          ELSE [m EXCEPT !.next[before] = after]
<1>5. m1.next[b] = after
  BY <1>1, <1>2, <1>3 DEF Memory
<1>6. n = IF k = Len(s) THEN [m1 EXCEPT !.tail[l] = before]
                        ELSE [m1 EXCEPT !.prev[after] = before]
  BY <1>4, <1>5 DEF ListRemove
<1>7. /\ m1.fault = m.fault /\ m1.prev = m.prev /\ m1.tail = m.tail
      /\ m1.head[l] = IF k = 1 THEN after ELSE m.head[l]
      /\ \A o \in Lists \ {l} : m1.head[o] = m.head[o]
      /\ \A x \in Links : m1.next[x] = IF k # 1 /\ x = before THEN after ELSE m.next[x]
      /\ m1 \in [next : [Links -> Ptr], prev : [Links -> Ptr], head : [Lists -> Ptr],
                 tail : [Lists -> Links \union {NULL}], fault : BOOLEAN]
  <2>0. after \in Ptr
    BY <1>1 DEF Memory
  <2>1. CASE k = 1
    BY <2>0, <2>1 DEF Memory, Ptr
  <2>2. CASE k # 1
    BY <1>2, <1>3, <2>0, <2>2 DEF Memory, Ptr
  <2> QED
    BY <2>1, <2>2
<1> HIDE DEF m1, before, after, b
<1>8. CASE k = Len(s)
  BY <1>2, <1>6, <1>7, <1>8 DEF b, before, after
<1>9. CASE k # Len(s)
  <2>1. after \in Links
    BY <1>2, <1>3, <1>9
  <2>2. n = [m1 EXCEPT !.prev[after] = before]
    BY <1>6, <1>9
  <2>3. /\ n.fault = m.fault /\ n.head = m1.head /\ n.tail = m1.tail /\ n.next = m1.next
        /\ \A x \in Links : n.prev[x] = IF x = after THEN before ELSE m.prev[x]
    BY <1>7, <2>1, <2>2
  <2> QED
    BY <1>2, <1>7, <1>9, <2>3 DEF b, before, after
<1> QED
  BY <1>8, <1>9

\* list_remove: the list has the other links, in the order they had.
THEOREM RemoveRepresents ==
  ASSUME NEW m \in Memory, NEW l \in Lists, NEW s \in Seq(Links), NEW t \in Seq(Links),
         Represents(m, l, s), NEW k, Without(s, k, t)
  PROVE  /\ Represents(ListRemove(m, l, s[k]), l, t)
         /\ ListRemove(m, l, s[k]).fault = m.fault
<1> DEFINE n == ListRemove(m, l, s[k])
<1>1. k \in Nat /\ 1 <= k /\ k <= Len(s) /\ Len(s) \in Nat /\ Len(t) = Len(s) - 1
  BY DEF Without
<1>2. \A i \in 1 .. Len(t) : t[i] = IF i < k THEN s[i] ELSE s[i + 1]
  BY DEF Without
<1>3. /\ n.fault = m.fault
      /\ n.head[l] = IF k = 1 THEN m.next[s[k]] ELSE m.head[l]
      /\ n.tail[l] = IF k = Len(s) THEN m.prev[s[k]] ELSE m.tail[l]
      /\ \A x \in Links :
           /\ n.next[x] = IF k # 1 /\ x = s[k - 1] THEN m.next[s[k]] ELSE m.next[x]
           /\ n.prev[x] = IF k # Len(s) /\ x = s[k + 1] THEN m.prev[s[k]] ELSE m.prev[x]
  BY <1>1, RemoveEffect
<1> HIDE DEF n
<1>4. Injective(s) /\ Injective(t)
  BY Ends, WithoutFacts
<1>5. \A i \in 1 .. Len(s) :
        /\ s[i] \in Links
        /\ m.next[s[i]] = IF i = Len(s) THEN NULL ELSE s[i + 1]
        /\ m.prev[s[i]] = IF i = 1 THEN NULL ELSE s[i - 1]
  BY DEF Represents
<1>6. /\ m.head[l] = s[1] /\ m.tail[l] = s[Len(s)]
  BY <1>1, EmptySeq DEF Represents
<1>7. t = <<>> <=> Len(s) = 1
  BY <1>1, EmptySeq
<1>8. n.head[l] = IF t = <<>> THEN NULL ELSE t[1]
  <2>1. CASE k = 1
    <3>1. n.head[l] = IF Len(s) = 1 THEN NULL ELSE s[2]
      BY <1>1, <1>3, <1>5, <2>1
    <3>2. Len(s) # 1 => t[1] = s[2]
      BY <1>1, <1>2, <2>1
    <3> QED
      BY <1>7, <3>1, <3>2
  <2>2. CASE k # 1
    <3>1. Len(s) # 1 /\ t[1] = s[1]
      BY <1>1, <1>2, <2>2
    <3> QED
      BY <1>3, <1>6, <1>7, <2>2, <3>1
  <2> QED
    BY <2>1, <2>2
<1>9. n.tail[l] = IF t = <<>> THEN NULL ELSE t[Len(t)]
  <2>1. CASE k = Len(s)
    <3>1. n.tail[l] = IF Len(s) = 1 THEN NULL ELSE s[Len(s) - 1]
      BY <1>1, <1>3, <1>5, <2>1
    <3>2. Len(s) # 1 => t[Len(t)] = s[Len(s) - 1]
      BY <1>1, <1>2, <2>1
    <3> QED
      BY <1>7, <3>1, <3>2
  <2>2. CASE k # Len(s)
    <3>1. Len(s) # 1 /\ t[Len(t)] = s[Len(s)]
      BY <1>1, <1>2, <2>2
    <3> QED
      BY <1>3, <1>6, <1>7, <2>2, <3>1
  <2> QED
    BY <2>1, <2>2
<1>10. ASSUME NEW i \in 1 .. Len(t)
       PROVE  n.next[t[i]] = IF i = Len(t) THEN NULL ELSE t[i + 1]
  <2> DEFINE j == IF i < k THEN i ELSE i + 1
  <2>1. j \in 1 .. Len(s) /\ t[i] = s[j] /\ j # k
    BY <1>1, <1>2
  <2>2. CASE j = k - 1
    <3>1. n.next[s[j]] = m.next[s[k]]
      BY <1>1, <1>3, <1>5, <2>1, <2>2
    <3>2. m.next[s[k]] = IF k = Len(s) THEN NULL ELSE s[k + 1]
      BY <1>1, <1>5
    <3>3. i = k - 1 /\ (i = Len(t) <=> k = Len(s))
      BY <1>1, <2>1, <2>2
    <3>4. k # Len(s) => t[i + 1] = s[k + 1]
      BY <1>1, <1>2, <3>3
    <3> QED
      BY <2>1, <3>1, <3>2, <3>3, <3>4
  <2>3. CASE j # k - 1
    <3>1. k # 1 => s[j] # s[k - 1]
      <4>1. k # 1 => k - 1 \in 1 .. Len(s)
        BY <1>1
      <4> QED
        BY <1>4, <2>1, <2>3, <4>1 DEF Injective
    <3>2. n.next[s[j]] = IF j = Len(s) THEN NULL ELSE s[j + 1]
      <4>1. s[j] \in Links /\ m.next[s[j]] = IF j = Len(s) THEN NULL ELSE s[j + 1]
        BY <1>5, <2>1
      <4>2. n.next[s[j]] = m.next[s[j]]
        BY <1>3, <3>1, <4>1
      <4> QED
        BY <4>1, <4>2
    <3>3. i = Len(t) <=> j = Len(s)
      BY <1>1, <2>1, <2>3
    <3>4. i # Len(t) => t[i + 1] = s[j + 1]
      <4>1. CASE i < k
        <5>1. j = i /\ i + 1 < k
          BY <1>1, <2>3, <4>1
        <5> QED
          BY <1>1, <1>2, <5>1
      <4>2. CASE ~(i < k)
        BY <1>1, <1>2, <4>2
      <4> QED
        BY <4>1, <4>2
    <3> QED
      BY <2>1, <3>2, <3>3, <3>4
  <2> QED
    BY <2>2, <2>3
<1>11. ASSUME NEW i \in 1 .. Len(t)
       PROVE  n.prev[t[i]] = IF i = 1 THEN NULL ELSE t[i - 1]
  <2> DEFINE j == IF i < k THEN i ELSE i + 1
  <2>1. j \in 1 .. Len(s) /\ t[i] = s[j] /\ j # k
    BY <1>1, <1>2
  <2>2. CASE j = k + 1
    <3>1. n.prev[s[j]] = m.prev[s[k]]
      BY <1>1, <1>3, <1>5, <2>1, <2>2
    <3>2. m.prev[s[k]] = IF k = 1 THEN NULL ELSE s[k - 1]
      BY <1>1, <1>5
    <3>3. i = k
      BY <1>1, <2>1, <2>2
    <3>4. k # 1 => t[i - 1] = s[k - 1]
      BY <1>1, <1>2, <3>3
    <3> QED
      BY <2>1, <3>1, <3>2, <3>3, <3>4
  <2>3. CASE j # k + 1
    <3>1. k # Len(s) => s[j] # s[k + 1]
      <4>1. k # Len(s) => k + 1 \in 1 .. Len(s)
        BY <1>1
      <4> QED
        BY <1>4, <2>1, <2>3, <4>1 DEF Injective
    <3>2. n.prev[s[j]] = IF j = 1 THEN NULL ELSE s[j - 1]
      <4>1. s[j] \in Links /\ m.prev[s[j]] = IF j = 1 THEN NULL ELSE s[j - 1]
        BY <1>5, <2>1
      <4>2. n.prev[s[j]] = m.prev[s[j]]
        BY <1>3, <3>1, <4>1
      <4> QED
        BY <4>1, <4>2
    <3>3. i = 1 <=> j = 1
      BY <1>1, <2>1, <2>3
    <3>4. i # 1 => t[i - 1] = s[j - 1]
      <4>1. CASE i < k
        BY <1>1, <1>2, <2>1, <4>1
      <4>2. CASE ~(i < k)
        <5>1. i # k /\ j = i + 1
          BY <2>3, <4>2
        <5> QED
          BY <1>1, <1>2, <4>2, <5>1
      <4> QED
        BY <4>1, <4>2
    <3> QED
      BY <2>1, <3>2, <3>3, <3>4
  <2> QED
    BY <2>2, <2>3
<1> QED
  BY <1>3, <1>4, <1>8, <1>9, <1>10, <1>11 DEF Represents, Injective, n

\* ... and nothing else is touched.
LEMMA RemoveUntouched ==
  ASSUME NEW m \in Memory, NEW l \in Lists, NEW s \in Seq(Links),
         Represents(m, l, s), NEW e \in Range(s),
         NEW X, X \subseteq Links, X \cap Range(s) = {}
  PROVE  \A o \in Lists \ {l} : Untouched(m, ListRemove(m, l, e), o, X)
<1>1. PICK k \in 1 .. Len(s) : e = s[k]
  BY RangeOf
<1> DEFINE n == ListRemove(m, l, s[k])
<1>2. /\ \A o \in Lists \ {l} : n.head[o] = m.head[o] /\ n.tail[o] = m.tail[o]
      /\ \A x \in Links :
           /\ n.next[x] = IF k # 1 /\ x = s[k - 1] THEN m.next[s[k]] ELSE m.next[x]
           /\ n.prev[x] = IF k # Len(s) /\ x = s[k + 1] THEN m.prev[s[k]] ELSE m.prev[x]
  BY RemoveEffect
<1>3. /\ k # 1 => s[k - 1] \in Range(s)
      /\ k # Len(s) => s[k + 1] \in Range(s)
  <2>1. k # 1 => k - 1 \in 1 .. Len(s)
    OBVIOUS
  <2>2. k # Len(s) => k + 1 \in 1 .. Len(s)
    OBVIOUS
  <2> QED
    BY <2>1, <2>2, RangeOf
<1> HIDE DEF n
<1> QED
  BY <1>1, <1>2, <1>3 DEF Untouched, n

-------------------------------------------------------------------------------
(***************************************************************************)
(* The inductive invariant.  ListsAgree exempts a list while a loop empties *)
(* it, so it says nothing of what the loop has left to do, which is what    *)
(* decides whether the list is right when the loop is over.                 *)
(***************************************************************************)
\* The rest of a list that a loop is emptying: the cursor e is at its first
\* block, the next pointers f still chain it, and no block occurs twice.
Rest(f, e, s) ==
  /\ Injective(s)
  /\ e = IF s = <<>> THEN NULL ELSE s[1]
  /\ \A i \in 1 .. Len(s) : f[s[i]] = IF i = Len(s) THEN NULL ELSE s[i + 1]

Emptying(s) == Rest(mem.next, call.link, s) /\ call.next = Follow(mem.next, call.link)

\* Where the loop in progress is.
Searching == /\ call.link \in Range(freeSeq) \union {NULL}
             /\ call.next = Follow(mem.prev, call.link)

Owned ==
  /\ held \cap Range(freeSeq) = {} /\ held \cap Range(chainSeq) = {}
  /\ held \cap dropped = {} /\ Range(freeSeq) \cap Range(chainSeq) = {}
  /\ Range(freeSeq) \cap dropped = {} /\ Range(chainSeq) \cap dropped = {}
  /\ Allocated = held \union Range(freeSeq) \union Range(chainSeq) \union dropped

Linked ==
  /\ ~mem.fault
  /\ IF call.op = "destroy" THEN Emptying(freeSeq) ELSE Represents(mem, Free, freeSeq)
  /\ IF call.op \in {"resize", "unchain"} THEN Emptying(chainSeq)
                                         ELSE Represents(mem, Chain, chainSeq)
  /\ call.op = "search" => Searching
  /\ ~swapchain.alive => chainSeq = <<>>

ListInv == ~tainted => Owned /\ Linked

LEMMA OwnedTypes ==
  ASSUME TypeOK
  PROVE  /\ mem \in Memory /\ shape \in [Blocks -> Shapes \union {None}]
         /\ freeSeq \in Seq(Links) /\ chainSeq \in Seq(Links)
         /\ Range(freeSeq) \subseteq Links /\ Range(chainSeq) \subseteq Links
         /\ held \subseteq Links /\ dropped \subseteq Links
         /\ Free \in Lists \ {Chain} /\ Chain \in Lists \ {Free}
         /\ Blocks = Links
<1>1. freeSeq \in Seq(Links) /\ chainSeq \in Seq(Links) /\ Blocks = Links
  BY DEF TypeOK, Blocks
<1>2. Free # Chain
  BY DEF Free, Chain
<1> QED
  BY <1>1, <1>2, RangeOf, ListNames DEF TypeOK

LEMMA InitListInv == Init => ListInv
<1> SUFFICES ASSUME Init PROVE Owned /\ Linked
  BY DEF ListInv
<1>1. freeSeq = <<>> /\ chainSeq = <<>> /\ held = {} /\ dropped = {} /\ call = Idle
  BY DEF Init
<1>2. Range(freeSeq) = {} /\ Range(chainSeq) = {}
  BY <1>1 DEF Range
<1>3. Allocated = {}
  BY DEF Init, Allocated
<1>4. Represents(mem, Free, <<>>) /\ Represents(mem, Chain, <<>>) /\ ~mem.fault
  BY ListNames, EmptyList DEF Init
<1> QED
  BY <1>1, <1>2, <1>3, <1>4 DEF Owned, Linked, Idle

\* The links of a block that is on no list do not matter.
LEMMA FreshLinks ==
  ASSUME NEW m \in Memory, NEW n, NEW b \in Links, NEW x \in FreshPtr, NEW y \in FreshPtr,
         n = [m EXCEPT !.next[b] = x, !.prev[b] = y],
         NEW l \in Lists, NEW s \in Seq(Links), b \notin Range(s), Represents(m, l, s)
  PROVE  Represents(n, l, s) /\ n.fault = m.fault
<1>1. Range(s) \subseteq Links
  BY RangeOf
<1>2. n.fault = m.fault /\ Untouched(m, n, l, Range(s))
  BY <1>1 DEF Memory, Untouched
<1> QED
  BY <1>2, UntouchedList

LEMMA CreateListInv ==
  ASSUME PoolInv, Owned, Linked, call.op = "search",
         NEW w, NEW c, CreateBuffer(w, c)
  PROVE  Owned' /\ Linked'
<1>1. PICK b \in Blocks, x \in FreshPtr, y \in FreshPtr :
        /\ shape[b] = None
        /\ shape' = [shape EXCEPT ![b] = call.shape]
        /\ mem' = [mem EXCEPT !.next[b] = x, !.prev[b] = y]
        /\ held' = held \union {b}
        /\ call' = Idle
        /\ UNCHANGED << swapchain, freeSeq, chainSeq, dropped, tainted >>
  BY DEF CreateBuffer
<1>2. TypeOK /\ call.shape \in Shapes /\ None \notin Shapes
  BY GfxAssumption DEF PoolInv, SearchOK
<1>3. b \in Links /\ b \notin Allocated
  BY <1>1 DEF Allocated, Blocks
<1>4. Allocated' = Allocated \union {b}
  BY <1>1, <1>2, OwnedTypes DEF Allocated
<1>5. Owned'
  BY <1>1, <1>3, <1>4 DEF Owned
<1>6. Represents(mem, Free, freeSeq) /\ Represents(mem, Chain, chainSeq) /\ ~mem.fault
  BY DEF Linked
<1>7. b \notin Range(freeSeq) /\ b \notin Range(chainSeq)
  BY <1>3 DEF Owned
<1>8. Represents(mem', Free, freeSeq) /\ Represents(mem', Chain, chainSeq) /\ ~mem'.fault
  <2>1. mem \in Memory /\ freeSeq \in Seq(Links) /\ chainSeq \in Seq(Links)
    BY <1>2, OwnedTypes
  <2>2. Represents(mem', Free, freeSeq) /\ mem'.fault = mem.fault
    BY <1>1, <1>3, <1>6, <1>7, <2>1, FreshLinks, ListNames
  <2>3. Represents(mem', Chain, chainSeq)
    BY <1>1, <1>3, <1>6, <1>7, <2>1, FreshLinks, ListNames
  <2> QED
    BY <1>6, <2>2, <2>3
<1>9. Linked'
  BY <1>1, <1>8 DEF Linked, Idle
<1> QED
  BY <1>5, <1>9

\* The search of shm_pool_allocate.
LEMMA SearchListInv ==
  ASSUME PoolInv, Owned, Linked, Search
  PROVE  Owned' /\ Linked'
<1>1. TypeOK /\ NULL \notin Links
  BY PointersDistinct DEF PoolInv
<1>2. call.op = "search"
  BY DEF Search, AllocateSkip, AllocateReuse, AllocateInPlace, AllocateGrow,
         AllocateGrowFails, AllocateBufferFails, AllocateSpins, Missed
<1>3. /\ ~mem.fault /\ Represents(mem, Free, freeSeq) /\ Represents(mem, Chain, chainSeq)
      /\ Searching
      /\ ~swapchain.alive => chainSeq = <<>>
  BY <1>2 DEF Linked
<1>4. CASE AllocateSkip
  <2>1. /\ call.link \in Links
        /\ call' = [call EXCEPT !.link = call.next, !.next = Follow(mem.prev, call.next)]
        /\ UNCHANGED << mem, pool, swapchain, shape, busy, wl, history >>
    BY <1>4 DEF AllocateSkip, Blocks
  <2>2. call'.op = "search" /\ call'.link = call.next
        /\ call'.next = Follow(mem.prev, call.next)
    BY <1>1, <1>2, <2>1 DEF TypeOK
  <2>3. call.link \in Range(freeSeq) /\ call.next = mem.prev[call.link]
    BY <1>1, <1>3, <2>1 DEF Searching, Follow
  <2>4. call.next \in Range(freeSeq) \union {NULL}
    <3>1. PICK i \in 1 .. Len(freeSeq) : call.link = freeSeq[i]
      BY <1>1, <2>3, OwnedTypes, RangeOf, Zenon
    <3>2. call.next = IF i = 1 THEN NULL ELSE freeSeq[i - 1]
      BY <1>3, <2>3, <3>1 DEF Represents
    <3>3. i # 1 => i - 1 \in 1 .. Len(freeSeq)
      BY <3>1
    <3> QED
      BY <1>1, <3>2, <3>3, OwnedTypes, RangeOf
  <2>5. Searching'
    BY <2>1, <2>2, <2>4 DEF Searching, history
  <2> QED
    BY <1>3, <2>1, <2>2, <2>5 DEF Owned, Linked, Allocated, history
<1>5. CASE AllocateReuse
  <2> DEFINE b == call.link
  <2>1. /\ b \in Links
        /\ mem' = ListRemove(mem, Free, b) /\ call' = Idle
        /\ held' = held \union {b} /\ freeSeq' = RemoveFirst(freeSeq, b)
        /\ UNCHANGED << pool, swapchain, shape, busy, wl, chainSeq, dropped, tainted >>
    BY <1>5 DEF AllocateReuse, Blocks
  <2>2. b \in Range(freeSeq)
    BY <1>1, <1>3, <2>1 DEF Searching
  <2>3. Injective(freeSeq)
    BY <1>1, <1>3, Ends, OwnedTypes
  <2>4. PICK k \in 1 .. Len(freeSeq) :
          freeSeq[k] = b /\ Without(freeSeq, k, freeSeq') /\ freeSeq' \in Seq(Links)
    BY <1>1, <2>1, <2>2, <2>3, OwnedTypes, RemoveFirstWithout
  <2>5. Range(freeSeq') = Range(freeSeq) \ {b}
    BY <1>1, <2>3, <2>4, OwnedTypes, WithoutFacts
  <2>6. Represents(mem', Free, freeSeq') /\ ~mem'.fault
    BY <1>1, <1>3, <2>1, <2>4, OwnedTypes, RemoveRepresents
  <2>7. Range(chainSeq) \cap Range(freeSeq) = {}
    BY DEF Owned
  <2>8. Untouched(mem, mem', Chain, Range(chainSeq))
    BY <1>1, <1>3, <2>1, <2>2, <2>7, OwnedTypes, RemoveUntouched
  <2>9. Represents(mem', Chain, chainSeq)
    BY <1>1, <1>3, <2>8, OwnedTypes, UntouchedList
  <2>10. Owned'
    BY <2>1, <2>2, <2>5 DEF Owned, Allocated
  <2>11. Linked'
    BY <1>3, <2>1, <2>6, <2>9 DEF Linked, Idle
  <2> QED
    BY <2>10, <2>11
<1>6. CASE AllocateInPlace
  BY <1>2, <1>6, CreateListInv DEF AllocateInPlace
<1>7. CASE AllocateGrow
  <2>1. PICK w, c : CreateBuffer(w, c)
    BY <1>7 DEF AllocateGrow
  <2> QED
    BY <1>2, <2>1, CreateListInv
<1>8. CASE AllocateGrowFails \/ AllocateBufferFails
  <2>1. call' = Idle /\ UNCHANGED << mem, swapchain, shape, history >>
    BY <1>8 DEF AllocateGrowFails, AllocateBufferFails
  <2> QED
    BY <1>3, <2>1 DEF Owned, Linked, Allocated, history, Idle
<1>9. CASE AllocateSpins
  <2>1. call' = [call EXCEPT !.op = "spin"] /\ UNCHANGED << mem, swapchain, shape, history >>
    BY <1>9 DEF AllocateSpins
  <2>2. call'.op = "spin"
    BY <1>1, <2>1 DEF TypeOK
  <2> QED
    BY <1>3, <2>1, <2>2 DEF Owned, Linked, Allocated, history
<1> QED
  BY <1>4, <1>5, <1>6, <1>7, <1>8, <1>9 DEF Search

\* The next two actions push a block the application holds, the third pops one.
LEMMA DeallocateListInv ==
  ASSUME TypeOK, Owned, Linked, ~tainted', NEW b \in Blocks, Deallocate(b)
  PROVE  Owned' /\ Linked'
<1>1. /\ call = Idle /\ call' = Idle /\ b \in held /\ b \in Links
      /\ mem' = ListPush(mem, Free, b) /\ ~Taints(Free, b)
      /\ held' = held \ {b} /\ freeSeq' = AppendOnce(freeSeq, b)
      /\ UNCHANGED << swapchain, shape, chainSeq, dropped >>
  BY DEF Deallocate, CanCall, Blocks
<1>2. /\ ~mem.fault /\ Represents(mem, Free, freeSeq) /\ Represents(mem, Chain, chainSeq)
      /\ ~swapchain.alive => chainSeq = <<>>
  BY <1>1 DEF Linked, Idle
<1>3. b \notin Range(freeSeq) /\ b \notin Range(chainSeq)
      /\ Range(freeSeq) \cap Range(chainSeq) = {}
  BY <1>1 DEF Owned
<1>4. Injective(freeSeq) /\ (freeSeq = <<>> <=> mem.tail[Free] = NULL)
  BY <1>2, Ends, OwnedTypes
<1>5. /\ freeSeq' = Append(freeSeq, b) /\ freeSeq' \in Seq(Links)
      /\ Range(freeSeq') = Range(freeSeq) \union {b}
  BY <1>1, <1>3, <1>4, AppendOnceFacts, OwnedTypes
<1>6. freeSeq = <<>> => Clean(mem, b)
  BY <1>1, <1>4 DEF Taints
<1>7. Represents(mem', Free, freeSeq') /\ ~mem'.fault
  BY <1>1, <1>2, <1>3, <1>5, <1>6, PushRepresents, OwnedTypes
<1>8. Untouched(mem, mem', Chain, Range(chainSeq))
  BY <1>1, <1>2, <1>3, PushUntouched, OwnedTypes
<1>9. Represents(mem', Chain, chainSeq)
  BY <1>2, <1>8, UntouchedList, OwnedTypes
<1>10. Owned'
  BY <1>1, <1>5 DEF Owned, Allocated
<1> QED
  BY <1>1, <1>2, <1>7, <1>9, <1>10 DEF Linked, Idle

LEMMA ReclaimListInv ==
  ASSUME TypeOK, Owned, Linked, ~tainted', NEW b \in Blocks, Reclaim(b)
  PROVE  Owned' /\ Linked'
<1>1. /\ call = Idle /\ call' = Idle /\ b \in held /\ b \in Links /\ swapchain.alive
      /\ mem' = ListPush(mem, Chain, b) /\ ~Taints(Chain, b)
      /\ held' = held \ {b} /\ chainSeq' = AppendOnce(chainSeq, b)
      /\ UNCHANGED << swapchain, shape, freeSeq, dropped >>
  BY DEF Reclaim, CanCall, Blocks
<1>2. ~mem.fault /\ Represents(mem, Free, freeSeq) /\ Represents(mem, Chain, chainSeq)
  BY <1>1 DEF Linked, Idle
<1>3. b \notin Range(freeSeq) /\ b \notin Range(chainSeq)
      /\ Range(freeSeq) \cap Range(chainSeq) = {}
  BY <1>1 DEF Owned
<1>4. Injective(chainSeq) /\ (chainSeq = <<>> <=> mem.tail[Chain] = NULL)
  BY <1>2, Ends, OwnedTypes
<1>5. /\ chainSeq' = Append(chainSeq, b) /\ chainSeq' \in Seq(Links)
      /\ Range(chainSeq') = Range(chainSeq) \union {b}
  BY <1>1, <1>3, <1>4, AppendOnceFacts, OwnedTypes
<1>6. chainSeq = <<>> => Clean(mem, b)
  BY <1>1, <1>4 DEF Taints
<1>7. Represents(mem', Chain, chainSeq') /\ ~mem'.fault
  BY <1>1, <1>2, <1>3, <1>5, <1>6, PushRepresents, OwnedTypes
<1>8. Untouched(mem, mem', Free, Range(freeSeq))
  BY <1>1, <1>2, <1>3, PushUntouched, OwnedTypes
<1>9. Represents(mem', Free, freeSeq)
  BY <1>2, <1>8, UntouchedList, OwnedTypes
<1>10. Owned'
  BY <1>1, <1>5 DEF Owned, Allocated
<1> QED
  BY <1>1, <1>7, <1>9, <1>10 DEF Linked, Idle

\* swapchain_acquire takes the oldest block off the chain, to keep it or to
\* give it away.
LEMMA AcquireListInv ==
  ASSUME TypeOK, Owned, Linked, Acquire \/ AcquireBusy
  PROVE  Owned' /\ Linked'
<1> DEFINE b == mem.head[Chain]
<1>1. /\ call = Idle /\ call' = Idle /\ b \in Links /\ swapchain.alive
      /\ mem' = ListPopFront(mem, Chain) /\ chainSeq' = RemoveFirst(chainSeq, b)
      /\ \/ held' = held \union {b} /\ dropped' = dropped
         \/ held' = held /\ dropped' = dropped \union {b}
      /\ UNCHANGED << swapchain, shape, freeSeq >>
  BY DEF Acquire, AcquireBusy, CanCall, Blocks, ListFront
<1>2. ~mem.fault /\ Represents(mem, Free, freeSeq) /\ Represents(mem, Chain, chainSeq)
  BY <1>1 DEF Linked, Idle
<1>3. b # NULL
  BY <1>1, PointersDistinct
<1>4. Injective(chainSeq) /\ b \in Range(chainSeq)
  BY <1>2, <1>3, Ends, OwnedTypes
<1> HIDE DEF b
<1>5. PICK k \in 1 .. Len(chainSeq) :
        chainSeq[k] = b /\ Without(chainSeq, k, chainSeq') /\ chainSeq' \in Seq(Links)
  BY <1>1, <1>4, OwnedTypes, RemoveFirstWithout
<1>6. Range(chainSeq') = Range(chainSeq) \ {b}
  BY <1>4, <1>5, OwnedTypes, WithoutFacts
<1>7. mem' = ListRemove(mem, Chain, b)
  BY <1>1, <1>3 DEF ListPopFront, b
<1>8. Represents(mem', Chain, chainSeq') /\ ~mem'.fault
  BY <1>2, <1>5, <1>7, OwnedTypes, RemoveRepresents
<1>9. Range(chainSeq) \cap Range(freeSeq) = {}
  BY DEF Owned
<1>10. Untouched(mem, mem', Free, Range(freeSeq))
  BY <1>2, <1>4, <1>7, <1>9, OwnedTypes, RemoveUntouched
<1>11. Represents(mem', Free, freeSeq)
  BY <1>2, <1>10, OwnedTypes, UntouchedList
<1>12. Owned'
  BY <1>1, <1>4, <1>6 DEF Owned, Allocated
<1> QED
  BY <1>1, <1>8, <1>11, <1>12 DEF Linked, Idle

\* What a loop that empties a list has left, one block later.
LEMMA RestStep ==
  ASSUME NEW s \in Seq(Links), NEW f, NEW e \in Links, Rest(f, e, s)
  PROVE  /\ e \in Range(s)
         /\ RemoveFirst(s, e) \in Seq(Links)
         /\ Range(RemoveFirst(s, e)) = Range(s) \ {e}
         /\ Rest(f, Follow(f, e), RemoveFirst(s, e))
<1> DEFINE t == RemoveFirst(s, e)
           after == Follow(f, e)
<1>1. /\ s # <<>> /\ e = s[1] /\ Len(s) \in Nat /\ 1 \in 1 .. Len(s) /\ Injective(s)
  BY PointersDistinct, EmptySeq DEF Rest
<1>2. e \in Range(s)
  BY <1>1, RangeOf
<1>3. PICK k \in 1 .. Len(s) : s[k] = e /\ Without(s, k, t) /\ t \in Seq(Links)
  BY <1>1, <1>2, RemoveFirstWithout
<1>4. k = 1
  BY <1>1, <1>3 DEF Injective
<1>5. \A i \in 1 .. Len(s) : f[s[i]] = IF i = Len(s) THEN NULL ELSE s[i + 1]
  BY DEF Rest
<1>6. after = f[s[1]]
  BY <1>1 DEF Follow
<1> HIDE DEF t, after
<1>7. Len(t) = Len(s) - 1 /\ \A i \in 1 .. Len(t) : t[i] = s[i + 1]
  BY <1>3, <1>4 DEF Without
<1>8. Injective(t) /\ Range(t) = Range(s) \ {e}
  BY <1>1, <1>3, WithoutFacts
<1>9. after = IF t = <<>> THEN NULL ELSE t[1]
  <2>1. t = <<>> <=> Len(s) = 1
    BY <1>1, <1>3, <1>7, EmptySeq
  <2>2. Len(s) # 1 => t[1] = s[1 + 1]
    BY <1>1, <1>7
  <2>3. f[s[1]] = IF 1 = Len(s) THEN NULL ELSE s[1 + 1]
    BY <1>1, <1>5
  <2> QED
    BY <1>6, <2>1, <2>2, <2>3
<1>10. ASSUME NEW i \in 1 .. Len(t)
       PROVE  f[t[i]] = IF i = Len(t) THEN NULL ELSE t[i + 1]
  <2>1. i + 1 \in 1 .. Len(s) /\ t[i] = s[i + 1]
    BY <1>1, <1>7
  <2>2. f[s[i + 1]] = IF i + 1 = Len(s) THEN NULL ELSE s[(i + 1) + 1]
    BY <1>5, <2>1
  <2>3. i # Len(t) => t[i + 1] = s[(i + 1) + 1]
    BY <1>1, <1>7
  <2> QED
    BY <1>1, <1>7, <2>1, <2>2, <2>3
<1> QED
  BY <1>2, <1>3, <1>8, <1>9, <1>10 DEF Rest, t, after

\* swapchain_resize and swapchain_deinit: the hand-over of a block.
LEMMA HandOverBlockListInv ==
  ASSUME TypeOK, Owned, Linked, ~tainted', HandOverBlock
  PROVE  Owned' /\ Linked'
<1> DEFINE b == call.link
<1>1. /\ call.op \in {"resize", "unchain"} /\ b \in Links
      /\ mem' = ListPush(mem, Free, b) /\ ~Taints(Free, b)
      /\ call' = [call EXCEPT !.link = call.next, !.next = Follow(mem'.next, call.next)]
      /\ chainSeq' = RemoveFirst(chainSeq, b) /\ freeSeq' = AppendOnce(freeSeq, b)
      /\ UNCHANGED << swapchain, shape, held, dropped >>
  BY DEF HandOverBlock, Blocks
<1>2. /\ ~mem.fault /\ Represents(mem, Free, freeSeq) /\ Emptying(chainSeq)
      /\ ~swapchain.alive => chainSeq = <<>>
  BY <1>1 DEF Linked
<1>3. /\ call'.op = call.op /\ call'.link = call.next
      /\ call'.next = Follow(mem'.next, call.next)
  BY <1>1 DEF TypeOK
<1> HIDE DEF b
<1> DEFINE t == RemoveFirst(chainSeq, b)
<1>4. /\ b \in Range(chainSeq) /\ t \in Seq(Links)
      /\ Range(t) = Range(chainSeq) \ {b}
      /\ Rest(mem.next, call.next, t)
  <2>1. Rest(mem.next, b, chainSeq) /\ call.next = Follow(mem.next, b)
    BY <1>2 DEF Emptying, b
  <2> QED
    BY <1>1, <2>1, OwnedTypes, RestStep
<1> HIDE DEF t
<1>5. b \notin Range(freeSeq) /\ Range(freeSeq) \cap Range(chainSeq) = {}
  BY <1>4 DEF Owned
<1>6. Injective(freeSeq) /\ (freeSeq = <<>> <=> mem.tail[Free] = NULL)
  BY <1>2, Ends, OwnedTypes
<1>7. /\ freeSeq' = Append(freeSeq, b) /\ freeSeq' \in Seq(Links)
      /\ Range(freeSeq') = Range(freeSeq) \union {b}
  BY <1>1, <1>5, <1>6, AppendOnceFacts, OwnedTypes
<1>8. freeSeq = <<>> => Clean(mem, b)
  BY <1>1, <1>6 DEF Taints
<1>9. Represents(mem', Free, freeSeq') /\ ~mem'.fault
  BY <1>1, <1>2, <1>5, <1>7, <1>8, PushRepresents, OwnedTypes
<1>10. \A x \in Range(t) : mem'.next[x] = mem.next[x]
  <2>1. Range(t) \subseteq Links /\ b \notin Range(t) /\ Range(t) \cap Range(freeSeq) = {}
    BY <1>4, <1>5, OwnedTypes
  <2> QED
    BY <1>1, <1>2, <2>1, PushUntouched, OwnedTypes
<1>11. Emptying(chainSeq)'
  <2>1. chainSeq' = t
    BY <1>1 DEF t
  <2>2. Rest(mem'.next, call.next, t)
    BY <1>4, <1>10, RangeOf DEF Rest
  <2> QED
    BY <1>3, <2>1, <2>2 DEF Emptying
<1>12. ~swapchain'.alive => chainSeq' = <<>>
  <2>1. chainSeq # <<>>
    BY <1>4, OwnedTypes, RangeOf
  <2> QED
    BY <1>1, <1>2, <2>1
<1>13. Owned'
  BY <1>1, <1>4, <1>7 DEF Owned, Allocated, t
<1> QED
  BY <1>1, <1>3, <1>9, <1>11, <1>12, <1>13 DEF Linked

\* shm_pool_deinit: a block of the free list is destroyed, and has not been yet.
LEMMA DestroyBlockListInv ==
  ASSUME TypeOK, Owned, Linked, DestroyBlock
  PROVE  Owned' /\ Linked'
<1> DEFINE b == call.link
<1>1. call.op = "destroy" /\ b \in Links
  BY DEF DestroyBlock, Blocks
<1>2. /\ ~mem.fault /\ Emptying(freeSeq) /\ Represents(mem, Chain, chainSeq)
      /\ ~swapchain.alive => chainSeq = <<>>
  BY <1>1 DEF Linked
<1> DEFINE t == RemoveFirst(freeSeq, b)
<1>3. /\ b \in Range(freeSeq) /\ t \in Seq(Links)
      /\ Range(t) = Range(freeSeq) \ {b}
      /\ Rest(mem.next, call.next, t)
  <2>1. Rest(mem.next, b, freeSeq) /\ call.next = Follow(mem.next, b)
    BY <1>2 DEF Emptying
  <2> HIDE DEF b
  <2> QED
    BY <1>1, <2>1, OwnedTypes, RestStep
<1>4. b \in Allocated
  BY <1>3 DEF Owned
<1>5. /\ shape' = [shape EXCEPT ![b] = None] /\ freeSeq' = t
      /\ call' = [call EXCEPT !.link = call.next, !.next = Follow(mem.next, call.next)]
      /\ UNCHANGED << mem, swapchain, held, chainSeq, dropped >>
  BY <1>4 DEF DestroyBlock, Allocated
<1>6. /\ call'.op = "destroy" /\ call'.link = call.next
      /\ call'.next = Follow(mem.next, call.next)
  BY <1>1, <1>5 DEF TypeOK
<1> HIDE DEF b, t
<1>7. Emptying(freeSeq)'
  BY <1>3, <1>5, <1>6 DEF Emptying
<1>8. Allocated' = Allocated \ {b}
  BY <1>5, OwnedTypes DEF Allocated
<1>9. Owned'
  BY <1>3, <1>5, <1>8 DEF Owned
<1> QED
  BY <1>2, <1>5, <1>6, <1>7, <1>9 DEF Linked

\* The calls that begin a loop, swapchain_init, and the ends of the loops.
LEMMA BeginListInv ==
  ASSUME TypeOK, Owned, Linked,
         \/ \E s \in Shapes : AllocateBegin(s) \/ SwapchainInit(s) \/ ResizeBegin(s)
         \/ SwapchainDeinitBegin \/ PoolDeinitBegin
  PROVE  Owned' /\ Linked'
<1>1. call = Idle
  BY DEF AllocateBegin, SwapchainInit, ResizeBegin, SwapchainDeinitBegin, PoolDeinitBegin,
         HandOver, CanCall
<1>2. /\ ~mem.fault /\ Represents(mem, Free, freeSeq) /\ Represents(mem, Chain, chainSeq)
      /\ ~swapchain.alive => chainSeq = <<>>
  BY <1>1 DEF Linked, Idle
<1>3. UNCHANGED << shape, history >>
  BY DEF AllocateBegin, SwapchainInit, ResizeBegin, SwapchainDeinitBegin, PoolDeinitBegin,
         HandOver
<1>4. Owned'
  BY <1>3 DEF Owned, Allocated, history
<1>5. ASSUME NEW s \in Shapes, AllocateBegin(s) PROVE Linked'
  <2>1. /\ call'.op = "search" /\ call'.link = mem.tail[Free]
        /\ call'.next = Follow(mem.prev, call'.link) /\ UNCHANGED << mem, swapchain >>
    BY <1>5 DEF AllocateBegin
  <2>2. mem.tail[Free] \in Range(freeSeq) \union {NULL}
    BY <1>2, Ends, OwnedTypes
  <2> QED
    BY <1>2, <1>3, <2>1, <2>2 DEF Linked, Searching, history
<1>6. ASSUME NEW s \in Shapes, SwapchainInit(s) PROVE Linked'
  <2>1. /\ chainSeq = <<>> /\ mem' = Zeroed(mem, Chain) /\ call' = Idle
        /\ swapchain'.alive
    BY <1>2, <1>6 DEF SwapchainInit, CanCall
  <2>2. /\ Untouched(mem, mem', Free, Range(freeSeq)) /\ ~mem'.fault
        /\ mem'.head[Chain] = NULL /\ mem'.tail[Chain] = NULL
    BY <1>2, <2>1, OwnedTypes DEF Zeroed, Untouched, Memory
  <2>3. Represents(mem', Free, freeSeq) /\ Represents(mem', Chain, <<>>)
    BY <1>2, <2>2, OwnedTypes, UntouchedList, EmptyList
  <2> QED
    BY <1>3, <2>1, <2>2, <2>3 DEF Linked, history, Idle
<1>7. ASSUME NEW op \in {"resize", "unchain"}, NEW s, HandOver(op, s) PROVE Linked'
  <2>1. /\ call'.op = op /\ call'.link = mem.head[Chain]
        /\ call'.next = Follow(mem.next, call'.link) /\ UNCHANGED << mem, swapchain >>
    BY <1>7 DEF HandOver
  <2>2. Emptying(chainSeq)'
    BY <1>2, <1>3, <2>1 DEF Emptying, Rest, Injective, Represents, history
  <2> QED
    BY <1>2, <1>3, <2>1, <2>2 DEF Linked, history
<1>8. ASSUME PoolDeinitBegin PROVE Linked'
  <2>1. /\ call'.op = "destroy" /\ call'.link = mem.head[Free]
        /\ call'.next = Follow(mem.next, call'.link) /\ UNCHANGED << mem, swapchain >>
    BY <1>8 DEF PoolDeinitBegin
  <2>2. Emptying(freeSeq)'
    BY <1>2, <1>3, <2>1 DEF Emptying, Rest, Injective, Represents, history
  <2> QED
    BY <1>2, <1>3, <2>1, <2>2 DEF Linked, history
<1> QED
  BY <1>4, <1>5, <1>6, <1>7, <1>8 DEF ResizeBegin, SwapchainDeinitBegin

LEMMA EndListInv ==
  ASSUME TypeOK, Owned, Linked, HandOverEnd \/ PoolDeinitEnd
  PROVE  Owned' /\ Linked'
<1>1. call' = Idle /\ UNCHANGED << shape, history >> /\ call.link = NULL /\ ~mem.fault
  BY DEF HandOverEnd, PoolDeinitEnd
<1>2. Owned'
  BY <1>1 DEF Owned, Allocated, history
<1>3. CASE HandOverEnd
  <2>1. /\ call.op \in {"resize", "unchain"} /\ mem' = Zeroed(mem, Chain)
    BY <1>3 DEF HandOverEnd
  <2>2. Represents(mem, Free, freeSeq) /\ Emptying(chainSeq)
    BY <2>1 DEF Linked
  <2>3. chainSeq = <<>>
    <3>1. chainSeq # <<>> => chainSeq[1] \in Links
      BY EmptySeq, OwnedTypes
    <3> QED
      BY <1>1, <2>2, <3>1, PointersDistinct DEF Emptying, Rest
  <2>4. /\ Untouched(mem, mem', Free, Range(freeSeq)) /\ ~mem'.fault
        /\ mem'.head[Chain] = NULL /\ mem'.tail[Chain] = NULL
    BY <1>1, <2>1, OwnedTypes DEF Zeroed, Untouched, Memory
  <2>5. Represents(mem', Free, freeSeq) /\ Represents(mem', Chain, <<>>)
    BY <2>2, <2>4, OwnedTypes, UntouchedList, EmptyList
  <2> QED
    BY <1>1, <1>2, <2>3, <2>4, <2>5 DEF Linked, history, Idle
<1>4. CASE PoolDeinitEnd
  <2>1. call.op = "destroy" /\ mem' = Zeroed(mem, Free) /\ UNCHANGED swapchain
    BY <1>4 DEF PoolDeinitEnd
  <2>2. /\ Represents(mem, Chain, chainSeq) /\ Emptying(freeSeq)
        /\ ~swapchain.alive => chainSeq = <<>>
    BY <2>1 DEF Linked
  <2>3. freeSeq = <<>>
    <3>1. freeSeq # <<>> => freeSeq[1] \in Links
      BY EmptySeq, OwnedTypes
    <3> QED
      BY <1>1, <2>2, <3>1, PointersDistinct DEF Emptying, Rest
  <2>4. /\ Untouched(mem, mem', Chain, Range(chainSeq)) /\ ~mem'.fault
        /\ mem'.head[Free] = NULL /\ mem'.tail[Free] = NULL
    BY <1>1, <2>1, OwnedTypes DEF Zeroed, Untouched, Memory
  <2>5. Represents(mem', Chain, chainSeq) /\ Represents(mem', Free, <<>>)
    BY <2>2, <2>4, OwnedTypes, UntouchedList, EmptyList
  <2> QED
    BY <1>1, <1>2, <2>1, <2>2, <2>3, <2>4, <2>5 DEF Linked, history, Idle
<1> QED
  BY <1>3, <1>4

\* No loop is ever at a pointer that leads nowhere.
LEMMA NoFault ==
  ASSUME TypeOK, Linked
  PROVE  ~LoopFaults
<1> SUFFICES ASSUME LoopFaults PROVE FALSE
  OBVIOUS
<1>1. call.link = Junk /\ call.op \in {"search", "resize", "unchain", "destroy"}
  BY DEF LoopFaults
<1>2. Junk \notin Links /\ Junk # NULL
  BY PointersDistinct
<1>3. ASSUME NEW s \in Seq(Links), Emptying(s) PROVE FALSE
  <2>1. s # <<>> => s[1] \in Links
    BY EmptySeq
  <2> QED
    BY <1>1, <1>2, <1>3, <2>1 DEF Emptying, Rest
<1>4. call.op = "search" => FALSE
  BY <1>1, <1>2, OwnedTypes DEF Linked, Searching
<1> QED
  BY <1>1, <1>3, <1>4, OwnedTypes DEF Linked

LEMMA NextListInv == PoolInv /\ ListInv /\ [Next]_vars => ListInv'
<1> SUFFICES ASSUME PoolInv, ListInv, [Next]_vars, ~tainted' PROVE Owned' /\ Linked'
  BY DEF ListInv
<1>1. CASE UNCHANGED vars
  BY <1>1 DEF ListInv, Owned, Linked, Emptying, Searching, Allocated, vars
<1>2. CASE Next
  <2>1. TypeOK
    BY DEF PoolInv
  <2>2. ~tainted
    BY <1>2 DEF Next, Run, Search, AllocateBegin, SwapchainInit, ResizeBegin, Deallocate,
           Reclaim, Attach, BufferRelease, Acquire, AcquireBusy, AcquireEmpty,
           SwapchainDeinitBegin, PoolDeinitBegin, HandOver, AllocateSkip, AllocateReuse,
           AllocateInPlace, AllocateGrow, AllocateGrowFails, AllocateBufferFails,
           AllocateSpins, CreateBuffer, HandOverBlock, HandOverEnd, DestroyBlock,
           PoolDeinitEnd, LoopFaults, history
  <2>3. Owned /\ Linked
    BY <2>2 DEF ListInv
  <2>4. CASE \/ \E s \in Shapes : AllocateBegin(s) \/ SwapchainInit(s) \/ ResizeBegin(s)
             \/ SwapchainDeinitBegin \/ PoolDeinitBegin
    BY <2>1, <2>3, <2>4, BeginListInv
  <2>5. CASE \E b \in Blocks : Deallocate(b) \/ Reclaim(b)
    BY <2>1, <2>3, <2>5, DeallocateListInv, ReclaimListInv
  <2>6. CASE \E b \in Blocks : Attach(b) \/ BufferRelease(b)
    <3>1. UNCHANGED << mem, swapchain, shape, call, history >>
      BY <2>6 DEF Attach, BufferRelease
    <3> QED
      BY <2>3, <3>1 DEF Owned, Linked, Emptying, Searching, Allocated, history
  <2>7. CASE Acquire \/ AcquireBusy
    BY <2>1, <2>3, <2>7, AcquireListInv
  <2>8. CASE AcquireEmpty
    <3>1. /\ call = Idle /\ call'.op = "panic"
          /\ UNCHANGED << mem, swapchain, shape, history >>
      BY <2>8 DEF AcquireEmpty, CanCall, Idle
    <3> QED
      BY <2>3, <3>1 DEF Owned, Linked, Allocated, history, Idle
  <2>9. CASE Search
    BY <2>3, <2>9, SearchListInv
  <2>10. CASE HandOverBlock
    BY <2>1, <2>3, <2>10, HandOverBlockListInv
  <2>11. CASE DestroyBlock
    BY <2>1, <2>3, <2>11, DestroyBlockListInv
  <2>12. CASE HandOverEnd \/ PoolDeinitEnd
    BY <2>1, <2>3, <2>12, EndListInv
  <2>13. ~LoopFaults
    BY <2>1, <2>3, NoFault
  <2> QED
    BY <1>2, <2>4, <2>5, <2>6, <2>7, <2>8, <2>9, <2>10, <2>11, <2>12, <2>13 DEF Next, Run
<1> QED
  BY <1>1, <1>2

LEMMA ListInvariant == Spec => []ListInv
<1>1. Init => ListInv
  BY InitListInv
<1>2. PoolInv /\ ListInv /\ [Next]_vars => ListInv'
  BY NextListInv
<1> QED
  BY <1>1, <1>2, PoolInvariant, PTL DEF Spec

-------------------------------------------------------------------------------

\* As long as no push has tainted a list, the free list and the chain hold the
\* blocks that were given to them, in order, linked both ways, and no pointer
\* of theirs leads astray: list_push and list_remove keep the two lists apart
\* although one block after the other moves between them.
THEOREM GfxListsAgree == Spec => []ListsAgree
<1>1. ListInv => ListsAgree
  BY DEF ListInv, Linked, ListsAgree
<1> QED
  BY <1>1, ListInvariant, PTL

\* Every allocated block has exactly one owner: the application, the free list,
\* the chain, or nobody because swapchain_acquire dropped it.
THEOREM GfxOneOwner == Spec => []OneOwner
<1>1. ListInv => OneOwner
  <2> SUFFICES ASSUME Owned
               PROVE  LET owners == << held, Range(freeSeq), Range(chainSeq), dropped >>
                      IN  /\ \A i, j \in 1 .. 4 : i # j => owners[i] \cap owners[j] = {}
                          /\ Allocated = UNION { owners[i] : i \in 1 .. 4 }
    BY DEF ListInv, OneOwner
  <2> DEFINE A == Range(freeSeq)
             B == Range(chainSeq)
             owners == << held, A, B, dropped >>
  <2>1. /\ held \cap A = {} /\ held \cap B = {} /\ held \cap dropped = {}
        /\ A \cap B = {} /\ A \cap dropped = {} /\ B \cap dropped = {}
        /\ Allocated = held \union A \union B \union dropped
    BY DEF Owned
  <2> HIDE DEF A, B
  <2>2. /\ owners[1] = held /\ owners[2] = A /\ owners[3] = B /\ owners[4] = dropped
    OBVIOUS
  <2>3. \A i \in 1 .. 4 : i = 1 \/ i = 2 \/ i = 3 \/ i = 4
    OBVIOUS
  <2> HIDE DEF owners
  <2>4. \A i, j \in 1 .. 4 : i # j => owners[i] \cap owners[j] = {}
    BY <2>1, <2>2, <2>3
  <2>5. UNION { owners[i] : i \in 1 .. 4 } = held \union A \union B \union dropped
    BY <2>2, <2>3
  <2> QED
    BY <2>1, <2>4, <2>5 DEF owners, A, B
<1> QED
  BY <1>1, ListInvariant, PTL

\* After shm_pool_deinit only the blocks that somebody else has are left, and
\* only their wl_buffers: the loop has freed every block of the free list.
THEOREM GfxDeinitFreesPooled == Spec => DeinitFreesPooled
<1>1. PoolInv /\ ListInv /\ [Next]_vars =>
        (pool.alive /\ ~pool'.alive /\ ~tainted =>
          \A b \in Blocks :
            shape'[b] # None \/ wl'.offset[b] # None =>
              b \in held \union dropped \union Range(chainSeq))
  <2> SUFFICES ASSUME PoolInv, ListInv, [Next]_vars, pool.alive, ~pool'.alive, ~tainted,
                      NEW b \in Blocks, shape'[b] # None \/ wl'.offset[b] # None
               PROVE  b \in held \union dropped \union Range(chainSeq)
    OBVIOUS
  <2>1. TypeOK /\ Owned /\ Linked
    BY DEF PoolInv, ListInv
  <2>2. PoolDeinitEnd
    BY <2>1 DEF Next, Run, Search, AllocateBegin, SwapchainInit, ResizeBegin, Deallocate,
           Reclaim, Attach, BufferRelease, Acquire, AcquireBusy, AcquireEmpty,
           SwapchainDeinitBegin, PoolDeinitBegin, HandOver, AllocateSkip, AllocateReuse,
           AllocateInPlace, AllocateGrow, AllocateGrowFails, AllocateBufferFails,
           AllocateSpins, CreateBuffer, HandOverBlock, HandOverEnd, DestroyBlock,
           LoopFaults, history, vars, TypeOK
  <2>3. call.op = "destroy" /\ call.link = NULL /\ UNCHANGED << shape, wl >>
    BY <2>2 DEF PoolDeinitEnd
  <2>4. freeSeq = <<>>
    <3>1. freeSeq # <<>> => freeSeq[1] \in Links
      BY <2>1, EmptySeq, OwnedTypes
    <3> QED
      BY <2>1, <2>3, <3>1, PointersDistinct DEF Linked, Emptying, Rest
  <2>5. Range(freeSeq) = {}
    BY <2>1, <2>4, OwnedTypes, RangeOf
  <2>6. b \in Allocated
    BY <2>3 DEF PoolInv, LiveAllocated, LiveBuffers, Allocated
  <2> QED
    BY <2>1, <2>5, <2>6 DEF Owned
<1> QED
  BY <1>1, PoolInvariant, ListInvariant, PTL DEF Spec, DeinitFreesPooled

===============================================================================
