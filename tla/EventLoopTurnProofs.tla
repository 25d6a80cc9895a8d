-------------------------- MODULE EventLoopTurnProofs --------------------------
(***************************************************************************)
(* Theorems about what EventLoop says to the compositor and when: no       *)
(* request is out of turn, no ack overtakes the resize it is about, and    *)
(* what the listeners make of the events, for the compositor and for the   *)
(* application, gets there once and in order, for every number of events,  *)
(* every socket and every set of sizes.                                    *)
(***************************************************************************)
EXTENDS EventLoopProofs, WellFoundedInduction

-------------------------------------------------------------------------------
(***************************************************************************)
(* An event that wants an answer and the answer have the id of the event.  *)
(* On the line that leads from the compositor through inbox, queue, out    *)
(* and wire back to it, such ids rise from the end of the line to its      *)
(* beginning.                                                              *)
(***************************************************************************)
Live(x) == x.kind \in {"pong", "ack", "ping", "configure"}
Rising(s) == \A i, j \in 1 .. Len(s) :
               i < j /\ Live(s[i]) /\ Live(s[j]) => s[i].id < s[j].id
Before(s, t) == \A i \in 1 .. Len(s), j \in 1 .. Len(t) :
                  Live(s[i]) /\ Live(t[j]) => s[i].id < t[j].id

\* What the two parts of a sequence that is cut hold, and two that are joined.
LEMMA CutAt ==
  ASSUME NEW S, NEW s \in Seq(S), NEW n \in 0 .. Len(s),
         NEW a, NEW b, a = SubSeq(s, 1, n), b = SubSeq(s, n + 1, Len(s))
  PROVE  /\ a \in Seq(S) /\ b \in Seq(S)
         /\ \A i \in 1 .. Len(a) : i \in 1 .. Len(s) /\ i <= n /\ a[i] = s[i]
         /\ \A i \in 1 .. Len(b) : n + i \in 1 .. Len(s) /\ i > 0 /\ i \in Int /\ b[i] = s[n + i]
<1>1. \A i \in 1 .. n : s[i] \in S
  OBVIOUS
<1>2. \A i \in n + 1 .. Len(s) : s[i] \in S
  OBVIOUS
<1>3. Len(a) = n /\ \A i \in 1 .. n : a[i] = s[i]
  BY <1>1, SubSeqProperties
<1>4. /\ Len(b) = Len(s) - n
      /\ \A i \in 1 .. Len(s) - n : b[i] = s[n + i]
  BY <1>2, SubSeqProperties
<1> QED
  BY <1>3, <1>4, Cut

LEMMA JoinAt ==
  ASSUME NEW S, NEW s \in Seq(S), NEW t \in Seq(S)
  PROVE  /\ s \o t \in Seq(S)
         /\ \A i \in 1 .. Len(s \o t) :
              \/ i \in 1 .. Len(s) /\ i <= Len(s) /\ (s \o t)[i] = s[i]
              \/ i - Len(s) \in 1 .. Len(t) /\ i > Len(s) /\ (s \o t)[i] = t[i - Len(s)]
<1> DEFINE c == s \o t
<1>1. /\ Len(c) = Len(s) + Len(t)
      /\ \A i \in 1 .. Len(s) : c[i] = s[i]
      /\ \A i \in Len(s) + 1 .. Len(s) + Len(t) : c[i] = t[i - Len(s)]
  BY ConcatProperties
<1>2. c \in Seq(S)
  BY ConcatProperties
<1>3. Len(s) \in Nat /\ Len(t) \in Nat
  OBVIOUS
<1> HIDE DEF c
<1>4. ASSUME NEW i \in 1 .. Len(c)
      PROVE  \/ i \in 1 .. Len(s) /\ i <= Len(s) /\ c[i] = s[i]
             \/ i - Len(s) \in 1 .. Len(t) /\ i > Len(s) /\ c[i] = t[i - Len(s)]
  <2>1. CASE i <= Len(s)
    <3>1. i \in 1 .. Len(s)
      BY <1>3, <2>1
    <3> QED
      BY <1>1, <2>1, <3>1
  <2>2. CASE i > Len(s)
    <3>1. i \in Len(s) + 1 .. Len(s) + Len(t) /\ i - Len(s) \in 1 .. Len(t)
      BY <1>1, <1>3, <2>2
    <3> QED
      BY <1>1, <2>2, <3>1
  <2> QED
    BY <1>1, <1>3, <2>1, <2>2
<1> QED
  BY <1>2, <1>4 DEF c

LEMMA CutRising ==
  ASSUME NEW S, NEW s \in Seq(S), NEW n \in 0 .. Len(s), Rising(s),
         NEW a, NEW b, a = SubSeq(s, 1, n), b = SubSeq(s, n + 1, Len(s))
  PROVE  Rising(a) /\ Rising(b) /\ Before(a, b)
<1>1. /\ \A i \in 1 .. Len(a) : i \in 1 .. Len(s) /\ i <= n /\ a[i] = s[i]
      /\ \A i \in 1 .. Len(b) : n + i \in 1 .. Len(s) /\ i > 0 /\ i \in Int /\ b[i] = s[n + i]
  BY CutAt
<1>2. Rising(a)
  BY <1>1 DEF Rising
<1>3. Rising(b)
  <2> SUFFICES ASSUME NEW i \in 1 .. Len(b), NEW j \in 1 .. Len(b), i < j,
                      Live(b[i]), Live(b[j])
               PROVE  b[i].id < b[j].id
    BY DEF Rising
  <2>1. n + i \in 1 .. Len(s) /\ n + j \in 1 .. Len(s) /\ n + i < n + j
    BY <1>1
  <2> QED
    BY <1>1, <2>1 DEF Rising
<1>4. Before(a, b)
  <2> SUFFICES ASSUME NEW i \in 1 .. Len(a), NEW j \in 1 .. Len(b), Live(a[i]), Live(b[j])
               PROVE  a[i].id < b[j].id
    BY DEF Before
  <2>1. i \in 1 .. Len(s) /\ n + j \in 1 .. Len(s) /\ i < n + j
    BY <1>1
  <2>2. a[i] = s[i] /\ b[j] = s[n + j]
    BY <1>1
  <2> QED
    BY <2>1, <2>2 DEF Rising
<1> QED
  BY <1>2, <1>3, <1>4

\* The elements of a are elements of s.
Part(a, s) == \A i \in 1 .. Len(a) : \E j \in 1 .. Len(s) : a[i] = s[j]

LEMMA CutPart ==
  ASSUME NEW S, NEW s \in Seq(S), NEW n \in 0 .. Len(s),
         NEW a, NEW b, a = SubSeq(s, 1, n), b = SubSeq(s, n + 1, Len(s))
  PROVE  Part(a, s) /\ Part(b, s)
<1>1. /\ \A i \in 1 .. Len(a) : i \in 1 .. Len(s) /\ i <= n /\ a[i] = s[i]
      /\ \A i \in 1 .. Len(b) : n + i \in 1 .. Len(s) /\ i > 0 /\ i \in Int /\ b[i] = s[n + i]
  BY CutAt
<1> QED
  BY <1>1 DEF Part

LEMMA PartBefore ==
  ASSUME NEW a, NEW s, NEW t, Part(a, s)
  PROVE  (Before(s, t) => Before(a, t)) /\ (Before(t, s) => Before(t, a))
  BY DEF Part, Before

LEMMA JoinRising ==
  ASSUME NEW S, NEW s \in Seq(S), NEW t \in Seq(S), Rising(s), Rising(t), Before(s, t)
  PROVE  Rising(s \o t)
<1> DEFINE c == s \o t
<1>1. \A i \in 1 .. Len(c) :
        \/ i \in 1 .. Len(s) /\ i <= Len(s) /\ c[i] = s[i]
        \/ i - Len(s) \in 1 .. Len(t) /\ i > Len(s) /\ c[i] = t[i - Len(s)]
  BY JoinAt
<1>2. Len(s) \in Nat
  OBVIOUS
<1> HIDE DEF c
<1> SUFFICES ASSUME NEW i \in 1 .. Len(c), NEW j \in 1 .. Len(c),
                    i < j, Live(c[i]), Live(c[j])
             PROVE  c[i].id < c[j].id
  BY DEF Rising, c
<1>3. CASE i \in 1 .. Len(s) /\ j \in 1 .. Len(s) /\ c[i] = s[i] /\ c[j] = s[j]
  BY <1>3 DEF Rising
<1>4. CASE /\ i - Len(s) \in 1 .. Len(t) /\ c[i] = t[i - Len(s)]
           /\ j - Len(s) \in 1 .. Len(t) /\ c[j] = t[j - Len(s)]
  <2>1. i - Len(s) < j - Len(s)
    BY <1>2
  <2> QED
    BY <1>4, <2>1 DEF Rising
<1>5. CASE i \in 1 .. Len(s) /\ c[i] = s[i] /\ j - Len(s) \in 1 .. Len(t) /\ c[j] = t[j - Len(s)]
  BY <1>5 DEF Before
<1>6. ~ (i > Len(s) /\ j <= Len(s))
  BY <1>2
<1> QED
  BY <1>1, <1>3, <1>4, <1>5, <1>6

LEMMA JoinBefore ==
  ASSUME NEW S, NEW s \in Seq(S), NEW t \in Seq(S), NEW r
  PROVE  /\ Before(r, s) /\ Before(r, t) => Before(r, s \o t)
         /\ Before(s, r) /\ Before(t, r) => Before(s \o t, r)
<1> DEFINE c == s \o t
<1>1. \A i \in 1 .. Len(c) :
        \/ i \in 1 .. Len(s) /\ i <= Len(s) /\ c[i] = s[i]
        \/ i - Len(s) \in 1 .. Len(t) /\ i > Len(s) /\ c[i] = t[i - Len(s)]
  BY JoinAt
<1> HIDE DEF c
<1>2. Before(r, s) /\ Before(r, t) => Before(r, c)
  BY <1>1 DEF Before
<1>3. Before(s, r) /\ Before(t, r) => Before(c, r)
  BY <1>1 DEF Before
<1> QED
  BY <1>2, <1>3 DEF c

\* Moving the first part of q to the end of p leaves the line as it was.
LEMMA MoveRising ==
  ASSUME NEW S, NEW p \in Seq(S), NEW q, NEW a \in Seq(S), NEW b,
         Part(a, q), Part(b, q), Rising(a), Rising(b), Before(a, b),
         Rising(p), Before(p, q)
  PROVE  /\ Rising(p \o a) /\ Rising(b) /\ Before(p \o a, b)
         /\ \A x : /\ Before(x, p) /\ Before(x, q) => Before(x, p \o a) /\ Before(x, b)
                   /\ Before(p, x) /\ Before(q, x) => Before(p \o a, x) /\ Before(b, x)
<1>1. Before(p, a) /\ Before(p, b)
  BY PartBefore
<1>2. Rising(p \o a)
  BY <1>1, JoinRising
<1>3. Before(p \o a, b)
  BY <1>1, JoinBefore
<1>4. ASSUME NEW x
      PROVE  /\ Before(x, p) /\ Before(x, q) => Before(x, p \o a) /\ Before(x, b)
             /\ Before(p, x) /\ Before(q, x) => Before(p \o a, x) /\ Before(b, x)
  <2>1. /\ Before(q, x) => Before(a, x) /\ Before(b, x)
        /\ Before(x, q) => Before(x, a) /\ Before(x, b)
    BY PartBefore
  <2>2. /\ Before(x, p) /\ Before(x, a) => Before(x, p \o a)
        /\ Before(p, x) /\ Before(a, x) => Before(p \o a, x)
    BY JoinBefore
  <2> QED
    BY <2>1, <2>2
<1> QED
  BY <1>2, <1>3, <1>4

LEMMA FirstOf ==
  ASSUME NEW S, NEW s \in Seq(S), s # <<>>
  PROVE  /\ 1 \in 0 .. Len(s) /\ Head(s) \in S /\ Tail(s) \in Seq(S)
         /\ << Head(s) >> = SubSeq(s, 1, 1) /\ Tail(s) = SubSeq(s, 1 + 1, Len(s))
<1>1. Len(s) \in Nat /\ Len(s) >= 1
  OBVIOUS
<1>2. Head(s) \in S /\ Tail(s) \in Seq(S) /\ Head(s) = s[1]
  OBVIOUS
<1>3. Tail(s) = SubSeq(s, 2, Len(s))
  BY <1>1
<1>4. << Head(s) >> = SubSeq(s, 1, 1)
  BY <1>1, <1>2
<1> QED
  BY <1>1, <1>2, <1>3, <1>4

-------------------------------------------------------------------------------
(***************************************************************************)
(* No request is refused                                                   *)
(***************************************************************************)

\* The compositor, in state v, waits for the answers on the line.
AllDue(v, s) ==
  \A i \in 1 .. Len(s) :
    /\ s[i].kind \in {"pong", "ping"} => s[i].id \in v.unanswered
    /\ s[i].kind \in {"ack", "configure"} => s[i].id \in v.acked + 1 .. v.issued

Line == /\ Rising(wire) /\ Rising(out) /\ Rising(queue) /\ Rising(inbox)
        /\ Before(wire, out) /\ Before(wire, queue) /\ Before(wire, inbox)
        /\ Before(out, queue) /\ Before(out, inbox) /\ Before(queue, inbox)
Dues == /\ AllDue(srv, wire) /\ AllDue(srv, out)
        /\ AllDue(srv, queue) /\ AllDue(srv, inbox)
        /\ srv.unanswered \subseteq 1 .. srv.issued /\ srv.acked <= srv.issued
Turns == TypeOK /\ Line /\ Dues /\ NeverRefused

LEMMA PartDue ==
  ASSUME NEW a, NEW s, NEW v, Part(a, s), AllDue(v, s)
  PROVE  AllDue(v, a)
  BY DEF Part, AllDue

LEMMA JoinDue ==
  ASSUME NEW S, NEW s \in Seq(S), NEW t \in Seq(S), NEW v, AllDue(v, s), AllDue(v, t)
  PROVE  AllDue(v, s \o t)
<1> DEFINE c == s \o t
<1>1. \A i \in 1 .. Len(c) :
        \/ i \in 1 .. Len(s) /\ i <= Len(s) /\ c[i] = s[i]
        \/ i - Len(s) \in 1 .. Len(t) /\ i > Len(s) /\ c[i] = t[i - Len(s)]
  BY JoinAt
<1> HIDE DEF c
<1>2. AllDue(v, c)
  BY <1>1 DEF AllDue
<1> QED
  BY <1>2 DEF c

LEMMA NothingOn ==
  /\ Rising(<<>>) /\ \A v : AllDue(v, <<>>)
  /\ \A x : Before(<<>>, x) /\ Before(x, <<>>)
  BY DEF Rising, Before, AllDue

\* The answer to an event stands on the line where the event stood.
LEMMA AnswerStandsFor ==
  ASSUME NEW e \in Event
  PROVE  /\ Rising(Answer(e))
         /\ \A x : /\ Before(x, << e >>) => Before(x, Answer(e))
                   /\ Before(<< e >>, x) => Before(Answer(e), x)
         /\ \A v : AllDue(v, << e >>) => AllDue(v, Answer(e))
<1>1. CASE e.kind = "ping"
  <2>1. Answer(e) = << Req("pong", e.id) >>
    BY <1>1 DEF Answer
  <2> DEFINE r == Req("pong", e.id)
  <2>2. r.kind = "pong" /\ r.id = e.id
    BY DEF Req
  <2> HIDE DEF r
  <2>3. Rising(<< r >>)
    BY DEF Rising
  <2>4. \A x : /\ Before(x, << e >>) => Before(x, << r >>)
               /\ Before(<< e >>, x) => Before(<< r >>, x)
    BY <1>1, <2>2 DEF Before, Live
  <2>5. \A v : AllDue(v, << e >>) => AllDue(v, << r >>)
    BY <1>1, <2>2 DEF AllDue
  <2> QED
    BY <2>1, <2>3, <2>4, <2>5 DEF r
<1>2. CASE e.kind = "configure"
  <2>1. Answer(e) = << Req("ack", e.id) >>
    BY <1>2 DEF Answer
  <2> DEFINE r == Req("ack", e.id)
  <2>2. r.kind = "ack" /\ r.id = e.id
    BY DEF Req
  <2> HIDE DEF r
  <2>3. Rising(<< r >>)
    BY DEF Rising
  <2>4. \A x : /\ Before(x, << e >>) => Before(x, << r >>)
               /\ Before(<< e >>, x) => Before(<< r >>, x)
    BY <1>2, <2>2 DEF Before, Live
  <2>5. \A v : AllDue(v, << e >>) => AllDue(v, << r >>)
    BY <1>2, <2>2 DEF AllDue
  <2> QED
    BY <2>1, <2>3, <2>4, <2>5 DEF r
<1>3. CASE e.kind \notin {"ping", "configure"}
  <2>1. Answer(e) = <<>>
    BY <1>3 DEF Answer
  <2> QED
    BY <2>1, NothingOn
<1> QED
  BY <1>1, <1>2, <1>3

\* What stays when the compositor waits for more.
LEMMA MoreDue ==
  ASSUME NEW s, NEW v, NEW w, AllDue(v, s), v.unanswered \subseteq w.unanswered,
         w.acked = v.acked, v.acked \in Nat, v.issued \in Nat, w.issued \in Nat,
         v.issued <= w.issued
  PROVE  AllDue(w, s)
  BY DEF AllDue

\* An event just sent has a later id than all on the line.
LEMMA NewestLast ==
  ASSUME NEW s, NEW t, NEW v, AllDue(v, s), v.unanswered \subseteq 1 .. v.issued,
         v.issued \in Nat, v.acked \in Nat,
         \A j \in 1 .. Len(t) : Live(t[j]) => t[j].id = v.issued + 1
  PROVE  Before(s, t)
<1> SUFFICES ASSUME NEW i \in 1 .. Len(s), NEW j \in 1 .. Len(t), Live(s[i]), Live(t[j])
             PROVE  s[i].id < t[j].id
  BY DEF Before
<1>1. s[i].id \in Int /\ s[i].id <= v.issued
  <2>1. CASE s[i].kind \in {"pong", "ping"}
    BY <2>1 DEF AllDue
  <2>2. CASE s[i].kind \in {"ack", "configure"}
    BY <2>2 DEF AllDue
  <2> QED
    BY <2>1, <2>2 DEF Live
<1> QED
  BY <1>1

\* An answer that is due and first on the line: the others are still due when
\* it has been received.
LEMMA PongReceived ==
  ASSUME NEW r, NEW s, NEW v, NEW w, AllDue(v, s), Before(<< r >>, s), r.kind = "pong",
         r.id \in Nat, w.unanswered = v.unanswered \ {r.id}, w.acked = v.acked,
         w.issued = v.issued
  PROVE  AllDue(w, s)
<1>1. \A j \in 1 .. Len(s) : Live(s[j]) => r.id < s[j].id
  BY DEF Before, Live
<1>2. \A j \in 1 .. Len(s) : Live(s[j]) => s[j].id # r.id
  BY <1>1
<1> QED
  BY <1>2 DEF AllDue, Live

LEMMA AckReceived ==
  ASSUME NEW r, NEW s, NEW v, NEW w, AllDue(v, s), Before(<< r >>, s), r.kind = "ack",
         r.id \in Nat, v.acked \in Nat, v.issued \in Nat,
         w.unanswered = v.unanswered, w.acked = r.id, w.issued = v.issued
  PROVE  AllDue(w, s)
<1>1. \A j \in 1 .. Len(s) : Live(s[j]) => r.id < s[j].id
  BY DEF Before, Live
<1>2. \A j \in 1 .. Len(s) :
        s[j].kind \in {"ack", "configure"} => s[j].id \in r.id + 1 .. v.issued
  BY <1>1 DEF AllDue, Live
<1> QED
  BY <1>2 DEF AllDue

-------------------------------------------------------------------------------

LEMMA InitTurns == Init => Turns
<1> SUFFICES ASSUME Init PROVE Turns
  OBVIOUS
<1>1. TypeOK
  BY InitTypeOK
<1>2. /\ wire = <<>> /\ queue = <<>> /\ inbox = <<>> /\ out = << Req("commit", 0) >>
      /\ srv.unanswered = {} /\ srv.refused = FALSE /\ srv.acked = 0 /\ srv.issued = 0
  BY DEF Init
<1>3. Rising(out) /\ AllDue(srv, out)
  BY <1>2 DEF Rising, AllDue, Live, Req
<1>4. Line
  BY <1>2, <1>3, NothingOn DEF Line
<1>5. Dues
  BY <1>2, <1>3, NothingOn DEF Dues
<1> QED
  BY <1>1, <1>2, <1>4, <1>5 DEF Turns, NeverRefused

\* What the compositor sends goes to the end of the line.
LEMMA SendTurns ==
  ASSUME Turns, NEW t \in Seq(Event), Rising(t),
         \A j \in 1 .. Len(t) : Live(t[j]) => t[j].id = srv.issued + 1,
         inbox' = inbox \o t, wire' = wire, out' = out, queue' = queue,
         AllDue(srv', t), srv'.issued = srv.issued + 1, srv'.acked = srv.acked,
         srv.unanswered \subseteq srv'.unanswered,
         srv'.unanswered \subseteq 1 .. srv'.issued, srv'.refused = srv.refused
  PROVE  Line' /\ Dues' /\ NeverRefused'
<1>1. /\ inbox \in Seq(Event) /\ srv.issued \in Nat /\ srv.acked \in Nat
      /\ srv'.issued \in Nat /\ srv.issued <= srv'.issued
  BY DEF Turns, TypeOK
<1>2. Line /\ Dues /\ NeverRefused
  BY DEF Turns
<1>3. /\ AllDue(srv', wire) /\ AllDue(srv', out)
      /\ AllDue(srv', queue) /\ AllDue(srv', inbox)
  BY <1>1, <1>2, MoreDue DEF Dues
<1>4. AllDue(srv', inbox')
  BY <1>1, <1>3, JoinDue
<1>5. Before(wire, t) /\ Before(out, t) /\ Before(queue, t) /\ Before(inbox, t)
  BY <1>1, <1>2, NewestLast DEF Dues
<1>6. Rising(inbox')
  BY <1>1, <1>2, <1>5, JoinRising DEF Line
<1>7. Before(wire, inbox') /\ Before(out, inbox') /\ Before(queue, inbox')
  BY <1>1, <1>2, <1>5, JoinBefore DEF Line
<1>8. srv'.acked <= srv'.issued
  BY <1>1, <1>2 DEF Dues
<1> QED
  BY <1>2, <1>3, <1>4, <1>6, <1>7, <1>8 DEF Line, Dues, NeverRefused

LEMMA CompositorTurns ==
  ASSUME Turns, TypeOK', Compositor
  PROVE  Line' /\ Dues' /\ NeverRefused'
<1> DEFINE Srv == [ issued : 0 .. MaxIssued, committed : BOOLEAN, acked : 0 .. MaxIssued,
                    unanswered : SUBSET (1 .. MaxIssued), ponged : SUBSET (0 .. MaxIssued),
                    closed : BOOLEAN, fatal : BOOLEAN, refused : BOOLEAN ]
<1>1. /\ Line /\ Dues /\ NeverRefused /\ srv \in Srv /\ srv.issued \in Nat /\ srv.acked \in Nat
      /\ wire \in Seq(Request) /\ inbox \in Seq(Event)
  <2>1. Line /\ Dues /\ NeverRefused /\ TypeOK
    BY DEF Turns
  <2>2. srv \in Srv /\ wire \in Seq(Request) /\ inbox \in Seq(Event)
    BY <2>1 DEF TypeOK
  <2>3. srv.issued \in Nat /\ srv.acked \in Nat
    BY <2>2
  <2> QED
    BY <2>1, <2>2, <2>3
<1>2. UNCHANGED << out, queue >>
  BY CompositorStep DEF client
<1>3. CanSend => Serial \in 1 .. MaxIssued
  BY <1>1, EventLoopAssumption DEF CanSend, Serial
<1>4. ASSUME CanSend, NEW k \in Kinds \ {"toplevel"}
      PROVE  Ev(k, Serial, None) \in Event
  BY <1>3, <1>4 DEF Event, Ev
<1>5. CASE SrvPing
  <2> DEFINE t == << Ev("ping", Serial, None) >>
  <2>1. t \in Seq(Event) /\ inbox' = inbox \o t /\ wire' = wire
    BY <1>1, <1>4, <1>5 DEF SrvPing, Kinds
  <2>2. srv' = [srv EXCEPT !.issued = Serial, !.unanswered = @ \union {Serial}]
    BY <1>5 DEF SrvPing
  <2>3. /\ srv'.issued = Serial /\ srv'.acked = srv.acked /\ srv'.refused = srv.refused
        /\ srv'.unanswered = srv.unanswered \union {Serial}
    BY <1>1, <2>2
  <2>4. Len(t) = 1 /\ t[1].kind = "ping" /\ t[1].id = Serial
    BY DEF Ev
  <2> HIDE DEF t
  <2>5. Rising(t) /\ AllDue(srv', t)
    BY <2>3, <2>4 DEF Rising, AllDue
  <2>6. \A j \in 1 .. Len(t) : Live(t[j]) => t[j].id = srv.issued + 1
    BY <2>4 DEF Serial
  <2>7. srv'.unanswered \subseteq 1 .. srv'.issued
    BY <1>1, <2>3 DEF Dues, Serial
  <2> QED
    BY <1>2, <2>1, <2>3, <2>5, <2>6, <2>7, SendTurns DEF Serial
<1>6. CASE SrvClose
  <2> DEFINE t == << Ev("close", Serial, None) >>
  <2>1. t \in Seq(Event) /\ inbox' = inbox \o t /\ wire' = wire
    BY <1>1, <1>4, <1>6 DEF SrvClose, Kinds
  <2>2. srv' = [srv EXCEPT !.issued = Serial, !.closed = TRUE]
    BY <1>6 DEF SrvClose
  <2>3. /\ srv'.issued = Serial /\ srv'.acked = srv.acked /\ srv'.refused = srv.refused
        /\ srv'.unanswered = srv.unanswered
    BY <1>1, <2>2
  <2>4. Len(t) = 1 /\ t[1].kind = "close"
    BY DEF Ev
  <2> HIDE DEF t
  <2>5. Rising(t) /\ AllDue(srv', t) /\ \A j \in 1 .. Len(t) : ~ Live(t[j])
    BY <2>4 DEF Rising, AllDue, Live
  <2>7. srv'.unanswered \subseteq 1 .. srv'.issued
    BY <1>1, <2>3 DEF Dues, Serial
  <2> QED
    BY <1>2, <2>1, <2>3, <2>5, <2>7, SendTurns DEF Serial
<1>7. CASE SrvError
  <2> DEFINE t == << Ev("error", Serial, None) >>
  <2>1. t \in Seq(Event) /\ inbox' = inbox \o t /\ wire' = wire
    BY <1>1, <1>4, <1>7 DEF SrvError, Kinds
  <2>2. srv' = [srv EXCEPT !.issued = Serial, !.fatal = TRUE]
    BY <1>7 DEF SrvError
  <2>3. /\ srv'.issued = Serial /\ srv'.acked = srv.acked /\ srv'.refused = srv.refused
        /\ srv'.unanswered = srv.unanswered
    BY <1>1, <2>2
  <2>4. Len(t) = 1 /\ t[1].kind = "error"
    BY DEF Ev
  <2> HIDE DEF t
  <2>5. Rising(t) /\ AllDue(srv', t) /\ \A j \in 1 .. Len(t) : ~ Live(t[j])
    BY <2>4 DEF Rising, AllDue, Live
  <2>7. srv'.unanswered \subseteq 1 .. srv'.issued
    BY <1>1, <2>3 DEF Dues, Serial
  <2> QED
    BY <1>2, <2>1, <2>3, <2>5, <2>7, SendTurns DEF Serial
<1>8. ASSUME NEW size \in Sizes, SrvConfigure(size)
      PROVE  Line' /\ Dues' /\ NeverRefused'
  <2> DEFINE t == << Ev("toplevel", Serial, size), Ev("configure", Serial, None) >>
  <2>1. Ev("toplevel", Serial, size) \in Event /\ Ev("configure", Serial, None) \in Event
    BY <1>8, <1>3, <1>4 DEF SrvConfigure, Event, Ev, Kinds
  <2>2. t \in Seq(Event) /\ inbox' = inbox \o t /\ wire' = wire
    BY <1>8, <2>1 DEF SrvConfigure
  <2>3. srv' = [srv EXCEPT !.issued = Serial]
    BY <1>8 DEF SrvConfigure
  <2>4. /\ srv'.issued = Serial /\ srv'.acked = srv.acked /\ srv'.refused = srv.refused
        /\ srv'.unanswered = srv.unanswered
    BY <1>1, <2>3
  <2>5. /\ Len(t) = 2 /\ t[1].kind = "toplevel"
        /\ t[2].kind = "configure" /\ t[2].id = Serial
    BY DEF Ev
  <2> HIDE DEF t
  <2>6. \A j \in 1 .. Len(t) : j = 1 \/ j = 2
    BY <2>5
  <2>7. Rising(t)
    BY <2>5, <2>6 DEF Rising, Live
  <2>8. AllDue(srv', t)
    BY <1>1, <2>4, <2>5, <2>6 DEF AllDue, Serial, Dues
  <2>9. \A j \in 1 .. Len(t) : Live(t[j]) => t[j].id = srv.issued + 1
    BY <2>5, <2>6 DEF Live, Serial
  <2>10. srv'.unanswered \subseteq 1 .. srv'.issued
    BY <1>1, <2>4 DEF Dues, Serial
  <2> QED
    BY <1>2, <2>2, <2>4, <2>7, <2>8, <2>9, <2>10, SendTurns DEF Serial
<1>9. CASE SrvHangup
  BY <1>1, <1>2, <1>9, NothingOn DEF SrvHangup, Line, Dues, NeverRefused
<1>10. CASE SrvReceive
  <2> DEFINE r == Head(wire)
             a == << r >>
             b == Tail(wire)
  <2>1. wire # <<>> /\ inbox' = inbox /\ wire' = b
    BY <1>10 DEF SrvReceive
  <2>2. /\ 1 \in 0 .. Len(wire) /\ r \in Request /\ b \in Seq(Request)
        /\ a = SubSeq(wire, 1, 1) /\ b = SubSeq(wire, 1 + 1, Len(wire))
    BY <1>1, <2>1, FirstOf
  <2>3. r.kind \in {"commit", "pong", "ack"} /\ r.id \in Nat
    BY <2>2, EventLoopAssumption DEF Request
  <2>4. /\ r.kind = "commit" => srv' = [srv EXCEPT !.committed = TRUE]
        /\ r.kind = "pong" =>
             srv' = [srv EXCEPT !.refused = srv.refused \/ r.id \notin srv.unanswered,
                                !.unanswered = @ \ {r.id},
                                !.ponged = @ \union {r.id}]
        /\ r.kind = "ack" =>
             srv' = [srv EXCEPT !.refused = srv.refused \/ r.id \notin srv.acked + 1 .. srv.issued,
                                !.acked = r.id]
    BY <1>10 DEF SrvReceive
  <2>5. Len(a) = 1 /\ a[1] = r
    OBVIOUS
  <2> HIDE DEF r, a, b
  <2>6. Rising(b) /\ Before(a, b) /\ Part(a, wire) /\ Part(b, wire)
    BY <1>1, <2>2, CutRising, CutPart DEF Line
  <2>7. /\ Before(a, out) /\ Before(a, queue) /\ Before(a, inbox)
        /\ Before(b, out) /\ Before(b, queue) /\ Before(b, inbox)
    BY <1>1, <2>6, PartBefore DEF Line
  <2>8. AllDue(srv, a) /\ AllDue(srv, b)
    BY <1>1, <2>6, PartDue DEF Dues
  <2>9. Line'
    BY <1>1, <1>2, <2>1, <2>6, <2>7 DEF Line
  <2>10. CASE r.kind = "commit"
    <3>1. /\ srv'.unanswered = srv.unanswered /\ srv'.acked = srv.acked
          /\ srv'.issued = srv.issued /\ srv'.refused = srv.refused
      BY <1>1, <2>4, <2>10
    <3>2. \A s : AllDue(srv, s) => AllDue(srv', s)
      BY <3>1 DEF AllDue
    <3> QED
      BY <1>1, <1>2, <2>1, <2>8, <2>9, <3>1, <3>2 DEF Dues, NeverRefused
  <2>11. CASE r.kind = "pong"
    <3>1. r.id \in srv.unanswered
      BY <2>5, <2>8, <2>11 DEF AllDue
    <3>2. /\ srv'.unanswered = srv.unanswered \ {r.id} /\ srv'.acked = srv.acked
          /\ srv'.issued = srv.issued
          /\ srv'.refused = (srv.refused \/ r.id \notin srv.unanswered)
      BY <1>1, <2>4, <2>11
    <3>3. ASSUME NEW s, AllDue(srv, s), Before(a, s)
          PROVE  AllDue(srv', s)
      BY <2>3, <2>11, <3>2, <3>3, PongReceived DEF a
    <3>4. ~ srv'.refused
      BY <1>1, <3>1, <3>2 DEF NeverRefused
    <3>5. Dues'
      BY <1>1, <1>2, <2>1, <2>6, <2>7, <2>8, <3>2, <3>3 DEF Dues
    <3> QED
      BY <2>9, <3>4, <3>5 DEF NeverRefused
  <2>12. CASE r.kind = "ack"
    <3>1. r.id \in srv.acked + 1 .. srv.issued
      BY <2>5, <2>8, <2>12 DEF AllDue
    <3>2. /\ srv'.unanswered = srv.unanswered /\ srv'.acked = r.id
          /\ srv'.issued = srv.issued
          /\ srv'.refused = (srv.refused \/ r.id \notin srv.acked + 1 .. srv.issued)
      BY <1>1, <2>4, <2>12
    <3>3. ASSUME NEW s, AllDue(srv, s), Before(a, s)
          PROVE  AllDue(srv', s)
      BY <1>1, <2>3, <2>12, <3>2, <3>3, AckReceived DEF a
    <3>4. ~ srv'.refused
      BY <1>1, <3>1, <3>2 DEF NeverRefused
    <3>5. srv'.acked <= srv'.issued
      BY <1>1, <3>1, <3>2
    <3>6. Dues'
      BY <1>1, <1>2, <2>1, <2>6, <2>7, <2>8, <3>2, <3>3, <3>5 DEF Dues
    <3> QED
      BY <2>9, <3>4, <3>6 DEF NeverRefused
  <2> QED
    BY <2>3, <2>10, <2>11, <2>12
<1> QED
  BY <1>5, <1>6, <1>7, <1>8, <1>9, <1>10 DEF Compositor

-------------------------------------------------------------------------------

\* What a flush writes.
LEMMA FlushTurns ==
  ASSUME Turns, NEW n \in 0 .. Len(out), wire' = wire \o SubSeq(out, 1, n),
         out' = SubSeq(out, n + 1, Len(out)), UNCHANGED << queue, inbox, srv >>
  PROVE  Line' /\ Dues' /\ NeverRefused'
<1> DEFINE a == SubSeq(out, 1, n)
           b == SubSeq(out, n + 1, Len(out))
<1>1. /\ Line /\ Dues /\ NeverRefused /\ wire \in Seq(Request) /\ out \in Seq(Request)
      /\ a \in Seq(Request)
  <2>1. wire \in Seq(Request) /\ out \in Seq(Request)
    BY DEF Turns, TypeOK
  <2> QED
    BY <2>1, Cut DEF Turns
<1>2. a = SubSeq(out, 1, n) /\ b = SubSeq(out, n + 1, Len(out)) /\ wire' = wire \o a /\ out' = b
  OBVIOUS
<1> HIDE DEF a, b
<1>3. /\ Rising(wire \o a) /\ Rising(b) /\ Before(wire \o a, b)
      /\ \A x : /\ Before(x, wire) /\ Before(x, out) => Before(x, wire \o a) /\ Before(x, b)
                /\ Before(wire, x) /\ Before(out, x) => Before(wire \o a, x) /\ Before(b, x)
  <2>1. Rising(wire) /\ Rising(out) /\ Before(wire, out)
    BY <1>1 DEF Line
  <2>2. Rising(a) /\ Rising(b) /\ Before(a, b) /\ Part(a, out) /\ Part(b, out)
    BY <1>1, <1>2, <2>1, CutRising, CutPart
  <2> QED
    BY <1>1, <2>1, <2>2, MoveRising
<1>4. Line'
  BY <1>1, <1>2, <1>3 DEF Line
<1>5. AllDue(srv, a) /\ AllDue(srv, b)
  <2>1. Part(a, out) /\ Part(b, out)
    BY <1>1, <1>2, CutPart
  <2>2. AllDue(srv, out)
    BY <1>1 DEF Dues
  <2> QED
    BY <2>1, <2>2, PartDue
<1>6. AllDue(srv, wire \o a)
  BY <1>1, <1>5, JoinDue DEF Dues
<1> QED
  BY <1>1, <1>2, <1>4, <1>5, <1>6 DEF Dues, NeverRefused

\* What read_events takes.
LEMMA ReadTurns ==
  ASSUME Turns, NEW n \in 0 .. Len(inbox), queue' = queue \o SubSeq(inbox, 1, n),
         inbox' = SubSeq(inbox, n + 1, Len(inbox)), UNCHANGED << wire, out, srv >>
  PROVE  Line' /\ Dues' /\ NeverRefused'
<1> DEFINE a == SubSeq(inbox, 1, n)
           b == SubSeq(inbox, n + 1, Len(inbox))
<1>1. /\ Line /\ Dues /\ NeverRefused /\ queue \in Seq(Event) /\ inbox \in Seq(Event)
      /\ a \in Seq(Event)
  <2>1. queue \in Seq(Event) /\ inbox \in Seq(Event)
    BY DEF Turns, TypeOK
  <2> QED
    BY <2>1, Cut DEF Turns
<1>2. /\ a = SubSeq(inbox, 1, n) /\ b = SubSeq(inbox, n + 1, Len(inbox))
      /\ queue' = queue \o a /\ inbox' = b
  OBVIOUS
<1> HIDE DEF a, b
<1>3. /\ Rising(queue \o a) /\ Rising(b) /\ Before(queue \o a, b)
      /\ \A x : /\ Before(x, queue) /\ Before(x, inbox) => Before(x, queue \o a) /\ Before(x, b)
                /\ Before(queue, x) /\ Before(inbox, x) => Before(queue \o a, x) /\ Before(b, x)
  <2>1. Rising(queue) /\ Rising(inbox) /\ Before(queue, inbox)
    BY <1>1 DEF Line
  <2>2. Rising(a) /\ Rising(b) /\ Before(a, b) /\ Part(a, inbox) /\ Part(b, inbox)
    BY <1>1, <1>2, <2>1, CutRising, CutPart
  <2> QED
    BY <1>1, <2>1, <2>2, MoveRising
<1>4. Line'
  BY <1>1, <1>2, <1>3 DEF Line
<1>5. AllDue(srv, a) /\ AllDue(srv, b)
  <2>1. Part(a, inbox) /\ Part(b, inbox)
    BY <1>1, <1>2, CutPart
  <2>2. AllDue(srv, inbox)
    BY <1>1 DEF Dues
  <2> QED
    BY <2>1, <2>2, PartDue
<1>6. AllDue(srv, queue \o a)
  BY <1>1, <1>5, JoinDue DEF Dues
<1> QED
  BY <1>1, <1>2, <1>4, <1>5, <1>6 DEF Dues, NeverRefused

\* What a listener answers.
LEMMA DispatchTurns ==
  ASSUME Turns, queue # <<>>, out' = out \o Answer(Head(queue)), queue' = Tail(queue),
         UNCHANGED << wire, inbox, srv >>
  PROVE  Line' /\ Dues' /\ NeverRefused'
<1> DEFINE e == Head(queue)
           a == << e >>
           b == Tail(queue)
           t == Answer(e)
<1>1. /\ Line /\ Dues /\ NeverRefused /\ queue \in Seq(Event) /\ out \in Seq(Request)
  BY DEF Turns, TypeOK
<1>2. /\ 1 \in 0 .. Len(queue) /\ e \in Event /\ b \in Seq(Event)
      /\ a = SubSeq(queue, 1, 1) /\ b = SubSeq(queue, 1 + 1, Len(queue))
  BY <1>1, FirstOf
<1>3. t \in Seq(Request)
  BY <1>2, ListenerTypes
<1>4. /\ Rising(t)
      /\ \A x : /\ Before(x, a) => Before(x, t)
                /\ Before(a, x) => Before(t, x)
      /\ \A v : AllDue(v, a) => AllDue(v, t)
  BY <1>2, AnswerStandsFor
<1>5. out' = out \o t /\ queue' = b
  OBVIOUS
<1> HIDE DEF e, a, b, t
<1>6. Rising(b) /\ Before(a, b) /\ Part(a, queue) /\ Part(b, queue)
  BY <1>1, <1>2, CutRising, CutPart DEF Line
<1>7. /\ Before(wire, a) /\ Before(out, a) /\ Before(a, inbox)
      /\ Before(wire, b) /\ Before(out, b) /\ Before(b, inbox)
  BY <1>1, <1>6, PartBefore DEF Line
<1>8. /\ Before(wire, t) /\ Before(out, t) /\ Before(t, inbox) /\ Before(t, b)
  BY <1>4, <1>6, <1>7
<1>9. /\ Rising(out \o t)
  BY <1>1, <1>3, <1>4, <1>8, JoinRising DEF Line
<1>10. Before(wire, out \o t) /\ Before(out \o t, b) /\ Before(out \o t, inbox)
  BY <1>1, <1>3, <1>7, <1>8, JoinBefore DEF Line
<1>11. Line'
  BY <1>1, <1>5, <1>6, <1>7, <1>9, <1>10 DEF Line
<1>12. AllDue(srv, a) /\ AllDue(srv, b)
  BY <1>1, <1>6, PartDue DEF Dues
<1>13. AllDue(srv, out \o t)
  BY <1>1, <1>3, <1>4, <1>12, JoinDue DEF Dues
<1> QED
  BY <1>1, <1>5, <1>11, <1>12, <1>13 DEF Dues, NeverRefused

\* Nothing moves.
LEMMA SameTurns ==
  ASSUME Turns, UNCHANGED << wire, out, queue, inbox, srv >>
  PROVE  Line' /\ Dues' /\ NeverRefused'
  BY DEF Turns, Line, Dues, NeverRefused

LEMMA StepTurns == Turns /\ [Next]_vars => Turns'
<1> SUFFICES ASSUME Turns, [Next]_vars PROVE Turns'
  OBVIOUS
<1>1. TypeOK /\ TypeOK'
  BY StepTypeOK DEF Turns
<1>2. /\ Line /\ Dues /\ NeverRefused
      /\ wire \in Seq(Request) /\ out \in Seq(Request)
      /\ queue \in Seq(Event) /\ inbox \in Seq(Event)
  BY DEF Turns, TypeOK
<1>3. CASE Compositor
  BY <1>1, <1>3, CompositorTurns DEF Turns
<1>4. CASE Client
  <2>1. CASE Poll \/ PollInterrupted \/ Prepare \/ FlushFails
    BY <1>1, <2>1, SameTurns DEF Turns, Poll, PollInterrupted, Prepare, FlushFails
  <2>2. CASE SkipRead \/ CancelRead \/ ReadFails \/ DispatchDone \/ HandleEvent \/ HandleDone
    BY <1>1, <2>2, SameTurns
       DEF Turns, SkipRead, CancelRead, ReadFails, DispatchDone, HandleEvent, HandleDone
  <2>3. CASE FlushAll
    <3> DEFINE n == Len(out)
    <3>1. wire' = wire \o out /\ out' = <<>> /\ UNCHANGED << queue, inbox, srv >>
      BY <2>3 DEF FlushAll
    <3>2. n \in 0 .. Len(out) /\ SubSeq(out, 1, n) = out /\ SubSeq(out, n + 1, Len(out)) = <<>>
      BY <1>2
    <3> HIDE DEF n
    <3> QED
      BY <1>1, <3>1, <3>2, FlushTurns DEF Turns
  <2>4. CASE FlushBlocked
    <3> DEFINE n == SockCap - Len(wire)
    <3>1. n \in 0 .. Len(out)
      BY <1>1, <2>4, EventLoopAssumption DEF FlushBlocked, TypeOK
    <3>2. /\ wire' = wire \o SubSeq(out, 1, n) /\ out' = SubSeq(out, n + 1, Len(out))
          /\ UNCHANGED << queue, inbox, srv >>
      BY <2>4 DEF FlushBlocked
    <3> HIDE DEF n
    <3> QED
      BY <1>1, <3>1, <3>2, FlushTurns DEF Turns
  <2>5. CASE ReadEvents
    <3>1. PICK n \in 1 .. Len(inbox) :
            /\ queue' = queue \o SubSeq(inbox, 1, n)
            /\ inbox' = SubSeq(inbox, n + 1, Len(inbox))
      BY <2>5 DEF ReadEvents
    <3>2. n \in 0 .. Len(inbox)
      OBVIOUS
    <3>3. UNCHANGED << wire, out, srv >>
      BY <2>5 DEF ReadEvents
    <3> QED
      BY <1>1, <3>1, <3>2, <3>3, ReadTurns DEF Turns
  <2>6. CASE DispatchError
    <3>1. UNCHANGED << wire, out, inbox, srv >>
      BY <2>6 DEF DispatchError
    <3>2. CASE HasError(queue)
      <4> DEFINE n == Len(queue) - 1
                 a == SubSeq(queue, 1, n)
                 b == SubSeq(queue, n + 1, Len(queue))
      <4>1. queue # <<>> /\ queue' = Front(queue)
        BY <2>6, <3>2 DEF DispatchError, HasError
      <4>2. n \in 0 .. Len(queue)
        BY <1>2, <4>1
      <4>3. queue' = a
        BY <4>1 DEF Front
      <4>4. a = SubSeq(queue, 1, n) /\ b = SubSeq(queue, n + 1, Len(queue))
        OBVIOUS
      <4> HIDE DEF n, a, b
      <4>5. Rising(a) /\ Part(a, queue)
        BY <1>2, <4>2, <4>4, CutRising, CutPart DEF Line
      <4>6. Before(wire, a) /\ Before(out, a) /\ Before(a, inbox)
        BY <1>2, <4>5, PartBefore DEF Line
      <4>7. AllDue(srv, a)
        BY <1>2, <4>5, PartDue DEF Dues
      <4> QED
        BY <1>1, <1>2, <3>1, <4>3, <4>5, <4>6, <4>7 DEF Turns, Line, Dues, NeverRefused
    <3>3. CASE ~ HasError(queue)
      <4>1. queue' = queue
        BY <2>6, <3>3 DEF DispatchError
      <4> QED
        BY <1>1, <3>1, <4>1, SameTurns DEF Turns
    <3> QED
      BY <3>2, <3>3
  <2>7. CASE DispatchEvent
    <3>1. /\ queue # <<>> /\ out' = out \o Answer(Head(queue)) /\ queue' = Tail(queue)
          /\ UNCHANGED << wire, inbox, srv >>
      BY <2>7 DEF DispatchEvent
    <3> QED
      BY <1>1, <3>1, DispatchTurns DEF Turns
  <2>8. CASE Exit
    <3>1. out' = <<>> /\ queue' = <<>> /\ UNCHANGED << wire, inbox, srv >>
      BY <2>8 DEF Exit
    <3> QED
      BY <1>1, <1>2, <3>1, NothingOn DEF Turns, Line, Dues, NeverRefused
  <2> QED
    BY <1>4, <2>1, <2>2, <2>3, <2>4, <2>5, <2>6, <2>7, <2>8 DEF Client
<1>5. CASE UNCHANGED vars
  BY <1>1, <1>5, SameTurns DEF Turns, vars, client
<1> QED
  BY <1>3, <1>4, <1>5 DEF Next

\* Partial flushes, split and skipped reads included, the compositor never gets
\* an ack_configure or a pong that it does not wait for.
THEOREM LoopNeverRefused == Spec => []NeverRefused
<1>1. Turns => NeverRefused
  BY DEF Turns
<1> QED
  BY <1>1, InitTurns, StepTurns, PTL DEF Spec

-------------------------------------------------------------------------------
(***************************************************************************)
(* No ack overtakes its resize                                             *)
(***************************************************************************)

\* The application got the resize of the configure sequence k, or the array
\* holds it.
HasResize(s, k) == \E j \in 1 .. Len(s) : s[j].kind = "resize" /\ s[j].id = k
Made(rec, evs, k) == HasResize(rec, k) \/ HasResize(evs, k)
\* So it is for the acks of s.
AcksMade(s, rec, evs) ==
  \A i \in 1 .. Len(s) : s[i].kind = "ack" => Made(rec, evs, s[i].id)
\* It is, or will be: the toplevel event comes first.
Led(s, rec, evs) ==
  \A j \in 1 .. Len(s) : s[j].kind = "configure" =>
    \/ Made(rec, evs, s[j].id)
    \/ \E i \in 1 .. Len(s) : i < j /\ s[i].kind = "toplevel" /\ s[i].id = s[j].id

Acks == /\ TypeOK /\ DrainedBeforePoll
        /\ AcksMade(sent, received, <<>>)
        /\ AcksMade(out, received, events)
        /\ pc # "done" /\ ~error => Led(queue \o inbox, received, events)

LEMMA NoResize == \A k : ~ HasResize(<<>>, k)
  BY DEF HasResize

LEMMA AcksOfPart ==
  ASSUME NEW a, NEW s, NEW rec, NEW evs, Part(a, s), AcksMade(s, rec, evs)
  PROVE  AcksMade(a, rec, evs)
  BY DEF Part, AcksMade

LEMMA AcksOfJoin ==
  ASSUME NEW S, NEW s \in Seq(S), NEW t \in Seq(S), NEW rec, NEW evs,
         AcksMade(s, rec, evs), AcksMade(t, rec, evs)
  PROVE  AcksMade(s \o t, rec, evs)
<1> DEFINE c == s \o t
<1>1. \A i \in 1 .. Len(c) :
        \/ i \in 1 .. Len(s) /\ i <= Len(s) /\ c[i] = s[i]
        \/ i - Len(s) \in 1 .. Len(t) /\ i > Len(s) /\ c[i] = t[i - Len(s)]
  BY JoinAt
<1> HIDE DEF c
<1>2. AcksMade(c, rec, evs)
  BY <1>1 DEF AcksMade
<1> QED
  BY <1>2 DEF c

\* What was made stays made.
LEMMA AcksStay ==
  ASSUME NEW rec, NEW evs, NEW r, NEW v, \A k : Made(rec, evs, k) => Made(r, v, k)
  PROVE  /\ \A s : AcksMade(s, rec, evs) => AcksMade(s, r, v)
         /\ \A s : Led(s, rec, evs) => Led(s, r, v)
<1>1. ASSUME NEW s, AcksMade(s, rec, evs)
      PROVE  AcksMade(s, r, v)
  BY <1>1 DEF AcksMade
<1>2. ASSUME NEW s, Led(s, rec, evs)
      PROVE  Led(s, r, v)
  BY <1>2 DEF Led
<1> QED
  BY <1>1, <1>2

\* Where the elements of a joined sequence come from and go to.
LEMMA JoinedAt ==
  ASSUME NEW S, NEW s \in Seq(S), NEW t \in Seq(S)
  PROVE  /\ Len(s) \in Nat /\ Len(s \o t) = Len(s) + Len(t) /\ Len(t) \in Nat
         /\ \A i \in 1 .. Len(s) : i \in 1 .. Len(s \o t) /\ (s \o t)[i] = s[i]
         /\ \A i \in 1 .. Len(t) :
              Len(s) + i \in 1 .. Len(s \o t) /\ (s \o t)[Len(s) + i] = t[i]
<1> DEFINE c == s \o t
<1>1. /\ Len(c) = Len(s) + Len(t)
      /\ \A i \in 1 .. Len(s) + Len(t) : c[i] = IF i <= Len(s) THEN s[i] ELSE t[i - Len(s)]
  BY ConcatProperties
<1>2. Len(s) \in Nat /\ Len(t) \in Nat
  OBVIOUS
<1> HIDE DEF c
<1>3. ASSUME NEW i \in 1 .. Len(s)
      PROVE  i \in 1 .. Len(c) /\ c[i] = s[i]
  BY <1>1, <1>2
<1>4. ASSUME NEW i \in 1 .. Len(t)
      PROVE  Len(s) + i \in 1 .. Len(c) /\ c[Len(s) + i] = t[i]
  <2>1. Len(s) + i \in 1 .. Len(s) + Len(t) /\ ~ (Len(s) + i <= Len(s)) /\ Len(s) + i - Len(s) = i
    BY <1>2
  <2> QED
    BY <1>1, <2>1
<1> QED
  BY <1>1, <1>2, <1>3, <1>4 DEF c

LEMMA ResizeOfJoin ==
  ASSUME NEW S, NEW s \in Seq(S), NEW t \in Seq(S), NEW k
  PROVE  HasResize(s, k) \/ HasResize(t, k) <=> HasResize(s \o t, k)
<1> DEFINE c == s \o t
<1>1. /\ \A i \in 1 .. Len(s) : i \in 1 .. Len(c) /\ c[i] = s[i]
      /\ \A i \in 1 .. Len(t) : Len(s) + i \in 1 .. Len(c) /\ c[Len(s) + i] = t[i]
  BY JoinedAt
<1>2. \A i \in 1 .. Len(c) :
        \/ i \in 1 .. Len(s) /\ i <= Len(s) /\ c[i] = s[i]
        \/ i - Len(s) \in 1 .. Len(t) /\ i > Len(s) /\ c[i] = t[i - Len(s)]
  BY JoinAt
<1> HIDE DEF c
<1>3. HasResize(s, k) => HasResize(c, k)
  BY <1>1 DEF HasResize
<1>4. HasResize(t, k) => HasResize(c, k)
  BY <1>1 DEF HasResize
<1>5. HasResize(c, k) => HasResize(s, k) \/ HasResize(t, k)
  BY <1>2 DEF HasResize
<1> QED
  BY <1>3, <1>4, <1>5 DEF c

\* A sequence that is led, continued by a part that is.
LEMMA LedJoin ==
  ASSUME NEW S, NEW s \in Seq(S), NEW t \in Seq(S), NEW rec, NEW evs,
         Led(s, rec, evs), Led(t, rec, evs)
  PROVE  Led(s \o t, rec, evs)
<1> DEFINE c == s \o t
<1>1. /\ Len(s) \in Nat
      /\ \A i \in 1 .. Len(s) : i \in 1 .. Len(c) /\ c[i] = s[i]
      /\ \A i \in 1 .. Len(t) : Len(s) + i \in 1 .. Len(c) /\ c[Len(s) + i] = t[i]
  BY JoinedAt
<1>2. \A i \in 1 .. Len(c) :
        \/ i \in 1 .. Len(s) /\ i <= Len(s) /\ c[i] = s[i]
        \/ i - Len(s) \in 1 .. Len(t) /\ i > Len(s) /\ c[i] = t[i - Len(s)]
  BY JoinAt
<1> HIDE DEF c
<1> SUFFICES ASSUME NEW j \in 1 .. Len(c), c[j].kind = "configure", ~ Made(rec, evs, c[j].id)
             PROVE  \E i \in 1 .. Len(c) :
                      i < j /\ c[i].kind = "toplevel" /\ c[i].id = c[j].id
  BY DEF Led, c
<1>3. CASE j \in 1 .. Len(s) /\ c[j] = s[j]
  <2>1. PICK i \in 1 .. Len(s) : i < j /\ s[i].kind = "toplevel" /\ s[i].id = s[j].id
    BY <1>3 DEF Led
  <2>2. i \in 1 .. Len(c) /\ c[i] = s[i]
    BY <1>1
  <2> QED
    BY <1>3, <2>1, <2>2
<1>4. CASE j - Len(s) \in 1 .. Len(t) /\ c[j] = t[j - Len(s)]
  <2>1. PICK i \in 1 .. Len(t) :
          i < j - Len(s) /\ t[i].kind = "toplevel" /\ t[i].id = t[j - Len(s)].id
    BY <1>4 DEF Led
  <2>2. Len(s) + i \in 1 .. Len(c) /\ c[Len(s) + i] = t[i]
    BY <1>1
  <2>3. Len(s) + i < j
    BY <1>1, <2>1
  <2> QED
    BY <1>4, <2>1, <2>2, <2>3
<1> QED
  BY <1>2, <1>3, <1>4

\* The first of a sequence that is led is handled: r and v are what the
\* application got and the array afterwards.
LEMMA LedTail ==
  ASSUME NEW S, NEW s \in Seq(S), s # <<>>, NEW rec, NEW evs, NEW r, NEW v,
         Led(s, rec, evs), \A k : Made(rec, evs, k) => Made(r, v, k),
         Head(s).kind = "toplevel" => Made(r, v, Head(s).id)
  PROVE  /\ Led(Tail(s), r, v)
         /\ Head(s).kind = "configure" => Made(rec, evs, Head(s).id)
<1> DEFINE b == Tail(s)
           h == Head(s)
<1>1. Len(s) \in Nat /\ 1 \in 1 .. Len(s) /\ h = s[1]
  BY LenProperties, EmptySeq
<1>2. Len(b) = Len(s) - 1 /\ \A i \in 1 .. Len(b) : b[i] = s[i + 1]
  BY HeadTailProperties
<1> HIDE DEF b, h
<1>3. h.kind = "configure" => Made(rec, evs, h.id)
  BY <1>1 DEF Led
<1>4. ASSUME NEW j \in 1 .. Len(b), b[j].kind = "configure", ~ Made(r, v, b[j].id)
      PROVE  \E i \in 1 .. Len(b) : i < j /\ b[i].kind = "toplevel" /\ b[i].id = b[j].id
  <2>1. j + 1 \in 1 .. Len(s) /\ b[j] = s[j + 1]
    BY <1>1, <1>2
  <2>2. PICK i \in 1 .. Len(s) : i < j + 1 /\ s[i].kind = "toplevel" /\ s[i].id = s[j + 1].id
    BY <1>4, <2>1 DEF Led
  <2>3. i # 1
    BY <1>1, <1>4, <2>1, <2>2 DEF h
  <2>4. i - 1 \in 1 .. Len(b) /\ i - 1 < j /\ (i - 1) + 1 = i
    BY <1>1, <1>2, <2>2, <2>3
  <2>5. b[i - 1] = s[i]
    BY <1>2, <2>4
  <2> QED
    BY <2>1, <2>2, <2>4, <2>5
<1> QED
  BY <1>3, <1>4 DEF Led, b, h

LEMMA Associative ==
  ASSUME NEW S, NEW s \in Seq(S), NEW t \in Seq(S), NEW u \in Seq(S)
  PROVE  s \o t \in Seq(S) /\ s \o (t \o u) = (s \o t) \o u
<1>1. s \o t \in Seq(S)
  BY ConcatProperties
<1>2. (s \o t) \o u = s \o (t \o u)
  BY ConcatAssociative
<1> QED
  BY <1>1, <1>2

\* Reading moves the border between queue and inbox.
Regrouped(q, a, b, s) == a \o b = s => (q \o a) \o b = q \o s

LEMMA Regroup ==
  ASSUME NEW S, NEW q \in Seq(S), NEW a \in Seq(S), NEW b \in Seq(S), NEW s
  PROVE  Regrouped(q, a, b, s)
<1>1. (q \o a) \o b = q \o (a \o b)
  BY ConcatAssociative
<1> QED
  BY <1>1 DEF Regrouped

LEMMA CutAndJoin ==
  ASSUME NEW S, NEW q \in Seq(S), NEW s \in Seq(S), NEW n \in 1 .. Len(s)
  PROVE  (q \o SubSeq(s, 1, n)) \o SubSeq(s, n + 1, Len(s)) = q \o s
<1> DEFINE a == SubSeq(s, 1, n)
           b == SubSeq(s, n + 1, Len(s))
<1>1. a \in Seq(S) /\ b \in Seq(S)
  BY Cut
<1>2. a \o b = s
  <2>1. /\ Len(s) \in Nat /\ 1 \in 1 .. Len(s) + 1
        /\ n \in 1 - 1 .. Len(s) /\ Len(s) \in n .. Len(s)
    OBVIOUS
  <2>2. a \o b = SubSeq(s, 1, Len(s))
    BY <2>1, ConcatAdjacentSubSeq
  <2> QED
    BY <2>2, SubSeqFull
<1> HIDE DEF a, b
<1>3. Regrouped(q, a, b, s)
  BY <1>1, Regroup
<1> QED
  BY <1>2, <1>3 DEF a, b, Regrouped

LEMMA FrontAt ==
  ASSUME NEW S, NEW s \in Seq(S), s # <<>>
  PROVE  /\ Len(s) \in Nat /\ Len(s) # 0
         /\ Len(Front(s)) = Len(s) - 1
         /\ \A i \in 1 .. Len(s) - 1 : Front(s)[i] = s[i]
<1>1. Len(s) \in Nat /\ Len(s) # 0
  BY EmptySeq
<1>2. PICK n \in Nat : n = Len(s) - 1
  BY <1>1
<1>3. Front(s) = SubSeq(s, 1, n)
  BY <1>2 DEF Front
<1>4. \A i \in 1 .. n : s[i] \in S
  BY <1>1, <1>2, ElementOfSeq
<1>5. Len(Front(s)) = n /\ \A i \in 1 .. n : Front(s)[i] = s[i]
  BY <1>3, <1>4, SubSeqProperties
<1> QED
  BY <1>1, <1>2, <1>5

\* What the listeners do about it.
LEMMA ListenerMakes ==
  ASSUME NEW e \in Event, NEW evs \in Seq(AppEvent), NEW rec
  PROVE  /\ \A k : Made(rec, evs, k) => Made(rec, evs \o Pushed(e), k)
         /\ e.kind = "toplevel" => Made(rec, evs \o Pushed(e), e.id)
         /\ \A v : (e.kind = "configure" => Made(rec, v, e.id)) => AcksMade(Answer(e), rec, v)
<1> DEFINE t == Pushed(e)
<1>1. t \in Seq(AppEvent)
  BY ListenerTypes
<1>2. e.kind = "toplevel" => HasResize(t, e.id)
  <2> SUFFICES ASSUME e.kind = "toplevel" PROVE HasResize(t, e.id)
    OBVIOUS
  <2>1. t = << [kind |-> "resize", id |-> e.id, size |-> Clamp(e.size)] >>
    BY DEF Pushed
  <2>2. Len(t) = 1 /\ t[1].kind = "resize" /\ t[1].id = e.id
    BY <2>1
  <2> QED
    BY <2>2 DEF HasResize
<1>3. ASSUME NEW v, e.kind = "configure" => Made(rec, v, e.id)
      PROVE  AcksMade(Answer(e), rec, v)
  <2>1. CASE e.kind = "ping"
    <3>1. Answer(e) = << Req("pong", e.id) >>
      BY <2>1 DEF Answer
    <3> QED
      BY <3>1 DEF AcksMade, Req
  <2>2. CASE e.kind = "configure"
    <3>1. Answer(e) = << Req("ack", e.id) >>
      BY <2>2 DEF Answer
    <3> QED
      BY <1>3, <2>2, <3>1 DEF AcksMade, Req
  <2>3. CASE e.kind \notin {"ping", "configure"}
    <3>1. Answer(e) = <<>>
      BY <2>3 DEF Answer
    <3> QED
      BY <3>1 DEF AcksMade
  <2> QED
    BY <2>1, <2>2, <2>3
<1> HIDE DEF t
<1>4. \A k : HasResize(evs, k) \/ HasResize(t, k) <=> HasResize(evs \o t, k)
  BY <1>1, ResizeOfJoin
<1>5. /\ \A k : Made(rec, evs, k) => Made(rec, evs \o t, k)
      /\ e.kind = "toplevel" => Made(rec, evs \o t, e.id)
  BY <1>2, <1>4 DEF Made
<1> QED
  BY <1>3, <1>5 DEF t

\* event_loop_get moves the last event from the array to the application.
LEMMA GetKeeps ==
  ASSUME NEW evs \in Seq(AppEvent), evs # <<>>, NEW rec \in Seq(AppEvent),
         NEW k, Made(rec, evs, k)
  PROVE  Made(Append(rec, Last(evs)), Front(evs), k)
<1> DEFINE e == Last(evs)
           t == << e >>
           f == Front(evs)
<1>1. e \in AppEvent /\ e = evs[Len(evs)]
  BY LastAndFront DEF Last
<1>2. /\ Len(evs) \in Nat /\ Len(evs) # 0 /\ Len(f) = Len(evs) - 1
      /\ \A i \in 1 .. Len(evs) - 1 : f[i] = evs[i]
  BY FrontAt
<1>3. Append(rec, e) = rec \o t /\ t \in Seq(AppEvent) /\ Len(t) = 1 /\ t[1] = e
  BY <1>1, AppendIsConcat
<1> HIDE DEF e, f, t
<1>4. HasResize(rec, k) \/ HasResize(t, k) => HasResize(Append(rec, e), k)
  BY <1>3, ResizeOfJoin
<1>5. HasResize(evs, k) => HasResize(f, k) \/ HasResize(t, k)
  <2> SUFFICES ASSUME NEW j \in 1 .. Len(evs), evs[j].kind = "resize", evs[j].id = k
               PROVE  HasResize(f, k) \/ HasResize(t, k)
    BY DEF HasResize
  <2>1. CASE j = Len(evs)
    BY <1>1, <1>3, <2>1 DEF HasResize
  <2>2. CASE j # Len(evs)
    <3>1. j \in 1 .. Len(evs) - 1 /\ j \in 1 .. Len(f)
      BY <1>2, <2>2
    <3> QED
      BY <1>2, <3>1 DEF HasResize
  <2> QED
    BY <2>1, <2>2
<1> QED
  BY <1>4, <1>5 DEF Made, e, f

LEMMA InitAcks == Init => Acks
<1> SUFFICES ASSUME Init PROVE Acks
  OBVIOUS
<1>1. TypeOK /\ DrainedBeforePoll
  BY InitTypeOK, InitDrained
<1>2. /\ sent = <<>> /\ queue = <<>> /\ inbox = <<>> /\ queue \o inbox = <<>>
      /\ out = << Req("commit", 0) >>
  BY DEF Init
<1>3. AcksMade(out, received, events)
  BY <1>2 DEF AcksMade, Req
<1>4. AcksMade(sent, received, <<>>) /\ Led(queue \o inbox, received, events)
  BY <1>2 DEF AcksMade, Led
<1> QED
  BY <1>1, <1>3, <1>4 DEF Acks

\* What the compositor adds to its end of the line.
LEMMA CompositorSends ==
  ASSUME TypeOK, Compositor
  PROVE  \E t \in Seq(Event) : inbox' = inbox \o t /\ \A rec, evs : Led(t, rec, evs)
<1>1. inbox \in Seq(Event) /\ srv.issued \in Nat
  BY DEF TypeOK
<1>2. CanSend => Serial \in 1 .. MaxIssued
  BY <1>1, EventLoopAssumption DEF CanSend, Serial
<1>3. ASSUME CanSend, NEW k \in {"ping", "close", "error"},
             inbox' = Append(inbox, Ev(k, Serial, None))
      PROVE  \E t \in Seq(Event) : inbox' = inbox \o t /\ \A rec, evs : Led(t, rec, evs)
  <2> DEFINE t == << Ev(k, Serial, None) >>
  <2>1. t \in Seq(Event) /\ inbox' = inbox \o t
    BY <1>1, <1>2, <1>3, AppendIsConcat DEF Event, Ev, Kinds
  <2>2. \A rec, evs : Led(t, rec, evs)
    BY DEF Led, Ev
  <2> QED
    BY <2>1, <2>2
<1>4. CASE SrvPing \/ SrvClose \/ SrvError
  BY <1>3, <1>4 DEF SrvPing, SrvClose, SrvError
<1>5. ASSUME NEW size \in Sizes, SrvConfigure(size)
      PROVE  \E t \in Seq(Event) : inbox' = inbox \o t /\ \A rec, evs : Led(t, rec, evs)
  <2> DEFINE t == << Ev("toplevel", Serial, size), Ev("configure", Serial, None) >>
  <2>1. Ev("toplevel", Serial, size) \in Event /\ Ev("configure", Serial, None) \in Event
    BY <1>2, <1>5 DEF SrvConfigure, Event, Ev, Kinds
  <2>2. t \in Seq(Event) /\ inbox' = inbox \o t
    BY <1>5, <2>1 DEF SrvConfigure
  <2>3. Len(t) = 2 /\ t[1].kind = "toplevel" /\ t[1].id = Serial /\ t[2].id = Serial
    BY DEF Ev
  <2> HIDE DEF t
  <2>4. \A j \in 1 .. Len(t) : j = 1 \/ j = 2
    BY <2>3
  <2>5. \A rec, evs : Led(t, rec, evs)
    BY <2>3, <2>4 DEF Led
  <2> QED
    BY <2>2, <2>5
<1>6. CASE SrvHangup \/ SrvReceive
  <2>1. inbox' = inbox \o <<>>
    BY <1>1, <1>6, ConcatEmptySeq DEF SrvHangup, SrvReceive
  <2>2. <<>> \in Seq(Event) /\ \A rec, evs : Led(<<>>, rec, evs)
    BY DEF Led
  <2> QED
    BY <2>1, <2>2
<1> QED
  BY <1>4, <1>5, <1>6 DEF Compositor

LEMMA StepAcks == Acks /\ [Next]_vars => Acks'
<1> SUFFICES ASSUME Acks, [Next]_vars PROVE Acks'
  OBVIOUS
<1>1. TypeOK /\ DrainedBeforePoll /\ TypeOK' /\ DrainedBeforePoll'
  BY StepTypeOK, StepDrained DEF Acks
<1>2. /\ AcksMade(sent, received, <<>>) /\ AcksMade(out, received, events)
      /\ pc # "done" /\ ~error => Led(queue \o inbox, received, events)
  BY DEF Acks
<1>3. /\ out \in Seq(Request) /\ sent \in Seq(Request)
      /\ queue \in Seq(Event) /\ inbox \in Seq(Event)
      /\ events \in Seq(AppEvent) /\ received \in Seq(AppEvent)
  BY <1>1 DEF TypeOK
<1>4. CASE Compositor
  <2>1. /\ UNCHANGED << pc, error, sent, out, queue, received, events >>
    BY <1>4, CompositorStep DEF client, history
  <2>2. PICK t \in Seq(Event) : inbox' = inbox \o t /\ \A rec, evs : Led(t, rec, evs)
    BY <1>1, <1>4, CompositorSends
  <2>3. queue \o inbox \in Seq(Event) /\ queue \o (inbox \o t) = (queue \o inbox) \o t
    BY <1>3, Associative, SMTT(30)
  <2>4. Led(queue \o inbox, received, events) => Led((queue \o inbox) \o t, received, events)
    BY <2>2, <2>3, LedJoin
  <2> QED
    BY <1>1, <1>2, <2>1, <2>2, <2>3, <2>4 DEF Acks
<1>5. CASE Client
  <2>1. CASE Poll \/ PollInterrupted \/ Prepare \/ FlushFails
    BY <1>1, <1>2, <2>1 DEF Acks, Poll, PollInterrupted, Prepare, FlushFails, history
  <2>2. CASE SkipRead \/ CancelRead \/ ReadFails \/ DispatchDone \/ HandleDone
    BY <1>1, <1>2, <2>2
       DEF Acks, SkipRead, CancelRead, ReadFails, DispatchDone, HandleDone, history
  <2>3. CASE FlushAll
    <3>1. /\ sent' = sent \o out /\ out' = <<>> /\ pc # "done"
          /\ UNCHANGED << queue, inbox, received, events, error >>
      BY <2>3 DEF FlushAll
    <3>2. AcksMade(out, received, <<>>)
      BY <1>1, <1>2, <2>3 DEF FlushAll, DrainedBeforePoll
    <3>3. AcksMade(sent \o out, received, <<>>)
      BY <1>2, <1>3, <3>2, AcksOfJoin
    <3>4. AcksMade(<<>>, received, events)
      BY DEF AcksMade
    <3> QED
      BY <1>1, <1>2, <3>1, <3>3, <3>4 DEF Acks
  <2>4. CASE FlushBlocked
    <3> DEFINE n == SockCap - Len(wire)
               a == SubSeq(out, 1, n)
               b == SubSeq(out, n + 1, Len(out))
    <3>1. n \in 0 .. Len(out)
      BY <1>1, <2>4, EventLoopAssumption DEF FlushBlocked, TypeOK
    <3>2. /\ sent' = sent \o a /\ out' = b /\ pc # "done"
          /\ UNCHANGED << queue, inbox, received, events, error >>
      BY <2>4 DEF FlushBlocked
    <3>3. AcksMade(out, received, <<>>)
      BY <1>1, <1>2, <2>4 DEF FlushBlocked, DrainedBeforePoll
    <3>4. a = SubSeq(out, 1, n) /\ b = SubSeq(out, n + 1, Len(out))
      OBVIOUS
    <3> HIDE DEF n, a, b
    <3>5. a \in Seq(Request) /\ Part(a, out) /\ Part(b, out)
      BY <1>3, <3>1, <3>4, Cut, CutPart
    <3>6. AcksMade(a, received, <<>>) /\ AcksMade(b, received, events)
      BY <1>2, <3>3, <3>5, AcksOfPart
    <3>7. AcksMade(sent \o a, received, <<>>)
      BY <1>2, <1>3, <3>5, <3>6, AcksOfJoin
    <3> QED
      BY <1>1, <1>2, <3>2, <3>6, <3>7 DEF Acks
  <2>5. CASE ReadEvents
    <3>1. PICK n \in 1 .. Len(inbox) :
            /\ queue' = queue \o SubSeq(inbox, 1, n)
            /\ inbox' = SubSeq(inbox, n + 1, Len(inbox))
      BY <2>5 DEF ReadEvents
    <3>5. queue' \o inbox' = queue \o inbox
      BY <1>3, <3>1, CutAndJoin
    <3>6. pc # "done" /\ UNCHANGED << sent, out, received, events, error >>
      BY <2>5 DEF ReadEvents, history
    <3> QED
      BY <1>1, <1>2, <3>5, <3>6 DEF Acks
  <2>6. CASE DispatchError
    BY <1>1, <1>2, <2>6 DEF Acks, DispatchError, history
  <2>7. CASE DispatchEvent
    <3> DEFINE e == Head(queue)
               s == queue \o inbox
    <3>1. /\ queue # <<>> /\ out' = out \o Answer(e) /\ events' = events \o Pushed(e)
          /\ queue' = Tail(queue) /\ pc # "done" /\ ~error
          /\ UNCHANGED << pc, error, inbox, received, sent >>
      BY <2>7 DEF DispatchEvent
    <3>2. e \in Event /\ Tail(queue) \in Seq(Event) /\ queue = << e >> \o Tail(queue)
      BY <1>3, <3>1, HeadTailProperties
    <3>3. s \in Seq(Event) /\ s # <<>> /\ Head(s) = e /\ Tail(s) = Tail(queue) \o inbox
      <4>1. s \in Seq(Event) /\ Len(s) = Len(queue) + Len(inbox) /\ Len(queue) # 0
        BY <1>3, <3>1, ConcatProperties, EmptySeq
      <4>2. s # <<>>
        BY <1>3, <3>1, ConcatEqualIffEmpty
      <4> QED
        BY <1>3, <3>1, <3>2, <4>1, <4>2, SMTT(30)
    <3>4. Answer(e) \in Seq(Request)
      BY <3>2, ListenerTypes
    <3>5. /\ \A k : Made(received, events, k) => Made(received, events \o Pushed(e), k)
          /\ e.kind = "toplevel" => Made(received, events \o Pushed(e), e.id)
          /\ \A v : (e.kind = "configure" => Made(received, v, e.id)) => AcksMade(Answer(e), received, v)
      BY <1>3, <3>2, ListenerMakes
    <3> HIDE DEF e, s
    <3>6. Led(s, received, events)
      BY <1>2, <3>1 DEF s
    <3>7. /\ Led(Tail(s), received, events \o Pushed(e))
          /\ e.kind = "configure" => Made(received, events, e.id)
      BY <3>3, <3>5, <3>6, LedTail
    <3>8. AcksMade(Answer(e), received, events \o Pushed(e))
      BY <3>5, <3>7
    <3>9. AcksMade(out, received, events \o Pushed(e))
      BY <1>2, <3>5, AcksStay
    <3>10. AcksMade(out \o Answer(e), received, events \o Pushed(e))
      BY <1>3, <3>4, <3>8, <3>9, AcksOfJoin
    <3> QED
      BY <1>1, <1>2, <3>1, <3>3, <3>7, <3>10 DEF Acks
  <2>8. CASE HandleEvent
    <3> DEFINE r == Append(received, Last(events))
               v == Front(events)
    <3>1. /\ events # <<>> /\ received' = r /\ events' = v
          /\ UNCHANGED << pc, error, queue, inbox, out, sent >>
      BY <2>8 DEF HandleEvent
    <3>2. \A k : Made(received, events, k) => Made(r, v, k)
      BY <1>3, <3>1, GetKeeps
    <3>3. \A k : Made(received, <<>>, k) => Made(r, <<>>, k)
      <4>1. Last(events) \in AppEvent
        BY <1>3, <3>1, LastAndFront
      <4> DEFINE t == << Last(events) >>
      <4>2. r = received \o t /\ t \in Seq(AppEvent)
        BY <1>3, <4>1, AppendIsConcat
      <4> HIDE DEF r, t
      <4>3. \A k : HasResize(received, k) => HasResize(r, k)
        BY <1>3, <4>2, ResizeOfJoin
      <4> QED
        BY <4>3, NoResize DEF Made
    <3> HIDE DEF r, v
    <3>4. /\ AcksMade(sent, r, <<>>) /\ AcksMade(out, r, v)
          /\ pc # "done" /\ ~error => Led(queue \o inbox, r, v)
      BY <1>2, <3>2, <3>3, AcksStay
    <3> QED
      BY <1>1, <3>1, <3>4 DEF Acks
  <2>9. CASE Exit
    <3>1. pc' = "done" /\ out' = <<>> /\ UNCHANGED << sent, received, events >>
      BY <2>9 DEF Exit, history
    <3>2. AcksMade(<<>>, received, events)
      BY DEF AcksMade
    <3> QED
      BY <1>1, <1>2, <3>1, <3>2 DEF Acks
  <2> QED
    BY <1>5, <2>1, <2>2, <2>3, <2>4, <2>5, <2>6, <2>7, <2>8, <2>9 DEF Client
<1>6. CASE UNCHANGED vars
  BY <1>1, <1>2, <1>6 DEF Acks, vars, client, history
<1> QED
  BY <1>4, <1>5, <1>6 DEF Next

\* The compositor gets an ack_configure only when the application has got the
\* resize of the same configure sequence.
THEOREM LoopAckAfterResize == Spec => []AckAfterResize
<1>1. Acks => AckAfterResize
  BY NoResize DEF Acks, AcksMade, Made, HasResize, AckAfterResize
<1> QED
  BY <1>1, InitAcks, StepAcks, PTL DEF Spec

-------------------------------------------------------------------------------
(***************************************************************************)
(* FlattenSeq of the community modules is a recursive function.  It has a  *)
(* value for every sequence of sequences, and grows with its last element. *)
(***************************************************************************)
\* A set of naturals that is not empty has a least element.
LEMMA LeastNatural ==
  ASSUME NEW S, S \subseteq Nat, S # {}
  PROVE  \E k \in S : \A j \in S : k <= j
<1>1. PICK k \in S : \A j \in S : << j, k >> \notin OpToRel(<, Nat)
  BY NatLessThanWellFounded, WFMin
<1>2. ASSUME NEW j \in S PROVE k <= j
  <2>1. j \in Nat /\ k \in Nat /\ ~(j < k)
    BY <1>1 DEF OpToRel
  <2> QED
    BY <2>1
<1> QED
  BY <1>2

\* A set that has 0, and with a number the next, has them all.
LEMMA EveryNatural ==
  ASSUME NEW T, 0 \in T, \A n \in Nat : n \in T => n + 1 \in T
  PROVE  \A n \in Nat : n \in T
<1> SUFFICES ASSUME Nat \ T # {} PROVE FALSE
  OBVIOUS
<1>1. PICK k \in Nat \ T : \A j \in Nat \ T : k <= j
  BY LeastNatural
<1>2. k # 0 /\ k - 1 \in Nat /\ ~(k <= k - 1) /\ (k - 1) + 1 = k
  BY <1>1
<1>3. k - 1 \in T
  BY <1>1, <1>2
<1> QED
  BY <1>1, <1>2, <1>3

\* The function FlattenSeq chooses, for the first n of ss.
Flat(ss, n, f) ==
  f = [i \in 1 .. n |-> IF i = 1 THEN ss[i] ELSE f[i - 1] \o ss[i]]

LEMMA FlatExists ==
  ASSUME NEW ss
  PROVE  \A n \in Nat : \E f : Flat(ss, n, f)
<1> DEFINE T == { n \in Nat : \E f : Flat(ss, n, f) }
<1>1. 0 \in T
  <2> DEFINE f == [i \in 1 .. 0 |-> ss[i]]
  <2>1. Flat(ss, 0, f)
    BY DEF Flat
  <2> QED
    BY <2>1
<1>2. ASSUME NEW n \in Nat, n \in T PROVE n + 1 \in T
  <2>1. PICK f : Flat(ss, n, f)
    BY <1>2
  <2> DEFINE g == [i \in 1 .. n + 1 |->
                    IF i = n + 1 THEN IF i = 1 THEN ss[i] ELSE f[n] \o ss[i] ELSE f[i]]
  <2>2. \A i \in 1 .. n : f[i] = IF i = 1 THEN ss[i] ELSE f[i - 1] \o ss[i]
    BY <2>1 DEF Flat
  <2>3. \A i \in 1 .. n : g[i] = f[i]
    OBVIOUS
  <2>4. ASSUME NEW i \in 1 .. n + 1
        PROVE  g[i] = IF i = 1 THEN ss[i] ELSE g[i - 1] \o ss[i]
    <3>1. CASE i = 1
      BY <2>2, <3>1
    <3>2. CASE i # 1 /\ i = n + 1
      <4>1. i - 1 = n /\ n \in 1 .. n
        BY <3>2
      <4>2. g[i - 1] = f[n]
        BY <2>3, <4>1
      <4> QED
        BY <3>2, <4>2
    <3>3. CASE i # 1 /\ i # n + 1
      <4>1. i \in 1 .. n /\ i - 1 \in 1 .. n
        BY <3>3
      <4>2. g[i] = f[i] /\ g[i - 1] = f[i - 1]
        BY <2>3, <4>1
      <4>3. f[i] = f[i - 1] \o ss[i]
        BY <2>2, <3>3, <4>1
      <4> QED
        BY <3>3, <4>2, <4>3
    <3> QED
      BY <3>1, <3>2, <3>3
  <2>5. g = [i \in 1 .. n + 1 |-> g[i]]
    OBVIOUS
  <2> HIDE DEF g
  <2>6. g = [i \in 1 .. n + 1 |-> IF i = 1 THEN ss[i] ELSE g[i - 1] \o ss[i]]
    BY <2>4, <2>5
  <2>7. Flat(ss, n + 1, g)
    BY <2>6 DEF Flat
  <2>8. n + 1 \in Nat
    OBVIOUS
  <2> QED
    BY <2>7, <2>8
<1> HIDE DEF T
<1>3. \A n \in Nat : n \in T
  BY <1>1, <1>2, EveryNatural
<1> QED
  BY <1>3 DEF T

Agree(s, t, n) == \A i \in 1 .. n : s[i] = t[i]

LEMMA FlatSame ==
  ASSUME NEW ss, NEW tt, NEW n \in Nat, NEW m \in Nat, m <= n, NEW f, NEW g,
         Flat(ss, m, f), Flat(tt, n, g), Agree(ss, tt, m)
  PROVE  Agree(f, g, m)
<1> USE DEF Agree
<1> DEFINE T == { i \in Nat : i \in 1 .. m => f[i] = g[i] }
<1>1. 0 \in T
  OBVIOUS
<1>2. ASSUME NEW i \in Nat, i \in T PROVE i + 1 \in T
  <2> SUFFICES ASSUME i + 1 \in 1 .. m PROVE f[i + 1] = g[i + 1]
    OBVIOUS
  <2>1. /\ f[i + 1] = IF i + 1 = 1 THEN ss[i + 1] ELSE f[(i + 1) - 1] \o ss[i + 1]
        /\ g[i + 1] = IF i + 1 = 1 THEN tt[i + 1] ELSE g[(i + 1) - 1] \o tt[i + 1]
    <3>1. i + 1 \in 1 .. n
      OBVIOUS
    <3> QED
      BY <3>1 DEF Flat
  <2>2. (i + 1) - 1 = i /\ ss[i + 1] = tt[i + 1]
    OBVIOUS
  <2>3. CASE i = 0
    BY <2>1, <2>2, <2>3
  <2>4. CASE i # 0
    <3>1. f[i] = g[i]
      BY <1>2, <2>4
    <3> QED
      BY <2>1, <2>2, <2>4, <3>1
  <2> QED
    BY <2>3, <2>4
<1> HIDE DEF T
<1>3. \A i \in Nat : i \in T
  BY <1>1, <1>2, EveryNatural
<1> QED
  BY <1>3 DEF T

LEMMA FlattenIs ==
  ASSUME NEW S, NEW ss \in Seq(S)
  PROVE  /\ Len(ss) = 0 => FlattenSeq(ss) = <<>>
         /\ Len(ss) # 0 => \E f : Flat(ss, Len(ss), f) /\ FlattenSeq(ss) = f[Len(ss)]
<1>1. Len(ss) \in Nat
  OBVIOUS
<1>2. ASSUME Len(ss) = 0 PROVE FlattenSeq(ss) = <<>>
  BY <1>2, EmptySeq DEF FlattenSeq
<1>3. ASSUME Len(ss) # 0
      PROVE  \E f : Flat(ss, Len(ss), f) /\ FlattenSeq(ss) = f[Len(ss)]
  <2> DEFINE F == CHOOSE f : Flat(ss, Len(ss), f)
  <2>1. Flat(ss, Len(ss), F)
    BY <1>1, FlatExists
  <2>2. FlattenSeq(ss) = F[Len(ss)]
    BY <1>3 DEF FlattenSeq, Flat
  <2> QED
    BY <2>1, <2>2
<1> QED
  BY <1>2, <1>3

LEMMA FlattenType ==
  ASSUME NEW S, NEW ss \in Seq(Seq(S))
  PROVE  FlattenSeq(ss) \in Seq(S)
<1>1. CASE Len(ss) = 0
  <2>1. FlattenSeq(ss) = <<>>
    BY <1>1, FlattenIs
  <2> QED
    BY <2>1
<1>2. CASE Len(ss) # 0
  <2> DEFINE n == Len(ss)
  <2>1. PICK f : Flat(ss, n, f) /\ FlattenSeq(ss) = f[n]
    BY <1>2, FlattenIs
  <2>2. n \in Nat \ {0} /\ \A i \in 1 .. n : ss[i] \in Seq(S)
    BY <1>2
  <2> HIDE DEF n
  <2>3. \A i \in 1 .. n : f[i] = IF i = 1 THEN ss[i] ELSE f[i - 1] \o ss[i]
    BY <2>1 DEF Flat
  <2> DEFINE T == { i \in Nat : i \in 1 .. n => f[i] \in Seq(S) }
  <2>4. 0 \in T
    OBVIOUS
  <2>5. ASSUME NEW i \in Nat, i \in T PROVE i + 1 \in T
    <3> SUFFICES ASSUME i + 1 \in 1 .. n PROVE f[i + 1] \in Seq(S)
      OBVIOUS
    <3>1. f[i + 1] = IF i + 1 = 1 THEN ss[i + 1] ELSE f[(i + 1) - 1] \o ss[i + 1]
      BY <2>3
    <3>2. ss[i + 1] \in Seq(S) /\ (i + 1) - 1 = i
      BY <2>2
    <3>3. CASE i = 0
      BY <3>1, <3>2, <3>3
    <3>4. CASE i # 0
      <4>1. f[i] \in Seq(S)
        BY <2>2, <2>5, <3>4
      <4>2. f[i] \o ss[i + 1] \in Seq(S)
        BY <3>2, <4>1, ConcatProperties
      <4> QED
        BY <3>1, <3>2, <3>4, <4>2
    <3> QED
      BY <3>3, <3>4
  <2> HIDE DEF T
  <2>6. \A i \in Nat : i \in T
    BY <2>4, <2>5, EveryNatural
  <2> QED
    BY <2>1, <2>2, <2>6 DEF T
<1> QED
  BY <1>1, <1>2

LEMMA FlattenAppend ==
  ASSUME NEW S, NEW ss \in Seq(Seq(S)), NEW s \in Seq(S)
  PROVE  FlattenSeq(Append(ss, s)) = FlattenSeq(ss) \o s
<1> DEFINE n == Len(ss)
           tt == Append(ss, s)
<1>1. /\ n \in Nat /\ tt \in Seq(Seq(S)) /\ Len(tt) = n + 1 /\ tt[n + 1] = s
      /\ \A i \in 1 .. n : ss[i] = tt[i]
  OBVIOUS
<1> HIDE DEF n, tt
<1>2. PICK g : Flat(tt, n + 1, g) /\ FlattenSeq(tt) = g[n + 1]
  <2>1. Len(tt) # 0
    BY <1>1
  <2> QED
    BY <1>1, <2>1, FlattenIs
<1>3. g[n + 1] = IF n + 1 = 1 THEN tt[n + 1] ELSE g[(n + 1) - 1] \o tt[n + 1]
  <2>1. \A i \in 1 .. n + 1 : g[i] = IF i = 1 THEN tt[i] ELSE g[i - 1] \o tt[i]
    BY <1>2 DEF Flat
  <2>2. n + 1 \in 1 .. n + 1
    BY <1>1
  <2> QED
    BY <2>1, <2>2
<1>4. CASE n = 0
  <2>1. FlattenSeq(ss) = <<>>
    BY <1>4, FlattenIs DEF n
  <2>2. FlattenSeq(tt) = s
    BY <1>1, <1>2, <1>3, <1>4
  <2>3. <<>> \o s = s
    BY ConcatEmptySeq
  <2> QED
    BY <2>1, <2>2, <2>3 DEF tt
<1>5. CASE n # 0
  <2>1. PICK f : Flat(ss, n, f) /\ FlattenSeq(ss) = f[n]
    BY <1>5, FlattenIs DEF n
  <2>2. \A i \in 1 .. n : f[i] = g[i]
    <3>1. PICK m \in Nat : m = n + 1 /\ n <= m
      BY <1>1
    <3>2. Flat(tt, m, g) /\ Flat(ss, n, f)
      BY <1>2, <2>1, <3>1
    <3>3. n \in Nat /\ Agree(ss, tt, n)
      BY <1>1 DEF Agree
    <3>4. Agree(f, g, n)
      BY <3>1, <3>2, <3>3, FlatSame
    <3> QED
      BY <3>4 DEF Agree
  <2>3. n \in 1 .. n /\ (n + 1) - 1 = n
    BY <1>1, <1>5
  <2>4. f[n] = g[n]
    BY <2>2, <2>3
  <2>5. g[n + 1] = g[n] \o s
    BY <1>1, <1>3, <1>5, <2>3
  <2> QED
    BY <1>2, <2>1, <2>4, <2>5 DEF tt
<1> QED
  BY <1>4, <1>5

-------------------------------------------------------------------------------
(***************************************************************************)
(* What the listeners made of the events they were called for.            *)
(***************************************************************************)
Answers(h) == [i \in 1 .. Len(h) |-> Answer(h[i])]
Pushes(h)  == [i \in 1 .. Len(h) |-> Pushed(h[i])]

\* One more event handled is one more answer, and one more list of events.
LEMMA MadeTypes ==
  ASSUME NEW h \in Seq(Event)
  PROVE  Answers(h) \in Seq(Seq(Request)) /\ Pushes(h) \in Seq(Seq(AppEvent))
<1>1. Len(h) \in Nat /\ \A i \in 1 .. Len(h) : h[i] \in Event
  BY ElementOfSeq
<1>2. \A i \in 1 .. Len(h) : Answer(h[i]) \in Seq(Request) /\ Pushed(h[i]) \in Seq(AppEvent)
  BY <1>1, ListenerTypes
<1> QED
  BY <1>1, <1>2 DEF Answers, Pushes

LEMMA MadeMore ==
  ASSUME NEW h \in Seq(Event), NEW e \in Event
  PROVE  /\ Answers(Append(h, e)) = Append(Answers(h), Answer(e))
         /\ Pushes(Append(h, e)) = Append(Pushes(h), Pushed(e))
<1> DEFINE k == Append(h, e)
<1>1. /\ k \in Seq(Event) /\ Len(k) = Len(h) + 1 /\ Len(h) \in Nat /\ k[Len(h) + 1] = e
      /\ \A i \in 1 .. Len(h) : k[i] = h[i]
  OBVIOUS
<1>2. Answer(e) \in Seq(Request) /\ Pushed(e) \in Seq(AppEvent)
  BY ListenerTypes
<1> HIDE DEF k
<1>3. /\ Answers(h) \in Seq(Seq(Request)) /\ Answers(k) \in Seq(Seq(Request))
      /\ Pushes(h) \in Seq(Seq(AppEvent)) /\ Pushes(k) \in Seq(Seq(AppEvent))
  BY <1>1, MadeTypes
<1>4. Answers(k) = Append(Answers(h), Answer(e))
  <2> DEFINE a == Append(Answers(h), Answer(e))
  <2>1. /\ \A i \in 1 .. Len(h) : Answers(h)[i] = Answer(h[i])
        /\ \A i \in 1 .. Len(k) : Answers(k)[i] = Answer(k[i])
        /\ Len(Answers(h)) = Len(h) /\ Len(Answers(k)) = Len(k)
    BY <1>1 DEF Answers
  <2>2. /\ a \in Seq(Seq(Request)) /\ Len(a) = Len(h) + 1 /\ a[Len(h) + 1] = Answer(e)
        /\ \A i \in 1 .. Len(h) : a[i] = Answers(h)[i]
    BY <1>2, <1>3, <2>1
  <2> HIDE DEF a
  <2>3. ASSUME NEW i \in 1 .. Len(k) PROVE Answers(k)[i] = a[i]
    <3>1. CASE i = Len(h) + 1
      BY <1>1, <2>1, <2>2, <3>1
    <3>2. CASE i # Len(h) + 1
      <4>1. i \in 1 .. Len(h)
        BY <1>1, <3>2
      <4> QED
        BY <1>1, <2>1, <2>2, <4>1
    <3> QED
      BY <3>1, <3>2
  <2>4. Len(Answers(k)) = Len(a)
    BY <1>1, <2>1, <2>2
  <2>5. Answers(k) = a
    <3> DEFINE S == Seq(Request)
    <3>1. Answers(k) \in Seq(S) /\ a \in Seq(S)
      BY <1>3, <2>2
    <3>2. Len(Answers(k)) = Len(a) /\ \A i \in 1 .. Len(Answers(k)) : Answers(k)[i] = a[i]
      BY <1>3, <2>1, <2>3, <2>4
    <3> HIDE DEF S
    <3> QED
      BY <3>1, <3>2, SeqEqual
  <2> QED
    BY <2>5 DEF a
<1>5. Pushes(k) = Append(Pushes(h), Pushed(e))
  <2> DEFINE a == Append(Pushes(h), Pushed(e))
  <2>1. /\ \A i \in 1 .. Len(h) : Pushes(h)[i] = Pushed(h[i])
        /\ \A i \in 1 .. Len(k) : Pushes(k)[i] = Pushed(k[i])
        /\ Len(Pushes(h)) = Len(h) /\ Len(Pushes(k)) = Len(k)
    BY <1>1 DEF Pushes
  <2>2. /\ a \in Seq(Seq(AppEvent)) /\ Len(a) = Len(h) + 1 /\ a[Len(h) + 1] = Pushed(e)
        /\ \A i \in 1 .. Len(h) : a[i] = Pushes(h)[i]
    BY <1>2, <1>3, <2>1
  <2> HIDE DEF a
  <2>3. ASSUME NEW i \in 1 .. Len(k) PROVE Pushes(k)[i] = a[i]
    <3>1. CASE i = Len(h) + 1
      BY <1>1, <2>1, <2>2, <3>1
    <3>2. CASE i # Len(h) + 1
      <4>1. i \in 1 .. Len(h)
        BY <1>1, <3>2
      <4> QED
        BY <1>1, <2>1, <2>2, <4>1
    <3> QED
      BY <3>1, <3>2
  <2>4. Len(Pushes(k)) = Len(a)
    BY <1>1, <2>1, <2>2
  <2>5. Pushes(k) = a
    <3> DEFINE S == Seq(AppEvent)
    <3>1. Pushes(k) \in Seq(S) /\ a \in Seq(S)
      BY <1>3, <2>2
    <3>2. Len(Pushes(k)) = Len(a) /\ \A i \in 1 .. Len(Pushes(k)) : Pushes(k)[i] = a[i]
      BY <1>3, <2>1, <2>3, <2>4
    <3> HIDE DEF S
    <3> QED
      BY <3>1, <3>2, SeqEqual
  <2> QED
    BY <2>5 DEF a
<1> QED
  BY <1>4, <1>5 DEF k

\* All that was made of the events handled, and what one more adds.
LEMMA FlatMore ==
  ASSUME NEW h \in Seq(Event), NEW e \in Event
  PROVE  /\ FlattenSeq(Answers(Append(h, e))) = FlattenSeq(Answers(h)) \o Answer(e)
         /\ FlattenSeq(Pushes(Append(h, e))) = FlattenSeq(Pushes(h)) \o Pushed(e)
<1>1. Answers(h) \in Seq(Seq(Request)) /\ Pushes(h) \in Seq(Seq(AppEvent))
  BY MadeTypes
<1>2. Answer(e) \in Seq(Request) /\ Pushed(e) \in Seq(AppEvent)
  BY ListenerTypes
<1>3. /\ FlattenSeq(Append(Answers(h), Answer(e))) = FlattenSeq(Answers(h)) \o Answer(e)
      /\ FlattenSeq(Append(Pushes(h), Pushed(e))) = FlattenSeq(Pushes(h)) \o Pushed(e)
  BY <1>1, <1>2, FlattenAppend
<1> QED
  BY <1>3, MadeMore

LEMMA FlatNone ==
  FlattenSeq(Answers(<<>>)) = <<>> /\ FlattenSeq(Pushes(<<>>)) = <<>>
<1>1. Answers(<<>>) \in Seq(Seq(Request)) /\ Pushes(<<>>) \in Seq(Seq(AppEvent))
  BY EmptySeq, MadeTypes
<1>2. Len(Answers(<<>>)) = 0 /\ Len(Pushes(<<>>)) = 0
  BY DEF Answers, Pushes
<1> QED
  BY <1>1, <1>2, FlattenIs

\* What EAGAIN leaves and what it takes are the output buffer.
LEMMA CutAndJoinAny ==
  ASSUME NEW S, NEW q \in Seq(S), NEW s \in Seq(S), NEW n \in 0 .. Len(s)
  PROVE  (q \o SubSeq(s, 1, n)) \o SubSeq(s, n + 1, Len(s)) = q \o s
<1>1. CASE n # 0
  <2>1. n \in 1 .. Len(s)
    BY <1>1
  <2> QED
    BY <2>1, CutAndJoin
<1>2. CASE n = 0
  <2>1. SubSeq(s, 1, n) = <<>>
    BY <1>2, SubSeqEmpty
  <2>2. SubSeq(s, n + 1, Len(s)) = s
    BY <1>2, SubSeqFull
  <2>3. q \o <<>> = q
    BY ConcatEmptySeq
  <2> QED
    BY <2>1, <2>2, <2>3
<1> QED
  BY <1>1, <1>2

AllAnswers(h) == << Req("commit", 0) >> \o FlattenSeq(Answers(h))
Answered == TypeOK /\ AnswersInOrder

LEMMA AnsweredMeans ==
  AnswersInOrder <=> (pc # "done" => sent \o out = AllAnswers(handled))
  BY DEF AnswersInOrder, AllAnswers, Answers

LEMMA AnsweredMeansNext ==
  AnswersInOrder' <=> (pc' # "done" => sent' \o out' = AllAnswers(handled'))
  BY DEF AnswersInOrder, AllAnswers, Answers

LEMMA InitAnswered == Init => Answered
<1> SUFFICES ASSUME Init PROVE Answered
  OBVIOUS
<1>1. sent = <<>> /\ out = << Req("commit", 0) >> /\ handled = <<>>
  BY DEF Init
<1>2. TypeOK
  BY InitTypeOK
<1>3. out \in Seq(Request)
  BY <1>2 DEF TypeOK
<1>4. sent \o out = out /\ out \o <<>> = out
  BY <1>1, <1>3, ConcatEmptySeq
<1>5. AllAnswers(handled) = out
  BY <1>1, <1>4, FlatNone DEF AllAnswers
<1> QED
  BY <1>2, <1>4, <1>5, AnsweredMeans DEF Answered

LEMMA StepAnswered == Answered /\ [Next]_vars => Answered'
<1> SUFFICES ASSUME Answered, [Next]_vars PROVE Answered'
  OBVIOUS
<1>1. TypeOK /\ TypeOK'
  BY StepTypeOK DEF Answered
<1>2. pc # "done" => sent \o out = AllAnswers(handled)
  BY AnsweredMeans DEF Answered
<1>3. out \in Seq(Request) /\ sent \in Seq(Request) /\ handled \in Seq(Event) /\ queue \in Seq(Event)
  BY <1>1 DEF TypeOK
<1> SUFFICES pc' # "done" => sent' \o out' = AllAnswers(handled')
  BY <1>1, AnsweredMeansNext DEF Answered
<1>4. CASE UNCHANGED << sent, out, handled >> /\ (pc = "done" => pc' = "done")
  BY <1>2, <1>4
<1>5. CASE Compositor
  <2>1. UNCHANGED << pc, sent, out, handled >>
    BY <1>5, CompositorStep DEF client, history
  <2> QED
    BY <1>4, <2>1
<1>6. CASE Client
  <2>1. CASE Poll \/ PollInterrupted \/ Prepare \/ FlushFails \/ SkipRead \/ CancelRead
    BY <1>4, <2>1 DEF Poll, PollInterrupted, Prepare, FlushFails, SkipRead, CancelRead, history
  <2>2. CASE ReadEvents \/ ReadFails \/ DispatchError \/ DispatchDone \/ HandleEvent \/ HandleDone
    BY <1>4, <2>2
       DEF ReadEvents, ReadFails, DispatchError, DispatchDone, HandleEvent, HandleDone, history
  <2>3. CASE FlushAll
    <3>1. sent' = sent \o out /\ out' = <<>> /\ pc # "done" /\ handled' = handled
      BY <2>3 DEF FlushAll
    <3>2. sent \o out \in Seq(Request)
      BY <1>3, ConcatProperties
    <3>3. (sent \o out) \o <<>> = sent \o out
      BY <3>2, ConcatEmptySeq
    <3> QED
      BY <1>2, <3>1, <3>3
  <2>4. CASE FlushBlocked
    <3>1. PICK n \in 0 .. Len(out) : n = SockCap - Len(wire)
      <4>1. SockCap - Len(wire) \in 0 .. Len(out)
        BY <1>1, <2>4, EventLoopAssumption DEF FlushBlocked, TypeOK
      <4> QED
        BY <4>1
    <3>2. /\ sent' = sent \o SubSeq(out, 1, n) /\ out' = SubSeq(out, n + 1, Len(out))
          /\ pc # "done" /\ handled' = handled
      BY <2>4, <3>1 DEF FlushBlocked
    <3>3. (sent \o SubSeq(out, 1, n)) \o SubSeq(out, n + 1, Len(out)) = sent \o out
      BY <1>3, CutAndJoinAny
    <3> QED
      BY <1>2, <3>2, <3>3
  <2>5. CASE DispatchEvent
    <3>1. PICK e \in Event : e = Head(queue)
      BY <1>3, <2>5, HeadTailProperties DEF DispatchEvent
    <3>2. /\ out' = out \o Answer(e) /\ handled' = Append(handled, e) /\ sent' = sent
          /\ pc # "done"
      BY <2>5, <3>1 DEF DispatchEvent
    <3>3. Answer(e) \in Seq(Request)
      BY ListenerTypes
    <3>4. FlattenSeq(Answers(handled)) \in Seq(Request)
      BY <1>3, MadeTypes, FlattenType
    <3>5. << Req("commit", 0) >> \in Seq(Request)
      BY EventLoopAssumption DEF Req, Request
    <3>6. AllAnswers(Append(handled, e)) = AllAnswers(handled) \o Answer(e)
      <4>1. FlattenSeq(Answers(Append(handled, e))) = FlattenSeq(Answers(handled)) \o Answer(e)
        BY <1>3, FlatMore
      <4> QED
        BY <3>3, <3>4, <3>5, <4>1, Associative DEF AllAnswers
    <3>7. sent \o (out \o Answer(e)) = (sent \o out) \o Answer(e)
      BY <1>3, <3>3, Associative, SMTT(30)
    <3> QED
      BY <1>2, <3>2, <3>6, <3>7
  <2>6. CASE Exit
    BY <2>6 DEF Exit
  <2> QED
    BY <1>6, <2>1, <2>2, <2>3, <2>4, <2>5, <2>6 DEF Client
<1>7. CASE UNCHANGED vars
  BY <1>4, <1>7 DEF vars, client, history
<1> QED
  BY <1>5, <1>6, <1>7 DEF Next

\* The requests that left the client and those that wait are the commit of
\* window_init and one answer for each ping and each configure handled, in the
\* order of the events.
THEOREM LoopAnswersInOrder == Spec => []AnswersInOrder
<1>1. Answered => AnswersInOrder
  BY DEF Answered
<1> QED
  BY <1>1, InitAnswered, StepAnswered, PTL DEF Spec

-------------------------------------------------------------------------------
(***************************************************************************)
(* The events that the listeners pushed are the ones the application got   *)
(* and the ones in the array.                                              *)
(***************************************************************************)
Shared(rec, evs, p) ==
  /\ Len(rec) + Len(evs) = Len(p)
  /\ Range(rec) \union Range(evs) = Range(p)

\* What is in two sequences is in the one that joins them.
LEMMA RangeOfJoin ==
  ASSUME NEW S, NEW s \in Seq(S), NEW t \in Seq(S)
  PROVE  /\ Len(s \o t) = Len(s) + Len(t)
         /\ Range(s \o t) = Range(s) \union Range(t)
<1> DEFINE c == s \o t
<1>1. /\ c \in Seq(S) /\ Len(c) = Len(s) + Len(t) /\ Len(s) \in Nat /\ Len(t) \in Nat
      /\ \A i \in 1 .. Len(s) + Len(t) : c[i] = IF i <= Len(s) THEN s[i] ELSE t[i - Len(s)]
  BY ConcatProperties
<1>2. /\ Range(s) = { s[i] : i \in 1 .. Len(s) } /\ Range(t) = { t[i] : i \in 1 .. Len(t) }
      /\ Range(c) = { c[i] : i \in 1 .. Len(c) }
  BY <1>1 DEF Range
<1> HIDE DEF c
<1>3. ASSUME NEW i \in 1 .. Len(c) PROVE c[i] \in Range(s) \union Range(t)
  <2>1. CASE i <= Len(s)
    <3>1. i \in 1 .. Len(s) /\ c[i] = s[i]
      BY <1>1, <2>1
    <3> QED
      BY <1>2, <3>1
  <2>2. CASE ~(i <= Len(s))
    <3>1. i - Len(s) \in 1 .. Len(t) /\ c[i] = t[i - Len(s)]
      BY <1>1, <2>2
    <3> QED
      BY <1>2, <3>1
  <2> QED
    BY <2>1, <2>2
<1>4. ASSUME NEW i \in 1 .. Len(s) PROVE s[i] \in Range(c)
  <2>1. i \in 1 .. Len(c) /\ c[i] = s[i]
    BY <1>1
  <2> QED
    BY <1>2, <2>1
<1>5. ASSUME NEW i \in 1 .. Len(t) PROVE t[i] \in Range(c)
  <2>1. i + Len(s) \in 1 .. Len(c) /\ c[i + Len(s)] = t[i]
    BY <1>1
  <2> QED
    BY <1>2, <2>1
<1>6. Range(c) \subseteq Range(s) \union Range(t)
  BY <1>2, <1>3
<1>7. Range(s) \subseteq Range(c) /\ Range(t) \subseteq Range(c)
  BY <1>2, <1>4, <1>5
<1> QED
  BY <1>1, <1>6, <1>7 DEF c

LEMMA SumGrows ==
  ASSUME NEW a \in Nat, NEW b \in Nat, NEW t \in Nat
  PROVE  /\ a + (b + t) = (a + b) + t
         /\ b # 0 => (a + 1) + (b - 1) = a + b
  OBVIOUS

\* A listener pushes.
LEMMA SharedPush ==
  ASSUME NEW rec \in Seq(AppEvent), NEW evs \in Seq(AppEvent), NEW p \in Seq(AppEvent),
         NEW t \in Seq(AppEvent), Shared(rec, evs, p)
  PROVE  Shared(rec, evs \o t, p \o t)
<1>1. /\ Len(evs \o t) = Len(evs) + Len(t) /\ Range(evs \o t) = Range(evs) \union Range(t)
      /\ Len(p \o t) = Len(p) + Len(t) /\ Range(p \o t) = Range(p) \union Range(t)
  BY RangeOfJoin
<1>2. Len(rec) \in Nat /\ Len(evs) \in Nat /\ Len(p) \in Nat /\ Len(t) \in Nat
  OBVIOUS
<1>3. Len(rec) + Len(evs) = Len(p) /\ Range(rec) \union Range(evs) = Range(p)
  BY DEF Shared
<1>4. Len(rec) + Len(evs \o t) = Len(p \o t)
  <2>1. Len(rec) + (Len(evs) + Len(t)) = (Len(rec) + Len(evs)) + Len(t)
    BY <1>2, SumGrows
  <2>2. Len(rec) + (Len(evs) + Len(t)) = Len(p) + Len(t)
    BY <1>3, <2>1, Zenon
  <2> QED
    BY <1>1, <2>2, Zenon
<1>5. Range(rec) \union Range(evs \o t) = Range(p \o t)
  BY <1>1, <1>3
<1> QED
  BY <1>4, <1>5 DEF Shared

\* event_loop_get pops.
LEMMA SharedGet ==
  ASSUME NEW rec \in Seq(AppEvent), NEW evs \in Seq(AppEvent), evs # <<>>, NEW p,
         Shared(rec, evs, p)
  PROVE  Shared(Append(rec, Last(evs)), Front(evs), p)
<1> DEFINE e == Last(evs)
           f == Front(evs)
           t == << e >>
<1>1. e \in AppEvent /\ e = evs[Len(evs)] /\ f \in Seq(AppEvent)
  BY LastAndFront DEF Last
<1>2. /\ Len(evs) \in Nat /\ Len(evs) # 0 /\ Len(f) = Len(evs) - 1
      /\ \A i \in 1 .. Len(evs) - 1 : f[i] = evs[i]
  BY FrontAt
<1>3. /\ Append(rec, e) = rec \o t /\ t \in Seq(AppEvent) /\ Len(t) = 1 /\ Range(t) = {e}
  BY <1>1, AppendIsConcat DEF Range
<1> HIDE DEF e, f, t
<1>4. Len(rec \o t) = Len(rec) + 1 /\ Range(rec \o t) = Range(rec) \union {e}
  BY <1>3, RangeOfJoin
<1>5. Range(evs) = Range(f) \union {e}
  <2>1. /\ Range(evs) = { evs[i] : i \in 1 .. Len(evs) }
        /\ Range(f) = { f[i] : i \in 1 .. Len(evs) - 1 }
    BY <1>1, <1>2, SMTT(30) DEF Range
  <2>2. ASSUME NEW i \in 1 .. Len(evs) PROVE evs[i] \in Range(f) \union {e}
    <3>1. CASE i = Len(evs)
      BY <1>1, <3>1
    <3>2. CASE i # Len(evs)
      <4>1. i \in 1 .. Len(evs) - 1
        BY <1>2, <3>2
      <4> QED
        BY <1>2, <2>1, <4>1
    <3> QED
      BY <3>1, <3>2
  <2>3. ASSUME NEW i \in 1 .. Len(evs) - 1 PROVE f[i] \in Range(evs)
    <3>1. i \in 1 .. Len(evs) /\ f[i] = evs[i]
      BY <1>2
    <3> QED
      BY <2>1, <3>1
  <2>4. e \in Range(evs)
    <3>1. Len(evs) \in 1 .. Len(evs)
      BY <1>2
    <3> QED
      BY <1>1, <2>1, <3>1
  <2>5. Range(evs) \subseteq Range(f) \union {e}
    BY <2>1, <2>2
  <2>6. Range(f) \union {e} \subseteq Range(evs)
    BY <2>1, <2>3, <2>4
  <2> QED
    BY <2>5, <2>6
<1>6. Len(rec) + Len(evs) = Len(p) /\ Range(rec) \union Range(evs) = Range(p)
  BY DEF Shared
<1>7. Len(rec \o t) + Len(f) = Len(p)
  <2>1. Len(rec) \in Nat
    OBVIOUS
  <2>2. (Len(rec) + 1) + (Len(evs) - 1) = Len(rec) + Len(evs)
    BY <1>2, <2>1, SumGrows
  <2> QED
    BY <1>2, <1>4, <1>6, <2>2, Zenon
<1>8. Range(rec \o t) \union Range(f) = Range(p)
  BY <1>4, <1>5, <1>6
<1> QED
  BY <1>3, <1>7, <1>8 DEF Shared, e, f

Conserved == TypeOK /\ EventsConserved

LEMMA ConservedMeans ==
  EventsConserved <=> Shared(received, events, FlattenSeq(Pushes(handled)))
  BY DEF EventsConserved, Shared, Pushes

LEMMA ConservedMeansNext ==
  EventsConserved' <=> Shared(received', events', FlattenSeq(Pushes(handled')))
  BY DEF EventsConserved, Shared, Pushes

LEMMA InitConserved == Init => Conserved
<1> SUFFICES ASSUME Init PROVE Conserved
  OBVIOUS
<1>1. received = <<>> /\ events = <<>> /\ handled = <<>>
  BY DEF Init
<1>2. Shared(<<>>, <<>>, <<>>)
  BY DEF Shared
<1>3. Shared(received, events, FlattenSeq(Pushes(handled)))
  BY <1>1, <1>2, FlatNone
<1> QED
  BY <1>3, InitTypeOK, ConservedMeans DEF Conserved

LEMMA StepConserved == Conserved /\ [Next]_vars => Conserved'
<1> SUFFICES ASSUME Conserved, [Next]_vars PROVE Conserved'
  OBVIOUS
<1>1. TypeOK /\ TypeOK'
  BY StepTypeOK DEF Conserved
<1>2. Shared(received, events, FlattenSeq(Pushes(handled)))
  BY ConservedMeans DEF Conserved
<1>3. /\ events \in Seq(AppEvent) /\ received \in Seq(AppEvent)
      /\ handled \in Seq(Event) /\ queue \in Seq(Event)
  BY <1>1 DEF TypeOK
<1> SUFFICES Shared(received', events', FlattenSeq(Pushes(handled')))
  BY <1>1, ConservedMeansNext DEF Conserved
<1>4. CASE UNCHANGED << received, events, handled >>
  BY <1>2, <1>4
<1>5. CASE Compositor
  <2>1. UNCHANGED << received, events, handled >>
    BY <1>5, CompositorStep DEF client, history
  <2> QED
    BY <1>4, <2>1
<1>6. CASE Client
  <2>1. CASE Poll \/ PollInterrupted \/ Prepare \/ FlushFails \/ SkipRead \/ CancelRead
    BY <1>4, <2>1 DEF Poll, PollInterrupted, Prepare, FlushFails, SkipRead, CancelRead, history
  <2>2. CASE ReadEvents \/ ReadFails \/ DispatchError \/ DispatchDone \/ HandleDone \/ Exit
    BY <1>4, <2>2
       DEF ReadEvents, ReadFails, DispatchError, DispatchDone, HandleDone, Exit, history
  <2>3. CASE FlushAll \/ FlushBlocked
    BY <1>4, <2>3 DEF FlushAll, FlushBlocked
  <2>4. CASE DispatchEvent
    <3>1. PICK e \in Event : e = Head(queue)
      BY <1>3, <2>4, HeadTailProperties DEF DispatchEvent
    <3>2. /\ events' = events \o Pushed(e) /\ handled' = Append(handled, e)
          /\ received' = received
      BY <2>4, <3>1 DEF DispatchEvent
    <3>3. Pushed(e) \in Seq(AppEvent) /\ FlattenSeq(Pushes(handled)) \in Seq(AppEvent)
      BY <1>3, ListenerTypes, MadeTypes, FlattenType
    <3>4. Shared(received, events \o Pushed(e), FlattenSeq(Pushes(handled)) \o Pushed(e))
      BY <1>2, <1>3, <3>3, SharedPush
    <3>5. FlattenSeq(Pushes(Append(handled, e))) = FlattenSeq(Pushes(handled)) \o Pushed(e)
      BY <1>3, FlatMore
    <3> QED
      BY <3>2, <3>4, <3>5
  <2>5. CASE HandleEvent
    <3>1. /\ events # <<>> /\ received' = Append(received, Last(events))
          /\ events' = Front(events) /\ handled' = handled
      BY <2>5 DEF HandleEvent
    <3>2. Shared(Append(received, Last(events)), Front(events), FlattenSeq(Pushes(handled)))
      BY <1>2, <1>3, <3>1, SharedGet
    <3> QED
      BY <3>1, <3>2
  <2> QED
    BY <1>6, <2>1, <2>2, <2>3, <2>4, <2>5 DEF Client
<1>7. CASE UNCHANGED vars
  BY <1>4, <1>7 DEF vars, client, history
<1> QED
  BY <1>5, <1>6, <1>7 DEF Next

\* Each event that a listener pushed is in the array or was returned by
\* event_loop_get, and none of them twice.
THEOREM LoopEventsConserved == Spec => []EventsConserved
<1>1. Conserved => EventsConserved
  BY DEF Conserved
<1> QED
  BY <1>1, InitConserved, StepConserved, PTL DEF Spec

===============================================================================
