----------------------------- MODULE StartupProofs -----------------------------
(***************************************************************************)
(* Theorems about Startup, for every set of instances.                     *)
(***************************************************************************)
EXTENDS Startup, TLAPS

\* An instance has no file but its own.
OwnFile(p) == {fd[p], data[p], pool[p]} \subseteq {p, Nobody}

\* The name is that of the one instance between shm_open and shm_unlink, or of
\* one that died there; those are done.
NameHeld ==
  /\ \A p \in Procs : pc[p] = "unlink" => name = p
  /\ name # Nobody => name \in lost \/ pc[name] = "unlink"
  /\ \A p \in lost : pc[p] = "done"

\* Past the roundtrip, what the compositor has is bound unless it was cut.
Past == {"pool", "open", "unlink", "grow", "create", "window"}
Bound == \A p \in Procs : pc[p] \in Past => cut[p] \/ globals[p] = offered

Inv == /\ TypeOK /\ NameHeld /\ Bound /\ NullCause
       /\ \A p \in Procs : OwnFile(p)

LEMMA InitInv == Init => Inv
  BY StartupAssumption
     DEF Init, Inv, TypeOK, NameHeld, Bound, Past, NullCause, OwnFile

\* An instance that dies between shm_open and shm_unlink keeps the name.
LEMMA DieNameHeld ==
  ASSUME Inv, NEW p \in Procs, Die(p)
  PROVE  NameHeld'
<1>1. /\ pc' = [pc EXCEPT ![p] = "done"] /\ name' = name
      /\ lost' = IF pc[p] = "unlink" THEN lost \union {p} ELSE lost
  BY DEF Die, At, Goto
<1>2. DOMAIN pc = Procs /\ lost \subseteq Procs /\ NameHeld
  BY DEF Inv, TypeOK
<1>3. \A q \in Procs : pc'[q] = IF q = p THEN "done" ELSE pc[q]
  BY <1>1, <1>2
<1> QED
  BY <1>1, <1>2, <1>3 DEF NameHeld

LEMMA StepInv ==
  ASSUME Inv, NEW p \in Procs, Start(p) \/ Step(p) \/ Die(p)
  PROVE  Inv'
<1> USE StartupAssumption
    DEF Inv, TypeOK, NameHeld, Bound, Past, NullCause, OwnFile, At, Goto, Fail, memory
<1>1. CASE Start(p)
  BY <1>1 DEF Start
<1>2. CASE Connect(p)
  BY <1>2 DEF Connect
<1>3. CASE ConnectFails(p)
  BY <1>3, Zenon DEF ConnectFails
<1>4. CASE GetRegistry(p)
  BY <1>4 DEF GetRegistry
<1>5. CASE GetRegistryFails(p)
  BY <1>5, Zenon DEF GetRegistryFails
<1>6. CASE Roundtrip(p)
  BY <1>6 DEF Roundtrip
<1>7. CASE RoundtripFails(p)
  BY <1>7 DEF RoundtripFails
<1>8. CASE PoolInit(p)
  BY <1>8 DEF PoolInit
<1>9. CASE PoolInitPanics(p)
  <2>1. cut[p] \/ offered # Globals
    BY <1>9 DEF PoolInitPanics, Globals
  <2> QED
    BY <1>9, <2>1 DEF PoolInitPanics
<1>10. CASE ShmOpen(p)
  BY <1>10 DEF ShmOpen
<1>11. CASE ShmOpenFails(p)
  <2>1. CASE Fail(p, "exists")
    BY <1>11, <2>1, Zenon DEF ShmOpenFails
  <2>2. CASE Fail(p, "open")
    BY <1>11, <2>2, Zenon DEF ShmOpenFails
  <2> QED
    BY <1>11, <2>1, <2>2 DEF ShmOpenFails
<1>12. CASE ShmUnlink(p)
  BY <1>12 DEF ShmUnlink
<1>13. CASE Grow(p)
  BY <1>13 DEF Grow
<1>14. CASE GrowFails(p)
  BY <1>14, Zenon DEF GrowFails
<1>15. CASE CreatePool(p)
  BY <1>15 DEF CreatePool
<1>16. CASE CreatePoolFails(p)
  BY <1>16, Zenon DEF CreatePoolFails
<1>17. CASE WindowInit(p)
  BY <1>17 DEF WindowInit
<1>18. CASE WindowInitFails(p)
  BY <1>18, Zenon DEF WindowInitFails
<1>19. CASE WindowInitNull(p)
  <2>1. cut[p] \/ offered # Globals
    BY <1>19 DEF WindowInitNull, Globals
  <2> QED
    BY <1>19, <2>1 DEF WindowInitNull
<1>20. CASE PoolDeinit(p)
  BY <1>20 DEF PoolDeinit
<1>21. CASE Disconnect(p)
  BY <1>21 DEF Disconnect, ProcessGone
<1>22. CASE Panic(p)
  BY <1>22 DEF Panic, ProcessGone
<1>23. CASE Die(p)
  <2>1. TypeOK' /\ \A q \in Procs : OwnFile(q)'
    BY <1>23 DEF Die, ProcessGone
  <2>2. NameHeld'
    BY <1>23, DieNameHeld
  <2>3. Bound'
    BY <1>23 DEF Die, ProcessGone
  <2>4. NullCause'
    BY <1>23 DEF Die, ProcessGone
  <2> QED
    BY <2>1, <2>2, <2>3, <2>4
<1>24. CASE \E g \in Globals : BindGlobal(p, g) \/ BindFails(p, g)
  <2>1. PICK g \in Globals : BindGlobal(p, g) \/ BindFails(p, g)
    BY <1>24
  <2>2. CASE BindGlobal(p, g)
    <3>1. /\ pc[p] = "roundtrip" /\ globals' = [globals EXCEPT ![p] = @ \union {g}]
          /\ UNCHANGED << offered, name, pc, why, cut, memory, lost >>
      BY <2>2 DEF BindGlobal
    <3>2. globals' \in [Procs -> SUBSET Globals]
      BY <3>1
    <3>3. TypeOK' /\ NameHeld' /\ NullCause' /\ \A q \in Procs : OwnFile(q)'
      BY <3>1, <3>2
    <3>4. Bound'
      BY <3>1
    <3> QED
      BY <3>3, <3>4
  <2>3. CASE BindFails(p, g)
    BY <2>3, Zenon DEF BindFails
  <2> QED
    BY <2>1, <2>2, <2>3
<1> QED
  BY <1>1, <1>2, <1>3, <1>4, <1>5, <1>6, <1>7, <1>8, <1>9, <1>10, <1>11, <1>12, <1>13, <1>14, <1>15, <1>16, <1>17, <1>18, <1>19, <1>20, <1>21, <1>22, <1>23, <1>24
     DEF Step

LEMMA Invariance == Spec => []Inv
<1>1. Inv /\ UNCHANGED vars => Inv'
  BY DEF Inv, TypeOK, NameHeld, Bound, NullCause, OwnFile, vars
<1>2. Inv /\ [Next]_vars => Inv'
  BY <1>1, StepInv DEF Next
<1> QED
  BY InitInv, <1>2, PTL DEF Spec

-------------------------------------------------------------------------------
(***************************************************************************)
(* The theorems                                                            *)
(***************************************************************************)

\* However the instances interleave, fail and die, every variable keeps to its
\* type: a file descriptor that is used is one that shm_open gave.
THEOREM StartupTypeOK == Spec => []TypeOK
<1>1. Inv => TypeOK
  BY DEF Inv
<1> QED
  BY <1>1, Invariance, PTL

\* No two of any number of instances ever have a file in common.
THEOREM StartupPoolsPrivate == Spec => []PoolsPrivate
<1>1. Inv => PoolsPrivate
  BY DEF Inv, OwnFile, PoolsPrivate, Files
<1> QED
  BY <1>1, Invariance, PTL

\* A global is NULL when it is used only for a compositor without it, or after
\* the roundtrip nobody looked at.
THEOREM StartupNullCause == Spec => []NullCause
<1>1. Inv => NullCause
  BY DEF Inv
<1> QED
  BY <1>1, Invariance, PTL

\* shm_open fails with EEXIST only for an instance between its two calls, or one
\* that died there.
THEOREM StartupRefusedCause == Spec => RefusedCause
<1> DEFINE Cause(p) == why[p] # "exists" /\ why'[p] = "exists" =>
                         \E q \in Procs \ {p} : pc[q] = "unlink" \/ q \in lost
<1>1. ASSUME Inv, NEW p \in Procs, NEW q \in Procs, Start(q) \/ Step(q) \/ Die(q)
      PROVE  Cause(p)
  <2>1. CASE ShmOpenFails(q) /\ name # Nobody /\ Fail(q, "exists")
    <3>1. /\ pc[q] = "open" /\ name # Nobody
          /\ why' = [why EXCEPT ![q] = "exists"]
      BY <2>1 DEF ShmOpenFails, At, Fail
    <3>2. name \in Procs \ {q} /\ (pc[name] = "unlink" \/ name \in lost)
      BY <1>1, <3>1 DEF Inv, TypeOK, NameHeld
    <3> QED
      BY <1>1, <3>1, <3>2 DEF Inv, TypeOK
  <2>2. CASE \E reason \in {"connect", "registry", "bind", "shm is NULL", "open", "grow", "create",
                            "window", "global is NULL"} :
               why' = [why EXCEPT ![q] = reason]
    BY <1>1, <2>2 DEF Inv, TypeOK
  <2>3. CASE why' = why
    BY <2>3
  <2> QED
    BY <1>1, <2>1, <2>2, <2>3
       DEF Step, Start, Connect, ConnectFails, GetRegistry, GetRegistryFails, BindGlobal,
           BindFails, Roundtrip, RoundtripFails, PoolInit, PoolInitPanics, ShmOpen, ShmOpenFails, ShmUnlink,
           Grow, GrowFails, CreatePool, CreatePoolFails, WindowInit, WindowInitFails,
           WindowInitNull, PoolDeinit, Disconnect, Panic, Die, Fail
<1>2. Inv /\ [Next]_vars => [\A p \in Procs : Cause(p)]_vars
  BY <1>1 DEF Next
<1> QED
  BY <1>2, Invariance, PTL DEF Spec, RefusedCause

\* The name "/spaze" is the lock of NameLock: one process inside, and nobody
\* else takes the name away.  (Lock's assumption is that of Startup.)
THEOREM StartupImplementsLock == Spec => ImplementsLock
<1> DEFINE owner  == IF name \in lost THEN Stale ELSE name
           inside == {p \in Procs : pc[p] = "unlink"}
<1>1. Init => Lock!Init
  BY DEF Init, Lock!Init
<1>2. ASSUME Inv, NEW p \in Procs, Start(p) \/ Step(p) \/ Die(p)
      PROVE  [Lock!Next]_<< owner, inside >>
  <2>1. CASE ShmOpen(p)
    <3>1. /\ pc[p] = "open" /\ name = Nobody /\ name' = p /\ lost' = lost
          /\ pc' = [pc EXCEPT ![p] = "unlink"]
      BY <2>1 DEF ShmOpen, At, Goto
    <3>2. p \notin lost /\ Nobody \notin lost
      BY <1>2, <3>1, StartupAssumption DEF Inv, TypeOK, NameHeld
    <3>3. inside' = inside \union {p}
      BY <1>2, <3>1 DEF Inv, TypeOK
    <3>4. Lock!Enter(p)
      BY <3>1, <3>2, <3>3 DEF Lock!Enter
    <3> QED
      BY <3>4 DEF Lock!Next
  <2>2. CASE ShmUnlink(p)
    <3>1. /\ pc[p] = "unlink" /\ name' = Nobody /\ lost' = lost
          /\ pc' = [pc EXCEPT ![p] = "grow"]
      BY <2>2 DEF ShmUnlink, At, Goto
    <3>2. name = p /\ p \notin lost /\ Nobody \notin lost
      BY <1>2, <3>1, StartupAssumption DEF Inv, TypeOK, NameHeld
    <3>3. inside' = inside \ {p} /\ p \in inside
      BY <1>2, <3>1 DEF Inv, TypeOK
    <3>4. Lock!Leave(p)
      BY <3>1, <3>2, <3>3 DEF Lock!Leave
    <3> QED
      BY <3>4 DEF Lock!Next
  <2>3. CASE Die(p) /\ pc[p] = "unlink"
    <3>1. /\ name' = name /\ lost' = lost \union {p}
          /\ pc' = [pc EXCEPT ![p] = "done"]
      BY <2>3 DEF Die, At, Goto
    <3>2. name = p /\ p \notin lost
      BY <1>2, <2>3 DEF Inv, NameHeld
    <3>3. inside' = inside \ {p} /\ p \in inside
      BY <1>2, <2>3, <3>1 DEF Inv, TypeOK
    <3>4. Lock!DieInside(p)
      BY <3>1, <3>2, <3>3 DEF Lock!DieInside
    <3> QED
      BY <3>4 DEF Lock!Next
  <2>4. CASE /\ UNCHANGED << name, lost >> /\ pc[p] # "unlink"
             /\ \E to \in {"off", "connect", "registry", "roundtrip", "pool", "open", "grow",
                           "create", "window", "loop", "disconnect", "failed", "done"} :
                  pc' = [pc EXCEPT ![p] = to] \/ pc' = pc
    <3>1. inside' = inside
      BY <1>2, <2>4 DEF Inv, TypeOK
    <3> QED
      BY <2>4, <3>1
  <2> QED
    BY <1>2, <2>1, <2>2, <2>3, <2>4
       DEF Step, Start, Connect, ConnectFails, GetRegistry, GetRegistryFails, BindGlobal,
           BindFails, Roundtrip, RoundtripFails, PoolInit, PoolInitPanics, ShmOpenFails,
           Grow, GrowFails, CreatePool, CreatePoolFails, WindowInit, WindowInitFails,
           WindowInitNull, PoolDeinit, Disconnect, Panic, Die, Fail, At, Goto
<1>3. Inv /\ [Next]_vars => [Lock!Next]_<< owner, inside >>
  BY <1>2 DEF Next, vars
<1> QED
  BY <1>1, <1>3, Invariance, PTL DEF Spec, ImplementsLock, Lock!Spec

================================================================================
