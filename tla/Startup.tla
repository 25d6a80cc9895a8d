-------------------------------- MODULE Startup --------------------------------
(***************************************************************************)
(* main of src/spaze.c from its first line to its last, for several        *)
(* instances of the program that run side by side: event_loop_init and     *)
(* registry_global of src/windowing.c, shm_pool_init and shm_pool_deinit   *)
(* of src/gfx.c, and what main does when one of them fails.                *)
(*                                                                         *)
(* The instances share the name "/spaze" of the shared-memory object and   *)
(* nothing else.  Any step of one may come between two of another, each    *)
(* system call may fail as the code expects it to, and an instance may die *)
(* anywhere.  An instance creates at most one file, which is known by the  *)
(* instance; window_init is one step here (Window has its inside).         *)
(*                                                                         *)
(* External: the file system, the compositor, libwayland.                  *)
(***************************************************************************)
EXTENDS FiniteSets

CONSTANTS
  Procs,   \* the instances of the program
  Nobody,  \* no instance: no file, or a name that is not there
  Stale    \* the owner, in NameLock, of a name whose creator died

ASSUME StartupAssumption == Nobody \notin Procs /\ Stale \notin Procs \union {Nobody}

\* The globals registry_global looks for.
Globals == {"compositor", "wm_base", "shm"}

VARIABLES
  offered,  \* the compositor: those of Globals it has
  name,     \* the file system: the file "/spaze" names, or Nobody
  pc,       \* where each instance is
  why,      \* what made it fail
  cut,      \* its roundtrip returned before all the globals were there
  globals,  \* event_loop_s: the globals bound
  fd,       \* shm_pool_s.fd: the file open
  data,     \* shm_pool_s.pool_data: the file mapped
  pool,     \* shm_pool_s.pool: the file the compositor has mapped for it
  lost      \* history: the instances that died between shm_open and shm_unlink

vars == << offered, name, pc, why, cut, globals, fd, data, pool, lost >>
memory == << fd, data, pool >>

Init ==
  /\ offered \in SUBSET Globals
  /\ name = Nobody
  /\ pc = [p \in Procs |-> "off"]
  /\ why = [p \in Procs |-> "none"]
  /\ cut = [p \in Procs |-> FALSE]
  /\ globals = [p \in Procs |-> {}]
  /\ fd = [p \in Procs |-> Nobody]
  /\ data = [p \in Procs |-> Nobody]
  /\ pool = [p \in Procs |-> Nobody]
  /\ lost = {}

At(p, here) == pc[p] = here
Goto(p, there) == pc' = [pc EXCEPT ![p] = there]

\* A failure that main answers with panic, or a failed assert.
Fail(p, reason) ==
  /\ Goto(p, "failed")
  /\ why' = [why EXCEPT ![p] = reason]

-------------------------------------------------------------------------------
(***************************************************************************)
(* event_loop_init                                                         *)
(***************************************************************************)
Start(p) ==
  /\ At(p, "off") /\ Goto(p, "connect")
  /\ UNCHANGED << offered, name, why, cut, globals, memory, lost >>

Connect(p) ==
  /\ At(p, "connect") /\ Goto(p, "registry")
  /\ UNCHANGED << offered, name, why, cut, globals, memory, lost >>

ConnectFails(p) ==
  /\ At(p, "connect") /\ Fail(p, "connect")
  /\ UNCHANGED << offered, name, cut, globals, memory, lost >>

GetRegistry(p) ==
  /\ At(p, "registry") /\ Goto(p, "roundtrip")
  /\ UNCHANGED << offered, name, why, cut, globals, memory, lost >>

GetRegistryFails(p) ==
  /\ At(p, "registry") /\ Fail(p, "registry")
  /\ UNCHANGED << offered, name, cut, globals, memory, lost >>

\* registry_global, dispatched by the roundtrip, in whatever order the
\* compositor announces.
BindGlobal(p, g) ==
  /\ At(p, "roundtrip") /\ g \in offered \ globals[p]
  /\ globals' = [globals EXCEPT ![p] = @ \union {g}]
  /\ UNCHANGED << offered, name, pc, why, cut, memory, lost >>

BindFails(p, g) ==
  /\ At(p, "roundtrip") /\ g \in offered \ globals[p]
  /\ Fail(p, "bind")
  /\ UNCHANGED << offered, name, cut, globals, memory, lost >>

\* Mutant: a flush for the roundtrip waits for no answer.
RoundtripNoWait(p) ==
  /\ At(p, "roundtrip")
  /\ Goto(p, "pool")
  /\ UNCHANGED << offered, name, why, cut, globals, memory, lost >>

\* Every global the compositor has was announced before the callback it answers
\* the roundtrip with.
Roundtrip(p) ==
  /\ At(p, "roundtrip") /\ globals[p] = offered
  /\ Goto(p, "pool")
  /\ UNCHANGED << offered, name, why, cut, globals, memory, lost >>

\* The connection is lost on the way.  Nobody looks at the -1, and
\* event_loop_init returns event_loop_error_ok.
RoundtripFails(p) ==
  /\ At(p, "roundtrip")
  /\ Goto(p, "pool")
  /\ cut' = [cut EXCEPT ![p] = TRUE]
  /\ UNCHANGED << offered, name, why, globals, memory, lost >>

-------------------------------------------------------------------------------
(***************************************************************************)
(* shm_pool_init                                                           *)
(***************************************************************************)
PoolInit(p) ==
  /\ At(p, "pool") /\ "shm" \in globals[p]
  /\ Goto(p, "open")
  /\ UNCHANGED << offered, name, why, cut, globals, memory, lost >>

\* assert_notnull(shm)
PoolInitPanics(p) ==
  /\ At(p, "pool") /\ "shm" \notin globals[p]
  /\ Fail(p, "shm is NULL")
  /\ UNCHANGED << offered, name, cut, globals, memory, lost >>

\* Mutant: SHM_OFLAGS without O_EXCL opens the file that is there.
ShmOpenShared(p) ==
  /\ At(p, "open")
  /\ name' = IF name = Nobody THEN p ELSE name
  /\ fd' = [fd EXCEPT ![p] = name']
  /\ Goto(p, "unlink")
  /\ UNCHANGED << offered, why, cut, globals, data, pool, lost >>

\* O_CREAT and O_EXCL: the file is new, and has the name.
ShmOpen(p) ==
  /\ At(p, "open") /\ name = Nobody
  /\ name' = p
  /\ fd' = [fd EXCEPT ![p] = p]
  /\ Goto(p, "unlink")
  /\ UNCHANGED << offered, why, cut, globals, data, pool, lost >>

\* Mutant: the result of shm_open is not looked at.
ShmOpenUnchecked(p) ==
  /\ At(p, "open") /\ name # Nobody
  /\ fd' = [fd EXCEPT ![p] = "-1"]
  /\ Goto(p, "unlink")
  /\ UNCHANGED << offered, name, why, cut, globals, data, pool, lost >>

\* EEXIST while the name is there; EACCES, EMFILE and the like at any time.
\* shm_pool_init does not tell them apart.
ShmOpenFails(p) ==
  /\ At(p, "open")
  /\ \/ name # Nobody /\ Fail(p, "exists")
     \/ Fail(p, "open")
  /\ UNCHANGED << offered, name, cut, globals, memory, lost >>

\* Mutant: the name stays.
ShmUnlinkNot(p) ==
  /\ At(p, "unlink") /\ Goto(p, "grow")
  /\ UNCHANGED << offered, name, why, cut, globals, memory, lost >>

\* shm_unlink takes the name away whatever file it names.
ShmUnlink(p) ==
  /\ At(p, "unlink") /\ Goto(p, "grow")
  /\ name' = Nobody
  /\ UNCHANGED << offered, why, cut, globals, memory, lost >>

Grow(p) ==
  /\ At(p, "grow") /\ Goto(p, "create")
  /\ data' = [data EXCEPT ![p] = fd[p]]
  /\ UNCHANGED << offered, name, why, cut, globals, fd, pool, lost >>

\* ftruncate or mmap fails: shm_pool_init closes the file.
GrowFails(p) ==
  /\ At(p, "grow") /\ Fail(p, "grow")
  /\ fd' = [fd EXCEPT ![p] = Nobody]
  /\ UNCHANGED << offered, name, cut, globals, data, pool, lost >>

CreatePool(p) ==
  /\ At(p, "create") /\ Goto(p, "window")
  /\ pool' = [pool EXCEPT ![p] = fd[p]]
  /\ UNCHANGED << offered, name, why, cut, globals, fd, data, lost >>

\* Mutant: the name is unlinked once more.
CreatePoolFailsUnlinks(p) ==
  /\ At(p, "create") /\ Fail(p, "create")
  /\ name' = Nobody
  /\ fd' = [fd EXCEPT ![p] = Nobody]
  /\ data' = [data EXCEPT ![p] = Nobody]
  /\ UNCHANGED << offered, cut, globals, pool, lost >>

\* NULL from wl_shm_create_pool: shm_pool_init unmaps and closes.
CreatePoolFails(p) ==
  /\ At(p, "create") /\ Fail(p, "create")
  /\ fd' = [fd EXCEPT ![p] = Nobody]
  /\ data' = [data EXCEPT ![p] = Nobody]
  /\ UNCHANGED << offered, name, cut, globals, pool, lost >>

-------------------------------------------------------------------------------
(***************************************************************************)
(* The rest of main                                                        *)
(***************************************************************************)
WindowInit(p) ==
  /\ At(p, "window") /\ {"compositor", "wm_base"} \subseteq globals[p]
  /\ Goto(p, "loop")
  /\ UNCHANGED << offered, name, why, cut, globals, memory, lost >>

WindowInitFails(p) ==
  /\ At(p, "window") /\ "compositor" \in globals[p]
  /\ Fail(p, "window")
  /\ UNCHANGED << offered, name, cut, globals, memory, lost >>

\* A request of an object that is NULL: libwayland reads through it.
WindowInitNull(p) ==
  /\ At(p, "window") /\ ~ {"compositor", "wm_base"} \subseteq globals[p]
  /\ Fail(p, "global is NULL")
  /\ UNCHANGED << offered, name, cut, globals, memory, lost >>

\* The loop ends; window_deinit and shm_pool_deinit.  The requests stay in the
\* output buffer, so that the compositor keeps its mapping.
PoolDeinit(p) ==
  /\ At(p, "loop") /\ Goto(p, "disconnect")
  /\ fd' = [fd EXCEPT ![p] = Nobody]
  /\ data' = [data EXCEPT ![p] = Nobody]
  /\ UNCHANGED << offered, name, why, cut, globals, pool, lost >>

\* What the system does for a process that ends, however it ends.
ProcessGone(p) ==
  /\ fd' = [fd EXCEPT ![p] = Nobody]
  /\ data' = [data EXCEPT ![p] = Nobody]
  /\ pool' = [pool EXCEPT ![p] = Nobody]
  /\ globals' = [globals EXCEPT ![p] = {}]

\* event_loop_deinit: the connection closes, main returns.
Disconnect(p) ==
  /\ At(p, "disconnect") /\ Goto(p, "done")
  /\ ProcessGone(p)
  /\ UNCHANGED << offered, name, why, cut, lost >>

\* panic_impl: abort.
Panic(p) ==
  /\ At(p, "failed") /\ Goto(p, "done")
  /\ ProcessGone(p)
  /\ UNCHANGED << offered, name, why, cut, lost >>

\* A signal, anywhere.
Die(p) ==
  /\ pc[p] \notin {"off", "done"} /\ Goto(p, "done")
  /\ ProcessGone(p)
  /\ lost' = IF At(p, "unlink") THEN lost \union {p} ELSE lost
  /\ UNCHANGED << offered, name, why, cut >>

Step(p) ==
  \/ Connect(p) \/ ConnectFails(p) \/ GetRegistry(p) \/ GetRegistryFails(p)
  \/ \E g \in Globals : BindGlobal(p, g) \/ BindFails(p, g)
  \/ Roundtrip(p) \/ RoundtripFails(p)
  \/ PoolInit(p) \/ PoolInitPanics(p)
  \/ ShmOpen(p) \/ ShmOpenFails(p) \/ ShmUnlink(p)
  \/ Grow(p) \/ GrowFails(p) \/ CreatePool(p) \/ CreatePoolFails(p)
  \/ WindowInit(p) \/ WindowInitFails(p) \/ WindowInitNull(p)
  \/ PoolDeinit(p) \/ Disconnect(p) \/ Panic(p)

Next == \E p \in Procs : Start(p) \/ Step(p) \/ Die(p)

Spec == Init /\ [][Next]_vars

-------------------------------------------------------------------------------
(***************************************************************************)
(* Properties                                                              *)
(***************************************************************************)

\* The values the variables may have.
TypeOK ==
  /\ offered \subseteq Globals
  /\ name \in Procs \union {Nobody}
  /\ pc \in [Procs -> {"off", "connect", "registry", "roundtrip", "pool", "open",
                       "unlink", "grow", "create", "window", "loop", "disconnect",
                       "failed", "done"}]
  /\ why \in [Procs -> {"none", "connect", "registry", "bind", "shm is NULL", "exists",
                        "open", "grow", "create", "window", "global is NULL"}]
  /\ cut \in [Procs -> BOOLEAN]
  /\ globals \in [Procs -> SUBSET Globals]
  /\ fd \in [Procs -> Procs \union {Nobody}]
  /\ data \in [Procs -> Procs \union {Nobody}]
  /\ pool \in [Procs -> Procs \union {Nobody}]
  /\ lost \subseteq Procs

\* No two instances, however their steps interleave and whichever of them die
\* or fail, ever have the same file open, mapped, or in the compositor's hands:
\* none draws in the other's window.
Files(p) == {fd[p], data[p], pool[p]} \ {Nobody}
PoolsPrivate == \A p, q \in Procs : p # q => Files(p) \intersect Files(q) = {}

\* The name is in the way of an instance (EEXIST) only while another one stands
\* between its shm_open and its shm_unlink, or because one died there: one that
\* runs, has ended or has failed is not in the way of another.  (The other errors
\* of shm_open are the system's.)
RefusedCause ==
  [][ \A p \in Procs : why[p] # "exists" /\ why'[p] = "exists" =>
        \E q \in Procs \ {p} : pc[q] = "unlink" \/ q \in lost ]_vars

\* A global that is NULL when it is used was not offered by the compositor, or
\* the connection broke during the roundtrip of event_loop_init: a compositor
\* that has all three and a connection that lasts are enough.
NullCause ==
  \A p \in Procs :
    why[p] \in {"shm is NULL", "global is NULL"} => cut[p] \/ offered # Globals

\* The name is a lock with one process inside, left by nobody else, and lost
\* for good with a process that dies inside.
Lock == INSTANCE NameLock WITH
          owner <- IF name \in lost THEN Stale ELSE name,
          inside <- {p \in Procs : pc[p] = "unlink"}
ImplementsLock == Lock!Spec

================================================================================
