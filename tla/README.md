# A verification project for spaze

spaze is a small Wayland client in C: it connects to the compositor, creates a
pool of shared memory and one window, and runs a loop until the window is
closed. Its own logic is in seven files (`src/src/*.c`, about 700 lines): an
intrusive list, a growable array, an event loop over libwayland-client, a
window, and a pool of buffers with a swapchain. The rest is the generated code
of the xdg-shell protocol. This directory holds TLA+ modules that model it, TLC
configurations that check them on small instances, and theorems proved with
TLAPS for every instance.

Run everything from this directory:

    tlc -config GfxBlocks.cfg MCGfx.tla        # a model-checking run
    tlapm EventLoopTurnProofs.tla              # a proof

## 1. Inventory of the system

| component | code | state | operations |
|---|---|---|---|
| intrusive list | `list.c`, `list.h` | `head`, `tail`; `next`, `prev` in each object chained | push, insert after, pop front, remove, two `for_each` macros |
| growable array | `array.c`, `array.h` | `ptr`, `length`, `capacity`, `elem_size` | push, pop, deinit |
| pool and swapchain | `gfx.c` | `pool_used`, `pool_capacity`, the free list; the chain, width and height; `busy` per block | allocate, deallocate, init and deinit; acquire, reclaim, resize, init and deinit; the release listener |
| shared-memory object | `gfx.c:33-85` | the name `/spaze`, the file, the mapping | open, unlink, truncate, map |
| start-up | `spaze.c:26-54`, `windowing.c:25-91` | the globals bound | event_loop_init, the registry listener, what main does with a failure |
| event loop | `windowing.c:15-23`, `93-146` | the event array; libwayland's queue, output buffer and last error | update, get, deinit; the listener for ping |
| window | `windowing.c:148-254` | three protocol objects, `alive`, the loop it belongs to | init, deinit; listeners for configure and close |
| main loop | `spaze.c` | `should_quit` | handle_events, main |
| panic, assert | `common.c`, `common.h` | - | abort |
| xdg-shell code | `xdg-shell.c`, `xdg-shell.h` | tables of requests and events; listener structs | a function per request, a slot per event |

How they interact. Everything runs on one thread. `main` alternates
`event_loop_update` and `handle_events`. An update polls the socket, prepares
to read, flushes, reads and dispatches; dispatching calls the listeners, which
answer the compositor (`xdg_wm_base_pong`, `xdg_surface_ack_configure`: requests
into libwayland's output buffer), push events to the array, or clear the `busy`
flag of a block. `handle_events` pops the array. The application takes blocks
from the pool and moves them through the swapchain; a block is an object with
one link in it, which is on the free list, on the chain, or on neither. Only
`shm_pool_init` and `shm_pool_deinit` have a caller in this version; the other
functions of `gfx.c` are a library whose caller has yet to be written, so the
model lets any single-threaded caller use them.

Two instances of the program meet in one place, the name `/spaze` of the
shared-memory object, which exists from `shm_open` to `shm_unlink`.

What is hard. There are no threads, but there are two peers: the compositor and
the socket go on between any two steps of an update, the socket takes part of
what is flushed and gives part of what was sent, either end may fail, and the
data of a listener must outlive the object it is called for. Instances start,
fail and die side by side. In memory, the same links move between two lists by
code that never clears a pointer. In arithmetic, sizes wrap at `usize_t` and at
the `int32_t` of the wire. In the generated code, functions and tables have to
agree by position alone. `PROJECT.json` lists each hazard at its line, with the
properties that cover it.

What makes each component correct:

- list: it holds the links its callers put there, in order, in both directions,
  whatever lists those links were on before;
- array: it is a stack;
- pool: two buffers never share a byte, and client and compositor agree on the
  size; every block has one owner; the loops end; a release finds its block;
- event loop: no request and no event is lost, doubled or out of turn; pings are
  answered and a close ends the program;
- start-up and shared-memory object: no instance gets another's file, none is in
  the way of another once its pool exists, and the globals used are bound;
- window: its three objects are created and destroyed in the order the protocol
  asks for, on the failure paths too; no listener finds a window that is gone;
- xdg-shell code: the compositor reads what the function called wrote, the
  listener hears what was sent, and versions are kept.

## 2. Modules

| module | models | proved in |
|---|---|---|
| `LinkList` | `list.c`: operators from the memory before a call to the memory after it | `GfxListProofs` (first part) |
| `Gfx` (extends `LinkList`) | the pool and the swapchain of `gfx.c` | `GfxProofs`, `GfxListProofs` |
| `MCGfx` | instances of `Gfx` | |
| `EventStack` | what users of the array rely on: an unbounded stack | |
| `EventArray` | `array.c` | `EventArrayProofs` |
| `MCEventArray` | instances of `EventArray` | |
| `EventLoop` | `windowing.c` (loop and listeners) and the loop of `spaze.c` | `EventLoopProofs`, `EventLoopTurnProofs` |
| `MCEventLoop` | instances of `EventLoop` | |
| `NameLock` | what `shm_pool_init` relies on: a lock that dies with its owner | |
| `Startup` | `main`, `event_loop_init`, `shm_pool_init` in several processes | `StartupProofs` |
| `MCStartup` | instances of `Startup` | |
| `Window` | `window_init`, `window_deinit` and the listeners for several windows | `WindowProofs` |
| `MCWindow` | instances of `Window` | |
| `XdgTables` | the functions, listener structs and tables of `xdg-shell.[ch]`, as data | |
| `XdgShell` (extends `XdgTables`) | a client that calls them, and a compositor that reads them | `XdgShellProofs` |
| `MCXdgShell` | instances of `XdgShell` | |

Some definitions are marked "Mutant". They are changes a plausible bug would
make to the definition below them; no specification uses them. Each property was
seen to fail when its mutant is put in the place of that definition
(`PROJECT.json`, "mutants").

### LinkList

The memory is a record: `next` and `prev` per link, `head` and `tail` per list.
A pointer is a link, `NULL`, or `Junk`, which stands for any other bit pattern;
following `Junk` sets `fault`. `ListPush` to an empty list sets `head` and `tail`
and neither pointer of the link, and `ListRemove` leaves those of the link it
takes off, as in the code. `Represents(m, l, s)` says what a caller means by "the
list `l` holds the sequence `s`".

### Gfx

One action per call, and for the functions that loop over a list one action per
iteration: `AllocateBegin`, `AllocateSkip`, `AllocateReuse` and the five ways a
search that found nothing can end; `ResizeBegin`/`SwapchainDeinitBegin`,
`HandOverBlock`, `HandOverEnd`; `PoolDeinitBegin`, `DestroyBlock`,
`PoolDeinitEnd`. `call` holds the link the loop stands on and the next one,
which the macros read before the body runs. A failed assert is the operation
"panic", the endless growth loop "spin". The listener `BufferRelease` runs
between two calls. The arithmetic is modulo `Word`. Everything that goes over the
wire is reduced to `int32_t` by `ToInt32`: the size of the pool, the offset of a
buffer, its width, height and stride. The compositor (`WlPoolResize`,
`WlCreateBuffer`) sees only the reduced values, so it may take a buffer that is
smaller than the one the client carved out; it refuses what libwayland-server
refuses: dimensions that are not positive, a stride below the width, more bytes
than int32_t counts, a range that is not inside its pool. A shape is a record of
width, height and stride; `Bytes` is the product before it wraps, `Request` what
is left of it in a `usize_t`. `Doubled` is a recursive function and not a power of
two because the provers know nothing of `^`.

Variables the code does not have record what a caller is entitled to believe:
`held`, `freeSeq`, `chainSeq`, `dropped`. `tainted` becomes true when a link that
is not clean is pushed to an empty list: from then on the list is not what its
callers believe, and `ListsAgree`, `OneOwner` and `DeinitFreesPooled` have "not
tainted" as their hypothesis. `OneOwner` counts a block that `swapchain_acquire`
dropped as one with an owner, so it says nothing of finding 1; nor do the
properties look at memory that was freed, whose contents stay in the model.

The application (external) passes blocks it holds, one swapchain uses one pool,
and it sets `busy` when it attaches a block; nothing in the code sets that flag. These
are restrictions on the caller and not guards of the code, as are two more: it
reclaims a block to a swapchain that is alive, and initialises one that is not.
`include/spaze/gfx.h` is missing from the repository; the records have the fields
`gfx.c` uses.

### EventStack, EventArray

`EventArray` is one allocation with its slots, the length and the capacity, and
the growth with the products modulo `Word`. A push that would write or copy
outside the allocation is `PushOverruns`, the assert of `array_resize` is
`PushPanics`. The refinement maps the first `length` slots to the stack.
`EventLoop` keeps the events in such a sequence, popped at its end.

### EventLoop

The thread goes through `poll`, `prepare`, `flush`, `read`, `dispatch`, `handle`.
libwayland is modelled from how the code uses it: `prepare_read` refuses while the
queue is not empty; `flush` writes what the socket takes and fails with EAGAIN
when something is left, with EPIPE when the other end is gone; `read_events` takes
any non-empty prefix of what the socket holds; `dispatch_pending` looks at its own
display events first, so that an error stops everything read with it. The
compositor may ping, configure, close, report an error or hang up at any time,
and checks the acks and pongs it gets as the protocol tells it to. `handled`,
`received` and `sent` record what was dispatched, returned to the application and
written to the socket.

### NameLock, Startup

`Startup` follows `main` from its first line to its last in each of several
processes, one system call or one libwayland call per action, each with the
failure the code expects of it. A process may die at any step (`Die`); what the
system takes back then is `ProcessGone`. The file an instance creates is known by
the instance, so `fd`, `data` and `pool` (the file open, mapped, and in the
compositor's hands) tell whose file it has. `registry_global` runs inside the
roundtrip, once per global the compositor has, in any order; `RoundtripFails` is
the branch nobody looks at. What `main` does with a result that is not ok is
`Panic`. `window_init` is one step here. `shm_open` may fail because the name is
taken or for any other reason (no permission, no descriptors left), which the code
does not tell apart; `RefusedCause` is about the first.

The refinement to `NameLock` maps the owner of the name to the owner of the lock,
and to `Stale` when the owner died between `shm_open` and `shm_unlink`; the inside
of the lock is the line between the two calls.

### Window

One action per call: `window_init` dispatches nothing, so each of its four ends
(three failures and success) is one step with all its requests. The objects carry
the number of the call that made them, which the code does not have; it tells an
object from the one that takes its place when a struct is used again.
libwayland's buffers and the socket are one channel per direction. libwayland
drops an event whose proxy is gone (`DispatchDropped`); an event in the array is
not dropped by anything. `fault` is a listener that goes through the `loop`
pointer of a cleared window. The compositor keeps the rules the header quotes:
an object is created under one that exists, an ack names a configure that was
sent, and an xdg_surface outlives its role object.

### XdgTables, XdgShell

`XdgTables` is the data of both files, side by side: for each interface the
functions of the header (opcode, arguments, the object made, whether it
destroys), the members of the listener struct, the `SINCE_VERSION` numbers, and
the tables of `xdg-shell.c` with `xdg_shell_types` and the offsets into it.
Nothing in it says how the halves belong together. `XdgShell` puts them to work:
`Call` is any function of the header on any proxy, with any object of the right C
type; `SrvReceive` finds the request by its opcode in the table, checks its
version, and either makes the object the table names or complains. `Complaints`
are the errors the header documents for a function (a surface destroyed before its
role object, a serial that was never sent, and so on); the values and the order
they depend on are not in this module, so both answers are possible to each. The
ones of order and of serials are decided in `Window`. `SrvSend` and `Dispatch` do
the same for events and slots. `Handlers` are the slots `windowing.c` fills in;
a swap in a slot that is NULL, or of an interface without a listener, is not heard.

## 3. Runs

| run | instance | shows |
|---|---|---|
| `GfxBlocks` | 3 blocks, 2 shapes, all calls, fresh links clean or not | `ListsAgree`, `OneOwner`, `ReleaseFindsBlock`, `DeinitFreesPooled` up to the first bad push, and `InUseOnlyFromPool` |
| `GfxLimits` | 3 blocks of 7 shapes, a word of 256, a wire of 31 | `BuffersDisjoint`, `RefusalCause`, `GrowthEnds`, also where dimensions arrive cut |
| `GfxLoops` | 3 blocks, 2 shapes, fairness | `LoopsEnd`, also of the loop that makes a cycle |
| `GfxBusyDrop` | 2 blocks that are attached | violation: finding 1 |
| `GfxCutChain` | 3 blocks, none busy | violation: finding 2 |
| `ArrayStack` | 2 values, elements of 1, 2 and 3 bytes, a word of 16 | `TypeOK`, `LimitCause`, `ImplementsStack` |
| `EventLoop` | 4 events, a socket of 2 requests, 1 interrupt, fairness | all properties of `EventLoop` but the one of finding 3 |
| `LoopStaleSize` | 3 events, sizes 0 and 2 | violation: finding 3 |
| `Startup` | 3 processes, every set of globals | `PoolsPrivate`, `NullCause`, `RefusedCause`, `ImplementsLock` |
| `WindowSafety` | 2 structs, 3 calls of `window_init`, 2 serials | `NoOrphans`, `ListenerFindsWindow`, `StaleCause`, `ErrorCause`, `SameObjects` |
| `WindowOrder` | 1 window, opened and closed | violation: finding 4 |
| `XdgWire` | versions 1, 3 and 5, 3 new objects, 2 messages under way | `MeansWhatWasCalled`, `HeardAsSent`, `SameObjects`, `UnreadableCause`, `NoNullSlot` |

Bounds.

- Gfx. Two lists are enough for a link to move between all there are; a third
  block makes the cycle and the cut chain that two blocks cannot make alone, and
  a block between two others. In `GfxLimits` the pool starts with 8 units, a word
  counts 256 and the wire 31, so that the wire tells apart a quarter of what a word
  holds: two shapes arrive whole and make the pool leave the wire when there are
  several of them, one has a stride of 68 that arrives as 4, one a height of 65 that
  arrives as 1, one a product that wraps to 1; one takes exactly half the word (128)
  and behind another block exceeds every doubling, and one wraps the sum (254). It
  leaves out `swapchain_resize`, deallocating and the teardown, which carve
  nothing. Three constraints cut broken lists off. `Untainted` stops at the first
  bad push: every property of the runs has "not tainted" as its hypothesis, or
  (`TypeOK`, `ReleaseFindsBlock`, `InUseOnlyFromPool`, `BuffersDisjoint`,
  `RefusalCause` and `GrowthEnds`) is a theorem for broken lists too.
  `OneWhenTainted`, in `GfxBlocks`, follows a broken list as long as there is one
  block and it stays there, to where a loop reads through its junk pointers.
  `TaintedInLoop`, in `GfxLoops`, goes on to the end of the loop that made the
  bad push. `LoopsEnd` speaks of loops that begin before any bad push: a loop
  over a list that an earlier call broke may go round for ever (finding 2).
- Array. It grows once or twice before each of its limits.
- EventLoop. Four events let two configures, a ping and a close meet in one batch
  or be split over several; the socket of two requests makes every second flush
  partial; one interrupted poll is enough because each begins an iteration like
  any other. One size, 0, is enough: it is the one `Clamp` changes, and of the
  properties only the one of finding 3 compares sizes.
- Startup. Three processes: one that died or stands between the two calls, one
  that is refused, and one that gets the name after either. They are alike
  (symmetry).
- Window. Three calls of `window_init` on two structs: two windows at a time, and
  a struct used again while events of its first window are under way. Two serials
  give one window two configures, or two windows one each. `late` and `untidy`
  are histories and add no behaviour.
- XdgShell. A popup needs a positioner and a surface, the longest way to an
  object; with three new objects and the surface, seat and output every function
  has arguments of every type it takes. Two messages under way let a destroy pass
  an event or precede a request. A compositor that has complained reads nothing
  more, while the client goes on until it notices. Versions 3 and 5 are on either side of, or at,
  the since-numbers; 1 is what spaze binds.

Deadlock checking is off: an application may stop calling, a failed assert, an
abort in libwayland and the end of `main` stop the process, and the bounds above
are reached.

Fairness. `Gfx!FairSpec` has weak fairness of the steps of a call that has begun:
nothing else runs on the thread. `EventLoop!FairSpec` has it of the client, whose
loop never blocks (the timeout of poll is 0, the socket is non-blocking), and of
the compositor reading its end, without which a full socket stays full. Nothing
obliges the compositor to send, or the connection to last; the properties say so.
`Startup`, `Window` and `XdgShell` state safety and refinement only: a process
may die anywhere, and what an application calls is its own choice.

Findings.

1. `swapchain_acquire` pops the front block and then tests `busy`; a busy block is
   neither returned nor put back (`gfx.c:228-233`). The next call on the emptied
   chain fails `assert_notnull(block)` although the application never got its
   block back.
2. `list_push` to an empty list does not set the pointers of the link
   (`list.c:26-30`). A block popped from the chain and deallocated to an empty
   free list still points into the chain; `shm_pool_allocate` cuts the chain, and
   the same assert fails. `swapchain_resize` with two blocks does it by itself: it
   leaves a free list that is a cycle, which `shm_pool_deinit` would free twice.
3. `event_loop_get` pops the array at its end, so of two configures dispatched
   together the application sees the older one last (`windowing.c:133`).
4. `window_deinit` destroys the wl_surface and the xdg_surface before the
   xdg_toplevel (`windowing.c:249-251`); the header says that an xdg_surface must
   only be destroyed after its role object (`xdg-shell.h:1103`). The compositor
   raises `defunct_role_object` and the connection is lost for every other window.
   `window_init`, on its failure path, destroys in the right order.

Three more behaviours are stated as causes rather than as findings, since no text
of the repository denies them. `NullCause`: the result of the roundtrip is not
looked at, so a connection that breaks in it leaves globals that are NULL.
`StaleCause`: events of a window stay in the array when it is deinit'ed.
`RefusedCause` of `Startup`: a process that dies between `shm_open` and
`shm_unlink` keeps every later one from starting.

What the properties leave out by their own terms: `AcquireAssertHolds` excuses
blocks that a resize gave back to the pool; `EventsConserved` counts events and does
not see their order, which `LastSizeStands` does; `SameObjects` of `Window` says
nothing once a `window_deinit` was received, because the compositor refuses it.

## 4. Proofs

Every safety invariant, action property and refinement that a passing run checks
is also a theorem, for every value of the constants its assumption admits. What
is left to TLC alone is at the end of this section.

`EventArrayProofs`, for every element size and every even `Word`. The inductive
invariant is `TypeOK /\ OverrunCause /\ PanicCause`; the last two are
`LimitCause`. `TypeOK` says, beyond types, that the bytes of the allocation do
not wrap, that the capacity is even and that the slots counted were written.
Evenness is there for one case: the sum `length + 1` of `array_needs_resize`
would wrap at the last value of `usize_t` and hide that the array is full.
`Growth` is the lemma on the arithmetic: when the product wraps, the new
allocation has less room than the array has elements, so the overrun is at once.
It uses `EventArrayAssumption`: `Word` is even, and four elements do not exceed
it. `ArrayIsStack` is the refinement, one lemma step per action, on two lemmas
about prefixes of sequences.

`EventLoopProofs`, for every number of events, capacity and set of sizes.
`TypeOK` and `DrainedBeforePoll` are inductive as they stand. `LostIsForever`
follows from them step by step: without `DrainedBeforePoll`, a queue that is not
empty would let an update dispatch after a poll that saw a hang-up.

`EventLoopTurnProofs`, for the same instances, has the two theorems about what the
compositor is told. `NeverRefused` says nothing of what is still on its way, so the
inductive invariant `Turns` looks at the whole line from the compositor through
inbox, queue, out and wire back to it. `Line`: the ids of pings, configures, pongs
and acks rise from the end of the line to its beginning, within each sequence
(`Rising`) and from one to the next (`Before`). `Dues`: the compositor waits for
each of them. Reading, flushing in part and dispatching keep the line as it is
(`MoveRising`, and `AnswerStandsFor`: an answer takes the place of its event); an
answer received has the least id, so that the others are still due
(`PongReceived`, `AckReceived`). A skipped or repeated answer would break `Line`
or `Dues` at once.

`AckAfterResize` needs `Acks`: a configure on the line between compositor and
listener has its toplevel event before it, or the resize is made (`Led`); an ack
that waits has its resize in the array or with the application (`AcksMade`); and
since the array is empty when the flush begins (`DrainedBeforePoll`), the resize
of an ack that is written has been returned. `queue \o inbox` is taken as one
sequence there, because a read moves the border in it and nothing else
(`CutAndJoin`).

`AnswersInOrder` and `EventsConserved` are inductive with `TypeOK`, but they speak
of `FlattenSeq`, a recursive function over a history of any length. The lemmas up
to `FlattenAppend` show what is needed of it: it has a value for every sequence of
sequences, and one more element at the end is one more piece at the end. The
induction is over a set of naturals (`EveryNatural`), which follows from the least
element of its complement; the library's induction theorems cannot be used. Then
each step of an update moves a piece from one end of an equation to the other:
EAGAIN cuts `out` in two (`CutAndJoinAny`), a dispatch adds an answer to both
sides (`FlatMore`), a pop moves an event from the array to the application
(`SharedGet`).

`GfxProofs`, for every set of blocks and shapes, every width of `usize_t` and of
the wire, and whatever fresh memory holds. The inductive invariant `PoolInv` is
`TypeOK /\ SearchOK /\ LiveAllocated /\ Carved /\ UsedInPool /\ RefusalCause`.
`BuffersDisjoint` is not inductive: nothing in it says that the next buffer begins
past the others. The difficulty is that client and compositor do not count alike.
The client adds `stride * height` modulo `Word` to `pool_used`, the compositor
multiplies two remainders and adds them to an offset that is one. Both agree modulo
the range of the wire: `Remainder`, `AddRemainder`, `TimesRemainder` and
`CutRemainder` are that piece of arithmetic (a remainder of a sum or of a product
is that of the remainders, and reducing modulo `Word` first changes nothing since
the wire's range divides it), and `AcceptedBytes` follows: what an accepted buffer
takes in the compositor's count is the remainder of what the client asked for. So
`Carved` says that every live buffer ends below `Drawn`, the remainder of
`pool_used`, and `Drawn` below the size the compositor knows; `UsedInPool` that
`pool_used` is inside the capacity, so that nothing is cut from it, and the two
sizes are equal, as long as the capacity fits int32_t. Past it a doubling can wrap to a size that
the compositor accepts, and `Carved` keeps what is left then, that the size never
falls. `ProperAccepted` is the other half: what is proper arrives whole.
`GrowPool` and `CarveBuffer` are the two steps of the argument, `NothingCarved`
the one for every other call. Nothing in it depends on the lists being well formed,
which is what makes `BuffersDisjoint` hold "however much the lists are broken".
`GfxReleaseFindsBlock` needs `LiveAllocated` and no more, `GfxInUseOnlyFromPool`
follows step by step from `TypeOK` and `ReleaseFindsBlock`: a new buffer is a block
that was not allocated, and the compositor has none of those. The proofs use
`GfxAssumption` (a word is a multiple of the wire's range, and the pool starts
within the wire) and `PointersDistinct`.

`GfxGrowthEnds` is about arithmetic modulo a power of two, where the growth loop
may not end: a capacity that wraps to zero stays there. `LoopEnds` says why it
does when the pool needs at most half the range: as long as the value is below
that half, doubling it does not wrap (`Modulo`), so after `WordBits` doublings it
would be at least `Doubled(1, WordBits)`, which is `Word` itself. `HasCapacity`
adds that a pool that is alive has a capacity other than zero, and `OnlySpins` that
no other step leads into the endless loop. `DoubledIs` gives the recursive function
its value, again by a set of naturals.

`GfxListProofs` begins with `list.c` alone, for lists of any length. `list_remove`
finds its neighbours through pointers, `RemoveFirst` of the history finds the link
by searching a sequence; `Without(s, k, t)`, "t is s without its k-th element", is
what both have in common. `PushRepresents` and `RemoveRepresents` say what an
operation does to `Represents` on its own list, `PushUntouched` and
`RemoveUntouched` that a list with other links keeps its ends and its pointers. The
inductive invariant is `ListInv`, `~tainted => Owned /\ Linked`, beside `PoolInv`.
`Owned` is `OneOwner` with the owners' sets spelled out; without it a link pushed to
one list could be on the other. `Linked` is `ListsAgree` and what a loop is in the
middle of: a list that is being emptied is not `Represents` any more, because its
head still points to blocks that are gone; `Rest` says that the cursor and the next
pointers still chain what the history has left, and `Searching` that a search
stands on a block of the free list. An empty chain when there is no swapchain is
the last part: `swapchain_init` sets the list to zero. `GfxDeinitFreesPooled`
follows from `ListInv` step by step.

`StartupProofs`, for every number of processes. The inductive invariant has
`TypeOK`, `NullCause` and three more: `NameHeld`, the name belongs to the one
process between `shm_open` and `shm_unlink` or to one that died there; `Bound`,
past a roundtrip that was not cut all that the compositor offers is bound; and
`OwnFile`, a process has its own file or none. `PoolsPrivate` is `OwnFile` for two
processes, `RefusedCause` and `ImplementsLock` follow from `NameHeld` step by step.
They use `StartupAssumption`: `Nobody` and `Stale` are no processes.

`WindowProofs`, for every number of structs, calls and serials. The inductive
invariant is `TypeOK /\ Structs /\ Objects /\ InboxKinds /\ ~fault /\ StaleCause`.
`Structs` says that a struct is clear or what a call of `window_init` left, each
call its own; `Objects`, that the proxies are those of the structs and have their
window as data; `InboxKinds`, that the listeners of a toplevel get its events only.
`NoOrphans` follows from `Structs` and `Objects`; `TypeOK` is not immediate here,
because it says that no destroy is of NULL.

`ErrorCause` and `SameObjects` compare the two ends of a channel with requests on
it, so a second invariant, `Channel`, looks along it. `Leads(requests, a, b)` says
that there are sets of objects from `a`, the compositor's, to `b`, the client's,
each of which a request makes of the one before it. The sets are not in the state;
an existential is enough, since a request sent adds one at the end (`LeadsOn`) and a
request received takes the first away. What `Leads` leaves out is the rule on role
objects, which is the one `window_deinit` breaks; so `Leads` says that whatever the
compositor refuses is that (`ErrorCause`), and with no request under way that both
ends are equal (`SameObjects`).

`XdgShellProofs`, for every version the application may bind, whatever other objects
it has, and any number of objects and messages. Its first part compares the halves
of `XdgTables` function by function (`Matches`, `EventMatches`): name, arguments,
object made and since-number. The inductive invariant `XdgInv` carries that along
the wire. As in `Window` there is a sequence of maps of objects between what the
compositor has and what the client has (`History`), in each of which the next
request is addressed to an object of its interface and names objects of the types
it takes (`Reads`). `Numbered` says that a number is one object for ever, so that an
event that passes a destroy finds the same object or none, `OneVersion` that all
objects have the version that was bound, and `Deliverable` that an event under way
is one its object has in that version. `UnreadableCause` is part of `XdgInv`: a request
that `Reads` fits is refused, if at all, with one of the documented complaints,
none of which is about a request that cannot be read (`ReadComplaints`). `NoNullSlot` then rests on one fact about the
tables: the slots spaze leaves empty are of events newer than the version it binds.

Only model-checked: liveness under fairness, which is out of the provers' reach
(`LoopsEnd`, `PingAnswered`, `CloseQuits`). The violations of section 3 are
counterexamples of TLC and have no theorem.

## 5. Not modelled

- Of the generated header: the accessors of user data and version, which pass a
  value through to libwayland, the values of the enums and the forward
  declarations. Whether the condition of a documented error holds is decided in
  `Window` for the order of objects and the serials, and left open in `XdgShell`.
- `registry_global_remove`, which does nothing.
- The build files: they have no behaviour at run time. `mimalloc.mk` makes `malloc`
  abort instead of returning NULL (`MI_XMALLOC`), so memory that runs out is left
  out.
- The text of messages, titles and application ids.
- The composition of `EventLoop` with `Gfx`. No function of this version connects
  them: nothing attaches a buffer, so releases and resizes meet only in the
  application that has yet to be written. `Gfx` lets `BufferRelease` run between
  any two calls, which is what the dispatch of an update would do.
