--------------------------------- MODULE Gfx ----------------------------------
(***************************************************************************)
(* Shared-memory buffers of src/gfx.c: one shm_pool_s and one swapchain_s  *)
(* that takes its blocks from it, on top of the list code of LinkList.     *)
(*                                                                         *)
(* A block is a buffer of one shape (width, height, stride) carved out of  *)
(* the pool.  It is on the pool's free list, on the swapchain's chain, or  *)
(* held by the application.  The three loops of the code that walk a list  *)
(* (the search of shm_pool_allocate, the hand-over of swapchain_resize and *)
(* swapchain_deinit, the destruction of shm_pool_deinit) take one step per *)
(* iteration, the others one step per call.                                *)
(*                                                                         *)
(* The application (only shm_pool_init and _deinit have a caller in src/)  *)
(* is any single-threaded caller that passes the blocks it holds, and sets *)
(* busy on a block it attaches: no line of src/ sets that flag.            *)
(* include/spaze/gfx.h is not in the tree; the records below have the      *)
(* fields gfx.c uses.                                                      *)
(***************************************************************************)
EXTENDS LinkList, SequencesExt

CONSTANTS
  Shapes,        \* the shapes the application asks for, in units of usize_t
  PoolSize,      \* capacity given to shm_pool_init (SHM_POOL_SIZE)
  WordBits,      \* width of usize_t
  WireMax,       \* largest int32_t: what a size or an offset on the wire can be
  FreshPtr,      \* what a pointer of a block just malloc'ed may hold
  Uses,          \* what the application does besides allocating, reclaiming
                 \* and acquiring: a subset of Optional
  None           \* no shape, no buffer

Blocks == Links
Free   == "free"
Chain  == "chain"

\* n doubled k times, before any wrap
Doubled(n, k) == LET d[i \in Nat] == IF i = 0 THEN n ELSE 2 * d[i - 1] IN d[k]
Word == Doubled(1, WordBits)

\* stride * height, before any wrap, and what a swapchain compares.
Bytes == [s \in Shapes |-> s.stride * s.height]
Size(s) == << s.width, s.height >>

Optional == {"deallocate", "attach", "resize", "deinit"}

ASSUME GfxAssumption ==
  /\ Lists = {Free, Chain}
  /\ Shapes # {} /\ None \notin Shapes
  /\ \A s \in Shapes : /\ s.width \in 0 .. Word - 1
                       /\ s.height \in 0 .. Word - 1
                       /\ s.stride \in 0 .. Word - 1
  /\ WordBits \in Nat \ {0} /\ WireMax \in Nat
  /\ PoolSize \in 1 .. WireMax
  /\ 2 * (WireMax + 1) <= Word /\ Word % (2 * (WireMax + 1)) = 0
  /\ Uses \subseteq Optional
  /\ FreshPtr # {} /\ FreshPtr \subseteq {NULL, Junk}

VARIABLES
  mem,        \* the links of the blocks, the free list and the chain
  pool,       \* shm_pool_s: alive, pool_used, pool_capacity
  swapchain,  \* swapchain_s: alive and shape (its width and height)
  shape,      \* shape[b]: the shape of block b, None while b is not allocated
  busy,       \* busy[b]: the flag of the block
  call,       \* the loop in progress: op, link, next, and the shape asked for
  wl,         \* external: the compositor's pool size, buffers and their users
  \* History: what a caller is entitled to believe.
  held,       \* the blocks given to the application and not given back
  freeSeq,    \* the blocks given back to the pool, oldest first
  chainSeq,   \* the blocks given to the swapchain, oldest first
  dropped,    \* the blocks swapchain_acquire took off the chain and kept back
  tainted     \* a link that was not clean was pushed to an empty list

vars == << mem, pool, swapchain, shape, busy, call, wl,
           held, freeSeq, chainSeq, dropped, tainted >>
history == << held, freeSeq, chainSeq, dropped, tainted >>

\* Only the control state "idle" accepts a call.  "panic" is a failed assert,
\* "spin" the growth loop that never ends; the process does nothing after.
Idle == [op |-> "idle", link |-> NULL, next |-> NULL, shape |-> None]
Ops  == {"idle", "search", "resize", "unchain", "destroy", "panic", "spin"}
CanCall == call = Idle /\ ~mem.fault

InitPool == [alive |-> TRUE, used |-> 0, capacity |-> PoolSize]

Init ==
  /\ mem = [ next |-> [b \in Blocks |-> NULL], prev |-> [b \in Blocks |-> NULL],
             head |-> [l \in Lists |-> NULL],  tail |-> [l \in Lists |-> NULL],
             fault |-> FALSE ]
  /\ pool = InitPool
  /\ swapchain = [alive |-> FALSE, shape |-> None]
  /\ shape = [b \in Blocks |-> None]
  /\ busy = [b \in Blocks |-> FALSE]
  /\ call = Idle
  /\ wl = [ ok |-> TRUE, size |-> PoolSize,
            offset |-> [b \in Blocks |-> None], users |-> {} ]
  /\ held = {}
  /\ freeSeq = <<>> /\ chainSeq = <<>> /\ dropped = {} /\ tainted = FALSE

\* The step of list_for_each: link ? link->next : NULL.  Reading through a bad
\* pointer is the step LoopFaults.
Follow(f, p) == IF p \in Links THEN f[p] ELSE NULL

\* A caller believes a block to be on a list once (the second time can only
\* come about on a list that is broken already).
AppendOnce(s, b) == IF Contains(s, b) THEN s ELSE Append(s, b)

\* Pushing b to l leaves the list ill-formed: it is empty and b is not clean.
Taints(l, b) == mem.tail[l] = NULL /\ ~Clean(mem, b)

-------------------------------------------------------------------------------
(***************************************************************************)
(* The compositor's side of wl_shm_pool, external.  Sizes, offsets and the *)
(* dimensions of a buffer are 32-bit and signed on the wire: what does not *)
(* fit arrives cut.  A request that shrinks the pool, or a buffer that is  *)
(* not inside it or has no proper dimensions, is a protocol error: the     *)
(* connection is lost and the requests after it reach nobody.              *)
(***************************************************************************)
ToInt32(n) == LET r == n % (2 * (WireMax + 1))
              IN  IF r <= WireMax THEN r ELSE r - 2 * (WireMax + 1)

WlPoolResize(w, size) ==
  IF w.ok /\ size >= w.size THEN [w EXCEPT !.size = size]
                            ELSE [w EXCEPT !.ok = FALSE]

\* The bytes of a shape as the compositor reads it, and whether they make a
\* buffer at all.
WireBytes(s) == ToInt32(s.stride) * ToInt32(s.height)

Acceptable(s) ==
  /\ ToInt32(s.width) > 0 /\ ToInt32(s.height) > 0
  /\ ToInt32(s.width) <= ToInt32(s.stride)
  /\ WireBytes(s) <= WireMax

WlCreateBuffer(w, b, offset, s) ==
  [w EXCEPT !.offset[b] = offset,
            !.ok = /\ @ /\ Acceptable(s)
                   /\ offset >= 0 /\ offset + WireBytes(s) <= w.size]

WlDestroyBuffer(w, b) ==
  [w EXCEPT !.offset[b] = None, !.users = @ \ {b}]

-------------------------------------------------------------------------------
(***************************************************************************)
(* shm_pool_allocate                                                       *)
(***************************************************************************)

\* The loop starts at the tail of the free list.
AllocateBegin(s) ==
  /\ CanCall /\ pool.alive
  /\ call' = [op |-> "search", link |-> mem.tail[Free],
              next |-> Follow(mem.prev, mem.tail[Free]), shape |-> s]
  /\ UNCHANGED << mem, pool, swapchain, shape, busy, wl, history >>

AllocateSkip ==
  /\ call.op = "search" /\ ~mem.fault
  /\ call.link \in Blocks /\ shape[call.link] # call.shape
  /\ call' = [call EXCEPT !.link = call.next,
                          !.next = Follow(mem.prev, call.next)]
  /\ UNCHANGED << mem, pool, swapchain, shape, busy, wl, history >>

\* Mutant: the block found is not taken off the free list.
AllocateReuseKeeps ==
  /\ call.op = "search" /\ ~mem.fault
  /\ call.link \in Blocks /\ shape[call.link] = call.shape
  /\ call' = Idle
  /\ held' = held \union {call.link}
  /\ UNCHANGED << mem, pool, swapchain, shape, busy, wl,
                  freeSeq, chainSeq, dropped, tainted >>

AllocateReuse ==
  /\ call.op = "search" /\ ~mem.fault
  /\ call.link \in Blocks /\ shape[call.link] = call.shape
  /\ mem' = ListRemove(mem, Free, call.link)
  /\ call' = Idle
  /\ held' = held \union {call.link}
  /\ freeSeq' = RemoveFirst(freeSeq, call.link)
  /\ UNCHANGED << pool, swapchain, shape, busy, wl, chainSeq, dropped, tainted >>

\* Mutant: the end of the last byte, not the one past it.
EndShort(req) == (pool.used + req - 1) % Word

\* shm_pool_needs_grow, with the sum as usize_t computes it
End(req) == (pool.used + req) % Word
NeedsGrow(req) == End(req) > pool.capacity

\* The doublings after which shm_pool_new_capacity's value is enough: the loop
\* leaves at the first one, and never when there is none (the value becomes 0).
Capacity(k) == Doubled(pool.capacity, k) % Word
EnoughStrict(req) == { k \in 1 .. WordBits : Capacity(k) > End(req) }  \* mutant: <=
Enough(req) == { k \in 1 .. WordBits : Capacity(k) >= End(req) }
NewCapacityOnce(req) == Capacity(1)  \* mutant: one doubling, no loop
NewCapacity(req) ==
  Capacity(CHOOSE k \in Enough(req) : \A j \in Enough(req) : k <= j)

Missed == /\ call.op = "search" /\ ~mem.fault
          /\ call.link = NULL

Request == Bytes[call.shape] % Word

\* wl_shm_pool_create_buffer, then a block from malloc with its link unset.
CreateBuffer(w, capacity) ==
  \E b \in Blocks, n, p \in FreshPtr :
    /\ shape[b] = None
    /\ wl' = WlCreateBuffer(w, b, ToInt32(pool.used), call.shape)
    /\ pool' = [pool EXCEPT !.used = End(Request), !.capacity = capacity]
    /\ shape' = [shape EXCEPT ![b] = call.shape]
    /\ busy' = [busy EXCEPT ![b] = FALSE]
    /\ mem' = [mem EXCEPT !.next[b] = n, !.prev[b] = p]
    /\ held' = held \union {b}
    /\ call' = Idle
    /\ UNCHANGED << swapchain, freeSeq, chainSeq, dropped, tainted >>

AllocateInPlace ==
  /\ Missed /\ ~NeedsGrow(Request)
  /\ CreateBuffer(wl, pool.capacity)

AllocateGrow ==
  /\ Missed /\ NeedsGrow(Request) /\ Enough(Request) # {}
  /\ LET new == NewCapacity(Request)
     IN  CreateBuffer(WlPoolResize(wl, ToInt32(new)), new)

\* ftruncate or mmap refuses: nothing changes and the caller gets NULL.
AllocateGrowFails ==
  /\ Missed /\ NeedsGrow(Request) /\ Enough(Request) # {}
  /\ call' = Idle
  /\ UNCHANGED << mem, pool, swapchain, shape, busy, wl, history >>

\* wl_shm_pool_create_buffer returns NULL after the pool may have grown.
AllocateBufferFails ==
  /\ Missed
  /\ \/ ~NeedsGrow(Request) /\ UNCHANGED << pool, wl >>
     \/ /\ NeedsGrow(Request) /\ Enough(Request) # {}
        /\ pool' = [pool EXCEPT !.capacity = NewCapacity(Request)]
        /\ wl' = WlPoolResize(wl, ToInt32(NewCapacity(Request)))
  /\ call' = Idle
  /\ UNCHANGED << mem, swapchain, shape, busy, history >>

AllocateSpins ==
  /\ Missed /\ NeedsGrow(Request) /\ Enough(Request) = {}
  /\ call' = [call EXCEPT !.op = "spin"]
  /\ UNCHANGED << mem, pool, swapchain, shape, busy, wl, history >>

-------------------------------------------------------------------------------
(***************************************************************************)
(* swapchain_init, and the calls that move one block between a list and    *)
(* the application.                                                        *)
(***************************************************************************)
SwapchainInit(s) ==
  /\ CanCall /\ ~swapchain.alive
  /\ mem' = Zeroed(mem, Chain)
  /\ swapchain' = [alive |-> TRUE, shape |-> s]
  /\ UNCHANGED << pool, shape, busy, call, wl, history >>

\* shm_pool_deallocate, which does not ask whether the pool is alive.
Deallocate(b) ==
  /\ CanCall /\ "deallocate" \in Uses /\ b \in held
  /\ mem' = ListPush(mem, Free, b)
  /\ tainted' = (tainted \/ Taints(Free, b))
  /\ held' = held \ {b}
  /\ freeSeq' = AppendOnce(freeSeq, b)
  /\ UNCHANGED << pool, swapchain, shape, busy, call, wl, chainSeq, dropped >>

\* swapchain_reclaim.  It does not ask whether the swapchain is alive either;
\* the application is one that does not use a swapchain it has deinit'ed.
Reclaim(b) ==
  /\ CanCall /\ swapchain.alive /\ b \in held
  /\ mem' = ListPush(mem, Chain, b)
  /\ tainted' = (tainted \/ Taints(Chain, b))
  /\ held' = held \ {b}
  /\ chainSeq' = AppendOnce(chainSeq, b)
  /\ UNCHANGED << pool, swapchain, shape, busy, call, wl, freeSeq, dropped >>

\* Mutant: no assert, an empty chain gives the application a null block.
AcquireEmptyUnchecked ==
  /\ CanCall /\ swapchain.alive
  /\ ListFront(mem, Chain) = NULL
  /\ held' = held \union {NULL}
  /\ UNCHANGED << mem, pool, swapchain, shape, busy, call, wl,
                  freeSeq, chainSeq, dropped, tainted >>

\* swapchain_acquire pops the front of the chain before it looks at it: the
\* assert fails on an empty chain, and a busy block is neither returned nor
\* put back.
AcquireEmpty ==
  /\ CanCall /\ swapchain.alive
  /\ ListFront(mem, Chain) = NULL
  /\ call' = [Idle EXCEPT !.op = "panic"]
  /\ UNCHANGED << mem, pool, swapchain, shape, busy, wl, history >>

AcquireBusy ==
  /\ CanCall /\ swapchain.alive
  /\ LET b == ListFront(mem, Chain)
     IN  /\ b \in Blocks /\ busy[b]
         /\ chainSeq' = RemoveFirst(chainSeq, b)
         /\ dropped' = dropped \union {b}
  /\ mem' = ListPopFront(mem, Chain)
  /\ UNCHANGED << pool, swapchain, shape, busy, call, wl, held, freeSeq, tainted >>

\* Mutant: the flag is not looked at.
AcquireUnchecked ==
  /\ CanCall /\ swapchain.alive
  /\ LET b == ListFront(mem, Chain)
     IN  /\ b \in Blocks
         /\ chainSeq' = RemoveFirst(chainSeq, b)
         /\ held' = held \union {b}
  /\ mem' = ListPopFront(mem, Chain)
  /\ UNCHANGED << pool, swapchain, shape, busy, call, wl, freeSeq, dropped, tainted >>

Acquire ==
  /\ CanCall /\ swapchain.alive
  /\ LET b == ListFront(mem, Chain)
     IN  /\ b \in Blocks /\ ~busy[b]
         /\ chainSeq' = RemoveFirst(chainSeq, b)
         /\ held' = held \union {b}
  /\ mem' = ListPopFront(mem, Chain)
  /\ UNCHANGED << pool, swapchain, shape, busy, call, wl, freeSeq, dropped, tainted >>

-------------------------------------------------------------------------------
(***************************************************************************)
(* swapchain_resize and swapchain_deinit hand every block of the chain to  *)
(* the pool; list_for_each reads the next link before the body moves the   *)
(* current one.                                                            *)
(***************************************************************************)
HandOver(op, s) ==
  /\ CanCall /\ swapchain.alive
  /\ call' = [op |-> op, link |-> mem.head[Chain],
              next |-> Follow(mem.next, mem.head[Chain]), shape |-> s]
  /\ UNCHANGED << mem, pool, swapchain, shape, busy, wl, history >>

ResizeBegin(s) ==
  /\ "resize" \in Uses /\ swapchain.alive /\ Size(s) # Size(swapchain.shape)
  /\ HandOver("resize", s)

SwapchainDeinitBegin ==
  "deinit" \in Uses /\ HandOver("unchain", swapchain.shape)

\* Mutant: the next link is read after the block has moved.
HandOverBlockLate ==
  /\ call.op \in {"resize", "unchain"} /\ ~mem.fault
  /\ call.link \in Blocks
  /\ mem' = ListPush(mem, Free, call.link)
  /\ tainted' = (tainted \/ Taints(Free, call.link))
  /\ call' = [call EXCEPT !.link = Follow(mem'.next, call.link),
                          !.next = Follow(mem'.next, Follow(mem'.next, call.link))]
  /\ chainSeq' = RemoveFirst(chainSeq, call.link)
  /\ freeSeq' = AppendOnce(freeSeq, call.link)
  /\ UNCHANGED << pool, swapchain, shape, busy, wl, held, dropped >>

HandOverBlock ==
  /\ call.op \in {"resize", "unchain"} /\ ~mem.fault
  /\ call.link \in Blocks
  /\ mem' = ListPush(mem, Free, call.link)
  /\ tainted' = (tainted \/ Taints(Free, call.link))
  /\ call' = [call EXCEPT !.link = call.next,
                          !.next = Follow(mem'.next, call.next)]
  /\ chainSeq' = RemoveFirst(chainSeq, call.link)
  /\ freeSeq' = AppendOnce(freeSeq, call.link)
  /\ UNCHANGED << pool, swapchain, shape, busy, wl, held, dropped >>

HandOverEnd ==
  /\ call.op \in {"resize", "unchain"} /\ ~mem.fault
  /\ call.link = NULL
  /\ mem' = Zeroed(mem, Chain)
  /\ swapchain' = [alive |-> call.op = "resize", shape |-> call.shape]
  /\ call' = Idle
  /\ UNCHANGED << pool, shape, busy, wl, history >>

-------------------------------------------------------------------------------
(***************************************************************************)
(* shm_pool_deinit destroys the blocks of the free list and no others.     *)
(***************************************************************************)
\* Mutant: the loop starts at the wrong end.
PoolDeinitBeginAtTail ==
  /\ CanCall /\ "deinit" \in Uses /\ pool.alive
  /\ call' = [op |-> "destroy", link |-> mem.tail[Free],
              next |-> Follow(mem.next, mem.tail[Free]), shape |-> None]
  /\ UNCHANGED << mem, pool, swapchain, shape, busy, wl, history >>

PoolDeinitBegin ==
  /\ CanCall /\ "deinit" \in Uses /\ pool.alive
  /\ call' = [op |-> "destroy", link |-> mem.head[Free],
              next |-> Follow(mem.next, mem.head[Free]), shape |-> None]
  /\ UNCHANGED << mem, pool, swapchain, shape, busy, wl, history >>

\* Mutant: the block is freed and its wl_buffer is not destroyed.
DestroyBlockOnly ==
  /\ call.op = "destroy" /\ ~mem.fault
  /\ call.link \in Blocks
  /\ shape' = [shape EXCEPT ![call.link] = None]
  /\ call' = [call EXCEPT !.link = call.next, !.next = Follow(mem.next, call.next)]
  /\ freeSeq' = RemoveFirst(freeSeq, call.link)
  /\ UNCHANGED << mem, pool, swapchain, busy, wl, held, chainSeq, dropped, tainted >>

\* Reading a block that the loop has freed already is a fault.
DestroyBlock ==
  /\ call.op = "destroy" /\ ~mem.fault
  /\ call.link \in Blocks
  /\ IF shape[call.link] = None
     THEN mem' = Fault(mem) /\ UNCHANGED << shape, wl, call, freeSeq >>
     ELSE /\ wl' = WlDestroyBuffer(wl, call.link)
          /\ shape' = [shape EXCEPT ![call.link] = None]
          /\ call' = [call EXCEPT !.link = call.next,
                                  !.next = Follow(mem.next, call.next)]
          /\ freeSeq' = RemoveFirst(freeSeq, call.link)
          /\ UNCHANGED mem
  /\ UNCHANGED << pool, swapchain, busy, held, chainSeq, dropped, tainted >>

PoolDeinitEnd ==
  /\ call.op = "destroy" /\ ~mem.fault
  /\ call.link = NULL
  /\ mem' = Zeroed(mem, Free)
  /\ pool' = [alive |-> FALSE, used |-> 0, capacity |-> 0]
  /\ call' = Idle
  /\ UNCHANGED << swapchain, shape, busy, wl, history >>

\* Any of the three loops reads through a pointer that leads nowhere.
LoopFaults ==
  /\ call.op \in {"search", "resize", "unchain", "destroy"} /\ ~mem.fault
  /\ call.link = Junk
  /\ mem' = Fault(mem)
  /\ UNCHANGED << pool, swapchain, shape, busy, call, wl, history >>

-------------------------------------------------------------------------------
(***************************************************************************)
(* The application and the compositor.                                     *)
(***************************************************************************)

\* External: the application draws in a block it holds and attaches it.
Attach(b) ==
  /\ CanCall /\ "attach" \in Uses /\ b \in held /\ wl.ok /\ wl.offset[b] # None
  /\ busy' = [busy EXCEPT ![b] = TRUE]
  /\ wl' = [wl EXCEPT !.users = @ \union {b}]
  /\ UNCHANGED << mem, pool, swapchain, shape, call, history >>

\* buffer_release: dispatched by the event loop, so between two calls, and only
\* for a wl_buffer that still exists.
BufferRelease(b) ==
  /\ CanCall /\ wl.ok /\ b \in wl.users
  /\ busy' = [busy EXCEPT ![b] = FALSE]
  /\ wl' = [wl EXCEPT !.users = @ \ {b}]
  /\ UNCHANGED << mem, pool, swapchain, shape, call, history >>

-------------------------------------------------------------------------------

Search ==
  \/ AllocateSkip \/ AllocateReuse
  \/ AllocateInPlace \/ AllocateGrow
  \/ AllocateGrowFails \/ AllocateBufferFails \/ AllocateSpins

\* The steps the code takes by itself once a call has begun.
Run == Search \/ HandOverBlock \/ HandOverEnd
              \/ DestroyBlock \/ PoolDeinitEnd \/ LoopFaults

Next ==
  \/ \E s \in Shapes : AllocateBegin(s) \/ SwapchainInit(s) \/ ResizeBegin(s)
  \/ \E b \in Blocks : Deallocate(b) \/ Reclaim(b) \/ Attach(b) \/ BufferRelease(b)
  \/ Acquire \/ AcquireBusy \/ AcquireEmpty
  \/ SwapchainDeinitBegin \/ PoolDeinitBegin
  \/ Run

Spec == Init /\ [][Next]_vars

\* A call that has begun goes on: nothing else runs on the only thread.
FairSpec == Spec /\ WF_vars(Run)

-------------------------------------------------------------------------------
(***************************************************************************)
(* Properties.  "Untainted" is the condition they share: so far, no link   *)
(* with a stale pointer was pushed to an empty list.                       *)
(***************************************************************************)

\* The values the variables may have, in whatever state the lists are.
TypeOK ==
  /\ mem \in Memory
  /\ pool \in [alive : BOOLEAN, used : 0 .. Word - 1, capacity : 0 .. Word - 1]
  /\ swapchain \in [alive : BOOLEAN, shape : Shapes \union {None}]
  /\ shape \in [Blocks -> Shapes \union {None}]
  /\ busy \in [Blocks -> BOOLEAN]
  /\ call \in [op : Ops, link : Ptr, next : Ptr, shape : Shapes \union {None}]
  /\ wl \in [ ok : BOOLEAN, size : Nat,
              offset : [Blocks -> Int \union {None}], users : SUBSET Blocks ]
  /\ held \subseteq Blocks /\ dropped \subseteq Blocks
  /\ freeSeq \in Seq(Blocks) /\ chainSeq \in Seq(Blocks)
  /\ tainted \in BOOLEAN

Allocated == { b \in Blocks : shape[b] # None }

\* The free list and the chain are the sequences of blocks the calls so far put
\* there, linked consistently in both directions, and no pointer led astray:
\* list_push and list_remove keep two lists apart although the same links move
\* between them and nobody clears a link.  (A list is only exempt while the
\* loop that empties it has not reached its end.)
ListsAgree ==
  ~tainted =>
    /\ ~mem.fault
    /\ call.op # "destroy" => Represents(mem, Free, freeSeq)
    /\ call.op \notin {"resize", "unchain"} => Represents(mem, Chain, chainSeq)

\* Every allocated block has one owner: the application, the free list, the
\* chain, or nobody because swapchain_acquire found it busy and dropped it.
OneOwner ==
  ~tainted =>
    LET owners == << held, Range(freeSeq), Range(chainSeq), dropped >>
    IN  /\ \A i, j \in 1 .. 4 : i # j => owners[i] \cap owners[j] = {}
        /\ Allocated = UNION { owners[i] : i \in 1 .. 4 }

\* As the compositor understands the requests, cut dimensions and all: two live
\* buffers never share a byte, and all lie inside its pool, which is no larger
\* than the client's mapping (and as large, unless that has left int32_t), as
\* long as it has not refused a request; however much the lists are broken.
BuffersDisjoint ==
  LET Live == { b \in Blocks : wl.offset[b] # None }
      Past(b) == wl.offset[b] + WireBytes(shape[b])
  IN  wl.ok =>
        /\ \A a, b \in Live :
             a # b => Past(a) <= wl.offset[b] \/ Past(b) <= wl.offset[a]
        /\ \A b \in Live : Past(b) <= wl.size
        /\ pool.alive => wl.size <= pool.capacity
        /\ pool.alive /\ pool.capacity <= WireMax => wl.size = pool.capacity

\* A shape that a compositor can take, whole.
Proper(s) ==
  s.width \in 1 .. s.stride /\ s.height >= 1 /\ Bytes[s] <= WireMax

\* The compositor refuses a request of the pool only after the capacity left
\* int32_t, or for a shape that is not proper.  (shm_pool_deinit frees that
\* buffer's block before the pool is gone.)
RefusalCause ==
  ~wl.ok /\ pool.alive /\ call.op # "destroy" =>
    \/ pool.capacity > WireMax
    \/ \E b \in Allocated : ~Proper(shape[b])

\* The growth loop of shm_pool_allocate ends whenever the pool has to grow to no
\* more than half the range of usize_t.
GrowthEnds ==
  call.op = "spin" => End(Request) > Word \div 2

\* A release event finds its block: what the compositor still uses is allocated
\* and marked busy, also while the pool is torn down.
ReleaseFindsBlock ==
  \A b \in wl.users : shape[b] # None /\ busy[b]

\* The swapchain never gives the application a block to draw in that the
\* compositor still reads, and neither does a new buffer (the search has come to
\* the end of the list then): only a block that the search of shm_pool_allocate
\* stands on, because that loop does not look at busy.
InUseOnlyFromPool ==
  [][ \A b \in held' \ held :
        b \in wl.users => call.op = "search" /\ call.link = b ]_vars

\* shm_pool_deinit leaves only what the pool does not have: the blocks that the
\* application or the swapchain still has, and the dropped ones.
DeinitFreesPooled ==
  [][ pool.alive /\ ~pool'.alive /\ ~tainted =>
        \A b \in Blocks :
          shape'[b] # None \/ wl'.offset[b] # None =>
            b \in held \union dropped \union Range(chainSeq) ]_vars

\* A loop over a list that begins while no list is tainted comes to its end (or,
\* for the search, to the growth loop), also when its own pushes taint the list
\* it hands the blocks to.
LoopsEnd ==
  (call.op \in {"search", "resize", "unchain", "destroy"} /\ ~tainted)
    ~> call.op \in {"idle", "spin"}

\* assert_notnull(block) of swapchain_acquire, for an application that takes no
\* more blocks out than it put in: the assert does not fail while a block that
\* was reclaimed has come back neither to the application nor to the pool.
AcquireAssertHolds ==
  call.op = "panic" =>
    Range(chainSeq) \union dropped \subseteq held \union Range(freeSeq)

===============================================================================
