----------------------------- MODULE QxlRelease -----------------------------
(***************************************************************************)
(* The way back: how the QXL device returns the memory of commands.        *)
(*                                                                         *)
(* The worker thread threads released blocks into a chain through their    *)
(* release_info, in guest memory, and publishes whole chains on the        *)
(* release ring.  A driver out of memory writes the OOM port; QEMU's main  *)
(* thread passes that on to the worker unless an OOM message is pending.   *)
(* Each step is one access to memory that another actor uses, with the     *)
(* private work around it.                                                 *)
(*                                                                         *)
(* How commands reach the worker, and how an interrupt reaches the driver, *)
(* is the subject of QxlRings: here both are single steps.  Only display   *)
(* commands are modelled; a cursor's block comes back the same way, when   *)
(* the next cursor is set.  A drawable that was sent with GLZ compression  *)
(* stays in the dictionary of the display channel, and so does its block.  *)
(*                                                                         *)
(* Sources: ioemu-qemu-xen/hw/qxl.c, spice/server/red_dispatcher.c and     *)
(* red_worker.c.  The driver is not in the repository.                     *)
(***************************************************************************)
EXTENDS Integers, Sequences, FiniteSets

CONSTANTS
    Res,           \* blocks of guest memory, each holding one command
    Nil,           \* the null id
    ReleaseItems,  \* num_items of the release ring
    IdxMod,        \* 2^32: ring indices are uint32_t
    BunchSize,     \* QXL_FREE_BUNCH_SIZE
    ReleaseBunch   \* RED_RELEASE_BUNCH_SIZE

ASSUME NilAssumption  == Nil \notin Res /\ IsFiniteSet(Res)
ASSUME SizeAssumption ==
    /\ ReleaseItems \in Nat \ {0, 1} /\ IdxMod \in Nat
    /\ ReleaseItems < IdxMod /\ IdxMod % ReleaseItems = 0
    /\ BunchSize \in Nat /\ ReleaseBunch \in Nat \ {0}

VARIABLES
    release,       \* the release ring: header and items
    info,          \* info[x]: release_info of x, a union of its id and the next id
    last_release,  \* the last block of the chain being built
    num_free_res,  \* its length
    oom_running,   \* set around the call that sends the OOM message
    pending,       \* whether the OOM bit of dispatcher->pending is set
    channel,       \* number of OOM messages on the way to the worker
    queued,        \* blocks on the command ring
    tree,          \* blocks that the worker still needs for drawing
    piped,         \* blocks that wait in the client's pipe
    glz,           \* blocks with a RedGlzDrawable, in the GLZ dictionary
    w,             \* the worker thread
    m,             \* the main thread: its place in the OOM port write
    told,          \* whether a display interrupt waits for the driver
    free,          \* blocks that the driver may use
    g              \* the driver

relVars == <<release, info, last_release, num_free_res>>
msgVars == <<oom_running, pending, channel>>
useVars == <<queued, tree, piped, glz>>
vars == <<release, info, last_release, num_free_res, oom_running, pending,
          channel, queued, tree, piped, glz, w, m, told, free, g>>

-----------------------------------------------------------------------------
Index == 0 .. IdxMod - 1
\* Mutant: indices wider than 32 bits.
Succ_NoWrap(i) == i + 1

Succ(i) == (i + 1) % IdxMod

Used == (release.prod - release.cons) % IdxMod
IsEmpty == release.cons = release.prod

ProdItem == release.prod % ReleaseItems

\* init_qxl_ram
Init ==
    /\ release = [prod |-> 0, cons |-> 0, notify_on_prod |-> 1,
                  items |-> [i \in 0 .. ReleaseItems - 1 |-> Nil]]
    /\ info = [x \in Res |-> x]
    /\ last_release = Nil /\ num_free_res = 0
    /\ oom_running = FALSE /\ pending = FALSE /\ channel = 0
    /\ queued = {} /\ tree = {} /\ piped = {} /\ glz = {}
    /\ w = [pc |-> "loop", rels |-> {}, ret |-> "loop", flush |-> FALSE]
    /\ m = "idle"
    /\ told = FALSE /\ free = Res
    /\ g = [pc |-> "idle", x |-> Nil, tmp |-> 0]

-----------------------------------------------------------------------------
\* The guest driver (external).

\* It puts a command in a free block and the block on the command ring.
DrvSubmit(x) ==
    /\ g.pc = "idle" /\ x \in free
    /\ free' = free \ {x}
    /\ queued' = queued \cup {x}
    /\ UNCHANGED <<relVars, msgVars, tree, piped, glz, w, m, told, g>>

\* It pops one chain of the release ring, ...
DrvPop ==
    /\ g.pc \in {"idle", "need"} /\ ~IsEmpty
    /\ g' = [g EXCEPT !.pc = "walk", !.x = release.items[release.cons % ReleaseItems]]
    /\ release' = [release EXCEPT !.cons = Succ(release.cons)]
    /\ UNCHANGED <<info, last_release, num_free_res, msgVars, useVars, w, m,
                   told, free>>

\* ... and frees its blocks one by one; a free block holds its own id again.
DrvWalk ==
    /\ g.pc = "walk"
    /\ \/ /\ g.x # Nil
          /\ free' = free \cup {g.x}
          /\ info' = [info EXCEPT ![g.x] = g.x]
          /\ g' = [g EXCEPT !.x = info[g.x]]
       \/ g.x = Nil /\ g' = [g EXCEPT !.pc = "idle"] /\ UNCHANGED <<info, free>>
    /\ UNCHANGED <<release, last_release, num_free_res, msgVars, useVars, w, m, told>>

\* Out of memory with an empty release ring: it asks for an interrupt
\* (SPICE_RING_CONS_WAIT), writes the OOM port, sleeps until the interrupt
\* or for a while, and tries again.
DrvOutOfMemory ==
    /\ \/ /\ g.pc = "idle" /\ free = {}
          /\ g' = [g EXCEPT !.pc = "need"] /\ UNCHANGED <<release, m, told>>
       \/ /\ g.pc = "need" /\ IsEmpty
          /\ g' = [g EXCEPT !.pc = "arm", !.tmp = Succ(release.prod)]
          /\ UNCHANGED <<release, m, told>>
       \/ /\ g.pc = "arm"
          /\ release' = [release EXCEPT !.notify_on_prod = g.tmp]
          /\ g' = [g EXCEPT !.pc = "retest", !.tmp = 0]
          /\ UNCHANGED <<m, told>>
       \/ /\ g.pc = "retest" /\ ~IsEmpty
          /\ g' = [g EXCEPT !.pc = "need"] /\ UNCHANGED <<release, m, told>>
       \/ /\ g.pc = "retest" /\ IsEmpty
          /\ m' = "port" /\ g' = [g EXCEPT !.pc = "io"] /\ UNCHANGED <<release, told>>
       \/ /\ g.pc = "io" /\ m = "idle"
          /\ g' = [g EXCEPT !.pc = "sleep"] /\ UNCHANGED <<release, m, told>>
       \/ /\ g.pc = "sleep"
          /\ told' = FALSE /\ g' = [g EXCEPT !.pc = "need"] /\ UNCHANGED <<release, m>>
    /\ UNCHANGED <<info, last_release, num_free_res, msgVars, useVars, w, free>>

Driver == DrvPop \/ DrvWalk \/ DrvOutOfMemory

-----------------------------------------------------------------------------
\* QXL_IO_NOTIFY_OOM in the main thread: look at the release ring, yield,
\* look again, and send the message with oom_running set.
IoOom ==
    /\ \/ /\ m \in {"port", "yielded"} /\ ~IsEmpty
          /\ m' = "idle" /\ UNCHANGED msgVars
       \/ /\ m = "port" /\ IsEmpty
          /\ m' = "yielded" /\ UNCHANGED msgVars
       \/ /\ m = "yielded" /\ IsEmpty
          /\ oom_running' = TRUE /\ m' = "send" /\ UNCHANGED <<pending, channel>>
       \/ /\ m = "send"
          /\ pending' = TRUE
          /\ channel' = IF pending THEN channel ELSE channel + 1
          /\ m' = "sent" /\ UNCHANGED oom_running
       \/ /\ m = "sent"
          /\ oom_running' = FALSE /\ m' = "idle" /\ UNCHANGED <<pending, channel>>
    /\ UNCHANGED <<relVars, useVars, w, told, free, g>>

-----------------------------------------------------------------------------
\* The worker thread.

\* Mutant: a block is released although the dictionary refers to it.
Unreferenced_NoGlz(S) == S \ (tree' \cup piped')

\* release_drawable and red_display_free_glz_drawable_instance: whichever of
\* the Drawable and its RedGlzDrawable goes last releases the block.
Unreferenced(S) == S \ (tree' \cup piped' \cup glz')

\* The worker goes on to release the blocks of S that nobody needs any more.
ReleaseOf(S, ret) ==
    w' = [w EXCEPT !.rels = Unreferenced(S), !.ret = ret, !.pc = "release"]

\* A command is taken and drawn, kept for drawing later, queued for the
\* client, or dropped; drawables that it covers, or needs drawn, leave the
\* tree, the covered ones also the pipe.
Process ==
    /\ w.pc \in {"loop", "oom"}
    /\ \E x \in queued, kept \in BOOLEAN, shown \in BOOLEAN, gone \in SUBSET tree :
       \E covered \in SUBSET (gone \cap piped) :
         /\ queued' = queued \ {x}
         /\ tree' = (tree \ gone) \cup (IF kept THEN {x} ELSE {})
         /\ piped' = (piped \ covered) \cup (IF shown THEN {x} ELSE {})
         /\ UNCHANGED glz
         /\ ReleaseOf(gone \cup {x}, w.pc)
    /\ UNCHANGED <<relVars, msgVars, m, told, free, g>>

\* display_channel_push: what is sent leaves the pipe.  Its images may be
\* encoded with the dictionary, which then keeps them and drops older ones.
Push ==
    /\ w.pc \in {"loop", "oom"}
    /\ piped # {}
    /\ \E sent \in SUBSET piped :
         /\ sent # {}
         /\ piped' = piped \ sent
         /\ glz' \in SUBSET (glz \cup sent)
         /\ UNCHANGED <<queued, tree>>
         /\ ReleaseOf(sent \cup glz, w.pc)
    /\ UNCHANGED <<relVars, msgVars, m, told, free, g>>

\* red_update_area and other requests draw what is in the tree.
Draw ==
    /\ w.pc = "loop" /\ tree # {}
    /\ \E done \in SUBSET tree :
         /\ done # {}
         /\ tree' = tree \ done
         /\ UNCHANGED <<queued, piped, glz>>
         /\ ReleaseOf(done, "loop")
    /\ UNCHANGED <<relVars, msgVars, m, told, free, g>>

\* The worker's loop frees what another channel's encoder dropped from the
\* dictionary; a reset, a stop or a disconnect clears the dictionary.
FreeGlz ==
    /\ w.pc = "loop" /\ glz # {}
    /\ \E out \in SUBSET glz :
         /\ out # {}
         /\ glz' = glz \ out
         /\ UNCHANGED <<queued, tree, piped>>
         /\ ReleaseOf(out, "loop")
    /\ UNCHANGED <<relVars, msgVars, m, told, free, g>>

\* qxl_push_free_res: whether a chain of n blocks is published now.
Publish(n, flush) ==
    /\ Used + 1 # ReleaseItems
    /\ flush \/ (~oom_running /\ n >= BunchSize)

\* interface_release_resource: the block heads a chain or joins its end.
ReleaseResource ==
    /\ w.pc = "release"
    /\ \E x \in w.rels :
         /\ IF release.items[ProdItem] = Nil
            THEN /\ release' = [release EXCEPT !.items[ProdItem] = info[x]]
                 /\ info' = [info EXCEPT ![x] = Nil]
            ELSE /\ info' = [info EXCEPT ![last_release] = info[x], ![x] = Nil]
                 /\ UNCHANGED release
         /\ last_release' = x
         /\ num_free_res' = num_free_res + 1
         /\ w' = [w EXCEPT !.rels = w.rels \ {x},
                           !.pc = IF Publish(num_free_res + 1, FALSE)
                                  THEN "publish" ELSE "release"]
    /\ UNCHANGED <<msgVars, useVars, m, told, free, g>>

Released ==
    /\ w.pc = "release" /\ w.rels = {}
    /\ w' = [w EXCEPT !.pc = w.ret, !.ret = "loop"]
    /\ UNCHANGED <<relVars, msgVars, useVars, m, told, free, g>>

\* SPICE_RING_PUSH on the release ring: store prod, ...
PushFreeRes ==
    /\ w.pc = "publish"
    /\ release' = [release EXCEPT !.prod = Succ(release.prod)]
    /\ w' = [w EXCEPT !.pc = "published"]
    /\ UNCHANGED <<info, last_release, num_free_res, msgVars, useVars, m, told,
                   free, g>>

\* Mutant: notify_on_prod is compared with the index before it advanced.
PushNotify_Old ==
    /\ w.pc = "published"
    /\ told' = (told \/ release.prod = Succ(release.notify_on_prod))
    /\ w' = [w EXCEPT !.pc = "slot"]
    /\ UNCHANGED <<relVars, msgVars, useVars, m, free, g>>

\* ... interrupt a driver that waits for memory, ...
PushNotify ==
    /\ w.pc = "published"
    /\ told' = (told \/ release.prod = release.notify_on_prod)
    /\ w' = [w EXCEPT !.pc = "slot"]
    /\ UNCHANGED <<relVars, msgVars, useVars, m, free, g>>

\* Mutant: the count goes on from the published chain.
PushSlot_KeepCount ==
    /\ w.pc = "slot"
    /\ release' = [release EXCEPT !.items[ProdItem] = Nil]
    /\ last_release' = Nil
    /\ w' = [w EXCEPT !.pc = IF w.flush THEN "oomdone" ELSE "release"]
    /\ UNCHANGED <<info, num_free_res, msgVars, useVars, m, told, free, g>>

\* ... and start an empty chain in the next slot.
PushSlot ==
    /\ w.pc = "slot"
    /\ release' = [release EXCEPT !.items[ProdItem] = Nil]
    /\ num_free_res' = 0
    /\ last_release' = Nil
    /\ w' = [w EXCEPT !.pc = IF w.flush THEN "oomdone" ELSE "release"]
    /\ UNCHANGED <<info, msgVars, useVars, m, told, free, g>>

\* handle_dev_input, OOM: the commands are processed first, ...
HandleOom ==
    /\ w.pc = "loop" /\ channel > 0
    /\ channel' = channel - 1
    /\ w' = [w EXCEPT !.pc = "oom"]
    /\ UNCHANGED <<relVars, oom_running, pending, useVars, m, told, free, g>>

\* ... until none is left or the client's pipe is too long; ...
OomProcessed ==
    /\ w.pc = "oom" /\ (queued = {} \/ piped # {})
    /\ w' = [w EXCEPT !.pc = "flush"]
    /\ UNCHANGED <<relVars, msgVars, useVars, m, told, free, g>>

\* Mutant: what only the dictionary refers to is not freed.
FreeSome_TreeOnly(some, old) ==
    /\ some = {}
    /\ old \subseteq tree /\ Cardinality(old) <= ReleaseBunch
    /\ old = tree \/ Cardinality(old) = ReleaseBunch
    /\ glz' = glz \ old
    /\ tree' = tree \ old
    /\ UNCHANGED <<queued, piped>>
    /\ ReleaseOf(old, "flushagain")

\* red_free_some: drawables that only the dictionary refers to go first, then
\* the oldest of the tree are drawn and taken out of the dictionary too,
\* ReleaseBunch in all.
FreeSome(some, old) ==
    LET independent == glz \ (tree \cup piped)
        n           == Cardinality(some)
    IN /\ some \subseteq independent /\ n <= ReleaseBunch
       /\ some = independent \/ n = ReleaseBunch
       /\ old \subseteq tree /\ n + Cardinality(old) <= ReleaseBunch
       /\ old = tree \/ n + Cardinality(old) = ReleaseBunch
       /\ glz' = glz \ (some \cup old)
       /\ tree' = tree \ old
       /\ UNCHANGED <<queued, piped>>
       /\ ReleaseOf(some \cup old, "flushagain")

\* ... then the chain is flushed; without one, what red_free_some releases is.
FlushResources ==
    /\ w.pc \in {"flush", "flushagain"}
    /\ \/ /\ num_free_res # 0
          /\ w' = IF Publish(num_free_res, TRUE)
                  THEN [w EXCEPT !.pc = "publish", !.flush = TRUE]
                  ELSE [w EXCEPT !.pc = "oomdone"]
          /\ UNCHANGED useVars
       \/ /\ num_free_res = 0 /\ w.pc = "flushagain"
          /\ w' = [w EXCEPT !.pc = "oomdone"] /\ UNCHANGED useVars
       \/ /\ num_free_res = 0 /\ w.pc = "flush"
          /\ \E some \in SUBSET glz, old \in SUBSET tree : FreeSome(some, old)
    /\ UNCHANGED <<relVars, msgVars, m, told, free, g>>

\* ... and only now the next OOM message may be sent.
OomDone ==
    /\ w.pc = "oomdone"
    /\ pending' = FALSE
    /\ w' = [w EXCEPT !.pc = "loop", !.flush = FALSE]
    /\ UNCHANGED <<relVars, oom_running, channel, useVars, m, told, free, g>>

\* What the worker does once it has begun something.
WorkerGoesOn ==
    \/ ReleaseResource \/ Released \/ PushFreeRes \/ PushNotify \/ PushSlot
    \/ OomProcessed \/ FlushResources \/ OomDone

-----------------------------------------------------------------------------
Next ==
    \/ Driver \/ \E x \in Res : DrvSubmit(x)
    \/ IoOom
    \/ Process \/ Push \/ Draw \/ FreeGlz \/ HandleOom \/ WorkerGoesOn

Spec == Init /\ [][Next]_vars

\* Threads keep running; the worker's loop comes round to its messages, its
\* rings and its client, who reads what it is sent.
Fairness ==
    /\ WF_vars(Driver) /\ WF_vars(IoOom) /\ WF_vars(WorkerGoesOn)
    /\ SF_vars(HandleOom) /\ SF_vars(Process) /\ SF_vars(Push)

FairSpec == Spec /\ Fairness

-----------------------------------------------------------------------------
TypeOK ==
    /\ release \in [prod : Index, cons : Index, notify_on_prod : Index,
                    items : [0 .. ReleaseItems - 1 -> Res \cup {Nil}]]
    /\ info \in [Res -> Res \cup {Nil}]
    /\ last_release \in Res \cup {Nil}
    /\ num_free_res \in Nat /\ channel \in Nat
    /\ oom_running \in BOOLEAN /\ pending \in BOOLEAN /\ told \in BOOLEAN
    /\ queued \subseteq Res /\ tree \subseteq Res /\ piped \subseteq Res
    /\ glz \subseteq Res /\ free \subseteq Res
    /\ w \in [pc : {"loop", "oom", "release", "publish", "published", "slot",
                    "flush", "flushagain", "oomdone"},
              rels : SUBSET Res, ret : {"loop", "oom", "flushagain"}, flush : BOOLEAN]
    /\ m \in {"idle", "port", "yielded", "send", "sent"}
    /\ g \in [pc : {"idle", "walk", "need", "arm", "retest", "io", "sleep"},
              x : Res \cup {Nil}, tmp : Index]

-----------------------------------------------------------------------------
\* The refinement of CommandLoan.

\* The blocks found from id h on by following the next fields.
Chain(h) ==
    LET at[n \in 0 .. Cardinality(Res)] ==
          IF n = 0 THEN h
          ELSE IF at[n - 1] = Nil THEN Nil ELSE info[at[n - 1]]
    IN  {at[n] : n \in DOMAIN at} \ {Nil}

\* Between the store of prod and the reset of the next slot there is no chain.
Building == IF w.pc \in {"published", "slot"} THEN {}
                                              ELSE Chain(release.items[ProdItem])

Published(i) == Chain(release.items[(release.cons + i) % ReleaseItems])

Returned == Building \cup (UNION {Published(i) : i \in 0 .. Used - 1})
              \cup (IF g.pc = "walk" THEN Chain(g.x) ELSE {})

Loan == INSTANCE CommandLoan WITH guest <- free,
            device <- queued \cup tree \cup piped \cup glz \cup w.rels,
            returned <- Returned

\* The chains threaded through guest memory and the worker's references lend
\* every block exactly once: none is lost, given back while the tree, the
\* client's pipe or the GLZ dictionary still needs it, given back twice, or
\* freed unreturned.
LendsCorrectly == Loan!LoanSpec

\* The chain being built has num_free_res blocks and ends at last_release:
\* interface_release_resource appends behind last_release without looking.
ChainExact ==
    w.pc \notin {"published", "slot"} =>
      /\ Cardinality(Building) = num_free_res
      /\ num_free_res > 0 => last_release \in Building /\ info[last_release] = Nil

\* A driver asleep for memory on a release ring that has a chain has been
\* interrupted, or is about to be: SPICE_RING_CONS_WAIT in the driver against
\* SPICE_RING_PUSH in qxl_push_free_res.
ReleaseTold ==
    (g.pc \in {"io", "sleep"} /\ ~IsEmpty) =>
        told \/ (w.pc = "published" /\ release.prod = release.notify_on_prod)

\* A driver out of memory gets some back, although qxl_worker_oom drops a
\* request made while the previous one is still being handled, and although
\* red_free_some frees no more than a bunch and the dictionary keeps blocks
\* that the tree and the pipe no longer need.
MemoryReturns == (g.pc = "need") ~> (free # {})
=============================================================================
