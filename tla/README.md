# A TLA+ verification of spice4xen's event and I/O core

spice4xen is a Xen 4.1-era tree (hypervisor, paravirtual Linux 2.6.18, tools)
with a QEMU device model that carries the QXL paravirtual display and a Spice
server.  Guests, back ends, the device model and the display server talk to
each other over shared memory and *event channels*; nearly every concurrency
problem in the tree is one of these four kinds: a port table changed from two
domains, a wakeup racing a sleep, a ring index racing a notification, a domain
torn down under its peers.  This project models those, in the order of how much
else depends on them.

## Inventory

| Component | Source | State | Operations | Interacts with |
|---|---|---|---|---|
| Event channels, port tables | `xen/common/event_channel.c` | per domain: `evtchn` buckets, `event_lock`, `virq_to_evtchn`, `pirq_to_evtchn` | alloc, bind (interdomain, virq, ipi, pirq), close, send, bind_vcpu, unmask, reset, Xen-consumed ports, init, destroy | domain lifecycle, delivery, HVM ioreq |
| Event delivery | `event_channel.c`, `xen/common/schedule.c`, `arch/x86/domain.c`, `entry.S`, Linux `drivers/xen/core/evtchn.c` | pending / mask / selector / upcall bits, `_VPF_blocked`, `poll_mask`, `poll_evtchn`, `is_running`, softirqs | set_pending, unblock, wake, kick, block, poll, timeout, upcall, mask, unmask | port tables, schedulers |
| Domain lifecycle | `xen/common/domain.c` | `is_dying`, `refcnt`, domain list | create, kill, put/get, destroy (RCU) | everything per-domain |
| HVM ioreq | `arch/x86/hvm/hvm.c` | `xen_port`, ioreq state | send_assist_req, DM_DOMAIN change, resume | device model, event channels |
| Ring protocol, block front and back end | `public/io/ring.h`, `blkfront.c`, `blkback.c` | free-running indices, event indices, shadow table and its free list, pool of pending requests, stopped queue | queue, push and check-notify, final check, interrupt, dispatch, end of I/O, respond, connect, recover | event channels, grants, block layer |
| QXL device | `hw/qxl.c`, `spice/ipc_ring.h`, `qxl_dev.h` | command, cursor, release rings, mode, memory slots, interrupt bits, pipe | get command, release resource, flush, ports, reset, save/load | guest driver, Spice worker |
| Spice dispatcher and worker | `tools/spice/server` | message sockets, ring watch state, pending flags | wakeup, oom, attach, stop, start, destroy surfaces | QXL, clients |
| Grant tables | `xen/common/grant_table.c` | shared entries, maptrack, active pins | map, unmap, transfer, copy, release | back ends |
| Schedulers, timers, softirqs, RCU, locks | `xen/common/*.c` | run queues, heaps, queues | | everything |
| Memory, emulation, toolstack, xenstore, vendored trees | see PROJECT.json | | | |

What is hard: operations that hold two domains' locks and drop one in the
middle (`__evtchn_close`); readers under a different lock than writers
(virtual interrupts); lock-free bit protocols between hypervisor and guest
(delivery, masking, polling); teardown against peers; notifications that are
dropped by design and have to be made up for.  What makes each part correct is
written at the properties below; the hazards with their lines are in
PROJECT.json.

## Modules

| Module | Models |
|---|---|
| `EventChannel` | the port tables and locks of every domain, and the domain lifecycle around them |
| `EventChannelProofs` | proofs: the types of `EventChannel` |
| `EventChannelLinks` | proofs: links, references, destruction, the event locks, no deadlock between CPUs |
| `EventChannelPorts` | proofs: interrupt tables, pending bits, dropped notifications, Xen's own ports |
| `MCEventChannel` | its TLC instance |
| `EventDelivery` | one domain's shared-memory event bits, sleeping and waking of its vcpus, the guest's upcall |
| `EventDeliveryProofs` | proofs: no lost wakeup, no lost edge |
| `MCEventDelivery` | its TLC instance |
| `QxlRings` | the QXL command and cursor rings, their notifications and interrupts, and the Spice worker's loop |
| `QxlRingsProofs` | proofs: no lost interrupt, neither driver nor worker forgotten, the rings implement `CommandQueue` |
| `MCQxlRings` | its TLC instance |
| `CommandQueue` | what a command ring promises: a bounded queue (implemented by `QxlRings`) |
| `QxlRelease` | the release ring, its chains of blocks, and out-of-memory requests |
| `QxlReleaseProofs` | proofs: a driver out of memory is told, chains are exact, `CommandLoan` is implemented |
| `MCQxlRelease` | its TLC instance |
| `CommandLoan` | what the release path promises: each block is lent and given back once (implemented by `QxlRelease`) |
| `BlkRing` | the split block driver: front end, back end and the ring they share, with save and restore |
| `BlkRingProofs` | proofs: no I/O behind a response, neither front nor back end forgotten |
| `BlkRingFlight` | proofs: the free list, each request in one place, `BlockDevice` is implemented |
| `MCBlkRing` | its TLC instance |
| `BlockDevice` | what the split driver promises to the block layer (implemented by `BlkRing`) |

### EventChannel

State.  `evtchn[d][p]` is `struct evtchn`, with the union reduced to the member
its state gives meaning to; `nr_ports[d]` says how many ports have a bucket;
`event_lock` and `virq_lock` name the holder; `life[d]` is `is_dying` together
with the stages of destruction (`dead` is DOMDYING_dead, `destroyed` is past
`domain_destroy`, waiting for RCU); `refcnt` is `d->refcnt`.  `owed` is a history
variable: the ports on which a notification was dropped.

A *thread* is a CPU in the middle of an operation that is not one critical
section.  `thr[t].pc` says where: in an allocation between `get_free_port` and
the write of the channel, in a bind or a close waiting for the second lock, in
the loop over vcpus of the close of a VIRQ, between two ports of `evtchn_reset`
or `evtchn_destroy`, before or after `spin_barrier`, between the two halves of
`free_xen_event_channel` or of `hvm_send_assist_req`, or a sender of a virtual
interrupt between reading the port and setting it.  An operation that is one
critical section is one step, enabled while its lock is free.  A step that
would only fail with an error and change nothing is not an action of its own,
except where failing has an effect (a bucket stays installed, a reference is
dropped, a loop goes on).

The order of the domain structs in memory, which orders the locks, is `<` on
domain numbers.  `MCEventChannel` gives dom0 the lower number; guests close
links towards a lower peer and dom0 towards a higher one, so both branches of
the lock order are taken.

Left out: XSM hooks (taken to allow), `xmalloc` failures, the failure path of
`domain_create`, `EVTCHNOP_status` (reads only).  The loop of
HVM_PARAM_DM_DOMAIN over the vcpus of a paused domain is taken one vcpu at a
time.  `get_domain`/`put_domain` of a loopback close cancel inside one critical
section and are not shown.  `bind_pirq` is one step: an interrupt that arrives
inside its critical section is not separated.

### EventDelivery

One domain, its vcpus and any number of senders.  `act[a]` is where actor `a`
(a sending CPU, or a vcpu in a hypercall that notifies) is in
`evtchn_set_pending`, `vcpu_unblock`, `vcpu_kick`, `evtchn_unmask` or
`poll_timer_fn`; `vc[v]` is where vcpu `v` itself is: in the guest, in an
upcall, in `do_block` or `do_poll`, descheduled.  Every bit operation is a step.
Interleaving them atomically is sound on x86: all are locked instructions, or
plain stores followed by one before the load that matters.

Left out: HVM injection (`hvm_assert_evtchn_irq`), rebinding of a port to another
vcpu while events are in flight, the order in which `evtchn_do_upcall` scans, its
special case for VIRQ_TIMER and its count of nested upcalls.

### QxlRings

Five actors.  The *driver* (`g`) and its *interrupt handler* (`isr`) are not in the
repository; they use the macros of `ipc_ring.h` and the ports that
`qxl_ioport_write` serves.  QEMU's *main thread* (`m`) serves the ports and the
signalling pipe.  The *worker* (`w`) runs `red_worker_main`: `epoll_wait`, the ready
listeners, `red_process_cursor`, `red_process_commands`, `red_push`.  The *client*
acknowledges what it has received and may hang up.

State.  `ring[r]` is a ring of shared memory with its four indices; `int_pending`
and `int_mask` are the words the handler and the device share; `pipe` says that
a byte is in the pipe (more than one behave alike, for `pipe_read` drains it);
`pending` and `channel` are the dispatcher's bit and socket; `chan[r]` is the
client channel of ring r: pipe size, messages window, `send_data.blocked`, and
the acknowledgements on the socket.  Every read or write of a shared index is a
step, so SPICE_RING_PROD_WAIT and SPICE_RING_CONS_WAIT are four steps, PUSH and POP
two.  IoNotify is one step although it tests, sets and writes: the main thread
is the only sender, and the worker's clear between test and set is the same as
one before the test, or makes a further message that only wakes it once more.

Left out: modes other than NATIVE and COMPAT, reset and STOP/START; a client
socket that returns EAGAIN; the SET_ACK handshake and reconnection; stream
timeouts, which only wake the worker earlier.

### QxlRelease

Here a block of guest memory is the unit.  `queued`, `tree` and `piped` are the
blocks on the command ring, in the worker's tree of drawables that are not yet
drawn, and in the client's pipe: a block is released when the last of these
references goes (`release_drawable`).  `info[x]` is the union in the block that
holds its id and, once released, the id of the next one; `last_release` and
`num_free_res` describe the chain that is being built in the producer's slot.
The main thread (`m`) is in one of the steps of QXL_IO_NOTIFY_OOM, the worker in
`interface_release_resource`, `qxl_push_free_res` or the OOM case of
`handle_dev_input`.

Which commands cover which, what is drawn when, and how much the client takes
at a time are nondeterministic.  Left out: cursor commands, the compression
dictionary as a further reference, surfaces.

The comment at qxl.c:420 says of the test of `oom_running` "collect everything
from oom handler before pushing".  The flag is set around `qxl_worker_oom`, which
only sends a message; the worker handles it when the flag is clear again and
pushes bunches in the middle.  Memory comes back all the same (`MemoryReturns`),
in more pieces.

### BlkRing

Three kinds of actors.  The *front end* runs under `blkif_io_lock`, which is also
the lock of its request queue: `fe.pc` is where the holder is, in
`do_blkif_request`, `blkif_int` or `kick_pending_request_queues`.  The *back end's
thread* is `blkif_schedule` with `do_block_io_op` and `dispatch_rw_block_io`
(`be.pc`).  Every *pending request* `p` is an actor of its own from the moment
it is submitted (`pend[p].pc`): its bios end in interrupt context, the last one
runs `make_response` and `free_req`, while the thread may be taking the next
request, or answering one itself that it could not submit (`own`).

State.  `sring` is the shared page with its four indices and its slots, which hold
requests and responses alike; `fe` and `be` hold the private indices, the flags
(`stopped` of the queue, `callback` and `work` of a grant shortage, `waiting_reqs`)
and the event pending for each side (`irq`); `shadow` is `info->shadow`, with the
free list through `req.id`.  `status` is the block layer's view.  `executed` and
`outcome` are history variables: what the disk has carried out, and how the last
request ended; they are what `BlockDevice` speaks of.

Steps.  An index of the page, `req_cons` (which `make_response` reads under
`blk_ring_lock` while the thread advances it without) and a flag that others set
are accessed one per step, so that RING_PUSH_..._AND_CHECK_NOTIFY is two steps and
RING_FINAL_CHECK_FOR_... three.  A reader blanks the slot it has read; the code
leaves it as it is.  That makes a second read, or a read before the write,
visible, and changes nothing for a reader that stays between the indices.  The
thread's `rc` and `req_cons` are one variable, for every advance is stored before
anything else is done.  Which queued request is taken next is the elevator's
choice.

A restore (`Resume`, `Recover`, `RecoverConnect`) comes at any point where the
front end's lock is free and at any point of the back end, and again as soon as
the front end is connected, before the new back end has looked at the ring.  The
old back end and its requests in progress
disappear; the requests are still in the shadow table, and recovery numbers them
anew from 0.  That the event of the first push is not lost although no back
end is bound yet is the conservative notification of `bind_interdomain`
(`NoLostNotification` of `EventChannel`): `BackendConnect` finds its port
pending.

External: block layer, disk, toolstack.  Left out: a `talk_to_backend` that fails
in a resume, and a resume before the front end is connected; Closing,
`blkif_disconnect` and hot unplug; plugging of the back end's queue; resizing;
the fallback after EOPNOTSUPP for a barrier; a write of the old host that
reaches the disk after the restore (the toolstack's affair).

## Runs

| Run | Shows |
|---|---|
| `ports_links` | `LinksSymmetric`, `LinkedDomainHeld`, `RefcountExact`, `DestroyedStaysEmpty`, `NoLockCycle`, `LockProtects` |
| `ports_irqs` | `TypeOK`, `IrqBindingsSound`, `ClosedPortsQuiet` |
| `ports_xen` | `NoLostNotification`, `XenPortsKept` |
| `delivery_poll` | `TypeOK`, `NoLostWakeup`, `SleepersWake`, `EventsHandled` |
| `delivery_mask` | `NoLostEdge` |
| `delivery_poll_ends` | a violation: `PollEndsWhenUnblocked` |
| `qxl_client` | `WorkerWoken`, with a client; `RingsAreQueues`: `QxlRings` implements `CommandQueue` |
| `qxl_room` | `TypeOK`, `InterruptComing`, `DriverWoken`, `DriverGetsRoom` |
| `qxl_cursor` | `WorkerWoken`, `BothServed`, with both rings |
| `qxl_lend` | `TypeOK`, `ChainExact`, `ReleaseTold`, `MemoryReturns`, and `LendsCorrectly`: `QxlRelease` implements `CommandLoan` |
| `blk_restore` | `FreeListExact`, `InFlightOnce`, `FrontendWoken`, `BackendWoken`, and `ImplementsDevice` (`BlkRing` implements `BlockDevice`), with any number of restores |
| `blk_live` | `TypeOK`, `NoIoBehindResponse`, `ImplementsDevice`, `RequestsEnd`, with split requests, every failure and restores |

* `LinksSymmetric` is the three BUG_ONs of `__evtchn_close`, and what lets
  `evtchn_send` follow a link while holding one lock only.
* `LinkedDomainHeld`: links hold no reference, and `get_domain` in a close
  cannot fail all the same, because a domain is emptied before its reference
  is dropped.  It depends on `domctl_lock` serialising `domain_kill`.
* `RefcountExact`: no exit of `__evtchn_close` leaks or over-drops a reference.
* `DestroyedStaysEmpty`: nothing reappears behind `evtchn_destroy`'s scan.
* `NoLockCycle`, `LockProtects`: what the lock order and the locks are for.
* `IrqBindingsSound`, `ClosedPortsQuiet`: interrupt tables and channels agree
  while senders run under a different lock, and a closed port hands nothing on
  to its next owner.
* `NoLostNotification`: the conservative notification of `bind_interdomain`
  makes up for everything `evtchn_send` and `notify_via_xen_event_channel`
  dropped on the unbound port.
* `XenPortsKept`: BUG_ONs and ASSERTs on Xen-consumed ports.
* `NoLostWakeup`, `SleepersWake`: block and poll have no wakeup-waiting race.
* `NoLostEdge`, `EventsHandled`: the three levels of bits, masks, kicks and the
  upcall loop lose nothing.  `EventsHandled` is about a vcpu that does not keep its
  upcalls disabled for ever.
* `WorkerWoken`, `DriverWoken`: neither side sleeps through what it waits for.
  The indices are compared for equality, so each has to be stored between two
  tests of the ring.  With a client, a worker that stopped because its pipe is
  too long has no timeout and no notification: it depends on an acknowledgement,
  which is the point of the ASSERT at the head of `red_worker_main`
  (`WindowAssumption` is the weakest form of it that suffices).
* `InterruptComing`: a set bit suppresses the byte in the pipe; that is right only
  because whoever clears bits has the line recomputed afterwards.
* `RingsAreQueues`: no command is lost, repeated, overwritten or reordered, at the
  wrap of the indices too.
* `BothServed`: `red_process_cursor` has no time limit, so that display commands
  are guaranteed service only once the cursor ring rests; the property says so.
* `LendsCorrectly`, `ChainExact`: chains through memory that changes owner.
* `ReleaseTold`, `MemoryReturns`: OOM requests are dropped while one is handled, and
  a driver without memory gets some all the same.
* `FreeListExact`: the list of free ids is neither lost nor tied into a loop when
  responses come back in another order or recovery rebuilds it, and has an id
  whenever the ring has a place: the BUG_ON of GET_ID_FROM_FREELIST.
* `InFlightOnce`: requests and responses overwrite each other's slots, on the
  argument that a response takes the place of a request already consumed; each
  request in flight is found intact in exactly one place, also across the wrap.
* `FrontendWoken`, `BackendWoken`: the event indices hold off notifications, and
  neither side sleeps through work.  The back end's thread never sets
  `req_event`: it relies on the tail check of some `make_response`, which looks
  at `req_cons` while the thread moves it.
* `NoIoBehindResponse`: a request split into bios is answered, and its pages
  unmapped, only when none of them is in flight, also when the splitting fails
  in the middle.
* `ImplementsDevice`: a request ends once, ends well only if its own sectors were
  transferred, and nothing is transferred for a request that has ended, with ids
  that are re-used and requests that recovery issues a second time.
* `RequestsEnd`: a full ring, a queue stopped for lack of grants, an empty pool and
  a restore all let go of what waits for them.

Bounds.  Two domains are all that an operation ever touches, and three ports
per domain (one reserved) allow a loopback link, two links at once, and re-use
of a port while an operation on it is in progress.  Two threads give every
pairwise race; symmetry on threads is sound because no property or `CHOOSE`
distinguishes them.  `ports_irqs` has two buckets of two ports so that growing
and the last bucket both happen.  In `EventDelivery` two ports in different
selector words, a sender and a timer, two senders or two vcpus, and two port
lists for SCHEDOP_poll cover each race between two notifiers and a vcpu.  Counters
that would be unbounded do not occur; deadlock is checked in all passing runs.
In `QxlRings` and `QxlRelease` a ring has one or two items and `IdxMod`, which stands
for 2^32, is the double or four times that: indices wrap in every run, and full,
empty and the last free place all happen.  `PollRetries` stands for 200 (the
counter stops at `PollRetries` + 1, beyond which all values behave alike),
`MaxPipe` and `AckWindow` for 50 and 20 or 40, at their tightest ratio;
`BunchSize` and `ReleaseBunch` for 32 and 64.  Two blocks allow a chain of two, two
chains of one, and a chain under construction beside a published one; the
safety properties of `qxl_lend` were also checked with three blocks, and those of
`qxl_room` with a ring of two.  Symmetry on the contents of commands is sound:
they are only moved.
In `blk_restore` a ring of two with two requests and two entries of the pool gives
responses out of order, a full ring, two answers at once, and every way in which
two requests in flight meet a restore; `IdxMod` = 4 wraps the indices after four
requests.  Where the pool is the bottleneck (three requests, a ring of two, one
entry) the safety properties were checked as well, without faults.  `blk_live`
has the ring at its smallest, so that it is full with one request, and requests
of up to two bios, each of which may fail to be submitted or to be carried out.
Symmetry is used in `blk_restore` only, where no liveness is checked.

Fairness.  `EventDelivery` has weak fairness for each actor's notifying code
(it runs in Xen with bounded work and no lock shared with the waiter), for what
Xen does with an entered vcpu and for the scheduler (a runnable vcpu is run:
both schedulers are work-conserving and starvation-free), and for the guest's
upcall handler.  Nothing obliges anyone to send, poll, block or re-enable
interrupts: `EventsHandled` therefore assumes that the vcpu's upcalls are enabled
again and again.  `EventChannel` has no fairness: its spinlocks are unfair and no
liveness is claimed there; `NoLockCycle` states that nobody waits in a circle.
`QxlRings`: the threads and the driver's steps inside an operation are weakly
fair; the main loop serves each of its sources (strong fairness per source: a
select loop calls every ready handler); a worker that keeps finding display
commands is stopped by its 10 ms limit again and again (strong fairness of
`Process(TRUE)`); the client acknowledges.  The driver need not issue commands.
`QxlRelease`: the worker's loop comes round to its messages, its ring and its
client (strong fairness: each round of `red_worker_main` does all three).
`BlkRing`: the holder of a lock, the thread and each `make_response` go on; an event
channel interrupt and scheduled work get their turn at `blkif_io_lock` although
others take it again and again (strong fairness: both run on a CPU that spins for
a lock that is held for a bounded time); the queue is unplugged and the elevator
starves no request (it has deadlines); the disk ends each bio; the toolstack
starts a back end.  Nobody has to submit, and nothing has to fail; restores and
grant shortages that never cease are excluded by the hypothesis of `RequestsEnd`.

The finding.  schedule.c:290 says "Polling period ends when a VCPU is
unblocked."  On x86 the code that would clean up after a wakeup in the middle of
do_poll's registration is compiled out (`#ifndef CONFIG_X86`, lines 520-534), so a
vcpu can go back to its guest with its bit in `poll_mask` still set.  Nothing is
lost by it (`NoLostWakeup` holds); a later event unblocks a vcpu that does not
poll.

## Proofs

All theorems hold for every choice of the constants that satisfies the modules'
named assumptions.  Every inductive invariant was checked with TLC on the
configurations of its module before it was proved, but for `FreeOK` of `BlkRing`, which
speaks of an infinite sequence (TLC checks `FreeListExact`, its finite content).

**`EventChannel`.**  The assumptions: domains are numbers, the port table is a
whole number of buckets, vcpu 0 exists, the global interrupts are interrupts,
there are finitely many CPUs (`ThreadAssumption`), and `None` is none of these.

`EventChannelProofs` proves `TypeCorrect == Spec => []TypeOK`.  `TypeOK` is inductive as
it stands because it also says which local variables are set at which place
(`ThreadState`), that a linked channel names a domain and a port (`Chan`) and that
tables are whole buckets (`BucketEnds`): a table that is not full therefore has
room for one more bucket (`NextBucket`), which is why the one comparison with
MAX_EVTCHNS in `get_free_port` suffices.

`EventChannelLinks` proves `LinksStaySymmetric`, `RefcountsStayExact`, `LinkedDomainsStay`,
`DestroyedDomainsStayEmpty` and the action property `LocksProtect`, from one joint
invariant, `LinkInv`: no one of them is inductive without the others.  It adds to
them that ports beyond the last bucket are free (`TailFree`), which locks a CPU
holds at which place and what it knows of the channel it keeps locked
(`HoldsLocks`, `KnowsChannel`), that one CPU at a time is in `evtchn_destroy`
(`OneDestroyer`), that no allocation is in progress in a domain past its barrier
(`WorksOn`), that the ports the scan has passed stay closed (`DestroyPassed`), that the
one it is at can be closed although a peer may have bound it again
(`DestroyCloses`), and that a dying domain nobody destroys is empty (`GoneIsEmpty`).
What the other CPUs see of a step is stated once (`Seen`) and shown of each
action; then `OthersKept` gives their part of the invariant.

It also proves `NoCpusDeadlock == Spec => []NoLockCycle`.  There the invariant says
that a close which waits for a second lock waits for a later domain than the
one it holds, and that whoever holds a `virq_lock` waits for nobody.  A finite
group of CPUs that wait for each other would have one that waits for the latest
domain (`FiniteMaximum`, from the well-foundedness of `<`); its holder has nothing
to wait for.

`EventChannelPorts` proves `IrqBindingsStaySound`, `ClosedPortsStayQuiet`,
`NotificationsNotLost` and `XenPortsStay`, from `PortInv` on top of `LinkInv`.  Its parts:
`consumer_is_xen` is set on waiting and linked channels only, so whatever else is
closed is the guest's (`GoodChan`); port 0 is reserved, so 0 can mean "no port"; an
event is pending only on a port in use and dropped only on a waiting one
(`EventsOnPorts`); the tables and the channels name each other except while a VIRQ
is being closed (`PortInTables`); a sender of a virtual interrupt holds `virq_lock`
and its port is in the table or its closer, who cleared the entry first, waits
for that lock (`SendsVirq`); and Xen's ports change only while the domain is
paused, by one CPU (`XenAlone`).

**`EventDelivery`.**  The assumptions: ports are positive numbers, vcpus are
numbers, none of them a sender, every port notifies a vcpu, and the lists that
are passed to SCHEDOP_poll are finite and not empty.  `EventDeliveryProofs` proves
`DeliveryTyped`, `WakeupsNotLost` and `EdgesNotLost`.  The two safety properties speak of
states in which nobody is notifying; the invariant, `DeliveryInv`, speaks of all of
them.  Whenever a bit is set and the next one is not, it names who is about to
set that one:

* a vcpu asleep with `_VPF_blocked` clear: an actor on its way to `vcpu_wake`;
* a vcpu that looked at its upcall flag for the last time, with an event to
  deliver: an actor about to unblock it;
* a poller with `_VPF_blocked` set that is not in `poll_mask`: the actor that took
  it out, who will clear `_VPF_blocked`, a second time if need be;
* a poller in `poll_mask` that has tested a port which is pending: the sender of
  that port, whose search has not passed this vcpu (pollers are found in
  the order of their numbers, `FirstPoller`);
* a selector bit without the upcall flag: the actor that set it, or the vcpu
  between clearing the flag and taking the selector;
* an upcall flag with the vcpu in the guest: the interrupt, or an actor whose
  `vcpu_kick` saw it running;
* an active port without its selector bit: an actor between the two, or the
  upcall that will come to its word.

Each action is checked against the roles its actor had and has (`Roles`); a step of
a vcpu leaves those of the actors alone (`VcpuStep`).

**`QxlRings`.**  `QxlRingsProofs` proves, for every ring size, limit and client,
`InterruptNotLost == Spec => []InterruptComing`.  `InterruptComing` is not inductive: when
`qxl_set_irq` lowers a line that was high, it says nothing of the bits.  The
strengthening adds `SetIrqStale` (a level that is out of date when it is stored is
followed by another `qxl_set_irq`), `IoMatched` (a port write is served while its
writer waits), and the shape of the actors' records.  `RingsTyped`,
`DriverNotForgotten` and `WorkerNotForgotten` rest on `RingInv`: what each step on the
way to sleep has achieved, that the index to notify at was stored before the
last test of the ring, and what brings the worker back to a ring that it has
passed without a timeout.  A full ring is told from an empty one by the bounds
on the distance of the indices; that a stopped pipe has acknowledgements to come
is the accounting of the client's window.

`RingsQueue` shows, step by step, that `QxlRings` implements `CommandQueue`.  What is on a
ring is a sequence read off memory (`Items`).  Writing a command into the place of
`prod` does not change it, because that place is none of those in use
(`ItemsWrite`, from `PlacesDiffer`); storing `prod` appends to it (`ItemsPut`), storing
`cons` takes its head (`ItemsTake`); nothing else does anything to it.  The invariant
needed besides `RingInv` is what the worker holds at which place (`Held`).

**`QxlRelease`.**  `QxlReleaseProofs` proves `ReleaseTyped`, `DriverTold`, `ChainsExact` and
`LoansCorrect`, from the assumptions that there are finitely many blocks, that the
null id is none of them, and that the ring has at least two items and its size
divides 2^32.  `DriverTold` needs that the index at which the driver asked to be
told is the one behind the ring as it found it empty, from before its last test
until it wakes (`Armed`); nobody else moves the consumer's index.

`ChainsExact` and the refinement `LoansCorrect` rest on `LoanInv`.  What was returned
exists only as ids in guest memory, and `Chain` finds it by a walk.  The invariant
says that there are two functions, `home` (the slot of the ring, or the driver, in
whose chain a block is) and `pos` (where in it), with which memory agrees: the
id in a block is that of the next position, or null in the last one
(`Threaded`).  Blocks that one side has are at home nowhere and hold their own id,
which is why `interface_release_resource` may take the id from the block (`Placed`);
the chain being built has `num_free_res` blocks up to `last_release` (`Counted`); and
there is room for what is being published (`WorkerOK`), so that the slot being
built is not one that the driver still has to pop.  The lemma `ChainOf` connects
the two views.  It needs no induction rule: two walks that differ would differ
in a first place (`OneWalk`, from the well-foundedness of `<`), and a chain longer
than the number of blocks would use one twice (`ChainShort`, by the pigeonhole
principle).  Each step that touches a chain is then given its new `home` and `pos`;
the slots of the ring need a little arithmetic of remainders (`ProdSlot`,
`PushFacts`, `PopFacts`, `SlotsDiffer`), where the wraparound at 2^32 is harmless
because the ring's size divides it.  With `LoanInv`, what was returned is all that
neither side has (`ReturnedRest`), and each step is one of `CommandLoan` or none
(`Handed`).

**`BlkRing`.**  The assumptions: the ring has a place, its size divides the number of
values of a RING_IDX, which is at least twice that size (BLK_RING_SIZE is a power of
two, RING_IDX has 32 bits), a null pointer is no request, and a request has a bio.

`BlkRingProofs` proves `ResponseAfterIo == Spec => []NoIoBehindResponse`.  The strengthening,
`BiosCounted`, is about each entry of the pool by itself: while the thread submits,
`pendcnt` is one more than the bios in flight, because `dispatch_rw_block_io` counts the
last bio first; afterwards it is their number.  Without the extra count a bio that
ends before the next one is submitted would answer the request.

Everything else rests on `RingInv`.  Besides the types (`Typed`: the type invariant
without `executed`, about which nothing can be said before it is known what is in the
ring) it says that at most one entry of the pool has the thread, and which one
holds `blk_ring_lock` (`OwnerOK`, `LockOK`); that, counted from `rsp_cons` modulo 2^32, the
responses published, the requests taken, those published and those queued come in
this order and within the ring (`RingOrder`); how far a restored front end is
(`FrontOK`); and that the entries of the pool in progress are as many as the requests
taken and not answered (`BusyCounted`).  Two facts about a ring of any size carry the
arithmetic, `SubZero` (differences of differences) and `SubSucc`.

`BackendNotForgotten` and `FrontendNotForgotten` prove `BackendWoken` and `FrontendWoken`.
Neither is inductive: both speak of an actor at rest.  `BackWoken` says of every state
that `req_event` is one past `req_cons`, or somebody has yet to look (`Looking`), or
requests were seen and will be told (`Coming`); and that with requests in the ring
somebody looks, tells, or is about to raise the event (`Kicking`).  A `make_response`
that found requests still with the back end does only the plain test; `BusyCounted`
gives it a successor who will do the other one.  `FrontWoken` is the same for
`rsp_event`, which blkfront stores by itself before its last test.

`BlkRingFlight` proves the rest.  `FreeListStaysExact` rests on `FreeOK`: there is a sequence
without repetitions that starts at `shadow_free`, follows the ids in the shadow table
and has exactly the entries not in use.  Taking and giving back an id shortens and
lengthens it at the head; after `blkif_recover` it is the tail of the table.  For that
step the entries in use are numbered in their order (`Rank`, `Nth`, by counting; no
induction rule is needed).  That `FreeAt`, a recursive function, finds this sequence is
shown by looking at a first place where it would not (`LeastNatural`).

`RequestsInFlightOnce`, `BlkRingTyped` and the refinement `RingImplementsDevice` rest on
`DataOK`.  Counted from `rsp_cons`, the ring has responses, a gap as large as the number
of requests that the back end has, and requests.  The places are different slots
because they are at most `RingSize` (`PlacesDiffer`), also where the indices wrap
(`IndexPlace`).  Each of them, and each busy entry of the pool, carries the id of an
entry in use (`ResponsesOK`, `RequestsOK`, `BusyOK`), no id is in two places (`IdsDiffer`),
none is missing unless it waits for `blkif_recover` (`IdsThere`), and the requests in the
shadow table are pending, once each (`HandedDown`).  A response that says it went well
is for a request that was carried out; so the step of `blkif_int` is the `Finish` of
`BlockDevice`, the end of the last bio is `CarryOut`, and every other step is `Give` or
is not seen by the block layer (`DeviceStep`).

**Only model-checked.**  The liveness properties `SleepersWake`, `EventsHandled` and
those of `QxlRings`, `QxlRelease` and `BlkRing`: fairness is out of the prover's reach.

## Not modelled

* The modes of the QXL device: primary surfaces, memory slots, soft and hard
  reset, VGA updates.  The rings of `QxlRings` are those of a device that stays in
  NATIVE or COMPAT mode.  Reading `qxl.c` and `red_worker.c` for them shows what a
  model would have to settle: a reset re-initialises the rings while the worker
  may be between the steps of SPICE_RING_CONS_WAIT, and a VGA excursion uses up the
  worker's retries without leaving a request for notification in the ring
  (hazard qxl.c:651); QXL_IO_DESTROY_ALL_SURFACES leaves `d->mode` as it was, and a
  later destruction of the primary surface meets the PANIC_ON at
  red_worker.c:9906 (hazard qxl.c:1023).  Neither code nor documents say whether a
  driver may do these things, so there is no property to state yet.
* Grant tables, schedulers' run queues, timers, RCU and spinlocks as such: they
  appear through what the modelled code relies on (a mapping is there, a
  runnable vcpu runs, a barrier waits).
* Memory management, x86 emulation, xenstore and the toolstack: mostly
  sequential code over large data, or glue between processes; a model small
  enough to check would leave out what can go wrong.
* The vendored Linux, QEMU, mini-os and Spice client, except for the files
  named above.

## Plan

1. `QxlModes`: the mode machine described above, over the synchronous messages of
   the dispatcher.
2. `GrantTable`: map, unmap and release against domain death.
3. `EventDelivery`: an abstract level-triggered line that it implements.
