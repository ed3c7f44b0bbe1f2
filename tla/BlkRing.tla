------------------------------ MODULE BlkRing ------------------------------
(***************************************************************************)
(* The split block driver over one shared ring: blkfront in a guest,       *)
(* blkback in the driver domain, and the ring macros between them.         *)
(*                                                                         *)
(* The front end runs under blkif_io_lock, which the block layer also      *)
(* takes: `fe.pc' says where the holder is, "idle" that the lock is free.  *)
(* The back end is a kernel thread per device, `be.pc', and one actor for  *)
(* each pending_req whose I/O completes in interrupt context, `pend[p].pc'.*)
(* A step has at most one access that another actor could tell from its    *)
(* neighbours, to an index of the shared page, to req_cons (make_response  *)
(* reads it while the thread goes on) or to a flag that others set, and    *)
(* the private work around it.  The barriers of ring.h make the accesses   *)
(* take effect in program order.                                           *)
(*                                                                         *)
(* A request stands for what it asks for: its sectors, its memory and its  *)
(* grants.  A save and restore (or a migration) takes the front end at any *)
(* point where the lock is free, and the back end at any point; blkfront   *)
(* sets up a new ring to a new back end and issues again what was in       *)
(* flight.                                                                 *)
(*                                                                         *)
(* Sources: xen/include/public/io/ring.h, drivers/xen/blkfront/blkfront.c  *)
(* and drivers/xen/blkback/blkback.c of linux-2.6.18-xen.hg.  The block    *)
(* layer, the disk and the toolstack that starts back ends are external.   *)
(***************************************************************************)
EXTENDS Integers, FiniteSets

CONSTANTS
    Request,       \* requests of the block layer
    NoRequest,     \* a null pointer
    RingSize,      \* BLK_RING_SIZE
    IdxMod,        \* 2^32: RING_IDX is an unsigned int
    PendingReq,    \* the entries of pending_reqs, blkif_reqs of them
    MaxBios,       \* most bios a request is split into
    Faults         \* what may happen: "resume" (a save and restore), "grants"
                   \* (none left), "dispatch", "submit", "bio" (failures)

ASSUME RingAssumption ==
    /\ RingSize \in Nat \ {0} /\ IdxMod \in Nat
    /\ IdxMod >= 2 * RingSize /\ IdxMod % RingSize = 0
ASSUME RequestAssumption == NoRequest \notin Request
ASSUME BiosAssumption == MaxBios \in Nat \ {0}

VARIABLES
    sring,      \* the shared page
    fe,         \* struct blkfront_info, and where its lock holder is
    shadow,     \* info->shadow
    recovery,   \* where blkfront_resume is: "no", "requeue", "connect"
    be,         \* blkif_t, and where its thread is
    pend,       \* pend[p]: an entry of pending_reqs
    ring_lock,  \* holders of blk_ring_lock
    status,     \* status[r]: the block layer's view, "idle" or "pending"
    executed,   \* history: pending requests that the disk has carried out
    outcome     \* history: how the last request to end has ended

vars == <<sring, fe, shadow, recovery, be, pend, ring_lock, status, executed,
          outcome>>

-----------------------------------------------------------------------------
\* ring.h

Index == 0 .. IdxMod - 1
Slot == 0 .. RingSize - 1
Sub(i, j) == (i - j) % IdxMod

\* Mutant: indices wider than 32 bits.
Succ_NoWrap(i) == i + 1

Succ(i) == (i + 1) % IdxMod
At(i) == i % RingSize

\* The page; an entry is a request (with what it asks for) or a response.
\* Readers copy an entry and leave it as it is; here they blank it, so that
\* one that is read twice, or before it is written, is seen to be nothing.
Entry == [id : Slot, req : Request \union {NoRequest}, ok : BOOLEAN]
NoEntry == [id |-> 0, req |-> NoRequest, ok |-> FALSE]
Taken(i) == [sring EXCEPT !.ring[At(i)] = NoEntry]
SharedRingInit == [req_prod |-> 0, req_event |-> 1, rsp_prod |-> 0,
                   rsp_event |-> 1, ring |-> [s \in Slot |-> NoEntry]]

\* Mutant: one request more than there are places.
RingFull_Late == RingSize + 1 - Sub(fe.req_prod_pvt, fe.rsp_cons) = 0

RingFull == RingSize - Sub(fe.req_prod_pvt, fe.rsp_cons) = 0

UnconsumedResponses == Sub(sring.rsp_prod, fe.rsp_cons)

UnconsumedRequests ==
    LET req == Sub(sring.req_prod, be.req_cons)
        rsp == RingSize - Sub(be.req_cons, be.rsp_prod_pvt)
    IN  IF req < rsp THEN req ELSE rsp

RequestConsOverflow == Sub(be.req_cons, be.rsp_prod_pvt) >= RingSize

\* The decision of RING_PUSH_..._AND_CHECK_NOTIFY: was the event index passed?
\* Mutant: the event index is compared without regard to the wrap.
CheckNotify_NoWrap(old, new, event) == old < event /\ event <= new

CheckNotify(old, new, event) == Sub(new, event) < Sub(new, old)

-----------------------------------------------------------------------------
\* The shadow table of blkfront: entries in use, and a list of free ones
\* through req.id, which ends in a number that is no index.

EndOfList == RingSize
FreshShadow == [i \in Slot |-> [id |-> i + 1, request |-> NoRequest]]

InUse(i) == shadow[i].request # NoRequest

-----------------------------------------------------------------------------
FreshBackend == [bound |-> FALSE, irq |-> FALSE, waiting_reqs |-> FALSE,
                 rsp_prod_pvt |-> 0, req_cons |-> 0, pc |-> "wait", rp |-> 0]

FreePending == [pc |-> "free", id |-> 0, req |-> NoRequest, left |-> 0,
                pendcnt |-> 0, bios |-> 0, ok |-> TRUE, own |-> FALSE,
                more |-> FALSE, notify |-> FALSE]

PendingFree == {p \in PendingReq : pend[p].pc = "free"}

\* blkfront_probe and talk_to_backend have run.
Init ==
    /\ sring = SharedRingInit
    /\ fe = [connected |-> "disconnected", req_prod_pvt |-> 0, rsp_cons |-> 0,
             shadow_free |-> 0, stopped |-> FALSE, callback |-> FALSE,
             work |-> FALSE, irq |-> FALSE, pc |-> "idle", queued |-> FALSE,
             rp |-> 0, old |-> 0, after |-> "idle"]
    /\ shadow = FreshShadow
    /\ recovery = "no"
    /\ be = FreshBackend
    /\ pend = [p \in PendingReq |-> FreePending]
    /\ ring_lock = {}
    /\ status = [r \in Request |-> "idle"]
    /\ executed = {} /\ outcome = "ok"

feVars == <<fe, shadow, recovery>>
beVars == <<be, pend, ring_lock>>
done == <<executed, outcome>>

-----------------------------------------------------------------------------
\* The block layer (external): requests are queued; the queue is run when
\* it is unplugged, unless it is stopped.  A pending request is in the queue
\* until blkfront takes it, and then in the shadow table.

Queue == {r \in Request : /\ status[r] = "pending"
                          /\ \A i \in Slot : shadow[i].request # r}

Queued(r) ==
    /\ fe.pc = "idle" /\ fe.connected # "disconnected"
    /\ status[r] = "idle"
    /\ status' = [status EXCEPT ![r] = "pending"]

Submit(r) ==
    /\ Queued(r)
    /\ UNCHANGED <<sring, feVars, beVars, done>>

\* Insertion at the back (a barrier) runs the queue even if it is stopped; if
\* it is not, this is Submit followed by RunQueue.
SubmitAtBack(r) ==
    /\ Queued(r) /\ fe.stopped
    /\ fe' = [fe EXCEPT !.pc = "request", !.queued = FALSE]
    /\ UNCHANGED <<sring, shadow, recovery, beVars, done>>

RunQueue ==
    /\ fe.pc = "idle" /\ ~fe.stopped /\ Queue # {}
    /\ fe' = [fe EXCEPT !.pc = "request", !.queued = FALSE]
    /\ UNCHANGED <<sring, shadow, recovery, beVars, status, done>>

-----------------------------------------------------------------------------
\* blkfront: do_blkif_request.

\* Store req_prod, remembering the old one, and go on to the decision.
PushRequests(f, after) ==
    /\ sring' = [sring EXCEPT !.req_prod = f.req_prod_pvt]
    /\ fe' = [f EXCEPT !.pc = "notify", !.old = sring.req_prod, !.after = after,
                       !.queued = FALSE]

\* The loop is over: flush_requests if anything was queued.
EndRequest(f) ==
    IF f.queued THEN PushRequests(f, "idle")
    ELSE fe' = [f EXCEPT !.pc = "idle"] /\ UNCHANGED sring

\* kick_pending_request_queues: start the queue and run it.
Kicked(f) ==
    IF RingFull THEN [f EXCEPT !.pc = "idle"]
    ELSE [f EXCEPT !.stopped = FALSE, !.queued = FALSE,
                   !.pc = IF Queue = {} THEN "idle" ELSE "request"]

\* blkif_queue_request, for the request that the elevator picks.  Requests are
\* those of file systems: the others end at once, and touch nothing here.
QueueRequest(r) ==
    LET id == fe.shadow_free IN
    /\ fe.pc = "request" /\ r \in Queue
    /\ ~RingFull /\ fe.connected = "connected"
    /\ id \in Slot                                  \* BUG_ON otherwise
    /\ shadow' = [shadow EXCEPT ![id] = [id |-> id, request |-> r]]
    /\ sring' = [sring EXCEPT !.ring[At(fe.req_prod_pvt)] =
                     [id |-> id, req |-> r, ok |-> FALSE]]
    /\ fe' = [fe EXCEPT !.shadow_free = shadow[id].id,
                        !.req_prod_pvt = Succ(fe.req_prod_pvt),
                        !.queued = TRUE]
    /\ UNCHANGED <<recovery, beVars, status, done>>

\* No grant references: ask to be called when there are, requeue, stop.
GrantShortage ==
    /\ fe.pc = "request" /\ Queue # {}
    /\ ~RingFull /\ fe.connected = "connected"
    /\ "grants" \in Faults
    /\ EndRequest([fe EXCEPT !.callback = TRUE, !.stopped = TRUE])
    /\ UNCHANGED <<shadow, recovery, beVars, status, done>>

\* Nothing more to queue, no place for it, or no connection.
RequestsDone ==
    /\ fe.pc = "request"
    /\ Queue = {} \/ RingFull \/ fe.connected # "connected"
    /\ EndRequest([fe EXCEPT !.stopped = fe.stopped \/ Queue # {}])
    /\ UNCHANGED <<shadow, recovery, beVars, status, done>>

\* notify_remote_via_irq: an unbound port drops it.
NotifyBackend ==
    /\ fe.pc = "notify"
    /\ LET f == [fe EXCEPT !.pc = "idle", !.after = "idle", !.old = 0]
       IN  fe' = IF fe.after = "kick" THEN Kicked(f) ELSE f
    /\ be' = [be EXCEPT !.irq = be.irq \/
                 (be.bound /\ CheckNotify(fe.old, sring.req_prod,
                                          sring.req_event))]
    /\ UNCHANGED <<sring, shadow, recovery, pend, ring_lock, status, done>>

\* The grant table's callback schedules the work, which kicks the queue.
GrantsFreed ==
    /\ fe.callback
    /\ fe' = [fe EXCEPT !.callback = FALSE, !.work = TRUE]
    /\ UNCHANGED <<sring, shadow, recovery, beVars, status, done>>

RestartQueue ==
    /\ fe.work /\ fe.pc = "idle"
    /\ LET f == [fe EXCEPT !.work = FALSE]
       IN  fe' = IF fe.connected = "connected" THEN Kicked(f) ELSE f
    /\ UNCHANGED <<sring, shadow, recovery, beVars, status, done>>

-----------------------------------------------------------------------------
\* blkfront: blkif_int.

\* From `again': read rsp_prod and consume the responses up to there.
Again(f) == [f EXCEPT !.pc = "consume", !.rp = sring.rsp_prod]

Interrupt ==
    /\ fe.irq /\ fe.pc = "idle"
    /\ LET f == [fe EXCEPT !.irq = FALSE]
       IN  fe' = IF fe.connected = "connected" THEN Again(f) ELSE f
    /\ UNCHANGED <<sring, shadow, recovery, beVars, status, done>>

\* ADD_ID_TO_FREELIST
Freed(id) ==
    [shadow EXCEPT ![id] = [id |-> fe.shadow_free, request |-> NoRequest]]

\* One response: free the id, end the request.  rsp_cons is stored at the
\* end of the loop; nobody reads it before that.
ConsumeResponse ==
    LET rsp == sring.ring[At(fe.rsp_cons)]
        r == shadow[rsp.id].request
    IN
    /\ fe.pc = "consume" /\ fe.rsp_cons # fe.rp
    /\ r \in Request
    /\ shadow' = Freed(rsp.id)
    /\ fe' = [fe EXCEPT !.shadow_free = rsp.id, !.rsp_cons = Succ(fe.rsp_cons)]
    /\ status' = [status EXCEPT ![r] = "idle"]
    /\ outcome' = IF rsp.ok THEN "ok" ELSE "error"
    /\ executed' = executed \ {r}
    /\ sring' = Taken(fe.rsp_cons)
    /\ UNCHANGED <<recovery, beVars>>

\* All consumed.  With nothing in flight the event index is set and that is
\* all; otherwise RING_FINAL_CHECK_FOR_RESPONSES: test, set, test again.
ConsumedAll ==
    LET f == [fe EXCEPT !.rp = 0] IN
    /\ fe.pc = "consume" /\ fe.rsp_cons = fe.rp
    /\ IF fe.rsp_cons = fe.req_prod_pvt
       THEN /\ sring' = [sring EXCEPT !.rsp_event = Succ(fe.rsp_cons)]
            /\ fe' = Kicked(f)
       ELSE /\ fe' = IF UnconsumedResponses > 0 THEN Again(f)
                    ELSE [f EXCEPT !.pc = "event"]
            /\ UNCHANGED sring
    /\ UNCHANGED <<shadow, recovery, beVars, status, done>>

\* Mutant: the ring is not tested again after the event index is set.
SetRspEvent_NoRetest ==
    /\ fe.pc = "event"
    /\ sring' = [sring EXCEPT !.rsp_event = Succ(fe.rsp_cons)]
    /\ fe' = Kicked(fe)
    /\ UNCHANGED <<shadow, recovery, beVars, status, done>>

SetRspEvent ==
    /\ fe.pc = "event"
    /\ sring' = [sring EXCEPT !.rsp_event = Succ(fe.rsp_cons)]
    /\ fe' = [fe EXCEPT !.pc = "retest"]
    /\ UNCHANGED <<shadow, recovery, beVars, status, done>>

Retest ==
    /\ fe.pc = "retest"
    /\ fe' = IF UnconsumedResponses > 0 THEN Again(fe) ELSE Kicked(fe)
    /\ UNCHANGED <<sring, shadow, recovery, beVars, status, done>>

-----------------------------------------------------------------------------
\* blkfront: connection, and recovery after a restore.

\* connect(): the back end has become ready for the first time.
Connect ==
    /\ fe.connected = "disconnected" /\ be.bound /\ fe.pc = "idle"
    /\ fe' = Kicked([fe EXCEPT !.connected = "connected"])
    /\ UNCHANGED <<sring, shadow, recovery, beVars, status, done>>

\* blkfront_resume up to blkif_recover: blkif_free stops the queue and
\* cancels the callback and the work, talk_to_backend makes a new ring.  The
\* old back end and whatever it had in progress are out of reach.
Resume ==
    /\ "resume" \in Faults
    /\ fe.connected = "connected" /\ fe.pc = "idle"
    /\ fe' = [fe EXCEPT !.connected = "suspended", !.stopped = TRUE,
                 !.callback = FALSE, !.work = FALSE, !.irq = FALSE,
                 !.req_prod_pvt = 0, !.rsp_cons = 0]
    /\ sring' = SharedRingInit
    /\ recovery' = "requeue"
    /\ be' = FreshBackend
    /\ pend' = [p \in PendingReq |-> FreePending]
    /\ ring_lock' = {}
    /\ UNCHANGED <<shadow, status, done>>

\* blkif_recover, stages 1 to 3: the entries in use go, in order, into the
\* first slots of the ring and of a fresh shadow table.
\* Mutant: the requests in the new ring keep their old ids.
Recover_OldIds ==
    LET used == {i \in Slot : InUse(i)}
        n == Cardinality(used)
        Rank(i) == Cardinality({j \in used : j < i})
        nth(k) == CHOOSE i \in used : Rank(i) = k
    IN
    /\ recovery = "requeue"
    /\ recovery' = "connect"
    /\ shadow' = [k \in Slot |->
                     IF k < n THEN [id |-> k, request |-> shadow[nth(k)].request]
                     ELSE FreshShadow[k]]
    /\ sring' = [sring EXCEPT !.ring = [k \in Slot |->
                     IF k < n THEN [id |-> nth(k), req |-> shadow[nth(k)].request,
                                    ok |-> FALSE]
                     ELSE sring.ring[k]]]
    /\ fe' = [fe EXCEPT !.req_prod_pvt = n, !.shadow_free = n]
    /\ UNCHANGED <<beVars, status, done>>

Recover ==
    LET used == {i \in Slot : InUse(i)}
        n == Cardinality(used)
        Rank(i) == Cardinality({j \in used : j < i})
        nth(k) == CHOOSE i \in used : Rank(i) = k
    IN
    /\ recovery = "requeue"
    /\ recovery' = "connect"
    /\ shadow' = [k \in Slot |->
                     IF k < n THEN [id |-> k, request |-> shadow[nth(k)].request]
                     ELSE FreshShadow[k]]
    /\ sring' = [sring EXCEPT !.ring = [k \in Slot |->
                     IF k < n THEN [id |-> k, req |-> shadow[nth(k)].request,
                                    ok |-> FALSE]
                     ELSE sring.ring[k]]]
    /\ fe' = [fe EXCEPT !.req_prod_pvt = n, !.shadow_free = n]
    /\ UNCHANGED <<beVars, status, done>>

\* The rest of it, under the lock: connected, push, notify, kick.
RecoverConnect ==
    /\ recovery = "connect" /\ fe.pc = "idle"
    /\ recovery' = "no"
    /\ PushRequests([fe EXCEPT !.connected = "connected"], "kick")
    /\ UNCHANGED <<shadow, beVars, status, done>>

-----------------------------------------------------------------------------
\* blkback: connection and the thread, blkif_schedule and do_block_io_op.

\* blkif_map and update_blkif_status.  Binding to the front end's port sets
\* the new port pending: notifications sent so far were dropped.
BackendConnect ==
    /\ ~be.bound
    /\ be' = [be EXCEPT !.bound = TRUE, !.irq = TRUE]
    /\ UNCHANGED <<sring, feVars, pend, ring_lock, status, done>>

\* blkif_be_int
BackendInterrupt ==
    /\ be.irq
    /\ be' = [be EXCEPT !.irq = FALSE, !.waiting_reqs = TRUE]
    /\ UNCHANGED <<sring, feVars, pend, ring_lock, status, done>>

\* wait_event on the work flag, then on the pool of pending requests; then
\* the flag is cleared, before the ring is read.
WaitEvents ==
    /\ be.bound /\ be.pc = "wait" /\ be.waiting_reqs
    /\ be' = IF PendingFree = {} THEN [be EXCEPT !.pc = "pool"]
             ELSE [be EXCEPT !.pc = "read", !.waiting_reqs = FALSE]
    /\ UNCHANGED <<sring, feVars, pend, ring_lock, status, done>>

ReadRequests ==
    /\ be.pc = "read"
    /\ be' = [be EXCEPT !.rp = sring.req_prod, !.pc = "loop"]
    /\ UNCHANGED <<sring, feVars, pend, ring_lock, status, done>>

LoopEnds == be.req_cons = be.rp \/ RequestConsOverflow

\* One request: take an entry of the pool, copy, advance req_cons; pendcnt
\* starts with the count of the last bio.
TakeRequest(p) ==
    LET e == sring.ring[At(be.req_cons)] IN
    /\ be.pc = "loop" /\ ~LoopEnds
    /\ p \in PendingFree
    /\ pend' = [pend EXCEPT ![p] = [FreePending EXCEPT
                    !.pc = "submit", !.id = e.id, !.req = e.req,
                    !.left = MaxBios - 1, !.pendcnt = 1]]
    /\ be' = [be EXCEPT !.req_cons = Succ(be.req_cons), !.pc = "submit"]
    /\ sring' = Taken(be.req_cons)
    /\ UNCHANGED <<feVars, ring_lock, status, done>>

\* An empty pool in the middle of the loop: the thread comes back for more.
PoolEmpty ==
    /\ be.pc = "loop" /\ ~LoopEnds /\ PendingFree = {}
    /\ be' = [be EXCEPT !.pc = "wait", !.waiting_reqs = TRUE, !.rp = 0]
    /\ UNCHANGED <<sring, feVars, pend, ring_lock, status, done>>

LoopDone ==
    /\ be.pc = "loop" /\ LoopEnds
    /\ be' = [be EXCEPT !.pc = "wait", !.rp = 0]
    /\ UNCHANGED <<sring, feVars, pend, ring_lock, status, done>>

-----------------------------------------------------------------------------
\* dispatch_rw_block_io and the completion of bios.

\* A request that cannot be mapped or translated is answered at once.
DispatchFails(p) ==
    /\ "dispatch" \in Faults
    /\ pend[p].pc = "submit" /\ pend[p].left = MaxBios - 1
    /\ pend' = [pend EXCEPT ![p].pc = "respond", ![p].left = 0, ![p].ok = FALSE,
                            ![p].pendcnt = 0, ![p].own = TRUE]
    /\ be' = [be EXCEPT !.pc = "respond"]
    /\ UNCHANGED <<sring, feVars, ring_lock, status, done>>

\* A bio that is not the last one.
\* Mutant: it is not counted.
SubmitBio_NotCounted(p) ==
    /\ pend[p].pc = "submit" /\ pend[p].left > 0
    /\ pend' = [pend EXCEPT ![p].left = pend[p].left - 1,
                            ![p].bios = pend[p].bios + 1]
    /\ UNCHANGED <<sring, feVars, be, ring_lock, status, done>>

SubmitBio(p) ==
    /\ pend[p].pc = "submit" /\ pend[p].left > 0
    /\ pend' = [pend EXCEPT ![p].left = pend[p].left - 1,
                            ![p].pendcnt = pend[p].pendcnt + 1,
                            ![p].bios = pend[p].bios + 1]
    /\ UNCHANGED <<sring, feVars, be, ring_lock, status, done>>

\* Mutant: the request is answered when its last bio is submitted.
SubmitLastBio_Early(p) ==
    /\ pend[p].pc = "submit"
    /\ pend' = [pend EXCEPT ![p].pc = "respond", ![p].left = 0]
    /\ be' = [be EXCEPT !.pc = "loop"]
    /\ UNCHANGED <<sring, feVars, ring_lock, status, done>>

SubmitLastBio(p) ==
    /\ pend[p].pc = "submit"
    /\ pend' = [pend EXCEPT ![p].pc = "io", ![p].left = 0,
                            ![p].bios = pend[p].bios + 1]
    /\ be' = [be EXCEPT !.pc = "loop"]
    /\ UNCHANGED <<sring, feVars, ring_lock, status, done>>

\* __end_block_io_op: an error fails the whole request; who drops the last
\* count answers it.  `to' is where the entry is if others are in flight.
\* Mutant: the status is that of the last bio to end.
EndBlockIo_LastWins(p, q, error, to) ==
    LET cnt == q.pendcnt - 1
        ok == ~error
    IN
    /\ pend' = [pend EXCEPT ![p] = [q EXCEPT !.ok = ok, !.pendcnt = cnt,
                    !.pc = IF cnt = 0 THEN "respond" ELSE to]]
    /\ executed' = IF cnt = 0 /\ q.ok /\ ok THEN executed \union {q.req} ELSE executed
    /\ UNCHANGED outcome

EndBlockIo(p, q, error, to) ==
    LET cnt == q.pendcnt - 1
        ok == q.ok /\ ~error
    IN
    /\ pend' = [pend EXCEPT ![p] = [q EXCEPT !.ok = ok, !.pendcnt = cnt,
                    !.pc = IF cnt = 0 THEN "respond" ELSE to]]
    /\ executed' = IF cnt = 0 /\ ok THEN executed \union {q.req} ELSE executed
    /\ UNCHANGED outcome

\* fail_put_bio: the thread drops its own count.
SubmitFails(p) ==
    /\ "submit" \in Faults
    /\ pend[p].pc = "submit"
    /\ EndBlockIo(p, [pend[p] EXCEPT !.left = 0, !.own = pend[p].pendcnt = 1],
                  TRUE, "io")
    /\ be' = [be EXCEPT !.pc = IF pend[p].pendcnt = 1 THEN "respond" ELSE "loop"]
    /\ UNCHANGED <<sring, feVars, ring_lock, status>>

\* end_block_io_op
BioDone(p, error) ==
    /\ error => "bio" \in Faults
    /\ pend[p].bios > 0
    /\ EndBlockIo(p, [pend[p] EXCEPT !.bios = pend[p].bios - 1], error, pend[p].pc)
    /\ UNCHANGED <<sring, feVars, be, ring_lock, status>>

-----------------------------------------------------------------------------
\* make_response, by the thread or by the last bio.

RespStep(p, from, q) ==
    /\ pend[p].pc = from
    /\ pend' = [pend EXCEPT ![p] = q]
    /\ UNCHANGED <<feVars, status, done>>

PushResponse(p) ==
    /\ ring_lock = {}
    /\ RespStep(p, "respond", [FreePending EXCEPT !.pc = "notify",
                                                   !.own = pend[p].own])
    /\ ring_lock' = {p}
    /\ be' = [be EXCEPT !.rsp_prod_pvt = Succ(be.rsp_prod_pvt)]
    /\ sring' = [sring EXCEPT
                    !.ring[At(be.rsp_prod_pvt)] =
                        [id |-> pend[p].id, req |-> NoRequest, ok |-> pend[p].ok],
                    !.rsp_prod = Succ(be.rsp_prod_pvt)]

\* The decision to notify; __old is one less, for every push is of one.
CheckRspEvent(p) ==
    /\ RespStep(p, "notify", [pend[p] EXCEPT !.pc = "tail",
           !.notify = CheckNotify(Sub(sring.rsp_prod, 1), sring.rsp_prod,
                                  sring.rsp_event)])
    /\ UNCHANGED <<sring, be, ring_lock>>

\* Has everything taken been answered?  If so look for requests as before
\* sleeping (test, set req_event, test again), otherwise test once.
TailCheck(p) ==
    /\ RespStep(p, "tail", [pend[p] EXCEPT
           !.pc = IF be.rsp_prod_pvt = be.req_cons THEN "final" ELSE "plain"])
    /\ UNCHANGED <<sring, be, ring_lock>>

\* A test that ends the critical section: `more_to_do' if there are requests.
LastTest(p, from) ==
    /\ RespStep(p, from, [pend[p] EXCEPT !.pc = "tell",
                                         !.more = UnconsumedRequests > 0])
    /\ ring_lock' = {}
    /\ UNCHANGED <<sring, be>>

FinalTest(p) ==
    IF UnconsumedRequests > 0 THEN LastTest(p, "final")
    ELSE /\ RespStep(p, "final", [pend[p] EXCEPT !.pc = "event"])
         /\ UNCHANGED <<sring, be, ring_lock>>

SetReqEvent(p) ==
    /\ RespStep(p, "event", [pend[p] EXCEPT !.pc = "retest"])
    /\ sring' = [sring EXCEPT !.req_event = Succ(be.req_cons)]
    /\ UNCHANGED <<be, ring_lock>>

FinalRetest(p) == LastTest(p, "retest")
PlainTest(p) == LastTest(p, "plain")

\* blkif_notify_work, notify_remote_via_irq.
Tell(p) ==
    /\ pend[p].pc = "tell"
    /\ pend' = [pend EXCEPT ![p] = [FreePending EXCEPT !.pc = "release",
                                                      !.own = pend[p].own]]
    /\ be' = [be EXCEPT !.waiting_reqs = be.waiting_reqs \/ pend[p].more]
    /\ fe' = [fe EXCEPT !.irq = fe.irq \/ pend[p].notify]
    /\ UNCHANGED <<sring, shadow, recovery, ring_lock, status, done>>

\* free_req wakes the thread if the pool was empty.  A thread that answered
\* the request itself goes on with its loop.
\* Mutant: nobody is woken.
FreeReq_NoWakeup(p) ==
    /\ pend[p].pc = "release"
    /\ pend' = [pend EXCEPT ![p] = FreePending]
    /\ be' = [be EXCEPT !.pc = IF pend[p].own THEN "loop" ELSE be.pc]
    /\ UNCHANGED <<sring, feVars, ring_lock, status, done>>

FreeReq(p) ==
    /\ pend[p].pc = "release"
    /\ pend' = [pend EXCEPT ![p] = FreePending]
    /\ be' = [be EXCEPT !.pc =
           CASE be.pc = "pool" /\ PendingFree = {} -> "wait"
             [] pend[p].own -> "loop"
             [] OTHER -> be.pc]
    /\ UNCHANGED <<sring, feVars, ring_lock, status, done>>

-----------------------------------------------------------------------------
BlockLayer == RunQueue \/ \E r \in Request : Submit(r) \/ SubmitAtBack(r)

\* The holder of blkif_io_lock goes on.
Frontend ==
    \/ \E r \in Request : QueueRequest(r)
    \/ GrantShortage \/ RequestsDone \/ NotifyBackend
    \/ ConsumeResponse \/ ConsumedAll \/ SetRspEvent \/ Retest

Recovery == Recover \/ RecoverConnect

Thread ==
    \/ WaitEvents \/ ReadRequests
    \/ PoolEmpty \/ LoopDone
    \/ \E p \in PendingReq : \/ TakeRequest(p) \/ DispatchFails(p)
                             \/ SubmitBio(p) \/ SubmitLastBio(p)
                             \/ SubmitFails(p)

MakeResponse(p) ==
    \/ PushResponse(p) \/ CheckRspEvent(p) \/ TailCheck(p)
    \/ FinalTest(p) \/ SetReqEvent(p) \/ FinalRetest(p) \/ PlainTest(p)
    \/ Tell(p) \/ FreeReq(p)

Next ==
    \/ BlockLayer \/ Frontend
    \/ GrantsFreed \/ RestartQueue \/ Interrupt
    \/ Connect \/ Resume \/ Recovery
    \/ BackendConnect \/ BackendInterrupt \/ Thread
    \/ \E p \in PendingReq : \/ MakeResponse(p)
                             \/ \E error \in BOOLEAN : BioDone(p, error)

Spec == Init /\ [][Next]_vars

\* Everybody who holds or can get what he needs goes on; interrupts and work
\* are delivered; a queue that is not stopped is unplugged and the elevator
\* starves nobody; the disk answers; the toolstack starts a back end.
Fairness ==
    /\ WF_vars(Frontend) /\ WF_vars(RunQueue)
    /\ \A r \in Request : SF_vars(QueueRequest(r))
    /\ WF_vars(GrantsFreed) /\ SF_vars(RestartQueue) /\ SF_vars(Interrupt)
    /\ WF_vars(Connect) /\ WF_vars(Recover) /\ SF_vars(RecoverConnect)
    /\ WF_vars(BackendConnect) /\ WF_vars(BackendInterrupt) /\ WF_vars(Thread)
    /\ \A p \in PendingReq : WF_vars(MakeResponse(p))
    /\ \A p \in PendingReq : WF_vars(\E error \in BOOLEAN : BioDone(p, error))

FairSpec == Spec /\ Fairness

-----------------------------------------------------------------------------
Outstanding == Sub(fe.req_prod_pvt, fe.rsp_cons)

TypeOK ==
    /\ sring \in [req_prod : Index, req_event : Index, rsp_prod : Index,
                  rsp_event : Index, ring : [Slot -> Entry]]
    /\ fe \in [connected : {"disconnected", "connected", "suspended"},
               req_prod_pvt : Index, rsp_cons : Index,
               shadow_free : Slot \union {EndOfList},
               stopped : BOOLEAN, callback : BOOLEAN, work : BOOLEAN,
               irq : BOOLEAN, queued : BOOLEAN, rp : Index, old : Index,
               after : {"idle", "kick"},
               pc : {"idle", "request", "notify", "consume", "event", "retest"}]
    /\ shadow \in [Slot -> [id : Slot \union {EndOfList},
                            request : Request \union {NoRequest}]]
    /\ recovery \in {"no", "requeue", "connect"}
    /\ be \in [bound : BOOLEAN, irq : BOOLEAN, waiting_reqs : BOOLEAN,
               rsp_prod_pvt : Index, req_cons : Index, rp : Index,
               pc : {"wait", "pool", "read", "loop", "submit",
                     "respond"}]
    /\ pend \in [PendingReq ->
           [pc : {"free", "submit", "io", "respond", "notify",
                  "tail", "final", "plain", "event", "retest", "tell",
                  "release"},
            id : Slot, req : Request \union {NoRequest},
            left : 0 .. MaxBios - 1, pendcnt : 0 .. MaxBios,
            bios : 0 .. MaxBios, ok : BOOLEAN, own : BOOLEAN,
            more : BOOLEAN, notify : BOOLEAN]]
    /\ ring_lock \in SUBSET PendingReq
    /\ status \in [Request -> {"idle", "pending"}]
    /\ executed \in SUBSET Request /\ outcome \in {"ok", "error"}

-----------------------------------------------------------------------------
\* The list of free entries, followed from shadow_free.
FreeAt[n \in 0 .. RingSize] ==
    IF n = 0 THEN fe.shadow_free
    ELSE IF FreeAt[n - 1] = EndOfList THEN EndOfList
    ELSE shadow[FreeAt[n - 1]].id

\* The list of free shadow entries threads exactly the entries that are not in
\* use, once each, and has as many as the ring has places: the BUG_ON of
\* GET_ID_FROM_FREELIST (blkfront.c:451) cannot fire, neither when responses
\* come back in another order nor after blkif_recover has rebuilt the list.
FreeListExact ==
    LET free == {n \in 0 .. RingSize : FreeAt[n] # EndOfList} IN
    /\ {FreeAt[n] : n \in free} = {i \in Slot : ~InUse(i)}
    /\ Cardinality(free) = Cardinality({i \in Slot : ~InUse(i)})
    /\ recovery # "requeue" => Cardinality(free) = RingSize - Outstanding
    /\ fe.pc = "request" /\ fe.connected = "connected" /\ ~RingFull =>
           fe.shadow_free \in Slot

\* Where an id is found: requests in the ring that the back end has not taken,
\* requests that it has, and responses that the front end has not taken.
AsRequest(i, r) ==
    {k \in Slot :
        /\ k < Sub(fe.req_prod_pvt, be.req_cons)
        /\ LET e == sring.ring[At(be.req_cons + k)] IN e.id = i /\ e.req = r}
InBackend(i, r) ==
    {p \in PendingReq :
        /\ pend[p].pc \in {"submit", "io", "respond"}
        /\ pend[p].id = i /\ pend[p].req = r}
AsResponse(i) ==
    {k \in Slot :
        /\ k < Sub(sring.rsp_prod, fe.rsp_cons)
        /\ LET e == sring.ring[At(fe.rsp_cons + k)]
           IN  e.id = i /\ e.req = NoRequest}

Together(A, B, C) ==
    ({"request"} \X A) \cup ({"back end"} \X B) \cup ({"response"} \X C)
Places(i, r) == Together(AsRequest(i, r), InBackend(i, r), AsResponse(i))

\* Requests and responses share the slots of the ring without any lock or
\* flow control of their own: all the same each shadow entry in use is in
\* exactly one place, an intact request in the ring, in the back end, or an
\* intact response, and what it asks for is what the front end will end when
\* the answer comes.  ring.h:149-152 promises this for RING_SIZE()-1 requests
\* in flight; blkfront lets RING_SIZE be.
InFlightOnce ==
    recovery # "requeue" =>
        \A i \in Slot : InUse(i) => Cardinality(Places(i, shadow[i].request)) = 1

\* A front end that rests while there are responses for it will be
\* interrupted: some make_response has yet to find that it must notify, or
\* has found it.
FrontendWoken ==
    fe.connected = "connected" /\ fe.pc = "idle" /\ UnconsumedResponses > 0 =>
        \/ fe.irq
        \/ \E p \in PendingReq :
               \/ pend[p].notify
               \/ /\ pend[p].pc = "notify"
                  /\ CheckNotify(Sub(sring.rsp_prod, 1), sring.rsp_prod,
                                 sring.rsp_event)

\* A back end that rests while there are requests for it will run: an event
\* is on its way or about to be sent, or a request in progress has its tail
\* check ahead of it (blkback.c:606) or is about to report what that found.
BackendWoken ==
    be.bound /\ be.pc = "wait" /\ ~be.waiting_reqs
    /\ sring.req_prod # be.req_cons =>
        \/ be.irq
        \/ fe.pc = "notify" /\ CheckNotify(fe.old, sring.req_prod,
                                           sring.req_event)
        \/ \E p \in PendingReq :
               \/ pend[p].pc \in {"io", "respond", "notify", "tail", "final",
                                  "plain", "event", "retest"}
               \/ pend[p].pc = "tell" /\ pend[p].more

\* A bio reads or writes pages that fast_flush_area unmaps before the
\* response: when a request is answered none of its bios is in flight, also
\* if it was split and one part could not be submitted (blkback.c:511,557).
NoIoBehindResponse ==
    \A p \in PendingReq :
        pend[p].bios > 0 => pend[p].pc \in {"submit", "io"} /\ pend[p].pendcnt > 0

\* The split driver implements a block device: each request ends once, ends
\* well only if its own sectors were transferred, and is not transferred
\* after it has ended, through reordered responses, re-used ids and restores.
Device == INSTANCE BlockDevice
ImplementsDevice == Device!DeviceSpec

\* Every request that the block layer hands down is ended, if restores and
\* shortages of grants do not go on for ever: a stopped queue is restarted, a
\* full ring or an empty pool drains, and a restore loses nothing.
RequestsEnd ==
    <>[](recovery = "no" /\ ~fe.callback) =>
        \A r \in Request : status[r] = "pending" ~> status[r] = "idle"
=============================================================================
