---------------------------- MODULE EventDelivery ----------------------------
(***************************************************************************)
(* How an event reaches a vcpu of a paravirtual guest on x86.              *)
(*                                                                         *)
(* evtchn_set_pending runs on some CPU, without a lock that the vcpu also  *)
(* takes: it sets a bit in shared memory, then a selector bit, then the    *)
(* upcall flag, then wakes or interrupts the vcpu, then looks for pollers. *)
(* Meanwhile the vcpu clears the same bits in the opposite order, masks    *)
(* and unmasks, and goes to sleep in SCHEDOP_block or SCHEDOP_poll.  Each  *)
(* step below is one bit operation or one critical section; x86's locked   *)
(* bit operations are full barriers, and every plain store that matters is *)
(* followed by one, so steps are interleaved atomically.                   *)
(*                                                                         *)
(* Sources: xen/common/event_channel.c, xen/common/schedule.c,             *)
(* xen/arch/x86/domain.c, xen/arch/x86/x86_64/entry.S, and for the guest   *)
(* drivers/xen/core/evtchn.c of the Linux tree.                            *)
(***************************************************************************)
EXTENDS Integers, FiniteSets

CONSTANTS
    Port,        \* event-channel ports of the domain
    Vcpu,        \* its vcpus
    Notify,      \* Notify[p]: notify_vcpu_id of port p
    WordBits,    \* BITS_PER_EVTCHN_WORD
    Sender,      \* CPUs that send events or run timers
    PollSets,    \* the port lists that the guest passes to SCHEDOP_poll
    GuestOps     \* what the guest of a run does

ASSUME PortAssumption == Port \subseteq Nat \ {0} /\ WordBits \in Nat \ {0}
ASSUME VcpuAssumption == /\ Vcpu \subseteq Nat
                         /\ Vcpu \cap Sender = {}
                         /\ Notify \in [Port -> Vcpu]
ASSUME PollAssumption == \A S \in PollSets : S \subseteq Port
                                             /\ IsFiniteSet(S)

VARIABLES
    pending,         \* ports set in shared_info evtchn_pending
    mask,            \* ports set in shared_info evtchn_mask
    sel,             \* sel[v]: words set in evtchn_pending_sel
    upcall_pending,  \* upcall_pending[v]: evtchn_upcall_pending
    upcall_mask,     \* upcall_mask[v]: evtchn_upcall_mask
    blocked,         \* vcpus with _VPF_blocked set
    poll_mask,       \* vcpus set in d->poll_mask
    poll_evtchn,     \* poll_evtchn[v]: 0, -1 (any port) or a port
    poll_timer,      \* vcpus whose poll_timer is set
    runstate,        \* runstate[v]: "running", "runnable" or "blocked"
    is_running,      \* vcpus with is_running set
    kicked,          \* vcpus with VCPU_KICK_SOFTIRQ raised on their CPU
    act,             \* act[a]: where sender or vcpu a is in notifying code
    vc               \* vc[v]: where vcpu v itself is

shared == <<pending, mask, sel, upcall_pending, upcall_mask>>
sleep  == <<blocked, poll_mask, poll_evtchn, poll_timer>>
sched  == <<runstate, is_running, kicked>>
vars   == <<pending, mask, sel, upcall_pending, upcall_mask, blocked,
            poll_mask, poll_evtchn, poll_timer, runstate, is_running, kicked,
            act, vc>>

-----------------------------------------------------------------------------
Actor == Sender \cup Vcpu

Word(p) == p \div WordBits
Words   == {Word(p) : p \in Port}

\* op: which function runs; then: what it does once vcpu_unblock is over.
\* port and v are its arguments, run the saved is_running of vcpu_kick, seen
\* the vcpus that the search for pollers has passed.
ActPc == {"idle", "pending", "mask", "sel", "mark", "kick", "unblock",
          "poll_evtchn", "poll_reset", "poll_mask", "reclear", "wake",
          "ipi", "pollers", "poller", "poller_reset", "unmask", "unmask_test"}

ActState == [pc : ActPc, op : {"none", "send", "unmask", "timer"},
             then : {"none", "ipi", "pollers", "idle"},
             port : Port \cup {0}, v : Vcpu \cup {0},
             run : BOOLEAN, seen : SUBSET Vcpu]

Quiet == [pc |-> "idle", op |-> "none", then |-> "none", port |-> 0, v |-> 0,
          run |-> FALSE, seen |-> {}]

VcPc == {"guest", "ret", "hypercall", "off", "block", "block_test",
         "poll_any", "poll_set", "poll_test", "poll_ports", "out_evtchn",
         "out_mask", "out_blocked", "sched", "upcall", "upcall_sel",
         "upcall_word", "irq_clear", "irq_unmask", "irq_refire",
         "upcall_exit"}

\* ports: what is left to check or handle; polled: the list given to poll;
\* words: the selector bits left; port: the one being handled.
VcState == [pc : VcPc, ports : SUBSET Port, polled : SUBSET Port,
            words : SUBSET Words, port : Port \cup {0}]

Running == [pc |-> "guest", ports |-> {}, polled |-> {}, words |-> {},
            port |-> 0]

Goto(a, pc) == act' = [act EXCEPT ![a].pc = pc]
Step(v, pc) == vc' = [vc EXCEPT ![v].pc = pc]

Issues(op) == op \in GuestOps

\* local_events_need_delivery
NeedDelivery(v) == upcall_pending[v] /\ ~upcall_mask[v]

-----------------------------------------------------------------------------
(* evtchn_set_pending, by actor a.                                         *)

\* A send, a virtual or physical interrupt or an IPI for port p begins.
SendEvent(s, p) ==
    /\ Issues("send")
    /\ act[s].pc = "idle"
    /\ act' = [act EXCEPT ![s] = [Quiet EXCEPT !.pc = "pending", !.op = "send",
                                  !.port = p, !.v = Notify[p]]]
    /\ UNCHANGED <<shared, sleep, sched, vc>>

SetPending(a) ==
    LET p == act[a].port
    IN /\ act[a].pc = "pending"
       /\ pending' = pending \cup {p}
       /\ act' = [act EXCEPT ![a] = IF p \in pending THEN Quiet
                                    ELSE [@ EXCEPT !.pc = "mask"]]
       /\ UNCHANGED <<mask, sel, upcall_pending, upcall_mask, sleep, sched, vc>>

TestMask(a) ==
    /\ act[a].pc = "mask"
    /\ Goto(a, IF act[a].port \in mask THEN "pollers" ELSE "sel")
    /\ UNCHANGED <<shared, sleep, sched, vc>>

\* What follows the notification of the vcpu: evtchn_set_pending goes on to
\* the pollers, evtchn_unmask is over.
AfterNotify(a) == IF act[a].op = "send"
                  THEN [Quiet EXCEPT !.pc = "pollers", !.op = "send",
                                     !.port = act[a].port]
                  ELSE Quiet

\* Mutant: the selector bit is numbered by the port, not by its word.
SetSelector_ByPort(a) ==
    /\ act[a].pc = "sel"
    /\ sel' = [sel EXCEPT ![act[a].v] = @ \cup {act[a].port}]
    /\ Goto(a, "mark")
    /\ UNCHANGED <<pending, mask, upcall_pending, upcall_mask, sleep, sched, vc>>

\* test_and_set_bit of the port's word in evtchn_pending_sel
SetSelector(a) ==
    LET v == act[a].v  w == Word(act[a].port)
    IN /\ act[a].pc = "sel"
       /\ sel' = [sel EXCEPT ![v] = @ \cup {w}]
       /\ act' = [act EXCEPT ![a] = IF w \in sel[v] THEN AfterNotify(a)
                                    ELSE [@ EXCEPT !.pc = "mark"]]
       /\ UNCHANGED <<pending, mask, upcall_pending, upcall_mask, sleep, sched,
                      vc>>

vcpu_mark_events_pending(a) ==
    LET v == act[a].v
    IN /\ act[a].pc = "mark"
       /\ upcall_pending' = [upcall_pending EXCEPT ![v] = TRUE]
       /\ act' = [act EXCEPT ![a] = IF upcall_pending[v] THEN AfterNotify(a)
                                    ELSE [@ EXCEPT !.pc = "kick"]]
       /\ UNCHANGED <<pending, mask, sel, upcall_mask, sleep, sched, vc>>

\* vcpu_kick saves is_running and calls vcpu_unblock.
vcpu_kick(a) ==
    /\ act[a].pc = "kick"
    /\ act' = [act EXCEPT ![a].pc = "unblock", ![a].then = "ipi",
                          ![a].run = act[a].v \in is_running]
    /\ UNCHANGED <<shared, sleep, sched, vc>>

\* The end of vcpu_kick: interrupt the CPU that runs the vcpu.
KickIpi(a) ==
    /\ act[a].pc = "ipi"
    /\ kicked' = IF act[a].run /\ act[a].v # a THEN kicked \cup {act[a].v}
                 ELSE kicked
    /\ act' = [act EXCEPT ![a] = AfterNotify(a)]
    /\ UNCHANGED <<shared, sleep, runstate, is_running, vc>>

\* The pollers that the search has not come to yet, and the first of them:
\* find_next_bit goes upwards and reads poll_mask again in every round.
PollersLeft(a) == {u \in poll_mask \ act[a].seen :
                     \A w \in act[a].seen : w < u}
NextPoller(a) == CHOOSE u \in PollersLeft(a) : \A w \in PollersLeft(a) : u <= w

\* Whether vcpu u may be interested in the port.
Interested(u, p) == poll_evtchn[u] <= 0 \/ poll_evtchn[u] = p

\* One round of the search for pollers.
FindPoller(a) ==
    /\ act[a].pc = "pollers"
    /\ \/ /\ PollersLeft(a) = {}
          /\ act' = [act EXCEPT ![a] = Quiet]
       \/ /\ PollersLeft(a) # {}
          /\ act' = [act EXCEPT ![a] =
               [@ EXCEPT !.v = NextPoller(a),
                         !.seen = act[a].seen \cup {NextPoller(a)},
                         !.pc = IF Interested(NextPoller(a), act[a].port)
                                THEN "poller" ELSE "pollers"]]
    /\ UNCHANGED <<shared, sleep, sched, vc>>

\* test_and_clear_bit(vcpuid, d->poll_mask)
TakePoller(a) ==
    LET v == act[a].v
    IN /\ act[a].pc = "poller"
       /\ poll_mask' = poll_mask \ {v}
       /\ Goto(a, IF v \in poll_mask THEN "poller_reset" ELSE "pollers")
       /\ UNCHANGED <<shared, blocked, poll_evtchn, poll_timer, sched, vc>>

ResetPoller(a) ==
    /\ act[a].pc = "poller_reset"
    /\ poll_evtchn' = [poll_evtchn EXCEPT ![act[a].v] = 0]
    /\ act' = [act EXCEPT ![a].pc = "unblock", ![a].then = "pollers"]
    /\ UNCHANGED <<shared, blocked, poll_mask, poll_timer, sched, vc>>

\* poll_timer_fn, when the timer that SCHEDOP_poll set expires.
poll_timer_fn(s, v) ==
    /\ act[s].pc = "idle"
    /\ v \in poll_timer
    /\ poll_timer' = poll_timer \ {v}
    /\ poll_mask' = poll_mask \ {v}
    /\ act' = IF v \in poll_mask
              THEN [act EXCEPT ![s] = [Quiet EXCEPT !.pc = "unblock",
                                 !.op = "timer", !.then = "idle", !.v = v]]
              ELSE act
    /\ UNCHANGED <<shared, blocked, poll_evtchn, sched, vc>>

-----------------------------------------------------------------------------
(* vcpu_unblock, by actor a, for vcpu act[a].v.                            *)

UnblockReturned(a) == IF act[a].then = "idle" THEN Quiet
                      ELSE [act[a] EXCEPT !.pc = act[a].then, !.then = "none"]

\* test_and_clear_bit(_VPF_blocked): nothing to do if it was clear.
Unblock(a) ==
    LET v == act[a].v
    IN /\ act[a].pc = "unblock"
       /\ blocked' = blocked \ {v}
       /\ act' = [act EXCEPT ![a] = IF v \in blocked
                                    THEN [@ EXCEPT !.pc = "poll_evtchn"]
                                    ELSE UnblockReturned(a)]
       /\ UNCHANGED <<shared, poll_mask, poll_evtchn, poll_timer, sched, vc>>

TestPolling(a) ==
    /\ act[a].pc = "poll_evtchn"
    /\ Goto(a, IF poll_evtchn[act[a].v] # 0 THEN "poll_reset" ELSE "wake")
    /\ UNCHANGED <<shared, sleep, sched, vc>>

EndPolling(a) ==
    /\ act[a].pc = "poll_reset"
    /\ poll_evtchn' = [poll_evtchn EXCEPT ![act[a].v] = 0]
    /\ Goto(a, "poll_mask")
    /\ UNCHANGED <<shared, blocked, poll_mask, poll_timer, sched, vc>>

ClearPollMask(a) ==
    LET v == act[a].v
    IN /\ act[a].pc = "poll_mask"
       /\ poll_mask' = poll_mask \ {v}
       /\ Goto(a, IF v \in poll_mask THEN "reclear" ELSE "wake")
       /\ UNCHANGED <<shared, blocked, poll_evtchn, poll_timer, sched, vc>>

\* Mutant: _VPF_blocked is not cleared a second time.
ReclearBlocked_Skip(a) ==
    /\ act[a].pc = "reclear"
    /\ Goto(a, "wake")
    /\ UNCHANGED <<shared, sleep, sched, vc>>

\* The vcpu may have gone back to sleep, relying on the poll_mask bit that was
\* just taken from it.
ReclearBlocked(a) ==
    /\ act[a].pc = "reclear"
    /\ blocked' = blocked \ {act[a].v}
    /\ Goto(a, "wake")
    /\ UNCHANGED <<shared, poll_mask, poll_evtchn, poll_timer, sched, vc>>

\* vcpu_wake, under the schedule lock.
vcpu_wake(a) ==
    LET v == act[a].v
    IN /\ act[a].pc = "wake"
       /\ runstate' = IF v \notin blocked /\ runstate[v] = "blocked"
                      THEN [runstate EXCEPT ![v] = "runnable"] ELSE runstate
       /\ act' = [act EXCEPT ![a] = UnblockReturned(a)]
       /\ UNCHANGED <<shared, sleep, is_running, kicked, vc>>

Notifying(a) ==
    \/ SetPending(a)   \/ TestMask(a)       \/ SetSelector(a)
    \/ vcpu_mark_events_pending(a)          \/ vcpu_kick(a)
    \/ KickIpi(a)      \/ FindPoller(a)     \/ TakePoller(a)
    \/ ResetPoller(a)  \/ Unblock(a)        \/ TestPolling(a)
    \/ EndPolling(a)   \/ ClearPollMask(a)  \/ ReclearBlocked(a)
    \/ vcpu_wake(a)

-----------------------------------------------------------------------------
(* The vcpu in Xen: do_block, do_poll, schedule and the return to guest.   *)

\* SCHEDOP_block enables upcalls ...
do_block(v) ==
    /\ Issues("block")
    /\ vc[v].pc = "guest"
    /\ upcall_mask' = [upcall_mask EXCEPT ![v] = FALSE]
    /\ Step(v, "block")
    /\ UNCHANGED <<pending, mask, sel, upcall_pending, sleep, sched, act>>

\* ... says that the vcpu is blocked ...
BlockSet(v) ==
    /\ vc[v].pc = "block"
    /\ blocked' = blocked \cup {v}
    /\ Step(v, "block_test")
    /\ UNCHANGED <<shared, poll_mask, poll_evtchn, poll_timer, sched, act>>

\* Mutant: events are not looked at again after blocking.
BlockTest_None(v) ==
    /\ vc[v].pc = "block_test"
    /\ Step(v, "sched")
    /\ UNCHANGED <<shared, sleep, sched, act>>

\* ... and only then looks for events, to avoid the wakeup-waiting race.
BlockTest(v) ==
    /\ vc[v].pc = "block_test"
    /\ blocked' = IF NeedDelivery(v) THEN blocked \ {v} ELSE blocked
    /\ Step(v, IF NeedDelivery(v) THEN "ret" ELSE "sched")
    /\ UNCHANGED <<shared, poll_mask, poll_evtchn, poll_timer, sched, act>>

\* SCHEDOP_poll for the ports of S, which may be none; a list that is too long
\* or not in guest memory is refused before anything is written.
do_poll(v, S) ==
    /\ Issues("poll")
    /\ vc[v].pc = "guest"
    /\ blocked' = blocked \cup {v}
    /\ vc' = [vc EXCEPT ![v] = [Running EXCEPT !.pc = "poll_any",
                                               !.ports = S, !.polled = S]]
    /\ UNCHANGED <<shared, poll_mask, poll_evtchn, poll_timer, sched, act>>

PollAny(v) ==
    /\ vc[v].pc = "poll_any"
    /\ poll_evtchn' = [poll_evtchn EXCEPT ![v] = -1]
    /\ Step(v, "poll_set")
    /\ UNCHANGED <<shared, blocked, poll_mask, poll_timer, sched, act>>

PollSet(v) ==
    /\ vc[v].pc = "poll_set"
    /\ poll_mask' = poll_mask \cup {v}
    /\ Step(v, "poll_test")
    /\ UNCHANGED <<shared, blocked, poll_evtchn, poll_timer, sched, act>>

PollTest(v) ==
    /\ vc[v].pc = "poll_test"
    /\ Step(v, IF NeedDelivery(v) THEN "out_evtchn" ELSE "poll_ports")
    /\ UNCHANGED <<shared, sleep, sched, act>>

\* Mutant: the pending bits of the polled ports are not tested.
PollPort_None(v) ==
    /\ vc[v].pc = "poll_ports" /\ vc[v].ports # {}
    /\ vc' = [vc EXCEPT ![v].ports = {}]
    /\ UNCHANGED <<shared, sleep, sched, act>>

\* The next port of the list: leave if it is pending, or if the guest's list
\* cannot be read there or names no port (-EFAULT and -EINVAL).
PollPort(v) ==
    /\ vc[v].pc = "poll_ports"
    /\ \E p \in vc[v].ports :
         \/ (p \in pending \/ Issues("bad_port")) /\ Step(v, "out_evtchn")
         \/ p \notin pending /\ vc' = [vc EXCEPT ![v].ports = @ \ {p}]
    /\ UNCHANGED <<shared, sleep, sched, act>>

\* A list of one port is remembered, and the timer is set if there is a
\* timeout.
PollSleep(v) ==
    LET S == vc[v].polled
    IN /\ vc[v].pc = "poll_ports" /\ vc[v].ports = {}
       /\ poll_evtchn' = IF Cardinality(S) = 1
                         THEN [poll_evtchn EXCEPT ![v] = CHOOSE p \in S : TRUE]
                         ELSE poll_evtchn
       /\ poll_timer' \in {poll_timer} \cup
                          (IF Issues("timeout") THEN {poll_timer \cup {v}}
                           ELSE {})
       /\ Step(v, "sched")
       /\ UNCHANGED <<shared, blocked, poll_mask, sched, act>>

\* Label out, one write at a time.
PollOut(v) ==
    \/ /\ vc[v].pc = "out_evtchn"
       /\ poll_evtchn' = [poll_evtchn EXCEPT ![v] = 0]
       /\ Step(v, "out_mask")
       /\ UNCHANGED <<shared, blocked, poll_mask, poll_timer, sched, act>>
    \/ /\ vc[v].pc = "out_mask"
       /\ poll_mask' = poll_mask \ {v}
       /\ Step(v, "out_blocked")
       /\ UNCHANGED <<shared, blocked, poll_evtchn, poll_timer, sched, act>>
    \/ /\ vc[v].pc = "out_blocked"
       /\ blocked' = blocked \ {v}
       /\ Step(v, "ret")
       /\ UNCHANGED <<shared, poll_mask, poll_evtchn, poll_timer, sched, act>>

\* schedule: a vcpu that is still blocked leaves the CPU.
Deschedule(v) ==
    /\ vc[v].pc = "sched"
    /\ \/ /\ v \in blocked
          /\ runstate' = [runstate EXCEPT ![v] = "blocked"]
          /\ Step(v, "off")
       \/ /\ v \notin blocked
          /\ Step(v, "ret")
          /\ UNCHANGED runstate
    /\ UNCHANGED <<shared, sleep, is_running, kicked, act>>

\* A vcpu in the guest loses its CPU to another one.
Preempt(v) ==
    /\ Issues("preempt")
    /\ vc[v].pc = "guest"
    /\ runstate' = [runstate EXCEPT ![v] = "runnable"]
    /\ Step(v, "off")
    /\ UNCHANGED <<shared, sleep, is_running, kicked, act>>

\* context_saved: is_running is cleared after the switch.
context_saved(v) ==
    /\ vc[v].pc = "off" /\ v \in is_running
    /\ is_running' = is_running \ {v}
    /\ UNCHANGED <<shared, sleep, runstate, kicked, act, vc>>

\* schedule picks the vcpu again: it resumes on its way to the guest.
ScheduleIn(v) ==
    /\ vc[v].pc = "off" /\ v \notin is_running
    /\ runstate[v] = "runnable"
    /\ runstate' = [runstate EXCEPT ![v] = "running"]
    /\ is_running' = is_running \cup {v}
    /\ vc' = [vc EXCEPT ![v] = [Running EXCEPT !.pc = "ret"]]
    /\ UNCHANGED <<shared, sleep, kicked, act>>

\* test_all_events: softirqs first, then the upcall.
ReturnToGuest(v) ==
    /\ vc[v].pc = "ret"
    /\ kicked' = kicked \ {v}
    /\ upcall_mask' = [upcall_mask EXCEPT ![v] = @ \/ NeedDelivery(v)]
    /\ vc' = [vc EXCEPT ![v] = [Running EXCEPT
                !.pc = IF NeedDelivery(v) THEN "upcall" ELSE "guest"]]
    /\ UNCHANGED <<pending, mask, sel, upcall_pending, sleep, runstate,
                   is_running, act>>

\* The interrupt of VCPU_KICK_SOFTIRQ brings a running vcpu into Xen.
TakeKick(v) ==
    /\ vc[v].pc = "guest" /\ v \in kicked
    /\ Step(v, "ret")
    /\ UNCHANGED <<shared, sleep, sched, act>>

-----------------------------------------------------------------------------
(* The guest.                                                              *)

\* evtchn_do_upcall clears the upcall flag, then takes the selector ...
UpcallEnter(v) ==
    /\ vc[v].pc = "upcall"
    /\ upcall_pending' = [upcall_pending EXCEPT ![v] = FALSE]
    /\ Step(v, "upcall_sel")
    /\ UNCHANGED <<pending, mask, sel, upcall_mask, sleep, sched, act>>

UpcallSelector(v) ==
    /\ vc[v].pc = "upcall_sel"
    /\ sel' = [sel EXCEPT ![v] = {}]
    /\ vc' = [vc EXCEPT ![v] = [Running EXCEPT !.pc = "upcall_word",
                                               !.words = sel[v]]]
    /\ UNCHANGED <<pending, mask, upcall_pending, upcall_mask, sleep, sched,
                   act>>

\* ... and reads each word of it once (active_evtchns) ...
UpcallWord(v) ==
    /\ vc[v].pc = "upcall_word" /\ vc[v].ports = {}
    /\ \E w \in vc[v].words :
         vc' = [vc EXCEPT ![v].words = @ \ {w},
                          ![v].ports = {p \in pending \ mask :
                                          Word(p) = w /\ Notify[p] = v}]
    /\ UNCHANGED <<shared, sleep, sched, act>>

\* ... handles the active ports: do_IRQ begins with ack_dynirq, which masks ...
IrqMask(v) ==
    /\ vc[v].pc = "upcall_word"
    /\ \E p \in vc[v].ports :
         /\ mask' = mask \cup {p}
         /\ vc' = [vc EXCEPT ![v].ports = @ \ {p}, ![v].port = p,
                             ![v].pc = "irq_clear"]
    /\ UNCHANGED <<pending, sel, upcall_pending, upcall_mask, sleep, sched,
                   act>>

\* ... and clears the event, and the handler runs.  end_dynirq then unmasks the
\* port, unless the irq has been disabled meanwhile (IRQ_DISABLED): enable_dynirq
\* will do it.
IrqClear(v) ==
    /\ vc[v].pc = "irq_clear"
    /\ pending' = pending \ {vc[v].port}
    /\ \/ Step(v, "irq_unmask")
       \/ /\ Issues("mask")
          /\ vc' = [vc EXCEPT ![v].pc = "upcall_word", ![v].port = 0]
    /\ UNCHANGED <<mask, sel, upcall_pending, upcall_mask, sleep, sched, act>>

\* unmask_evtchn of end_dynirq or enable_dynirq: the port is local ...
IrqUnmask(v) ==
    /\ vc[v].pc = "irq_unmask"
    /\ mask' = mask \ {vc[v].port}
    /\ Step(v, "irq_refire")
    /\ UNCHANGED <<pending, sel, upcall_pending, upcall_mask, sleep, sched,
                   act>>

\* Mutant: an edge missed while the port was masked is not re-fired.
IrqRefire_None(v) ==
    /\ vc[v].pc = "irq_refire"
    /\ Step(v, "upcall_word")
    /\ UNCHANGED <<shared, sleep, sched, act>>

\* ... and an edge missed meanwhile is re-fired.
IrqRefire(v) ==
    LET p == vc[v].port
        missed == p \in pending /\ Word(p) \notin sel[v]
    IN /\ vc[v].pc = "irq_refire"
       /\ sel' = IF p \in pending THEN [sel EXCEPT ![v] = @ \cup {Word(p)}]
                 ELSE sel
       /\ upcall_pending' = [upcall_pending EXCEPT ![v] = @ \/ missed]
       /\ vc' = [vc EXCEPT ![v].pc = "upcall_word", ![v].port = 0]
       /\ UNCHANGED <<pending, mask, upcall_mask, sleep, sched, act>>

\* The end of the upcall: nothing is left, enable upcalls ...
UpcallEnable(v) ==
    /\ vc[v].pc = "upcall_word" /\ vc[v].ports = {} /\ vc[v].words = {}
    /\ upcall_mask' = [upcall_mask EXCEPT ![v] = FALSE]
    /\ Step(v, "upcall_exit")
    /\ UNCHANGED <<pending, mask, sel, upcall_pending, sleep, sched, act>>

\* ... and start over if one came meanwhile.
UpcallExit(v) ==
    /\ vc[v].pc = "upcall_exit"
    /\ upcall_mask' = [upcall_mask EXCEPT ![v] = upcall_pending[v]]
    /\ vc' = [vc EXCEPT ![v] = [Running EXCEPT
                !.pc = IF upcall_pending[v] THEN "upcall" ELSE "guest"]]
    /\ UNCHANGED <<pending, mask, sel, upcall_pending, sleep, sched, act>>

\* local_irq_disable, and local_irq_enable with its test for missed upcalls.
GuestIrqOff(v) ==
    /\ Issues("irq_off")
    /\ vc[v].pc = "guest" /\ ~upcall_mask[v]
    /\ upcall_mask' = [upcall_mask EXCEPT ![v] = TRUE]
    /\ UNCHANGED <<pending, mask, sel, upcall_pending, sleep, sched, act, vc>>

GuestIrqOn(v) ==
    /\ vc[v].pc = "guest" /\ upcall_mask[v]
    /\ upcall_mask' = [upcall_mask EXCEPT ![v] = FALSE]
    /\ Step(v, "upcall_exit")
    /\ UNCHANGED <<pending, mask, sel, upcall_pending, sleep, sched, act>>

\* disable_dynirq
GuestMask(v, p) ==
    /\ Issues("mask")
    /\ vc[v].pc = "guest" /\ p \notin mask
    /\ mask' = mask \cup {p}
    /\ UNCHANGED <<pending, sel, upcall_pending, upcall_mask, sleep, sched,
                   act, vc>>

\* enable_dynirq on the vcpu of the port: unmask_evtchn with upcalls disabled.
GuestUnmask(v, p) ==
    /\ vc[v].pc = "guest" /\ p \in mask
    /\ Notify[p] = v /\ ~upcall_mask[v]
    /\ upcall_mask' = [upcall_mask EXCEPT ![v] = TRUE]
    /\ vc' = [vc EXCEPT ![v] = [Running EXCEPT !.pc = "irq_unmask",
                                               !.port = p]]
    /\ UNCHANGED <<pending, mask, sel, upcall_pending, sleep, sched, act>>

\* enable_dynirq on another vcpu: the EVTCHNOP_unmask hypercall.
GuestUnmaskRemote(v, p) ==
    /\ vc[v].pc = "guest" /\ p \in mask
    /\ Notify[p] # v
    /\ Step(v, "hypercall")
    /\ act' = [act EXCEPT ![v] = [Quiet EXCEPT !.pc = "unmask", !.op = "unmask",
                                  !.port = p, !.v = Notify[p]]]
    /\ UNCHANGED <<shared, sleep, sched>>

\* evtchn_unmask, under the event_lock: clear the mask bit, then look for an
\* edge that was missed.
evtchn_unmask(v) ==
    LET p == act[v].port
    IN \/ /\ act[v].pc = "unmask"
          /\ mask' = mask \ {p}
          /\ act' = [act EXCEPT ![v] = IF p \in mask
                                       THEN [@ EXCEPT !.pc = "unmask_test"]
                                       ELSE Quiet]
          /\ UNCHANGED <<pending, sel, upcall_pending, upcall_mask, sleep,
                         sched, vc>>
       \/ /\ act[v].pc = "unmask_test"
          /\ act' = [act EXCEPT ![v] = IF p \in pending
                                       THEN [@ EXCEPT !.pc = "sel"]
                                       ELSE Quiet]
          /\ UNCHANGED <<shared, sleep, sched, vc>>

HypercallDone(v) ==
    /\ vc[v].pc = "hypercall" /\ act[v].pc = "idle"
    /\ Step(v, "ret")
    /\ UNCHANGED <<shared, sleep, sched, act>>

\* The guest polls a masked port: it consumes the event itself.
GuestClear(v, p) ==
    /\ vc[v].pc = "guest" /\ p \in pending \cap mask
    /\ pending' = pending \ {p}
    /\ UNCHANGED <<mask, sel, upcall_pending, upcall_mask, sleep, sched, act,
                   vc>>

-----------------------------------------------------------------------------
Init ==
    /\ pending = {} /\ mask = {}
    /\ sel = [v \in Vcpu |-> {}]
    /\ upcall_pending = [v \in Vcpu |-> FALSE]
    /\ upcall_mask = [v \in Vcpu |-> FALSE]
    /\ blocked = {} /\ poll_mask = {} /\ poll_timer = {}
    /\ poll_evtchn = [v \in Vcpu |-> 0]
    /\ runstate = [v \in Vcpu |-> "running"]
    /\ is_running = Vcpu /\ kicked = {}
    /\ act = [a \in Actor |-> Quiet]
    /\ vc = [v \in Vcpu |-> Running]

\* What Xen does for a vcpu once it has been entered, and the scheduler.
XenStep(v) ==
    \/ BlockSet(v)      \/ BlockTest(v)     \/ PollAny(v)   \/ PollSet(v)
    \/ PollTest(v)      \/ PollPort(v)      \/ PollSleep(v) \/ PollOut(v)
    \/ Deschedule(v)    \/ context_saved(v) \/ ScheduleIn(v)
    \/ ReturnToGuest(v) \/ TakeKick(v)      \/ evtchn_unmask(v)
    \/ HypercallDone(v)

\* What the guest does in an upcall or while it has upcalls disabled.
UpcallStep(v) ==
    \/ UpcallEnter(v) \/ UpcallSelector(v) \/ UpcallWord(v) \/ IrqMask(v)
    \/ IrqClear(v)    \/ IrqUnmask(v)      \/ IrqRefire(v)
    \/ UpcallEnable(v) \/ UpcallExit(v)

\* What the guest may do.
GuestStep(v) ==
    \/ do_block(v) \/ Preempt(v) \/ GuestIrqOff(v) \/ GuestIrqOn(v)
    \/ \E S \in PollSets : do_poll(v, S)
    \/ \E p \in Port : \/ GuestMask(v, p)         \/ GuestUnmask(v, p)
                       \/ GuestUnmaskRemote(v, p) \/ GuestClear(v, p)

SenderStep(s) ==
    \/ \E p \in Port : SendEvent(s, p)
    \/ \E v \in Vcpu : poll_timer_fn(s, v)

Next == \/ \E a \in Actor : Notifying(a)
        \/ \E s \in Sender : SenderStep(s)
        \/ \E v \in Vcpu : XenStep(v) \/ UpcallStep(v) \/ GuestStep(v)

\* Code that has begun runs on, the scheduler serves every runnable vcpu, and
\* a guest finishes its upcalls; nothing obliges anyone to send or to sleep.
Fairness == /\ \A a \in Actor : WF_vars(Notifying(a))
            /\ \A v \in Vcpu : WF_vars(XenStep(v)) /\ WF_vars(UpcallStep(v))

Spec == Init /\ [][Next]_vars /\ Fairness

-----------------------------------------------------------------------------
(* Properties.                                                             *)

\* Every variable has the type its declaration in the C source gives it.
TypeOK ==
    /\ pending \subseteq Port /\ mask \subseteq Port
    /\ sel \in [Vcpu -> SUBSET Words]
    /\ upcall_pending \in [Vcpu -> BOOLEAN]
    /\ upcall_mask \in [Vcpu -> BOOLEAN]
    /\ blocked \subseteq Vcpu /\ poll_mask \subseteq Vcpu
    /\ poll_timer \subseteq Vcpu
    /\ poll_evtchn \in [Vcpu -> Port \cup {0, -1}]
    /\ runstate \in [Vcpu -> {"running", "runnable", "blocked"}]
    /\ is_running \subseteq Vcpu /\ kicked \subseteq Vcpu
    /\ act \in [Actor -> ActState]
    /\ vc \in [Vcpu -> VcState]

InFlight == \E a \in Actor : act[a].pc # "idle"

Asleep(v) == vc[v].pc = "off" /\ runstate[v] = "blocked"

\* The vcpu sleeps although what it waits for has happened.
MustWake(v) == Asleep(v) /\ (NeedDelivery(v) \/ vc[v].polled \cap pending # {})

\* There is no wakeup-waiting race: when nobody is notifying, a vcpu sleeps
\* only if it has no event to deliver, no port that it polls is pending, and
\* _VPF_blocked is still set for the next event to find.
NoLostWakeup ==
    \A v \in Vcpu : Asleep(v) /\ ~InFlight => ~MustWake(v) /\ v \in blocked

UpcallPcs == {"upcall", "upcall_sel", "upcall_word", "irq_clear",
              "irq_unmask", "irq_refire"}

\* No edge is lost between the three levels of bits: outside an upcall, when
\* nobody is notifying, every active port has its selector bit set, every
\* selector bit has the upcall flag set, and a vcpu that is running the guest
\* with the flag set has been interrupted.
NoLostEdge ==
    \A v \in Vcpu :
      ~InFlight /\ vc[v].pc \notin UpcallPcs =>
        /\ \A p \in pending \ mask : Notify[p] = v => Word(p) \in sel[v]
        /\ sel[v] # {} => upcall_pending[v]
        /\ vc[v].pc = "guest" /\ NeedDelivery(v) => v \in kicked

\* A sleeping vcpu whose event has come is woken.
SleepersWake == \A v \in Vcpu : MustWake(v) ~> ~Asleep(v)

\* Every event of an unmasked port is handled, whatever its vcpu does, unless
\* from some time on the guest keeps its upcalls disabled: enabling them for
\* an instant is enough, because local_irq_enable and the end of the upcall
\* look at evtchn_upcall_pending again.
EventsHandled ==
    \A p \in Port : []<>(~upcall_mask[Notify[p]]) =>
                        (p \in pending ~> p \notin pending)

\* "Polling period ends when a VCPU is unblocked": a vcpu that has returned to
\* the guest, with nobody waking it, is no longer registered as a poller.
PollEndsWhenUnblocked ==
    \A v \in Vcpu : vc[v].pc = "guest" /\ ~InFlight => v \notin poll_mask
=============================================================================
