---------------------------- MODULE EventChannel ----------------------------
(***************************************************************************)
(* The event-channel port tables of the Xen hypervisor, as kept by         *)
(* xen/common/event_channel.c and driven by the domain lifecycle of        *)
(* xen/common/domain.c.                                                    *)
(*                                                                         *)
(* Every domain has a table of ports under its event_lock.  A port is      *)
(* free, waits for a peer (UNBOUND), is linked to a port of a domain       *)
(* (INTERDOMAIN), or is bound to a physical interrupt, a virtual interrupt *)
(* or an IPI.  Linking and unlinking touch the tables of two domains, so   *)
(* they take two locks; closing may have to drop the lock it holds to      *)
(* respect the order, and starts again.  A `thread' is a CPU that is in    *)
(* the middle of an operation which is not one critical section; an        *)
(* operation that is one critical section is one step, enabled while the   *)
(* lock is free.                                                           *)
(*                                                                         *)
(* How a pending bit reaches a running guest is module EventDelivery's     *)
(* subject; here evtchn_set_pending only sets the bit.                     *)
(***************************************************************************)
EXTENDS Integers, FiniteSets

CONSTANTS
    Domain,       \* domain ids; `<' stands for the order of the domain structs
    Dom0,         \* the privileged domain: it is never killed
    Thread,       \* CPUs that may be inside a multi-step operation
    Vcpu,         \* vcpu ids an event channel may notify
    MaxEvtchns,   \* MAX_EVTCHNS(d)
    PerBucket,    \* EVTCHNS_PER_BUCKET
    Virq,         \* virtual interrupts
    GlobalVirq,   \* those for which virq_is_global
    DomExc,       \* VIRQ_DOM_EXC
    Pirq,         \* physical interrupts
    GuestOps,     \* the operations that the guests of a run issue
    None          \* no domain, thread, port, ...

ASSUME DomainAssumption == Domain \subseteq Nat /\ Dom0 \in Domain
ASSUME PortAssumption == /\ PerBucket \in Nat \ {0}
                         /\ MaxEvtchns \in Nat
                         /\ \E n \in 1 .. MaxEvtchns : MaxEvtchns = n * PerBucket
ASSUME VcpuAssumption == Vcpu \subseteq Nat /\ 0 \in Vcpu
ASSUME VirqAssumption == GlobalVirq \subseteq Virq /\ DomExc \in GlobalVirq
ASSUME ThreadAssumption == IsFiniteSet(Thread)
ASSUME NoneAssumption == /\ None \notin Domain /\ None \notin Thread
                         /\ None \notin Nat    /\ None \notin Virq
                         /\ None \notin Pirq

VARIABLES
    evtchn,          \* evtchn[d][p]: struct evtchn of port p of domain d
    nr_ports,        \* nr_ports[d]: ports whose bucket is allocated
    virq_to_evtchn,  \* virq_to_evtchn[d][v][irq]: a port, 0 for none
    pirq_to_evtchn,  \* pirq_to_evtchn[d][irq]: a port, 0 for none
    pending,         \* pending[d]: ports set in shared_info evtchn_pending
    life,            \* life[d]: is_dying and the stages of destruction
    refcnt,          \* refcnt[d]: references to the domain struct
    event_lock,      \* event_lock[d]: the thread that holds it, or None
    virq_lock,       \* virq_lock[d][v]: the thread that holds it, or None
    xen_port,        \* xen_port[d][v]: hvm_vcpu.xen_port, 0 for none
    in_xen,          \* in_xen[d]: vcpus with _VPF_blocked_in_xen set
    owed,            \* owed[d]: ports a notification was dropped on (history)
    thr              \* thr[t]: where thread t is, and its local variables

tables == <<evtchn, nr_ports>>
irqs   == <<virq_to_evtchn, pirq_to_evtchn>>
events == <<pending, owed, in_xen>>
doms   == <<life, refcnt>>
locks  == <<event_lock, virq_lock>>
vars   == <<evtchn, nr_ports, virq_to_evtchn, pirq_to_evtchn, pending, life,
            refcnt, event_lock, virq_lock, xen_port, in_xen, owed, thr>>

-----------------------------------------------------------------------------
(* Data structures.                                                        *)

Port == 0 .. MaxEvtchns - 1

\* The numbers of ports that whole buckets make up.
BucketEnds == {n \in 0 .. MaxEvtchns : \E k \in 0 .. n : n = k * PerBucket}

EcsState == {"FREE", "RESERVED", "UNBOUND", "INTERDOMAIN", "PIRQ", "VIRQ",
             "IPI"}

\* struct evtchn.  The union keeps only the member its state gives meaning to:
\* dom is unbound.remote_domid or interdomain.remote_dom, irq is pirq or virq.
ChanRecord == [state : EcsState, dom : Domain \cup {None},
               port : Port \cup {None}, irq : Virq \cup Pirq \cup {None},
               vcpu : Vcpu, xen : BOOLEAN]

Chan == {c \in ChanRecord : c.state = "INTERDOMAIN" =>
                               c.dom \in Domain /\ c.port \in Port}

Channel(state, dom, port, irq, vcpu, xen) ==
    [state |-> state, dom |-> dom, port |-> port, irq |-> irq, vcpu |-> vcpu,
     xen |-> xen]

FreeChan == Channel("FREE", None, None, None, 0, FALSE)

EmptyTable == [p \in Port |-> FreeChan]

\* What evtchn_init leaves: the first bucket, with port 0 reserved.
InitTable == [EmptyTable EXCEPT ![0] =
                  Channel("RESERVED", None, None, None, 0, FALSE)]

NoVirqs == [v \in Vcpu |-> [i \in Virq |-> 0]]
NoPirqs == [i \in Pirq |-> 0]

Pc == {"idle", "alloc", "bind", "close", "close_lower", "close_higher",
       "close_virq", "reset_next", "destroy_barrier", "destroy_next",
       "free_xen", "notify", "virq", "virq_set"}

\* The operation that a thread is in: who called __evtchn_close, or which
\* kind of port is being allocated.
Caller == {"none", "guest", "xen", "reset", "destroy"}

\* cur is current->domain; d and p the domain and port worked on; d2 the
\* second domain (referenced by a close, the remote of a bind, the remote_domid
\* of an allocation); v and irq the vcpu and interrupt.
ThreadRecord == [pc : Pc, caller : Caller, cur : Domain \cup {None},
                 d : Domain \cup {None}, p : Nat, d2 : Domain \cup {None},
                 v : Vcpu \cup {None}, irq : Virq \cup {None}]

\* What is set while a thread is at a given place.
ThreadState ==
    {s \in ThreadRecord :
       /\ s.pc # "idle" => s.d \in Domain
       /\ s.pc \in {"alloc", "bind", "close_lower", "close_higher"} =>
            s.d2 \in Domain
       /\ s.pc \in {"alloc", "free_xen", "notify", "virq_set", "close_virq",
                    "close_higher"} => s.p \in Port
       /\ s.pc \in {"virq", "virq_set"} => s.v \in Vcpu /\ s.irq \in Virq
       /\ s.pc = "alloc" /\ s.caller = "xen" => s.v \in Vcpu}

At(pc, caller, cur, d, p, d2, v, irq) ==
    [pc |-> pc, caller |-> caller, cur |-> cur, d |-> d, p |-> p, d2 |-> d2,
     v |-> v, irq |-> irq]

Idle == At("idle", "none", None, None, 0, None, None, None)

Life == {"absent", "alive", "dying", "dead", "destroyed"}

-----------------------------------------------------------------------------
(* Helpers.                                                                *)

port_is_valid(d, p) == p < nr_ports[d]

State(d, p) == evtchn[d][p].state

\* Thread t goes on at pc with its local variables unchanged.
Goto(t, pc) == At(pc, thr[t].caller, thr[t].cur, thr[t].d, thr[t].p, thr[t].d2,
                  thr[t].v, thr[t].irq)

\* Mutant: get_free_port without its is_dying check.
get_free_port_IgnoreDying(d, p) ==
    /\ p \in Port
    /\ \A q \in Port : q < p => State(d, q) # "FREE"
    /\ \/ port_is_valid(d, p) /\ State(d, p) = "FREE"
       \/ p = nr_ports[d]

\* get_free_port: the lowest free port, or the first one of a new bucket.
get_free_port(d, p) ==
    /\ life[d] = "alive"
    /\ p \in Port
    /\ \A q \in Port : q < p => State(d, q) # "FREE"
    /\ \/ port_is_valid(d, p) /\ State(d, p) = "FREE"
       \/ p = nr_ports[d]

\* Mutant: two buckets are counted where one is installed.
Grown_Twice(d, p) == IF port_is_valid(d, p) THEN nr_ports
                     ELSE [nr_ports EXCEPT ![d] = @ + 2 * PerBucket]

\* The bucket that get_free_port installs; it stays whatever the caller does
\* next.
Grown(d, p) == IF port_is_valid(d, p) THEN nr_ports
               ELSE [nr_ports EXCEPT ![d] = @ + PerBucket]

\* A thread whose caller is "xen" is inside HVM_PARAM_DM_DOMAIN or
\* hvm_vcpu_initialise, and the domain it works on does not run.
Paused(d) == \E t \in Thread : thr[t].caller = "xen" /\ thr[t].d = d

\* Domain d can be current->domain of a hypercall that now begins.
Runs(d) == life[d] = "alive" /\ ~Paused(d)

\* domain_pause(d) has returned: no CPU is inside a hypercall of d.
Quiescent(d) == \A t \in Thread : thr[t].cur # d

\* rcu_lock_target_domain_by_id: a domain itself, or any domain for dom0.
Target(cur, d) == /\ cur = d \/ cur = Dom0
                  /\ life[d] \notin {"absent", "destroyed"}

\* Mutant: domain_kill without domctl_lock.
DomctlFree_NoLock == TRUE

\* No CPU is in domain_kill, which holds domctl_lock.
DomctlFree == \A t \in Thread : thr[t].caller # "destroy"

Issues(op) == op \in GuestOps

-----------------------------------------------------------------------------
(* Allocating and binding.                                                 *)

\* evtchn_alloc_unbound takes event_lock and asks for a port: between the
\* is_dying check and the write of the channel only the lock protects it.
evtchn_alloc_unbound(t, cur, d, remote) ==
    /\ Issues("alloc_unbound")
    /\ thr[t].pc = "idle"
    /\ Runs(cur) /\ Target(cur, d)
    /\ event_lock[d] = None
    /\ \E p \in Port :
         /\ get_free_port(d, p)
         /\ nr_ports' = Grown(d, p)
         /\ thr' = [thr EXCEPT ![t] =
                        At("alloc", "guest", cur, d, p, remote, None, None)]
    /\ event_lock' = [event_lock EXCEPT ![d] = t]
    /\ UNCHANGED <<evtchn, virq_lock, xen_port, irqs, events, doms>>

\* alloc_unbound_xen_event_channel, called for vcpu v of a domain that does
\* not run: by hvm_vcpu_initialise, or by HVM_PARAM_DM_DOMAIN to replace the
\* port that vcpu v has.
alloc_unbound_xen_event_channel(t, d, v, remote) ==
    /\ Issues("xen_port")
    /\ thr[t].pc = "idle"
    /\ d # Dom0 /\ Runs(Dom0) /\ Quiescent(d) /\ ~Paused(d)
    /\ event_lock[d] = None
    /\ \E p \in Port :
         /\ get_free_port(d, p)
         /\ nr_ports' = Grown(d, p)
         /\ thr' = [thr EXCEPT ![t] =
                        At("alloc", "xen", Dom0, d, p, remote, v, None)]
    /\ event_lock' = [event_lock EXCEPT ![d] = t]
    /\ UNCHANGED <<evtchn, virq_lock, xen_port, irqs, events, doms>>

UnboundChan(c, remote) == Channel("UNBOUND", remote, None, None, c.vcpu, c.xen)

\* The rest of evtchn_alloc_unbound: the port becomes UNBOUND.
AllocUnbound(t) ==
    LET d == thr[t].d  p == thr[t].p
    IN /\ thr[t].pc = "alloc" /\ thr[t].caller = "guest"
       /\ evtchn' = [evtchn EXCEPT ![d][p] = UnboundChan(@, thr[t].d2)]
       /\ event_lock' = [event_lock EXCEPT ![d] = None]
       /\ thr' = [thr EXCEPT ![t] = Idle]
       /\ UNCHANGED <<nr_ports, virq_lock, xen_port, irqs, events, doms>>

\* The rest of alloc_unbound_xen_event_channel, and of its caller: the xchg
\* that installs the new port and tells which one, if any, is to be freed.
AllocUnboundXen(t) ==
    LET d == thr[t].d  p == thr[t].p  v == thr[t].v
        old_port == xen_port[d][v]
    IN /\ thr[t].pc = "alloc" /\ thr[t].caller = "xen"
       /\ evtchn' = [evtchn EXCEPT ![d][p] =
                        Channel("UNBOUND", thr[t].d2, None, None, v, TRUE)]
       /\ event_lock' = [event_lock EXCEPT ![d] = None]
       /\ xen_port' = [xen_port EXCEPT ![d][v] = p]
       /\ thr' = [thr EXCEPT ![t] =
                    IF old_port = 0 THEN Idle
                    ELSE At("free_xen", "xen", thr[t].cur, d, old_port, None,
                            None, None)]
       /\ UNCHANGED <<nr_ports, virq_lock, irqs, events, doms>>

\* rport of rd waits for domain ld.
AwaitsPeer(rd, rport, ld) == /\ port_is_valid(rd, rport)
                             /\ State(rd, rport) = "UNBOUND"
                             /\ evtchn[rd][rport].dom = ld

LinkedChan(c, dom, port) ==
    Channel("INTERDOMAIN", dom, port, None, c.vcpu, c.xen)

\* Mutant: the conservative notification of the local port is left out.
LinkChannels_NoNotify(ld, rd, rport) ==
    \/ \E lport \in Port :
         /\ get_free_port(ld, lport)
         /\ nr_ports' = Grown(ld, lport)
         /\ AwaitsPeer(rd, rport, ld)
         /\ evtchn' = [evtchn EXCEPT
              ![ld][lport] = LinkedChan(evtchn[ld][lport], rd, rport),
              ![rd][rport] = LinkedChan(evtchn[rd][rport], ld, lport)]
         /\ UNCHANGED <<pending, owed>>
    \/ /\ ~ \E lport \in Port : get_free_port(ld, lport)
       /\ UNCHANGED <<tables, pending, owed>>

\* Both locks are held: link a free port of ld to port rport of rd.  The
\* pending bit makes up for what was dropped while rport was unbound.
LinkChannels(ld, rd, rport) ==
    \/ \E lport \in Port :
         /\ get_free_port(ld, lport)
         /\ nr_ports' = Grown(ld, lport)
         /\ \/ /\ AwaitsPeer(rd, rport, ld)
               /\ evtchn' = [evtchn EXCEPT
                    ![ld][lport] = LinkedChan(evtchn[ld][lport], rd, rport),
                    ![rd][rport] = LinkedChan(evtchn[rd][rport], ld, lport)]
               /\ pending' = [pending EXCEPT ![ld] = @ \cup {lport}]
               /\ owed' = [owed EXCEPT ![rd] = IF lport \in pending'[ld]
                                               THEN @ \ {rport} ELSE @]
            \/ /\ ~AwaitsPeer(rd, rport, ld)
               /\ UNCHANGED <<evtchn, pending, owed>>
    \/ /\ ~ \E lport \in Port : get_free_port(ld, lport)
       /\ UNCHANGED <<tables, pending, owed>>

\* evtchn_bind_interdomain between a domain and itself: one lock.
BindLoopback(ld, rport) ==
    /\ Issues("bind_interdomain")
    /\ Runs(ld)
    /\ event_lock[ld] = None
    /\ LinkChannels(ld, ld, rport)
    /\ UNCHANGED <<xen_port, in_xen, irqs, doms, locks, thr>>

\* Mutant: the caller's own lock is always taken first.
FirstLock_OwnFirst(ld, rd) == ld

\* The domain whose event_lock is taken first.
FirstLock(ld, rd) == IF ld < rd THEN ld ELSE rd
SecondLock(ld, rd) == IF FirstLock(ld, rd) = ld THEN rd ELSE ld

\* evtchn_bind_interdomain takes the first of the two locks ...
evtchn_bind_interdomain(t, ld, rd, rport) ==
    /\ Issues("bind_interdomain")
    /\ thr[t].pc = "idle"
    /\ Runs(ld) /\ ld # rd
    /\ life[rd] \notin {"absent", "destroyed"}
    /\ event_lock[FirstLock(ld, rd)] = None
    /\ event_lock' = [event_lock EXCEPT ![FirstLock(ld, rd)] = t]
    /\ thr' = [thr EXCEPT ![t] =
                  At("bind", "none", ld, ld, rport, rd, None, None)]
    /\ UNCHANGED <<tables, virq_lock, xen_port, irqs, events, doms>>

\* Mutant: the remote domain's lock is not waited for.
BindInterdomain_OneLock(t) ==
    LET ld == thr[t].d  rd == thr[t].d2
    IN /\ thr[t].pc = "bind"
       /\ LinkChannels(ld, rd, thr[t].p)
       /\ event_lock' = [event_lock EXCEPT ![FirstLock(ld, rd)] = None]
       /\ thr' = [thr EXCEPT ![t] = Idle]
       /\ UNCHANGED <<virq_lock, xen_port, in_xen, irqs, doms>>

\* ... and then the second, does its work and drops both.
BindInterdomain(t) ==
    LET ld == thr[t].d  rd == thr[t].d2
    IN /\ thr[t].pc = "bind"
       /\ event_lock[SecondLock(ld, rd)] = None
       /\ LinkChannels(ld, rd, thr[t].p)
       /\ event_lock' = [event_lock EXCEPT ![FirstLock(ld, rd)] = None]
       /\ thr' = [thr EXCEPT ![t] = Idle]
       /\ UNCHANGED <<virq_lock, xen_port, in_xen, irqs, doms>>

evtchn_bind_virq(d, v, irq) ==
    /\ Issues("bind_virq")
    /\ Runs(d)
    /\ irq \in GlobalVirq => v = 0
    /\ event_lock[d] = None
    /\ virq_to_evtchn[d][v][irq] = 0
    /\ \E p \in Port :
         /\ get_free_port(d, p)
         /\ nr_ports' = Grown(d, p)
         /\ evtchn' = [evtchn EXCEPT ![d][p] =
                          Channel("VIRQ", None, None, irq, v, evtchn[d][p].xen)]
         /\ virq_to_evtchn' = [virq_to_evtchn EXCEPT ![d][v][irq] = p]
    /\ UNCHANGED <<pirq_to_evtchn, xen_port, events, doms, locks, thr>>

evtchn_bind_ipi(d, v) ==
    /\ Issues("bind_ipi")
    /\ Runs(d)
    /\ event_lock[d] = None
    /\ \E p \in Port :
         /\ get_free_port(d, p)
         /\ nr_ports' = Grown(d, p)
         /\ evtchn' = [evtchn EXCEPT ![d][p] =
                          Channel("IPI", None, None, None, v, evtchn[d][p].xen)]
    /\ UNCHANGED <<xen_port, irqs, events, doms, locks, thr>>

\* pirq_guest_bind may refuse the interrupt: then only the bucket stays.
evtchn_bind_pirq(d, irq) ==
    /\ Issues("bind_pirq")
    /\ Runs(d)
    /\ event_lock[d] = None
    /\ pirq_to_evtchn[d][irq] = 0
    /\ \E p \in Port :
         /\ get_free_port(d, p)
         /\ nr_ports' = Grown(d, p)
         /\ \/ /\ evtchn' = [evtchn EXCEPT ![d][p] =
                              Channel("PIRQ", None, None, irq,
                                      evtchn[d][p].vcpu, evtchn[d][p].xen)]
               /\ pirq_to_evtchn' = [pirq_to_evtchn EXCEPT ![d][irq] = p]
            \/ UNCHANGED <<evtchn, pirq_to_evtchn>>
    /\ UNCHANGED <<virq_to_evtchn, xen_port, events, doms, locks, thr>>

OnVcpu(c, v) == Channel(c.state, c.dom, c.port, c.irq, v, c.xen)

\* Mutant: every VIRQ can be moved to another vcpu.
evtchn_bind_vcpu_AnyVirq(d, p, v) ==
    /\ Issues("bind_vcpu")
    /\ Runs(d)
    /\ event_lock[d] = None
    /\ port_is_valid(d, p)
    /\ ~evtchn[d][p].xen
    /\ State(d, p) \in {"VIRQ", "UNBOUND", "INTERDOMAIN", "PIRQ"}
    /\ evtchn' = [evtchn EXCEPT ![d][p] = OnVcpu(@, v)]
    /\ UNCHANGED <<nr_ports, xen_port, irqs, events, doms, locks, thr>>

\* Only channels that are not tied to a vcpu can be given another one.
evtchn_bind_vcpu(d, p, v) ==
    /\ Issues("bind_vcpu")
    /\ Runs(d)
    /\ event_lock[d] = None
    /\ port_is_valid(d, p)
    /\ ~evtchn[d][p].xen
    /\ \/ State(d, p) = "VIRQ" /\ evtchn[d][p].irq \in GlobalVirq
       \/ State(d, p) \in {"UNBOUND", "INTERDOMAIN", "PIRQ"}
    /\ evtchn' = [evtchn EXCEPT ![d][p] = OnVcpu(@, v)]
    /\ UNCHANGED <<nr_ports, xen_port, irqs, events, doms, locks, thr>>

-----------------------------------------------------------------------------
(* Closing.  __evtchn_close is entered with thr[t].pc = "close".           *)

Release(t) == event_lock' = [d \in Domain |-> IF event_lock[d] = t THEN None
                                              ELSE event_lock[d]]

\* put_domain: domain_destroy runs when the last reference goes.
put_domain(d) ==
    /\ refcnt' = [refcnt EXCEPT ![d] = @ - 1]
    /\ life' = [life EXCEPT ![d] = IF refcnt[d] = 1 THEN "destroyed" ELSE @]

\* The state in which the caller of __evtchn_close goes on.
CloseReturned(t) ==
    IF thr[t].caller \in {"reset", "destroy"}
    THEN At(IF thr[t].caller = "reset" THEN "reset_next" ELSE "destroy_next",
            thr[t].caller, thr[t].cur, thr[t].d, thr[t].p + 1, None, None, None)
    ELSE Idle

\* Label out: both locks and the reference to d2 are dropped.
CloseOut(t) ==
    /\ Release(t)
    /\ IF thr[t].d2 = None THEN UNCHANGED doms ELSE put_domain(thr[t].d2)
    /\ thr' = [thr EXCEPT ![t] = CloseReturned(t)]

\* Freeing resets the state and the vcpu, and leaves consumer_is_xen alone.
FreedChan(c) == Channel("FREE", None, None, None, 0, c.xen)

\* consumer_is_xen is cleared.
GuestChan(c) == Channel(c.state, c.dom, c.port, c.irq, c.vcpu, FALSE)

\* The channel is freed and what was pending on it is forgotten.
FreeChannel(d, p) ==
    /\ evtchn' = [evtchn EXCEPT ![d][p] = FreedChan(@)]
    /\ pending' = [pending EXCEPT ![d] = @ \ {p}]
    /\ owed' = [owed EXCEPT ![d] = @ \ {p}]

\* Mutant: the peer keeps its link.
UnlinkChannel_OneEnd(d1, p1) ==
    /\ evtchn' = [evtchn EXCEPT ![d1][p1] = FreedChan(@)]
    /\ pending' = [pending EXCEPT ![d1] = @ \ {p1}]
    /\ owed' = [owed EXCEPT ![d1] = @ \ {p1}]

\* The same for a linked channel, whose peer goes back to UNBOUND.
UnlinkChannel(d1, p1) ==
    LET d2 == evtchn[d1][p1].dom  p2 == evtchn[d1][p1].port
    IN /\ evtchn' = [evtchn EXCEPT
                        ![d2][p2] = UnboundChan(evtchn[d2][p2], d1),
                        ![d1][p1] = FreedChan(evtchn[d1][p1])]
       /\ pending' = [pending EXCEPT ![d1] = @ \ {p1}]
       /\ owed' = [owed EXCEPT ![d1] = @ \ {p1}]

\* Mutant: a Xen-attached channel can be closed.
CloseRefused_NotXen(t) ==
    LET d == thr[t].d  p == thr[t].p
    IN \/ ~port_is_valid(d, p)
       \/ State(d, p) \in {"FREE", "RESERVED"}
       \/ /\ State(d, p) = "INTERDOMAIN"
          /\ thr[t].d2 \notin {None, evtchn[d][p].dom}

\* The port cannot be closed, or it was closed and re-bound to another domain
\* while event_lock was dropped.
CloseRefused(t) ==
    LET d == thr[t].d  p == thr[t].p
    IN \/ ~port_is_valid(d, p)
       \/ evtchn[d][p].xen
       \/ State(d, p) \in {"FREE", "RESERVED"}
       \/ /\ State(d, p) = "INTERDOMAIN"
          /\ thr[t].d2 \notin {None, evtchn[d][p].dom}

\* Mutant: the error exits of __evtchn_close keep the reference to d2.
CloseFails_NoPut(t) ==
    /\ thr[t].pc = "close"
    /\ event_lock[thr[t].d] = None
    /\ CloseRefused(t)
    /\ Release(t)
    /\ thr' = [thr EXCEPT ![t] = CloseReturned(t)]
    /\ UNCHANGED <<tables, virq_lock, xen_port, irqs, events, doms>>

\* __evtchn_close takes d1's lock (again) and finds nothing to close.
CloseFails(t) ==
    /\ thr[t].pc = "close"
    /\ event_lock[thr[t].d] = None
    /\ CloseRefused(t)
    /\ CloseOut(t)
    /\ UNCHANGED <<tables, virq_lock, xen_port, irqs, events>>

\* An UNBOUND, IPI or PIRQ channel: d1's lock suffices.
CloseLocal(t) ==
    LET d == thr[t].d  p == thr[t].p
    IN /\ thr[t].pc = "close"
       /\ event_lock[d] = None
       /\ ~CloseRefused(t)
       /\ State(d, p) \in {"UNBOUND", "IPI", "PIRQ"}
       /\ FreeChannel(d, p)
       /\ pirq_to_evtchn' = IF State(d, p) = "PIRQ"
                            THEN [pirq_to_evtchn EXCEPT
                                    ![d][evtchn[d][p].irq] = 0]
                            ELSE pirq_to_evtchn
       /\ CloseOut(t)
       /\ UNCHANGED <<nr_ports, virq_to_evtchn, virq_lock, xen_port, in_xen>>

\* A VIRQ channel: keep d1's lock and look for the vcpus that use the port.
CloseVirq(t) ==
    LET d == thr[t].d  p == thr[t].p
    IN /\ thr[t].pc = "close"
       /\ event_lock[d] = None
       /\ ~CloseRefused(t)
       /\ State(d, p) = "VIRQ"
       /\ event_lock' = [event_lock EXCEPT ![d] = t]
       /\ thr' = [thr EXCEPT ![t] = Goto(t, "close_virq")]
       /\ UNCHANGED <<tables, virq_lock, xen_port, irqs, events, doms>>

\* Mutant: no spin_barrier_irq.
VirqBarrier_None(t) == TRUE

\* spin_barrier_irq: thread t waits until nobody is sending to vcpu v.
VirqBarrier(t) == thr[t].v # None => virq_lock[thr[t].d][thr[t].v] = None

\* vcpus whose virq_to_evtchn still names the port that thread t closes
VirqUsers(t) == {v \in Vcpu : virq_to_evtchn[thr[t].d][v]
                                [evtchn[thr[t].d][thr[t].p].irq] = thr[t].p}

\* One round of for_each_vcpu: clear the vcpu's entry, then wait for a sender
\* that has already read it.
CloseVirqVcpu(t) ==
    LET d == thr[t].d
    IN /\ thr[t].pc = "close_virq"
       /\ VirqBarrier(t)
       /\ \E v \in VirqUsers(t) :
            /\ virq_to_evtchn' = [virq_to_evtchn EXCEPT
                                    ![d][v][evtchn[d][thr[t].p].irq] = 0]
            /\ thr' = [thr EXCEPT ![t] =
                        At("close_virq", thr[t].caller, thr[t].cur, d, thr[t].p,
                           thr[t].d2, v, None)]
       /\ UNCHANGED <<tables, pirq_to_evtchn, xen_port, events, doms, locks>>

\* The loop is over and the last barrier passed.
CloseVirqDone(t) ==
    /\ thr[t].pc = "close_virq"
    /\ VirqBarrier(t)
    /\ VirqUsers(t) = {}
    /\ FreeChannel(thr[t].d, thr[t].p)
    /\ CloseOut(t)
    /\ UNCHANGED <<nr_ports, virq_lock, xen_port, in_xen, irqs>>

\* A channel linked inside the domain, or one whose second lock is already
\* held after `goto again': unlink it now.
CloseLinked(t) ==
    LET d == thr[t].d  p == thr[t].p
    IN /\ thr[t].pc = "close"
       /\ event_lock[d] = None
       /\ ~CloseRefused(t)
       /\ State(d, p) = "INTERDOMAIN"
       /\ thr[t].d2 # None \/ evtchn[d][p].dom = d
       /\ UnlinkChannel(d, p)
       /\ CloseOut(t)
       /\ UNCHANGED <<nr_ports, virq_lock, xen_port, in_xen, irqs>>

\* The first sight of a link to another domain: get_domain(d2), and then
\* either keep d1's lock and go for d2's, or drop it because of the order.
CloseGetRemote(t) ==
    LET d == thr[t].d  d2 == evtchn[d][thr[t].p].dom
        Holding(pc) == At(pc, thr[t].caller, thr[t].cur, d, thr[t].p, d2,
                          None, None)
    IN /\ thr[t].pc = "close"
       /\ event_lock[d] = None
       /\ ~CloseRefused(t)
       /\ State(d, thr[t].p) = "INTERDOMAIN"
       /\ thr[t].d2 = None /\ d2 # d
       /\ refcnt' = [refcnt EXCEPT ![d2] = @ + 1]
       /\ \/ /\ d < d2
             /\ event_lock' = [event_lock EXCEPT ![d] = t]
             /\ thr' = [thr EXCEPT ![t] = Holding("close_higher")]
          \/ /\ d > d2
             /\ thr' = [thr EXCEPT ![t] = Holding("close_lower")]
             /\ UNCHANGED event_lock
       /\ UNCHANGED <<tables, virq_lock, xen_port, irqs, events, life>>

\* d2's lock is taken while d1's is held.
CloseHigher(t) ==
    /\ thr[t].pc = "close_higher"
    /\ event_lock[thr[t].d2] = None
    /\ UnlinkChannel(thr[t].d, thr[t].p)
    /\ CloseOut(t)
    /\ UNCHANGED <<nr_ports, virq_lock, xen_port, in_xen, irqs>>

\* d2's lock is taken with d1's dropped: goto again.
CloseLower(t) ==
    /\ thr[t].pc = "close_lower"
    /\ event_lock[thr[t].d2] = None
    /\ event_lock' = [event_lock EXCEPT ![thr[t].d2] = t]
    /\ thr' = [thr EXCEPT ![t] = Goto(t, "close")]
    /\ UNCHANGED <<tables, virq_lock, xen_port, irqs, events, doms>>

\* EVTCHNOP_close.
evtchn_close(t, d, p) ==
    /\ Issues("close")
    /\ thr[t].pc = "idle"
    /\ Runs(d)
    /\ thr' = [thr EXCEPT ![t] =
                  At("close", "guest", d, d, p, None, None, None)]
    /\ UNCHANGED <<tables, xen_port, irqs, events, doms, locks>>

\* free_xen_event_channel: give the port up under the lock, then close it.
free_xen_event_channel(t) ==
    LET d == thr[t].d
    IN /\ thr[t].pc = "free_xen"
       /\ event_lock[d] = None
       /\ \/ /\ life[d] # "alive"
             /\ thr' = [thr EXCEPT ![t] = Idle]
             /\ UNCHANGED evtchn
          \/ /\ life[d] = "alive"
             /\ evtchn' = [evtchn EXCEPT ![d][thr[t].p] = GuestChan(@)]
             /\ thr' = [thr EXCEPT ![t] = Goto(t, "close")]
       /\ UNCHANGED <<nr_ports, xen_port, irqs, events, doms, locks>>

\* EVTCHNOP_reset by the domain itself or by dom0: close every port in turn.
evtchn_reset(t, cur, d) ==
    /\ Issues("reset")
    /\ thr[t].pc = "idle"
    /\ Runs(cur) /\ Target(cur, d)
    /\ thr' = [thr EXCEPT ![t] =
                  At("reset_next", "reset", cur, d, 0, None, None, None)]
    /\ UNCHANGED <<tables, xen_port, irqs, events, doms, locks>>

ResetNext(t) ==
    /\ thr[t].pc = "reset_next"
    /\ thr' = [thr EXCEPT ![t] = IF port_is_valid(thr[t].d, thr[t].p)
                                 THEN Goto(t, "close") ELSE Idle]
    /\ UNCHANGED <<tables, xen_port, irqs, events, doms, locks>>

-----------------------------------------------------------------------------
(* Sending.                                                                *)

\* evtchn_send.  Xen consumes the peer's events by waking the vcpu that is
\* blocked in Xen; a guest consumes them through its pending bit.
evtchn_send(d, p) ==
    LET rd == evtchn[d][p].dom  rport == evtchn[d][p].port
    IN /\ Issues("send")
       /\ Runs(d)
       /\ event_lock[d] = None
       /\ port_is_valid(d, p)
       /\ ~evtchn[d][p].xen
       /\ \/ /\ State(d, p) = "INTERDOMAIN"
             /\ evtchn[rd][rport].xen
             /\ in_xen' = [in_xen EXCEPT ![rd] = @ \ {evtchn[rd][rport].vcpu}]
             /\ UNCHANGED <<pending, owed>>
          \/ /\ State(d, p) = "INTERDOMAIN"
             /\ ~evtchn[rd][rport].xen
             /\ pending' = [pending EXCEPT ![rd] = @ \cup {rport}]
             /\ UNCHANGED <<in_xen, owed>>
          \/ /\ State(d, p) = "IPI"
             /\ pending' = [pending EXCEPT ![d] = @ \cup {p}]
             /\ UNCHANGED <<in_xen, owed>>
          \/ /\ State(d, p) = "UNBOUND"
             /\ owed' = [owed EXCEPT ![d] = @ \cup {p}]
             /\ UNCHANGED <<pending, in_xen>>
       /\ UNCHANGED <<tables, xen_port, irqs, doms, locks, thr>>

\* hvm_send_assist_req: vcpu v marks itself blocked in Xen, and then notifies
\* the device model.
hvm_send_assist_req(t, d, v) ==
    /\ Issues("ioreq")
    /\ thr[t].pc = "idle"
    /\ Runs(d)
    /\ xen_port[d][v] # 0 /\ v \notin in_xen[d]
    /\ in_xen' = [in_xen EXCEPT ![d] = @ \cup {v}]
    /\ thr' = [thr EXCEPT ![t] =
                  At("notify", "none", d, d, xen_port[d][v], None, None, None)]
    /\ UNCHANGED <<tables, pending, owed, xen_port, irqs, doms, locks>>

notify_via_xen_event_channel(t) ==
    LET d == thr[t].d  p == thr[t].p
    IN /\ thr[t].pc = "notify"
       /\ event_lock[d] = None
       /\ \/ /\ State(d, p) = "INTERDOMAIN"
             /\ pending' = [pending EXCEPT ![evtchn[d][p].dom] =
                                           @ \cup {evtchn[d][p].port}]
             /\ UNCHANGED owed
          \/ /\ State(d, p) # "INTERDOMAIN"
             /\ owed' = [owed EXCEPT ![d] = @ \cup {p}]
             /\ UNCHANGED pending
       /\ thr' = [thr EXCEPT ![t] = Idle]
       /\ UNCHANGED <<tables, in_xen, xen_port, irqs, doms, locks>>

\* Xen sends a virtual interrupt: a per-vcpu one to any domain, a global one
\* to dom0 through the table of vcpu 0.
SendVirq(t, d, v, irq) ==
    /\ Issues("virq")
    /\ thr[t].pc = "idle"
    /\ life[d] \in {"alive", "dying"}
    /\ irq \in GlobalVirq => d = Dom0 /\ v = 0
    /\ thr' = [thr EXCEPT ![t] = At("virq", "none", None, d, 0, None, v, irq)]
    /\ UNCHANGED <<tables, xen_port, irqs, events, doms, locks>>

\* send_guest_vcpu_virq and send_guest_global_virq look the port up under
\* virq_lock, which is not the lock that bind and close hold ...
VirqLookup(t) ==
    LET d == thr[t].d  v == thr[t].v
        port == virq_to_evtchn[d][v][thr[t].irq]
    IN /\ thr[t].pc = "virq"
       /\ virq_lock[d][v] = None
       /\ \/ /\ port = 0
             /\ thr' = [thr EXCEPT ![t] = Idle]
             /\ UNCHANGED virq_lock
          \/ /\ port # 0
             /\ thr' = [thr EXCEPT ![t] =
                           At("virq_set", "none", None, d, port, None, v,
                              thr[t].irq)]
             /\ virq_lock' = [virq_lock EXCEPT ![d][v] = t]
       /\ UNCHANGED <<tables, event_lock, xen_port, irqs, events, doms>>

\* ... and set it pending.
VirqSetPending(t) ==
    LET d == thr[t].d
    IN /\ thr[t].pc = "virq_set"
       /\ pending' = [pending EXCEPT ![d] = @ \cup {thr[t].p}]
       /\ virq_lock' = [virq_lock EXCEPT ![d][thr[t].v] = None]
       /\ thr' = [thr EXCEPT ![t] = Idle]
       /\ UNCHANGED <<tables, event_lock, owed, in_xen, xen_port, irqs, doms>>

\* A physical interrupt: its callers synchronise with pirq_guest_unbind.
send_guest_pirq(d, irq) ==
    /\ pirq_to_evtchn[d][irq] # 0
    /\ pending' = [pending EXCEPT ![d] = @ \cup {pirq_to_evtchn[d][irq]}]
    /\ UNCHANGED <<tables, owed, in_xen, xen_port, irqs, doms, locks, thr>>

\* The guest handles an event: it clears the bit in its shared_info.
GuestHandles(d, p) ==
    /\ Issues("handle")
    /\ Runs(d)
    /\ p \in pending[d]
    /\ pending' = [pending EXCEPT ![d] = @ \ {p}]
    /\ UNCHANGED <<tables, owed, in_xen, xen_port, irqs, doms, locks, thr>>

-----------------------------------------------------------------------------
(* The life of a domain.                                                   *)

\* domain_create, with evtchn_init.
domain_create(d) ==
    /\ life[d] = "absent"
    /\ life' = [life EXCEPT ![d] = "alive"]
    /\ refcnt' = [refcnt EXCEPT ![d] = 1]
    /\ evtchn' = [evtchn EXCEPT ![d] = InitTable]
    /\ nr_ports' = [nr_ports EXCEPT ![d] = PerBucket]
    /\ virq_to_evtchn' = [virq_to_evtchn EXCEPT ![d] = NoVirqs]
    /\ pirq_to_evtchn' = [pirq_to_evtchn EXCEPT ![d] = NoPirqs]
    /\ pending' = [pending EXCEPT ![d] = {}]
    /\ owed' = [owed EXCEPT ![d] = {}]
    /\ in_xen' = [in_xen EXCEPT ![d] = {}]
    /\ xen_port' = [xen_port EXCEPT ![d] = [v \in Vcpu |-> 0]]
    /\ UNCHANGED <<locks, thr>>

\* domain_kill, under domctl_lock: pause the domain, mark it dying and enter
\* evtchn_destroy.
domain_kill(t, d) ==
    /\ Issues("kill")
    /\ thr[t].pc = "idle"
    /\ d # Dom0 /\ Runs(Dom0) /\ DomctlFree
    /\ life[d] = "alive" /\ Quiescent(d)
    /\ life' = [life EXCEPT ![d] = "dying"]
    /\ thr' = [thr EXCEPT ![t] =
                  At("destroy_barrier", "destroy", Dom0, d, 0, None, None, None)]
    /\ UNCHANGED <<tables, refcnt, xen_port, irqs, events, locks>>

\* spin_barrier(&d->event_lock): whoever saw the domain alive has left.
DestroyBarrier(t) ==
    /\ thr[t].pc = "destroy_barrier"
    /\ event_lock[thr[t].d] = None
    /\ thr' = [thr EXCEPT ![t] = Goto(t, "destroy_next")]
    /\ UNCHANGED <<tables, xen_port, irqs, events, doms, locks>>

\* evtchn_destroy takes the next port from Xen, without the lock, and closes
\* it.
DestroyNext(t) ==
    LET d == thr[t].d  p == thr[t].p
    IN /\ thr[t].pc = "destroy_next"
       /\ port_is_valid(d, p)
       /\ evtchn' = [evtchn EXCEPT ![d][p] = GuestChan(@)]
       /\ thr' = [thr EXCEPT ![t] = Goto(t, "close")]
       /\ UNCHANGED <<nr_ports, xen_port, irqs, events, doms, locks>>

\* The last part of evtchn_destroy: free all buckets.
DestroyBuckets(t) ==
    LET d == thr[t].d
    IN /\ thr[t].pc = "destroy_next"
       /\ ~port_is_valid(d, thr[t].p)
       /\ event_lock[d] = None
       /\ evtchn' = [evtchn EXCEPT ![d] = EmptyTable]
       /\ nr_ports' = [nr_ports EXCEPT ![d] = 0]
       /\ thr' = [thr EXCEPT ![t] = Idle]
       /\ UNCHANGED <<xen_port, irqs, events, doms, locks>>

\* The rest of domain_kill, in this call or in a later one: its resources are
\* relinquished, the domain is dead, its first reference is dropped and dom0
\* is told.
DomainDead(t, d) ==
    /\ thr[t].pc = "idle"
    /\ Runs(Dom0) /\ DomctlFree
    /\ life[d] = "dying"
    /\ refcnt' = [refcnt EXCEPT ![d] = @ - 1]
    /\ life' = [life EXCEPT ![d] = IF refcnt[d] = 1 THEN "destroyed"
                                   ELSE "dead"]
    /\ thr' = [thr EXCEPT ![t] =
                  At("virq", "none", None, Dom0, 0, None, 0, DomExc)]
    /\ UNCHANGED <<tables, xen_port, irqs, events, locks>>

\* complete_domain_destroy, once no CPU can still hold an RCU reference: the
\* struct is freed and dom0 is told again.
complete_domain_destroy(t, d) ==
    /\ thr[t].pc = "idle"
    /\ life[d] = "destroyed"
    /\ \A u \in Thread : d \notin {thr[u].cur, thr[u].d, thr[u].d2}
    /\ life' = [life EXCEPT ![d] = "absent"]
    /\ thr' = [thr EXCEPT ![t] =
                  At("virq", "none", None, Dom0, 0, None, 0, DomExc)]
    /\ UNCHANGED <<tables, refcnt, xen_port, irqs, events, locks>>

-----------------------------------------------------------------------------
(* Dom0 runs; no other domain exists yet.                                  *)
Init ==
    /\ evtchn = [d \in Domain |-> IF d = Dom0 THEN InitTable ELSE EmptyTable]
    /\ nr_ports = [d \in Domain |-> IF d = Dom0 THEN PerBucket ELSE 0]
    /\ virq_to_evtchn = [d \in Domain |-> NoVirqs]
    /\ pirq_to_evtchn = [d \in Domain |-> NoPirqs]
    /\ pending = [d \in Domain |-> {}]
    /\ life = [d \in Domain |-> IF d = Dom0 THEN "alive" ELSE "absent"]
    /\ refcnt = [d \in Domain |-> IF d = Dom0 THEN 1 ELSE 0]
    /\ event_lock = [d \in Domain |-> None]
    /\ virq_lock = [d \in Domain |-> [v \in Vcpu |-> None]]
    /\ xen_port = [d \in Domain |-> [v \in Vcpu |-> 0]]
    /\ in_xen = [d \in Domain |-> {}]
    /\ owed = [d \in Domain |-> {}]
    /\ thr = [t \in Thread |-> Idle]

\* Steps that continue the operation thread t is in.
Continue(t) ==
    \/ AllocUnbound(t)   \/ AllocUnboundXen(t) \/ BindInterdomain(t)
    \/ CloseFails(t)     \/ CloseLocal(t)      \/ CloseVirq(t)
    \/ CloseVirqVcpu(t)  \/ CloseVirqDone(t)   \/ CloseLinked(t)
    \/ CloseGetRemote(t) \/ CloseHigher(t)     \/ CloseLower(t)
    \/ free_xen_event_channel(t)               \/ ResetNext(t)
    \/ notify_via_xen_event_channel(t)
    \/ VirqLookup(t)     \/ VirqSetPending(t)
    \/ DestroyBarrier(t) \/ DestroyNext(t)     \/ DestroyBuckets(t)

\* Operations that thread t begins.
Begin(t) ==
    \/ \E cur, d, remote \in Domain : evtchn_alloc_unbound(t, cur, d, remote)
    \/ \E d, remote \in Domain, v \in Vcpu :
         alloc_unbound_xen_event_channel(t, d, v, remote)
    \/ \E ld, rd \in Domain, p \in Port : evtchn_bind_interdomain(t, ld, rd, p)
    \/ \E d \in Domain, p \in Port : evtchn_close(t, d, p)
    \/ \E cur, d \in Domain : evtchn_reset(t, cur, d)
    \/ \E d \in Domain, v \in Vcpu : hvm_send_assist_req(t, d, v)
    \/ \E d \in Domain, v \in Vcpu, irq \in Virq : SendVirq(t, d, v, irq)
    \/ \E d \in Domain : \/ domain_kill(t, d)
                         \/ DomainDead(t, d)
                         \/ complete_domain_destroy(t, d)

\* Operations that are a single critical section.
Atomic(d) ==
    \/ \E p \in Port : BindLoopback(d, p)
    \/ \E v \in Vcpu, irq \in Virq : evtchn_bind_virq(d, v, irq)
    \/ \E v \in Vcpu : evtchn_bind_ipi(d, v)
    \/ \E irq \in Pirq : evtchn_bind_pirq(d, irq) \/ send_guest_pirq(d, irq)
    \/ \E p \in Port, v \in Vcpu : evtchn_bind_vcpu(d, p, v)
    \/ \E p \in Port : evtchn_send(d, p) \/ GuestHandles(d, p)
    \/ domain_create(d)

Next == \/ \E t \in Thread : Continue(t) \/ Begin(t)
        \/ \E d \in Domain : Atomic(d)

Spec == Init /\ [][Next]_vars

-----------------------------------------------------------------------------
(* Properties.                                                             *)

\* Every variable has the type its declaration in the C source gives it, the
\* ports of a domain are whole buckets, and the local variables that an
\* operation goes on to use after a lock was dropped or waited for are set.
TypeOK ==
    /\ evtchn \in [Domain -> [Port -> Chan]]
    /\ nr_ports \in [Domain -> BucketEnds]
    /\ virq_to_evtchn \in [Domain -> [Vcpu -> [Virq -> Port]]]
    /\ pirq_to_evtchn \in [Domain -> [Pirq -> Port]]
    /\ pending \in [Domain -> SUBSET Port]
    /\ life \in [Domain -> Life]
    /\ refcnt \in [Domain -> Int]
    /\ event_lock \in [Domain -> Thread \cup {None}]
    /\ virq_lock \in [Domain -> [Vcpu -> Thread \cup {None}]]
    /\ xen_port \in [Domain -> [Vcpu -> Port]]
    /\ in_xen \in [Domain -> SUBSET Vcpu]
    /\ owed \in [Domain -> SUBSET Port]
    /\ thr \in [Thread -> ThreadState]

\* Links are symmetric: the peer of a linked port is a valid linked port that
\* points back.  These are the three BUG_ONs of __evtchn_close, and what lets
\* evtchn_send follow a link under one lock.
LinksSymmetric ==
    \A d \in Domain, p \in Port :
      State(d, p) = "INTERDOMAIN" =>
        LET d2 == evtchn[d][p].dom  p2 == evtchn[d][p].port
        IN /\ d2 \in Domain /\ p2 \in Port
           /\ port_is_valid(d2, p2)
           /\ State(d2, p2) = "INTERDOMAIN"
           /\ evtchn[d2][p2].dom = d /\ evtchn[d2][p2].port = p

\* Places inside __evtchn_close, and the CPUs whose close holds a reference
\* to domain d.
ClosePc == {"close", "close_virq", "close_higher", "close_lower"}
Holders(d) == {t \in Thread : thr[t].pc \in ClosePc /\ thr[t].d2 = d}

\* A link holds no reference to the domain struct at its other end, and yet
\* that domain is never past its destruction: get_domain cannot fail in
\* __evtchn_close (its BUG()), and references keep a struct that is in use.
LinkedDomainHeld ==
    /\ \A d \in Domain, p \in Port :
         State(d, p) = "INTERDOMAIN" =>
           life[evtchn[d][p].dom] \in {"alive", "dying"}
    /\ \A t \in Thread :
         thr[t].pc \in ClosePc /\ thr[t].d2 # None =>
           life[thr[t].d2] \in {"alive", "dying", "dead"}

\* The reference count of a domain is one for the domain itself until it is
\* dead, and one for every close that holds it: no error path of
\* __evtchn_close leaks or drops one.
RefcountExact ==
    \A d \in Domain :
      refcnt[d] = Cardinality(Holders(d))
                  + IF life[d] \in {"alive", "dying"} THEN 1 ELSE 0

\* virq_to_evtchn, pirq_to_evtchn and the channels name each other; only a
\* close in progress separates a VIRQ channel from its entry.  A per-vcpu
\* interrupt is delivered to the vcpu that bound it.
IrqBindingsSound ==
    \A d \in Domain :
      /\ \A v \in Vcpu, i \in Virq :
           LET p == virq_to_evtchn[d][v][i]
           IN p # 0 => /\ port_is_valid(d, p)
                       /\ State(d, p) = "VIRQ" /\ evtchn[d][p].irq = i
                       /\ IF i \in GlobalVirq THEN v = 0
                          ELSE evtchn[d][p].vcpu = v
      /\ \A i \in Pirq :
           LET p == pirq_to_evtchn[d][i]
           IN p # 0 => port_is_valid(d, p) /\ State(d, p) = "PIRQ"
                       /\ evtchn[d][p].irq = i
      /\ \A p \in Port :
           /\ State(d, p) = "PIRQ" => pirq_to_evtchn[d][evtchn[d][p].irq] = p
           /\ State(d, p) = "VIRQ" =>
                \/ \E v \in Vcpu : virq_to_evtchn[d][v][evtchn[d][p].irq] = p
                \/ \E t \in Thread : /\ thr[t].pc = "close_virq"
                                     /\ thr[t].d = d /\ thr[t].p = p

\* A port that is not in use has no event pending, is not Xen's and notifies
\* vcpu 0, whoever used it before and however it was closed: a later owner
\* sees nothing of an earlier one, not even from an interrupt that was being
\* sent when the port was closed.
ClosedPortsQuiet ==
    \A d \in Domain, p \in Port :
      State(d, p) \in {"FREE", "RESERVED"} =>
        /\ p \notin pending[d]
        /\ ~evtchn[d][p].xen
        /\ evtchn[d][p].vcpu = 0

\* No notification is lost for good by being sent on an unbound port: once a
\* peer has bound the port, its end was set pending after the last drop.
NoLostNotification ==
    \A d \in Domain, p \in Port :
      State(d, p) = "INTERDOMAIN" => p \notin owed[d]

\* Nothing reappears behind evtchn_destroy: the ports it has passed stay
\* closed while other CPUs bind to, close or allocate ports of the domain, and
\* a domain whose struct may go away has no ports left.
DestroyedStaysEmpty ==
    /\ \A t \in Thread :
         thr[t].caller = "destroy" =>
           \A q \in Port : q < thr[t].p =>
             State(thr[t].d, q) \in {"FREE", "RESERVED"}
    /\ \A d \in Domain :
         life[d] \in {"absent", "dead", "destroyed"} =>
           /\ nr_ports[d] = 0
           /\ \A p \in Port : State(d, p) = "FREE"

\* Xen never loses a port it uses: the port of a vcpu of a live domain, and a
\* port about to be given back, are valid and Xen's, whatever the guest or
\* dom0 close or reset (BUG_ONs of free_xen_event_channel, ASSERTs of
\* notify_via_xen_event_channel).
XenPortsKept ==
    /\ \A d \in Domain, v \in Vcpu :
         life[d] = "alive" /\ xen_port[d][v] # 0 =>
           /\ port_is_valid(d, xen_port[d][v])
           /\ evtchn[d][xen_port[d][v]].xen
    /\ \A t \in Thread :
         \/ thr[t].pc = "notify"
         \/ thr[t].pc = "free_xen" /\ life[thr[t].d] = "alive"
         => port_is_valid(thr[t].d, thr[t].p) /\ evtchn[thr[t].d][thr[t].p].xen

\* The thread that holds the lock, or passes the barrier, that t waits for.
WaitsFor(t) ==
    LET s == thr[t]
    IN (CASE s.pc = "bind" -> {event_lock[SecondLock(s.d, s.d2)]}
          [] s.pc \in {"close_higher", "close_lower"} -> {event_lock[s.d2]}
          [] s.pc \in {"close", "free_xen", "notify", "destroy_barrier",
                       "destroy_next"} -> {event_lock[s.d]}
          [] s.pc = "virq" \/ (s.pc = "close_virq" /\ s.v # None) ->
               {virq_lock[s.d][s.v]}
          [] OTHER -> {}) \ {None}

\* CPUs never wait for each other in a cycle: in every group of CPUs one waits
\* for nobody in the group.  This is what the order of the event_locks is for.
NoLockCycle ==
    \A S \in SUBSET Thread :
      S # {} => \E t \in S : WaitsFor(t) \cap S = {}

\* While a CPU holds a domain's event_lock no other CPU changes the state of
\* one of its channels, or which channel a linked one is linked to.
LockProtects ==
    [][\A d \in Domain, t \in Thread :
         event_lock[d] = t /\ thr'[t] = thr[t] =>
           \A p \in Port : /\ evtchn'[d][p].state = evtchn[d][p].state
                           /\ evtchn'[d][p].dom = evtchn[d][p].dom]_vars
=============================================================================
