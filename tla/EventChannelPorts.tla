-------------------------- MODULE EventChannelPorts --------------------------
(***************************************************************************)
(* What is on the ports: the interrupt tables, the pending bits, dropped   *)
(* notifications and the ports that Xen uses itself.                       *)
(*                                                                         *)
(* The argument in short.  A channel that Xen consumes is waiting or       *)
(* linked, and nobody but its owner and evtchn_destroy takes it from Xen;  *)
(* so whatever is closed was the guest's, and a closed port is a clean     *)
(* one.  A sender of a virtual interrupt holds virq_lock from its look at  *)
(* virq_to_evtchn to its store; the close of the port clears the entry     *)
(* first and then waits for that lock; so the port is still bound when the *)
(* sender stores.  A notification is dropped on waiting ports only, and a  *)
(* waiting port that gets a peer has its drops made up for.                *)
(***************************************************************************)
EXTENDS EventChannelLinks

-----------------------------------------------------------------------------
(* The inductive invariant.                                                *)

\* What a channel's state says of its other fields.
GoodChan(c) ==
    /\ c.xen => c.state \in {"UNBOUND", "INTERDOMAIN"}
    /\ c.state \in {"FREE", "RESERVED"} => c.vcpu = 0
    /\ c.state = "VIRQ" => c.irq \in Virq
    /\ c.state = "PIRQ" => c.irq \in Pirq

\* Port 0 is never used: it means `no port' in the interrupt tables.
GoodChannels ==
    \A d \in Domain :
      /\ \A p \in Port : GoodChan(evtchn[d][p])
      /\ State(d, 0) \in {"FREE", "RESERVED"}
      /\ life[d] = "alive" => State(d, 0) = "RESERVED"

\* Events are pending on ports in use, and were dropped on waiting ports.
EventsOnPorts ==
    \A d \in Domain, p \in Port :
      /\ p \in pending[d] => State(d, p) \notin {"FREE", "RESERVED"}
      /\ p \in owed[d] => State(d, p) = "UNBOUND"

\* The interrupt tables name channels ...
VirqNamesPort ==
    \A d \in Domain, v \in Vcpu, i \in Virq :
      virq_to_evtchn[d][v][i] # 0 =>
        LET c == evtchn[d][virq_to_evtchn[d][v][i]]
        IN /\ c.state = "VIRQ" /\ c.irq = i
           /\ IF i \in GlobalVirq THEN v = 0 ELSE c.vcpu = v

PirqNamesPort ==
    \A d \in Domain, i \in Pirq :
      pirq_to_evtchn[d][i] # 0 =>
        LET c == evtchn[d][pirq_to_evtchn[d][i]]
        IN c.state = "PIRQ" /\ c.irq = i

\* ... and the channels are in the tables, but for one that is being closed.
ClosesVirq(t, d, p) == thr[t].pc = "close_virq" /\ thr[t].d = d /\ thr[t].p = p

PortInTables ==
    \A d \in Domain, p \in Port :
      /\ State(d, p) = "PIRQ" => pirq_to_evtchn[d][evtchn[d][p].irq] = p
      /\ State(d, p) = "VIRQ" =>
           \/ \E v \in Vcpu : virq_to_evtchn[d][v][evtchn[d][p].irq] = p
           \/ \E t \in Thread : ClosesVirq(t, d, p)

\* Vcpus of a live domain have ports of their own, and these are Xen's.
XenTable ==
    \A d \in Domain, v \in Vcpu :
      life[d] = "alive" /\ xen_port[d][v] # 0 =>
        /\ evtchn[d][xen_port[d][v]].xen
        /\ \A u \in Vcpu : u # v => xen_port[d][u] # xen_port[d][v]

\* A sender of a virtual interrupt has the lock of the vcpu, and its port is
\* in the table or is being closed by somebody who waits for that lock.
SendsVirq(t) ==
    thr[t].pc = "virq_set" =>
      LET d == thr[t].d  p == thr[t].p  v == thr[t].v  i == thr[t].irq
      IN /\ State(d, p) = "VIRQ" /\ evtchn[d][p].irq = i
         /\ virq_lock[d][v] = t
         /\ \/ virq_to_evtchn[d][v][i] = p
            \/ \E u \in Thread : ClosesVirq(u, d, p) /\ thr[u].v = v

\* A close that goes for the second lock closes a guest's port.
ClosesGuests(t) ==
    thr[t].pc = "close_higher" => ~evtchn[thr[t].d][thr[t].p].xen

\* hvm_send_assist_req runs on a vcpu of a live domain.
NotifiesXen(t) ==
    thr[t].pc = "notify" =>
      /\ thr[t].cur = thr[t].d /\ life[thr[t].d] = "alive"
      /\ evtchn[thr[t].d][thr[t].p].xen

\* The port that is given back is Xen's, and no vcpu's any more.
GivesBack(t) ==
    thr[t].pc = "free_xen" =>
      /\ thr[t].caller = "xen"
      /\ life[thr[t].d] = "alive" =>
           /\ evtchn[thr[t].d][thr[t].p].xen
           /\ \A v \in Vcpu : xen_port[thr[t].d][v] # thr[t].p

\* While the ports of a domain's vcpus are changed the domain does not run,
\* and one CPU at a time does it.
XenAlone(t) ==
    thr[t].caller = "xen" =>
      /\ thr[t].d \in Domain \ {Dom0} /\ thr[t].cur = Dom0
      /\ \A u \in Thread : /\ thr[u].cur # thr[t].d
                           /\ thr[u].caller = "xen" /\ thr[u].d = thr[t].d => u = t

\* Port 0 is not given out.
TakesPort(t) == thr[t].pc = "alloc" => thr[t].p # 0

CpuPorts(t) == /\ SendsVirq(t) /\ ClosesGuests(t) /\ NotifiesXen(t)
               /\ GivesBack(t) /\ XenAlone(t) /\ TakesPort(t)

PortInv ==
    /\ GoodChannels /\ EventsOnPorts /\ VirqNamesPort /\ PirqNamesPort
    /\ PortInTables /\ XenTable /\ \A t \in Thread : CpuPorts(t)

-----------------------------------------------------------------------------
(* What the other CPUs and the tables see of a step of CPU t.              *)

\* A channel becomes Xen's under its domain's lock, stops being Xen's when it
\* is given back or its domain dies, and a bound VIRQ ends with its close.
ChanEffect(t) ==
    \A d \in Domain, p \in Port :
      /\ evtchn'[d][p].xen => evtchn[d][p].xen \/ event_lock[d] = t
      /\ evtchn[d][p].xen =>
           \/ evtchn'[d][p].xen \/ life[d] # "alive"
           \/ t \in Thread /\ thr[t].pc = "free_xen" /\ thr[t].d = d /\ thr[t].p = p
      /\ State(d, p) = "VIRQ" =>
           \/ State(d, p)' = "VIRQ" /\ evtchn'[d][p].irq = evtchn[d][p].irq
           \/ t \in Thread /\ ClosesVirq(t, d, p) /\ VirqUsers(t) = {}

\* An entry of virq_to_evtchn is cleared by the close of its port; a virq_lock
\* is kept from others; a vcpu gets a fresh port of Xen's.
TableEffect(t) ==
    /\ \A d \in Domain, v \in Vcpu, i \in Virq, p \in Port \ {0} :
         virq_to_evtchn[d][v][i] = p =>
           \/ virq_to_evtchn'[d][v][i] = p
           \/ /\ t \in Thread /\ thr'[t].v = v
              /\ ClosesVirq(t, d, p) /\ ClosesVirq(t, d, p)'
    /\ \A d \in Domain, v \in Vcpu, u \in Thread \ {t} :
         virq_lock[d][v] = u => virq_lock'[d][v] = u
    /\ \A d \in Domain, v \in Vcpu :
         \/ xen_port'[d][v] = xen_port[d][v]
         \/ life[d] # "alive" /\ xen_port'[d][v] = 0
         \/ /\ State(d, xen_port'[d][v]) = "FREE"
            /\ evtchn'[d][xen_port'[d][v]].xen
            /\ \A u \in Vcpu : u # v => xen_port'[d][u] = xen_port[d][u]

\* Domains are born without ports of Xen's; a domain that is stopped, or
\* killed, has no CPU in a hypercall and begins none.
CpuEffect(t) ==
    /\ \A d \in Domain :
         life'[d] = "alive" =>
           \/ life[d] = "alive"
           \/ life[d] = "absent" /\ \A v \in Vcpu : xen_port'[d][v] = 0
    /\ t \in Thread =>
         /\ thr[t].pc = "close_virq" => VirqBarrier(t)
         /\ thr'[t].pc = "destroy_barrier" => Quiescent(thr'[t].d)
         /\ thr'[t].cur \in {thr[t].cur, None} \/ ~Paused(thr'[t].cur)
         /\ thr'[t].caller = "xen" =>
              \/ ~Paused(thr'[t].d)
              \/ thr[t].caller = "xen" /\ thr'[t].d = thr[t].d

Effect(t) == ChanEffect(t) /\ TableEffect(t) /\ CpuEffect(t)

\* Port 0 is not a VIRQ's.
LEMMA NotZero ==
  ASSUME GoodChannels, NEW d \in Domain, NEW p \in Port,
         State(d, p) \notin {"FREE", "RESERVED"}
  PROVE  p # 0
BY DEF GoodChannels

\* A sender that has looked the port up is not overtaken by its close.
LEMMA SenderKept ==
  ASSUME LinkInv, PortInv, NEW t, Frame(t), Effect(t),
         NEW u \in Thread, u # t
  PROVE  SendsVirq(u)'
<1> SUFFICES ASSUME thr[u].pc = "virq_set" PROVE SendsVirq(u)'
  BY DEF Frame, SendsVirq
<1>0. TypeOK /\ SendsVirq(u) /\ thr'[u] = thr[u] /\ GoodChannels
  BY DEF LinkInv, PortInv, CpuPorts, Frame
<1>1. PICK d \in Domain, p \in Port, v \in Vcpu, i \in Virq :
        d = thr[u].d /\ p = thr[u].p /\ v = thr[u].v /\ i = thr[u].irq
  BY <1>0, ThreadFacts
<1>2. /\ State(d, p) = "VIRQ" /\ evtchn[d][p].irq = i /\ virq_lock[d][v] = u
      /\ \/ virq_to_evtchn[d][v][i] = p
         \/ \E x \in Thread : ClosesVirq(x, d, p) /\ thr[x].v = v
  BY <1>0, <1>1 DEF SendsVirq
<1>3. p # 0
  BY <1>0, <1>2, NotZero
<1>4. ASSUME t \in Thread, ClosesVirq(t, d, p), thr[t].v = v PROVE FALSE
  <2>1. virq_lock[d][v] = None
    BY <1>4, VcpuAssumption, NoneAssumption
       DEF Effect, CpuEffect, VirqBarrier, ClosesVirq
  <2> QED BY <1>2, <2>1, NoneAssumption
<1>5. ASSUME NEW x \in Thread, ClosesVirq(x, d, p), t \in Thread, ClosesVirq(t, d, p)
      PROVE  x = t
  BY <1>5 DEF LinkInv, ThreadInv, HoldsLocks, ClosesVirq
<1>6. State(d, p)' = "VIRQ" /\ evtchn'[d][p].irq = i
  <2>1. ASSUME t \in Thread, ClosesVirq(t, d, p), VirqUsers(t) = {} PROVE FALSE
    <3>1. virq_to_evtchn[d][v][i] # p
      BY <1>2, <2>1 DEF VirqUsers, ClosesVirq
    <3> QED BY <1>2, <1>4, <1>5, <2>1, <3>1
  <2> QED BY <1>2, <2>1 DEF Effect, ChanEffect
<1>7. virq_lock'[d][v] = u
  BY <1>2 DEF Effect, TableEffect
<1>8. \/ virq_to_evtchn'[d][v][i] = p
      \/ \E x \in Thread : ClosesVirq(x, d, p)' /\ thr'[x].v = v
  <2>1. CASE virq_to_evtchn[d][v][i] = p
    <3>1. \/ virq_to_evtchn'[d][v][i] = p
          \/ t \in Thread /\ thr'[t].v = v /\ ClosesVirq(t, d, p)'
      BY <1>3, <2>1 DEF Effect, TableEffect
    <3> QED BY <3>1
  <2>2. ASSUME NEW x \in Thread, ClosesVirq(x, d, p), thr[x].v = v
        PROVE  ClosesVirq(x, d, p)' /\ thr'[x].v = v
    <3>1. x # t
      BY <1>4, <2>2
    <3> QED BY <2>2, <3>1 DEF Frame, ClosesVirq
  <2> QED BY <1>2, <2>1, <2>2
<1> QED BY <1>0, <1>1, <1>6, <1>7, <1>8 DEF SendsVirq

\* The other CPUs keep their part of the invariant.
LEMMA OthersPorts ==
  ASSUME LinkInv, PortInv, NEW t, Frame(t), LivesGoOn(t), Effect(t),
         NEW u \in Thread, u # t
  PROVE  CpuPorts(u)'
<1>0. /\ TypeOK /\ CpuPorts(u) /\ thr'[u] = thr[u] /\ GoodChannels /\ ThreadInv(u)
      /\ ChanEffect(t) /\ TableEffect(t) /\ CpuEffect(t)
      /\ t \in Thread => CpuPorts(t)
  BY DEF LinkInv, PortInv, Frame, Effect
<1>1. SendsVirq(u)'
  BY SenderKept
<1>2. ClosesGuests(u)'
  BY <1>0, ThreadFacts DEF CpuPorts, ClosesGuests, ThreadInv, HoldsLocks, ChanEffect
<1>3. ASSUME thr[u].pc = "notify" PROVE NotifiesXen(u)'
  <2>1. PICK d \in Domain, p \in Port : d = thr[u].d /\ p = thr[u].p
    BY <1>0, <1>3, ThreadFacts
  <2>2. thr[u].cur = d /\ life[d] = "alive" /\ evtchn[d][p].xen
    BY <1>0, <1>3, <2>1 DEF CpuPorts, NotifiesXen
  <2>3. life'[d] = "alive"
    <3>1. ASSUME t \in Thread, AtBarrier(t, d)' PROVE FALSE
      BY <1>0, <2>2, <3>1 DEF CpuEffect, AtBarrier, Quiescent
    <3> QED BY <2>2, <3>1 DEF LivesGoOn
  <2>4. evtchn'[d][p].xen
    <3>1. ASSUME t \in Thread, thr[t].pc = "free_xen", thr[t].d = d PROVE FALSE
      BY <1>0, <2>2, <3>1 DEF CpuPorts, GivesBack, XenAlone
    <3> QED BY <1>0, <2>2, <3>1 DEF ChanEffect
  <2> QED BY <1>0, <2>1, <2>2, <2>3, <2>4 DEF NotifiesXen
<1>4. ASSUME thr[u].pc = "free_xen" PROVE GivesBack(u)'
  <2>1. PICK d \in Domain, p \in Port : d = thr[u].d /\ p = thr[u].p
    BY <1>0, <1>4, ThreadFacts
  <2>2. /\ thr[u].caller = "xen"
        /\ life[d] = "alive" =>
             evtchn[d][p].xen /\ \A v \in Vcpu : xen_port[d][v] # p
    BY <1>0, <1>4, <2>1 DEF CpuPorts, GivesBack
  <2>3. life'[d] = "alive" => life[d] = "alive"
    BY <1>0, <2>1, NoneAssumption DEF CpuEffect, ThreadInv, WorksOn
  <2>4. ASSUME life[d] = "alive" PROVE evtchn'[d][p].xen
    <3>1. ASSUME t \in Thread, thr[t].pc = "free_xen", thr[t].d = d PROVE FALSE
      BY <1>0, <2>1, <2>2, <3>1 DEF CpuPorts, GivesBack, XenAlone
    <3> QED BY <1>0, <2>2, <2>4, <3>1 DEF ChanEffect
  <2>5. ASSUME life[d] = "alive", NEW v \in Vcpu PROVE xen_port'[d][v] # p
    <3>1. State(d, p) # "FREE"
      BY <1>0, <2>2, <2>5 DEF GoodChannels, GoodChan, State
    <3> QED BY <1>0, <2>2, <2>5, <3>1 DEF TableEffect
  <2> QED BY <1>0, <2>1, <2>2, <2>3, <2>4, <2>5 DEF GivesBack
<1>5. ASSUME thr[u].caller = "xen" PROVE XenAlone(u)'
  <2>1. /\ thr[u].d \in Domain \ {Dom0} /\ thr[u].cur = Dom0
        /\ \A x \in Thread : /\ thr[x].cur # thr[u].d
                             /\ thr[x].caller = "xen" /\ thr[x].d = thr[u].d => x = u
    BY <1>0, <1>5 DEF CpuPorts, XenAlone
  <2>2. Paused(thr[u].d)
    BY <1>5 DEF Paused
  <2>3. ASSUME NEW x \in Thread
        PROVE  /\ thr'[x].cur # thr[u].d
               /\ thr'[x].caller = "xen" /\ thr'[x].d = thr[u].d => x = u
    <3>1. CASE x = t
      BY <1>0, <2>1, <2>2, <3>1, NoneAssumption DEF CpuEffect
    <3>2. CASE x # t
      BY <2>1, <3>2 DEF Frame
    <3> QED BY <3>1, <3>2
  <2> QED BY <1>0, <1>5, <2>1, <2>3 DEF XenAlone
<1>6. /\ thr[u].pc # "notify" => NotifiesXen(u)'
      /\ thr[u].pc # "free_xen" => GivesBack(u)'
      /\ thr[u].caller # "xen" => XenAlone(u)'
      /\ TakesPort(u)'
  BY <1>0 DEF CpuPorts, TakesPort, NotifiesXen, GivesBack, XenAlone
<1> QED BY <1>1, <1>2, <1>3, <1>4, <1>5, <1>6 DEF CpuPorts

\* The ports of the vcpus stay Xen's.
LEMMA XenTableKept ==
  ASSUME LinkInv, PortInv, NEW t, Effect(t), TypeOK'
  PROVE  XenTable'
<1>0. /\ TypeOK /\ GoodChannels /\ XenTable
      /\ ChanEffect(t) /\ TableEffect(t) /\ CpuEffect(t)
      /\ t \in Thread => GivesBack(t)
  BY DEF LinkInv, PortInv, Effect, CpuPorts
<1> SUFFICES ASSUME NEW d \in Domain, NEW v \in Vcpu, life'[d] = "alive",
                    xen_port'[d][v] # 0
             PROVE  /\ evtchn'[d][xen_port'[d][v]].xen
                    /\ \A u \in Vcpu : u # v => xen_port'[d][u] # xen_port'[d][v]
  BY DEF XenTable
<1>1. life[d] = "alive"
  BY <1>0 DEF CpuEffect
<1>2. \A u \in Vcpu : xen_port[d][u] \in Port /\ xen_port'[d][u] \in Port
  BY <1>0 DEF TypeOK
<1>3. \A u \in Vcpu : xen_port[d][u] # 0 => State(d, xen_port[d][u]) # "FREE"
  BY <1>0, <1>1, <1>2 DEF XenTable, GoodChannels, GoodChan, State
<1>4. ASSUME NEW u \in Vcpu, xen_port'[d][u] = xen_port[d][u], xen_port[d][u] # 0
      PROVE  evtchn'[d][xen_port[d][u]].xen
  <2>1. evtchn[d][xen_port[d][u]].xen
    BY <1>0, <1>1, <1>4 DEF XenTable
  <2>2. ~ (t \in Thread /\ thr[t].pc = "free_xen" /\ thr[t].d = d
             /\ thr[t].p = xen_port[d][u])
    BY <1>0, <1>1 DEF GivesBack
  <2> QED BY <1>0, <1>1, <1>2, <2>1, <2>2 DEF ChanEffect
<1>5. State(d, 0) # "FREE"
  BY <1>0, <1>1 DEF GoodChannels
<1>6. CASE xen_port'[d][v] = xen_port[d][v]
  <2>1. evtchn'[d][xen_port'[d][v]].xen
    BY <1>4, <1>6
  <2>2. ASSUME NEW u \in Vcpu, u # v PROVE xen_port'[d][u] # xen_port'[d][v]
    BY <1>0, <1>1, <1>3, <1>6, <2>2 DEF XenTable, TableEffect
  <2> QED BY <2>1, <2>2
<1>7. CASE xen_port'[d][v] # xen_port[d][v]
  BY <1>0, <1>1, <1>3, <1>5, <1>7 DEF TableEffect
<1> QED BY <1>6, <1>7

\* Together.
LEMMA PortKeeps ==
  ASSUME LinkInv, PortInv, NEW t, Step(t), Effect(t), TypeOK',
         GoodChannels', EventsOnPorts', VirqNamesPort', PirqNamesPort',
         PortInTables', t \in Thread => CpuPorts(t)'
  PROVE  PortInv'
<1>1. XenTable'
  BY XenTableKept
<1>2. ASSUME NEW u \in Thread PROVE CpuPorts(u)'
  <2>1. CASE u = t
    BY <2>1
  <2>2. CASE u # t
    BY <2>2, OthersPorts DEF Step
  <2> QED BY <2>1, <2>2
<1> QED BY <1>1, <1>2 DEF PortInv

-----------------------------------------------------------------------------
(* Steps that change no channel.                                           *)

\* The tables stay; what is pending or dropped may change.
LEMMA QuietPorts ==
  ASSUME LinkInv, PortInv, TypeOK', NEW t, Step(t), CpuEffect(t), EventsOnPorts',
         UNCHANGED <<evtchn, virq_to_evtchn, pirq_to_evtchn, xen_port>>,
         \A d \in Domain, v \in Vcpu, u \in Thread \ {t} :
           virq_lock[d][v] = u => virq_lock'[d][v] = u,
         \A d \in Domain : life'[d] = "alive" => life[d] = "alive",
         t \in Thread => thr[t].pc # "close_virq" /\ CpuPorts(t)'
  PROVE  PortInv'
<1>1. GoodChannels /\ VirqNamesPort /\ PirqNamesPort /\ PortInTables
  BY DEF PortInv
<1>2. GoodChannels'
  BY <1>1 DEF GoodChannels, GoodChan, State
<1>3. VirqNamesPort' /\ PirqNamesPort'
  BY <1>1 DEF VirqNamesPort, PirqNamesPort
<1>4. \A u \in Thread, d \in Domain, p \in Port :
        ClosesVirq(u, d, p) => ClosesVirq(u, d, p)'
  BY DEF Step, Frame, ClosesVirq
<1>5. PortInTables'
  <2> SUFFICES ASSUME NEW d \in Domain, NEW p \in Port
               PROVE  /\ State(d, p)' = "PIRQ" =>
                           pirq_to_evtchn'[d][evtchn'[d][p].irq] = p
                      /\ State(d, p)' = "VIRQ" =>
                           \/ \E v \in Vcpu :
                                virq_to_evtchn'[d][v][evtchn'[d][p].irq] = p
                           \/ \E u \in Thread : ClosesVirq(u, d, p)'
    BY DEF PortInTables
  <2> QED BY <1>1, <1>4 DEF PortInTables, State
<1>6. Effect(t)
  <2>1. ChanEffect(t)
    BY DEF ChanEffect, State
  <2>2. TableEffect(t)
    BY DEF TableEffect
  <2> QED BY <2>1, <2>2 DEF Effect
<1> QED BY <1>2, <1>3, <1>5, <1>6, PortKeeps

\* Nor does what is pending or dropped.
LEMMA EventsSame ==
  ASSUME PortInv, UNCHANGED <<evtchn, pending, owed>>
  PROVE  EventsOnPorts'
BY DEF PortInv, EventsOnPorts, State

\* Places of which the invariant says nothing but, if CPU t is changing the
\* ports of a stopped domain, that it still is.
Unwatched(t, s) ==
    /\ s.pc \notin {"virq_set", "close_higher", "notify", "free_xen"}
    /\ s.pc = "alloc" => s.p # 0
    /\ s.caller = "xen" => /\ thr[t].caller = "xen" /\ s.d = thr[t].d
                           /\ s.cur = thr[t].cur

LEMMA XenStays ==
  ASSUME PortInv, NEW t \in Thread, Frame(t),
         thr'[t].caller = "xen" => /\ thr[t].caller = "xen" /\ thr'[t].d = thr[t].d
                                   /\ thr'[t].cur = thr[t].cur
  PROVE  XenAlone(t)'
BY DEF Frame, PortInv, CpuPorts, XenAlone

LEMMA UnwatchedCpu ==
  ASSUME PortInv, NEW t \in Thread, Frame(t), NEW s, thr'[t] = s, Unwatched(t, s)
  PROVE  CpuPorts(t)'
<1>1. /\ SendsVirq(t)' /\ ClosesGuests(t)' /\ NotifiesXen(t)' /\ GivesBack(t)'
      /\ TakesPort(t)'
  BY DEF Unwatched, SendsVirq, ClosesGuests, NotifiesXen, GivesBack, TakesPort
<1>2. XenAlone(t)'
  BY XenStays DEF Unwatched
<1> QED BY <1>1, <1>2 DEF CpuPorts

\* CPU t goes on at s, which is such a place.
LEMMA QuietGoes ==
  ASSUME LinkInv, PortInv, TypeOK', NEW t \in Thread, Step(t), NEW s,
         thr' = [thr EXCEPT ![t] = s], Unwatched(t, s),
         thr[t].pc # "close_virq", s.pc # "destroy_barrier",
         s.cur \in {thr[t].cur, None} \/ ~Paused(s.cur),
         UNCHANGED <<evtchn, irqs, xen_port, virq_lock, pending, owed>>,
         \A d \in Domain : life'[d] = "alive" => life[d] = "alive"
  PROVE  PortInv'
<1>1. thr'[t] = s /\ Frame(t)
  BY DEF LinkInv, TypeOK, Step
<1>2. EventsOnPorts'
  BY EventsSame
<1>3. CpuPorts(t)'
  BY <1>1, UnwatchedCpu
<1>4. CpuEffect(t)
  BY <1>1 DEF CpuEffect, Unwatched
<1>5. UNCHANGED <<virq_to_evtchn, pirq_to_evtchn, xen_port>>
  BY DEF irqs
<1> QED BY <1>2, <1>3, <1>4, <1>5, QuietPorts

\* __evtchn_close returns.
LEMMA OutUnwatched ==
  ASSUME NEW t \in Thread
  PROVE  /\ Unwatched(t, CloseReturned(t))
         /\ CloseReturned(t).cur \in {thr[t].cur, None}
         /\ CloseReturned(t).pc \in {"idle", "reset_next", "destroy_next"}
         /\ CloseReturned(t).caller # "xen"
BY DEF CloseReturned, Unwatched, Idle, At

LEMMA OutLives ==
  ASSUME TypeOK, NEW t \in Thread, CloseOut(t)
  PROVE  \A d \in Domain : life'[d] = "alive" => life[d] = "alive"
<1>1. CASE UNCHANGED doms
  BY <1>1 DEF doms
<1>2. CASE put_domain(thr[t].d2)
  BY <1>2 DEF put_domain, TypeOK
<1> QED BY <1>1, <1>2 DEF CloseOut

LEMMA PortCloseFails ==
  ASSUME LinkInv, PortInv, TypeOK', NEW t \in Thread, Step(t), CloseFails(t)
  PROVE  PortInv'
<1>1. TypeOK
  BY DEF LinkInv
<1>2. /\ thr[t].pc = "close" /\ CloseOut(t)
      /\ thr' = [thr EXCEPT ![t] = CloseReturned(t)]
      /\ UNCHANGED <<evtchn, irqs, xen_port, virq_lock, pending, owed>>
  BY DEF CloseFails, CloseOut, tables, events
<1>3. \A d \in Domain : life'[d] = "alive" => life[d] = "alive"
  BY <1>1, <1>2, OutLives
<1> QED BY <1>2, <1>3, OutUnwatched, QuietGoes

\* CPU t goes on inside the same operation, at another place.
LEMMA PortGoto ==
  ASSUME LinkInv, PortInv, TypeOK', NEW t \in Thread, Step(t), NEW pc,
         thr' = [thr EXCEPT ![t] = Goto(t, pc)],
         pc \in {"close", "close_virq", "close_lower", "destroy_next"},
         thr[t].pc # "close_virq",
         UNCHANGED <<evtchn, irqs, xen_port, virq_lock, pending, owed, life>>
  PROVE  PortInv'
<1> DEFINE s == Goto(t, pc)
<1>1. /\ s.pc = pc /\ s.cur = thr[t].cur /\ s.caller = thr[t].caller
      /\ s.d = thr[t].d
  BY DEF Goto, At
<1>2. Unwatched(t, s)
  BY <1>1 DEF Unwatched
<1> HIDE DEF s
<1>3. thr' = [thr EXCEPT ![t] = s]
  BY DEF s
<1> QED BY <1>1, <1>2, <1>3, QuietGoes

\* An operation ends.
LEMMA PortIdle ==
  ASSUME LinkInv, PortInv, TypeOK', NEW t \in Thread, Step(t),
         thr' = [thr EXCEPT ![t] = Idle], thr[t].pc # "close_virq",
         UNCHANGED <<evtchn, irqs, xen_port, virq_lock, pending, owed, life>>
  PROVE  PortInv'
<1>1. Unwatched(t, Idle) /\ Idle.cur = None /\ Idle.pc = "idle"
  BY DEF Unwatched, Idle, At
<1> QED BY <1>1, QuietGoes

LEMMA PortQuietContinue ==
  ASSUME LinkInv, PortInv, TypeOK', NEW t \in Thread, Step(t),
         CloseVirq(t) \/ CloseLower(t) \/ ResetNext(t) \/ DestroyBarrier(t)
  PROVE  PortInv'
<1> USE DEF tables, events, locks, doms
<1>1. CASE CloseVirq(t)
  BY <1>1, PortGoto DEF CloseVirq
<1>2. CASE CloseLower(t)
  BY <1>2, PortGoto DEF CloseLower
<1>3. CASE ResetNext(t)
  BY <1>3, PortGoto, PortIdle DEF ResetNext
<1>4. CASE DestroyBarrier(t)
  BY <1>4, PortGoto DEF DestroyBarrier
<1> QED BY <1>1, <1>2, <1>3, <1>4

\* The reference is taken: the port was found to be the guest's.
LEMMA PortCloseGetRemote ==
  ASSUME LinkInv, PortInv, TypeOK', NEW t \in Thread, Step(t), CloseGetRemote(t)
  PROVE  PortInv'
<1>1. /\ thr[t].pc = "close" /\ ~CloseRefused(t)
      /\ UNCHANGED <<evtchn, irqs, xen_port, virq_lock, pending, owed, life>>
  BY DEF CloseGetRemote, tables, events
<1>2. PICK s : /\ thr' = [thr EXCEPT ![t] = s]
               /\ s.pc \in {"close_higher", "close_lower"} /\ s.cur = thr[t].cur
               /\ s.caller = thr[t].caller /\ s.d = thr[t].d /\ s.p = thr[t].p
  <2>1. PICK d2 : d2 = evtchn[thr[t].d][thr[t].p].dom
    OBVIOUS
  <2> DEFINE r(pc) == At(pc, thr[t].caller, thr[t].cur, thr[t].d, thr[t].p, d2,
                         None, None)
  <2>2. \/ thr' = [thr EXCEPT ![t] = r("close_higher")]
        \/ thr' = [thr EXCEPT ![t] = r("close_lower")]
    BY <2>1 DEF CloseGetRemote
  <2>3. ASSUME NEW pc
        PROVE  /\ r(pc).pc = pc /\ r(pc).cur = thr[t].cur /\ r(pc).d = thr[t].d
               /\ r(pc).caller = thr[t].caller /\ r(pc).p = thr[t].p
    BY DEF At
  <2> HIDE DEF r
  <2> QED BY <2>2, <2>3
<1>3. thr'[t] = s /\ Frame(t)
  BY <1>2 DEF LinkInv, TypeOK, Step
<1>4. ~evtchn[thr[t].d][thr[t].p].xen
  BY <1>1 DEF CloseRefused
<1>5. CpuPorts(t)'
  <2>1. SendsVirq(t)' /\ NotifiesXen(t)' /\ GivesBack(t)' /\ TakesPort(t)'
    BY <1>2, <1>3 DEF SendsVirq, NotifiesXen, GivesBack, TakesPort
  <2>2. ClosesGuests(t)'
    BY <1>1, <1>2, <1>3, <1>4 DEF ClosesGuests
  <2>3. XenAlone(t)'
    BY <1>2, <1>3, XenStays
  <2> QED BY <2>1, <2>2, <2>3 DEF CpuPorts
<1>6. CpuEffect(t)
  BY <1>1, <1>2, <1>3 DEF CpuEffect
<1>7. EventsOnPorts'
  BY <1>1, EventsSame
<1> QED BY <1>1, <1>5, <1>6, <1>7, QuietPorts DEF irqs

\* An event becomes pending on a port in use, or is dropped on a waiting one.
LEMMA EventsSet ==
  ASSUME TypeOK, PortInv, NEW d \in Domain, NEW p \in Port, UNCHANGED evtchn,
         \/ /\ pending' = [pending EXCEPT ![d] = @ \cup {p}] /\ UNCHANGED owed
            /\ State(d, p) \notin {"FREE", "RESERVED"}
         \/ /\ owed' = [owed EXCEPT ![d] = @ \cup {p}] /\ UNCHANGED pending
            /\ State(d, p) = "UNBOUND"
  PROVE  EventsOnPorts'
<1>1. EventsOnPorts
  BY DEF PortInv
<1>2. \A e \in Domain, q \in Port : State(e, q)' = State(e, q)
  BY DEF State
<1>3. \A e \in Domain, q \in Port :
        /\ q \in pending'[e] => \/ q \in pending[e]
                                \/ State(e, q) \notin {"FREE", "RESERVED"}
        /\ q \in owed'[e] => q \in owed[e] \/ State(e, q) = "UNBOUND"
  <2>1. CASE pending' = [pending EXCEPT ![d] = @ \cup {p}] /\ UNCHANGED owed
    BY <2>1 DEF TypeOK
  <2>2. CASE owed' = [owed EXCEPT ![d] = @ \cup {p}] /\ UNCHANGED pending
    BY <2>2 DEF TypeOK
  <2> QED BY <2>1, <2>2
<1> QED BY <1>1, <1>2, <1>3 DEF EventsOnPorts

\* hvm_send_assist_req notifies the device model.
LEMMA PortNotify ==
  ASSUME LinkInv, PortInv, TypeOK', NEW t \in Thread, Step(t),
         notify_via_xen_event_channel(t)
  PROVE  PortInv'
<1>0. TypeOK /\ LinksSymmetric /\ GoodChannels /\ NotifiesXen(t) /\ Frame(t)
  BY DEF LinkInv, PortInv, CpuPorts, Step
<1>1. /\ thr[t].pc = "notify" /\ thr' = [thr EXCEPT ![t] = Idle]
      /\ UNCHANGED <<evtchn, virq_to_evtchn, pirq_to_evtchn, xen_port, virq_lock, life>>
  BY DEF notify_via_xen_event_channel, tables, irqs, doms, locks
<1>2. PICK d \in Domain, p \in Port : d = thr[t].d /\ p = thr[t].p
  BY <1>0, <1>1, ThreadFacts
<1>3. EventsOnPorts'
  <2>1. CASE State(d, p) = "INTERDOMAIN"
    <3>1. PICK e \in Domain, q \in Port : e = evtchn[d][p].dom /\ q = evtchn[d][p].port
      BY <1>0, <2>1 DEF LinksSymmetric
    <3>2. State(e, q) = "INTERDOMAIN"
      BY <1>0, <2>1, <3>1 DEF LinksSymmetric
    <3>3. pending' = [pending EXCEPT ![e] = @ \cup {q}] /\ UNCHANGED owed
      BY <1>2, <2>1, <3>1 DEF notify_via_xen_event_channel
    <3> QED BY <1>0, <1>1, <3>2, <3>3, EventsSet
  <2>2. CASE State(d, p) # "INTERDOMAIN"
    <3>1. State(d, p) = "UNBOUND"
      BY <1>0, <1>1, <1>2, <2>2 DEF NotifiesXen, GoodChannels, GoodChan, State
    <3>2. owed' = [owed EXCEPT ![d] = @ \cup {p}] /\ UNCHANGED pending
      BY <1>2, <2>2 DEF notify_via_xen_event_channel
    <3> QED BY <1>0, <1>1, <3>1, <3>2, EventsSet
  <2> QED BY <2>1, <2>2
<1>4. thr'[t] = Idle /\ Unwatched(t, Idle) /\ Idle.cur = None /\ Idle.pc = "idle"
  BY <1>0, <1>1 DEF TypeOK, Unwatched, Idle, At
<1>5. CpuPorts(t)'
  BY <1>0, <1>4, UnwatchedCpu
<1>6. CpuEffect(t)
  BY <1>1, <1>4 DEF CpuEffect, Unwatched
<1> QED BY <1>1, <1>3, <1>5, <1>6, QuietPorts

\* A virtual interrupt: the port is looked up under virq_lock ...
LEMMA PortVirqLookup ==
  ASSUME LinkInv, PortInv, TypeOK', NEW t \in Thread, Step(t), VirqLookup(t)
  PROVE  PortInv'
<1>0. TypeOK /\ VirqNamesPort /\ Frame(t)
  BY DEF LinkInv, PortInv, Step
<1>1. /\ thr[t].pc = "virq"
      /\ UNCHANGED <<evtchn, virq_to_evtchn, pirq_to_evtchn, xen_port, pending, owed,
                     life>>
  BY DEF VirqLookup, tables, irqs, doms, events
<1>2. PICK d \in Domain, v \in Vcpu, i \in Virq :
        d = thr[t].d /\ v = thr[t].v /\ i = thr[t].irq
  BY <1>0, <1>1, ThreadFacts
<1>3. CASE virq_to_evtchn[d][v][i] = 0
  BY <1>1, <1>2, <1>3, PortIdle DEF VirqLookup, irqs
<1>4. CASE virq_to_evtchn[d][v][i] # 0
  <2>1. PICK p \in Port : p = virq_to_evtchn[d][v][i]
    BY <1>0 DEF TypeOK
  <2>2. PICK s : /\ s.pc = "virq_set" /\ s.caller = "none" /\ s.cur = None
                 /\ s.d = d /\ s.p = p /\ s.v = v /\ s.irq = i
                 /\ thr' = [thr EXCEPT ![t] = s]
    BY <1>2, <1>4, <2>1 DEF VirqLookup, At
  <2>3. virq_lock[d][v] = None /\ virq_lock' = [virq_lock EXCEPT ![d][v] = t]
    BY <1>2, <1>4 DEF VirqLookup
  <2>4. thr'[t] = s
    BY <1>0, <2>2 DEF TypeOK
  <2>5. /\ virq_lock'[d][v] = t
        /\ \A e \in Domain, x \in Vcpu, u \in Thread \ {t} :
             virq_lock[e][x] = u => virq_lock'[e][x] = u
    <3>1. \A e \in Domain, x \in Vcpu :
            virq_lock'[e][x] = IF e = d /\ x = v THEN t ELSE virq_lock[e][x]
      BY <1>0, <2>3 DEF TypeOK
    <3> QED BY <2>3, <3>1, NoneAssumption
  <2>6. State(d, p) = "VIRQ" /\ evtchn[d][p].irq = i
    BY <1>0, <1>4, <2>1 DEF VirqNamesPort, State
  <2>7. SendsVirq(t)'
    <3>1. State(d, p)' = "VIRQ" /\ evtchn'[d][p].irq = i
      BY <1>1, <2>6 DEF State
    <3>2. virq_to_evtchn'[d][v][i] = p
      BY <1>1, <2>1
    <3> QED BY <2>2, <2>4, <2>5, <3>1, <3>2 DEF SendsVirq
  <2>8. CpuPorts(t)'
    BY <2>2, <2>4, <2>7
       DEF CpuPorts, ClosesGuests, NotifiesXen, GivesBack, XenAlone, TakesPort
  <2>9. CpuEffect(t)
    BY <1>1, <2>2, <2>4 DEF CpuEffect
  <2>10. EventsOnPorts'
    BY <1>1, EventsSame
  <2> QED BY <1>1, <2>5, <2>8, <2>9, <2>10, QuietPorts
<1> QED BY <1>3, <1>4

\* ... and is still bound when it is set pending.
LEMMA PortVirqSet ==
  ASSUME LinkInv, PortInv, TypeOK', NEW t \in Thread, Step(t), VirqSetPending(t)
  PROVE  PortInv'
<1>0. TypeOK /\ SendsVirq(t) /\ Frame(t)
  BY DEF LinkInv, PortInv, CpuPorts, Step
<1>1. /\ thr[t].pc = "virq_set" /\ thr' = [thr EXCEPT ![t] = Idle]
      /\ UNCHANGED <<evtchn, virq_to_evtchn, pirq_to_evtchn, xen_port, owed, life>>
  BY DEF VirqSetPending, tables, irqs, doms
<1>2. PICK d \in Domain, p \in Port, v \in Vcpu :
        d = thr[t].d /\ p = thr[t].p /\ v = thr[t].v
  BY <1>0, <1>1, ThreadFacts
<1>3. /\ pending' = [pending EXCEPT ![d] = @ \cup {p}]
      /\ virq_lock' = [virq_lock EXCEPT ![d][v] = None]
  BY <1>2 DEF VirqSetPending
<1>4. State(d, p) = "VIRQ" /\ virq_lock[d][v] = t
  BY <1>0, <1>1, <1>2 DEF SendsVirq
<1>5. EventsOnPorts'
  BY <1>0, <1>1, <1>3, <1>4, EventsSet
<1>6. \A e \in Domain, x \in Vcpu, u \in Thread \ {t} :
        virq_lock[e][x] = u => virq_lock'[e][x] = u
  BY <1>0, <1>3, <1>4 DEF TypeOK
<1>7. thr'[t] = Idle /\ Unwatched(t, Idle) /\ Idle.cur = None /\ Idle.pc = "idle"
  BY <1>0, <1>1 DEF TypeOK, Unwatched, Idle, At
<1>8. CpuPorts(t)'
  BY <1>0, <1>7, UnwatchedCpu
<1>9. CpuEffect(t)
  BY <1>1, <1>7 DEF CpuEffect, Unwatched
<1> QED BY <1>1, <1>5, <1>6, <1>8, <1>9, QuietPorts

-----------------------------------------------------------------------------
(* Operations that begin.                                                  *)

\* CPU t, which was idle, begins an operation of a domain that runs, or of Xen.
LEMMA PortBegins ==
  ASSUME LinkInv, PortInv, TypeOK', NEW t \in Thread, Step(t), NEW s,
         thr' = [thr EXCEPT ![t] = s], thr[t].pc = "idle",
         s.pc \notin {"virq_set", "close_higher", "notify", "free_xen",
                      "destroy_barrier"},
         s.pc = "alloc" => s.p # 0,
         s.caller # "xen", s.cur = None \/ ~Paused(s.cur),
         UNCHANGED <<evtchn, irqs, xen_port, virq_lock, pending, owed>>,
         \A d \in Domain : life'[d] = "alive" => life[d] = "alive"
  PROVE  PortInv'
<1>1. Unwatched(t, s)
  BY DEF Unwatched
<1> QED BY <1>1, QuietGoes

\* The port of a new channel is not port 0, which is reserved.
LEMMA FreeNotZero ==
  ASSUME LinkInv, PortInv, NEW d \in Domain, NEW p \in Port, get_free_port(d, p)
  PROVE  p # 0 /\ State(d, p) = "FREE" /\ life[d] = "alive"
BY FreePort DEF PortInv, GoodChannels

LEMMA PortBegin ==
  ASSUME LinkInv, PortInv, TypeOK', NEW t \in Thread, Step(t), Begin(t)
  PROVE  PortInv'
<1> USE DEF tables, events, locks, doms
<1>0. TypeOK /\ Frame(t)
  BY DEF LinkInv, Step
<1>1. ASSUME NEW cur \in Domain, NEW d \in Domain, NEW remote \in Domain,
             evtchn_alloc_unbound(t, cur, d, remote)
      PROVE  PortInv'
  <2>a. PICK p \in Port :
          /\ get_free_port(d, p)
          /\ thr' = [thr EXCEPT ![t] =
                       At("alloc", "guest", cur, d, p, remote, None, None)]
    BY <1>1 DEF evtchn_alloc_unbound
  <2>1. PICK s : /\ s = At("alloc", "guest", cur, d, p, remote, None, None)
                 /\ thr' = [thr EXCEPT ![t] = s]
    BY <2>a
  <2>2. s.pc = "alloc" /\ s.caller = "guest" /\ s.cur = cur /\ s.p # 0
    BY <2>a, <2>1, FreeNotZero DEF At
  <2>3. /\ thr[t].pc = "idle" /\ ~Paused(cur)
        /\ UNCHANGED <<evtchn, irqs, xen_port, virq_lock, pending, owed, life>>
    BY <1>1 DEF evtchn_alloc_unbound, Runs
  <2> QED BY <2>1, <2>2, <2>3, PortBegins
<1>2. ASSUME NEW d \in Domain, NEW remote \in Domain, NEW v \in Vcpu,
             alloc_unbound_xen_event_channel(t, d, v, remote)
      PROVE  PortInv'
  <2>a. PICK p \in Port :
          /\ get_free_port(d, p)
          /\ thr' = [thr EXCEPT ![t] =
                       At("alloc", "xen", Dom0, d, p, remote, v, None)]
    BY <1>2 DEF alloc_unbound_xen_event_channel
  <2>1. PICK s : /\ s = At("alloc", "xen", Dom0, d, p, remote, v, None)
                 /\ thr' = [thr EXCEPT ![t] = s]
    BY <2>a
  <2>2. /\ s.pc = "alloc" /\ s.caller = "xen" /\ s.cur = Dom0 /\ s.d = d /\ thr'[t] = s
        /\ s.p # 0
    BY <1>0, <2>a, <2>1, FreeNotZero DEF At, TypeOK
  <2>3. /\ thr[t].pc = "idle" /\ d # Dom0 /\ ~Paused(Dom0) /\ ~Paused(d) /\ Quiescent(d)
        /\ UNCHANGED <<evtchn, virq_to_evtchn, pirq_to_evtchn, xen_port, virq_lock,
                       pending, owed, life>>
    BY <1>2 DEF alloc_unbound_xen_event_channel, Runs, irqs
  <2>4. XenAlone(t)'
    <3>1. ASSUME NEW u \in Thread
          PROVE  /\ thr'[u].cur # d
                 /\ thr'[u].caller = "xen" /\ thr'[u].d = d => u = t
      <4>1. CASE u = t
        BY <2>2, <2>3, <4>1
      <4>2. CASE u # t
        BY <1>0, <2>3, <4>2 DEF Frame, Quiescent, Paused
      <4> QED BY <4>1, <4>2
    <3> QED BY <2>2, <2>3, <3>1 DEF XenAlone
  <2>5. CpuPorts(t)'
    BY <2>2, <2>4
       DEF CpuPorts, SendsVirq, ClosesGuests, NotifiesXen, GivesBack, TakesPort
  <2>6. CpuEffect(t)
    BY <2>2, <2>3 DEF CpuEffect
  <2>7. EventsOnPorts'
    BY <2>3, EventsSame
  <2> QED BY <2>3, <2>5, <2>6, <2>7, QuietPorts
<1>3. ASSUME NEW ld \in Domain, NEW rd \in Domain, NEW p \in Port,
             evtchn_bind_interdomain(t, ld, rd, p)
      PROVE  PortInv'
  <2>1. PICK s : /\ s = At("bind", "none", ld, ld, p, rd, None, None)
                 /\ thr' = [thr EXCEPT ![t] = s]
    BY <1>3 DEF evtchn_bind_interdomain
  <2>2. s.pc = "bind" /\ s.caller = "none" /\ s.cur = ld
    BY <2>1 DEF At
  <2>3. /\ thr[t].pc = "idle" /\ ~Paused(ld)
        /\ UNCHANGED <<evtchn, irqs, xen_port, virq_lock, pending, owed, life>>
    BY <1>3 DEF evtchn_bind_interdomain, Runs
  <2> QED BY <2>1, <2>2, <2>3, PortBegins
<1>4. ASSUME NEW d \in Domain, NEW p \in Port, evtchn_close(t, d, p)
      PROVE  PortInv'
  <2>1. PICK s : /\ s = At("close", "guest", d, d, p, None, None, None)
                 /\ thr' = [thr EXCEPT ![t] = s]
    BY <1>4 DEF evtchn_close
  <2>2. s.pc = "close" /\ s.caller = "guest" /\ s.cur = d
    BY <2>1 DEF At
  <2>3. /\ thr[t].pc = "idle" /\ ~Paused(d)
        /\ UNCHANGED <<evtchn, irqs, xen_port, virq_lock, pending, owed, life>>
    BY <1>4 DEF evtchn_close, Runs
  <2> QED BY <2>1, <2>2, <2>3, PortBegins
<1>5. ASSUME NEW cur \in Domain, NEW d \in Domain, evtchn_reset(t, cur, d)
      PROVE  PortInv'
  <2>1. PICK s : /\ s = At("reset_next", "reset", cur, d, 0, None, None, None)
                 /\ thr' = [thr EXCEPT ![t] = s]
    BY <1>5 DEF evtchn_reset
  <2>2. s.pc = "reset_next" /\ s.caller = "reset" /\ s.cur = cur
    BY <2>1 DEF At
  <2>3. /\ thr[t].pc = "idle" /\ ~Paused(cur)
        /\ UNCHANGED <<evtchn, irqs, xen_port, virq_lock, pending, owed, life>>
    BY <1>5 DEF evtchn_reset, Runs
  <2> QED BY <2>1, <2>2, <2>3, PortBegins
<1>6. ASSUME NEW d \in Domain, NEW v \in Vcpu, hvm_send_assist_req(t, d, v)
      PROVE  PortInv'
  <2>1. PICK s : /\ s = At("notify", "none", d, d, xen_port[d][v], None, None, None)
                 /\ thr' = [thr EXCEPT ![t] = s]
    BY <1>6 DEF hvm_send_assist_req
  <2>2. /\ s.pc = "notify" /\ s.caller = "none" /\ s.cur = d /\ s.d = d
        /\ s.p = xen_port[d][v] /\ thr'[t] = s
    BY <1>0, <2>1 DEF At, TypeOK
  <2>3. /\ thr[t].pc = "idle" /\ ~Paused(d) /\ life[d] = "alive" /\ xen_port[d][v] # 0
        /\ UNCHANGED <<evtchn, virq_to_evtchn, pirq_to_evtchn, xen_port, virq_lock,
                       pending, owed, life>>
    BY <1>6 DEF hvm_send_assist_req, Runs, irqs
  <2>4. evtchn[d][xen_port[d][v]].xen
    BY <2>3 DEF PortInv, XenTable
  <2>5. NotifiesXen(t)'
    <3>1. evtchn'[d][s.p].xen /\ life'[d] = "alive"
      BY <2>2, <2>3, <2>4
    <3> QED BY <2>2, <3>1 DEF NotifiesXen
  <2>6. CpuPorts(t)'
    BY <2>2, <2>5
       DEF CpuPorts, SendsVirq, ClosesGuests, XenAlone, GivesBack, TakesPort
  <2>7. CpuEffect(t)
    BY <2>2, <2>3 DEF CpuEffect
  <2>8. EventsOnPorts'
    BY <2>3, EventsSame
  <2> QED BY <2>3, <2>6, <2>7, <2>8, QuietPorts
<1>7. ASSUME NEW d \in Domain, NEW v \in Vcpu, NEW irq \in Virq,
             SendVirq(t, d, v, irq)
      PROVE  PortInv'
  <2>1. PICK s : /\ s = At("virq", "none", None, d, 0, None, v, irq)
                 /\ thr' = [thr EXCEPT ![t] = s]
    BY <1>7 DEF SendVirq
  <2>2. s.pc = "virq" /\ s.caller = "none" /\ s.cur = None
    BY <2>1 DEF At
  <2>3. /\ thr[t].pc = "idle"
        /\ UNCHANGED <<evtchn, irqs, xen_port, virq_lock, pending, owed, life>>
    BY <1>7 DEF SendVirq
  <2> QED BY <2>1, <2>2, <2>3, PortBegins
<1>8. ASSUME NEW d \in Domain, domain_kill(t, d)
      PROVE  PortInv'
  <2>1. PICK s : /\ s = At("destroy_barrier", "destroy", Dom0, d, 0, None, None, None)
                 /\ thr' = [thr EXCEPT ![t] = s]
    BY <1>8 DEF domain_kill
  <2>2. /\ s.pc = "destroy_barrier" /\ s.caller = "destroy" /\ s.cur = Dom0
        /\ s.d = d /\ thr'[t] = s
    BY <1>0, <2>1 DEF At, TypeOK
  <2>3. /\ thr[t].pc = "idle" /\ ~Paused(Dom0) /\ Quiescent(d)
        /\ UNCHANGED <<evtchn, virq_to_evtchn, pirq_to_evtchn, xen_port, virq_lock,
                       pending, owed>>
        /\ life' = [life EXCEPT ![d] = "dying"]
    BY <1>8 DEF domain_kill, Runs, irqs
  <2>4. \A e \in Domain : life'[e] = "alive" => life[e] = "alive"
    BY <1>0, <2>3 DEF TypeOK
  <2>5. CpuPorts(t)'
    BY <2>2 DEF CpuPorts, SendsVirq, ClosesGuests, XenAlone, GivesBack, NotifiesXen,
                TakesPort
  <2>6. CpuEffect(t)
    BY <2>2, <2>3, <2>4 DEF CpuEffect
  <2>7. EventsOnPorts'
    BY <2>3, EventsSame
  <2> QED BY <2>3, <2>4, <2>5, <2>6, <2>7, QuietPorts
<1>9. ASSUME NEW d \in Domain, DomainDead(t, d) \/ complete_domain_destroy(t, d)
      PROVE  PortInv'
  <2>1. PICK s : /\ s = At("virq", "none", None, Dom0, 0, None, 0, DomExc)
                 /\ thr' = [thr EXCEPT ![t] = s]
    BY <1>9 DEF DomainDead, complete_domain_destroy
  <2>2. s.pc = "virq" /\ s.caller = "none" /\ s.cur = None
    BY <2>1 DEF At
  <2>3. /\ thr[t].pc = "idle"
        /\ UNCHANGED <<evtchn, irqs, xen_port, virq_lock, pending, owed>>
    BY <1>9 DEF DomainDead, complete_domain_destroy
  <2>4. \A e \in Domain : life'[e] = "alive" => life[e] = "alive"
    <3>1. CASE DomainDead(t, d)
      BY <1>0, <3>1 DEF DomainDead, TypeOK
    <3>2. CASE complete_domain_destroy(t, d)
      BY <1>0, <3>2 DEF complete_domain_destroy, TypeOK
    <3> QED BY <1>9, <3>1, <3>2
  <2> QED BY <2>1, <2>2, <2>3, <2>4, PortBegins
<1> QED BY <1>1, <1>2, <1>3, <1>4, <1>5, <1>6, <1>7, <1>8, <1>9 DEF Begin

-----------------------------------------------------------------------------
(* Events that come and go in one step.                                    *)

LEMMA PortEvents ==
  ASSUME LinkInv, PortInv, TypeOK', Step(None), NEW d \in Domain, NEW p \in Port,
         evtchn_send(d, p) \/ GuestHandles(d, p)
  PROVE  PortInv'
<1> USE DEF tables, irqs, doms, locks
<1>0. TypeOK /\ LinksSymmetric /\ EventsOnPorts
  BY DEF LinkInv, PortInv
<1>1. UNCHANGED <<evtchn, virq_to_evtchn, pirq_to_evtchn, xen_port, virq_lock, life>>
  BY DEF evtchn_send, GuestHandles
<1>2. EventsOnPorts'
  <2>1. CASE UNCHANGED <<pending, owed>>
    BY <1>1, <2>1, EventsSame
  <2>2. ASSUME State(d, p) = "INTERDOMAIN", UNCHANGED owed,
               pending' = [pending EXCEPT ![evtchn[d][p].dom] =
                                          @ \cup {evtchn[d][p].port}]
        PROVE  EventsOnPorts'
    <3>1. PICK e \in Domain, q \in Port : e = evtchn[d][p].dom /\ q = evtchn[d][p].port
      BY <1>0, <2>2 DEF LinksSymmetric
    <3>2. State(e, q) = "INTERDOMAIN"
      BY <1>0, <2>2, <3>1 DEF LinksSymmetric
    <3> QED BY <1>0, <1>1, <2>2, <3>1, <3>2, EventsSet
  <2>3. ASSUME pending' = [pending EXCEPT ![d] = @ \cup {p}], UNCHANGED owed,
               State(d, p) = "IPI"
        PROVE  EventsOnPorts'
    BY <1>0, <1>1, <2>3, EventsSet
  <2>4. ASSUME owed' = [owed EXCEPT ![d] = @ \cup {p}], UNCHANGED pending,
               State(d, p) = "UNBOUND"
        PROVE  EventsOnPorts'
    BY <1>0, <1>1, <2>4, EventsSet
  <2>5. CASE evtchn_send(d, p)
    BY <2>1, <2>2, <2>3, <2>4, <2>5 DEF evtchn_send
  <2>6. CASE GuestHandles(d, p)
    <3>1. \A e \in Domain, q \in Port : /\ q \in pending'[e] => q \in pending[e]
                                        /\ State(e, q)' = State(e, q)
      BY <1>0, <1>1, <2>6 DEF GuestHandles, TypeOK, State
    <3> QED BY <1>0, <2>6, <3>1 DEF GuestHandles, EventsOnPorts
  <2> QED BY <2>5, <2>6
<1>3. CpuEffect(None)
  BY <1>1, NoneAssumption DEF CpuEffect
<1> QED BY <1>1, <1>2, <1>3, NoneAssumption, QuietPorts

LEMMA PortPirq ==
  ASSUME LinkInv, PortInv, TypeOK', Step(None), NEW d \in Domain, NEW irq \in Pirq,
         send_guest_pirq(d, irq)
  PROVE  PortInv'
<1> USE DEF tables, irqs, doms, locks
<1>0. TypeOK /\ PirqNamesPort
  BY DEF LinkInv, PortInv
<1>1. UNCHANGED <<evtchn, virq_to_evtchn, pirq_to_evtchn, xen_port, virq_lock, life>>
  BY DEF send_guest_pirq
<1>2. PICK p \in Port : p = pirq_to_evtchn[d][irq]
  BY <1>0 DEF TypeOK
<1>3. State(d, p) = "PIRQ"
  BY <1>0, <1>2 DEF send_guest_pirq, PirqNamesPort, State
<1>4. EventsOnPorts'
  BY <1>0, <1>1, <1>2, <1>3, EventsSet DEF send_guest_pirq
<1>5. CpuEffect(None)
  BY <1>1, NoneAssumption DEF CpuEffect
<1> QED BY <1>1, <1>4, <1>5, NoneAssumption, QuietPorts

-----------------------------------------------------------------------------
(* Steps that change channels, but no interrupt binding.                   *)

\* What such a step does to channel c of port p of domain d, now c2.
PlainMove(t, d, p, c, c2) ==
    /\ GoodChan(c2)
    /\ c2.xen => c.xen \/ event_lock[d] = t
    /\ c.xen => \/ c2.xen \/ life[d] # "alive"
                \/ t \in Thread /\ thr[t].pc = "free_xen" /\ thr[t].d = d /\ thr[t].p = p
    /\ \/ /\ c2.state = c.state /\ c2.irq = c.irq
          /\ c2.vcpu = c.vcpu \/ (c.state = "VIRQ" => c.irq \in GlobalVirq)
       \/ c.state \notin {"VIRQ", "PIRQ"} /\ c2.state \notin {"VIRQ", "PIRQ"}
    /\ p = 0 => \/ c2.state = c.state
                \/ c2.state \in {"FREE", "RESERVED"} /\ life'[d] # "alive"

PlainMoves(t) ==
    \A d \in Domain, p \in Port : PlainMove(t, d, p, evtchn[d][p], evtchn'[d][p])

\* A channel that stays.
LEMMA PlainSame ==
  ASSUME PortInv, NEW t, NEW d \in Domain, NEW p \in Port
  PROVE  PlainMove(t, d, p, evtchn[d][p], evtchn[d][p])
BY DEF PortInv, GoodChannels, PlainMove

\* One channel is written.
LEMMA PlainOne ==
  ASSUME TypeOK, PortInv, NEW t, NEW d \in Domain, NEW p \in Port, NEW c2,
         evtchn' = [evtchn EXCEPT ![d][p] = c2],
         PlainMove(t, d, p, evtchn[d][p], c2)
  PROVE  PlainMoves(t)
<1> SUFFICES ASSUME NEW e \in Domain, NEW q \in Port
             PROVE  PlainMove(t, e, q, evtchn[e][q], evtchn'[e][q])
  BY DEF PlainMoves
<1>1. CASE e = d /\ q = p
  <2>1. evtchn'[e][q] = c2
    BY <1>1 DEF TypeOK
  <2> QED BY <1>1, <2>1
<1>2. CASE ~(e = d /\ q = p)
  <2>1. evtchn'[e][q] = evtchn[e][q]
    BY <1>2 DEF TypeOK
  <2> QED BY <2>1, PlainSame
<1> QED BY <1>1, <1>2

LEMMA PlainPorts ==
  ASSUME LinkInv, PortInv, TypeOK', NEW t, Step(t), PlainMoves(t), EventsOnPorts',
         TableEffect(t), CpuEffect(t), UNCHANGED <<virq_to_evtchn, pirq_to_evtchn>>,
         \A d \in Domain : life'[d] = "alive" => life[d] = "alive",
         t \in Thread => thr[t].pc # "close_virq" /\ CpuPorts(t)'
  PROVE  PortInv'
<1>0. GoodChannels /\ VirqNamesPort /\ PirqNamesPort /\ PortInTables /\ TypeOK
  BY DEF PortInv, LinkInv
<1>1. GoodChannels'
  BY <1>0, PortFacts DEF PlainMoves, PlainMove, GoodChannels, State
<1>2. ASSUME NEW d \in Domain, NEW p \in Port
      PROVE  /\ State(d, p) \in {"VIRQ", "PIRQ"} \/ State(d, p)' \in {"VIRQ", "PIRQ"} =>
                  State(d, p)' = State(d, p) /\ evtchn'[d][p].irq = evtchn[d][p].irq
             /\ State(d, p) = "VIRQ" /\ evtchn[d][p].irq \notin GlobalVirq =>
                  evtchn'[d][p].vcpu = evtchn[d][p].vcpu
  BY DEF PlainMoves, PlainMove, State
<1>3. VirqNamesPort'
  <2> SUFFICES ASSUME NEW d \in Domain, NEW v \in Vcpu, NEW i \in Virq, NEW p \in Port,
                      p = virq_to_evtchn[d][v][i], p # 0
               PROVE  /\ State(d, p)' = "VIRQ" /\ evtchn'[d][p].irq = i
                      /\ IF i \in GlobalVirq THEN v = 0 ELSE evtchn'[d][p].vcpu = v
    BY <1>0 DEF VirqNamesPort, TypeOK, State
  <2>1. /\ State(d, p) = "VIRQ" /\ evtchn[d][p].irq = i
        /\ IF i \in GlobalVirq THEN v = 0 ELSE evtchn[d][p].vcpu = v
    BY <1>0 DEF VirqNamesPort, State
  <2> QED BY <1>2, <2>1
<1>4. PirqNamesPort'
  <2> SUFFICES ASSUME NEW d \in Domain, NEW i \in Pirq, NEW p \in Port,
                      p = pirq_to_evtchn[d][i], p # 0
               PROVE  State(d, p)' = "PIRQ" /\ evtchn'[d][p].irq = i
    BY <1>0 DEF PirqNamesPort, TypeOK, State
  <2>1. State(d, p) = "PIRQ" /\ evtchn[d][p].irq = i
    BY <1>0 DEF PirqNamesPort, State
  <2> QED BY <1>2, <2>1
<1>5. \A u \in Thread, d \in Domain, p \in Port :
        ClosesVirq(u, d, p) => ClosesVirq(u, d, p)'
  BY DEF Step, Frame, ClosesVirq
<1>6. PortInTables'
  <2> SUFFICES ASSUME NEW d \in Domain, NEW p \in Port
               PROVE  /\ State(d, p)' = "PIRQ" =>
                           pirq_to_evtchn'[d][evtchn'[d][p].irq] = p
                      /\ State(d, p)' = "VIRQ" =>
                           \/ \E v \in Vcpu :
                                virq_to_evtchn'[d][v][evtchn'[d][p].irq] = p
                           \/ \E u \in Thread : ClosesVirq(u, d, p)'
    BY DEF PortInTables
  <2> QED BY <1>0, <1>2, <1>5 DEF PortInTables
<1>7. ChanEffect(t)
  BY <1>2 DEF ChanEffect, PlainMoves, PlainMove
<1> QED BY <1>1, <1>3, <1>4, <1>6, <1>7, PortKeeps DEF Effect

\* The tables beside the channels stay.
LEMMA TablesStay ==
  ASSUME NEW t, UNCHANGED <<virq_to_evtchn, virq_lock, xen_port>>
  PROVE  TableEffect(t)
BY DEF TableEffect

\* What is pending or dropped when one channel is written.
LEMMA EventsOne ==
  ASSUME TypeOK, PortInv, NEW d \in Domain, NEW p \in Port, NEW c2,
         evtchn' = [evtchn EXCEPT ![d][p] = c2],
         \A e \in Domain, q \in Port : /\ q \in pending'[e] => q \in pending[e]
                                       /\ q \in owed'[e] => q \in owed[e],
         c2.state \in {"FREE", "RESERVED"} => p \notin pending'[d],
         c2.state # "UNBOUND" => p \notin owed'[d]
  PROVE  EventsOnPorts'
<1>1. EventsOnPorts
  BY DEF PortInv
<1> SUFFICES ASSUME NEW e \in Domain, NEW q \in Port
             PROVE  /\ q \in pending'[e] => State(e, q)' \notin {"FREE", "RESERVED"}
                    /\ q \in owed'[e] => State(e, q)' = "UNBOUND"
  BY DEF EventsOnPorts
<1>2. CASE e = d /\ q = p
  <2>1. State(e, q)' = c2.state
    BY <1>2 DEF TypeOK, State
  <2> QED BY <1>2, <2>1
<1>3. CASE ~(e = d /\ q = p)
  <2>1. State(e, q)' = State(e, q)
    BY <1>3 DEF TypeOK, State
  <2> QED BY <1>1, <2>1 DEF EventsOnPorts
<1> QED BY <1>2, <1>3

\* CPU t goes on at a place of which nothing else is said.
LEMMA PlainGoes ==
  ASSUME LinkInv, PortInv, TypeOK', NEW t \in Thread, Step(t), NEW s,
         PlainMoves(t), EventsOnPorts',
         thr' = [thr EXCEPT ![t] = s], Unwatched(t, s),
         thr[t].pc # "close_virq", s.pc # "destroy_barrier",
         s.cur \in {thr[t].cur, None}, UNCHANGED <<irqs, xen_port, virq_lock>>,
         \A d \in Domain : life'[d] = "alive" => life[d] = "alive"
  PROVE  PortInv'
<1>1. thr'[t] = s /\ Frame(t)
  BY DEF LinkInv, TypeOK, Step
<1>2. CpuPorts(t)'
  BY <1>1, UnwatchedCpu
<1>3. CpuEffect(t)
  BY <1>1 DEF CpuEffect, Unwatched
<1>4. UNCHANGED <<virq_to_evtchn, pirq_to_evtchn>>
  BY DEF irqs
<1>5. TableEffect(t)
  BY <1>4, TablesStay
<1> QED BY <1>2, <1>3, <1>4, <1>5, PlainPorts

\* The port that CPU t is allocating.
LEMMA AllocKnows ==
  ASSUME LinkInv, PortInv, NEW t \in Thread, thr[t].pc = "alloc"
  PROVE  /\ thr[t].d \in Domain /\ thr[t].p \in Port \ {0}
         /\ State(thr[t].d, thr[t].p) = "FREE" /\ event_lock[thr[t].d] = t
BY ThreadFacts
   DEF LinkInv, PortInv, CpuPorts, TakesPort, ThreadInv, KnowsChannel, HoldsLocks

\* It becomes UNBOUND, for a guest or for Xen.
LEMMA AllocMoves ==
  ASSUME LinkInv, PortInv, NEW t \in Thread, thr[t].pc = "alloc",
         NEW d, d = thr[t].d, NEW p, p = thr[t].p, NEW c2, c2.state = "UNBOUND",
         evtchn' = [evtchn EXCEPT ![d][p] = c2], UNCHANGED <<pending, owed>>
  PROVE  PlainMoves(t) /\ EventsOnPorts'
<1>1. TypeOK /\ GoodChannels /\ EventsOnPorts
  BY DEF LinkInv, PortInv
<1>2. d \in Domain /\ p \in Port \ {0} /\ State(d, p) = "FREE" /\ event_lock[d] = t
  BY AllocKnows
<1>3. ~evtchn[d][p].xen
  BY <1>1, <1>2 DEF GoodChannels, GoodChan, State
<1>4. PlainMove(t, d, p, evtchn[d][p], c2)
  BY <1>2, <1>3 DEF PlainMove, GoodChan, State
<1>5. PlainMoves(t)
  BY <1>1, <1>2, <1>4, PlainOne
<1>6. p \notin owed[d]
  BY <1>1, <1>2 DEF EventsOnPorts
<1>7. EventsOnPorts'
  BY <1>1, <1>2, <1>6, EventsOne
<1> QED BY <1>5, <1>7

LEMMA PortAllocUnbound ==
  ASSUME LinkInv, PortInv, TypeOK', NEW t \in Thread, Step(t), AllocUnbound(t)
  PROVE  PortInv'
<1>1. PICK d, p, c2 : /\ d = thr[t].d /\ p = thr[t].p
                      /\ c2 = UnboundChan(evtchn[d][p], thr[t].d2)
  OBVIOUS
<1>2. /\ thr[t].pc = "alloc" /\ evtchn' = [evtchn EXCEPT ![d][p] = c2]
      /\ thr' = [thr EXCEPT ![t] = Idle]
      /\ UNCHANGED <<irqs, xen_port, virq_lock, pending, owed, life>>
  BY <1>1 DEF AllocUnbound, doms, events
<1>3. c2.state = "UNBOUND"
  BY <1>1 DEF UnboundChan, Channel
<1>4. PlainMoves(t) /\ EventsOnPorts'
  BY <1>1, <1>2, <1>3, AllocMoves
<1>5. Unwatched(t, Idle) /\ Idle.cur = None /\ Idle.pc = "idle"
  BY DEF Unwatched, Idle, At
<1> QED BY <1>2, <1>4, <1>5, PlainGoes

\* The new port of a vcpu is Xen's and nobody else's; the old one is nobody's.
LEMMA PortAllocUnboundXen ==
  ASSUME LinkInv, PortInv, TypeOK', NEW t \in Thread, Step(t), AllocUnboundXen(t)
  PROVE  PortInv'
<1>0. TypeOK /\ GoodChannels /\ XenTable /\ XenAlone(t) /\ Frame(t)
  BY DEF LinkInv, PortInv, CpuPorts, Step
<1>1. PICK d, p, v, c2 : /\ d = thr[t].d /\ p = thr[t].p /\ v = thr[t].v
                         /\ c2 = Channel("UNBOUND", thr[t].d2, None, None, v, TRUE)
  OBVIOUS
<1>2. /\ thr[t].pc = "alloc" /\ thr[t].caller = "xen"
      /\ evtchn' = [evtchn EXCEPT ![d][p] = c2]
      /\ xen_port' = [xen_port EXCEPT ![d][v] = p]
      /\ UNCHANGED <<virq_to_evtchn, pirq_to_evtchn, virq_lock, pending, owed, life>>
  BY <1>1 DEF AllocUnboundXen, doms, events, irqs
<1>3. c2.state = "UNBOUND" /\ c2.xen
  BY <1>1 DEF Channel
<1>4. /\ d \in Domain /\ p \in Port \ {0} /\ State(d, p) = "FREE"
      /\ event_lock[d] = t /\ ~evtchn[d][p].xen
      /\ PlainMoves(t) /\ EventsOnPorts'
  <2>1. /\ d \in Domain /\ p \in Port \ {0} /\ State(d, p) = "FREE"
        /\ event_lock[d] = t /\ PlainMoves(t) /\ EventsOnPorts'
    <3>1. c2.state = "UNBOUND" /\ UNCHANGED <<pending, owed>>
      BY <1>2, <1>3
    <3>2. PlainMoves(t) /\ EventsOnPorts'
      BY <1>1, <1>2, <3>1, AllocMoves
    <3>3. d \in Domain /\ p \in Port \ {0} /\ State(d, p) = "FREE" /\ event_lock[d] = t
      BY <1>1, <1>2, AllocKnows
    <3> QED BY <3>2, <3>3
  <2>2. ~evtchn[d][p].xen
    BY <1>0, <2>1 DEF GoodChannels, GoodChan, State
  <2> QED BY <2>1, <2>2, Zenon
<1>5. v \in Vcpu
  BY <1>0, <1>1, <1>2, ThreadFacts
<1>6. \A e \in Domain, u \in Vcpu :
        xen_port'[e][u] = IF e = d /\ u = v THEN p ELSE xen_port[e][u]
  BY <1>0, <1>2 DEF TypeOK
<1>7. \A e \in Domain, q \in Port :
        evtchn'[e][q] = IF e = d /\ q = p THEN c2 ELSE evtchn[e][q]
  BY <1>0, <1>2 DEF TypeOK
<1>8. TableEffect(t)
  <2>1. \A e \in Domain, u \in Vcpu :
          \/ xen_port'[e][u] = xen_port[e][u]
          \/ /\ State(e, xen_port'[e][u]) = "FREE"
             /\ evtchn'[e][xen_port'[e][u]].xen
             /\ \A w \in Vcpu : w # u => xen_port'[e][w] = xen_port[e][w]
    BY <1>3, <1>4, <1>6, <1>7
  <2> QED BY <1>2, <2>1 DEF TableEffect
<1> DEFINE s == IF xen_port[d][v] = 0 THEN Idle
                ELSE At("free_xen", "xen", thr[t].cur, d, xen_port[d][v], None,
                        None, None)
<1>9. thr'[t] = s
  BY <1>0, <1>1 DEF AllocUnboundXen, TypeOK
<1>10. /\ s.cur \in {thr[t].cur, None} /\ s.pc \in {"idle", "free_xen"}
       /\ s.caller = "xen" => s.d = thr[t].d /\ s.cur = thr[t].cur
       /\ s.pc = "free_xen" => /\ s.caller = "xen" /\ s.d = d
                               /\ s.p = xen_port[d][v] /\ s.p # 0
  BY <1>1 DEF Idle, At
<1> HIDE DEF s
<1>11. XenAlone(t)'
  BY <1>0, <1>2, <1>9, <1>10, XenStays
<1>12. ASSUME s.pc = "free_xen" PROVE GivesBack(t)'
  <2>1. PICK q \in Port : q = xen_port[d][v]
    BY <1>0, <1>4, <1>5 DEF TypeOK
  <2>2. ASSUME life'[d] = "alive"
        PROVE  evtchn'[d][q].xen /\ \A u \in Vcpu : xen_port'[d][u] # q
    <3>1. /\ evtchn[d][q].xen
          /\ \A u \in Vcpu : u # v => xen_port[d][u] # q
      BY <1>0, <1>2, <1>4, <1>5, <1>10, <1>12, <2>1, <2>2 DEF XenTable
    <3>2. q # p
      BY <1>4, <3>1
    <3> QED BY <1>4, <1>5, <1>6, <1>7, <3>1, <3>2
  <2> QED BY <1>9, <1>10, <1>12, <2>1, <2>2 DEF GivesBack
<1>13. CpuPorts(t)'
  BY <1>9, <1>10, <1>11, <1>12
     DEF CpuPorts, SendsVirq, ClosesGuests, NotifiesXen, GivesBack, TakesPort
<1>14. CpuEffect(t)
  BY <1>2, <1>9, <1>10 DEF CpuEffect
<1> QED BY <1>2, <1>4, <1>8, <1>13, <1>14, PlainPorts

\* Xen gives the port up; the close that follows finds it the guest's.
LEMMA PortFreeXen ==
  ASSUME LinkInv, PortInv, TypeOK', NEW t \in Thread, Step(t),
         free_xen_event_channel(t)
  PROVE  PortInv'
<1>0. TypeOK /\ GoodChannels /\ EventsOnPorts
  BY DEF LinkInv, PortInv
<1>1. PICK d, p, c2 : d = thr[t].d /\ p = thr[t].p /\ c2 = GuestChan(evtchn[d][p])
  OBVIOUS
<1>2. /\ thr[t].pc = "free_xen"
      /\ UNCHANGED <<irqs, xen_port, virq_lock, pending, owed, life>>
  BY DEF free_xen_event_channel, doms, events, locks
<1>3. d \in Domain /\ p \in Port
  BY <1>0, <1>1, <1>2, ThreadFacts
<1>4. CASE thr' = [thr EXCEPT ![t] = Idle] /\ UNCHANGED evtchn
  BY <1>2, <1>4, PortIdle
<1>5. CASE /\ evtchn' = [evtchn EXCEPT ![d][p] = c2]
           /\ thr' = [thr EXCEPT ![t] = Goto(t, "close")]
  <2>1. c2.state = evtchn[d][p].state /\ c2.irq = evtchn[d][p].irq
        /\ c2.vcpu = evtchn[d][p].vcpu /\ c2.xen = FALSE
    BY <1>1 DEF GuestChan, Channel
  <2>2. GoodChan(c2)
    BY <1>0, <1>3, <2>1 DEF GoodChannels, GoodChan
  <2>3. PlainMove(t, d, p, evtchn[d][p], c2)
    BY <1>1, <1>2, <2>1, <2>2 DEF PlainMove
  <2>4. PlainMoves(t)
    BY <1>0, <1>3, <1>5, <2>3, PlainOne
  <2>5. EventsOnPorts'
    BY <1>0, <1>2, <1>3, <1>5, <2>1, EventsOne DEF EventsOnPorts, State
  <2> DEFINE s == Goto(t, "close")
  <2>6. Unwatched(t, s) /\ s.cur = thr[t].cur /\ s.pc = "close"
    BY DEF Unwatched, Goto, At
  <2> HIDE DEF s
  <2>7. thr' = [thr EXCEPT ![t] = s]
    BY <1>5 DEF s
  <2> QED BY <1>2, <2>4, <2>5, <2>6, <2>7, PlainGoes
<1> QED BY <1>1, <1>4, <1>5 DEF free_xen_event_channel

\* evtchn_destroy does the same to the ports of a dying domain.
LEMMA PortDestroyNext ==
  ASSUME LinkInv, PortInv, TypeOK', NEW t \in Thread, Step(t), DestroyNext(t)
  PROVE  PortInv'
<1>0. TypeOK /\ GoodChannels /\ EventsOnPorts
  BY DEF LinkInv, PortInv
<1>1. PICK d, p, c2 : d = thr[t].d /\ p = thr[t].p /\ c2 = GuestChan(evtchn[d][p])
  OBVIOUS
<1>2. /\ thr[t].pc = "destroy_next" /\ evtchn' = [evtchn EXCEPT ![d][p] = c2]
      /\ thr' = [thr EXCEPT ![t] = Goto(t, "close")]
      /\ UNCHANGED <<irqs, xen_port, virq_lock, pending, owed, life>>
  BY <1>1 DEF DestroyNext, doms, events, locks
<1>3. d \in Domain /\ p \in Port
  BY <1>0, <1>1, <1>2, ThreadFacts, ValidPort DEF DestroyNext
<1>4. life[d] = "dying"
  BY <1>1, <1>2, DestroyerFacts
<1>5. /\ c2.state = evtchn[d][p].state /\ c2.irq = evtchn[d][p].irq
      /\ c2.vcpu = evtchn[d][p].vcpu /\ c2.xen = FALSE
  BY <1>1 DEF GuestChan, Channel
<1>6. GoodChan(c2)
  BY <1>0, <1>3, <1>5 DEF GoodChannels, GoodChan
<1>7. PlainMove(t, d, p, evtchn[d][p], c2)
  BY <1>4, <1>5, <1>6 DEF PlainMove
<1>8. PlainMoves(t)
  BY <1>0, <1>2, <1>3, <1>7, PlainOne
<1>9. EventsOnPorts'
  BY <1>0, <1>2, <1>3, <1>5, EventsOne DEF EventsOnPorts, State
<1> DEFINE s == Goto(t, "close")
<1>10. Unwatched(t, s) /\ s.cur = thr[t].cur /\ s.pc = "close"
  BY <1>2 DEF Unwatched, Goto, At
<1> HIDE DEF s
<1>11. thr' = [thr EXCEPT ![t] = s]
  BY <1>2 DEF s
<1> QED BY <1>2, <1>8, <1>9, <1>10, <1>11, PlainGoes

\* A single critical section that writes one channel.
LEMMA PlainAtomic ==
  ASSUME LinkInv, PortInv, TypeOK', Step(None), NEW d \in Domain, NEW p \in Port,
         NEW c2, evtchn' = [evtchn EXCEPT ![d][p] = c2],
         PlainMove(None, d, p, evtchn[d][p], c2),
         c2.state = evtchn[d][p].state \/ evtchn[d][p].state = "FREE",
         c2.state \notin {"FREE", "RESERVED"},
         UNCHANGED <<irqs, xen_port, virq_lock, pending, owed, life>>
  PROVE  PortInv'
<1>0. TypeOK /\ EventsOnPorts
  BY DEF LinkInv, PortInv
<1>1. PlainMoves(None)
  BY <1>0, PlainOne
<1>2. EventsOnPorts'
  BY <1>0, EventsOne DEF EventsOnPorts, State
<1>3. TableEffect(None) /\ UNCHANGED <<virq_to_evtchn, pirq_to_evtchn>>
  BY TablesStay DEF irqs
<1>4. CpuEffect(None)
  BY NoneAssumption DEF CpuEffect
<1> QED BY <1>1, <1>2, <1>3, <1>4, NoneAssumption, PlainPorts

LEMMA PortBindIpi ==
  ASSUME LinkInv, PortInv, TypeOK', Step(None), NEW d \in Domain, NEW v \in Vcpu,
         evtchn_bind_ipi(d, v)
  PROVE  PortInv'
<1>1. PICK p \in Port :
        /\ get_free_port(d, p)
        /\ evtchn' = [evtchn EXCEPT ![d][p] =
                        Channel("IPI", None, None, None, v, evtchn[d][p].xen)]
  BY DEF evtchn_bind_ipi
<1>2. PICK c2 : c2 = Channel("IPI", None, None, None, v, evtchn[d][p].xen)
  OBVIOUS
<1>3. p # 0 /\ evtchn[d][p].state = "FREE"
  BY <1>1, FreeNotZero DEF State
<1>4. c2.state = "IPI" /\ c2.xen = evtchn[d][p].xen
  BY <1>2 DEF Channel
<1>5. ~evtchn[d][p].xen
  BY <1>3 DEF PortInv, GoodChannels, GoodChan
<1>6. PlainMove(None, d, p, evtchn[d][p], c2)
  BY <1>3, <1>4, <1>5 DEF PlainMove, GoodChan
<1>7. UNCHANGED <<irqs, xen_port, virq_lock, pending, owed, life>>
  BY DEF evtchn_bind_ipi, events, doms, locks
<1> QED BY <1>1, <1>2, <1>3, <1>4, <1>6, <1>7, PlainAtomic

\* Only a channel that is not tied to a vcpu gets another one.
LEMMA PortBindVcpu ==
  ASSUME LinkInv, PortInv, TypeOK', Step(None), NEW d \in Domain, NEW p \in Port,
         NEW v \in Vcpu, evtchn_bind_vcpu(d, p, v)
  PROVE  PortInv'
<1>1. PICK c2 : c2 = OnVcpu(evtchn[d][p], v)
  OBVIOUS
<1>2. /\ evtchn' = [evtchn EXCEPT ![d][p] = c2]
      /\ UNCHANGED <<irqs, xen_port, virq_lock, pending, owed, life>>
  BY <1>1 DEF evtchn_bind_vcpu, events, doms, locks
<1>3. /\ c2.state = evtchn[d][p].state /\ c2.irq = evtchn[d][p].irq
      /\ c2.xen = evtchn[d][p].xen
  BY <1>1 DEF OnVcpu, Channel
<1>4. /\ evtchn[d][p].state \in {"VIRQ", "UNBOUND", "INTERDOMAIN", "PIRQ"}
      /\ evtchn[d][p].state = "VIRQ" => evtchn[d][p].irq \in GlobalVirq
  BY DEF evtchn_bind_vcpu, State
<1>5. GoodChan(c2)
  BY <1>3, <1>4 DEF PortInv, GoodChannels, GoodChan
<1>6. PlainMove(None, d, p, evtchn[d][p], c2)
  BY <1>3, <1>4, <1>5 DEF PlainMove
<1> QED BY <1>2, <1>3, <1>4, <1>6, PlainAtomic

\* A link is cut: one end is freed, the other waits again.
LEMMA UnlinkMoves ==
  ASSUME LinkInv, PortInv, NEW t, NEW d \in Domain, NEW p \in Port,
         State(d, p) = "INTERDOMAIN", ~evtchn[d][p].xen, UnlinkChannel(d, p)
  PROVE  PlainMoves(t) /\ EventsOnPorts'
<1>0. TypeOK /\ GoodChannels /\ EventsOnPorts /\ LinksSymmetric
  BY DEF LinkInv, PortInv
<1>1. PICK d2 \in Domain, p2 \in Port : d2 = evtchn[d][p].dom /\ p2 = evtchn[d][p].port
  BY <1>0 DEF LinksSymmetric
<1>2. evtchn[d][p].state = "INTERDOMAIN" /\ evtchn[d2][p2].state = "INTERDOMAIN"
  BY <1>0, <1>1 DEF LinksSymmetric, State
<1>3. PICK c1, c2 : c1 = FreedChan(evtchn[d][p]) /\ c2 = UnboundChan(evtchn[d2][p2], d)
  OBVIOUS
<1>4. /\ c1.state = "FREE" /\ c1.vcpu = 0 /\ c1.xen = evtchn[d][p].xen
      /\ c2.state = "UNBOUND" /\ c2.xen = evtchn[d2][p2].xen
  BY <1>3 DEF FreedChan, UnboundChan, Channel
<1>5. evtchn' = [evtchn EXCEPT ![d2][p2] = c2, ![d][p] = c1]
  BY <1>1, <1>3 DEF UnlinkChannel
<1>6. /\ evtchn'[d][p] = c1
      /\ d2 # d \/ p2 # p => evtchn'[d2][p2] = c2
      /\ \A e \in Domain, q \in Port :
           (e # d \/ q # p) /\ (e # d2 \/ q # p2) =>
             evtchn'[e][q] = evtchn[e][q]
  BY <1>0, <1>5 DEF TypeOK
<1>7. p # 0 /\ p2 # 0
  BY <1>0, <1>2 DEF GoodChannels, State
<1>8. PlainMove(t, d, p, evtchn[d][p], c1)
  BY <1>2, <1>4, <1>7 DEF PlainMove, GoodChan
<1>9. PlainMove(t, d2, p2, evtchn[d2][p2], c2)
  BY <1>2, <1>4, <1>7 DEF PlainMove, GoodChan
<1>10. PlainMoves(t)
  <2> SUFFICES ASSUME NEW e \in Domain, NEW q \in Port
               PROVE  PlainMove(t, e, q, evtchn[e][q], evtchn'[e][q])
    BY DEF PlainMoves
  <2>1. CASE e = d /\ q = p
    BY <1>6, <1>8, <2>1
  <2>2. CASE ~(e = d /\ q = p) /\ e = d2 /\ q = p2
    BY <1>6, <1>9, <2>2
  <2>3. CASE ~(e = d /\ q = p) /\ ~(e = d2 /\ q = p2)
    <3>1. evtchn'[e][q] = evtchn[e][q]
      BY <1>6, <2>3
    <3> QED BY <3>1, PlainSame
  <2> QED BY <2>1, <2>2, <2>3
<1>11. EventsOnPorts'
  <2>1. \A e \in Domain, q \in Port :
          /\ q \in pending'[e] => q \in pending[e] /\ (e # d \/ q # p)
          /\ q \in owed'[e] => q \in owed[e] /\ (e # d \/ q # p)
    BY <1>0 DEF UnlinkChannel, TypeOK
  <2> SUFFICES ASSUME NEW e \in Domain, NEW q \in Port
               PROVE  /\ q \in pending'[e] => State(e, q)' \notin {"FREE", "RESERVED"}
                      /\ q \in owed'[e] => State(e, q)' = "UNBOUND"
    BY DEF EventsOnPorts
  <2> QED BY <1>0, <1>4, <1>6, <2>1 DEF EventsOnPorts, State
<1> QED BY <1>10, <1>11

\* __evtchn_close returns after it has changed channels.
LEMMA PlainOut ==
  ASSUME LinkInv, PortInv, TypeOK', NEW t \in Thread, Step(t), CloseOut(t),
         PlainMoves(t), EventsOnPorts', thr[t].pc # "close_virq",
         UNCHANGED <<irqs, xen_port, virq_lock>>
  PROVE  PortInv'
<1>1. \A d \in Domain : life'[d] = "alive" => life[d] = "alive"
  BY OutLives DEF LinkInv
<1>2. thr' = [thr EXCEPT ![t] = CloseReturned(t)]
  BY DEF CloseOut
<1> QED BY <1>1, <1>2, OutUnwatched, PlainGoes

LEMMA PortUnlinks ==
  ASSUME LinkInv, PortInv, TypeOK', NEW t \in Thread, Step(t),
         CloseLinked(t) \/ CloseHigher(t)
  PROVE  PortInv'
<1>1. PICK d, p : d = thr[t].d /\ p = thr[t].p
  OBVIOUS
<1>2. /\ thr[t].pc \in {"close", "close_higher"} /\ UnlinkChannel(d, p) /\ CloseOut(t)
      /\ UNCHANGED <<irqs, xen_port, virq_lock>>
  BY <1>1 DEF CloseLinked, CloseHigher
<1>3. d \in Domain /\ p \in Port /\ State(d, p) = "INTERDOMAIN"
  <2>1. CASE CloseLinked(t)
    BY <1>1, <2>1, ThreadFacts, ValidPort DEF CloseLinked, CloseRefused, LinkInv
  <2>2. CASE CloseHigher(t)
    BY <1>1, <2>2, ThreadFacts DEF CloseHigher, LinkInv, ThreadInv, KnowsChannel
  <2> QED BY <2>1, <2>2
<1>4. ~evtchn[d][p].xen
  <2>1. CASE CloseLinked(t)
    BY <1>1, <2>1 DEF CloseLinked, CloseRefused
  <2>2. CASE CloseHigher(t)
    BY <1>1, <2>2 DEF CloseHigher, PortInv, CpuPorts, ClosesGuests
  <2> QED BY <2>1, <2>2
<1>5. PlainMoves(t) /\ EventsOnPorts'
  BY <1>2, <1>3, <1>4, UnlinkMoves
<1> QED BY <1>2, <1>5, PlainOut

\* A link is made: the drops on the port that waited are made up for.
LEMMA LinkMoves ==
  ASSUME LinkInv, PortInv, NEW t, NEW ld \in Domain, NEW rd \in Domain,
         NEW rport \in Nat, LinkChannels(ld, rd, rport)
  PROVE  PlainMoves(t) /\ EventsOnPorts'
<1>0. TypeOK /\ GoodChannels /\ EventsOnPorts
  BY DEF LinkInv, PortInv
<1>1. CASE UNCHANGED <<evtchn, pending, owed>>
  <2>1. PlainMoves(t)
    BY <1>1, PlainSame DEF PlainMoves
  <2> QED BY <1>1, <2>1, EventsSame
<1>2. ASSUME NEW lport \in Port, get_free_port(ld, lport), AwaitsPeer(rd, rport, ld),
             evtchn' = [evtchn EXCEPT
                ![ld][lport] = LinkedChan(evtchn[ld][lport], rd, rport),
                ![rd][rport] = LinkedChan(evtchn[rd][rport], ld, lport)],
             pending' = [pending EXCEPT ![ld] = @ \cup {lport}],
             owed' = [owed EXCEPT ![rd] = IF lport \in pending'[ld]
                                          THEN @ \ {rport} ELSE @]
      PROVE  PlainMoves(t) /\ EventsOnPorts'
  <2>0. PICK c1, c2 : /\ c1 = LinkedChan(evtchn[ld][lport], rd, rport)
                      /\ c2 = LinkedChan(evtchn[rd][rport], ld, lport)
    OBVIOUS
  <2>1. rport \in Port /\ evtchn[rd][rport].state = "UNBOUND"
    BY <1>0, <1>2, ValidPort DEF AwaitsPeer, State
  <2>2. evtchn[ld][lport].state = "FREE" /\ lport # 0 /\ rport # 0
    BY <1>0, <1>2, <2>1, FreeNotZero DEF State, GoodChannels
  <2>3. /\ c1.state = "INTERDOMAIN" /\ c2.state = "INTERDOMAIN"
        /\ c1.xen = evtchn[ld][lport].xen /\ c2.xen = evtchn[rd][rport].xen
    BY <2>0 DEF LinkedChan, Channel
  <2>4. /\ evtchn'[ld][lport] = c1 /\ evtchn'[rd][rport] = c2
        /\ \A e \in Domain, q \in Port :
             (e # ld \/ q # lport) /\ (e # rd \/ q # rport) =>
               evtchn'[e][q] = evtchn[e][q]
    BY <1>0, <1>2, <2>0, <2>1, <2>2 DEF TypeOK
  <2>5. PlainMove(t, ld, lport, evtchn[ld][lport], c1)
    BY <2>2, <2>3 DEF PlainMove, GoodChan
  <2>6. PlainMove(t, rd, rport, evtchn[rd][rport], c2)
    BY <2>1, <2>2, <2>3 DEF PlainMove, GoodChan
  <2>7. PlainMoves(t)
    <3> SUFFICES ASSUME NEW e \in Domain, NEW q \in Port
                 PROVE  PlainMove(t, e, q, evtchn[e][q], evtchn'[e][q])
      BY DEF PlainMoves
    <3>1. CASE e = ld /\ q = lport
      BY <2>4, <2>5, <3>1
    <3>2. CASE e = rd /\ q = rport
      BY <2>4, <2>6, <3>2
    <3>3. CASE ~(e = ld /\ q = lport) /\ ~(e = rd /\ q = rport)
      <4>1. evtchn'[e][q] = evtchn[e][q]
        BY <2>4, <3>3
      <4> QED BY <4>1, PlainSame
    <3> QED BY <3>1, <3>2, <3>3
  <2>8. EventsOnPorts'
    <3>1. lport \in pending'[ld]
      BY <1>0, <1>2 DEF TypeOK
    <3>2. \A e \in Domain, q \in Port :
            /\ q \in pending'[e] => q \in pending[e] \/ (e = ld /\ q = lport)
            /\ q \in owed'[e] => q \in owed[e] /\ (e # rd \/ q # rport)
      BY <1>0, <1>2, <3>1 DEF TypeOK
    <3> SUFFICES ASSUME NEW e \in Domain, NEW q \in Port
                 PROVE  /\ q \in pending'[e] => State(e, q)' \notin {"FREE", "RESERVED"}
                        /\ q \in owed'[e] => State(e, q)' = "UNBOUND"
      BY DEF EventsOnPorts
    <3> QED BY <1>0, <2>2, <2>3, <2>4, <3>2 DEF EventsOnPorts, State
  <2> QED BY <2>7, <2>8
<1> QED BY <1>1, <1>2 DEF LinkChannels, tables

LEMMA PortBindInterdomain ==
  ASSUME LinkInv, PortInv, TypeOK', NEW t \in Thread, Step(t), BindInterdomain(t)
  PROVE  PortInv'
<1>1. /\ thr[t].pc = "bind" /\ LinkChannels(thr[t].d, thr[t].d2, thr[t].p)
      /\ thr' = [thr EXCEPT ![t] = Idle]
      /\ UNCHANGED <<irqs, xen_port, virq_lock, life>>
  BY DEF BindInterdomain, doms
<1>2. PlainMoves(t) /\ EventsOnPorts'
  BY <1>1, LinkMoves, ThreadFacts DEF LinkInv
<1>3. Unwatched(t, Idle) /\ Idle.cur = None /\ Idle.pc = "idle"
  BY DEF Unwatched, Idle, At
<1> QED BY <1>1, <1>2, <1>3, PlainGoes

LEMMA PortBindLoopback ==
  ASSUME LinkInv, PortInv, TypeOK', Step(None), NEW d \in Domain, NEW p \in Port,
         BindLoopback(d, p)
  PROVE  PortInv'
<1>1. PlainMoves(None) /\ EventsOnPorts'
  BY LinkMoves, PortFacts DEF BindLoopback
<1>2. UNCHANGED <<virq_to_evtchn, pirq_to_evtchn, xen_port, virq_lock, life>>
  BY DEF BindLoopback, irqs, doms, locks
<1>3. TableEffect(None)
  BY <1>2, TablesStay
<1>4. CpuEffect(None)
  BY <1>2, NoneAssumption DEF CpuEffect
<1> QED BY <1>1, <1>2, <1>3, <1>4, NoneAssumption, PlainPorts

\* evtchn_destroy frees the buckets: all their ports have been closed.
LEMMA PortDestroyBuckets ==
  ASSUME LinkInv, PortInv, TypeOK', NEW t \in Thread, Step(t), DestroyBuckets(t)
  PROVE  PortInv'
<1>0. TypeOK /\ GoodChannels /\ EventsOnPorts
  BY DEF LinkInv, PortInv
<1>1. PICK d : d = thr[t].d
  OBVIOUS
<1>2. /\ thr[t].pc = "destroy_next" /\ ~port_is_valid(d, thr[t].p)
      /\ evtchn' = [evtchn EXCEPT ![d] = EmptyTable]
      /\ thr' = [thr EXCEPT ![t] = Idle]
      /\ UNCHANGED <<irqs, xen_port, virq_lock, pending, owed, life>>
  BY <1>1 DEF DestroyBuckets, doms, events, locks
<1>3. thr[t].caller = "destroy" /\ d \in Domain /\ life[d] = "dying"
  BY <1>1, <1>2, DestroyerFacts
<1>4. \A q \in Port : State(d, q) \in {"FREE", "RESERVED"}
  <2>1. nr_ports[d] \in Nat /\ thr[t].p \in Nat /\ nr_ports[d] <= thr[t].p
    BY <1>0, <1>2, <1>3, ThreadFacts DEF TypeOK, BucketEnds, port_is_valid
  <2>2. ASSUME NEW q \in Port PROVE q < thr[t].p \/ ~port_is_valid(d, q)
    BY <2>1, PortFacts DEF port_is_valid
  <2> QED BY <1>1, <1>3, <2>2 DEF LinkInv, ThreadInv, DestroyPassed, TailFree
<1>5. \A q \in Port : EmptyTable[q] = FreeChan
  BY DEF EmptyTable
<1>6. FreeChan.state = "FREE" /\ FreeChan.xen = FALSE /\ FreeChan.vcpu = 0
  BY DEF FreeChan, Channel
<1>7. \A e \in Domain, q \in Port :
        evtchn'[e][q] = IF e = d THEN FreeChan ELSE evtchn[e][q]
  BY <1>0, <1>2, <1>3, <1>5 DEF TypeOK
<1>8. PlainMoves(t)
  <2> SUFFICES ASSUME NEW e \in Domain, NEW q \in Port
               PROVE  PlainMove(t, e, q, evtchn[e][q], evtchn'[e][q])
    BY DEF PlainMoves
  <2>1. CASE e = d
    <3>1. evtchn'[e][q] = FreeChan /\ evtchn[e][q].state \in {"FREE", "RESERVED"}
      BY <1>4, <1>7, <2>1 DEF State
    <3>2. life'[e] # "alive" /\ life[e] # "alive"
      BY <1>2, <1>3, <2>1
    <3>3. PlainMove(t, e, q, evtchn[e][q], FreeChan)
      BY <1>6, <3>1, <3>2 DEF PlainMove, GoodChan
    <3> QED BY <3>1, <3>3
  <2>2. CASE e # d
    <3>1. evtchn'[e][q] = evtchn[e][q]
      BY <1>7, <2>2
    <3> QED BY <3>1, PlainSame
  <2> QED BY <2>1, <2>2
<1>9. EventsOnPorts'
  <2> SUFFICES ASSUME NEW e \in Domain, NEW q \in Port
               PROVE  /\ q \in pending[e] => State(e, q)' \notin {"FREE", "RESERVED"}
                      /\ q \in owed[e] => State(e, q)' = "UNBOUND"
    BY <1>2 DEF EventsOnPorts
  <2>1. CASE e = d
    BY <1>0, <1>4, <2>1 DEF EventsOnPorts
  <2>2. CASE e # d
    BY <1>0, <1>7, <2>2 DEF EventsOnPorts, State
  <2> QED BY <2>1, <2>2
<1>10. Unwatched(t, Idle) /\ Idle.cur = None /\ Idle.pc = "idle"
  BY DEF Unwatched, Idle, At
<1> QED BY <1>2, <1>8, <1>9, <1>10, PlainGoes

-----------------------------------------------------------------------------
(* Steps that change interrupt bindings.                                   *)

\* One channel, not that of port 0, is written.
LEMMA OneWritten ==
  ASSUME TypeOK, NEW d \in Domain, NEW p \in Port, NEW c2,
         evtchn' = [evtchn EXCEPT ![d][p] = c2]
  PROVE  /\ evtchn'[d][p] = c2
         /\ \A e \in Domain, q \in Port :
              e # d \/ q # p => evtchn'[e][q] = evtchn[e][q]
BY DEF TypeOK

LEMMA GoodOne ==
  ASSUME TypeOK, PortInv, NEW d \in Domain, NEW p \in Port \ {0}, NEW c2,
         evtchn' = [evtchn EXCEPT ![d][p] = c2], GoodChan(c2),
         \A e \in Domain : life'[e] = "alive" => life[e] = "alive"
  PROVE  GoodChannels'
<1>1. GoodChannels
  BY DEF PortInv
<1>2. ASSUME NEW e \in Domain, NEW q \in Port PROVE GoodChan(evtchn'[e][q])
  <2>1. CASE e = d /\ q = p
    <3>1. evtchn'[e][q] = c2
      BY <2>1, SMTT(30) DEF TypeOK
    <3> QED BY <3>1
  <2>2. CASE ~(e = d /\ q = p)
    <3>1. evtchn'[e][q] = evtchn[e][q]
      BY <2>2, OneWritten
    <3> QED BY <1>1, <3>1 DEF GoodChannels
  <2> QED BY <2>1, <2>2
<1>3. \A e \in Domain : State(e, 0)' = State(e, 0)
  BY PortFacts DEF State, TypeOK, Port
<1> QED BY <1>1, <1>2, <1>3 DEF GoodChannels

LEMMA ChanOne ==
  ASSUME TypeOK, NEW t, NEW d \in Domain, NEW p \in Port, NEW c2,
         evtchn' = [evtchn EXCEPT ![d][p] = c2], ~c2.xen, ~evtchn[d][p].xen,
         \/ State(d, p) # "VIRQ"
         \/ t \in Thread /\ ClosesVirq(t, d, p) /\ VirqUsers(t) = {}
  PROVE  ChanEffect(t)
<1> SUFFICES ASSUME NEW e \in Domain, NEW q \in Port
             PROVE  /\ evtchn'[e][q].xen => evtchn[e][q].xen
                    /\ evtchn[e][q].xen => evtchn'[e][q].xen
                    /\ State(e, q) = "VIRQ" =>
                         \/ State(e, q)' = "VIRQ" /\ evtchn'[e][q].irq = evtchn[e][q].irq
                         \/ t \in Thread /\ ClosesVirq(t, e, q) /\ VirqUsers(t) = {}
  BY DEF ChanEffect
<1>1. CASE e = d /\ q = p
  <2>1. evtchn'[e][q] = c2
    BY <1>1, SMTT(30) DEF TypeOK
  <2> QED BY <1>1, <2>1
<1>2. CASE ~(e = d /\ q = p)
  <2>1. evtchn'[e][q] = evtchn[e][q]
    BY <1>2, OneWritten
  <2> QED BY <2>1 DEF State
<1> QED BY <1>1, <1>2

\* The CPU whose close returns.
LEMMA OutCpu ==
  ASSUME LinkInv, PortInv, NEW t \in Thread, Step(t), CloseOut(t),
         thr[t].pc = "close_virq" => VirqBarrier(t)
  PROVE  CpuPorts(t)' /\ CpuEffect(t)
<1>1. \A d \in Domain : life'[d] = "alive" => life[d] = "alive"
  BY OutLives DEF LinkInv
<1>2. thr'[t] = CloseReturned(t) /\ Frame(t)
  BY DEF CloseOut, LinkInv, TypeOK, Step
<1>3. CpuPorts(t)'
  BY <1>2, OutUnwatched, UnwatchedCpu
<1>4. CpuEffect(t)
  BY <1>1, <1>2, OutUnwatched DEF CpuEffect
<1> QED BY <1>3, <1>4

\* A channel that is freed is a clean one, and nothing is pending on it.
LEMMA Freed ==
  ASSUME TypeOK, PortInv, NEW d \in Domain, NEW p \in Port, FreeChannel(d, p),
         State(d, p) \notin {"FREE", "RESERVED"}, ~evtchn[d][p].xen
  PROVE  /\ p # 0 /\ EventsOnPorts'
         /\ \E c2 : /\ evtchn' = [evtchn EXCEPT ![d][p] = c2] /\ GoodChan(c2)
                    /\ c2.state = "FREE" /\ ~c2.xen
<1>1. PICK c2 : c2 = FreedChan(evtchn[d][p])
  OBVIOUS
<1>2. evtchn' = [evtchn EXCEPT ![d][p] = c2]
  BY <1>1 DEF FreeChannel
<1>3. c2.state = "FREE" /\ c2.vcpu = 0 /\ c2.xen = evtchn[d][p].xen
  BY <1>1 DEF FreedChan, Channel
<1>4. GoodChan(c2) /\ ~c2.xen
  BY <1>3 DEF GoodChan
<1>5. p # 0
  BY NotZero DEF PortInv
<1>6. \A e \in Domain, q \in Port :
        /\ q \in pending'[e] => q \in pending[e] /\ (e # d \/ q # p)
        /\ q \in owed'[e] => q \in owed[e] /\ (e # d \/ q # p)
  BY DEF FreeChannel, TypeOK
<1>7. EventsOnPorts'
  BY <1>2, <1>3, <1>6, EventsOne
<1> QED BY <1>2, <1>3, <1>4, <1>5, <1>7

\* A waiting port, an IPI or a physical interrupt is closed.
LEMMA PortCloseLocal ==
  ASSUME LinkInv, PortInv, TypeOK', NEW t \in Thread, Step(t), CloseLocal(t)
  PROVE  PortInv'
<1>0. TypeOK /\ VirqNamesPort /\ PirqNamesPort /\ PortInTables /\ GoodChannels
  BY DEF LinkInv, PortInv
<1>1. PICK d, p : d = thr[t].d /\ p = thr[t].p
  OBVIOUS
<1>2. /\ thr[t].pc = "close" /\ FreeChannel(d, p) /\ CloseOut(t)
      /\ State(d, p) \in {"UNBOUND", "IPI", "PIRQ"}
      /\ UNCHANGED <<virq_to_evtchn, virq_lock, xen_port>>
  BY <1>1 DEF CloseLocal
<1>3. d \in Domain /\ p \in Port
  BY <1>0, <1>1, ThreadFacts, ValidPort DEF CloseLocal, CloseRefused
<1>4. ~evtchn[d][p].xen
  BY <1>1 DEF CloseLocal, CloseRefused
<1>5. p # 0 /\ EventsOnPorts'
  BY <1>0, <1>2, <1>3, <1>4, Freed
<1>6. PICK c2 : /\ evtchn' = [evtchn EXCEPT ![d][p] = c2] /\ GoodChan(c2)
                /\ c2.state = "FREE" /\ ~c2.xen
  BY <1>0, <1>2, <1>3, <1>4, Freed
<1>7. CASE State(d, p) # "PIRQ"
  <2>1. UNCHANGED <<irqs, xen_port, virq_lock>>
    BY <1>1, <1>2, <1>7 DEF CloseLocal, irqs
  <2>2. PlainMove(t, d, p, evtchn[d][p], c2)
    BY <1>2, <1>4, <1>5, <1>6, <1>7 DEF PlainMove, State
  <2>3. PlainMoves(t)
    BY <1>0, <1>3, <1>6, <2>2, PlainOne
  <2> QED BY <1>2, <1>5, <2>1, <2>3, PlainOut
<1>8. CASE State(d, p) = "PIRQ"
  <2>1. PICK i \in Pirq : i = evtchn[d][p].irq
    BY <1>0, <1>3, <1>8 DEF GoodChannels, GoodChan, State
  <2>2. pirq_to_evtchn' = [pirq_to_evtchn EXCEPT ![d][i] = 0]
    BY <1>1, <1>8, <2>1 DEF CloseLocal
  <2>3. \A e \in Domain, j \in Pirq :
          pirq_to_evtchn'[e][j] = IF e = d /\ j = i THEN 0 ELSE pirq_to_evtchn[e][j]
    BY <1>0, <1>3, <2>2 DEF TypeOK
  <2>4. /\ State(d, p)' = "FREE"
        /\ \A e \in Domain, q \in Port :
             e # d \/ q # p => evtchn'[e][q] = evtchn[e][q]
    <3>1. evtchn'[d][p] = c2
      BY <1>0, <1>3, <1>6 DEF TypeOK
    <3> QED BY <1>0, <1>3, <1>6, <3>1, OneWritten DEF State
  <2>5. \A e \in Domain : life'[e] = "alive" => life[e] = "alive"
    BY <1>0, <1>2, OutLives
  <2>6. GoodChannels'
    BY <1>0, <1>3, <1>5, <1>6, <2>5, GoodOne
  <2>7. VirqNamesPort'
    <3> SUFFICES ASSUME NEW e \in Domain, NEW v \in Vcpu, NEW j \in Virq, NEW q \in Port,
                        q = virq_to_evtchn[e][v][j], q # 0
                 PROVE  /\ State(e, q)' = "VIRQ" /\ evtchn'[e][q].irq = j
                        /\ IF j \in GlobalVirq THEN v = 0 ELSE evtchn'[e][q].vcpu = v
      BY <1>0, <1>2 DEF VirqNamesPort, TypeOK, State
    <3>1. /\ State(e, q) = "VIRQ" /\ evtchn[e][q].irq = j
          /\ IF j \in GlobalVirq THEN v = 0 ELSE evtchn[e][q].vcpu = v
      BY <1>0 DEF VirqNamesPort, State
    <3> QED BY <1>8, <2>4, <3>1 DEF State
  <2>8. PirqNamesPort'
    <3> SUFFICES ASSUME NEW e \in Domain, NEW j \in Pirq, pirq_to_evtchn'[e][j] # 0,
                        NEW q \in Port, q = pirq_to_evtchn[e][j]
                 PROVE  State(e, q)' = "PIRQ" /\ evtchn'[e][q].irq = j
      BY <1>0, <2>3 DEF PirqNamesPort, TypeOK, State
    <3>1. /\ q # 0 /\ (e # d \/ j # i)
          /\ State(e, q) = "PIRQ" /\ evtchn[e][q].irq = j
      BY <1>0, <2>3 DEF PirqNamesPort, State
    <3> QED BY <2>1, <2>4, <3>1 DEF State
  <2>9. \A u \in Thread, e \in Domain, q \in Port :
          ClosesVirq(u, e, q) => ClosesVirq(u, e, q)'
    BY <1>2 DEF Step, Frame, ClosesVirq
  <2>10. PortInTables'
    <3> SUFFICES ASSUME NEW e \in Domain, NEW q \in Port
                 PROVE  /\ State(e, q)' = "PIRQ" =>
                             pirq_to_evtchn'[e][evtchn'[e][q].irq] = q
                        /\ State(e, q)' = "VIRQ" =>
                             \/ \E v \in Vcpu :
                                  virq_to_evtchn'[e][v][evtchn'[e][q].irq] = q
                             \/ \E u \in Thread : ClosesVirq(u, e, q)'
      BY DEF PortInTables
    <3>1. CASE e = d /\ q = p
      BY <2>4, <3>1
    <3>2. CASE e # d \/ q # p
      <4>1. evtchn'[e][q] = evtchn[e][q] /\ State(e, q)' = State(e, q)
        BY <2>4, <3>2 DEF State
      <4>2. ASSUME State(e, q) = "PIRQ"
            PROVE  pirq_to_evtchn'[e][evtchn[e][q].irq] = q
        <5>1. PICK j \in Pirq : j = evtchn[e][q].irq
          BY <1>0, <4>2 DEF GoodChannels, GoodChan, State
        <5>2. pirq_to_evtchn[e][j] = q /\ pirq_to_evtchn[d][i] = p
          BY <1>0, <1>3, <1>8, <2>1, <4>2, <5>1 DEF PortInTables
        <5> QED BY <2>3, <3>2, <5>1, <5>2
      <4> QED BY <1>0, <1>2, <2>9, <4>1, <4>2 DEF PortInTables
    <3> QED BY <3>1, <3>2
  <2>11. ChanEffect(t)
    BY <1>0, <1>3, <1>4, <1>6, <1>8, ChanOne
  <2>12. TableEffect(t)
    BY <1>2, TablesStay
  <2>13. CpuPorts(t)' /\ CpuEffect(t)
    BY <1>2, OutCpu
  <2> QED BY <1>5, <2>6, <2>7, <2>8, <2>10, <2>11, <2>12, <2>13, PortKeeps
          DEF Effect
<1> QED BY <1>7, <1>8

\* A free port that a guest takes: a clean one, with nothing pending.
LEMMA Taken ==
  ASSUME LinkInv, PortInv, NEW d \in Domain, NEW p \in Port, get_free_port(d, p),
         NEW c2, evtchn' = [evtchn EXCEPT ![d][p] = c2],
         c2.xen = evtchn[d][p].xen, c2.state \in {"VIRQ", "PIRQ"},
         UNCHANGED <<pending, owed>>
  PROVE  /\ p # 0 /\ State(d, p) = "FREE" /\ EventsOnPorts'
         /\ ChanEffect(None) /\ ~c2.xen
<1>0. TypeOK /\ GoodChannels /\ EventsOnPorts
  BY DEF LinkInv, PortInv
<1>1. p # 0 /\ State(d, p) = "FREE"
  BY FreeNotZero
<1>2. ~evtchn[d][p].xen
  BY <1>0, <1>1 DEF GoodChannels, GoodChan, State
<1>3. ~c2.xen
  BY <1>2
<1>4. p \notin owed[d]
  BY <1>0, <1>1 DEF EventsOnPorts
<1>5. EventsOnPorts'
  BY <1>0, <1>4, EventsOne
<1>6. ChanEffect(None)
  BY <1>0, <1>1, <1>2, <1>3, ChanOne
<1> QED BY <1>1, <1>3, <1>5, <1>6, Zenon

LEMMA PortBindVirq ==
  ASSUME LinkInv, PortInv, TypeOK', Step(None), NEW d \in Domain, NEW v \in Vcpu,
         NEW irq \in Virq, evtchn_bind_virq(d, v, irq)
  PROVE  PortInv'
<1>0. TypeOK /\ VirqNamesPort /\ PirqNamesPort /\ PortInTables /\ GoodChannels
  BY DEF LinkInv, PortInv
<1>1. PICK p \in Port :
        /\ get_free_port(d, p)
        /\ evtchn' = [evtchn EXCEPT ![d][p] =
                        Channel("VIRQ", None, None, irq, v, evtchn[d][p].xen)]
        /\ virq_to_evtchn' = [virq_to_evtchn EXCEPT ![d][v][irq] = p]
  BY DEF evtchn_bind_virq
<1>2. PICK c2 : c2 = Channel("VIRQ", None, None, irq, v, evtchn[d][p].xen)
  OBVIOUS
<1>3. /\ c2.state = "VIRQ" /\ c2.irq = irq /\ c2.vcpu = v
      /\ c2.xen = evtchn[d][p].xen
  BY <1>2 DEF Channel
<1>4. /\ irq \in GlobalVirq => v = 0
      /\ virq_to_evtchn[d][v][irq] = 0
      /\ UNCHANGED <<pirq_to_evtchn, xen_port, virq_lock, pending, owed, life, thr>>
  BY DEF evtchn_bind_virq, events, doms, locks
<1>5. /\ p # 0 /\ State(d, p) = "FREE" /\ EventsOnPorts'
      /\ ChanEffect(None) /\ ~c2.xen
  BY <1>1, <1>2, <1>3, <1>4, Taken
<1>6. GoodChannels'
  <2>1. GoodChan(c2)
    BY <1>3, <1>5 DEF GoodChan
  <2> QED BY <1>0, <1>1, <1>2, <1>4, <1>5, <2>1, GoodOne
<1>7. evtchn'[d][p] = c2
  BY <1>0, <1>1, <1>2 DEF TypeOK
<1>8. \A e \in Domain, q \in Port : e # d \/ q # p => evtchn'[e][q] = evtchn[e][q]
  BY <1>0, <1>1, OneWritten
<1>9. \A e \in Domain, x \in Vcpu, j \in Virq :
        virq_to_evtchn'[e][x][j] = IF e = d /\ x = v /\ j = irq THEN p
                                   ELSE virq_to_evtchn[e][x][j]
  BY <1>0, <1>1 DEF TypeOK
<1>10. VirqNamesPort'
  <2> SUFFICES ASSUME NEW e \in Domain, NEW x \in Vcpu, NEW j \in Virq, NEW q \in Port,
                      q = virq_to_evtchn'[e][x][j], q # 0
               PROVE  /\ State(e, q)' = "VIRQ" /\ evtchn'[e][q].irq = j
                      /\ IF j \in GlobalVirq THEN x = 0 ELSE evtchn'[e][q].vcpu = x
    <3>1. \A e \in Domain, x \in Vcpu, j \in Virq : virq_to_evtchn'[e][x][j] \in Port
      BY <1>0, <1>9 DEF TypeOK
    <3> QED BY <3>1 DEF VirqNamesPort, State
  <2>1. CASE e = d /\ x = v /\ j = irq
    BY <1>3, <1>4, <1>7, <1>9, <2>1 DEF State
  <2>2. CASE ~(e = d /\ x = v /\ j = irq)
    <3>1. q = virq_to_evtchn[e][x][j]
      BY <1>9, <2>2
    <3>2. /\ State(e, q) = "VIRQ" /\ evtchn[e][q].irq = j
          /\ IF j \in GlobalVirq THEN x = 0 ELSE evtchn[e][q].vcpu = x
      BY <1>0, <3>1 DEF VirqNamesPort, State
    <3>3. evtchn'[e][q] = evtchn[e][q]
      BY <1>5, <1>8, <3>2
    <3> QED BY <3>2, <3>3 DEF State
  <2> QED BY <2>1, <2>2
<1>11. PirqNamesPort'
  <2> SUFFICES ASSUME NEW e \in Domain, NEW j \in Pirq, NEW q \in Port,
                      q = pirq_to_evtchn[e][j], q # 0
               PROVE  State(e, q)' = "PIRQ" /\ evtchn'[e][q].irq = j
    BY <1>0, <1>4 DEF PirqNamesPort, TypeOK, State
  <2>1. State(e, q) = "PIRQ" /\ evtchn[e][q].irq = j
    BY <1>0 DEF PirqNamesPort, State
  <2>2. evtchn'[e][q] = evtchn[e][q]
    BY <1>5, <1>8, <2>1
  <2> QED BY <2>1, <2>2 DEF State
<1>12. PortInTables'
  <2> SUFFICES ASSUME NEW e \in Domain, NEW q \in Port
               PROVE  /\ State(e, q)' = "PIRQ" =>
                           pirq_to_evtchn[e][evtchn'[e][q].irq] = q
                      /\ State(e, q)' = "VIRQ" =>
                           \/ \E x \in Vcpu :
                                virq_to_evtchn'[e][x][evtchn'[e][q].irq] = q
                           \/ \E u \in Thread : ClosesVirq(u, e, q)'
    BY <1>4 DEF PortInTables
  <2>1. CASE e = d /\ q = p
    <3>1. State(e, q)' = "VIRQ" /\ virq_to_evtchn'[e][v][evtchn'[e][q].irq] = q
      BY <1>3, <1>7, <1>9, <2>1 DEF State
    <3> QED BY <3>1
  <2>2. CASE e # d \/ q # p
    <3>1. evtchn'[e][q] = evtchn[e][q] /\ State(e, q)' = State(e, q)
      BY <1>8, <2>2 DEF State
    <3>2. ASSUME State(e, q) = "VIRQ", NEW x \in Vcpu,
                 virq_to_evtchn[e][x][evtchn[e][q].irq] = q
          PROVE  virq_to_evtchn'[e][x][evtchn[e][q].irq] = q
      <4>1. evtchn[e][q].irq \in Virq /\ q # 0
        BY <1>0, <3>2, NotZero DEF GoodChannels, GoodChan, State
      <4> QED BY <1>4, <1>9, <3>2, <4>1
    <3>3. \A u \in Thread : ClosesVirq(u, e, q) => ClosesVirq(u, e, q)'
      BY <1>4 DEF ClosesVirq
    <3> QED BY <1>0, <3>1, <3>2, <3>3 DEF PortInTables
  <2> QED BY <2>1, <2>2
<1>13. TableEffect(None)
  <2>1. \A e \in Domain, x \in Vcpu, j \in Virq, q \in Port \ {0} :
          virq_to_evtchn[e][x][j] = q => virq_to_evtchn'[e][x][j] = q
    BY <1>4, <1>9
  <2> QED BY <1>4, <2>1 DEF TableEffect
<1>14. CpuEffect(None)
  BY <1>4, NoneAssumption DEF CpuEffect
<1> QED BY <1>5, <1>6, <1>10, <1>11, <1>12, <1>13, <1>14, NoneAssumption, PortKeeps
        DEF Effect

LEMMA PortBindPirq ==
  ASSUME LinkInv, PortInv, TypeOK', Step(None), NEW d \in Domain, NEW irq \in Pirq,
         evtchn_bind_pirq(d, irq)
  PROVE  PortInv'
<1>0. TypeOK /\ VirqNamesPort /\ PirqNamesPort /\ PortInTables /\ GoodChannels
  BY DEF LinkInv, PortInv
<1>1. /\ pirq_to_evtchn[d][irq] = 0
      /\ UNCHANGED <<virq_to_evtchn, xen_port, virq_lock, pending, owed, life, thr>>
  BY DEF evtchn_bind_pirq, events, doms, locks
<1>2. CpuEffect(None)
  BY <1>1, NoneAssumption DEF CpuEffect
<1>3. CASE UNCHANGED <<evtchn, pirq_to_evtchn>>
  <2>1. EventsOnPorts'
    BY <1>1, <1>3, EventsSame
  <2> QED BY <1>1, <1>2, <1>3, <2>1, NoneAssumption, QuietPorts
<1>4. ASSUME NEW p \in Port, get_free_port(d, p),
             evtchn' = [evtchn EXCEPT ![d][p] =
                          Channel("PIRQ", None, None, irq, evtchn[d][p].vcpu,
                                  evtchn[d][p].xen)],
             pirq_to_evtchn' = [pirq_to_evtchn EXCEPT ![d][irq] = p]
      PROVE  PortInv'
  <2>2. PICK c2 : c2 = Channel("PIRQ", None, None, irq, evtchn[d][p].vcpu,
                               evtchn[d][p].xen)
    OBVIOUS
  <2>3. c2.state = "PIRQ" /\ c2.irq = irq /\ c2.xen = evtchn[d][p].xen
    BY <2>2 DEF Channel
  <2>5. /\ p # 0 /\ State(d, p) = "FREE" /\ EventsOnPorts'
        /\ ChanEffect(None) /\ ~c2.xen
    BY <1>1, <1>4, <2>2, <2>3, Taken
  <2>6. GoodChannels'
    <3>1. GoodChan(c2)
      BY <2>3, <2>5 DEF GoodChan
    <3> QED BY <1>0, <1>1, <1>4, <2>2, <2>5, <3>1, GoodOne
  <2>7. evtchn'[d][p] = c2
    BY <1>0, <1>4, <2>2 DEF TypeOK
  <2>8. \A e \in Domain, q \in Port : e # d \/ q # p => evtchn'[e][q] = evtchn[e][q]
    BY <1>0, <1>4, OneWritten
  <2>9. \A e \in Domain, j \in Pirq :
          pirq_to_evtchn'[e][j] = IF e = d /\ j = irq THEN p ELSE pirq_to_evtchn[e][j]
    BY <1>0, <1>4 DEF TypeOK
  <2>10. VirqNamesPort'
    <3> SUFFICES ASSUME NEW e \in Domain, NEW x \in Vcpu, NEW j \in Virq, NEW q \in Port,
                        q = virq_to_evtchn[e][x][j], q # 0
                 PROVE  /\ State(e, q)' = "VIRQ" /\ evtchn'[e][q].irq = j
                        /\ IF j \in GlobalVirq THEN x = 0 ELSE evtchn'[e][q].vcpu = x
      BY <1>0, <1>1 DEF VirqNamesPort, TypeOK, State
    <3>1. /\ State(e, q) = "VIRQ" /\ evtchn[e][q].irq = j
          /\ IF j \in GlobalVirq THEN x = 0 ELSE evtchn[e][q].vcpu = x
      BY <1>0 DEF VirqNamesPort, State
    <3>2. evtchn'[e][q] = evtchn[e][q]
      BY <2>5, <2>8, <3>1
    <3> QED BY <3>1, <3>2 DEF State
  <2>11. PirqNamesPort'
    <3> SUFFICES ASSUME NEW e \in Domain, NEW j \in Pirq, NEW q \in Port,
                        q = pirq_to_evtchn'[e][j], q # 0
                 PROVE  State(e, q)' = "PIRQ" /\ evtchn'[e][q].irq = j
      <4>1. \A e \in Domain, j \in Pirq : pirq_to_evtchn'[e][j] \in Port
        BY <1>0, <2>9 DEF TypeOK
      <4> QED BY <4>1 DEF PirqNamesPort, State
    <3>1. CASE e = d /\ j = irq
      BY <2>3, <2>7, <2>9, <3>1 DEF State
    <3>2. CASE ~(e = d /\ j = irq)
      <4>1. q = pirq_to_evtchn[e][j]
        BY <2>9, <3>2
      <4>2. State(e, q) = "PIRQ" /\ evtchn[e][q].irq = j
        BY <1>0, <4>1 DEF PirqNamesPort, State
      <4>3. evtchn'[e][q] = evtchn[e][q]
        BY <2>5, <2>8, <4>2
      <4> QED BY <4>2, <4>3 DEF State
    <3> QED BY <3>1, <3>2
  <2>12. PortInTables'
    <3> SUFFICES ASSUME NEW e \in Domain, NEW q \in Port
                 PROVE  /\ State(e, q)' = "PIRQ" =>
                             pirq_to_evtchn'[e][evtchn'[e][q].irq] = q
                        /\ State(e, q)' = "VIRQ" =>
                             \/ \E x \in Vcpu :
                                  virq_to_evtchn[e][x][evtchn'[e][q].irq] = q
                             \/ \E u \in Thread : ClosesVirq(u, e, q)'
      BY <1>1 DEF PortInTables
    <3>1. CASE e = d /\ q = p
      BY <2>3, <2>7, <2>9, <3>1 DEF State
    <3>2. CASE e # d \/ q # p
      <4>1. evtchn'[e][q] = evtchn[e][q] /\ State(e, q)' = State(e, q)
        BY <2>8, <3>2 DEF State
      <4>2. ASSUME State(e, q) = "PIRQ"
            PROVE  pirq_to_evtchn'[e][evtchn[e][q].irq] = q
        <5>1. evtchn[e][q].irq \in Pirq /\ q # 0
          BY <1>0, <4>2, NotZero DEF GoodChannels, GoodChan, State
        <5>2. pirq_to_evtchn[e][evtchn[e][q].irq] = q
          BY <1>0, <4>2 DEF PortInTables
        <5> QED BY <1>1, <2>9, <5>1, <5>2
      <4>3. \A u \in Thread : ClosesVirq(u, e, q) => ClosesVirq(u, e, q)'
        BY <1>1 DEF ClosesVirq
      <4> QED BY <1>0, <4>1, <4>2, <4>3 DEF PortInTables
    <3> QED BY <3>1, <3>2
  <2>13. TableEffect(None)
    BY <1>1, TablesStay
  <2> QED BY <1>2, <2>5, <2>6, <2>10, <2>11, <2>12, <2>13, NoneAssumption, PortKeeps
          DEF Effect
<1> QED BY <1>3, <1>4 DEF evtchn_bind_pirq

\* The close of a virtual interrupt clears an entry: the channel is now found
\* through the close, and a sender that read the entry is waited for.
LEMMA PortCloseVirqVcpu ==
  ASSUME LinkInv, PortInv, TypeOK', NEW t \in Thread, Step(t), CloseVirqVcpu(t)
  PROVE  PortInv'
<1>0. /\ TypeOK /\ VirqNamesPort /\ PirqNamesPort /\ PortInTables /\ GoodChannels
      /\ Frame(t)
  BY DEF LinkInv, PortInv, Step
<1>1. PICK d, p : d = thr[t].d /\ p = thr[t].p
  OBVIOUS
<1>2. /\ thr[t].pc = "close_virq" /\ VirqBarrier(t)
      /\ UNCHANGED <<evtchn, pirq_to_evtchn, xen_port, virq_lock, pending, owed, life>>
  BY DEF CloseVirqVcpu, tables, events, doms, locks
<1>3. d \in Domain /\ p \in Port /\ State(d, p) = "VIRQ"
  BY <1>0, <1>1, <1>2, ThreadFacts DEF LinkInv, ThreadInv, KnowsChannel
<1>4. PICK i \in Virq : i = evtchn[d][p].irq
  BY <1>0, <1>3 DEF GoodChannels, GoodChan, State
<1>5. PICK v \in Vcpu :
        /\ virq_to_evtchn[d][v][i] = p
        /\ virq_to_evtchn' = [virq_to_evtchn EXCEPT ![d][v][i] = 0]
        /\ thr' = [thr EXCEPT ![t] = At("close_virq", thr[t].caller, thr[t].cur, d,
                                        p, thr[t].d2, v, None)]
  BY <1>1, <1>4 DEF CloseVirqVcpu, VirqUsers
<1>6. PICK s : s = At("close_virq", thr[t].caller, thr[t].cur, d, p, thr[t].d2, v, None)
  OBVIOUS
<1>7. /\ s.pc = "close_virq" /\ s.caller = thr[t].caller /\ s.cur = thr[t].cur
      /\ s.d = d /\ s.p = p /\ s.v = v
  BY <1>6 DEF At
<1>8. thr'[t] = s
  BY <1>0, <1>5, <1>6 DEF TypeOK
<1>9. \A e \in Domain, x \in Vcpu, j \in Virq :
        virq_to_evtchn'[e][x][j] = IF e = d /\ x = v /\ j = i THEN 0
                                   ELSE virq_to_evtchn[e][x][j]
  BY <1>0, <1>5 DEF TypeOK
<1>10. ClosesVirq(t, d, p) /\ ClosesVirq(t, d, p)'
  BY <1>1, <1>2, <1>7, <1>8 DEF ClosesVirq
<1>11. GoodChannels' /\ PirqNamesPort'
  BY <1>0, <1>2 DEF GoodChannels, PirqNamesPort, State
<1>12. EventsOnPorts'
  BY <1>2, EventsSame
<1>13. VirqNamesPort'
  <2>1. \A e \in Domain, x \in Vcpu, j \in Virq :
          virq_to_evtchn'[e][x][j] # 0 =>
            virq_to_evtchn'[e][x][j] = virq_to_evtchn[e][x][j]
    BY <1>9
  <2> QED BY <1>0, <1>2, <2>1 DEF VirqNamesPort
<1>14. PortInTables'
  <2> SUFFICES ASSUME NEW e \in Domain, NEW q \in Port
               PROVE  /\ State(e, q) = "PIRQ" =>
                           pirq_to_evtchn[e][evtchn[e][q].irq] = q
                      /\ State(e, q) = "VIRQ" =>
                           \/ \E x \in Vcpu :
                                virq_to_evtchn'[e][x][evtchn[e][q].irq] = q
                           \/ \E u \in Thread : ClosesVirq(u, e, q)'
    BY <1>2 DEF PortInTables, State
  <2>1. CASE e = d /\ q = p
    BY <1>3, <1>10, <2>1
  <2>2. CASE e # d \/ q # p
    <3>1. ASSUME State(e, q) = "VIRQ", NEW x \in Vcpu,
                 virq_to_evtchn[e][x][evtchn[e][q].irq] = q
          PROVE  virq_to_evtchn'[e][x][evtchn[e][q].irq] = q
      <4>1. evtchn[e][q].irq \in Virq
        BY <1>0, <3>1 DEF GoodChannels, GoodChan, State
      <4> QED BY <1>5, <1>9, <2>2, <3>1, <4>1
    <3>2. \A u \in Thread : ClosesVirq(u, e, q) => ClosesVirq(u, e, q)'
      BY <1>0, <1>1, <2>2 DEF Frame, ClosesVirq
    <3> QED BY <1>0, <3>1, <3>2 DEF PortInTables
  <2> QED BY <2>1, <2>2
<1>15. ChanEffect(t)
  BY <1>2 DEF ChanEffect, State
<1>16. TableEffect(t)
  <2>1. \A e \in Domain, x \in Vcpu, j \in Virq, q \in Port \ {0} :
          virq_to_evtchn[e][x][j] = q =>
            \/ virq_to_evtchn'[e][x][j] = q
            \/ /\ t \in Thread /\ thr'[t].v = x
               /\ ClosesVirq(t, e, q) /\ ClosesVirq(t, e, q)'
    BY <1>5, <1>7, <1>8, <1>9, <1>10
  <2> QED BY <1>2, <2>1 DEF TableEffect
<1>17. CpuPorts(t)'
  <2>1. Unwatched(t, s)
    BY <1>1, <1>7 DEF Unwatched
  <2> QED BY <1>0, <1>8, <2>1, UnwatchedCpu
<1>18. CpuEffect(t)
  BY <1>1, <1>2, <1>7, <1>8 DEF CpuEffect
<1> QED BY <1>11, <1>12, <1>13, <1>14, <1>15, <1>16, <1>17, <1>18, PortKeeps DEF Effect

\* No entry names the port and no sender is left: it is freed.
LEMMA PortCloseVirqDone ==
  ASSUME LinkInv, PortInv, TypeOK', NEW t \in Thread, Step(t), CloseVirqDone(t)
  PROVE  PortInv'
<1>0. /\ TypeOK /\ VirqNamesPort /\ PirqNamesPort /\ PortInTables /\ GoodChannels
      /\ Frame(t)
  BY DEF LinkInv, PortInv, Step
<1>1. PICK d, p : d = thr[t].d /\ p = thr[t].p
  OBVIOUS
<1>2. /\ thr[t].pc = "close_virq" /\ VirqBarrier(t) /\ VirqUsers(t) = {}
      /\ FreeChannel(d, p) /\ CloseOut(t)
      /\ UNCHANGED <<virq_to_evtchn, pirq_to_evtchn, xen_port, virq_lock>>
  BY <1>1 DEF CloseVirqDone, irqs
<1>3. d \in Domain /\ p \in Port /\ State(d, p) = "VIRQ"
  BY <1>0, <1>1, <1>2, ThreadFacts DEF LinkInv, ThreadInv, KnowsChannel
<1>4. ~evtchn[d][p].xen
  BY <1>0, <1>3 DEF GoodChannels, GoodChan, State
<1>5. p # 0 /\ EventsOnPorts'
  BY <1>0, <1>2, <1>3, <1>4, Freed
<1>6. PICK c2 : /\ evtchn' = [evtchn EXCEPT ![d][p] = c2] /\ GoodChan(c2)
                /\ c2.state = "FREE" /\ ~c2.xen
  BY <1>0, <1>2, <1>3, <1>4, Freed
<1>7. State(d, p)' = "FREE"
  <2>1. evtchn'[d][p] = c2
    BY <1>0, <1>3, <1>6 DEF TypeOK
  <2> QED BY <1>6, <2>1 DEF State
<1>8. \A e \in Domain, q \in Port : e # d \/ q # p => evtchn'[e][q] = evtchn[e][q]
  BY <1>0, <1>3, <1>6, OneWritten
<1>9. \A x \in Vcpu : virq_to_evtchn[d][x][evtchn[d][p].irq] # p
  BY <1>1, <1>2 DEF VirqUsers
<1>10. GoodChannels'
  <2>1. \A e \in Domain : life'[e] = "alive" => life[e] = "alive"
    BY <1>0, <1>2, OutLives
  <2> QED BY <1>0, <1>3, <1>5, <1>6, <2>1, GoodOne
<1>11. VirqNamesPort'
  <2> SUFFICES ASSUME NEW e \in Domain, NEW x \in Vcpu, NEW j \in Virq, NEW q \in Port,
                      q = virq_to_evtchn[e][x][j], q # 0
               PROVE  /\ State(e, q)' = "VIRQ" /\ evtchn'[e][q].irq = j
                      /\ IF j \in GlobalVirq THEN x = 0 ELSE evtchn'[e][q].vcpu = x
    BY <1>0, <1>2 DEF VirqNamesPort, TypeOK, State
  <2>1. /\ State(e, q) = "VIRQ" /\ evtchn[e][q].irq = j
        /\ IF j \in GlobalVirq THEN x = 0 ELSE evtchn[e][q].vcpu = x
    BY <1>0 DEF VirqNamesPort, State
  <2>2. evtchn'[e][q] = evtchn[e][q]
    BY <1>8, <1>9, <2>1
  <2> QED BY <2>1, <2>2 DEF State
<1>12. PirqNamesPort'
  <2> SUFFICES ASSUME NEW e \in Domain, NEW j \in Pirq, NEW q \in Port,
                      q = pirq_to_evtchn[e][j], q # 0
               PROVE  State(e, q)' = "PIRQ" /\ evtchn'[e][q].irq = j
    BY <1>0, <1>2 DEF PirqNamesPort, TypeOK, State
  <2>1. State(e, q) = "PIRQ" /\ evtchn[e][q].irq = j
    BY <1>0 DEF PirqNamesPort, State
  <2>2. evtchn'[e][q] = evtchn[e][q]
    BY <1>3, <1>8, <2>1
  <2> QED BY <2>1, <2>2 DEF State
<1>13. PortInTables'
  <2> SUFFICES ASSUME NEW e \in Domain, NEW q \in Port
               PROVE  /\ State(e, q)' = "PIRQ" =>
                           pirq_to_evtchn[e][evtchn'[e][q].irq] = q
                      /\ State(e, q)' = "VIRQ" =>
                           \/ \E x \in Vcpu :
                                virq_to_evtchn[e][x][evtchn'[e][q].irq] = q
                           \/ \E u \in Thread : ClosesVirq(u, e, q)'
    BY <1>2 DEF PortInTables
  <2>1. CASE e = d /\ q = p
    BY <1>7, <2>1
  <2>2. CASE e # d \/ q # p
    <3>1. evtchn'[e][q] = evtchn[e][q] /\ State(e, q)' = State(e, q)
      BY <1>8, <2>2 DEF State
    <3>2. \A u \in Thread : ClosesVirq(u, e, q) => ClosesVirq(u, e, q)'
      BY <1>0, <1>1, <2>2 DEF Frame, ClosesVirq
    <3> QED BY <1>0, <3>1, <3>2 DEF PortInTables
  <2> QED BY <2>1, <2>2
<1>14. ClosesVirq(t, d, p)
  BY <1>1, <1>2 DEF ClosesVirq
<1>15. ChanEffect(t)
  BY <1>0, <1>2, <1>3, <1>4, <1>6, <1>14, ChanOne
<1>16. TableEffect(t)
  BY <1>2, TablesStay
<1>17. CpuPorts(t)' /\ CpuEffect(t)
  BY <1>2, OutCpu
<1> QED BY <1>5, <1>10, <1>11, <1>12, <1>13, <1>15, <1>16, <1>17, PortKeeps DEF Effect

\* A domain is created: it had no port, so no table named one.
LEMMA PortDomainCreate ==
  ASSUME LinkInv, PortInv, TypeOK', Step(None), NEW d \in Domain, domain_create(d)
  PROVE  PortInv'
<1>0. /\ TypeOK /\ VirqNamesPort /\ PirqNamesPort /\ PortInTables /\ GoodChannels
      /\ EventsOnPorts
  BY DEF LinkInv, PortInv
<1>1. /\ life[d] = "absent" /\ life' = [life EXCEPT ![d] = "alive"]
      /\ UNCHANGED <<virq_lock, thr>>
  BY DEF domain_create, locks
<1>2. \A p \in Port : State(d, p) = "FREE"
  BY <1>1, AbsentFacts DEF Empty
<1>3. /\ \A e \in Domain : e # d => /\ evtchn'[e] = evtchn[e]
                                    /\ virq_to_evtchn'[e] = virq_to_evtchn[e]
                                    /\ pirq_to_evtchn'[e] = pirq_to_evtchn[e]
                                    /\ pending'[e] = pending[e] /\ owed'[e] = owed[e]
                                    /\ xen_port'[e] = xen_port[e] /\ life'[e] = life[e]
      /\ evtchn'[d] = InitTable /\ virq_to_evtchn'[d] = NoVirqs
      /\ pirq_to_evtchn'[d] = NoPirqs /\ pending'[d] = {} /\ owed'[d] = {}
      /\ xen_port'[d] = [v \in Vcpu |-> 0] /\ life'[d] = "alive"
  BY <1>0 DEF domain_create, TypeOK
<1>4. /\ \A p \in Port : /\ InitTable[p].state \in {"FREE", "RESERVED"}
                         /\ InitTable[p].xen = FALSE /\ InitTable[p].vcpu = 0
      /\ InitTable[0].state = "RESERVED"
  BY PortFacts DEF InitTable, EmptyTable, FreeChan, Channel
<1>5. \A p \in Port : State(d, p)' \in {"FREE", "RESERVED"} /\ GoodChan(evtchn'[d][p])
  BY <1>3, <1>4 DEF GoodChan, State
<1>6. GoodChannels'
  <2> SUFFICES ASSUME NEW e \in Domain
               PROVE  /\ \A p \in Port : GoodChan(evtchn'[e][p])
                      /\ State(e, 0)' \in {"FREE", "RESERVED"}
                      /\ life'[e] = "alive" => State(e, 0)' = "RESERVED"
    BY DEF GoodChannels
  <2>1. CASE e = d
    BY <1>3, <1>4, <1>5, <2>1 DEF State
  <2>2. CASE e # d
    BY <1>0, <1>3, <2>2 DEF GoodChannels, State
  <2> QED BY <2>1, <2>2
<1>7. EventsOnPorts'
  BY <1>0, <1>3 DEF EventsOnPorts, State
<1>8. VirqNamesPort'
  <2> SUFFICES ASSUME NEW e \in Domain, NEW v \in Vcpu, NEW i \in Virq,
                      virq_to_evtchn'[e][v][i] # 0
               PROVE  /\ e # d /\ virq_to_evtchn'[e][v][i] = virq_to_evtchn[e][v][i]
                      /\ evtchn'[e] = evtchn[e]
    BY <1>0 DEF VirqNamesPort
  <2> QED BY <1>3 DEF NoVirqs
<1>9. PirqNamesPort'
  <2> SUFFICES ASSUME NEW e \in Domain, NEW i \in Pirq, pirq_to_evtchn'[e][i] # 0
               PROVE  /\ e # d /\ pirq_to_evtchn'[e][i] = pirq_to_evtchn[e][i]
                      /\ evtchn'[e] = evtchn[e]
    BY <1>0 DEF PirqNamesPort
  <2> QED BY <1>3 DEF NoPirqs
<1>10. PortInTables'
  <2> SUFFICES ASSUME NEW e \in Domain, NEW q \in Port
               PROVE  /\ State(e, q)' = "PIRQ" =>
                           pirq_to_evtchn'[e][evtchn'[e][q].irq] = q
                      /\ State(e, q)' = "VIRQ" =>
                           \/ \E v \in Vcpu :
                                virq_to_evtchn'[e][v][evtchn'[e][q].irq] = q
                           \/ \E u \in Thread : ClosesVirq(u, e, q)'
    BY DEF PortInTables
  <2>1. CASE e = d
    BY <1>5, <2>1
  <2>2. CASE e # d
    BY <1>0, <1>1, <1>3, <2>2 DEF PortInTables, State, ClosesVirq
  <2> QED BY <2>1, <2>2
<1>11. ChanEffect(None)
  <2>1. \A p \in Port : /\ evtchn'[d][p].xen = FALSE
                        /\ evtchn[d][p].xen => life[d] # "alive"
                        /\ State(d, p) # "VIRQ"
    BY <1>1, <1>2, <1>3, <1>4
  <2>2. \A e \in Domain, p \in Port : e # d => evtchn'[e][p] = evtchn[e][p]
    BY <1>3
  <2> QED BY <1>1, <2>1, <2>2 DEF ChanEffect, State
<1>12. TableEffect(None)
  <2>1. ASSUME NEW e \in Domain, NEW v \in Vcpu, NEW i \in Virq, NEW p \in Port \ {0},
               virq_to_evtchn[e][v][i] = p
        PROVE  virq_to_evtchn'[e][v][i] = p
    <3>1. State(e, p) = "VIRQ"
      BY <1>0, <2>1 DEF VirqNamesPort, State
    <3> QED BY <1>2, <1>3, <2>1, <3>1
  <2>2. \A e \in Domain, v \in Vcpu :
          \/ xen_port'[e][v] = xen_port[e][v]
          \/ life[e] # "alive" /\ xen_port'[e][v] = 0
    BY <1>1, <1>3
  <2> QED BY <1>1, <2>1, <2>2 DEF TableEffect
<1>13. CpuEffect(None)
  BY <1>1, <1>3, NoneAssumption DEF CpuEffect
<1> QED BY <1>6, <1>7, <1>8, <1>9, <1>10, <1>11, <1>12, <1>13, NoneAssumption, PortKeeps
        DEF Effect

-----------------------------------------------------------------------------
(* All steps.                                                              *)

LEMMA PortContinue ==
  ASSUME LinkInv, PortInv, TypeOK', NEW t \in Thread, Step(t), Continue(t)
  PROVE  PortInv'
BY PortAllocUnbound, PortAllocUnboundXen, PortBindInterdomain, PortCloseFails,
   PortCloseLocal, PortQuietContinue, PortCloseVirqVcpu, PortCloseVirqDone,
   PortUnlinks, PortCloseGetRemote, PortFreeXen, PortNotify, PortVirqLookup,
   PortVirqSet, PortDestroyNext, PortDestroyBuckets
   DEF Continue

LEMMA PortAtomic ==
  ASSUME LinkInv, PortInv, TypeOK', Step(None), NEW d \in Domain, Atomic(d)
  PROVE  PortInv'
BY PortBindLoopback, PortBindVirq, PortBindIpi, PortBindPirq, PortPirq,
   PortBindVcpu, PortEvents, PortDomainCreate
   DEF Atomic

\* The state after dom0 was built.
LEMMA PortInit == Init => PortInv
<1> SUFFICES ASSUME Init PROVE PortInv
  OBVIOUS
<1>1. /\ \A p \in Port : /\ InitTable[p].state \in {"FREE", "RESERVED"}
                         /\ InitTable[p].xen = FALSE /\ InitTable[p].vcpu = 0
                         /\ EmptyTable[p].state = "FREE"
                         /\ EmptyTable[p].xen = FALSE /\ EmptyTable[p].vcpu = 0
      /\ InitTable[0].state = "RESERVED"
  BY PortFacts DEF InitTable, EmptyTable, FreeChan, Channel
<1>2. \A d \in Domain : evtchn[d] = IF d = Dom0 THEN InitTable ELSE EmptyTable
  BY DEF Init
<1>3. \A d \in Domain, p \in Port :
        GoodChan(evtchn[d][p]) /\ State(d, p) \in {"FREE", "RESERVED"}
  BY <1>1, <1>2 DEF GoodChan, State
<1>4. GoodChannels
  BY <1>1, <1>2, <1>3, PortFacts DEF Init, GoodChannels, State, Port
<1>5. EventsOnPorts /\ PortInTables
  BY <1>3 DEF Init, EventsOnPorts, PortInTables
<1>6. VirqNamesPort /\ PirqNamesPort /\ XenTable
  BY DEF Init, VirqNamesPort, PirqNamesPort, XenTable, NoVirqs, NoPirqs
<1>7. \A t \in Thread : thr[t].pc = "idle" /\ thr[t].caller = "none"
  BY DEF Init, Idle, At
<1>8. \A t \in Thread : CpuPorts(t)
  BY <1>7 DEF CpuPorts, SendsVirq, ClosesGuests, NotifiesXen, GivesBack, XenAlone,
              TakesPort
<1> QED BY <1>4, <1>5, <1>6, <1>8 DEF PortInv

\* Every step keeps the invariant.
LEMMA PortNext == LinkInv /\ PortInv /\ [Next]_vars => PortInv'
<1> SUFFICES ASSUME LinkInv, PortInv, [Next]_vars PROVE PortInv'
  OBVIOUS
<1>1. TypeOK'
  BY TypeNext DEF LinkInv
<1>2. CASE UNCHANGED vars
  <2> USE <1>2 DEF vars
  <2>1. GoodChannels' /\ EventsOnPorts' /\ XenTable'
    BY DEF PortInv, GoodChannels, EventsOnPorts, XenTable, State
  <2>2. VirqNamesPort' /\ PirqNamesPort'
    BY DEF PortInv, VirqNamesPort, PirqNamesPort
  <2>3. PortInTables'
    BY DEF PortInv, PortInTables, ClosesVirq, State
  <2>4. ASSUME NEW t \in Thread PROVE CpuPorts(t)'
    <3>0. CpuPorts(t)
      BY <2>4 DEF PortInv
    <3>1. SendsVirq(t)'
      BY <3>0 DEF CpuPorts, SendsVirq, ClosesVirq, State
    <3>2. ClosesGuests(t)'
      BY <3>0 DEF CpuPorts, ClosesGuests, State
    <3>3. NotifiesXen(t)'
      BY <3>0 DEF CpuPorts, NotifiesXen, State
    <3>4. GivesBack(t)'
      BY <3>0 DEF CpuPorts, GivesBack, State
    <3>5. XenAlone(t)'
      BY <3>0 DEF CpuPorts, XenAlone, State
    <3>6. TakesPort(t)'
      BY <3>0 DEF CpuPorts, TakesPort, State
    <3> QED BY <3>1, <3>2, <3>3, <3>4, <3>5, <3>6 DEF CpuPorts
  <2> QED BY <2>1, <2>2, <2>3, <2>4 DEF PortInv
<1>3. ASSUME NEW t \in Thread, Continue(t) PROVE PortInv'
  BY <1>1, <1>3, StepContinue, PortContinue
<1>4. ASSUME NEW t \in Thread, Begin(t) PROVE PortInv'
  BY <1>1, <1>4, StepBegin, PortBegin
<1>5. ASSUME NEW d \in Domain, Atomic(d) PROVE PortInv'
  BY <1>1, <1>5, StepAtomic, PortAtomic
<1> QED BY <1>2, <1>3, <1>4, <1>5 DEF Next

LEMMA PortInvariant == Spec => [](LinkInv /\ PortInv)
<1>1. Init => LinkInv /\ PortInv
  BY LinkInit, PortInit
<1>2. LinkInv /\ PortInv /\ [Next]_vars => (LinkInv /\ PortInv)'
  BY LinkNext, PortNext
<1> QED BY <1>1, <1>2, PTL DEF Spec

-----------------------------------------------------------------------------
(* Theorems.                                                               *)

\* A port in use has its bucket.
LEMMA UsedIsValid ==
  ASSUME LinkInv, NEW d \in Domain, NEW p \in Port, State(d, p) # "FREE"
  PROVE  port_is_valid(d, p)
BY DEF LinkInv, TailFree

\* virq_to_evtchn, pirq_to_evtchn and the channels name each other, whatever
\* binds, closes, sends and destroys at the same time; a per-vcpu interrupt
\* goes to the vcpu that bound it.
THEOREM IrqBindingsStaySound == Spec => []IrqBindingsSound
<1>1. ASSUME LinkInv, PortInv PROVE IrqBindingsSound
  <2>0. TypeOK /\ VirqNamesPort /\ PirqNamesPort /\ PortInTables
    BY <1>1 DEF LinkInv, PortInv
  <2>1. ASSUME NEW d \in Domain, NEW v \in Vcpu, NEW i \in Virq, NEW p \in Port,
               p = virq_to_evtchn[d][v][i], p # 0
        PROVE  /\ port_is_valid(d, p)
               /\ State(d, p) = "VIRQ" /\ evtchn[d][p].irq = i
               /\ IF i \in GlobalVirq THEN v = 0 ELSE evtchn[d][p].vcpu = v
    <3>1. /\ State(d, p) = "VIRQ" /\ evtchn[d][p].irq = i
          /\ IF i \in GlobalVirq THEN v = 0 ELSE evtchn[d][p].vcpu = v
      BY <2>0, <2>1 DEF VirqNamesPort, State
    <3> QED BY <1>1, <3>1, UsedIsValid
  <2>2. ASSUME NEW d \in Domain, NEW i \in Pirq, NEW p \in Port,
               p = pirq_to_evtchn[d][i], p # 0
        PROVE  port_is_valid(d, p) /\ State(d, p) = "PIRQ" /\ evtchn[d][p].irq = i
    <3>1. State(d, p) = "PIRQ" /\ evtchn[d][p].irq = i
      BY <2>0, <2>2 DEF PirqNamesPort, State
    <3> QED BY <1>1, <3>1, UsedIsValid
  <2>3. \A d \in Domain :
          /\ \A v \in Vcpu, i \in Virq : virq_to_evtchn[d][v][i] \in Port
          /\ \A i \in Pirq : pirq_to_evtchn[d][i] \in Port
    BY <2>0 DEF TypeOK
  <2> QED BY <2>0, <2>1, <2>2, <2>3 DEF IrqBindingsSound, PortInTables, ClosesVirq
<1> QED BY <1>1, PortInvariant, PTL

\* A closed port is clean for its next owner: nothing is pending on it, not
\* even from an interrupt that was being sent when it was closed; it is not
\* Xen's and notifies vcpu 0.
THEOREM ClosedPortsStayQuiet == Spec => []ClosedPortsQuiet
<1>1. ASSUME LinkInv, PortInv PROVE ClosedPortsQuiet
  BY <1>1 DEF PortInv, GoodChannels, GoodChan, EventsOnPorts, ClosedPortsQuiet, State
<1> QED BY <1>1, PortInvariant, PTL

\* A notification that evtchn_send or Xen dropped on an unbound port is made up
\* for when a peer binds the port.
THEOREM NotificationsNotLost == Spec => []NoLostNotification
<1>1. ASSUME LinkInv, PortInv PROVE NoLostNotification
  BY <1>1 DEF PortInv, EventsOnPorts, NoLostNotification
<1> QED BY <1>1, PortInvariant, PTL

\* The BUG_ONs of free_xen_event_channel and the ASSERTs of
\* notify_via_xen_event_channel never fire: guests, dom0 and evtchn_reset
\* cannot take a port from Xen.
THEOREM XenPortsStay == Spec => []XenPortsKept
<1>1. ASSUME LinkInv, PortInv PROVE XenPortsKept
  <2>0. TypeOK /\ GoodChannels /\ XenTable
    BY <1>1 DEF LinkInv, PortInv
  <2>1. ASSUME NEW d \in Domain, NEW p \in Port, evtchn[d][p].xen
        PROVE  port_is_valid(d, p)
    <3>1. State(d, p) # "FREE"
      BY <2>0, <2>1 DEF GoodChannels, GoodChan, State
    <3> QED BY <1>1, <3>1, UsedIsValid
  <2>2. ASSUME NEW d \in Domain, NEW v \in Vcpu, life[d] = "alive",
               xen_port[d][v] # 0
        PROVE  /\ port_is_valid(d, xen_port[d][v])
               /\ evtchn[d][xen_port[d][v]].xen
    <3>1. PICK p \in Port : p = xen_port[d][v]
      BY <2>0 DEF TypeOK
    <3>2. evtchn[d][p].xen
      BY <2>0, <2>2, <3>1 DEF XenTable
    <3> QED BY <2>1, <3>1, <3>2
  <2>3. ASSUME NEW t \in Thread,
               \/ thr[t].pc = "notify"
               \/ thr[t].pc = "free_xen" /\ life[thr[t].d] = "alive"
        PROVE  /\ port_is_valid(thr[t].d, thr[t].p)
               /\ evtchn[thr[t].d][thr[t].p].xen
    <3>1. PICK d \in Domain, p \in Port : d = thr[t].d /\ p = thr[t].p
      BY <2>0, <2>3, ThreadFacts
    <3>2. evtchn[d][p].xen
      BY <1>1, <2>3, <3>1 DEF PortInv, CpuPorts, NotifiesXen, GivesBack
    <3> QED BY <2>1, <3>1, <3>2
  <2> QED BY <2>2, <2>3 DEF XenPortsKept
<1> QED BY <1>1, PortInvariant, PTL
=============================================================================
