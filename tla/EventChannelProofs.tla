------------------------- MODULE EventChannelProofs -------------------------
(***************************************************************************)
(* Theorems about EventChannel, for any numbers of domains, CPUs, vcpus,   *)
(* ports and interrupts.                                                   *)
(***************************************************************************)
EXTENDS EventChannel, TLAPS

-----------------------------------------------------------------------------
(* Lemmas about the data structures.                                       *)

\* What PortAssumption says of the sizes: the port table (MAX_EVTCHNS) is at
\* least one bucket, so that evtchn_init has a port 0 to reserve.
LEMMA PortFacts == /\ MaxEvtchns \in Nat \ {0} /\ PerBucket \in Nat \ {0}
                   /\ PerBucket <= MaxEvtchns
                   /\ 0 \in Port /\ Port \subseteq Nat
<1>1. PICK n \in 1 .. MaxEvtchns : MaxEvtchns = n * PerBucket
  BY PortAssumption
<1>2. n >= 1 /\ PerBucket >= 1 /\ n \in Nat /\ PerBucket \in Nat
  BY PortAssumption, <1>1
<1>3. n * PerBucket = PerBucket + (n - 1) * PerBucket
  BY <1>2
<1>4. (n - 1) * PerBucket >= 0
  BY <1>2
<1>5. MaxEvtchns >= PerBucket
  BY <1>1, <1>2, <1>3, <1>4, PortAssumption
<1> QED BY <1>2, <1>5, PortAssumption DEF Port

\* No bucket and one bucket are whole buckets.
LEMMA FirstBuckets == 0 \in BucketEnds /\ PerBucket \in BucketEnds
<1>1. 0 = 0 * PerBucket /\ PerBucket = 1 * PerBucket
  BY PortFacts
<1> QED BY <1>1, PortFacts DEF BucketEnds

\* A domain that has not used all its ports has room for one more bucket: the
\* check against MAX_EVTCHNS(d) in get_free_port suffices.
LEMMA NextBucket ==
  ASSUME NEW nr \in BucketEnds, nr < MaxEvtchns
  PROVE  nr + PerBucket \in BucketEnds
<1>1. PICK n \in 1 .. MaxEvtchns : MaxEvtchns = n * PerBucket
  BY PortAssumption
<1>2. PICK k \in 0 .. nr : nr = k * PerBucket
  BY DEF BucketEnds
<1>3. n \in Nat /\ k \in Nat /\ nr \in Nat /\ PerBucket \in Nat \ {0}
  BY <1>1, <1>2, PortAssumption DEF BucketEnds
<1>4. k * PerBucket < n * PerBucket
  BY <1>1, <1>2
<1>5. k < n
  BY <1>3, <1>4
<1>6. PICK j \in Nat : n = k + 1 + j
  BY <1>3, <1>5
<1>7. n * PerBucket = (k + 1) * PerBucket + j * PerBucket
  BY <1>3, <1>6
<1>8. j * PerBucket >= 0
  BY <1>3, <1>6
<1>9. (k + 1) * PerBucket = k * PerBucket + PerBucket
  BY <1>3
<1> DEFINE new == nr + PerBucket
<1>10. new = (k + 1) * PerBucket /\ new \in 0 .. MaxEvtchns /\ k + 1 \in 0 .. new
  BY <1>1, <1>2, <1>3, <1>7, <1>8, <1>9, PortAssumption
<1> HIDE DEF new
<1>11. new \in BucketEnds
  BY <1>10 DEF BucketEnds
<1> QED BY <1>11 DEF new

\* The bucket that get_free_port installs makes the table a valid one.
LEMMA GrownType ==
  ASSUME TypeOK, NEW d \in Domain, NEW p \in Port, get_free_port(d, p)
  PROVE  Grown(d, p) \in [Domain -> BucketEnds]
<1>1. CASE port_is_valid(d, p)
  BY <1>1 DEF TypeOK, Grown
<1>2. CASE ~port_is_valid(d, p)
  <2>1. nr_ports[d] \in BucketEnds /\ nr_ports[d] < MaxEvtchns
    BY <1>2, PortFacts DEF TypeOK, get_free_port, Port
  <2>2. nr_ports[d] + PerBucket \in BucketEnds
    BY <2>1, NextBucket
  <2>3. Grown(d, p) = [nr_ports EXCEPT ![d] = nr_ports[d] + PerBucket]
    BY <1>2 DEF Grown
  <2> QED BY <2>2, <2>3 DEF TypeOK
<1> QED BY <1>1, <1>2

\* The channels that the operations write are channels.
LEMMA ChanTypes ==
  ASSUME NEW c \in Chan
  PROVE  /\ \A r \in Domain \cup {None} : UnboundChan(c, r) \in Chan
         /\ \A r \in Domain, q \in Port : LinkedChan(c, r, q) \in Chan
         /\ \A v \in Vcpu : OnVcpu(c, v) \in Chan
         /\ FreedChan(c) \in Chan
         /\ GuestChan(c) \in Chan
         /\ c.xen \in BOOLEAN /\ c.vcpu \in Vcpu
         /\ c.dom \in Domain \cup {None}
<1> USE VcpuAssumption DEF Chan, ChanRecord, EcsState, Channel
<1>1. \A r \in Domain \cup {None} : UnboundChan(c, r) \in Chan
  BY DEF UnboundChan
<1>2. \A r \in Domain, q \in Port : LinkedChan(c, r, q) \in Chan
  BY DEF LinkedChan
<1>3. \A v \in Vcpu : OnVcpu(c, v) \in Chan
  BY DEF OnVcpu
<1>4. FreedChan(c) \in Chan
  BY DEF FreedChan
<1>5. GuestChan(c) \in Chan
  BY DEF GuestChan
<1> QED BY <1>1, <1>2, <1>3, <1>4, <1>5

\* The channels that evtchn_bind_virq, _ipi and _pirq write are channels.
LEMMA BoundTypes ==
  ASSUME NEW v \in Vcpu, NEW xen \in BOOLEAN
  PROVE  /\ \A r \in Domain :
              Channel("UNBOUND", r, None, None, v, xen) \in Chan
         /\ \A i \in Virq : Channel("VIRQ", None, None, i, v, xen) \in Chan
         /\ \A i \in Pirq : Channel("PIRQ", None, None, i, v, xen) \in Chan
         /\ Channel("IPI", None, None, None, v, xen) \in Chan
         /\ Channel("FREE", None, None, None, v, xen) \in Chan
         /\ Channel("RESERVED", None, None, None, v, xen) \in Chan
BY DEF Channel, Chan, ChanRecord, EcsState

\* The table that evtchn_init leaves and the empty one are tables.
LEMMA TableTypes == EmptyTable \in [Port -> Chan] /\ InitTable \in [Port -> Chan]
<1>1. FreeChan \in Chan /\ Channel("RESERVED", None, None, None, 0, FALSE) \in Chan
  BY BoundTypes, VcpuAssumption DEF FreeChan
<1> QED BY <1>1 DEF EmptyTable, InitTable

\* Places of a thread.
LEMMA IdleType == Idle \in ThreadState
BY DEF Idle, At, ThreadState, ThreadRecord, Pc, Caller

-----------------------------------------------------------------------------
(* Type correctness.                                                       *)

\* Where a thread is, its local variables are what TypeOK says.
LEMMA ThreadFacts ==
  ASSUME TypeOK, NEW t \in Thread
  PROVE  /\ thr[t].pc # "idle" => thr[t].d \in Domain
         /\ thr[t].pc \in {"alloc", "bind", "close_lower", "close_higher"} =>
              thr[t].d2 \in Domain
         /\ thr[t].pc \in {"alloc", "free_xen", "notify", "virq_set",
                           "close_virq", "close_higher"} => thr[t].p \in Port
         /\ thr[t].pc \in {"virq", "virq_set"} =>
              thr[t].v \in Vcpu /\ thr[t].irq \in Virq
         /\ thr[t].pc = "alloc" /\ thr[t].caller = "xen" => thr[t].v \in Vcpu
         /\ thr[t].p \in Nat
         /\ thr[t].d2 \in Domain \cup {None}
         /\ thr[t].pc \in Pc /\ thr[t].caller \in Caller
BY DEF TypeOK, ThreadState, ThreadRecord

\* A port that thread t found valid is in the table.
LEMMA ValidPort ==
  ASSUME TypeOK, NEW d \in Domain, NEW p \in Nat, port_is_valid(d, p)
  PROVE  p \in Port /\ evtchn[d][p] \in Chan
BY PortFacts DEF TypeOK, port_is_valid, Port, BucketEnds

\* Closing a port leaves well-typed thread and domain state behind.
LEMMA CloseOutType ==
  ASSUME TypeOK, NEW t \in Thread, CloseOut(t),
         thr[t].pc \in {"close", "close_virq", "close_higher"}
  PROVE  /\ thr' \in [Thread -> ThreadState]
         /\ event_lock' \in [Domain -> Thread \cup {None}]
         /\ life' \in [Domain -> Life]
         /\ refcnt' \in [Domain -> Int]
<1>1. CloseReturned(t) \in ThreadState
  BY ThreadFacts, IdleType
     DEF CloseReturned, At, ThreadState, ThreadRecord, Pc, Caller, TypeOK
<1>2. thr' \in [Thread -> ThreadState]
  BY <1>1 DEF CloseOut, TypeOK
<1>3. event_lock' \in [Domain -> Thread \cup {None}]
  BY DEF CloseOut, Release, TypeOK
<1>4. life' \in [Domain -> Life] /\ refcnt' \in [Domain -> Int]
  <2>1. CASE thr[t].d2 = None
    BY <2>1 DEF CloseOut, TypeOK, doms
  <2>2. CASE thr[t].d2 # None
    <3>1. thr[t].d2 \in Domain
      BY <2>2, ThreadFacts
    <3>2. refcnt' = [refcnt EXCEPT ![thr[t].d2] = refcnt[thr[t].d2] - 1]
      BY <2>2 DEF CloseOut, put_domain
    <3>3. refcnt' \in [Domain -> Int]
      BY <3>1, <3>2 DEF TypeOK
    <3> DEFINE new == IF refcnt[thr[t].d2] = 1 THEN "destroyed"
                      ELSE life[thr[t].d2]
    <3>4. life' = [life EXCEPT ![thr[t].d2] = new]
      BY <2>2 DEF CloseOut, put_domain
    <3>5. new \in Life
      BY <3>1 DEF TypeOK, Life
    <3> HIDE DEF new
    <3>6. life' \in [Domain -> Life]
      BY <3>1, <3>4, <3>5 DEF TypeOK
    <3> QED BY <3>3, <3>6
  <2> QED BY <2>1, <2>2
<1> QED BY <1>2, <1>3, <1>4

\* Writing a channel into the tables.
LEMMA SetChannel ==
  ASSUME NEW e \in [Domain -> [Port -> Chan]], NEW d, NEW p, NEW c,
         d \in Domain /\ p \in Port => c \in Chan
  PROVE  [e EXCEPT ![d][p] = c] \in [Domain -> [Port -> Chan]]
OBVIOUS

\* A step of __evtchn_close that frees port p of d.
LEMMA FreeChannelType ==
  ASSUME TypeOK, NEW d \in Domain, NEW p \in Port, FreeChannel(d, p)
  PROVE  /\ evtchn' \in [Domain -> [Port -> Chan]]
         /\ pending' \in [Domain -> SUBSET Port]
         /\ owed' \in [Domain -> SUBSET Port]
<1>1. FreedChan(evtchn[d][p]) \in Chan
  BY ChanTypes DEF TypeOK
<1>2. evtchn' \in [Domain -> [Port -> Chan]]
  BY <1>1 DEF FreeChannel, TypeOK
<1> QED BY <1>2 DEF FreeChannel, TypeOK

\* A step of __evtchn_close that frees port p of d and unbinds its peer.
LEMMA UnlinkChannelType ==
  ASSUME TypeOK, NEW d \in Domain, NEW p \in Port, UnlinkChannel(d, p)
  PROVE  /\ evtchn' \in [Domain -> [Port -> Chan]]
         /\ pending' \in [Domain -> SUBSET Port]
         /\ owed' \in [Domain -> SUBSET Port]
<1> DEFINE d2 == evtchn[d][p].dom
           p2 == evtchn[d][p].port
           c1 == FreedChan(evtchn[d][p])
           c2 == UnboundChan(evtchn[d2][p2], d)
           mid == [evtchn EXCEPT ![d2][p2] = c2]
<1>1. c1 \in Chan /\ (d2 \in Domain /\ p2 \in Port => c2 \in Chan)
  BY ChanTypes DEF TypeOK
<1>2. evtchn' = [mid EXCEPT ![d][p] = c1]
  BY DEF UnlinkChannel
<1>3. mid \in [Domain -> [Port -> Chan]]
  BY <1>1, SetChannel DEF TypeOK
<1> HIDE DEF mid, c1
<1>4. evtchn' \in [Domain -> [Port -> Chan]]
  BY <1>1, <1>2, <1>3
<1> QED BY <1>4 DEF UnlinkChannel, TypeOK

\* The table part of evtchn_bind_interdomain keeps the types.
LEMMA LinkChannelsType ==
  ASSUME TypeOK, NEW ld \in Domain, NEW rd \in Domain, NEW rport \in Nat,
         LinkChannels(ld, rd, rport)
  PROVE  /\ evtchn' \in [Domain -> [Port -> Chan]]
         /\ nr_ports' \in [Domain -> BucketEnds]
         /\ pending' \in [Domain -> SUBSET Port]
         /\ owed' \in [Domain -> SUBSET Port]
<1>1. CASE UNCHANGED <<tables, pending, owed>>
  BY <1>1 DEF TypeOK, tables
<1>2. ASSUME NEW lport \in Port, get_free_port(ld, lport),
             nr_ports' = Grown(ld, lport), UNCHANGED <<evtchn, pending, owed>>
      PROVE  /\ evtchn' \in [Domain -> [Port -> Chan]]
             /\ nr_ports' \in [Domain -> BucketEnds]
             /\ pending' \in [Domain -> SUBSET Port]
             /\ owed' \in [Domain -> SUBSET Port]
  BY <1>2, GrownType DEF TypeOK
<1>3. ASSUME NEW lport \in Port, get_free_port(ld, lport),
             nr_ports' = Grown(ld, lport), AwaitsPeer(rd, rport, ld),
             evtchn' = [evtchn EXCEPT
                ![ld][lport] = LinkedChan(evtchn[ld][lport], rd, rport),
                ![rd][rport] = LinkedChan(evtchn[rd][rport], ld, lport)],
             pending' = [pending EXCEPT ![ld] = @ \cup {lport}],
             owed' = [owed EXCEPT ![rd] = IF lport \in pending'[ld]
                                          THEN @ \ {rport} ELSE @]
      PROVE  /\ evtchn' \in [Domain -> [Port -> Chan]]
             /\ nr_ports' \in [Domain -> BucketEnds]
             /\ pending' \in [Domain -> SUBSET Port]
             /\ owed' \in [Domain -> SUBSET Port]
  <2>1. rport \in Port
    BY <1>3, ValidPort DEF AwaitsPeer
  <2>2. /\ LinkedChan(evtchn[ld][lport], rd, rport) \in Chan
        /\ LinkedChan(evtchn[rd][rport], ld, lport) \in Chan
    BY <2>1, ChanTypes DEF TypeOK
  <2>3. evtchn' \in [Domain -> [Port -> Chan]]
    BY <1>3, <2>2 DEF TypeOK
  <2>4. nr_ports' \in [Domain -> BucketEnds]
    BY <1>3, GrownType
  <2>5. pending' \in [Domain -> SUBSET Port]
    BY <1>3 DEF TypeOK
  <2>6. owed' \in [Domain -> SUBSET Port]
    BY <1>3 DEF TypeOK
  <2> QED BY <2>3, <2>4, <2>5, <2>6
<1> QED BY <1>1, <1>2, <1>3 DEF LinkChannels

\* A step that continues an operation keeps the types.
LEMMA TypeContinue ==
  ASSUME TypeOK, NEW t \in Thread, Continue(t)
  PROVE  TypeOK'
<1> USE DEF tables, irqs, events, doms, locks
<1> DEFINE d == thr[t].d
           p == thr[t].p
<1>0. thr[t].pc \in Pc /\ thr[t].p \in Nat /\ thr[t] \in ThreadState
  BY ThreadFacts DEF TypeOK
<1>a. ASSUME NEW pc \in {"close_virq", "close", "destroy_next"},
             thr[t].pc # "idle", pc = "close_virq" => p \in Port
      PROVE  Goto(t, pc) \in ThreadState
  BY <1>0, <1>a DEF Goto, At, ThreadState, ThreadRecord, Pc
<1>1. CASE AllocUnbound(t)
  <2>1. d \in Domain /\ p \in Port /\ thr[t].d2 \in Domain
    BY <1>1, ThreadFacts DEF AllocUnbound
  <2>0. evtchn[d][p] \in Chan
    BY <2>1 DEF TypeOK
  <2>2. UnboundChan(evtchn[d][p], thr[t].d2) \in Chan
    BY <2>0, <2>1, ChanTypes
  <2>3. evtchn' \in [Domain -> [Port -> Chan]]
    BY <1>1, <2>1, <2>2 DEF AllocUnbound, TypeOK
  <2> QED BY <1>1, <2>3, IdleType DEF AllocUnbound, TypeOK
<1>2. CASE AllocUnboundXen(t)
  <2>1. d \in Domain /\ p \in Port /\ thr[t].d2 \in Domain /\ thr[t].v \in Vcpu
    BY <1>2, ThreadFacts DEF AllocUnboundXen
  <2>2. Channel("UNBOUND", thr[t].d2, None, None, thr[t].v, TRUE) \in Chan
    BY <2>1, BoundTypes
  <2>3. evtchn' \in [Domain -> [Port -> Chan]]
    BY <1>2, <2>1, <2>2 DEF AllocUnboundXen, TypeOK
  <2>4. At("free_xen", "xen", thr[t].cur, d, xen_port[d][thr[t].v], None,
           None, None) \in ThreadState
    <3>1. xen_port[d][thr[t].v] \in Port
      BY <2>1 DEF TypeOK
    <3> QED BY <1>0, <2>1, <3>1, PortFacts
            DEF At, ThreadState, ThreadRecord, Pc, Caller
  <2>5. thr' \in [Thread -> ThreadState]
    BY <1>2, <2>4, IdleType DEF AllocUnboundXen, TypeOK
  <2>6. xen_port' \in [Domain -> [Vcpu -> Port]]
    BY <1>2, <2>1 DEF AllocUnboundXen, TypeOK
  <2> QED BY <1>2, <2>3, <2>5, <2>6 DEF AllocUnboundXen, TypeOK
<1>3. CASE BindInterdomain(t)
  <2>1. d \in Domain /\ thr[t].d2 \in Domain
    BY <1>3, ThreadFacts DEF BindInterdomain
  <2>2. /\ evtchn' \in [Domain -> [Port -> Chan]]
        /\ nr_ports' \in [Domain -> BucketEnds]
        /\ pending' \in [Domain -> SUBSET Port]
        /\ owed' \in [Domain -> SUBSET Port]
    BY <1>0, <1>3, <2>1, LinkChannelsType DEF BindInterdomain
  <2> QED BY <1>3, <2>2, IdleType DEF BindInterdomain, TypeOK
<1>4. CASE CloseFails(t)
  BY <1>4, CloseOutType DEF CloseFails, TypeOK
<1>5. CASE CloseLocal(t)
  <2>1. d \in Domain /\ p \in Port
    BY <1>0, <1>5, ThreadFacts, ValidPort DEF CloseLocal, CloseRefused
  <2>2. /\ evtchn' \in [Domain -> [Port -> Chan]]
        /\ pending' \in [Domain -> SUBSET Port]
        /\ owed' \in [Domain -> SUBSET Port]
    BY <1>5, <2>1, FreeChannelType DEF CloseLocal
  <2>3. pirq_to_evtchn' \in [Domain -> [Pirq -> Port]]
    BY <1>5, <2>1, PortFacts DEF CloseLocal, TypeOK
  <2> QED BY <1>5, <2>2, <2>3, CloseOutType DEF CloseLocal, TypeOK
<1>6. CASE CloseVirq(t)
  <2>1. d \in Domain /\ p \in Port
    BY <1>0, <1>6, ThreadFacts, ValidPort DEF CloseVirq, CloseRefused
  <2>2. Goto(t, "close_virq") \in ThreadState
    BY <1>6, <1>a, <2>1 DEF CloseVirq
  <2> QED BY <1>6, <2>2 DEF CloseVirq, TypeOK
<1>7. CASE CloseVirqVcpu(t)
  <2>1. d \in Domain /\ p \in Port
    BY <1>7, ThreadFacts DEF CloseVirqVcpu
  <2>2. PICK v \in Vcpu :
          /\ virq_to_evtchn' = [virq_to_evtchn EXCEPT
                                  ![d][v][evtchn[d][p].irq] = 0]
          /\ thr' = [thr EXCEPT ![t] =
                      At("close_virq", thr[t].caller, thr[t].cur, d, p,
                         thr[t].d2, v, None)]
    BY <1>7 DEF CloseVirqVcpu, VirqUsers
  <2>3. At("close_virq", thr[t].caller, thr[t].cur, d, p, thr[t].d2, v, None)
          \in ThreadState
    BY <1>0, <2>1 DEF At, ThreadState, ThreadRecord, Pc
  <2>4. virq_to_evtchn' \in [Domain -> [Vcpu -> [Virq -> Port]]]
    BY <2>1, <2>2, PortFacts DEF TypeOK
  <2> QED BY <1>7, <2>2, <2>3, <2>4 DEF CloseVirqVcpu, TypeOK
<1>8. CASE CloseVirqDone(t)
  <2>1. d \in Domain /\ p \in Port
    BY <1>8, ThreadFacts DEF CloseVirqDone
  <2>2. /\ evtchn' \in [Domain -> [Port -> Chan]]
        /\ pending' \in [Domain -> SUBSET Port]
        /\ owed' \in [Domain -> SUBSET Port]
    BY <1>8, <2>1, FreeChannelType DEF CloseVirqDone
  <2> QED BY <1>8, <2>2, CloseOutType DEF CloseVirqDone, TypeOK
<1>9. CASE CloseLinked(t)
  <2>1. d \in Domain /\ p \in Port
    BY <1>0, <1>9, ThreadFacts, ValidPort DEF CloseLinked, CloseRefused
  <2>2. /\ evtchn' \in [Domain -> [Port -> Chan]]
        /\ pending' \in [Domain -> SUBSET Port]
        /\ owed' \in [Domain -> SUBSET Port]
    BY <1>9, <2>1, UnlinkChannelType DEF CloseLinked
  <2> QED BY <1>9, <2>2, CloseOutType DEF CloseLinked, TypeOK
<1>10. CASE CloseGetRemote(t)
  <2>1. d \in Domain /\ p \in Port
    BY <1>0, <1>10, ThreadFacts, ValidPort DEF CloseGetRemote, CloseRefused
  <2> DEFINE d2 == evtchn[d][p].dom
  <2>2. d2 \in Domain
    BY <1>10, <2>1 DEF CloseGetRemote, State, TypeOK, Chan
  <2>3. \A pc \in {"close_higher", "close_lower"} :
          At(pc, thr[t].caller, thr[t].cur, d, p, d2, None, None)
            \in ThreadState
    BY <1>0, <2>1, <2>2 DEF At, ThreadState, ThreadRecord, Pc
  <2>4. thr' \in [Thread -> ThreadState]
    BY <1>10, <2>3 DEF CloseGetRemote, TypeOK
  <2>5. refcnt' = [refcnt EXCEPT ![d2] = refcnt[d2] + 1]
    BY <1>10 DEF CloseGetRemote
  <2>6. refcnt' \in [Domain -> Int]
    BY <2>2, <2>5 DEF TypeOK
  <2>7. event_lock' \in [Domain -> Thread \cup {None}]
    BY <1>10 DEF CloseGetRemote, TypeOK
  <2> QED BY <1>10, <2>4, <2>6, <2>7 DEF CloseGetRemote, TypeOK
<1>11. CASE CloseHigher(t)
  <2>1. d \in Domain /\ p \in Port
    BY <1>11, ThreadFacts DEF CloseHigher
  <2>2. /\ evtchn' \in [Domain -> [Port -> Chan]]
        /\ pending' \in [Domain -> SUBSET Port]
        /\ owed' \in [Domain -> SUBSET Port]
    BY <1>11, <2>1, UnlinkChannelType DEF CloseHigher
  <2> QED BY <1>11, <2>2, CloseOutType DEF CloseHigher, TypeOK
<1>12. CASE CloseLower(t)
  <2>1. Goto(t, "close") \in ThreadState
    BY <1>12, <1>a DEF CloseLower
  <2> QED BY <1>12, <2>1 DEF CloseLower, TypeOK
<1>13. CASE free_xen_event_channel(t)
  <2>1. d \in Domain /\ p \in Port
    BY <1>13, ThreadFacts DEF free_xen_event_channel
  <2>2. Goto(t, "close") \in ThreadState /\ GuestChan(evtchn[d][p]) \in Chan
    BY <1>13, <1>a, <2>1, ChanTypes DEF free_xen_event_channel, TypeOK
  <2>3. evtchn' \in [Domain -> [Port -> Chan]]
    <3>1. CASE life[d] = "alive"
      <4>1. evtchn' = [evtchn EXCEPT ![d][p] = GuestChan(evtchn[d][p])]
        BY <1>13, <3>1 DEF free_xen_event_channel
      <4> QED BY <2>2, <4>1, SetChannel DEF TypeOK
    <3>2. CASE life[d] # "alive"
      BY <1>13, <3>2 DEF free_xen_event_channel, TypeOK
    <3> QED BY <3>1, <3>2
  <2>4. thr' \in [Thread -> ThreadState]
    BY <1>13, <2>2, IdleType DEF free_xen_event_channel, TypeOK
  <2> QED BY <1>13, <2>3, <2>4 DEF free_xen_event_channel, TypeOK
<1>14. CASE ResetNext(t)
  <2>1. Goto(t, "close") \in ThreadState
    BY <1>14, <1>a DEF ResetNext
  <2> QED BY <1>14, <2>1, IdleType DEF ResetNext, TypeOK
<1>15. CASE notify_via_xen_event_channel(t)
  <2>1. d \in Domain /\ p \in Port
    BY <1>15, ThreadFacts DEF notify_via_xen_event_channel
  <2>2. State(d, p) = "INTERDOMAIN" =>
          evtchn[d][p].dom \in Domain /\ evtchn[d][p].port \in Port
    BY <2>1 DEF State, TypeOK, Chan
  <2>3. pending' \in [Domain -> SUBSET Port] /\ owed' \in [Domain -> SUBSET Port]
    <3>1. CASE State(d, p) = "INTERDOMAIN"
      <4>1. pending' = [pending EXCEPT ![evtchn[d][p].dom] =
                            pending[evtchn[d][p].dom] \cup {evtchn[d][p].port}]
        BY <1>15, <3>1 DEF notify_via_xen_event_channel
      <4>2. UNCHANGED owed
        BY <1>15, <3>1 DEF notify_via_xen_event_channel
      <4> QED BY <2>2, <3>1, <4>1, <4>2 DEF TypeOK
    <3>2. CASE State(d, p) # "INTERDOMAIN"
      <4>1. owed' = [owed EXCEPT ![d] = owed[d] \cup {p}] /\ UNCHANGED pending
        BY <1>15, <3>2 DEF notify_via_xen_event_channel
      <4> QED BY <2>1, <4>1 DEF TypeOK
    <3> QED BY <3>1, <3>2
  <2> QED BY <1>15, <2>3, IdleType
          DEF notify_via_xen_event_channel, TypeOK
<1>16. CASE VirqLookup(t)
  <2>1. d \in Domain /\ thr[t].v \in Vcpu /\ thr[t].irq \in Virq
    BY <1>16, ThreadFacts DEF VirqLookup
  <2> DEFINE port == virq_to_evtchn[d][thr[t].v][thr[t].irq]
  <2>2. port \in Port
    BY <2>1 DEF TypeOK
  <2>3. At("virq_set", "none", None, d, port, None, thr[t].v, thr[t].irq)
          \in ThreadState
    BY <2>1, <2>2, PortFacts DEF At, ThreadState, ThreadRecord, Pc, Caller
  <2>4. thr' \in [Thread -> ThreadState]
    BY <1>16, <2>3, IdleType DEF VirqLookup, TypeOK
  <2>5. virq_lock' \in [Domain -> [Vcpu -> Thread \cup {None}]]
    <3>1. CASE UNCHANGED virq_lock
      BY <3>1 DEF TypeOK
    <3>2. CASE virq_lock' = [virq_lock EXCEPT ![d][thr[t].v] = t]
      BY <3>2 DEF TypeOK
    <3> QED BY <1>16, <3>1, <3>2 DEF VirqLookup
  <2> QED BY <1>16, <2>4, <2>5 DEF VirqLookup, TypeOK
<1>17. CASE VirqSetPending(t)
  <2>1. d \in Domain /\ p \in Port /\ thr[t].v \in Vcpu
    BY <1>17, ThreadFacts DEF VirqSetPending
  <2>2. pending' \in [Domain -> SUBSET Port]
    BY <1>17, <2>1 DEF VirqSetPending, TypeOK
  <2>3. virq_lock' \in [Domain -> [Vcpu -> Thread \cup {None}]]
    BY <1>17, <2>1 DEF VirqSetPending, TypeOK
  <2> QED BY <1>17, <2>2, <2>3, IdleType DEF VirqSetPending, TypeOK
<1>18. CASE DestroyBarrier(t)
  <2>1. Goto(t, "destroy_next") \in ThreadState
    BY <1>18, <1>a DEF DestroyBarrier
  <2> QED BY <1>18, <2>1 DEF DestroyBarrier, TypeOK
<1>19. CASE DestroyNext(t)
  <2>1. d \in Domain /\ p \in Port
    BY <1>0, <1>19, ThreadFacts, ValidPort DEF DestroyNext
  <2>2. Goto(t, "close") \in ThreadState /\ GuestChan(evtchn[d][p]) \in Chan
    BY <1>19, <1>a, <2>1, ChanTypes DEF DestroyNext, TypeOK
  <2>3. evtchn' \in [Domain -> [Port -> Chan]]
    BY <1>19, <2>1, <2>2 DEF DestroyNext, TypeOK
  <2> QED BY <1>19, <2>2, <2>3 DEF DestroyNext, TypeOK
<1>20. CASE DestroyBuckets(t)
  <2>1. evtchn' \in [Domain -> [Port -> Chan]]
    BY <1>20, TableTypes DEF DestroyBuckets, TypeOK
  <2>2. nr_ports' \in [Domain -> BucketEnds]
    BY <1>20, FirstBuckets DEF DestroyBuckets, TypeOK
  <2> QED BY <1>20, <2>1, <2>2, IdleType DEF DestroyBuckets, TypeOK
<1> QED BY <1>1, <1>2, <1>3, <1>4, <1>5, <1>6, <1>7, <1>8, <1>9, <1>10, <1>11,
           <1>12, <1>13, <1>14, <1>15, <1>16, <1>17, <1>18, <1>19, <1>20
        DEF Continue

\* The beginning of an operation keeps the types.
LEMMA TypeBegin ==
  ASSUME TypeOK, NEW t \in Thread, Begin(t)
  PROVE  TypeOK'
<1> USE DEF tables, irqs, events, doms, locks
<1>1. ASSUME NEW cur \in Domain, NEW d \in Domain, NEW remote \in Domain,
             evtchn_alloc_unbound(t, cur, d, remote)
      PROVE  TypeOK'
  <2>1. PICK p \in Port :
          /\ get_free_port(d, p)
          /\ nr_ports' = Grown(d, p)
          /\ thr' = [thr EXCEPT ![t] =
                       At("alloc", "guest", cur, d, p, remote, None, None)]
    BY <1>1 DEF evtchn_alloc_unbound
  <2>2. At("alloc", "guest", cur, d, p, remote, None, None) \in ThreadState
    BY PortFacts DEF At, ThreadState, ThreadRecord, Pc, Caller
  <2>3. nr_ports' \in [Domain -> BucketEnds]
    BY <2>1, GrownType
  <2> QED BY <1>1, <2>1, <2>2, <2>3 DEF evtchn_alloc_unbound, TypeOK
<1>2. ASSUME NEW d \in Domain, NEW remote \in Domain, NEW v \in Vcpu,
             alloc_unbound_xen_event_channel(t, d, v, remote)
      PROVE  TypeOK'
  <2>1. PICK p \in Port :
          /\ get_free_port(d, p)
          /\ nr_ports' = Grown(d, p)
          /\ thr' = [thr EXCEPT ![t] =
                       At("alloc", "xen", Dom0, d, p, remote, v, None)]
    BY <1>2 DEF alloc_unbound_xen_event_channel
  <2>2. At("alloc", "xen", Dom0, d, p, remote, v, None) \in ThreadState
    BY PortFacts, DomainAssumption
       DEF At, ThreadState, ThreadRecord, Pc, Caller
  <2>3. nr_ports' \in [Domain -> BucketEnds]
    BY <2>1, GrownType
  <2> QED BY <1>2, <2>1, <2>2, <2>3 DEF alloc_unbound_xen_event_channel, TypeOK
<1>3. ASSUME NEW ld \in Domain, NEW rd \in Domain, NEW p \in Port,
             evtchn_bind_interdomain(t, ld, rd, p)
      PROVE  TypeOK'
  <2>1. At("bind", "none", ld, ld, p, rd, None, None) \in ThreadState
    BY PortFacts DEF At, ThreadState, ThreadRecord, Pc, Caller
  <2> QED BY <1>3, <2>1 DEF evtchn_bind_interdomain, TypeOK
<1>4. ASSUME NEW d \in Domain, NEW p \in Port, evtchn_close(t, d, p)
      PROVE  TypeOK'
  <2>1. At("close", "guest", d, d, p, None, None, None) \in ThreadState
    BY PortFacts DEF At, ThreadState, ThreadRecord, Pc, Caller
  <2> QED BY <1>4, <2>1 DEF evtchn_close, TypeOK
<1>5. ASSUME NEW cur \in Domain, NEW d \in Domain, evtchn_reset(t, cur, d)
      PROVE  TypeOK'
  <2>1. At("reset_next", "reset", cur, d, 0, None, None, None) \in ThreadState
    BY DEF At, ThreadState, ThreadRecord, Pc, Caller
  <2> QED BY <1>5, <2>1 DEF evtchn_reset, TypeOK
<1>6. ASSUME NEW d \in Domain, NEW v \in Vcpu, hvm_send_assist_req(t, d, v)
      PROVE  TypeOK'
  <2>1. xen_port[d][v] \in Port
    BY DEF TypeOK
  <2>2. At("notify", "none", d, d, xen_port[d][v], None, None, None)
          \in ThreadState
    BY <2>1, PortFacts DEF At, ThreadState, ThreadRecord, Pc, Caller
  <2>3. in_xen' \in [Domain -> SUBSET Vcpu]
    BY <1>6 DEF hvm_send_assist_req, TypeOK
  <2> QED BY <1>6, <2>2, <2>3 DEF hvm_send_assist_req, TypeOK
<1>7. \A d \in Domain, v \in Vcpu, irq \in Virq :
        At("virq", "none", None, d, 0, None, v, irq) \in ThreadState
  BY DEF At, ThreadState, ThreadRecord, Pc, Caller
<1>8. ASSUME NEW d \in Domain, NEW v \in Vcpu, NEW irq \in Virq,
             SendVirq(t, d, v, irq)
      PROVE  TypeOK'
  BY <1>7, <1>8 DEF SendVirq, TypeOK
<1>9. ASSUME NEW d \in Domain, domain_kill(t, d)
      PROVE  TypeOK'
  <2>1. At("destroy_barrier", "destroy", Dom0, d, 0, None, None, None)
          \in ThreadState
    BY DomainAssumption DEF At, ThreadState, ThreadRecord, Pc, Caller
  <2> QED BY <1>9, <2>1 DEF domain_kill, TypeOK, Life
<1>10. At("virq", "none", None, Dom0, 0, None, 0, DomExc) \in ThreadState
  BY <1>7, DomainAssumption, VcpuAssumption, VirqAssumption
<1>11. ASSUME NEW d \in Domain, DomainDead(t, d)
       PROVE  TypeOK'
  <2>1. life' \in [Domain -> Life]
    BY <1>11 DEF DomainDead, TypeOK, Life
  <2>2. refcnt' = [refcnt EXCEPT ![d] = refcnt[d] - 1]
    BY <1>11 DEF DomainDead
  <2>3. refcnt' \in [Domain -> Int]
    BY <2>2 DEF TypeOK
  <2> QED BY <1>10, <1>11, <2>1, <2>3 DEF DomainDead, TypeOK
<1>12. ASSUME NEW d \in Domain, complete_domain_destroy(t, d)
       PROVE  TypeOK'
  BY <1>10, <1>12 DEF complete_domain_destroy, TypeOK, Life
<1> QED BY <1>1, <1>2, <1>3, <1>4, <1>5, <1>6, <1>8, <1>9, <1>11, <1>12
        DEF Begin

\* An operation that is one critical section keeps the types.
LEMMA TypeAtomic ==
  ASSUME TypeOK, NEW d \in Domain, Atomic(d)
  PROVE  TypeOK'
<1> USE DEF tables, irqs, events, doms, locks
<1>1. ASSUME NEW p \in Port, BindLoopback(d, p)
      PROVE  TypeOK'
  <2>1. /\ evtchn' \in [Domain -> [Port -> Chan]]
        /\ nr_ports' \in [Domain -> BucketEnds]
        /\ pending' \in [Domain -> SUBSET Port]
        /\ owed' \in [Domain -> SUBSET Port]
    BY <1>1, LinkChannelsType, PortFacts DEF BindLoopback
  <2> QED BY <1>1, <2>1 DEF BindLoopback, TypeOK
<1>2. ASSUME NEW v \in Vcpu, NEW irq \in Virq, evtchn_bind_virq(d, v, irq)
      PROVE  TypeOK'
  <2>1. PICK p \in Port :
          /\ get_free_port(d, p)
          /\ nr_ports' = Grown(d, p)
          /\ evtchn' = [evtchn EXCEPT ![d][p] =
               Channel("VIRQ", None, None, irq, v, evtchn[d][p].xen)]
          /\ virq_to_evtchn' = [virq_to_evtchn EXCEPT ![d][v][irq] = p]
    BY <1>2 DEF evtchn_bind_virq
  <2>2. evtchn[d][p].xen \in BOOLEAN
    BY ChanTypes DEF TypeOK
  <2>3. Channel("VIRQ", None, None, irq, v, evtchn[d][p].xen) \in Chan
    BY <2>2, BoundTypes
  <2>4. evtchn' \in [Domain -> [Port -> Chan]]
    BY <2>1, <2>3 DEF TypeOK
  <2>5. nr_ports' \in [Domain -> BucketEnds]
    BY <2>1, GrownType
  <2>6. virq_to_evtchn' \in [Domain -> [Vcpu -> [Virq -> Port]]]
    BY <2>1 DEF TypeOK
  <2> QED BY <1>2, <2>4, <2>5, <2>6 DEF evtchn_bind_virq, TypeOK
<1>3. ASSUME NEW v \in Vcpu, evtchn_bind_ipi(d, v)
      PROVE  TypeOK'
  <2>1. PICK p \in Port :
          /\ get_free_port(d, p)
          /\ nr_ports' = Grown(d, p)
          /\ evtchn' = [evtchn EXCEPT ![d][p] =
               Channel("IPI", None, None, None, v, evtchn[d][p].xen)]
    BY <1>3 DEF evtchn_bind_ipi
  <2>2. evtchn[d][p].xen \in BOOLEAN
    BY ChanTypes DEF TypeOK
  <2>3. Channel("IPI", None, None, None, v, evtchn[d][p].xen) \in Chan
    BY <2>2, BoundTypes
  <2>4. evtchn' \in [Domain -> [Port -> Chan]]
    BY <2>1, <2>3 DEF TypeOK
  <2>5. nr_ports' \in [Domain -> BucketEnds]
    BY <2>1, GrownType
  <2> QED BY <1>3, <2>4, <2>5 DEF evtchn_bind_ipi, TypeOK
<1>4. ASSUME NEW irq \in Pirq, evtchn_bind_pirq(d, irq)
      PROVE  TypeOK'
  <2>1. PICK p \in Port :
          /\ get_free_port(d, p)
          /\ nr_ports' = Grown(d, p)
          /\ \/ /\ evtchn' = [evtchn EXCEPT ![d][p] =
                     Channel("PIRQ", None, None, irq, evtchn[d][p].vcpu,
                             evtchn[d][p].xen)]
                /\ pirq_to_evtchn' = [pirq_to_evtchn EXCEPT ![d][irq] = p]
             \/ UNCHANGED <<evtchn, pirq_to_evtchn>>
    BY <1>4 DEF evtchn_bind_pirq
  <2>2. evtchn[d][p].xen \in BOOLEAN /\ evtchn[d][p].vcpu \in Vcpu
    BY ChanTypes DEF TypeOK
  <2>3. Channel("PIRQ", None, None, irq, evtchn[d][p].vcpu, evtchn[d][p].xen)
          \in Chan
    BY <2>2, BoundTypes
  <2>4. /\ evtchn' \in [Domain -> [Port -> Chan]]
        /\ pirq_to_evtchn' \in [Domain -> [Pirq -> Port]]
    <3>1. CASE UNCHANGED <<evtchn, pirq_to_evtchn>>
      BY <3>1 DEF TypeOK
    <3>2. ASSUME evtchn' = [evtchn EXCEPT ![d][p] =
                     Channel("PIRQ", None, None, irq, evtchn[d][p].vcpu,
                             evtchn[d][p].xen)]
          PROVE  evtchn' \in [Domain -> [Port -> Chan]]
      BY <2>3, <3>2, SetChannel DEF TypeOK
    <3>3. ASSUME pirq_to_evtchn' = [pirq_to_evtchn EXCEPT ![d][irq] = p]
          PROVE  pirq_to_evtchn' \in [Domain -> [Pirq -> Port]]
      BY <3>3 DEF TypeOK
    <3> QED BY <2>1, <3>1, <3>2, <3>3
  <2>5. nr_ports' \in [Domain -> BucketEnds]
    BY <2>1, GrownType
  <2> QED BY <1>4, <2>4, <2>5 DEF evtchn_bind_pirq, TypeOK
<1>5. ASSUME NEW irq \in Pirq, send_guest_pirq(d, irq)
      PROVE  TypeOK'
  <2>1. pending' \in [Domain -> SUBSET Port]
    BY <1>5 DEF send_guest_pirq, TypeOK
  <2> QED BY <1>5, <2>1 DEF send_guest_pirq, TypeOK
<1>6. ASSUME NEW p \in Port, NEW v \in Vcpu, evtchn_bind_vcpu(d, p, v)
      PROVE  TypeOK'
  <2>1. OnVcpu(evtchn[d][p], v) \in Chan
    BY ChanTypes DEF TypeOK
  <2>2. evtchn' \in [Domain -> [Port -> Chan]]
    BY <1>6, <2>1 DEF evtchn_bind_vcpu, TypeOK
  <2> QED BY <1>6, <2>2 DEF evtchn_bind_vcpu, TypeOK
<1>7. ASSUME NEW p \in Port, evtchn_send(d, p)
      PROVE  TypeOK'
  <2> DEFINE rd == evtchn[d][p].dom
             rport == evtchn[d][p].port
  <2>1. State(d, p) = "INTERDOMAIN" => rd \in Domain /\ rport \in Port
    BY DEF State, TypeOK, Chan
  <2>2. CASE /\ State(d, p) = "INTERDOMAIN"
             /\ in_xen' = [in_xen EXCEPT ![rd] = @ \ {evtchn[rd][rport].vcpu}]
             /\ UNCHANGED <<pending, owed>>
    BY <1>7, <2>2 DEF evtchn_send, TypeOK
  <2>3. CASE /\ State(d, p) = "INTERDOMAIN"
             /\ pending' = [pending EXCEPT ![rd] = @ \cup {rport}]
             /\ UNCHANGED <<in_xen, owed>>
    <3>1. pending' \in [Domain -> SUBSET Port]
      BY <2>1, <2>3 DEF TypeOK
    <3> QED BY <1>7, <2>3, <3>1 DEF evtchn_send, TypeOK
  <2>4. CASE /\ pending' = [pending EXCEPT ![d] = @ \cup {p}]
             /\ UNCHANGED <<in_xen, owed>>
    <3>1. pending' \in [Domain -> SUBSET Port]
      BY <2>4 DEF TypeOK
    <3> QED BY <1>7, <2>4, <3>1 DEF evtchn_send, TypeOK
  <2>5. CASE /\ owed' = [owed EXCEPT ![d] = @ \cup {p}]
             /\ UNCHANGED <<pending, in_xen>>
    <3>1. owed' \in [Domain -> SUBSET Port]
      BY <2>5 DEF TypeOK
    <3> QED BY <1>7, <2>5, <3>1 DEF evtchn_send, TypeOK
  <2> QED BY <1>7, <2>2, <2>3, <2>4, <2>5 DEF evtchn_send
<1>8. ASSUME NEW p \in Port, GuestHandles(d, p)
      PROVE  TypeOK'
  BY <1>8 DEF GuestHandles, TypeOK
<1>9. CASE domain_create(d)
  <2>1. evtchn' \in [Domain -> [Port -> Chan]]
    BY <1>9, TableTypes DEF domain_create, TypeOK
  <2>2. nr_ports' \in [Domain -> BucketEnds]
    BY <1>9, FirstBuckets DEF domain_create, TypeOK
  <2>3. virq_to_evtchn' \in [Domain -> [Vcpu -> [Virq -> Port]]]
    BY <1>9, PortFacts DEF domain_create, TypeOK, NoVirqs
  <2>4. pirq_to_evtchn' \in [Domain -> [Pirq -> Port]]
    BY <1>9, PortFacts DEF domain_create, TypeOK, NoPirqs
  <2>5. xen_port' \in [Domain -> [Vcpu -> Port]]
    BY <1>9, PortFacts DEF domain_create, TypeOK
  <2>6. life' \in [Domain -> Life] /\ refcnt' \in [Domain -> Int]
    BY <1>9 DEF domain_create, TypeOK, Life
  <2>7. /\ pending' \in [Domain -> SUBSET Port]
        /\ owed' \in [Domain -> SUBSET Port]
        /\ in_xen' \in [Domain -> SUBSET Vcpu]
    BY <1>9 DEF domain_create, TypeOK
  <2> QED BY <1>9, <2>1, <2>2, <2>3, <2>4, <2>5, <2>6, <2>7
          DEF domain_create, TypeOK
<1> QED BY <1>1, <1>2, <1>3, <1>4, <1>5, <1>6, <1>7, <1>8, <1>9 DEF Atomic

\* The state after dom0 was built is well-typed.
LEMMA TypeInit == Init => TypeOK
<1> SUFFICES ASSUME Init PROVE TypeOK
  OBVIOUS
<1>1. evtchn \in [Domain -> [Port -> Chan]]
  BY TableTypes DEF Init
<1>2. nr_ports \in [Domain -> BucketEnds]
  BY FirstBuckets DEF Init
<1>3. /\ virq_to_evtchn \in [Domain -> [Vcpu -> [Virq -> Port]]]
      /\ pirq_to_evtchn \in [Domain -> [Pirq -> Port]]
      /\ xen_port \in [Domain -> [Vcpu -> Port]]
  BY PortFacts DEF Init, NoVirqs, NoPirqs
<1>4. life \in [Domain -> Life] /\ refcnt \in [Domain -> Int]
  BY DEF Init, Life
<1>5. thr \in [Thread -> ThreadState]
  BY IdleType DEF Init
<1>6. /\ pending \in [Domain -> SUBSET Port]
      /\ owed \in [Domain -> SUBSET Port]
      /\ in_xen \in [Domain -> SUBSET Vcpu]
      /\ event_lock \in [Domain -> Thread \cup {None}]
      /\ virq_lock \in [Domain -> [Vcpu -> Thread \cup {None}]]
  BY DEF Init
<1> QED BY <1>1, <1>2, <1>3, <1>4, <1>5, <1>6 DEF TypeOK

\* Every step of every CPU keeps the types.
LEMMA TypeNext == TypeOK /\ [Next]_vars => TypeOK'
<1> SUFFICES ASSUME TypeOK, [Next]_vars PROVE TypeOK'
  OBVIOUS
<1>1. CASE UNCHANGED vars
  BY <1>1 DEF vars, TypeOK
<1>2. CASE Next
  BY <1>2, TypeContinue, TypeBegin, TypeAtomic DEF Next
<1> QED BY <1>1, <1>2

\* The port tables, the interrupt tables, the locks and the local variables of
\* every CPU inside event_channel.c keep their types, for any number of them.
THEOREM TypeCorrect == Spec => []TypeOK
<1>1. Init => TypeOK
  BY TypeInit
<1>2. TypeOK /\ [Next]_vars => TypeOK'
  BY TypeNext
<1> QED BY <1>1, <1>2, PTL DEF Spec
=============================================================================
