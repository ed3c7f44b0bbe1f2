-------------------------- MODULE EventChannelLinks --------------------------
(***************************************************************************)
(* Links between domains, references to them and their destruction: the    *)
(* theorems about EventChannel that need one inductive invariant for the   *)
(* tables, the locks, the reference counts and the CPUs together.          *)
(*                                                                         *)
(* The argument in short.  A link is changed only with the locks of both   *)
(* its ends; so links stay symmetric.  A domain that is dying and past the *)
(* barrier of evtchn_destroy gets no new ports, whatever peers do to the   *)
(* ports it has; so the ports that evtchn_destroy has passed stay closed,  *)
(* and a domain that nobody destroys any more is empty.  A domain at the   *)
(* other end of a link has a port and is therefore neither dead nor        *)
(* destroyed; so a close can still get a reference to it, and the counts   *)
(* are exact.                                                              *)
(*                                                                         *)
(* The locks.  Who holds a virq_lock, or an event_lock while he allocates  *)
(* a port, waits for nobody.  Everyone else who waits for an event_lock    *)
(* while he holds one waits for the lock of a domain that comes later in   *)
(* the order.  So in a group of CPUs that wait for each other there is     *)
(* none that waits for the latest domain; but a finite group has one.      *)
(***************************************************************************)
EXTENDS EventChannelProofs, FiniteSetTheorems, WellFoundedInduction

-----------------------------------------------------------------------------
(* The inductive invariant.                                                *)

\* Ports whose bucket is not allocated are free.
TailFree ==
    \A d \in Domain, p \in Port : ~port_is_valid(d, p) => State(d, p) = "FREE"

\* No port of d is in use, or allocated.
Empty(d) == nr_ports[d] = 0 /\ \A p \in Port : State(d, p) = "FREE"

\* Domain d gets no new ports: it is not alive, and the barrier of its
\* evtchn_destroy has been passed.
AtBarrier(u, d) == thr[u].pc = "destroy_barrier" /\ thr[u].d = d
Closing(d) == life[d] # "alive" /\ \A u \in Thread : ~AtBarrier(u, d)

\* CPU u is in the evtchn_destroy of domain d.
Destroys(u, d) == thr[u].caller = "destroy" /\ thr[u].d = d

\* The event_locks that CPU t holds, by the place where it is.
HoldsLocks(t) ==
    /\ thr[t].pc \in {"alloc", "close_virq", "close_higher"} =>
         event_lock[thr[t].d] = t
    /\ thr[t].pc = "bind" => event_lock[FirstLock(thr[t].d, thr[t].d2)] = t
    /\ thr[t].pc = "close" /\ thr[t].d2 # None => event_lock[thr[t].d2] = t
    /\ thr[t].pc \in {"reset_next", "destroy_barrier", "destroy_next",
                      "free_xen"} => thr[t].d2 = None
    /\ \A d \in Domain : event_lock[d] = t =>
         \/ /\ d = thr[t].d
            /\ thr[t].pc \in {"alloc", "close_virq", "close_higher"}
         \/ d = FirstLock(thr[t].d, thr[t].d2) /\ thr[t].pc = "bind"
         \/ d = thr[t].d2 /\ thr[t].pc \in {"close", "close_virq"}

\* What CPU t knows of the channel whose domain it keeps locked.
KnowsChannel(t) ==
    /\ thr[t].pc = "alloc" => /\ port_is_valid(thr[t].d, thr[t].p)
                              /\ State(thr[t].d, thr[t].p) = "FREE"
    /\ thr[t].pc = "close_virq" => State(thr[t].d, thr[t].p) = "VIRQ"
    /\ thr[t].pc = "close_higher" =>
         /\ State(thr[t].d, thr[t].p) = "INTERDOMAIN"
         /\ evtchn[thr[t].d][thr[t].p].dom = thr[t].d2

\* The domains that CPU t works on exist, and one takes the port it allocates.
WorksOn(t) ==
    /\ thr[t].d # None => life[thr[t].d] # "absent"
    /\ thr[t].pc = "bind" => life[thr[t].d2] # "absent" /\ thr[t].d # thr[t].d2
    /\ thr[t].pc = "alloc" => ~Closing(thr[t].d)

\* A CPU in evtchn_destroy works on a dying domain, from its port 0 on.
DestroyShape(t) ==
    /\ thr[t].pc \in {"destroy_barrier", "destroy_next"} =>
         thr[t].caller = "destroy"
    /\ thr[t].caller = "destroy" =>
         /\ thr[t].pc \in {"destroy_barrier", "destroy_next"} \cup ClosePc
         /\ life[thr[t].d] = "dying"
    /\ thr[t].pc = "destroy_barrier" => thr[t].p = 0

\* The port that evtchn_destroy is closing can be closed, even if its peer
\* closed and bound it again while the lock was dropped.
DestroyCloses(t) ==
    thr[t].caller = "destroy" /\ thr[t].pc \in ClosePc /\ thr[t].p \in Port =>
      LET c == evtchn[thr[t].d][thr[t].p]
      IN /\ ~c.xen
         /\ thr[t].d2 # None /\ c.state \in {"UNBOUND", "INTERDOMAIN"} =>
              c.dom = thr[t].d2

\* The ports that evtchn_destroy has passed are closed.
DestroyPassed(t) ==
    thr[t].caller = "destroy" =>
      \A q \in Port : q < thr[t].p =>
        State(thr[t].d, q) \in {"FREE", "RESERVED"}

ThreadInv(t) == /\ HoldsLocks(t) /\ KnowsChannel(t) /\ WorksOn(t)
                /\ DestroyShape(t) /\ DestroyCloses(t) /\ DestroyPassed(t)

\* Dom0 is never killed, and a domain whose struct goes away has no references.
DomainsKept ==
    /\ life[Dom0] = "alive"
    /\ \A d \in Domain : life[d] \in {"absent", "destroyed"} => refcnt[d] = 0

\* domctl_lock: one domain_kill at a time is in evtchn_destroy.
OneDestroyer ==
    \A t, u \in Thread :
      thr[t].caller = "destroy" /\ thr[u].caller = "destroy" => t = u

\* A domain that is not alive, and that nobody is destroying, is empty.
GoneIsEmpty ==
    \A d \in Domain :
      life[d] # "alive" /\ (\A u \in Thread : ~Destroys(u, d)) => Empty(d)

LinkInv ==
    /\ TypeOK /\ LinksSymmetric /\ TailFree /\ RefcountExact
    /\ DomainsKept /\ OneDestroyer /\ GoneIsEmpty
    /\ \A t \in Thread : ThreadInv(t)

-----------------------------------------------------------------------------
(* What the other CPUs see of a step of CPU t.                             *)

\* Their places and their locks stay.
Frame(t) ==
    \A u \in Thread \ {t} :
      /\ thr'[u] = thr[u]
      /\ \A d \in Domain : event_lock[d] = u <=> event_lock'[d] = u

\* Domains that they have locked keep their channels' states and peers.
LockedKept(t) ==
    \A d \in Domain, u \in Thread \ {t} :
      event_lock[d] = u =>
        /\ nr_ports'[d] = nr_ports[d]
        /\ \A p \in Port : /\ evtchn'[d][p].state = evtchn[d][p].state
                           /\ evtchn'[d][p].dom = evtchn[d][p].dom

\* A domain that gets no new ports only loses ports; a port of it that is
\* waiting or linked stays with the same peer.
ClosingShrinks ==
    \A d \in Domain :
      Closing(d) /\ life'[d] # "alive" =>
        /\ nr_ports[d] = 0 => nr_ports'[d] = 0
        /\ \A p \in Port :
             /\ evtchn'[d][p].xen => evtchn[d][p].xen
             /\ State(d, p) = "FREE" => State(d, p)' = "FREE"
             /\ State(d, p) \in {"FREE", "RESERVED"} =>
                  State(d, p)' \in {"FREE", "RESERVED"}
             /\ State(d, p)' \in {"UNBOUND", "INTERDOMAIN"} =>
                  /\ State(d, p) \in {"UNBOUND", "INTERDOMAIN"}
                  /\ evtchn'[d][p].dom = evtchn[d][p].dom

\* How lives go on: only domain_kill ends one, and nobody loses the domain he
\* works on or destroys.
LivesGoOn(t) ==
    \A d \in Domain :
      /\ life[d] = "alive" =>
           \/ life'[d] = "alive"
           \/ t \in Thread /\ AtBarrier(t, d)' /\ Destroys(t, d)'
      /\ life[d] = "dying" =>
           \/ life'[d] = "dying"
           \/ \A u \in Thread : thr[u].caller # "destroy"
      /\ life'[d] = "absent" =>
           life[d] = "absent" \/ \A u \in Thread : d \notin {thr[u].d, thr[u].d2}

\* What t does as a destroyer.
DestroyStep(t) ==
    t \in Thread =>
      /\ \A d \in Domain : AtBarrier(t, d) =>
           AtBarrier(t, d)' \/ event_lock[d] = None
      /\ \A d \in Domain : Destroys(t, d) => Destroys(t, d)' \/ Empty(d)'
      /\ thr'[t].caller = "destroy" =>
           \/ thr[t].caller = "destroy"
           \/ \A u \in Thread : thr[u].caller # "destroy"

Seen(t) == /\ Frame(t) /\ LockedKept(t) /\ ClosingShrinks /\ LivesGoOn(t)
           /\ DestroyStep(t)

\* The other CPUs keep their part of the invariant.
LEMMA OthersKept ==
  ASSUME LinkInv, TypeOK', NEW t, Seen(t), NEW u \in Thread, u # t
  PROVE  ThreadInv(u)'
<1>0. /\ TypeOK /\ ThreadInv(u) /\ thr'[u] = thr[u] /\ u # None
      /\ \A d \in Domain : event_lock[d] = u <=> event_lock'[d] = u
  BY NoneAssumption DEF LinkInv, Seen, Frame
<1>1. HoldsLocks(u)'
  <2>1. thr[u].pc = "bind" => FirstLock(thr[u].d, thr[u].d2) \in Domain
    BY <1>0, ThreadFacts DEF FirstLock
  <2> QED BY <1>0, <2>1, ThreadFacts DEF ThreadInv, HoldsLocks, FirstLock
<1>2. KnowsChannel(u)'
  BY <1>0, ThreadFacts
     DEF ThreadInv, HoldsLocks, KnowsChannel, Seen, LockedKept, State,
         port_is_valid
<1>3. WorksOn(u)'
  <2>1. thr[u].d # None => thr[u].d \in Domain
    BY <1>0 DEF TypeOK, ThreadState, ThreadRecord
  <2>2. /\ thr[u].d # None => life'[thr[u].d] # "absent"
        /\ thr[u].pc = "bind" =>
             life'[thr[u].d2] # "absent" /\ thr[u].d # thr[u].d2
    BY <1>0, <2>1, ThreadFacts DEF ThreadInv, WorksOn, Seen, LivesGoOn
  <2>3. ASSUME thr[u].pc = "alloc"
        PROVE  ~Closing(thr[u].d)'
    <3> DEFINE d == thr[u].d
    <3>1. d \in Domain /\ ~Closing(d) /\ event_lock[d] = u
      BY <1>0, <2>3, ThreadFacts DEF ThreadInv, WorksOn, HoldsLocks
    <3>2. CASE life[d] = "alive"
      BY <1>0, <3>1, <3>2 DEF Seen, LivesGoOn, Closing, AtBarrier
    <3>3. ASSUME NEW w \in Thread, AtBarrier(w, d)
          PROVE  AtBarrier(w, d)'
      <4>1. CASE w = t
        BY <1>0, <3>1, <3>3, <4>1 DEF Seen, DestroyStep
      <4>2. CASE w # t
        BY <3>3, <4>2 DEF Seen, Frame, AtBarrier
      <4> QED BY <4>1, <4>2
    <3> QED BY <3>1, <3>2, <3>3 DEF Closing
  <2> QED BY <1>0, <2>2, <2>3 DEF WorksOn
<1>4. DestroyShape(u)'
  <2>1. thr[u].caller = "destroy" => thr[u].d \in Domain
    BY <1>0, ThreadFacts DEF ThreadInv, DestroyShape, ClosePc
  <2> QED BY <1>0, <2>1 DEF ThreadInv, DestroyShape, Seen, LivesGoOn
<1>5. ASSUME thr[u].caller = "destroy", thr[u].pc # "destroy_barrier"
      PROVE  thr[u].d \in Domain /\ Closing(thr[u].d) /\ life'[thr[u].d] # "alive"
  <2>1. thr[u].d \in Domain /\ life[thr[u].d] = "dying"
    BY <1>0, <1>5, ThreadFacts DEF ThreadInv, DestroyShape, ClosePc
  <2>2. ASSUME NEW w \in Thread PROVE ~AtBarrier(w, thr[u].d)
    BY <1>5, <2>2 DEF LinkInv, OneDestroyer, ThreadInv, DestroyShape, AtBarrier
  <2>3. life'[thr[u].d] = "dying"
    BY <1>5, <2>1 DEF Seen, LivesGoOn
  <2> QED BY <2>1, <2>2, <2>3 DEF Closing
<1>6. DestroyCloses(u)'
  BY <1>0, <1>5 DEF ThreadInv, DestroyCloses, Seen, ClosingShrinks, ClosePc, State
<1>7. DestroyPassed(u)'
  <2>1. CASE thr[u].pc = "destroy_barrier"
    BY <1>0, <2>1, PortFacts DEF ThreadInv, DestroyShape, DestroyPassed, Port
  <2>2. CASE thr[u].pc # "destroy_barrier"
    BY <1>0, <1>5, <2>2 DEF ThreadInv, DestroyPassed, Seen, ClosingShrinks
  <2> QED BY <2>1, <2>2
<1> QED BY <1>1, <1>2, <1>3, <1>4, <1>6, <1>7 DEF ThreadInv

\* There is still at most one destroyer, and what nobody destroys is empty.
LEMMA DestroyersKept ==
  ASSUME LinkInv, NEW t, Seen(t)
  PROVE  OneDestroyer' /\ GoneIsEmpty'
<1>1. OneDestroyer'
  BY DEF LinkInv, OneDestroyer, Seen, Frame, DestroyStep
<1>2. ASSUME NEW d \in Domain, life'[d] # "alive",
             \A u \in Thread : ~Destroys(u, d)'
      PROVE  Empty(d)'
  <2>1. life[d] # "alive"
    BY <1>2 DEF Seen, LivesGoOn
  <2>2. CASE \A u \in Thread : ~Destroys(u, d)
    <3>1. Empty(d)
      BY <2>1, <2>2 DEF LinkInv, GoneIsEmpty
    <3>2. Closing(d)
      BY <2>1, <2>2 DEF Closing, AtBarrier, Destroys, LinkInv, ThreadInv,
                        DestroyShape
    <3> QED BY <1>2, <3>1, <3>2 DEF Seen, ClosingShrinks, Empty
  <2>3. ASSUME NEW u \in Thread, Destroys(u, d) PROVE Empty(d)'
    BY <1>2, <2>3 DEF Seen, Frame, DestroyStep, Destroys
  <2> QED BY <2>2, <2>3
<1> QED BY <1>1, <1>2 DEF GoneIsEmpty
-----------------------------------------------------------------------------
(* What the operations do to the tables.                                   *)

\* A lock that no other CPU holds.
Mine(t, d) == event_lock[d] = None \/ event_lock[d] = t

Tables(t) == LockedKept(t) /\ ClosingShrinks /\ LinksSymmetric' /\ TailFree'

\* Domains other than a locked one keep their tables.
LEMMA OthersLocked ==
  ASSUME NEW t, NEW d \in Domain, Mine(t, d),
         \A e \in Domain : e # d => /\ evtchn'[e] = evtchn[e]
                                   /\ nr_ports'[e] = nr_ports[e]
  PROVE  LockedKept(t)
<1>1. \A u \in Thread \ {t} : event_lock[d] # u
  BY NoneAssumption DEF Mine
<1> QED BY <1>1 DEF LockedKept

\* Links that are left alone stay symmetric.
LEMMA LinksKept ==
  ASSUME LinksSymmetric,
         \A e \in Domain, q \in Port :
           /\ State(e, q) = "INTERDOMAIN" <=> State(e, q)' = "INTERDOMAIN"
           /\ State(e, q) = "INTERDOMAIN" =>
                /\ evtchn'[e][q].dom = evtchn[e][q].dom
                /\ evtchn'[e][q].port = evtchn[e][q].port
                /\ port_is_valid(e, q) => port_is_valid(e, q)'
  PROVE  LinksSymmetric'
<1> SUFFICES ASSUME NEW e \in Domain, NEW q \in Port,
                    evtchn'[e][q].state = "INTERDOMAIN"
             PROVE  LET d2 == evtchn'[e][q].dom  p2 == evtchn'[e][q].port
                    IN /\ d2 \in Domain /\ p2 \in Port
                       /\ p2 < nr_ports'[d2]
                       /\ evtchn'[d2][p2].state = "INTERDOMAIN"
                       /\ evtchn'[d2][p2].dom = e /\ evtchn'[d2][p2].port = q
  BY DEF LinksSymmetric, State, port_is_valid
<1>1. PICK d2, p2 : d2 = evtchn[e][q].dom /\ p2 = evtchn[e][q].port
  OBVIOUS
<1>2. evtchn'[e][q].dom = d2 /\ evtchn'[e][q].port = p2
  BY <1>1 DEF State
<1>3. /\ d2 \in Domain /\ p2 \in Port /\ port_is_valid(d2, p2)
      /\ State(d2, p2) = "INTERDOMAIN"
      /\ evtchn[d2][p2].dom = e /\ evtchn[d2][p2].port = q
  BY <1>1 DEF LinksSymmetric, State
<1>4. /\ evtchn'[d2][p2].state = "INTERDOMAIN" /\ p2 < nr_ports'[d2]
      /\ evtchn'[d2][p2].dom = e /\ evtchn'[d2][p2].port = q
  BY <1>3 DEF State, port_is_valid
<1> QED BY <1>2, <1>3, <1>4

\* TailFree survives a step that empties no table and fills no free port.
LEMMA TailKept ==
  ASSUME TailFree,
         \A e \in Domain, q \in Port :
           /\ port_is_valid(e, q) => port_is_valid(e, q)'
           /\ State(e, q) = "FREE" => State(e, q)' = "FREE"
  PROVE  TailFree'
<1> SUFFICES ASSUME NEW e \in Domain, NEW q \in Port, ~port_is_valid(e, q)'
             PROVE  State(e, q)' = "FREE"
  BY Zenon DEF TailFree
<1>1. ~port_is_valid(e, q)
  BY Zenon
<1>2. State(e, q) = "FREE"
  BY <1>1, Zenon DEF TailFree
<1> QED BY <1>2, Zenon

\* A step that leaves the tables alone.
LEMMA TablesSame ==
  ASSUME LinkInv, NEW t, UNCHANGED tables
  PROVE  Tables(t)
BY SMTT(30) DEF LinkInv, tables, Tables, LockedKept, ClosingShrinks, LinksSymmetric,
       TailFree, State, port_is_valid

\* Only the vcpu or consumer_is_xen of a channel changes.
LEMMA TablesMark ==
  ASSUME LinkInv, NEW t, NEW d \in Domain, NEW p \in Port, NEW c,
         c.state = evtchn[d][p].state, c.dom = evtchn[d][p].dom,
         c.port = evtchn[d][p].port, c.xen => evtchn[d][p].xen,
         evtchn' = [evtchn EXCEPT ![d][p] = c], nr_ports' = nr_ports
  PROVE  Tables(t)
<1>1. \A e \in Domain, q \in Port :
        /\ evtchn'[e][q].state = evtchn[e][q].state
        /\ evtchn'[e][q].dom = evtchn[e][q].dom
        /\ evtchn'[e][q].port = evtchn[e][q].port
        /\ evtchn'[e][q].xen => evtchn[e][q].xen
  BY DEF LinkInv, TypeOK
<1>0. \A e \in Domain, q \in Port : port_is_valid(e, q) <=> port_is_valid(e, q)'
  BY DEF port_is_valid
<1>2. LinksSymmetric'
  BY <1>0, <1>1, LinksKept DEF LinkInv, State
<1>3. TailFree'
  BY <1>0, <1>1, TailKept DEF LinkInv, State
<1>4. LockedKept(t) /\ ClosingShrinks
  BY <1>1 DEF LockedKept, ClosingShrinks, State
<1> QED BY <1>2, <1>3, <1>4 DEF Tables

\* The table of a domain that takes ports grows.
LEMMA TablesGrow ==
  ASSUME LinkInv, NEW t, NEW d \in Domain, NEW n \in Nat, n >= nr_ports[d],
         Mine(t, d), ~Closing(d),
         nr_ports' = [nr_ports EXCEPT ![d] = n], UNCHANGED evtchn
  PROVE  Tables(t)
<1>1. /\ nr_ports'[d] = n
      /\ \A e \in Domain \ {d} : nr_ports'[e] = nr_ports[e]
      /\ \A e \in Domain : nr_ports[e] \in Nat
  BY DEF LinkInv, TypeOK, BucketEnds
<1>0. \A e \in Domain, q \in Port : port_is_valid(e, q) => port_is_valid(e, q)'
  BY <1>1, PortFacts DEF port_is_valid
<1>2. LinksSymmetric'
  BY <1>0, LinksKept DEF LinkInv, State
<1>3. TailFree'
  BY <1>0, TailKept DEF LinkInv, State
<1>4. LockedKept(t)
  BY <1>1, OthersLocked
<1>5. ClosingShrinks
  BY <1>1 DEF ClosingShrinks, State
<1> QED BY <1>2, <1>3, <1>4, <1>5 DEF Tables

\* A free port of such a domain is taken, for anything but a link.
LEMMA TablesTake ==
  ASSUME LinkInv, NEW t, NEW d \in Domain, NEW p \in Port, NEW n \in Nat,
         NEW c, n >= nr_ports[d], p < n, State(d, p) = "FREE",
         c.state \notin {"FREE", "INTERDOMAIN"},
         Mine(t, d), ~Closing(d),
         nr_ports' = [nr_ports EXCEPT ![d] = n],
         evtchn' = [evtchn EXCEPT ![d][p] = c]
  PROVE  Tables(t)
<1>1. /\ nr_ports'[d] = n
      /\ \A e \in Domain \ {d} : nr_ports'[e] = nr_ports[e]
      /\ \A e \in Domain : nr_ports[e] \in Nat
  BY DEF LinkInv, TypeOK, BucketEnds
<1>2. /\ evtchn'[d][p] = c
      /\ \A e \in Domain, q \in Port :
           e # d \/ q # p => evtchn'[e][q] = evtchn[e][q]
      /\ \A e \in Domain : e # d => evtchn'[e] = evtchn[e]
  BY DEF LinkInv, TypeOK
<1>3. LinksSymmetric'
  <2>1. \A e \in Domain, q \in Port : port_is_valid(e, q) => port_is_valid(e, q)'
    BY <1>1, PortFacts DEF port_is_valid
  <2> QED BY <1>2, <2>1, LinksKept DEF LinkInv, State
<1>4. TailFree'
  BY <1>1, <1>2, PortFacts DEF LinkInv, TailFree, State, port_is_valid
<1>5. LockedKept(t)
  BY <1>1, <1>2, OthersLocked
<1>6. ClosingShrinks
  BY <1>1, <1>2 DEF ClosingShrinks, State
<1> QED BY <1>3, <1>4, <1>5, <1>6 DEF Tables

\* A channel without a peer is freed.
LEMMA TablesFree ==
  ASSUME LinkInv, NEW t, NEW d \in Domain, NEW p \in Port,
         State(d, p) # "INTERDOMAIN", Mine(t, d),
         FreeChannel(d, p), UNCHANGED nr_ports
  PROVE  Tables(t)
<1> DEFINE c == FreedChan(evtchn[d][p])
<1>1. c.state = "FREE" /\ c.xen = evtchn[d][p].xen
  BY DEF FreedChan, Channel
<1>2. evtchn' = [evtchn EXCEPT ![d][p] = c]
  BY DEF FreeChannel
<1> HIDE DEF c
<1>3. /\ evtchn'[d][p] = c
      /\ \A e \in Domain, q \in Port :
           e # d \/ q # p => evtchn'[e][q] = evtchn[e][q]
      /\ \A e \in Domain : e # d => evtchn'[e] = evtchn[e]
  BY <1>2 DEF LinkInv, TypeOK
<1>4. LinksSymmetric'
  BY <1>1, <1>3, LinksKept DEF LinkInv, State, port_is_valid
<1>5. TailFree'
  BY <1>1, <1>3 DEF LinkInv, TailFree, State, port_is_valid
<1>6. LockedKept(t)
  BY <1>3, OthersLocked
<1>7. \A e \in Domain, q \in Port :
        \/ evtchn'[e][q] = evtchn[e][q]
        \/ /\ evtchn'[e][q].state = "FREE"
           /\ evtchn'[e][q].xen = evtchn[e][q].xen
  BY <1>1, <1>3
<1>8. ClosingShrinks
  BY <1>7 DEF ClosingShrinks, State
<1> QED BY <1>4, <1>5, <1>6, <1>8 DEF Tables

\* A link is cut: one end is freed, the other waits for the domain again.
LEMMA TablesUnlink ==
  ASSUME LinkInv, NEW t, NEW d \in Domain, NEW p \in Port,
         State(d, p) = "INTERDOMAIN", Mine(t, d), Mine(t, evtchn[d][p].dom),
         UnlinkChannel(d, p), UNCHANGED nr_ports
  PROVE  Tables(t)
<1>1. PICK d2, p2 : d2 = evtchn[d][p].dom /\ p2 = evtchn[d][p].port
  OBVIOUS
<1>2. /\ d2 \in Domain /\ p2 \in Port
      /\ evtchn[d2][p2].state = "INTERDOMAIN"
      /\ evtchn[d2][p2].dom = d /\ evtchn[d2][p2].port = p
  BY <1>1, SMTT(30) DEF LinkInv, LinksSymmetric, State
<1> DEFINE c1 == FreedChan(evtchn[d][p])
           c2 == UnboundChan(evtchn[d2][p2], d)
<1>3. /\ c1.state = "FREE" /\ c1.xen = evtchn[d][p].xen
      /\ c2.state = "UNBOUND" /\ c2.dom = d /\ c2.xen = evtchn[d2][p2].xen
  BY DEF FreedChan, UnboundChan, Channel
<1>4. evtchn' = [evtchn EXCEPT ![d2][p2] = c2, ![d][p] = c1]
  BY <1>1 DEF UnlinkChannel
<1> HIDE DEF c1, c2
<1>5. /\ evtchn'[d][p] = c1
      /\ d2 # d \/ p2 # p => evtchn'[d2][p2] = c2
      /\ \A e \in Domain, q \in Port :
           (e # d \/ q # p) /\ (e # d2 \/ q # p2) =>
             evtchn'[e][q] = evtchn[e][q]
      /\ \A e \in Domain : e # d /\ e # d2 => evtchn'[e] = evtchn[e]
  BY <1>2, <1>4 DEF LinkInv, TypeOK
<1>6. LinksSymmetric'
  <2> SUFFICES ASSUME NEW e \in Domain, NEW q \in Port,
                      evtchn'[e][q].state = "INTERDOMAIN"
               PROVE  LET e2 == evtchn'[e][q].dom  q2 == evtchn'[e][q].port
                      IN /\ e2 \in Domain /\ q2 \in Port
                         /\ q2 < nr_ports'[e2]
                         /\ evtchn'[e2][q2].state = "INTERDOMAIN"
                         /\ evtchn'[e2][q2].dom = e /\ evtchn'[e2][q2].port = q
    BY DEF LinksSymmetric, State, port_is_valid
  <2>1. (e # d \/ q # p) /\ (e # d2 \/ q # p2) /\ evtchn'[e][q] = evtchn[e][q]
    BY <1>2, <1>3, <1>5
  <2>2. PICK e2, q2 : e2 = evtchn[e][q].dom /\ q2 = evtchn[e][q].port
    OBVIOUS
  <2>3. /\ e2 \in Domain /\ q2 \in Port /\ q2 < nr_ports[e2]
        /\ evtchn[e2][q2].state = "INTERDOMAIN"
        /\ evtchn[e2][q2].dom = e /\ evtchn[e2][q2].port = q
    BY <2>1, <2>2, SMTT(30) DEF LinkInv, LinksSymmetric, State, port_is_valid
  <2>4. evtchn'[e2][q2] = evtchn[e2][q2]
    BY <1>1, <1>2, <1>5, <2>1, <2>3
  <2> QED BY <2>1, <2>2, <2>3, <2>4
<1>7. \A e \in Domain, q \in Port :
        \/ evtchn'[e][q] = evtchn[e][q]
        \/ /\ evtchn'[e][q].state = "FREE"
           /\ evtchn[e][q].state = "INTERDOMAIN"
           /\ evtchn'[e][q].xen = evtchn[e][q].xen
        \/ /\ evtchn'[e][q].state = "UNBOUND"
           /\ evtchn[e][q].state = "INTERDOMAIN"
           /\ evtchn'[e][q].dom = evtchn[e][q].dom
           /\ evtchn'[e][q].xen = evtchn[e][q].xen
  BY <1>2, <1>3, <1>5 DEF State
<1>8. TailFree'
  BY <1>7 DEF LinkInv, TailFree, State, port_is_valid
<1>9. ClosingShrinks
  BY <1>7 DEF ClosingShrinks, State
<1>10. LockedKept(t)
  <2>1. \A u \in Thread \ {t} : event_lock[d] # u /\ event_lock[d2] # u
    BY <1>1, NoneAssumption DEF Mine
  <2> QED BY <1>5, <2>1 DEF LockedKept
<1> QED BY <1>6, <1>8, <1>9, <1>10 DEF Tables

\* What get_free_port returns: a free port that the grown table holds, of a
\* domain that takes ports.
LEMMA FreePort ==
  ASSUME LinkInv, NEW d \in Domain, NEW p \in Port, get_free_port(d, p)
  PROVE  /\ State(d, p) = "FREE" /\ life[d] = "alive" /\ ~Closing(d)
         /\ \E n \in Nat : /\ n >= nr_ports[d] /\ p < n
                           /\ Grown(d, p) = [nr_ports EXCEPT ![d] = n]
<1>1. nr_ports[d] \in Nat /\ nr_ports = [nr_ports EXCEPT ![d] = nr_ports[d]]
  BY DEF LinkInv, TypeOK, BucketEnds
<1>2. State(d, p) = "FREE" /\ life[d] = "alive" /\ ~Closing(d)
  BY <1>1, PortFacts DEF get_free_port, LinkInv, TailFree, port_is_valid, Closing
<1>3. CASE port_is_valid(d, p)
  BY <1>1, <1>2, <1>3 DEF Grown, port_is_valid
<1>4. CASE ~port_is_valid(d, p)
  <2>1. p = nr_ports[d]
    BY <1>4 DEF get_free_port
  <2> DEFINE n == nr_ports[d] + PerBucket
  <2>2. n \in Nat /\ p < n /\ n >= nr_ports[d]
    BY <1>1, <2>1, PortFacts
  <2>3. Grown(d, p) = [nr_ports EXCEPT ![d] = n]
    BY <1>4 DEF Grown
  <2> HIDE DEF n
  <2> QED BY <1>2, <2>2, <2>3
<1> QED BY <1>3, <1>4

\* A free port is linked to a port that waits for its domain.
LEMMA TablesLink ==
  ASSUME LinkInv, NEW t, NEW ld \in Domain, NEW lport \in Port,
         NEW rd \in Domain, NEW rport \in Port, Mine(t, ld), Mine(t, rd),
         ~Closing(ld), evtchn[ld][lport].state = "FREE",
         rport < nr_ports[rd], evtchn[rd][rport].state = "UNBOUND",
         evtchn[rd][rport].dom = ld, evtchn'[ld][lport].state = "INTERDOMAIN",
         evtchn'[ld][lport].dom = rd, evtchn'[ld][lport].port = rport,
         evtchn'[rd][rport].state = "INTERDOMAIN",
         evtchn'[rd][rport].dom = ld, evtchn'[rd][rport].port = lport,
         evtchn'[rd][rport].xen = evtchn[rd][rport].xen,
         \A e \in Domain, q \in Port :
           (e # ld \/ q # lport) /\ (e # rd \/ q # rport) =>
             evtchn'[e][q] = evtchn[e][q],
         nr_ports'[ld] \in Nat, nr_ports'[ld] >= nr_ports[ld],
         lport < nr_ports'[ld],
         \A e \in Domain : e # ld => nr_ports'[e] = nr_ports[e]
  PROVE  Tables(t)
<1>1. \A e \in Domain, q \in Port : q < nr_ports[e] => q < nr_ports'[e]
  <2>1. \A e \in Domain : nr_ports[e] \in Nat
    BY DEF LinkInv, TypeOK, BucketEnds
  <2>2. \A q \in Port : q < nr_ports[ld] => q < nr_ports'[ld]
    BY <2>1, PortFacts
  <2> QED BY <2>2
<1>2. LinksSymmetric'
  <2> SUFFICES ASSUME NEW e \in Domain, NEW q \in Port,
                      evtchn'[e][q].state = "INTERDOMAIN"
               PROVE  LET e2 == evtchn'[e][q].dom  q2 == evtchn'[e][q].port
                      IN /\ e2 \in Domain /\ q2 \in Port
                         /\ q2 < nr_ports'[e2]
                         /\ evtchn'[e2][q2].state = "INTERDOMAIN"
                         /\ evtchn'[e2][q2].dom = e /\ evtchn'[e2][q2].port = q
    BY DEF LinksSymmetric, State, port_is_valid
  <2>1. CASE e = ld /\ q = lport
    BY <1>1, <2>1
  <2>2. CASE e = rd /\ q = rport
    BY <1>1, <2>2
  <2>3. CASE (e # ld \/ q # lport) /\ (e # rd \/ q # rport)
    <3>1. evtchn'[e][q] = evtchn[e][q]
      BY <2>3
    <3>2. PICK e2, q2 : e2 = evtchn[e][q].dom /\ q2 = evtchn[e][q].port
      OBVIOUS
    <3>3. /\ e2 \in Domain /\ q2 \in Port /\ q2 < nr_ports[e2]
          /\ evtchn[e2][q2].state = "INTERDOMAIN"
          /\ evtchn[e2][q2].dom = e /\ evtchn[e2][q2].port = q
      BY <3>1, <3>2, SMTT(30) DEF LinkInv, LinksSymmetric, State, port_is_valid
    <3>4. evtchn'[e2][q2] = evtchn[e2][q2]
      BY <3>3
    <3> QED BY <1>1, <3>1, <3>2, <3>3, <3>4
  <2> QED BY <2>1, <2>2, <2>3
<1>3. TailFree'
  BY <1>1 DEF LinkInv, TailFree, State, port_is_valid
<1>4. ClosingShrinks
  <2>1. \A e \in Domain, q \in Port : e # ld =>
          \/ evtchn'[e][q] = evtchn[e][q]
          \/ /\ evtchn'[e][q].state = "INTERDOMAIN"
             /\ evtchn[e][q].state = "UNBOUND"
             /\ evtchn'[e][q].dom = evtchn[e][q].dom
             /\ evtchn'[e][q].xen = evtchn[e][q].xen
    OBVIOUS
  <2> QED BY <2>1 DEF ClosingShrinks, State
<1>5. LockedKept(t)
  <2>1. \A u \in Thread \ {t} : event_lock[ld] # u /\ event_lock[rd] # u
    BY NoneAssumption DEF Mine
  <2> QED BY <2>1 DEF LockedKept
<1> QED BY <1>2, <1>3, <1>4, <1>5 DEF Tables

\* A table without ports in use is replaced by an empty or a new one.
LEMMA TablesReset ==
  ASSUME LinkInv, NEW t, NEW d \in Domain, NEW T, NEW n \in Nat,
         event_lock[d] = None,
         \A p \in Port : State(d, p) \in {"FREE", "RESERVED"},
         \A p \in Port : /\ T[p].state \in {"FREE", "RESERVED"}
                         /\ p >= n => T[p].state = "FREE",
         \/ life'[d] = "alive"
         \/ n = 0 /\ \A p \in Port : T[p].state = "FREE" /\ ~T[p].xen,
         nr_ports' = [nr_ports EXCEPT ![d] = n],
         evtchn' = [evtchn EXCEPT ![d] = T]
  PROVE  Tables(t)
<1>1. /\ nr_ports'[d] = n /\ evtchn'[d] = T
      /\ \A e \in Domain :
           e # d => nr_ports'[e] = nr_ports[e] /\ evtchn'[e] = evtchn[e]
      /\ \A e \in Domain : nr_ports[e] \in Nat
  BY DEF LinkInv, TypeOK, BucketEnds
<1>2. LinksSymmetric'
  <2>1. \A e \in Domain, q \in Port :
          \/ evtchn'[e][q] = evtchn[e][q] /\ nr_ports'[e] = nr_ports[e]
          \/ /\ evtchn'[e][q].state \in {"FREE", "RESERVED"}
             /\ evtchn[e][q].state \in {"FREE", "RESERVED"}
    BY <1>1 DEF State
  <2> QED BY <2>1, LinksKept DEF LinkInv, State, port_is_valid
<1>3. TailFree'
  BY <1>1, PortFacts DEF LinkInv, TailFree, State, port_is_valid
<1>4. LockedKept(t)
  BY <1>1, OthersLocked DEF Mine
<1>5. ClosingShrinks
  BY <1>1 DEF ClosingShrinks, State
<1> QED BY <1>2, <1>3, <1>4, <1>5 DEF Tables

\* evtchn_bind_interdomain, with both locks or with the one lock it needs.
LEMMA TablesBind ==
  ASSUME LinkInv, NEW t, NEW ld \in Domain, NEW rd \in Domain,
         NEW rport \in Nat, Mine(t, ld), Mine(t, rd),
         LinkChannels(ld, rd, rport)
  PROVE  Tables(t)
<1>1. CASE UNCHANGED tables
  BY <1>1, TablesSame
<1>2. ASSUME NEW lport \in Port, get_free_port(ld, lport),
             nr_ports' = Grown(ld, lport), UNCHANGED evtchn
      PROVE  Tables(t)
  BY <1>2, FreePort, TablesGrow
<1>3. ASSUME NEW lport \in Port, get_free_port(ld, lport),
             nr_ports' = Grown(ld, lport), AwaitsPeer(rd, rport, ld),
             evtchn' = [evtchn EXCEPT
                ![ld][lport] = LinkedChan(evtchn[ld][lport], rd, rport),
                ![rd][rport] = LinkedChan(evtchn[rd][rport], ld, lport)]
      PROVE  Tables(t)
  <2>0. PICK c1, c2 : /\ c1 = LinkedChan(evtchn[ld][lport], rd, rport)
                      /\ c2 = LinkedChan(evtchn[rd][rport], ld, lport)
    OBVIOUS
  <2>1. /\ rport \in Port /\ rport < nr_ports[rd]
        /\ evtchn[rd][rport].state = "UNBOUND" /\ evtchn[rd][rport].dom = ld
    BY <1>3, ValidPort DEF LinkInv, AwaitsPeer, State, port_is_valid
  <2>2. evtchn[ld][lport].state = "FREE" /\ ~Closing(ld)
    BY <1>3, FreePort DEF State
  <2>3. PICK n \in Nat : /\ n >= nr_ports[ld] /\ lport < n
                         /\ nr_ports' = [nr_ports EXCEPT ![ld] = n]
    BY <1>3, FreePort
  <2>4. /\ nr_ports'[ld] = n
        /\ \A e \in Domain : e # ld => nr_ports'[e] = nr_ports[e]
    BY <2>3 DEF LinkInv, TypeOK
  <2>5. /\ c1.state = "INTERDOMAIN" /\ c1.dom = rd /\ c1.port = rport
        /\ c2.state = "INTERDOMAIN" /\ c2.dom = ld /\ c2.port = lport
        /\ c2.xen = evtchn[rd][rport].xen
    BY <2>0 DEF LinkedChan, Channel
  <2>6. evtchn' = [evtchn EXCEPT ![ld][lport] = c1, ![rd][rport] = c2]
    BY <1>3, <2>0
  <2>7. ld # rd \/ lport # rport
    BY <2>1, <2>2
  <2>8. /\ evtchn'[ld][lport] = c1 /\ evtchn'[rd][rport] = c2
        /\ \A e \in Domain, q \in Port :
             (e # ld \/ q # lport) /\ (e # rd \/ q # rport) =>
               evtchn'[e][q] = evtchn[e][q]
    BY <2>1, <2>6, <2>7 DEF LinkInv, TypeOK
  <2> QED BY <2>1, <2>2, <2>3, <2>4, <2>5, <2>8, TablesLink
<1> QED BY <1>1, <1>2, <1>3 DEF LinkChannels

-----------------------------------------------------------------------------
(* Steps.                                                                  *)

\* A step that stays where it is changes no channel.
Moves(t) == t \in Thread /\ thr'[t] = thr[t] => UNCHANGED evtchn

\* What every step of CPU t does (t is None for a step of no CPU).
Step(t) == /\ Frame(t) /\ Tables(t) /\ LivesGoOn(t) /\ DestroyStep(t)
           /\ t \in Thread => ThreadInv(t)'
           /\ DomainsKept' /\ RefcountExact' /\ Moves(t)

\* Such a step keeps the invariant.
LEMMA StepKeeps ==
  ASSUME LinkInv, TypeOK', NEW t, Step(t)
  PROVE  LinkInv'
<1>1. Seen(t) /\ LinksSymmetric' /\ TailFree' /\ DomainsKept' /\ RefcountExact'
  BY DEF Step, Tables, Seen
<1>2. OneDestroyer' /\ GoneIsEmpty'
  BY <1>1, DestroyersKept
<1>3. ASSUME NEW u \in Thread PROVE ThreadInv(u)'
  <2>1. CASE u = t
    BY <2>1 DEF Step
  <2>2. CASE u # t
    BY <1>1, <2>2, OthersKept
  <2> QED BY <2>1, <2>2
<1> QED BY <1>1, <1>2, <1>3 DEF LinkInv

\* A lock that CPU t takes or drops, while it goes on at s.
LEMMA FrameLock ==
  ASSUME TypeOK, NEW t \in Thread, NEW s, NEW d \in Domain, NEW x,
         Mine(t, d), x = None \/ x = t,
         thr' = [thr EXCEPT ![t] = s],
         event_lock' = [event_lock EXCEPT ![d] = x]
  PROVE  /\ Frame(t) /\ thr'[t] = s /\ event_lock'[d] = x
         /\ \A e \in Domain : e # d => event_lock'[e] = event_lock[e]
<1>1. /\ thr'[t] = s /\ \A u \in Thread : u # t => thr'[u] = thr[u]
  BY DEF TypeOK
<1>2. /\ event_lock'[d] = x
      /\ \A e \in Domain : e # d => event_lock'[e] = event_lock[e]
  BY DEF TypeOK
<1>3. \A u \in Thread \ {t} : event_lock[d] # u /\ event_lock'[d] # u
  BY <1>2, NoneAssumption DEF Mine
<1> QED BY <1>1, <1>2, <1>3 DEF Frame

\* CPU t goes on at s and leaves the locks alone.
LEMMA FrameGo ==
  ASSUME TypeOK, NEW t \in Thread, NEW s, thr' = [thr EXCEPT ![t] = s],
         UNCHANGED event_lock
  PROVE  Frame(t) /\ thr'[t] = s
BY DEF TypeOK, Frame

\* The lives and the references of the domains stay.
LEMMA DomsSame ==
  ASSUME LinkInv, TypeOK', NEW t, Frame(t), UNCHANGED doms,
         t \in Thread => \A d \in Domain : t \in Holders(d) <=> t \in Holders(d)'
  PROVE  LivesGoOn(t) /\ DomainsKept' /\ RefcountExact'
<1>1. life' = life /\ refcnt' = refcnt
  BY DEF doms
<1>2. LivesGoOn(t) /\ DomainsKept'
  BY <1>1 DEF LivesGoOn, LinkInv, DomainsKept
<1>3. ASSUME NEW d \in Domain PROVE Holders(d)' = Holders(d)
  <2>1. \A u \in Thread : u # t => (u \in Holders(d) <=> u \in Holders(d)')
    BY DEF Frame, Holders
  <2> QED BY <2>1 DEF Holders
<1>4. RefcountExact'
  BY <1>1, <1>3 DEF LinkInv, RefcountExact
<1> QED BY <1>2, <1>4

\* CPU t is no destroyer, or stays the one it is.
LEMMA SameDestroyer ==
  ASSUME LinkInv, NEW t \in Thread, thr[t].pc # "destroy_barrier",
         thr'[t].caller = "destroy" \/ thr[t].caller = "destroy" =>
           thr'[t].caller = thr[t].caller /\ thr'[t].d = thr[t].d
  PROVE  DestroyStep(t)
BY DEF DestroyStep, AtBarrier, Destroys, LinkInv, ThreadInv, DestroyShape

\* What CPU t knows while it holds no lock and is not destroying.
LEMMA QuietThread ==
  ASSUME TypeOK', NEW t \in Thread, thr'[t].caller # "destroy",
         thr'[t].pc \notin {"alloc", "bind", "close_virq", "close_higher",
                            "destroy_barrier", "destroy_next"},
         thr'[t].pc \in {"close", "reset_next", "free_xen"} =>
           thr'[t].d2 = None,
         thr'[t].d # None => life'[thr'[t].d] # "absent",
         \A d \in Domain : event_lock'[d] # t
  PROVE  ThreadInv(t)'
<1>1. HoldsLocks(t)'
  BY DEF HoldsLocks
<1>2. KnowsChannel(t)' /\ WorksOn(t)'
  BY DEF KnowsChannel, WorksOn
<1>3. DestroyShape(t)' /\ DestroyCloses(t)' /\ DestroyPassed(t)'
  BY DEF DestroyShape, DestroyCloses, DestroyPassed
<1> QED BY <1>1, <1>2, <1>3 DEF ThreadInv

\* CPU t moves between places that need no lock and no reference.
LEMMA QuietStep ==
  ASSUME LinkInv, TypeOK', NEW t \in Thread, NEW s,
         thr' = [thr EXCEPT ![t] = s], UNCHANGED <<event_lock, doms>>,
         Tables(t), s # thr[t] \/ UNCHANGED evtchn,
         thr[t].caller # "destroy",
         thr[t].pc \notin {"alloc", "bind", "destroy_barrier"} \cup ClosePc,
         s.caller # "destroy",
         s.pc \notin {"alloc", "bind", "close_virq", "close_higher",
                      "close_lower", "destroy_barrier", "destroy_next"},
         s.pc \in {"close", "reset_next", "free_xen"} => s.d2 = None,
         s.d # None => life[s.d] # "absent"
  PROVE  Step(t)
<1>1. Frame(t) /\ thr'[t] = s
  BY FrameGo DEF LinkInv
<1>2. \A d \in Domain : event_lock'[d] # t
  BY DEF LinkInv, ThreadInv, HoldsLocks, ClosePc
<1>3. ThreadInv(t)'
  BY <1>1, <1>2, QuietThread DEF doms
<1>4. LivesGoOn(t) /\ DomainsKept' /\ RefcountExact'
  <2>1. \A d \in Domain : t \notin Holders(d) /\ t \notin Holders(d)'
    BY <1>1, NoneAssumption DEF Holders, ClosePc
  <2> QED BY <1>1, <2>1, DomsSame
<1>5. DestroyStep(t)
  BY <1>1, SameDestroyer
<1>6. Moves(t)
  BY <1>1 DEF Moves
<1> QED BY <1>1, <1>3, <1>4, <1>5, <1>6 DEF Step

\* References: CPU t drops the one it has to domain d.
LEMMA HolderLeaves ==
  ASSUME LinkInv, NEW t \in Thread, NEW d \in Domain, t \in Holders(d),
         Frame(t), \A e \in Domain : t \notin Holders(e)'
  PROVE  /\ Holders(d)' = Holders(d) \ {t}
         /\ Cardinality(Holders(d)) \in Nat \ {0}
         /\ Cardinality(Holders(d)') = Cardinality(Holders(d)) - 1
         /\ \A e \in Domain : e # d => Holders(e)' = Holders(e)
<1>1. ASSUME NEW e \in Domain PROVE IsFiniteSet(Holders(e))
  BY ThreadAssumption, FS_Subset DEF Holders
<1>2. Holders(d)' = Holders(d) \ {t}
  BY DEF Frame, Holders
<1>3. /\ Cardinality(Holders(d)) \in Nat
      /\ Cardinality(Holders(d) \ {t}) \in Nat
      /\ Cardinality(Holders(d) \ {t}) = Cardinality(Holders(d)) - 1
  BY <1>1, FS_RemoveElement, FS_CardinalityType
<1>4. \A e \in Domain : e # d => Holders(e)' = Holders(e)
  BY DEF Frame, Holders
<1> QED BY <1>2, <1>3, <1>4

\* Label out of __evtchn_close: a domain that lives on, or that a link or a
\* destroyer needs, is not destroyed by the put_domain.
LEMMA CloseOutDoms ==
  ASSUME LinkInv, TypeOK', NEW t \in Thread, CloseOut(t), Frame(t),
         thr[t].pc \in ClosePc, thr'[t] = CloseReturned(t)
  PROVE  /\ LivesGoOn(t) /\ DomainsKept' /\ RefcountExact'
         /\ \A d \in Domain : life'[d] = "absent" <=> life[d] = "absent"
         /\ \A d \in Domain : life[d] = "dying" => life'[d] = "dying"
<1>1. \A e \in Domain : t \notin Holders(e)'
  BY DEF CloseReturned, Holders, At, Idle, ClosePc
<1>2. CASE thr[t].d2 = None
  <2>1. \A e \in Domain : t \notin Holders(e)
    BY <1>2, NoneAssumption DEF Holders
  <2>2. UNCHANGED doms
    BY <1>2 DEF CloseOut
  <2>3. LivesGoOn(t) /\ DomainsKept' /\ RefcountExact'
    BY <1>1, <2>1, <2>2, DomsSame
  <2> QED BY <2>2, <2>3 DEF doms
<1>3. CASE thr[t].d2 # None
  <2>0. PICK d : d = thr[t].d2
    OBVIOUS
  <2>1. d \in Domain /\ t \in Holders(d)
    BY <1>3, <2>0, ThreadFacts DEF LinkInv, Holders
  <2>2. /\ refcnt' = [refcnt EXCEPT ![d] = refcnt[d] - 1]
        /\ life' = [life EXCEPT ![d] = IF refcnt[d] = 1 THEN "destroyed"
                                       ELSE life[d]]
    BY <1>3, <2>0 DEF CloseOut, put_domain
  <2>3. /\ refcnt'[d] = refcnt[d] - 1
        /\ life'[d] = IF refcnt[d] = 1 THEN "destroyed" ELSE life[d]
        /\ \A e \in Domain : e # d => life'[e] = life[e] /\ refcnt'[e] = refcnt[e]
    BY <2>1, <2>2 DEF LinkInv, TypeOK
  <2>4. /\ Cardinality(Holders(d)) \in Nat \ {0}
        /\ Cardinality(Holders(d)') = Cardinality(Holders(d)) - 1
        /\ \A e \in Domain : e # d => Holders(e)' = Holders(e)
    BY <1>1, <2>1, HolderLeaves
  <2>5. refcnt[d] = Cardinality(Holders(d))
                    + IF life[d] \in {"alive", "dying"} THEN 1 ELSE 0
    BY <2>1 DEF LinkInv, RefcountExact
  <2>6. /\ life[d] \in {"alive", "dying"} => refcnt[d] # 1
        /\ life[d] \notin {"absent", "destroyed"}
    <3>1. refcnt[d] # 0
      BY <2>4, <2>5
    <3> QED BY <2>1, <2>4, <2>5, <3>1 DEF LinkInv, DomainsKept
  <2>7. /\ life'[d] = "absent" <=> life[d] = "absent"
        /\ life'[d] = "alive" <=> life[d] = "alive"
        /\ life'[d] = "dying" <=> life[d] = "dying"
    BY <2>3, <2>6
  <2>8. LivesGoOn(t)
    BY <2>3, <2>7 DEF LivesGoOn
  <2>9. DomainsKept'
    <3>1. life'[Dom0] = "alive"
      BY <2>3, <2>7, DomainAssumption DEF LinkInv, DomainsKept
    <3>2. life'[d] \in {"absent", "destroyed"} => refcnt'[d] = 0
      BY <2>3, <2>6
    <3> QED BY <2>3, <3>1, <3>2 DEF LinkInv, DomainsKept
  <2>10. RefcountExact'
    <3>1. refcnt'[d] = Cardinality(Holders(d)')
                       + IF life'[d] \in {"alive", "dying"} THEN 1 ELSE 0
      BY <2>3, <2>4, <2>5, <2>7
    <3>2. ASSUME NEW e \in Domain, e # d
          PROVE  refcnt'[e] = Cardinality(Holders(e)')
                       + IF life'[e] \in {"alive", "dying"} THEN 1 ELSE 0
      BY <2>3, <2>4, <3>2 DEF LinkInv, RefcountExact
    <3> QED BY <3>1, <3>2 DEF RefcountExact
  <2> QED BY <2>3, <2>7, <2>8, <2>9, <2>10
<1> QED BY <1>2, <1>3

\* The end of __evtchn_close, whatever it found.  When evtchn_destroy called
\* it, the port is closed.
LEMMA CloseOutStep ==
  ASSUME LinkInv, TypeOK', NEW t \in Thread, CloseOut(t), Tables(t),
         thr[t].pc \in {"close", "close_virq", "close_higher"},
         thr[t].caller = "destroy" /\ thr[t].p \in Port =>
           evtchn'[thr[t].d][thr[t].p].state \in {"FREE", "RESERVED"}
  PROVE  Step(t)
<1> DEFINE d == thr[t].d
           p == thr[t].p
<1>1. /\ thr'[t] = CloseReturned(t) /\ d \in Domain /\ p \in Nat
      /\ \A u \in Thread : u # t => thr'[u] = thr[u]
  BY ThreadFacts DEF CloseOut, LinkInv, TypeOK
<1>2. \A e \in Domain : event_lock'[e] = IF event_lock[e] = t THEN None
                                         ELSE event_lock[e]
  BY DEF CloseOut, Release
<1>3. Frame(t) /\ \A e \in Domain : event_lock'[e] # t
  BY <1>1, <1>2, NoneAssumption DEF Frame
<1>4. /\ LivesGoOn(t) /\ DomainsKept' /\ RefcountExact'
      /\ \A e \in Domain : life'[e] = "absent" <=> life[e] = "absent"
      /\ \A e \in Domain : life[e] = "dying" => life'[e] = "dying"
  BY <1>1, <1>3, CloseOutDoms DEF ClosePc
<1>5. /\ thr[t].caller = "destroy" =>
           /\ thr'[t].pc = "destroy_next" /\ thr'[t].caller = "destroy"
           /\ thr'[t].d = d /\ thr'[t].p = p + 1 /\ thr'[t].d2 = None
      /\ thr[t].caller # "destroy" =>
           /\ thr'[t].pc \in {"reset_next", "idle"} /\ thr'[t].caller # "destroy"
           /\ thr'[t].d \in {d, None} /\ thr'[t].d2 = None
  BY <1>1 DEF CloseReturned, At, Idle
<1>6. DestroyStep(t)
  BY <1>5, SameDestroyer
<1>7. life[d] # "absent"
  BY <1>1, NoneAssumption DEF LinkInv, ThreadInv, WorksOn
<1>8. ThreadInv(t)'
  <2>1. CASE thr[t].caller # "destroy"
    BY <1>1, <1>3, <1>4, <1>5, <1>7, <2>1, QuietThread
  <2>2. CASE thr[t].caller = "destroy"
    <3>1. HoldsLocks(t)' /\ KnowsChannel(t)'
      BY <1>3, <1>5, <2>2 DEF HoldsLocks, KnowsChannel
    <3>2. life[d] = "dying" /\ life'[d] = "dying"
      BY <1>1, <1>4, <2>2 DEF LinkInv, ThreadInv, DestroyShape
    <3>3. WorksOn(t)' /\ DestroyShape(t)' /\ DestroyCloses(t)'
      BY <1>5, <2>2, <3>2 DEF WorksOn, DestroyShape, DestroyCloses, ClosePc
    <3>4. Closing(d)
      BY <2>2, <3>2 DEF Closing, AtBarrier, LinkInv, OneDestroyer, ThreadInv,
                        DestroyShape
    <3>5. \A q \in Port : q < p =>
            evtchn'[d][q].state \in {"FREE", "RESERVED"}
      BY <1>1, <2>2, <3>2, <3>4
         DEF Tables, ClosingShrinks, State, LinkInv, ThreadInv, DestroyPassed
    <3>6. \A q \in Port : q < p + 1 =>
            evtchn'[d][q].state \in {"FREE", "RESERVED"}
      BY <1>1, <2>2, <3>5, PortFacts
    <3>7. DestroyPassed(t)'
      BY <1>5, <2>2, <3>6 DEF DestroyPassed, State
    <3> QED BY <3>1, <3>3, <3>7 DEF ThreadInv
  <2> QED BY <2>1, <2>2
<1>9. Moves(t)
  BY <1>5 DEF Moves
<1> QED BY <1>3, <1>4, <1>6, <1>8, <1>9 DEF Step

-----------------------------------------------------------------------------
(* The steps of __evtchn_close.                                            *)

\* A link leads to a domain that is alive or being destroyed.
LEMMA LinkedAlive ==
  ASSUME LinkInv, NEW d \in Domain, NEW p \in Port,
         State(d, p) = "INTERDOMAIN"
  PROVE  /\ evtchn[d][p].dom \in Domain
         /\ life[evtchn[d][p].dom] \in {"alive", "dying"}
<1>1. PICK d2, p2 : d2 = evtchn[d][p].dom /\ p2 = evtchn[d][p].port
  OBVIOUS
<1>2. d2 \in Domain /\ p2 \in Port /\ State(d2, p2) = "INTERDOMAIN"
  BY <1>1 DEF LinkInv, LinksSymmetric
<1>3. ~Empty(d2)
  BY <1>2 DEF Empty
<1>4. CASE life[d2] # "alive"
  <2>1. PICK u \in Thread : Destroys(u, d2)
    BY <1>2, <1>3, <1>4 DEF LinkInv, GoneIsEmpty
  <2>2. life[d2] = "dying"
    BY <2>1 DEF LinkInv, ThreadInv, DestroyShape, Destroys
  <2> QED BY <1>1, <1>2, <2>2
<1> QED BY <1>1, <1>2, <1>4

LEMMA StepCloseFails ==
  ASSUME LinkInv, TypeOK', NEW t \in Thread, CloseFails(t)
  PROVE  Step(t)
<1>1. Tables(t)
  BY TablesSame DEF CloseFails
<1>2. ASSUME thr[t].caller = "destroy", thr[t].p \in Port
      PROVE  evtchn'[thr[t].d][thr[t].p].state \in {"FREE", "RESERVED"}
  <2>1. thr[t].d \in Domain /\ thr[t].pc = "close"
    BY ThreadFacts DEF CloseFails, LinkInv
  <2>2. State(thr[t].d, thr[t].p) \in {"FREE", "RESERVED"}
    BY <1>2, <2>1 DEF CloseFails, CloseRefused, LinkInv, TailFree, ThreadInv,
                      DestroyCloses, ClosePc, State
  <2> QED BY <2>2 DEF CloseFails, tables, State
<1> QED BY <1>1, <1>2, CloseOutStep DEF CloseFails

LEMMA StepCloseLocal ==
  ASSUME LinkInv, TypeOK', NEW t \in Thread, CloseLocal(t)
  PROVE  Step(t)
<1>1. PICK d, p : d = thr[t].d /\ p = thr[t].p
  OBVIOUS
<1>2. /\ d \in Domain /\ p \in Port /\ event_lock[d] = None
      /\ State(d, p) # "INTERDOMAIN" /\ FreeChannel(d, p)
      /\ UNCHANGED nr_ports /\ CloseOut(t) /\ thr[t].pc = "close"
  BY <1>1, ThreadFacts, ValidPort DEF CloseLocal, CloseRefused, LinkInv
<1>3. Tables(t)
  BY <1>2, TablesFree DEF Mine
<1>4. evtchn'[d][p].state = "FREE"
  BY <1>2 DEF FreeChannel, FreedChan, Channel, LinkInv, TypeOK
<1> QED BY <1>1, <1>2, <1>3, <1>4, CloseOutStep

LEMMA StepCloseVirqDone ==
  ASSUME LinkInv, TypeOK', NEW t \in Thread, CloseVirqDone(t)
  PROVE  Step(t)
<1>1. PICK d, p : d = thr[t].d /\ p = thr[t].p
  OBVIOUS
<1>2. /\ d \in Domain /\ p \in Port /\ FreeChannel(d, p)
      /\ UNCHANGED nr_ports /\ CloseOut(t) /\ thr[t].pc = "close_virq"
  BY <1>1, ThreadFacts DEF CloseVirqDone, LinkInv
<1>3. event_lock[d] = t /\ State(d, p) # "INTERDOMAIN"
  BY <1>1, <1>2 DEF LinkInv, ThreadInv, HoldsLocks, KnowsChannel
<1>4. Tables(t)
  BY <1>2, <1>3, TablesFree DEF Mine
<1>5. evtchn'[d][p].state = "FREE"
  BY <1>2 DEF FreeChannel, FreedChan, Channel, LinkInv, TypeOK
<1> QED BY <1>1, <1>2, <1>4, <1>5, CloseOutStep

\* The closed end of a link is free.
LEMMA UnlinkFrees ==
  ASSUME LinkInv, NEW d \in Domain, NEW p \in Port, UnlinkChannel(d, p),
         State(d, p) = "INTERDOMAIN"
  PROVE  evtchn'[d][p].state = "FREE"
<1>1. PICK d2, p2, c1, c2 :
        /\ d2 = evtchn[d][p].dom /\ p2 = evtchn[d][p].port
        /\ c1 = FreedChan(evtchn[d][p])
        /\ c2 = UnboundChan(evtchn[d2][p2], d)
  OBVIOUS
<1>2. d2 \in Domain /\ p2 \in Port
  BY <1>1 DEF LinkInv, LinksSymmetric
<1>3. evtchn' = [evtchn EXCEPT ![d2][p2] = c2, ![d][p] = c1]
  BY <1>1 DEF UnlinkChannel
<1>4. c1.state = "FREE"
  BY <1>1 DEF FreedChan, Channel
<1>5. evtchn'[d][p] = c1
  BY <1>2, <1>3 DEF LinkInv, TypeOK
<1> QED BY <1>4, <1>5

LEMMA StepCloseLinked ==
  ASSUME LinkInv, TypeOK', NEW t \in Thread, CloseLinked(t)
  PROVE  Step(t)
<1>1. PICK d, p : d = thr[t].d /\ p = thr[t].p
  OBVIOUS
<1>2. /\ d \in Domain /\ p \in Port /\ event_lock[d] = None
      /\ State(d, p) = "INTERDOMAIN" /\ UnlinkChannel(d, p)
      /\ UNCHANGED nr_ports /\ CloseOut(t) /\ thr[t].pc = "close"
      /\ \/ evtchn[d][p].dom = d
         \/ thr[t].d2 # None /\ thr[t].d2 = evtchn[d][p].dom
  <2>1. /\ event_lock[d] = None /\ State(d, p) = "INTERDOMAIN"
        /\ UnlinkChannel(d, p) /\ UNCHANGED nr_ports /\ CloseOut(t)
        /\ thr[t].pc = "close" /\ ~CloseRefused(t)
        /\ thr[t].d2 # None \/ evtchn[d][p].dom = d
    BY <1>1 DEF CloseLinked
  <2>2. port_is_valid(d, p) /\ thr[t].d2 \in {None, evtchn[d][p].dom}
    BY <1>1, <2>1 DEF CloseRefused
  <2>3. d \in Domain /\ p \in Port
    BY <1>1, <2>1, <2>2, ThreadFacts, ValidPort DEF LinkInv
  <2>4. \/ evtchn[d][p].dom = d
        \/ thr[t].d2 # None /\ thr[t].d2 = evtchn[d][p].dom
    BY <2>1, <2>2
  <2> QED BY <2>1, <2>3, <2>4, Zenon
<1>3. Mine(t, d) /\ Mine(t, evtchn[d][p].dom)
  BY <1>2 DEF Mine, LinkInv, ThreadInv, HoldsLocks
<1>4. Tables(t)
  BY <1>2, <1>3, TablesUnlink
<1>5. evtchn'[d][p].state = "FREE"
  BY <1>2, UnlinkFrees
<1> QED BY <1>1, <1>2, <1>4, <1>5, CloseOutStep

LEMMA StepCloseHigher ==
  ASSUME LinkInv, TypeOK', NEW t \in Thread, CloseHigher(t)
  PROVE  Step(t)
<1>1. PICK d, p : d = thr[t].d /\ p = thr[t].p
  OBVIOUS
<1>2. /\ d \in Domain /\ p \in Port /\ UnlinkChannel(d, p)
      /\ UNCHANGED nr_ports /\ CloseOut(t) /\ thr[t].pc = "close_higher"
      /\ event_lock[thr[t].d2] = None
  BY <1>1, ThreadFacts DEF CloseHigher, LinkInv
<1>3. /\ State(d, p) = "INTERDOMAIN" /\ Mine(t, d)
      /\ Mine(t, evtchn[d][p].dom)
  BY <1>1, <1>2 DEF Mine, LinkInv, ThreadInv, HoldsLocks, KnowsChannel
<1>4. Tables(t)
  BY <1>2, <1>3, TablesUnlink
<1>5. evtchn'[d][p].state = "FREE"
  BY <1>2, <1>3, UnlinkFrees
<1> QED BY <1>1, <1>2, <1>4, <1>5, CloseOutStep

\* CPU t goes on inside __evtchn_close; the tables and the lives stay.
LEMMA CloseGoesOn ==
  ASSUME LinkInv, TypeOK', NEW t \in Thread, UNCHANGED <<evtchn, nr_ports, life>>,
         thr[t].pc \in ClosePc, thr'[t].pc \in ClosePc,
         thr'[t].caller = thr[t].caller, thr'[t].d = thr[t].d,
         thr'[t].p = thr[t].p, HoldsLocks(t)', KnowsChannel(t)',
         thr'[t].d2 = thr[t].d2
           \/ thr'[t].d2 = evtchn[thr[t].d][thr[t].p].dom
  PROVE  ThreadInv(t)' /\ DestroyStep(t) /\ Tables(t) /\ Moves(t)
<1>1. WorksOn(t)'
  BY DEF LinkInv, ThreadInv, WorksOn, ClosePc
<1>2. DestroyShape(t)' /\ DestroyPassed(t)'
  BY DEF LinkInv, ThreadInv, DestroyShape, DestroyPassed, ClosePc, State
<1>3. DestroyCloses(t)'
  BY DEF LinkInv, ThreadInv, DestroyCloses
<1>4. DestroyStep(t)
  BY SameDestroyer DEF ClosePc
<1>5. Tables(t) /\ Moves(t)
  BY TablesSame DEF Moves, tables
<1> QED BY <1>1, <1>2, <1>3, <1>4, <1>5 DEF ThreadInv

LEMMA StepCloseVirq ==
  ASSUME LinkInv, TypeOK', NEW t \in Thread, CloseVirq(t)
  PROVE  Step(t)
<1>1. PICK d, s : d = thr[t].d /\ s = Goto(t, "close_virq")
  OBVIOUS
<1>2. /\ d \in Domain /\ event_lock[d] = None /\ thr[t].pc = "close"
      /\ State(d, thr[t].p) = "VIRQ" /\ UNCHANGED <<tables, doms>>
      /\ event_lock' = [event_lock EXCEPT ![d] = t]
      /\ thr' = [thr EXCEPT ![t] = s]
  BY <1>1, ThreadFacts DEF CloseVirq, LinkInv
<1>3. /\ Frame(t) /\ thr'[t] = s /\ event_lock'[d] = t
      /\ \A e \in Domain : e # d => event_lock'[e] = event_lock[e]
  <2>1. thr'[t] = s /\ \A u \in Thread : u # t => thr'[u] = thr[u]
    BY <1>2 DEF LinkInv, TypeOK
  <2>2. /\ event_lock'[d] = t
        /\ \A e \in Domain : e # d => event_lock'[e] = event_lock[e]
    BY <1>2 DEF LinkInv, TypeOK
  <2>3. \A u \in Thread \ {t} : event_lock[d] # u /\ event_lock'[d] # u
    BY <1>2, <2>2, NoneAssumption
  <2> QED BY <2>1, <2>2, <2>3 DEF Frame
<1>4. /\ s.pc = "close_virq" /\ s.caller = thr[t].caller /\ s.d = d
      /\ s.p = thr[t].p /\ s.d2 = thr[t].d2
  BY <1>1 DEF Goto, At
<1>5. HoldsLocks(t)'
  BY <1>1, <1>2, <1>3, <1>4 DEF LinkInv, ThreadInv, HoldsLocks
<1>6. KnowsChannel(t)'
  BY <1>2, <1>3, <1>4 DEF KnowsChannel, State, tables
<1>7. ThreadInv(t)' /\ DestroyStep(t) /\ Tables(t) /\ Moves(t)
  BY <1>1, <1>2, <1>3, <1>4, <1>5, <1>6, CloseGoesOn DEF ClosePc, tables, doms
<1>8. LivesGoOn(t) /\ DomainsKept' /\ RefcountExact'
  BY <1>2, <1>3, <1>4, DomsSame DEF Holders, ClosePc
<1> QED BY <1>3, <1>7, <1>8 DEF Step

LEMMA StepCloseVirqVcpu ==
  ASSUME LinkInv, TypeOK', NEW t \in Thread, CloseVirqVcpu(t)
  PROVE  Step(t)
<1>1. PICK v \in Vcpu :
        thr' = [thr EXCEPT ![t] =
                  At("close_virq", thr[t].caller, thr[t].cur, thr[t].d, thr[t].p,
                     thr[t].d2, v, None)]
  BY DEF CloseVirqVcpu, VirqUsers
<1>2. PICK s : s = At("close_virq", thr[t].caller, thr[t].cur, thr[t].d,
                      thr[t].p, thr[t].d2, v, None)
  OBVIOUS
<1>3. /\ UNCHANGED <<tables, event_lock, doms>> /\ thr[t].pc = "close_virq"
      /\ thr' = [thr EXCEPT ![t] = s]
  BY <1>1, <1>2 DEF CloseVirqVcpu, locks
<1>4. Frame(t) /\ thr'[t] = s
  BY <1>3, FrameGo DEF LinkInv
<1>5. /\ s.pc = "close_virq" /\ s.caller = thr[t].caller /\ s.d = thr[t].d
      /\ s.p = thr[t].p /\ s.d2 = thr[t].d2
  BY <1>2 DEF At
<1>6. HoldsLocks(t)' /\ KnowsChannel(t)'
  BY <1>3, <1>4, <1>5
     DEF LinkInv, ThreadInv, HoldsLocks, KnowsChannel, State, tables
<1>7. ThreadInv(t)' /\ DestroyStep(t) /\ Tables(t) /\ Moves(t)
  BY <1>3, <1>4, <1>5, <1>6, CloseGoesOn DEF ClosePc, tables, doms
<1>8. LivesGoOn(t) /\ DomainsKept' /\ RefcountExact'
  BY <1>3, <1>4, <1>5, DomsSame DEF Holders, ClosePc
<1> QED BY <1>4, <1>7, <1>8 DEF Step

LEMMA StepCloseLower ==
  ASSUME LinkInv, TypeOK', NEW t \in Thread, CloseLower(t)
  PROVE  Step(t)
<1>1. PICK d2, s : d2 = thr[t].d2 /\ s = Goto(t, "close")
  OBVIOUS
<1>2. /\ d2 \in Domain /\ event_lock[d2] = None /\ thr[t].pc = "close_lower"
      /\ UNCHANGED <<tables, doms>>
      /\ event_lock' = [event_lock EXCEPT ![d2] = t]
      /\ thr' = [thr EXCEPT ![t] = s]
  BY <1>1, ThreadFacts DEF CloseLower, LinkInv
<1>3. /\ Frame(t) /\ thr'[t] = s /\ event_lock'[d2] = t
      /\ \A e \in Domain : e # d2 => event_lock'[e] = event_lock[e]
  BY <1>2, FrameLock DEF Mine, LinkInv
<1>4. /\ s.pc = "close" /\ s.caller = thr[t].caller /\ s.d = thr[t].d
      /\ s.p = thr[t].p /\ s.d2 = d2
  BY <1>1 DEF Goto, At
<1>5. HoldsLocks(t)'
  BY <1>2, <1>3, <1>4 DEF LinkInv, ThreadInv, HoldsLocks
<1>6. KnowsChannel(t)'
  BY <1>3, <1>4 DEF KnowsChannel
<1>7. ThreadInv(t)' /\ DestroyStep(t) /\ Tables(t) /\ Moves(t)
  BY <1>1, <1>2, <1>3, <1>4, <1>5, <1>6, CloseGoesOn DEF ClosePc, tables, doms
<1>8. LivesGoOn(t) /\ DomainsKept' /\ RefcountExact'
  BY <1>1, <1>2, <1>3, <1>4, DomsSame DEF Holders, ClosePc
<1> QED BY <1>3, <1>7, <1>8 DEF Step

\* get_domain: CPU t takes a reference to a domain that has not been destroyed.
LEMMA StepCloseGetRemote ==
  ASSUME LinkInv, TypeOK', NEW t \in Thread, CloseGetRemote(t)
  PROVE  Step(t)
<1>1. PICK d, p, d2 : d = thr[t].d /\ p = thr[t].p /\ d2 = evtchn[d][p].dom
  OBVIOUS
<1>2. /\ d \in Domain /\ p \in Port /\ event_lock[d] = None
      /\ State(d, p) = "INTERDOMAIN" /\ thr[t].pc = "close" /\ d2 # d
      /\ thr[t].d2 = None /\ UNCHANGED <<tables, life>>
      /\ refcnt' = [refcnt EXCEPT ![d2] = refcnt[d2] + 1]
  BY <1>1, ThreadFacts, ValidPort DEF CloseGetRemote, CloseRefused, LinkInv
<1>3. d2 \in Domain /\ life[d2] \in {"alive", "dying"}
  BY <1>1, <1>2, LinkedAlive
<1>4. PICK pc \in {"close_higher", "close_lower"} :
        /\ thr' = [thr EXCEPT ![t] = At(pc, thr[t].caller, thr[t].cur, d, p, d2,
                                        None, None)]
        /\ pc = "close_higher" => event_lock' = [event_lock EXCEPT ![d] = t]
        /\ pc = "close_lower" => UNCHANGED event_lock
  BY <1>1 DEF CloseGetRemote
<1>5. PICK s : /\ s = At(pc, thr[t].caller, thr[t].cur, d, p, d2, None, None)
               /\ thr' = [thr EXCEPT ![t] = s]
  BY <1>4
<1>6. /\ s.pc = pc /\ s.caller = thr[t].caller /\ s.d = d /\ s.p = p /\ s.d2 = d2
  BY <1>5 DEF At
<1>7. /\ Frame(t) /\ thr'[t] = s
      /\ pc = "close_higher" => event_lock'[d] = t
      /\ \A e \in Domain : \/ event_lock'[e] = event_lock[e]
                           \/ e = d /\ pc = "close_higher"
  <2>1. CASE pc = "close_higher"
    <3>1. /\ event_lock' = [event_lock EXCEPT ![d] = t] /\ event_lock[d] = None
          /\ d \in Domain /\ thr' = [thr EXCEPT ![t] = s] /\ TypeOK
      BY <1>2, <1>4, <1>5, <2>1 DEF LinkInv
    <3>2. /\ Frame(t) /\ thr'[t] = s /\ event_lock'[d] = t
          /\ \A e \in Domain : e # d => event_lock'[e] = event_lock[e]
      BY <3>1, FrameLock DEF Mine
    <3> QED BY <2>1, <3>2
  <2>2. CASE pc = "close_lower"
    <3>1. UNCHANGED event_lock
      BY <1>4, <2>2
    <3>2. Frame(t) /\ thr'[t] = s
      BY <1>5, <3>1, FrameGo DEF LinkInv
    <3> QED BY <2>2, <3>1, <3>2
  <2> QED BY <2>1, <2>2
<1>8. \A e \in Domain : event_lock[e] # t
  BY <1>2, NoneAssumption DEF LinkInv, ThreadInv, HoldsLocks
<1>9. HoldsLocks(t)'
  BY <1>6, <1>7, <1>8 DEF HoldsLocks
<1>10. KnowsChannel(t)'
  BY <1>1, <1>2, <1>6, <1>7 DEF KnowsChannel, State, tables
<1>11. ThreadInv(t)' /\ DestroyStep(t) /\ Tables(t) /\ Moves(t)
  BY <1>1, <1>2, <1>6, <1>7, <1>9, <1>10, CloseGoesOn DEF ClosePc, tables
<1>12. LivesGoOn(t) /\ DomainsKept'
  BY <1>2, <1>3 DEF LivesGoOn, LinkInv, DomainsKept, TypeOK
<1>13. RefcountExact'
  <2>1. \A e \in Domain : t \notin Holders(e)
    BY <1>2, NoneAssumption DEF Holders
  <2>2. Holders(d2)' = Holders(d2) \cup {t}
    BY <1>6, <1>7 DEF Frame, Holders, ClosePc
  <2>3. \A e \in Domain : e # d2 => Holders(e)' = Holders(e)
    BY <1>6, <1>7, <2>1 DEF Frame, Holders, ClosePc
  <2>4. IsFiniteSet(Holders(d2))
    BY ThreadAssumption, FS_Subset DEF Holders
  <2>5. /\ Cardinality(Holders(d2)) \in Nat
        /\ Cardinality(Holders(d2)') = Cardinality(Holders(d2)) + 1
    BY <1>3, <2>1, <2>2, <2>4, FS_AddElement, FS_CardinalityType
  <2>6. /\ refcnt'[d2] = refcnt[d2] + 1
        /\ \A e \in Domain : e # d2 => refcnt'[e] = refcnt[e]
    BY <1>2, <1>3 DEF LinkInv, TypeOK
  <2>7. /\ refcnt[d2] = Cardinality(Holders(d2))
                    + IF life[d2] \in {"alive", "dying"} THEN 1 ELSE 0
        /\ \A e \in Domain : refcnt[e] = Cardinality(Holders(e))
                    + IF life[e] \in {"alive", "dying"} THEN 1 ELSE 0
    BY <1>3 DEF LinkInv, RefcountExact
  <2>8. refcnt'[d2] = Cardinality(Holders(d2)')
                      + IF life[d2] \in {"alive", "dying"} THEN 1 ELSE 0
    BY <1>3, <2>5, <2>6, <2>7
  <2>9. ASSUME NEW e \in Domain
        PROVE  refcnt'[e] = Cardinality(Holders(e)')
                      + IF life'[e] \in {"alive", "dying"} THEN 1 ELSE 0
    BY <1>2, <2>3, <2>6, <2>7, <2>8
  <2> QED BY <2>9 DEF RefcountExact
<1> QED BY <1>7, <1>11, <1>12, <1>13 DEF Step

-----------------------------------------------------------------------------
(* Allocating and binding.                                                 *)

\* The lock under which CPU t allocates or begins to bind.
LEMMA ReleaseStep ==
  ASSUME LinkInv, TypeOK', NEW t \in Thread, NEW s, NEW d \in Domain,
         \/ thr[t].pc = "alloc" /\ d = thr[t].d
         \/ thr[t].pc = "bind" /\ d = FirstLock(thr[t].d, thr[t].d2),
         thr' = [thr EXCEPT ![t] = s], UNCHANGED doms, Tables(t),
         event_lock' = [event_lock EXCEPT ![d] = None],
         s.caller # "destroy", s.pc \in {"idle", "free_xen"}, s.d2 = None,
         s.d = None \/ s.d = thr[t].d
  PROVE  Step(t)
<1>1. /\ event_lock[d] = t /\ thr[t].caller # "destroy"
      /\ \A e \in Domain : e # d => event_lock[e] # t
  BY DEF LinkInv, ThreadInv, HoldsLocks, DestroyShape, ClosePc
<1>2. /\ Frame(t) /\ thr'[t] = s /\ event_lock'[d] = None
      /\ \A e \in Domain : e # d => event_lock'[e] = event_lock[e]
  <2>1. TypeOK /\ Mine(t, d)
    BY <1>1 DEF Mine, LinkInv
  <2> QED BY <2>1, FrameLock, ZenonT(30)
<1>3. \A e \in Domain : event_lock'[e] # t
  BY <1>1, <1>2, NoneAssumption
<1>4. s.d # None => life'[s.d] # "absent"
  BY DEF LinkInv, ThreadInv, WorksOn, doms
<1>5. ThreadInv(t)'
  BY <1>2, <1>3, <1>4, QuietThread
<1>6. LivesGoOn(t) /\ DomainsKept' /\ RefcountExact'
  BY <1>2, DomsSame DEF Holders, ClosePc
<1>7. DestroyStep(t)
  BY <1>1, <1>2, SameDestroyer
<1>8. Moves(t)
  BY <1>2 DEF Moves
<1> QED BY <1>2, <1>5, <1>6, <1>7, <1>8 DEF Step

\* The port that CPU t has found free becomes UNBOUND.
LEMMA TablesAlloc ==
  ASSUME LinkInv, NEW t \in Thread, NEW d, NEW p, NEW c, thr[t].pc = "alloc",
         d = thr[t].d, p = thr[t].p, c.state = "UNBOUND",
         evtchn' = [evtchn EXCEPT ![d][p] = c], UNCHANGED nr_ports
  PROVE  Tables(t) /\ d \in Domain
<1>1. d \in Domain /\ p \in Port
  BY ThreadFacts DEF LinkInv
<1>2. /\ Mine(t, d) /\ ~Closing(d) /\ State(d, p) = "FREE"
      /\ p < nr_ports[d]
  BY DEF LinkInv, ThreadInv, HoldsLocks, KnowsChannel, WorksOn, Mine,
         port_is_valid
<1>3. PICK n : n = nr_ports[d]
  OBVIOUS
<1>4. n \in Nat /\ n >= nr_ports[d] /\ nr_ports' = [nr_ports EXCEPT ![d] = n]
  BY <1>1, <1>3 DEF LinkInv, TypeOK, BucketEnds
<1> QED BY <1>1, <1>2, <1>3, <1>4, TablesTake

LEMMA StepAllocUnbound ==
  ASSUME LinkInv, TypeOK', NEW t \in Thread, AllocUnbound(t)
  PROVE  Step(t)
<1>1. PICK d, p, c : /\ d = thr[t].d /\ p = thr[t].p
                     /\ c = UnboundChan(evtchn[d][p], thr[t].d2)
  OBVIOUS
<1>2. /\ thr[t].pc = "alloc" /\ evtchn' = [evtchn EXCEPT ![d][p] = c]
      /\ event_lock' = [event_lock EXCEPT ![d] = None]
      /\ thr' = [thr EXCEPT ![t] = Idle] /\ UNCHANGED <<nr_ports, doms>>
  BY <1>1 DEF AllocUnbound
<1>3. c.state = "UNBOUND"
  BY <1>1 DEF UnboundChan, Channel
<1>4. Tables(t) /\ d \in Domain
  BY <1>1, <1>2, <1>3, TablesAlloc
<1>5. /\ Idle.pc = "idle" /\ Idle.caller # "destroy" /\ Idle.d2 = None
      /\ Idle.d = None
  BY DEF Idle, At
<1> QED BY <1>1, <1>2, <1>4, <1>5, ReleaseStep

LEMMA StepAllocUnboundXen ==
  ASSUME LinkInv, TypeOK', NEW t \in Thread, AllocUnboundXen(t)
  PROVE  Step(t)
<1>1. PICK d, p, c : /\ d = thr[t].d /\ p = thr[t].p
                     /\ c = Channel("UNBOUND", thr[t].d2, None, None, thr[t].v,
                                    TRUE)
  OBVIOUS
<1>2. PICK s : s = IF xen_port[d][thr[t].v] = 0 THEN Idle
                   ELSE At("free_xen", "xen", thr[t].cur, d,
                           xen_port[d][thr[t].v], None, None, None)
  OBVIOUS
<1>3. /\ thr[t].pc = "alloc" /\ evtchn' = [evtchn EXCEPT ![d][p] = c]
      /\ event_lock' = [event_lock EXCEPT ![d] = None]
      /\ thr' = [thr EXCEPT ![t] = s] /\ UNCHANGED <<nr_ports, doms>>
  BY <1>1, <1>2 DEF AllocUnboundXen
<1>4. c.state = "UNBOUND"
  BY <1>1 DEF Channel
<1>5. Tables(t) /\ d \in Domain
  BY <1>1, <1>3, <1>4, TablesAlloc
<1>6. /\ s.pc \in {"idle", "free_xen"} /\ s.caller # "destroy" /\ s.d2 = None
      /\ s.d = None \/ s.d = d
  BY <1>2 DEF Idle, At
<1> QED BY <1>1, <1>3, <1>5, <1>6, ReleaseStep

LEMMA StepBindInterdomain ==
  ASSUME LinkInv, TypeOK', NEW t \in Thread, BindInterdomain(t)
  PROVE  Step(t)
<1>1. PICK ld, rd : ld = thr[t].d /\ rd = thr[t].d2
  OBVIOUS
<1>2. /\ thr[t].pc = "bind" /\ event_lock[SecondLock(ld, rd)] = None
      /\ LinkChannels(ld, rd, thr[t].p)
      /\ event_lock' = [event_lock EXCEPT ![FirstLock(ld, rd)] = None]
      /\ thr' = [thr EXCEPT ![t] = Idle] /\ UNCHANGED doms
  BY <1>1 DEF BindInterdomain
<1>3. ld \in Domain /\ rd \in Domain /\ thr[t].p \in Nat
  BY <1>1, <1>2, ThreadFacts DEF LinkInv
<1>4. event_lock[FirstLock(ld, rd)] = t
  BY <1>1, <1>2 DEF LinkInv, ThreadInv, HoldsLocks
<1>5. FirstLock(ld, rd) \in Domain /\ Mine(t, ld) /\ Mine(t, rd)
  BY <1>2, <1>3, <1>4 DEF FirstLock, SecondLock, Mine
<1>6. Tables(t)
  BY <1>2, <1>3, <1>5, TablesBind
<1>7. /\ Idle.pc = "idle" /\ Idle.caller # "destroy" /\ Idle.d2 = None
      /\ Idle.d = None
  BY DEF Idle, At
<1> QED BY <1>1, <1>2, <1>5, <1>6, <1>7, ReleaseStep

\* A CPU that is idle holds nothing.
LEMMA IdleFacts ==
  ASSUME LinkInv, NEW t \in Thread, thr[t].pc = "idle"
  PROVE  /\ thr[t].caller # "destroy"
         /\ \A d \in Domain : event_lock[d] # t /\ t \notin Holders(d)
BY DEF LinkInv, ThreadInv, HoldsLocks, DestroyShape, Holders, ClosePc

\* evtchn_alloc_unbound and alloc_unbound_xen_event_channel have got a port.
LEMMA AllocBegins ==
  ASSUME LinkInv, TypeOK', NEW t \in Thread, NEW d \in Domain, NEW p \in Port,
         NEW s, thr[t].pc = "idle", event_lock[d] = None, get_free_port(d, p),
         nr_ports' = Grown(d, p), thr' = [thr EXCEPT ![t] = s],
         s.pc = "alloc", s.caller # "destroy", s.d = d, s.p = p,
         event_lock' = [event_lock EXCEPT ![d] = t], UNCHANGED <<evtchn, doms>>
  PROVE  Step(t)
<1>1. State(d, p) = "FREE" /\ life[d] = "alive" /\ ~Closing(d)
  BY FreePort
<1>2. PICK n \in Nat : /\ n >= nr_ports[d] /\ p < n
                       /\ nr_ports' = [nr_ports EXCEPT ![d] = n]
  BY FreePort
<1>3. Tables(t)
  BY <1>1, <1>2, TablesGrow DEF Mine
<1>4. /\ Frame(t) /\ thr'[t] = s /\ event_lock'[d] = t
      /\ \A e \in Domain : e # d => event_lock'[e] = event_lock[e]
  <2>1. thr'[t] = s /\ \A u \in Thread : u # t => thr'[u] = thr[u]
    BY DEF LinkInv, TypeOK
  <2>2. /\ event_lock'[d] = t
        /\ \A e \in Domain : e # d => event_lock'[e] = event_lock[e]
    BY DEF LinkInv, TypeOK
  <2>3. \A u \in Thread \ {t} : event_lock[d] # u /\ event_lock'[d] # u
    BY <2>2, NoneAssumption
  <2> QED BY <2>1, <2>2, <2>3 DEF Frame
<1>5. /\ thr[t].caller # "destroy"
      /\ \A e \in Domain : event_lock[e] # t /\ t \notin Holders(e)
  BY IdleFacts
<1>6. HoldsLocks(t)'
  BY <1>4, <1>5 DEF HoldsLocks
<1>7. KnowsChannel(t)'
  <2>1. nr_ports'[d] = n
    BY <1>2 DEF LinkInv, TypeOK
  <2> QED BY <1>1, <1>2, <1>4, <2>1 DEF KnowsChannel, State, port_is_valid
<1>8. WorksOn(t)'
  BY <1>1, <1>4 DEF WorksOn, Closing, doms
<1>9. DestroyShape(t)' /\ DestroyCloses(t)' /\ DestroyPassed(t)'
  BY <1>4 DEF DestroyShape, DestroyCloses, DestroyPassed
<1>10. LivesGoOn(t) /\ DomainsKept' /\ RefcountExact'
  <2>1. \A e \in Domain : t \notin Holders(e)'
    BY <1>4 DEF Holders, ClosePc
  <2> QED BY <1>4, <1>5, <2>1, DomsSame
<1>11. DestroyStep(t)
  BY <1>4, <1>5, SameDestroyer
<1>12. Moves(t)
  BY <1>4 DEF Moves
<1> QED BY <1>3, <1>4, <1>6, <1>7, <1>8, <1>9, <1>10, <1>11, <1>12
        DEF Step, ThreadInv

LEMMA StepBindBegins ==
  ASSUME LinkInv, TypeOK', NEW t \in Thread, NEW ld \in Domain,
         NEW rd \in Domain, NEW p \in Port,
         evtchn_bind_interdomain(t, ld, rd, p)
  PROVE  Step(t)
<1>1. PICK d, s : d = FirstLock(ld, rd)
                  /\ s = At("bind", "none", ld, ld, p, rd, None, None)
  OBVIOUS
<1>2. /\ thr[t].pc = "idle" /\ life[ld] = "alive" /\ ld # rd
      /\ life[rd] # "absent" /\ event_lock[d] = None
      /\ event_lock' = [event_lock EXCEPT ![d] = t]
      /\ thr' = [thr EXCEPT ![t] = s] /\ UNCHANGED <<tables, doms>>
  BY <1>1 DEF evtchn_bind_interdomain, Runs
<1>3. d \in Domain
  BY <1>1 DEF FirstLock
<1>4. s.pc = "bind" /\ s.caller = "none" /\ s.d = ld /\ s.d2 = rd
  BY <1>1 DEF At
<1>5. /\ Frame(t) /\ thr'[t] = s /\ event_lock'[d] = t
      /\ \A e \in Domain : e # d => event_lock'[e] = event_lock[e]
  BY <1>2, <1>3, FrameLock DEF Mine, LinkInv
<1>6. /\ thr[t].caller # "destroy"
      /\ \A e \in Domain : event_lock[e] # t /\ t \notin Holders(e)
  BY <1>2, IdleFacts
<1>7. HoldsLocks(t)'
  BY <1>1, <1>4, <1>5, <1>6 DEF HoldsLocks, FirstLock
<1>8. KnowsChannel(t)' /\ WorksOn(t)'
  BY <1>2, <1>4, <1>5 DEF KnowsChannel, WorksOn, doms
<1>9. DestroyShape(t)' /\ DestroyCloses(t)' /\ DestroyPassed(t)'
  BY <1>4, <1>5 DEF DestroyShape, DestroyCloses, DestroyPassed
<1>10. LivesGoOn(t) /\ DomainsKept' /\ RefcountExact'
  <2>1. \A e \in Domain : t \notin Holders(e)'
    BY <1>4, <1>5 DEF Holders, ClosePc
  <2> QED BY <1>2, <1>5, <1>6, <2>1, DomsSame
<1>11. DestroyStep(t)
  BY <1>2, <1>4, <1>5, <1>6, SameDestroyer
<1>12. Tables(t) /\ Moves(t)
  BY <1>2, TablesSame DEF Moves, tables
<1> QED BY <1>5, <1>7, <1>8, <1>9, <1>10, <1>11, <1>12 DEF Step, ThreadInv

-----------------------------------------------------------------------------
(* The destruction of a domain.                                            *)

\* A destroyer that is between two ports, and holds no lock.
LEMMA DestroyerFacts ==
  ASSUME LinkInv, NEW t \in Thread,
         thr[t].pc \in {"destroy_barrier", "destroy_next"}
  PROVE  /\ thr[t].caller = "destroy" /\ thr[t].d2 = None
         /\ thr[t].d \in Domain /\ life[thr[t].d] = "dying"
         /\ \A e \in Domain : event_lock[e] # t /\ t \notin Holders(e)
BY ThreadFacts
   DEF LinkInv, ThreadInv, HoldsLocks, DestroyShape, Holders, ClosePc

LEMMA StepDomainKill ==
  ASSUME LinkInv, TypeOK', NEW t \in Thread, NEW d \in Domain,
         domain_kill(t, d)
  PROVE  Step(t)
<1>1. PICK s :
        s = At("destroy_barrier", "destroy", Dom0, d, 0, None, None, None)
  OBVIOUS
<1>2. /\ thr[t].pc = "idle" /\ d # Dom0 /\ life[d] = "alive" /\ DomctlFree
      /\ life' = [life EXCEPT ![d] = "dying"] /\ thr' = [thr EXCEPT ![t] = s]
      /\ UNCHANGED <<tables, refcnt, event_lock>>
  BY <1>1 DEF domain_kill, locks
<1>3. /\ s.pc = "destroy_barrier" /\ s.caller = "destroy" /\ s.d = d /\ s.p = 0
      /\ s.d2 = None
  BY <1>1 DEF At
<1>4. Frame(t) /\ thr'[t] = s
  BY <1>2, FrameGo DEF LinkInv
<1>5. /\ thr[t].caller # "destroy"
      /\ \A e \in Domain : event_lock[e] # t /\ t \notin Holders(e)
  BY <1>2, IdleFacts
<1>6. life'[d] = "dying" /\ \A e \in Domain : e # d => life'[e] = life[e]
  BY <1>2 DEF LinkInv, TypeOK
<1>7. Tables(t) /\ Moves(t)
  BY <1>2, TablesSame DEF Moves, tables
<1>8. LivesGoOn(t)
  BY <1>2, <1>3, <1>4, <1>6 DEF LivesGoOn, AtBarrier, Destroys
<1>9. DestroyStep(t)
  BY <1>2, <1>5 DEF DestroyStep, AtBarrier, Destroys, DomctlFree
<1>10. DomainsKept'
  BY <1>2, <1>6, DomainAssumption DEF LinkInv, DomainsKept
<1>11. RefcountExact'
  <2>1. \A e \in Domain : Holders(e)' = Holders(e)
    BY <1>3, <1>4, <1>5 DEF Holders, Frame, ClosePc
  <2> QED BY <1>2, <1>6, <2>1 DEF LinkInv, RefcountExact
<1>12. HoldsLocks(t)' /\ KnowsChannel(t)' /\ WorksOn(t)'
  BY <1>2, <1>3, <1>4, <1>5, <1>6 DEF HoldsLocks, KnowsChannel, WorksOn
<1>13. DestroyShape(t)' /\ DestroyCloses(t)' /\ DestroyPassed(t)'
  <2>1. \A q \in Port : ~(q < 0)
    BY PortFacts
  <2>2. DestroyPassed(t)'
    BY <1>3, <1>4, <2>1 DEF DestroyPassed
  <2> QED BY <1>3, <1>4, <1>6, <2>2 DEF DestroyShape, DestroyCloses, ClosePc
<1> QED BY <1>4, <1>7, <1>8, <1>9, <1>10, <1>11, <1>12, <1>13
        DEF Step, ThreadInv

LEMMA StepDestroyBarrier ==
  ASSUME LinkInv, TypeOK', NEW t \in Thread, DestroyBarrier(t)
  PROVE  Step(t)
<1>1. PICK d, s : d = thr[t].d /\ s = Goto(t, "destroy_next")
  OBVIOUS
<1>2. /\ thr[t].pc = "destroy_barrier" /\ event_lock[d] = None
      /\ thr' = [thr EXCEPT ![t] = s]
      /\ UNCHANGED <<tables, doms, event_lock>>
  BY <1>1 DEF DestroyBarrier, locks
<1>3. /\ thr[t].caller = "destroy" /\ thr[t].d2 = None
      /\ d \in Domain /\ life[d] = "dying"
      /\ \A e \in Domain : event_lock[e] # t /\ t \notin Holders(e)
  BY <1>1, <1>2, DestroyerFacts
<1>4. /\ s.pc = "destroy_next" /\ s.caller = "destroy" /\ s.d = d
      /\ s.p = thr[t].p /\ s.d2 = None
  BY <1>1, <1>3 DEF Goto, At
<1>5. Frame(t) /\ thr'[t] = s
  BY <1>2, FrameGo DEF LinkInv
<1>6. Tables(t) /\ Moves(t)
  BY <1>2, TablesSame DEF Moves, tables
<1>7. LivesGoOn(t) /\ DomainsKept' /\ RefcountExact'
  BY <1>2, <1>3, <1>4, <1>5, DomsSame DEF Holders, ClosePc
<1>8. DestroyStep(t)
  BY <1>1, <1>2, <1>3, <1>4, <1>5 DEF DestroyStep, AtBarrier, Destroys
<1>9. HoldsLocks(t)' /\ KnowsChannel(t)' /\ WorksOn(t)'
  BY <1>2, <1>3, <1>4, <1>5 DEF HoldsLocks, KnowsChannel, WorksOn, doms
<1>10. DestroyShape(t)' /\ DestroyCloses(t)'
  BY <1>2, <1>3, <1>4, <1>5 DEF DestroyShape, DestroyCloses, ClosePc, doms
<1>11. DestroyPassed(t)'
  BY <1>1, <1>2, <1>3, <1>4, <1>5
     DEF LinkInv, ThreadInv, DestroyPassed, State, tables
<1> QED BY <1>5, <1>6, <1>7, <1>8, <1>9, <1>10, <1>11 DEF Step, ThreadInv

LEMMA StepDestroyNext ==
  ASSUME LinkInv, TypeOK', NEW t \in Thread, DestroyNext(t)
  PROVE  Step(t)
<1>1. PICK d, p, c, s : /\ d = thr[t].d /\ p = thr[t].p
                        /\ c = GuestChan(evtchn[d][p]) /\ s = Goto(t, "close")
  OBVIOUS
<1>2. /\ thr[t].pc = "destroy_next" /\ port_is_valid(d, p)
      /\ evtchn' = [evtchn EXCEPT ![d][p] = c]
      /\ thr' = [thr EXCEPT ![t] = s] /\ UNCHANGED <<nr_ports, doms, event_lock>>
  BY <1>1 DEF DestroyNext, locks
<1>3. /\ thr[t].caller = "destroy" /\ thr[t].d2 = None
      /\ d \in Domain /\ life[d] = "dying"
      /\ \A e \in Domain : event_lock[e] # t /\ t \notin Holders(e)
  BY <1>1, <1>2, DestroyerFacts
<1>4. p \in Port
  BY <1>1, <1>2, <1>3, ThreadFacts, ValidPort DEF LinkInv
<1>5. /\ c.state = evtchn[d][p].state /\ c.dom = evtchn[d][p].dom
      /\ c.port = evtchn[d][p].port /\ c.xen = FALSE
  BY <1>1 DEF GuestChan, Channel
<1>6. /\ s.pc = "close" /\ s.caller = "destroy" /\ s.d = d
      /\ s.p = p /\ s.d2 = None
  BY <1>1, <1>3 DEF Goto, At
<1>7. Tables(t)
  BY <1>2, <1>3, <1>4, <1>5, TablesMark
<1>8. Frame(t) /\ thr'[t] = s
  BY <1>2, FrameGo DEF LinkInv
<1>9. Moves(t)
  BY <1>2, <1>6, <1>8 DEF Moves
<1>10. LivesGoOn(t) /\ DomainsKept' /\ RefcountExact'
  BY <1>2, <1>3, <1>6, <1>8, NoneAssumption, DomsSame DEF Holders
<1>11. DestroyStep(t)
  BY <1>1, <1>2, <1>3, <1>6, <1>8, SameDestroyer
<1>12. HoldsLocks(t)' /\ KnowsChannel(t)' /\ WorksOn(t)'
  BY <1>2, <1>3, <1>6, <1>8 DEF HoldsLocks, KnowsChannel, WorksOn, doms
<1>13. evtchn'[d][p] = c /\ \A q \in Port : evtchn'[d][q].state = evtchn[d][q].state
  BY <1>2, <1>3, <1>4, <1>5 DEF LinkInv, TypeOK
<1>14. DestroyShape(t)' /\ DestroyCloses(t)'
  BY <1>2, <1>3, <1>5, <1>6, <1>8, <1>13
     DEF DestroyShape, DestroyCloses, ClosePc, doms
<1>15. DestroyPassed(t)'
  BY <1>1, <1>3, <1>6, <1>8, <1>13 DEF LinkInv, ThreadInv, DestroyPassed, State
<1> QED BY <1>7, <1>8, <1>9, <1>10, <1>11, <1>12, <1>14, <1>15
        DEF Step, ThreadInv

LEMMA StepDestroyBuckets ==
  ASSUME LinkInv, TypeOK', NEW t \in Thread, DestroyBuckets(t)
  PROVE  Step(t)
<1>1. PICK d, s : d = thr[t].d /\ s = Idle
  OBVIOUS
<1>2. /\ thr[t].pc = "destroy_next" /\ ~port_is_valid(d, thr[t].p)
      /\ event_lock[d] = None /\ evtchn' = [evtchn EXCEPT ![d] = EmptyTable]
      /\ nr_ports' = [nr_ports EXCEPT ![d] = 0]
      /\ thr' = [thr EXCEPT ![t] = s] /\ UNCHANGED <<doms, event_lock>>
  BY <1>1 DEF DestroyBuckets, locks
<1>3. /\ thr[t].caller = "destroy" /\ thr[t].d2 = None
      /\ d \in Domain /\ life[d] = "dying"
      /\ \A e \in Domain : event_lock[e] # t /\ t \notin Holders(e)
  BY <1>1, <1>2, DestroyerFacts
<1>4. s.pc = "idle" /\ s.caller = "none" /\ s.d = None /\ s.d2 = None
  BY <1>1 DEF Idle, At
<1>5. \A q \in Port : State(d, q) \in {"FREE", "RESERVED"}
  <2>1. nr_ports[d] \in Nat /\ thr[t].p \in Nat /\ nr_ports[d] <= thr[t].p
    BY <1>2, <1>3, ThreadFacts DEF LinkInv, TypeOK, BucketEnds, port_is_valid
  <2>2. ASSUME NEW q \in Port PROVE q < thr[t].p \/ ~port_is_valid(d, q)
    BY <2>1, PortFacts DEF port_is_valid
  <2> QED BY <1>1, <1>3, <2>2
          DEF LinkInv, ThreadInv, DestroyPassed, TailFree
<1>6. \A q \in Port : EmptyTable[q].state = "FREE" /\ ~EmptyTable[q].xen
  BY DEF EmptyTable, FreeChan, Channel
<1>7. Tables(t)
  BY <1>2, <1>3, <1>5, <1>6, TablesReset
<1>8. Frame(t) /\ thr'[t] = s
  BY <1>2, FrameGo DEF LinkInv
<1>9. Moves(t)
  BY <1>2, <1>4, <1>8 DEF Moves
<1>10. LivesGoOn(t) /\ DomainsKept' /\ RefcountExact'
  BY <1>2, <1>3, <1>4, <1>8, DomsSame DEF Holders, ClosePc
<1>11. DestroyStep(t)
  <2>1. nr_ports'[d] = 0 /\ evtchn'[d] = EmptyTable
    BY <1>2, <1>3 DEF LinkInv, TypeOK
  <2>2. Empty(d)'
    BY <1>6, <2>1 DEF Empty, State
  <2> QED BY <1>1, <1>2, <1>4, <1>8, <2>2 DEF DestroyStep, AtBarrier, Destroys
<1>12. ThreadInv(t)'
  BY <1>2, <1>3, <1>4, <1>8, QuietThread
<1> QED BY <1>7, <1>8, <1>9, <1>10, <1>11, <1>12 DEF Step

\* Dom0 is told about the end of a domain.
LEMMA ToldDom0 ==
  ASSUME LinkInv, TypeOK', NEW t \in Thread, thr[t].pc = "idle",
         thr' = [thr EXCEPT ![t] =
                   At("virq", "none", None, Dom0, 0, None, 0, DomExc)],
         UNCHANGED <<tables, event_lock>>, life'[Dom0] = "alive"
  PROVE  /\ Frame(t) /\ Tables(t) /\ Moves(t) /\ DestroyStep(t) /\ ThreadInv(t)'
         /\ \A e \in Domain : Holders(e)' = Holders(e)
<1>1. PICK s : /\ s = At("virq", "none", None, Dom0, 0, None, 0, DomExc)
               /\ thr' = [thr EXCEPT ![t] = s]
  OBVIOUS
<1>2. s.pc = "virq" /\ s.caller = "none" /\ s.d = Dom0 /\ s.d2 = None
  BY <1>1 DEF At
<1>3. Frame(t) /\ thr'[t] = s
  BY <1>1, FrameGo DEF LinkInv
<1>4. /\ thr[t].caller # "destroy"
      /\ \A e \in Domain : event_lock[e] # t /\ t \notin Holders(e)
  BY IdleFacts
<1>5. Tables(t) /\ Moves(t)
  BY TablesSame DEF Moves, tables
<1>6. DestroyStep(t)
  BY <1>2, <1>3, <1>4, SameDestroyer
<1>7. ThreadInv(t)'
  BY <1>2, <1>3, <1>4, QuietThread
<1>8. \A e \in Domain : Holders(e)' = Holders(e)
  BY <1>2, <1>3, <1>4 DEF Holders, Frame, ClosePc
<1> QED BY <1>3, <1>5, <1>6, <1>7, <1>8

LEMMA StepDomainDead ==
  ASSUME LinkInv, TypeOK', NEW t \in Thread, NEW d \in Domain, DomainDead(t, d)
  PROVE  Step(t)
<1>1. /\ thr[t].pc = "idle" /\ DomctlFree /\ life[d] = "dying"
      /\ thr' = [thr EXCEPT ![t] =
                   At("virq", "none", None, Dom0, 0, None, 0, DomExc)]
      /\ UNCHANGED <<tables, event_lock>>
  BY DEF DomainDead, locks
<1>2. /\ refcnt'[d] = refcnt[d] - 1
      /\ life'[d] = IF refcnt[d] = 1 THEN "destroyed" ELSE "dead"
      /\ \A e \in Domain : e # d => refcnt'[e] = refcnt[e] /\ life'[e] = life[e]
  BY DEF DomainDead, LinkInv, TypeOK
<1>3. life'[Dom0] = "alive"
  BY <1>1, <1>2, DomainAssumption DEF LinkInv, DomainsKept
<1>4. /\ Frame(t) /\ Tables(t) /\ Moves(t) /\ DestroyStep(t) /\ ThreadInv(t)'
      /\ \A e \in Domain : Holders(e)' = Holders(e)
  BY <1>1, <1>3, ToldDom0
<1>5. LivesGoOn(t)
  BY <1>1, <1>2 DEF LivesGoOn, DomctlFree
<1>6. refcnt[d] \in Int /\ refcnt[d] = Cardinality(Holders(d)) + 1
      /\ Cardinality(Holders(d)) \in Nat
  <2>1. Cardinality(Holders(d)) \in Nat
    BY ThreadAssumption, FS_Subset, FS_CardinalityType DEF Holders
  <2> QED BY <1>1, <2>1 DEF LinkInv, RefcountExact, TypeOK
<1>7. DomainsKept'
  BY <1>2, <1>3, <1>6 DEF LinkInv, DomainsKept
<1>8. RefcountExact'
  <2>1. refcnt'[d] = Cardinality(Holders(d)')
                     + IF life'[d] \in {"alive", "dying"} THEN 1 ELSE 0
    BY <1>2, <1>4, <1>6
  <2> QED BY <1>2, <1>4, <2>1 DEF LinkInv, RefcountExact
<1> QED BY <1>4, <1>5, <1>7, <1>8 DEF Step

LEMMA StepDomainGone ==
  ASSUME LinkInv, TypeOK', NEW t \in Thread, NEW d \in Domain,
         complete_domain_destroy(t, d)
  PROVE  Step(t)
<1>1. /\ thr[t].pc = "idle" /\ life[d] = "destroyed"
      /\ \A u \in Thread : d \notin {thr[u].d, thr[u].d2}
      /\ thr' = [thr EXCEPT ![t] =
                   At("virq", "none", None, Dom0, 0, None, 0, DomExc)]
      /\ UNCHANGED <<tables, refcnt, event_lock>>
  BY DEF complete_domain_destroy, locks
<1>2. life'[d] = "absent" /\ \A e \in Domain : e # d => life'[e] = life[e]
  BY DEF complete_domain_destroy, LinkInv, TypeOK
<1>3. life'[Dom0] = "alive"
  BY <1>1, <1>2, DomainAssumption DEF LinkInv, DomainsKept
<1>4. /\ Frame(t) /\ Tables(t) /\ Moves(t) /\ DestroyStep(t) /\ ThreadInv(t)'
      /\ \A e \in Domain : Holders(e)' = Holders(e)
  BY <1>1, <1>3, ToldDom0
<1>5. LivesGoOn(t)
  BY <1>1, <1>2 DEF LivesGoOn
<1>6. DomainsKept'
  BY <1>1, <1>2, <1>3 DEF LinkInv, DomainsKept
<1>7. RefcountExact'
  BY <1>1, <1>2, <1>4 DEF LinkInv, RefcountExact
<1> QED BY <1>4, <1>5, <1>6, <1>7 DEF Step

-----------------------------------------------------------------------------
(* Steps of no CPU.                                                        *)

\* A critical section that leaves the lives of the domains alone.
LEMMA AtomicStep ==
  ASSUME LinkInv, TypeOK', UNCHANGED <<event_lock, thr, doms>>, Tables(None)
  PROVE  Step(None)
<1>1. Frame(None)
  BY DEF Frame
<1>2. DestroyStep(None) /\ Moves(None) /\ None \notin Thread
  BY NoneAssumption DEF DestroyStep, Moves
<1>3. LivesGoOn(None) /\ DomainsKept' /\ RefcountExact'
  BY <1>1, <1>2, DomsSame
<1> QED BY <1>1, <1>2, <1>3 DEF Step

\* evtchn_bind_virq, _ipi and _pirq take a free port.
LEMMA AtomicTake ==
  ASSUME LinkInv, NEW d \in Domain, NEW p \in Port, NEW c,
         event_lock[d] = None, get_free_port(d, p), nr_ports' = Grown(d, p),
         c.state \notin {"FREE", "INTERDOMAIN"},
         evtchn' = [evtchn EXCEPT ![d][p] = c]
  PROVE  Tables(None)
<1>1. State(d, p) = "FREE" /\ ~Closing(d)
  BY FreePort
<1>2. PICK n \in Nat : /\ n >= nr_ports[d] /\ p < n
                       /\ nr_ports' = [nr_ports EXCEPT ![d] = n]
  BY FreePort
<1> QED BY <1>1, <1>2, TablesTake DEF Mine

\* A domain that does not exist is empty, unlocked and has no references.
LEMMA AbsentFacts ==
  ASSUME LinkInv, NEW d \in Domain, life[d] = "absent"
  PROVE  /\ event_lock[d] = None /\ Empty(d)
         /\ refcnt[d] = 0 /\ Cardinality(Holders(d)) = 0
<1>1. refcnt[d] = 0 /\ Cardinality(Holders(d)) = 0
  <2>1. Cardinality(Holders(d)) \in Nat
    BY ThreadAssumption, FS_Subset, FS_CardinalityType DEF Holders
  <2>2. refcnt[d] = 0 /\ refcnt[d] = Cardinality(Holders(d)) + 0
    BY DEF LinkInv, DomainsKept, RefcountExact
  <2> QED BY <2>1, <2>2
<1>2. Holders(d) = {}
  <2>1. IsFiniteSet(Holders(d))
    BY ThreadAssumption, FS_Subset DEF Holders
  <2> QED BY <1>1, <2>1, FS_EmptySet
<1>3. ASSUME NEW u \in Thread, event_lock[d] = u PROVE FALSE
  <2>1. \/ d = thr[u].d /\ thr[u].pc \in {"alloc", "close_virq", "close_higher"}
        \/ d = FirstLock(thr[u].d, thr[u].d2) /\ thr[u].pc = "bind"
        \/ d = thr[u].d2 /\ thr[u].pc \in {"close", "close_virq"}
    BY <1>3 DEF LinkInv, ThreadInv, HoldsLocks
  <2>2. thr[u].d # d
    BY NoneAssumption DEF LinkInv, ThreadInv, WorksOn
  <2>3. thr[u].pc = "bind" => thr[u].d2 # d
    BY DEF LinkInv, ThreadInv, WorksOn
  <2>4. ~(d = thr[u].d2 /\ thr[u].pc \in {"close", "close_virq"})
    BY <1>2 DEF Holders, ClosePc
  <2> QED BY <2>1, <2>2, <2>3, <2>4 DEF FirstLock
<1>4. event_lock[d] = None
  BY <1>3 DEF LinkInv, TypeOK
<1>5. \A u \in Thread : ~Destroys(u, d)
  BY DEF LinkInv, ThreadInv, DestroyShape, Destroys
<1>6. Empty(d)
  BY <1>5 DEF LinkInv, GoneIsEmpty
<1> QED BY <1>1, <1>4, <1>6

LEMMA StepDomainCreate ==
  ASSUME LinkInv, TypeOK', NEW d \in Domain, domain_create(d)
  PROVE  Step(None)
<1>1. /\ life[d] = "absent" /\ life' = [life EXCEPT ![d] = "alive"]
      /\ refcnt' = [refcnt EXCEPT ![d] = 1]
      /\ evtchn' = [evtchn EXCEPT ![d] = InitTable]
      /\ nr_ports' = [nr_ports EXCEPT ![d] = PerBucket]
      /\ UNCHANGED <<event_lock, thr>>
  BY DEF domain_create, locks
<1>2. /\ event_lock[d] = None /\ Empty(d) /\ refcnt[d] = 0
      /\ Cardinality(Holders(d)) = 0
  BY <1>1, AbsentFacts
<1>3. /\ life'[d] = "alive" /\ refcnt'[d] = 1
      /\ \A e \in Domain : e # d => life'[e] = life[e] /\ refcnt'[e] = refcnt[e]
  BY <1>1 DEF LinkInv, TypeOK
<1>4. \A q \in Port : /\ InitTable[q].state \in {"FREE", "RESERVED"}
                      /\ q >= PerBucket => InitTable[q].state = "FREE"
  BY PortFacts DEF InitTable, EmptyTable, FreeChan, Channel
<1>5. \A q \in Port : State(d, q) \in {"FREE", "RESERVED"}
  BY <1>2 DEF Empty
<1>6. Tables(None)
  BY <1>1, <1>2, <1>3, <1>4, <1>5, PortFacts, TablesReset
<1>7. Frame(None)
  BY <1>1 DEF Frame
<1>8. DestroyStep(None) /\ Moves(None) /\ None \notin Thread
  BY NoneAssumption DEF DestroyStep, Moves
<1>9. LivesGoOn(None)
  BY <1>1, <1>3 DEF LivesGoOn
<1>10. DomainsKept'
  BY <1>3, DomainAssumption DEF LinkInv, DomainsKept
<1>11. RefcountExact'
  <2>1. \A e \in Domain : Holders(e)' = Holders(e)
    BY <1>1 DEF Holders
  <2>2. refcnt'[d] = Cardinality(Holders(d)')
                     + IF life'[d] \in {"alive", "dying"} THEN 1 ELSE 0
    BY <1>2, <1>3, <2>1
  <2> QED BY <1>3, <2>1, <2>2 DEF LinkInv, RefcountExact
<1> QED BY <1>6, <1>7, <1>8, <1>9, <1>10, <1>11 DEF Step

\* Every critical section that is one step.
LEMMA StepAtomic ==
  ASSUME LinkInv, TypeOK', NEW d \in Domain, Atomic(d)
  PROVE  Step(None)
<1> USE DEF locks
<1>1. ASSUME NEW p \in Port, BindLoopback(d, p) PROVE Step(None)
  <2>1. Tables(None)
    BY <1>1, TablesBind, PortFacts DEF BindLoopback, Mine
  <2> QED BY <1>1, <2>1, AtomicStep DEF BindLoopback
<1>2. ASSUME NEW v \in Vcpu, NEW irq \in Virq, evtchn_bind_virq(d, v, irq)
      PROVE  Step(None)
  <2>1. PICK p \in Port :
          /\ get_free_port(d, p) /\ nr_ports' = Grown(d, p)
          /\ evtchn' = [evtchn EXCEPT ![d][p] =
               Channel("VIRQ", None, None, irq, v, evtchn[d][p].xen)]
    BY <1>2 DEF evtchn_bind_virq
  <2>2. PICK c : /\ c = Channel("VIRQ", None, None, irq, v, evtchn[d][p].xen)
                 /\ evtchn' = [evtchn EXCEPT ![d][p] = c]
    BY <2>1
  <2>3. c.state = "VIRQ"
    BY <2>2 DEF Channel
  <2>4. event_lock[d] = None /\ UNCHANGED <<event_lock, thr, doms>>
    BY <1>2 DEF evtchn_bind_virq
  <2>5. Tables(None)
    BY <2>1, <2>2, <2>3, <2>4, AtomicTake
  <2> QED BY <2>4, <2>5, AtomicStep
<1>3. ASSUME NEW v \in Vcpu, evtchn_bind_ipi(d, v) PROVE Step(None)
  <2>1. PICK p \in Port :
          /\ get_free_port(d, p) /\ nr_ports' = Grown(d, p)
          /\ evtchn' = [evtchn EXCEPT ![d][p] =
               Channel("IPI", None, None, None, v, evtchn[d][p].xen)]
    BY <1>3 DEF evtchn_bind_ipi
  <2>2. PICK c : /\ c = Channel("IPI", None, None, None, v, evtchn[d][p].xen)
                 /\ evtchn' = [evtchn EXCEPT ![d][p] = c]
    BY <2>1
  <2>3. c.state = "IPI"
    BY <2>2 DEF Channel
  <2>4. event_lock[d] = None /\ UNCHANGED <<event_lock, thr, doms>>
    BY <1>3 DEF evtchn_bind_ipi
  <2>5. Tables(None)
    BY <2>1, <2>2, <2>3, <2>4, AtomicTake
  <2> QED BY <2>4, <2>5, AtomicStep
<1>4. ASSUME NEW irq \in Pirq, evtchn_bind_pirq(d, irq) PROVE Step(None)
  <2>1. PICK p \in Port :
          /\ get_free_port(d, p) /\ nr_ports' = Grown(d, p)
          /\ \/ evtchn' = [evtchn EXCEPT ![d][p] =
                  Channel("PIRQ", None, None, irq, evtchn[d][p].vcpu,
                          evtchn[d][p].xen)]
             \/ UNCHANGED evtchn
    BY <1>4 DEF evtchn_bind_pirq
  <2>2. event_lock[d] = None /\ UNCHANGED <<event_lock, thr, doms>>
    BY <1>4 DEF evtchn_bind_pirq
  <2>3. CASE UNCHANGED evtchn
    <3>1. Tables(None)
      BY <2>1, <2>2, <2>3, FreePort, TablesGrow DEF Mine
    <3> QED BY <2>2, <3>1, AtomicStep
  <2>4. CASE evtchn' = [evtchn EXCEPT ![d][p] =
                  Channel("PIRQ", None, None, irq, evtchn[d][p].vcpu,
                          evtchn[d][p].xen)]
    <3>1. PICK c : /\ c = Channel("PIRQ", None, None, irq, evtchn[d][p].vcpu,
                                  evtchn[d][p].xen)
                   /\ evtchn' = [evtchn EXCEPT ![d][p] = c]
      BY <2>4
    <3>2. c.state = "PIRQ"
      BY <3>1 DEF Channel
    <3>3. Tables(None)
      BY <2>1, <2>2, <3>1, <3>2, AtomicTake
    <3> QED BY <2>2, <3>3, AtomicStep
  <2> QED BY <2>1, <2>3, <2>4
<1>5. ASSUME NEW irq \in Pirq, send_guest_pirq(d, irq) PROVE Step(None)
  BY <1>5, TablesSame, AtomicStep DEF send_guest_pirq
<1>6. ASSUME NEW p \in Port, NEW v \in Vcpu, evtchn_bind_vcpu(d, p, v)
      PROVE  Step(None)
  <2>1. PICK c : /\ c = OnVcpu(evtchn[d][p], v)
                 /\ evtchn' = [evtchn EXCEPT ![d][p] = c]
    BY <1>6 DEF evtchn_bind_vcpu
  <2>2. /\ c.state = evtchn[d][p].state /\ c.dom = evtchn[d][p].dom
        /\ c.port = evtchn[d][p].port /\ c.xen = evtchn[d][p].xen
    BY <2>1 DEF OnVcpu, Channel
  <2>3. UNCHANGED <<nr_ports, event_lock, thr, doms>>
    BY <1>6 DEF evtchn_bind_vcpu
  <2>4. Tables(None)
    BY <2>1, <2>2, <2>3, TablesMark
  <2> QED BY <2>3, <2>4, AtomicStep
<1>7. ASSUME NEW p \in Port, evtchn_send(d, p) \/ GuestHandles(d, p)
      PROVE  Step(None)
  <2>1. UNCHANGED <<tables, event_lock, thr, doms>>
    BY <1>7 DEF evtchn_send, GuestHandles
  <2> QED BY <2>1, TablesSame, AtomicStep
<1> QED BY <1>1, <1>2, <1>3, <1>4, <1>5, <1>6, <1>7, StepDomainCreate
        DEF Atomic

-----------------------------------------------------------------------------
(* All steps.                                                              *)

\* Places outside evtchn_destroy and __evtchn_close where no lock is held, and
\* states in which a CPU goes on from them.
Outside == {"idle", "reset_next", "free_xen", "notify", "virq", "virq_set"}
GoesOn(s) ==
    \/ s = Idle
    \/ /\ s.pc \in {"close", "reset_next", "notify", "virq", "virq_set"}
       /\ s.caller # "destroy" /\ s.d2 = None
       /\ s.d \in Domain /\ life[s.d] # "absent"

LEMMA QuietFrom ==
  ASSUME LinkInv, TypeOK', NEW t \in Thread, NEW s, thr[t].pc \in Outside,
         GoesOn(s), s.pc # thr[t].pc, thr' = [thr EXCEPT ![t] = s],
         UNCHANGED event_lock, UNCHANGED doms, Tables(t)
  PROVE  Step(t)
<1>1. thr[t].caller # "destroy"
  BY DEF LinkInv, ThreadInv, DestroyShape, ClosePc, Outside
<1>2. /\ s.pc \in {"idle", "close", "reset_next", "notify", "virq", "virq_set"}
      /\ s.caller # "destroy" /\ s.d2 = None
      /\ s.d # None => life[s.d] # "absent"
  BY DEF Idle, At, GoesOn
<1> QED BY <1>1, <1>2, QuietStep DEF ClosePc, Outside

\* The places that such a CPU goes to from the middle of an operation.
LEMMA QuietGoto ==
  ASSUME LinkInv, NEW t \in Thread,
         thr[t].pc \in {"reset_next", "free_xen", "notify", "virq", "virq_set"}
  PROVE  /\ thr[t].d \in Domain /\ life[thr[t].d] # "absent"
         /\ thr[t].caller # "destroy" /\ Idle.pc = "idle"
         /\ Goto(t, "close").pc = "close"
         /\ Goto(t, "close").caller = thr[t].caller
         /\ Goto(t, "close").d = thr[t].d /\ Goto(t, "close").d2 = thr[t].d2
         /\ thr[t].pc \in {"reset_next", "free_xen"} => thr[t].d2 = None
<1>1. thr[t].d \in Domain
  BY ThreadFacts DEF LinkInv
<1>2. /\ life[thr[t].d] # "absent" /\ thr[t].caller # "destroy"
      /\ thr[t].pc \in {"reset_next", "free_xen"} => thr[t].d2 = None
  BY <1>1, NoneAssumption
     DEF LinkInv, ThreadInv, WorksOn, HoldsLocks, DestroyShape, ClosePc
<1> QED BY <1>1, <1>2 DEF Goto, At, Idle

LEMMA StepFreeXen ==
  ASSUME LinkInv, TypeOK', NEW t \in Thread, free_xen_event_channel(t)
  PROVE  Step(t)
<1>1. PICK d, p, c, s : /\ d = thr[t].d /\ p = thr[t].p
                        /\ c = GuestChan(evtchn[d][p]) /\ s = Goto(t, "close")
  OBVIOUS
<1>2. /\ thr[t].pc = "free_xen" /\ UNCHANGED <<nr_ports, event_lock, doms>>
      /\ \/ thr' = [thr EXCEPT ![t] = Idle] /\ UNCHANGED evtchn
         \/ /\ evtchn' = [evtchn EXCEPT ![d][p] = c]
            /\ thr' = [thr EXCEPT ![t] = s]
  BY <1>1 DEF free_xen_event_channel, locks
<1>3. /\ d \in Domain /\ life[d] # "absent" /\ p \in Port
      /\ s.pc = "close" /\ s.caller # "destroy" /\ s.d = d /\ s.d2 = None
  BY <1>1, <1>2, QuietGoto, ThreadFacts DEF LinkInv
<1>4. CASE thr' = [thr EXCEPT ![t] = Idle] /\ UNCHANGED evtchn
  <2>1. Tables(t)
    BY <1>2, <1>4, TablesSame DEF tables
  <2>2. thr[t].pc \in Outside /\ GoesOn(Idle) /\ Idle.pc # thr[t].pc
    BY <1>2, QuietGoto DEF Outside, GoesOn
  <2> QED BY <1>2, <1>4, <2>1, <2>2, QuietFrom, Zenon
<1>5. CASE /\ evtchn' = [evtchn EXCEPT ![d][p] = c]
           /\ thr' = [thr EXCEPT ![t] = s]
  <2>1. /\ c.state = evtchn[d][p].state /\ c.dom = evtchn[d][p].dom
        /\ c.port = evtchn[d][p].port /\ c.xen = FALSE
    BY <1>1 DEF GuestChan, Channel
  <2>2. Tables(t)
    BY <1>2, <1>3, <1>5, <2>1, TablesMark
  <2>3. thr[t].pc \in Outside /\ GoesOn(s) /\ s.pc # thr[t].pc
    BY <1>2, <1>3 DEF Outside, GoesOn
  <2> QED BY <1>2, <1>5, <2>2, <2>3, QuietFrom, Zenon
<1> QED BY <1>2, <1>4, <1>5

LEMMA StepResetNext ==
  ASSUME LinkInv, TypeOK', NEW t \in Thread, ResetNext(t)
  PROVE  Step(t)
<1>1. PICK s : /\ s = Idle \/ s = Goto(t, "close")
               /\ thr' = [thr EXCEPT ![t] = s]
  BY DEF ResetNext
<1>2. thr[t].pc = "reset_next" /\ UNCHANGED <<tables, event_lock, doms>>
  BY DEF ResetNext, locks
<1>3. thr[t].pc \in Outside /\ GoesOn(s) /\ s.pc # thr[t].pc
  BY <1>1, <1>2, QuietGoto DEF Outside, GoesOn
<1>4. Tables(t)
  BY <1>2, TablesSame
<1> QED BY <1>1, <1>2, <1>3, <1>4, QuietFrom, Zenon

LEMMA StepNotify ==
  ASSUME LinkInv, TypeOK', NEW t \in Thread,
         notify_via_xen_event_channel(t) \/ VirqSetPending(t)
  PROVE  Step(t)
<1>1. /\ thr[t].pc \in {"notify", "virq_set"} /\ thr' = [thr EXCEPT ![t] = Idle]
      /\ UNCHANGED <<tables, event_lock, doms>>
  BY DEF notify_via_xen_event_channel, VirqSetPending, locks
<1>2. Tables(t)
  BY <1>1, TablesSame
<1>3. thr[t].pc \in Outside /\ GoesOn(Idle) /\ Idle.pc # thr[t].pc
  BY <1>1, QuietGoto DEF Outside, GoesOn
<1> QED BY <1>1, <1>2, <1>3, QuietFrom, Zenon

LEMMA StepVirqLookup ==
  ASSUME LinkInv, TypeOK', NEW t \in Thread, VirqLookup(t)
  PROVE  Step(t)
<1>1. PICK s, port :
        /\ s = Idle \/ s = At("virq_set", "none", None, thr[t].d, port, None,
                              thr[t].v, thr[t].irq)
        /\ thr' = [thr EXCEPT ![t] = s]
  BY DEF VirqLookup
<1>2. thr[t].pc = "virq" /\ UNCHANGED <<tables, event_lock, doms>>
  BY DEF VirqLookup
<1>3. thr[t].pc \in Outside /\ GoesOn(s) /\ s.pc # thr[t].pc
  BY <1>1, <1>2, QuietGoto DEF At, Outside, GoesOn
<1>4. Tables(t)
  BY <1>2, TablesSame
<1> QED BY <1>1, <1>2, <1>3, <1>4, QuietFrom, Zenon

LEMMA StepContinue ==
  ASSUME LinkInv, TypeOK', NEW t \in Thread, Continue(t)
  PROVE  Step(t)
BY StepAllocUnbound, StepAllocUnboundXen, StepBindInterdomain, StepCloseFails,
   StepCloseLocal, StepCloseVirq, StepCloseVirqVcpu, StepCloseVirqDone,
   StepCloseLinked, StepCloseGetRemote, StepCloseHigher, StepCloseLower,
   StepFreeXen, StepResetNext, StepNotify, StepVirqLookup, StepDestroyBarrier,
   StepDestroyNext, StepDestroyBuckets
   DEF Continue

LEMMA StepBegin ==
  ASSUME LinkInv, TypeOK', NEW t \in Thread, Begin(t)
  PROVE  Step(t)
<1> USE DEF locks
<1>1. ASSUME NEW cur \in Domain, NEW d \in Domain, NEW remote \in Domain,
             evtchn_alloc_unbound(t, cur, d, remote)
      PROVE  Step(t)
  <2>1. PICK p \in Port : \E s :
          /\ get_free_port(d, p) /\ nr_ports' = Grown(d, p)
          /\ s = At("alloc", "guest", cur, d, p, remote, None, None)
          /\ thr' = [thr EXCEPT ![t] = s]
    BY <1>1 DEF evtchn_alloc_unbound
  <2>a. PICK s :
          /\ get_free_port(d, p) /\ nr_ports' = Grown(d, p)
          /\ s = At("alloc", "guest", cur, d, p, remote, None, None)
          /\ thr' = [thr EXCEPT ![t] = s]
    BY <2>1
  <2>2. s.pc = "alloc" /\ s.caller # "destroy" /\ s.d = d /\ s.p = p
    BY <2>a DEF At
  <2>3. /\ thr[t].pc = "idle" /\ event_lock[d] = None
        /\ event_lock' = [event_lock EXCEPT ![d] = t] /\ UNCHANGED <<evtchn, doms>>
    BY <1>1 DEF evtchn_alloc_unbound
  <2> QED BY <2>a, <2>2, <2>3, AllocBegins
<1>2. ASSUME NEW d \in Domain, NEW remote \in Domain, NEW v \in Vcpu,
             alloc_unbound_xen_event_channel(t, d, v, remote)
      PROVE  Step(t)
  <2>1. PICK p \in Port : \E s :
          /\ get_free_port(d, p) /\ nr_ports' = Grown(d, p)
          /\ s = At("alloc", "xen", Dom0, d, p, remote, v, None)
          /\ thr' = [thr EXCEPT ![t] = s]
    BY <1>2 DEF alloc_unbound_xen_event_channel
  <2>a. PICK s :
          /\ get_free_port(d, p) /\ nr_ports' = Grown(d, p)
          /\ s = At("alloc", "xen", Dom0, d, p, remote, v, None)
          /\ thr' = [thr EXCEPT ![t] = s]
    BY <2>1
  <2>2. s.pc = "alloc" /\ s.caller # "destroy" /\ s.d = d /\ s.p = p
    BY <2>a DEF At
  <2>3. /\ thr[t].pc = "idle" /\ event_lock[d] = None
        /\ event_lock' = [event_lock EXCEPT ![d] = t] /\ UNCHANGED <<evtchn, doms>>
    BY <1>2 DEF alloc_unbound_xen_event_channel
  <2> QED BY <2>a, <2>2, <2>3, AllocBegins
<1>3. ASSUME NEW d \in Domain, NEW p \in Port, evtchn_close(t, d, p)
      PROVE  Step(t)
  <2>1. PICK s : /\ s = At("close", "guest", d, d, p, None, None, None)
                 /\ thr' = [thr EXCEPT ![t] = s]
    BY <1>3 DEF evtchn_close
  <2>2. s.pc = "close" /\ s.caller = "guest" /\ s.d = d /\ s.d2 = None
    BY <2>1 DEF At
  <2>3. /\ thr[t].pc = "idle" /\ life[d] = "alive" /\ Tables(t)
        /\ UNCHANGED <<event_lock, doms>>
    BY <1>3, TablesSame DEF evtchn_close, Runs
  <2>4. thr[t].pc \in Outside /\ GoesOn(s) /\ s.pc # thr[t].pc
    BY <2>2, <2>3 DEF Outside, GoesOn
  <2> QED BY <2>1, <2>3, <2>4, QuietFrom, Zenon
<1>4. ASSUME NEW cur \in Domain, NEW d \in Domain, evtchn_reset(t, cur, d)
      PROVE  Step(t)
  <2>1. PICK s : /\ s = At("reset_next", "reset", cur, d, 0, None, None, None)
                 /\ thr' = [thr EXCEPT ![t] = s]
    BY <1>4 DEF evtchn_reset
  <2>2. s.pc = "reset_next" /\ s.caller = "reset" /\ s.d = d /\ s.d2 = None
    BY <2>1 DEF At
  <2>3. /\ thr[t].pc = "idle" /\ life[d] # "absent" /\ Tables(t)
        /\ UNCHANGED <<event_lock, doms>>
    BY <1>4, TablesSame DEF evtchn_reset, Target
  <2>4. thr[t].pc \in Outside /\ GoesOn(s) /\ s.pc # thr[t].pc
    BY <2>2, <2>3 DEF Outside, GoesOn
  <2> QED BY <2>1, <2>3, <2>4, QuietFrom, Zenon
<1>5. ASSUME NEW d \in Domain, NEW v \in Vcpu, hvm_send_assist_req(t, d, v)
      PROVE  Step(t)
  <2>1. PICK s : /\ s = At("notify", "none", d, d, xen_port[d][v], None, None,
                           None)
                 /\ thr' = [thr EXCEPT ![t] = s]
    BY <1>5 DEF hvm_send_assist_req
  <2>2. s.pc = "notify" /\ s.caller = "none" /\ s.d = d /\ s.d2 = None
    BY <2>1 DEF At
  <2>3. /\ thr[t].pc = "idle" /\ life[d] = "alive" /\ Tables(t)
        /\ UNCHANGED <<event_lock, doms>>
    BY <1>5, TablesSame DEF hvm_send_assist_req, Runs
  <2>4. thr[t].pc \in Outside /\ GoesOn(s) /\ s.pc # thr[t].pc
    BY <2>2, <2>3 DEF Outside, GoesOn
  <2> QED BY <2>1, <2>3, <2>4, QuietFrom, Zenon
<1>6. ASSUME NEW d \in Domain, NEW v \in Vcpu, NEW irq \in Virq,
             SendVirq(t, d, v, irq)
      PROVE  Step(t)
  <2>1. PICK s : /\ s = At("virq", "none", None, d, 0, None, v, irq)
                 /\ thr' = [thr EXCEPT ![t] = s]
    BY <1>6 DEF SendVirq
  <2>2. s.pc = "virq" /\ s.caller = "none" /\ s.d = d /\ s.d2 = None
    BY <2>1 DEF At
  <2>3. /\ thr[t].pc = "idle" /\ life[d] # "absent" /\ Tables(t)
        /\ UNCHANGED <<event_lock, doms>>
    BY <1>6, TablesSame DEF SendVirq
  <2>4. thr[t].pc \in Outside /\ GoesOn(s) /\ s.pc # thr[t].pc
    BY <2>2, <2>3 DEF Outside, GoesOn
  <2> QED BY <2>1, <2>3, <2>4, QuietFrom, Zenon
<1> QED BY <1>1, <1>2, <1>3, <1>4, <1>5, <1>6, StepBindBegins, StepDomainKill,
           StepDomainDead, StepDomainGone
        DEF Begin

\* Every step is the step of one CPU, or of none.
LEMMA StepNext ==
  ASSUME LinkInv, TypeOK', Next
  PROVE  \E t \in Thread \cup {None} : Step(t)
BY StepContinue, StepBegin, StepAtomic DEF Next

\* The state after dom0 was built.
LEMMA LinkInit == Init => LinkInv
<1> SUFFICES ASSUME Init PROVE LinkInv
  OBVIOUS
<1>1. TypeOK
  BY TypeInit
<1>2. \A d \in Domain, p \in Port :
        /\ State(d, p) \in {"FREE", "RESERVED"}
        /\ d # Dom0 \/ p # 0 => State(d, p) = "FREE"
  BY PortFacts
     DEF Init, State, InitTable, EmptyTable, FreeChan, Channel
<1>3. LinksSymmetric
  BY <1>2 DEF LinksSymmetric
<1>4. TailFree
  <2>1. nr_ports[Dom0] = PerBucket
    BY DomainAssumption DEF Init
  <2> QED BY <1>2, <2>1, PortFacts DEF TailFree, port_is_valid
<1>5. \A t \in Thread : /\ thr[t].pc = "idle" /\ thr[t].caller = "none"
                        /\ thr[t].d = None /\ thr[t].d2 = None
  BY DEF Init, Idle, At
<1>6. \A d \in Domain : Holders(d) = {}
  BY <1>5 DEF Holders, ClosePc
<1>7. RefcountExact
  <2>1. \A d \in Domain :
          refcnt[d] = IF life[d] \in {"alive", "dying"} THEN 1 ELSE 0
    BY DEF Init
  <2>2. \A d \in Domain : Cardinality(Holders(d)) = 0
    BY <1>6, FS_EmptySet
  <2> QED BY <2>1, <2>2 DEF RefcountExact
<1>8. DomainsKept /\ OneDestroyer
  BY <1>5, DomainAssumption DEF Init, DomainsKept, OneDestroyer
<1>9. GoneIsEmpty
  BY <1>2 DEF GoneIsEmpty, Empty, Init
<1>10. ASSUME NEW t \in Thread PROVE ThreadInv(t)
  <2>1. \A d \in Domain : event_lock[d] # t
    BY NoneAssumption DEF Init
  <2>2. HoldsLocks(t) /\ KnowsChannel(t) /\ WorksOn(t)
    BY <1>5, <2>1 DEF HoldsLocks, KnowsChannel, WorksOn
  <2>3. DestroyShape(t) /\ DestroyCloses(t) /\ DestroyPassed(t)
    BY <1>5 DEF DestroyShape, DestroyCloses, DestroyPassed
  <2> QED BY <2>2, <2>3 DEF ThreadInv
<1> QED BY <1>1, <1>3, <1>4, <1>7, <1>8, <1>9, <1>10 DEF LinkInv

\* Every step keeps the invariant.
LEMMA LinkNext == LinkInv /\ [Next]_vars => LinkInv'
<1> SUFFICES ASSUME LinkInv, [Next]_vars PROVE LinkInv'
  OBVIOUS
<1>1. TypeOK'
  BY TypeNext DEF LinkInv
<1>2. CASE UNCHANGED vars
  <2>1. UNCHANGED <<event_lock, thr, doms>> /\ UNCHANGED tables
    BY <1>2 DEF vars, doms, tables
  <2>2. Step(None)
    BY <1>1, <2>1, TablesSame, AtomicStep
  <2> QED BY <1>1, <2>2, StepKeeps
<1>3. CASE Next
  BY <1>1, <1>3, StepNext, StepKeeps
<1> QED BY <1>2, <1>3

\* The invariant holds in every reachable state.
LEMMA LinkInvariant == Spec => []LinkInv
<1>1. Init => LinkInv
  BY LinkInit
<1>2. LinkInv /\ [Next]_vars => LinkInv'
  BY LinkNext
<1> QED BY <1>1, <1>2, PTL DEF Spec

-----------------------------------------------------------------------------
(* Theorems.                                                               *)

\* The BUG_ONs of __evtchn_close about the peer of a port never fire, however
\* binding, closing, resetting and destroying interleave: links are symmetric.
THEOREM LinksStaySymmetric == Spec => []LinksSymmetric
<1>1. LinkInv => LinksSymmetric
  BY DEF LinkInv
<1> QED BY <1>1, LinkInvariant, PTL

\* No path through __evtchn_close leaks or drops a reference to a domain.
THEOREM RefcountsStayExact == Spec => []RefcountExact
<1>1. LinkInv => RefcountExact
  BY DEF LinkInv
<1> QED BY <1>1, LinkInvariant, PTL

\* get_domain in __evtchn_close cannot fail, and no domain struct that a close
\* still uses is destroyed.
THEOREM LinkedDomainsStay == Spec => []LinkedDomainHeld
<1>1. ASSUME LinkInv PROVE LinkedDomainHeld
  <2>1. ASSUME NEW d \in Domain, NEW p \in Port, State(d, p) = "INTERDOMAIN"
        PROVE  life[evtchn[d][p].dom] \in {"alive", "dying"}
    BY <1>1, <2>1, LinkedAlive
  <2>2. ASSUME NEW t \in Thread, thr[t].pc \in ClosePc, thr[t].d2 # None
        PROVE  life[thr[t].d2] \in {"alive", "dying", "dead"}
    <3>1. PICK d : d = thr[t].d2
      OBVIOUS
    <3>2. d \in Domain /\ t \in Holders(d)
      BY <1>1, <2>2, <3>1, ThreadFacts DEF LinkInv, Holders
    <3>3. IsFiniteSet(Holders(d))
      BY ThreadAssumption, FS_Subset DEF Holders
    <3>4. Cardinality(Holders(d)) \in Nat \ {0}
      BY <3>2, <3>3, FS_EmptySet, FS_CardinalityType
    <3>5. life[d] \in Life /\ life[d] \notin {"absent", "destroyed"}
      <4>1. refcnt[d] # 0
        BY <1>1, <3>2, <3>4 DEF LinkInv, RefcountExact
      <4> QED BY <1>1, <3>2, <4>1 DEF LinkInv, DomainsKept, TypeOK
    <3> QED BY <3>1, <3>5 DEF Life
  <2> QED BY <2>1, <2>2 DEF LinkedDomainHeld
<1> QED BY <1>1, LinkInvariant, PTL

\* Nothing reappears behind evtchn_destroy, and a domain that is dead, being
\* freed or not there has no ports.
THEOREM DestroyedDomainsStayEmpty == Spec => []DestroyedStaysEmpty
<1>1. ASSUME LinkInv PROVE DestroyedStaysEmpty
  <2>1. ASSUME NEW t \in Thread, thr[t].caller = "destroy"
        PROVE  \A q \in Port : q < thr[t].p =>
                 State(thr[t].d, q) \in {"FREE", "RESERVED"}
    BY <1>1, <2>1 DEF LinkInv, ThreadInv, DestroyPassed
  <2>2. ASSUME NEW d \in Domain, life[d] \in {"absent", "dead", "destroyed"}
        PROVE  Empty(d)
    <3>1. \A u \in Thread : ~Destroys(u, d)
      BY <1>1, <2>2 DEF LinkInv, ThreadInv, DestroyShape, Destroys
    <3> QED BY <1>1, <2>2, <3>1 DEF LinkInv, GoneIsEmpty
  <2> QED BY <2>1, <2>2 DEF DestroyedStaysEmpty, Empty
<1> QED BY <1>1, LinkInvariant, PTL

\* A CPU that holds a domain's event_lock can rely on the states and the peers
\* of its channels: no step of another CPU changes them.
THEOREM LocksProtect == Spec => LockProtects
<1> DEFINE Kept == \A d \in Domain, t \in Thread :
         event_lock[d] = t /\ thr'[t] = thr[t] =>
           \A p \in Port : /\ evtchn'[d][p].state = evtchn[d][p].state
                           /\ evtchn'[d][p].dom = evtchn[d][p].dom
<1>1. ASSUME LinkInv, [Next]_vars PROVE [Kept]_vars
  <2>1. CASE UNCHANGED vars
    BY <2>1
  <2>2. CASE Next
    <3>1. TypeOK'
      BY <1>1, TypeNext DEF LinkInv
    <3>2. PICK t \in Thread \cup {None} : Step(t)
      BY <1>1, <2>2, <3>1, StepNext
    <3>3. LockedKept(t) /\ Moves(t)
      BY <3>2 DEF Step, Tables
    <3>4. ASSUME NEW d \in Domain, NEW u \in Thread, event_lock[d] = u,
                 thr'[u] = thr[u]
          PROVE  \A p \in Port : /\ evtchn'[d][p].state = evtchn[d][p].state
                                 /\ evtchn'[d][p].dom = evtchn[d][p].dom
      BY <3>3, <3>4 DEF LockedKept, Moves
    <3> QED BY <3>4
  <2> QED BY <1>1, <2>1, <2>2
<1>2. LinkInv /\ [Next]_vars => [Kept]_vars
  BY <1>1
<1>3. Spec => [][Kept]_vars
  BY <1>2, LinkInvariant, PTL DEF Spec
<1> QED BY <1>3 DEF LockProtects

-----------------------------------------------------------------------------
(* Finite groups.                                                          *)

\* A set of naturals has a least element.
LEMMA LeastNatural ==
  ASSUME NEW T, T \subseteq Nat, T # {}
  PROVE  \E x \in T : \A y \in T : ~ (y < x)
<1> DEFINE R == OpToRel(<, Nat)
<1>1. IsWellFoundedOn(R, Nat)
  BY NatLessThanWellFounded
<1>2. \A x, y \in Nat : y < x => <<y, x>> \in R
  BY DEF OpToRel
<1> HIDE DEF R
<1>3. \E x \in T : \A y \in T : ~ (<<y, x>> \in R)
  BY <1>1, WFMin
<1> QED BY <1>2, <1>3

\* One of finitely many numbers is the largest: the one with the fewest above.
LEMMA FiniteMaximum ==
  ASSUME NEW S, IsFiniteSet(S), S # {}, NEW f \in [S -> Nat]
  PROVE  \E t \in S : \A u \in S : ~ (f[u] > f[t])
<1> DEFINE Above(t) == {u \in S : f[u] > f[t]}
           T == {Cardinality(Above(t)) : t \in S}
<1>1. \A t \in S : IsFiniteSet(Above(t)) /\ Cardinality(Above(t)) \in Nat
  BY FS_Subset, FS_CardinalityType
<1>2. ASSUME NEW t \in S, NEW u \in S, f[u] > f[t]
      PROVE  Cardinality(Above(u)) < Cardinality(Above(t))
  <2>1. Above(u) \subseteq Above(t) /\ Above(u) # Above(t)
    <3>1. \A w \in S : f[w] > f[u] => f[w] > f[t]
      BY <1>2
    <3>2. u \in Above(t) /\ u \notin Above(u)
      BY <1>2
    <3> QED BY <3>1, <3>2
  <2> QED BY <1>1, <2>1, FS_Subset, SMTT(30)
<1>3. T \subseteq Nat /\ T # {}
  BY <1>1
<1>4. PICK x \in T : \A y \in T : ~ (y < x)
  BY <1>3, LeastNatural
<1>5. PICK t \in S : x = Cardinality(Above(t))
  BY <1>4
<1>6. \A u \in S : Cardinality(Above(u)) \in T
  OBVIOUS
<1> QED BY <1>2, <1>4, <1>5, <1>6

-----------------------------------------------------------------------------
(* The inductive invariant.                                                *)

\* A close that holds the lock of its own domain waits for that of a later
\* one; a close that dropped its own has, or waits for, that of an earlier one.
Ordered(s) ==
    /\ s.pc = "close_higher" => s.d < s.d2
    /\ s.pc \in {"close", "close_virq", "close_lower"} /\ s.d2 # None =>
         s.d2 < s.d

\* A virq_lock is held by a CPU that is sending to that vcpu.
SendersHold ==
    \A d \in Domain, v \in Vcpu, t \in Thread :
      virq_lock[d][v] = t =>
        thr[t].pc = "virq_set" /\ thr[t].d = d /\ thr[t].v = v

OrderInv == SendersHold /\ \A t \in Thread : Ordered(thr[t])

\* The initial state.
LEMMA OrderInit == Init => OrderInv
<1> SUFFICES ASSUME Init PROVE OrderInv
  OBVIOUS
<1>1. \A t \in Thread : thr[t].pc = "idle"
  BY DEF Init, Idle, At
<1>2. \A d \in Domain, v \in Vcpu, t \in Thread : virq_lock[d][v] # t
  BY NoneAssumption DEF Init
<1> QED BY <1>1, <1>2 DEF OrderInv, SendersHold, Ordered

\* CPU t, which holds no virq_lock, goes on at s.
LEMMA OrderGo ==
  ASSUME TypeOK, OrderInv, NEW t \in Thread, NEW s, Ordered(s),
         thr' = [thr EXCEPT ![t] = s], thr[t].pc # "virq_set",
         UNCHANGED virq_lock
  PROVE  OrderInv'
<1>1. thr'[t] = s /\ \A u \in Thread \ {t} : thr'[u] = thr[u]
  BY DEF TypeOK
<1>2. SendersHold'
  BY <1>1 DEF OrderInv, SendersHold
<1>3. ASSUME NEW u \in Thread PROVE Ordered(thr[u])'
  BY <1>1 DEF OrderInv, Ordered
<1> QED BY <1>2, <1>3 DEF OrderInv

\* Places at which nothing is ordered.
LEMMA Unordered ==
  ASSUME NEW s, s.pc \notin ClosePc \/ (s.pc = "close" /\ s.d2 = None)
  PROVE  Ordered(s)
BY DEF Ordered, ClosePc

\* __evtchn_close returns.
LEMMA OrderOut ==
  ASSUME TypeOK, OrderInv, NEW t \in Thread, thr[t].pc # "virq_set",
         CloseOut(t), UNCHANGED virq_lock
  PROVE  OrderInv'
<1>1. CloseReturned(t).pc \in {"reset_next", "destroy_next", "idle"}
  BY DEF CloseReturned, Idle, At
<1>2. Ordered(CloseReturned(t))
  BY <1>1, Unordered DEF ClosePc
<1> QED BY <1>2, OrderGo DEF CloseOut

\* The steps that go on.
LEMMA OrderContinue ==
  ASSUME LinkInv, OrderInv, NEW t \in Thread, Continue(t)
  PROVE  OrderInv'
<1> USE DEF locks
<1>0. TypeOK /\ Ordered(thr[t]) /\ HoldsLocks(t)
  BY DEF LinkInv, ThreadInv, OrderInv
<1>a. ASSUME NEW s, s = Idle \/ s.pc = "free_xen", thr' = [thr EXCEPT ![t] = s],
             thr[t].pc # "virq_set", UNCHANGED virq_lock
      PROVE  OrderInv'
  <2>1. s.pc \notin ClosePc
    BY <1>a DEF Idle, At, ClosePc
  <2> QED BY <1>0, <1>a, <2>1, OrderGo, Unordered
<1>b. ASSUME thr[t].d2 = None, thr' = [thr EXCEPT ![t] = Goto(t, "close")],
             thr[t].pc # "virq_set", UNCHANGED virq_lock
      PROVE  OrderInv'
  <2>1. Goto(t, "close").pc = "close" /\ Goto(t, "close").d2 = None
    BY <1>b DEF Goto, At
  <2> QED BY <1>0, <1>b, <2>1, OrderGo, Unordered
<1>1. CASE AllocUnbound(t)
  BY <1>1, <1>a DEF AllocUnbound
<1>2. CASE AllocUnboundXen(t)
  <2> DEFINE s == IF xen_port[thr[t].d][thr[t].v] = 0 THEN Idle
                  ELSE At("free_xen", "xen", thr[t].cur, thr[t].d,
                          xen_port[thr[t].d][thr[t].v], None, None, None)
  <2>1. thr' = [thr EXCEPT ![t] = s]
    BY <1>2 DEF AllocUnboundXen
  <2>2. s = Idle \/ s.pc = "free_xen"
    BY DEF At
  <2> HIDE DEF s
  <2> QED BY <1>2, <2>1, <2>2, <1>a DEF AllocUnboundXen
<1>3. CASE BindInterdomain(t)
  BY <1>3, <1>a DEF BindInterdomain
<1>4. CASE CloseFails(t)
  BY <1>0, <1>4, OrderOut DEF CloseFails
<1>5. CASE CloseLocal(t)
  BY <1>0, <1>5, OrderOut DEF CloseLocal
<1>6. CASE CloseVirq(t)
  <2>1. Ordered(Goto(t, "close_virq"))
    BY <1>0, <1>6 DEF CloseVirq, Goto, At, Ordered
  <2> QED BY <1>0, <1>6, <2>1, OrderGo DEF CloseVirq
<1>7. CASE CloseVirqVcpu(t)
  <2>1. PICK v \in Vcpu : thr' = [thr EXCEPT ![t] =
          At("close_virq", thr[t].caller, thr[t].cur, thr[t].d, thr[t].p,
             thr[t].d2, v, None)]
    BY <1>7 DEF CloseVirqVcpu, VirqUsers
  <2>2. Ordered(At("close_virq", thr[t].caller, thr[t].cur, thr[t].d, thr[t].p,
                   thr[t].d2, v, None))
    BY <1>0, <1>7 DEF CloseVirqVcpu, At, Ordered
  <2> QED BY <1>0, <1>7, <2>1, <2>2, OrderGo DEF CloseVirqVcpu
<1>8. CASE CloseVirqDone(t)
  BY <1>0, <1>8, OrderOut DEF CloseVirqDone
<1>9. CASE CloseLinked(t)
  BY <1>0, <1>9, OrderOut DEF CloseLinked
<1>10. CASE CloseGetRemote(t)
  <2>1. PICK s : /\ Ordered(s)
                 /\ thr' = [thr EXCEPT ![t] = s]
    <3>1. PICK d2 : d2 = evtchn[thr[t].d][thr[t].p].dom
      OBVIOUS
    <3> DEFINE r(pc) == At(pc, thr[t].caller, thr[t].cur, thr[t].d, thr[t].p, d2,
                           None, None)
    <3>2. thr[t].d < d2 => Ordered(r("close_higher"))
      BY DEF At, Ordered
    <3>3. thr[t].d > d2 => Ordered(r("close_lower"))
      BY DEF At, Ordered
    <3>4. \/ thr[t].d < d2 /\ thr' = [thr EXCEPT ![t] = r("close_higher")]
          \/ thr[t].d > d2 /\ thr' = [thr EXCEPT ![t] = r("close_lower")]
      BY <1>10, <3>1 DEF CloseGetRemote
    <3> QED BY <3>2, <3>3, <3>4
  <2> QED BY <1>0, <1>10, <2>1, OrderGo DEF CloseGetRemote
<1>11. CASE CloseHigher(t)
  BY <1>0, <1>11, OrderOut DEF CloseHigher
<1>12. CASE CloseLower(t)
  <2>1. Ordered(Goto(t, "close"))
    BY <1>0, <1>12 DEF CloseLower, Goto, At, Ordered
  <2> QED BY <1>0, <1>12, <2>1, OrderGo DEF CloseLower
<1>13. CASE free_xen_event_channel(t)
  BY <1>0, <1>13, <1>a, <1>b DEF free_xen_event_channel, HoldsLocks
<1>14. CASE ResetNext(t)
  BY <1>0, <1>14, <1>a, <1>b DEF ResetNext, HoldsLocks
<1>15. CASE notify_via_xen_event_channel(t)
  BY <1>15, <1>a DEF notify_via_xen_event_channel
<1>16. CASE VirqLookup(t)
  <2>1. CASE UNCHANGED virq_lock /\ thr' = [thr EXCEPT ![t] = Idle]
    BY <1>16, <2>1, <1>a DEF VirqLookup
  <2>2. CASE ~(UNCHANGED virq_lock /\ thr' = [thr EXCEPT ![t] = Idle])
    <3>1. PICK d, v, s : /\ d = thr[t].d /\ v = thr[t].v
                         /\ s.pc = "virq_set" /\ s.d = d /\ s.v = v
                         /\ thr' = [thr EXCEPT ![t] = s]
                         /\ virq_lock' = [virq_lock EXCEPT ![d][v] = t]
                         /\ thr[t].pc = "virq"
      BY <1>16, <2>2 DEF VirqLookup, At
    <3>2. thr'[t] = s /\ \A u \in Thread \ {t} : thr'[u] = thr[u]
      BY <1>0, <3>1 DEF TypeOK
    <3>3. d \in Domain /\ v \in Vcpu
      BY <1>0, <3>1, ThreadFacts
    <3>4. \A e \in Domain, w \in Vcpu :
            virq_lock'[e][w] = IF e = d /\ w = v THEN t ELSE virq_lock[e][w]
      BY <1>0, <3>1, <3>3 DEF TypeOK
    <3>5. SendersHold'
      BY <3>1, <3>2, <3>4 DEF OrderInv, SendersHold
    <3>6. ASSUME NEW u \in Thread PROVE Ordered(thr[u])'
      BY <3>1, <3>2 DEF OrderInv, Ordered
    <3> QED BY <3>5, <3>6 DEF OrderInv
  <2> QED BY <2>1, <2>2
<1>17. CASE VirqSetPending(t)
  <2>1. PICK d, v : /\ d = thr[t].d /\ v = thr[t].v
                    /\ thr' = [thr EXCEPT ![t] = Idle]
                    /\ virq_lock' = [virq_lock EXCEPT ![d][v] = None]
                    /\ thr[t].pc = "virq_set"
    BY <1>17 DEF VirqSetPending
  <2>2. thr'[t] = Idle /\ \A u \in Thread \ {t} : thr'[u] = thr[u]
    BY <1>0, <2>1 DEF TypeOK
  <2>3. \A e \in Domain, w \in Vcpu :
          virq_lock'[e][w] = IF e = d /\ w = v THEN None ELSE virq_lock[e][w]
    BY <1>0, <2>1 DEF TypeOK
  <2>4. SendersHold'
    BY <2>1, <2>2, <2>3, NoneAssumption DEF OrderInv, SendersHold
  <2>5. ASSUME NEW u \in Thread PROVE Ordered(thr[u])'
    BY <2>2 DEF OrderInv, Ordered, Idle, At
  <2> QED BY <2>4, <2>5 DEF OrderInv
<1>18. CASE DestroyBarrier(t)
  <2>1. Ordered(Goto(t, "destroy_next"))
    BY DEF Goto, At, Ordered
  <2> QED BY <1>0, <1>18, <2>1, OrderGo DEF DestroyBarrier
<1>19. CASE DestroyNext(t)
  BY <1>0, <1>19, <1>b DEF DestroyNext, HoldsLocks
<1>20. CASE DestroyBuckets(t)
  BY <1>20, <1>a DEF DestroyBuckets
<1> QED BY <1>1, <1>2, <1>3, <1>4, <1>5, <1>6, <1>7, <1>8, <1>9, <1>10, <1>11,
           <1>12, <1>13, <1>14, <1>15, <1>16, <1>17, <1>18, <1>19, <1>20
        DEF Continue

\* Operations begin without an event_lock, or with the first of two.
LEMMA OrderBegin ==
  ASSUME TypeOK, OrderInv, NEW t \in Thread, Begin(t)
  PROVE  OrderInv'
<1> USE DEF locks
<1>0. ASSUME NEW s, thr' = [thr EXCEPT ![t] = s], thr[t].pc = "idle",
             UNCHANGED virq_lock,
             s.pc \notin ClosePc \/ (s.pc = "close" /\ s.d2 = None)
      PROVE  OrderInv'
  BY <1>0, OrderGo, Unordered
<1>1. ASSUME NEW cur \in Domain, NEW d \in Domain, NEW remote \in Domain,
             evtchn_alloc_unbound(t, cur, d, remote)
      PROVE  OrderInv'
  <2>1. PICK p \in Port : thr' = [thr EXCEPT ![t] =
          At("alloc", "guest", cur, d, p, remote, None, None)]
    BY <1>1 DEF evtchn_alloc_unbound
  <2>2. At("alloc", "guest", cur, d, p, remote, None, None).pc \notin ClosePc
    BY DEF At, ClosePc
  <2> QED BY <1>0, <1>1, <2>1, <2>2 DEF evtchn_alloc_unbound
<1>2. ASSUME NEW d \in Domain, NEW remote \in Domain, NEW v \in Vcpu,
             alloc_unbound_xen_event_channel(t, d, v, remote)
      PROVE  OrderInv'
  <2>1. PICK p \in Port : thr' = [thr EXCEPT ![t] =
          At("alloc", "xen", Dom0, d, p, remote, v, None)]
    BY <1>2 DEF alloc_unbound_xen_event_channel
  <2>2. At("alloc", "xen", Dom0, d, p, remote, v, None).pc \notin ClosePc
    BY DEF At, ClosePc
  <2> QED BY <1>0, <1>2, <2>1, <2>2 DEF alloc_unbound_xen_event_channel
<1>3. ASSUME NEW ld \in Domain, NEW rd \in Domain, NEW p \in Port,
             evtchn_bind_interdomain(t, ld, rd, p)
      PROVE  OrderInv'
  <2>1. At("bind", "none", ld, ld, p, rd, None, None).pc \notin ClosePc
    BY DEF At, ClosePc
  <2> QED BY <1>0, <1>3, <2>1 DEF evtchn_bind_interdomain
<1>4. ASSUME NEW d \in Domain, NEW p \in Port, evtchn_close(t, d, p)
      PROVE  OrderInv'
  <2>1. /\ At("close", "guest", d, d, p, None, None, None).pc = "close"
        /\ At("close", "guest", d, d, p, None, None, None).d2 = None
    BY DEF At
  <2> QED BY <1>0, <1>4, <2>1 DEF evtchn_close
<1>5. ASSUME NEW cur \in Domain, NEW d \in Domain, evtchn_reset(t, cur, d)
      PROVE  OrderInv'
  <2>1. At("reset_next", "reset", cur, d, 0, None, None, None).pc \notin ClosePc
    BY DEF At, ClosePc
  <2> QED BY <1>0, <1>5, <2>1 DEF evtchn_reset
<1>6. ASSUME NEW d \in Domain, NEW v \in Vcpu, hvm_send_assist_req(t, d, v)
      PROVE  OrderInv'
  <2>1. At("notify", "none", d, d, xen_port[d][v], None, None, None).pc
          \notin ClosePc
    BY DEF At, ClosePc
  <2> QED BY <1>0, <1>6, <2>1 DEF hvm_send_assist_req
<1>7. ASSUME NEW d \in Domain, NEW v \in Vcpu, NEW irq \in Virq,
             SendVirq(t, d, v, irq)
      PROVE  OrderInv'
  <2>1. At("virq", "none", None, d, 0, None, v, irq).pc \notin ClosePc
    BY DEF At, ClosePc
  <2> QED BY <1>0, <1>7, <2>1 DEF SendVirq
<1>8. ASSUME NEW d \in Domain, domain_kill(t, d)
      PROVE  OrderInv'
  <2>1. At("destroy_barrier", "destroy", Dom0, d, 0, None, None, None).pc
          \notin ClosePc
    BY DEF At, ClosePc
  <2> QED BY <1>0, <1>8, <2>1 DEF domain_kill
<1>9. ASSUME NEW d \in Domain, DomainDead(t, d) \/ complete_domain_destroy(t, d)
      PROVE  OrderInv'
  <2>1. At("virq", "none", None, Dom0, 0, None, 0, DomExc).pc \notin ClosePc
    BY DEF At, ClosePc
  <2> QED BY <1>0, <1>9, <2>1 DEF DomainDead, complete_domain_destroy
<1> QED BY <1>1, <1>2, <1>3, <1>4, <1>5, <1>6, <1>7, <1>8, <1>9 DEF Begin

\* Every step keeps the invariant.
LEMMA OrderNext == LinkInv /\ OrderInv /\ [Next]_vars => OrderInv'
<1> SUFFICES ASSUME LinkInv, OrderInv, [Next]_vars PROVE OrderInv'
  OBVIOUS
<1>0. TypeOK
  BY DEF LinkInv
<1>1. ASSUME UNCHANGED <<virq_lock, thr>> PROVE OrderInv'
  BY <1>1 DEF OrderInv, SendersHold, Ordered
<1>2. CASE UNCHANGED vars
  BY <1>1, <1>2 DEF vars
<1>3. ASSUME NEW t \in Thread, Continue(t) \/ Begin(t) PROVE OrderInv'
  BY <1>0, <1>3, OrderContinue, OrderBegin
<1>4. ASSUME NEW d \in Domain, Atomic(d) PROVE OrderInv'
  <2>1. UNCHANGED <<virq_lock, thr>>
    BY <1>4 DEF Atomic, BindLoopback, evtchn_bind_virq, evtchn_bind_ipi,
                evtchn_bind_pirq, send_guest_pirq, evtchn_bind_vcpu,
                evtchn_send, GuestHandles, domain_create, locks
  <2> QED BY <1>1, <2>1
<1> QED BY <1>2, <1>3, <1>4 DEF Next

\* Both invariants hold in every reachable state.
LEMMA OrderInvariant == Spec => [](LinkInv /\ OrderInv)
<1>1. Init => OrderInv
  BY OrderInit
<1>2. LinkInv /\ OrderInv /\ [Next]_vars => OrderInv'
  BY OrderNext
<1> QED BY <1>1, <1>2, LinkInvariant, PTL DEF Spec

-----------------------------------------------------------------------------
(* Deadlock freedom.                                                       *)

\* The domain whose event_lock CPU t waits for.
WaitDomain(t) ==
    CASE thr[t].pc = "bind" -> SecondLock(thr[t].d, thr[t].d2)
      [] thr[t].pc \in {"close_higher", "close_lower"} -> thr[t].d2
      [] OTHER -> thr[t].d

EventWaiters == {"bind", "close_higher", "close_lower", "close", "free_xen",
                 "notify", "destroy_barrier", "destroy_next"}

\* A CPU waits for a sender of a virtual interrupt, which waits for nobody, or
\* for the holder of an event_lock.
LEMMA WaitsForWhat ==
  ASSUME LinkInv, OrderInv, NEW t \in Thread, NEW u \in Thread,
         u \in WaitsFor(t)
  PROVE  \/ WaitsFor(u) = {}
         \/ /\ thr[t].pc \in EventWaiters
            /\ WaitDomain(t) \in Domain /\ event_lock[WaitDomain(t)] = u
<1>0. TypeOK
  BY DEF LinkInv
<1>1. CASE thr[t].pc = "virq" \/ (thr[t].pc = "close_virq" /\ thr[t].v # None)
  <2>1. PICK d, v : d = thr[t].d /\ v = thr[t].v
    OBVIOUS
  <2>2. d \in Domain /\ v \in Vcpu
    BY <1>0, <1>1, <2>1, ThreadFacts DEF TypeOK, ThreadState, ThreadRecord
  <2>3. virq_lock[d][v] = u
    BY <1>1, <2>1 DEF WaitsFor
  <2>4. thr[u].pc = "virq_set"
    BY <2>2, <2>3 DEF OrderInv, SendersHold
  <2> QED BY <2>4 DEF WaitsFor
<1>2. CASE ~(thr[t].pc = "virq" \/ (thr[t].pc = "close_virq" /\ thr[t].v # None))
  <2>1. thr[t].pc \in EventWaiters /\ event_lock[WaitDomain(t)] = u
    BY <1>2 DEF WaitsFor, WaitDomain, EventWaiters
  <2>2. WaitDomain(t) \in Domain
    BY <1>0, <2>1, ThreadFacts DEF WaitDomain, EventWaiters, SecondLock, FirstLock
  <2> QED BY <2>1, <2>2
<1> QED BY <1>1, <1>2

\* Who holds an event_lock waits for nobody, for a sender, or for the lock of a
\* later domain.
LEMMA HoldersWaitLater ==
  ASSUME LinkInv, OrderInv, NEW u \in Thread, NEW d \in Domain,
         event_lock[d] = u, thr[u].pc \in EventWaiters
  PROVE  WaitDomain(u) > d
<1>0. TypeOK /\ HoldsLocks(u) /\ Ordered(thr[u]) /\ WorksOn(u)
  BY DEF LinkInv, ThreadInv, OrderInv
<1>1. CASE thr[u].pc = "close_higher"
  BY <1>0, <1>1, ThreadFacts, DomainAssumption
     DEF HoldsLocks, Ordered, WaitDomain
<1>2. CASE thr[u].pc = "bind"
  <2>1. /\ thr[u].d \in Nat /\ thr[u].d2 \in Nat /\ thr[u].d # thr[u].d2
        /\ d = FirstLock(thr[u].d, thr[u].d2)
        /\ WaitDomain(u) = SecondLock(thr[u].d, thr[u].d2)
    BY <1>0, <1>2, ThreadFacts, DomainAssumption
       DEF HoldsLocks, WorksOn, WaitDomain
  <2> QED BY <2>1 DEF FirstLock, SecondLock
<1>3. CASE thr[u].pc = "close"
  BY <1>0, <1>3, ThreadFacts, DomainAssumption, NoneAssumption
     DEF HoldsLocks, Ordered, WaitDomain
<1> QED BY <1>0, <1>1, <1>2, <1>3 DEF HoldsLocks, EventWaiters

\* No group of CPUs deadlocks on event_locks and virq_locks: a close that
\* drops its lock for the order, a bind that takes two, the barriers of
\* evtchn_destroy and of closing a VIRQ, and the senders of interrupts.
THEOREM NoCpusDeadlock == Spec => []NoLockCycle
<1>1. ASSUME LinkInv, OrderInv, NEW S \in SUBSET Thread, S # {}
      PROVE  \E t \in S : WaitsFor(t) \cap S = {}
  <2> SUFFICES ASSUME \A t \in S : WaitsFor(t) \cap S # {} PROVE FALSE
    OBVIOUS
  <2>1. ASSUME NEW t \in S
        PROVE  /\ thr[t].pc \in EventWaiters /\ WaitDomain(t) \in Domain
               /\ \E u \in S : event_lock[WaitDomain(t)] = u
    <3>1. PICK u \in S : u \in WaitsFor(t)
      OBVIOUS
    <3>2. WaitsFor(u) # {}
      OBVIOUS
    <3> QED BY <1>1, <3>1, <3>2, WaitsForWhat
  <2> DEFINE f == [t \in S |-> WaitDomain(t)]
  <2>2. f \in [S -> Nat]
    BY <2>1, DomainAssumption
  <2>3. IsFiniteSet(S)
    BY <1>1, ThreadAssumption, FS_Subset
  <2>4. ASSUME NEW t \in S PROVE \E u \in S : f[u] > f[t]
    <3>1. PICK u \in S : event_lock[WaitDomain(t)] = u
      BY <2>1
    <3>2. WaitDomain(t) \in Domain /\ thr[u].pc \in EventWaiters
      BY <2>1
    <3> QED BY <1>1, <3>1, <3>2, HoldersWaitLater
  <2> HIDE DEF f
  <2> QED BY <1>1, <2>2, <2>3, <2>4, FiniteMaximum
<1>2. LinkInv /\ OrderInv => NoLockCycle
  BY <1>1 DEF NoLockCycle
<1> QED BY <1>2, OrderInvariant, PTL
=============================================================================
