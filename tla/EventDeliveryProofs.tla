------------------------- MODULE EventDeliveryProofs -------------------------
(***************************************************************************)
(* Theorems about EventDelivery, for any number of ports, vcpus and        *)
(* senders and whatever the guest does: the types, no lost wakeup and no   *)
(* lost edge.                                                              *)
(*                                                                         *)
(* NoLostWakeup and NoLostEdge are about states in which nobody is         *)
(* notifying.  The inductive invariant is about the others: whenever a bit *)
(* is set and the next one that should follow is not, it names the place   *)
(* where some actor, or the vcpu itself, is about to set it.               *)
(***************************************************************************)
EXTENDS EventDelivery, FiniteSetTheorems, WellFoundedInduction, TLAPS

\* The steps of vcpu_unblock.
Unblocking == {"unblock", "poll_evtchn", "poll_reset", "poll_mask", "reclear",
               "wake"}

\* What an actor's arguments are at each step of the notifying code.
ActorOK(a) ==
    LET s == act[a]
    IN /\ s.pc \notin {"idle", "pollers"} => s.v \in Vcpu
       /\ s.pc \in {"pending", "mask", "sel", "mark", "kick", "unmask",
                    "unmask_test"} => s.v = Notify[s.port]
       /\ s.pc # "idle" => s.op # "none" /\ (s.op # "timer" => s.port \in Port)
       /\ s.pc \in {"pending", "mask", "pollers", "poller", "poller_reset"} =>
            s.op = "send"
       /\ s.pc \in {"unmask", "unmask_test"} => s.op = "unmask"
       /\ s.pc \in {"sel", "mark", "kick", "ipi"} => s.op \in {"send", "unmask"}
       /\ s.pc = "pending" => s.seen = {}
       /\ s.pc \in Unblocking => /\ s.then \in {"ipi", "pollers", "idle"}
                                 /\ s.then = "idle" <=> s.op = "timer"
                                 /\ s.then = "pollers" => s.op = "send"
       /\ a \in Vcpu /\ s.pc # "idle" =>
            vc[a].pc = "hypercall" /\ s.op = "unmask"

Handling == {"upcall_word", "irq_clear", "irq_unmask", "irq_refire"}

\* What a vcpu's locals and its poll_evtchn are at each step of its own.
VcpuOK(v) ==
    LET c == vc[v]
    IN /\ c.pc # "off" => v \in is_running
       /\ IsFiniteSet(c.polled)
       /\ c.pc \in {"guest", "block", "block_test"} => c.polled = {}
       /\ c.pc \in {"poll_any", "poll_set", "poll_test"} => c.ports = c.polled
       /\ c.pc \in {"poll_set", "poll_test", "poll_ports"} =>
            poll_evtchn[v] \in {-1, 0}
       /\ (c.pc = "sched" \/ Asleep(v)) /\ c.polled # {} =>
            poll_evtchn[v] \in {-1, 0} \/ c.polled = {poll_evtchn[v]}
       /\ c.pc \in Handling => \A p \in c.ports : Notify[p] = v
       /\ c.pc \in Handling \ {"upcall_word"} =>
            c.port \in Port /\ Notify[c.port] = v

Basic == /\ TypeOK
         /\ \A a \in Actor : ActorOK(a)
         /\ \A v \in Vcpu : VcpuOK(v)

-----------------------------------------------------------------------------
(* The invariant.  s is the state of an actor.                             *)

\* It has cleared _VPF_blocked of vcpu v and will call vcpu_wake.
Wakes(s, v) == s.v = v /\ s.pc \in Unblocking \ {"unblock"}

\* It will clear _VPF_blocked of vcpu v ...
Unblocks(s, v) == s.v = v /\ s.pc \in {"kick", "unblock"}

\* ... also because it took v out of poll_mask.
Takes(s, v) == s.v = v /\ s.pc \in {"poller_reset", "unblock", "reclear"}

\* It has set port p and its search for pollers will come to vcpu v.
Finds(s, p, v) == /\ s.op = "send" /\ s.port = p
                  /\ s.pc \notin {"idle", "pending"}
                  /\ \/ \A u \in s.seen : u < v
                     \/ s.pc = "poller" /\ s.v = v

\* It will set the selector bit of port p, unless p is masked or not pending.
Selects(s, p) == s.port = p /\ s.pc \in {"mask", "unmask_test", "sel"}

\* It has set a selector bit of vcpu v and will set the upcall flag.
Marks(s, v) == s.v = v /\ s.pc = "mark"

\* It has set the upcall flag of vcpu v and will interrupt its CPU.
Kicks(s, v) == /\ s.v = v
               /\ \/ s.pc = "kick"
                  \/ s.pc = "ipi" /\ s.run
                  \/ s.pc \in Unblocking /\ s.then = "ipi" /\ s.run

Woken(v)     == \E a \in Actor : Wakes(act[a], v)
Unblocked(v) == \E a \in Actor : Unblocks(act[a], v)
Taken(v)     == \E a \in Actor : Takes(act[a], v)
Found(p, v)  == \E a \in Actor : Finds(act[a], p, v)
Selected(p)  == \E a \in Actor : Selects(act[a], p)
Marked(v)    == \E a \in Actor : Marks(act[a], v)
Kicked(v)    == \E a \in Actor : Kicks(act[a], v)

\* The vcpu has looked at its upcall flag for the last time before it sleeps.
Dozing(v) == vc[v].pc \in {"poll_ports", "sched"} \/ Asleep(v)

\* The vcpu has put itself into poll_mask.
Registered(v) == \/ vc[v].pc \in {"poll_test", "poll_ports"}
                 \/ (vc[v].pc = "sched" \/ Asleep(v)) /\ vc[v].polled # {}

\* The vcpu has looked at the pending bit of port p for the last time.
Tested(v, p) == /\ p \in vc[v].polled
                /\ \/ vc[v].pc = "poll_ports" /\ p \notin vc[v].ports
                   \/ vc[v].pc = "sched" \/ Asleep(v)

\* The upcall of vcpu v will come to port p.
Handles(v, p) ==
    \/ vc[v].pc \in Handling /\ (Word(p) \in vc[v].words \/ p \in vc[v].ports)
    \/ vc[v].pc = "irq_refire" /\ vc[v].port = p

WakeComes(v)      == Asleep(v) /\ v \notin blocked => Woken(v)
DeliveryWakes(v)  == Dozing(v) /\ v \in blocked /\ NeedDelivery(v) => Unblocked(v)
PollerTaken(v)    == Registered(v) /\ v \in blocked /\ v \notin poll_mask => Taken(v)
PollWakes(v)      == v \in poll_mask =>
                       \A p \in pending : Tested(v, p) => Found(p, v)
SelectorMarked(v) == sel[v] # {} => \/ upcall_pending[v] \/ Marked(v)
                                    \/ vc[v].pc = "upcall_sel"
GuestKicked(v)    == vc[v].pc = "guest" /\ NeedDelivery(v) =>
                       v \in kicked \/ Kicked(v)
PortSelected(p)   == p \in pending \ mask => \/ Word(p) \in sel[Notify[p]]
                                             \/ Selected(p) \/ Handles(Notify[p], p)

Follows(v) == /\ WakeComes(v) /\ DeliveryWakes(v) /\ PollerTaken(v)
              /\ PollWakes(v) /\ SelectorMarked(v) /\ GuestKicked(v)

DeliveryInv == /\ Basic
               /\ \A v \in Vcpu : Follows(v)
               /\ \A p \in Port : PortSelected(p)

-----------------------------------------------------------------------------
(* Steps of one actor.                                                     *)

\* What a step of actor a leaves of the others.
Others(a) == \A b \in Actor \ {a} : act'[b] = act[b]

\* A role is kept unless it was that of the actor who moves.
LEMMA Roles ==
  ASSUME NEW a \in Actor, Others(a), NEW v, NEW p
  PROVE  /\ Woken(v) /\ ~Wakes(act[a], v) => Woken(v)'
         /\ Wakes(act'[a], v) => Woken(v)'
         /\ Unblocked(v) /\ ~Unblocks(act[a], v) => Unblocked(v)'
         /\ Unblocks(act'[a], v) => Unblocked(v)'
         /\ Taken(v) /\ ~Takes(act[a], v) => Taken(v)'
         /\ Takes(act'[a], v) => Taken(v)'
         /\ Found(p, v) /\ ~Finds(act[a], p, v) => Found(p, v)'
         /\ Finds(act'[a], p, v) => Found(p, v)'
         /\ Selected(p) /\ ~Selects(act[a], p) => Selected(p)'
         /\ Selects(act'[a], p) => Selected(p)'
         /\ Marked(v) /\ ~Marks(act[a], v) => Marked(v)'
         /\ Marks(act'[a], v) => Marked(v)'
         /\ Kicked(v) /\ ~Kicks(act[a], v) => Kicked(v)'
         /\ Kicks(act'[a], v) => Kicked(v)'
<1>1. \A b \in Actor : b = a \/ act'[b] = act[b]
  BY DEF Others
<1>2. /\ Woken(v) /\ ~Wakes(act[a], v) => Woken(v)'
      /\ Wakes(act'[a], v) => Woken(v)'
  BY <1>1 DEF Woken, Wakes
<1>3. /\ Unblocked(v) /\ ~Unblocks(act[a], v) => Unblocked(v)'
      /\ Unblocks(act'[a], v) => Unblocked(v)'
  BY <1>1 DEF Unblocked, Unblocks
<1>4. /\ Taken(v) /\ ~Takes(act[a], v) => Taken(v)'
      /\ Takes(act'[a], v) => Taken(v)'
  BY <1>1 DEF Taken, Takes
<1>5. /\ Found(p, v) /\ ~Finds(act[a], p, v) => Found(p, v)'
      /\ Finds(act'[a], p, v) => Found(p, v)'
  BY <1>1 DEF Found, Finds
<1>6. /\ Selected(p) /\ ~Selects(act[a], p) => Selected(p)'
      /\ Selects(act'[a], p) => Selected(p)'
  BY <1>1 DEF Selected, Selects
<1>7. /\ Marked(v) /\ ~Marks(act[a], v) => Marked(v)'
      /\ Marks(act'[a], v) => Marked(v)'
  BY <1>1 DEF Marked, Marks
<1>8. /\ Kicked(v) /\ ~Kicks(act[a], v) => Kicked(v)'
      /\ Kicks(act'[a], v) => Kicked(v)'
  BY <1>1 DEF Kicked, Kicks
<1> QED BY <1>2, <1>3, <1>4, <1>5, <1>6, <1>7, <1>8

\* The others keep what they know.
LEMMA ActorsStay ==
  ASSUME \A b \in Actor : ActorOK(b), NEW a \in Actor, Others(a), vc' = vc,
         ActorOK(a)'
  PROVE  \A b \in Actor : ActorOK(b)'
<1> SUFFICES ASSUME NEW b \in Actor, b # a PROVE ActorOK(b)'
  OBVIOUS
<1>1. act'[b] = act[b] /\ ActorOK(b)
  BY DEF Others
<1> QED BY <1>1 DEF ActorOK

\* Notifying code resets poll_evtchn and makes vcpus runnable.
LEMMA VcpusStay ==
  ASSUME \A v \in Vcpu : VcpuOK(v), vc' = vc, is_running' = is_running,
         \A v \in Vcpu : poll_evtchn'[v] \in {poll_evtchn[v], 0},
         \A v \in Vcpu : Asleep(v)' => Asleep(v)
  PROVE  \A v \in Vcpu : VcpuOK(v)'
BY DEF VcpuOK

-----------------------------------------------------------------------------
(* Types.                                                                  *)

\* A set of naturals has a least element.
LEMMA LeastNatural ==
  ASSUME NEW T, T \subseteq Nat, T # {}
  PROVE  \E x \in T : \A y \in T : x <= y
<1> DEFINE R == OpToRel(<, Nat)
<1>1. IsWellFoundedOn(R, Nat)
  BY NatLessThanWellFounded
<1>2. \A x, y \in Nat : y < x => <<y, x>> \in R
  BY DEF OpToRel
<1> HIDE DEF R
<1>3. \E x \in T : \A y \in T : ~ (<<y, x>> \in R)
  BY <1>1, WFMin
<1>4. \A x, y \in Nat : ~ (y < x) => x <= y
  OBVIOUS
<1> QED BY <1>2, <1>3, <1>4

\* What the assumptions on the constants say of ports, vcpus and actors.
LEMMA Constants ==
  /\ 0 \notin Port /\ Port \subseteq Nat /\ Vcpu \subseteq Nat
  /\ Vcpu \subseteq Actor /\ Sender \subseteq Actor
  /\ \A p \in Port : Notify[p] \in Vcpu /\ Word(p) \in Words
  /\ Quiet \in ActState
BY PortAssumption, VcpuAssumption DEF Actor, Words, Quiet, ActState, ActPc

LEMMA ActTyped ==
  ASSUME act \in [Actor -> ActState], NEW a \in Actor, NEW s \in ActState,
         act' = [act EXCEPT ![a] = s]
  PROVE  act' \in [Actor -> ActState] /\ act'[a] = s /\ Others(a)
BY DEF Others

LEMMA GotoTyped ==
  ASSUME act \in [Actor -> ActState], NEW a \in Actor, NEW pc \in ActPc,
         Goto(a, pc)
  PROVE  /\ act' \in [Actor -> ActState] /\ Others(a)
         /\ act'[a] = [act[a] EXCEPT !.pc = pc]
BY DEF Goto, Others, ActState

LEMMA AfterNotifyTyped ==
  ASSUME act \in [Actor -> ActState], NEW a \in Actor
  PROVE  AfterNotify(a) \in ActState
BY Constants DEF AfterNotify, Quiet, ActState, ActPc

LEMMA UnblockReturnedTyped ==
  ASSUME act \in [Actor -> ActState], NEW a \in Actor, ActorOK(a),
         act[a].pc \in Unblocking
  PROVE  UnblockReturned(a) \in ActState
<1>1. act[a].then \in {"ipi", "pollers", "idle"}
  BY DEF ActorOK
<1>2. act[a].then # "idle" => act[a].then \in ActPc
  BY <1>1 DEF ActPc
<1> QED BY <1>2, Constants DEF UnblockReturned, ActState
-----------------------------------------------------------------------------
(* Conjuncts that a step does not disturb, because the variables and the   *)
(* roles they speak of stay.                                               *)

LEMMA WakeStays ==
  ASSUME NEW v \in Vcpu, Follows(v), vc' = vc, runstate' = runstate,
         blocked' = blocked, Woken(v) => Woken(v)'
  PROVE  WakeComes(v)'
BY DEF Follows, WakeComes, Asleep

LEMMA DeliveryStays ==
  ASSUME NEW v \in Vcpu, Follows(v), vc' = vc, runstate' = runstate,
         blocked' = blocked, upcall_pending' = upcall_pending,
         upcall_mask' = upcall_mask, Unblocked(v) => Unblocked(v)'
  PROVE  DeliveryWakes(v)'
BY DEF Follows, DeliveryWakes, Dozing, Asleep, NeedDelivery

LEMMA TakenStays ==
  ASSUME NEW v \in Vcpu, Follows(v), vc' = vc, runstate' = runstate,
         blocked' = blocked, poll_mask' = poll_mask, Taken(v) => Taken(v)'
  PROVE  PollerTaken(v)'
BY DEF Follows, PollerTaken, Registered, Asleep

LEMMA PollStays ==
  ASSUME NEW v \in Vcpu, Follows(v), vc' = vc, runstate' = runstate,
         poll_mask' = poll_mask, pending' \subseteq pending,
         \A p \in pending : Found(p, v) => Found(p, v)'
  PROVE  PollWakes(v)'
BY DEF Follows, PollWakes, Tested, Asleep

LEMMA MarkedStays ==
  ASSUME NEW v \in Vcpu, Follows(v), vc' = vc, sel' = sel,
         upcall_pending' = upcall_pending, Marked(v) => Marked(v)'
  PROVE  SelectorMarked(v)'
BY DEF Follows, SelectorMarked

LEMMA KickedStays ==
  ASSUME NEW v \in Vcpu, Follows(v), vc' = vc, upcall_pending' = upcall_pending,
         upcall_mask' = upcall_mask, kicked' = kicked, Kicked(v) => Kicked(v)'
  PROVE  GuestKicked(v)'
BY DEF Follows, GuestKicked, NeedDelivery

LEMMA PortsStay ==
  ASSUME NEW p \in Port, PortSelected(p), vc' = vc, pending' = pending,
         mask' = mask, sel' = sel, Selected(p) => Selected(p)'
  PROVE  PortSelected(p)'
BY DEF PortSelected, Handles

-----------------------------------------------------------------------------
(* evtchn_set_pending and vcpu_unblock: lemma KeepsX says that action X    *)
(* keeps the invariant.  The roles of actor a before and after its step    *)
(* decide which conjuncts have to be argued.                               *)

LEMMA KeepsTestMask ==
  ASSUME DeliveryInv, NEW a \in Actor, TestMask(a)
  PROVE  DeliveryInv'
<1>0. Basic /\ ActorOK(a) /\ act[a] \in ActState
  BY DEF DeliveryInv, Basic, TypeOK
<1>1. /\ act[a].pc = "mask" /\ vc' = vc
      /\ UNCHANGED <<shared, sleep, sched>>
  BY DEF TestMask
<1>2. /\ act' \in [Actor -> ActState] /\ Others(a)
      /\ act'[a] = [act[a] EXCEPT !.pc = IF act[a].port \in mask THEN "pollers"
                                         ELSE "sel"]
  BY <1>0, GotoTyped DEF TestMask, Basic, TypeOK, ActPc
<1>3. Basic'
  <2>1. TypeOK'
    BY <1>0, <1>1, <1>2 DEF Basic, TypeOK, shared, sleep, sched
  <2>2. ActorOK(a)'
    BY <1>0, <1>1, <1>2 DEF ActorOK, Unblocking, ActState
  <2>3. \A v \in Vcpu : VcpuOK(v)'
    BY <1>0, <1>1, VcpusStay DEF Basic, Asleep, sleep, sched
  <2> QED BY <1>0, <1>1, <1>2, <2>1, <2>2, <2>3, ActorsStay DEF Basic
<1>4. ASSUME NEW v \in Vcpu PROVE Follows(v)'
  <2>1. Follows(v)
    BY DEF DeliveryInv
  <2>2. /\ Woken(v) => Woken(v)'
        /\ Unblocked(v) => Unblocked(v)'
        /\ Taken(v) => Taken(v)'
        /\ Marked(v) => Marked(v)'
        /\ Kicked(v) => Kicked(v)'
    BY <1>1, <1>2, Roles DEF Wakes, Unblocks, Takes, Marks, Kicks, Unblocking
  <2>3. ASSUME NEW p, Found(p, v) PROVE Found(p, v)'
    BY <1>0, <1>1, <1>2, <2>3, Roles DEF Finds, ActState
  <2> QED BY <1>1, <2>1, <2>2, <2>3, WakeStays, DeliveryStays, TakenStays, PollStays,
             MarkedStays, KickedStays DEF Follows, shared, sleep, sched
<1>5. ASSUME NEW p \in Port PROVE PortSelected(p)'
  <2>1. PortSelected(p)
    BY DEF DeliveryInv
  <2>2. p \notin mask /\ Selected(p) => Selected(p)'
    BY <1>0, <1>1, <1>2, Roles DEF Selects, ActState
  <2> QED BY <1>1, <2>1, <2>2 DEF PortSelected, Handles, shared
<1> QED BY <1>3, <1>4, <1>5 DEF DeliveryInv
\* v \in is_running is read while the vcpu is in the guest, if it is.
LEMMA KeepsKick ==
  ASSUME DeliveryInv, NEW a \in Actor, vcpu_kick(a)
  PROVE  DeliveryInv'
<1>0. Basic /\ ActorOK(a) /\ act[a] \in ActState
  BY DEF DeliveryInv, Basic, TypeOK
<1>1. /\ act[a].pc = "kick" /\ vc' = vc
      /\ UNCHANGED <<shared, sleep, sched>>
  BY DEF vcpu_kick
<1>2. /\ act' \in [Actor -> ActState] /\ Others(a)
      /\ act'[a] = [act[a] EXCEPT !.pc = "unblock", !.then = "ipi",
                                  !.run = act[a].v \in is_running]
  <2> DEFINE s == [act[a] EXCEPT !.pc = "unblock", !.then = "ipi",
                                 !.run = act[a].v \in is_running]
  <2>1. (act[a].v \in is_running) \in BOOLEAN
    OBVIOUS
  <2>2. s \in ActState
    BY <1>0, <2>1 DEF ActState, ActPc
  <2>3. act' = [act EXCEPT ![a] = s]
    BY <1>0 DEF vcpu_kick, Basic, TypeOK
  <2> QED BY <1>0, <2>2, <2>3, ActTyped DEF Basic, TypeOK
<1>3. Basic'
  <2>1. TypeOK'
    BY <1>0, <1>1, <1>2 DEF Basic, TypeOK, shared, sleep, sched, vcpu_kick
  <2>2. ActorOK(a)'
    BY <1>0, <1>1, <1>2 DEF ActorOK, Unblocking, ActState
  <2>3. \A v \in Vcpu : VcpuOK(v)'
    BY <1>0, <1>1, VcpusStay DEF Basic, TypeOK, Asleep, sleep, sched
  <2> QED BY <1>0, <1>1, <1>2, <2>1, <2>2, <2>3, ActorsStay DEF Basic
<1>4. ASSUME NEW v \in Vcpu PROVE Follows(v)'
  <2>1. Follows(v)
    BY DEF DeliveryInv
  <2>2. /\ Woken(v) => Woken(v)'
        /\ Unblocked(v) => Unblocked(v)'
        /\ Taken(v) => Taken(v)'
        /\ Marked(v) => Marked(v)'
    BY <1>0, <1>1, <1>2, Roles DEF Wakes, Unblocks, Takes, Marks, Unblocking,
        ActState
  <2>3. ASSUME NEW p, Found(p, v) PROVE Found(p, v)'
    BY <1>0, <1>1, <1>2, <2>3, Roles DEF Finds, ActState, ActorOK, Unblocking
  <2>4. GuestKicked(v)'
    <3>1. vc[v].pc = "guest" => v \in is_running
      BY <1>0 DEF Basic, VcpuOK
    <3>2. Kicks(act[a], v) /\ v \in is_running => Kicks(act'[a], v)
      BY <1>0, <1>1, <1>2 DEF Kicks, Unblocking, ActState
    <3>3. vc[v].pc = "guest" /\ Kicked(v) => Kicked(v)'
      BY <1>2, <3>1, <3>2, Roles
    <3> QED BY <1>1, <2>1, <3>3
               DEF Follows, GuestKicked, NeedDelivery, shared, sched
  <2>5. /\ WakeComes(v)' /\ DeliveryWakes(v)' /\ PollerTaken(v)'
        /\ SelectorMarked(v)' /\ PollWakes(v)'
    BY <1>1, <2>1, <2>2, <2>3, WakeStays, DeliveryStays, TakenStays,
        MarkedStays, PollStays
       DEF shared, sleep, sched
  <2> QED BY <2>4, <2>5 DEF Follows
<1>5. ASSUME NEW p \in Port PROVE PortSelected(p)'
  <2>1. Selected(p) => Selected(p)'
    BY <1>0, <1>1, <1>2, Roles DEF Selects, ActState
  <2> QED BY <1>1, <2>1, PortsStay DEF DeliveryInv, shared
<1> QED BY <1>3, <1>4, <1>5 DEF DeliveryInv

LEMMA KeepsTestPolling ==
  ASSUME DeliveryInv, NEW a \in Actor, TestPolling(a)
  PROVE  DeliveryInv'
<1>0. Basic /\ ActorOK(a) /\ act[a] \in ActState
  BY DEF DeliveryInv, Basic, TypeOK
<1>1. /\ act[a].pc = "poll_evtchn" /\ vc' = vc
      /\ UNCHANGED <<shared, sleep, sched>>
  BY DEF TestPolling
<1>2. /\ act' \in [Actor -> ActState] /\ Others(a)
      /\ act'[a] = [act[a] EXCEPT !.pc = IF poll_evtchn[act[a].v] # 0
                                         THEN "poll_reset" ELSE "wake"]
  BY <1>0, GotoTyped DEF TestPolling, Basic, TypeOK, ActPc
<1>3. Basic'
  <2>1. TypeOK'
    BY <1>0, <1>1, <1>2 DEF Basic, TypeOK, shared, sleep, sched, TestPolling
  <2>2. ActorOK(a)'
    BY <1>0, <1>1, <1>2 DEF ActorOK, Unblocking, ActState
  <2>3. \A v \in Vcpu : VcpuOK(v)'
    BY <1>0, <1>1, VcpusStay DEF Basic, TypeOK, Asleep, sleep, sched
  <2> QED BY <1>0, <1>1, <1>2, <2>1, <2>2, <2>3, ActorsStay DEF Basic
<1>4. ASSUME NEW v \in Vcpu PROVE Follows(v)'
  <2>1. Follows(v)
    BY DEF DeliveryInv
  <2>2. /\ Woken(v) => Woken(v)'
        /\ Unblocked(v) => Unblocked(v)'
        /\ Taken(v) => Taken(v)'
        /\ Marked(v) => Marked(v)'
        /\ Kicked(v) => Kicked(v)'
    BY <1>0, <1>1, <1>2, Roles DEF Wakes, Unblocks, Takes, Marks, Kicks,
        Unblocking, ActState
  <2>3. ASSUME NEW p, Found(p, v) PROVE Found(p, v)'
    BY <1>0, <1>1, <1>2, <2>3, Roles DEF Finds, ActState, ActorOK, Unblocking
  <2> QED BY <1>1, <2>1, <2>2, <2>3, WakeStays, DeliveryStays, TakenStays,
            MarkedStays, KickedStays, PollStays
          DEF Follows, shared, sleep, sched
<1>5. ASSUME NEW p \in Port PROVE PortSelected(p)'
  <2>1. Selected(p) => Selected(p)'
    BY <1>0, <1>1, <1>2, Roles DEF Selects, ActState
  <2> QED BY <1>1, <2>1, PortsStay DEF DeliveryInv, shared
<1> QED BY <1>3, <1>4, <1>5 DEF DeliveryInv

LEMMA KeepsEndPolling ==
  ASSUME DeliveryInv, NEW a \in Actor, EndPolling(a)
  PROVE  DeliveryInv'
<1>0. Basic /\ ActorOK(a) /\ act[a] \in ActState
  BY DEF DeliveryInv, Basic, TypeOK
<1>1. /\ act[a].pc = "poll_reset" /\ vc' = vc
      /\ UNCHANGED <<shared, blocked, poll_mask, poll_timer, sched>>
  BY DEF EndPolling
<1>2. /\ act' \in [Actor -> ActState] /\ Others(a)
      /\ act'[a] = [act[a] EXCEPT !.pc = "poll_mask"]
  BY <1>0, GotoTyped DEF EndPolling, Basic, TypeOK, ActPc
<1>3. Basic'
  <2>1. TypeOK'
    BY <1>0, <1>1, <1>2 DEF Basic, TypeOK, shared, sleep, sched, EndPolling
  <2>2. ActorOK(a)'
    BY <1>0, <1>1, <1>2 DEF ActorOK, Unblocking, ActState
  <2>3. \A v \in Vcpu : VcpuOK(v)'
    BY <1>0, <1>1, VcpusStay DEF Basic, TypeOK, Asleep, sleep, sched, EndPolling
  <2> QED BY <1>0, <1>1, <1>2, <2>1, <2>2, <2>3, ActorsStay DEF Basic
<1>4. ASSUME NEW v \in Vcpu PROVE Follows(v)'
  <2>1. Follows(v)
    BY DEF DeliveryInv
  <2>2. /\ Woken(v) => Woken(v)'
        /\ Unblocked(v) => Unblocked(v)'
        /\ Taken(v) => Taken(v)'
        /\ Marked(v) => Marked(v)'
        /\ Kicked(v) => Kicked(v)'
    BY <1>0, <1>1, <1>2, Roles DEF Wakes, Unblocks, Takes, Marks, Kicks,
        Unblocking, ActState
  <2>3. ASSUME NEW p, Found(p, v) PROVE Found(p, v)'
    BY <1>0, <1>1, <1>2, <2>3, Roles DEF Finds, ActState, ActorOK, Unblocking
  <2> QED BY <1>1, <2>1, <2>2, <2>3, WakeStays, DeliveryStays, TakenStays,
            MarkedStays, KickedStays, PollStays
          DEF Follows, shared, sleep, sched
<1>5. ASSUME NEW p \in Port PROVE PortSelected(p)'
  <2>1. Selected(p) => Selected(p)'
    BY <1>0, <1>1, <1>2, Roles DEF Selects, ActState
  <2> QED BY <1>1, <2>1, PortsStay DEF DeliveryInv, shared
<1> QED BY <1>3, <1>4, <1>5 DEF DeliveryInv

LEMMA KeepsResetPoller ==
  ASSUME DeliveryInv, NEW a \in Actor, ResetPoller(a)
  PROVE  DeliveryInv'
<1>0. Basic /\ ActorOK(a) /\ act[a] \in ActState
  BY DEF DeliveryInv, Basic, TypeOK
<1>1. /\ act[a].pc = "poller_reset" /\ vc' = vc
      /\ UNCHANGED <<shared, blocked, poll_mask, poll_timer, sched>>
  BY DEF ResetPoller
<1>2. /\ act' \in [Actor -> ActState] /\ Others(a)
      /\ act'[a] = [act[a] EXCEPT !.pc = "unblock", !.then = "pollers"]
  BY <1>0, <1>1 DEF ResetPoller, Basic, TypeOK, ActState, ActPc, Others
<1>3. Basic'
  <2>1. TypeOK'
    BY <1>0, <1>1, <1>2 DEF Basic, TypeOK, shared, sleep, sched, ResetPoller
  <2>2. ActorOK(a)'
    BY <1>0, <1>1, <1>2 DEF ActorOK, Unblocking, ActState
  <2>3. \A v \in Vcpu : VcpuOK(v)'
    BY <1>0, <1>1, VcpusStay DEF Basic, TypeOK, Asleep, sleep, sched, ResetPoller
  <2> QED BY <1>0, <1>1, <1>2, <2>1, <2>2, <2>3, ActorsStay DEF Basic
<1>4. ASSUME NEW v \in Vcpu PROVE Follows(v)'
  <2>1. Follows(v)
    BY DEF DeliveryInv
  <2>2. /\ Woken(v) => Woken(v)'
        /\ Unblocked(v) => Unblocked(v)'
        /\ Taken(v) => Taken(v)'
        /\ Marked(v) => Marked(v)'
        /\ Kicked(v) => Kicked(v)'
    BY <1>0, <1>1, <1>2, Roles DEF Wakes, Unblocks, Takes, Marks, Kicks,
        Unblocking, ActState
  <2>3. ASSUME NEW p, Found(p, v) PROVE Found(p, v)'
    BY <1>0, <1>1, <1>2, <2>3, Roles DEF Finds, ActState, ActorOK, Unblocking
  <2> QED BY <1>1, <2>1, <2>2, <2>3, WakeStays, DeliveryStays, TakenStays,
            MarkedStays, KickedStays, PollStays
          DEF Follows, shared, sleep, sched
<1>5. ASSUME NEW p \in Port PROVE PortSelected(p)'
  <2>1. Selected(p) => Selected(p)'
    BY <1>0, <1>1, <1>2, Roles DEF Selects, ActState
  <2> QED BY <1>1, <2>1, PortsStay DEF DeliveryInv, shared
<1> QED BY <1>3, <1>4, <1>5 DEF DeliveryInv

\* After the notification of the vcpu the search for pollers begins.
LEMMA AfterNotifyFinds ==
  ASSUME NEW a \in Actor, ActorOK(a), NEW p, NEW v,
         act[a].pc \in {"sel", "mark", "ipi"}, Finds(act[a], p, v)
  PROVE  Finds(AfterNotify(a), p, v)
BY DEF Finds, AfterNotify, Quiet

\* Who sets the pending bit tests the mask and looks for pollers next.
LEMMA KeepsSetPending ==
  ASSUME DeliveryInv, NEW a \in Actor, SetPending(a)
  PROVE  DeliveryInv'
<1>0. Basic /\ ActorOK(a) /\ act[a] \in ActState
  BY DEF DeliveryInv, Basic, TypeOK
<1>1. /\ act[a].pc = "pending" /\ vc' = vc
      /\ UNCHANGED <<mask, sel, upcall_pending, upcall_mask, sleep, sched>>
  BY DEF SetPending
<1>2. /\ act' \in [Actor -> ActState] /\ Others(a)
      /\ act'[a] = IF act[a].port \in pending THEN Quiet
                   ELSE [act[a] EXCEPT !.pc = "mask"]
  <2>1. act' = [act EXCEPT ![a] = IF act[a].port \in pending THEN Quiet
                                  ELSE [act[a] EXCEPT !.pc = "mask"]]
    BY <1>0 DEF SetPending, Basic, TypeOK
  <2>2. [act[a] EXCEPT !.pc = "mask"] \in ActState
    BY <1>0 DEF ActState, ActPc
  <2> QED BY <1>0, <2>1, <2>2, ActTyped, Constants DEF Basic, TypeOK
<1>3. Basic'
  <2>1. TypeOK'
    BY <1>0, <1>1, <1>2, Constants
       DEF Basic, TypeOK, ActorOK, shared, sleep, sched, SetPending
  <2>2. ActorOK(a)'
    BY <1>0, <1>1, <1>2, Constants DEF ActorOK, Unblocking, ActState, Quiet
  <2>3. \A v \in Vcpu : VcpuOK(v)'
    BY <1>0, <1>1, VcpusStay DEF Basic, TypeOK, Asleep, sleep, sched
  <2> QED BY <1>0, <1>1, <1>2, <2>1, <2>2, <2>3, ActorsStay DEF Basic
<1>4. ASSUME NEW v \in Vcpu PROVE Follows(v)'
  <2>1. Follows(v)
    BY DEF DeliveryInv
  <2>2. /\ Woken(v) => Woken(v)'
        /\ Unblocked(v) => Unblocked(v)'
        /\ Taken(v) => Taken(v)'
        /\ Marked(v) => Marked(v)'
        /\ Kicked(v) => Kicked(v)'
    BY <1>0, <1>1, <1>2, Roles DEF Wakes, Unblocks, Takes, Marks, Kicks,
        Unblocking, ActState, Quiet
  <2>3. PollWakes(v)'
    <3>1. ASSUME NEW p, Found(p, v) PROVE Found(p, v)'
      BY <1>0, <1>1, <1>2, <3>1, Roles DEF Finds
    <3>2. \A q : q = act[a].port /\ q \notin pending => Found(q, v)'
      BY <1>0, <1>1, <1>2, Roles DEF Finds, ActorOK, ActState
    <3>3. pending' = pending \cup {act[a].port}
      BY DEF SetPending
    <3>4. SUFFICES ASSUME v \in poll_mask, NEW p \in pending', Tested(v, p)
                   PROVE  Found(p, v)'
      BY <1>1 DEF PollWakes, Tested, Asleep, sleep, sched
    <3>5. p \in pending => Found(p, v)
      BY <2>1, <3>4 DEF Follows, PollWakes
    <3>6. p \in pending \/ p = act[a].port
      BY <3>3
    <3> QED BY <3>1, <3>2, <3>5, <3>6
  <2>4. /\ WakeComes(v)' /\ DeliveryWakes(v)' /\ PollerTaken(v)'
        /\ SelectorMarked(v)' /\ GuestKicked(v)'
    BY <1>1, <2>1, <2>2, WakeStays, DeliveryStays, TakenStays, MarkedStays,
        KickedStays
       DEF shared, sleep, sched
  <2> QED BY <2>3, <2>4 DEF Follows
<1>5. ASSUME NEW p \in Port PROVE PortSelected(p)'
  <2>1. PortSelected(p) /\ pending' = pending \cup {act[a].port}
    BY DEF DeliveryInv, SetPending
  <2>2. Selected(p) => Selected(p)'
    BY <1>0, <1>1, <1>2, Roles DEF Selects, ActState
  <2>3. \A q : q = act[a].port /\ q \notin pending => Selected(q)'
    BY <1>0, <1>1, <1>2, Roles DEF Selects, ActState
  <2>4. SUFFICES ASSUME p \in pending', p \notin mask
                 PROVE  PortSelected(p)'
    BY <1>1 DEF PortSelected
  <2>5. p \in pending \/ (p = act[a].port /\ p \notin pending)
    BY <2>1, <2>4
  <2> QED BY <1>1, <2>1, <2>2, <2>3, <2>4, <2>5 DEF PortSelected, Handles
<1> QED BY <1>3, <1>4, <1>5 DEF DeliveryInv

\* Who finds the selector bit set has a selector that is not empty.
LEMMA KeepsSetSelector ==
  ASSUME DeliveryInv, NEW a \in Actor, SetSelector(a)
  PROVE  DeliveryInv'
<1>0. Basic /\ ActorOK(a) /\ act[a] \in ActState
  BY DEF DeliveryInv, Basic, TypeOK
<1>1. /\ act[a].pc = "sel" /\ vc' = vc
      /\ UNCHANGED <<pending, mask, upcall_pending, upcall_mask, sleep, sched>>
  BY DEF SetSelector
<1>2. /\ act' \in [Actor -> ActState] /\ Others(a)
      /\ act'[a] = IF Word(act[a].port) \in sel[act[a].v] THEN AfterNotify(a)
                   ELSE [act[a] EXCEPT !.pc = "mark"]
  <2>1. act' = [act EXCEPT ![a] = IF Word(act[a].port) \in sel[act[a].v]
                                  THEN AfterNotify(a)
                                  ELSE [act[a] EXCEPT !.pc = "mark"]]
    BY <1>0 DEF SetSelector, Basic, TypeOK
  <2>2. [act[a] EXCEPT !.pc = "mark"] \in ActState
    BY <1>0 DEF ActState, ActPc
  <2> QED BY <1>0, <2>1, <2>2, ActTyped, AfterNotifyTyped DEF Basic, TypeOK
<1>3. Basic'
  <2>1. TypeOK'
    BY <1>0, <1>1, <1>2, Constants
       DEF Basic, TypeOK, ActorOK, shared, sleep, sched, SetSelector
  <2>2. ActorOK(a)'
    BY <1>0, <1>1, <1>2, Constants
       DEF ActorOK, Unblocking, ActState, AfterNotify, Quiet
  <2>3. \A v \in Vcpu : VcpuOK(v)'
    BY <1>0, <1>1, VcpusStay DEF Basic, TypeOK, Asleep, sleep, sched
  <2> QED BY <1>0, <1>1, <1>2, <2>1, <2>2, <2>3, ActorsStay DEF Basic
<1>4. ASSUME NEW v \in Vcpu PROVE Follows(v)'
  <2>1. Follows(v)
    BY DEF DeliveryInv
  <2>2. /\ Woken(v) => Woken(v)'
        /\ Unblocked(v) => Unblocked(v)'
        /\ Taken(v) => Taken(v)'
        /\ Marked(v) => Marked(v)'
        /\ Kicked(v) => Kicked(v)'
    BY <1>0, <1>1, <1>2, Roles DEF Wakes, Unblocks, Takes, Marks, Kicks,
        Unblocking, ActState, AfterNotify, Quiet
  <2>3. ASSUME NEW p, Found(p, v) PROVE Found(p, v)'
    BY <1>0, <1>1, <1>2, <2>3, Roles, AfterNotifyFinds
       DEF Finds, ActState, ActorOK, Unblocking
  <2>4. SelectorMarked(v)'
    <3>1. \/ sel'[v] = sel[v]
          \/ act[a].v = v /\ sel'[v] = sel[v] \cup {Word(act[a].port)}
      BY <1>0 DEF SetSelector, Basic, TypeOK
    <3>2. act[a].v = v /\ Word(act[a].port) \notin sel[v] => Marked(v)'
      BY <1>0, <1>1, <1>2, Roles DEF Marks, ActState
    <3>3. sel'[v] # {} => sel[v] # {} \/ Marked(v)'
      BY <3>1, <3>2
    <3> QED BY <1>1, <2>1, <2>2, <3>3 DEF Follows, SelectorMarked
  <2>5. /\ WakeComes(v)' /\ DeliveryWakes(v)' /\ PollerTaken(v)'
        /\ GuestKicked(v)' /\ PollWakes(v)'
    BY <1>1, <2>1, <2>2, <2>3, WakeStays, DeliveryStays, TakenStays,
        KickedStays, PollStays
       DEF shared, sleep, sched
  <2> QED BY <2>4, <2>5 DEF Follows
<1>5. ASSUME NEW p \in Port PROVE PortSelected(p)'
  <2>1. PortSelected(p) /\ sel' = [sel EXCEPT ![act[a].v] = @ \cup {Word(act[a].port)}]
    BY DEF DeliveryInv, SetSelector
  <2>2. Selected(p) => Selected(p)' \/ act[a].port = p
    BY <1>0, <1>1, <1>2, Roles DEF Selects, ActState
  <2>3. /\ act[a].port = p => Word(p) \in sel'[Notify[p]]
        /\ Word(p) \in sel[Notify[p]] => Word(p) \in sel'[Notify[p]]
    BY <1>0, <1>1, <2>1, Constants DEF ActorOK, Basic, TypeOK
  <2> QED BY <1>1, <2>1, <2>2, <2>3 DEF PortSelected, Handles
<1> QED BY <1>3, <1>4, <1>5 DEF DeliveryInv

\* Who sets the upcall flag kicks the vcpu.
LEMMA KeepsMark ==
  ASSUME DeliveryInv, NEW a \in Actor, vcpu_mark_events_pending(a)
  PROVE  DeliveryInv'
<1>0. Basic /\ ActorOK(a) /\ act[a] \in ActState
  BY DEF DeliveryInv, Basic, TypeOK
<1>1. /\ act[a].pc = "mark" /\ vc' = vc
      /\ UNCHANGED <<pending, mask, sel, upcall_mask, sleep, sched>>
  BY DEF vcpu_mark_events_pending
<1>2. /\ act' \in [Actor -> ActState] /\ Others(a)
      /\ act'[a] = IF upcall_pending[act[a].v] THEN AfterNotify(a)
                   ELSE [act[a] EXCEPT !.pc = "kick"]
  <2>1. act' = [act EXCEPT ![a] = IF upcall_pending[act[a].v] THEN AfterNotify(a)
                                  ELSE [act[a] EXCEPT !.pc = "kick"]]
    BY <1>0 DEF vcpu_mark_events_pending, Basic, TypeOK
  <2>2. [act[a] EXCEPT !.pc = "kick"] \in ActState
    BY <1>0 DEF ActState, ActPc
  <2> QED BY <1>0, <2>1, <2>2, ActTyped, AfterNotifyTyped DEF Basic, TypeOK
<1>3. Basic'
  <2>1. TypeOK'
    BY <1>0, <1>1, <1>2
       DEF Basic, TypeOK, ActorOK, shared, sleep, sched, vcpu_mark_events_pending
  <2>2. ActorOK(a)'
    BY <1>0, <1>1, <1>2, Constants
       DEF ActorOK, Unblocking, ActState, AfterNotify, Quiet
  <2>3. \A v \in Vcpu : VcpuOK(v)'
    BY <1>0, <1>1, VcpusStay DEF Basic, TypeOK, Asleep, sleep, sched
  <2> QED BY <1>0, <1>1, <1>2, <2>1, <2>2, <2>3, ActorsStay DEF Basic
<1>4. \A v \in Vcpu : upcall_pending'[v] = (upcall_pending[v] \/ act[a].v = v)
  BY <1>0 DEF vcpu_mark_events_pending, Basic, TypeOK
<1>5. ASSUME NEW v \in Vcpu PROVE Follows(v)'
  <2>1. Follows(v)
    BY DEF DeliveryInv
  <2>2. /\ Woken(v) => Woken(v)'
        /\ Unblocked(v) => Unblocked(v)'
        /\ Taken(v) => Taken(v)'
        /\ Kicked(v) => Kicked(v)'
    BY <1>0, <1>1, <1>2, Roles DEF Wakes, Unblocks, Takes, Kicks, Unblocking,
        ActState, AfterNotify, Quiet
  <2>3. ASSUME NEW p, Found(p, v) PROVE Found(p, v)'
    <3>1. act'[a] = AfterNotify(a) \/ act'[a] = [act[a] EXCEPT !.pc = "kick"]
      BY <1>2
    <3>2. Finds(act[a], p, v) => Finds(act'[a], p, v)
      BY <1>0, <1>1, <3>1, AfterNotifyFinds DEF Finds, ActState
    <3> QED BY <1>2, <2>3, <3>2, Roles
  <2>4. SelectorMarked(v)'
    <3>1. Marked(v) => Marked(v)' \/ act[a].v = v
      BY <1>0, <1>1, <1>2, Roles DEF Marks
    <3> QED BY <1>1, <2>1, <3>1, <1>4 DEF Follows, SelectorMarked
  <2>5. DeliveryWakes(v)'
    <3>1. act[a].v = v /\ ~upcall_pending[v] => Unblocked(v)'
      BY <1>0, <1>1, <1>2, Roles DEF Unblocks, ActState
    <3>2. NeedDelivery(v)' => NeedDelivery(v) \/ Unblocked(v)'
      BY <1>1, <1>4, <3>1 DEF NeedDelivery
    <3> QED BY <1>1, <2>1, <2>2, <3>2
               DEF Follows, DeliveryWakes, Dozing, Asleep, sleep, sched
  <2>6. GuestKicked(v)'
    <3>1. act[a].v = v /\ ~upcall_pending[v] => Kicked(v)'
      BY <1>0, <1>1, <1>2, Roles DEF Kicks, ActState
    <3>2. NeedDelivery(v)' => NeedDelivery(v) \/ Kicked(v)'
      BY <1>1, <1>4, <3>1 DEF NeedDelivery
    <3> QED BY <1>1, <2>1, <2>2, <3>2 DEF Follows, GuestKicked, sched
  <2>7. WakeComes(v)' /\ PollerTaken(v)' /\ PollWakes(v)'
    BY <1>1, <2>1, <2>2, <2>3, WakeStays, TakenStays, PollStays
       DEF shared, sleep, sched
  <2> QED BY <2>4, <2>5, <2>6, <2>7 DEF Follows
<1>6. ASSUME NEW p \in Port PROVE PortSelected(p)'
  <2>1. Selected(p) => Selected(p)'
    BY <1>0, <1>1, <1>2, Roles DEF Selects, ActState
  <2> QED BY <1>1, <2>1, PortsStay DEF DeliveryInv, shared
<1> QED BY <1>3, <1>5, <1>6 DEF DeliveryInv

\* Nobody kicks himself: a vcpu that notifies is not in the guest.
LEMMA KeepsKickIpi ==
  ASSUME DeliveryInv, NEW a \in Actor, KickIpi(a)
  PROVE  DeliveryInv'
<1>0. Basic /\ ActorOK(a) /\ act[a] \in ActState
  BY DEF DeliveryInv, Basic, TypeOK
<1>1. /\ act[a].pc = "ipi" /\ vc' = vc
      /\ UNCHANGED <<shared, sleep, runstate, is_running>>
  BY DEF KickIpi
<1>2. /\ act' \in [Actor -> ActState] /\ Others(a)
      /\ act'[a] = AfterNotify(a)
  BY <1>0, ActTyped, AfterNotifyTyped DEF KickIpi, Basic, TypeOK
<1>3. Basic'
  <2>1. TypeOK'
    BY <1>0, <1>1, <1>2 DEF Basic, TypeOK, ActorOK, shared, sleep, sched, KickIpi
  <2>2. ActorOK(a)'
    BY <1>0, <1>1, <1>2, Constants
       DEF ActorOK, Unblocking, ActState, AfterNotify, Quiet
  <2>3. \A v \in Vcpu : VcpuOK(v)'
    BY <1>0, <1>1, VcpusStay DEF Basic, TypeOK, Asleep, sleep, sched
  <2> QED BY <1>0, <1>1, <1>2, <2>1, <2>2, <2>3, ActorsStay DEF Basic
<1>4. ASSUME NEW v \in Vcpu PROVE Follows(v)'
  <2>1. Follows(v)
    BY DEF DeliveryInv
  <2>2. /\ Woken(v) => Woken(v)'
        /\ Unblocked(v) => Unblocked(v)'
        /\ Taken(v) => Taken(v)'
        /\ Marked(v) => Marked(v)'
    BY <1>0, <1>1, <1>2, Roles DEF Wakes, Unblocks, Takes, Marks, Unblocking,
        ActState, AfterNotify, Quiet
  <2>3. ASSUME NEW p, Found(p, v) PROVE Found(p, v)'
    BY <1>0, <1>1, <1>2, <2>3, Roles, AfterNotifyFinds
       DEF Finds, ActState, ActorOK, Unblocking
  <2>4. GuestKicked(v)'
    <3>1. vc[v].pc = "guest" => a # v
      BY <1>0, <1>1 DEF ActorOK
    <3>2. Kicked(v) => Kicked(v)' \/ (act[a].v = v /\ act[a].run)
      BY <1>0, <1>1, <1>2, Roles DEF Kicks, Unblocking, ActState
    <3>3. /\ v \in kicked => v \in kicked'
          /\ act[a].v = v /\ act[a].run /\ a # v => v \in kicked'
      BY DEF KickIpi
    <3> QED BY <1>1, <2>1, <3>1, <3>2, <3>3
               DEF Follows, GuestKicked, NeedDelivery, shared
  <2>5. /\ WakeComes(v)' /\ DeliveryWakes(v)' /\ PollerTaken(v)'
        /\ SelectorMarked(v)' /\ PollWakes(v)'
    BY <1>1, <2>1, <2>2, <2>3, WakeStays, DeliveryStays, TakenStays,
        MarkedStays, PollStays
       DEF shared, sleep, sched
  <2> QED BY <2>4, <2>5 DEF Follows
<1>5. ASSUME NEW p \in Port PROVE PortSelected(p)'
  <2>1. Selected(p) => Selected(p)'
    BY <1>0, <1>1, <1>2, Roles DEF Selects, ActState
  <2> QED BY <1>1, <2>1, PortsStay DEF DeliveryInv, shared
<1> QED BY <1>3, <1>4, <1>5 DEF DeliveryInv

\* An actor that sends goes on with its search after vcpu_unblock.
LEMMA UnblockReturnedFinds ==
  ASSUME NEW a \in Actor, ActorOK(a), act[a] \in ActState, NEW p, NEW v,
         act[a].pc \in Unblocking, Finds(act[a], p, v)
  PROVE  Finds(UnblockReturned(a), p, v)
<1>1. act[a].op = "send" /\ act[a].port = p /\ \A u \in act[a].seen : u < v
  BY DEF Finds, Unblocking
<1>2. act[a].then \in {"ipi", "pollers"}
  BY <1>1 DEF ActorOK
<1>3. UnblockReturned(a) = [act[a] EXCEPT !.pc = act[a].then, !.then = "none"]
  BY <1>2 DEF UnblockReturned
<1> QED BY <1>1, <1>2, <1>3 DEF Finds, ActState

\* Who takes a vcpu out of poll_mask will unblock it.
LEMMA KeepsTakePoller ==
  ASSUME DeliveryInv, NEW a \in Actor, TakePoller(a)
  PROVE  DeliveryInv'
<1>0. Basic /\ ActorOK(a) /\ act[a] \in ActState
  BY DEF DeliveryInv, Basic, TypeOK
<1>1. /\ act[a].pc = "poller" /\ vc' = vc
      /\ UNCHANGED <<shared, blocked, poll_evtchn, poll_timer, sched>>
  BY DEF TakePoller
<1>2. /\ act' \in [Actor -> ActState] /\ Others(a)
      /\ act'[a] = [act[a] EXCEPT !.pc = IF act[a].v \in poll_mask
                                         THEN "poller_reset" ELSE "pollers"]
  BY <1>0, GotoTyped DEF TakePoller, Basic, TypeOK, ActPc
<1>3. Basic'
  <2>1. TypeOK'
    BY <1>0, <1>1, <1>2 DEF Basic, TypeOK, ActorOK, shared, sleep, sched, TakePoller
  <2>2. ActorOK(a)'
    BY <1>0, <1>1, <1>2 DEF ActorOK, Unblocking, ActState
  <2>3. \A v \in Vcpu : VcpuOK(v)'
    BY <1>0, <1>1, VcpusStay DEF Basic, TypeOK, Asleep, sleep, sched
  <2> QED BY <1>0, <1>1, <1>2, <2>1, <2>2, <2>3, ActorsStay DEF Basic
<1>4. ASSUME NEW v \in Vcpu PROVE Follows(v)'
  <2>1. Follows(v)
    BY DEF DeliveryInv
  <2>2. /\ Woken(v) => Woken(v)'
        /\ Unblocked(v) => Unblocked(v)'
        /\ Taken(v) => Taken(v)'
        /\ Marked(v) => Marked(v)'
        /\ Kicked(v) => Kicked(v)'
    BY <1>0, <1>1, <1>2, Roles DEF Wakes, Unblocks, Takes, Marks, Kicks,
        Unblocking, ActState
  <2>3. PollWakes(v)'
    <3>1. ASSUME NEW p, Found(p, v), v \in poll_mask' PROVE Found(p, v)'
      <4>1. v # act[a].v
        BY <3>1 DEF TakePoller
      <4> QED BY <1>0, <1>1, <1>2, <3>1, <4>1, Roles DEF Finds, ActState
    <3>2. v \in poll_mask' => v \in poll_mask
      BY DEF TakePoller
    <3> QED BY <1>1, <2>1, <3>1, <3>2
               DEF Follows, PollWakes, Tested, Asleep, shared, sched
  <2>4. PollerTaken(v)'
    <3>1. v \in poll_mask /\ v \notin poll_mask' => Taken(v)'
      BY <1>0, <1>1, <1>2, Roles DEF TakePoller, Takes, ActState
    <3> QED BY <1>1, <2>1, <2>2, <3>1
               DEF Follows, PollerTaken, Registered, Asleep, sched
  <2>5. /\ WakeComes(v)' /\ DeliveryWakes(v)' /\ SelectorMarked(v)'
        /\ GuestKicked(v)'
    BY <1>1, <2>1, <2>2, WakeStays, DeliveryStays, MarkedStays, KickedStays
       DEF shared, sleep, sched
  <2> QED BY <2>3, <2>4, <2>5 DEF Follows
<1>5. ASSUME NEW p \in Port PROVE PortSelected(p)'
  <2>1. Selected(p) => Selected(p)'
    BY <1>0, <1>1, <1>2, Roles DEF Selects, ActState
  <2> QED BY <1>1, <2>1, PortsStay DEF DeliveryInv, shared
<1> QED BY <1>3, <1>4, <1>5 DEF DeliveryInv

LEMMA KeepsClearPollMask ==
  ASSUME DeliveryInv, NEW a \in Actor, ClearPollMask(a)
  PROVE  DeliveryInv'
<1>0. Basic /\ ActorOK(a) /\ act[a] \in ActState
  BY DEF DeliveryInv, Basic, TypeOK
<1>1. /\ act[a].pc = "poll_mask" /\ vc' = vc
      /\ UNCHANGED <<shared, blocked, poll_evtchn, poll_timer, sched>>
  BY DEF ClearPollMask
<1>2. /\ act' \in [Actor -> ActState] /\ Others(a)
      /\ act'[a] = [act[a] EXCEPT !.pc = IF act[a].v \in poll_mask
                                         THEN "reclear" ELSE "wake"]
  BY <1>0, GotoTyped DEF ClearPollMask, Basic, TypeOK, ActPc
<1>3. Basic'
  <2>1. TypeOK'
    BY <1>0, <1>1, <1>2
       DEF Basic, TypeOK, ActorOK, shared, sleep, sched, ClearPollMask
  <2>2. ActorOK(a)'
    BY <1>0, <1>1, <1>2 DEF ActorOK, Unblocking, ActState
  <2>3. \A v \in Vcpu : VcpuOK(v)'
    BY <1>0, <1>1, VcpusStay DEF Basic, TypeOK, Asleep, sleep, sched
  <2> QED BY <1>0, <1>1, <1>2, <2>1, <2>2, <2>3, ActorsStay DEF Basic
<1>4. ASSUME NEW v \in Vcpu PROVE Follows(v)'
  <2>1. Follows(v)
    BY DEF DeliveryInv
  <2>2. /\ Woken(v) => Woken(v)'
        /\ Unblocked(v) => Unblocked(v)'
        /\ Taken(v) => Taken(v)'
        /\ Marked(v) => Marked(v)'
        /\ Kicked(v) => Kicked(v)'
    BY <1>0, <1>1, <1>2, Roles DEF Wakes, Unblocks, Takes, Marks, Kicks,
        Unblocking, ActState
  <2>3. PollWakes(v)'
    <3>1. ASSUME NEW p, Found(p, v) PROVE Found(p, v)'
      BY <1>0, <1>1, <1>2, <3>1, Roles DEF Finds, ActState
    <3>2. v \in poll_mask' => v \in poll_mask
      BY DEF ClearPollMask
    <3> QED BY <1>1, <2>1, <3>1, <3>2
               DEF Follows, PollWakes, Tested, Asleep, shared, sched
  <2>4. PollerTaken(v)'
    <3>1. v \in poll_mask /\ v \notin poll_mask' => Taken(v)'
      BY <1>0, <1>1, <1>2, Roles DEF ClearPollMask, Takes, ActState
    <3> QED BY <1>1, <2>1, <2>2, <3>1
               DEF Follows, PollerTaken, Registered, Asleep, sched
  <2>5. /\ WakeComes(v)' /\ DeliveryWakes(v)' /\ SelectorMarked(v)'
        /\ GuestKicked(v)'
    BY <1>1, <2>1, <2>2, WakeStays, DeliveryStays, MarkedStays, KickedStays
       DEF shared, sleep, sched
  <2> QED BY <2>3, <2>4, <2>5 DEF Follows
<1>5. ASSUME NEW p \in Port PROVE PortSelected(p)'
  <2>1. Selected(p) => Selected(p)'
    BY <1>0, <1>1, <1>2, Roles DEF Selects, ActState
  <2> QED BY <1>1, <2>1, PortsStay DEF DeliveryInv, shared
<1> QED BY <1>3, <1>4, <1>5 DEF DeliveryInv

\* Who clears _VPF_blocked calls vcpu_wake.
LEMMA KeepsUnblock ==
  ASSUME DeliveryInv, NEW a \in Actor, Unblock(a)
  PROVE  DeliveryInv'
<1>0. Basic /\ ActorOK(a) /\ act[a] \in ActState
  BY DEF DeliveryInv, Basic, TypeOK
<1>1. /\ act[a].pc = "unblock" /\ vc' = vc
      /\ UNCHANGED <<shared, poll_mask, poll_evtchn, poll_timer, sched>>
  BY DEF Unblock
<1>2. /\ act' \in [Actor -> ActState] /\ Others(a)
      /\ act'[a] = IF act[a].v \in blocked
                   THEN [act[a] EXCEPT !.pc = "poll_evtchn"]
                   ELSE UnblockReturned(a)
  <2>1. UnblockReturned(a) \in ActState
    BY <1>0, <1>1, UnblockReturnedTyped DEF Basic, TypeOK, Unblocking
  <2>2. [act[a] EXCEPT !.pc = "poll_evtchn"] \in ActState
    BY <1>0 DEF ActState, ActPc
  <2> QED BY <1>0, <2>1, <2>2, ActTyped DEF Unblock, Basic, TypeOK
<1>3. Basic'
  <2>1. TypeOK'
    BY <1>0, <1>1, <1>2 DEF Basic, TypeOK, ActorOK, shared, sleep, sched, Unblock
  <2>2. ActorOK(a)'
    BY <1>0, <1>1, <1>2, Constants
       DEF ActorOK, Unblocking, ActState, UnblockReturned, Quiet
  <2>3. \A v \in Vcpu : VcpuOK(v)'
    BY <1>0, <1>1, VcpusStay DEF Basic, TypeOK, Asleep, sleep, sched
  <2> QED BY <1>0, <1>1, <1>2, <2>1, <2>2, <2>3, ActorsStay DEF Basic
<1>4. ASSUME NEW v \in Vcpu PROVE Follows(v)'
  <2>1. Follows(v)
    BY DEF DeliveryInv
  <2>2. /\ Woken(v) => Woken(v)'
        /\ Marked(v) => Marked(v)'
        /\ Kicked(v) => Kicked(v)'
    <3>1. ~Wakes(act[a], v) /\ ~Marks(act[a], v)
      BY <1>1 DEF Wakes, Marks, Unblocking
    <3>2. Kicks(act[a], v) => Kicks(act'[a], v)
      BY <1>0, <1>1, <1>2 DEF Kicks, Unblocking, ActState, UnblockReturned
    <3> QED BY <1>2, <3>1, <3>2, Roles
  <2>3. ASSUME NEW p, Found(p, v) PROVE Found(p, v)'
    <3>1. Finds(act[a], p, v) => Finds(act'[a], p, v)
      BY <1>0, <1>1, <1>2, UnblockReturnedFinds DEF Finds, ActState, Unblocking
    <3> QED BY <1>2, <2>3, <3>1, Roles
  <2>4. WakeComes(v)'
    <3>1. v \in blocked /\ v \notin blocked' => Woken(v)'
      BY <1>0, <1>1, <1>2, Roles DEF Unblock, Wakes, Unblocking, ActState
    <3> QED BY <1>1, <2>1, <2>2, <3>1 DEF Follows, WakeComes, Asleep, sched
  <2>5. DeliveryWakes(v)'
    <3>1. Unblocked(v) /\ v \in blocked' => Unblocked(v)'
      BY <1>0, <1>1, <1>2, Roles DEF Unblock, Unblocks
    <3>2. v \in blocked' => v \in blocked
      BY DEF Unblock
    <3> QED BY <1>1, <2>1, <3>1, <3>2
            DEF Follows, DeliveryWakes, Dozing, Asleep, NeedDelivery, shared, sched
  <2>6. PollerTaken(v)'
    <3>1. Taken(v) /\ v \in blocked' => Taken(v)'
      BY <1>0, <1>1, <1>2, Roles DEF Unblock, Takes
    <3>2. v \in blocked' => v \in blocked
      BY DEF Unblock
    <3> QED BY <1>1, <2>1, <3>1, <3>2
               DEF Follows, PollerTaken, Registered, Asleep, sched
  <2>7. SelectorMarked(v)' /\ GuestKicked(v)' /\ PollWakes(v)'
    BY <1>1, <2>1, <2>2, <2>3, MarkedStays, KickedStays, PollStays
       DEF shared, sleep, sched
  <2> QED BY <2>4, <2>5, <2>6, <2>7 DEF Follows
<1>5. ASSUME NEW p \in Port PROVE PortSelected(p)'
  <2>1. Selected(p) => Selected(p)'
    BY <1>0, <1>1, <1>2, Roles DEF Selects, ActState
  <2> QED BY <1>1, <2>1, PortsStay DEF DeliveryInv, shared
<1> QED BY <1>3, <1>4, <1>5 DEF DeliveryInv

LEMMA KeepsReclearBlocked ==
  ASSUME DeliveryInv, NEW a \in Actor, ReclearBlocked(a)
  PROVE  DeliveryInv'
<1>0. Basic /\ ActorOK(a) /\ act[a] \in ActState
  BY DEF DeliveryInv, Basic, TypeOK
<1>1. /\ act[a].pc = "reclear" /\ vc' = vc
      /\ UNCHANGED <<shared, poll_mask, poll_evtchn, poll_timer, sched>>
  BY DEF ReclearBlocked
<1>2. /\ act' \in [Actor -> ActState] /\ Others(a)
      /\ act'[a] = [act[a] EXCEPT !.pc = "wake"]
  BY <1>0, GotoTyped DEF ReclearBlocked, Basic, TypeOK, ActPc
<1>3. Basic'
  <2>1. TypeOK'
    BY <1>0, <1>1, <1>2
       DEF Basic, TypeOK, ActorOK, shared, sleep, sched, ReclearBlocked
  <2>2. ActorOK(a)'
    BY <1>0, <1>1, <1>2 DEF ActorOK, Unblocking, ActState
  <2>3. \A v \in Vcpu : VcpuOK(v)'
    BY <1>0, <1>1, VcpusStay DEF Basic, TypeOK, Asleep, sleep, sched
  <2> QED BY <1>0, <1>1, <1>2, <2>1, <2>2, <2>3, ActorsStay DEF Basic
<1>4. ASSUME NEW v \in Vcpu PROVE Follows(v)'
  <2>1. Follows(v)
    BY DEF DeliveryInv
  <2>2. /\ Woken(v) => Woken(v)'
        /\ Marked(v) => Marked(v)'
        /\ Kicked(v) => Kicked(v)'
    BY <1>0, <1>1, <1>2, Roles DEF Wakes, Marks, Kicks, Unblocking, ActState
  <2>3. ASSUME NEW p, Found(p, v) PROVE Found(p, v)'
    BY <1>0, <1>1, <1>2, <2>3, Roles DEF Finds, ActState, ActorOK, Unblocking
  <2>4. WakeComes(v)'
    <3>1. v \in blocked /\ v \notin blocked' => Woken(v)'
      BY <1>0, <1>1, <1>2, Roles DEF ReclearBlocked, Wakes, Unblocking, ActState
    <3> QED BY <1>1, <2>1, <2>2, <3>1 DEF Follows, WakeComes, Asleep, sched
  <2>5. DeliveryWakes(v)'
    <3>1. Unblocked(v) /\ v \in blocked' => Unblocked(v)'
      BY <1>0, <1>1, <1>2, Roles DEF ReclearBlocked, Unblocks
    <3>2. v \in blocked' => v \in blocked
      BY DEF ReclearBlocked
    <3> QED BY <1>1, <2>1, <3>1, <3>2
            DEF Follows, DeliveryWakes, Dozing, Asleep, NeedDelivery, shared, sched
  <2>6. PollerTaken(v)'
    <3>1. Taken(v) /\ v \in blocked' => Taken(v)'
      BY <1>0, <1>1, <1>2, Roles DEF ReclearBlocked, Takes
    <3>2. v \in blocked' => v \in blocked
      BY DEF ReclearBlocked
    <3> QED BY <1>1, <2>1, <3>1, <3>2
               DEF Follows, PollerTaken, Registered, Asleep, sched
  <2>7. SelectorMarked(v)' /\ GuestKicked(v)' /\ PollWakes(v)'
    BY <1>1, <2>1, <2>2, <2>3, MarkedStays, KickedStays, PollStays
       DEF shared, sleep, sched
  <2> QED BY <2>4, <2>5, <2>6, <2>7 DEF Follows
<1>5. ASSUME NEW p \in Port PROVE PortSelected(p)'
  <2>1. Selected(p) => Selected(p)'
    BY <1>0, <1>1, <1>2, Roles DEF Selects, ActState
  <2> QED BY <1>1, <2>1, PortsStay DEF DeliveryInv, shared
<1> QED BY <1>3, <1>4, <1>5 DEF DeliveryInv

\* vcpu_wake finds _VPF_blocked clear, or somebody else will clear it.
LEMMA KeepsWake ==
  ASSUME DeliveryInv, NEW a \in Actor, vcpu_wake(a)
  PROVE  DeliveryInv'
<1>0. Basic /\ ActorOK(a) /\ act[a] \in ActState
  BY DEF DeliveryInv, Basic, TypeOK
<1>1. /\ act[a].pc = "wake" /\ vc' = vc
      /\ UNCHANGED <<shared, sleep, is_running, kicked>>
  BY DEF vcpu_wake
<1>2. /\ act' \in [Actor -> ActState] /\ Others(a)
      /\ act'[a] = UnblockReturned(a)
  BY <1>0, <1>1, UnblockReturnedTyped, ActTyped
     DEF vcpu_wake, Basic, TypeOK, Unblocking
<1>3. Basic'
  <2>1. TypeOK'
    BY <1>0, <1>1, <1>2 DEF Basic, TypeOK, ActorOK, shared, sleep, sched, vcpu_wake
  <2>2. ActorOK(a)'
    BY <1>0, <1>1, <1>2, Constants
       DEF ActorOK, Unblocking, ActState, UnblockReturned, Quiet
  <2>3. \A v \in Vcpu : VcpuOK(v)'
    BY <1>0, <1>1, VcpusStay DEF Basic, TypeOK, Asleep, sleep, sched, vcpu_wake
  <2> QED BY <1>0, <1>1, <1>2, <2>1, <2>2, <2>3, ActorsStay DEF Basic
<1>4. \A v \in Vcpu : Asleep(v)' => Asleep(v)
  BY <1>0 DEF vcpu_wake, Asleep, Basic, TypeOK
<1>5. ASSUME NEW v \in Vcpu PROVE Follows(v)'
  <2>1. Follows(v)
    BY DEF DeliveryInv
  <2>2. /\ Unblocked(v) => Unblocked(v)'
        /\ Taken(v) => Taken(v)'
        /\ Marked(v) => Marked(v)'
        /\ Kicked(v) => Kicked(v)'
    BY <1>0, <1>1, <1>2, Roles DEF Unblocks, Takes, Marks, Kicks, Unblocking,
        ActState, UnblockReturned, Quiet
  <2>3. PollWakes(v)'
    <3>1. ASSUME NEW p, Found(p, v) PROVE Found(p, v)'
      BY <1>0, <1>1, <1>2, <3>1, Roles, UnblockReturnedFinds DEF Unblocking
    <3> QED BY <1>1, <1>4, <2>1, <3>1 DEF Follows, PollWakes, Tested, shared, sleep
  <2>4. WakeComes(v)'
    <3>1. Woken(v) => Woken(v)' \/ act[a].v = v
      BY <1>0, <1>1, <1>2, Roles DEF Wakes
    <3>2. act[a].v = v /\ v \notin blocked => ~Asleep(v)'
      BY <1>0 DEF vcpu_wake, Asleep, Basic, TypeOK
    <3> QED BY <1>1, <1>4, <2>1, <3>1, <3>2 DEF Follows, WakeComes, sleep
  <2>5. DeliveryWakes(v)'
    BY <1>1, <1>4, <2>1, <2>2
       DEF Follows, DeliveryWakes, Dozing, NeedDelivery, shared, sleep
  <2>6. PollerTaken(v)'
    BY <1>1, <1>4, <2>1, <2>2 DEF Follows, PollerTaken, Registered, sleep
  <2>7. SelectorMarked(v)' /\ GuestKicked(v)'
    BY <1>1, <2>1, <2>2, MarkedStays, KickedStays
       DEF shared, sleep, sched
  <2> QED BY <2>3, <2>4, <2>5, <2>6, <2>7 DEF Follows
<1>6. ASSUME NEW p \in Port PROVE PortSelected(p)'
  <2>1. Selected(p) => Selected(p)'
    BY <1>0, <1>1, <1>2, Roles DEF Selects, ActState
  <2> QED BY <1>1, <2>1, PortsStay DEF DeliveryInv, shared
<1> QED BY <1>3, <1>5, <1>6 DEF DeliveryInv

\* The search for pollers takes them in the order of their numbers.
LEMMA FirstPoller ==
  ASSUME Basic, NEW a \in Actor, PollersLeft(a) # {}
  PROVE  /\ NextPoller(a) \in PollersLeft(a) /\ NextPoller(a) \in Vcpu
         /\ \A w \in PollersLeft(a) : NextPoller(a) <= w
<1>1. PollersLeft(a) \subseteq Vcpu /\ PollersLeft(a) \subseteq Nat
  BY Constants DEF PollersLeft, Basic, TypeOK
<1>2. \E u \in PollersLeft(a) : \A w \in PollersLeft(a) : u <= w
  BY <1>1, LeastNatural
<1> QED BY <1>1, <1>2 DEF NextPoller

\* The search takes the pollers in order and passes none who waits for its port.
LEMMA KeepsFindPoller ==
  ASSUME DeliveryInv, NEW a \in Actor, FindPoller(a)
  PROVE  DeliveryInv'
<1>0. Basic /\ ActorOK(a) /\ act[a] \in ActState
  BY DEF DeliveryInv, Basic, TypeOK
<1>1. /\ act[a].pc = "pollers" /\ vc' = vc
      /\ UNCHANGED <<shared, sleep, sched>>
  BY DEF FindPoller
<1>2. /\ act' \in [Actor -> ActState] /\ Others(a)
      /\ \/ PollersLeft(a) = {} /\ act'[a] = Quiet
         \/ /\ PollersLeft(a) # {}
            /\ act'[a] = [act[a] EXCEPT
                 !.v = NextPoller(a), !.seen = @ \cup {NextPoller(a)},
                 !.pc = IF Interested(NextPoller(a), act[a].port)
                        THEN "poller" ELSE "pollers"]
  <2>1. CASE PollersLeft(a) = {}
    BY <1>0, <2>1, ActTyped, Constants DEF FindPoller, Basic, TypeOK
  <2>2. CASE PollersLeft(a) # {}
    <3> DEFINE s == [act[a] EXCEPT
                       !.v = NextPoller(a), !.seen = @ \cup {NextPoller(a)},
                       !.pc = IF Interested(NextPoller(a), act[a].port)
                              THEN "poller" ELSE "pollers"]
    <3>1. act' = [act EXCEPT ![a] = s]
      BY <1>0, <2>2 DEF FindPoller, Basic, TypeOK
    <3>2. s \in ActState
      BY <1>0, <2>2, FirstPoller DEF ActState, ActPc
    <3> QED BY <1>0, <2>2, <3>1, <3>2, ActTyped DEF Basic, TypeOK
  <2> QED BY <2>1, <2>2
<1>3. ASSUME PollersLeft(a) # {}
      PROVE  /\ act'[a].v = NextPoller(a)
             /\ act'[a].seen = act[a].seen \cup {NextPoller(a)}
             /\ act'[a].op = act[a].op /\ act'[a].port = act[a].port
             /\ act'[a].pc = IF Interested(NextPoller(a), act[a].port)
                             THEN "poller" ELSE "pollers"
  BY <1>0, <1>2, <1>3 DEF ActState
<1>4. Basic'
  <2>1. TypeOK'
    BY <1>0, <1>1, <1>2 DEF Basic, TypeOK, ActorOK, shared, sleep, sched, FindPoller
  <2>2. ActorOK(a)'
    <3>1. /\ act[a].op = "send" /\ act[a].port \in Port
          /\ a \in Vcpu => vc[a].pc = "hypercall" /\ act[a].op = "unmask"
      BY <1>0, <1>1 DEF ActorOK
    <3>2. \/ act'[a] = Quiet
          \/ /\ act'[a].op = "send" /\ act'[a].port \in Port
             /\ act'[a].v \in Vcpu /\ act'[a].pc \in {"poller", "pollers"}
      BY <1>0, <1>2, <1>3, <3>1, FirstPoller
    <3> QED BY <1>1, <3>1, <3>2 DEF ActorOK, Unblocking, Quiet
  <2>3. \A v \in Vcpu : VcpuOK(v)'
    BY <1>0, <1>1, VcpusStay DEF Basic, TypeOK, Asleep, sleep, sched
  <2> QED BY <1>0, <1>1, <1>2, <2>1, <2>2, <2>3, ActorsStay DEF Basic
<1>5. ASSUME NEW v \in Vcpu PROVE Follows(v)'
  <2>1. Follows(v)
    BY DEF DeliveryInv
  <2>2. /\ Woken(v) => Woken(v)'
        /\ Unblocked(v) => Unblocked(v)'
        /\ Taken(v) => Taken(v)'
        /\ Marked(v) => Marked(v)'
        /\ Kicked(v) => Kicked(v)'
    BY <1>0, <1>1, <1>2, Roles DEF Wakes, Unblocks, Takes, Marks, Kicks,
        Unblocking, ActState, Quiet
  <2>3. PollWakes(v)'
    <3>1. SUFFICES ASSUME v \in poll_mask, NEW p \in pending, Tested(v, p), Found(p, v)
                   PROVE  Found(p, v)'
      BY <1>1, <2>1 DEF Follows, PollWakes, Tested, Asleep, shared, sleep, sched
    <3>2. CASE ~Finds(act[a], p, v)
      BY <1>2, <3>1, <3>2, Roles
    <3>3. CASE Finds(act[a], p, v)
      <4>1. act[a].op = "send" /\ act[a].port = p /\ \A u \in act[a].seen : u < v
        BY <1>1, <3>3 DEF Finds
      <4>2. \A u \in act[a].seen : u \in Nat
        BY <1>0, Constants DEF ActState
      <4>3. v \in PollersLeft(a)
        BY <3>1, <4>1, <4>2, Constants DEF PollersLeft
      <4>4. NextPoller(a) \in Nat /\ v \in Nat /\ NextPoller(a) <= v
        BY <1>0, <4>3, FirstPoller, Constants
      <4>5. CASE NextPoller(a) < v
        <5>1. \A u \in act'[a].seen : u < v
          BY <1>3, <4>1, <4>3, <4>5
        <5>2. /\ act'[a].op = "send" /\ act'[a].port = p
              /\ act'[a].pc \in {"poller", "pollers"}
          BY <1>3, <4>1, <4>3
        <5> QED BY <1>2, <5>1, <5>2, Roles DEF Finds
      <4>6. CASE NextPoller(a) = v
        <5>1. poll_evtchn[v] \in {-1, 0} \/ vc[v].polled = {poll_evtchn[v]}
          BY <1>0, <3>1 DEF Basic, VcpuOK, Tested
        <5>2. Interested(v, p)
          BY <3>1, <5>1 DEF Tested, Interested
        <5>3. act'[a].pc = "poller" /\ act'[a].v = v
          BY <1>3, <4>1, <4>3, <4>6, <5>2
        <5>4. act'[a].op = "send" /\ act'[a].port = p
          BY <1>3, <4>1, <4>3
        <5> QED BY <1>2, <5>3, <5>4, Roles DEF Finds
      <4> QED BY <4>4, <4>5, <4>6
    <3> QED BY <3>2, <3>3
  <2>4. /\ WakeComes(v)' /\ DeliveryWakes(v)' /\ PollerTaken(v)'
        /\ SelectorMarked(v)' /\ GuestKicked(v)'
    BY <1>1, <2>1, <2>2, WakeStays, DeliveryStays, TakenStays, MarkedStays,
        KickedStays
       DEF shared, sleep, sched
  <2> QED BY <2>3, <2>4 DEF Follows
<1>6. ASSUME NEW p \in Port PROVE PortSelected(p)'
  <2>1. Selected(p) => Selected(p)'
    BY <1>0, <1>1, <1>2, Roles DEF Selects, ActState
  <2> QED BY <1>1, <2>1, PortsStay DEF DeliveryInv, shared
<1> QED BY <1>4, <1>5, <1>6 DEF DeliveryInv

LEMMA KeepsSendEvent ==
  ASSUME DeliveryInv, NEW a \in Sender, NEW p0 \in Port, SendEvent(a, p0)
  PROVE  DeliveryInv'
<1>0. a \in Actor /\ Basic /\ ActorOK(a) /\ act[a] \in ActState
  BY Constants DEF DeliveryInv, Basic, TypeOK
<1>1. /\ act[a].pc = "idle" /\ vc' = vc
      /\ UNCHANGED <<shared, sleep, sched>>
  BY DEF SendEvent
<1>2. /\ act' \in [Actor -> ActState] /\ Others(a)
      /\ act'[a] = [Quiet EXCEPT !.pc = "pending", !.op = "send", !.port = p0,
                                !.v = Notify[p0]]
  <2>1. [Quiet EXCEPT !.pc = "pending", !.op = "send", !.port = p0,
                      !.v = Notify[p0]] \in ActState
    BY Constants DEF Quiet, ActState, ActPc
  <2> QED BY <1>0, <2>1, ActTyped DEF SendEvent, Basic, TypeOK
<1>3. Basic'
  <2>1. TypeOK'
    BY <1>0, <1>1, <1>2 DEF Basic, TypeOK, ActorOK, shared, sleep, sched, SendEvent
  <2>2. ActorOK(a)'
    BY <1>0, <1>1, <1>2, Constants, VcpuAssumption
       DEF ActorOK, Unblocking, ActState, Quiet
  <2>3. \A v \in Vcpu : VcpuOK(v)'
    BY <1>0, <1>1, VcpusStay DEF Basic, TypeOK, Asleep, sleep, sched
  <2> QED BY <1>0, <1>1, <1>2, <2>1, <2>2, <2>3, ActorsStay DEF Basic
<1>4. ASSUME NEW v \in Vcpu PROVE Follows(v)'
  <2>1. Follows(v)
    BY DEF DeliveryInv
  <2>2. /\ Woken(v) => Woken(v)'
        /\ Unblocked(v) => Unblocked(v)'
        /\ Taken(v) => Taken(v)'
        /\ Marked(v) => Marked(v)'
        /\ Kicked(v) => Kicked(v)'
    BY <1>0, <1>1, <1>2, Roles DEF Wakes, Unblocks, Takes, Marks, Kicks,
        Unblocking, ActState, Quiet
  <2>3. ASSUME NEW p, Found(p, v) PROVE Found(p, v)'
    BY <1>0, <1>1, <1>2, <2>3, Roles DEF Finds, ActState, ActorOK, Unblocking, Quiet
  <2> QED BY <1>1, <2>1, <2>2, <2>3, WakeStays, DeliveryStays, TakenStays,
            MarkedStays, KickedStays, PollStays
          DEF Follows, shared, sleep, sched
<1>5. ASSUME NEW p \in Port PROVE PortSelected(p)'
  <2>1. Selected(p) => Selected(p)'
    BY <1>0, <1>1, <1>2, Roles DEF Selects, ActState
  <2> QED BY <1>1, <2>1, PortsStay DEF DeliveryInv, shared
<1> QED BY <1>3, <1>4, <1>5 DEF DeliveryInv

LEMMA KeepsUnmask ==
  ASSUME DeliveryInv, NEW a \in Vcpu, evtchn_unmask(a), act[a].pc = "unmask"
  PROVE  DeliveryInv'
<1>0. a \in Actor /\ Basic /\ ActorOK(a) /\ act[a] \in ActState
  BY Constants DEF DeliveryInv, Basic, TypeOK
<1>1. /\ act[a].pc = "unmask" /\ vc' = vc
      /\ UNCHANGED <<pending, sel, upcall_pending, upcall_mask, sleep, sched>>
  BY DEF evtchn_unmask
<1>2. /\ act' \in [Actor -> ActState] /\ Others(a)
      /\ act'[a] = IF act[a].port \in mask THEN [act[a] EXCEPT !.pc = "unmask_test"]
                   ELSE Quiet
  <2>1. [act[a] EXCEPT !.pc = "unmask_test"] \in ActState
    BY <1>0 DEF ActState, ActPc
  <2> QED BY <1>0, <2>1, ActTyped, Constants DEF evtchn_unmask, Basic, TypeOK
<1>3. Basic'
  <2>1. TypeOK'
    BY <1>0, <1>1, <1>2
       DEF Basic, TypeOK, ActorOK, shared, sleep, sched, evtchn_unmask
  <2>2. ActorOK(a)'
    BY <1>0, <1>1, <1>2 DEF ActorOK, Unblocking, ActState, Quiet
  <2>3. \A v \in Vcpu : VcpuOK(v)'
    BY <1>0, <1>1, VcpusStay DEF Basic, TypeOK, Asleep, sleep, sched
  <2> QED BY <1>0, <1>1, <1>2, <2>1, <2>2, <2>3, ActorsStay DEF Basic
<1>4. ASSUME NEW v \in Vcpu PROVE Follows(v)'
  <2>1. Follows(v)
    BY DEF DeliveryInv
  <2>2. /\ Woken(v) => Woken(v)'
        /\ Unblocked(v) => Unblocked(v)'
        /\ Taken(v) => Taken(v)'
        /\ Marked(v) => Marked(v)'
        /\ Kicked(v) => Kicked(v)'
    BY <1>0, <1>1, <1>2, Roles DEF Wakes, Unblocks, Takes, Marks, Kicks,
        Unblocking, ActState, Quiet
  <2>3. ASSUME NEW p, Found(p, v) PROVE Found(p, v)'
    BY <1>0, <1>1, <1>2, <2>3, Roles DEF Finds, ActState, ActorOK, Unblocking, Quiet
  <2> QED BY <1>1, <2>1, <2>2, <2>3, WakeStays, DeliveryStays, TakenStays,
            MarkedStays, KickedStays, PollStays
          DEF Follows, shared, sleep, sched
<1>5. ASSUME NEW p \in Port PROVE PortSelected(p)'
  <2>1. PortSelected(p) /\ mask' = mask \ {act[a].port}
    BY DEF DeliveryInv, evtchn_unmask
  <2>2. Selected(p) => Selected(p)'
    BY <1>0, <1>1, <1>2, Roles DEF Selects, ActState
  <2>3. \A q : q = act[a].port /\ q \in mask => Selected(q)'
    BY <1>0, <1>1, <1>2, Roles DEF Selects, ActState
  <2>4. SUFFICES ASSUME p \in pending, p \notin mask'
                 PROVE  PortSelected(p)'
    BY <1>1 DEF PortSelected
  <2>5. p \notin mask \/ (p = act[a].port /\ p \in mask)
    BY <2>1, <2>4
  <2> QED BY <1>1, <2>1, <2>2, <2>3, <2>4, <2>5 DEF PortSelected, Handles
<1> QED BY <1>3, <1>4, <1>5 DEF DeliveryInv

LEMMA KeepsUnmaskTest ==
  ASSUME DeliveryInv, NEW a \in Vcpu, evtchn_unmask(a), act[a].pc = "unmask_test"
  PROVE  DeliveryInv'
<1>0. a \in Actor /\ Basic /\ ActorOK(a) /\ act[a] \in ActState
  BY Constants DEF DeliveryInv, Basic, TypeOK
<1>1. /\ act[a].pc = "unmask_test" /\ vc' = vc
      /\ UNCHANGED <<shared, sleep, sched>>
  BY DEF evtchn_unmask
<1>2. /\ act' \in [Actor -> ActState] /\ Others(a)
      /\ act'[a] = IF act[a].port \in pending THEN [act[a] EXCEPT !.pc = "sel"]
                   ELSE Quiet
  <2>1. [act[a] EXCEPT !.pc = "sel"] \in ActState
    BY <1>0 DEF ActState, ActPc
  <2> QED BY <1>0, <2>1, ActTyped, Constants DEF evtchn_unmask, Basic, TypeOK
<1>3. Basic'
  <2>1. TypeOK'
    BY <1>0, <1>1, <1>2
       DEF Basic, TypeOK, ActorOK, shared, sleep, sched, evtchn_unmask
  <2>2. ActorOK(a)'
    BY <1>0, <1>1, <1>2 DEF ActorOK, Unblocking, ActState, Quiet
  <2>3. \A v \in Vcpu : VcpuOK(v)'
    BY <1>0, <1>1, VcpusStay DEF Basic, TypeOK, Asleep, sleep, sched
  <2> QED BY <1>0, <1>1, <1>2, <2>1, <2>2, <2>3, ActorsStay DEF Basic
<1>4. ASSUME NEW v \in Vcpu PROVE Follows(v)'
  <2>1. Follows(v)
    BY DEF DeliveryInv
  <2>2. /\ Woken(v) => Woken(v)'
        /\ Unblocked(v) => Unblocked(v)'
        /\ Taken(v) => Taken(v)'
        /\ Marked(v) => Marked(v)'
        /\ Kicked(v) => Kicked(v)'
    BY <1>0, <1>1, <1>2, Roles DEF Wakes, Unblocks, Takes, Marks, Kicks,
        Unblocking, ActState, Quiet
  <2>3. ASSUME NEW p, Found(p, v) PROVE Found(p, v)'
    BY <1>0, <1>1, <1>2, <2>3, Roles DEF Finds, ActState, ActorOK, Unblocking, Quiet
  <2> QED BY <1>1, <2>1, <2>2, <2>3, WakeStays, DeliveryStays, TakenStays,
            MarkedStays, KickedStays, PollStays
          DEF Follows, shared, sleep, sched
<1>5. ASSUME NEW p \in Port PROVE PortSelected(p)'
  <2>1. PortSelected(p)
    BY DEF DeliveryInv
  <2>2. p \in pending /\ Selected(p) => Selected(p)'
    BY <1>0, <1>1, <1>2, Roles DEF Selects, ActState
  <2> QED BY <1>1, <2>1, <2>2 DEF PortSelected, Handles, shared
<1> QED BY <1>3, <1>4, <1>5 DEF DeliveryInv

\* poll_timer_fn: like a search that takes one poller.
LEMMA KeepsPollTimer ==
  ASSUME DeliveryInv, NEW a \in Sender, NEW u \in Vcpu, poll_timer_fn(a, u)
  PROVE  DeliveryInv'
<1>0. a \in Actor /\ a \notin Vcpu /\ Basic /\ ActorOK(a) /\ act[a] \in ActState
  BY Constants, VcpuAssumption DEF DeliveryInv, Basic, TypeOK
<1>1. /\ act[a].pc = "idle" /\ vc' = vc
      /\ UNCHANGED <<shared, blocked, poll_evtchn, sched>>
      /\ poll_mask' = poll_mask \ {u}
  BY DEF poll_timer_fn
<1>2. /\ act' \in [Actor -> ActState] /\ Others(a)
      /\ \/ u \notin poll_mask /\ act'[a] = act[a]
         \/ /\ u \in poll_mask
            /\ act'[a] = [Quiet EXCEPT !.pc = "unblock", !.op = "timer",
                                       !.then = "idle", !.v = u]
  <2>1. [Quiet EXCEPT !.pc = "unblock", !.op = "timer", !.then = "idle", !.v = u]
          \in ActState
    BY Constants DEF Quiet, ActState, ActPc
  <2>2. CASE u \in poll_mask
    BY <1>0, <2>1, <2>2, ActTyped DEF poll_timer_fn, Basic, TypeOK
  <2>3. CASE u \notin poll_mask
    BY <1>0, <2>3 DEF poll_timer_fn, Basic, TypeOK, Others
  <2> QED BY <2>2, <2>3
<1>3. Basic'
  <2>1. TypeOK'
    BY <1>0, <1>1, <1>2 DEF Basic, TypeOK, shared, sched, poll_timer_fn
  <2>2. ActorOK(a)'
    <3>1. CASE act'[a] = act[a]
      BY <1>0, <3>1 DEF ActorOK
    <3>2. CASE act'[a] = [Quiet EXCEPT !.pc = "unblock", !.op = "timer",
                                       !.then = "idle", !.v = u]
      BY <1>0, <3>2 DEF ActorOK, Unblocking, Quiet
    <3> QED BY <1>2, <3>1, <3>2
  <2>3. \A v \in Vcpu : VcpuOK(v)'
    BY <1>0, <1>1, VcpusStay DEF Basic, Asleep, sched
  <2> QED BY <1>0, <1>1, <1>2, <2>1, <2>2, <2>3, ActorsStay DEF Basic
<1>4. ASSUME NEW v \in Vcpu PROVE Follows(v)'
  <2>1. Follows(v)
    BY DEF DeliveryInv
  <2>2. /\ Woken(v) => Woken(v)'
        /\ Unblocked(v) => Unblocked(v)'
        /\ Taken(v) => Taken(v)'
        /\ Marked(v) => Marked(v)'
        /\ Kicked(v) => Kicked(v)'
    BY <1>0, <1>1, <1>2, Roles DEF Wakes, Unblocks, Takes, Marks, Kicks, Unblocking
  <2>3. PollWakes(v)'
    <3>1. ASSUME NEW p, Found(p, v) PROVE Found(p, v)'
      BY <1>0, <1>1, <1>2, <3>1, Roles DEF Finds
    <3> QED BY <1>1, <2>1, <3>1
               DEF Follows, PollWakes, Tested, Asleep, shared, sched
  <2>4. PollerTaken(v)'
    <3>1. v \in poll_mask /\ v \notin poll_mask' => Taken(v)'
      BY <1>0, <1>1, <1>2, Roles DEF Takes, Quiet
    <3> QED BY <1>1, <2>1, <2>2, <3>1
               DEF Follows, PollerTaken, Registered, Asleep, sched
  <2>5. WakeComes(v)' /\ DeliveryWakes(v)' /\ SelectorMarked(v)' /\ GuestKicked(v)'
    BY <1>1, <2>1, <2>2, WakeStays, DeliveryStays, MarkedStays, KickedStays
       DEF shared, sched
  <2> QED BY <2>3, <2>4, <2>5 DEF Follows
<1>5. ASSUME NEW p \in Port PROVE PortSelected(p)'
  <2>1. Selected(p) => Selected(p)'
    BY <1>0, <1>1, <1>2, Roles DEF Selects
  <2> QED BY <1>1, <2>1, PortsStay DEF DeliveryInv, shared
<1> QED BY <1>3, <1>4, <1>5 DEF DeliveryInv

-----------------------------------------------------------------------------
(* Steps of one vcpu.                                                      *)

\* What a step of vcpu v leaves of the others.
Apart(v) ==
    \A u \in Vcpu \ {v} :
      /\ vc'[u] = vc[u] /\ runstate'[u] = runstate[u]
      /\ u \in is_running' <=> u \in is_running
      /\ u \in blocked' <=> u \in blocked
      /\ u \in poll_mask' <=> u \in poll_mask
      /\ poll_evtchn'[u] = poll_evtchn[u]
      /\ upcall_pending'[u] = upcall_pending[u]
      /\ upcall_mask'[u] = upcall_mask[u]
      /\ sel'[u] = sel[u]
      /\ u \in kicked' <=> u \in kicked

\* Roles are about the actors only.
LEMMA RolesSame ==
  ASSUME act' = act, NEW v, NEW p
  PROVE  /\ Woken(v)' = Woken(v) /\ Unblocked(v)' = Unblocked(v)
         /\ Taken(v)' = Taken(v) /\ Found(p, v)' = Found(p, v)
         /\ Selected(p)' = Selected(p) /\ Marked(v)' = Marked(v)
         /\ Kicked(v)' = Kicked(v)
<1>1. Woken(v)' = Woken(v)
  BY DEF Woken, Wakes
<1>2. Unblocked(v)' = Unblocked(v)
  BY DEF Unblocked, Unblocks
<1>3. Taken(v)' = Taken(v)
  BY DEF Taken, Takes
<1>4. Found(p, v)' = Found(p, v)
  BY DEF Found, Finds
<1>5. Selected(p)' = Selected(p)
  BY DEF Selected, Selects
<1>6. Marked(v)' = Marked(v)
  BY DEF Marked, Marks
<1>7. Kicked(v)' = Kicked(v)
  BY DEF Kicked, Kicks
<1> QED BY <1>1, <1>2, <1>3, <1>4, <1>5, <1>6, <1>7

\* The others keep their part of the invariant.
LEMMA ApartFollows ==
  ASSUME NEW v \in Vcpu, NEW u \in Vcpu \ {v}, Apart(v), act' = act,
         pending' \subseteq pending, VcpuOK(u), Follows(u)
  PROVE  VcpuOK(u)' /\ Follows(u)'
<1>1. /\ vc'[u] = vc[u] /\ runstate'[u] = runstate[u]
      /\ u \in is_running' <=> u \in is_running
      /\ u \in blocked' <=> u \in blocked
      /\ u \in poll_mask' <=> u \in poll_mask
      /\ poll_evtchn'[u] = poll_evtchn[u]
      /\ upcall_pending'[u] = upcall_pending[u]
      /\ upcall_mask'[u] = upcall_mask[u]
      /\ sel'[u] = sel[u]
      /\ u \in kicked' <=> u \in kicked
  BY DEF Apart
<1>2. Asleep(u)' = Asleep(u) /\ NeedDelivery(u)' = NeedDelivery(u)
  BY <1>1 DEF Asleep, NeedDelivery
<1>3. VcpuOK(u)'
  BY <1>1, <1>2 DEF VcpuOK
<1>4. WakeComes(u)'
  BY <1>1, <1>2, RolesSame DEF Follows, WakeComes
<1>5. DeliveryWakes(u)'
  BY <1>1, <1>2, RolesSame DEF Follows, DeliveryWakes, Dozing
<1>6. PollerTaken(u)'
  BY <1>1, <1>2, RolesSame DEF Follows, PollerTaken, Registered
<1>7. PollWakes(u)'
  BY <1>1, <1>2, RolesSame DEF Follows, PollWakes, Tested
<1>8. SelectorMarked(u)'
  BY <1>1, RolesSame DEF Follows, SelectorMarked
<1>9. GuestKicked(u)'
  BY <1>1, <1>2, RolesSame DEF Follows, GuestKicked
<1> QED BY <1>3, <1>4, <1>5, <1>6, <1>7, <1>8, <1>9 DEF Follows

\* The invariant after a step of vcpu v, from v's own part and the ports.
LEMMA VcpuStep ==
  ASSUME DeliveryInv, NEW v \in Vcpu, Apart(v), act' = act, pending' \subseteq pending,
         vc[v].pc # "hypercall" \/ act[v].pc = "idle",
         TypeOK', VcpuOK(v)', Follows(v)', \A p \in Port : PortSelected(p)'
  PROVE  DeliveryInv'
<1>1. \A u \in Vcpu : VcpuOK(u)' /\ Follows(u)'
  BY ApartFollows DEF DeliveryInv, Basic
<1>2. ASSUME NEW b \in Actor PROVE ActorOK(b)'
  <2>1. ActorOK(b)
    BY DEF DeliveryInv, Basic
  <2>2. b \in Vcpu /\ act[b].pc # "idle" => vc'[b].pc = vc[b].pc
    BY <2>1 DEF Apart, ActorOK
  <2> QED BY <2>1, <2>2 DEF ActorOK
<1> QED BY <1>1, <1>2 DEF DeliveryInv, Basic

\* A vcpu that is not on its way to sleep does not wait for anybody.
LEMMA AwakeFollows ==
  ASSUME NEW v \in Vcpu,
         vc'[v].pc \notin {"poll_test", "poll_ports", "sched", "off"}
  PROVE  WakeComes(v)' /\ DeliveryWakes(v)' /\ PollerTaken(v)' /\ PollWakes(v)'
BY DEF WakeComes, DeliveryWakes, PollerTaken, PollWakes, Asleep, Dozing, Registered,
       Tested

\* The ports do not depend on a vcpu that is not in an upcall.
LEMMA PortsApart ==
  ASSUME DeliveryInv, NEW v \in Vcpu, Apart(v), act' = act, pending' \subseteq pending,
         mask \subseteq mask', sel' = sel, NEW p \in Port,
         Handles(v, p) => Handles(v, p)'
  PROVE  PortSelected(p)'
<1>1. PortSelected(p)
  BY DEF DeliveryInv
<1>2. Handles(Notify[p], p) => Handles(Notify[p], p)'
  BY Constants DEF Handles, Apart
<1> QED BY <1>1, <1>2, RolesSame DEF PortSelected

\* A step outside the upcall that leaves the selector and the upcall flag.
LEMMA PlainStep ==
  ASSUME DeliveryInv, NEW v \in Vcpu, Apart(v), act' = act, pending' \subseteq pending,
         mask \subseteq mask', sel' = sel, upcall_pending' = upcall_pending,
         vc[v].pc \notin Handling, vc[v].pc # "upcall_sel",
         vc[v].pc # "hypercall" \/ act[v].pc = "idle", TypeOK', VcpuOK(v)',
         WakeComes(v)', DeliveryWakes(v)', PollerTaken(v)', PollWakes(v)',
         GuestKicked(v)'
  PROVE  DeliveryInv'
<1>1. SelectorMarked(v)'
  BY RolesSame DEF DeliveryInv, Follows, SelectorMarked
<1>2. \A p \in Port : PortSelected(p)'
  BY PortsApart DEF Handles, Handling
<1> QED BY <1>1, <1>2, VcpuStep DEF Follows

LEMMA StepTyped ==
  ASSUME vc \in [Vcpu -> VcState], NEW v \in Vcpu, NEW pc \in VcPc, Step(v, pc)
  PROVE  /\ vc' \in [Vcpu -> VcState]
         /\ \A u \in Vcpu \ {v} : vc'[u] = vc[u]
         /\ vc'[v] = [vc[v] EXCEPT !.pc = pc]
BY DEF Step, VcState

LEMMA VcTyped ==
  ASSUME vc \in [Vcpu -> VcState], NEW v \in Vcpu, NEW c \in VcState,
         vc' = [vc EXCEPT ![v] = c]
  PROVE  /\ vc' \in [Vcpu -> VcState]
         /\ \A u \in Vcpu \ {v} : vc'[u] = vc[u]
         /\ vc'[v] = c
OBVIOUS
-----------------------------------------------------------------------------
(* The vcpu in Xen.  Its step leaves the actors and the other vcpus alone; *)
(* what has to be argued is its own part of the invariant.                 *)

LEMMA KeepsBlock ==
  ASSUME DeliveryInv, NEW v \in Vcpu, do_block(v)
  PROVE  DeliveryInv'
<1>0. Basic /\ VcpuOK(v) /\ vc[v] \in VcState
  BY DEF DeliveryInv, Basic, TypeOK
<1>1. /\ vc[v].pc = "guest" /\ act' = act
  BY DEF do_block
<1>2. /\ vc' \in [Vcpu -> VcState]
      /\ \A u \in Vcpu \ {v} : vc'[u] = vc[u]
      /\ vc'[v] = [vc[v] EXCEPT !.pc = "block"]
  BY <1>0, StepTyped DEF do_block, Basic, TypeOK, VcPc
<1>3. TypeOK'
  BY <1>0, <1>1, <1>2 DEF Basic, TypeOK, do_block, shared, sleep, sched
<1>4. Apart(v)
  BY <1>0, <1>2 DEF Apart, do_block, shared, sleep, sched, Basic, TypeOK
<1>5. VcpuOK(v)'
  BY <1>0, <1>1, <1>2
     DEF do_block, VcpuOK, Asleep, Handling, shared, sleep, sched, VcState
<1>6. GuestKicked(v)'
  BY <1>0, <1>2 DEF GuestKicked, VcState
<1> QED
  <2>1. vc'[v].pc \notin {"poll_test", "poll_ports", "sched", "off"}
    BY <1>0, <1>2 DEF VcState
  <2>2. /\ pending' \subseteq pending /\ mask \subseteq mask' /\ sel' = sel
        /\ upcall_pending' = upcall_pending
    BY DEF do_block, shared
  <2> QED BY <1>1, <1>3, <1>4, <1>5, <1>6, <2>1, <2>2, AwakeFollows, PlainStep
             DEF Handling

LEMMA KeepsBlockSet ==
  ASSUME DeliveryInv, NEW v \in Vcpu, BlockSet(v)
  PROVE  DeliveryInv'
<1>0. Basic /\ VcpuOK(v) /\ vc[v] \in VcState
  BY DEF DeliveryInv, Basic, TypeOK
<1>1. /\ vc[v].pc = "block" /\ act' = act
  BY DEF BlockSet
<1>2. /\ vc' \in [Vcpu -> VcState]
      /\ \A u \in Vcpu \ {v} : vc'[u] = vc[u]
      /\ vc'[v] = [vc[v] EXCEPT !.pc = "block_test"]
  BY <1>0, StepTyped DEF BlockSet, Basic, TypeOK, VcPc
<1>3. TypeOK'
  BY <1>0, <1>1, <1>2 DEF Basic, TypeOK, BlockSet, shared, sleep, sched
<1>4. Apart(v)
  BY <1>0, <1>2 DEF Apart, BlockSet, shared, sleep, sched, Basic, TypeOK
<1>5. VcpuOK(v)'
  BY <1>0, <1>1, <1>2
     DEF BlockSet, VcpuOK, Asleep, Handling, shared, sleep, sched, VcState
<1>6. GuestKicked(v)'
  BY <1>0, <1>2 DEF GuestKicked, VcState
<1> QED
  <2>1. vc'[v].pc \notin {"poll_test", "poll_ports", "sched", "off"}
    BY <1>0, <1>2 DEF VcState
  <2>2. /\ pending' \subseteq pending /\ mask \subseteq mask' /\ sel' = sel
        /\ upcall_pending' = upcall_pending
    BY DEF BlockSet, shared
  <2> QED BY <1>1, <1>3, <1>4, <1>5, <1>6, <2>1, <2>2, AwakeFollows, PlainStep
             DEF Handling

LEMMA KeepsPollAny ==
  ASSUME DeliveryInv, NEW v \in Vcpu, PollAny(v)
  PROVE  DeliveryInv'
<1>0. Basic /\ VcpuOK(v) /\ vc[v] \in VcState
  BY DEF DeliveryInv, Basic, TypeOK
<1>1. /\ vc[v].pc = "poll_any" /\ act' = act
  BY DEF PollAny
<1>2. /\ vc' \in [Vcpu -> VcState]
      /\ \A u \in Vcpu \ {v} : vc'[u] = vc[u]
      /\ vc'[v] = [vc[v] EXCEPT !.pc = "poll_set"]
  BY <1>0, StepTyped DEF PollAny, Basic, TypeOK, VcPc
<1>3. TypeOK'
  BY <1>0, <1>1, <1>2 DEF Basic, TypeOK, PollAny, shared, sleep, sched
<1>4. Apart(v)
  BY <1>0, <1>2 DEF Apart, PollAny, shared, sleep, sched, Basic, TypeOK
<1>5. VcpuOK(v)'
  BY <1>0, <1>1, <1>2
     DEF PollAny, VcpuOK, Asleep, Handling, shared, sleep, sched, VcState, Basic,
         TypeOK
<1>6. GuestKicked(v)'
  BY <1>0, <1>2 DEF GuestKicked, VcState
<1> QED
  <2>1. vc'[v].pc \notin {"poll_test", "poll_ports", "sched", "off"}
    BY <1>0, <1>2 DEF VcState
  <2>2. /\ pending' \subseteq pending /\ mask \subseteq mask' /\ sel' = sel
        /\ upcall_pending' = upcall_pending
    BY DEF PollAny, shared
  <2> QED BY <1>1, <1>3, <1>4, <1>5, <1>6, <2>1, <2>2, AwakeFollows, PlainStep
             DEF Handling

LEMMA KeepsTakeKick ==
  ASSUME DeliveryInv, NEW v \in Vcpu, TakeKick(v)
  PROVE  DeliveryInv'
<1>0. Basic /\ VcpuOK(v) /\ vc[v] \in VcState
  BY DEF DeliveryInv, Basic, TypeOK
<1>1. /\ vc[v].pc = "guest" /\ act' = act
  BY DEF TakeKick
<1>2. /\ vc' \in [Vcpu -> VcState]
      /\ \A u \in Vcpu \ {v} : vc'[u] = vc[u]
      /\ vc'[v] = [vc[v] EXCEPT !.pc = "ret"]
  BY <1>0, StepTyped DEF TakeKick, Basic, TypeOK, VcPc
<1>3. TypeOK'
  BY <1>0, <1>1, <1>2 DEF Basic, TypeOK, TakeKick, shared, sleep, sched
<1>4. Apart(v)
  BY <1>0, <1>2 DEF Apart, TakeKick, shared, sleep, sched, Basic, TypeOK
<1>5. VcpuOK(v)'
  BY <1>0, <1>1, <1>2
     DEF TakeKick, VcpuOK, Asleep, Handling, shared, sleep, sched, VcState
<1>6. GuestKicked(v)'
  BY <1>0, <1>2 DEF GuestKicked, VcState
<1> QED
  <2>1. vc'[v].pc \notin {"poll_test", "poll_ports", "sched", "off"}
    BY <1>0, <1>2 DEF VcState
  <2>2. /\ pending' \subseteq pending /\ mask \subseteq mask' /\ sel' = sel
        /\ upcall_pending' = upcall_pending
    BY DEF TakeKick, shared
  <2> QED BY <1>1, <1>3, <1>4, <1>5, <1>6, <2>1, <2>2, AwakeFollows, PlainStep
             DEF Handling

LEMMA KeepsPoll ==
  ASSUME DeliveryInv, NEW v \in Vcpu, NEW S \in PollSets, do_poll(v, S)
  PROVE  DeliveryInv'
<1>0. Basic /\ VcpuOK(v) /\ vc[v] \in VcState
  BY DEF DeliveryInv, Basic, TypeOK
<1>1. /\ vc[v].pc = "guest" /\ act' = act
  BY DEF do_poll
<1>2. /\ vc' \in [Vcpu -> VcState]
      /\ \A u \in Vcpu \ {v} : vc'[u] = vc[u]
      /\ vc'[v] = [Running EXCEPT !.pc = "poll_any", !.ports = S, !.polled = S]
  <2>1. [Running EXCEPT !.pc = "poll_any", !.ports = S, !.polled = S] \in VcState
    BY <1>0, PollAssumption DEF Running, VcState, VcPc
  <2> QED BY <1>0, <2>1, VcTyped DEF do_poll, Basic, TypeOK
<1>3. TypeOK'
  BY <1>0, <1>1, <1>2 DEF Basic, TypeOK, do_poll, shared, sleep, sched
<1>4. Apart(v)
  BY <1>0, <1>2 DEF Apart, do_poll, shared, sleep, sched, Basic, TypeOK
<1>5. VcpuOK(v)'
  BY <1>0, <1>1, <1>2, PollAssumption
     DEF do_poll, VcpuOK, Asleep, Handling, shared, sleep, sched, VcState, Running
<1>6. GuestKicked(v)'
  BY <1>0, <1>2 DEF GuestKicked, VcState
<1> QED
  <2>1. vc'[v].pc \notin {"poll_test", "poll_ports", "sched", "off"}
    BY <1>0, <1>2 DEF VcState
  <2>2. /\ pending' \subseteq pending /\ mask \subseteq mask' /\ sel' = sel
        /\ upcall_pending' = upcall_pending
    BY DEF do_poll, shared
  <2> QED BY <1>1, <1>3, <1>4, <1>5, <1>6, <2>1, <2>2, AwakeFollows, PlainStep
             DEF Handling

LEMMA KeepsHypercallDone ==
  ASSUME DeliveryInv, NEW v \in Vcpu, HypercallDone(v)
  PROVE  DeliveryInv'
<1>0. Basic /\ VcpuOK(v) /\ vc[v] \in VcState
  BY DEF DeliveryInv, Basic, TypeOK
<1>1. /\ vc[v].pc = "hypercall" /\ act[v].pc = "idle" /\ act' = act
  BY DEF HypercallDone
<1>2. /\ vc' \in [Vcpu -> VcState]
      /\ \A u \in Vcpu \ {v} : vc'[u] = vc[u]
      /\ vc'[v] = [vc[v] EXCEPT !.pc = "ret"]
  BY <1>0, StepTyped DEF HypercallDone, Basic, TypeOK, VcPc
<1>3. TypeOK'
  BY <1>0, <1>1, <1>2 DEF Basic, TypeOK, HypercallDone, shared, sleep, sched
<1>4. Apart(v)
  BY <1>0, <1>2 DEF Apart, HypercallDone, shared, sleep, sched, Basic, TypeOK
<1>5. VcpuOK(v)'
  BY <1>0, <1>1, <1>2
     DEF HypercallDone, VcpuOK, Asleep, Handling, shared, sleep, sched, VcState
<1>6. GuestKicked(v)'
  BY <1>0, <1>2 DEF GuestKicked, VcState
<1> QED
  <2>1. vc'[v].pc \notin {"poll_test", "poll_ports", "sched", "off"}
    BY <1>0, <1>2 DEF VcState
  <2>2. /\ pending' \subseteq pending /\ mask \subseteq mask' /\ sel' = sel
        /\ upcall_pending' = upcall_pending
    BY DEF HypercallDone, shared
  <2> QED BY <1>1, <1>3, <1>4, <1>5, <1>6, <2>1, <2>2, AwakeFollows, PlainStep
             DEF Handling

LEMMA KeepsPollOut ==
  ASSUME DeliveryInv, NEW v \in Vcpu, PollOut(v)
  PROVE  DeliveryInv'
<1>0. Basic /\ VcpuOK(v) /\ vc[v] \in VcState
  BY DEF DeliveryInv, Basic, TypeOK
<1>1. /\ vc[v].pc \in {"out_evtchn", "out_mask", "out_blocked"} /\ act' = act
  BY DEF PollOut
<1>2. /\ vc' \in [Vcpu -> VcState]
      /\ \A u \in Vcpu \ {v} : vc'[u] = vc[u]
      /\ vc'[v] = [vc[v] EXCEPT !.pc = IF vc[v].pc = "out_evtchn" THEN "out_mask"
                                       ELSE IF vc[v].pc = "out_mask" THEN "out_blocked"
                                       ELSE "ret"]
  BY <1>0, StepTyped DEF PollOut, Basic, TypeOK, VcPc
<1>3. TypeOK'
  BY <1>0, <1>1, <1>2 DEF Basic, TypeOK, PollOut, shared, sleep, sched
<1>4. Apart(v)
  BY <1>0, <1>2 DEF Apart, PollOut, shared, sleep, sched, Basic, TypeOK
<1>5. VcpuOK(v)'
  BY <1>0, <1>1, <1>2
     DEF PollOut, VcpuOK, Asleep, Handling, shared, sleep, sched, VcState
<1>6. GuestKicked(v)'
  BY <1>0, <1>2 DEF GuestKicked, VcState
<1> QED
  <2>1. vc'[v].pc \notin {"poll_test", "poll_ports", "sched", "off"}
    BY <1>0, <1>2 DEF VcState
  <2>2. /\ pending' \subseteq pending /\ mask \subseteq mask' /\ sel' = sel
        /\ upcall_pending' = upcall_pending
    BY DEF PollOut, shared
  <2> QED BY <1>1, <1>3, <1>4, <1>5, <1>6, <2>1, <2>2, AwakeFollows, PlainStep
             DEF Handling

LEMMA KeepsReturnToGuest ==
  ASSUME DeliveryInv, NEW v \in Vcpu, ReturnToGuest(v)
  PROVE  DeliveryInv'
<1>0. Basic /\ VcpuOK(v) /\ vc[v] \in VcState
  BY DEF DeliveryInv, Basic, TypeOK
<1>1. /\ vc[v].pc = "ret" /\ act' = act
  BY DEF ReturnToGuest
<1>2. /\ vc' \in [Vcpu -> VcState]
      /\ \A u \in Vcpu \ {v} : vc'[u] = vc[u]
      /\ vc'[v] = [Running EXCEPT !.pc = IF NeedDelivery(v) THEN "upcall" ELSE "guest"]
  <2>1. [Running EXCEPT !.pc = IF NeedDelivery(v) THEN "upcall" ELSE "guest"] \in VcState
    BY <1>0 DEF Running, VcState, VcPc
  <2> QED BY <1>0, <2>1, VcTyped DEF ReturnToGuest, Basic, TypeOK
<1>3. TypeOK'
  BY <1>0, <1>1, <1>2 DEF Basic, TypeOK, ReturnToGuest, shared, sleep, sched
<1>4. Apart(v)
  BY <1>0, <1>2 DEF Apart, ReturnToGuest, shared, sleep, sched, Basic, TypeOK
<1>5. VcpuOK(v)'
  BY <1>0, <1>1, <1>2, FS_EmptySet
     DEF ReturnToGuest, VcpuOK, Asleep, Handling, shared, sleep, sched, VcState,
         Running
<1>6. GuestKicked(v)'
  <2>1. NeedDelivery(v)' => NeedDelivery(v)
    BY <1>0 DEF ReturnToGuest, NeedDelivery, Basic, TypeOK
  <2>2. vc'[v].pc = "guest" => ~NeedDelivery(v)
    BY <1>2 DEF Running
  <2> QED BY <2>1, <2>2 DEF GuestKicked
<1> QED
  <2>1. vc'[v].pc \notin {"poll_test", "poll_ports", "sched", "off"}
    BY <1>0, <1>2 DEF VcState
  <2>2. /\ pending' \subseteq pending /\ mask \subseteq mask' /\ sel' = sel
        /\ upcall_pending' = upcall_pending
    BY DEF ReturnToGuest, shared
  <2> QED BY <1>1, <1>3, <1>4, <1>5, <1>6, <2>1, <2>2, AwakeFollows, PlainStep
             DEF Handling

LEMMA KeepsScheduleIn ==
  ASSUME DeliveryInv, NEW v \in Vcpu, ScheduleIn(v)
  PROVE  DeliveryInv'
<1>0. Basic /\ VcpuOK(v) /\ vc[v] \in VcState
  BY DEF DeliveryInv, Basic, TypeOK
<1>1. /\ vc[v].pc = "off" /\ act' = act
  BY DEF ScheduleIn
<1>2. /\ vc' \in [Vcpu -> VcState]
      /\ \A u \in Vcpu \ {v} : vc'[u] = vc[u]
      /\ vc'[v] = [Running EXCEPT !.pc = "ret"]
  <2>1. [Running EXCEPT !.pc = "ret"] \in VcState
    BY <1>0 DEF Running, VcState, VcPc
  <2> QED BY <1>0, <2>1, VcTyped DEF ScheduleIn, Basic, TypeOK
<1>3. TypeOK'
  BY <1>0, <1>1, <1>2 DEF Basic, TypeOK, ScheduleIn, shared, sleep, sched
<1>4. Apart(v)
  BY <1>0, <1>2 DEF Apart, ScheduleIn, shared, sleep, sched, Basic, TypeOK
<1>5. VcpuOK(v)'
  BY <1>0, <1>1, <1>2, FS_EmptySet
     DEF ScheduleIn, VcpuOK, Asleep, Handling, shared, sleep, sched, VcState,
         Running
<1>6. GuestKicked(v)'
  BY <1>0, <1>2 DEF GuestKicked, VcState
<1> QED
  <2>1. vc'[v].pc \notin {"poll_test", "poll_ports", "sched", "off"}
    BY <1>0, <1>2 DEF VcState
  <2>2. /\ pending' \subseteq pending /\ mask \subseteq mask' /\ sel' = sel
        /\ upcall_pending' = upcall_pending
    BY DEF ScheduleIn, shared
  <2> QED BY <1>1, <1>3, <1>4, <1>5, <1>6, <2>1, <2>2, AwakeFollows, PlainStep
             DEF Handling

\* The flag is tested after _VPF_blocked is set: whoever sets it later unblocks.
LEMMA KeepsBlockTest ==
  ASSUME DeliveryInv, NEW v \in Vcpu, BlockTest(v)
  PROVE  DeliveryInv'
<1>0. Basic /\ VcpuOK(v) /\ vc[v] \in VcState
  BY DEF DeliveryInv, Basic, TypeOK
<1>1. /\ vc[v].pc = "block_test" /\ act' = act
  BY DEF BlockTest
<1>2. /\ vc' \in [Vcpu -> VcState]
      /\ \A u \in Vcpu \ {v} : vc'[u] = vc[u]
      /\ vc'[v] = [vc[v] EXCEPT !.pc = IF NeedDelivery(v) THEN "ret" ELSE "sched"]
  BY <1>0, StepTyped DEF BlockTest, Basic, TypeOK, VcPc
<1>3. TypeOK'
  BY <1>0, <1>1, <1>2 DEF Basic, TypeOK, BlockTest, shared, sleep, sched
<1>4. Apart(v)
  BY <1>0, <1>2 DEF Apart, BlockTest, shared, sleep, sched, Basic, TypeOK
<1>5. VcpuOK(v)'
  BY <1>0, <1>1, <1>2
     DEF BlockTest, VcpuOK, Asleep, Handling, shared, sleep, sched, VcState
<1>6. GuestKicked(v)'
  BY <1>0, <1>2 DEF GuestKicked, VcState
<1>7. Follows(v)
  BY DEF DeliveryInv
<1>8. WakeComes(v)'
  BY <1>0, <1>1, <1>2 DEF WakeComes, Asleep, VcState
<1>9. DeliveryWakes(v)'
  <2>1. NeedDelivery(v)' = NeedDelivery(v)
    BY DEF BlockTest, NeedDelivery, shared
  <2> QED BY <1>0, <1>2, <2>1 DEF DeliveryWakes, Dozing, Asleep, VcState
<1>10. PollerTaken(v)'
  BY <1>0, <1>1, <1>2 DEF PollerTaken, Registered, Asleep, VcpuOK, VcState
<1>11. PollWakes(v)'
  BY <1>0, <1>1, <1>2 DEF PollWakes, Tested, VcpuOK, VcState
<1> QED
  <2>1. /\ pending' \subseteq pending /\ mask \subseteq mask' /\ sel' = sel
        /\ upcall_pending' = upcall_pending
    BY DEF BlockTest, shared
  <2> QED BY <1>1, <1>3, <1>4, <1>5, <1>6, <1>8, <1>9, <1>10, <1>11, <2>1, PlainStep
             DEF Handling

LEMMA KeepsPollSet ==
  ASSUME DeliveryInv, NEW v \in Vcpu, PollSet(v)
  PROVE  DeliveryInv'
<1>0. Basic /\ VcpuOK(v) /\ vc[v] \in VcState
  BY DEF DeliveryInv, Basic, TypeOK
<1>1. /\ vc[v].pc = "poll_set" /\ act' = act
  BY DEF PollSet
<1>2. /\ vc' \in [Vcpu -> VcState]
      /\ \A u \in Vcpu \ {v} : vc'[u] = vc[u]
      /\ vc'[v] = [vc[v] EXCEPT !.pc = "poll_test"]
  BY <1>0, StepTyped DEF PollSet, Basic, TypeOK, VcPc
<1>3. TypeOK'
  BY <1>0, <1>1, <1>2 DEF Basic, TypeOK, PollSet, shared, sleep, sched
<1>4. Apart(v)
  BY <1>0, <1>2 DEF Apart, PollSet, shared, sleep, sched, Basic, TypeOK
<1>5. VcpuOK(v)'
  BY <1>0, <1>1, <1>2
     DEF PollSet, VcpuOK, Asleep, Handling, shared, sleep, sched, VcState
<1>6. GuestKicked(v)'
  BY <1>0, <1>2 DEF GuestKicked, VcState
<1>7. Follows(v)
  BY DEF DeliveryInv
<1>8. WakeComes(v)'
  BY <1>0, <1>1, <1>2 DEF WakeComes, Asleep, VcState
<1>9. DeliveryWakes(v)'
  BY <1>0, <1>1, <1>2 DEF DeliveryWakes, Dozing, Asleep, VcState
<1>10. PollerTaken(v)'
  BY DEF PollSet, PollerTaken
<1>11. PollWakes(v)'
  BY <1>0, <1>1, <1>2 DEF PollWakes, Tested, Asleep, VcState
<1> QED
  <2>1. /\ pending' \subseteq pending /\ mask \subseteq mask' /\ sel' = sel
        /\ upcall_pending' = upcall_pending
    BY DEF PollSet, shared
  <2> QED BY <1>1, <1>3, <1>4, <1>5, <1>6, <1>8, <1>9, <1>10, <1>11, <2>1, PlainStep
             DEF Handling

LEMMA KeepsPollTest ==
  ASSUME DeliveryInv, NEW v \in Vcpu, PollTest(v)
  PROVE  DeliveryInv'
<1>0. Basic /\ VcpuOK(v) /\ vc[v] \in VcState
  BY DEF DeliveryInv, Basic, TypeOK
<1>1. /\ vc[v].pc = "poll_test" /\ act' = act
  BY DEF PollTest
<1>2. /\ vc' \in [Vcpu -> VcState]
      /\ \A u \in Vcpu \ {v} : vc'[u] = vc[u]
      /\ vc'[v] = [vc[v] EXCEPT !.pc = IF NeedDelivery(v) THEN "out_evtchn" ELSE "poll_ports"]
  BY <1>0, StepTyped DEF PollTest, Basic, TypeOK, VcPc
<1>3. TypeOK'
  BY <1>0, <1>1, <1>2 DEF Basic, TypeOK, PollTest, shared, sleep, sched
<1>4. Apart(v)
  BY <1>0, <1>2 DEF Apart, PollTest, shared, sleep, sched, Basic, TypeOK
<1>5. VcpuOK(v)'
  BY <1>0, <1>1, <1>2
     DEF PollTest, VcpuOK, Asleep, Handling, shared, sleep, sched, VcState
<1>6. GuestKicked(v)'
  BY <1>0, <1>2 DEF GuestKicked, VcState
<1>7. Follows(v)
  BY DEF DeliveryInv
<1>8. WakeComes(v)'
  BY <1>0, <1>1, <1>2 DEF WakeComes, Asleep, VcState
<1>9. DeliveryWakes(v)'
  <2>1. NeedDelivery(v)' = NeedDelivery(v)
    BY DEF PollTest, NeedDelivery, shared
  <2> QED BY <1>0, <1>2, <2>1 DEF DeliveryWakes, Dozing, Asleep, VcState
<1>10. PollerTaken(v)'
  BY <1>0, <1>1, <1>2, <1>7, RolesSame
     DEF Follows, PollTest, PollerTaken, Registered, Asleep, sleep, VcState
<1>11. PollWakes(v)'
  BY <1>0, <1>1, <1>2 DEF PollWakes, Tested, Asleep, VcpuOK, VcState
<1> QED
  <2>1. /\ pending' \subseteq pending /\ mask \subseteq mask' /\ sel' = sel
        /\ upcall_pending' = upcall_pending
    BY DEF PollTest, shared
  <2> QED BY <1>1, <1>3, <1>4, <1>5, <1>6, <1>8, <1>9, <1>10, <1>11, <2>1, PlainStep
             DEF Handling

\* A port is taken off the list only while it is not pending.
LEMMA KeepsPollPort ==
  ASSUME DeliveryInv, NEW v \in Vcpu, PollPort(v)
  PROVE  DeliveryInv'
<1>0. Basic /\ VcpuOK(v) /\ vc[v] \in VcState
  BY DEF DeliveryInv, Basic, TypeOK
<1>1. /\ vc[v].pc = "poll_ports" /\ act' = act
  BY DEF PollPort
<1>2. /\ vc' \in [Vcpu -> VcState]
      /\ \A u \in Vcpu \ {v} : vc'[u] = vc[u]
      /\ \E p \in vc[v].ports :
           \/ vc'[v] = [vc[v] EXCEPT !.pc = "out_evtchn"]
           \/ p \notin pending /\ vc'[v] = [vc[v] EXCEPT !.ports = @ \ {p}]
  <2>1. PICK p \in vc[v].ports :
               \/ Step(v, "out_evtchn")
               \/ p \notin pending /\ vc' = [vc EXCEPT ![v].ports = @ \ {p}]
    BY DEF PollPort
  <2>2. CASE Step(v, "out_evtchn")
    BY <1>0, <2>1, <2>2, StepTyped DEF Basic, TypeOK, VcPc
  <2>3. CASE p \notin pending /\ vc' = [vc EXCEPT ![v].ports = @ \ {p}]
    <3>1. [vc[v] EXCEPT !.ports = @ \ {p}] \in VcState
      BY <1>0 DEF VcState
    <3>2. vc' = [vc EXCEPT ![v] = [vc[v] EXCEPT !.ports = @ \ {p}]]
      BY <1>0, <2>1, <2>3 DEF Basic, TypeOK
    <3> QED BY <1>0, <2>3, <3>1, <3>2, VcTyped DEF Basic, TypeOK
  <2> QED BY <2>1, <2>2, <2>3
<1>3. TypeOK'
  BY <1>0, <1>1, <1>2 DEF Basic, TypeOK, PollPort, shared, sleep, sched
<1>4. Apart(v)
  BY <1>0, <1>2 DEF Apart, PollPort, shared, sleep, sched, Basic, TypeOK
<1>5. VcpuOK(v)'
  BY <1>0, <1>1, <1>2
     DEF PollPort, VcpuOK, Asleep, Handling, shared, sleep, sched, VcState
<1>6. GuestKicked(v)'
  BY <1>0, <1>1, <1>2 DEF GuestKicked, VcState
<1>7. Follows(v)
  BY DEF DeliveryInv
<1>8. WakeComes(v)'
  BY <1>0, <1>1, <1>2 DEF WakeComes, Asleep, VcState
<1>9. DeliveryWakes(v)'
  <2>1. NeedDelivery(v)' = NeedDelivery(v)
    BY DEF PollPort, NeedDelivery, shared
  <2> QED BY <1>0, <1>1, <1>2, <1>7, <2>1, RolesSame
          DEF PollPort, Follows, DeliveryWakes, Dozing, Asleep, VcState, sleep
<1>10. PollerTaken(v)'
  BY <1>0, <1>1, <1>2, <1>7, RolesSame
     DEF Follows, PollPort, PollerTaken, Registered, Asleep, sleep, VcState
<1>11. PollWakes(v)'
  <2>1. ASSUME NEW q \in pending, Tested(v, q)' PROVE Tested(v, q)
    BY <1>0, <1>1, <1>2, <2>1 DEF Tested, Asleep, VcState
  <2> QED BY <1>1, <1>7, <2>1, RolesSame
             DEF Follows, PollPort, PollWakes, shared, sleep
<1> QED
  <2>1. /\ pending' \subseteq pending /\ mask \subseteq mask' /\ sel' = sel
        /\ upcall_pending' = upcall_pending
    BY DEF PollPort, shared
  <2> QED BY <1>1, <1>3, <1>4, <1>5, <1>6, <1>8, <1>9, <1>10, <1>11, <2>1, PlainStep
             DEF Handling

\* A list of one port is remembered; any other leaves poll_evtchn below 1.
LEMMA KeepsPollSleep ==
  ASSUME DeliveryInv, NEW v \in Vcpu, PollSleep(v)
  PROVE  DeliveryInv'
<1>0. Basic /\ VcpuOK(v) /\ vc[v] \in VcState
  BY DEF DeliveryInv, Basic, TypeOK
<1>1. /\ vc[v].pc = "poll_ports" /\ act' = act
  BY DEF PollSleep
<1>2. /\ vc' \in [Vcpu -> VcState]
      /\ \A u \in Vcpu \ {v} : vc'[u] = vc[u]
      /\ vc'[v] = [vc[v] EXCEPT !.pc = "sched"]
  BY <1>0, StepTyped DEF PollSleep, Basic, TypeOK, VcPc
<1>3. \/ Cardinality(vc[v].polled) # 1 /\ poll_evtchn' = poll_evtchn
      \/ \E p \in Port : /\ vc[v].polled = {p}
                         /\ poll_evtchn' = [poll_evtchn EXCEPT ![v] = p]
  <2>1. CASE Cardinality(vc[v].polled) # 1
    BY <2>1 DEF PollSleep
  <2>2. CASE Cardinality(vc[v].polled) = 1
    <3>1. PICK p : vc[v].polled = {p}
      BY <1>0, <2>2, FS_Singleton DEF VcpuOK
    <3>2. p \in Port /\ (CHOOSE q \in vc[v].polled : TRUE) = p
      BY <1>0, <3>1 DEF VcState
    <3> QED BY <2>2, <3>1, <3>2 DEF PollSleep
  <2> QED BY <2>1, <2>2
<1>4. TypeOK'
  <2>1. poll_evtchn' \in [Vcpu -> Port \cup {0, -1}]
    BY <1>0, <1>3 DEF Basic, TypeOK
  <2>2. poll_timer' \subseteq Vcpu
    BY <1>0 DEF PollSleep, Basic, TypeOK
  <2>3. UNCHANGED <<shared, blocked, poll_mask, sched, act>>
    BY DEF PollSleep
  <2> QED BY <1>0, <1>2, <2>1, <2>2, <2>3 DEF Basic, TypeOK, shared, sched
<1>5. Apart(v)
  BY <1>0, <1>2 DEF Apart, PollSleep, shared, sleep, sched, Basic, TypeOK
<1>6. VcpuOK(v)'
  BY <1>0, <1>1, <1>2, <1>3
     DEF PollSleep, VcpuOK, Asleep, Handling, shared, sleep, sched, VcState
<1>7. GuestKicked(v)'
  BY <1>0, <1>2 DEF GuestKicked, VcState
<1>8. Follows(v)
  BY DEF DeliveryInv
<1>9. WakeComes(v)'
  BY <1>0, <1>1, <1>2 DEF WakeComes, Asleep, VcState
<1>10. DeliveryWakes(v)'
  <2>1. NeedDelivery(v)' = NeedDelivery(v)
    BY DEF PollSleep, NeedDelivery, shared
  <2> QED BY <1>0, <1>1, <1>2, <1>8, <2>1, RolesSame
          DEF PollSleep, Follows, DeliveryWakes, Dozing, Asleep, VcState
<1>11. PollerTaken(v)'
  BY <1>0, <1>1, <1>2, <1>8, RolesSame
     DEF Follows, PollSleep, PollerTaken, Registered, Asleep, VcState
<1>12. PollWakes(v)'
  <2>1. ASSUME NEW q \in pending, Tested(v, q)' PROVE Tested(v, q)
    BY <1>0, <1>1, <1>2, <2>1 DEF Tested, PollSleep, VcState
  <2> QED BY <1>1, <1>8, <2>1, RolesSame DEF Follows, PollSleep, PollWakes, shared
<1> QED
  <2>1. /\ pending' \subseteq pending /\ mask \subseteq mask' /\ sel' = sel
        /\ upcall_pending' = upcall_pending
    BY DEF PollSleep, shared
  <2> QED BY <1>1, <1>4, <1>5, <1>6, <1>7, <1>9, <1>10, <1>11, <1>12, <2>1, PlainStep
             DEF Handling

\* A vcpu falls asleep with _VPF_blocked set.
LEMMA KeepsDeschedule ==
  ASSUME DeliveryInv, NEW v \in Vcpu, Deschedule(v)
  PROVE  DeliveryInv'
<1>0. Basic /\ VcpuOK(v) /\ vc[v] \in VcState
  BY DEF DeliveryInv, Basic, TypeOK
<1>1. /\ vc[v].pc = "sched" /\ act' = act
  BY DEF Deschedule
<1>2. /\ vc' \in [Vcpu -> VcState]
      /\ \A u \in Vcpu \ {v} : vc'[u] = vc[u]
      /\ \/ v \in blocked /\ vc'[v] = [vc[v] EXCEPT !.pc = "off"]
         \/ v \notin blocked /\ vc'[v] = [vc[v] EXCEPT !.pc = "ret"]
  <2>1. CASE v \in blocked
    BY <1>0, <2>1, StepTyped DEF Deschedule, Basic, TypeOK, VcPc
  <2>2. CASE v \notin blocked
    BY <1>0, <2>2, StepTyped DEF Deschedule, Basic, TypeOK, VcPc
  <2> QED BY <2>1, <2>2
<1>3. TypeOK'
  BY <1>0, <1>1, <1>2 DEF Basic, TypeOK, Deschedule, shared, sleep, sched
<1>4. Apart(v)
  BY <1>0, <1>2 DEF Apart, Deschedule, shared, sleep, sched, Basic, TypeOK
<1>5. VcpuOK(v)'
  BY <1>0, <1>1, <1>2
     DEF Deschedule, VcpuOK, Asleep, Handling, shared, sleep, sched, VcState
<1>6. GuestKicked(v)'
  BY <1>0, <1>2 DEF GuestKicked, VcState
<1>7. Follows(v)
  BY DEF DeliveryInv
<1>8. WakeComes(v)'
  BY <1>0, <1>2 DEF Deschedule, WakeComes, Asleep, VcState, sleep
<1>9. DeliveryWakes(v)'
  <2>1. NeedDelivery(v)' = NeedDelivery(v)
    BY DEF Deschedule, NeedDelivery, shared
  <2> QED BY <1>0, <1>1, <1>2, <1>7, <2>1, RolesSame
          DEF Deschedule, Follows, DeliveryWakes, Dozing, Asleep, VcState, sleep
<1>10. PollerTaken(v)'
  BY <1>0, <1>1, <1>2, <1>7, RolesSame
     DEF Follows, Deschedule, PollerTaken, Registered, Asleep, VcState, sleep
<1>11. PollWakes(v)'
  <2>1. ASSUME NEW q \in pending, Tested(v, q)' PROVE Tested(v, q)
    BY <1>0, <1>1, <1>2, <2>1 DEF Tested, Asleep, VcState
  <2> QED BY <1>1, <1>7, <2>1, RolesSame
             DEF Follows, Deschedule, PollWakes, shared, sleep
<1> QED
  <2>1. /\ pending' \subseteq pending /\ mask \subseteq mask' /\ sel' = sel
        /\ upcall_pending' = upcall_pending
    BY DEF Deschedule, shared
  <2> QED BY <1>1, <1>3, <1>4, <1>5, <1>6, <1>8, <1>9, <1>10, <1>11, <2>1, PlainStep
             DEF Handling

LEMMA KeepsPreempt ==
  ASSUME DeliveryInv, NEW v \in Vcpu, Preempt(v)
  PROVE  DeliveryInv'
<1>0. Basic /\ VcpuOK(v) /\ vc[v] \in VcState
  BY DEF DeliveryInv, Basic, TypeOK
<1>1. /\ vc[v].pc = "guest" /\ act' = act
  BY DEF Preempt
<1>2. /\ vc' \in [Vcpu -> VcState]
      /\ \A u \in Vcpu \ {v} : vc'[u] = vc[u]
      /\ vc'[v] = [vc[v] EXCEPT !.pc = "off"]
  BY <1>0, StepTyped DEF Preempt, Basic, TypeOK, VcPc
<1>3. ~Asleep(v)'
  BY <1>0 DEF Preempt, Asleep, Basic, TypeOK
<1>4. TypeOK'
  BY <1>0, <1>1, <1>2 DEF Basic, TypeOK, Preempt, shared, sleep, sched
<1>5. Apart(v)
  BY <1>0, <1>2 DEF Apart, Preempt, shared, sleep, sched, Basic, TypeOK
<1>6. VcpuOK(v)'
  BY <1>0, <1>1, <1>2
     DEF Preempt, VcpuOK, Asleep, Handling, shared, sleep, sched, VcState
<1>7. GuestKicked(v)'
  BY <1>0, <1>2 DEF GuestKicked, VcState
<1>8. Follows(v)
  BY DEF DeliveryInv
<1>9. WakeComes(v)'
  BY <1>3 DEF WakeComes
<1>10. DeliveryWakes(v)'
  BY <1>0, <1>1, <1>2, <1>3 DEF DeliveryWakes, Dozing, VcState
<1>11. PollerTaken(v)'
  BY <1>0, <1>1, <1>2, <1>3 DEF PollerTaken, Registered, VcState
<1>12. PollWakes(v)'
  BY <1>0, <1>1, <1>2, <1>3 DEF PollWakes, Tested, VcState
<1> QED
  <2>1. /\ pending' \subseteq pending /\ mask \subseteq mask' /\ sel' = sel
        /\ upcall_pending' = upcall_pending
    BY DEF Preempt, shared
  <2> QED BY <1>1, <1>4, <1>5, <1>6, <1>7, <1>9, <1>10, <1>11, <1>12, <2>1, PlainStep
             DEF Handling

LEMMA KeepsContextSaved ==
  ASSUME DeliveryInv, NEW v \in Vcpu, context_saved(v)
  PROVE  DeliveryInv'
<1>0. Basic /\ VcpuOK(v) /\ vc[v] \in VcState
  BY DEF DeliveryInv, Basic, TypeOK
<1>1. /\ vc[v].pc = "off" /\ act' = act
  BY DEF context_saved
<1>2. /\ vc' \in [Vcpu -> VcState]
      /\ \A u \in Vcpu \ {v} : vc'[u] = vc[u]
      /\ vc'[v] = vc[v]
  BY <1>0 DEF context_saved, Basic, TypeOK
<1>3. TypeOK'
  BY <1>0, <1>1, <1>2 DEF Basic, TypeOK, context_saved, shared, sleep, sched
<1>4. Apart(v)
  BY <1>0, <1>2 DEF Apart, context_saved, shared, sleep, sched, Basic, TypeOK
<1>5. VcpuOK(v)'
  BY <1>0, <1>1, <1>2
     DEF context_saved, VcpuOK, Asleep, Handling, shared, sleep, sched, VcState
<1>6. GuestKicked(v)'
  BY <1>0, <1>1, <1>2 DEF GuestKicked, VcState
<1>7. Follows(v)
  BY DEF DeliveryInv
<1>8. WakeComes(v)'
  BY <1>1, <1>2, <1>7, RolesSame
     DEF Follows, context_saved, WakeComes, Asleep, sleep
<1>9. DeliveryWakes(v)'
  <2>1. NeedDelivery(v)' = NeedDelivery(v) /\ Asleep(v)' = Asleep(v)
    BY <1>2 DEF context_saved, NeedDelivery, shared, Asleep
  <2> QED BY <1>1, <1>2, <1>7, <2>1, RolesSame
          DEF context_saved, Follows, DeliveryWakes, Dozing, sleep
<1>10. PollerTaken(v)'
  BY <1>1, <1>2, <1>7, RolesSame
     DEF Follows, context_saved, PollerTaken, Registered, Asleep, sleep
<1>11. PollWakes(v)'
  BY <1>1, <1>2, <1>7, RolesSame
     DEF Follows, context_saved, PollWakes, Tested, Asleep, shared, sleep
<1> QED
  <2>1. /\ pending' \subseteq pending /\ mask \subseteq mask' /\ sel' = sel
        /\ upcall_pending' = upcall_pending
    BY DEF context_saved, shared
  <2> QED BY <1>1, <1>3, <1>4, <1>5, <1>6, <1>8, <1>9, <1>10, <1>11, <2>1, PlainStep
             DEF Handling

-----------------------------------------------------------------------------
(* The guest: upcalls, and what it does outside them.                      *)

LEMMA KeepsGuestIrqOff ==
  ASSUME DeliveryInv, NEW v \in Vcpu, GuestIrqOff(v)
  PROVE  DeliveryInv'
<1>0. Basic /\ VcpuOK(v) /\ vc[v] \in VcState
  BY DEF DeliveryInv, Basic, TypeOK
<1>1. /\ vc[v].pc = "guest" /\ act' = act
  BY DEF GuestIrqOff
<1>2. /\ vc' \in [Vcpu -> VcState]
      /\ \A u \in Vcpu \ {v} : vc'[u] = vc[u]
      /\ vc'[v] = vc[v]
  BY <1>0 DEF GuestIrqOff, Basic, TypeOK
<1>3. TypeOK'
  BY <1>0, <1>1, <1>2 DEF Basic, TypeOK, GuestIrqOff, shared, sleep, sched
<1>4. Apart(v)
  BY <1>0, <1>2 DEF Apart, GuestIrqOff, shared, sleep, sched, Basic, TypeOK
<1>5. VcpuOK(v)'
  BY <1>0, <1>1, <1>2
     DEF GuestIrqOff, VcpuOK, Asleep, Handling, shared, sleep, sched, VcState
<1>6. GuestKicked(v)'
  BY <1>0 DEF GuestIrqOff, GuestKicked, NeedDelivery, Basic, TypeOK
<1> QED
  <2>1. vc'[v].pc \notin {"poll_test", "poll_ports", "sched", "off"}
    BY <1>0, <1>1, <1>2 DEF VcState
  <2>2. /\ pending' \subseteq pending /\ mask \subseteq mask' /\ sel' = sel
        /\ upcall_pending' = upcall_pending
    BY DEF GuestIrqOff, shared
  <2> QED BY <1>1, <1>3, <1>4, <1>5, <1>6, <2>1, <2>2, AwakeFollows, PlainStep
             DEF Handling

LEMMA KeepsGuestIrqOn ==
  ASSUME DeliveryInv, NEW v \in Vcpu, GuestIrqOn(v)
  PROVE  DeliveryInv'
<1>0. Basic /\ VcpuOK(v) /\ vc[v] \in VcState
  BY DEF DeliveryInv, Basic, TypeOK
<1>1. /\ vc[v].pc = "guest" /\ act' = act
  BY DEF GuestIrqOn
<1>2. /\ vc' \in [Vcpu -> VcState]
      /\ \A u \in Vcpu \ {v} : vc'[u] = vc[u]
      /\ vc'[v] = [vc[v] EXCEPT !.pc = "upcall_exit"]
  BY <1>0, StepTyped DEF GuestIrqOn, Basic, TypeOK, VcPc
<1>3. TypeOK'
  BY <1>0, <1>1, <1>2 DEF Basic, TypeOK, GuestIrqOn, shared, sleep, sched
<1>4. Apart(v)
  BY <1>0, <1>2 DEF Apart, GuestIrqOn, shared, sleep, sched, Basic, TypeOK
<1>5. VcpuOK(v)'
  BY <1>0, <1>1, <1>2
     DEF GuestIrqOn, VcpuOK, Asleep, Handling, shared, sleep, sched, VcState
<1>6. GuestKicked(v)'
  BY <1>0, <1>2 DEF GuestKicked, VcState
<1> QED
  <2>1. vc'[v].pc \notin {"poll_test", "poll_ports", "sched", "off"}
    BY <1>0, <1>2 DEF VcState
  <2>2. /\ pending' \subseteq pending /\ mask \subseteq mask' /\ sel' = sel
        /\ upcall_pending' = upcall_pending
    BY DEF GuestIrqOn, shared
  <2> QED BY <1>1, <1>3, <1>4, <1>5, <1>6, <2>1, <2>2, AwakeFollows, PlainStep
             DEF Handling

LEMMA KeepsGuestMask ==
  ASSUME DeliveryInv, NEW v \in Vcpu, NEW q \in Port, GuestMask(v, q)
  PROVE  DeliveryInv'
<1>0. Basic /\ VcpuOK(v) /\ vc[v] \in VcState
  BY DEF DeliveryInv, Basic, TypeOK
<1>1. /\ vc[v].pc = "guest" /\ act' = act
  BY DEF GuestMask
<1>2. /\ vc' \in [Vcpu -> VcState]
      /\ \A u \in Vcpu \ {v} : vc'[u] = vc[u]
      /\ vc'[v] = vc[v]
  BY <1>0 DEF GuestMask, Basic, TypeOK
<1>3. TypeOK'
  BY <1>0, <1>1, <1>2 DEF Basic, TypeOK, GuestMask, shared, sleep, sched
<1>4. Apart(v)
  BY <1>0, <1>2 DEF Apart, GuestMask, shared, sleep, sched, Basic, TypeOK
<1>5. VcpuOK(v)'
  BY <1>0, <1>1, <1>2
     DEF GuestMask, VcpuOK, Asleep, Handling, shared, sleep, sched, VcState
<1>6. GuestKicked(v)'
  BY <1>1, <1>2, RolesSame
     DEF DeliveryInv, Follows, GuestMask, GuestKicked, NeedDelivery, sched
<1> QED
  <2>1. vc'[v].pc \notin {"poll_test", "poll_ports", "sched", "off"}
    BY <1>0, <1>1, <1>2 DEF VcState
  <2>2. /\ pending' \subseteq pending /\ mask \subseteq mask' /\ sel' = sel
        /\ upcall_pending' = upcall_pending
    BY DEF GuestMask, shared
  <2> QED BY <1>1, <1>3, <1>4, <1>5, <1>6, <2>1, <2>2, AwakeFollows, PlainStep
             DEF Handling

LEMMA KeepsGuestClear ==
  ASSUME DeliveryInv, NEW v \in Vcpu, NEW q \in Port, GuestClear(v, q)
  PROVE  DeliveryInv'
<1>0. Basic /\ VcpuOK(v) /\ vc[v] \in VcState
  BY DEF DeliveryInv, Basic, TypeOK
<1>1. /\ vc[v].pc = "guest" /\ act' = act
  BY DEF GuestClear
<1>2. /\ vc' \in [Vcpu -> VcState]
      /\ \A u \in Vcpu \ {v} : vc'[u] = vc[u]
      /\ vc'[v] = vc[v]
  BY <1>0 DEF GuestClear, Basic, TypeOK
<1>3. TypeOK'
  BY <1>0, <1>1, <1>2 DEF Basic, TypeOK, GuestClear, shared, sleep, sched
<1>4. Apart(v)
  BY <1>0, <1>2 DEF Apart, GuestClear, shared, sleep, sched, Basic, TypeOK
<1>5. VcpuOK(v)'
  BY <1>0, <1>1, <1>2
     DEF GuestClear, VcpuOK, Asleep, Handling, shared, sleep, sched, VcState
<1>6. GuestKicked(v)'
  BY <1>1, <1>2, RolesSame
     DEF DeliveryInv, Follows, GuestClear, GuestKicked, NeedDelivery, sched
<1> QED
  <2>1. vc'[v].pc \notin {"poll_test", "poll_ports", "sched", "off"}
    BY <1>0, <1>1, <1>2 DEF VcState
  <2>2. /\ pending' \subseteq pending /\ mask \subseteq mask' /\ sel' = sel
        /\ upcall_pending' = upcall_pending
    BY DEF GuestClear, shared
  <2> QED BY <1>1, <1>3, <1>4, <1>5, <1>6, <2>1, <2>2, AwakeFollows, PlainStep
             DEF Handling

LEMMA KeepsGuestUnmask ==
  ASSUME DeliveryInv, NEW v \in Vcpu, NEW q \in Port, GuestUnmask(v, q)
  PROVE  DeliveryInv'
<1>0. Basic /\ VcpuOK(v) /\ vc[v] \in VcState
  BY DEF DeliveryInv, Basic, TypeOK
<1>1. /\ vc[v].pc = "guest" /\ act' = act
  BY DEF GuestUnmask
<1>2. /\ vc' \in [Vcpu -> VcState]
      /\ \A u \in Vcpu \ {v} : vc'[u] = vc[u]
      /\ vc'[v] = [Running EXCEPT !.pc = "irq_unmask", !.port = q]
  <2>1. [Running EXCEPT !.pc = "irq_unmask", !.port = q] \in VcState
    BY <1>0 DEF Running, VcState, VcPc
  <2> QED BY <1>0, <2>1, VcTyped DEF GuestUnmask, Basic, TypeOK
<1>3. TypeOK'
  BY <1>0, <1>1, <1>2 DEF Basic, TypeOK, GuestUnmask, shared, sleep, sched
<1>4. Apart(v)
  BY <1>0, <1>2 DEF Apart, GuestUnmask, shared, sleep, sched, Basic, TypeOK
<1>5. VcpuOK(v)'
  BY <1>0, <1>1, <1>2, FS_EmptySet
     DEF GuestUnmask, VcpuOK, Asleep, Handling, shared, sleep, sched, VcState,
         Running
<1>6. GuestKicked(v)'
  BY <1>0, <1>2 DEF GuestKicked, Running
<1> QED
  <2>1. vc'[v].pc \notin {"poll_test", "poll_ports", "sched", "off"}
    BY <1>0, <1>2 DEF Running
  <2>2. /\ pending' \subseteq pending /\ mask \subseteq mask' /\ sel' = sel
        /\ upcall_pending' = upcall_pending
    BY DEF GuestUnmask, shared
  <2> QED BY <1>1, <1>3, <1>4, <1>5, <1>6, <2>1, <2>2, AwakeFollows, PlainStep
             DEF Handling

LEMMA KeepsUpcallExit ==
  ASSUME DeliveryInv, NEW v \in Vcpu, UpcallExit(v)
  PROVE  DeliveryInv'
<1>0. Basic /\ VcpuOK(v) /\ vc[v] \in VcState
  BY DEF DeliveryInv, Basic, TypeOK
<1>1. /\ vc[v].pc = "upcall_exit" /\ act' = act
  BY DEF UpcallExit
<1>2. /\ vc' \in [Vcpu -> VcState]
      /\ \A u \in Vcpu \ {v} : vc'[u] = vc[u]
      /\ vc'[v] = [Running EXCEPT !.pc = IF upcall_pending[v] THEN "upcall" ELSE "guest"]
  <2>1. [Running EXCEPT !.pc = IF upcall_pending[v] THEN "upcall" ELSE "guest"] \in VcState
    BY <1>0 DEF Running, VcState, VcPc
  <2> QED BY <1>0, <2>1, VcTyped DEF UpcallExit, Basic, TypeOK
<1>3. TypeOK'
  BY <1>0, <1>1, <1>2 DEF Basic, TypeOK, UpcallExit, shared, sleep, sched
<1>4. Apart(v)
  BY <1>0, <1>2 DEF Apart, UpcallExit, shared, sleep, sched, Basic, TypeOK
<1>5. VcpuOK(v)'
  BY <1>0, <1>1, <1>2, FS_EmptySet
     DEF UpcallExit, VcpuOK, Asleep, Handling, shared, sleep, sched, VcState,
         Running
<1>6. GuestKicked(v)'
  <2>1. NeedDelivery(v)' => upcall_pending[v]
    BY <1>0 DEF UpcallExit, NeedDelivery, Basic, TypeOK
  <2>2. vc'[v].pc = "guest" => ~upcall_pending[v]
    BY <1>2 DEF Running
  <2> QED BY <2>1, <2>2 DEF GuestKicked
<1> QED
  <2>1. vc'[v].pc \notin {"poll_test", "poll_ports", "sched", "off"}
    BY <1>0, <1>2 DEF Running
  <2>2. /\ pending' \subseteq pending /\ mask \subseteq mask' /\ sel' = sel
        /\ upcall_pending' = upcall_pending
    BY DEF UpcallExit, shared
  <2> QED BY <1>1, <1>3, <1>4, <1>5, <1>6, <2>1, <2>2, AwakeFollows, PlainStep
             DEF Handling

\* The flag is cleared before the selector is read ...
LEMMA KeepsUpcallEnter ==
  ASSUME DeliveryInv, NEW v \in Vcpu, UpcallEnter(v)
  PROVE  DeliveryInv'
<1>0. Basic /\ VcpuOK(v) /\ vc[v] \in VcState
  BY DEF DeliveryInv, Basic, TypeOK
<1>1. /\ vc[v].pc = "upcall" /\ act' = act
  BY DEF UpcallEnter
<1>2. /\ vc' \in [Vcpu -> VcState]
      /\ \A u \in Vcpu \ {v} : vc'[u] = vc[u]
      /\ vc'[v] = [vc[v] EXCEPT !.pc = "upcall_sel"]
  BY <1>0, StepTyped DEF UpcallEnter, Basic, TypeOK, VcPc
<1>3. TypeOK'
  BY <1>0, <1>1, <1>2 DEF Basic, TypeOK, UpcallEnter, shared, sleep, sched
<1>4. Apart(v)
  BY <1>0, <1>2 DEF Apart, UpcallEnter, shared, sleep, sched, Basic, TypeOK
<1>5. VcpuOK(v)'
  BY <1>0, <1>1, <1>2
     DEF UpcallEnter, VcpuOK, Asleep, Handling, shared, sleep, sched, VcState
<1>6. GuestKicked(v)'
  BY <1>0, <1>1, <1>2 DEF GuestKicked, VcState
<1>7. SelectorMarked(v)'
  BY <1>0, <1>2 DEF SelectorMarked, VcState
<1>8. ASSUME NEW p \in Port PROVE PortSelected(p)'
  <2>1. Handles(v, p) => Handles(v, p)'
    BY <1>0, <1>1, <1>2 DEF Handles, Handling, VcState
  <2> QED BY <1>1, <1>4, <2>1, PortsApart DEF UpcallEnter, shared
<1> QED
  <2>1. vc'[v].pc \notin {"poll_test", "poll_ports", "sched", "off"}
    BY <1>0, <1>1, <1>2 DEF VcState
  <2> QED BY <1>1, <1>3, <1>4, <1>5, <1>6, <1>7, <1>8, <2>1, AwakeFollows, VcpuStep
          DEF Follows, UpcallEnter, shared

\* ... and the selector before the pending bits.
LEMMA KeepsUpcallSelector ==
  ASSUME DeliveryInv, NEW v \in Vcpu, UpcallSelector(v)
  PROVE  DeliveryInv'
<1>0. Basic /\ VcpuOK(v) /\ vc[v] \in VcState
  BY DEF DeliveryInv, Basic, TypeOK
<1>1. /\ vc[v].pc = "upcall_sel" /\ act' = act
  BY DEF UpcallSelector
<1>2. /\ vc' \in [Vcpu -> VcState]
      /\ \A u \in Vcpu \ {v} : vc'[u] = vc[u]
      /\ vc'[v] = [Running EXCEPT !.pc = "upcall_word", !.words = sel[v]]
  <2>1. [Running EXCEPT !.pc = "upcall_word", !.words = sel[v]] \in VcState
    BY <1>0 DEF Running, VcState, VcPc, Basic, TypeOK
  <2> QED BY <1>0, <2>1, VcTyped DEF UpcallSelector, Basic, TypeOK
<1>3. TypeOK'
  BY <1>0, <1>1, <1>2 DEF Basic, TypeOK, UpcallSelector, shared, sleep, sched
<1>4. Apart(v)
  BY <1>0, <1>2 DEF Apart, UpcallSelector, shared, sleep, sched, Basic, TypeOK
<1>5. VcpuOK(v)'
  BY <1>0, <1>1, <1>2, FS_EmptySet
     DEF UpcallSelector, VcpuOK, Asleep, Handling, shared, sleep, sched, VcState,
         Running
<1>6. GuestKicked(v)'
  BY <1>0, <1>1, <1>2 DEF GuestKicked, VcState
<1>7. SelectorMarked(v)'
  <2>1. sel'[v] = {}
    BY <1>0 DEF UpcallSelector, Basic, TypeOK
  <2> QED BY <2>1 DEF SelectorMarked
<1>8. ASSUME NEW p \in Port PROVE PortSelected(p)'
  <2>1. PortSelected(p)
    BY DEF DeliveryInv
  <2>2. CASE Notify[p] = v
    <3>1. Word(p) \in sel[v] => Handles(v, p)'
      BY <1>2 DEF Handles, Handling, Running
    <3>2. ~Handles(v, p)
      BY <1>1 DEF Handles, Handling
    <3> QED BY <1>1, <2>1, <2>2, <3>1, <3>2, RolesSame
               DEF PortSelected, UpcallSelector
  <2>3. CASE Notify[p] # v
    BY <1>1, <1>2, <1>4, <2>1, <2>3, RolesSame, Constants
       DEF PortSelected, UpcallSelector, Handles, Apart
  <2> QED BY <2>2, <2>3
<1> QED
  <2>1. vc'[v].pc \notin {"poll_test", "poll_ports", "sched", "off"}
    BY <1>0, <1>1, <1>2 DEF Running
  <2> QED BY <1>1, <1>3, <1>4, <1>5, <1>6, <1>7, <1>8, <2>1, AwakeFollows, VcpuStep
          DEF Follows, UpcallSelector, shared

LEMMA KeepsUpcallWord ==
  ASSUME DeliveryInv, NEW v \in Vcpu, UpcallWord(v)
  PROVE  DeliveryInv'
<1>0. Basic /\ VcpuOK(v) /\ vc[v] \in VcState
  BY DEF DeliveryInv, Basic, TypeOK
<1>1. /\ vc[v].pc = "upcall_word" /\ act' = act
  BY DEF UpcallWord
<1>2. /\ vc' \in [Vcpu -> VcState]
      /\ \A u \in Vcpu \ {v} : vc'[u] = vc[u]
      /\ \E w \in vc[v].words :
           vc'[v] = [vc[v] EXCEPT !.words = @ \ {w},
                                  !.ports = {p \in pending \ mask :
                                               Word(p) = w /\ Notify[p] = v}]
      /\ vc[v].ports = {}
  <2>1. PICK w \in vc[v].words :
               vc' = [vc EXCEPT ![v].words = @ \ {w},
                                ![v].ports = {p \in pending \ mask :
                                                Word(p) = w /\ Notify[p] = v}]
    BY DEF UpcallWord
  <2> DEFINE c == [vc[v] EXCEPT !.words = @ \ {w},
                                !.ports = {p \in pending \ mask :
                                             Word(p) = w /\ Notify[p] = v}]
  <2>2. c \in VcState
    BY <1>0 DEF VcState, Basic, TypeOK
  <2>3. vc' = [vc EXCEPT ![v] = c]
    BY <1>0, <2>1 DEF Basic, TypeOK, VcState
  <2> QED BY <1>0, <2>2, <2>3, VcTyped DEF Basic, TypeOK, UpcallWord
<1>3. TypeOK'
  BY <1>0, <1>1, <1>2 DEF Basic, TypeOK, UpcallWord, shared, sleep, sched
<1>4. Apart(v)
  BY <1>0, <1>2 DEF Apart, UpcallWord, shared, sleep, sched, Basic, TypeOK
<1>5. VcpuOK(v)'
  <2>1. \A p \in vc'[v].ports : Notify[p] = v
    BY <1>0, <1>2 DEF VcState
  <2>2. vc'[v].pc = "upcall_word" /\ vc'[v].polled = vc[v].polled
    BY <1>0, <1>1, <1>2 DEF VcState
  <2>3. is_running' = is_running
    BY DEF UpcallWord, sched
  <2> QED BY <1>0, <1>1, <2>1, <2>2, <2>3 DEF VcpuOK, Asleep, Handling
<1>6. GuestKicked(v)'
  BY <1>0, <1>1, <1>2 DEF GuestKicked, VcState
<1>7. SelectorMarked(v)'
  BY <1>0, <1>1, <1>2, RolesSame
     DEF DeliveryInv, Follows, SelectorMarked, UpcallWord, shared
<1>8. ASSUME NEW p \in Port PROVE PortSelected(p)'
  <2>1. PortSelected(p)
    BY DEF DeliveryInv
  <2>2. SUFFICES ASSUME p \in pending \ mask PROVE PortSelected(p)'
    BY DEF PortSelected, UpcallWord, shared
  <2>3. Notify[p] = v /\ Handles(v, p) => Handles(v, p)'
    BY <1>0, <1>1, <1>2, <2>2 DEF Handles, Handling, VcState
  <2>4. Notify[p] # v /\ Handles(Notify[p], p) => Handles(Notify[p], p)'
    BY <1>2, Constants DEF Handles
  <2> QED BY <1>1, <2>1, <2>3, <2>4, RolesSame DEF PortSelected, UpcallWord, shared
<1> QED
  <2>1. vc'[v].pc \notin {"poll_test", "poll_ports", "sched", "off"}
    BY <1>0, <1>1, <1>2 DEF VcState
  <2> QED BY <1>1, <1>3, <1>4, <1>5, <1>6, <1>7, <1>8, <2>1, AwakeFollows, VcpuStep
          DEF Follows, UpcallWord, shared

LEMMA KeepsIrqMask ==
  ASSUME DeliveryInv, NEW v \in Vcpu, IrqMask(v)
  PROVE  DeliveryInv'
<1>0. Basic /\ VcpuOK(v) /\ vc[v] \in VcState
  BY DEF DeliveryInv, Basic, TypeOK
<1>1. /\ vc[v].pc = "upcall_word" /\ act' = act
  BY DEF IrqMask
<1>2. /\ vc' \in [Vcpu -> VcState]
      /\ \A u \in Vcpu \ {v} : vc'[u] = vc[u]
      /\ \E p \in vc[v].ports :
           /\ mask' = mask \cup {p}
           /\ vc'[v] = [vc[v] EXCEPT !.ports = @ \ {p}, !.port = p, !.pc = "irq_clear"]
  <2>1. PICK p \in vc[v].ports :
               /\ mask' = mask \cup {p}
               /\ vc' = [vc EXCEPT ![v].ports = @ \ {p}, ![v].port = p,
                                   ![v].pc = "irq_clear"]
    BY DEF IrqMask
  <2> DEFINE c == [vc[v] EXCEPT !.ports = @ \ {p}, !.port = p, !.pc = "irq_clear"]
  <2>2. c \in VcState
    BY <1>0 DEF VcState, VcPc
  <2>3. vc' = [vc EXCEPT ![v] = c]
    BY <1>0, <2>1 DEF Basic, TypeOK, VcState
  <2> QED BY <1>0, <2>1, <2>2, <2>3, VcTyped DEF Basic, TypeOK
<1>3. TypeOK'
  <2>1. mask' \subseteq Port
    BY <1>0, <1>2 DEF Basic, TypeOK, VcState
  <2> QED BY <1>0, <1>1, <1>2, <2>1 DEF Basic, TypeOK, IrqMask, sleep, sched
<1>4. Apart(v)
  BY <1>0, <1>2 DEF Apart, IrqMask, shared, sleep, sched, Basic, TypeOK
<1>5. VcpuOK(v)'
  BY <1>0, <1>1, <1>2
     DEF IrqMask, VcpuOK, Asleep, Handling, shared, sleep, sched, VcState
<1>6. GuestKicked(v)'
  BY <1>0, <1>1, <1>2 DEF GuestKicked, VcState
<1>7. SelectorMarked(v)'
  BY <1>0, <1>1, <1>2, RolesSame
     DEF DeliveryInv, Follows, SelectorMarked, IrqMask, shared
<1>8. ASSUME NEW p \in Port PROVE PortSelected(p)'
  <2>1. PortSelected(p)
    BY DEF DeliveryInv
  <2>2. SUFFICES ASSUME p \in pending, p \notin mask', p \notin mask PROVE PortSelected(p)'
    BY <1>2 DEF PortSelected, IrqMask
  <2>3. Notify[p] = v /\ Handles(v, p) => Handles(v, p)'
    BY <1>0, <1>1, <1>2, <2>2 DEF Handles, Handling, VcState
  <2>4. Notify[p] # v /\ Handles(Notify[p], p) => Handles(Notify[p], p)'
    BY <1>2, Constants DEF Handles
  <2> QED BY <1>1, <2>1, <2>2, <2>3, <2>4, RolesSame DEF PortSelected, IrqMask
<1> QED
  <2>1. vc'[v].pc \notin {"poll_test", "poll_ports", "sched", "off"}
    BY <1>0, <1>1, <1>2 DEF VcState
  <2> QED BY <1>1, <1>3, <1>4, <1>5, <1>6, <1>7, <1>8, <2>1, AwakeFollows, VcpuStep
          DEF Follows, IrqMask, shared

LEMMA KeepsIrqClear ==
  ASSUME DeliveryInv, NEW v \in Vcpu, IrqClear(v)
  PROVE  DeliveryInv'
<1>0. Basic /\ VcpuOK(v) /\ vc[v] \in VcState
  BY DEF DeliveryInv, Basic, TypeOK
<1>1. /\ vc[v].pc = "irq_clear" /\ act' = act
  BY DEF IrqClear
<1>2. /\ vc' \in [Vcpu -> VcState]
      /\ \A u \in Vcpu \ {v} : vc'[u] = vc[u]
      /\ \/ vc'[v] = [vc[v] EXCEPT !.pc = "irq_unmask"]
         \/ vc'[v] = [vc[v] EXCEPT !.pc = "upcall_word", !.port = 0]
  <2>1. CASE Step(v, "irq_unmask")
    BY <1>0, <2>1, StepTyped DEF Basic, TypeOK, VcPc
  <2>2. CASE vc' = [vc EXCEPT ![v].pc = "upcall_word", ![v].port = 0]
    <3>1. [vc[v] EXCEPT !.pc = "upcall_word", !.port = 0] \in VcState
      BY <1>0 DEF VcState, VcPc
    <3>2. vc' = [vc EXCEPT ![v] = [vc[v] EXCEPT !.pc = "upcall_word", !.port = 0]]
      BY <1>0, <2>2 DEF Basic, TypeOK
    <3> QED BY <1>0, <3>1, <3>2, VcTyped DEF Basic, TypeOK
  <2> QED BY <2>1, <2>2 DEF IrqClear
<1>3. TypeOK'
  BY <1>0, <1>1, <1>2 DEF Basic, TypeOK, IrqClear, shared, sleep, sched
<1>4. Apart(v)
  BY <1>0, <1>2 DEF Apart, IrqClear, shared, sleep, sched, Basic, TypeOK
<1>5. VcpuOK(v)'
  BY <1>0, <1>1, <1>2
     DEF IrqClear, VcpuOK, Asleep, Handling, shared, sleep, sched, VcState
<1>6. GuestKicked(v)'
  BY <1>0, <1>1, <1>2 DEF GuestKicked, VcState
<1>7. SelectorMarked(v)'
  BY <1>0, <1>1, <1>2, RolesSame
     DEF DeliveryInv, Follows, SelectorMarked, IrqClear, shared
<1>8. ASSUME NEW p \in Port PROVE PortSelected(p)'
  <2>1. Handles(v, p) => Handles(v, p)'
    BY <1>0, <1>1, <1>2 DEF Handles, Handling, VcState
  <2> QED BY <1>1, <1>4, <2>1, PortsApart DEF IrqClear, shared
<1> QED
  <2>1. vc'[v].pc \notin {"poll_test", "poll_ports", "sched", "off"}
    BY <1>0, <1>1, <1>2 DEF VcState
  <2> QED BY <1>1, <1>3, <1>4, <1>5, <1>6, <1>7, <1>8, <2>1, AwakeFollows, VcpuStep
          DEF Follows, IrqClear, shared

\* The pending bit is tested after the port is unmasked.
LEMMA KeepsIrqUnmask ==
  ASSUME DeliveryInv, NEW v \in Vcpu, IrqUnmask(v)
  PROVE  DeliveryInv'
<1>0. Basic /\ VcpuOK(v) /\ vc[v] \in VcState
  BY DEF DeliveryInv, Basic, TypeOK
<1>1. /\ vc[v].pc = "irq_unmask" /\ act' = act
  BY DEF IrqUnmask
<1>2. /\ vc' \in [Vcpu -> VcState]
      /\ \A u \in Vcpu \ {v} : vc'[u] = vc[u]
      /\ vc'[v] = [vc[v] EXCEPT !.pc = "irq_refire"]
  BY <1>0, StepTyped DEF IrqUnmask, Basic, TypeOK, VcPc
<1>3. TypeOK'
  BY <1>0, <1>1, <1>2 DEF Basic, TypeOK, IrqUnmask, shared, sleep, sched
<1>4. Apart(v)
  BY <1>0, <1>2 DEF Apart, IrqUnmask, shared, sleep, sched, Basic, TypeOK
<1>5. VcpuOK(v)'
  BY <1>0, <1>1, <1>2
     DEF IrqUnmask, VcpuOK, Asleep, Handling, shared, sleep, sched, VcState
<1>6. GuestKicked(v)'
  BY <1>0, <1>1, <1>2 DEF GuestKicked, VcState
<1>7. SelectorMarked(v)'
  BY <1>0, <1>1, <1>2, RolesSame
     DEF DeliveryInv, Follows, SelectorMarked, IrqUnmask, shared
<1>8. ASSUME NEW p \in Port PROVE PortSelected(p)'
  <2>1. PortSelected(p)
    BY DEF DeliveryInv
  <2>2. SUFFICES ASSUME p \in pending, p \notin mask' PROVE PortSelected(p)'
    BY DEF PortSelected, IrqUnmask
  <2>3. p \in mask => Notify[p] = v /\ Handles(v, p)'
    BY <1>0, <1>1, <1>2, <2>2 DEF IrqUnmask, Handles, VcpuOK, Handling, VcState
  <2>4. Handles(v, p) => Handles(v, p)'
    BY <1>0, <1>1, <1>2 DEF Handles, Handling, VcState
  <2>5. Handles(Notify[p], p) => Handles(Notify[p], p)'
    BY <1>2, <2>4, Constants DEF Handles
  <2> QED BY <1>1, <2>1, <2>2, <2>3, <2>5, RolesSame DEF PortSelected, IrqUnmask
<1> QED
  <2>1. vc'[v].pc \notin {"poll_test", "poll_ports", "sched", "off"}
    BY <1>0, <1>1, <1>2 DEF VcState
  <2> QED BY <1>1, <1>3, <1>4, <1>5, <1>6, <1>7, <1>8, <2>1, AwakeFollows, VcpuStep
          DEF Follows, IrqUnmask, shared

LEMMA KeepsIrqRefire ==
  ASSUME DeliveryInv, NEW v \in Vcpu, IrqRefire(v)
  PROVE  DeliveryInv'
<1>0. Basic /\ VcpuOK(v) /\ vc[v] \in VcState
  BY DEF DeliveryInv, Basic, TypeOK
<1>1. /\ vc[v].pc = "irq_refire" /\ act' = act
  BY DEF IrqRefire
<1>2. /\ vc' \in [Vcpu -> VcState]
      /\ \A u \in Vcpu \ {v} : vc'[u] = vc[u]
      /\ vc'[v] = [vc[v] EXCEPT !.pc = "upcall_word", !.port = 0]
  <2>1. [vc[v] EXCEPT !.pc = "upcall_word", !.port = 0] \in VcState
    BY <1>0 DEF VcState, VcPc
  <2>2. vc' = [vc EXCEPT ![v] = [vc[v] EXCEPT !.pc = "upcall_word", !.port = 0]]
    BY <1>0 DEF IrqRefire, Basic, TypeOK, VcState
  <2> QED BY <1>0, <2>1, <2>2, VcTyped DEF Basic, TypeOK
<1>3. TypeOK'
  <2>1. Word(vc[v].port) \in Words
    BY <1>0, <1>1, Constants DEF VcpuOK, Handling
  <2>2. sel' \in [Vcpu -> SUBSET Words]
    BY <1>0, <2>1 DEF Basic, TypeOK, IrqRefire
  <2>3. \A x \in BOOLEAN : \A y : (x \/ y) \in BOOLEAN
    OBVIOUS
  <2>4. upcall_pending' \in [Vcpu -> BOOLEAN]
    BY <1>0, <2>3 DEF Basic, TypeOK, IrqRefire
  <2> QED BY <1>0, <1>1, <1>2, <2>2, <2>4 DEF Basic, TypeOK, IrqRefire, sleep, sched
<1>4. Apart(v)
  BY <1>0, <1>2 DEF Apart, IrqRefire, shared, sleep, sched, Basic, TypeOK
<1>5. VcpuOK(v)'
  BY <1>0, <1>1, <1>2
     DEF IrqRefire, VcpuOK, Asleep, Handling, shared, sleep, sched, VcState
<1>6. GuestKicked(v)'
  BY <1>0, <1>1, <1>2 DEF GuestKicked, VcState
<1>7. SelectorMarked(v)'
  <2>1. SelectorMarked(v) /\ vc[v].pc # "upcall_sel"
    BY <1>1 DEF DeliveryInv, Follows
  <2>2. sel[v] # {} /\ upcall_pending[v] => upcall_pending'[v]
    BY <1>0 DEF IrqRefire, Basic, TypeOK
  <2>3. sel[v] = {} /\ sel'[v] # {} => upcall_pending'[v]
    BY <1>0 DEF IrqRefire, Basic, TypeOK
  <2> QED BY <1>1, <2>1, <2>2, <2>3, RolesSame DEF SelectorMarked
<1>8. ASSUME NEW p \in Port PROVE PortSelected(p)'
  <2>1. PortSelected(p)
    BY DEF DeliveryInv
  <2>2. SUFFICES ASSUME p \in pending, p \notin mask PROVE PortSelected(p)'
    BY DEF PortSelected, IrqRefire
  <2>3. /\ Word(p) \in sel[Notify[p]] => Word(p) \in sel'[Notify[p]]
        /\ vc[v].port = p /\ Notify[p] = v => Word(p) \in sel'[Notify[p]]
    BY <1>0, <2>2, Constants DEF IrqRefire, Basic, TypeOK
  <2>4. Notify[p] = v /\ Handles(v, p) => vc[v].port = p \/ Handles(v, p)'
    BY <1>0, <1>1, <1>2 DEF Handles, Handling, VcState
  <2>5. Notify[p] # v /\ Handles(Notify[p], p) => Handles(Notify[p], p)'
    BY <1>2, Constants DEF Handles
  <2> QED BY <1>1, <2>1, <2>2, <2>3, <2>4, <2>5, RolesSame DEF PortSelected
<1> QED
  <2>1. vc'[v].pc \notin {"poll_test", "poll_ports", "sched", "off"}
    BY <1>0, <1>1, <1>2 DEF VcState
  <2> QED BY <1>1, <1>3, <1>4, <1>5, <1>6, <1>7, <1>8, <2>1, AwakeFollows, VcpuStep
          DEF Follows, IrqRefire, shared

LEMMA KeepsUpcallEnable ==
  ASSUME DeliveryInv, NEW v \in Vcpu, UpcallEnable(v)
  PROVE  DeliveryInv'
<1>0. Basic /\ VcpuOK(v) /\ vc[v] \in VcState
  BY DEF DeliveryInv, Basic, TypeOK
<1>1. /\ vc[v].pc = "upcall_word" /\ act' = act
  BY DEF UpcallEnable
<1>2. /\ vc' \in [Vcpu -> VcState]
      /\ \A u \in Vcpu \ {v} : vc'[u] = vc[u]
      /\ vc'[v] = [vc[v] EXCEPT !.pc = "upcall_exit"]
  BY <1>0, StepTyped DEF UpcallEnable, Basic, TypeOK, VcPc
<1>3. TypeOK'
  BY <1>0, <1>1, <1>2 DEF Basic, TypeOK, UpcallEnable, shared, sleep, sched
<1>4. Apart(v)
  BY <1>0, <1>2 DEF Apart, UpcallEnable, shared, sleep, sched, Basic, TypeOK
<1>5. VcpuOK(v)'
  BY <1>0, <1>1, <1>2
     DEF UpcallEnable, VcpuOK, Asleep, Handling, shared, sleep, sched, VcState
<1>6. GuestKicked(v)'
  BY <1>0, <1>1, <1>2 DEF GuestKicked, VcState
<1>7. SelectorMarked(v)'
  BY <1>0, <1>1, <1>2, RolesSame
     DEF DeliveryInv, Follows, SelectorMarked, UpcallEnable, shared
<1>8. ASSUME NEW p \in Port PROVE PortSelected(p)'
  <2>1. Handles(v, p) => Handles(v, p)'
    BY <1>0, <1>1, <1>2 DEF Handles, Handling, VcState, UpcallEnable
  <2> QED BY <1>1, <1>4, <2>1, PortsApart DEF UpcallEnable, shared
<1> QED
  <2>1. vc'[v].pc \notin {"poll_test", "poll_ports", "sched", "off"}
    BY <1>0, <1>1, <1>2 DEF VcState
  <2> QED BY <1>1, <1>3, <1>4, <1>5, <1>6, <1>7, <1>8, <2>1, AwakeFollows, VcpuStep
          DEF Follows, UpcallEnable, shared

\* The hypercall that unmasks a port of another vcpu: v becomes a notifier.
LEMMA KeepsGuestUnmaskRemote ==
  ASSUME DeliveryInv, NEW v \in Vcpu, NEW q \in Port, GuestUnmaskRemote(v, q)
  PROVE  DeliveryInv'
<1>0. v \in Actor /\ Basic /\ ActorOK(v) /\ VcpuOK(v) /\ vc[v] \in VcState
  BY Constants DEF DeliveryInv, Basic, TypeOK
<1>1. /\ vc[v].pc = "guest" /\ act[v].pc = "idle"
      /\ UNCHANGED <<shared, sleep, sched>>
  BY <1>0 DEF GuestUnmaskRemote, ActorOK
<1>2. /\ act' \in [Actor -> ActState] /\ Others(v)
      /\ act'[v] = [Quiet EXCEPT !.pc = "unmask", !.op = "unmask", !.port = q,
                                 !.v = Notify[q]]
  <2>1. [Quiet EXCEPT !.pc = "unmask", !.op = "unmask", !.port = q,
                      !.v = Notify[q]] \in ActState
    BY Constants DEF Quiet, ActState, ActPc
  <2> QED BY <1>0, <2>1, ActTyped DEF GuestUnmaskRemote, Basic, TypeOK
<1>3. /\ vc' \in [Vcpu -> VcState]
      /\ \A u \in Vcpu \ {v} : vc'[u] = vc[u]
      /\ vc'[v] = [vc[v] EXCEPT !.pc = "hypercall"]
  BY <1>0, StepTyped DEF GuestUnmaskRemote, Basic, TypeOK, VcPc
<1>4. vc'[v].pc = "hypercall" /\ vc'[v].polled = vc[v].polled
  BY <1>0, <1>3 DEF VcState
<1>5. Basic'
  <2>1. TypeOK'
    BY <1>0, <1>1, <1>2, <1>3 DEF Basic, TypeOK, shared, sleep, sched
  <2>2. ActorOK(v)'
    BY <1>2, <1>4, Constants DEF ActorOK, Unblocking, Quiet
  <2>3. ASSUME NEW b \in Actor, b # v PROVE ActorOK(b)'
    <3>1. ActorOK(b) /\ act'[b] = act[b]
      BY <1>0, <1>2, <2>3 DEF Basic, Others
    <3>2. b \in Vcpu => vc'[b] = vc[b]
      BY <1>3, <2>3
    <3> QED BY <3>1, <3>2 DEF ActorOK
  <2>4. VcpuOK(v)'
    BY <1>0, <1>1, <1>4 DEF VcpuOK, Asleep, Handling, sched
  <2>5. ASSUME NEW u \in Vcpu, u # v PROVE VcpuOK(u)'
    <3>1. VcpuOK(u) /\ vc'[u] = vc[u]
      BY <1>0, <1>3, <2>5 DEF Basic
    <3> QED BY <1>1, <3>1 DEF VcpuOK, Asleep, sleep, sched
  <2> QED BY <2>1, <2>2, <2>3, <2>4, <2>5 DEF Basic
<1>6. ASSUME NEW u \in Vcpu
      PROVE  /\ Woken(u) => Woken(u)'
             /\ Unblocked(u) => Unblocked(u)'
             /\ Taken(u) => Taken(u)'
             /\ Marked(u) => Marked(u)'
             /\ Kicked(u) => Kicked(u)'
  BY <1>0, <1>1, <1>2, Roles DEF Wakes, Unblocks, Takes, Marks, Kicks, Unblocking
<1>7. ASSUME NEW p, NEW u, Found(p, u) PROVE Found(p, u)'
  BY <1>0, <1>1, <1>2, <1>7, Roles DEF Finds
<1>8. ASSUME NEW u \in Vcpu PROVE Follows(u)'
  <2>1. Follows(u)
    BY DEF DeliveryInv
  <2>2. CASE u = v
    <3>1. WakeComes(v)' /\ DeliveryWakes(v)' /\ PollerTaken(v)' /\ PollWakes(v)'
      BY <1>4, AwakeFollows
    <3>2. SelectorMarked(v)'
      BY <1>1, <1>6, <2>1, <2>2 DEF Follows, SelectorMarked, shared
    <3>3. GuestKicked(v)'
      BY <1>4 DEF GuestKicked
    <3> QED BY <2>2, <3>1, <3>2, <3>3 DEF Follows
  <2>3. CASE u # v
    <3>1. vc'[u] = vc[u] /\ Asleep(u)' = Asleep(u) /\ NeedDelivery(u)' = NeedDelivery(u)
      BY <1>1, <1>3, <2>3 DEF Asleep, NeedDelivery, shared, sched
    <3>2. WakeComes(u)' /\ DeliveryWakes(u)' /\ PollerTaken(u)'
      BY <1>1, <1>6, <2>1, <3>1 DEF Follows, WakeComes, DeliveryWakes, PollerTaken,
         Dozing, Registered, sleep
    <3>3. PollWakes(u)'
      BY <1>1, <1>7, <2>1, <3>1 DEF Follows, PollWakes, Tested, sleep, shared
    <3>4. SelectorMarked(u)' /\ GuestKicked(u)'
      BY <1>1, <1>6, <2>1, <3>1
         DEF Follows, SelectorMarked, GuestKicked, shared, sched
    <3> QED BY <3>2, <3>3, <3>4 DEF Follows
  <2> QED BY <2>2, <2>3
<1>9. ASSUME NEW p \in Port PROVE PortSelected(p)'
  <2>1. Selected(p) => Selected(p)'
    BY <1>0, <1>1, <1>2, Roles DEF Selects
  <2>2. Handles(Notify[p], p) => Handles(Notify[p], p)'
    BY <1>1, <1>3, Constants DEF Handles, Handling
  <2> QED BY <1>1, <2>1, <2>2 DEF DeliveryInv, PortSelected, shared
<1> QED BY <1>5, <1>8, <1>9 DEF DeliveryInv

-----------------------------------------------------------------------------
(* The theorems.                                                           *)

\* The invariant holds initially, ...
LEMMA DeliveryInit == Init => DeliveryInv
<1> SUFFICES ASSUME Init PROVE DeliveryInv
  OBVIOUS
<1>1. /\ \A a \in Actor : act[a] = Quiet
      /\ \A v \in Vcpu : vc[v] = Running
  BY DEF Init
<1>2. TypeOK
  <2>1. Running \in VcState
    BY DEF Running, VcState, VcPc
  <2> QED BY <2>1, Constants DEF Init, TypeOK
<1>3. ASSUME NEW a \in Actor PROVE ActorOK(a)
  BY <1>1 DEF ActorOK, Quiet, Unblocking
<1>4. ASSUME NEW v \in Vcpu PROVE VcpuOK(v)
  BY <1>1, FS_EmptySet DEF VcpuOK, Running, Asleep, Handling, Init
<1>5. ASSUME NEW v \in Vcpu PROVE Follows(v)
  <2>1. vc[v].pc = "guest" /\ sel[v] = {} /\ ~upcall_pending[v]
    BY <1>1 DEF Running, Init
  <2> QED BY <2>1 DEF Follows, WakeComes, DeliveryWakes, PollerTaken, PollWakes,
             SelectorMarked, GuestKicked, Asleep, Dozing, Registered, Tested, NeedDelivery
<1>6. \A p \in Port : PortSelected(p)
  BY DEF PortSelected, Init
<1> QED BY <1>2, <1>3, <1>4, <1>5, <1>6 DEF DeliveryInv, Basic

\* ... a step that changes nothing keeps it, ...
LEMMA DeliveryStutter ==
  ASSUME DeliveryInv, UNCHANGED vars
  PROVE  DeliveryInv'
<1>1. TypeOK'
  BY DEF DeliveryInv, Basic, TypeOK, vars
<1>2. ASSUME NEW a \in Actor PROVE ActorOK(a)'
  BY DEF DeliveryInv, Basic, ActorOK, vars
<1>3. ASSUME NEW v \in Vcpu PROVE VcpuOK(v)' /\ Follows(v)'
  <2>1. vc' = vc /\ act' = act /\ Follows(v) /\ VcpuOK(v)
    BY DEF DeliveryInv, Basic, vars
  <2>2. VcpuOK(v)'
    BY <2>1 DEF VcpuOK, Asleep, vars
  <2>3. WakeComes(v)' /\ DeliveryWakes(v)' /\ PollerTaken(v)'
    BY <2>1, RolesSame, WakeStays, DeliveryStays, TakenStays DEF vars
  <2>4. PollWakes(v)' /\ SelectorMarked(v)' /\ GuestKicked(v)'
    BY <2>1, RolesSame, PollStays, MarkedStays, KickedStays DEF vars
  <2> QED BY <2>2, <2>3, <2>4 DEF Follows
<1>4. ASSUME NEW p \in Port PROVE PortSelected(p)'
  BY RolesSame, PortsStay DEF DeliveryInv, vars
<1> QED BY <1>1, <1>2, <1>3, <1>4 DEF DeliveryInv, Basic

\* ... and so does every action: no step of an actor, of Xen for a vcpu or of
\* the guest clears a bit before somebody is bound to set the next one.
LEMMA DeliveryNext == DeliveryInv /\ [Next]_vars => DeliveryInv'
<1> SUFFICES ASSUME DeliveryInv, [Next]_vars PROVE DeliveryInv'
  OBVIOUS
<1>1. ASSUME NEW a \in Actor, Notifying(a) PROVE DeliveryInv'
  BY <1>1, KeepsSetPending, KeepsTestMask, KeepsSetSelector, KeepsMark, KeepsKick,
     KeepsKickIpi, KeepsFindPoller, KeepsTakePoller, KeepsResetPoller, KeepsUnblock,
     KeepsTestPolling, KeepsEndPolling, KeepsClearPollMask, KeepsReclearBlocked,
     KeepsWake
     DEF Notifying
<1>2. ASSUME NEW s \in Sender, SenderStep(s) PROVE DeliveryInv'
  BY <1>2, KeepsSendEvent, KeepsPollTimer DEF SenderStep
<1>3. ASSUME NEW v \in Vcpu, XenStep(v) PROVE DeliveryInv'
  <2>1. evtchn_unmask(v) => act[v].pc \in {"unmask", "unmask_test"}
    BY DEF evtchn_unmask
  <2> QED
    BY <1>3, <2>1, KeepsBlockSet, KeepsBlockTest, KeepsPollAny, KeepsPollSet,
       KeepsPollTest, KeepsPollPort, KeepsPollSleep, KeepsPollOut, KeepsDeschedule,
       KeepsContextSaved, KeepsScheduleIn, KeepsReturnToGuest, KeepsTakeKick,
       KeepsUnmask, KeepsUnmaskTest, KeepsHypercallDone
       DEF XenStep
<1>4. ASSUME NEW v \in Vcpu, UpcallStep(v) PROVE DeliveryInv'
  BY <1>4, KeepsUpcallEnter, KeepsUpcallSelector, KeepsUpcallWord, KeepsIrqMask,
     KeepsIrqClear, KeepsIrqUnmask, KeepsIrqRefire, KeepsUpcallEnable, KeepsUpcallExit
     DEF UpcallStep
<1>5. ASSUME NEW v \in Vcpu, GuestStep(v) PROVE DeliveryInv'
  BY <1>5, KeepsBlock, KeepsPreempt, KeepsGuestIrqOff, KeepsGuestIrqOn, KeepsPoll,
     KeepsGuestMask, KeepsGuestUnmask, KeepsGuestUnmaskRemote, KeepsGuestClear
     DEF GuestStep
<1>6. CASE UNCHANGED vars
  BY <1>6, DeliveryStutter
<1> QED BY <1>1, <1>2, <1>3, <1>4, <1>5, <1>6 DEF Next

LEMMA DeliveryInvariant == Spec => []DeliveryInv
BY DeliveryInit, DeliveryNext, PTL DEF Spec

\* Every bit, flag and local of the notifying code, of SCHEDOP_block, of
\* SCHEDOP_poll and of the upcall keeps its type, for any number of ports,
\* vcpus and senders.
THEOREM DeliveryTyped == Spec => []TypeOK
<1>1. DeliveryInv => TypeOK
  BY DEF DeliveryInv, Basic
<1> QED BY <1>1, DeliveryInvariant, PTL

\* When nobody is notifying, no role of the invariant is held.
LEMMA NobodyNotifies ==
  ASSUME ~InFlight, NEW v, NEW p
  PROVE  /\ ~Woken(v) /\ ~Unblocked(v) /\ ~Taken(v) /\ ~Found(p, v)
         /\ ~Selected(p) /\ ~Marked(v) /\ ~Kicked(v)
<1>1. \A a \in Actor : act[a].pc = "idle"
  BY DEF InFlight
<1>2. ~Woken(v) /\ ~Unblocked(v) /\ ~Taken(v)
  BY <1>1 DEF Woken, Wakes, Unblocked, Unblocks, Taken, Takes, Unblocking
<1>3. ~Found(p, v) /\ ~Selected(p)
  BY <1>1 DEF Found, Finds, Selected, Selects
<1>4. ~Marked(v) /\ ~Kicked(v)
  BY <1>1 DEF Marked, Marks, Kicked, Kicks, Unblocking
<1> QED BY <1>2, <1>3, <1>4

\* There is no wakeup-waiting race between evtchn_set_pending, evtchn_unmask
\* or poll_timer_fn and a vcpu in do_block or do_poll, whatever the number of
\* CPUs that notify it at once: with nobody notifying, a vcpu that sleeps has
\* no event to deliver and none that it polls for, and is still marked blocked.
THEOREM WakeupsNotLost == Spec => []NoLostWakeup
<1>1. DeliveryInv => NoLostWakeup
  <2> SUFFICES ASSUME DeliveryInv, NEW v \in Vcpu, Asleep(v), ~InFlight
               PROVE  ~MustWake(v) /\ v \in blocked
    BY DEF NoLostWakeup
  <2>1. Follows(v)
    BY DEF DeliveryInv
  <2>2. v \in blocked
    BY <2>1, NobodyNotifies DEF Follows, WakeComes
  <2>3. ~NeedDelivery(v)
    BY <2>1, <2>2, NobodyNotifies DEF Follows, DeliveryWakes, Dozing
  <2>4. ASSUME NEW p \in pending PROVE p \notin vc[v].polled
    <3> SUFFICES ASSUME p \in vc[v].polled PROVE FALSE
      OBVIOUS
    <3>1. v \in poll_mask
      BY <2>1, <2>2, NobodyNotifies DEF Follows, PollerTaken, Registered
    <3>2. Tested(v, p)
      BY DEF Tested
    <3> QED BY <2>1, <3>1, <3>2, NobodyNotifies DEF Follows, PollWakes
  <2> QED BY <2>2, <2>3, <2>4 DEF MustWake
<1> QED BY <1>1, DeliveryInvariant, PTL

\* No edge is lost between evtchn_pending, evtchn_pending_sel, the upcall flag
\* and the interrupt of the vcpu's CPU, however masking, unmasking, upcalls and
\* senders interleave.
THEOREM EdgesNotLost == Spec => []NoLostEdge
<1>1. DeliveryInv => NoLostEdge
  <2> SUFFICES ASSUME DeliveryInv, NEW v \in Vcpu, ~InFlight,
                      vc[v].pc \notin UpcallPcs
               PROVE  /\ \A p \in pending \ mask : Notify[p] = v => Word(p) \in sel[v]
                      /\ sel[v] # {} => upcall_pending[v]
                      /\ vc[v].pc = "guest" /\ NeedDelivery(v) => v \in kicked
    BY DEF NoLostEdge
  <2>1. Follows(v)
    BY DEF DeliveryInv
  <2>2. ASSUME NEW p \in pending \ mask, Notify[p] = v PROVE Word(p) \in sel[v]
    <3>1. PortSelected(p)
      BY DEF DeliveryInv, Basic, TypeOK
    <3>2. ~Handles(v, p)
      BY DEF Handles, Handling, UpcallPcs
    <3> QED BY <2>2, <3>1, <3>2, NobodyNotifies DEF PortSelected
  <2>3. sel[v] # {} => upcall_pending[v]
    BY <2>1, NobodyNotifies DEF Follows, SelectorMarked, UpcallPcs
  <2>4. vc[v].pc = "guest" /\ NeedDelivery(v) => v \in kicked
    BY <2>1, NobodyNotifies DEF Follows, GuestKicked
  <2> QED BY <2>2, <2>3, <2>4
<1> QED BY <1>1, DeliveryInvariant, PTL
=============================================================================
