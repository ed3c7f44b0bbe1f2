--------------------------- MODULE QxlRingsProofs ---------------------------
(***************************************************************************)
(* Theorems about QxlRings, for every size of the rings, every limit and   *)
(* every behaviour of the client.                                          *)
(*                                                                         *)
(* InterruptComing alone is not inductive: when qxl_set_irq lowers a line  *)
(* that was high, nothing is known of the pending bits.  SetIrqStale says  *)
(* what is: a qxl_set_irq about to store a level that is out of date will  *)
(* be followed by another one.                                             *)
(*                                                                         *)
(* DriverWoken and WorkerWoken speak of sleepers only.  RingInv says what  *)
(* each step on the way to sleep has achieved: which index was read, that  *)
(* the one to notify at was stored before the last test of the ring        *)
(* (ProdWait, ConsWait), and what brings the worker back to a ring that it *)
(* has passed without a timeout (LeftSafely).  That a full ring is told    *)
(* from an empty one needs the rings' bounds; that a stopped pipe has      *)
(* acknowledgements to come needs the accounting of the window             *)
(* (ChannelsOK).  The length of the pipe has a limit because what the      *)
(* streams will still add is counted with it (PipeBounded).                *)
(*                                                                         *)
(* That the rings implement CommandQueue needs the same bounds, what the   *)
(* worker holds at which place (Held), and arithmetic: a ring's places     *)
(* from cons up to prod are different ones, also where the indices wrap.   *)
(***************************************************************************)
EXTENDS QxlRings, SequenceTheorems, TLAPS

\* The actors' records have their fields.
Shape ==
    /\ w = [pc |-> w.pc, ring |-> w.ring, x |-> w.x, tmp |-> w.tmp,
            tmo |-> w.tmo, evs |-> w.evs, streams |-> w.streams]
    /\ m = [pc |-> m.pc, for |-> m.for, level |-> m.level]
    /\ g = [pc |-> g.pc, ring |-> g.ring, tmp |-> g.tmp]
    /\ int_mask \in BOOLEAN /\ pipe \in BOOLEAN /\ irq \in BOOLEAN
    /\ m.level \in BOOLEAN

\* A port write is served while its writer waits for it.
IoMatched ==
    /\ gio # "none" => g.pc = "io"
    /\ (m.pc # "idle" /\ m.for = "isr") => isr = "io"
    /\ (m.pc # "idle" /\ m.for = "driver") => gio = "irq"

\* A level read before the last bit was set is not the last one to be stored.
SetIrqStale ==
    (m.pc = "set" /\ ~m.level /\ int_mask /\ int_pending # {}) =>
        \/ pipe \/ w.pc = "kick"
        \/ isr = "io" /\ m.for # "isr"
        \/ gio = "irq" /\ m.for # "driver"

IrqInv == Shape /\ IoMatched /\ SetIrqStale /\ InterruptComing

-----------------------------------------------------------------------------
LEMMA IrqInit == Init => IrqInv
<1> SUFFICES ASSUME Init
             PROVE  IrqInv
  OBVIOUS
<1>1. w = [pc |-> "epoll", ring |-> FirstRing, x |-> {}, tmp |-> 0,
           tmo |-> "inf", evs |-> {}, streams |-> 0]
  BY DEF Init
<1>2. m = [pc |-> "idle", for |-> "pipe", level |-> FALSE]
  BY DEF Init
<1>3. g = [pc |-> "boot", ring |-> "cmd", tmp |-> 0] /\ gio = "none"
  BY DEF Init
<1>4. int_mask = FALSE /\ pipe = FALSE /\ irq = FALSE
  BY DEF Init
<1>5. Shape
  BY <1>1, <1>2, <1>3, <1>4 DEF Shape
<1>6. IoMatched /\ SetIrqStale /\ InterruptComing
  BY <1>2, <1>3, <1>4 DEF IoMatched, SetIrqStale, InterruptComing
<1> QED
  BY <1>5, <1>6 DEF IrqInv

LEMMA IrqDriver == IrqInv /\ (Driver \/ \E r \in Ring : DrvBegin(r)) => IrqInv'
<1> SUFFICES ASSUME IrqInv, Driver \/ \E r \in Ring : DrvBegin(r)
             PROVE  IrqInv'
  OBVIOUS
<1> USE DEF IrqInv, Shape, IoMatched, SetIrqStale, InterruptComing, intVars, msgVars
<1>1. CASE DrvBoot
  BY <1>1, ActorAssumption DEF DrvBoot
<1>2. CASE DrvIoDone
  BY <1>2 DEF DrvIoDone
<1>3. CASE DrvProdWait
  BY <1>3 DEF DrvProdWait
<1>4. CASE DrvWake
  BY <1>4 DEF DrvWake
<1>5. CASE DrvPush
  BY <1>5 DEF DrvPush
<1>6. CASE DrvNotify
  BY <1>6 DEF DrvNotify
<1>7. CASE \E r \in Ring : DrvBegin(r)
  <2> PICK r \in Ring : DrvBegin(r)
    BY <1>7
  <2> QED
    BY DEF DrvBegin
<1> QED
  BY <1>1, <1>2, <1>3, <1>4, <1>5, <1>6, <1>7 DEF Driver

LEMMA IrqMain == IrqInv /\ (IsrTake \/ MainThread) => IrqInv'
<1> SUFFICES ASSUME IrqInv, IsrTake \/ MainThread
             PROVE  IrqInv'
  OBVIOUS
<1> USE DEF IrqInv, Shape, IoMatched, SetIrqStale, InterruptComing, intVars, msgVars,
            drvVars
<1>1. CASE IsrTake
  BY <1>1 DEF IsrTake
<1>2. CASE IoNotify
  BY <1>2 DEF IoNotify
<1>3. CASE IoUpdateIrq
  BY <1>3 DEF IoUpdateIrq
<1>4. CASE PipeRead
  BY <1>4 DEF PipeRead
<1>5. CASE SetIrqRead
  BY <1>5 DEF SetIrqRead
<1>6. CASE SetIrqStore
  BY <1>6 DEF SetIrqStore
<1> QED
  BY <1>1, <1>2, <1>3, <1>4, <1>5, <1>6 DEF MainThread

LEMMA IrqWorker == IrqInv /\ Worker => IrqInv'
<1> SUFFICES ASSUME IrqInv, Worker
             PROVE  IrqInv'
  OBVIOUS
<1> USE DEF IrqInv, Shape, IoMatched, SetIrqStale, InterruptComing, intVars, msgVars,
            drvVars
<1>1. CASE EpollWait
  BY <1>1 DEF EpollWait
<1>2. CASE HandleWakeup
  BY <1>2 DEF HandleWakeup
<1>3. CASE EventsDone
  BY <1>3 DEF EventsDone
<1>4. CASE \E r \in Ring : HandleChannelEvents(r)
  BY <1>4 DEF HandleChannelEvents
<1>5. CASE GetNothing
  BY <1>5, ZenonT(40) DEF GetNothing, Return
<1>6. CASE GetCommand
  BY <1>6 DEF GetCommand
<1>7. CASE PopNotify
  BY <1>7 DEF PopNotify
<1>8. CASE SendEvents
  BY <1>8 DEF SendEvents
<1>9. CASE SendEventsPipe
  BY <1>9 DEF SendEventsPipe
<1>10. CASE ReqNotification
  BY <1>10, ZenonT(40) DEF ReqNotification, Return
<1>11. CASE Process(TRUE)
  BY <1>11 DEF Process, Return
<1>12. CASE Process(FALSE)
  BY <1>12 DEF Process, Return
<1>13. CASE Send
  BY <1>13 DEF Send
<1> QED
  BY <1>1, <1>2, <1>3, <1>4, <1>5, <1>6, <1>7, <1>8, <1>9, <1>10, <1>11, <1>12,
     <1>13 DEF Worker

LEMMA IrqClient ==
    IrqInv /\ (\E r \in Ring : ClientAck(r) \/ ClientHangUp(r)) => IrqInv'
BY DEF IrqInv, Shape, IoMatched, SetIrqStale, InterruptComing, intVars, msgVars, drvVars,
       ClientAck, ClientHangUp

LEMMA IrqStutter == IrqInv /\ UNCHANGED vars => IrqInv'
BY DEF IrqInv, Shape, IoMatched, SetIrqStale, InterruptComing, vars

-----------------------------------------------------------------------------
\* Whatever the interleaving of qxl_send_events in the worker, pipe_read and
\* QXL_IO_UPDATE_IRQ in the main thread and the guest's handler: an enabled
\* interrupt that is pending while the line is low is about to raise it.
THEOREM InterruptNotLost == Spec => []InterruptComing
<1>1. Init => IrqInv
  BY IrqInit
<1>2. IrqInv /\ [Next]_vars => IrqInv'
  BY IrqDriver, IrqMain, IrqWorker, IrqClient, IrqStutter DEF Next
<1>3. IrqInv => InterruptComing
  BY DEF IrqInv
<1> QED
  BY <1>1, <1>2, <1>3, PTL DEF Spec
-----------------------------------------------------------------------------
(* The indices and the notifications of the rings.                         *)

\* Places between taking a command and having processed it, and places of
\* SPICE_RING_CONS_WAIT.
Taking  == {"popped", "event", "kick", "process"}
Waiting == {"wait", "waitread", "waitarm", "waittest"}

\* The producer never overruns the consumer.
RingsBounded ==
    \A r \in Ring :
      /\ Used(ring[r]) <= RingItems
      /\ g.pc = "push" /\ g.ring = r => Used(ring[r]) < RingItems

\* dispatcher->pending says whether a WAKEUP is in the channel, and the worker
\* only expects one that is there.
WakeupMatched ==
    /\ pending = {} => channel = <<>>
    /\ pending # {} => channel = <<"wakeup">>
    /\ "dev" \in w.evs => channel # <<>>
    /\ w.evs # {} => w.pc = "events"

\* The client acknowledges what it received; a channel is blocked with its
\* window used up; a command is only taken while the pipe is short enough.
ChannelsOK ==
    /\ \A r \in Ring :
         /\ Unacked(chan[r]) >= 0
         /\ ~chan[r].up => chan[r].size = 0
         /\ chan[r].blocked => chan[r].window = 2 * AckWindow + 1
    /\ w.pc \in Taking => chan[w.ring].size <= MaxPipe

\* The ring is empty, and the next command put on it is the one to notify.
ProdArmed(r) == ring[r].notify_on_prod = Succ(ring[r].prod)

\* What SPICE_RING_CONS_WAIT has achieved so far, and what it leaves behind
\* until the next command is taken.
ConsWait ==
    /\ w.pc \in Waiting => repoll[w.ring] = PollRetries
    /\ w.pc = "waitarm" /\ IsEmpty(ring[w.ring]) => w.tmp = Succ(ring[w.ring].prod)
    /\ w.pc = "waittest" /\ IsEmpty(ring[w.ring]) => ProdArmed(w.ring)
    /\ \A r \in Ring :
         /\ repoll[r] > PollRetries /\ IsEmpty(ring[r])
         /\ ~(w.pc \in Taking /\ w.ring = r)
         => ProdArmed(r)

\* What is in the pipe and what the streams may add to it have room together.
PipeBounded == chan["cmd"].size + 2 * w.streams <= PipeLimit

\* The worker will not look at ring r again before it sleeps, and no stream
\* will wake it.
Passed(r) == \/ w.pc = "send"
             \/ w.pc = "epoll" /\ w.streams = 0
             \/ w.pc \notin {"epoll", "events"} /\ r = "cursor" /\ w.ring # r

\* A wakeup for ring r is under way.
WakeupComing(r) ==
    \/ channel # <<>> \/ gio = "notify"
    \/ g.pc = "pushed" /\ g.ring = r /\ ring[r].prod = ring[r].notify_on_prod

\* The client of ring r has messages to acknowledge, or will get them.
AckComing(r) ==
    /\ chan[r].up
    /\ IF w.pc = "epoll" THEN chan[r].window >= AckWindow
                         ELSE chan[r].size > MaxPipe

\* A ring that the worker has left without a timeout.
LeftSafely ==
    \A r \in Ring :
      Passed(r) /\ w.tmo = "inf" =>
        \/ AckComing(r)
        \/ IsEmpty(ring[r]) /\ ProdArmed(r)
        \/ ~IsEmpty(ring[r]) /\ WakeupComing(r)

\* What SPICE_RING_PROD_WAIT has achieved so far.
ProdWait ==
    LET q == ring[g.ring] IN
    /\ g.pc = "armed" /\ IsFull(q) => g.tmp = Succ(q.cons)
    /\ g.pc \in {"retest", "sleep"} /\ IsFull(q) => q.notify_on_cons = Succ(q.cons)

RingInv == /\ TypeOK /\ RingsBounded /\ WakeupMatched /\ ChannelsOK
           /\ ConsWait /\ LeftSafely /\ IoMatched /\ ProdWait /\ DriverWoken

\* Ring indices: the 32-bit wraparound of ipc_ring.h.
LEMMA SuccFacts ==
  ASSUME NEW i \in Index
  PROVE  /\ Succ(i) = IF i = IdxMod - 1 THEN 0 ELSE i + 1
         /\ Succ(i) \in Index
BY SizeAssumption DEF Succ, Index

LEMMA UsedFacts ==
  ASSUME NEW p \in Index, NEW c \in Index
  PROVE  (p - c) % IdxMod = IF p >= c THEN p - c ELSE p - c + IdxMod
BY SizeAssumption DEF Index

LEMMA UsedNat ==
  ASSUME NEW q \in RingRecord
  PROVE  Used(q) \in Nat
<1>1. q.prod \in Index /\ q.cons \in Index
  BY DEF RingRecord
<1> QED BY <1>1, UsedFacts, SizeAssumption DEF Used, Index

LEMMA SlotRange ==
  ASSUME NEW i \in Index
  PROVE  i % RingItems \in 0 .. RingItems - 1
BY SizeAssumption DEF Index

\* What storing prod and storing cons do to the number of used places.
LEMMA PushFacts ==
  ASSUME NEW p \in Index, NEW c \in Index, (p - c) % IdxMod < RingItems
  PROVE  /\ (Succ(p) - c) % IdxMod = ((p - c) % IdxMod) + 1
         /\ Succ(p) # c
<1>1. Succ(p) \in Index /\ Succ(p) = IF p = IdxMod - 1 THEN 0 ELSE p + 1
  BY SuccFacts
<1>2. /\ (Succ(p) - c) % IdxMod = IF Succ(p) >= c THEN Succ(p) - c
                                                  ELSE Succ(p) - c + IdxMod
      /\ (p - c) % IdxMod = IF p >= c THEN p - c ELSE p - c + IdxMod
  BY <1>1, UsedFacts
<1> QED BY <1>1, <1>2, SizeAssumption DEF Index

LEMMA PopFacts ==
  ASSUME NEW p \in Index, NEW c \in Index, p # c
  PROVE  (p - Succ(c)) % IdxMod = ((p - c) % IdxMod) - 1
<1>1. Succ(c) \in Index /\ Succ(c) = IF c = IdxMod - 1 THEN 0 ELSE c + 1
  BY SuccFacts
<1>2. /\ (p - Succ(c)) % IdxMod = IF p >= Succ(c) THEN p - Succ(c)
                                                  ELSE p - Succ(c) + IdxMod
      /\ (p - c) % IdxMod = IF p >= c THEN p - c ELSE p - c + IdxMod
  BY <1>1, UsedFacts
<1> QED BY <1>1, <1>2, SizeAssumption DEF Index

-----------------------------------------------------------------------------
LEMMA PipeLimitNat ==
  /\ PipeLimit \in Nat /\ MaxPipe + 1 <= PipeLimit
  /\ MaxPipe + CommandItems + 2 * MaxStreams <= PipeLimit
  /\ MaxPipe \in Nat /\ CommandItems \in Nat /\ CommandItems > 0 /\ MaxStreams \in Nat
BY WindowAssumption, StreamAssumption DEF PipeLimit

LEMMA InitChanType == \A up \in BOOLEAN : InitChan(up) \in ChanRecord
<1>1. /\ 0 \in 0 .. PipeLimit /\ 0 \in 0 .. 2 * AckWindow + 1 /\ 0 \in 0 .. 3
      /\ FALSE \in BOOLEAN
  BY WindowAssumption, PipeLimitNat
<1> QED BY <1>1, Zenon DEF InitChan, ChanRecord

\* A channel is what its fields are.
LEMMA ChanMade ==
  ASSUME NEW up \in BOOLEAN, NEW hup \in BOOLEAN, NEW size \in 0 .. PipeLimit,
         NEW window \in 0 .. 2 * AckWindow + 1, NEW acks \in 0 .. 3,
         NEW blocked \in BOOLEAN
  PROVE  [up |-> up, hup |-> hup, size |-> size, window |-> window, acks |-> acks,
          blocked |-> blocked] \in ChanRecord
BY Zenon DEF ChanRecord

LEMMA ChanFields ==
  ASSUME NEW c \in ChanRecord
  PROVE  /\ c.up \in BOOLEAN /\ c.hup \in BOOLEAN /\ c.size \in 0 .. PipeLimit
         /\ c.window \in 0 .. 2 * AckWindow + 1 /\ c.acks \in 0 .. 3
         /\ c.blocked \in BOOLEAN
BY Zenon DEF ChanRecord

\* A pipe of another length.
LEMMA SizeChanges ==
  ASSUME chan \in [Ring -> ChanRecord], NEW s \in Ring, NEW n \in 0 .. PipeLimit,
         chan' = [chan EXCEPT ![s].size = n]
  PROVE  /\ chan' \in [Ring -> ChanRecord]
         /\ \A r \in Ring : /\ chan'[r].up = chan[r].up
                            /\ chan'[r].window = chan[r].window
                            /\ chan'[r].acks = chan[r].acks
                            /\ chan'[r].blocked = chan[r].blocked
                            /\ chan'[r].size = IF r = s THEN n ELSE chan[r].size
<1>1. PICK d \in ChanRecord : d = chan[s]
  OBVIOUS
<1>2. PICK c : c = [d EXCEPT !.size = n]
  OBVIOUS
<1>3. chan' = [chan EXCEPT ![s] = c]
  BY <1>1, <1>2
<1>4. c = [up |-> d.up, hup |-> d.hup, size |-> n, window |-> d.window,
           acks |-> d.acks, blocked |-> d.blocked]
  BY <1>1, <1>2 DEF ChanRecord
<1>5. c \in ChanRecord
  <2>1. /\ d.up \in BOOLEAN /\ d.hup \in BOOLEAN /\ d.window \in 0 .. 2 * AckWindow + 1
        /\ d.acks \in 0 .. 3 /\ d.blocked \in BOOLEAN
    BY <1>1, ChanFields, Zenon
  <2>2. [up |-> d.up, hup |-> d.hup, size |-> n, window |-> d.window,
         acks |-> d.acks, blocked |-> d.blocked] \in ChanRecord
    BY <2>1, ChanMade
  <2> QED BY <1>4, <2>2
<1>6. /\ c.size = n /\ c.up = d.up /\ c.window = d.window
      /\ c.acks = d.acks /\ c.blocked = d.blocked
  BY <1>4, Zenon
<1>7. chan'[s] = c /\ \A r \in Ring : r # s => chan'[r] = chan[r]
  BY <1>3
<1>8. chan' \in [Ring -> ChanRecord]
  BY <1>3, <1>5
<1>9. ASSUME NEW r \in Ring
      PROVE  /\ chan'[r].up = chan[r].up /\ chan'[r].window = chan[r].window
             /\ chan'[r].acks = chan[r].acks /\ chan'[r].blocked = chan[r].blocked
             /\ chan'[r].size = IF r = s THEN n ELSE chan[r].size
  <2>1. CASE r = s
    <3>1. chan'[r] = c /\ chan[r] = d
      BY <1>1, <1>7, <2>1, Zenon
    <3>2. chan'[r].size = IF r = s THEN n ELSE chan[r].size
      BY <1>6, <2>1, <3>1
    <3> QED BY <1>6, <3>1, <3>2, Zenon
  <2>2. CASE r # s
    <3>1. chan'[r] = chan[r]
      BY <1>7, <2>2
    <3>2. chan'[r].size = IF r = s THEN n ELSE chan[r].size
      BY <2>2, <3>1
    <3> QED BY <3>1, <3>2, Zenon
  <2> QED BY <2>1, <2>2
<1> QED BY <1>8, <1>9

LEMMA RingInitial == Init => RingInv
<1> SUFFICES ASSUME Init PROVE RingInv
  OBVIOUS
<1>1. \A r \in Ring : /\ ring[r].prod = 0 /\ ring[r].cons = 0
                      /\ ring[r].notify_on_prod = 1
                      /\ ring[r].notify_on_cons = 0
                      /\ ring[r].items \in [0 .. RingItems - 1 -> Cmd]
                      /\ ring[r] = RingInit(ring[r].items)
  BY DEF Init, RingInit
<1>2. \A r \in Ring :
        /\ chan[r].up \in BOOLEAN /\ ~chan[r].hup /\ chan[r].size = 0
        /\ chan[r].window = 0 /\ chan[r].acks = 0 /\ ~chan[r].blocked
        /\ chan[r] = InitChan(chan[r].up)
  BY ActorAssumption DEF Init, InitChan
<1>3. 0 \in Index /\ 1 \in Index /\ Succ(0) = 1 /\ (0 - 0) % IdxMod = 0
  <2>1. 0 \in Index /\ 1 \in Index
    BY SizeAssumption DEF Index
  <2> QED BY <2>1, SuccFacts, UsedFacts, SizeAssumption
<1>4. w = [pc |-> "epoll", ring |-> FirstRing, x |-> {}, tmp |-> 0,
           tmo |-> "inf", evs |-> {}, streams |-> 0] /\ FirstRing \in Ring
  BY RingAssumption DEF Init, FirstRing
<1>5. TypeOK
  <2>1. ring \in [Ring -> RingRecord]
    BY <1>1, <1>3 DEF Init, RingInit, RingRecord
  <2>2. chan \in [Ring -> ChanRecord]
    BY <1>2, InitChanType DEF Init
  <2>3. repoll \in [Ring -> 0 .. PollRetries + 1]
    BY SizeAssumption DEF Init
  <2>4. w \in WorkerRecord
    BY <1>3, <1>4, StreamAssumption DEF WorkerRecord
  <2>5. g \in DriverRecord /\ m \in MainRecord
    BY <1>3, RingAssumption DEF Init, DriverRecord, MainRecord
  <2> QED BY <2>1, <2>2, <2>3, <2>4, <2>5 DEF TypeOK, Init
<1>6. RingsBounded
  BY <1>1, <1>3, SizeAssumption DEF RingsBounded, Used, Init
<1>7. WakeupMatched
  BY <1>4 DEF WakeupMatched, Init
<1>8. ChannelsOK
  BY <1>2, <1>4, WindowAssumption DEF ChannelsOK, Unacked, Taking
<1>9. ConsWait
  BY <1>4, SizeAssumption DEF ConsWait, Init, Waiting
<1>10. LeftSafely
  BY <1>1, <1>3 DEF LeftSafely, IsEmpty, ProdArmed
<1>11. IoMatched /\ ProdWait /\ DriverWoken
  BY DEF IoMatched, ProdWait, DriverWoken, Init
<1> QED BY <1>5, <1>6, <1>7, <1>8, <1>9, <1>10, <1>11 DEF RingInv

\* Ring r keeps its indices and the worker's request for a notification.
SameIndices(r) == /\ ring'[r].prod = ring[r].prod /\ ring'[r].cons = ring[r].cons
                  /\ ring'[r].notify_on_prod = ring[r].notify_on_prod

\* A step of the driver that stores no index: it may look for room, ask to be
\* told of it, or write a command that nobody else looks at yet.
LEMMA DriverStep ==
  ASSUME RingInv, TypeOK', IoMatched', ProdWait', DriverWoken',
         UNCHANGED <<pending, channel, chan, repoll, w, m, isr>>,
         \A r \in Ring : SameIndices(r),
         gio = "notify" => gio' = "notify",
         g.pc = "pushed" /\ ring[g.ring].prod = ring[g.ring].notify_on_prod =>
           gio' = "notify",
         g'.pc = "push" => Used(ring[g'.ring]) < RingItems
  PROVE  RingInv'
<1>0. /\ TypeOK /\ RingsBounded /\ WakeupMatched /\ ChannelsOK
      /\ ConsWait /\ LeftSafely
  BY DEF RingInv
<1>1. /\ w' = w /\ chan' = chan /\ repoll' = repoll /\ channel' = channel
      /\ pending' = pending
  OBVIOUS
<1>2. RingsBounded'
  BY <1>0 DEF RingsBounded, Used, SameIndices
<1>3. WakeupMatched' /\ ChannelsOK'
  BY <1>0, <1>1 DEF WakeupMatched, ChannelsOK, Unacked
<1>4. \A r \in Ring : /\ IsEmpty(ring[r]) <=> IsEmpty(ring[r])'
                      /\ ProdArmed(r) <=> ProdArmed(r)'
                      /\ ring'[r].prod = ring[r].prod
  BY DEF SameIndices, IsEmpty, ProdArmed
<1>5. w.ring \in Ring
  BY <1>0 DEF TypeOK, WorkerRecord
<1>6. ConsWait'
  BY <1>0, <1>1, <1>4, <1>5 DEF ConsWait
<1>7. LeftSafely'
  BY <1>0, <1>1, <1>4 DEF LeftSafely, Passed, AckComing, WakeupComing
<1> QED BY <1>2, <1>3, <1>6, <1>7 DEF RingInv

\* The driver's steps.
LEMMA RingDriver == RingInv /\ (Driver \/ \E r \in Ring : DrvBegin(r)) => RingInv'
<1> SUFFICES ASSUME RingInv, Driver \/ \E r \in Ring : DrvBegin(r)
             PROVE  RingInv'
  OBVIOUS
<1>0. /\ TypeOK /\ RingsBounded /\ WakeupMatched /\ ChannelsOK
      /\ ConsWait /\ LeftSafely /\ IoMatched /\ ProdWait /\ DriverWoken
  BY DEF RingInv
<1>a. g.ring \in Ring /\ g = [pc |-> g.pc, ring |-> g.ring, tmp |-> g.tmp]
  BY <1>0 DEF TypeOK, DriverRecord
<1> USE DEF intVars, msgVars
<1>1. ASSUME UNCHANGED <<ring, msgVars, chan, repoll, w, m, isr>>,
             TypeOK', IoMatched', gio = "notify" => gio' = "notify",
             g.pc = "pushed" /\ ring[g.ring].prod = ring[g.ring].notify_on_prod =>
               gio' = "notify",
             g'.pc \notin {"push", "armed", "retest", "sleep"}
      PROVE  RingInv'
  BY <1>1, DriverStep DEF ProdWait, DriverWoken, SameIndices
<1>2. CASE DrvBoot
  <2>1. TypeOK'
    BY <1>0, <1>2, ActorAssumption DEF TypeOK, DrvBoot, DriverRecord
  <2> QED BY <1>0, <1>1, <1>2, <1>a, <2>1 DEF DrvBoot, IoMatched
<1>3. CASE DrvIoDone
  <2>1. TypeOK'
    BY <1>0, <1>3, RingAssumption DEF TypeOK, DrvIoDone, DriverRecord
  <2> QED BY <1>0, <1>1, <1>3, <1>a, <2>1 DEF DrvIoDone, IoMatched
<1>4. CASE DrvWake
  <2>1. TypeOK'
    BY <1>0, <1>4 DEF TypeOK, DrvWake, DriverRecord
  <2> QED BY <1>0, <1>1, <1>4, <1>a, <2>1 DEF DrvWake, IoMatched
<1>5. CASE DrvNotify
  <2>1. TypeOK'
    BY <1>0, <1>5 DEF TypeOK, DrvNotify, DriverRecord
  <2> QED BY <1>0, <1>1, <1>5, <1>a, <2>1 DEF DrvNotify, IoMatched
<1>6. CASE \E r \in Ring : DrvBegin(r)
  <2>0. PICK r \in Ring : DrvBegin(r)
    BY <1>6
  <2>1. TypeOK'
    BY <1>0, <2>0 DEF TypeOK, DrvBegin, DriverRecord
  <2> QED BY <1>0, <1>1, <2>0, <1>a, <2>1 DEF DrvBegin, IoMatched
<1>7. CASE DrvPush
  <2>1. PICK r \in Ring : r = g.ring
    BY <1>a
  <2>2. /\ ring' = [ring EXCEPT ![r].prod = Succ(ring[r].prod)]
        /\ g.pc = "push" /\ g'.pc = "pushed" /\ g'.ring = r
        /\ UNCHANGED <<pending, channel, chan, repoll, w, m, isr, gio>>
        /\ gio = "none"
    BY <1>0, <1>7, <1>a, <2>1 DEF DrvPush, IoMatched
  <2>3. ring[r].prod \in Index /\ ring[r].cons \in Index /\ ring[r] \in RingRecord
    BY <1>0 DEF TypeOK, RingRecord
  <2>4. /\ Used(ring[r]) < RingItems
        /\ Succ(ring[r].prod) \in Index
        /\ (Succ(ring[r].prod) - ring[r].cons) % IdxMod = Used(ring[r]) + 1
        /\ Succ(ring[r].prod) # ring[r].cons
    BY <1>0, <2>1, <2>2, <2>3, PushFacts, SuccFacts DEF RingsBounded, Used
  <2>5. /\ ring'[r].prod = Succ(ring[r].prod) /\ ring'[r].cons = ring[r].cons
        /\ ring'[r].notify_on_prod = ring[r].notify_on_prod
        /\ \A s \in Ring : s # r => ring'[s] = ring[s]
    BY <1>0, <2>2, <2>3 DEF TypeOK, RingRecord
  <2>6. TypeOK'
    <3>1. ring' \in [Ring -> RingRecord]
      BY <1>0, <2>2, <2>4 DEF TypeOK, RingRecord
    <3>2. g' \in DriverRecord
      BY <1>0, <1>7 DEF DrvPush, TypeOK, DriverRecord
    <3> QED BY <1>0, <1>7, <3>1, <3>2 DEF DrvPush, TypeOK
  <2>7. RingsBounded'
    <3>1. Used(ring[r])' = Used(ring[r]) + 1 /\ Used(ring[r]) \in Nat
      BY <2>3, <2>4, <2>5, UsedFacts, SizeAssumption DEF Used, Index
    <3>2. \A s \in Ring : s # r => Used(ring[s])' = Used(ring[s])
      BY <2>5 DEF Used
    <3> QED BY <1>0, <2>2, <2>4, <3>1, <3>2, SizeAssumption DEF RingsBounded
  <2>8. WakeupMatched' /\ ChannelsOK'
    BY <1>0, <2>2 DEF WakeupMatched, ChannelsOK, Unacked
  <2>9. ~IsEmpty(ring[r])'
    BY <2>4, <2>5 DEF IsEmpty
  <2>10. \A s \in Ring : s # r => /\ IsEmpty(ring[s]) <=> IsEmpty(ring[s])'
                                  /\ ProdArmed(s) <=> ProdArmed(s)'
    BY <2>5 DEF IsEmpty, ProdArmed
  <2>11. w.ring \in Ring
    BY <1>0 DEF TypeOK, WorkerRecord
  <2>12. ConsWait'
    <3>1. w.pc = "waitarm" /\ IsEmpty(ring[w.ring])' => w.tmp = Succ(ring'[w.ring].prod)
      BY <1>0, <2>2, <2>5, <2>9, <2>10, <2>11 DEF ConsWait
    <3> QED BY <1>0, <2>2, <2>9, <2>10, <2>11, <3>1 DEF ConsWait
  <2>13. ASSUME NEW s \in Ring, Passed(s)', w'.tmo = "inf", ~AckComing(s)'
         PROVE  \/ IsEmpty(ring[s])' /\ ProdArmed(s)'
                \/ ~IsEmpty(ring[s])' /\ WakeupComing(s)'
    <3>1. Passed(s) /\ w.tmo = "inf" /\ ~AckComing(s)
      BY <2>2, <2>13 DEF Passed, AckComing
    <3>2. CASE s # r
      BY <1>0, <2>2, <2>10, <3>1, <3>2 DEF LeftSafely, WakeupComing
    <3>3. CASE s = r
      BY <1>0, <2>2, <2>5, <2>9, <3>1, <3>3
         DEF LeftSafely, WakeupComing, ProdArmed
    <3> QED BY <3>2, <3>3
  <2>14. IoMatched' /\ ProdWait' /\ DriverWoken'
    BY <1>0, <2>2 DEF IoMatched, ProdWait, DriverWoken
  <2> QED BY <2>6, <2>7, <2>8, <2>12, <2>13, <2>14 DEF RingInv, LeftSafely
<1>8. CASE DrvProdWait
  <2>1. PICK r \in Ring : r = g.ring
    BY <1>a
  <2>2. /\ UNCHANGED <<pending, channel, chan, repoll, w, m, isr, gio>>
        /\ UNCHANGED <<int_pending, int_mask, pipe, irq, gev>>
        /\ gio = "none" /\ g.pc # "pushed"
    BY <1>0, <1>8 DEF DrvProdWait, IoMatched
  <2>3. ring[r] \in RingRecord /\ ring[r].cons \in Index /\ g.tmp \in Index
    BY <1>0 DEF TypeOK, RingRecord, DriverRecord
  <2>a. /\ Succ(ring[r].cons) \in Index /\ 0 \in Index
        /\ ring[r].prod % RingItems \in 0 .. RingItems - 1
    <3>1. 0 \in Index
      BY SizeAssumption DEF Index
    <3>2. ring[r].prod \in Index
      BY <2>3 DEF RingRecord
    <3> QED BY <2>3, <3>1, <3>2, SuccFacts, SlotRange
  <2>4. IoMatched'
    BY <1>0, <2>2 DEF IoMatched
  <2>5. CASE g.pc \in {"room", "retest"} /\ ~IsFull(ring[r]) /\ g'.pc = "push"
    <3>1. PICK c \in Cmd :
            /\ ring' = [ring EXCEPT ![r].items[ring[r].prod % RingItems] = c]
            /\ g' = [g EXCEPT !.pc = "push"]
      BY <1>8, <2>1, <2>5 DEF DrvProdWait
    <3>2. \A s \in Ring : SameIndices(s)
      BY <1>0, <3>1 DEF TypeOK, RingRecord, SameIndices
    <3>3. g'.ring = r /\ g' \in DriverRecord /\ g'.pc = "push"
      BY <1>0, <1>a, <2>1, <3>1 DEF TypeOK, DriverRecord
    <3>4. ring' \in [Ring -> RingRecord]
      BY <1>0, <2>3, <2>a, <3>1 DEF TypeOK, RingRecord
    <3>5. TypeOK'
      BY <1>0, <2>2, <3>3, <3>4 DEF TypeOK
    <3>6. Used(ring[r]) < RingItems
      BY <1>0, <2>3, <2>5, UsedNat, SizeAssumption DEF RingsBounded, IsFull
    <3>7. ProdWait' /\ DriverWoken'
      BY <3>3 DEF ProdWait, DriverWoken
    <3> QED BY <2>2, <2>4, <3>2, <3>3, <3>5, <3>6, <3>7, DriverStep
  <2>6. CASE g.pc = "room" /\ IsFull(ring[r])
    <3>1. /\ UNCHANGED ring
          /\ \/ g' = [g EXCEPT !.pc = "arm"]
             \/ g' = [g EXCEPT !.pc = "idle", !.ring = "cmd"]
      BY <1>8, <2>1, <2>6 DEF DrvProdWait
    <3>2. g' \in DriverRecord /\ g'.pc \in {"arm", "idle"}
      BY <1>0, <3>1, RingAssumption DEF TypeOK, DriverRecord
    <3>3. TypeOK'
      BY <1>0, <2>2, <3>1, <3>2 DEF TypeOK
    <3> QED BY <1>1, <2>2, <2>4, <3>1, <3>2, <3>3
  <2>7. CASE g.pc = "arm"
    <3>1. UNCHANGED ring /\ g' = [g EXCEPT !.pc = "armed", !.tmp = Succ(ring[r].cons)]
      BY <1>8, <2>1, <2>7 DEF DrvProdWait
    <3>2. /\ g' \in DriverRecord /\ g'.pc = "armed" /\ g'.tmp = Succ(ring[r].cons)
          /\ g'.ring = r
      BY <1>0, <2>1, <2>a, <3>1 DEF TypeOK, DriverRecord
    <3>3. TypeOK'
      BY <1>0, <2>2, <3>1, <3>2 DEF TypeOK
    <3>4. ProdWait' /\ DriverWoken'
      BY <3>1, <3>2 DEF ProdWait, DriverWoken
    <3> QED BY <2>2, <2>4, <3>1, <3>2, <3>3, <3>4, DriverStep DEF SameIndices
  <2>8. CASE g.pc = "armed"
    <3>1. /\ ring' = [ring EXCEPT ![r].notify_on_cons = g.tmp]
          /\ g' = [g EXCEPT !.pc = "retest", !.tmp = 0]
      BY <1>8, <2>1, <2>8 DEF DrvProdWait
    <3>2. g' \in DriverRecord /\ g'.pc = "retest" /\ g'.ring = r
      BY <1>0, <2>1, <2>a, <3>1 DEF TypeOK, DriverRecord
    <3>3. ring' \in [Ring -> RingRecord]
      BY <1>0, <2>3, <3>1 DEF TypeOK, RingRecord
    <3>4. /\ \A s \in Ring : SameIndices(s)
          /\ ring'[r].notify_on_cons = g.tmp
      BY <1>0, <3>1 DEF TypeOK, RingRecord, SameIndices
    <3>5. TypeOK'
      BY <1>0, <2>2, <3>2, <3>3 DEF TypeOK
    <3>6. ProdWait' /\ DriverWoken'
      BY <1>0, <2>1, <2>8, <3>2, <3>4
         DEF ProdWait, DriverWoken, SameIndices, IsFull, Used
    <3> QED BY <2>2, <2>4, <3>2, <3>4, <3>5, <3>6, DriverStep
  <2>9. CASE g.pc = "retest" /\ IsFull(ring[r])
    <3>1. UNCHANGED ring /\ g' = [g EXCEPT !.pc = "sleep"]
      BY <1>8, <2>1, <2>9 DEF DrvProdWait
    <3>2. g' \in DriverRecord /\ g'.pc = "sleep" /\ g'.ring = r
      BY <1>0, <2>1, <3>1 DEF TypeOK, DriverRecord
    <3>3. TypeOK'
      BY <1>0, <2>2, <3>1, <3>2 DEF TypeOK
    <3>4. ProdWait' /\ DriverWoken'
      BY <1>0, <2>1, <2>9, <3>1, <3>2 DEF ProdWait, DriverWoken
    <3> QED BY <2>2, <2>4, <3>1, <3>2, <3>3, <3>4, DriverStep DEF SameIndices
  <2>10. \/ g.pc \in {"room", "retest"} /\ ~IsFull(ring[r]) /\ g'.pc = "push"
         \/ g.pc = "room" /\ IsFull(ring[r])
         \/ g.pc \in {"arm", "armed"}
         \/ g.pc = "retest" /\ IsFull(ring[r])
    BY <1>8, <2>1, <1>a DEF DrvProdWait
  <2> QED BY <2>5, <2>6, <2>7, <2>8, <2>9, <2>10
<1> QED BY <1>2, <1>3, <1>4, <1>5, <1>6, <1>7, <1>8 DEF Driver

\* A step of the main thread, the interrupt handler or the client: it loses no
\* wakeup and no interrupt.
LEMMA OutsideStep ==
  ASSUME RingInv, TypeOK', IoMatched', WakeupMatched', ChannelsOK',
         UNCHANGED <<ring, repoll, w, g>>,
         channel # <<>> \/ gio = "notify" => channel' # <<>> \/ gio' = "notify",
         gev \cup int_pending \subseteq gev' \cup int_pending',
         \A r \in Ring : /\ chan'[r].up = chan[r].up
                         /\ chan'[r].window = chan[r].window
                         /\ chan'[r].size = chan[r].size
  PROVE  RingInv'
<1>0. RingsBounded /\ ConsWait /\ LeftSafely /\ ProdWait /\ DriverWoken
  BY DEF RingInv
<1>1. RingsBounded' /\ ConsWait' /\ ProdWait'
  BY <1>0 DEF RingsBounded, Used, ConsWait, IsEmpty, ProdArmed, ProdWait, IsFull
<1>2. LeftSafely'
  BY <1>0 DEF LeftSafely, Passed, AckComing, WakeupComing, IsEmpty, ProdArmed
<1>3. DriverWoken'
  BY <1>0 DEF DriverWoken, IsFull, Used
<1> QED BY <1>1, <1>2, <1>3 DEF RingInv

\* The interrupt handler and QEMU's main thread.
LEMMA RingMain == RingInv /\ (IsrTake \/ MainThread) => RingInv'
<1> SUFFICES ASSUME RingInv, IsrTake \/ MainThread
             PROVE  RingInv'
  OBVIOUS
<1>0. TypeOK /\ WakeupMatched /\ ChannelsOK /\ IoMatched
  BY DEF RingInv
<1> USE DEF intVars, msgVars, drvVars
<1>1. ASSUME TypeOK', IoMatched', UNCHANGED <<ring, repoll, w, g, pending, channel, chan>>,
             gio = "notify" => gio' = "notify",
             gev \cup int_pending \subseteq gev' \cup int_pending'
      PROVE  RingInv'
  <2>1. WakeupMatched' /\ ChannelsOK'
    BY <1>0, <1>1 DEF WakeupMatched, ChannelsOK, Unacked
  <2> QED BY <1>1, <2>1, OutsideStep
<1>2. CASE IsrTake
  <2>1. TypeOK' /\ IoMatched'
    BY <1>0, <1>2 DEF TypeOK, IsrTake, IoMatched
  <2> QED BY <1>1, <1>2, <2>1 DEF IsrTake
<1>3. CASE IoNotify
  <2>1. /\ pending' = {"wakeup"} /\ channel' = <<"wakeup">>
    <3>1. CASE "wakeup" \in pending
      BY <1>0, <1>3, <3>1 DEF IoNotify, TypeOK, WakeupMatched
    <3>2. CASE "wakeup" \notin pending
      <4>1. pending = {} /\ channel = <<>>
        BY <1>0, <3>2 DEF TypeOK, WakeupMatched
      <4>2. channel' = Append(channel, "wakeup") /\ pending' = pending \cup {"wakeup"}
        BY <1>3, <3>2 DEF IoNotify
      <4> QED BY <4>1, <4>2
    <3> QED BY <3>1, <3>2
  <2>2. <<"wakeup">> # <<>>
    OBVIOUS
  <2>3. TypeOK' /\ IoMatched' /\ WakeupMatched' /\ ChannelsOK'
    BY <1>0, <1>3, <2>1, <2>2
       DEF TypeOK, IoNotify, IoMatched, WakeupMatched, ChannelsOK, Unacked
  <2> QED BY <1>3, <2>1, <2>2, <2>3, OutsideStep DEF IoNotify
<1>4. CASE IoUpdateIrq
  <2>1. TypeOK' /\ IoMatched'
    BY <1>0, <1>4 DEF TypeOK, IoUpdateIrq, IoMatched, MainRecord
  <2> QED BY <1>1, <1>4, <2>1 DEF IoUpdateIrq
<1>5. CASE PipeRead
  <2>1. TypeOK' /\ IoMatched'
    BY <1>0, <1>5 DEF TypeOK, PipeRead, IoMatched, MainRecord
  <2> QED BY <1>1, <1>5, <2>1 DEF PipeRead
<1>6. CASE SetIrqRead
  <2>1. TypeOK' /\ IoMatched'
    BY <1>0, <1>6 DEF TypeOK, SetIrqRead, IoMatched, MainRecord
  <2> QED BY <1>1, <1>6, <2>1 DEF SetIrqRead
<1>7. CASE SetIrqStore
  <2>1. TypeOK' /\ IoMatched'
    BY <1>0, <1>7 DEF TypeOK, SetIrqStore, IoMatched, MainRecord
  <2>2. gio = "notify" => gio' = "notify"
    BY <1>0, <1>7 DEF SetIrqStore, IoMatched
  <2> QED BY <1>1, <1>7, <2>1, <2>2 DEF SetIrqStore
<1> QED
  BY <1>2, <1>3, <1>4, <1>5, <1>6, <1>7 DEF MainThread

\* The client.
LEMMA RingClient ==
    RingInv /\ (\E r \in Ring : ClientAck(r) \/ ClientHangUp(r)) => RingInv'
<1> SUFFICES ASSUME RingInv, NEW r \in Ring, ClientAck(r) \/ ClientHangUp(r)
             PROVE  RingInv'
  OBVIOUS
<1>0. TypeOK /\ WakeupMatched /\ ChannelsOK /\ IoMatched
  BY DEF RingInv
<1>1. UNCHANGED <<ring, intVars, msgVars, repoll, w, m, isr, drvVars>>
  BY DEF ClientAck, ClientHangUp
<1>2. chan[r] \in ChanRecord
  BY <1>0 DEF TypeOK
<1>3. /\ chan' \in [Ring -> ChanRecord] /\ ChannelsOK'
      /\ \A s \in Ring : /\ chan'[s].up = chan[s].up
                         /\ chan'[s].window = chan[s].window
                         /\ chan'[s].size = chan[s].size
  <2>1. CASE ClientAck(r)
    <3>1. chan' = [chan EXCEPT ![r].acks = chan[r].acks + 1] /\ Unacked(chan[r]) >= AckWindow
      BY <2>1 DEF ClientAck
    <3>2. /\ chan[r].acks \in 0 .. 2
          /\ AckWindow * (chan[r].acks + 1) = AckWindow * chan[r].acks + AckWindow
      BY <1>2, <3>1, WindowAssumption DEF ChanRecord, Unacked
    <3>3. chan' \in [Ring -> ChanRecord]
      <4>1. PICK c \in ChanRecord, k \in 0 .. 3 : c = chan[r] /\ k = chan[r].acks + 1
        BY <1>2, <3>2
      <4>2. [c EXCEPT !.acks = k] = [up |-> c.up, hup |-> c.hup, size |-> c.size,
                                     window |-> c.window, acks |-> k, blocked |-> c.blocked]
        BY DEF ChanRecord
      <4>3. [c EXCEPT !.acks = k] \in ChanRecord
        <5>1. /\ c.up \in BOOLEAN /\ c.hup \in BOOLEAN /\ c.size \in 0 .. PipeLimit
              /\ c.window \in 0 .. 2 * AckWindow + 1 /\ c.blocked \in BOOLEAN
          BY ChanFields, Zenon
        <5>2. [up |-> c.up, hup |-> c.hup, size |-> c.size, window |-> c.window,
               acks |-> k, blocked |-> c.blocked] \in ChanRecord
          BY <5>1, ChanMade
        <5> QED BY <4>2, <5>2
      <4>4. chan' = [chan EXCEPT ![r] = [c EXCEPT !.acks = k]]
        BY <3>1, <4>1
      <4> QED BY <1>0, <4>3, <4>4 DEF TypeOK
    <3>4. /\ chan'[r].acks = chan[r].acks + 1 /\ chan'[r].up = chan[r].up
          /\ chan'[r].window = chan[r].window /\ chan'[r].size = chan[r].size
          /\ chan'[r].blocked = chan[r].blocked
          /\ \A s \in Ring : s # r => chan'[s] = chan[s]
      BY <1>0, <3>1 DEF TypeOK, ChanRecord
    <3>5. Unacked(chan[r])' >= 0
      BY <1>2, <3>1, <3>2, <3>4, WindowAssumption DEF Unacked, ChanRecord
    <3>6. w.ring \in Ring
      BY <1>0 DEF TypeOK, WorkerRecord
    <3> QED BY <1>0, <1>1, <3>3, <3>4, <3>5, <3>6 DEF ChannelsOK, Unacked
  <2>2. CASE ClientHangUp(r)
    <3>1. chan' = [chan EXCEPT ![r].hup = TRUE]
      BY <2>2 DEF ClientHangUp
    <3>2. chan' \in [Ring -> ChanRecord]
      BY <1>0, <3>1, ZenonT(40) DEF TypeOK, ChanRecord
    <3>3. \A s \in Ring : /\ chan'[s].acks = chan[s].acks /\ chan'[s].up = chan[s].up
          /\ chan'[s].window = chan[s].window /\ chan'[s].size = chan[s].size
          /\ chan'[s].blocked = chan[s].blocked
      BY <1>0, <3>1 DEF TypeOK, ChanRecord
    <3>4. w.ring \in Ring
      BY <1>0 DEF TypeOK, WorkerRecord
    <3> QED BY <1>0, <1>1, <3>2, <3>3, <3>4 DEF ChannelsOK, Unacked
  <2> QED BY <2>1, <2>2
<1>4. TypeOK' /\ IoMatched' /\ WakeupMatched'
  BY <1>0, <1>1, <1>3
     DEF TypeOK, IoMatched, WakeupMatched, intVars, msgVars, drvVars
<1> QED BY <1>1, <1>3, <1>4, OutsideStep DEF intVars, msgVars, drvVars

-----------------------------------------------------------------------------
(* The worker.                                                             *)

LEMMA ReturnFacts ==
  ASSUME NEW v \in WorkerRecord
  PROVE  /\ Return(v) \in WorkerRecord
         /\ Return(v).pc = IF v.ring = "cursor" THEN "get" ELSE "send"
         /\ Return(v).ring = "cmd"
         /\ Return(v).tmo = v.tmo /\ Return(v).evs = v.evs
         /\ Return(v).tmp = v.tmp /\ Return(v).x = v.x
         /\ Return(v).streams = v.streams
BY RingAssumption DEF Return, WorkerRecord

\* The rings that the worker leaves in this step are safe to leave, and the
\* others that it has left stay so.
LEMMA LeftMoves ==
  ASSUME RingInv, UNCHANGED <<channel, gio, g>>,
         \A r \in Ring :
           Passed(r)' /\ w'.tmo = "inf" =>
             \/ AckComing(r)'
             \/ IsEmpty(ring[r])' /\ ProdArmed(r)'
             \/ /\ Passed(r) /\ w.tmo = "inf" /\ ring'[r] = ring[r]
                /\ AckComing(r) => AckComing(r)'
  PROVE  LeftSafely'
<1> SUFFICES ASSUME NEW r \in Ring, Passed(r)', w'.tmo = "inf", ~AckComing(r)'
             PROVE  \/ IsEmpty(ring[r])' /\ ProdArmed(r)'
                    \/ ~IsEmpty(ring[r])' /\ WakeupComing(r)'
  BY DEF LeftSafely
<1>1. CASE IsEmpty(ring[r])' /\ ProdArmed(r)'
  BY <1>1
<1>2. CASE Passed(r) /\ w.tmo = "inf" /\ ring'[r] = ring[r] /\ ~AckComing(r)
  <2>1. \/ IsEmpty(ring[r]) /\ ProdArmed(r)
        \/ ~IsEmpty(ring[r]) /\ WakeupComing(r)
    BY <1>2 DEF RingInv, LeftSafely
  <2> QED BY <1>2, <2>1 DEF IsEmpty, ProdArmed, WakeupComing
<1> QED BY <1>1, <1>2

\* What the worker leaves alone while it stores nothing in a ring and tells the
\* driver nothing that it has to.
LEMMA WorkerQuiet ==
  ASSUME RingInv, UNCHANGED <<ring, int_pending, m, isr, gev, gio, g>>,
         w.pc \notin {"popped", "event"}
  PROVE  RingsBounded' /\ ProdWait' /\ IoMatched' /\ DriverWoken'
BY DEF RingInv, RingsBounded, ProdWait, IoMatched, DriverWoken, IsFull, Used

\* Handling events: no ring has been passed yet.
LEMMA RingEvents ==
  ASSUME RingInv, PipeBounded,
         EpollWait \/ HandleWakeup \/ EventsDone \/ \E r \in Ring : HandleChannelEvents(r)
  PROVE  RingInv'
<1>0. /\ TypeOK /\ WakeupMatched /\ ChannelsOK /\ ConsWait /\ w \in WorkerRecord
      /\ w.ring \in Ring
  BY DEF RingInv, TypeOK, WorkerRecord
<1> USE DEF intVars, msgVars, drvVars
<1>1. RingsBounded' /\ ProdWait' /\ IoMatched' /\ DriverWoken'
  <2>1. UNCHANGED <<ring, int_pending, m, isr, gev, gio, g>> /\ w.pc \notin {"popped", "event"}
    BY DEF EpollWait, HandleWakeup, EventsDone, HandleChannelEvents
  <2> QED BY <2>1, WorkerQuiet
<1>2. ASSUME w'.pc = "events" \/ (w'.pc = "get" /\ w'.ring = FirstRing)
      PROVE  LeftSafely'
  BY <1>2 DEF LeftSafely, Passed, FirstRing
<1>3. ASSUME UNCHANGED <<ring, repoll>>, w.pc \in {"epoll", "events"},
             w'.pc \in {"events", "get"}
      PROVE  ConsWait'
  <2>1. \A r \in Ring : repoll[r] > PollRetries /\ IsEmpty(ring[r]) => ProdArmed(r)
    BY <1>0, <1>3 DEF ConsWait, Taking
  <2> QED BY <1>3, <2>1 DEF ConsWait, IsEmpty, ProdArmed, Waiting
<1>4. CASE EpollWait
  <2>e. PICK ended \in 0 .. w.streams :
          \E items \in 0 .. (IF chan["cmd"].up THEN 2 * ended ELSE 0) :
            /\ w' = [w EXCEPT !.pc = "events", !.evs = Ready, !.tmo = "inf",
                              !.streams = w.streams - ended]
            /\ chan' = [chan EXCEPT !["cmd"].size = chan["cmd"].size + items]
    BY <1>4 DEF EpollWait
  <2>0. PICK items \in 0 .. (IF chan["cmd"].up THEN 2 * ended ELSE 0) :
          /\ w' = [w EXCEPT !.pc = "events", !.evs = Ready, !.tmo = "inf",
                            !.streams = w.streams - ended]
          /\ chan' = [chan EXCEPT !["cmd"].size = chan["cmd"].size + items]
    BY <2>e
  <2>1. /\ w'.pc = "events" /\ w'.evs = Ready /\ w'.ring = w.ring /\ w' \in WorkerRecord
    <3>1. w.streams \in 0 .. MaxStreams /\ MaxStreams \in Nat
      BY <1>0, StreamAssumption DEF WorkerRecord
    <3>2. w.streams - ended \in 0 .. MaxStreams
      BY <3>1
    <3>3. Ready \in SUBSET (Ring \cup {"dev"})
      BY DEF Ready
    <3> QED BY <1>0, <2>0, <3>2, <3>3 DEF WorkerRecord
  <2>2. UNCHANGED <<ring, intVars, pending, channel, repoll, m, isr, drvVars>>
    BY <1>4 DEF EpollWait
  <2>3. "dev" \in Ready => channel # <<>>
    BY RingAssumption DEF Ready
  <2>a. PICK n : n = chan["cmd"].size + items
    OBVIOUS
  <2>b. /\ n \in 0 .. PipeLimit
        /\ ~chan["cmd"].up => n = 0
    <3>1. /\ w.streams \in Nat /\ chan["cmd"].size \in Nat
          /\ ~chan["cmd"].up => chan["cmd"].size = 0
      BY <1>0, RingAssumption, StreamAssumption, PipeLimitNat
         DEF WorkerRecord, TypeOK, ChanRecord, ChannelsOK
    <3>2. items \in Nat /\ items <= 2 * ended /\ ended \in Nat /\ ended <= w.streams
          /\ ~chan["cmd"].up => items = 0
      BY <3>1
    <3> QED BY <2>a, <3>1, <3>2, PipeLimitNat DEF PipeBounded
  <2>c. /\ chan' \in [Ring -> ChanRecord]
        /\ \A r \in Ring : /\ chan'[r].up = chan[r].up
                           /\ chan'[r].window = chan[r].window
                           /\ chan'[r].acks = chan[r].acks
                           /\ chan'[r].blocked = chan[r].blocked
                           /\ chan'[r].size = IF r = "cmd" THEN n ELSE chan[r].size
    <3>1. chan \in [Ring -> ChanRecord] /\ "cmd" \in Ring /\ n \in 0 .. PipeLimit
      BY <1>0, <2>b, RingAssumption DEF TypeOK
    <3>2. chan' = [chan EXCEPT !["cmd"].size = n]
      BY <2>0, <2>a
    <3> QED BY <3>1, <3>2, SizeChanges, ZenonT(40)
  <2>4. WakeupMatched' /\ ChannelsOK'
    <3>1. WakeupMatched'
      BY <1>0, <2>1, <2>2, <2>3 DEF WakeupMatched
    <3>2. w'.pc \notin Taking
      BY <2>1 DEF Taking
    <3>3. \A r \in Ring : /\ Unacked(chan[r])' >= 0
                          /\ ~chan'[r].up => chan'[r].size = 0
                          /\ chan'[r].blocked => chan'[r].window = 2 * AckWindow + 1
      <4> TAKE r \in Ring
      <4>1. /\ Unacked(chan[r]) >= 0
            /\ ~chan[r].up => chan[r].size = 0
            /\ chan[r].blocked => chan[r].window = 2 * AckWindow + 1
        BY <1>0 DEF ChannelsOK
      <4>2. Unacked(chan[r])' = Unacked(chan[r])
        BY <2>c, Zenon DEF Unacked
      <4>3. ~chan'[r].up => chan'[r].size = 0
        BY <2>b, <2>c, <4>1
      <4>4. Unacked(chan[r])' >= 0
        BY <4>1, <4>2
      <4> QED BY <2>c, <4>1, <4>3, <4>4, Zenon
    <3> QED BY <3>1, <3>2, <3>3 DEF ChannelsOK
  <2>5. TypeOK'
    BY <1>0, <2>1, <2>2, <2>c DEF TypeOK
  <2>6. ConsWait' /\ LeftSafely'
    BY <1>2, <1>3, <1>4, <2>1 DEF EpollWait
  <2> QED BY <1>1, <2>4, <2>5, <2>6 DEF RingInv
<1>5. CASE HandleWakeup
  <2>1. /\ w'.pc = "events" /\ w'.evs = w.evs \ {"dev"} /\ w'.ring = w.ring
        /\ w' \in WorkerRecord
    BY <1>0, <1>5 DEF HandleWakeup, WorkerRecord
  <2>2. channel = <<"wakeup">> /\ channel' = Tail(channel)
        /\ pending' = pending \ {Head(channel)} /\ pending \subseteq {"wakeup"}
    BY <1>0, <1>5 DEF HandleWakeup, WakeupMatched, TypeOK
  <2>3. channel' = <<>> /\ pending' = {}
    <3>1. Tail(<<"wakeup">>) = <<>> /\ Head(<<"wakeup">>) = "wakeup"
      OBVIOUS
    <3>2. pending' = pending \ {"wakeup"} /\ channel' = <<>>
      BY <2>2, <3>1
    <3> QED BY <2>2, <3>2
  <2>4. WakeupMatched' /\ ChannelsOK' /\ TypeOK'
    BY <1>0, <1>5, <2>1, <2>3
       DEF HandleWakeup, WakeupMatched, ChannelsOK, TypeOK, Taking, Unacked
  <2>5. ConsWait' /\ LeftSafely'
    BY <1>2, <1>3, <1>5, <2>1 DEF HandleWakeup
  <2> QED BY <1>1, <2>4, <2>5 DEF RingInv
<1>6. CASE EventsDone
  <2>1. /\ w'.pc = "get" /\ w'.evs = {} /\ w'.ring = FirstRing /\ w' \in WorkerRecord
    BY <1>0, <1>6, RingAssumption DEF EventsDone, WorkerRecord, FirstRing
  <2>2. WakeupMatched' /\ ChannelsOK' /\ TypeOK'
    BY <1>0, <1>6, <2>1
       DEF EventsDone, WakeupMatched, ChannelsOK, TypeOK, Taking, Unacked
  <2>3. ConsWait' /\ LeftSafely'
    BY <1>2, <1>3, <1>6, <2>1 DEF EventsDone
  <2> QED BY <1>1, <2>2, <2>3 DEF RingInv
<1>7. ASSUME NEW r \in Ring, HandleChannelEvents(r) PROVE RingInv'
  <2>1. /\ w'.pc = "events" /\ w'.evs = w.evs \ {r} /\ w'.ring = w.ring
        /\ w' \in WorkerRecord
    BY <1>0, <1>7 DEF HandleChannelEvents, WorkerRecord
  <2>2. PICK c : /\ c = IF chan[r].hup THEN InitChan(FALSE)
                        ELSE [chan[r] EXCEPT !.window = Unacked(chan[r]),
                                             !.acks = 0, !.blocked = FALSE]
                 /\ chan' = [chan EXCEPT ![r] = c]
    BY <1>7 DEF HandleChannelEvents
  <2>3. /\ chan[r] \in ChanRecord /\ Unacked(chan[r]) >= 0
        /\ ~chan[r].up => chan[r].size = 0
    BY <1>0 DEF TypeOK, ChannelsOK
  <2>4. /\ c \in ChanRecord /\ c.acks = 0 /\ ~c.blocked /\ c.window \in Nat
        /\ ~c.up => c.size = 0
    <3>1. CASE chan[r].hup
      BY <2>2, <3>1, InitChanType, WindowAssumption DEF InitChan, ChanRecord
    <3>2. CASE ~chan[r].hup
      <4>1. Unacked(chan[r]) \in 0 .. 2 * AckWindow + 1
        BY <2>3, WindowAssumption DEF Unacked, ChanRecord
      <4>2. c = [chan[r] EXCEPT !.window = Unacked(chan[r]), !.acks = 0,
                                !.blocked = FALSE]
        BY <2>2, <3>2
      <4>3. /\ c.up = chan[r].up /\ c.size = chan[r].size /\ c.acks = 0
            /\ c.window = Unacked(chan[r]) /\ c.blocked = FALSE
        BY <2>3, <4>2 DEF ChanRecord
      <4>4. c \in ChanRecord
        <5>1. c = [up |-> chan[r].up, hup |-> chan[r].hup, size |-> chan[r].size,
                   window |-> Unacked(chan[r]), acks |-> 0, blocked |-> FALSE]
          BY <2>3, <4>2 DEF ChanRecord
        <5>2. /\ chan[r].up \in BOOLEAN /\ chan[r].hup \in BOOLEAN
              /\ chan[r].size \in 0 .. PipeLimit
          BY <2>3, Zenon DEF ChanRecord
        <5>3. 0 \in 0 .. 3 /\ FALSE \in BOOLEAN
          OBVIOUS
        <5> QED BY <4>1, <5>1, <5>2, <5>3, Zenon DEF ChanRecord
      <4> QED BY <2>3, <4>1, <4>3, <4>4
    <3> QED BY <3>1, <3>2
  <2>5. chan'[r] = c /\ \A s \in Ring : s # r => chan'[s] = chan[s]
    BY <1>0, <2>2 DEF TypeOK
  <2>6. ChannelsOK'
    <3>1. Unacked(c) >= 0
      BY <2>4, WindowAssumption DEF Unacked
    <3> QED BY <1>0, <2>1, <2>4, <2>5, <3>1 DEF ChannelsOK, Taking, Unacked
  <2>7. chan' \in [Ring -> ChanRecord]
    BY <1>0, <2>2, <2>4 DEF TypeOK
  <2>8. WakeupMatched' /\ TypeOK'
    BY <1>0, <1>7, <2>1, <2>7 DEF HandleChannelEvents, WakeupMatched, TypeOK
  <2>9. ConsWait' /\ LeftSafely'
    BY <1>2, <1>3, <1>7, <2>1 DEF HandleChannelEvents
  <2> QED BY <1>1, <2>6, <2>8, <2>9 DEF RingInv
<1> QED BY <1>4, <1>5, <1>6, <1>7

\* What the worker keeps while it stores nothing: the rings, the channels and
\* what goes to the driver.
Looking == UNCHANGED <<int_pending, int_mask, pipe, irq, pending, channel, chan, m,
                       isr, gev, gio, g>>

\* The worker leaves ring w.ring, or goes on with it.
LEMMA Leaves ==
  ASSUME RingInv, Looking, UNCHANGED ring, w.pc \in {"get", "waittest"},
         NEW v, v \in WorkerRecord, v.ring = w.ring, v.evs = w.evs,
         w' = Return(v), v.tmo = "inf" => w.tmo = "inf",
         \/ v.tmo # "inf" \/ Throttled(w.ring)
         \/ IsEmpty(ring[w.ring]) /\ ProdArmed(w.ring)
  PROVE  LeftSafely' /\ w'.pc \in {"get", "send"} /\ w'.evs = w.evs /\ w' \in WorkerRecord
<1>1. /\ w'.pc = IF w.ring = "cursor" THEN "get" ELSE "send"
      /\ w'.ring = "cmd" /\ w'.tmo = v.tmo /\ w'.evs = w.evs /\ w' \in WorkerRecord
  BY ReturnFacts
<1>2. w.ring \in {"cmd", "cursor"} /\ chan' = chan
  BY RingAssumption DEF RingInv, TypeOK, WorkerRecord, Looking
<1>3. ASSUME NEW r \in Ring, Passed(r)', w'.tmo = "inf"
      PROVE  \/ AckComing(r)'
             \/ IsEmpty(ring[r])' /\ ProdArmed(r)'
             \/ /\ Passed(r) /\ w.tmo = "inf" /\ ring'[r] = ring[r]
                /\ AckComing(r) => AckComing(r)'
  <2>1. CASE r = w.ring
    BY <1>1, <1>2, <1>3, <2>1 DEF AckComing, Throttled, IsEmpty, ProdArmed
  <2>2. CASE r # w.ring
    <3>1. r = "cursor" /\ w.ring = "cmd"
      BY <1>1, <1>2, <1>3, <2>2, RingAssumption DEF Passed
    <3> QED BY <1>1, <1>2, <1>3, <3>1 DEF Passed, AckComing
  <2> QED BY <2>1, <2>2
<1>4. LeftSafely'
  BY <1>3, LeftMoves DEF Looking
<1> QED BY <1>1, <1>4

\* The parts of the invariant that looking does not touch.
LEMMA LookingKeeps ==
  ASSUME RingInv, Looking, UNCHANGED ring, w.pc \in {"get"} \cup Waiting,
         w' \in WorkerRecord, repoll' \in [Ring -> 0 .. PollRetries + 1],
         w'.pc \in {"get", "send"} \cup Waiting, w'.evs = w.evs
  PROVE  /\ TypeOK' /\ RingsBounded' /\ WakeupMatched' /\ ChannelsOK'
         /\ IoMatched' /\ ProdWait' /\ DriverWoken'
<1>0. TypeOK /\ WakeupMatched /\ ChannelsOK /\ w.evs = {}
  BY DEF RingInv, WakeupMatched, Waiting
<1>1. TypeOK'
  BY <1>0 DEF TypeOK, Looking
<1>2. WakeupMatched' /\ ChannelsOK'
  BY <1>0 DEF WakeupMatched, ChannelsOK, Looking, Taking, Waiting, Unacked
<1>3. RingsBounded' /\ ProdWait' /\ IoMatched' /\ DriverWoken'
  BY WorkerQuiet DEF Looking, Waiting
<1> QED BY <1>1, <1>2, <1>3

\* Finding nothing to take.
LEMMA RingGetNothing ==
  ASSUME RingInv, GetNothing
  PROVE  RingInv'
<1>0. /\ TypeOK /\ ConsWait /\ w \in WorkerRecord /\ w.ring \in Ring
      /\ repoll \in [Ring -> 0 .. PollRetries + 1]
  BY DEF RingInv, TypeOK, WorkerRecord
<1>1. w.pc = "get" /\ Looking /\ UNCHANGED ring
  BY DEF GetNothing, Looking, intVars, msgVars, drvVars
<1>2. \A r \in Ring : repoll[r] > PollRetries /\ IsEmpty(ring[r]) => ProdArmed(r)
  BY <1>0, <1>1 DEF ConsWait, Taking
<1>3. CASE Throttled(w.ring) /\ w' = Return(w) /\ UNCHANGED repoll
  <2>1. LeftSafely' /\ w'.pc \in {"get", "send"} /\ w'.evs = w.evs /\ w' \in WorkerRecord
    BY <1>0, <1>1, <1>3, Leaves
  <2>2. ConsWait'
    BY <1>1, <1>2, <1>3, <2>1 DEF ConsWait, IsEmpty, ProdArmed, Waiting
  <2> QED BY <1>0, <1>1, <1>3, <2>1, <2>2, LookingKeeps DEF RingInv
<1>4. CASE /\ repoll[w.ring] < PollRetries
           /\ repoll' = [repoll EXCEPT ![w.ring] = repoll[w.ring] + 1]
           /\ w' = Return([w EXCEPT !.tmo = IF w.tmo = "zero" THEN "zero" ELSE "poll"])
  <2>1. PICK v : /\ v = [w EXCEPT !.tmo = IF w.tmo = "zero" THEN "zero" ELSE "poll"]
                 /\ w' = Return(v)
    BY <1>4
  <2>2. v \in WorkerRecord /\ v.ring = w.ring /\ v.evs = w.evs /\ v.tmo # "inf"
    BY <1>0, <2>1 DEF WorkerRecord
  <2>3. LeftSafely' /\ w'.pc \in {"get", "send"} /\ w'.evs = w.evs /\ w' \in WorkerRecord
    BY <1>0, <1>1, <2>1, <2>2, Leaves
  <2>4. /\ repoll' \in [Ring -> 0 .. PollRetries + 1]
        /\ \A r \in Ring : repoll'[r] > PollRetries => repoll[r] > PollRetries
    BY <1>0, <1>4, SizeAssumption
  <2>5. ConsWait'
    BY <1>1, <1>2, <2>3, <2>4 DEF ConsWait, IsEmpty, ProdArmed, Waiting
  <2> QED BY <1>1, <2>3, <2>4, <2>5, LookingKeeps DEF RingInv
<1>5. CASE /\ repoll[w.ring] = PollRetries
           /\ w' = [w EXCEPT !.pc = "wait"] /\ UNCHANGED repoll
  <2>1. /\ w'.pc = "wait" /\ w'.ring = w.ring /\ w'.evs = w.evs /\ w'.tmo = w.tmo
        /\ w' \in WorkerRecord
    BY <1>0, <1>5 DEF WorkerRecord
  <2>2. ConsWait'
    BY <1>0, <1>1, <1>2, <1>5, <2>1 DEF ConsWait, IsEmpty, ProdArmed, Waiting
  <2>3. LeftSafely'
    BY <1>1, <2>1, LeftMoves DEF Passed, AckComing, Looking
  <2>4. w'.pc \in Waiting
    BY <2>1 DEF Waiting
  <2> QED BY <1>0, <1>1, <1>5, <2>1, <2>2, <2>3, <2>4, LookingKeeps DEF RingInv
<1>6. CASE /\ IsEmpty(ring[w.ring]) /\ repoll[w.ring] > PollRetries
           /\ w' = Return(w) /\ UNCHANGED repoll
  <2>1. LeftSafely' /\ w'.pc \in {"get", "send"} /\ w'.evs = w.evs /\ w' \in WorkerRecord
    BY <1>0, <1>1, <1>2, <1>6, Leaves
  <2>2. ConsWait'
    BY <1>1, <1>2, <1>6, <2>1 DEF ConsWait, IsEmpty, ProdArmed, Waiting
  <2> QED BY <1>0, <1>1, <1>6, <2>1, <2>2, LookingKeeps DEF RingInv
<1> QED BY <1>3, <1>4, <1>5, <1>6 DEF GetNothing

\* Asking for a notification.
LEMMA RingReqNotification ==
  ASSUME RingInv, ReqNotification
  PROVE  RingInv'
<1>0. /\ TypeOK /\ ConsWait /\ w \in WorkerRecord /\ w.ring \in Ring
      /\ repoll \in [Ring -> 0 .. PollRetries + 1]
      /\ ring[w.ring] \in RingRecord
  BY DEF RingInv, TypeOK, WorkerRecord
<1>1. w.pc \in Waiting /\ Looking /\ repoll[w.ring] = PollRetries
  BY <1>0 DEF ReqNotification, Looking, intVars, msgVars, drvVars, Waiting, ConsWait
<1>2. \A r \in Ring : repoll[r] > PollRetries /\ IsEmpty(ring[r]) => ProdArmed(r)
  BY <1>0, <1>1 DEF ConsWait, Taking, Waiting
<1>3. ASSUME UNCHANGED <<ring, repoll>>, w' \in WorkerRecord, w'.ring = w.ring,
             w'.evs = w.evs, w'.tmo = w.tmo, w'.pc \in {"get"} \cup Waiting,
             w'.pc = "waitarm" => w'.tmp = Succ(ring[w.ring].prod),
             w'.pc # "waittest"
      PROVE  RingInv'
  <2>1. ConsWait'
    BY <1>0, <1>1, <1>2, <1>3 DEF ConsWait, IsEmpty, ProdArmed, Waiting
  <2>2. LeftSafely'
    <3>1. w.pc \notin {"epoll", "send", "events"} /\ w'.pc \notin {"epoll", "send"}
      BY <1>1, <1>3 DEF Waiting
    <3> QED BY <1>1, <1>3, <3>1, LeftMoves DEF Passed, AckComing, Looking
  <2> QED BY <1>0, <1>1, <1>3, <2>1, <2>2, LookingKeeps DEF RingInv
<1>4. CASE w' = [w EXCEPT !.pc = "get"] /\ UNCHANGED <<ring, repoll>>
  <2>1. /\ w' \in WorkerRecord /\ w'.ring = w.ring /\ w'.evs = w.evs
        /\ w'.tmo = w.tmo /\ w'.pc = "get"
    BY <1>0, <1>4 DEF WorkerRecord
  <2> QED BY <1>3, <1>4, <2>1
<1>5. CASE w' = [w EXCEPT !.pc = "waitread"] /\ UNCHANGED <<ring, repoll>>
  <2>1. /\ w' \in WorkerRecord /\ w'.ring = w.ring /\ w'.evs = w.evs
        /\ w'.tmo = w.tmo /\ w'.pc = "waitread"
    BY <1>0, <1>5 DEF WorkerRecord
  <2> QED BY <1>3, <1>5, <2>1 DEF Waiting
<1>6. CASE w' = [w EXCEPT !.pc = "waitarm", !.tmp = Succ(ring[w.ring].prod)]
           /\ UNCHANGED <<ring, repoll>>
  <2>0. Succ(ring[w.ring].prod) \in Index
    BY <1>0, SuccFacts DEF RingRecord
  <2>1. /\ w' \in WorkerRecord /\ w'.ring = w.ring /\ w'.evs = w.evs
        /\ w'.tmo = w.tmo /\ w'.pc = "waitarm" /\ w'.tmp = Succ(ring[w.ring].prod)
    BY <1>0, <1>6, <2>0 DEF WorkerRecord
  <2> QED BY <1>3, <1>6, <2>1 DEF Waiting
<1>7. CASE /\ w.pc = "waitarm"
           /\ ring' = [ring EXCEPT ![w.ring].notify_on_prod = w.tmp]
           /\ w' = [w EXCEPT !.pc = "waittest", !.tmp = 0] /\ UNCHANGED repoll
  <2>1. 0 \in Index /\ w.tmp \in Index
    BY <1>0, SizeAssumption DEF Index, WorkerRecord
  <2>2. /\ w' \in WorkerRecord /\ w'.ring = w.ring /\ w'.evs = w.evs
        /\ w'.tmo = w.tmo /\ w'.pc = "waittest"
    BY <1>0, <1>7, <2>1 DEF WorkerRecord
  <2>3. ring' \in [Ring -> RingRecord]
    BY <1>0, <1>7, <2>1 DEF TypeOK, RingRecord
  <2>4. /\ \A r \in Ring : /\ ring'[r].prod = ring[r].prod /\ ring'[r].cons = ring[r].cons
                           /\ ring'[r].notify_on_cons = ring[r].notify_on_cons
                           /\ r # w.ring => ring'[r] = ring[r]
        /\ ring'[w.ring].notify_on_prod = w.tmp
    BY <1>0, <1>7 DEF TypeOK, RingRecord
  <2>5. TypeOK' /\ w.evs = {}
    BY <1>0, <1>1, <1>7, <2>2, <2>3
       DEF TypeOK, Looking, RingInv, WakeupMatched, Waiting
  <2>6. WakeupMatched' /\ ChannelsOK' /\ IoMatched'
    BY <1>1, <2>2, <2>5
       DEF RingInv, WakeupMatched, ChannelsOK, IoMatched, Looking, Taking, Unacked
  <2>7. g.ring \in Ring /\ g' = g /\ gev' = gev /\ int_pending' = int_pending
    BY <1>0, <1>1 DEF TypeOK, DriverRecord, Looking
  <2>8. RingsBounded' /\ ProdWait' /\ DriverWoken'
    BY <1>7, <2>4, <2>7
       DEF RingInv, RingsBounded, ProdWait, DriverWoken, IsFull, Used
  <2>9. ConsWait'
    BY <1>0, <1>1, <1>2, <1>7, <2>2, <2>4
       DEF ConsWait, IsEmpty, ProdArmed, Waiting, Taking
  <2>10. LeftSafely'
    <3>1. \A r \in Ring : Passed(r)' => Passed(r) /\ r # w.ring
      BY <1>7, <2>2 DEF Passed
    <3>2. \A r \in Ring : AckComing(r) => AckComing(r)'
      BY <1>1, <1>7, <2>2 DEF AckComing, Looking
    <3> QED BY <1>1, <2>2, <2>4, <3>1, <3>2, LeftMoves DEF Looking
  <2> QED BY <2>5, <2>6, <2>8, <2>9, <2>10 DEF RingInv
<1>8. CASE /\ w.pc = "waittest" /\ IsEmpty(ring[w.ring])
           /\ repoll' = [repoll EXCEPT ![w.ring] = repoll[w.ring] + 1]
           /\ w' = Return(w) /\ UNCHANGED ring
  <2>1. ProdArmed(w.ring)
    BY <1>0, <1>8 DEF ConsWait
  <2>2. LeftSafely' /\ w'.pc \in {"get", "send"} /\ w'.evs = w.evs /\ w' \in WorkerRecord
    BY <1>0, <1>1, <1>8, <2>1, Leaves
  <2>3. /\ repoll' \in [Ring -> 0 .. PollRetries + 1]
        /\ \A r \in Ring : r # w.ring => repoll'[r] = repoll[r]
    BY <1>0, <1>1, <1>8, SizeAssumption
  <2>4. ConsWait'
    BY <1>1, <1>2, <1>8, <2>1, <2>2, <2>3 DEF ConsWait, IsEmpty, ProdArmed, Waiting
  <2> QED BY <1>1, <1>8, <2>2, <2>3, <2>4, LookingKeeps DEF RingInv
<1> QED BY <1>4, <1>5, <1>6, <1>7, <1>8 DEF ReqNotification

\* Taking a command.
LEMMA RingGetCommand ==
  ASSUME RingInv, GetCommand
  PROVE  RingInv'
<1>0. /\ TypeOK /\ RingsBounded /\ ConsWait /\ ProdWait /\ DriverWoken
      /\ w \in WorkerRecord /\ w.ring \in Ring /\ ring[w.ring] \in RingRecord
      /\ g.ring \in Ring
  BY DEF RingInv, TypeOK, WorkerRecord, DriverRecord
<1>1. PICK r \in Ring, q \in RingRecord : r = w.ring /\ q = ring[r]
  BY <1>0
<1>2. /\ w.pc = "get" /\ ~Throttled(r) /\ q.cons # q.prod
      /\ w' = [w EXCEPT !.pc = "popped", !.x = {q.items[q.cons % RingItems]}]
      /\ ring' = [ring EXCEPT ![r].cons = Succ(q.cons)]
      /\ UNCHANGED repoll /\ Looking
  BY <1>1 DEF GetCommand, IsEmpty, Looking, intVars, msgVars, drvVars
<1>3. /\ q.prod \in Index /\ q.cons \in Index /\ Succ(q.cons) \in Index
      /\ q.cons % RingItems \in 0 .. RingItems - 1
      /\ q.items[q.cons % RingItems] \in Cmd
  <2>1. q.prod \in Index /\ q.cons \in Index /\ q.items \in [0 .. RingItems - 1 -> Cmd]
    BY DEF RingRecord
  <2> QED BY <2>1, SuccFacts, SlotRange
<1>4. /\ w' \in WorkerRecord /\ w'.pc = "popped" /\ w'.ring = r /\ w'.evs = w.evs
      /\ w'.tmo = w.tmo
  BY <1>0, <1>1, <1>2, <1>3 DEF WorkerRecord
<1>5. ring' \in [Ring -> RingRecord]
  BY <1>0, <1>1, <1>2, <1>3 DEF TypeOK, RingRecord
<1>6. /\ ring'[r].cons = Succ(q.cons) /\ ring'[r].prod = q.prod
      /\ ring'[r].notify_on_cons = q.notify_on_cons
      /\ \A s \in Ring : s # r => ring'[s] = ring[s]
  BY <1>0, <1>1, <1>2 DEF TypeOK, RingRecord
<1>7. TypeOK' /\ w.evs = {}
  BY <1>0, <1>2, <1>4, <1>5 DEF TypeOK, Looking, RingInv, WakeupMatched
<1>8. Used(ring[r])' = Used(q) - 1 /\ Used(q) \in Nat /\ Used(q) <= RingItems
  BY <1>0, <1>1, <1>2, <1>3, <1>6, PopFacts, UsedNat, SMTT(30) DEF Used, RingsBounded
<1>9. RingsBounded'
  <2>1. \A s \in Ring : s # r => Used(ring[s])' = Used(ring[s])
    BY <1>6 DEF Used
  <2>2. g' = g
    BY <1>2 DEF Looking
  <2> QED BY <1>0, <1>1, <1>8, <2>1, <2>2, SizeAssumption DEF RingsBounded
<1>10. WakeupMatched' /\ IoMatched'
  BY <1>2, <1>4, <1>7 DEF RingInv, WakeupMatched, IoMatched, Looking
<1>11. ChannelsOK'
  <2>1. chan[r].size <= MaxPipe
    BY <1>2, WindowAssumption DEF Throttled, RingInv, ChannelsOK, TypeOK, ChanRecord
  <2> QED BY <1>2, <1>4, <2>1 DEF RingInv, ChannelsOK, Looking, Unacked
<1>12. ConsWait'
  BY <1>0, <1>1, <1>2, <1>4, <1>6 DEF ConsWait, IsEmpty, ProdArmed, Waiting, Taking
<1>13. LeftSafely'
  <2>1. \A s \in Ring : Passed(s)' => Passed(s) /\ s # r
    BY <1>1, <1>2, <1>4 DEF Passed
  <2>2. \A s \in Ring : AckComing(s) => AckComing(s)'
    BY <1>2, <1>4 DEF AckComing, Looking
  <2> QED BY <1>2, <1>4, <1>6, <2>1, <2>2, LeftMoves DEF Looking
<1>14. g' = g /\ gev' = gev /\ int_pending' = int_pending
  BY <1>2 DEF Looking
<1>15. ~IsFull(ring[r])'
  BY <1>8, SizeAssumption DEF IsFull, Used
<1>16. ProdWait'
  BY <1>0, <1>6, <1>14, <1>15 DEF ProdWait, IsFull, Used
<1>17. DriverWoken'
  <2>1. CASE g.ring # r
    BY <1>0, <1>2, <1>6, <1>14, <2>1 DEF DriverWoken, IsFull, Used
  <2>2. CASE g.ring = r /\ g.pc = "sleep" /\ IsFull(q)
    BY <1>0, <1>1, <1>4, <1>6, <1>14, <2>2 DEF DriverWoken, ProdWait
  <2>3. CASE g.ring = r /\ ~(g.pc = "sleep" /\ IsFull(q))
    BY <1>0, <1>1, <1>2, <1>14, <2>3 DEF DriverWoken
  <2> QED BY <2>1, <2>2, <2>3
<1> QED BY <1>7, <1>9, <1>10, <1>11, <1>12, <1>13, <1>16, <1>17 DEF RingInv

\* Telling the driver of a command that was taken.
LEMMA TakingStep ==
  ASSUME RingInv, TypeOK', DriverWoken', w.pc \in Taking, w'.pc \in Taking,
         w'.ring = w.ring, w'.evs = w.evs, w'.tmo = w.tmo,
         UNCHANGED <<ring, pending, channel, chan, repoll, m, isr, gev, gio, g>>
  PROVE  RingInv'
<1>0. w.evs = {}
  BY DEF RingInv, WakeupMatched, Taking
<1>1. RingsBounded' /\ ProdWait' /\ IoMatched'
  BY DEF RingInv, RingsBounded, ProdWait, IoMatched, IsFull, Used
<1>2. WakeupMatched' /\ ChannelsOK'
  BY <1>0 DEF RingInv, WakeupMatched, ChannelsOK, Unacked
<1>3. ConsWait'
  BY DEF RingInv, ConsWait, Taking, Waiting, IsEmpty, ProdArmed
<1>4. LeftSafely'
  BY LeftMoves DEF Passed, AckComing, Taking
<1> QED BY <1>1, <1>2, <1>3, <1>4 DEF RingInv

LEMMA RingTell ==
  ASSUME RingInv, PopNotify \/ SendEvents \/ SendEventsPipe
  PROVE  RingInv'
<1>0. TypeOK /\ DriverWoken /\ w \in WorkerRecord /\ w.ring \in Ring
  BY DEF RingInv, TypeOK, WorkerRecord
<1>1. UNCHANGED <<ring, pending, channel, chan, repoll, m, isr, gev, gio, g, int_mask, irq>>
  BY DEF PopNotify, SendEvents, SendEventsPipe, intVars, msgVars, drvVars
<1>2. CASE PopNotify
  <2>1. PICK pc : /\ pc \in {"event", "process"} /\ w' = [w EXCEPT !.pc = pc]
                  /\ ring[w.ring].cons = ring[w.ring].notify_on_cons => pc = "event"
    BY <1>2 DEF PopNotify
  <2>2. /\ w' \in WorkerRecord /\ w'.pc = pc /\ w'.ring = w.ring /\ w'.evs = w.evs
        /\ w'.tmo = w.tmo
    BY <1>0, <2>1 DEF WorkerRecord
  <2>3. TypeOK' /\ w.pc = "popped" /\ UNCHANGED int_pending
    BY <1>0, <1>2, <2>2 DEF TypeOK, PopNotify, intVars, msgVars, drvVars
  <2>4. DriverWoken'
    BY <1>0, <1>1, <2>1, <2>2, <2>3 DEF DriverWoken, IsFull, Used
  <2>5. w.pc \in Taking /\ w'.pc \in Taking
    BY <2>1, <2>2, <2>3 DEF Taking
  <2> QED BY <1>1, <2>2, <2>3, <2>4, <2>5, TakingStep
<1>3. CASE SendEvents
  <2>1. PICK pc : /\ pc \in {"kick", "process"} /\ w' = [w EXCEPT !.pc = pc]
    BY <1>3 DEF SendEvents
  <2>2. /\ w' \in WorkerRecord /\ w'.pc = pc /\ w'.ring = w.ring /\ w'.evs = w.evs
        /\ w'.tmo = w.tmo
    BY <1>0, <2>1 DEF WorkerRecord
  <2>3. w.pc = "event" /\ int_pending' = int_pending \cup {Interrupt(w.ring)}
    BY <1>3 DEF SendEvents
  <2>4. TypeOK'
    BY <1>0, <1>3, <2>2, <2>3 DEF TypeOK, SendEvents, Interrupt, msgVars, drvVars
  <2>5. DriverWoken'
    BY <1>0, <1>1, <2>1, <2>2, <2>3 DEF DriverWoken, IsFull, Used
  <2>6. w.pc \in Taking /\ w'.pc \in Taking
    BY <2>1, <2>2, <2>3 DEF Taking
  <2> QED BY <1>1, <2>2, <2>4, <2>5, <2>6, TakingStep
<1>4. CASE SendEventsPipe
  <2>1. w.pc = "kick" /\ w' = [w EXCEPT !.pc = "process"] /\ UNCHANGED int_pending
    BY <1>4 DEF SendEventsPipe
  <2>2. /\ w' \in WorkerRecord /\ w'.pc = "process" /\ w'.ring = w.ring
        /\ w'.evs = w.evs /\ w'.tmo = w.tmo
    BY <1>0, <2>1 DEF WorkerRecord
  <2>3. TypeOK'
    BY <1>0, <1>4, <2>2 DEF TypeOK, SendEventsPipe, msgVars, drvVars
  <2>4. DriverWoken'
    BY <1>0, <1>1, <2>1, <2>2 DEF DriverWoken, IsFull, Used
  <2>5. w.pc \in Taking /\ w'.pc \in Taking
    BY <2>1, <2>2 DEF Taking
  <2> QED BY <1>1, <2>2, <2>3, <2>4, <2>5, TakingStep
<1> QED BY <1>2, <1>3, <1>4

\* Processing a command.
LEMMA RingProcess ==
  ASSUME RingInv, NEW last \in BOOLEAN, Process(last)
  PROVE  RingInv'
<1>0. /\ TypeOK /\ ChannelsOK /\ ConsWait /\ WakeupMatched
      /\ w \in WorkerRecord /\ w.ring \in Ring
  BY DEF RingInv, TypeOK, WorkerRecord
<1>1. /\ w.pc = "process" /\ repoll' = [repoll EXCEPT ![w.ring] = 0]
      /\ UNCHANGED <<ring, int_pending, int_mask, pipe, irq, pending, channel, m, isr,
                     gev, gio, g>>
  BY DEF Process, intVars, msgVars, drvVars
<1>2. PICK n : /\ n \in 0 .. MaxPipe + CommandItems
               /\ ~chan[w.ring].up => n = 0
               /\ chan' = [chan EXCEPT ![w.ring].size = n]
  <2>1. PICK queued \in NewItems(w.ring),
             covered \in IF w.ring = "cmd" THEN 0 .. chan[w.ring].size ELSE {0} :
          chan' = [chan EXCEPT ![w.ring].size = chan[w.ring].size - covered + queued]
    BY DEF Process
  <2>2. /\ chan[w.ring].size \in 0 .. MaxPipe
        /\ ~chan[w.ring].up => chan[w.ring].size = 0
    BY <1>0, <1>1, PipeLimitNat DEF ChannelsOK, Taking, TypeOK, ChanRecord
  <2>3. /\ covered \in 0 .. chan[w.ring].size
        /\ queued \in 0 .. CommandItems
        /\ ~chan[w.ring].up => queued = 0
    BY <2>1, <2>2, PipeLimitNat DEF NewItems
  <2>4. /\ chan[w.ring].size - covered + queued \in 0 .. MaxPipe + CommandItems
        /\ ~chan[w.ring].up => chan[w.ring].size - covered + queued = 0
    BY <2>2, <2>3, PipeLimitNat
  <2> QED BY <2>1, <2>4
<1>a. n \in 0 .. PipeLimit
  BY <1>2, PipeLimitNat
<1>3. /\ w' \in WorkerRecord /\ w'.evs = w.evs
      /\ \/ w'.pc = "get" /\ w'.ring = w.ring /\ w'.tmo = w.tmo
         \/ w'.pc = "send" /\ w'.tmo = "zero"
  <2>1. PICK k \in IF w.ring = "cmd" THEN Streams(w.streams) ELSE {w.streams} :
          \E v : /\ v = [w EXCEPT !.x = {}, !.pc = "get", !.streams = k]
                /\ w' = IF last THEN Return([v EXCEPT !.tmo = "zero"]) ELSE v
    BY DEF Process
  <2>a. PICK v : /\ v = [w EXCEPT !.x = {}, !.pc = "get", !.streams = k]
                 /\ w' = IF last THEN Return([v EXCEPT !.tmo = "zero"]) ELSE v
                 /\ last => w.ring = "cmd"
    BY <2>1 DEF Process
  <2>b. k \in 0 .. MaxStreams
    BY <1>0, <2>1 DEF Streams, WorkerRecord
  <2>2. v \in WorkerRecord /\ v.evs = w.evs /\ v.pc = "get" /\ v.ring = w.ring
        /\ v.tmo = w.tmo
    BY <1>0, <2>a, <2>b DEF WorkerRecord
  <2>3. PICK z : z = [v EXCEPT !.tmo = "zero"]
    OBVIOUS
  <2>4. z \in WorkerRecord /\ z.evs = w.evs /\ z.ring = w.ring /\ z.tmo = "zero"
    BY <2>2, <2>3 DEF WorkerRecord
  <2> QED BY <2>a, <2>2, <2>3, <2>4, ReturnFacts
<1>4. /\ chan' \in [Ring -> ChanRecord]
      /\ \A r \in Ring : /\ chan'[r].up = chan[r].up
                         /\ chan'[r].window = chan[r].window
                         /\ chan'[r].acks = chan[r].acks
                         /\ chan'[r].blocked = chan[r].blocked
                         /\ chan'[r].size = IF r = w.ring THEN n ELSE chan[r].size
  <2>1. chan \in [Ring -> ChanRecord] /\ w.ring \in Ring
    BY <1>0 DEF TypeOK
  <2>2. PICK s \in Ring : s = w.ring
    BY <2>1
  <2>3. chan' = [chan EXCEPT ![s].size = n]
    BY <1>2, <2>2
  <2>4. /\ chan' \in [Ring -> ChanRecord]
        /\ \A r \in Ring : /\ chan'[r].up = chan[r].up
                           /\ chan'[r].window = chan[r].window
                           /\ chan'[r].acks = chan[r].acks
                           /\ chan'[r].blocked = chan[r].blocked
                           /\ chan'[r].size = IF r = s THEN n ELSE chan[r].size
    BY <1>a, <2>1, <2>3, SizeChanges, ZenonT(40)
  <2> QED BY <2>2, <2>4, Zenon
<1>5. /\ repoll' \in [Ring -> 0 .. PollRetries + 1] /\ repoll'[w.ring] = 0
      /\ \A r \in Ring : r # w.ring => repoll'[r] = repoll[r]
  BY <1>0, <1>1, SizeAssumption DEF TypeOK
<1>6. TypeOK'
  BY <1>0, <1>1, <1>3, <1>4, <1>5 DEF TypeOK
<1>7. WakeupMatched'
  BY <1>0, <1>1, <1>3 DEF WakeupMatched
<1>8. ChannelsOK'
  <2>1. ASSUME NEW r \in Ring
        PROVE  /\ Unacked(chan[r])' >= 0
               /\ ~chan'[r].up => chan'[r].size = 0
               /\ chan'[r].blocked => chan'[r].window = 2 * AckWindow + 1
    <3>1. /\ Unacked(chan[r]) >= 0
          /\ ~chan[r].up => chan[r].size = 0
          /\ chan[r].blocked => chan[r].window = 2 * AckWindow + 1
      BY <1>0 DEF ChannelsOK
    <3>2. /\ chan'[r].up = chan[r].up /\ chan'[r].window = chan[r].window
          /\ chan'[r].acks = chan[r].acks /\ chan'[r].blocked = chan[r].blocked
          /\ ~chan[r].up => chan'[r].size = 0
      <4>1. CASE r = w.ring
        BY <1>2, <1>4, <4>1, Zenon
      <4>2. CASE r # w.ring
        BY <1>4, <3>1, <4>2, Zenon
      <4> QED BY <4>1, <4>2
    <3>3. Unacked(chan[r])' = Unacked(chan[r])
      BY <3>2, Zenon DEF Unacked
    <3>4. Unacked(chan[r])' >= 0
      BY <3>1, <3>3
    <3> QED BY <3>1, <3>2, <3>4, Zenon
  <2>2. w'.pc \notin Taking
    BY <1>3 DEF Taking
  <2> QED BY <2>1, <2>2 DEF ChannelsOK
<1>9. ConsWait'
  <2>1. \A r \in Ring : repoll'[r] > PollRetries => r # w.ring
    BY <1>5, SizeAssumption
  <2> QED BY <1>0, <1>1, <1>3, <1>5, <2>1
             DEF ConsWait, IsEmpty, ProdArmed, Taking, Waiting
<1>10. LeftSafely'
  <2>1. \A r \in Ring : Passed(r)' /\ w'.tmo = "inf" =>
          /\ Passed(r) /\ w.tmo = "inf" /\ r # w.ring /\ w'.pc = "get"
    BY <1>1, <1>3 DEF Passed
  <2>2. \A r \in Ring : r # w.ring /\ w'.pc = "get" => (AckComing(r) => AckComing(r)')
    BY <1>1, <1>4 DEF AckComing
  <2> QED BY <1>1, <2>1, <2>2, LeftMoves
<1>11. RingsBounded' /\ ProdWait' /\ IoMatched' /\ DriverWoken'
  BY <1>1, WorkerQuiet
<1> QED BY <1>6, <1>7, <1>8, <1>9, <1>10, <1>11 DEF RingInv

\* Sending what the windows allow.
LEMMA PushedFacts ==
  ASSUME NEW c \in ChanRecord, ~c.up => c.size = 0,
         c.blocked => c.window = 2 * AckWindow + 1, NEW d \in 0 .. c.size
  PROVE  /\ Pushed(c, d) \in ChanRecord /\ Pushed(c, d).acks = c.acks
         /\ Pushed(c, d).up = c.up /\ Pushed(c, d).window >= c.window
         /\ ~c.up => Pushed(c, d).size = 0
         /\ Pushed(c, d).blocked => Pushed(c, d).window = 2 * AckWindow + 1
         /\ c.size > MaxPipe /\ d = 0 => Pushed(c, d).window >= AckWindow
         /\ Pushed(c, d).size <= c.size
<1> DEFINE items == c.size - d
           room == Room(c)
           k    == IF room < items THEN room ELSE items
<1>1. /\ c.window \in 0 .. 2 * AckWindow + 1 /\ c.size \in 0 .. PipeLimit
      /\ c.blocked \in BOOLEAN /\ c.up \in BOOLEAN /\ c.hup \in BOOLEAN
      /\ c.acks \in 0 .. 3
  BY DEF ChanRecord
<1>0. items \in Nat /\ items <= c.size /\ c.size \in Nat
  BY <1>1, PipeLimitNat
<1> HIDE DEF items
<1>2. /\ k \in 0 .. items /\ c.window + k \in 0 .. 2 * AckWindow + 1
      /\ c.blocked \/ k < items => c.window + k = 2 * AckWindow + 1
  BY <1>0, <1>1, WindowAssumption DEF Room
<1>3. PICK b \in BOOLEAN : b = (c.blocked \/ k < items)
  BY Zenon
<1>4. Pushed(c, d) = [c EXCEPT !.size = items - k, !.window = c.window + k, !.blocked = b]
  BY <1>3, Zenon DEF Pushed, items
<1> HIDE DEF k, room
<1>5. Pushed(c, d) = [up |-> c.up, hup |-> c.hup, size |-> items - k,
                      window |-> c.window + k, acks |-> c.acks, blocked |-> b]
  BY <1>4 DEF ChanRecord
<1>6. items - k \in 0 .. PipeLimit
  BY <1>0, <1>1, <1>2, PipeLimitNat
<1>7. Pushed(c, d) \in ChanRecord
  <2>1. b \in BOOLEAN /\ c.window + k \in 0 .. 2 * AckWindow + 1
    BY <1>2, <1>3
  <2>2. PICK i \in 0 .. PipeLimit, j \in 0 .. 2 * AckWindow + 1 :
          i = items - k /\ j = c.window + k
    BY <1>6, <2>1
  <2>3. [up |-> c.up, hup |-> c.hup, size |-> i, window |-> j,
         acks |-> c.acks, blocked |-> b] \in ChanRecord
    BY <1>1, <1>3, <2>2, ChanMade
  <2> QED BY <1>5, <2>2, <2>3
<1>8. /\ Pushed(c, d).acks = c.acks /\ Pushed(c, d).up = c.up
      /\ Pushed(c, d).size = items - k /\ Pushed(c, d).window = c.window + k
      /\ Pushed(c, d).blocked = b
  BY <1>5
<1>9. /\ c.window + k >= c.window
      /\ ~c.up => items - k = 0
      /\ b => c.window + k = 2 * AckWindow + 1
      /\ c.size > MaxPipe /\ d = 0 => c.window + k >= AckWindow
      /\ items - k <= c.size
  <2>1. d = 0 => items = c.size
    BY <1>0, <1>1 DEF items
  <2> QED BY <1>0, <1>1, <1>2, <1>3, <2>1, WindowAssumption
<1> QED BY <1>7, <1>8, <1>9

\* red_push, for each channel.
LEMMA SendFacts ==
  ASSUME TypeOK, ChannelsOK, Send, NEW r \in Ring
  PROVE  /\ chan'[r] \in ChanRecord /\ chan'[r].acks = chan[r].acks
         /\ chan'[r].up = chan[r].up /\ chan'[r].window >= chan[r].window
         /\ ~chan[r].up => chan'[r].size = 0
         /\ chan'[r].blocked => chan'[r].window = 2 * AckWindow + 1
         /\ chan[r].size > MaxPipe /\ w.streams = 0 => chan'[r].window >= AckWindow
         /\ chan'[r].size <= chan[r].size
         /\ chan[r] \in ChanRecord
<1>1. PICK dropped \in Frames :
        chan' = [s \in Ring |-> Pushed(chan[s], IF s = "cmd" THEN dropped ELSE 0)]
  BY DEF Send
<1>2. PICK d : d = IF r = "cmd" THEN dropped ELSE 0
  OBVIOUS
<1>3. /\ chan[r] \in ChanRecord
      /\ ~chan[r].up => chan[r].size = 0
      /\ chan[r].blocked => chan[r].window = 2 * AckWindow + 1
      /\ chan'[r] = Pushed(chan[r], d)
  BY <1>1, <1>2 DEF TypeOK, ChannelsOK
<1>4. d \in 0 .. chan[r].size /\ (w.streams = 0 => d = 0)
  <2>1. chan[r].size \in Nat /\ w.streams \in Nat
    BY <1>3, PipeLimitNat DEF ChanRecord, TypeOK, WorkerRecord
  <2> QED BY <1>1, <1>2, <2>1 DEF Frames
<1>5. PICK c \in ChanRecord : c = chan[r]
  BY <1>3, Zenon
<1>6. /\ ~c.up => c.size = 0
      /\ c.blocked => c.window = 2 * AckWindow + 1
      /\ d \in 0 .. c.size
  BY <1>3, <1>4, <1>5, Zenon
<1>7. /\ Pushed(c, d) \in ChanRecord /\ Pushed(c, d).acks = c.acks
      /\ Pushed(c, d).up = c.up /\ Pushed(c, d).window >= c.window
      /\ ~c.up => Pushed(c, d).size = 0
      /\ Pushed(c, d).blocked => Pushed(c, d).window = 2 * AckWindow + 1
      /\ c.size > MaxPipe /\ d = 0 => Pushed(c, d).window >= AckWindow
      /\ Pushed(c, d).size <= c.size
  BY <1>6, PushedFacts, Zenon
<1>8. chan'[r] = Pushed(c, d)
  BY <1>3, <1>5, Zenon
<1> QED BY <1>4, <1>5, <1>7, <1>8, Zenon

LEMMA RingSend ==
  ASSUME RingInv, Send
  PROVE  RingInv'
<1>0. /\ TypeOK /\ ChannelsOK /\ ConsWait /\ WakeupMatched /\ w \in WorkerRecord
  BY DEF RingInv, TypeOK
<1>1. /\ w.pc = "send" /\ w' = [w EXCEPT !.pc = "epoll", !.ring = FirstRing]
      /\ DOMAIN chan' = Ring /\ chan' = [r \in Ring |-> chan'[r]]
      /\ UNCHANGED <<ring, int_pending, int_mask, pipe, irq, pending, channel, repoll, m,
                     isr, gev, gio, g>>
  BY DEF Send, intVars, msgVars, drvVars
<1>2. /\ w' \in WorkerRecord /\ w'.pc = "epoll" /\ w'.evs = w.evs /\ w'.tmo = w.tmo
      /\ w'.streams = w.streams
  BY <1>0, <1>1, RingAssumption DEF WorkerRecord, FirstRing
<1>3. ASSUME NEW r \in Ring
      PROVE  /\ chan'[r] \in ChanRecord /\ chan'[r].acks = chan[r].acks
             /\ chan'[r].up = chan[r].up /\ chan'[r].window >= chan[r].window
             /\ ~chan[r].up => chan'[r].size = 0
             /\ chan'[r].blocked => chan'[r].window = 2 * AckWindow + 1
             /\ chan[r].size > MaxPipe /\ w.streams = 0 => chan'[r].window >= AckWindow
             /\ chan[r] \in ChanRecord
  BY <1>0, SendFacts, Zenon
<1>4. TypeOK'
  <2>1. chan' \in [Ring -> ChanRecord]
    BY <1>1, <1>3
  <2> QED BY <1>0, <1>1, <1>2, <2>1 DEF TypeOK
<1>5. WakeupMatched'
  BY <1>0, <1>1, <1>2 DEF WakeupMatched
<1>6. ChannelsOK'
  <2>1. ASSUME NEW r \in Ring PROVE Unacked(chan[r])' >= 0
    <3>1. Unacked(chan[r]) >= 0
      BY <1>0 DEF ChannelsOK
    <3> QED BY <1>3, <3>1, WindowAssumption DEF Unacked, ChanRecord
  <2> QED BY <1>2, <1>3, <2>1 DEF ChannelsOK, Taking
<1>7. ConsWait'
  BY <1>0, <1>1, <1>2 DEF ConsWait, IsEmpty, ProdArmed, Taking, Waiting
<1>8. LeftSafely'
  <2>1. \A r \in Ring : AckComing(r) /\ w.streams = 0 => AckComing(r)'
    BY <1>1, <1>2, <1>3 DEF AckComing
  <2>2. \A r \in Ring : Passed(r)' => Passed(r) /\ w.streams = 0
    BY <1>1, <1>2 DEF Passed
  <2> QED BY <1>1, <1>2, <2>1, <2>2, LeftMoves
<1>9. RingsBounded' /\ ProdWait' /\ IoMatched' /\ DriverWoken'
  BY <1>1, WorkerQuiet
<1> QED BY <1>4, <1>5, <1>6, <1>7, <1>8, <1>9 DEF RingInv

\* The streams and the length of the display channel's pipe change in four
\* steps only.
LEMMA PipeQuiet ==
  ASSUME TypeOK, [Next]_vars,
         ~EpollWait, ~Process(TRUE), ~Process(FALSE), ~Send,
         \A r \in Ring : ~HandleChannelEvents(r)
  PROVE  w'.streams = w.streams /\ chan'["cmd"].size = chan["cmd"].size
<1>0. w \in WorkerRecord /\ chan \in [Ring -> ChanRecord] /\ "cmd" \in Ring
  BY RingAssumption DEF TypeOK
<1>1. CASE \E r \in Ring : ClientAck(r) \/ ClientHangUp(r)
  <2>1. PICK r \in Ring : ClientAck(r) \/ ClientHangUp(r)
    BY <1>1
  <2>2. w' = w
    BY <2>1 DEF ClientAck, ClientHangUp
  <2>3. CASE ClientAck(r)
    BY <1>0, <2>2, <2>3 DEF ClientAck, ChanRecord
  <2>4. CASE ClientHangUp(r)
    BY <1>0, <2>2, <2>4 DEF ClientHangUp, ChanRecord
  <2> QED BY <2>1, <2>3, <2>4
<1>2. CASE \/ Driver \/ IsrTake \/ MainThread \/ UNCHANGED vars
           \/ \E r \in Ring : DrvBegin(r)
  <2>1. w' = w /\ chan' = chan
    BY <1>2 DEF Driver, DrvBegin, DrvBoot, DrvIoDone, DrvProdWait, DrvWake, DrvPush,
           DrvNotify, IsrTake, MainThread, IoNotify, IoUpdateIrq, PipeRead, SetIrqRead,
           SetIrqStore, vars
  <2> QED BY <2>1
<1>3. CASE \/ HandleWakeup \/ EventsDone \/ GetCommand \/ PopNotify
           \/ SendEvents \/ SendEventsPipe
  <2>1. chan' = chan
    BY <1>3 DEF HandleWakeup, EventsDone, GetCommand, PopNotify, SendEvents, SendEventsPipe
  <2>2. w'.streams = w.streams
    BY <1>0, <1>3 DEF HandleWakeup, EventsDone, GetCommand, PopNotify, SendEvents,
           SendEventsPipe, WorkerRecord
  <2> QED BY <2>1, <2>2
<1>4. CASE GetNothing \/ ReqNotification
  <2>1. chan' = chan
    BY <1>4 DEF GetNothing, ReqNotification
  <2>2. CASE GetNothing
    BY <1>0, <2>1, <2>2 DEF GetNothing, Return, WorkerRecord
  <2>3. CASE ReqNotification
    BY <1>0, <2>1, <2>3 DEF ReqNotification, Return, WorkerRecord
  <2> QED BY <1>4, <2>2, <2>3
<1> QED BY <1>1, <1>2, <1>3, <1>4 DEF Next, Worker

\* The streams' items have room in the pipe.
LEMMA PipeNext == RingInv /\ PipeBounded /\ [Next]_vars => PipeBounded'
<1> SUFFICES ASSUME RingInv, PipeBounded, [Next]_vars PROVE PipeBounded'
  OBVIOUS
<1>0. /\ TypeOK /\ ChannelsOK /\ w \in WorkerRecord /\ chan \in [Ring -> ChanRecord]
      /\ "cmd" \in Ring /\ chan["cmd"] \in ChanRecord
  BY RingAssumption DEF RingInv, TypeOK
<1>1. /\ w.streams \in Nat /\ w.streams <= MaxStreams /\ chan["cmd"].size \in Nat
      /\ chan["cmd"].size <= PipeLimit
  BY <1>0, PipeLimitNat DEF WorkerRecord, ChanRecord
<1>2. CASE EpollWait
  <2>e. PICK ended \in 0 .. w.streams :
          \E items \in 0 .. (IF chan["cmd"].up THEN 2 * ended ELSE 0) :
            /\ w' = [w EXCEPT !.pc = "events", !.evs = Ready, !.tmo = "inf",
                              !.streams = w.streams - ended]
            /\ chan' = [chan EXCEPT !["cmd"].size = chan["cmd"].size + items]
    BY <1>2 DEF EpollWait
  <2>1. PICK items \in 0 .. (IF chan["cmd"].up THEN 2 * ended ELSE 0) :
          /\ w' = [w EXCEPT !.pc = "events", !.evs = Ready, !.tmo = "inf",
                            !.streams = w.streams - ended]
          /\ chan' = [chan EXCEPT !["cmd"].size = chan["cmd"].size + items]
    BY <2>e
  <2>2. w'.streams = w.streams - ended
    BY <1>0, <2>1 DEF WorkerRecord
  <2>3. chan'["cmd"].size = chan["cmd"].size + items
    BY <1>0, <2>1 DEF ChanRecord
  <2>4. items \in Nat /\ ended \in Nat /\ items <= 2 * ended /\ ended <= w.streams
    BY <1>1
  <2> QED BY <1>1, <2>2, <2>3, <2>4, PipeLimitNat DEF PipeBounded
<1>3. ASSUME NEW last \in BOOLEAN, Process(last) PROVE PipeBounded'
  <2>0. w.ring \in Ring
    BY <1>0 DEF WorkerRecord
  <2>a. PICK k \in IF w.ring = "cmd" THEN Streams(w.streams) ELSE {w.streams} :
          \E v : /\ v = [w EXCEPT !.x = {}, !.pc = "get", !.streams = k]
                /\ w' = IF last THEN Return([v EXCEPT !.tmo = "zero"]) ELSE v
    BY <1>3 DEF Process
  <2>1. PICK v : /\ v = [w EXCEPT !.x = {}, !.pc = "get", !.streams = k]
                 /\ w' = IF last THEN Return([v EXCEPT !.tmo = "zero"]) ELSE v
    BY <2>a
  <2>2. /\ k \in Nat /\ k <= MaxStreams
        /\ w.ring # "cmd" => k = w.streams
        /\ k \in 0 .. MaxStreams
    BY <1>1, <2>a, PipeLimitNat DEF Streams
  <2>3. v.streams = k /\ v \in WorkerRecord
    BY <1>0, <2>1, <2>2 DEF WorkerRecord
  <2>4. w'.streams = k
    <3>1. PICK z : z = [v EXCEPT !.tmo = "zero"]
      OBVIOUS
    <3>2. z \in WorkerRecord /\ z.streams = k
      BY <2>3, <3>1 DEF WorkerRecord
    <3> QED BY <2>1, <2>3, <3>1, <3>2, ReturnFacts
  <2>5. PICK queued \in NewItems(w.ring),
             covered \in IF w.ring = "cmd" THEN 0 .. chan[w.ring].size ELSE {0} :
          chan' = [chan EXCEPT ![w.ring].size = chan[w.ring].size - covered + queued]
    BY <1>3 DEF Process
  <2>6. CASE w.ring # "cmd"
    <3>1. chan'["cmd"] = chan["cmd"]
      BY <1>0, <2>5, <2>6
    <3> QED BY <2>2, <2>4, <2>6, <3>1 DEF PipeBounded
  <2>7. CASE w.ring = "cmd"
    <3>1. chan["cmd"].size <= MaxPipe
      BY <1>0, <1>3, <2>7 DEF ChannelsOK, Taking, Process
    <3>2. /\ covered \in Nat /\ queued \in Nat /\ queued <= CommandItems
      BY <1>1, <2>5, <2>7, PipeLimitNat DEF NewItems
    <3>3. chan'["cmd"].size = chan["cmd"].size - covered + queued
      BY <1>0, <2>5, <2>7 DEF ChanRecord
    <3>4. chan'["cmd"].size <= MaxPipe + CommandItems /\ chan'["cmd"].size \in Int
      BY <1>1, <3>1, <3>2, <3>3, PipeLimitNat
    <3> QED BY <2>2, <2>4, <3>4, PipeLimitNat DEF PipeBounded
  <2> QED BY <2>6, <2>7
<1>4. CASE Send
  <2>1. w'.streams = w.streams
    BY <1>0, <1>4 DEF Send, WorkerRecord
  <2>2. chan'["cmd"].size <= chan["cmd"].size /\ chan'["cmd"].size \in Nat
    <3>1. chan'["cmd"].size <= chan["cmd"].size /\ chan'["cmd"] \in ChanRecord
      BY <1>0, <1>4, SendFacts
    <3> QED BY <3>1, PipeLimitNat DEF ChanRecord
  <2> QED BY <1>1, <2>1, <2>2, PipeLimitNat DEF PipeBounded
<1>5. ASSUME NEW r \in Ring, HandleChannelEvents(r) PROVE PipeBounded'
  <2>1. w'.streams = w.streams
    BY <1>0, <1>5 DEF HandleChannelEvents, WorkerRecord
  <2>2. chan'["cmd"].size \in {0, chan["cmd"].size}
    <3>1. CASE r # "cmd"
      BY <1>0, <1>5, <3>1 DEF HandleChannelEvents
    <3>2. CASE r = "cmd" /\ chan["cmd"].hup
      BY <1>0, <1>5, <3>2 DEF HandleChannelEvents, InitChan
    <3>3. CASE r = "cmd" /\ ~chan["cmd"].hup
      BY <1>0, <1>5, <3>3 DEF HandleChannelEvents, ChanRecord
    <3> QED BY <3>1, <3>2, <3>3
  <2> QED BY <1>1, <2>1, <2>2, PipeLimitNat DEF PipeBounded
<1>6. CASE /\ ~EpollWait /\ ~Process(TRUE) /\ ~Process(FALSE) /\ ~Send
           /\ \A r \in Ring : ~HandleChannelEvents(r)
  BY <1>0, <1>6, PipeQuiet DEF PipeBounded
<1> QED BY <1>2, <1>3, <1>4, <1>5, <1>6

\* Every step keeps the invariant.
LEMMA RingNext ==
    RingInv /\ PipeBounded /\ [Next]_vars => RingInv' /\ PipeBounded'
<1> SUFFICES ASSUME RingInv, PipeBounded, [Next]_vars PROVE RingInv'
  BY PipeNext
<1>1. CASE Driver \/ \E r \in Ring : DrvBegin(r)
  BY <1>1, RingDriver
<1>2. CASE IsrTake \/ MainThread
  BY <1>2, RingMain
<1>3. CASE Worker
  BY <1>3, RingEvents, RingGetNothing, RingGetCommand, RingTell,
     RingReqNotification, RingProcess, RingSend DEF Worker
<1>4. CASE \E r \in Ring : ClientAck(r) \/ ClientHangUp(r)
  BY <1>4, RingClient
<1>5. CASE UNCHANGED vars
  <2>1. TypeOK' /\ IoMatched' /\ WakeupMatched' /\ ChannelsOK'
    BY <1>5 DEF RingInv, vars, TypeOK, IoMatched, WakeupMatched, ChannelsOK, Unacked
  <2> QED BY <1>5, <2>1, OutsideStep DEF vars
<1> QED BY <1>1, <1>2, <1>3, <1>4, <1>5 DEF Next

\* The invariant holds in every reachable state.
LEMMA PipeInitial == Init => PipeBounded
<1> SUFFICES ASSUME Init PROVE PipeBounded
  OBVIOUS
<1>1. w.streams = 0 /\ chan["cmd"].size = 0
  BY RingAssumption DEF Init, InitChan
<1> QED BY <1>1, PipeLimitNat DEF PipeBounded

LEMMA RingInvariant == Spec => [](RingInv /\ PipeBounded)
<1>1. Init => RingInv /\ PipeBounded
  BY RingInitial, PipeInitial
<1>2. RingInv /\ PipeBounded /\ [Next]_vars => RingInv' /\ PipeBounded'
  BY RingNext
<1> QED BY <1>1, <1>2, PTL DEF Spec

-----------------------------------------------------------------------------
\* Every variable keeps its type: the pipe to the client exceeds MAX_PIPE_SIZE
\* by no more than what one command and the end of every stream add to it,
\* its window stays within its limit, and the dispatcher never queues a
\* second WAKEUP.
THEOREM RingsTyped == Spec => []TypeOK
<1>1. RingInv => TypeOK
  BY DEF RingInv
<1> QED BY <1>1, RingInvariant, PTL

\* A driver that sleeps for room in SPICE_RING_PROD_WAIT is told of it,
\* however its stores interleave with the worker's SPICE_RING_POP.
THEOREM DriverNotForgotten == Spec => []DriverWoken
<1>1. RingInv => DriverWoken
  BY DEF RingInv
<1> QED BY <1>1, RingInvariant, PTL

\* The worker never sleeps without a timeout on a ring with commands and no
\* wakeup or acknowledgement to come, for every limit of the client's pipe that
\* WindowAssumption allows.
THEOREM WorkerNotForgotten == Spec => []WorkerWoken
<1>1. ASSUME RingInv PROVE WorkerWoken
  <2> SUFFICES ASSUME NEW r \in Ring, w.pc = "epoll", w.tmo = "inf", w.streams = 0,
                      ~IsEmpty(ring[r]), Ready = {}, ~(chan[r].up /\ Unacked(chan[r]) >= AckWindow)
               PROVE  \/ gio = "notify"
                      \/ /\ g.pc = "pushed" /\ g.ring = r
                         /\ ring[r].prod = ring[r].notify_on_prod
    BY DEF WorkerWoken
  <2>1. channel = <<>> /\ (chan[r].up => ~(chan[r].acks > 0))
    BY DEF Ready
  <2>2. chan[r] \in ChanRecord
    BY <1>1 DEF RingInv, TypeOK
  <2>3. ~AckComing(r)
    <3>1. ASSUME chan[r].up, chan[r].window >= AckWindow PROVE FALSE
      <4>1. chan[r].acks = 0
        BY <2>1, <2>2, <3>1 DEF ChanRecord
      <4>2. Unacked(chan[r]) = chan[r].window
        BY <2>2, <4>1, WindowAssumption DEF Unacked, ChanRecord
      <4> QED BY <3>1, <4>2
    <3> QED BY <3>1 DEF AckComing
  <2>4. WakeupComing(r)
    BY <1>1, <2>3 DEF RingInv, LeftSafely, Passed
  <2> QED BY <2>1, <2>4 DEF WakeupComing
<1>2. RingInv => WorkerWoken
  BY <1>1
<1> QED BY <1>2, RingInvariant, PTL

-----------------------------------------------------------------------------
(* The rings as queues.                                                    *)

\* Division with remainder is unique.
LEMMA Remainder ==
  ASSUME NEW a \in Int, NEW q \in Int, NEW r \in 0 .. RingItems - 1,
         a = q * RingItems + r
  PROVE  a % RingItems = r
<1> DEFINE b == a \div RingItems
           s == a % RingItems
<1>1. /\ RingItems \in Nat /\ RingItems > 0 /\ b \in Int
      /\ s \in 0 .. RingItems - 1 /\ a = RingItems * b + s
  BY SizeAssumption
<1> HIDE DEF b, s
<1>2. PICK k \in Int : k = q - b
  BY <1>1
<1>3. k * RingItems = s - r
  BY <1>1, <1>2
<1>4. k > 0 => k * RingItems >= RingItems
  BY <1>1
<1>5. k < 0 => k * RingItems <= -RingItems
  BY <1>1
<1>6. k = 0
  BY <1>1, <1>3, <1>4, <1>5
<1>7. s = r
  BY <1>1, <1>3, <1>6
<1> QED BY <1>7 DEF s

\* The 32-bit wraparound keeps the place: the ring's size divides 2^32.
LEMMA Wraps ==
  ASSUME NEW a \in Int
  PROVE  (a + IdxMod) % RingItems = a % RingItems
<1>0. RingItems \in Nat /\ RingItems > 0 /\ IdxMod \in Nat
  BY SizeAssumption
<1>1. PICK k \in Int : IdxMod = k * RingItems
  <2>1. /\ IdxMod \div RingItems \in Int
        /\ IdxMod = (IdxMod \div RingItems) * RingItems + (IdxMod % RingItems)
        /\ IdxMod % RingItems = 0
    BY SizeAssumption
  <2>2. (IdxMod \div RingItems) * RingItems \in Int
    BY <1>0, <2>1
  <2> QED BY <2>1, <2>2
<1>2. PICK q \in Int, r \in 0 .. RingItems - 1 :
        a = q * RingItems + r /\ r = a % RingItems
  <2>1. /\ a \div RingItems \in Int /\ a % RingItems \in 0 .. RingItems - 1
        /\ a = (a \div RingItems) * RingItems + (a % RingItems)
    BY <1>0
  <2> QED BY <2>1
<1>3. a + IdxMod = (q + k) * RingItems + r
  BY <1>0, <1>1, <1>2
<1>4. (a + IdxMod) \in Int /\ (q + k) \in Int
  BY <1>0
<1> QED BY <1>2, <1>3, <1>4, Remainder

\* Places within one round differ.
LEMMA PlacesDiffer ==
  ASSUME NEW c \in Int, NEW i \in 0 .. RingItems - 1, NEW j \in 0 .. RingItems - 1,
         (c + i) % RingItems = (c + j) % RingItems
  PROVE  i = j
<1> DEFINE q == (c + i) \div RingItems
           s == (c + j) \div RingItems
           r == (c + i) % RingItems
<1>1. /\ RingItems \in Nat /\ RingItems > 0 /\ q \in Int /\ s \in Int
      /\ r \in 0 .. RingItems - 1
      /\ c + i = RingItems * q + r /\ c + j = RingItems * s + r
  BY SizeAssumption
<1> HIDE DEF q, s, r
<1>2. PICK k \in Int : k = q - s
  BY <1>1
<1>3. k * RingItems = i - j
  BY <1>1, <1>2
<1>4. k > 0 => k * RingItems >= RingItems
  BY <1>1
<1>5. k < 0 => k * RingItems <= -RingItems
  BY <1>1
<1>6. k = 0
  BY <1>1, <1>3, <1>4, <1>5
<1> QED BY <1>1, <1>3, <1>6

\* The place of prod is the one behind the used ones, ...
LEMMA ProdPlace ==
  ASSUME NEW p \in Index, NEW c \in Index
  PROVE  p % RingItems = (c + ((p - c) % IdxMod)) % RingItems
<1>1. p \in Int /\ c \in Int /\ IdxMod \in Int
  BY SizeAssumption DEF Index
<1>2. CASE p >= c
  <2>1. c + ((p - c) % IdxMod) = p
    BY <1>1, <1>2, UsedFacts
  <2> QED BY <2>1
<1>3. CASE ~ (p >= c)
  <2>1. c + ((p - c) % IdxMod) = p + IdxMod
    BY <1>1, <1>3, UsedFacts
  <2> QED BY <1>1, <2>1, Wraps
<1> QED BY <1>2, <1>3

\* ... and those behind cons come one earlier when it is stored.
LEMMA ConsPlace ==
  ASSUME NEW c \in Index, NEW i \in Nat
  PROVE  (Succ(c) + i) % RingItems = (c + i + 1) % RingItems
<1>1. Succ(c) \in Index /\ Succ(c) = IF c = IdxMod - 1 THEN 0 ELSE c + 1
  BY SuccFacts
<1>2. c \in Int /\ IdxMod \in Int
  BY SizeAssumption DEF Index
<1>3. CASE c = IdxMod - 1
  <2>1. Succ(c) + i = i /\ c + i + 1 = i + IdxMod
    BY <1>1, <1>2, <1>3
  <2> QED BY <2>1, Wraps
<1>4. CASE c # IdxMod - 1
  <2>1. Succ(c) + i = c + i + 1
    BY <1>1, <1>2, <1>4
  <2> QED BY <2>1
<1> QED BY <1>3, <1>4

\* The commands on a ring, first the one at cons.
Items(q) == [i \in 1 .. Used(q) |-> q.items[(q.cons + i - 1) % RingItems]]

LEMMA ItemsSeq ==
  ASSUME NEW q \in RingRecord
  PROVE  /\ Items(q) \in Seq(Cmd) /\ Len(Items(q)) = Used(q)
         /\ \A i \in 1 .. Used(q) :
              Items(q)[i] = q.items[(q.cons + i - 1) % RingItems]
<1>1. Used(q) \in Nat
  BY UsedNat
<1>2. ASSUME NEW i \in 1 .. Used(q)
      PROVE  q.items[(q.cons + i - 1) % RingItems] \in Cmd
  <2>1. q.cons + i - 1 \in Int /\ RingItems \in Nat /\ RingItems > 0
    BY <1>1, SizeAssumption DEF RingRecord, Index
  <2>2. (q.cons + i - 1) % RingItems \in 0 .. RingItems - 1
    BY <2>1
  <2> QED BY <2>2 DEF RingRecord
<1>3. Items(q) \in [1 .. Used(q) -> Cmd]
  BY <1>2 DEF Items
<1>4. Items(q) \in Seq(Cmd) /\ Len(Items(q)) = Used(q)
  BY <1>1, <1>3
<1> QED BY <1>4 DEF Items

\* A ring on which nothing counts has changed.
LEMMA ItemsSame ==
  ASSUME NEW q, NEW q2, q2.prod = q.prod, q2.cons = q.cons, q2.items = q.items
  PROVE  Items(q2) = Items(q)
<1>1. Used(q2) = Used(q)
  BY DEF Used
<1> QED BY <1>1 DEF Items

\* The driver writes a command where nobody looks.
LEMMA ItemsWrite ==
  ASSUME NEW q \in RingRecord, NEW q2 \in RingRecord, Used(q) < RingItems,
         q2.prod = q.prod, q2.cons = q.cons,
         \A s \in 0 .. RingItems - 1 : s # q.prod % RingItems => q2.items[s] = q.items[s]
  PROVE  Items(q2) = Items(q)
<1>0. /\ q.prod \in Index /\ q.cons \in Index /\ q.cons \in Int /\ Used(q) \in Nat
      /\ RingItems \in Nat /\ RingItems > 0
  BY UsedNat, SizeAssumption DEF RingRecord, Index
<1>1. Used(q2) = Used(q)
  BY DEF Used
<1>2. ASSUME NEW i \in 1 .. Used(q)
      PROVE  q2.items[(q.cons + i - 1) % RingItems] = q.items[(q.cons + i - 1) % RingItems]
  <2>1. PICK j \in 0 .. RingItems - 1 : j = i - 1 /\ j # Used(q)
    BY <1>0
  <2>2. Used(q) \in 0 .. RingItems - 1
    BY <1>0
  <2>3. q.prod % RingItems = (q.cons + Used(q)) % RingItems
    BY <1>0, ProdPlace DEF Used
  <2>4. (q.cons + j) % RingItems # q.prod % RingItems
    BY <1>0, <2>1, <2>2, <2>3, PlacesDiffer
  <2>5. q.cons + i - 1 = q.cons + j /\ (q.cons + j) % RingItems \in 0 .. RingItems - 1
    BY <1>0, <2>1
  <2> QED BY <2>4, <2>5
<1>3. /\ Items(q) \in Seq(Cmd) /\ Len(Items(q)) = Used(q)
      /\ Items(q2) \in Seq(Cmd) /\ Len(Items(q2)) = Used(q)
      /\ \A i \in 1 .. Used(q) : Items(q)[i] = q.items[(q.cons + i - 1) % RingItems]
      /\ \A i \in 1 .. Used(q) : Items(q2)[i] = q2.items[(q.cons + i - 1) % RingItems]
  BY <1>1, ItemsSeq
<1>4. \A i \in 1 .. Len(Items(q2)) : Items(q2)[i] = Items(q)[i]
  BY <1>2, <1>3
<1> QED BY <1>3, <1>4, SeqEqual

\* SPICE_RING_PUSH appends the command at prod.
LEMMA ItemsPut ==
  ASSUME NEW q \in RingRecord, NEW q2 \in RingRecord, Used(q) < RingItems,
         q2.prod = Succ(q.prod), q2.cons = q.cons, q2.items = q.items
  PROVE  /\ Items(q2) = Append(Items(q), q.items[q.prod % RingItems])
         /\ q.items[q.prod % RingItems] \in Cmd
<1>0. /\ q.prod \in Index /\ q.cons \in Index /\ q.cons \in Int /\ Used(q) \in Nat
      /\ RingItems \in Nat /\ RingItems > 0
  BY UsedNat, SizeAssumption DEF RingRecord, Index
<1>1. Used(q2) = Used(q) + 1
  BY <1>0, PushFacts DEF Used
<1>2. PICK c \in Cmd : c = q.items[q.prod % RingItems]
  BY <1>0, SlotRange DEF RingRecord
<1>3. /\ Items(q) \in Seq(Cmd) /\ Len(Items(q)) = Used(q)
      /\ Items(q2) \in Seq(Cmd) /\ Len(Items(q2)) = Used(q) + 1
      /\ \A i \in 1 .. Used(q) : Items(q)[i] = q.items[(q.cons + i - 1) % RingItems]
      /\ \A i \in 1 .. Used(q) + 1 : Items(q2)[i] = q.items[(q.cons + i - 1) % RingItems]
  BY <1>1, ItemsSeq
<1>4. PICK t : t = Append(Items(q), c)
  OBVIOUS
<1>5. /\ t \in Seq(Cmd) /\ Len(t) = Used(q) + 1
      /\ \A i \in 1 .. Used(q) : t[i] = Items(q)[i]
      /\ t[Used(q) + 1] = c
  BY <1>3, <1>4, AppendProperties
<1>6. Items(q2)[Used(q) + 1] = c
  <2>1. q.prod % RingItems = (q.cons + Used(q)) % RingItems
    BY <1>0, ProdPlace DEF Used
  <2>2. q.cons + (Used(q) + 1) - 1 = q.cons + Used(q) /\ Used(q) + 1 \in 1 .. Used(q) + 1
    BY <1>0
  <2> QED BY <1>2, <1>3, <2>1, <2>2
<1>7. \A i \in 1 .. Len(Items(q2)) : Items(q2)[i] = t[i]
  <2>1. ASSUME NEW i \in 1 .. Used(q) + 1 PROVE Items(q2)[i] = t[i]
    <3>1. CASE i = Used(q) + 1
      BY <1>5, <1>6, <3>1
    <3>2. CASE i # Used(q) + 1
      <4>1. i \in 1 .. Used(q)
        BY <1>0, <3>2
      <4> QED BY <1>3, <1>5, <4>1
    <3> QED BY <3>1, <3>2
  <2> QED BY <1>3, <2>1
<1>8. Items(q2) = t
  BY <1>3, <1>5, <1>7, SeqEqual
<1> QED BY <1>2, <1>4, <1>8

\* SPICE_RING_POP takes the command at cons.
LEMMA ItemsTake ==
  ASSUME NEW q \in RingRecord, NEW q2 \in RingRecord, q.prod # q.cons,
         q2.prod = q.prod, q2.cons = Succ(q.cons), q2.items = q.items
  PROVE  /\ Items(q) # <<>>
         /\ Items(q2) = Tail(Items(q))
         /\ Head(Items(q)) = q.items[q.cons % RingItems]
         /\ q.items[q.cons % RingItems] \in Cmd
<1>0. /\ q.prod \in Index /\ q.cons \in Index /\ q.cons \in Int /\ Used(q) \in Nat
      /\ RingItems \in Nat /\ RingItems > 0
  BY UsedNat, SizeAssumption DEF RingRecord, Index
<1>1. Used(q2) = Used(q) - 1 /\ Used(q2) \in Nat
  BY <1>0, PopFacts, UsedNat DEF Used
<1>2. Used(q) > 0
  BY <1>0, <1>1
<1>3. /\ Items(q) \in Seq(Cmd) /\ Len(Items(q)) = Used(q)
      /\ Items(q2) \in Seq(Cmd) /\ Len(Items(q2)) = Used(q) - 1
      /\ \A i \in 1 .. Used(q) : Items(q)[i] = q.items[(q.cons + i - 1) % RingItems]
      /\ \A i \in 1 .. Used(q) - 1 : Items(q2)[i] = q.items[(Succ(q.cons) + i - 1) % RingItems]
  BY <1>1, ItemsSeq
<1>4. Items(q) # <<>>
  <2>1. Len(<<>>) = 0
    BY EmptySeq
  <2> QED BY <1>2, <1>3, <2>1
<1>5. PICK t : t = Tail(Items(q))
  OBVIOUS
<1>6. /\ t \in Seq(Cmd) /\ Len(t) = Used(q) - 1
      /\ \A i \in 1 .. Used(q) - 1 : t[i] = Items(q)[i + 1]
  BY <1>3, <1>4, <1>5, HeadTailProperties
<1>7. ASSUME NEW i \in 1 .. Used(q) - 1 PROVE Items(q2)[i] = t[i]
  <2>1. PICK j \in Nat : j = i - 1
    BY <1>0
  <2>2. (Succ(q.cons) + j) % RingItems = (q.cons + j + 1) % RingItems
    BY <1>0, ConsPlace
  <2>3. /\ Succ(q.cons) + i - 1 = Succ(q.cons) + j /\ q.cons + (i + 1) - 1 = q.cons + j + 1
        /\ i + 1 \in 1 .. Used(q)
    BY <1>0, <2>1, SuccFacts, SizeAssumption DEF Index
  <2> QED BY <1>3, <1>6, <2>2, <2>3
<1>8. Items(q2) = t
  BY <1>3, <1>6, <1>7, SeqEqual
<1>9. Head(Items(q)) = Items(q)[1]
  BY <1>3, <1>4
<1>10. Items(q)[1] = q.items[q.cons % RingItems] /\ Items(q)[1] \in Cmd
  <2>1. 1 \in 1 .. Used(q) /\ q.cons + 1 - 1 = q.cons
    BY <1>0, <1>2
  <2>2. Items(q)[1] \in Cmd
    BY <1>3, <2>1, ElementOfSeq
  <2> QED BY <1>3, <2>1, <2>2
<1> QED BY <1>4, <1>5, <1>8, <1>9, <1>10

\* The worker holds a command from the moment it takes one off a ring until it
\* has processed it.
Held == /\ w.pc \in Taking => \E c \in Cmd : w.x = {c}
        /\ w.pc \notin Taking => w.x = {}

QueueInv == RingInv /\ PipeBounded /\ Held

\* What is on the rings and what the worker holds, before or after a step.
QueueOf(v) == [r \in Ring |-> Items(v[r])]
TakenOf(v) == [r \in Ring |-> IF v.ring = r THEN v.x ELSE {}]

LEMMA QueuesAre ==
  /\ [r \in Ring |-> Queue(r)] = QueueOf(ring)
  /\ [r \in Ring |-> Queue(r)]' = QueueOf(ring')
  /\ [r \in Ring |-> IF w.ring = r THEN w.x ELSE {}] = TakenOf(w)
  /\ [r \in Ring |-> IF w.ring = r THEN w.x ELSE {}]' = TakenOf(w')
BY DEF Queue, Items, QueueOf, TakenOf, Used

\* A step as the queues see it: none, or a command put, taken or shown.
Queued ==
    \/ QueueOf(ring') = QueueOf(ring) /\ TakenOf(w') = TakenOf(w)
    \/ \E r \in Ring, c \in Cmd :
         /\ Len(Items(ring[r])) < RingItems
         /\ QueueOf(ring') = [QueueOf(ring) EXCEPT ![r] = Append(Items(ring[r]), c)]
         /\ TakenOf(w') = TakenOf(w)
    \/ \E r \in Ring :
         /\ Items(ring[r]) # <<>> /\ TakenOf(w)[r] = {}
         /\ QueueOf(ring') = [QueueOf(ring) EXCEPT ![r] = Tail(Items(ring[r]))]
         /\ TakenOf(w') = [TakenOf(w) EXCEPT ![r] = {Head(Items(ring[r]))}]
    \/ \E r \in Ring :
         /\ TakenOf(w)[r] # {}
         /\ QueueOf(ring') = QueueOf(ring)
         /\ TakenOf(w') = [TakenOf(w) EXCEPT ![r] = {}]

\* One ring changes, or none.
LEMMA OneQueue ==
  ASSUME NEW r \in Ring, NEW v, \A s \in Ring \ {r} : v[s] = ring[s]
  PROVE  QueueOf(v) = [QueueOf(ring) EXCEPT ![r] = Items(v[r])]
BY DEF QueueOf

LEMMA SameQueues ==
  ASSUME NEW v, \A s \in Ring : Items(v[s]) = Items(ring[s])
  PROVE  QueueOf(v) = QueueOf(ring)
BY DEF QueueOf

LEMMA QueueDriver ==
  ASSUME QueueInv, Driver \/ \E r \in Ring : DrvBegin(r)
  PROVE  Held' /\ Queued
<1>0. /\ g.ring \in Ring /\ ring \in [Ring -> RingRecord] /\ ring[g.ring] \in RingRecord
      /\ Held
  BY DEF QueueInv, RingInv, TypeOK, DriverRecord
<1>1. w' = w /\ TakenOf(w') = TakenOf(w)
  BY DEF Driver, DrvBegin, DrvBoot, DrvIoDone, DrvProdWait, DrvWake, DrvPush, DrvNotify
<1>2. Held'
  BY <1>0, <1>1 DEF Held
<1>3. ASSUME ring' = ring PROVE Queued
  BY <1>1, <1>3 DEF Queued
<1>4. CASE DrvBoot \/ DrvIoDone \/ DrvWake \/ DrvNotify \/ \E r \in Ring : DrvBegin(r)
  <2>1. ring' = ring
    BY <1>4 DEF DrvBoot, DrvIoDone, DrvWake, DrvNotify, DrvBegin
  <2> QED BY <1>2, <1>3, <2>1
<1> DEFINE q == ring[g.ring]
<1>p. RingInv'
  BY RingNext DEF QueueInv, Next
<1>q. ring' \in [Ring -> RingRecord]
  BY <1>p DEF RingInv, TypeOK
<1>5. CASE DrvPush
  <2>1. PICK r \in Ring : r = g.ring
    BY <1>0
  <2>2. /\ g.pc = "push"
        /\ ring' = [ring EXCEPT ![r] = [ring[r] EXCEPT !.prod = Succ(ring[r].prod)]]
    BY <1>5, <2>1 DEF DrvPush
  <2>3. /\ ring[r] \in RingRecord /\ ring'[r] \in RingRecord
        /\ \A s \in Ring \ {r} : ring'[s] = ring[s]
    BY <1>0, <1>q, <2>2
  <2>4. /\ ring'[r].prod = Succ(ring[r].prod) /\ ring'[r].cons = ring[r].cons
        /\ ring'[r].items = ring[r].items
    BY <1>0, <2>2, <2>3 DEF RingRecord
  <2>5. Used(ring[r]) < RingItems
    BY <2>1, <2>2 DEF QueueInv, RingInv, RingsBounded
  <2>6. PICK c \in Cmd : Items(ring'[r]) = Append(Items(ring[r]), c)
    BY <2>3, <2>4, <2>5, ItemsPut
  <2>7. Len(Items(ring[r])) < RingItems
    BY <2>3, <2>5, ItemsSeq
  <2>8. QueueOf(ring') = [QueueOf(ring) EXCEPT ![r] = Append(Items(ring[r]), c)]
    BY <2>3, <2>6, OneQueue
  <2>9. Queued
    BY <1>1, <2>7, <2>8 DEF Queued
  <2> QED BY <1>2, <2>9
<1>6. CASE DrvProdWait
  <2>1. CASE \E c \in Cmd : ring' = [ring EXCEPT ![g.ring].items[q.prod % RingItems] = c]
                              /\ ~IsFull(q)
    <3>1. PICK r \in Ring : r = g.ring
      BY <1>0
    <3>2. PICK c \in Cmd : ring' = [ring EXCEPT ![r].items[ring[r].prod % RingItems] = c]
      BY <2>1, <3>1
    <3>3. /\ ring[r] \in RingRecord /\ ring'[r] \in RingRecord
          /\ \A s \in Ring \ {r} : ring'[s] = ring[s]
      BY <1>0, <1>q, <3>2
    <3>4. ring'[r] = [ring[r] EXCEPT !.items[ring[r].prod % RingItems] = c]
      BY <1>0, <3>2
    <3>5. /\ ring'[r].prod = ring[r].prod /\ ring'[r].cons = ring[r].cons
          /\ ring'[r].items = [ring[r].items EXCEPT ![ring[r].prod % RingItems] = c]
      BY <3>3, <3>4 DEF RingRecord
    <3>6. \A s \in 0 .. RingItems - 1 :
            s # ring[r].prod % RingItems => ring'[r].items[s] = ring[r].items[s]
      BY <3>3, <3>5 DEF RingRecord
    <3>7. Used(ring[r]) < RingItems
      <4>1. Used(ring[r]) <= RingItems /\ Used(ring[r]) # RingItems
        BY <2>1, <3>1 DEF QueueInv, RingInv, RingsBounded, IsFull
      <4> QED BY <3>3, <4>1, UsedNat, SizeAssumption
    <3>8. Items(ring'[r]) = Items(ring[r])
      BY <3>3, <3>5, <3>6, <3>7, ItemsWrite
    <3>9. QueueOf(ring') = QueueOf(ring)
      BY <3>3, <3>8, SameQueues
    <3> QED BY <1>1, <1>2, <3>9 DEF Queued
  <2>2. CASE ring' = ring
    BY <1>2, <1>3, <2>2
  <2>3. CASE ring' = [ring EXCEPT ![g.ring].notify_on_cons = g.tmp]
    <3>1. PICK r \in Ring : r = g.ring
      BY <1>0
    <3>2. ring' = [ring EXCEPT ![r] = [ring[r] EXCEPT !.notify_on_cons = g.tmp]]
      BY <2>3, <3>1
    <3>3. \A s \in Ring : /\ ring'[s].prod = ring[s].prod /\ ring'[s].cons = ring[s].cons
                          /\ ring'[s].items = ring[s].items
      <4>1. \A s \in Ring \ {r} : ring'[s] = ring[s]
        BY <1>0, <3>2
      <4>2. ring[r] \in RingRecord /\ ring'[r] = [ring[r] EXCEPT !.notify_on_cons = g.tmp]
        BY <1>0, <3>2
      <4>3. /\ ring'[r].prod = ring[r].prod /\ ring'[r].cons = ring[r].cons
            /\ ring'[r].items = ring[r].items
        BY <4>2 DEF RingRecord
      <4> QED BY <4>1, <4>3
    <3>4. QueueOf(ring') = QueueOf(ring)
      BY <3>3, ItemsSame, SameQueues
    <3> QED BY <1>1, <1>2, <3>4 DEF Queued
  <2> QED BY <1>6, <2>1, <2>2, <2>3 DEF DrvProdWait
<1> QED BY <1>4, <1>5, <1>6 DEF Driver

LEMMA QueueOutside ==
  ASSUME QueueInv, \/ IsrTake \/ MainThread \/ UNCHANGED vars
                   \/ \E r \in Ring : ClientAck(r) \/ ClientHangUp(r)
  PROVE  Held' /\ Queued
<1>1. w' = w /\ ring' = ring
  BY DEF IsrTake, MainThread, IoNotify, IoUpdateIrq, PipeRead, SetIrqRead, SetIrqStore,
         ClientAck, ClientHangUp, vars
<1>2. Held'
  BY <1>1 DEF QueueInv, Held
<1>3. Queued
  BY <1>1 DEF Queued
<1> QED BY <1>2, <1>3

\* The worker's steps with no command in its hands, ...
LEMMA QueueLooking ==
  ASSUME QueueInv, \/ EpollWait \/ HandleWakeup \/ EventsDone
                   \/ \E r \in Ring : HandleChannelEvents(r)
                   \/ GetNothing \/ ReqNotification \/ Send
  PROVE  Held' /\ Queued
<1>0. /\ w \in WorkerRecord /\ ring \in [Ring -> RingRecord] /\ Held
  BY DEF QueueInv, RingInv, TypeOK
<1>1. w.pc \notin Taking
  BY DEF EpollWait, HandleWakeup, EventsDone, HandleChannelEvents, GetNothing,
         ReqNotification, Send, Taking
<1>2. w.x = {}
  BY <1>0, <1>1 DEF Held
<1>3. w'.pc \notin Taking /\ w'.x = w.x
  <2>1. CASE \/ EpollWait \/ HandleWakeup \/ EventsDone \/ Send
             \/ \E r \in Ring : HandleChannelEvents(r)
    BY <1>0, <2>1 DEF EpollWait, HandleWakeup, EventsDone, HandleChannelEvents,
           Send, Taking, WorkerRecord
  <2>2. CASE GetNothing
    BY <1>0, <2>2 DEF GetNothing, Return, Taking, WorkerRecord
  <2>3. CASE ReqNotification
    BY <1>0, <2>3 DEF ReqNotification, Return, Taking, WorkerRecord
  <2> QED BY <2>1, <2>2, <2>3
<1>4. TakenOf(w') = TakenOf(w)
  BY <1>2, <1>3 DEF TakenOf
<1>5. \A s \in Ring : /\ ring'[s].prod = ring[s].prod /\ ring'[s].cons = ring[s].cons
                      /\ ring'[s].items = ring[s].items
  <2>1. CASE ring' = ring
    BY <2>1
  <2>2. CASE ring' = [ring EXCEPT ![w.ring].notify_on_prod = w.tmp]
    <3>1. PICK r \in Ring : r = w.ring
      BY <1>0 DEF WorkerRecord
    <3>2. ring' = [ring EXCEPT ![r] = [ring[r] EXCEPT !.notify_on_prod = w.tmp]]
      BY <2>2, <3>1
    <3>3. \A s \in Ring \ {r} : ring'[s] = ring[s]
      BY <1>0, <3>2
    <3>4. ring[r] \in RingRecord /\ ring'[r] = [ring[r] EXCEPT !.notify_on_prod = w.tmp]
      BY <1>0, <3>2
    <3>5. /\ ring'[r].prod = ring[r].prod /\ ring'[r].cons = ring[r].cons
          /\ ring'[r].items = ring[r].items
      BY <3>4 DEF RingRecord
    <3> QED BY <3>3, <3>5
  <2> QED BY <2>1, <2>2 DEF EpollWait, HandleWakeup, EventsDone, HandleChannelEvents,
            GetNothing, ReqNotification, Send
<1>6. QueueOf(ring') = QueueOf(ring)
  BY <1>5, ItemsSame, SameQueues
<1>7. Held'
  BY <1>2, <1>3 DEF Held
<1>8. Queued
  BY <1>4, <1>6 DEF Queued
<1> QED BY <1>7, <1>8

\* ... taking one, ...
LEMMA QueueGet ==
  ASSUME QueueInv, GetCommand
  PROVE  Held' /\ Queued
<1>0. /\ w \in WorkerRecord /\ ring \in [Ring -> RingRecord] /\ Held
      /\ ring' \in [Ring -> RingRecord]
  <2>1. RingInv'
    BY RingNext DEF QueueInv, Next, Worker
  <2> QED BY <2>1 DEF QueueInv, RingInv, TypeOK
<1>1. PICK r \in Ring : r = w.ring
  BY <1>0 DEF WorkerRecord
<1>2. PICK q \in RingRecord : q = ring[r]
  BY <1>0
<1>3. PICK c : c = q.items[q.cons % RingItems]
  OBVIOUS
<1>4. /\ w.pc = "get" /\ q.prod # q.cons
      /\ w' = [w EXCEPT !.pc = "popped", !.x = {c}]
      /\ ring' = [ring EXCEPT ![r] = [ring[r] EXCEPT !.cons = Succ(q.cons)]]
  BY <1>1, <1>2, <1>3 DEF GetCommand, IsEmpty
<1>5. /\ w'.pc = "popped" /\ w'.x = {c} /\ w'.ring = r /\ w.x = {}
  BY <1>0, <1>1, <1>4 DEF WorkerRecord, Held, Taking
<1>6. /\ ring'[r] \in RingRecord /\ \A s \in Ring \ {r} : ring'[s] = ring[s]
      /\ ring'[r] = [q EXCEPT !.cons = Succ(q.cons)]
  BY <1>0, <1>2, <1>4
<1>7. /\ ring'[r].prod = q.prod /\ ring'[r].cons = Succ(q.cons) /\ ring'[r].items = q.items
  BY <1>6 DEF RingRecord
<1>8. /\ Items(q) # <<>> /\ Items(ring'[r]) = Tail(Items(q))
      /\ Head(Items(q)) = c /\ c \in Cmd
  BY <1>3, <1>4, <1>6, <1>7, ItemsTake
<1>9. QueueOf(ring') = [QueueOf(ring) EXCEPT ![r] = Tail(Items(ring[r]))]
  BY <1>2, <1>6, <1>8, OneQueue
<1>10. /\ TakenOf(w)[r] = {}
       /\ TakenOf(w') = [TakenOf(w) EXCEPT ![r] = {Head(Items(ring[r]))}]
  BY <1>1, <1>2, <1>5, <1>8 DEF TakenOf
<1>11. Queued
  BY <1>2, <1>8, <1>9, <1>10 DEF Queued
<1>12. Held'
  BY <1>5, <1>8 DEF Held, Taking
<1> QED BY <1>11, <1>12

\* ... and with it.
LEMMA QueueHolding ==
  ASSUME QueueInv, \/ PopNotify \/ SendEvents \/ SendEventsPipe
                   \/ Process(TRUE) \/ Process(FALSE)
  PROVE  Held' /\ Queued
<1>0. /\ w \in WorkerRecord /\ Held /\ w.ring \in Ring
  BY DEF QueueInv, RingInv, TypeOK, WorkerRecord
<1>1. ring' = ring
  BY DEF PopNotify, SendEvents, SendEventsPipe, Process
<1>2. CASE PopNotify \/ SendEvents \/ SendEventsPipe
  <2>1. /\ w.pc \in Taking /\ w'.pc \in Taking /\ w'.x = w.x /\ w'.ring = w.ring
    BY <1>0, <1>2 DEF PopNotify, SendEvents, SendEventsPipe, Taking, WorkerRecord
  <2>2. Held'
    BY <1>0, <2>1 DEF Held
  <2>3. TakenOf(w') = TakenOf(w)
    BY <2>1 DEF TakenOf
  <2> QED BY <1>1, <2>2, <2>3 DEF Queued
<1>3. CASE Process(TRUE) \/ Process(FALSE)
  <2>1. /\ w.pc = "process" /\ w'.pc \notin Taking /\ w'.x = {}
    <3>1. PICK last \in BOOLEAN : Process(last)
      BY <1>3
    <3>2. PICK k \in IF w.ring = "cmd" THEN Streams(w.streams) ELSE {w.streams} :
            w' = IF last THEN Return([[w EXCEPT !.x = {}, !.pc = "get", !.streams = k]
                                      EXCEPT !.tmo = "zero"])
                         ELSE [w EXCEPT !.x = {}, !.pc = "get", !.streams = k]
      BY <3>1, Zenon DEF Process
    <3>3. PICK v : v = [w EXCEPT !.x = {}, !.pc = "get", !.streams = k]
      OBVIOUS
    <3>4. v.x = {} /\ v.pc = "get"
      BY <1>0, <3>3 DEF WorkerRecord
    <3>5. w' = IF last THEN Return([v EXCEPT !.tmo = "zero"]) ELSE v
      BY <3>2, <3>3
    <3>6. w'.pc \in {"get", "send"} /\ w'.x = {}
      <4>1. v = [pc |-> "get", ring |-> w.ring, x |-> {}, tmp |-> w.tmp,
                 tmo |-> w.tmo, evs |-> w.evs, streams |-> k]
        BY <1>0, <3>3 DEF WorkerRecord
      <4> QED BY <3>5, <4>1 DEF Return
    <3>7. w.pc = "process"
      BY <3>1 DEF Process
    <3> QED BY <3>6, <3>7 DEF Taking
  <2>2. w.x # {}
    BY <1>0, <2>1 DEF Held, Taking
  <2>3. Held'
    BY <2>1 DEF Held
  <2>4. PICK r \in Ring : r = w.ring
    BY <1>0
  <2>5. TakenOf(w)[r] # {} /\ TakenOf(w') = [TakenOf(w) EXCEPT ![r] = {}]
    BY <2>1, <2>2, <2>4 DEF TakenOf
  <2>6. Queued
    BY <1>1, <2>5 DEF Queued
  <2> QED BY <2>3, <2>6
<1> QED BY <1>2, <1>3

LEMMA QueueStep ==
  ASSUME QueueInv, [Next]_vars
  PROVE  QueueInv' /\ Queued
<1>1. RingInv' /\ PipeBounded'
  BY RingNext DEF QueueInv
<1>2. Held' /\ Queued
  <2>1. CASE Driver \/ \E r \in Ring : DrvBegin(r)
    BY <2>1, QueueDriver
  <2>2. CASE \/ IsrTake \/ MainThread \/ UNCHANGED vars
             \/ \E r \in Ring : ClientAck(r) \/ ClientHangUp(r)
    BY <2>2, QueueOutside
  <2>3. CASE Worker
    BY <2>3, QueueLooking, QueueGet, QueueHolding DEF Worker
  <2> QED BY <2>1, <2>2, <2>3 DEF Next
<1> QED BY <1>1, <1>2 DEF QueueInv

LEMMA QueueInvariant == Spec => []QueueInv
<1>1. Init => QueueInv
  BY RingInitial, PipeInitial DEF Init, QueueInv, Held, Taking
<1>2. QueueInv /\ [Next]_vars => QueueInv'
  BY QueueStep
<1> QED BY <1>1, <1>2, PTL DEF Spec

\* Each ring is a bounded queue: whatever the interleaving of SPICE_RING_PUSH
\* and SPICE_RING_POP and wherever the indices wrap, commands are taken in the
\* order in which they were put, each once, and never more than fit.
THEOREM RingsQueue == Spec => RingsAreQueues
<1>1. ASSUME Init PROVE Fifo!QueueInit
  <2>1. RingInv
    BY <1>1, RingInitial
  <2>2. \A r \in Ring : ring[r] \in RingRecord /\ Used(ring[r]) = 0
    <3>1. \A r \in Ring : ring[r] \in RingRecord
      BY <2>1 DEF RingInv, TypeOK
    <3>2. \A r \in Ring : ring[r].prod = 0 /\ ring[r].cons = 0
      BY <1>1 DEF Init, RingInit
    <3>3. (0 - 0) % IdxMod = 0
      BY SizeAssumption
    <3> QED BY <3>1, <3>2, <3>3 DEF Used
  <2>3. \A r \in Ring : Queue(r) = <<>>
    <3> SUFFICES ASSUME NEW r \in Ring PROVE Items(ring[r]) = <<>>
      BY DEF Queue, Items
    <3>1. Items(ring[r]) \in Seq(Cmd) /\ Len(Items(ring[r])) = 0
      BY <2>2, ItemsSeq
    <3> QED BY <3>1, EmptySeq
  <2>4. w.x = {}
    BY <1>1 DEF Init
  <2> QED BY <2>3, <2>4 DEF Fifo!QueueInit
<1>2. ASSUME QueueInv, [Next]_vars
      PROVE  [Fifo!QueueNext]_(<<[r \in Ring |-> Queue(r)],
                                 [r \in Ring |-> IF w.ring = r THEN w.x ELSE {}]>>)
  <2> DEFINE qs == [r \in Ring |-> Queue(r)]
             ts == [r \in Ring |-> IF w.ring = r THEN w.x ELSE {}]
  <2>1. Queued
    BY <1>2, QueueStep
  <2>2. /\ qs = QueueOf(ring) /\ qs' = QueueOf(ring')
        /\ ts = TakenOf(w) /\ ts' = TakenOf(w')
    BY QueuesAre
  <2>3. \A r \in Ring : qs[r] = Items(ring[r])
    BY <2>2 DEF QueueOf
  <2> HIDE DEF qs, ts
  <2>4. CASE QueueOf(ring') = QueueOf(ring) /\ TakenOf(w') = TakenOf(w)
    BY <2>2, <2>4 DEF qs, ts
  <2>5. ASSUME NEW r \in Ring, NEW c \in Cmd,
               Len(Items(ring[r])) < RingItems,
               QueueOf(ring') = [QueueOf(ring) EXCEPT ![r] = Append(Items(ring[r]), c)],
               TakenOf(w') = TakenOf(w)
        PROVE  Fifo!Put(r, c)
    BY <2>2, <2>3, <2>5 DEF Fifo!Put, qs, ts
  <2>6. ASSUME NEW r \in Ring,
               Items(ring[r]) # <<>>, TakenOf(w)[r] = {},
               QueueOf(ring') = [QueueOf(ring) EXCEPT ![r] = Tail(Items(ring[r]))],
               TakenOf(w') = [TakenOf(w) EXCEPT ![r] = {Head(Items(ring[r]))}]
        PROVE  Fifo!Take(r)
    BY <2>2, <2>3, <2>6 DEF Fifo!Take, qs, ts
  <2>7. ASSUME NEW r \in Ring,
               TakenOf(w)[r] # {}, QueueOf(ring') = QueueOf(ring),
               TakenOf(w') = [TakenOf(w) EXCEPT ![r] = {}]
        PROVE  Fifo!Show(r)
    BY <2>2, <2>3, <2>7 DEF Fifo!Show, qs, ts
  <2> QED BY <2>1, <2>4, <2>5, <2>6, <2>7 DEF Queued, Fifo!QueueNext, qs, ts
<1> QED BY <1>1, <1>2, QueueInvariant, PTL DEF Spec, RingsAreQueues, Fifo!QueueSpec
=============================================================================
