------------------------------ MODULE QxlRings ------------------------------
(***************************************************************************)
(* The command path of the QXL display device: the guest driver puts       *)
(* commands on rings in shared memory, the Spice worker thread takes them  *)
(* and shows them to the client.                                           *)
(*                                                                         *)
(* Four actors share the memory without a lock: the driver, its interrupt  *)
(* handler, QEMU's main thread (port writes and the signalling pipe) and   *)
(* the worker thread.  A step is one access to shared memory, with the     *)
(* private work around it.  Every index store is followed by spice_mb(),   *)
(* so that stores are seen in order.  The client's network channel is the  *)
(* fifth actor: it throttles the worker.                                   *)
(*                                                                         *)
(* The device is in a mode in which get_command serves the rings (NATIVE   *)
(* or COMPAT) and the worker is running.  How the memory of a command gets *)
(* back to the driver is the subject of QxlRelease.                        *)
(*                                                                         *)
(* Sources: ioemu-qemu-xen/hw/qxl.c, spice-protocol/spice/ipc_ring.h,      *)
(* spice/server/red_dispatcher.c and red_worker.c.  The driver and the     *)
(* client are not in the repository; they follow the macros of ipc_ring.h  *)
(* and the ports and messages that the code serves.                        *)
(***************************************************************************)
EXTENDS Integers, Sequences, FiniteSets

CONSTANTS
    Cmd,           \* contents of commands
    Ring,          \* "cmd", and "cursor" if the run has a cursor ring
    RingItems,     \* num_items of the rings
    IdxMod,        \* 2^32: ring indices are uint32_t
    PollRetries,   \* CMD_RING_POLL_RETRIES
    MaxPipe,       \* MAX_PIPE_SIZE
    CommandItems,  \* the most pipe items that one display command adds
    MaxStreams,    \* NUM_STREAMS
    AckWindow,     \* client_ack_window
    Connected,     \* whether a client is connected at the start: TRUE, FALSE
    MayHangUp,     \* whether it may hang up
    DriverSleeps   \* whether the driver sleeps for room, or polls for it

ASSUME RingAssumption == {"cmd"} \subseteq Ring /\ Ring \subseteq {"cmd", "cursor"}
ASSUME SizeAssumption ==
    /\ RingItems \in Nat \ {0} /\ IdxMod \in Nat
    /\ RingItems < IdxMod /\ IdxMod % RingItems = 0
    /\ PollRetries \in Nat
\* red_worker_main asserts the stronger MAX_PIPE_SIZE > window, to "ensure
\* wakeup by ack message"; this is what the wakeup needs.
ASSUME WindowAssumption ==
    MaxPipe \in Nat /\ AckWindow \in Nat \ {0} /\ MaxPipe + 1 >= AckWindow
ASSUME StreamAssumption == CommandItems \in Nat \ {0} /\ MaxStreams \in Nat
ASSUME ActorAssumption ==
    /\ Connected \subseteq BOOLEAN /\ MayHangUp \in BOOLEAN
    /\ DriverSleeps \in BOOLEAN

VARIABLES
    ring,          \* ring[r]: the header of ring r and its items
    int_pending,   \* interrupt bits set in ram->int_pending
    int_mask,      \* whether the driver has enabled interrupts
    pipe,          \* whether a byte is in the signalling pipe
    irq,           \* level of the interrupt line
    pending,       \* bits set in dispatcher->pending
    channel,       \* messages from the dispatcher to the worker
    chan,          \* chan[r]: the client channel that shows ring r
    repoll,        \* repoll_cmd_ring and repoll_cursor_ring
    w,             \* the worker thread
    m,             \* QEMU's main thread
    isr,           \* the driver's interrupt handler: "idle" or "io"
    gev,           \* events that the handler has signalled to the driver
    gio,           \* the port write that the driver waits for
    g              \* the driver

intVars == <<int_pending, int_mask, pipe, irq>>
msgVars == <<pending, channel>>
drvVars == <<gev, gio, g>>
vars == <<ring, int_pending, int_mask, pipe, irq, pending, channel, chan,
          repoll, w, m, isr, gev, gio, g>>

-----------------------------------------------------------------------------
\* ipc_ring.h

Index == 0 .. IdxMod - 1
\* Mutant: indices wider than 32 bits.
Succ_NoWrap(i) == i + 1

Succ(i) == (i + 1) % IdxMod
Used(q) == (q.prod - q.cons) % IdxMod

IsEmpty(q) == q.cons = q.prod

\* Mutant: one item more than there are places.
IsFull_Late(q) == Used(q) = RingItems + 1

IsFull(q) == Used(q) = RingItems

RingInit(items) == [prod |-> 0, cons |-> 0, notify_on_prod |-> 1,
                    notify_on_cons |-> 0, items |-> items]

-----------------------------------------------------------------------------
\* The interrupt that tells the driver about ring r.
Interrupt(r) == IF r = "cursor" THEN "cursor" ELSE "display"

InitChan(up) == [up |-> up, hup |-> FALSE, size |-> 0, window |-> 0,
                 acks |-> 0, blocked |-> FALSE]

FirstRing == IF "cursor" \in Ring THEN "cursor" ELSE "cmd"

Init ==
    /\ ring \in [Ring -> {RingInit(t) : t \in [0 .. RingItems - 1 -> Cmd]}]
    /\ int_pending = {} /\ int_mask = FALSE
    /\ pipe = FALSE /\ irq = FALSE
    /\ pending = {} /\ channel = <<>>
    /\ chan \in [Ring -> {InitChan(up) : up \in Connected}]
    /\ repoll = [r \in Ring |-> 0]
    /\ w = [pc |-> "epoll", ring |-> FirstRing, x |-> {}, tmp |-> 0,
            tmo |-> "inf", evs |-> {}, streams |-> 0]
    /\ m = [pc |-> "idle", for |-> "pipe", level |-> FALSE]
    /\ isr = "idle"
    /\ gev = {} /\ gio = "none"
    /\ g = [pc |-> "boot", ring |-> "cmd", tmp |-> 0]

-----------------------------------------------------------------------------
\* The guest driver (external).

\* A driver that sleeps enables interrupts; the device recomputes the line.
DrvBoot ==
    /\ g.pc = "boot"
    /\ int_mask' = DriverSleeps
    /\ gio' = "irq"
    /\ g' = [g EXCEPT !.pc = "io"]
    /\ UNCHANGED <<ring, int_pending, pipe, irq, msgVars, chan, repoll, w, m,
                   isr, gev>>

\* A port write returns when the main thread has served it.
DrvIoDone ==
    /\ g.pc = "io" /\ gio = "none"
    /\ g' = [g EXCEPT !.pc = "idle", !.ring = "cmd"]
    /\ UNCHANGED <<ring, intVars, msgVars, chan, repoll, w, m, isr, gev, gio>>

DrvBegin(r) ==
    /\ g.pc = "idle"
    /\ g' = [g EXCEPT !.pc = "room", !.ring = r]
    /\ UNCHANGED <<ring, intVars, msgVars, chan, repoll, w, m, isr, gev, gio>>

\* SPICE_RING_PROD_WAIT: test; read cons; store notify_on_cons; test again.
\* With room, a command is written into the producer's slot.  A driver that
\* polls tests only, and comes back later.
DrvProdWait ==
    LET q == ring[g.ring] IN
    /\ \/ /\ g.pc \in {"room", "retest"} /\ ~IsFull(q)
          /\ \E c \in Cmd :
               ring' = [ring EXCEPT ![g.ring].items[q.prod % RingItems] = c]
          /\ g' = [g EXCEPT !.pc = "push"]
       \/ /\ g.pc = "room" /\ IsFull(q)
          /\ g' = IF DriverSleeps THEN [g EXCEPT !.pc = "arm"]
                                  ELSE [g EXCEPT !.pc = "idle", !.ring = "cmd"]
          /\ UNCHANGED ring
       \/ /\ g.pc = "arm"
          /\ g' = [g EXCEPT !.pc = "armed", !.tmp = Succ(q.cons)]
          /\ UNCHANGED ring
       \/ /\ g.pc = "armed"
          /\ ring' = [ring EXCEPT ![g.ring].notify_on_cons = g.tmp]
          /\ g' = [g EXCEPT !.pc = "retest", !.tmp = 0]
       \/ /\ g.pc = "retest" /\ IsFull(q)
          /\ g' = [g EXCEPT !.pc = "sleep"] /\ UNCHANGED ring
    /\ UNCHANGED <<intVars, msgVars, chan, repoll, w, m, isr, gev, gio>>

\* It sleeps until the ring's interrupt, then looks for room again.
DrvWake ==
    /\ g.pc = "sleep" /\ Interrupt(g.ring) \in gev
    /\ gev' = gev \ {Interrupt(g.ring)}
    /\ g' = [g EXCEPT !.pc = "room"]
    /\ UNCHANGED <<ring, intVars, msgVars, chan, repoll, w, m, isr, gio>>

\* SPICE_RING_PUSH: store prod, ...
DrvPush ==
    /\ g.pc = "push"
    /\ ring' = [ring EXCEPT ![g.ring].prod = Succ(ring[g.ring].prod)]
    /\ g' = [g EXCEPT !.pc = "pushed"]
    /\ UNCHANGED <<intVars, msgVars, chan, repoll, w, m, isr, gev, gio>>

\* ... then test notify_on_prod and write the notify port of the ring.
DrvNotify ==
    LET q == ring[g.ring] IN
    /\ g.pc = "pushed"
    /\ gio' = IF q.prod = q.notify_on_prod THEN "notify" ELSE "none"
    /\ g' = [g EXCEPT !.pc = "io"]
    /\ UNCHANGED <<ring, intVars, msgVars, chan, repoll, w, m, isr, gev>>

Driver ==
    DrvBoot \/ DrvIoDone \/ DrvProdWait \/ DrvWake \/ DrvPush \/ DrvNotify

\* The interrupt handler: while the line is high, take and clear the pending
\* bits, signal them to the driver, and have the line recomputed.
IsrTake ==
    /\ irq /\ isr = "idle"
    /\ gev' = gev \cup int_pending
    /\ int_pending' = {}
    /\ isr' = "io"
    /\ UNCHANGED <<ring, int_mask, pipe, irq, msgVars, chan, repoll, w, m, gio, g>>

\* The client: it acknowledges every AckWindow messages, and may hang up.
Unacked(c) == c.window - AckWindow * c.acks

ClientAck(r) ==
    /\ chan[r].up /\ ~chan[r].hup /\ Unacked(chan[r]) >= AckWindow
    /\ chan' = [chan EXCEPT ![r].acks = chan[r].acks + 1]
    /\ UNCHANGED <<ring, intVars, msgVars, repoll, w, m, isr, drvVars>>

ClientHangUp(r) ==
    /\ MayHangUp /\ chan[r].up /\ ~chan[r].hup
    /\ chan' = [chan EXCEPT ![r].hup = TRUE]
    /\ UNCHANGED <<ring, intVars, msgVars, repoll, w, m, isr, drvVars>>

-----------------------------------------------------------------------------
\* QEMU's main thread: port writes and the signalling pipe.

\* QXL_IO_NOTIFY_CMD and _CURSOR: the dispatcher sends WAKEUP unless one is
\* still pending.
IoNotify ==
    /\ m.pc = "idle" /\ gio = "notify"
    /\ pending' = pending \cup {"wakeup"}
    /\ channel' = IF "wakeup" \in pending THEN channel ELSE Append(channel, "wakeup")
    /\ gio' = "none"
    /\ UNCHANGED <<ring, intVars, chan, repoll, w, m, isr, gev, g>>

\* QXL_IO_UPDATE_IRQ, from the interrupt handler or the driver.
IoUpdateIrq ==
    /\ m.pc = "idle"
    /\ \/ isr = "io" /\ m' = [m EXCEPT !.pc = "read", !.for = "isr"]
       \/ gio = "irq" /\ m' = [m EXCEPT !.pc = "read", !.for = "driver"]
    /\ UNCHANGED <<ring, intVars, msgVars, chan, repoll, w, isr, drvVars>>

\* Mutant: the pipe is emptied, but the line is not recomputed.
PipeRead_Only ==
    /\ m.pc = "idle" /\ pipe
    /\ pipe' = FALSE
    /\ UNCHANGED <<ring, int_pending, int_mask, irq, msgVars, chan, repoll, w, m,
                   isr, drvVars>>

\* pipe_read empties the pipe before it calls qxl_set_irq.
PipeRead ==
    /\ m.pc = "idle" /\ pipe
    /\ pipe' = FALSE
    /\ m' = [m EXCEPT !.pc = "read", !.for = "pipe"]
    /\ UNCHANGED <<ring, int_pending, int_mask, irq, msgVars, chan, repoll, w,
                   isr, drvVars>>

\* qxl_set_irq: read the pending and enabled bits, ...
SetIrqRead ==
    /\ m.pc = "read"
    /\ m' = [m EXCEPT !.pc = "set", !.level = int_mask /\ int_pending # {}]
    /\ UNCHANGED <<ring, intVars, msgVars, chan, repoll, w, isr, drvVars>>

\* ... then set the line; the port write, if there was one, returns.
SetIrqStore ==
    /\ m.pc = "set"
    /\ irq' = m.level
    /\ m' = [pc |-> "idle", for |-> "pipe", level |-> FALSE]
    /\ isr' = IF m.for = "isr" THEN "idle" ELSE isr
    /\ gio' = IF m.for = "driver" THEN "none" ELSE gio
    /\ UNCHANGED <<ring, int_pending, int_mask, pipe, msgVars, chan, repoll, w,
                   gev, g>>

MainThread == IoNotify \/ IoUpdateIrq \/ PipeRead \/ SetIrqRead \/ SetIrqStore

-----------------------------------------------------------------------------
\* The Spice worker thread.

\* The loop of red_worker_main: cursor ring, command ring, red_push.
Return(v) == IF v.ring = "cursor" THEN [v EXCEPT !.pc = "get", !.ring = "cmd"]
                                  ELSE [v EXCEPT !.pc = "send"]

Ready == (IF channel # <<>> THEN {"dev"} ELSE {}) \cup
         {r \in Ring : chan[r].up /\ (chan[r].acks > 0 \/ chan[r].hup)}

\* epoll_wait returns with what is ready, or when its timeout expires, which
\* is finite while there are video streams.  Streams without a frame for a
\* second are stopped; each adds up to two items to the pipe (an upgrade of
\* its last frame, and its destruction).
EpollWait ==
    /\ w.pc = "epoll"
    /\ Ready # {} \/ w.tmo # "inf" \/ w.streams > 0
    /\ \E ended \in 0 .. w.streams :
       \E items \in 0 .. (IF chan["cmd"].up THEN 2 * ended ELSE 0) :
         /\ w' = [w EXCEPT !.pc = "events", !.evs = Ready, !.tmo = "inf",
                           !.streams = w.streams - ended]
         /\ chan' = [chan EXCEPT !["cmd"].size = chan["cmd"].size + items]
    /\ UNCHANGED <<ring, intVars, msgVars, repoll, m, isr, drvVars>>

\* Mutant: the bit stays set.
HandleWakeup_NoClear ==
    /\ w.pc = "events" /\ "dev" \in w.evs
    /\ channel' = Tail(channel)
    /\ w' = [w EXCEPT !.evs = w.evs \ {"dev"}]
    /\ UNCHANGED <<ring, intVars, pending, chan, repoll, m, isr, drvVars>>

\* handle_dev_input, WAKEUP: the bit is cleared before the rings are read.
HandleWakeup ==
    /\ w.pc = "events" /\ "dev" \in w.evs
    /\ channel' = Tail(channel)
    /\ pending' = pending \ {Head(channel)}
    /\ w' = [w EXCEPT !.evs = w.evs \ {"dev"}]
    /\ UNCHANGED <<ring, intVars, chan, repoll, m, isr, drvVars>>

\* Mutant: an acknowledgement does not unblock the channel.
HandleChannelEvents_KeepBlocked(r) ==
    LET c == chan[r] IN
    /\ w.pc = "events" /\ r \in w.evs
    /\ chan' = [chan EXCEPT ![r] =
         IF c.hup THEN InitChan(FALSE)
         ELSE [c EXCEPT !.window = Unacked(c), !.acks = 0]]
    /\ w' = [w EXCEPT !.evs = w.evs \ {r}]
    /\ UNCHANGED <<ring, intVars, msgVars, repoll, m, isr, drvVars>>

\* handle_channel_events: acknowledgements open the window again; a client
\* that hung up is disconnected and its pipe cleared.
HandleChannelEvents(r) ==
    LET c == chan[r] IN
    /\ w.pc = "events" /\ r \in w.evs
    /\ chan' = [chan EXCEPT ![r] =
         IF c.hup THEN InitChan(FALSE)
         ELSE [c EXCEPT !.window = Unacked(c), !.acks = 0, !.blocked = FALSE]]
    /\ w' = [w EXCEPT !.evs = w.evs \ {r}]
    /\ UNCHANGED <<ring, intVars, msgVars, repoll, m, isr, drvVars>>

\* With all events handled, the worker processes the rings.
EventsDone ==
    /\ w.pc = "events" /\ w.evs = {}
    /\ w' = [w EXCEPT !.pc = "get", !.ring = FirstRing]
    /\ UNCHANGED <<ring, intVars, msgVars, chan, repoll, m, isr, drvVars>>

\* Mutant: the worker does not look at the length of the pipe.
Throttled_Never(r) == FALSE

Throttled(r) == chan[r].up /\ chan[r].size > MaxPipe

\* The head of the loop of red_process_commands and red_process_cursor: too
\* long a pipe ends it; an empty ring is polled PollRetries times, then a
\* notification is requested once, and from then on the ring is left alone
\* until a command is taken.
GetNothing ==
    LET r == w.ring IN
    /\ w.pc = "get"
    /\ \/ Throttled(r) /\ w' = Return(w) /\ UNCHANGED repoll
       \/ /\ ~Throttled(r) /\ IsEmpty(ring[r]) /\ repoll[r] < PollRetries
          /\ repoll' = [repoll EXCEPT ![r] = repoll[r] + 1]
          /\ w' = Return([w EXCEPT !.tmo = IF w.tmo = "zero" THEN "zero" ELSE "poll"])
       \/ /\ ~Throttled(r) /\ IsEmpty(ring[r]) /\ repoll[r] = PollRetries
          /\ w' = [w EXCEPT !.pc = "wait"] /\ UNCHANGED repoll
       \/ /\ ~Throttled(r) /\ IsEmpty(ring[r]) /\ repoll[r] > PollRetries
          /\ w' = Return(w) /\ UNCHANGED repoll
    /\ UNCHANGED <<ring, intVars, msgVars, chan, m, isr, drvVars>>

\* get_command and get_cursor_command: copy the command, advance cons, ...
GetCommand ==
    LET q == ring[w.ring] IN
    /\ w.pc = "get" /\ ~Throttled(w.ring) /\ ~IsEmpty(q)
    /\ w' = [w EXCEPT !.pc = "popped", !.x = {q.items[q.cons % RingItems]}]
    /\ ring' = [ring EXCEPT ![w.ring].cons = Succ(q.cons)]
    /\ UNCHANGED <<intVars, msgVars, chan, repoll, m, isr, drvVars>>

\* Mutant: notify_on_cons is compared with the index before it advanced.
PopNotify_Old ==
    LET q == ring[w.ring] IN
    /\ w.pc = "popped"
    /\ w' = [w EXCEPT !.pc = IF q.cons = Succ(q.notify_on_cons) THEN "event" ELSE "process"]
    /\ UNCHANGED <<ring, intVars, msgVars, chan, repoll, m, isr, drvVars>>

\* ... and interrupt a driver that waits for room.
PopNotify ==
    LET q == ring[w.ring] IN
    /\ w.pc = "popped"
    /\ w' = [w EXCEPT !.pc = IF q.cons = q.notify_on_cons THEN "event" ELSE "process"]
    /\ UNCHANGED <<ring, intVars, msgVars, chan, repoll, m, isr, drvVars>>

\* Mutant: no byte is written while the line is high.
SendEvents_LineHigh ==
    LET bit == Interrupt(w.ring) IN
    /\ w.pc = "event"
    /\ int_pending' = int_pending \cup {bit}
    /\ w' = [w EXCEPT !.pc = IF bit \in int_pending \/ irq THEN "process" ELSE "kick"]
    /\ UNCHANGED <<ring, int_mask, pipe, irq, msgVars, chan, repoll, m, isr, drvVars>>

\* qxl_send_events: an atomic OR; only a bit that was clear needs the pipe.
SendEvents ==
    LET bit == Interrupt(w.ring) IN
    /\ w.pc = "event"
    /\ int_pending' = int_pending \cup {bit}
    /\ w' = [w EXCEPT !.pc = IF bit \in int_pending THEN "process" ELSE "kick"]
    /\ UNCHANGED <<ring, int_mask, pipe, irq, msgVars, chan, repoll, m, isr, drvVars>>

SendEventsPipe ==
    /\ w.pc = "kick"
    /\ pipe' = TRUE
    /\ w' = [w EXCEPT !.pc = "process"]
    /\ UNCHANGED <<ring, int_pending, int_mask, irq, msgVars, chan, repoll, m,
                   isr, drvVars>>

\* Mutant: the ring is not tested again after notify_on_prod is stored.
ReqNotification_NoRetest ==
    LET r == w.ring
        q == ring[r]
    IN  /\ \/ /\ w.pc = "wait"
              /\ w' = [w EXCEPT !.pc = IF IsEmpty(q) THEN "waitread" ELSE "get"]
              /\ UNCHANGED <<ring, repoll>>
           \/ /\ w.pc = "waitread"
              /\ w' = [w EXCEPT !.pc = "waitarm", !.tmp = Succ(q.prod)]
              /\ UNCHANGED <<ring, repoll>>
           \/ /\ w.pc = "waitarm"
              /\ ring' = [ring EXCEPT ![r].notify_on_prod = w.tmp]
              /\ repoll' = [repoll EXCEPT ![r] = repoll[r] + 1]
              /\ w' = Return([w EXCEPT !.tmp = 0])
        /\ UNCHANGED <<intVars, msgVars, chan, m, isr, drvVars>>

\* SPICE_RING_CONS_WAIT in req_cmd_notification: test; read prod; store
\* notify_on_prod; test again.
ReqNotification ==
    LET r == w.ring
        q == ring[r]
    IN  /\ \/ /\ w.pc \in {"wait", "waittest"} /\ ~IsEmpty(q)
              /\ w' = [w EXCEPT !.pc = "get"] /\ UNCHANGED <<ring, repoll>>
           \/ /\ w.pc = "wait" /\ IsEmpty(q)
              /\ w' = [w EXCEPT !.pc = "waitread"] /\ UNCHANGED <<ring, repoll>>
           \/ /\ w.pc = "waitread"
              /\ w' = [w EXCEPT !.pc = "waitarm", !.tmp = Succ(q.prod)]
              /\ UNCHANGED <<ring, repoll>>
           \/ /\ w.pc = "waitarm"
              /\ ring' = [ring EXCEPT ![r].notify_on_prod = w.tmp]
              /\ w' = [w EXCEPT !.pc = "waittest", !.tmp = 0]
              /\ UNCHANGED repoll
           \/ /\ w.pc = "waittest" /\ IsEmpty(q)
              /\ repoll' = [repoll EXCEPT ![r] = repoll[r] + 1]
              /\ w' = Return(w)
              /\ UNCHANGED ring
        /\ UNCHANGED <<intVars, msgVars, chan, m, isr, drvVars>>

\* The items that a command for ring r may add to the client's pipe: one for
\* a cursor; for a drawable itself, surfaces and images it needs, and what
\* happens to the streams (created, clipped, upgraded, destroyed).
NewItems(r) == IF chan[r].up THEN 0 .. (IF r = "cmd" THEN CommandItems ELSE 1) ELSE {0}

\* The number of streams after a display command, which starts at most one.
Streams(n) == {k \in 0 .. MaxStreams : k <= n + 1}

\* A drawable also removes the pipe items that it covers.  After a display
\* command, a blocked channel or 10 ms of work end the loop (last); the
\* cursor loop has no such limit.
Process(last) ==
    LET r == w.ring
        c == chan[r]
    IN  /\ w.pc = "process"
        /\ \E queued \in NewItems(r), covered \in IF r = "cmd" THEN 0 .. c.size ELSE {0} :
             chan' = [chan EXCEPT ![r].size = c.size - covered + queued]
        /\ repoll' = [repoll EXCEPT ![r] = 0]
        /\ IF last THEN r = "cmd" ELSE r = "cursor" \/ ~c.blocked
        /\ \E n \in IF r = "cmd" THEN Streams(w.streams) ELSE {w.streams} :
             LET v == [w EXCEPT !.x = {}, !.pc = "get", !.streams = n] IN
             w' = IF last THEN Return([v EXCEPT !.tmo = "zero"]) ELSE v
        /\ UNCHANGED <<ring, intVars, msgVars, m, isr, drvVars>>

\* How many more messages the window lets through.
Room(c) == IF c.blocked THEN 0 ELSE 2 * AckWindow + 1 - c.window

\* cursor_channel_push and display_channel_push: send up to the window.  The
\* dropped items are frames that come too soon after the last one of their
\* stream: they are taken from the pipe, but no message is sent.
Pushed(c, dropped) ==
    LET items == c.size - dropped
        sent  == IF Room(c) < items THEN Room(c) ELSE items
    IN  [c EXCEPT !.size = items - sent, !.window = c.window + sent,
                !.blocked = c.blocked \/ sent < items]

Frames == IF w.streams > 0 /\ Room(chan["cmd"]) > 0 THEN 0 .. chan["cmd"].size
                                                   ELSE {0}

\* red_push
Send ==
    /\ w.pc = "send"
    /\ \E dropped \in Frames :
         chan' = [r \in Ring |-> Pushed(chan[r], IF r = "cmd" THEN dropped ELSE 0)]
    /\ w' = [w EXCEPT !.pc = "epoll", !.ring = FirstRing]
    /\ UNCHANGED <<ring, intVars, msgVars, repoll, m, isr, drvVars>>

Worker ==
    \/ EpollWait \/ HandleWakeup \/ EventsDone
    \/ \E r \in Ring : HandleChannelEvents(r)
    \/ GetNothing \/ GetCommand \/ PopNotify \/ SendEvents \/ SendEventsPipe
    \/ ReqNotification \/ Process(TRUE) \/ Process(FALSE) \/ Send

-----------------------------------------------------------------------------
Next ==
    \/ Driver \/ \E r \in Ring : DrvBegin(r)
    \/ IsrTake \/ MainThread \/ Worker
    \/ \E r \in Ring : ClientAck(r) \/ ClientHangUp(r)

Spec == Init /\ [][Next]_vars

\* Threads keep running; the main loop serves each of its sources; the client
\* acknowledges what it received; 10 ms of work come to an end.  The driver
\* may stop issuing commands, but finishes what it began.
Fairness ==
    /\ WF_vars(Driver) /\ WF_vars(IsrTake) /\ WF_vars(Worker)
    /\ WF_vars(SetIrqRead \/ SetIrqStore)
    /\ SF_vars(IoNotify) /\ SF_vars(IoUpdateIrq) /\ SF_vars(PipeRead)
    /\ SF_vars(Process(TRUE)) /\ \A r \in Ring : WF_vars(ClientAck(r))

FairSpec == Spec /\ Fairness

-----------------------------------------------------------------------------
RingRecord ==
    [prod : Index, cons : Index, notify_on_prod : Index, notify_on_cons : Index,
     items : [0 .. RingItems - 1 -> Cmd]]

\* A pipe that is just short enough gets what one command adds; then all of
\* the streams end.
PipeLimit == MaxPipe + CommandItems + 2 * MaxStreams

ChanRecord ==
    [up : BOOLEAN, hup : BOOLEAN, size : 0 .. PipeLimit,
     window : 0 .. 2 * AckWindow + 1, acks : 0 .. 3, blocked : BOOLEAN]

WorkerRecord ==
    [pc : {"epoll", "events", "get", "popped", "event", "kick", "process",
           "wait", "waitread", "waitarm", "waittest", "send"},
     ring : Ring, x : SUBSET Cmd, tmp : Index, tmo : {"inf", "poll", "zero"},
     evs : SUBSET (Ring \cup {"dev"}), streams : 0 .. MaxStreams]

MainRecord == [pc : {"idle", "read", "set"}, for : {"isr", "driver", "pipe"},
               level : BOOLEAN]

DriverRecord ==
    [pc : {"boot", "io", "idle", "room", "arm", "armed", "retest", "sleep",
           "push", "pushed"}, ring : Ring, tmp : Index]

\* Every variable has its type.  The client's pipe exceeds MAX_PIPE_SIZE by no
\* more than what one command adds and what the streams add when they end;
\* the window stays within its limit, and at most one WAKEUP is under way.
TypeOK ==
    /\ ring \in [Ring -> RingRecord]
    /\ {int_mask, pipe, irq} \subseteq BOOLEAN
    /\ int_pending \subseteq {"display", "cursor"} /\ gev \subseteq {"display", "cursor"}
    /\ pending \subseteq {"wakeup"} /\ channel \in {<<>>, <<"wakeup">>}
    /\ chan \in [Ring -> ChanRecord]
    /\ repoll \in [Ring -> 0 .. PollRetries + 1]
    /\ w \in WorkerRecord /\ m \in MainRecord /\ g \in DriverRecord
    /\ gio \in {"none", "notify", "irq"} /\ isr \in {"idle", "io"}

\* Each ring is a bounded first-in first-out queue: whatever the
\* interleaving of SPICE_RING_PUSH and SPICE_RING_POP, no command is lost,
\* overwritten, repeated or reordered.
Queue(r) == [i \in 1 .. Used(ring[r]) |->
               ring[r].items[(ring[r].cons + i - 1) % RingItems]]

Fifo == INSTANCE CommandQueue WITH
            queue <- [r \in Ring |-> Queue(r)],
            taken <- [r \in Ring |-> IF w.ring = r THEN w.x ELSE {}]

RingsAreQueues == Fifo!QueueSpec

\* The worker never sleeps for good on a ring with commands: it has a timeout,
\* its own or a stream's, a wakeup is under way, the driver is about to see
\* notify_on_prod and write the port, or the channel that throttled the worker
\* has an acknowledgement to come.
WorkerWoken ==
    \A r \in Ring :
      (w.pc = "epoll" /\ w.tmo = "inf" /\ w.streams = 0 /\ ~IsEmpty(ring[r])) =>
        \/ Ready # {} \/ gio = "notify"
        \/ g.pc = "pushed" /\ g.ring = r /\ ring[r].prod = ring[r].notify_on_prod
        \/ chan[r].up /\ Unacked(chan[r]) >= AckWindow

\* An enabled pending interrupt whose line is low is about to raise it: the
\* pipe, a qxl_set_irq that has yet to read int_pending, or one that saw it.
InterruptComing ==
    (int_mask /\ int_pending # {} /\ ~irq) =>
        \/ pipe \/ w.pc = "kick" \/ m.pc = "read" \/ (m.pc = "set" /\ m.level)
        \/ isr = "io" /\ ~(m.pc = "set" /\ m.for = "isr")
        \/ gio = "irq" /\ ~(m.pc = "set" /\ m.for = "driver")

\* A driver asleep for room on a ring that has room is about to be told.
DriverWoken ==
    (g.pc = "sleep" /\ ~IsFull(ring[g.ring])) =>
        \/ Interrupt(g.ring) \in gev \cup int_pending
        \/ w.pc = "event" /\ w.ring = g.ring
        \/ /\ w.pc = "popped" /\ w.ring = g.ring
           /\ ring[g.ring].cons = ring[g.ring].notify_on_cons

\* With two rings: cursor commands are always served; display commands are
\* served once the driver lets the cursor ring rest, for red_process_cursor,
\* unlike red_process_commands, goes on as long as it finds commands.
Served(r) == (~IsEmpty(ring[r])) ~> (w.ring = r /\ w.x # {})

BothServed ==
    /\ \A r \in Ring \ {"cmd"} : Served(r)
    /\ (\A r \in Ring \ {"cmd"} : <>[]IsEmpty(ring[r])) => Served("cmd")

\* A driver that waits for room on a ring gets it.
DriverGetsRoom == (g.pc = "sleep") ~> (g.pc = "push")
=============================================================================
