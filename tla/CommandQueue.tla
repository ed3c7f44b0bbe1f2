---------------------------- MODULE CommandQueue ----------------------------
(***************************************************************************)
(* What a QXL command ring promises: a bounded queue.  Commands are taken  *)
(* in the order in which they were put, each exactly once.                 *)
(***************************************************************************)
EXTENDS Naturals, Sequences

CONSTANTS Ring, Cmd, RingItems

VARIABLES
    queue,    \* queue[r]: the commands on ring r
    taken     \* taken[r]: the command that the device holds, or a set of none

QueueInit == queue = [r \in Ring |-> <<>>] /\ taken = [r \in Ring |-> {}]

Put(r, c) ==
    /\ Len(queue[r]) < RingItems
    /\ UNCHANGED taken
    /\ queue' = [queue EXCEPT ![r] = Append(queue[r], c)]

Take(r) ==
    /\ queue[r] # <<>> /\ taken[r] = {}
    /\ taken' = [taken EXCEPT ![r] = {Head(queue[r])}]
    /\ queue' = [queue EXCEPT ![r] = Tail(queue[r])]

Show(r) ==
    /\ taken[r] # {}
    /\ taken' = [taken EXCEPT ![r] = {}]
    /\ UNCHANGED queue

QueueNext == \E r \in Ring : Take(r) \/ Show(r) \/ \E c \in Cmd : Put(r, c)

QueueSpec == QueueInit /\ [][QueueNext]_<<queue, taken>>
=============================================================================
