---------------------------- MODULE BlockDevice ----------------------------
(***************************************************************************)
(* What a split block device promises to the block layer above it: every   *)
(* request it was given is ended once, a request that it ends well has     *)
(* been carried out since it was given, and nothing is carried out for a   *)
(* request that has ended (its sectors and its memory may be in other      *)
(* hands by then).  Carrying a request out twice is allowed: a guest that  *)
(* is restored issues again what it had in flight.                         *)
(***************************************************************************)
CONSTANT Request

VARIABLES
    status,     \* status[r]: "idle" or "pending"
    executed,   \* pending requests that the disk has carried out
    outcome     \* how the last request to end has ended: "ok" or "error"

DeviceInit ==
    status = [r \in Request |-> "idle"] /\ executed = {} /\ outcome = "ok"

Give(r) ==
    /\ status[r] = "idle"
    /\ status' = [status EXCEPT ![r] = "pending"]
    /\ UNCHANGED <<executed, outcome>>

CarryOut(r) ==
    /\ status[r] = "pending"
    /\ executed' = executed \union {r}
    /\ UNCHANGED <<status, outcome>>

Finish(r, how) ==
    /\ status[r] = "pending"
    /\ how = "ok" => r \in executed
    /\ status' = [status EXCEPT ![r] = "idle"]
    /\ outcome' = how
    /\ executed' = executed \ {r}

DeviceNext ==
    \E r \in Request : \/ Give(r) \/ CarryOut(r)
                       \/ \E how \in {"ok", "error"} : Finish(r, how)

DeviceSpec == DeviceInit /\ [][DeviceNext]_<<status, executed, outcome>>
=============================================================================
