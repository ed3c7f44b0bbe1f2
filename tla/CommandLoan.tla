----------------------------- MODULE CommandLoan -----------------------------
(***************************************************************************)
(* What the QXL device promises a guest driver about the memory of its     *)
(* commands.  A block is lent to the device with a command, is given back  *)
(* once, and only then may the driver use it again.                        *)
(***************************************************************************)
CONSTANTS Res           \* the blocks of guest memory that hold commands

VARIABLES
    guest,      \* blocks that the driver owns
    device,     \* blocks that the device has been lent
    returned    \* blocks given back that the driver has not collected

loan == <<guest, device, returned>>

LoanInit == guest = Res /\ device = {} /\ returned = {}

Lend(x) ==
    /\ x \in guest
    /\ guest' = guest \ {x} /\ device' = device \cup {x}
    /\ UNCHANGED returned

GiveBack(x) ==
    /\ x \in device
    /\ device' = device \ {x} /\ returned' = returned \cup {x}
    /\ UNCHANGED guest

Collect(x) ==
    /\ x \in returned
    /\ returned' = returned \ {x} /\ guest' = guest \cup {x}
    /\ UNCHANGED device

LoanSpec ==
    LoanInit /\ [][\E x \in Res : Lend(x) \/ GiveBack(x) \/ Collect(x)]_loan
=============================================================================
