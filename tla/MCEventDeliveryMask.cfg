CONSTANTS
    Port = {1, 2}
    Vcpu = {0, 1}
    Notify <- MCNotify
    WordBits = 2
    Sender = {s1}
    PollSets = {}
    GuestOps = {"send", "mask", "block"}
SPECIFICATION Spec
INVARIANT NoLostEdge
