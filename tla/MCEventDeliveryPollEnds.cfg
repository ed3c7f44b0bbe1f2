CONSTANTS
    Port = {1, 2}
    Vcpu = {0}
    Notify <- MCNotify
    WordBits = 2
    Sender = {s1, s2}
    PollSets = {{1}}
    GuestOps = {"send", "poll", "irq_off"}
SYMMETRY SenderSymmetry
SPECIFICATION Spec
INVARIANT PollEndsWhenUnblocked
