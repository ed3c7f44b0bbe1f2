CONSTANTS
    Port = {1, 2}
    Vcpu = {0}
    Notify <- MCNotify
    WordBits = 2
    Sender = {s1}
    PollSets = {{}, {1}, {1, 2}}
    GuestOps = {"send", "poll", "irq_off", "timeout", "block", "preempt", "bad_port"}
SPECIFICATION Spec
INVARIANTS TypeOK NoLostWakeup
PROPERTIES SleepersWake EventsHandled
