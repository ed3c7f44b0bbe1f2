CONSTANTS
    Domain = {1, 2}
    Dom0 = 1
    Thread = {t1, t2}
    Vcpu = {0}
    MaxEvtchns = 3
    PerBucket = 3
    Virq = {"dom_exc"}
    GlobalVirq = {"dom_exc"}
    DomExc = "dom_exc"
    Pirq = {}
    GuestOps = {"xen_port", "ioreq", "bind_interdomain", "close", "reset", "kill", "send"}
    None = None
SYMMETRY ThreadSymmetry
SPECIFICATION Spec
INVARIANTS NoLostNotification 
