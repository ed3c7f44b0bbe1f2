CONSTANTS
    Domain = {1}
    Dom0 = 1
    Thread = {t1, t2}
    Vcpu = {0, 1}
    MaxEvtchns = 4
    PerBucket = 2
    Virq = {"timer", "dom_exc"}
    GlobalVirq = {"dom_exc"}
    DomExc = "dom_exc"
    Pirq = {"pirq"}
    GuestOps = {"bind_virq", "bind_ipi", "bind_pirq", "bind_vcpu", "close", "virq", "handle", "send"}
    None = None
SYMMETRY ThreadSymmetry
SPECIFICATION Spec
INVARIANTS TypeOK IrqBindingsSound ClosedPortsQuiet
