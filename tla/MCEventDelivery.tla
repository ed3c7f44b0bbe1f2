-------------------------- MODULE MCEventDelivery --------------------------
(* EventDelivery for TLC: the port 1 notifies vcpu 0, and the higher ports *)
(* notify the vcpu with the highest number.                                *)
EXTENDS EventDelivery, TLC

MCNotify == [p \in Port |-> IF p = 1 THEN 0
                            ELSE CHOOSE v \in Vcpu : \A u \in Vcpu : u <= v]

SenderSymmetry == Permutations(Sender)
=============================================================================
