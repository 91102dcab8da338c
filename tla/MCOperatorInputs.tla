-------------------------- MODULE MCOperatorInputs --------------------------
EXTENDS OperatorInputs

(* Every host is a registry of its own. *)
MCRegistry == [h \in Hosts |-> h]

MCInitial == {None, Incomplete, [host |-> "h", tls |-> TRUE]}

(* Any two changes or failures. *)
MCChanges == [d \in Disruptions |-> IF d \in {"config", "secret", "any"} THEN 2 ELSE 1]
=============================================================================
