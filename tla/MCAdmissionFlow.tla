-------------------------- MODULE MCAdmissionFlow --------------------------
(* Instances of AdmissionFlow for TLC.                                     *)
EXTENDS AdmissionFlow

T == INSTANCE TLC

CONSTANTS s1, s2   \* control sessions of the endpoint

Ticket(kind, service, grant, valid) ==
    [kind |-> kind, sender |-> 1, service |-> service, grant |-> grant,
     expires |-> 2, valid |-> valid]

(* An identity ticket, a grant of a managed service and a forged one.      *)
Identity == Ticket("identity", "none", "none", TRUE)
Recorder == Ticket("service", "recorder", "g1", TRUE)
Forged   == Ticket("service", "recorder", "g2", FALSE)

BothKinds == {Identity, Recorder, Forged}

TwoSessions == {[sender |-> 1, session |-> n] : n \in {s1, s2}}

SessionSymmetry == T!Permutations({s1, s2})

(* Revocation of the service, or of one grant of it.                       *)
TwoRules == {[service |-> "recorder", grant |-> g] : g \in {Any, "g1"}}
=============================================================================
