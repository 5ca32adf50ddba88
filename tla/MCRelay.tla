------------------------------ MODULE MCRelay ------------------------------
(* Instances of Relay for TLC.                                             *)
EXTENDS Relay

Mid  == [kind |-> "identity", talk |-> TRUE, interrupt |-> TRUE,
         priority |-> 1, life |-> 1, grace |-> 0]
High == [kind |-> "identity", talk |-> TRUE, interrupt |-> TRUE,
         priority |-> 2, life |-> 2, grace |-> 0]
Speaker  == [kind |-> "service", talk |-> TRUE, interrupt |-> FALSE,
             priority |-> 0, life |-> 2, grace |-> 0]
Recorder == [kind |-> "service", talk |-> FALSE, interrupt |-> FALSE,
             priority |-> 0, life |-> 1, grace |-> 1]

TwoAddrs == {"a1", "a2"}
ThreeAddrs == {"a1", "a2", "a3"}

(* Endpoint a1 is used by two senders, and sender 2 by two endpoints.      *)
SharedAddr == {<<1, "a1">>, <<2, "a1">>, <<2, "a2">>}
OwnAddr == {<<1, "a1">>, <<2, "a2">>, <<3, "a3">>} \cap (Senders \X Addrs)

None == {}
IdentityAdmissions == {Mid, High}
ServiceAdmissions == {Speaker, Recorder}
SpeakerOnly == {Speaker}

(* Everything a client sends without an admission of its own.              *)
ClientPackets == PacketTypes \ {"PTT_REQUEST", "PROOF"}
InterruptPackets == {"JOIN", "PTT_ON", "PTT_REQUEST"}
AdmissionPackets == {"JOIN", "PROOF", "PTT_ON"}
=============================================================================
