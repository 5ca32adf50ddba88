---------------------------- MODULE MCDirectory ----------------------------
(* Instances of Directory and FragmentPacking for TLC.                     *)
EXTENDS Directory, FragmentPacking, TLC

Datagram(type, channel, epoch, seq, expires, addr, resource, cursor) ==
    [type |-> type, channel |-> channel, epoch |-> epoch, seq |-> seq,
     expires |-> expires, addr |-> addr, instance |-> "i1",
     resource |-> resource, cursor |-> cursor]

Register(epoch, seq, expires, addr) ==
    Datagram("register", "c1", epoch, seq, expires, addr, "none", 0)
Heartbeat(epoch, seq, expires, addr) ==
    Datagram("heartbeat", "c1", epoch, seq, expires, addr, "none", 0)
Snapshot(channel, seq, cursor) ==
    Datagram("request", channel, "e1", seq, 2, "a1", "snapshot", cursor)
Participants(seq, expires) ==
    Datagram("request", "c1", "e1", seq, expires, "a1", "participants", 0)

(* A client that moves to another endpoint, and registers there with a new *)
(* epoch; a second client of the first epoch; a request that expires early.*)
Moving == {Register("e1", 1, 2, "a1"), Participants(2, 1),
           Heartbeat("e1", 3, 2, "a2"), Register("e2", 1, 2, "a2"),
           [Register("e1", 4, 2, "a1") EXCEPT !.instance = "i2"]}

(* Paging, with a cursor that is repeated under two sequence numbers and a *)
(* channel that has too many pages.                                        *)
Paging == {Snapshot("c1", 1, 0), Snapshot("c1", 2, 1), Snapshot("c1", 3, 1),
           Snapshot("c1", 4, 2), Snapshot("c2", 1, 0)}

TwoScenarios == Moving \cup Paging

TwoChannels == {"c1", "c2"}
UnequalPages == [c \in Channels |-> IF c = "c1" THEN 3 ELSE 4]

VARIABLE scenario  \* which of the two the clients play

(* A worker takes a datagram of the scenario.                              *)
FromScenario == \A w \in Workers : worker'[w].stage = "commit" => worker'[w].d \in scenario

(* With no scenario, there is an answer to pack instead.                   *)
ScenarioInit ==
    /\ Init
    /\ \/ scenario \in {Moving, Paging} /\ answer = <<>>
       \/ scenario = {} /\ answer \in Answers

ScenarioNext ==
    /\ scenario # {}
    /\ Next
    /\ FromScenario
    /\ UNCHANGED <<scenario, answer>>

ScenarioSpec == ScenarioInit /\ [][ScenarioNext]_<<vars, scenario, answer>>

WorkerSymmetry == Permutations(Workers)
=============================================================================
