---------------------------- MODULE MCManagement ----------------------------
(* Instances of Management for TLC.                                        *)
EXTENDS Management, GrantPolicy

(* An operator's service with a stream, a view and a grant, and a service  *)
(* that may only read the health of the Relay, with a stream.              *)
Desk   == [x \in {"s1", "s2", "view", "grant"} |-> IF x = "s2" THEN "monitor" ELSE "desk"]
Roles  == [v \in {"desk", "monitor"} |-> IF v = "desk" THEN "operator" ELSE "admin"]
Rights == [v \in {"desk", "monitor"} |-> IF v = "desk" THEN {1} ELSE {}]

(* The departure of a talker has two events.                               *)
RunFeeds == {[by |-> "run", channel |-> 1, count |-> 2]}

ListenGrant ==
    [x \in {"grant"} |->
       [channel |-> 1,
        row     |-> [role |-> "recorder", listen |-> TRUE, talk |-> FALSE, interrupt |-> FALSE,
                     priority |-> 0, enabled |-> TRUE],
        request |-> [role |-> "recorder", talk |-> FALSE, interrupt |-> FALSE]]]

(* The grant of the run; the others stand by themselves.                   *)
Desks ==
    [apiRole |-> "operator", row |-> ListenGrant["grant"].row,
     request |-> ListenGrant["grant"].request]

StreamsInit == MgmtInit /\ GrantInit
StreamsNext == posed = Desks /\ MgmtNext /\ UNCHANGED posed
StreamsSpec == StreamsInit /\ [][StreamsNext]_<<mgmtVars, posed>> /\ MgmtFairness
=============================================================================
