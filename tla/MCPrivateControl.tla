-------------------------- MODULE MCPrivateControl --------------------------
(* Instances of PrivateControl for TLC.                                    *)
EXTENDS PrivateControl, TLC

(* One target denied twice with different deadlines under two message ids, *)
(* and the first message id used again with another body.                  *)
First    == [key |-> "k1", target |-> "t1", until |-> 2]
Second   == [key |-> "k2", target |-> "t1", until |-> 3]
Changed  == [key |-> "k1", target |-> "t1", until |-> 3]
Other    == [key |-> "k2", target |-> "t2", until |-> 3]
FarAhead == [key |-> "k3", target |-> "t1", until |-> 9]

OneTarget  == {First, Second, Changed}
Full       == {First, Other, FarAhead}
TwoTargets == {First, Other}

(* The connections are interchangeable.                                    *)
HandlerSymmetry == Permutations(Handlers)
=============================================================================
