--------------------------- MODULE MCControlAuth ---------------------------
(* Instances of ControlAuth and RelayNonce for TLC.                        *)
EXTENDS ControlAuth, RelayNonce, TLC

SessionSymmetry == Permutations(Sessions)

(* The two share no state and no property relates them, so it is enough to *)
(* look at the behaviours in which one of them moves, and for ControlAuth  *)
(* at one initial instance id.                                             *)
EitherInit == Init /\ NonceInit

EitherNext ==
    \/ last = NoNonce /\ relayInstanceID = 1 /\ Next /\ UNCHANGED nonceVars
    \/ sent = {} /\ now = 0 /\ NonceNext /\ UNCHANGED vars

EitherSpec == EitherInit /\ [][EitherNext]_<<vars, nonceVars>>
=============================================================================
