----------------------------- MODULE RelayNonce -----------------------------
(***************************************************************************)
(* The nonces of the control packets the Relay signs (control_auth.go):    *)
(* nextRelayNonce puts a random instance id that was not used before in    *)
(* the high half and a counter in the low half, and takes a new instance   *)
(* id when the counter is exhausted. The run loop, cleanupLoop and the     *)
(* revocations call it; a call is one critical section of controlAuth.mu.  *)
(***************************************************************************)
EXTENDS Integers

CONSTANTS
    InstanceIDs,   \* the values of the 32-bit instance id
    CounterLimit   \* ^uint32(0)

ASSUME RelayNonceAssumption ==
    /\ InstanceIDs \subseteq Nat /\ 0 \notin InstanceIDs
    /\ CounterLimit \in Nat

VARIABLES
    relayInstanceID,
    relayCounter,
    relayCounterExhausted,
    usedRelayInstanceIDs,
    issued,   \* history: the nonces given out before the last one
    last      \* history: the last nonce given out, or NoNonce

nonceVars == <<relayInstanceID, relayCounter, relayCounterExhausted, usedRelayInstanceIDs,
               issued, last>>

NonceType == [instance: InstanceIDs, counter: 0 .. CounterLimit]

NoNonce == [instance |-> 0, counter |-> 0]

NonceTypeOK ==
    /\ relayInstanceID \in InstanceIDs
    /\ relayCounter \in 0 .. CounterLimit
    /\ relayCounterExhausted \in BOOLEAN
    /\ usedRelayInstanceIDs \subseteq InstanceIDs
    /\ issued \subseteq NonceType
    /\ last \in NonceType \cup {NoNonce}

(* newControlAuthState.                                                    *)
NonceInit ==
    /\ relayInstanceID \in InstanceIDs
    /\ relayCounter = 0
    /\ relayCounterExhausted = FALSE
    /\ usedRelayInstanceIDs = {relayInstanceID}
    /\ issued = {}
    /\ last = NoNonce

(* Nonce <<id, counter>> is given out.                                     *)
Issue(id, counter) ==
    /\ last' = [instance |-> id, counter |-> counter]
    /\ issued' = IF last = NoNonce THEN issued ELSE issued \cup {last}
    /\ relayInstanceID' = id
    /\ relayCounterExhausted' = (counter = CounterLimit)
    /\ relayCounter' = IF counter = CounterLimit THEN counter ELSE counter + 1

NextNonce ==
    /\ ~relayCounterExhausted
    /\ Issue(relayInstanceID, relayCounter)
    /\ UNCHANGED usedRelayInstanceIDs

\* Mutant of Rollover: the new instance id may have been used before.
RolloverAnyID ==
    /\ relayCounterExhausted
    /\ \E id \in InstanceIDs :
         /\ usedRelayInstanceIDs' = usedRelayInstanceIDs \cup {id}
         /\ Issue(id, 0)

(* newRelayInstanceIDLocked. When it finds no fresh id the call fails, no  *)
(* packet is sent, and the counter stays exhausted.                        *)
Rollover ==
    /\ relayCounterExhausted
    /\ \E id \in InstanceIDs \ usedRelayInstanceIDs :
         /\ usedRelayInstanceIDs' = usedRelayInstanceIDs \cup {id}
         /\ Issue(id, 0)

NonceNext == NextNonce \/ Rollover

NonceSpec == NonceInit /\ [][NonceNext]_nonceVars

(* No two packets of the Relay carry the same nonce, across the rollover   *)
(* of the counter too (nextRelayNonce).                                    *)
NonceNeverRepeated == last \notin issued
=============================================================================
