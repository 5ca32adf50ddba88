---------------------------- MODULE Revocations ----------------------------
(***************************************************************************)
(* What the Private Control Link promises a management service about its   *)
(* revocations, without connections, slots, caches or files. A target is   *)
(* denied until the latest deadline that was asked for it. A deadline that *)
(* is ahead is lost only when the process stops, and then only if it was   *)
(* never acknowledged; nothing is denied that was not before. A command    *)
(* has one answer until that answer expires. PrivateControl implements     *)
(* this module in every behaviour in which commands do not overlap, and in *)
(* every one without a crash.                                              *)
(***************************************************************************)
EXTENDS Integers

CONSTANTS
    Commands,  \* [key, target, until]
    TTL,       \* how long an answer is remembered at least
    MaxDeny    \* how far ahead a deadline may be

VARIABLES
    now,     \* the clock
    up,      \* the process runs
    denied,  \* deadline per target, 0 = not denied; what a stop has left of it
    told     \* the answers given: [cmd, ack]

revocationVars == <<now, up, denied, told>>

Subjects == {c.target : c \in Commands}

RevocationInit ==
    /\ now = 0
    /\ up = TRUE
    /\ denied = [t \in Subjects |-> 0]
    /\ told = {}

(* An answer is remembered until its deadline, and at least for a time.    *)
Forgotten(ack) ==
    IF ack.outcome = "applied" /\ ack.until > ack.at + 2 * TTL THEN ack.until
    ELSE ack.at + 2 * TTL

(* The answer is about the command, as things were when it was executed.   *)
Answer(cmd, ack) ==
    /\ ack \in [outcome: {"applied", "already_expired"}, until: {cmd.until}, req: Nat, at: 0 .. now]
    /\ ack.outcome = "applied" <=> ack.at < cmd.until
    /\ cmd.until <= ack.at + MaxDeny

InForce(table, r) ==
    r.ack.outcome = "applied" /\ r.ack.until > now => table[r.cmd.target] >= r.ack.until

(* Rules whose deadline has passed may be dropped at any time.             *)
Without(S) == [t \in Subjects |-> IF t \in S THEN 0 ELSE denied[t]]
Past == {t \in Subjects : denied[t] <= now}

Lapse ==
    /\ up
    /\ \E S \in SUBSET Past : denied' = Without(S)
    /\ UNCHANGED <<now, up, told>>

(* An overlapping rule keeps the later deadline.                           *)
Deny(c) ==
    /\ up
    /\ \E S \in SUBSET Past :
         denied' = [Without(S) EXCEPT ![c.target] = IF @ > c.until THEN @ ELSE c.until]
    /\ UNCHANGED <<now, up, told>>

(* A second answer to a command comes after the first is forgotten.        *)
Tell(r) ==
    /\ up
    /\ r.cmd \in Commands /\ Answer(r.cmd, r.ack)
    /\ InForce(denied, r)
    /\ \A q \in told : q.cmd = r.cmd =>
         q.ack = r.ack \/ q.ack.at >= Forgotten(r.ack) \/ r.ack.at >= Forgotten(q.ack)
    /\ told' = told \cup {r}
    /\ UNCHANGED <<now, up, denied>>

(* The process stops: a deadline may be set back, if nobody was told it.   *)
Stop ==
    /\ up
    /\ up' = FALSE
    /\ denied' \in [Subjects -> Nat]
    /\ \A t \in Subjects : denied'[t] > now => denied'[t] <= denied[t]
    /\ \A r \in told : InForce(denied', r)
    /\ UNCHANGED <<now, told>>

Resume ==
    /\ ~up
    /\ up' = TRUE
    /\ \E S \in SUBSET Past : denied' = Without(S)
    /\ UNCHANGED <<now, told>>

Pass ==
    /\ now' = now + 1
    /\ UNCHANGED <<up, denied, told>>

RevocationNext ==
    \/ Lapse \/ Stop \/ Resume \/ Pass
    \/ \E c \in Commands : Deny(c)
    \/ \E r \in told' : Tell(r)

RevocationSpec == RevocationInit /\ [][RevocationNext]_revocationVars
=============================================================================
