-------------------------- MODULE RelayDiagnostics --------------------------
(***************************************************************************)
(* The Floor Interrupt counters of the Relay (relay_diagnostics.go). Every *)
(* PTT_REQUEST adds to them in one critical section, and a diagnostics     *)
(* reply reads them in one, so a reply may hold any state that they are in *)
(* between two outcomes.                                                   *)
(***************************************************************************)
EXTENDS Integers, Sequences, FiniteSets

CONSTANTS
    CounterMax,   \* relayDiagnosticsCounterMaximum
    MaxOutcomes   \* bound on the PTT_REQUESTs that are counted

ASSUME RelayDiagnosticsAssumption ==
    /\ CounterMax \in Nat \ {0}
    /\ MaxOutcomes \in Nat

VARIABLES
    seen,      \* the states of the counters so far, the present one last
    outcomes   \* what was counted between them; history

diagVars == <<seen, outcomes>>

diagnostics == seen[Len(seen)]

Counters == {"requests", "grants", "denials", "preemptions", "unauthorized"}

(* What handlePttRequest adds, by the branch it ends in.                   *)
Outcomes == {{"requests", "unauthorized"}, {"requests", "grants"}, {"requests", "denials"},
             {"requests", "grants", "preemptions"}}

(* newRelayDiagnosticsState; the epochs, random ids, are numbered.         *)
Fresh == [epoch |-> 1, counters |-> [k \in Counters |-> 0]]

CanAdd(d, delta) == \A k \in delta : d.counters[k] < CounterMax

Added(d, delta) ==
    [d EXCEPT !.counters = [k \in Counters |-> IF k \in delta THEN @[k] + 1 ELSE @[k]]]

\* Mutant of Observe: only the counter that is full starts again.
ObserveOneByOne(d, delta) ==
    LET full == {k \in delta : d.counters[k] = CounterMax}
    IN Added(IF full = {} THEN d
             ELSE [epoch    |-> d.epoch + 1,
                   counters |-> [k \in Counters |-> IF k \in full THEN 0 ELSE d.counters[k]]],
             delta)

(* observeFloorInterrupt: when a counter would pass the maximum, a new     *)
(* epoch starts with all of them at zero.                                  *)
Observe(d, delta) ==
    Added(IF CanAdd(d, delta) THEN d ELSE [epoch |-> d.epoch + 1, counters |-> Fresh.counters],
          delta)

DiagInit == seen = <<Fresh>> /\ outcomes = <<>>

(* observeFloorInterruptDiagnostics; the next reply may read the result.   *)
Count(delta) ==
    /\ Len(outcomes) < MaxOutcomes
    /\ seen' = Append(seen, Observe(diagnostics, delta))
    /\ outcomes' = Append(outcomes, delta)

DiagNext == \E delta \in Outcomes : Count(delta)

DiagSpec == DiagInit /\ [][DiagNext]_diagVars

-----------------------------------------------------------------------------
(* The outcomes after the start-th and before the i-th state that count k. *)
Counted(k, start, i) == {j \in start + 1 .. i - 1 : k \in outcomes[j]}

(* The counters of a reply add up: every request is granted, denied or     *)
(* unauthorized, and a preemption is a grant.                              *)
AddUp(counters) ==
    /\ \A k \in Counters : counters[k] \in 0 .. CounterMax
    /\ counters["requests"] =
         counters["grants"] + counters["denials"] + counters["unauthorized"]
    /\ counters["preemptions"] <= counters["grants"]

(* A reply never mixes two epochs: its counters are those of the outcomes  *)
(* since some point, the start or one where a counter was full.            *)
OneEpoch(i) ==
    \E start \in 0 .. i - 1 :
        \A k \in Counters : seen[i].counters[k] = Cardinality(Counted(k, start, i))

(* A later reply of the same epoch counts no less, and an epoch that was   *)
(* left does not come back.                                                *)
NoStepBack(i, j) ==
    /\ seen[i].epoch <= seen[j].epoch
    /\ seen[i].epoch = seen[j].epoch =>
         \A k \in Counters : seen[i].counters[k] <= seen[j].counters[k]

(* Whatever is counted and whenever it is asked for, a diagnostics reply   *)
(* never mixes two epochs, its counters add up and keep to the maximum,    *)
(* and it takes nothing back (observeFloorInterrupt, snapshot).            *)
CountersConsistent ==
    \A i \in DOMAIN seen :
        /\ AddUp(seen[i].counters)
        /\ OneEpoch(i)
        /\ \A j \in i .. Len(seen) : NoStepBack(i, j)
=============================================================================
