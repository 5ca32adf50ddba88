----------------------------- MODULE GrantIssue -----------------------------
(***************************************************************************)
(* The rules by which the Management Plane issues service grants           *)
(* (management.go) and those by which the Relay accepts them               *)
(* (service_admission.go). Both run in one process in direct mode; a grant *)
(* that one issues and the other refuses would lock the service out.       *)
(*                                                                         *)
(* Signatures, key confirmation and the encoding of the grant are left     *)
(* out; issuer, audience and signing key are configured to agree.          *)
(***************************************************************************)
EXTENDS Integers

CONSTANTS
    Priorities,   \* values of interrupt_priority, 0 among them
    Delays        \* seconds from the issue of a grant to its use

ASSUME GrantIssueAssumption ==
    /\ Priorities \subseteq 0 .. 255 /\ 0 \in Priorities
    /\ Delays \subseteq Nat

ApiRoles == {"viewer", "recorder", "operator", "auditor", "admin"}
AdmissionRoles == {"recorder", "observer", "automation"}
ReceiveOnly == {"recorder", "observer"}

managementGrantLifetime == 300
minimumServiceGrantLifetime == 60
maximumServiceGrantLifetime == 3600

NoPriority == -1   \* a claim that is left out

(* A row of management-channel-acl.csv for one service, channel and sender *)
(* (managementChannelACL).                                                 *)
Rows == [role: AdmissionRoles, listen: BOOLEAN, talk: BOOLEAN, interrupt: BOOLEAN,
         priority: Priorities, enabled: BOOLEAN]

(* The permission constraints of loadManagementPolicy.                     *)
RowAccepted(row) ==
    /\ row.listen
    /\ row.interrupt => row.talk /\ row.priority # 0
    /\ ~row.interrupt => row.priority = 0
    /\ row.role \in ReceiveOnly => ~row.talk /\ ~row.interrupt /\ row.priority = 0

(* serviceGrantRequest, for the channel and the sender of the row.         *)
Requests == [role: AdmissionRoles, talk: BOOLEAN, interrupt: BOOLEAN]

(* The bits of a permission set: listen 1, talk 2, interrupt 4.            *)
Bits(talk, interrupt) ==
    1 + (IF talk THEN 2 ELSE 0) + (IF interrupt THEN 4 ELSE 0)

(* The early returns of issueGrant, in their order.                        *)
Authorized(apiRole, row, request) ==
    /\ row.enabled
    /\ row.role = request.role
    /\ apiRole \in {"recorder", "operator"}
    /\ apiRole = "recorder" => request.role = "recorder"
    /\ request.talk => row.talk
    /\ request.interrupt => request.talk /\ row.interrupt
    /\ request.role \in ReceiveOnly => Bits(request.talk, request.interrupt) = 1

\* Mutant of Claims: the priority is always in the claims.
ClaimsWithPriority(row, request) ==
    [role        |-> request.role,
     permissions |-> Bits(request.talk, request.interrupt),
     priority    |-> IF request.interrupt THEN row.priority ELSE 0,
     lifetime    |-> managementGrantLifetime]

(* The claims issueGrant signs.                                            *)
Claims(row, request) ==
    [role        |-> request.role,
     permissions |-> Bits(request.talk, request.interrupt),
     priority    |-> IF request.interrupt THEN row.priority ELSE NoPriority,
     lifetime    |-> managementGrantLifetime]

(* validateGrant, delay seconds after the issue.                           *)
Validated(claims, delay) ==
    /\ claims.lifetime \in minimumServiceGrantLifetime .. maximumServiceGrantLifetime
    /\ delay < claims.lifetime
    /\ claims.permissions \in {1, 3, 7}
    /\ IF claims.permissions = 7 THEN claims.priority > 0 ELSE claims.priority = NoPriority
    /\ claims.role \in ReceiveOnly => claims.permissions = 1
    /\ claims.role \in AdmissionRoles

(* A grant that is issued is accepted by the Relay exactly while it lives  *)
(* and gives no more than the row, and a request that the row covers is    *)
(* granted to the services that may ask for it (issueGrant, validateGrant).*)
Honoured(apiRole, row, request) ==
    LET claims == Claims(row, request)
    IN /\ Authorized(apiRole, row, request) =>
            /\ \A delay \in Delays :
                 Validated(claims, delay) <=> delay < managementGrantLifetime
            /\ claims.permissions > 1 => row.talk
            /\ claims.permissions = 7 => row.interrupt /\ claims.priority = row.priority
            /\ claims.priority # NoPriority => claims.permissions = 7
       /\ /\ row.enabled /\ row.role = request.role
          /\ apiRole = "operator" \/ (apiRole = "recorder" /\ row.role = "recorder")
          /\ (request.talk => row.talk) /\ (request.interrupt => request.talk /\ row.interrupt)
          => Authorized(apiRole, row, request)
=============================================================================
