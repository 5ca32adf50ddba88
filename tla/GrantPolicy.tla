----------------------------- MODULE GrantPolicy ----------------------------
(***************************************************************************)
(* One request for a grant, under any row the policy loader accepts and    *)
(* with any role the API knows. Nothing in issueGrant or validateGrant     *)
(* remembers earlier grants, so a request stands by itself.                *)
(***************************************************************************)
EXTENDS GrantIssue

VARIABLE posed  \* the request, with the row and the role of its service

Posed == [apiRole: ApiRoles, row: {row \in Rows : RowAccepted(row)}, request: Requests]

GrantInit == posed \in Posed
GrantSpec == GrantInit /\ [][UNCHANGED posed]_posed

(* Whatever row the policy accepts and whatever is asked, a grant that is  *)
(* issued is accepted by the Relay exactly while it lives and gives no     *)
(* more than the row, and what the row covers is granted (issueGrant,      *)
(* validateGrant).                                                         *)
GrantHonoured == Honoured(posed.apiRole, posed.row, posed.request)
=============================================================================
