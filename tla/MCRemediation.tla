--------------------------- MODULE MCRemediation ---------------------------
(* An engineer may approve low-risk playbooks, an admin all of them. *)
EXTENDS Remediation, TLC

Likely(p) == [playbook |-> p, confident |-> TRUE]
Unlikely(p) == [playbook |-> p, confident |-> FALSE]
TwoRisks == {Likely("restart_service"), Likely("scale_replicas"), Unlikely("restart_service")}
AllKinds == {Likely("recycle_db_pool"), Likely("scale_replicas"), Likely("page_someone")}
Roles == "erin" :> "engineer"
TwoRoles == ("erin" :> "engineer") @@ ("ada" :> "admin")
=============================================================================
