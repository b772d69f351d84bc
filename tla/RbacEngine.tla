----------------------------- MODULE RbacEngine -----------------------------
(***************************************************************************)
(* Authorisation in gateway-service (auth/rbac.go): roles and ABAC         *)
(* policies are rows that operators edit on any replica; one gateway works *)
(* from a copy that it reloads when it is older than RefreshInterval, or   *)
(* after an edit of its own.                                               *)
(*                                                                         *)
(* A reload is two queries and a store, and two requests may reload at the *)
(* same time.  The roles query failing leaves the built-in admin role and  *)
(* nothing else; the policy query failing leaves no policy, which allows.  *)
(* A permission is a pair: "*" is <<"*","*">>, a bare action <<"*",a>>,    *)
(* "r:*" <<r,"*">>.  Policies are numbered in the order of their names.    *)
(***************************************************************************)
EXTENDS Naturals, Sequences, FiniteSets, TLC, SequencesExt

CONSTANTS
    CustomRoles,   \* roles operators made, besides admin
    Permissions,   \* permission sets an edit may give
    PolicyDefs,    \* policy number |-> effect, resource, cases its condition holds for
    Priorities,    \* priorities an edit may give
    Requests,      \* role, resource, action
    Reloaders,     \* requests that may reload at the same time
    MaxEdits,      \* bound: edits of roles and policies
    MaxRbacFaults  \* bound: queries that fail

ASSUME RbacConstants ==
    /\ IsFiniteSet(CustomRoles) /\ "admin" \notin CustomRoles
    /\ Priorities \subseteq Nat \ {0} /\ Priorities # {}
    /\ IsFiniteSet(DOMAIN PolicyDefs) /\ DOMAIN PolicyDefs \subseteq Nat
    /\ MaxEdits \in Nat /\ MaxRbacFaults \in Nat

VARIABLES
    tables,      \* history: the rows after each edit; the last is the database
    copy,        \* the gateway: roles, policies in order, and what they were read from
    oldCopy,     \* the copy is older than RefreshInterval
    reload,      \* each reloader: how far it is and what it has read
    rbacFaults

rbacVars == <<tables, copy, oldCopy, reload, rbacFaults>>

AllPermissions == {<<"*", "*">>}
AllRoles == CustomRoles \cup {"admin"}
Absent == {}                     \* CreateRole and UpdateRole refuse an empty list
NoPolicy == [prio |-> 0, enabled |-> FALSE]
Version == Len(tables)
Table == tables[Version]

-----------------------------------------------------------------------------
(* The decision, from a copy *)

HasPermission(roles, r) ==
    \E p \in roles[r.role] : p[1] \in {"*", r.resource} /\ p[2] \in {"*", r.action}

Matches(n, r) ==
    PolicyDefs[n].resource \in {"*", r.resource} /\ <<r.role, r.action>> \in PolicyDefs[n].cases

\* The first policy that matches decides; none allows.
EvaluateABAC(policies, r) ==
    LET i == SelectInSeq(policies, LAMBDA p : Matches(p.name, r))
    IN  i = 0 \/ PolicyDefs[policies[i].name].effect = "allow"

inOrder(p, q) == p.prio < q.prio \/ (p.prio = q.prio /\ p.name < q.name)

\* The rows come in any order and are sorted: no two have one name.
Sorted(rows) == {s \in SetToSeqs(rows) : \A i, j \in DOMAIN s : i < j => inOrder(s[i], s[j])}

-----------------------------------------------------------------------------
(* Edits, on this replica or another *)

PolicyRows(t) == {[name |-> n, prio |-> t.policies[n].prio] :
                      n \in {m \in DOMAIN PolicyDefs : t.policies[m].enabled}}

NoReload == [pc |-> "idle", roles |-> [r \in AllRoles |-> Absent], policies |-> {},
             v |-> <<0, 0>>]

\* An edit of this replica reloads afterwards; one of another replica does not.
Edit(table, q) ==
    /\ Version <= MaxEdits
    /\ tables' = Append(tables, table)
    /\ \/ UNCHANGED reload
       \/ reload[q] = NoReload /\ reload' = [reload EXCEPT ![q].pc = "roles"]
    /\ UNCHANGED <<copy, oldCopy, rbacFaults>>

\* CreateRole and UpdateRole; a built-in role can be updated.
PutRole(r, perms, q) ==
    /\ r = "admin" => Table.roles[r] # Absent
    /\ perms # Absent /\ perms # Table.roles[r]
    /\ Edit([Table EXCEPT !.roles[r] = perms], q)

\* DeleteRole: not a built-in one.
DeleteRole(r, q) ==
    /\ r \in CustomRoles /\ Table.roles[r] # Absent
    /\ Edit([Table EXCEPT !.roles[r] = Absent], q)

CreatePolicy(n, prio, q) ==
    /\ Table.policies[n] = NoPolicy
    /\ Edit([Table EXCEPT !.policies[n] = [prio |-> prio, enabled |-> TRUE]], q)

\* Enabled or not, and another priority or, by asking for 0, the same.
UpdatePolicy(n, prio, enabled, q) ==
    /\ Table.policies[n] # NoPolicy
    /\ Edit([Table EXCEPT !.policies[n] =
                 [prio |-> IF prio = 0 THEN @.prio ELSE prio, enabled |-> enabled]], q)

DeletePolicy(n, q) ==
    /\ Table.policies[n] # NoPolicy
    /\ Edit([Table EXCEPT !.policies[n] = NoPolicy], q)

-----------------------------------------------------------------------------
(* refresh *)

refreshIfStale(q) ==
    /\ oldCopy /\ reload[q] = NoReload
    /\ reload' = [reload EXCEPT ![q].pc = "roles"]
    /\ UNCHANGED <<tables, copy, oldCopy, rbacFaults>>

WithFallback(roles) ==
    IF roles["admin"] = Absent THEN [roles EXCEPT !["admin"] = AllPermissions] ELSE roles

RbacFault == rbacFaults < MaxRbacFaults /\ rbacFaults' = rbacFaults + 1

\* v: the version each query read; 0 for one that failed.
LoadRoles(q) ==
    /\ reload[q].pc = "roles"
    /\ \/ /\ reload' = [reload EXCEPT ![q].pc = "policies", ![q].v[1] = Version,
                                      ![q].roles = WithFallback(Table.roles)]
          /\ UNCHANGED rbacFaults
       \/ /\ RbacFault
          /\ reload' = [reload EXCEPT ![q].pc = "policies",
                            ![q].roles = WithFallback([r \in AllRoles |-> Absent])]
    /\ UNCHANGED <<tables, copy, oldCopy>>

LoadPolicies(q) ==
    /\ reload[q].pc = "policies"
    /\ \/ /\ reload' = [reload EXCEPT ![q].pc = "store", ![q].v[2] = Version,
                                      ![q].policies = PolicyRows(Table)]
          /\ UNCHANGED rbacFaults
       \/ /\ RbacFault
          /\ reload' = [reload EXCEPT ![q].pc = "store"]
    /\ UNCHANGED <<tables, copy, oldCopy>>

\* Faulty variant: an empty list of policies does not replace the one in force.
StoreNonEmpty(q) ==
    /\ reload[q].pc = "store"
    /\ \E s \in Sorted(reload[q].policies) :
          copy' = [roles |-> reload[q].roles, v |-> reload[q].v,
                   policies |-> IF s = <<>> THEN copy.policies ELSE s]
    /\ oldCopy' = FALSE
    /\ reload' = [reload EXCEPT ![q] = NoReload]
    /\ UNCHANGED <<tables, rbacFaults>>

\* The later store wins.
Store(q) ==
    /\ reload[q].pc = "store"
    /\ \E s \in Sorted(reload[q].policies) :
          copy' = [roles |-> reload[q].roles, policies |-> s, v |-> reload[q].v]
    /\ oldCopy' = FALSE
    /\ reload' = [reload EXCEPT ![q] = NoReload]
    /\ UNCHANGED <<tables, rbacFaults>>

\* RefreshInterval passes.
CopyAges ==
    /\ ~ oldCopy
    /\ oldCopy' = TRUE
    /\ UNCHANGED <<tables, copy, reload, rbacFaults>>

-----------------------------------------------------------------------------

\* The rows the migration seeds; NewRBACEngine has loaded them.
RbacInit ==
    LET t == [roles |-> [r \in AllRoles |-> IF r = "admin" THEN AllPermissions ELSE Absent],
              policies |-> [n \in DOMAIN PolicyDefs |->
                                [prio |-> CHOOSE p \in Priorities : TRUE, enabled |-> TRUE]]]
    IN  /\ tables = <<t>>
        /\ \E s \in Sorted(PolicyRows(t)) : copy = [roles |-> t.roles, policies |-> s, v |-> <<1, 1>>]
        /\ oldCopy = TRUE
        /\ reload = [q \in Reloaders |-> NoReload]
        /\ rbacFaults = 0

RbacNext ==
    \/ \E q \in Reloaders :
          \/ \E r \in AllRoles, perms \in Permissions : PutRole(r, perms, q)
          \/ \E r \in AllRoles : DeleteRole(r, q)
          \/ \E n \in DOMAIN PolicyDefs :
                \/ \E prio \in Priorities : CreatePolicy(n, prio, q)
                \/ \E prio \in Priorities \cup {0}, on \in BOOLEAN : UpdatePolicy(n, prio, on, q)
                \/ DeletePolicy(n, q)
          \/ refreshIfStale(q) \/ LoadRoles(q) \/ LoadPolicies(q) \/ Store(q)
    \/ CopyAges

RbacSpec == RbacInit /\ [][RbacNext]_rbacVars

-----------------------------------------------------------------------------
(* Properties *)

RbacTypeOK ==
    /\ \A t \in Range(tables) :
          /\ t.roles \in [AllRoles -> Permissions \cup {Absent, AllPermissions}]
          /\ t.policies \in [DOMAIN PolicyDefs -> [prio : Priorities \cup {0}, enabled : BOOLEAN]]
    /\ Version \in 1..MaxEdits + 1
    /\ \A q \in Reloaders : reload[q].pc \in {"idle", "roles", "policies", "store"}
    /\ oldCopy \in BOOLEAN /\ rbacFaults \in 0..MaxRbacFaults

\* What the rows say of a request: of the policies that match, the first by priority
\* and then by name decides.
RowsAllow(rows, r) ==
    LET hits == {p \in rows : Matches(p.name, r)}
    IN  hits = {} \/ \E p \in hits :
            /\ PolicyDefs[p.name].effect = "allow"
            /\ \A o \in hits : p.prio < o.prio \/ (p.prio = o.prio /\ p.name <= o.name)

\* "Edits take effect within RefreshInterval, no redeploy": in the end the gateway
\* decides every request as the rows do and keeps doing so, though a slow reload can
\* put an older copy back and a failed one an empty copy, and whatever order the rows
\* come in ("two enabled policies with the same priority could evaluate in a different
\* order every refresh").
EditsTakeEffect ==
    <>[](\A r \in Requests :
            /\ HasPermission(copy.roles, r) <=> HasPermission(WithFallback(Table.roles), r)
            /\ EvaluateABAC(copy.policies, r) <=> RowsAllow(PolicyRows(Table), r))

\* "A Postgres outage can't lock operators out entirely": admin may do everything
\* whatever queries fail, as long as nobody edited the admin role.
AdminKeepsAccess ==
    (\A t \in Range(tables) : t.roles["admin"] = AllPermissions) =>
        \A r \in Requests : r.role = "admin" => HasPermission(copy.roles, r)

\* A copy whose queries succeeded and read one version decides every request as
\* that version of the rows does: roles and policies of different versions are in
\* force together only when an edit fell between the two queries.
CopyIsOneVersion ==
    copy.v[1] = copy.v[2] /\ copy.v[1] > 0 =>
        /\ copy.roles = WithFallback(tables[copy.v[1]].roles)
        /\ Range(copy.policies) = PolicyRows(tables[copy.v[1]])
        /\ \A r \in Requests :
              EvaluateABAC(copy.policies, r) <=> RowsAllow(PolicyRows(tables[copy.v[1]]), r)

\* The rows decide: edits come into force, those read together are in force together,
\* and an outage of the database takes nothing from an administrator.
RowsDecide == EditsTakeEffect /\ [](AdminKeepsAccess /\ CopyIsOneVersion)
=============================================================================
