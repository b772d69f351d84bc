------------------------------ MODULE Sessions ------------------------------
(***************************************************************************)
(* Session revocation in gateway-service (auth/sessions.go): the table of  *)
(* sessions, and each gateway's cache of revoked ids that AuthMiddleware   *)
(* consults.  A gateway that revokes adds to its own cache; the others     *)
(* find out when their cache is stale and a request refreshes it.  Two     *)
(* requests may refresh one cache at a time, and the later to store wins   *)
(* whatever it read.                                                       *)
(***************************************************************************)
EXTENDS Naturals, FiniteSets

CONSTANTS
    SessGateways,   \* replicas of gateway-service
    Sids,           \* session ids of one user
    Refreshers,     \* requests that may refresh one cache at the same time
    MaxSessFaults   \* bound: failed refreshes, failed inserts and restarts

ASSUME SessConstants ==
    IsFiniteSet(SessGateways) /\ IsFiniteSet(Sids) /\ IsFiniteSet(Refreshers) /\ MaxSessFaults \in Nat

VARIABLES
    session,     \* the user_sessions table, and the sessions it misses
    revokedIds,  \* each gateway: its cache of revoked ids
    stale,       \* gateways whose last refresh is longer ago than sessionCacheTTL
    fetched,     \* each gateway and refresher: what its query returned, not yet stored
    marking,     \* each gateway: ids revoked in the table, not yet in its own cache
    sessFaults

sessVars == <<session, revokedIds, stale, fetched, marking, sessFaults>>

\* unlisted: the insert failed and the login succeeded all the same.
SessionStates == {"none", "live", "unlisted", "revoked"}
RevokedRows == {s \in Sids : session[s] = "revoked"}
Idle == [on |-> FALSE, ids |-> {}]

\* AuthMiddleware on a token of session s, whose signature holds.
Refuses(g, s) == s \in revokedIds[g]

-----------------------------------------------------------------------------
(* Sessions begin and are revoked *)

createSession(s) ==
    /\ session[s] = "none"
    /\ session' = [session EXCEPT ![s] = "live"]
    /\ UNCHANGED <<revokedIds, stale, fetched, marking, sessFaults>>

SessFault == sessFaults < MaxSessFaults /\ sessFaults' = sessFaults + 1

createSessionFails(s) ==
    /\ session[s] = "none" /\ SessFault
    /\ session' = [session EXCEPT ![s] = "unlisted"]
    /\ UNCHANGED <<revokedIds, stale, fetched, marking>>

\* The UPDATE ... WHERE revoked_at IS NULL, on the sessions it is about.
RevokeRows(g, which) ==
    LET ids == {s \in which : session[s] = "live"} IN
    /\ ids # {}
    /\ session' = [s \in Sids |-> IF s \in ids THEN "revoked" ELSE session[s]]
    /\ marking' = [marking EXCEPT ![g] = @ \cup ids]
    /\ UNCHANGED <<revokedIds, stale, fetched, sessFaults>>

RevokeOne(g, s) == RevokeRows(g, {s})
RevokeAllForUser(g) == RevokeRows(g, Sids)

\* Sign out every device except the one that asks.
RevokeOthers(g, s) == session[s] = "live" /\ RevokeRows(g, Sids \ {s})

markRevokedLocal(g) ==
    /\ marking[g] # {}
    /\ revokedIds' = [revokedIds EXCEPT ![g] = @ \cup marking[g]]
    /\ marking' = [marking EXCEPT ![g] = {}]
    /\ UNCHANGED <<session, stale, fetched, sessFaults>>

-----------------------------------------------------------------------------
(* refreshIfStale, on a request *)

\* Faulty variant: a cache that holds something is taken for fresh.
RefreshQueryEmpty(g, q) ==
    /\ g \in stale /\ revokedIds[g] = {} /\ ~ fetched[g][q].on
    /\ fetched' = [fetched EXCEPT ![g][q] = [on |-> TRUE, ids |-> RevokedRows]]
    /\ UNCHANGED <<session, revokedIds, stale, marking, sessFaults>>

RefreshQuery(g, q) ==
    /\ g \in stale /\ ~ fetched[g][q].on
    /\ fetched' = [fetched EXCEPT ![g][q] = [on |-> TRUE, ids |-> RevokedRows]]
    /\ UNCHANGED <<session, revokedIds, stale, marking, sessFaults>>

\* The answer replaces the cache, ids marked since the query included.
RefreshStore(g, q) ==
    /\ fetched[g][q].on
    /\ revokedIds' = [revokedIds EXCEPT ![g] = fetched[g][q].ids]
    /\ stale' = stale \ {g}
    /\ fetched' = [fetched EXCEPT ![g][q] = Idle]
    /\ UNCHANGED <<session, marking, sessFaults>>

\* The query fails: the cache stays as it is, and stale.
RefreshFails(g, q) ==
    /\ fetched[g][q].on /\ SessFault
    /\ fetched' = [fetched EXCEPT ![g][q] = Idle]
    /\ UNCHANGED <<session, revokedIds, stale, marking>>

-----------------------------------------------------------------------------

\* sessionCacheTTL passes since the last refresh of g.
CacheAges(g) ==
    /\ g \notin stale
    /\ stale' = stale \cup {g}
    /\ UNCHANGED <<session, revokedIds, fetched, marking, sessFaults>>

\* A gateway restarts with an empty cache that has never been refreshed.
SessRestart(g) ==
    /\ SessFault
    /\ revokedIds' = [revokedIds EXCEPT ![g] = {}]
    /\ stale' = stale \cup {g}
    /\ fetched' = [fetched EXCEPT ![g] = [q \in Refreshers |-> Idle]]
    /\ marking' = [marking EXCEPT ![g] = {}]
    /\ UNCHANGED session

SessInit ==
    /\ session = [s \in Sids |-> "none"]
    /\ revokedIds = [g \in SessGateways |-> {}]
    /\ stale = SessGateways
    /\ fetched = [g \in SessGateways |-> [q \in Refreshers |-> Idle]]
    /\ marking = [g \in SessGateways |-> {}]
    /\ sessFaults = 0

SessNext ==
    \/ \E s \in Sids : createSession(s) \/ createSessionFails(s)
    \/ \E g \in SessGateways :
          \/ \E s \in Sids : RevokeOne(g, s) \/ RevokeOthers(g, s)
          \/ RevokeAllForUser(g)
          \/ markRevokedLocal(g)
          \/ \E q \in Refreshers : RefreshQuery(g, q) \/ RefreshStore(g, q) \/ RefreshFails(g, q)
          \/ CacheAges(g)
          \/ SessRestart(g)

SessSpec == SessInit /\ [][SessNext]_sessVars

-----------------------------------------------------------------------------
(* Properties *)

SessTypeOK ==
    /\ session \in [Sids -> SessionStates]
    /\ revokedIds \in [SessGateways -> SUBSET Sids]
    /\ stale \subseteq SessGateways
    /\ fetched \in [SessGateways -> [Refreshers -> [on : BOOLEAN, ids : SUBSET Sids]]]
    /\ marking \in [SessGateways -> SUBSET Sids]
    /\ sessFaults \in 0..MaxSessFaults

\* The revoked sessions, and no others, end up refused by every gateway and stay so,
\* though a slow refresh can wipe an id another request has just marked, and restarts
\* and failed queries lose what was known ("sign out every device except the one making
\* the request" leaves that one in).
RevokedRefusedEverywhere ==
    <>[](\A g \in SessGateways, s \in Sids : Refuses(g, s) <=> s \in RevokedRows)
=============================================================================
