----------------------------- MODULE RateLimiter -----------------------------
(***************************************************************************)
(* The rate limiter in front of every gateway: a fixed-window counter in   *)
(* Redis that all gateways share (ratelimit.go), under rules that an       *)
(* administrator edits in Postgres and every gateway polls                 *)
(* (ratelimit_handler.go).  The requests of one tenant for one path.  A    *)
(* window is a bucket number; window_seconds is the same for all rules.    *)
(***************************************************************************)
EXTENDS Naturals, FiniteSets

CONSTANTS LimGateways,   \* the gateways
          InFlight,      \* requests being served at a time
          LimitRules,    \* contents a rule may have: name, priority, limit, matches, enabled
          FallbackLimit, \* ruleFor's limit when no rule matches
          Premium,       \* the tenant's tier is premium
          MaxLimRequests, MaxBuckets, MaxLimEdits, MaxLimFaults  \* bounds

ASSUME LimRuleType ==
    LimitRules \subseteq [name : STRING, priority : Nat, limit : Nat \ {0},
                          matches : BOOLEAN, enabled : BOOLEAN]

ASSUME LimBounds ==
    /\ IsFiniteSet(InFlight) /\ FallbackLimit \in Nat /\ Premium \in BOOLEAN
    /\ {MaxLimRequests, MaxBuckets, MaxLimEdits, MaxLimFaults} \subseteq Nat

\* Rules are ordered by priority and name; those of the model differ in priority.
ASSUME LimRulesOrdered ==
    \A r, s \in LimitRules : r.priority = s.priority => r.name = s.name

VARIABLES
    limTable,    \* rate_limit_rules
    limCopy,     \* [LimGateways -> the limiter's rules]
    refresher,   \* [LimGateways \X {"poll", "admin"} -> a refresh to come, or its rows not yet set]
    bucketNow,   \* windowBucket(now)
    counter,     \* Redis: [class, bucket -> count]
    limReq,      \* [InFlight -> rule and bucket picked, or nothing]
    granted,     \* [class, bucket -> requests let through by the counter]
    topLimit,    \* [class, bucket -> the highest limit that was applied]
    limRequests, limEdits, limFaults

limVars == <<limTable, limCopy, refresher, bucketNow, counter, limReq, granted, topLimit,
             limRequests, limEdits, limFaults>>

Fallback == [name |-> "default-fallback", priority |-> 0, limit |-> FallbackLimit,
             matches |-> TRUE, enabled |-> TRUE]
Classes == {r.name : r \in LimitRules} \cup {Fallback.name}
Keys == Classes \X (0..MaxBuckets)
NoReq == [class |-> "", bucket |-> 0, limit |-> 0]
Refreshes == LimGateways \X {"poll", "admin"}

LimTypeOK ==
    /\ limTable \subseteq LimitRules /\ \A r, s \in limTable : r.name = s.name => r = s
    /\ \A g \in LimGateways : limCopy[g] \subseteq {r \in LimitRules : r.enabled}
    /\ \A q \in Refreshes : refresher[q].stage \in {"idle", "due", "loaded"} /\ refresher[q].rows \subseteq LimitRules
    /\ bucketNow \in 0..MaxBuckets
    /\ counter \in [Keys -> 0..MaxLimRequests] /\ granted \in [Keys -> 0..MaxLimRequests]
    /\ DOMAIN topLimit = Keys /\ DOMAIN limReq = InFlight
    /\ limRequests \in 0..MaxLimRequests /\ limEdits \in 0..MaxLimEdits /\ limFaults \in 0..MaxLimFaults

Loaded(rows) == {r \in rows : r.enabled}
IdleRefresh == [stage |-> "idle", rows |-> {}]

LimInit ==
    /\ \E r \in LimitRules : r.enabled /\ limTable = {r}
    /\ limCopy = [g \in LimGateways |-> Loaded(limTable)]
    /\ refresher = [q \in Refreshes |-> IdleRefresh]
    /\ bucketNow = 0 /\ counter = [k \in Keys |-> 0]
    /\ limReq = [q \in InFlight |-> NoReq]
    /\ granted = [k \in Keys |-> 0] /\ topLimit = [k \in Keys |-> 0]
    /\ limRequests = 0 /\ limEdits = 0 /\ limFaults = 0

-----------------------------------------------------------------------------
(* A request *)

\* The first matching rule in the order of loadRules.
ruleFor(rules) ==
    LET fit == {r \in rules : r.matches}
    IN  IF fit = {} THEN {Fallback}
        ELSE {r \in fit : \A s \in fit : r.priority <= s.priority}

\* The rule, the premium tier's budget and the window are fixed before Redis is asked.
PickRule(q, g) ==
    /\ limReq[q] = NoReq /\ limRequests < MaxLimRequests
    /\ \E r \in ruleFor(limCopy[g]) :
          limReq' = [limReq EXCEPT ![q] = [class |-> r.name, bucket |-> bucketNow,
                                           limit |-> IF Premium THEN r.limit * 5 ELSE r.limit]]
    /\ limRequests' = limRequests + 1
    /\ UNCHANGED <<limTable, limCopy, refresher, bucketNow, counter, granted, topLimit, limEdits, limFaults>>

Count(q, through) ==
    LET k == <<limReq[q].class, limReq[q].bucket>>
    IN  /\ counter' = [counter EXCEPT ![k] = @ + 1]
        /\ granted' = IF through THEN [granted EXCEPT ![k] = @ + 1] ELSE granted
        /\ topLimit' = [topLimit EXCEPT ![k] = IF limReq[q].limit > @ THEN limReq[q].limit ELSE @]
        /\ limReq' = [limReq EXCEPT ![q] = NoReq]
        /\ UNCHANGED <<limTable, limCopy, refresher, bucketNow, limRequests, limEdits, limFaults>>

\* Faulty variant: the count before the increment is compared.
RateLimitBefore(q) ==
    /\ limReq[q] # NoReq
    /\ Count(q, counter[<<limReq[q].class, limReq[q].bucket>>] <= limReq[q].limit)

\* INCR is atomic and answers with the count after it.
RateLimit(q) ==
    /\ limReq[q] # NoReq
    /\ Count(q, counter[<<limReq[q].class, limReq[q].bucket>>] + 1 <= limReq[q].limit)

\* Redis does not answer: the request goes through uncounted.
FailOpen(q) ==
    /\ limReq[q] # NoReq /\ limFaults < MaxLimFaults /\ limFaults' = limFaults + 1
    /\ limReq' = [limReq EXCEPT ![q] = NoReq]
    /\ UNCHANGED <<limTable, limCopy, refresher, bucketNow, counter, granted, topLimit,
                   limRequests, limEdits>>

-----------------------------------------------------------------------------
(* The rules *)

Written(rows, g) ==
    /\ limEdits < MaxLimEdits /\ limEdits' = limEdits + 1
    /\ refresher[<<g, "admin">>].stage = "idle"
    /\ limTable' = rows
    /\ refresher' = [refresher EXCEPT ![<<g, "admin">>].stage = "due"]
    /\ UNCHANGED <<limCopy, bucketNow, counter, limReq, granted, topLimit, limRequests, limFaults>>

\* A name that exists is refused as a duplicate.  A new rule is enabled.
CreateRateLimitRule(g, r) ==
    /\ r.enabled /\ \A s \in limTable : s.name # r.name
    /\ Written(limTable \cup {r}, g)

UpdateRateLimitRule(g, r) ==
    \E s \in limTable : /\ s.name = r.name /\ s # r
                        /\ Written((limTable \ {s}) \cup {r}, g)

DeleteRateLimitRule(g, r) == r \in limTable /\ Written(limTable \ {r}, g)

\* A refresh loads the rows: on every tick of the poll, and after a write on the gateway
\* that served it ...
loadRules(q) ==
    /\ refresher[q].stage = IF q[2] = "poll" THEN "idle" ELSE "due"
    /\ refresher' = [refresher EXCEPT ![q] = [stage |-> "loaded", rows |-> Loaded(limTable)]]
    /\ UNCHANGED <<limTable, limCopy, bucketNow, counter, limReq, granted, topLimit,
                   limRequests, limEdits, limFaults>>

\* ... and sets them; the other refresh of the gateway may have done so in between.
SetRules(q) ==
    /\ refresher[q].stage = "loaded"
    /\ limCopy' = [limCopy EXCEPT ![q[1]] = refresher[q].rows]
    /\ refresher' = [refresher EXCEPT ![q] = IdleRefresh]
    /\ UNCHANGED <<limTable, bucketNow, counter, limReq, granted, topLimit,
                   limRequests, limEdits, limFaults>>

\* A query that fails keeps the previous rules; a failed poll is no step at all.
LoadFails(q) ==
    /\ refresher[q].stage = "due" /\ limFaults < MaxLimFaults /\ limFaults' = limFaults + 1
    /\ refresher' = [refresher EXCEPT ![q] = IdleRefresh]
    /\ UNCHANGED <<limTable, limCopy, bucketNow, counter, limReq, granted, topLimit, limRequests, limEdits>>

NextBucket ==
    /\ bucketNow < MaxBuckets /\ bucketNow' = bucketNow + 1
    /\ UNCHANGED <<limTable, limCopy, refresher, counter, limReq, granted, topLimit,
                   limRequests, limEdits, limFaults>>

LimNext ==
    \/ \E q \in InFlight : RateLimit(q) \/ FailOpen(q) \/ \E g \in LimGateways : PickRule(q, g)
    \/ \E g \in LimGateways, r \in LimitRules :
          CreateRateLimitRule(g, r) \/ UpdateRateLimitRule(g, r) \/ DeleteRateLimitRule(g, r)
    \/ \E q \in Refreshes : loadRules(q) \/ SetRules(q) \/ LoadFails(q)
    \/ NextBucket

LimSpec == LimInit /\ [][LimNext]_limVars

-----------------------------------------------------------------------------
(* Properties *)

\* Requests at different gateways, under rules of different age, pass the shared counter
\* of a rule and a window at most as often as the highest limit any of them applied
\* ("can't exceed the shared budget", ratelimit.go:93).
BudgetHolds == \A k \in Keys : granted[k] <= topLimit[k]

=============================================================================
