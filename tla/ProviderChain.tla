---------------------------- MODULE ProviderChain ----------------------------
(***************************************************************************)
(* The chain of language-model providers behind chat and root-cause        *)
(* analysis: llm/router.go's FallbackProvider and shared/causal's          *)
(* FallbackAnalyzer, which are the same algorithm.  Concurrent requests    *)
(* try the providers in order, and a provider that failed is skipped for a *)
(* cooldown that doubles with every failure in a row.  A cooldown is kept  *)
(* as the ticks that remain of it.                                         *)
(***************************************************************************)
EXTENDS Naturals, FiniteSetsExt

CONSTANTS NumLinks,        \* the providers are 1..NumLinks, in order
          ChatNames,       \* requests served at a time
          BaseCooldown,    \* f.cooldown
          MaxShift,        \* maxCooldownShift
          MaxOutages,      \* bound on changes of a provider's state
          MaxCancels       \* bound on requests whose context ends

ASSUME ChainAssumption ==
    /\ NumLinks \in Nat \ {0} /\ BaseCooldown \in Nat /\ MaxShift \in Nat
    /\ MaxOutages \in Nat /\ MaxCancels \in Nat

VARIABLES
    linkUp,    \* [link -> the provider answers]
    cooling,   \* [link -> ticks until downUntil]
    linkFailures,  \* [link -> failures in a row, up to MaxShift + 2]
    chat,      \* [ChatNames -> candidates left, how far it is, who failed and who was skipped]
    outages, cancels

chainVars == <<linkUp, cooling, linkFailures, chat, outages, cancels>>

Links == 1..NumLinks
IdleChat == [at |-> "idle", todo |-> {}, failed |-> {}, skipped |-> {}]

\* f.cooldown << n
Shifted[n \in 0..MaxShift] == IF n = 0 THEN BaseCooldown ELSE 2 * Shifted[n - 1]

ChainTypeOK ==
    /\ linkUp \in [Links -> BOOLEAN]
    /\ cooling \in [Links -> 0..Shifted[MaxShift]]
    /\ linkFailures \in [Links -> 0..MaxShift + 2]
    /\ \A c \in ChatNames : /\ chat[c].at \in {"idle", "next", "ok", "failed", "cancelled", "error", "aborted"}
                            /\ chat[c].todo \subseteq Links
                            /\ chat[c].failed \subseteq Links /\ chat[c].skipped \subseteq Links
    /\ outages \in 0..MaxOutages /\ cancels \in 0..MaxCancels

ChainInit ==
    /\ linkUp = [l \in Links |-> TRUE] /\ cooling = [l \in Links |-> 0] /\ linkFailures = [l \in Links |-> 0]
    /\ chat = [c \in ChatNames |-> IdleChat] /\ outages = 0 /\ cancels = 0

-----------------------------------------------------------------------------
(* One request *)

\* The links that are not cooling down, or all of them if there is none.
candidates(cool) ==
    LET live == {l \in Links : cool[l] = 0}
    IN  IF live = {} THEN Links ELSE live

\* The candidates are tried in order; the one request c is at.
Dialed(c) == Min(chat[c].todo)

\* A request begins with the candidates of this moment.
Chat(c) ==
    /\ chat[c].at = "idle"
    /\ LET todo == candidates(cooling)
       IN  chat' = [chat EXCEPT ![c] = [at |-> IF todo = {} THEN "error" ELSE "next", todo |-> todo,
                                        failed |-> {}, skipped |-> Links \ todo]]
    /\ UNCHANGED <<linkUp, cooling, linkFailures, outages, cancels>>

\* The next provider answers, or fails.
CallProvider(c) ==
    /\ chat[c].at = "next"
    /\ chat' = [chat EXCEPT ![c].at = IF linkUp[Dialed(c)] THEN "ok" ELSE "failed"]
    /\ UNCHANGED <<linkUp, cooling, linkFailures, outages, cancels>>

\* The caller's context ends before the call, which stops the chain, or during it, which
\* the chain takes for a failure of the provider.
ContextEnds(c) ==
    /\ chat[c].at = "next" /\ cancels < MaxCancels /\ cancels' = cancels + 1
    /\ chat' = [chat EXCEPT ![c].at = "aborted"] \/ chat' = [chat EXCEPT ![c].at = "cancelled"]
    /\ UNCHANGED <<linkUp, cooling, linkFailures, outages>>

\* Faulty variant: the failures in a row are not forgotten.
recordSuccessKeeping(c) ==
    /\ chat[c].at = "ok"
    /\ cooling' = [cooling EXCEPT ![Dialed(c)] = 0]
    /\ chat' = [chat EXCEPT ![c] = IdleChat]
    /\ UNCHANGED <<linkUp, linkFailures, outages, cancels>>

recordSuccess(c) ==
    /\ chat[c].at = "ok"
    /\ linkFailures' = [linkFailures EXCEPT ![Dialed(c)] = 0]
    /\ cooling' = [cooling EXCEPT ![Dialed(c)] = 0]
    /\ chat' = [chat EXCEPT ![c] = IdleChat]
    /\ UNCHANGED <<linkUp, outages, cancels>>

\* The cooldown after the n-th failure in a row.
backoff(n) == Shifted[IF n - 1 > MaxShift THEN MaxShift ELSE n - 1]

\* A failure is recorded when the call is over, whatever other requests have found since.
recordFailure(c) ==
    /\ chat[c].at \in {"failed", "cancelled"}
    /\ LET l == Dialed(c)
           rest == chat[c].todo \ {l}
       IN  /\ linkFailures' = [linkFailures EXCEPT ![l] = IF @ < MaxShift + 2 THEN @ + 1 ELSE @]
           /\ cooling' = [cooling EXCEPT ![l] = backoff(linkFailures'[l])]
           /\ chat' = [chat EXCEPT ![c].todo = rest, ![c].failed = @ \cup {l},
                                   ![c].at = IF chat[c].at = "cancelled" THEN "aborted"
                                             ELSE IF rest = {} THEN "error" ELSE "next"]
    /\ UNCHANGED <<linkUp, outages, cancels>>

\* The caller has its error.
GiveUp(c) ==
    /\ chat[c].at \in {"error", "aborted"}
    /\ chat' = [chat EXCEPT ![c] = IdleChat]
    /\ UNCHANGED <<linkUp, cooling, linkFailures, outages, cancels>>

-----------------------------------------------------------------------------
(* Around it *)

CooldownTick ==
    /\ \E l \in Links : cooling[l] > 0
    /\ cooling' = [l \in Links |-> IF cooling[l] > 0 THEN cooling[l] - 1 ELSE 0]
    /\ UNCHANGED <<linkUp, linkFailures, chat, outages, cancels>>

ProviderFlips(l) ==
    /\ outages < MaxOutages /\ outages' = outages + 1
    /\ linkUp' = [linkUp EXCEPT ![l] = ~ @]
    /\ UNCHANGED <<cooling, linkFailures, chat, cancels>>

ChainNext ==
    \/ \E c \in ChatNames : \/ Chat(c) \/ CallProvider(c) \/ ContextEnds(c)
                            \/ recordSuccess(c) \/ recordFailure(c) \/ GiveUp(c)
    \/ CooldownTick
    \/ \E l \in Links : ProviderFlips(l)

ChainSpec == ChainInit /\ [][ChainNext]_chainVars

-----------------------------------------------------------------------------
(* Properties *)

\* A request ends with "all providers failed" only after it tried some provider, and
\* then every provider has failed it or was cooling down when it began: no one is
\* evicted, and no one overlooked (Chat, candidates).
ErrorsAreEarned ==
    \A c \in ChatNames : chat[c].at = "error" =>
        /\ chat[c].failed # {}
        /\ chat[c].failed \cup chat[c].skipped = Links

\* When the first provider works again for good, the chain returns to it: its failures
\* are forgotten, in spite of late failures recorded by older requests.
FirstComesBack == <>[](linkUp[1]) => <>[](linkFailures[1] = 0 /\ cooling[1] = 0)

\* No provider is given up: a request fails only when all of them have, and the first
\* is returned to when it is back.
ProvidersAreUsed == []ErrorsAreEarned /\ FirstComesBack
=============================================================================
