---------------------------- MODULE AlertListing ----------------------------
(***************************************************************************)
(* The alert listing of alert-service: stored alerts, silences with a time *)
(* window, and a listing that reads the active silences, marks or hides    *)
(* what they match and collapses the rest into groups (alert_handler.go,   *)
(* silence_handler.go, grouping.go).  One tenant.  A message is its        *)
(* fingerprint: fingerprintMessage's rewriting of the text is left out.    *)
(***************************************************************************)
EXTENDS Naturals, Sequences, SequencesExt, FiniteSets

CONSTANTS AlertKinds,     \* service, level and message shape of an alert
          Matchers,       \* the sets of alert kinds a silence may select
          MaxAlerts, MaxListTime, MaxSilences, MaxListFaults  \* bounds

ASSUME ListConstants ==
    MaxListTime \in Nat \ {0} /\ {MaxAlerts, MaxSilences, MaxListFaults} \subseteq Nat

VARIABLES
    listClock,
    stored,      \* alerts as the query returns them, the latest first
    silences,    \* alert_silences: matcher and window
    lister,      \* a listing: what it has read so far
    page,        \* the last answer: alerts that are not hidden
    created, listFaults

listVars == <<listClock, stored, silences, lister, page, created, listFaults>>

ListTimes == 1..MaxListTime
AlertRows == [id : 1..MaxAlerts, kind : AlertKinds, at : ListTimes]
Silences == [matcher : Matchers, starts : ListTimes, ends : 2..MaxListTime]
IdleLister == [at |-> "idle", alerts |-> <<>>, active |-> {}]

Latest(s) == \A i \in 1..Len(s) - 1 : s[i].at >= s[i + 1].at

ListTypeOK ==
    /\ listClock \in ListTimes
    /\ stored \in Seq(AlertRows) /\ Len(stored) <= MaxAlerts /\ Latest(stored)
    /\ silences \subseteq Silences /\ \A s \in silences : s.starts < s.ends
    /\ lister.at \in {"idle", "read", "matched"} /\ lister.alerts \in Seq(AlertRows) /\ lister.active \subseteq Silences
    /\ page \in Seq(AlertRows)
    /\ created \in 0..MaxSilences /\ listFaults \in 0..MaxListFaults

ListInit ==
    /\ listClock = 1 /\ stored = <<>> /\ silences = {} /\ lister = IdleLister
    /\ page = <<>> /\ created = 0 /\ listFaults = 0

-----------------------------------------------------------------------------
(* Grouping *)

GroupKey(a) == a.kind

NewGroup(a) == [key |-> GroupKey(a), count |-> 1, sample |-> a.id, first |-> a.at, last |-> a.at]

\* Faulty variant: on a tie the sample changes.
JoinGroupLoosely(g, a) ==
    [g EXCEPT !.count = @ + 1,
              !.first = IF a.at < @ THEN a.at ELSE @,
              !.last = IF a.at >= @ THEN a.at ELSE @,
              !.sample = IF a.at >= g.last THEN a.id ELSE @]

\* On a tie the sample stays the one that came first.
JoinGroup(g, a) ==
    [g EXCEPT !.count = @ + 1,
              !.first = IF a.at < @ THEN a.at ELSE @,
              !.last = IF a.at > @ THEN a.at ELSE @,
              !.sample = IF a.at > g.last THEN a.id ELSE @]

Collect(groups, a) ==
    IF \E i \in 1..Len(groups) : groups[i].key = GroupKey(a)
    THEN [i \in 1..Len(groups) |-> IF groups[i].key = GroupKey(a) THEN JoinGroup(groups[i], a) ELSE groups[i]]
    ELSE Append(groups, NewGroup(a))

\* Most recent first, then the larger.
ComesBefore(g, h) == g.last > h.last \/ (g.last = h.last /\ g.count > h.count)

\* sort.SliceStable: behind everything that does not come after it.
InsertGroup(sorted, g) ==
    LET n == Cardinality({i \in 1..Len(sorted) : ~ ComesBefore(g, sorted[i])})
    IN  SubSeq(sorted, 1, n) \o <<g>> \o SubSeq(sorted, n + 1, Len(sorted))

GroupAlerts(alerts) == FoldLeft(InsertGroup, <<>>, FoldLeft(Collect, <<>>, alerts))

-----------------------------------------------------------------------------
(* Silences *)

silenceMatches(s, a, now) == s.starts <= now /\ now < s.ends /\ a.kind \in s.matcher

\* starts_at is the client's, or now.
CreateSilence(s) ==
    /\ created < MaxSilences /\ created' = created + 1
    /\ s.ends > s.starts /\ silences' = silences \cup {s}
    /\ UNCHANGED <<listClock, stored, lister, page, listFaults>>

DeleteSilence(s) ==
    /\ s \in silences /\ silences' = silences \ {s}
    /\ UNCHANGED <<listClock, stored, lister, page, created, listFaults>>

-----------------------------------------------------------------------------
(* A listing: the query, the active silences, the annotation *)

\* repo.Query.
ListAlerts ==
    /\ lister.at = "idle"
    /\ lister' = [at |-> "read", alerts |-> stored, active |-> {}]
    /\ UNCHANGED <<listClock, stored, silences, page, created, listFaults>>

\* The silences active at the first reading of the clock; a failed query shows everything.
ActiveForTenant ==
    /\ lister.at = "read"
    /\ \/ /\ lister' = [lister EXCEPT !.at = "matched",
                                      !.active = {s \in silences : s.starts <= listClock /\ s.ends > listClock}]
          /\ UNCHANGED listFaults
       \/ /\ listFaults < MaxListFaults /\ listFaults' = listFaults + 1
          /\ lister' = [lister EXCEPT !.at = "matched"]
    /\ UNCHANGED <<listClock, stored, silences, page, created>>

\* With include_silenced=false: what a silence matches at the second reading is dropped.
\* The loop, after the first n alerts.
Kept[n \in 0..Len(lister.alerts)] ==
    IF n = 0 THEN <<>>
    ELSE LET a == lister.alerts[n]
         IN  IF \E s \in lister.active : silenceMatches(s, a, listClock) THEN Kept[n - 1]
             ELSE Append(Kept[n - 1], a)

annotateSilenced ==
    /\ lister.at = "matched"
    /\ page' = Kept[Len(lister.alerts)]
    /\ lister' = IdleLister
    /\ UNCHANGED <<listClock, stored, silences, created, listFaults>>

-----------------------------------------------------------------------------
(* Around it *)

\* An alert is stored; its time may be in the past, and ties come in any order.
StoreAlert(kind, at) ==
    /\ Len(stored) < MaxAlerts /\ at <= listClock
    /\ \E i \in 0..Len(stored) :
          LET s == SubSeq(stored, 1, i) \o <<[id |-> Len(stored) + 1, kind |-> kind, at |-> at]>>
                   \o SubSeq(stored, i + 1, Len(stored))
          IN  Latest(s) /\ stored' = s
    /\ UNCHANGED <<listClock, silences, lister, page, created, listFaults>>

ListTick ==
    /\ listClock < MaxListTime /\ listClock' = listClock + 1
    /\ UNCHANGED <<stored, silences, lister, page, created, listFaults>>

ListNext ==
    \/ \E s \in Silences : CreateSilence(s) \/ DeleteSilence(s)
    \/ ListAlerts \/ ActiveForTenant \/ annotateSilenced \/ ListTick
    \/ \E kind \in AlertKinds, at \in ListTimes : StoreAlert(kind, at)

ListSpec == ListInit /\ [][ListNext]_listVars

-----------------------------------------------------------------------------
(* Properties *)

Members(alerts, k) == {i \in 1..Len(alerts) : GroupKey(alerts[i]) = k}

\* GroupAlerts is what its comment says: a group for each key, with the number of its
\* members, the span they bracket and the first of its latest members as the sample.
GroupsAreComplete(groups) ==
    /\ {groups[i].key : i \in 1..Len(groups)} = {GroupKey(page[i]) : i \in 1..Len(page)}
    /\ \A i \in 1..Len(groups) :
          LET g == groups[i]
              m == Members(page, g.key)
          IN  /\ g.count = Cardinality(m)
              /\ g.first \in {page[j].at : j \in m} /\ \A j \in m : g.first <= page[j].at
              /\ g.last \in {page[j].at : j \in m} /\ \A j \in m : g.last >= page[j].at
              /\ \E j \in m : /\ g.sample = page[j].id /\ page[j].at = g.last
                              /\ \A n \in m : n < j => page[n].at < g.last

\* Its groups come in the order of recency, then size, then first appearance, no two of
\* one key.
GroupsAreInOrder(groups) ==
    LET Firsts(k) == CHOOSE i \in Members(page, k) : \A j \in Members(page, k) : i <= j
    IN  \A i, j \in 1..Len(groups) : i < j =>
            /\ groups[i].key # groups[j].key
            /\ ~ ComesBefore(groups[j], groups[i])
            /\ ~ ComesBefore(groups[i], groups[j]) => Firsts(groups[i].key) < Firsts(groups[j].key)

\* Kinds of alerts that no open or coming silence selects are shown by a later listing:
\* a silence that is over or was deleted hides nothing any more.
AlertsComeBack ==
    \A k \in AlertKinds :
        LET Silenced == \E s \in silences : listClock < s.ends /\ k \in s.matcher
        IN  Members(stored, k) # {} /\ ~ Silenced ~> Members(page, k) # {} \/ Silenced

\* The page shows the alerts grouped as defined, and none is silenced for good.
PageIsRight ==
    /\ [](GroupsAreComplete(GroupAlerts(page)) /\ GroupsAreInOrder(GroupAlerts(page)))
    /\ AlertsComeBack
=============================================================================
