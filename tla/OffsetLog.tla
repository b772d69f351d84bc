----------------------------- MODULE OffsetLog -----------------------------
(***************************************************************************)
(* What a topic's log promises its readers, without segments and files: a  *)
(* record is added once, at the next offset; while the log is up, records  *)
(* leave only from the front; a stop and the recovery after it may lose    *)
(* records but neither move, alter nor repeat one, and the log goes on     *)
(* behind what is left.                                                    *)
(***************************************************************************)
EXTENDS Naturals

CONSTANT Identities   \* the records' identities

VARIABLES
    entries,   \* the records that can be read, with their offsets
    next,      \* the offset of the next record
    used,      \* the records ever added
    up

offsetVars == <<entries, next, used, up>>

OffsetInit == entries = {} /\ next = 0 /\ used = {} /\ up = TRUE

Fits(n, es) == \A e \in es : e.off < n

\* A record is added behind all others.
Add(r) ==
    /\ up /\ up'
    /\ r \notin used /\ used' = used \cup {r}
    /\ entries' = entries \cup {[id |-> r, off |-> next]}
    /\ next' = next + 1

\* The records below an offset are given up.
Trim ==
    /\ up /\ up'
    /\ \E n \in 0..next : entries' = {e \in entries : e.off >= n}
    /\ UNCHANGED <<next, used>>

\* The log stops, perhaps while it adds a record, and records may be lost.
Stop ==
    /\ ~ up'
    /\ \/ entries' \subseteq entries /\ used' = used
       \/ \E r \in Identities \ used : /\ entries' \subseteq entries \cup {[id |-> r, off |-> next]}
                                /\ used' = used \cup {r}
    /\ next' \in Nat /\ Fits(next', entries')

\* It comes back with records that were there, and goes on behind them.
Resume ==
    /\ ~ up /\ up'
    /\ entries' \subseteq entries /\ used' = used
    /\ next' \in Nat /\ Fits(next', entries')

OffsetNext == Trim \/ Stop \/ Resume \/ \E r \in Identities : Add(r)

OffsetSpec == OffsetInit /\ [][OffsetNext]_offsetVars
=============================================================================
