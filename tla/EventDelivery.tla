--------------------------- MODULE EventDelivery ---------------------------
(***************************************************************************)
(* What the outbox, the relay and the stream together promise a consumer   *)
(* group: delivery at least once.  From the moment a group exists, every   *)
(* entry added is held for it, and is let go only after it was settled for *)
(* that group: finished by its handler, or recorded as set aside.  Only    *)
(* what a transaction has emitted is added, only what was added is marked  *)
(* as published, and a group settles nothing that was not held for it.     *)
(***************************************************************************)
EXTENDS Naturals, Sequences

CONSTANTS Events, Groups

VARIABLES
    emitted,     \* the events of the transactions that have committed
    entries,     \* what was added, in order; an event may be added again
    published,   \* the events nobody will add again
    subscribed,  \* the groups that exist
    held,        \* per group: the entries it has been given or will be
    settled      \* per group: the events it is done with

vars == <<emitted, entries, published, subscribed, held, settled>>

Init ==
    /\ emitted = {} /\ entries = <<>> /\ published = {}
    /\ subscribed \subseteq Groups
    /\ held = [g \in Groups |-> {}] /\ settled = [g \in Groups |-> {}]

Emit(e) ==
    /\ e \notin emitted
    /\ emitted' = emitted \cup {e}
    /\ UNCHANGED <<entries, published, subscribed, held, settled>>

Add(e) ==
    /\ e \in emitted
    /\ entries' = Append(entries, e)
    /\ held' = [g \in Groups |->
                    IF g \in subscribed THEN held[g] \cup {Len(entries) + 1} ELSE held[g]]
    /\ UNCHANGED <<emitted, published, subscribed, settled>>

Publish(S) ==
    /\ \A e \in S : \E i \in 1..Len(entries) : entries[i] = e
    /\ published' = published \cup S
    /\ UNCHANGED <<emitted, entries, subscribed, held, settled>>

Subscribe(g) ==
    /\ subscribed' = subscribed \cup {g}
    /\ UNCHANGED <<emitted, entries, published, held, settled>>

Settle(g, i) ==
    /\ i \in held[g]
    /\ settled' = [settled EXCEPT ![g] = @ \cup {entries[i]}]
    /\ UNCHANGED <<emitted, entries, published, subscribed, held>>

LetGo(g, i) ==
    /\ i \in held[g] /\ entries[i] \in settled[g]
    /\ held' = [held EXCEPT ![g] = @ \ {i}]
    /\ UNCHANGED <<emitted, entries, published, subscribed, settled>>

Next ==
    \/ \E e \in Events : Emit(e) \/ Add(e)
    \/ \E S \in SUBSET Events : Publish(S)
    \/ \E g \in Groups :
        \/ Subscribe(g)
        \/ \E i \in 1..Len(entries) : Settle(g, i) \/ LetGo(g, i)

Spec == Init /\ [][Next]_vars
=============================================================================
