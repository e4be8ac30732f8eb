---------------------------- MODULE EventStream ----------------------------
(***************************************************************************)
(* The path of a domain event from the transaction that caused it to every *)
(* consumer group of the worker: the outbox table, the relay that moves    *)
(* its rows onto one Redis stream and trims that stream, and the consumers *)
(* that read it, retry what fails, set aside what keeps failing and        *)
(* acknowledge the rest (backend/internal/events).                         *)
(*                                                                         *)
(* Every worker process runs one relay and one consumer per group, so      *)
(* several replicas work on the same rows and the same stream.  A call to  *)
(* Redis or Postgres is one step; everything between two calls can be      *)
(* interleaved with any other process, and a process can die there.        *)
(*                                                                         *)
(* An event is a number: the rank of its created_at, which the database    *)
(* takes when the transaction starts, so events need not appear in the     *)
(* outbox in that order.  A stream id is the entry's position in all that  *)
(* was ever added.                                                         *)
(***************************************************************************)
EXTENDS Naturals, Sequences, FiniteSets

CONSTANTS
    Events,         \* created_at ranks of the events that may be emitted
    Workers,        \* replicas of the worker process
    Groups,         \* events.Groups: the groups the relay waits for
    Running,        \* the groups whose consumer the worker starts
    Made,           \* the groups the stream already has when we start looking
    MaxLen,         \* StreamMaxLen, the cap on the backlog
    Batch,          \* how many rows one pass of the relay claims at most
    ReadSize,       \* batchSize, how many entries one read returns at most
    MaxDeliveries,  \* attempts an event gets before it is set aside
    MaxEntries,     \* bound of the model: entries ever added to the stream
    MaxFaults       \* bound of the model: crashes, shutdowns, failed calls

ASSUME EventsAssumption == Events \subseteq Nat
ASSUME BoundsAssumption ==
    /\ MaxLen \in Nat \ {0}
    /\ Batch \in Nat \ {0}
    /\ ReadSize \in Nat \ {0}
    /\ MaxDeliveries \in Nat \ {0}
    /\ MaxEntries \in Nat
    /\ MaxFaults \in Nat
ASSUME WorkersAssumption == IsFiniteSet(Workers) /\ Workers # {}

AllGroups == Groups \cup Running \cup Made
Ids == 1..MaxEntries

VARIABLES
    outbox,    \* per event: "none", "waiting" (published_at IS NULL), "published"
    log,       \* the event of every entry ever added; an id is a position
    first,     \* the lowest id the stream still keeps
    made,      \* the groups that exist on the stream
    start,     \* per group: the id it was made at (history)
    last,      \* per group: last-delivered-id
    tries,     \* per group and id: deliveries of a pending entry, 0 if not pending
    mode,      \* per worker: "up", "stopping" or "down"
    joined,    \* per worker: the groups whose consumer is past its XGROUP CREATE
    rpc,       \* per worker: where its relay is
    floor,     \* per worker: the trim point its relay has computed so far
    todo,      \* per worker: the groups whose pending entries it has yet to read
    limit,     \* per worker: how many rows this pass may claim
    rows,      \* per worker: the rows its pass has claimed and not yet tried
    tried,     \* per worker: the rows whose XADD was tried, still locked
    sent,      \* per worker: the rows whose XADD succeeded
    hand,      \* per worker and group: ids of the batch not begun yet
    cur,       \* per worker and group: the id in hand, 0 for none
    stage,     \* per worker and group: how far the entry in hand is
    handled,   \* per group: the events a handler has finished
    recorded,  \* per group: the events the audit log names as set aside
    faults     \* how many faults may still happen

streamVars == <<log, first>>
groupVars == <<made, start, last, tries>>
relayVars == <<rpc, floor, todo, limit, rows, tried, sent>>
handVars == <<hand, cur, stage>>
outcomeVars == <<handled, recorded>>
vars == <<outbox, streamVars, groupVars, mode, joined, relayVars, handVars,
          outcomeVars, faults>>

RelayPoints == {"info", "blind", "pend", "len", "claim", "publish"}
Stages == {"idle", "failed", "permanent", "aside", "settled"}

OutboxType ==
    /\ outbox \in [Events -> {"none", "waiting", "published"}]
    /\ log \in Seq(Events) /\ Len(log) <= MaxEntries
    /\ first \in Nat \ {0}
    /\ faults \in 0..MaxFaults
GroupType ==
    /\ made \subseteq AllGroups
    /\ start \in [AllGroups -> Nat]
    /\ last \in [AllGroups -> Nat]
    /\ tries \in [AllGroups -> [Ids -> 0..MaxDeliveries]]
RelayType ==
    /\ rpc \in [Workers -> RelayPoints]
    /\ floor \in [Workers -> Nat]
    /\ todo \in [Workers -> SUBSET Groups]
    /\ limit \in [Workers -> Nat]
    /\ rows \in [Workers -> SUBSET Events]
    /\ tried \in [Workers -> SUBSET Events]
    /\ sent \in [Workers -> SUBSET Events]
ConsumerType ==
    /\ mode \in [Workers -> {"up", "stopping", "down"}]
    /\ joined \in [Workers -> SUBSET Running]
    /\ hand \in [Workers -> [Running -> SUBSET Ids]]
    /\ cur \in [Workers -> [Running -> Ids \cup {0}]]
    /\ stage \in [Workers -> [Running -> Stages]]
OutcomeType ==
    /\ handled \in [AllGroups -> SUBSET Events]
    /\ recorded \in [AllGroups -> SUBSET Events]

(* Every variable has the type its comment gives it. *)
TypeOK == OutboxType /\ GroupType /\ RelayType /\ ConsumerType /\ OutcomeType

Init ==
    /\ outbox = [e \in Events |-> "none"]
    /\ log = <<>> /\ first = 1
    /\ made = Made
    /\ start = [g \in AllGroups |-> 0]
    /\ last = [g \in AllGroups |-> 0]
    /\ tries = [g \in AllGroups |-> [i \in Ids |-> 0]]
    /\ mode = [w \in Workers |-> "down"]
    /\ joined = [w \in Workers |-> {}]
    /\ rpc = [w \in Workers |-> "info"]
    /\ floor = [w \in Workers |-> 0]
    /\ todo = [w \in Workers |-> {}]
    /\ limit = [w \in Workers |-> 0]
    /\ rows = [w \in Workers |-> {}]
    /\ tried = [w \in Workers |-> {}]
    /\ sent = [w \in Workers |-> {}]
    /\ hand = [w \in Workers |-> [g \in Running |-> {}]]
    /\ cur = [w \in Workers |-> [g \in Running |-> 0]]
    /\ stage = [w \in Workers |-> [g \in Running |-> "idle"]]
    /\ handled = [g \in AllGroups |-> {}]
    /\ recorded = [g \in AllGroups |-> {}]
    /\ faults = MaxFaults

-----------------------------------------------------------------------------
(* The transaction that changes something commits, its event with it. *)
Emit(e) ==
    /\ outbox[e] = "none"
    /\ outbox' = [outbox EXCEPT ![e] = "waiting"]
    /\ UNCHANGED <<streamVars, groupVars, mode, joined, relayVars, handVars,
                   outcomeVars, faults>>

(* The pending entries of a group, and what the stream keeps. *)
pending(g) == {i \in Ids : tries[g][i] > 0}
Kept == Len(log) + 1 - first
smaller(a, b) == IF a < b THEN a ELSE b
larger(a, b) == IF a < b THEN b ELSE a

Fault == faults > 0 /\ faults' = faults - 1

(* A relay's pass is over, or rolled back: its row locks are gone. *)
ForgetPass(w) ==
    /\ rpc' = [rpc EXCEPT ![w] = "info"]
    /\ floor' = [floor EXCEPT ![w] = 0]
    /\ todo' = [todo EXCEPT ![w] = {}]
    /\ limit' = [limit EXCEPT ![w] = 0]
    /\ rows' = [rows EXCEPT ![w] = {}]
    /\ tried' = [tried EXCEPT ![w] = {}]
    /\ sent' = [sent EXCEPT ![w] = {}]

-----------------------------------------------------------------------------
(* The relay: trim, measure, publish.                                       *)

(* Mutant: waits for the fastest group instead of the slowest. *)
TrimInfoFastest(w) ==
    LET seen == made \cap Groups
    IN  /\ mode[w] = "up" /\ rpc[w] = "info"
        /\ \E fastest \in seen :
                /\ \A g \in seen : last[g] <= last[fastest]
                /\ floor' = [floor EXCEPT ![w] = last[fastest]]
                /\ todo' = [todo EXCEPT ![w] = {g \in seen : pending(g) # {}}]
                /\ rpc' = [rpc EXCEPT ![w] = "pend"]
        /\ UNCHANGED <<outbox, streamVars, groupVars, mode, joined, limit, rows,
                       tried, sent, handVars, outcomeVars, faults>>

(* XINFO GROUPS: the last-delivered-id of every group the relay waits for,
   and which of them have something pending.  Without such a group the
   stream is trimmed by its length alone. *)
TrimInfo(w) ==
    LET seen == made \cap Groups
    IN  /\ mode[w] = "up" /\ rpc[w] = "info"
        /\ \/ /\ seen = {}
              /\ rpc' = [rpc EXCEPT ![w] = "blind"]
              /\ UNCHANGED <<floor, todo>>
           \/ \E slowest \in seen :
                /\ \A g \in seen : last[slowest] <= last[g]
                /\ floor' = [floor EXCEPT ![w] = last[slowest]]
                /\ todo' = [todo EXCEPT ![w] = {g \in seen : pending(g) # {}}]
                /\ rpc' = [rpc EXCEPT ![w] = "pend"]
        /\ UNCHANGED <<outbox, streamVars, groupVars, mode, joined, limit, rows,
                       tried, sent, handVars, outcomeVars, faults>>

(* Mutant: ignores what is pending. *)
TrimPendingIgnored(w, g) ==
    /\ mode[w] = "up" /\ rpc[w] = "pend" /\ g \in todo[w]
    /\ todo' = [todo EXCEPT ![w] = @ \ {g}]
    /\ UNCHANGED <<outbox, streamVars, groupVars, mode, joined, rpc, floor, limit, rows,
                   tried, sent, handVars, outcomeVars, faults>>

(* XPENDING of one group, some time after XINFO: its oldest pending entry
   lowers the floor, unless the group acknowledged everything meanwhile. *)
TrimPending(w, g) ==
    /\ mode[w] = "up" /\ rpc[w] = "pend" /\ g \in todo[w]
    /\ todo' = [todo EXCEPT ![w] = @ \ {g}]
    /\ \/ pending(g) = {} /\ UNCHANGED floor
       \/ \E oldest \in pending(g) :
            /\ \A i \in pending(g) : oldest <= i
            /\ floor' = [floor EXCEPT ![w] = smaller(@, oldest)]
    /\ UNCHANGED <<outbox, streamVars, groupVars, mode, joined, rpc, limit, rows,
                   tried, sent, handVars, outcomeVars, faults>>

(* Mutant: nothing is trimmed. *)
TrimMinIDNever(w) ==
    /\ mode[w] = "up" /\ rpc[w] = "pend" /\ todo[w] = {}
    /\ floor' = [floor EXCEPT ![w] = 0]
    /\ rpc' = [rpc EXCEPT ![w] = "len"]
    /\ UNCHANGED <<outbox, streamVars, groupVars, mode, joined, todo, limit, rows,
                   tried, sent, handVars, outcomeVars, faults>>

(* XTRIM MINID, exact: every entry below the floor goes. *)
TrimMinID(w) ==
    /\ mode[w] = "up" /\ rpc[w] = "pend" /\ todo[w] = {}
    /\ first' = larger(first, smaller(floor[w], Len(log) + 1))
    /\ floor' = [floor EXCEPT ![w] = 0]
    /\ rpc' = [rpc EXCEPT ![w] = "len"]
    /\ UNCHANGED <<outbox, log, groupVars, mode, joined, todo, limit, rows,
                   tried, sent, handVars, outcomeVars, faults>>

(* XTRIM MAXLEN ~, for a stream nobody reads: Redis keeps at least MaxLen
   entries, and the relay goes on as if there were no backlog. *)
TrimMaxLen(w) ==
    /\ mode[w] = "up" /\ rpc[w] = "blind"
    /\ \E cut \in first..larger(first, (Len(log) + 1) - smaller(MaxLen, Len(log))) :
            first' = cut
    /\ limit' = [limit EXCEPT ![w] = smaller(MaxLen, Batch)]
    /\ rpc' = [rpc EXCEPT ![w] = "claim"]
    /\ UNCHANGED <<outbox, log, groupVars, mode, joined, floor, todo, rows, tried,
                   sent, handVars, outcomeVars, faults>>

(* Mutants: no check for a backlog past the cap; no cap. *)
roomUnchecked(backlog) == smaller(MaxLen - backlog, Batch)
roomUncapped(backlog) == Batch

room(backlog) ==
    IF backlog >= MaxLen THEN 0 ELSE smaller(MaxLen - backlog, Batch)

(* XLEN: a full cap behind holds the relay, which asks again later. *)
Measure(w) ==
    /\ mode[w] = "up" /\ rpc[w] = "len"
    /\ limit' = [limit EXCEPT ![w] = room(Kept)]
    /\ rpc' = [rpc EXCEPT ![w] = IF room(Kept) = 0 THEN "info" ELSE "claim"]
    /\ UNCHANGED <<outbox, streamVars, groupVars, mode, joined, floor, todo, rows,
                   tried, sent, handVars, outcomeVars, faults>>

(* Any call of trim fails: the relay publishes a full batch regardless. *)
TrimFails(w) ==
    /\ Fault
    /\ mode[w] = "up" /\ rpc[w] \in {"info", "blind", "pend", "len"}
    /\ limit' = [limit EXCEPT ![w] = Batch]
    /\ rpc' = [rpc EXCEPT ![w] = "claim"]
    /\ floor' = [floor EXCEPT ![w] = 0]
    /\ todo' = [todo EXCEPT ![w] = {}]
    /\ UNCHANGED <<outbox, streamVars, groupVars, mode, joined, rows, tried,
                   sent, handVars, outcomeVars>>

(* SELECT ... ORDER BY created_at FOR UPDATE SKIP LOCKED LIMIT: the oldest
   unpublished rows nobody else's pass has locked. *)
Locked == UNION {rows[v] \cup tried[v] : v \in Workers}
Claimable == {e \in Events : outbox[e] = "waiting"} \ Locked
ClaimRows(w) ==
    /\ mode[w] = "up" /\ rpc[w] = "claim"
    /\ Claimable # {}
    /\ \E R \in SUBSET Claimable :
        /\ Cardinality(R) = smaller(limit[w], Cardinality(Claimable))
        /\ \A e \in R, f \in Claimable \ R : e < f
        /\ rows' = [rows EXCEPT ![w] = R]
    /\ limit' = [limit EXCEPT ![w] = 0]
    /\ rpc' = [rpc EXCEPT ![w] = "publish"]
    /\ UNCHANGED <<outbox, streamVars, groupVars, mode, joined, floor, todo,
                   tried, sent, handVars, outcomeVars, faults>>

(* Nothing to claim: the pass ends and the relay sleeps. *)
ClaimNothing(w) ==
    /\ mode[w] = "up" /\ rpc[w] = "claim"
    /\ Claimable = {}
    /\ ForgetPass(w)
    /\ UNCHANGED <<outbox, streamVars, groupVars, mode, joined, handVars,
                   outcomeVars, faults>>

IsNext(w, e) == e \in rows[w] /\ \A f \in rows[w] : e <= f

(* XADD of the next claimed row. *)
publish(w, e) ==
    /\ mode[w] = "up" /\ rpc[w] = "publish" /\ IsNext(w, e)
    /\ Len(log) < MaxEntries
    /\ log' = Append(log, e)
    /\ rows' = [rows EXCEPT ![w] = @ \ {e}]
    /\ tried' = [tried EXCEPT ![w] = @ \cup {e}]
    /\ sent' = [sent EXCEPT ![w] = @ \cup {e}]
    /\ UNCHANGED <<outbox, first, groupVars, mode, joined, rpc, floor, todo, limit,
                   handVars, outcomeVars, faults>>

(* Mutant: a failed XADD counts as published. *)
PublishFailsUnnoticed(w, e) ==
    /\ Fault
    /\ mode[w] = "up" /\ rpc[w] = "publish" /\ IsNext(w, e)
    /\ rows' = [rows EXCEPT ![w] = @ \ {e}]
    /\ tried' = [tried EXCEPT ![w] = @ \cup {e}]
    /\ sent' = [sent EXCEPT ![w] = @ \cup {e}]
    /\ UNCHANGED <<outbox, streamVars, groupVars, mode, joined, rpc, floor, todo,
                   limit, handVars, outcomeVars>>

(* XADD answers with an error, whether or not the entry was added: the row is
   left for a later pass and the batch goes on. *)
PublishFails(w, e) ==
    /\ Fault
    /\ mode[w] = "up" /\ rpc[w] = "publish" /\ IsNext(w, e)
    /\ \/ UNCHANGED log
       \/ Len(log) < MaxEntries /\ log' = Append(log, e)
    /\ rows' = [rows EXCEPT ![w] = @ \ {e}]
    /\ tried' = [tried EXCEPT ![w] = @ \cup {e}]
    /\ UNCHANGED <<outbox, first, groupVars, mode, joined, rpc, floor, todo, limit,
                   sent, handVars, outcomeVars>>

(* UPDATE published_at and COMMIT. *)
CommitPass(w) ==
    /\ mode[w] = "up" /\ rpc[w] = "publish" /\ rows[w] = {}
    /\ outbox' = [e \in Events |-> IF e \in sent[w] THEN "published" ELSE outbox[e]]
    /\ ForgetPass(w)
    /\ UNCHANGED <<streamVars, groupVars, mode, joined, handVars, outcomeVars, faults>>

(* The transaction of the pass fails and rolls back; what it added to the
   stream stays there. *)
RollBackPass(w) ==
    /\ Fault
    /\ mode[w] = "up" /\ rpc[w] \in {"claim", "publish"}
    /\ ForgetPass(w)
    /\ UNCHANGED <<outbox, streamVars, groupVars, mode, joined, handVars, outcomeVars>>

-----------------------------------------------------------------------------
(* A consumer: one per worker and group, handling one entry at a time.      *)

Idle(w, g) == mode[w] = "up" /\ g \in joined[w] /\ stage[w][g] = "idle"

(* XGROUP CREATE MKSTREAM at "$"; BUSYGROUP means it was made before. *)
Join(w, g) ==
    /\ mode[w] = "up" /\ g \notin joined[w]
    /\ joined' = [joined EXCEPT ![w] = @ \cup {g}]
    /\ \/ g \in made /\ UNCHANGED groupVars
       \/ /\ g \notin made
          /\ made' = made \cup {g}
          /\ start' = [start EXCEPT ![g] = Len(log)]
          /\ last' = [last EXCEPT ![g] = Len(log)]
          /\ UNCHANGED tries
    /\ UNCHANGED <<outbox, streamVars, mode, relayVars, handVars, outcomeVars, faults>>

Fresh(g) == larger(first, last[g] + 1)..smaller(Len(log), larger(first - 1, last[g]) + ReadSize)

(* XREADGROUP ">": the entries after the last delivered one become pending. *)
Read(w, g) ==
    /\ Idle(w, g) /\ hand[w][g] = {}
    /\ Fresh(g) # {}
    /\ last' = [last EXCEPT ![g] = smaller(Len(log), larger(first - 1, @) + ReadSize)]
    /\ tries' = [tries EXCEPT ![g] = [i \in Ids |-> IF i \in Fresh(g) THEN 1 ELSE @[i]]]
    /\ hand' = [hand EXCEPT ![w][g] = Fresh(g)]
    /\ UNCHANGED <<outbox, streamVars, made, start, mode, joined, relayVars, cur,
                   stage, outcomeVars, faults>>

(* Mutant: what was claimed is never handed to the handler. *)
claimUnhandled(w, g) ==
    /\ Idle(w, g) /\ hand[w][g] = {}
    /\ \E i \in pending(g) :
        tries' = [tries EXCEPT ![g][i] = smaller(@ + 1, MaxDeliveries)]
    /\ UNCHANGED <<outbox, streamVars, made, start, last, mode, joined, relayVars,
                   handVars, outcomeVars, faults>>

(* XAUTOCLAIM: some pending entries have been idle for longer than MinIdle,
   because their worker died, or because it is slow and still at them.  Each
   counts one delivery more; one no longer on the stream is dropped. *)
claim(w, g) ==
    /\ Idle(w, g) /\ hand[w][g] = {}
    /\ \E abandoned \in SUBSET pending(g) :
        /\ abandoned # {}
        /\ tries' = [tries EXCEPT ![g] = [i \in Ids |->
              IF i \notin abandoned THEN @[i]
              ELSE IF i < first THEN 0
              ELSE smaller(@[i] + 1, MaxDeliveries)]]
        /\ hand' = [hand EXCEPT ![w][g] = {i \in abandoned : i >= first}]
    /\ UNCHANGED <<outbox, streamVars, made, start, last, mode, joined, relayVars,
                   cur, stage, outcomeVars, faults>>

(* The next message of the batch, in the order of the ids, goes to the handler,
   which returns: done, failed in a way worth a retry, or permanently. *)
Handle(w, g) ==
    /\ Idle(w, g)
    /\ \E i \in hand[w][g] :
        /\ \A j \in hand[w][g] : i <= j
        /\ cur' = [cur EXCEPT ![w][g] = i]
        /\ hand' = [hand EXCEPT ![w][g] = @ \ {i}]
        /\ \/ /\ handled' = [handled EXCEPT ![g] = @ \cup {log[i]}]
              /\ stage' = [stage EXCEPT ![w][g] = "settled"]
           \/ /\ \E s \in {"failed", "permanent"} : stage' = [stage EXCEPT ![w][g] = s]
              /\ UNCHANGED handled
    /\ UNCHANGED <<outbox, streamVars, groupVars, mode, joined, relayVars, recorded,
                   faults>>

InHand(w, g, s) == mode[w] # "down" /\ stage[w][g] = s

(* The entry in hand is left as it is and the batch goes on. *)
LetGo(w, g) ==
    /\ cur' = [cur EXCEPT ![w][g] = 0]
    /\ stage' = [stage EXCEPT ![w][g] = "idle"]

(* After a failure, XPENDING says how often the entry was delivered: enough
   attempts, or a permanent failure, set it aside.  A shutdown's own failures
   do not count. *)
deliveries(w, g) ==
    /\ \E s \in {"failed", "permanent"} : InHand(w, g, s)
    /\ LET attempts == tries[g][cur[w][g]]
           aside == /\ attempts > 0
                    /\ \/ stage[w][g] = "permanent"
                       \/ attempts >= MaxDeliveries /\ mode[w] = "up"
       IN  \/ aside /\ stage' = [stage EXCEPT ![w][g] = "aside"] /\ UNCHANGED cur
           \/ ~aside /\ LetGo(w, g)
    /\ UNCHANGED <<outbox, streamVars, groupVars, mode, joined, relayVars, hand,
                   outcomeVars, faults>>

(* Mutant: acknowledged without a record. *)
deadLetterUnrecorded(w, g) ==
    /\ InHand(w, g, "aside")
    /\ stage' = [stage EXCEPT ![w][g] = "settled"]
    /\ UNCHANGED <<outbox, streamVars, groupVars, mode, joined, relayVars, hand, cur,
                   outcomeVars, faults>>

(* deadLetter: the audit log names the event, once per event and group. *)
deadLetter(w, g) ==
    /\ InHand(w, g, "aside")
    /\ recorded' = [recorded EXCEPT ![g] = @ \cup {log[cur[w][g]]}]
    /\ stage' = [stage EXCEPT ![w][g] = "settled"]
    /\ UNCHANGED <<outbox, streamVars, groupVars, mode, joined, relayVars, hand, cur,
                   handled, faults>>

(* XACK of an entry that was handled or recorded. *)
ack(w, g) ==
    /\ InHand(w, g, "settled")
    /\ tries' = [tries EXCEPT ![g][cur[w][g]] = 0]
    /\ LetGo(w, g)
    /\ UNCHANGED <<outbox, streamVars, made, start, last, mode, joined, relayVars,
                   hand, outcomeVars, faults>>

(* Mutant: a failed record is acknowledged all the same. *)
ConsumerCallFailsAcked(w, g) ==
    /\ Fault
    /\ \E s \in Stages \ {"idle"} : InHand(w, g, s)
    /\ tries' = [tries EXCEPT ![g][cur[w][g]] = 0]
    /\ LetGo(w, g)
    /\ UNCHANGED <<outbox, streamVars, made, start, last, mode, joined, relayVars, hand,
                   outcomeVars>>

(* A call after the handler fails: the attempts cannot be counted, the audit
   entry cannot be written, or the acknowledgement is lost. *)
ConsumerCallFails(w, g) ==
    /\ Fault
    /\ \E s \in Stages \ {"idle"} : InHand(w, g, s)
    /\ LetGo(w, g)
    /\ UNCHANGED <<outbox, streamVars, groupVars, mode, joined, relayVars, hand,
                   outcomeVars>>

-----------------------------------------------------------------------------
(* The life of a worker process.                                            *)

Start(w) ==
    /\ mode[w] = "down"
    /\ mode' = [mode EXCEPT ![w] = "up"]
    /\ UNCHANGED <<outbox, streamVars, groupVars, joined, relayVars, handVars,
                   outcomeVars, faults>>

(* SIGTERM: the relay's transaction is cancelled, the rest of every batch
   stays pending, and the entries in hand get their grace. *)
Stop(w) ==
    /\ Fault
    /\ mode[w] = "up"
    /\ mode' = [mode EXCEPT ![w] = "stopping"]
    /\ ForgetPass(w)
    /\ hand' = [hand EXCEPT ![w] = [g \in Running |-> {}]]
    /\ UNCHANGED <<outbox, streamVars, groupVars, joined, cur, stage, outcomeVars>>

GoDown(w) ==
    /\ mode' = [mode EXCEPT ![w] = "down"]
    /\ joined' = [joined EXCEPT ![w] = {}]
    /\ hand' = [hand EXCEPT ![w] = [g \in Running |-> {}]]
    /\ cur' = [cur EXCEPT ![w] = [g \in Running |-> 0]]
    /\ stage' = [stage EXCEPT ![w] = [g \in Running |-> "idle"]]
    /\ ForgetPass(w)
    /\ UNCHANGED <<outbox, streamVars, groupVars, outcomeVars>>

(* The grace is over, or everything in hand is finished. *)
Exit(w) == mode[w] = "stopping" /\ GoDown(w) /\ UNCHANGED faults

(* The process dies between any two of its calls. *)
Crash(w) == Fault /\ mode[w] = "up" /\ GoDown(w)

-----------------------------------------------------------------------------
RelayStep(w) ==
    \/ TrimInfo(w) \/ TrimMinID(w) \/ TrimMaxLen(w) \/ Measure(w)
    \/ \E g \in Groups : TrimPending(w, g)
    \/ ClaimRows(w) \/ ClaimNothing(w) \/ CommitPass(w)
    \/ \E e \in Events : publish(w, e)

OneStep(w, g) ==
    \/ Handle(w, g) \/ deliveries(w, g) \/ deadLetter(w, g) \/ ack(w, g)

FaultStep(w) ==
    \/ TrimFails(w) \/ RollBackPass(w) \/ Stop(w) \/ Crash(w)
    \/ \E e \in Events : PublishFails(w, e)
    \/ \E g \in Running : ConsumerCallFails(w, g)

Next ==
    \/ \E e \in Events : Emit(e)
    \/ \E w \in Workers :
        \/ RelayStep(w) \/ FaultStep(w) \/ Start(w) \/ Exit(w)
        \/ \E g \in Running : Join(w, g) \/ Read(w, g) \/ claim(w, g) \/ OneStep(w, g)

(* The worker is restarted when it exits, each of its loops keeps running,
   and a handler returns.  Nothing obliges anybody to emit or to fail. *)
Fairness ==
    \A w \in Workers :
        /\ WF_vars(Start(w)) /\ WF_vars(Exit(w)) /\ WF_vars(RelayStep(w))
        /\ \A g \in Running :
            /\ WF_vars(Join(w, g)) /\ WF_vars(Read(w, g)) /\ WF_vars(claim(w, g))
            /\ WF_vars(OneStep(w, g))

Spec == Init /\ [][Next]_vars
FairSpec == Spec /\ Fairness

-----------------------------------------------------------------------------
(***************************************************************************)
(* Properties.                                                             *)
(***************************************************************************)

(* An entry of the log is settled for a group once some delivery of it was
   finished by the handler or recorded as set aside. *)
Settled(g, i) == log[i] \in handled[g] \cup recorded[g]

(* The relay trims nothing a group it waits for may still need: not one of its
   pending entries, and nothing it has not been handed yet.  XINFO, XPENDING
   and XTRIM are three calls, and every consumer moves between them. *)
NothingNeededIsTrimmed ==
    \A g \in made \cap Groups :
        /\ first <= last[g] + 1
        /\ \A i \in pending(g) : first <= i

(* No group loses an event: every entry added since the group was made is
   settled, or pending, or still ahead of the group on the stream.  An
   acknowledgement is the only way out of the pending list. *)
NothingIsLost ==
    \A g \in made \cap Groups : \A i \in (start[g] + 1)..Len(log) :
        \/ Settled(g, i)
        \/ i >= first /\ (i \in pending(g) \/ i > last[g])

(* The outbox row is marked only when its entry is on the stream: a failed
   XADD, a rolled back pass and a crash never mark it. *)
PublishedIsOnTheStream ==
    \A e \in Events : outbox[e] = "published" => \E i \in 1..Len(log) : log[i] = e

(* The cap bounds the stream: it is exceeded by at most one batch for every
   other relay, which may have measured before the rows of the first were
   added, and one for every failed trim, which publishes unmeasured. *)
BacklogIsBounded ==
    Kept <= MaxLen + Batch * ((Cardinality(Workers) - 1) + (MaxFaults - faults))

(* What a consumer group is handed is retried until it is settled: no step
   takes an entry off the pending list unless it is settled. *)
PendingUntilSettled ==
    [][\A g \in Groups \cap made : \A i \in Ids :
            tries[g][i] > 0 /\ tries'[g][i] = 0 => Settled(g, i)]_vars

(* Every entry added since a group was made is settled for it in the end: the
   group's handler finishes it or the audit log names it.  The faults of the
   model are finitely many, as a failover or a rolling restart is. *)
EveryEntryIsSettled ==
    \A i \in Ids, g \in Running :
        g \in made /\ start[g] < i /\ i <= Len(log) ~> i <= Len(log) /\ Settled(g, i)

(* Every committed event leaves the outbox: no group holds the relay for ever. *)
EveryEventIsPublished ==
    \A e \in Events : outbox[e] = "waiting" ~> outbox[e] = "published"

(***************************************************************************)
(* What EventDelivery promises is implemented: an event is emitted by the  *)
(* row it has in the outbox, and an entry is held for a group while the    *)
(* stream keeps it and the group has it pending or ahead.                  *)
(***************************************************************************)
Emitted == {e \in Events : outbox[e] # "none"}
Published == {e \in Events : outbox[e] = "published"}
Held == [g \in Groups |->
    {i \in first..Len(log) : g \in made /\ (tries[g][i] > 0 \/ last[g] < i)}]
SettledEvents == [g \in Groups |-> handled[g] \cup recorded[g]]

Delivery ==
    INSTANCE EventDelivery WITH
        emitted <- Emitted, entries <- log, published <- Published,
        subscribed <- made \cap Groups, held <- Held, settled <- SettledEvents

(* Every group gets every event at least once: whatever is trimmed, read,
   claimed, acknowledged, replayed or cut short by a crash, an entry leaves
   the reach of a group only when it is settled for it. *)
DeliversAtLeastOnce == Delivery!Spec

-----------------------------------------------------------------------------
(***************************************************************************)
(* The inductive invariant the proofs rest on.                             *)
(***************************************************************************)

(* A group's positions are ordered, and only what it was handed is pending. *)
GroupsInOrder ==
    \A g \in AllGroups :
        /\ start[g] <= last[g] /\ last[g] <= Len(log)
        /\ \A i \in Ids : tries[g][i] > 0 => i <= last[g]

(* A consumer works only on entries its group was handed, and reaches for the
   acknowledgement only with an entry that is settled. *)
HandsInOrder ==
    \A w \in Workers, g \in Running :
        /\ \A i \in hand[w][g] : i <= last[g]
        /\ stage[w][g] # "idle" => cur[w][g] \in Ids /\ cur[w][g] <= last[g]
SettledBeforeAck ==
    \A w \in Workers, g \in Running :
        stage[w][g] = "settled" => Settled(g, cur[w][g])

(* The floor a relay carries from XINFO to XTRIM stays below everything any
   group needs, however far the groups move meanwhile. *)
FloorsAreSafe ==
    \A w \in Workers : rpc[w] = "pend" =>
        /\ floor[w] <= Len(log)
        /\ \A g \in made \cap Groups :
            /\ floor[w] <= last[g]
            /\ g \notin todo[w] => \A i \in pending(g) : floor[w] <= i

(* Once a group the relay waits for exists, no relay trims by length. *)
NeverBlind == made \cap Groups # {} /\ \A w \in Workers : rpc[w] # "blind"

(* A consumer reads only for a group that was made. *)
MadeBeforeRead ==
    /\ \A w \in Workers : joined[w] \subseteq made
    /\ \A g \in AllGroups \ made : \A i \in Ids : tries[g][i] = 0

(* Whatever a group was handed is pending or settled. *)
HandedIsAccounted ==
    \A g \in made \cap Groups : \A i \in Ids :
        start[g] < i /\ i <= last[g] => tries[g][i] > 0 \/ Settled(g, i)

IInv ==
    /\ TypeOK /\ GroupsInOrder /\ HandsInOrder /\ SettledBeforeAck
    /\ FloorsAreSafe /\ NeverBlind /\ MadeBeforeRead
    /\ NothingNeededIsTrimmed /\ HandedIsAccounted

(* What a consumer has in hand was added after its group was made, and what a
   relay has in hand was emitted: with IInv, behind DeliversAtLeastOnce. *)
HandsAreTheGroups ==
    /\ \A g \in AllGroups : \A i \in Ids : tries[g][i] > 0 => start[g] < i
    /\ \A w \in Workers, g \in Running :
        /\ \A i \in hand[w][g] : g \in made /\ start[g] < i
        /\ stage[w][g] # "idle" => g \in made /\ start[g] < cur[w][g]
RowsAreEmitted == \A w \in Workers : rows[w] \cup sent[w] \subseteq Emitted

(* What a relay still has in hand for an outbox row is on the stream: behind
   PublishedIsOnTheStream. *)
SentIsOnTheStream ==
    \A w \in Workers : \A e \in sent[w] : \E i \in 1..Len(log) : log[i] = e

(* The entries a relay's pass may still add: what it measured, then what it
   claimed.  Owed has one element for each of them, over all relays. *)
Owing(w) ==
    IF rpc[w] = "claim" THEN limit[w]
    ELSE IF rpc[w] = "publish" THEN Cardinality(rows[w]) ELSE 0
Owed == {x \in Workers \X (1..Batch) : x[2] <= Owing(x[1])}

(* The inductive invariant behind BacklogIsBounded: the bound already covers
   what the relays owe. *)
CapCoversOwed ==
    /\ IsFiniteSet({e \in Events : outbox[e] # "none"})
    /\ \A w \in Workers : IsFiniteSet(rows[w]) /\ Owing(w) <= Batch
    /\ Kept + Cardinality(Owed)
        <= MaxLen + Batch * ((Cardinality(Workers) - 1) + (MaxFaults - faults))
=============================================================================
