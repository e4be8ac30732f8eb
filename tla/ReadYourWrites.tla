--------------------------- MODULE ReadYourWrites ---------------------------
(***************************************************************************)
(* Which database node serves a read (backend/internal/db) and how a       *)
(* session's own writes stay visible to it (backend/internal/freshness,    *)
(* the authenticate middleware of backend/internal/httpapi).               *)
(*                                                                         *)
(* A position of the write ahead log is the number of changes committed up *)
(* to it.  A write returns a position read after its commit; when the      *)
(* request ends the position is kept in Redis for the session, and later   *)
(* requests of the session carry it as a pin that a replica must have      *)
(* replayed, by the health loop's last reading of that replica.            *)
(***************************************************************************)
EXTENDS Integers, Sequences, FiniteSets

CONSTANTS
    Sessions,
    Replicas,
    Requests,      \* requests in progress at a time, over all api processes
    Samples,       \* ReplicaLagSamples
    SeesReceiver,  \* whether the application's role may read the receiver's status
    MaxWrites,     \* bound of the model: changes committed
    MaxFaults      \* bound of the model: lost marks, failed calls, dropped receivers

ASSUME FreshnessAssumption ==
    Samples \in Nat \ {0} /\ SeesReceiver \in BOOLEAN /\ MaxWrites \in Nat /\ MaxFaults \in Nat

LSN == 0..MaxWrites
None == -1       \* a request has not read yet

VARIABLES
    wal,        \* the primary's position
    received,   \* per replica: what its receiver has
    replayed,   \* per replica: what a read there sees
    receiver,   \* per replica: "streaming", "waiting" to reconnect, or "gone"
    replayLSN,  \* per replica: its position at the last health check
    healthy,    \* the replicas that take reads
    lags,       \* per replica: the last readings, TRUE where the lag was too long
    mark,       \* per session: the position kept in Redis, 0 for none
    request,    \* per request: what authenticate and the handler know
    acked,      \* per session: its last change that was answered (history)
    lost,       \* the sessions of which Redis lost a position (history)
    faults

nodes == <<wal, received, replayed, receiver>>
health == <<replayLSN, healthy, lags>>
vars == <<nodes, health, mark, request, acked, lost, faults>>

(* session and pin are the context's; change is the last commit of the
   request and lsn what writeRecord holds; own, unpinned and seen are history:
   the session's changes answered before it began, whether its mark was lost,
   and the position the last read saw. *)
Request == [phase : {"idle", "serving", "committed"}, session : Sessions,
            pin : LSN, change : LSN, lsn : LSN,
            own : LSN, unpinned : BOOLEAN, seen : LSN \cup {None}]

(* Every variable has the type its comment gives it. *)
TypeOK ==
    /\ wal \in LSN
    /\ received \in [Replicas -> LSN] /\ replayed \in [Replicas -> LSN]
    /\ receiver \in [Replicas -> {"streaming", "waiting", "gone"}]
    /\ replayLSN \in [Replicas -> LSN]
    /\ healthy \subseteq Replicas
    /\ lags \in [Replicas -> Seq(BOOLEAN)] /\ \A r \in Replicas : Len(lags[r]) <= Samples
    /\ mark \in [Sessions -> LSN]
    /\ request \in [Requests -> Request]
    /\ acked \in [Sessions -> LSN]
    /\ lost \subseteq Sessions
    /\ faults \in 0..MaxFaults

Idle(s) == [phase |-> "idle", session |-> s, pin |-> 0, change |-> 0, lsn |-> 0,
            own |-> 0, unpinned |-> FALSE, seen |-> None]

(* Replicas are registered out of rotation; a health check lets them in. *)
Init ==
    /\ wal = 0
    /\ received = [r \in Replicas |-> 0] /\ replayed = [r \in Replicas |-> 0]
    /\ receiver = [r \in Replicas |-> "streaming"]
    /\ replayLSN = [r \in Replicas |-> 0]
    /\ healthy = {}
    /\ lags = [r \in Replicas |-> <<>>]
    /\ mark = [s \in Sessions |-> 0]
    /\ request \in [Requests -> {Idle(s) : s \in Sessions}]
    /\ acked = [s \in Sessions |-> 0]
    /\ lost = {}
    /\ faults = MaxFaults

Fault == faults > 0 /\ faults' = faults - 1
Greater(a, b) == IF a >= b THEN a ELSE b

-----------------------------------------------------------------------------
(* Postgres: the receiver takes the next change, the replica replays it, the
   receiver loses its connection, waiting or ending, and comes back. *)
Receive(r) ==
    /\ receiver[r] = "streaming" /\ received[r] < wal
    /\ received' = [received EXCEPT ![r] = @ + 1]
    /\ UNCHANGED <<wal, replayed, receiver, health, mark, request, acked, lost, faults>>

Replay(r) ==
    /\ replayed[r] < received[r]
    /\ replayed' = [replayed EXCEPT ![r] = @ + 1]
    /\ UNCHANGED <<wal, received, receiver, health, mark, request, acked, lost, faults>>

ReceiverDrops(r) ==
    /\ Fault
    /\ receiver[r] = "streaming"
    /\ \E how \in {"waiting", "gone"} : receiver' = [receiver EXCEPT ![r] = how]
    /\ UNCHANGED <<wal, received, replayed, health, mark, request, acked, lost>>

ReceiverReturns(r) ==
    /\ receiver[r] # "streaming"
    /\ receiver' = [receiver EXCEPT ![r] = "streaming"]
    /\ UNCHANGED <<wal, received, replayed, health, mark, request, acked, lost, faults>>

-----------------------------------------------------------------------------
(* Mutant: the slot that is overwritten never moves on. *)
addStuck(window, late) ==
    IF Len(window) < Samples THEN Append(window, late) ELSE [window EXCEPT ![1] = late]

(* lagWindow.add: the last readings are kept, and no more. *)
add(window, late) ==
    IF Len(window) < Samples THEN Append(window, late) ELSE Append(Tail(window), late)

Late(window) == Cardinality({i \in DOMAIN window : window[i]})

(* Mutant: the upper median. *)
typicalUpper(window) == Len(window) - Late(window) <= Len(window) \div 2

(* The lower median of the readings is too long. *)
typical(window) == Len(window) - Late(window) <= (Len(window) - 1) \div 2

(* A check that cannot ask the replica takes it out of rotation. *)
markUnhealthy(r) ==
    /\ Fault
    /\ healthy' = healthy \ {r}
    /\ UNCHANGED <<nodes, replayLSN, lags, mark, request, acked, lost>>

(* pg_stat_wal_receiver: no row when there is no receiver process, and a row
   without a status for a role that may not read it; the health query turns
   both into the empty string. *)
receiverStatus(r) == IF SeesReceiver /\ receiver[r] # "gone" THEN receiver[r] ELSE ""

(* A status other than streaming takes the replica out at once; a lag is
   measured only while there is something received to replay, and is judged by
   the median. *)
judge(r) ==
    \/ /\ receiverStatus(r) \notin {"", "streaming"}
       /\ healthy' = healthy \ {r}
       /\ UNCHANGED lags
    \/ /\ receiverStatus(r) \in {"", "streaming"}
       /\ \E late \in {FALSE, received[r] # replayed[r]} :
             lags' = [lags EXCEPT ![r] = add(@, late)]
       /\ healthy' = IF typical(lags'[r]) THEN healthy \ {r} ELSE healthy \cup {r}

(* A check reads the replica's position and judges it. *)
check(r) ==
    /\ replayLSN' = [replayLSN EXCEPT ![r] = replayed[r]]
    /\ judge(r)
    /\ UNCHANGED <<nodes, mark, request, acked, lost, faults>>

-----------------------------------------------------------------------------
Serving(q) == request[q].phase = "serving"

(* authenticate: the session's position is asked of Redis and pinned.  An
   error is an answer of zero. *)
authenticate(q, s) ==
    /\ request[q].phase = "idle"
    /\ \E answered \in BOOLEAN :
        /\ IF answered THEN UNCHANGED faults ELSE Fault
        /\ request' = [request EXCEPT ![q] =
            [Idle(s) EXCEPT !.phase = "serving",
                            !.pin = IF answered THEN mark[s] ELSE 0,
                            !.own = acked[s],
                            !.unpinned = ~answered \/ s \in lost]]
    /\ UNCHANGED <<nodes, health, mark, acked, lost>>

(* pickReplica: the replicas that may serve a read pinned at p. *)
pickReplica(p) == {r \in healthy : p # 0 => replayLSN[r] >= p}

(* A read goes to a replica that qualifies, in turn, or to the primary when
   none does. *)
Read(q) ==
    /\ Serving(q)
    /\ LET able == pickReplica(request[q].pin) IN
       \E at \in IF able = {} THEN {wal} ELSE {replayed[r] : r \in able} :
            request' = [request EXCEPT ![q].seen = at]
    /\ UNCHANGED <<nodes, health, mark, acked, lost, faults>>

(* Write: the transaction commits on the primary. *)
Write(q) ==
    /\ Serving(q)
    /\ wal < MaxWrites
    /\ wal' = wal + 1
    /\ request' = [request EXCEPT ![q] = [@ EXCEPT !.phase = "committed", !.change = wal + 1]]
    /\ UNCHANGED <<received, replayed, receiver, health, mark, acked, lost, faults>>

(* Mutant: the position is the one before the commit record. *)
committedLSNBefore(q) ==
    /\ request[q].phase = "committed"
    /\ request' = [request EXCEPT ![q] =
            [@ EXCEPT !.phase = "serving", !.lsn = Greater(request[q].lsn, request[q].change - 1)]]
    /\ UNCHANGED <<nodes, health, mark, acked, lost, faults>>

(* The position is read after the commit, when others may have committed too;
   the handler records the greatest of its writes. *)
committedLSN(q) ==
    /\ request[q].phase = "committed"
    /\ request' = [request EXCEPT ![q] = [@ EXCEPT !.phase = "serving", !.lsn = Greater(request[q].lsn, wal)]]
    /\ UNCHANGED <<nodes, health, mark, acked, lost, faults>>

(* The position cannot be read: the handler answers with an error, although
   the change is there. *)
committedLSNFails(q) ==
    /\ Fault
    /\ request[q].phase = "committed"
    /\ request' = [request EXCEPT ![q] = Idle(@.session)]
    /\ UNCHANGED <<nodes, health, mark, acked, lost>>

(* Mutant: the last request to finish decides. *)
raiseOverwrites(old, new) == new

(* The script in Redis keeps the greater position. *)
raise(old, new) == Greater(old, new)

(* The request ends: a position it recorded is noted for the session, at best
   effort, and the answer goes out. *)
Note(q) ==
    /\ Serving(q)
    /\ LET s == request[q].session IN
       /\ \/ /\ request[q].lsn # 0
             /\ mark' = [mark EXCEPT ![s] = raise(@, request[q].lsn)]
             /\ UNCHANGED <<lost, faults>>
          \/ /\ request[q].lsn # 0
             /\ Fault
             /\ lost' = lost \cup {s}
             /\ UNCHANGED mark
          \/ /\ request[q].lsn = 0
             /\ UNCHANGED <<mark, lost, faults>>
       /\ acked' = [acked EXCEPT ![s] = Greater(@, request[q].change)]
       /\ request' = [request EXCEPT ![q] = Idle(s)]
    /\ UNCHANGED <<nodes, health>>

(* Redis forgets the position: its lifetime is over, or Redis lost its data. *)
Expire(s) ==
    /\ mark[s] # 0
    /\ mark' = [mark EXCEPT ![s] = 0]
    /\ lost' = lost \cup {s}
    /\ UNCHANGED <<nodes, health, request, acked, faults>>

-----------------------------------------------------------------------------
Next ==
    \/ \E r \in Replicas :
        Receive(r) \/ Replay(r) \/ ReceiverDrops(r) \/ ReceiverReturns(r)
        \/ check(r) \/ markUnhealthy(r)
    \/ \E q \in Requests :
        \/ \E s \in Sessions : authenticate(q, s)
        \/ Read(q) \/ Write(q) \/ committedLSN(q) \/ committedLSNFails(q) \/ Note(q)
    \/ \E s \in Sessions : Expire(s)

Spec == Init /\ [][Next]_vars

(* Replication goes on and the health loop ticks. *)
Fairness ==
    \A r \in Replicas :
        /\ WF_vars(Receive(r)) /\ WF_vars(Replay(r))
        /\ WF_vars(ReceiverReturns(r)) /\ WF_vars(check(r))

FairSpec == Spec /\ Fairness

-----------------------------------------------------------------------------
(* What a request read is no older than the changes its session had been
   answered for before it began, unless Redis lost the session's position.
   The answer may come from a replica chosen by a stale health reading, the
   write from a request that ended out of order on another process. *)
KeptMarksAreHonoured ==
    \A q \in Requests : request[q].seen # None /\ ~request[q].unpinned =>
        request[q].seen >= request[q].own

(* A health reading is never ahead of the replica, nor a replica of the log. *)
ReadingsArePast ==
    \A r \in Replicas : replayLSN[r] <= replayed[r] /\ replayed[r] <= received[r] /\ received[r] <= wal

(* What Redis keeps for a session covers its answered changes, until lost. *)
MarksCoverAnswers ==
    \A s \in Sessions : acked[s] <= wal /\ (s \notin lost => acked[s] <= mark[s])

(* A request's pin covers what its session had been answered for, and the
   position it will note covers its own changes. *)
PinsCoverAnswers ==
    \A q \in Requests :
        /\ request[q].own <= wal /\ request[q].change <= wal
        /\ ~request[q].unpinned => request[q].own <= request[q].pin
        /\ request[q].phase = "serving" => request[q].change <= request[q].lsn

(* The inductive invariant behind KeptMarksAreHonoured. *)
IInv == TypeOK /\ ReadingsArePast /\ MarksCoverAnswers /\ PinsCoverAnswers /\ KeptMarksAreHonoured

(* A replica in rotation has been read: the invariant behind
   OneReadingDoesNotFlap. *)
HealthyWereRead == \A r \in healthy : Len(lags[r]) > 0

(* A session's position is never walked back by a request that ends late. *)
PositionsOnlyRise ==
    [][\A s \in Sessions : mark'[s] < mark[s] => mark'[s] = 0 /\ s \in lost']_vars

(* One slow reading does not take a replica out of rotation: if it answers
   and its receiver gives no reason, two of its readings were too long. *)
OneReadingDoesNotFlap ==
    [][\A r \in healthy \ healthy' :
        receiver[r] # "waiting" /\ faults' = faults => Late(lags'[r]) >= 2]_vars

(* Once writing stops and nothing fails any more, every replica is back in
   rotation with the whole log: no old reading keeps it out. *)
ReplicasComeBack ==
    <>[](\A r \in Replicas : r \in healthy /\ replayLSN[r] = wal)
=============================================================================
