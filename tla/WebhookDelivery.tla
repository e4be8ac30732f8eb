-------------------------- MODULE WebhookDelivery --------------------------
(***************************************************************************)
(* Posting webhooks from the delivery log (backend/internal/webhook).      *)
(*                                                                         *)
(* An event for an endpoint is a chain of rows, one per attempt.  A row is *)
(* due when next_attempt_at has come; a failed attempt clears it and adds  *)
(* the next row.  Every worker runs a sender that reads the due rows       *)
(* without locking them and posts them through a pool, two at a time to    *)
(* one endpoint; an administrator's redelivery posts its own row from the  *)
(* API process at once, while the senders see that row too.                *)
(*                                                                         *)
(* Events are the ones followed row by row.  Their endpoints get others,   *)
(* without end, that share a lane with them and may put its rows off.      *)
(***************************************************************************)
EXTENDS Naturals, FiniteSets

CONSTANTS
    Endpoints, Events,
    Workers,              \* processes that run the sender
    Requests,             \* API requests that redeliver
    MaxAttempts,          \* how many times an event is tried
    MaxInFlight,          \* MaxInFlightPerEndpoint
    Concurrency,          \* places in a sender's pool
    TimeoutsBeforePause,
    MaxRedeliveries,      \* bound of the model: redeliveries of one event
    MaxFaults             \* bound of the model: crashes and failed writes

ASSUME WebhookAssumption ==
    /\ MaxAttempts \in Nat \ {0} /\ MaxInFlight \in Nat \ {0}
    /\ Concurrency \in Nat \ {0} /\ TimeoutsBeforePause \in Nat \ {0}
    /\ MaxRedeliveries \in Nat /\ MaxFaults \in Nat
    /\ Workers \cap Requests = {}

Attempts == 1..(MaxAttempts + MaxRedeliveries)
Rows == Endpoints \X Events \X Attempts
Senders == Workers \cup Requests

VARIABLES
    row,       \* per row: "none", "failed", "delivered", or the time until
               \* next_attempt_at: "waiting" as long as a pause or longer,
               \* "soon" sooner than a pause begun now would end, "due" none
    posted,    \* per row: how often it was posted, at most 2 are told apart
    redelivered, \* rows an administrator's redelivery made (history)
    queue,     \* per worker: rows its pass has found and not taken yet
    flight,    \* per sender: rows it is posting, each with the outcome so far
    timeouts,  \* per worker and endpoint: timeouts in a row of this pass
    paused,    \* per worker: the endpoints its pass has given up on
    faults

vars == <<row, posted, redelivered, queue, flight, timeouts, paused, faults>>

States == {"none", "waiting", "soon", "due", "failed", "delivered"}
Outcomes == {"out", "accepted", "refused", "timedout"}

(* Every variable has the type its comment gives it.  A lane counts no more
   timeouts than it takes to pause it, and those of the requests then out. *)
TypeOK ==
    /\ row \in [Rows -> States]
    /\ posted \in [Rows -> 0..2]
    /\ redelivered \subseteq Rows
    /\ queue \in [Workers -> SUBSET Rows]
    /\ flight \in [Senders -> SUBSET (Rows \X Outcomes)]
    /\ timeouts \in [Workers -> [Endpoints -> 0..(TimeoutsBeforePause + MaxInFlight - 1)]]
    /\ paused \in [Workers -> SUBSET Endpoints]
    /\ faults \in 0..MaxFaults

Init ==
    /\ row = [d \in Rows |-> "none"]
    /\ posted = [d \in Rows |-> 0]
    /\ redelivered = {}
    /\ queue = [w \in Workers |-> {}]
    /\ flight = [s \in Senders |-> {}]
    /\ timeouts = [w \in Workers |-> [p \in Endpoints |-> 0]]
    /\ paused = [w \in Workers |-> {}]
    /\ faults = MaxFaults

Fault == faults > 0 /\ faults' = faults - 1

(* A row nobody has finished: next_attempt_at is set and it is not delivered. *)
Live(d) == row[d] \in {"waiting", "soon", "due"}
After(d) == <<d[1], d[2], d[3] + 1>>

-----------------------------------------------------------------------------
(* The event is recorded for the endpoint, due now; a second call for the
   same event, from a replayed stream entry or a rule, changes nothing. *)
Enqueue(p, e) ==
    /\ row[<<p, e, 1>>] = "none"
    /\ row' = [row EXCEPT ![<<p, e, 1>>] = "due"]
    /\ UNCHANGED <<posted, redelivered, queue, flight, timeouts, paused, faults>>

(* A part of the wait for one row is over. *)
TimePasses(d) ==
    /\ row[d] \in {"waiting", "soon"}
    /\ row' = [row EXCEPT ![d] = IF @ = "waiting" THEN "soon" ELSE "due"]
    /\ UNCHANGED <<posted, redelivered, queue, flight, timeouts, paused, faults>>

(* A pass reads what is due.  The rows are not locked: another sender may
   find them as well. *)
InPass(w) == queue[w] # {} \/ flight[w] # {}
SendDue(w) ==
    /\ ~InPass(w) /\ paused[w] = {}
    /\ {d \in Rows : row[d] = "due"} # {}
    /\ queue' = [queue EXCEPT ![w] = {d \in Rows : row[d] = "due"}]
    /\ timeouts' = [timeouts EXCEPT ![w] = [p \in Endpoints |-> 0]]
    /\ UNCHANGED <<row, posted, redelivered, flight, paused, faults>>

ToEndpoint(w, p) == {f \in flight[w] : f[1][1] = p}

(* Mutant: the runners of a paused lane go on taking rows. *)
nextWhilePaused(w, d) ==
    /\ d \in queue[w]
    /\ Cardinality(ToEndpoint(w, d[1])) < MaxInFlight
    /\ Cardinality(flight[w]) < Concurrency
    /\ queue' = [queue EXCEPT ![w] = @ \ {d}]
    /\ flight' = [flight EXCEPT ![w] = @ \cup {<<d, "out">>}]
    /\ UNCHANGED <<row, posted, redelivered, timeouts, paused, faults>>

(* lane.next: a runner of the endpoint's lane takes the next row of the pass,
   whatever has happened to it since the pass found it. *)
next(w, d) ==
    /\ d \in queue[w] /\ d[1] \notin paused[w]
    /\ Cardinality(ToEndpoint(w, d[1])) < MaxInFlight
    /\ Cardinality(flight[w]) < Concurrency
    /\ queue' = [queue EXCEPT ![w] = @ \ {d}]
    /\ flight' = [flight EXCEPT ![w] = @ \cup {<<d, "out">>}]
    /\ UNCHANGED <<row, posted, redelivered, timeouts, paused, faults>>

(* The endpoint accepts with a 2xx, refuses or cannot be reached, or does not
   answer in time. *)
post(s, d) ==
    /\ <<d, "out">> \in flight[s]
    /\ \E r \in Outcomes \ {"out"} :
        flight' = [flight EXCEPT ![s] = (@ \ {<<d, "out">>}) \cup {<<d, r>>}]
    /\ posted' = [posted EXCEPT ![d] = IF @ = 2 THEN 2 ELSE @ + 1]
    /\ UNCHANGED <<row, redelivered, queue, timeouts, paused, faults>>

(* The wait before the retry: the first is shorter than a pause. *)
Backoff(d) == IF d[3] = 1 THEN "soon" ELSE "waiting"

(* Mutant: a late failure takes the delivery back. *)
outcomeForgetful(d, r) ==
    [x \in Rows |->
        IF x = d THEN (IF r = "accepted" THEN "delivered" ELSE "failed")
        ELSE IF x = After(d) /\ r # "accepted" /\ d[3] < MaxAttempts /\ row[x] = "none"
             THEN Backoff(d) ELSE row[x]]
(* Mutant: a retry after an accepted attempt. *)
outcomeRetriesAll(d, r) ==
    [x \in Rows |->
        IF x = d THEN (IF r = "accepted" \/ row[d] = "delivered" THEN "delivered" ELSE "failed")
        ELSE IF x = After(d) /\ d[3] < MaxAttempts /\ row[x] = "none"
             THEN Backoff(d) ELSE row[x]]

(* Mutant: the failed attempt stays due beside its retry. *)
outcomeStaysDue(d, r) ==
    [x \in Rows |->
        IF x = d THEN (IF r = "accepted" \/ row[d] = "delivered" THEN "delivered" ELSE "due")
        ELSE IF x = After(d) /\ r # "accepted" /\ d[3] < MaxAttempts /\ row[x] = "none"
             THEN Backoff(d) ELSE row[x]]

(* The outcome in the log: delivered; or failed, with the next attempt added
   after its backoff unless this was the last or somebody else added it. *)
outcome(d, r) ==
    [x \in Rows |->
        IF x = d THEN (IF r = "accepted" \/ row[d] = "delivered" THEN "delivered" ELSE "failed")
        ELSE IF x = After(d) /\ r # "accepted" /\ d[3] < MaxAttempts /\ row[x] = "none"
             THEN Backoff(d) ELSE row[x]]

(* lane.record: enough timeouts in a row end the endpoint's lane. *)
record(w, p, timedOut) ==
    LET n == IF timedOut THEN timeouts[w][p] + 1 ELSE 0
    IN  /\ timeouts' = [timeouts EXCEPT ![w][p] = n]
        /\ paused' = [paused EXCEPT ![w] = IF n >= TimeoutsBeforePause THEN @ \cup {p} ELSE @]

(* Another event of the endpoint has a place in the lane.  Its answer starts
   the count of timeouts again, or it is the last of those that end the lane. *)
Others(w, p) ==
    /\ p \notin paused[w] /\ Cardinality(ToEndpoint(w, p)) < MaxInFlight
    /\ \/ timeouts' = [timeouts EXCEPT ![w][p] = 0] /\ UNCHANGED paused
       \/ /\ timeouts' = [timeouts EXCEPT ![w][p] = TimeoutsBeforePause]
          /\ paused' = [paused EXCEPT ![w] = @ \cup {p}]
    /\ UNCHANGED <<row, posted, redelivered, queue, flight, faults>>

(* The attempt's transaction, then the lane hears of it. *)
send(s, d, r) ==
    /\ <<d, r>> \in flight[s] /\ r # "out"
    /\ row' = outcome(d, r)
    /\ flight' = [flight EXCEPT ![s] = @ \ {<<d, r>>}]
    /\ \/ s \in Workers /\ record(s, d[1], r = "timedout")
       \/ s \in Requests /\ UNCHANGED <<timeouts, paused>>
    /\ UNCHANGED <<posted, redelivered, queue, faults>>

(* The transaction fails: the row is as it was, and will be found again. *)
SendFails(s, d, r) ==
    /\ Fault
    /\ <<d, r>> \in flight[s] /\ r # "out"
    /\ flight' = [flight EXCEPT ![s] = @ \ {<<d, r>>}]
    /\ \/ s \in Workers /\ record(s, d[1], r = "timedout")
       \/ s \in Requests /\ UNCHANGED <<timeouts, paused>>
    /\ UNCHANGED <<row, posted, redelivered, queue>>

(* Mutant: the pause clears what it should put off. *)
pauseClears(w, p) ==
    /\ p \in paused[w] /\ ToEndpoint(w, p) = {}
    /\ row' = [d \in Rows |-> IF d[1] = p /\ Live(d) THEN "failed" ELSE row[d]]
    /\ paused' = [paused EXCEPT ![w] = @ \ {p}]
    /\ queue' = [queue EXCEPT ![w] = {d \in @ : d[1] # p}]
    /\ UNCHANGED <<posted, redelivered, flight, timeouts, faults>>

(* Once nothing of the lane is in flight, everything of the endpoint's that
   would be due before the pause ends is put off until then, the rest of the
   lane's queue and what an earlier pause put off included.  When that write
   fails the rows keep their times. *)
pause(w, p) ==
    /\ p \in paused[w] /\ ToEndpoint(w, p) = {}
    /\ \/ /\ row' = [d \in Rows |-> IF d[1] = p /\ row[d] \in {"soon", "due"}
                                   THEN "waiting" ELSE row[d]]
          /\ UNCHANGED faults
       \/ Fault /\ UNCHANGED row
    /\ paused' = [paused EXCEPT ![w] = @ \ {p}]
    /\ queue' = [queue EXCEPT ![w] = {d \in @ : d[1] # p}]
    /\ UNCHANGED <<posted, redelivered, flight, timeouts>>

(* Mutant: redeliveries are numbered after the last attempt there may be. *)
RedeliverAfterLast(q, p, e) ==
    /\ flight[q] = {}
    /\ row[<<p, e, 1>>] # "none"
    /\ \E a \in Attempts :
        /\ a > MaxAttempts /\ row[<<p, e, a>>] = "none"
        /\ row' = [row EXCEPT ![<<p, e, a>>] = "due"]
        /\ redelivered' = redelivered \cup {<<p, e, a>>}
        /\ flight' = [flight EXCEPT ![q] = {<<<<p, e, a>>, "out">>}]
    /\ UNCHANGED <<posted, queue, timeouts, paused, faults>>

(* A logged delivery is tried again at once: a row after the last one, due
   now, which this request then posts. *)
Redeliver(q, p, e) ==
    /\ flight[q] = {}
    /\ \E a \in Attempts :
        /\ a > 1 /\ row[<<p, e, a>>] = "none"
        /\ \A b \in 1..(a - 1) : row[<<p, e, b>>] # "none"
        /\ row' = [row EXCEPT ![<<p, e, a>>] = "due"]
        /\ redelivered' = redelivered \cup {<<p, e, a>>}
        /\ flight' = [flight EXCEPT ![q] = {<<<<p, e, a>>, "out">>}]
    /\ UNCHANGED <<posted, queue, timeouts, paused, faults>>

(* The process dies, or the request's client goes away: what was posted is
   not recorded. *)
Crash(s) ==
    /\ Fault
    /\ flight[s] # {} \/ (s \in Workers /\ queue[s] # {})
    /\ flight' = [flight EXCEPT ![s] = {}]
    /\ queue' = [w \in Workers |-> IF w = s THEN {} ELSE queue[w]]
    /\ paused' = [w \in Workers |-> IF w = s THEN {} ELSE paused[w]]
    /\ UNCHANGED <<row, posted, redelivered, timeouts>>

-----------------------------------------------------------------------------
Sending(s) ==
    \E d \in Rows :
        \/ post(s, d)
        \/ \E r \in Outcomes : send(s, d, r)
        \/ s \in Workers /\ next(s, d)

Next ==
    \/ \E p \in Endpoints, e \in Events : Enqueue(p, e)
    \/ \E d \in Rows : TimePasses(d)
    \/ \E w \in Workers : SendDue(w) \/ \E p \in Endpoints : pause(w, p) \/ Others(w, p)
    \/ \E q \in Requests, p \in Endpoints, e \in Events : Redeliver(q, p, e)
    \/ \E s \in Senders :
        \/ Sending(s) \/ Crash(s)
        \/ \E d \in Rows, r \in Outcomes : SendFails(s, d, r)

(* Time passes, senders keep passing over the queue, every post ends within
   the client's timeout.  Nobody has to enqueue or to redeliver, and a pause
   may put a row off as often as one is made. *)
Fairness ==
    /\ \A d \in Rows : WF_vars(TimePasses(d))
    /\ \A w \in Workers : WF_vars(SendDue(w)) /\ \A p \in Endpoints : WF_vars(pause(w, p))
    /\ \A s \in Senders : WF_vars(Sending(s))

Spec == Init /\ [][Next]_vars
FairSpec == Spec /\ Fairness

-----------------------------------------------------------------------------
(* No event is forgotten: a recorded event was delivered, or has an attempt
   waiting or due, or has used all its attempts.  Passes of two senders, a
   pause, a redelivery and a lost outcome race on the same chain of rows. *)
NoEventIsForgotten ==
    \A p \in Endpoints, e \in Events : row[<<p, e, 1>>] # "none" =>
        \E a \in Attempts :
            \/ Live(<<p, e, a>>)
            \/ row[<<p, e, a>>] = "delivered"
            \/ a >= MaxAttempts /\ row[<<p, e, a>>] = "failed"

(* A chain has no holes: behind a failed attempt that was not the last comes
   another one, and every attempt follows one that was made. *)
ChainsAreWhole ==
    \A d \in Rows :
        /\ row[d] = "failed" /\ d[3] < MaxAttempts => row[After(d)] # "none"
        /\ row[d] # "none" /\ d[3] > 1 => row[<<d[1], d[2], d[3] - 1>>] # "none"

(* What a sender holds is in the log: no row is posted, or has its retry
   scheduled, that is not there. *)
SendersHoldLoggedRows ==
    /\ \A w \in Workers : \A d \in queue[w] : row[d] # "none"
    /\ \A s \in Senders : \A f \in flight[s] : row[f[1]] # "none"

(* The inductive invariant behind NoEventIsForgotten. *)
IInv ==
    /\ row \in [Rows -> States]
    /\ queue \in [Workers -> SUBSET Rows]
    /\ flight \in [Senders -> SUBSET (Rows \X Outcomes)]
    /\ SendersHoldLoggedRows
    /\ ChainsAreWhole

(* What was recorded as delivered stays delivered, whatever a second sender of
   the same row hears from the endpoint later. *)
DeliveredIsFinal ==
    [][\A d \in Rows : row[d] = "delivered" => row'[d] = "delivered"]_vars

(* An event on record as delivered is tried again only where somebody asked
   for it, or where the delivered attempt itself was posted twice, with one
   failure among the answers. *)
NoNeedlessRetry ==
    \A d \in Rows : row[d] = "delivered" /\ After(d) \in Rows /\ row[After(d)] # "none" =>
        After(d) \in redelivered \/ posted[d] > 1

(* The inductive invariant behind the bound on timeouts: a lane that has rows
   out or left to take has not counted to its pause, and one that was paused
   counts at most the requests that were out then. *)
LaneCounts(p, out, left, n, stopped) ==
    /\ Cardinality(out) <= MaxInFlight
    /\ p \in stopped => n + Cardinality(out) <= TimeoutsBeforePause + MaxInFlight - 1
    /\ p \notin stopped /\ out \cup left # {} => n < TimeoutsBeforePause
Left(w, p) == {d \in queue[w] : d[1] = p}
LanesCount ==
    \A w \in Workers :
        /\ IsFiniteSet(flight[w])
        /\ \A p \in Endpoints :
            LaneCounts(p, ToEndpoint(w, p), Left(w, p), timeouts[w][p], paused[w])

(* The inductive invariant behind NoNeedlessRetry: an outcome in hand or on
   record is a post of the row, two of them are two posts, and a retry nobody
   asked for follows a row that has its outcome. *)
Concluded(d) == row[d] \in {"failed", "delivered"}
Answered(s, d) == {f \in flight[s] : f[1] = d /\ f[2] # "out"}
AttemptsAreCounted ==
    \A d \in Rows :
        /\ Concluded(d) => posted[d] >= 1
        /\ \A s \in Senders : \A f \in Answered(s, d) :
            /\ posted[d] >= 1
            /\ Concluded(d) => posted[d] > 1
            /\ \A t \in Senders : \A g \in Answered(t, d) :
                <<s, f>> # <<t, g>> => posted[d] > 1
        /\ After(d) \in Rows \ redelivered /\ row[After(d)] # "none" => Concluded(d)

(* Every recorded event is in the end delivered or given up after its last
   attempt, although its endpoint may time out for ever and its own timeouts
   pause it each time, once the endpoint's other events no longer do.  As
   long as they do, every pause puts the rows off that an earlier one put off,
   and the event may wait for ever. *)
OthersPause(p) == \E w \in Workers : Others(w, p) /\ p \in paused'[w]
EveryEventIsConcluded ==
    \A p \in Endpoints :
        <>[][~OthersPause(p)]_vars =>
            \A e \in Events :
                row[<<p, e, 1>>] # "none" ~>
                    \E a \in Attempts : \/ row[<<p, e, a>>] = "delivered"
                                        \/ a >= MaxAttempts /\ row[<<p, e, a>>] = "failed"
=============================================================================
