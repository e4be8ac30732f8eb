----------------------- MODULE WebhookDelivery_proofs -----------------------
(***************************************************************************)
(* What WebhookDelivery keeps for any number of endpoints, events, workers *)
(* and requests: the delivery log loses no event, and a delivery stays.    *)
(***************************************************************************)
EXTENDS WebhookDelivery, Counting, TLAPS

(* A non-empty set of naturals below a bound has a greatest element. *)
LEMMA GreatestExists ==
    ASSUME NEW N \in Nat, NEW S, S \subseteq 0..N, S # {}
    PROVE  \E a \in S : \A b \in S : b <= a
PROOF
  <1> DEFINE T == {N - a : a \in S}
  <1>1. T \subseteq Nat
    <2> SUFFICES ASSUME NEW a \in S PROVE N - a \in Nat
      OBVIOUS
    <2> QED OBVIOUS
  <1>2. T # {}
    <2>1. PICK a \in S : TRUE
      OBVIOUS
    <2>2. N - a \in T
      OBVIOUS
    <2> QED BY <2>2
  <1>3. PICK x \in T : \A y \in T : ~(<<y, x>> \in OpToRel(<, Nat))
    <2> HIDE DEF T
    <2> QED BY <1>1, <1>2, NatLessThanWellFounded, WFMin, Zenon
  <1>4. \A y \in T : ~(y < x)
    BY <1>1, <1>3 DEF OpToRel
  <1>5. PICK a \in S : x = N - a
    OBVIOUS
  <1>6. ASSUME NEW b \in S PROVE b <= a
    <2>1. N - b \in T /\ a \in Nat /\ b \in Nat
      OBVIOUS
    <2>2. ~(N - b < N - a)
      BY <2>1, <1>4, <1>5
    <2> QED BY <2>1, <2>2
  <1> QED BY <1>5, <1>6

(* The row after a row that is not the last is a row, and another one. *)
LEMMA AfterIsARow ==
    ASSUME NEW d \in Rows, d[3] < MaxAttempts
    PROVE  After(d) \in Rows /\ After(d) # d /\ After(d)[3] = d[3] + 1
BY WebhookAssumption DEF Rows, Attempts, After

-----------------------------------------------------------------------------
(* A step that takes no row out of the log, and adds a row only behind one
   that is there, after a failure in particular, leaves every chain whole. *)
LEMMA ChainsStayWhole ==
    ASSUME IInv, row' \in [Rows -> States],
           \A d \in Rows : row[d] # "none" => row'[d] # "none",
           \A d \in Rows : row'[d] # "none" /\ row[d] = "none" /\ d[3] > 1
                            => row[<<d[1], d[2], d[3] - 1>>] # "none",
           \A d \in Rows : row'[d] = "failed" /\ row[d] # "failed" /\ d[3] < MaxAttempts
                            => row'[After(d)] # "none"
    PROVE  ChainsAreWhole'
PROOF
  <1> SUFFICES ASSUME NEW d \in Rows
               PROVE  /\ row'[d] = "failed" /\ d[3] < MaxAttempts => row'[After(d)] # "none"
                      /\ row'[d] # "none" /\ d[3] > 1 => row'[<<d[1], d[2], d[3] - 1>>] # "none"
    BY DEF ChainsAreWhole, After
  <1>1. row'[d] = "failed" /\ d[3] < MaxAttempts => row'[After(d)] # "none"
    BY AfterIsARow DEF IInv, ChainsAreWhole
  <1>2. d[3] > 1 => <<d[1], d[2], d[3] - 1>> \in Rows
    BY WebhookAssumption DEF Rows, Attempts
  <1>3. row'[d] # "none" /\ d[3] > 1 => row'[<<d[1], d[2], d[3] - 1>>] # "none"
    BY <1>2 DEF IInv, ChainsAreWhole
  <1> QED BY <1>1, <1>3

(* The same for what the senders hold. *)
LEMMA HoldingsStayLogged ==
    ASSUME IInv, \A d \in Rows : row[d] # "none" => row'[d] # "none",
           \A w \in Workers : queue'[w] \subseteq {d \in Rows : row'[d] # "none"},
           \A s \in Senders : \A f \in flight'[s] : f \in Rows \X Outcomes /\ row'[f[1]] # "none"
    PROVE  SendersHoldLoggedRows'
BY DEF SendersHoldLoggedRows

(* What recording an outcome does to the log. *)
LEMMA OutcomeFacts ==
    ASSUME IInv, NEW d \in Rows, NEW r \in Outcomes, row[d] # "none"
    PROVE  /\ outcome(d, r) \in [Rows -> States]
           /\ \A x \in Rows : row[x] # "none" => outcome(d, r)[x] # "none"
           /\ \A x \in Rows : outcome(d, r)[x] # "none" /\ row[x] = "none" => x = After(d)
           /\ \A x \in Rows : outcome(d, r)[x] = "failed" /\ row[x] # "failed"
                                => x = d /\ r # "accepted"
           /\ r # "accepted" /\ d[3] < MaxAttempts => outcome(d, r)[After(d)] # "none"
           /\ \A x \in Rows : row[x] = "delivered" => outcome(d, r)[x] = "delivered"
PROOF
  <1> USE DEF IInv
  <1>1. outcome(d, r) \in [Rows -> States]
    BY DEF outcome, Backoff, States
  <1>2. \A x \in Rows : row[x] # "none" => outcome(d, r)[x] # "none"
    BY DEF outcome, Backoff
  <1>3. \A x \in Rows : outcome(d, r)[x] # "none" /\ row[x] = "none" => x = After(d)
    BY DEF outcome
  <1>4. \A x \in Rows : outcome(d, r)[x] = "failed" /\ row[x] # "failed" => x = d /\ r # "accepted"
    BY DEF outcome, Backoff
  <1>5. r # "accepted" /\ d[3] < MaxAttempts => outcome(d, r)[After(d)] # "none"
    BY AfterIsARow DEF outcome, Backoff
  <1>6. \A x \in Rows : row[x] = "delivered" => outcome(d, r)[x] = "delivered"
    BY DEF outcome
  <1> QED BY <1>1, <1>2, <1>3, <1>4, <1>5, <1>6

-----------------------------------------------------------------------------
LEMMA InitIInv == Init => IInv
PROOF
  <1> SUFFICES ASSUME Init PROVE IInv
    OBVIOUS
  <1>1. row \in [Rows -> States] /\ queue \in [Workers -> SUBSET Rows]
        /\ flight \in [Senders -> SUBSET (Rows \X Outcomes)]
    BY DEF Init, States
  <1>2. SendersHoldLoggedRows
    BY DEF Init, SendersHoldLoggedRows
  <1>3. ChainsAreWhole
    BY DEF Init, ChainsAreWhole
  <1> QED BY <1>1, <1>2, <1>3 DEF IInv

(* Every step keeps the invariant and takes no delivery back. *)
LEMMA StepIInv == IInv /\ [Next]_vars =>
    IInv' /\ \A d \in Rows : row[d] = "delivered" => row'[d] = "delivered"
PROOF
  <1> SUFFICES ASSUME IInv, [Next]_vars
               PROVE  IInv' /\ \A d \in Rows : row[d] = "delivered" => row'[d] = "delivered"
    OBVIOUS
  <1> DEFINE Delivered == \A d \in Rows : row[d] = "delivered" => row'[d] = "delivered"
  <1>1. ASSUME NEW p \in Endpoints, NEW e \in Events, Enqueue(p, e)
        PROVE  IInv' /\ Delivered
    <2>1. <<p, e, 1>> \in Rows
      BY WebhookAssumption DEF Rows, Attempts
    <2>2. row' = [row EXCEPT ![<<p, e, 1>>] = "due"] /\ row[<<p, e, 1>>] = "none"
          /\ queue' = queue /\ flight' = flight
      BY <1>1 DEF Enqueue
    <2>3. row' \in [Rows -> States] /\ \A d \in Rows : row[d] # "none" => row'[d] # "none"
      BY <2>1, <2>2 DEF IInv, States
    <2>4. \A d \in Rows : row'[d] # row[d] => d[3] = 1 /\ row'[d] = "due"
      BY <2>1, <2>2 DEF IInv
    <2>5. ChainsAreWhole'
      BY <2>3, <2>4, ChainsStayWhole
    <2>6. SendersHoldLoggedRows'
      BY <2>2, <2>3 DEF IInv, SendersHoldLoggedRows
    <2> QED BY <2>1, <2>2, <2>3, <2>5, <2>6 DEF IInv
  <1>2. ASSUME NEW x \in Rows, TimePasses(x)
        PROVE  IInv' /\ Delivered
    <2>1. PICK t \in {"soon", "due"} : row' = [row EXCEPT ![x] = t]
      BY <1>2 DEF TimePasses
    <2>a. row[x] \in {"waiting", "soon"} /\ queue' = queue /\ flight' = flight
      BY <1>2 DEF TimePasses
    <2>2. row' \in [Rows -> States] /\ \A d \in Rows : row[d] # "none" <=> row'[d] # "none"
      BY <2>1, <2>a DEF IInv, States
    <2>3. \A d \in Rows : row'[d] = "failed" => row[d] = "failed"
      BY <2>1 DEF IInv
    <2>4. ChainsAreWhole'
      BY <2>2, <2>3, ChainsStayWhole
    <2>5. SendersHoldLoggedRows'
      BY <2>a, <2>2 DEF IInv, SendersHoldLoggedRows
    <2> QED BY <2>1, <2>a, <2>2, <2>4, <2>5 DEF IInv
  <1>3. ASSUME NEW w \in Workers, SendDue(w)
        PROVE  IInv' /\ Delivered
    <2>1. row' = row /\ flight' = flight /\ queue' \in [Workers -> SUBSET Rows]
      BY <1>3 DEF SendDue, IInv
    <2>2. SendersHoldLoggedRows'
      BY <1>3, <2>1 DEF SendDue, IInv, SendersHoldLoggedRows
    <2>3. ChainsAreWhole'
      BY <2>1 DEF IInv, ChainsAreWhole, After
    <2> QED BY <2>1, <2>2, <2>3 DEF IInv
  <1>4. ASSUME NEW w \in Workers, NEW p \in Endpoints, pause(w, p)
        PROVE  IInv' /\ Delivered
    <2>1. flight' = flight /\ queue' \in [Workers -> SUBSET Rows]
          /\ \A v \in Workers : queue'[v] \subseteq queue[v]
      BY <1>4 DEF pause, IInv
    <2>2. row' \in [Rows -> States] /\ \A d \in Rows : row[d] # "none" <=> row'[d] # "none"
      BY <1>4 DEF pause, IInv, States, Live
    <2>3. \A d \in Rows : row'[d] = "failed" => row[d] = "failed"
      BY <1>4 DEF pause, IInv
    <2>4. Delivered
      BY <1>4 DEF pause, IInv, Live
    <2>5. ChainsAreWhole'
      BY <2>2, <2>3, ChainsStayWhole
    <2>6. SendersHoldLoggedRows'
      BY <2>1, <2>2 DEF IInv, SendersHoldLoggedRows
    <2> QED BY <2>1, <2>2, <2>4, <2>5, <2>6 DEF IInv
  <1>5. ASSUME NEW q \in Requests, NEW p \in Endpoints, NEW e \in Events, Redeliver(q, p, e)
        PROVE  IInv' /\ Delivered
    <2>1. PICK a \in Attempts :
            /\ a > 1 /\ row[<<p, e, a>>] = "none"
            /\ \A b \in 1..(a - 1) : row[<<p, e, b>>] # "none"
            /\ row' = [row EXCEPT ![<<p, e, a>>] = "due"]
            /\ flight' = [flight EXCEPT ![q] = {<<<<p, e, a>>, "out">>}]
      BY <1>5 DEF Redeliver
    <2>2. <<p, e, a>> \in Rows /\ q \in Senders /\ queue' = queue
      BY <1>5 DEF Rows, Senders, Redeliver
    <2>3. row' \in [Rows -> States] /\ \A d \in Rows : row[d] # "none" => row'[d] # "none"
      BY <2>1, <2>2 DEF IInv, States
    <2>4. row[<<p, e, a - 1>>] # "none"
      BY <2>1, WebhookAssumption DEF Attempts
    <2>5. \A d \in Rows : row'[d] # row[d] =>
            row'[d] = "due" /\ row[<<d[1], d[2], d[3] - 1>>] # "none"
      BY <2>1, <2>2, <2>4 DEF IInv
    <2>6. ChainsAreWhole'
      BY <2>3, <2>5, ChainsStayWhole
    <2>7. flight' \in [Senders -> SUBSET (Rows \X Outcomes)]
      BY <2>1, <2>2 DEF IInv, Outcomes
    <2>8. SendersHoldLoggedRows'
      BY <2>1, <2>2, <2>3 DEF IInv, SendersHoldLoggedRows
    <2> QED BY <2>1, <2>2, <2>3, <2>6, <2>7, <2>8 DEF IInv
  <1>6. ASSUME NEW w \in Workers, NEW x \in Rows, next(w, x)
        PROVE  IInv' /\ Delivered
    <2>1. row' = row /\ x \in queue[w] /\ w \in Senders
          /\ queue' = [queue EXCEPT ![w] = @ \ {x}]
          /\ flight' = [flight EXCEPT ![w] = @ \cup {<<x, "out">>}]
      BY <1>6 DEF next, Senders
    <2>2. queue' \in [Workers -> SUBSET Rows] /\ flight' \in [Senders -> SUBSET (Rows \X Outcomes)]
      BY <2>1 DEF IInv, Outcomes
    <2>3. SendersHoldLoggedRows'
      BY <2>1 DEF IInv, SendersHoldLoggedRows
    <2>4. ChainsAreWhole'
      BY <2>1 DEF IInv, ChainsAreWhole, After
    <2> QED BY <2>1, <2>2, <2>3, <2>4 DEF IInv
  <1>7. ASSUME NEW s \in Senders, NEW x \in Rows, post(s, x)
        PROVE  IInv' /\ Delivered
    <2>1. PICK r \in Outcomes :
            flight' = [flight EXCEPT ![s] = (@ \ {<<x, "out">>}) \cup {<<x, r>>}]
      BY <1>7 DEF post
    <2>2. row' = row /\ queue' = queue /\ <<x, "out">> \in flight[s]
      BY <1>7 DEF post
    <2>3. flight' \in [Senders -> SUBSET (Rows \X Outcomes)]
      BY <2>1 DEF IInv
    <2>4. row[x] # "none"
      BY <2>2 DEF IInv, SendersHoldLoggedRows
    <2>5. SendersHoldLoggedRows'
      BY <2>1, <2>2, <2>4 DEF IInv, SendersHoldLoggedRows
    <2>6. ChainsAreWhole'
      BY <2>2 DEF IInv, ChainsAreWhole, After
    <2> QED BY <2>2, <2>3, <2>5, <2>6 DEF IInv
  <1>8. ASSUME NEW s \in Senders, NEW x \in Rows, NEW r \in Outcomes, send(s, x, r)
        PROVE  IInv' /\ Delivered
    <2>1. row' = outcome(x, r) /\ queue' = queue /\ <<x, r>> \in flight[s]
          /\ flight' = [flight EXCEPT ![s] = @ \ {<<x, r>>}]
      BY <1>8 DEF send
    <2>2. row[x] # "none"
      BY <2>1 DEF IInv, SendersHoldLoggedRows
    <2>3. row' \in [Rows -> States] /\ Delivered
          /\ \A d \in Rows : row[d] # "none" => row'[d] # "none"
      BY <2>1, <2>2, OutcomeFacts
    <2>4. \A d \in Rows : row'[d] # "none" /\ row[d] = "none" /\ d[3] > 1
            => row[<<d[1], d[2], d[3] - 1>>] # "none"
      <3> SUFFICES ASSUME NEW d \in Rows, row'[d] # "none", row[d] = "none"
                   PROVE  row[<<d[1], d[2], d[3] - 1>>] # "none"
        OBVIOUS
      <3>1. d = After(x)
        BY <2>1, <2>2, OutcomeFacts
      <3>2. <<d[1], d[2], d[3] - 1>> = x
        BY <3>1, WebhookAssumption DEF After, Rows, Attempts
      <3> QED BY <2>2, <3>2
    <2>5. \A d \in Rows : row'[d] = "failed" /\ row[d] # "failed" /\ d[3] < MaxAttempts
            => row'[After(d)] # "none"
      BY <2>1, <2>2, OutcomeFacts
    <2>6. ChainsAreWhole'
      BY <2>3, <2>4, <2>5, ChainsStayWhole
    <2>7. flight' \in [Senders -> SUBSET (Rows \X Outcomes)]
      BY <2>1 DEF IInv
    <2>8. SendersHoldLoggedRows'
      BY <2>1, <2>3 DEF IInv, SendersHoldLoggedRows
    <2> QED BY <2>1, <2>3, <2>6, <2>7, <2>8 DEF IInv
  <1>9. ASSUME NEW s \in Senders, NEW x \in Rows, NEW r \in Outcomes, SendFails(s, x, r)
        PROVE  IInv' /\ Delivered
    <2>1. row' = row /\ queue' = queue /\ flight' = [flight EXCEPT ![s] = @ \ {<<x, r>>}]
      BY <1>9 DEF SendFails
    <2>2. flight' \in [Senders -> SUBSET (Rows \X Outcomes)]
      BY <2>1 DEF IInv
    <2>3. SendersHoldLoggedRows'
      BY <2>1 DEF IInv, SendersHoldLoggedRows
    <2>4. ChainsAreWhole'
      BY <2>1 DEF IInv, ChainsAreWhole, After
    <2> QED BY <2>1, <2>2, <2>3, <2>4 DEF IInv
  <1>10. ASSUME NEW s \in Senders, Crash(s)
         PROVE  IInv' /\ Delivered
    <2>1. row' = row /\ flight' = [flight EXCEPT ![s] = {}]
          /\ queue' = [w \in Workers |-> IF w = s THEN {} ELSE queue[w]]
      BY <1>10 DEF Crash
    <2>2. flight' \in [Senders -> SUBSET (Rows \X Outcomes)] /\ queue' \in [Workers -> SUBSET Rows]
      BY <2>1 DEF IInv
    <2>3. SendersHoldLoggedRows'
      BY <2>1 DEF IInv, SendersHoldLoggedRows
    <2>4. ChainsAreWhole'
      BY <2>1 DEF IInv, ChainsAreWhole, After
    <2> QED BY <2>1, <2>2, <2>3, <2>4 DEF IInv
  <1>11. ASSUME NEW w \in Workers, NEW p \in Endpoints, Others(w, p)
         PROVE  IInv' /\ Delivered
    <2>1. row' = row /\ queue' = queue /\ flight' = flight
      BY <1>11 DEF Others
    <2> QED BY <2>1 DEF IInv, SendersHoldLoggedRows, ChainsAreWhole, After
  <1>12. CASE UNCHANGED vars
    <2>1. row' = row /\ queue' = queue /\ flight' = flight
      BY <1>12 DEF vars
    <2> QED BY <2>1 DEF IInv, SendersHoldLoggedRows, ChainsAreWhole, After
  <1> QED
    BY <1>1, <1>2, <1>3, <1>4, <1>5, <1>6, <1>7, <1>8, <1>9, <1>10, <1>11, <1>12 DEF Next, Sending

(* The last row of a whole chain is unfinished, delivered, or a last attempt. *)
LEMMA WholeChainsForgetNothing == IInv => NoEventIsForgotten
PROOF
  <1> SUFFICES ASSUME IInv, NEW p \in Endpoints, NEW e \in Events, row[<<p, e, 1>>] # "none"
               PROVE  \E a \in Attempts :
                        \/ Live(<<p, e, a>>)
                        \/ row[<<p, e, a>>] = "delivered"
                        \/ a >= MaxAttempts /\ row[<<p, e, a>>] = "failed"
    BY DEF NoEventIsForgotten
  <1> DEFINE Chain == {a \in Attempts : row[<<p, e, a>>] # "none"}
  <1>1. MaxAttempts + MaxRedeliveries \in Nat /\ 1 \in Chain
        /\ Chain \subseteq 0..(MaxAttempts + MaxRedeliveries)
    BY WebhookAssumption DEF Attempts
  <1>2. PICK a \in Chain : \A b \in Chain : b <= a
    <2> HIDE DEF Chain
    <2> QED BY <1>1, GreatestExists
  <1>3. a \in Attempts /\ a \in Nat /\ <<p, e, a>> \in Rows /\ row[<<p, e, a>>] # "none"
    BY <1>2, WebhookAssumption DEF Rows, Attempts
  <1>4. row[<<p, e, a>>] \in {"waiting", "soon", "due", "failed", "delivered"}
    BY <1>3 DEF IInv, States
  <1>5. CASE row[<<p, e, a>>] = "failed" /\ a < MaxAttempts
    <2>1. After(<<p, e, a>>) = <<p, e, a + 1>>
      BY DEF After
    <2>2. row[<<p, e, a + 1>>] # "none"
      BY <1>3, <1>5, <2>1 DEF IInv, ChainsAreWhole
    <2>3. a + 1 \in Attempts
      BY <1>3, <1>5, WebhookAssumption DEF Attempts
    <2>4. a + 1 <= a
      BY <1>2, <2>2, <2>3
    <2> QED BY <1>3, <2>4
  <1> QED BY <1>3, <1>4, <1>5, WebhookAssumption DEF Live

(* The delivery log loses no event, whatever races on it: an event that was
   recorded for an endpoint has been delivered, has an attempt to come, or
   has used its attempts up. *)
THEOREM NothingIsForgotten == Spec => []NoEventIsForgotten
PROOF
  <1>1. Spec => []IInv
    BY InitIInv, StepIInv, PTL DEF Spec
  <1> QED BY <1>1, WholeChainsForgetNothing, PTL

(* No chain of attempts has a hole. *)
THEOREM ChainsStay == Spec => []ChainsAreWhole
PROOF
  <1>1. Spec => []IInv
    BY InitIInv, StepIInv, PTL DEF Spec
  <1>2. IInv => ChainsAreWhole
    BY DEF IInv
  <1> QED BY <1>1, <1>2, PTL

(* A delivery on record is never taken back, by a second sender's late
   failure, a pause or a redelivery. *)
THEOREM DeliveriesAreFinal == Spec => DeliveredIsFinal
PROOF
  <1>1. Spec => []IInv
    BY InitIInv, StepIInv, PTL DEF Spec
  <1>2. IInv /\ [Next]_vars => [\A d \in Rows : row[d] = "delivered" => row'[d] = "delivered"]_vars
    BY StepIInv
  <1> QED BY <1>1, <1>2, PTL DEF Spec, DeliveredIsFinal

-----------------------------------------------------------------------------
(***************************************************************************)
(* The bound on a lane's timeouts.  The lemmas say what happens to one     *)
(* lane when a row is taken, answered or recorded; the steps below say     *)
(* which lanes an action leaves alone.                                     *)
(***************************************************************************)
Most == TimeoutsBeforePause + MaxInFlight - 1

(* A row is taken by a lane that is not paused and has room. *)
LEMMA LaneTakes ==
    ASSUME NEW p, NEW out, NEW left, NEW n \in 0..Most, NEW stopped, NEW f, NEW less,
           IsFiniteSet(out), LaneCounts(p, out, left, n, stopped),
           p \notin stopped, left # {}, Cardinality(out) < MaxInFlight
    PROVE  LaneCounts(p, out \cup {f}, less, n, stopped)
PROOF
  <1>1. Cardinality(out) \in Nat /\ Cardinality(out \cup {f}) <= Cardinality(out) + 1
        /\ Cardinality(out \cup {f}) \in Nat
    BY CountAdd
  <1> QED BY <1>1, WebhookAssumption DEF LaneCounts, Most

(* The endpoint's answer, or its silence, changes no count. *)
LEMMA LaneHears ==
    ASSUME NEW p, NEW out, NEW left, NEW n \in 0..Most, NEW stopped, NEW f, NEW g, f \in out,
           IsFiniteSet(out), LaneCounts(p, out, left, n, stopped)
    PROVE  LaneCounts(p, (out \ {f}) \cup {g}, left, n, stopped)
PROOF
  <1>1. Cardinality(out) \in Nat /\ IsFiniteSet(out \ {f})
        /\ Cardinality(out \ {f}) = Cardinality(out) - 1
    BY CountRemove
  <1>2. Cardinality((out \ {f}) \cup {g}) <= Cardinality(out)
        /\ Cardinality((out \ {f}) \cup {g}) \in Nat
    <2>1. Cardinality((out \ {f}) \cup {g}) <= Cardinality(out \ {f}) + 1
          /\ Cardinality((out \ {f}) \cup {g}) \in Nat
      BY <1>1, CountAdd
    <2> QED BY <1>1, <2>1
  <1> QED BY <1>1, <1>2, WebhookAssumption DEF LaneCounts, Most

(* The outcome of one of its requests is recorded: the lane counts one timeout
   more and has one request less, or starts counting again. *)
LEMMA LaneRecords ==
    ASSUME NEW p, NEW out, NEW left, NEW n \in 0..Most, NEW stopped, NEW f \in out,
           IsFiniteSet(out), LaneCounts(p, out, left, n, stopped),
           NEW m, m = n + 1 \/ m = 0, NEW ended,
           ended = IF m >= TimeoutsBeforePause THEN stopped \cup {p} ELSE stopped
    PROVE  m \in 0..Most /\ LaneCounts(p, out \ {f}, left, m, ended)
PROOF
  <1>1. Cardinality(out) \in Nat /\ Cardinality(out \ {f}) \in Nat
        /\ Cardinality(out \ {f}) = Cardinality(out) - 1
    BY CountRemove
  <1>2. out \cup left # {}
    OBVIOUS
  <1>3. CASE p \in stopped
    BY <1>1, <1>2, <1>3, WebhookAssumption DEF LaneCounts, Most
  <1>4. CASE p \notin stopped
    BY <1>1, <1>2, <1>4, WebhookAssumption DEF LaneCounts, Most
  <1> QED BY <1>3, <1>4

(* What a worker is posting to one endpoint is finite as all it posts is. *)
LEMMA LaneIsFinite ==
    ASSUME NEW w \in Workers, NEW p, IsFiniteSet(flight[w])
    PROVE  IsFiniteSet(ToEndpoint(w, p))
BY CountPart DEF ToEndpoint

(* Types and lanes together: neither is inductive without the other. *)
TypeInv == TypeOK /\ LanesCount

LEMMA InitTypeInv == Init => TypeInv
PROOF
  <1> SUFFICES ASSUME Init PROVE TypeInv
    OBVIOUS
  <1>1. TypeOK
    <2>1. 0 \in 0..Most /\ 0 \in 0..2 /\ MaxFaults \in 0..MaxFaults
      BY WebhookAssumption DEF Most
    <2>2. row \in [Rows -> States] /\ posted \in [Rows -> 0..2] /\ redelivered \subseteq Rows
          /\ faults \in 0..MaxFaults
      BY <2>1 DEF Init, States
    <2>3. queue \in [Workers -> SUBSET Rows] /\ flight \in [Senders -> SUBSET (Rows \X Outcomes)]
          /\ paused \in [Workers -> SUBSET Endpoints]
      BY DEF Init
    <2>4. timeouts \in [Workers -> [Endpoints -> 0..Most]]
      BY <2>1 DEF Init
    <2> QED BY <2>2, <2>3, <2>4 DEF TypeOK, Most
  <1>2. ASSUME NEW w \in Workers
        PROVE  IsFiniteSet(flight[w]) /\ \A p \in Endpoints : ToEndpoint(w, p) = {} /\ Left(w, p) = {}
    BY FS_EmptySet DEF Init, ToEndpoint, Left, Senders
  <1>3. ASSUME NEW w \in Workers, NEW p \in Endpoints
        PROVE  LaneCounts(p, ToEndpoint(w, p), Left(w, p), timeouts[w][p], paused[w])
    <2>1. timeouts[w][p] = 0 /\ paused[w] = {}
      BY DEF Init
    <2>2. Cardinality(ToEndpoint(w, p)) = 0 /\ ToEndpoint(w, p) \cup Left(w, p) = {}
      BY <1>2, FS_EmptySet
    <2> QED BY <2>1, <2>2, WebhookAssumption DEF LaneCounts
  <1> QED BY <1>1, <1>2, <1>3 DEF TypeInv, LanesCount

(* A step that changes nothing of a worker's pass leaves its lanes as they
   were. *)
LEMMA LanesStay ==
    ASSUME LanesCount, NEW w \in Workers, flight'[w] = flight[w], queue'[w] = queue[w],
           timeouts'[w] = timeouts[w], paused'[w] = paused[w]
    PROVE  /\ IsFiniteSet(flight'[w])
           /\ \A p \in Endpoints :
                LaneCounts(p, ToEndpoint(w, p), Left(w, p), timeouts[w][p], paused[w])'
PROOF
  <1>1. \A p \in Endpoints : ToEndpoint(w, p)' = ToEndpoint(w, p) /\ Left(w, p)' = Left(w, p)
    BY DEF ToEndpoint, Left
  <1> QED BY <1>1 DEF LanesCount, LaneCounts

(* A lane that is not the one a worker moves. *)
LEMMA OtherLanesStay ==
    ASSUME LanesCount, NEW w \in Workers, NEW p \in Endpoints,
           ToEndpoint(w, p)' = ToEndpoint(w, p), Left(w, p)' = Left(w, p),
           timeouts'[w][p] = timeouts[w][p], p \in paused'[w] <=> p \in paused[w]
    PROVE  LaneCounts(p, ToEndpoint(w, p), Left(w, p), timeouts[w][p], paused[w])'
BY DEF LanesCount, LaneCounts

(* The rest of the type invariant, which no count is needed for. *)
LEMMA PlainTypes ==
    ASSUME TypeOK, [Next]_vars
    PROVE  /\ posted' \in [Rows -> 0..2] /\ redelivered' \subseteq Rows
           /\ paused' \in [Workers -> SUBSET Endpoints] /\ faults' \in 0..MaxFaults
PROOF
  <1>1. posted' \in [Rows -> 0..2]
    <2>1. ASSUME NEW s \in Senders, NEW d \in Rows, post(s, d) PROVE posted' \in [Rows -> 0..2]
      <3>1. posted[d] \in 0..2 /\ posted' = [posted EXCEPT ![d] = IF @ = 2 THEN 2 ELSE @ + 1]
        BY <2>1 DEF TypeOK, post
      <3>2. (IF posted[d] = 2 THEN 2 ELSE posted[d] + 1) \in 0..2
        BY <3>1
      <3> QED BY <3>1, <3>2 DEF TypeOK
    <2>2. UNCHANGED posted \/ \E s \in Senders, d \in Rows : post(s, d)
      BY DEF Next, Sending, Enqueue, TimePasses, SendDue, pause, Others, Redeliver, Crash,
             SendFails, send, next, vars
    <2> QED BY <2>1, <2>2 DEF TypeOK
  <1>2. redelivered' \subseteq Rows
    <2>1. ASSUME NEW q \in Requests, NEW p \in Endpoints, NEW e \in Events, Redeliver(q, p, e)
          PROVE  redelivered' \subseteq Rows
      BY <2>1 DEF Redeliver, Rows, TypeOK
    <2>2. UNCHANGED redelivered \/ \E q \in Requests, p \in Endpoints, e \in Events : Redeliver(q, p, e)
      BY DEF Next, Sending, Enqueue, TimePasses, SendDue, pause, Others, Crash, SendFails, send,
             next, post, vars
    <2> QED BY <2>1, <2>2 DEF TypeOK
  <1>3. faults' \in 0..MaxFaults
    <2>1. Fault => faults' \in 0..MaxFaults
      BY WebhookAssumption DEF Fault, TypeOK
    <2>2. UNCHANGED faults \/ Fault
      BY DEF Next, Sending, Enqueue, TimePasses, SendDue, pause, Others, Redeliver, Crash,
             SendFails, send, next, post, vars
    <2> QED BY <2>1, <2>2 DEF TypeOK
  <1>4. paused' \in [Workers -> SUBSET Endpoints]
    <2>1. ASSUME NEW w \in Workers, NEW p \in Endpoints, pause(w, p)
          PROVE  paused' \in [Workers -> SUBSET Endpoints]
      BY <2>1 DEF pause, TypeOK
    <2>2. ASSUME NEW w \in Workers, NEW d \in Rows, NEW t \in BOOLEAN, record(w, d[1], t)
          PROVE  paused' \in [Workers -> SUBSET Endpoints]
      <3>1. d[1] \in Endpoints
        BY DEF Rows
      <3> QED BY <2>2, <3>1 DEF record, TypeOK
    <2>3. ASSUME NEW s \in Senders, Crash(s) PROVE paused' \in [Workers -> SUBSET Endpoints]
      BY <2>3 DEF Crash, TypeOK
    <2>4. ASSUME NEW s \in Senders, NEW d \in Rows, NEW r \in Outcomes,
                 send(s, d, r) \/ SendFails(s, d, r)
          PROVE  paused' \in [Workers -> SUBSET Endpoints]
      BY <2>2, <2>4 DEF send, SendFails, TypeOK
    <2>a. ASSUME NEW w \in Workers, NEW p \in Endpoints, Others(w, p)
          PROVE  paused' \in [Workers -> SUBSET Endpoints]
      BY <2>a DEF Others, TypeOK
    <2>5. \/ UNCHANGED paused
          \/ \E w \in Workers, p \in Endpoints : pause(w, p) \/ Others(w, p)
          \/ \E s \in Senders : Crash(s)
          \/ \E s \in Senders, d \in Rows, r \in Outcomes : send(s, d, r) \/ SendFails(s, d, r)
      BY DEF Next, Sending, Enqueue, TimePasses, SendDue, Redeliver, next, post, vars
    <2> QED BY <2>1, <2>3, <2>4, <2>5, <2>a DEF TypeOK
  <1> QED BY <1>1, <1>2, <1>3, <1>4

(* One worker's pass after a step: its count is in range and every lane of it
   is in order. *)
InOrder(w) ==
    /\ IsFiniteSet(flight[w])
    /\ timeouts[w] \in [Endpoints -> 0..Most]
    /\ \A p \in Endpoints :
        LaneCounts(p, ToEndpoint(w, p), Left(w, p), timeouts[w][p], paused[w])

LEMMA InOrderIsTypeInv ==
    ASSUME TypeInv, NEW w \in Workers
    PROVE  InOrder(w) /\ flight[w] \subseteq Rows \X Outcomes
BY DEF TypeInv, TypeOK, LanesCount, InOrder, Most, Senders

(* The pass that is not touched. *)
LEMMA PassStays ==
    ASSUME TypeInv, NEW w \in Workers, flight'[w] = flight[w], queue'[w] = queue[w],
           timeouts'[w] = timeouts[w], paused'[w] = paused[w]
    PROVE  InOrder(w)'
PROOF
  <1>1. timeouts'[w] \in [Endpoints -> 0..Most]
    BY InOrderIsTypeInv DEF InOrder
  <1> QED BY <1>1, LanesStay DEF TypeInv, InOrder

(* A pass begins: nothing is out and nothing is counted. *)
LEMMA PassBegins ==
    ASSUME TypeInv, NEW w \in Workers, SendDue(w)
    PROVE  InOrder(w)'
PROOF
  <1>1. flight'[w] = {} /\ paused'[w] = {} /\ timeouts'[w] = [p \in Endpoints |-> 0]
    BY DEF SendDue, InPass, TypeInv, TypeOK
  <1>2. IsFiniteSet(flight'[w]) /\ \A p \in Endpoints : ToEndpoint(w, p)' = {}
    BY <1>1, FS_EmptySet DEF ToEndpoint
  <1>3. \A p \in Endpoints : Cardinality(ToEndpoint(w, p)') = 0
    BY <1>2, FS_EmptySet
  <1>4. timeouts'[w] \in [Endpoints -> 0..Most]
    BY <1>1, WebhookAssumption DEF Most
  <1>5. ASSUME NEW p \in Endpoints
        PROVE  LaneCounts(p, ToEndpoint(w, p), Left(w, p), timeouts[w][p], paused[w])'
    BY <1>1, <1>3, WebhookAssumption DEF LaneCounts
  <1> QED BY <1>2, <1>4, <1>5 DEF InOrder

(* A worker dies: nothing is out, nothing is left, nothing is paused. *)
LEMMA PassDies ==
    ASSUME TypeInv, NEW w \in Workers, Crash(w)
    PROVE  InOrder(w)'
PROOF
  <1>1. flight'[w] = {} /\ paused'[w] = {} /\ queue'[w] = {} /\ timeouts'[w] = timeouts[w]
    BY DEF Crash, TypeInv, TypeOK, Senders
  <1>2. IsFiniteSet(flight'[w]) /\ \A p \in Endpoints : ToEndpoint(w, p)' = {} /\ Left(w, p)' = {}
    BY <1>1, FS_EmptySet DEF ToEndpoint, Left
  <1>3. \A p \in Endpoints : Cardinality(ToEndpoint(w, p)') = 0
    BY <1>2, FS_EmptySet
  <1>4. timeouts'[w] \in [Endpoints -> 0..Most]
    BY <1>1, InOrderIsTypeInv DEF InOrder
  <1>5. ASSUME NEW p \in Endpoints
        PROVE  LaneCounts(p, ToEndpoint(w, p), Left(w, p), timeouts[w][p], paused[w])'
    BY <1>1, <1>2, <1>3, WebhookAssumption DEF LaneCounts
  <1> QED BY <1>2, <1>4, <1>5 DEF InOrder

(* A lane is ended: nothing of it is out, and nothing is left. *)
LEMMA PassPauses ==
    ASSUME TypeInv, NEW w \in Workers, NEW p \in Endpoints, pause(w, p)
    PROVE  InOrder(w)'
PROOF
  <1>1. flight' = flight /\ timeouts' = timeouts /\ ToEndpoint(w, p) = {}
        /\ paused'[w] = paused[w] \ {p} /\ queue'[w] = {d \in queue[w] : d[1] # p}
    BY DEF pause, TypeInv, TypeOK
  <1>2. IsFiniteSet(flight'[w]) /\ timeouts'[w] \in [Endpoints -> 0..Most]
    BY <1>1, InOrderIsTypeInv DEF InOrder
  <1>3. ToEndpoint(w, p)' = {} /\ Left(w, p)' = {} /\ Cardinality(ToEndpoint(w, p)') = 0
    BY <1>1, FS_EmptySet DEF ToEndpoint, Left
  <1>4. LaneCounts(p, ToEndpoint(w, p), Left(w, p), timeouts[w][p], paused[w])'
    BY <1>1, <1>3, WebhookAssumption DEF LaneCounts
  <1>5. ASSUME NEW o \in Endpoints \ {p}
        PROVE  LaneCounts(o, ToEndpoint(w, o), Left(w, o), timeouts[w][o], paused[w])'
    <2>1. ToEndpoint(w, o)' = ToEndpoint(w, o) /\ Left(w, o)' = Left(w, o)
      BY <1>1 DEF ToEndpoint, Left
    <2> QED BY <1>1, <2>1, OtherLanesStay DEF TypeInv
  <1> QED BY <1>2, <1>4, <1>5 DEF InOrder

(* A runner takes a row: one request more in a lane that may go on. *)
LEMMA PassTakes ==
    ASSUME TypeInv, NEW w \in Workers, NEW x \in Rows, next(w, x)
    PROVE  InOrder(w)'
PROOF
  <1>1. x \in queue[w] /\ x[1] \notin paused[w] /\ Cardinality(ToEndpoint(w, x[1])) < MaxInFlight
        /\ paused' = paused /\ timeouts' = timeouts
        /\ queue'[w] = queue[w] \ {x} /\ flight'[w] = flight[w] \cup {<<x, "out">>}
    BY DEF next, TypeInv, TypeOK, Senders
  <1>2. InOrder(w) /\ x[1] \in Endpoints
    BY InOrderIsTypeInv DEF Rows
  <1>3. IsFiniteSet(flight'[w]) /\ timeouts'[w] \in [Endpoints -> 0..Most]
    <2>1. IsFiniteSet(flight[w] \cup {<<x, "out">>})
      BY <1>2, CountAdd DEF InOrder
    <2> QED BY <1>1, <1>2, <2>1 DEF InOrder
  <1>4. LaneCounts(x[1], ToEndpoint(w, x[1]), Left(w, x[1]), timeouts[w][x[1]], paused[w])'
    <2>1. ToEndpoint(w, x[1])' = ToEndpoint(w, x[1]) \cup {<<x, "out">>}
      BY <1>1 DEF ToEndpoint
    <2>2. IsFiniteSet(ToEndpoint(w, x[1])) /\ Left(w, x[1]) # {} /\ timeouts[w][x[1]] \in 0..Most
      BY <1>1, <1>2, LaneIsFinite DEF InOrder, Left
    <2>3. LaneCounts(x[1], ToEndpoint(w, x[1]), Left(w, x[1]), timeouts[w][x[1]], paused[w])
      BY <1>2 DEF InOrder
    <2>4. LaneCounts(x[1], ToEndpoint(w, x[1]) \cup {<<x, "out">>}, Left(w, x[1])',
                     timeouts[w][x[1]], paused[w])
      BY <1>1, <2>2, <2>3, LaneTakes
    <2> QED BY <1>1, <2>1, <2>4 DEF LaneCounts
  <1>5. ASSUME NEW o \in Endpoints \ {x[1]}
        PROVE  LaneCounts(o, ToEndpoint(w, o), Left(w, o), timeouts[w][o], paused[w])'
    <2>1. ToEndpoint(w, o)' = ToEndpoint(w, o) /\ Left(w, o)' = Left(w, o)
      BY <1>1 DEF ToEndpoint, Left
    <2> QED BY <1>1, <2>1, OtherLanesStay DEF TypeInv
  <1> QED BY <1>3, <1>4, <1>5 DEF InOrder

(* A request of a runner ends: as many are in hand as before. *)
LEMMA PassHears ==
    ASSUME TypeInv, NEW w \in Workers, NEW x \in Rows, post(w, x)
    PROVE  InOrder(w)'
PROOF
  <1>1. PICK r \in Outcomes :
          flight' = [flight EXCEPT ![w] = (@ \ {<<x, "out">>}) \cup {<<x, r>>}]
    BY DEF post
  <1>2. <<x, "out">> \in flight[w] /\ paused' = paused /\ timeouts' = timeouts /\ queue' = queue
        /\ flight'[w] = (flight[w] \ {<<x, "out">>}) \cup {<<x, r>>}
    BY <1>1 DEF post, TypeInv, TypeOK, Senders
  <1>3. InOrder(w) /\ x[1] \in Endpoints
    BY InOrderIsTypeInv DEF Rows
  <1>4. IsFiniteSet(flight'[w]) /\ timeouts'[w] \in [Endpoints -> 0..Most]
    <2>1. IsFiniteSet(flight[w] \ {<<x, "out">>})
      BY <1>3, CountPart DEF InOrder
    <2> QED BY <1>2, <1>3, <2>1, CountAdd DEF InOrder
  <1>5. LaneCounts(x[1], ToEndpoint(w, x[1]), Left(w, x[1]), timeouts[w][x[1]], paused[w])'
    <2>1. ToEndpoint(w, x[1])' = (ToEndpoint(w, x[1]) \ {<<x, "out">>}) \cup {<<x, r>>}
          /\ <<x, "out">> \in ToEndpoint(w, x[1]) /\ Left(w, x[1])' = Left(w, x[1])
      BY <1>2 DEF ToEndpoint, Left
    <2>2. IsFiniteSet(ToEndpoint(w, x[1])) /\ timeouts[w][x[1]] \in 0..Most
      BY <1>3, LaneIsFinite DEF InOrder
    <2>3. LaneCounts(x[1], ToEndpoint(w, x[1]), Left(w, x[1]), timeouts[w][x[1]], paused[w])
      BY <1>3 DEF InOrder
    <2>4. LaneCounts(x[1], (ToEndpoint(w, x[1]) \ {<<x, "out">>}) \cup {<<x, r>>}, Left(w, x[1]),
                     timeouts[w][x[1]], paused[w])
      BY <2>1, <2>2, <2>3, LaneHears
    <2> QED BY <1>2, <2>1, <2>4 DEF LaneCounts
  <1>6. ASSUME NEW o \in Endpoints \ {x[1]}
        PROVE  LaneCounts(o, ToEndpoint(w, o), Left(w, o), timeouts[w][o], paused[w])'
    <2>1. ToEndpoint(w, o)' = ToEndpoint(w, o) /\ Left(w, o)' = Left(w, o)
      BY <1>2 DEF ToEndpoint, Left
    <2> QED BY <1>2, <2>1, OtherLanesStay DEF TypeInv
  <1> QED BY <1>4, <1>5, <1>6 DEF InOrder

(* The lane hears of an outcome, recorded in the log or not. *)
LEMMA PassRecords ==
    ASSUME TypeInv, NEW w \in Workers, NEW x \in Rows, NEW r \in Outcomes,
           <<x, r>> \in flight[w], flight' = [flight EXCEPT ![w] = @ \ {<<x, r>>}],
           record(w, x[1], r = "timedout"), queue' = queue
    PROVE  InOrder(w)'
PROOF
  <1> DEFINE m == IF r = "timedout" THEN timeouts[w][x[1]] + 1 ELSE 0
  <1>1. InOrder(w) /\ x[1] \in Endpoints
    BY InOrderIsTypeInv DEF Rows
  <1>2. flight'[w] = flight[w] \ {<<x, r>>}
        /\ timeouts'[w] = [timeouts[w] EXCEPT ![x[1]] = m]
        /\ paused'[w] = IF m >= TimeoutsBeforePause THEN paused[w] \cup {x[1]} ELSE paused[w]
    BY DEF record, TypeInv, TypeOK, Senders
  <1>3. ToEndpoint(w, x[1])' = ToEndpoint(w, x[1]) \ {<<x, r>>}
        /\ <<x, r>> \in ToEndpoint(w, x[1]) /\ Left(w, x[1])' = Left(w, x[1])
    BY <1>2 DEF ToEndpoint, Left
  <1>4. IsFiniteSet(ToEndpoint(w, x[1])) /\ timeouts[w][x[1]] \in 0..Most
        /\ LaneCounts(x[1], ToEndpoint(w, x[1]), Left(w, x[1]), timeouts[w][x[1]], paused[w])
    BY <1>1, LaneIsFinite DEF InOrder
  <1>5. m = timeouts[w][x[1]] + 1 \/ m = 0
    OBVIOUS
  <1>6. m \in 0..Most
        /\ LaneCounts(x[1], ToEndpoint(w, x[1]) \ {<<x, r>>}, Left(w, x[1]), m, paused'[w])
    <2> HIDE DEF m
    <2> QED BY <1>2, <1>3, <1>4, <1>5, LaneRecords
  <1>7. IsFiniteSet(flight'[w]) /\ timeouts'[w] \in [Endpoints -> 0..Most]
    <2> HIDE DEF m
    <2>1. IsFiniteSet(flight'[w])
      BY <1>1, <1>2, CountPart DEF InOrder
    <2> QED BY <1>1, <1>2, <1>6, <2>1 DEF InOrder
  <1>8. timeouts'[w][x[1]] = m
    <2> HIDE DEF m
    <2> QED BY <1>1, <1>2 DEF InOrder
  <1>9. LaneCounts(x[1], ToEndpoint(w, x[1]), Left(w, x[1]), timeouts[w][x[1]], paused[w])'
    <2> HIDE DEF m
    <2> QED BY <1>3, <1>6, <1>8 DEF LaneCounts
  <1>10. ASSUME NEW o \in Endpoints \ {x[1]}
         PROVE  LaneCounts(o, ToEndpoint(w, o), Left(w, o), timeouts[w][o], paused[w])'
    <2> HIDE DEF m
    <2>1. ToEndpoint(w, o)' = ToEndpoint(w, o) /\ Left(w, o)' = Left(w, o)
      BY <1>2 DEF ToEndpoint, Left
    <2>2. timeouts'[w][o] = timeouts[w][o] /\ (o \in paused'[w] <=> o \in paused[w])
      BY <1>1, <1>2 DEF InOrder
    <2> QED BY <2>1, <2>2, OtherLanesStay DEF TypeInv
  <1> QED BY <1>7, <1>9, <1>10 DEF InOrder

(* Another event has one of the lane's places, so one request less than
   those that fit is out when it ends the lane. *)
LEMMA PassHearsOthers ==
    ASSUME TypeInv, NEW w \in Workers, NEW p \in Endpoints, Others(w, p)
    PROVE  InOrder(w)'
PROOF
  <1>1. InOrder(w) /\ p \notin paused[w] /\ Cardinality(ToEndpoint(w, p)) < MaxInFlight
        /\ flight' = flight /\ queue' = queue
    BY InOrderIsTypeInv DEF Others
  <1>2. PICK m \in {0, TimeoutsBeforePause} :
          /\ timeouts'[w] = [timeouts[w] EXCEPT ![p] = m]
          /\ \/ m = 0 /\ paused'[w] = paused[w]
             \/ m > 0 /\ paused'[w] = paused[w] \cup {p}
    <2> USE DEF TypeInv, TypeOK
    <2>1. CASE timeouts' = [timeouts EXCEPT ![w][p] = 0] /\ paused' = paused
      <3>1. timeouts'[w] = [timeouts[w] EXCEPT ![p] = 0]
        BY <2>1
      <3> QED BY <2>1, <3>1
    <2>2. CASE /\ timeouts' = [timeouts EXCEPT ![w][p] = TimeoutsBeforePause]
               /\ paused' = [paused EXCEPT ![w] = @ \cup {p}]
      <3>1. timeouts'[w] = [timeouts[w] EXCEPT ![p] = TimeoutsBeforePause]
        BY <2>2
      <3>2. paused'[w] = paused[w] \cup {p} /\ TimeoutsBeforePause > 0
        BY <2>2, WebhookAssumption
      <3> QED BY <3>1, <3>2
    <2> QED BY <2>1, <2>2 DEF Others
  <1>3. m \in 0..Most /\ IsFiniteSet(flight'[w]) /\ timeouts'[w] \in [Endpoints -> 0..Most]
        /\ timeouts'[w][p] = m
    <2>1. m \in 0..Most
      BY WebhookAssumption DEF Most
    <2> QED BY <1>1, <1>2, <2>1 DEF InOrder
  <1>4. LaneCounts(p, ToEndpoint(w, p), Left(w, p), timeouts[w][p], paused[w])'
    <2>1. ToEndpoint(w, p)' = ToEndpoint(w, p) /\ Left(w, p)' = Left(w, p)
      BY <1>1 DEF ToEndpoint, Left
    <2>2. Cardinality(ToEndpoint(w, p)) \in Nat
      BY <1>1, LaneIsFinite, FS_CardinalityType DEF InOrder
    <2> QED BY <1>1, <1>2, <1>3, <2>1, <2>2, WebhookAssumption DEF LaneCounts
  <1>5. ASSUME NEW o \in Endpoints \ {p}
        PROVE  LaneCounts(o, ToEndpoint(w, o), Left(w, o), timeouts[w][o], paused[w])'
    <2>1. ToEndpoint(w, o)' = ToEndpoint(w, o) /\ Left(w, o)' = Left(w, o)
      BY <1>1 DEF ToEndpoint, Left
    <2>2. timeouts'[w][o] = timeouts[w][o] /\ (o \in paused'[w] <=> o \in paused[w])
      BY <1>1, <1>2 DEF InOrder
    <2> QED BY <2>1, <2>2, OtherLanesStay DEF TypeInv
  <1> QED BY <1>3, <1>4, <1>5 DEF InOrder

(* Every step leaves the passes of all workers in order: it moves the lanes of
   one worker at most. *)
LEMMA PassesStayInOrder ==
    ASSUME TypeInv, [Next]_vars, NEW w \in Workers
    PROVE  InOrder(w)'
PROOF
  <1> USE DEF TypeInv, TypeOK
  <1>a. w \notin Requests /\ w \in Senders
    BY WebhookAssumption DEF Senders
  <1>1. ASSUME NEW p \in Endpoints, NEW e \in Events, Enqueue(p, e) PROVE InOrder(w)'
    BY <1>1, PassStays DEF Enqueue
  <1>2. ASSUME NEW x \in Rows, TimePasses(x) PROVE InOrder(w)'
    BY <1>2, PassStays DEF TimePasses
  <1>3. ASSUME NEW v \in Workers, SendDue(v) PROVE InOrder(w)'
    <2>1. CASE v = w
      BY <1>3, <2>1, PassBegins
    <2>2. CASE v # w
      BY <1>3, <2>2, PassStays DEF SendDue
    <2> QED BY <2>1, <2>2
  <1>4. ASSUME NEW v \in Workers, NEW p \in Endpoints, pause(v, p) PROVE InOrder(w)'
    <2>1. CASE v = w
      BY <1>4, <2>1, PassPauses
    <2>2. CASE v # w
      <3>1. flight'[w] = flight[w] /\ queue'[w] = queue[w] /\ timeouts'[w] = timeouts[w]
            /\ paused'[w] = paused[w]
        BY <1>4, <2>2 DEF pause
      <3> QED BY <3>1, PassStays
    <2> QED BY <2>1, <2>2
  <1>5. ASSUME NEW q \in Requests, NEW p \in Endpoints, NEW e \in Events, Redeliver(q, p, e)
        PROVE  InOrder(w)'
    <2>1. flight'[w] = flight[w] /\ queue' = queue /\ timeouts' = timeouts /\ paused' = paused
      BY <1>5, <1>a DEF Redeliver
    <2> QED BY <2>1, PassStays
  <1>6. ASSUME NEW v \in Workers, NEW x \in Rows, next(v, x) PROVE InOrder(w)'
    <2>1. CASE v = w
      BY <1>6, <2>1, PassTakes
    <2>2. CASE v # w
      <3>1. flight'[w] = flight[w] /\ queue'[w] = queue[w] /\ timeouts' = timeouts /\ paused' = paused
        BY <1>6, <2>2, <1>a DEF next
      <3> QED BY <3>1, PassStays
    <2> QED BY <2>1, <2>2
  <1>7. ASSUME NEW s \in Senders, NEW x \in Rows, post(s, x) PROVE InOrder(w)'
    <2>1. CASE s = w
      BY <1>7, <2>1, PassHears
    <2>2. CASE s # w
      <3>1. flight'[w] = flight[w] /\ queue' = queue /\ timeouts' = timeouts /\ paused' = paused
        BY <1>7, <2>2, <1>a DEF post
      <3> QED BY <3>1, PassStays
    <2> QED BY <2>1, <2>2
  <1>8. ASSUME NEW s \in Senders, NEW x \in Rows, NEW r \in Outcomes,
               send(s, x, r) \/ SendFails(s, x, r)
        PROVE  InOrder(w)'
    <2>1. <<x, r>> \in flight[s] /\ flight' = [flight EXCEPT ![s] = @ \ {<<x, r>>}] /\ queue' = queue
          /\ \/ s \in Workers /\ record(s, x[1], r = "timedout")
             \/ s \in Requests /\ timeouts' = timeouts /\ paused' = paused
      BY <1>8 DEF send, SendFails
    <2>2. CASE s = w
      BY <2>1, <2>2, <1>a, PassRecords
    <2>3. CASE s # w
      <3>1. timeouts'[w] = timeouts[w] /\ paused'[w] = paused[w]
        BY <2>1, <2>3 DEF record
      <3>2. flight'[w] = flight[w]
        BY <2>1, <2>3, <1>a
      <3> QED BY <2>1, <3>1, <3>2, PassStays
    <2> QED BY <2>2, <2>3
  <1>9. ASSUME NEW s \in Senders, Crash(s) PROVE InOrder(w)'
    <2>1. CASE s = w
      BY <1>9, <2>1, PassDies
    <2>2. CASE s # w
      <3>1. flight'[w] = flight[w] /\ queue'[w] = queue[w] /\ timeouts' = timeouts /\ paused'[w] = paused[w]
        BY <1>9, <2>2, <1>a DEF Crash
      <3> QED BY <3>1, PassStays
    <2> QED BY <2>1, <2>2
  <1>10. ASSUME NEW v \in Workers, NEW p \in Endpoints, Others(v, p) PROVE InOrder(w)'
    <2>1. CASE v = w
      BY <1>10, <2>1, PassHearsOthers
    <2>2. CASE v # w
      <3>1. flight' = flight /\ queue' = queue /\ timeouts'[w] = timeouts[w] /\ paused'[w] = paused[w]
        BY <1>10, <2>2 DEF Others
      <3> QED BY <3>1, PassStays
    <2> QED BY <2>1, <2>2
  <1>11. CASE UNCHANGED vars
    BY <1>11, PassStays DEF vars
  <1> QED
    BY <1>1, <1>2, <1>3, <1>4, <1>5, <1>6, <1>7, <1>8, <1>9, <1>10, <1>11 DEF Next, Sending

LEMMA StepTypeInv == IInv /\ TypeInv /\ [Next]_vars => TypeInv'
PROOF
  <1> SUFFICES ASSUME IInv, TypeInv, [Next]_vars PROVE TypeInv'
    OBVIOUS
  <1>1. row' \in [Rows -> States] /\ queue' \in [Workers -> SUBSET Rows]
        /\ flight' \in [Senders -> SUBSET (Rows \X Outcomes)]
    BY StepIInv DEF IInv
  <1>2. \A w \in Workers : InOrder(w)'
    BY PassesStayInOrder
  <1>3. LanesCount'
    BY <1>2 DEF LanesCount, InOrder
  <1>4. timeouts' \in [Workers -> [Endpoints -> 0..Most]]
    <2>1. \A w \in Workers : timeouts'[w] \in [Endpoints -> 0..Most]
      BY <1>2 DEF InOrder
    <2>2. timeouts' = [w \in Workers |-> timeouts'[w]]
      <3>1. \/ UNCHANGED timeouts
            \/ \E w \in Workers : SendDue(w) \/ \E x \in Rows, t \in BOOLEAN : record(w, x[1], t)
            \/ \E w \in Workers, p \in Endpoints : Others(w, p)
        BY DEF Next, Sending, Enqueue, TimePasses, pause, Redeliver, Crash, SendFails,
               send, next, post, vars
      <3> QED BY <3>1 DEF SendDue, record, Others, TypeInv, TypeOK
    <2> QED BY <2>1, <2>2
  <1>5. posted' \in [Rows -> 0..2] /\ redelivered' \subseteq Rows
        /\ paused' \in [Workers -> SUBSET Endpoints] /\ faults' \in 0..MaxFaults
    BY PlainTypes DEF TypeInv
  <1>6. TypeOK'
    BY <1>1, <1>4, <1>5 DEF TypeOK, Most
  <1> QED BY <1>3, <1>6 DEF TypeInv

(* Every variable keeps its type.  The part that is not obvious is the bound
   on a lane's timeouts, TimeoutsBeforePause + MaxInFlight - 1: record ends
   the lane, next takes nothing more from it, and what was out when it ended
   is all that can still time out. *)
THEOREM TypeCorrect == Spec => []TypeOK
PROOF
  <1>1. Init => IInv /\ TypeInv
    BY InitIInv, InitTypeInv
  <1>2. IInv /\ TypeInv /\ [Next]_vars => (IInv /\ TypeInv)'
    BY StepIInv, StepTypeInv
  <1>3. IInv /\ TypeInv => TypeOK
    BY DEF TypeInv
  <1> QED BY <1>1, <1>2, <1>3, PTL DEF Spec

-----------------------------------------------------------------------------
(***************************************************************************)
(* Retries nobody asked for.  posted only grows, so a step keeps the count *)
(* when it neither concludes a row, nor gives a sender an answer, nor adds *)
(* a retry; post and send, which do, are looked at by themselves.          *)
(***************************************************************************)
CountInv == AttemptsAreCounted /\ NoNeedlessRetry

LEMMA CountsStay ==
    ASSUME TypeOK, CountInv, posted' = posted, redelivered \subseteq redelivered',
           \A d \in Rows : /\ Concluded(d)' <=> Concluded(d)
                           /\ row'[d] = "delivered" <=> row[d] = "delivered"
                           /\ row'[d] # "none" /\ row[d] = "none" => d \in redelivered' \/ d[3] = 1,
           \A s \in Senders, d \in Rows : Answered(s, d)' \subseteq Answered(s, d)
    PROVE  CountInv'
PROOF
  <1>1. \A d \in Rows : After(d) \in Rows => After(d)[3] # 1
    BY WebhookAssumption DEF Rows, Attempts, After
  <1>2. ASSUME NEW d \in Rows, After(d) \in Rows \ redelivered', row'[After(d)] # "none"
        PROVE  After(d) \notin redelivered /\ row[After(d)] # "none"
    BY <1>1, <1>2
  <1>3. AttemptsAreCounted'
    <2> SUFFICES ASSUME NEW d \in Rows
                 PROVE  /\ Concluded(d)' => posted[d] >= 1
                        /\ \A s \in Senders : \A f \in Answered(s, d)' :
                             /\ posted[d] >= 1
                             /\ Concluded(d)' => posted[d] > 1
                             /\ \A t \in Senders : \A g \in Answered(t, d)' :
                                  <<s, f>> # <<t, g>> => posted[d] > 1
                        /\ After(d) \in Rows \ redelivered' /\ row'[After(d)] # "none" => Concluded(d)'
      BY DEF AttemptsAreCounted, After
    <2> QED BY <1>2 DEF CountInv, AttemptsAreCounted
  <1>4. NoNeedlessRetry'
    <2> SUFFICES ASSUME NEW d \in Rows, row'[d] = "delivered", After(d) \in Rows,
                        row'[After(d)] # "none", After(d) \notin redelivered'
                 PROVE  posted[d] > 1
      BY DEF NoNeedlessRetry, After
    <2> QED BY <1>2 DEF CountInv, NoNeedlessRetry
  <1> QED BY <1>3, <1>4 DEF CountInv

(* A post adds one answer, and one to the count. *)
LEMMA PostIsCounted ==
    ASSUME TypeOK, CountInv, NEW s \in Senders, NEW x \in Rows, post(s, x)
    PROVE  CountInv'
PROOF
  <1>1. PICK r \in Outcomes :
          flight' = [flight EXCEPT ![s] = (@ \ {<<x, "out">>}) \cup {<<x, r>>}]
    BY DEF post
  <1>2. row' = row /\ redelivered' = redelivered
        /\ posted' = [posted EXCEPT ![x] = IF @ = 2 THEN 2 ELSE @ + 1]
    BY DEF post
  <1>3. \A d \in Rows : Concluded(d)' <=> Concluded(d)
    BY <1>2 DEF Concluded
  <1>4. ASSUME NEW t \in Senders, NEW d \in Rows, NEW f \in Answered(t, d)'
        PROVE  f \in Answered(t, d) \/ (d = x /\ t = s /\ f = <<x, r>>)
    BY <1>1, <1>4 DEF Answered, TypeOK
  <1>5. \A d \in Rows : posted[d] \in 0..2 /\ (d # x => posted'[d] = posted[d])
    BY <1>2 DEF TypeOK
  <1>6. posted'[x] = IF posted[x] = 2 THEN 2 ELSE posted[x] + 1
    BY <1>2 DEF TypeOK
  <1>7. posted'[x] >= 1 /\ (posted[x] >= 1 => posted'[x] > 1) /\ posted'[x] >= posted[x]
    BY <1>5, <1>6
  <1>8. ASSUME NEW d \in Rows
        PROVE  /\ Concluded(d)' => posted'[d] >= 1
               /\ \A t \in Senders : \A f \in Answered(t, d)' :
                    /\ posted'[d] >= 1
                    /\ Concluded(d)' => posted'[d] > 1
                    /\ \A u \in Senders : \A g \in Answered(u, d)' :
                         <<t, f>> # <<u, g>> => posted'[d] > 1
               /\ After(d) \in Rows \ redelivered' /\ row'[After(d)] # "none" => Concluded(d)'
    <2>1. CASE d = x
      <3>1. Concluded(x) => posted[x] >= 1
        BY DEF CountInv, AttemptsAreCounted
      <3>2. ASSUME NEW t \in Senders, NEW f \in Answered(t, x)', NEW u \in Senders,
                   NEW g \in Answered(u, x)', <<t, f>> # <<u, g>>
            PROVE  posted[x] >= 1
        <4>1. f \in Answered(t, x) \/ g \in Answered(u, x)
          BY <1>4, <3>2
        <4> QED BY <4>1 DEF CountInv, AttemptsAreCounted
      <3>3. After(x) \in Rows \ redelivered' /\ row'[After(x)] # "none" => Concluded(x)'
        BY <1>2, <1>3 DEF CountInv, AttemptsAreCounted
      <3> QED BY <2>1, <1>3, <1>7, <3>1, <3>2, <3>3
    <2>2. CASE d # x
      <3>1. \A t \in Senders : Answered(t, d)' \subseteq Answered(t, d)
        BY <1>4, <2>2
      <3> QED BY <1>2, <1>3, <1>5, <2>2, <3>1 DEF CountInv, AttemptsAreCounted
    <2> QED BY <2>1, <2>2
  <1>9. AttemptsAreCounted'
    BY <1>8 DEF AttemptsAreCounted, After
  <1>10. NoNeedlessRetry'
    <2> SUFFICES ASSUME NEW d \in Rows, row[d] = "delivered", After(d) \in Rows,
                        row[After(d)] # "none", After(d) \notin redelivered
                 PROVE  posted'[d] > 1
      BY <1>2 DEF NoNeedlessRetry, After
    <2>1. posted[d] > 1
      BY DEF CountInv, NoNeedlessRetry
    <2> QED BY <2>1, <1>5, <1>7
  <1> QED BY <1>9, <1>10 DEF CountInv

(* An outcome on record takes the answer out of its sender's hands, and adds
   a retry behind its own row only. *)
LEMMA OutcomeIsCounted ==
    ASSUME IInv, TypeOK, CountInv, NEW s \in Senders, NEW x \in Rows, NEW r \in Outcomes, send(s, x, r)
    PROVE  CountInv'
PROOF
  <1>1. <<x, r>> \in flight[s] /\ r # "out" /\ row' = outcome(x, r)
        /\ flight' = [flight EXCEPT ![s] = @ \ {<<x, r>>}]
        /\ posted' = posted /\ redelivered' = redelivered
    BY DEF send
  <1>2. <<x, r>> \in Answered(s, x)
    BY <1>1 DEF Answered
  <1>3. ASSUME NEW t \in Senders, NEW d \in Rows, NEW f \in Answered(t, d)'
        PROVE  f \in Answered(t, d) /\ (d = x => <<t, f>> # <<s, <<x, r>>>>)
    BY <1>1, <1>3 DEF Answered, TypeOK
  <1>4. posted[x] >= 1 /\ (Concluded(x) => posted[x] > 1)
        /\ \A t \in Senders : \A f \in Answered(t, x)' : posted[x] > 1
    BY <1>2, <1>3 DEF CountInv, AttemptsAreCounted
  <1>5. Concluded(x)' /\ \A d \in Rows : d # x => (Concluded(d)' <=> Concluded(d))
    BY <1>1 DEF outcome, Backoff, Concluded
  <1>6. ASSUME NEW d \in Rows, After(d) \in Rows, row'[After(d)] # "none"
        PROVE  row[After(d)] # "none" \/ (d = x /\ r # "accepted")
    <2>1. After(d) # x \/ row[x] # "none"
      BY <1>1 DEF IInv, SendersHoldLoggedRows
    <2>2. After(d) = After(x) => d = x
      BY WebhookAssumption DEF After, Rows, Attempts
    <2> QED BY <1>1, <1>6, <2>1, <2>2 DEF outcome
  <1>7. ASSUME NEW d \in Rows
        PROVE  /\ Concluded(d)' => posted[d] >= 1
               /\ \A t \in Senders : \A f \in Answered(t, d)' :
                    /\ posted[d] >= 1
                    /\ Concluded(d)' => posted[d] > 1
                    /\ \A u \in Senders : \A g \in Answered(u, d)' :
                         <<t, f>> # <<u, g>> => posted[d] > 1
               /\ After(d) \in Rows \ redelivered /\ row'[After(d)] # "none" => Concluded(d)'
    <2>1. CASE d = x
      BY <1>4, <1>5, <2>1
    <2>2. CASE d # x
      BY <1>3, <1>5, <1>6, <2>2 DEF CountInv, AttemptsAreCounted
    <2> QED BY <2>1, <2>2
  <1>8. AttemptsAreCounted'
    BY <1>1, <1>7 DEF AttemptsAreCounted, After
  <1>9. NoNeedlessRetry'
    <2> SUFFICES ASSUME NEW d \in Rows, row'[d] = "delivered", After(d) \in Rows,
                        row'[After(d)] # "none", After(d) \notin redelivered
                 PROVE  posted[d] > 1
      BY <1>1 DEF NoNeedlessRetry, After
    <2>1. CASE d = x
      <3>1. Concluded(x)
        <4>1. CASE row[After(x)] # "none"
          BY <4>1, <2>1 DEF CountInv, AttemptsAreCounted
        <4>2. CASE row[After(x)] = "none"
          <5>1. r # "accepted"
            BY <1>6, <2>1, <4>2
          <5> QED BY <1>1, <2>1, <5>1 DEF outcome, Concluded
        <4> QED BY <4>1, <4>2
      <3> QED BY <1>4, <2>1, <3>1
    <2>2. CASE d # x
      <3>1. row[d] = "delivered" /\ row[After(d)] # "none"
        BY <1>1, <1>6, <2>2 DEF outcome, Backoff
      <3> QED BY <3>1 DEF CountInv, NoNeedlessRetry
    <2> QED BY <2>1, <2>2
  <1> QED BY <1>8, <1>9 DEF CountInv

LEMMA InitCountInv == Init => CountInv
BY WebhookAssumption DEF Init, CountInv, AttemptsAreCounted, NoNeedlessRetry, Concluded, Answered

LEMMA StepCountInv == IInv /\ TypeOK /\ CountInv /\ [Next]_vars => CountInv'
PROOF
  <1> SUFFICES ASSUME IInv, TypeOK, CountInv, [Next]_vars PROVE CountInv'
    OBVIOUS
  <1> USE DEF TypeOK
  <1> DEFINE RowsStay == row' = row /\ posted' = posted /\ redelivered' = redelivered
             Hands == \A s \in Senders, d \in Rows : Answered(s, d)' \subseteq Answered(s, d)
  <1>0. ASSUME RowsStay, Hands PROVE CountInv'
    BY <1>0, CountsStay DEF Concluded
  <1>1. ASSUME NEW p \in Endpoints, NEW e \in Events, Enqueue(p, e) PROVE CountInv'
    <2>1. <<p, e, 1>> \in Rows
      BY WebhookAssumption DEF Rows, Attempts
    <2>2. row' = [row EXCEPT ![<<p, e, 1>>] = "due"] /\ row[<<p, e, 1>>] = "none"
          /\ flight' = flight /\ posted' = posted /\ redelivered' = redelivered
      BY <1>1 DEF Enqueue
    <2>3. \A d \in Rows : /\ Concluded(d)' <=> Concluded(d)
                          /\ row'[d] = "delivered" <=> row[d] = "delivered"
                          /\ row'[d] # "none" /\ row[d] = "none" => d[3] = 1
      <3>1. \A d \in Rows : d = <<p, e, 1>> \/ row'[d] = row[d]
        BY <2>2
      <3>2. row'[<<p, e, 1>>] = "due" /\ <<p, e, 1>>[3] = 1
        BY <2>1, <2>2
      <3> QED BY <2>2, <3>1, <3>2 DEF Concluded
    <2>4. Hands
      BY <2>2 DEF Answered
    <2> QED BY <2>2, <2>3, <2>4, CountsStay
  <1>2. ASSUME NEW x \in Rows, TimePasses(x) PROVE CountInv'
    <2>1. row[x] \in {"waiting", "soon"} /\ flight' = flight
          /\ posted' = posted /\ redelivered' = redelivered
      BY <1>2 DEF TimePasses
    <2>a. PICK t \in {"soon", "due"} : row' = [row EXCEPT ![x] = t]
      BY <1>2 DEF TimePasses
    <2>2. \A d \in Rows : /\ Concluded(d)' <=> Concluded(d)
                          /\ row'[d] = "delivered" <=> row[d] = "delivered"
                          /\ row'[d] # "none" => row[d] # "none"
      BY <2>1, <2>a DEF Concluded
    <2>3. Hands
      BY <2>1 DEF Answered
    <2> QED BY <2>1, <2>2, <2>3, CountsStay
  <1>3. ASSUME NEW w \in Workers, SendDue(w) PROVE CountInv'
    <2>1. RowsStay /\ flight' = flight
      BY <1>3 DEF SendDue
    <2> QED BY <2>1, <1>0 DEF Answered
  <1>4. ASSUME NEW w \in Workers, NEW p \in Endpoints, pause(w, p) PROVE CountInv'
    <2>1. flight' = flight /\ posted' = posted /\ redelivered' = redelivered
      BY <1>4 DEF pause
    <2>2. \A d \in Rows : /\ Concluded(d)' <=> Concluded(d)
                          /\ row'[d] = "delivered" <=> row[d] = "delivered"
                          /\ row'[d] # "none" => row[d] # "none"
      BY <1>4 DEF pause, Concluded, Live
    <2>3. Hands
      BY <2>1 DEF Answered
    <2> QED BY <2>1, <2>2, <2>3, CountsStay
  <1>5. ASSUME NEW q \in Requests, NEW p \in Endpoints, NEW e \in Events, Redeliver(q, p, e)
        PROVE  CountInv'
    <2>1. PICK a \in Attempts :
            /\ a > 1 /\ row[<<p, e, a>>] = "none"
            /\ row' = [row EXCEPT ![<<p, e, a>>] = "due"]
            /\ redelivered' = redelivered \cup {<<p, e, a>>}
            /\ flight' = [flight EXCEPT ![q] = {<<<<p, e, a>>, "out">>}]
      BY <1>5 DEF Redeliver
    <2>2. <<p, e, a>> \in Rows /\ q \in Senders /\ posted' = posted
      BY <1>5 DEF Rows, Senders, Redeliver
    <2>3. \A d \in Rows : /\ Concluded(d)' <=> Concluded(d)
                          /\ row'[d] = "delivered" <=> row[d] = "delivered"
                          /\ row'[d] # "none" /\ row[d] = "none" => d \in redelivered'
      BY <2>1, <2>2 DEF Concluded
    <2>4. Hands
      BY <2>1, <2>2 DEF Answered
    <2>5. redelivered \subseteq redelivered'
      BY <2>1
    <2> QED BY <2>2, <2>3, <2>4, <2>5, CountsStay
  <1>6. ASSUME NEW w \in Workers, NEW x \in Rows, next(w, x) PROVE CountInv'
    <2>1. RowsStay /\ flight' = [flight EXCEPT ![w] = @ \cup {<<x, "out">>}]
      BY <1>6 DEF next
    <2>2. Hands
      BY <2>1 DEF Answered, Senders
    <2> QED BY <2>1, <2>2, <1>0
  <1>7. ASSUME NEW s \in Senders, NEW x \in Rows, post(s, x) PROVE CountInv'
    BY <1>7, PostIsCounted
  <1>8. ASSUME NEW s \in Senders, NEW x \in Rows, NEW r \in Outcomes, send(s, x, r) PROVE CountInv'
    BY <1>8, OutcomeIsCounted
  <1>9. ASSUME NEW s \in Senders, NEW x \in Rows, NEW r \in Outcomes, SendFails(s, x, r)
        PROVE  CountInv'
    <2>1. RowsStay /\ flight' = [flight EXCEPT ![s] = @ \ {<<x, r>>}]
      BY <1>9 DEF SendFails
    <2>2. Hands
      BY <2>1 DEF Answered
    <2> QED BY <2>1, <2>2, <1>0
  <1>10. ASSUME NEW s \in Senders, Crash(s) PROVE CountInv'
    <2>1. RowsStay /\ flight' = [flight EXCEPT ![s] = {}]
      BY <1>10 DEF Crash
    <2>2. Hands
      BY <2>1 DEF Answered
    <2> QED BY <2>1, <2>2, <1>0
  <1>11. CASE UNCHANGED vars
    <2>1. RowsStay /\ flight' = flight
      BY <1>11 DEF vars
    <2> QED BY <2>1, <1>0 DEF Answered
  <1>12. ASSUME NEW w \in Workers, NEW p \in Endpoints, Others(w, p) PROVE CountInv'
    <2>1. RowsStay /\ flight' = flight
      BY <1>12 DEF Others
    <2> QED BY <2>1, <1>0 DEF Answered
  <1> QED
    BY <1>1, <1>2, <1>3, <1>4, <1>5, <1>6, <1>7, <1>8, <1>9, <1>10, <1>11, <1>12 DEF Next, Sending

(* An event on record as delivered is tried again only where an administrator
   asked for it, or where two senders posted the delivered attempt, which no
   lock keeps them from: outcome adds a retry behind a failed post only. *)
THEOREM RetriesAreNeeded == Spec => []NoNeedlessRetry
PROOF
  <1> DEFINE Inv == IInv /\ TypeInv /\ CountInv
  <1>1. Init => Inv
    BY InitIInv, InitTypeInv, InitCountInv
  <1>2. Inv /\ [Next]_vars => Inv'
    BY StepIInv, StepTypeInv, StepCountInv DEF TypeInv
  <1>3. Inv => NoNeedlessRetry
    BY DEF CountInv
  <1> QED BY <1>1, <1>2, <1>3, PTL DEF Spec

=============================================================================
