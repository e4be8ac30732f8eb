----------------------- MODULE ReadYourWrites_proofs -----------------------
(***************************************************************************)
(* Read-your-writes for any number of sessions, replicas and requests: as  *)
(* long as a session's position is kept, no read hides its own change.     *)
(***************************************************************************)
EXTENDS ReadYourWrites, FiniteSetTheorems, TLAPS

(* The positions compared everywhere are integers. *)
LEMMA Positions ==
    /\ LSN \subseteq Nat /\ 0 \in LSN /\ None \notin LSN
    /\ \A a, b \in LSN : Greater(a, b) \in LSN /\ Greater(a, b) >= a /\ Greater(a, b) >= b
    /\ \A a \in LSN : a < MaxWrites => a + 1 \in LSN
BY FreshnessAssumption DEF LSN, None, Greater

(* An idle request is a request. *)
LEMMA IdleIsARequest == \A s \in Sessions : Idle(s) \in Request
BY Positions DEF Idle, Request

(* A window stays a window. *)
LEMMA AddIsAWindow ==
    ASSUME NEW window \in Seq(BOOLEAN), Len(window) <= Samples, NEW late \in BOOLEAN
    PROVE  add(window, late) \in Seq(BOOLEAN) /\ Len(add(window, late)) <= Samples
PROOF
  <1>1. CASE Len(window) < Samples
    BY <1>1, FreshnessAssumption DEF add
  <1>2. CASE ~(Len(window) < Samples)
    <2>1. window # <<>> /\ Tail(window) \in Seq(BOOLEAN) /\ Len(Tail(window)) = Len(window) - 1
      BY <1>2, FreshnessAssumption
    <2> QED BY <1>2, <2>1, FreshnessAssumption DEF add
  <1> QED BY <1>1, <1>2

LEMMA InitIInv == Init => IInv
PROOF
  <1> SUFFICES ASSUME Init PROVE IInv
    OBVIOUS
  <1>1. \A q \in Requests : \E s \in Sessions : request[q] = Idle(s)
    BY DEF Init
  <1>2. request \in [Requests -> Request]
    BY IdleIsARequest DEF Init
  <1>3. TypeOK
    BY <1>2, Positions, FreshnessAssumption DEF Init, TypeOK
  <1>4. ReadingsArePast
    BY DEF Init, ReadingsArePast
  <1>5. MarksCoverAnswers
    BY DEF Init, MarksCoverAnswers
  <1>6. PinsCoverAnswers
    BY <1>1 DEF Init, PinsCoverAnswers, Idle
  <1>7. KeptMarksAreHonoured
    <2>1. \A q \in Requests : request[q].seen = None
      <3>1. \A s \in Sessions : Idle(s).seen = None
        BY DEF Idle
      <3> QED BY <1>1, <3>1
    <2> QED BY <2>1 DEF KeptMarksAreHonoured
  <1> QED BY <1>3, <1>4, <1>5, <1>6, <1>7 DEF IInv

-----------------------------------------------------------------------------
(* The steps of the replicas and of the health loop leave sessions and
   requests alone: the invariant's halves over those stay as they are. *)
LEMMA NodesLeaveSessionsAlone ==
    ASSUME IInv, wal' = wal, mark' = mark, request' = request, acked' = acked, lost' = lost
    PROVE  MarksCoverAnswers' /\ PinsCoverAnswers' /\ KeptMarksAreHonoured'
BY DEF IInv, MarksCoverAnswers, PinsCoverAnswers, KeptMarksAreHonoured

(* Every step of a replica or of the health loop keeps the invariant. *)
LEMMA ReplicaStep ==
    ASSUME IInv, NEW r \in Replicas,
           Receive(r) \/ Replay(r) \/ ReceiverDrops(r) \/ ReceiverReturns(r)
             \/ check(r) \/ markUnhealthy(r)
    PROVE  IInv' /\ mark' = mark
PROOF
  <1>1. wal' = wal /\ mark' = mark /\ request' = request /\ acked' = acked /\ lost' = lost
    BY DEF Receive, Replay, ReceiverDrops, ReceiverReturns, check, judge, markUnhealthy, nodes, health
  <1>2. wal \in Nat /\ wal <= MaxWrites /\ MaxWrites \in Nat /\ received \in [Replicas -> Nat] /\ replayed \in [Replicas -> Nat]
        /\ \A x \in Replicas : replayLSN[x] <= replayed[x] /\ replayed[x] <= received[x]
                                /\ received[x] <= wal
    <2>1. wal \in Nat /\ wal <= MaxWrites /\ MaxWrites \in Nat
      BY FreshnessAssumption DEF IInv, TypeOK, LSN
    <2>2. received \in [Replicas -> Nat] /\ replayed \in [Replicas -> Nat]
      BY Positions DEF IInv, TypeOK
    <2> QED BY <2>1, <2>2 DEF IInv, ReadingsArePast
  <1>3. CASE Receive(r)
    <2>1. TypeOK'
      <3>1. received'[r] \in LSN
        <4>1. received'[r] = received[r] + 1 /\ received[r] < wal
          BY <1>2, <1>3 DEF Receive
        <4> QED BY <1>2, <4>1 DEF LSN
      <3>2. received' \in [Replicas -> LSN]
        BY <1>3, <3>1 DEF Receive, IInv, TypeOK
      <3> QED BY <1>1, <1>3, <3>2 DEF Receive, IInv, TypeOK, health
    <2>2. ReadingsArePast'
      BY <1>1, <1>2, <1>3 DEF Receive, ReadingsArePast, health, IInv, TypeOK
    <2> QED BY <1>1, <2>1, <2>2, NodesLeaveSessionsAlone DEF IInv
  <1>4. CASE Replay(r)
    <2>1. TypeOK'
      <3>1. replayed'[r] \in LSN
        <4>1. replayed'[r] = replayed[r] + 1 /\ replayed[r] < wal
          BY <1>2, <1>4 DEF Replay
        <4> QED BY <1>2, <4>1 DEF LSN
      <3>2. replayed' \in [Replicas -> LSN]
        BY <1>4, <3>1 DEF Replay, IInv, TypeOK
      <3> QED BY <1>1, <1>4, <3>2 DEF Replay, IInv, TypeOK, health
    <2>2. ReadingsArePast'
      <3>1. \A x \in Replicas : replayLSN[x] \in Nat
        BY Positions DEF IInv, TypeOK
      <3> QED BY <1>1, <1>2, <1>4, <3>1 DEF Replay, ReadingsArePast, health, IInv, TypeOK
    <2> QED BY <1>1, <2>1, <2>2, NodesLeaveSessionsAlone DEF IInv
  <1>5. CASE ReceiverDrops(r) \/ ReceiverReturns(r)
    <2>1. receiver' \in [Replicas -> {"streaming", "waiting", "gone"}]
      BY <1>5 DEF ReceiverDrops, ReceiverReturns, IInv, TypeOK
    <2>2. faults' \in 0..MaxFaults
      BY <1>5, FreshnessAssumption DEF ReceiverDrops, ReceiverReturns, Fault, IInv, TypeOK
    <2>3. received' = received /\ replayed' = replayed /\ replayLSN' = replayLSN
          /\ healthy' = healthy /\ lags' = lags
      BY <1>5 DEF ReceiverDrops, ReceiverReturns, health
    <2>4. TypeOK'
      BY <1>1, <2>1, <2>2, <2>3 DEF IInv, TypeOK
    <2>5. ReadingsArePast'
      BY <1>1, <2>3 DEF IInv, ReadingsArePast
    <2> QED BY <1>1, <2>4, <2>5, NodesLeaveSessionsAlone DEF IInv
  <1>6. CASE check(r)
    <2>1. received' = received /\ replayed' = replayed /\ receiver' = receiver /\ faults' = faults
          /\ replayLSN' = [replayLSN EXCEPT ![r] = replayed[r]]
      BY <1>6 DEF check, judge, nodes
    <2>2. lags' \in [Replicas -> Seq(BOOLEAN)] /\ \A x \in Replicas : Len(lags'[x]) <= Samples
      <3>1. CASE lags' = lags
        BY <3>1 DEF IInv, TypeOK
      <3>2. CASE \E late \in BOOLEAN : lags' = [lags EXCEPT ![r] = add(@, late)]
        <4>1. PICK late \in BOOLEAN : lags' = [lags EXCEPT ![r] = add(@, late)]
          BY <3>2
        <4>2. add(lags[r], late) \in Seq(BOOLEAN) /\ Len(add(lags[r], late)) <= Samples
          BY AddIsAWindow DEF IInv, TypeOK
        <4> QED BY <4>1, <4>2 DEF IInv, TypeOK
      <3> QED BY <1>6, <3>1, <3>2 DEF check, judge
    <2>3. healthy' \subseteq Replicas
      <3>1. healthy' \in {healthy \ {r}, healthy \cup {r}}
        BY <1>6 DEF check, judge
      <3> QED BY <3>1 DEF IInv, TypeOK
    <2>4. TypeOK'
      BY <1>1, <2>1, <2>2, <2>3 DEF IInv, TypeOK
    <2>5. ReadingsArePast'
      BY <1>1, <1>2, <2>1 DEF IInv, TypeOK, ReadingsArePast
    <2> QED BY <1>1, <2>4, <2>5, NodesLeaveSessionsAlone DEF IInv
  <1>7. CASE markUnhealthy(r)
    <2>1. received' = received /\ replayed' = replayed /\ receiver' = receiver
          /\ replayLSN' = replayLSN /\ lags' = lags /\ healthy' \subseteq Replicas
      BY <1>7 DEF markUnhealthy, nodes, IInv, TypeOK
    <2>2. faults' \in 0..MaxFaults
      BY <1>7, FreshnessAssumption DEF markUnhealthy, Fault, IInv, TypeOK
    <2>3. TypeOK'
      BY <1>1, <2>1, <2>2 DEF IInv, TypeOK
    <2>4. ReadingsArePast'
      BY <1>1, <2>1 DEF IInv, ReadingsArePast
    <2> QED BY <1>1, <2>3, <2>4, NodesLeaveSessionsAlone DEF IInv
  <1> QED BY <1>1, <1>3, <1>4, <1>5, <1>6, <1>7

-----------------------------------------------------------------------------
(* What the invariant asks of one request when the log ends at w. *)
Covered(n, w) ==
    /\ n.own <= w /\ n.change <= w
    /\ ~n.unpinned => n.own <= n.pin
    /\ n.phase = "serving" => n.change <= n.lsn
    /\ n.seen # None /\ ~n.unpinned => n.seen >= n.own

(* A request step that replaces the record of one request by a good one, and
   at most lengthens the log, keeps the parts over requests. *)
LEMMA RequestChanges ==
    ASSUME IInv, NEW q \in Requests, NEW new \in Request,
           request' = [request EXCEPT ![q] = new], wal' \in LSN, wal <= wal',
           Covered(new, wal')
    PROVE  request' \in [Requests -> Request] /\ PinsCoverAnswers' /\ KeptMarksAreHonoured'
PROOF
  <1>1. request' \in [Requests -> Request]
    BY DEF IInv, TypeOK
  <1>2. \A x \in Requests : request'[x] = IF x = q THEN new ELSE request[x]
    BY DEF IInv, TypeOK
  <1>3. \A x \in Requests : request[x].own \in Nat /\ request[x].change \in Nat
    BY Positions DEF IInv, TypeOK, Request
  <1>4. wal \in Nat /\ wal' \in Nat
    BY Positions DEF IInv, TypeOK
  <1>5. PinsCoverAnswers'
    BY <1>2, <1>3, <1>4 DEF IInv, PinsCoverAnswers, Covered
  <1>6. KeptMarksAreHonoured'
    BY <1>2 DEF IInv, KeptMarksAreHonoured, Covered
  <1> QED BY <1>1, <1>5, <1>6

(* Requests move no node but the primary. *)
LEMMA RequestsLeaveReplicasAlone ==
    ASSUME IInv, wal' \in LSN, wal <= wal', received' = received, replayed' = replayed,
           replayLSN' = replayLSN
    PROVE  ReadingsArePast'
PROOF
  <1>1. \A r \in Replicas : received[r] \in Nat /\ replayed[r] \in Nat /\ replayLSN[r] \in Nat
    BY Positions DEF IInv, TypeOK
  <1>2. wal \in Nat /\ wal' \in Nat
    BY Positions DEF IInv, TypeOK
  <1> QED BY <1>1, <1>2 DEF IInv, ReadingsArePast

(* Every step of a request keeps the invariant. *)
LEMMA RequestStep ==
    ASSUME IInv, NEW q \in Requests,
           \/ \E s \in Sessions : authenticate(q, s)
           \/ Read(q) \/ Write(q) \/ committedLSN(q) \/ committedLSNFails(q) \/ Note(q)
    PROVE  IInv' /\ \A s \in Sessions : mark'[s] >= mark[s]
PROOF
  <1>1. request[q] \in Request /\ wal \in LSN /\ wal \in Nat
    BY Positions DEF IInv, TypeOK
  <1>2. \A s \in Sessions : mark[s] \in Nat /\ acked[s] \in Nat
    BY Positions DEF IInv, TypeOK
  <1>3. /\ request[q].phase \in {"idle", "serving", "committed"} /\ request[q].session \in Sessions
        /\ request[q].pin \in LSN /\ request[q].change \in LSN /\ request[q].lsn \in LSN
        /\ request[q].own \in LSN /\ request[q].unpinned \in BOOLEAN
        /\ request[q].seen \in LSN \cup {None}
    BY <1>1 DEF Request
  <1>4. Covered(request[q], wal)
    BY DEF IInv, PinsCoverAnswers, KeptMarksAreHonoured, Covered
  <1>nat. /\ request[q].pin \in Nat /\ request[q].change \in Nat /\ request[q].lsn \in Nat
        /\ request[q].own \in Nat
    <2>1. LSN \subseteq Nat
      BY Positions
    <2> QED BY <1>3, <2>1
  <1>5. ASSUME NEW s \in Sessions, authenticate(q, s)
        PROVE  IInv' /\ mark' = mark
    <2>1. PICK answered \in BOOLEAN :
            /\ IF answered THEN UNCHANGED faults ELSE Fault
            /\ request' = [request EXCEPT ![q] =
                [Idle(s) EXCEPT !.phase = "serving",
                                !.pin = IF answered THEN mark[s] ELSE 0,
                                !.own = acked[s],
                                !.unpinned = ~answered \/ s \in lost]]
      BY <1>5 DEF authenticate
    <2> DEFINE new == [Idle(s) EXCEPT !.phase = "serving",
                                      !.pin = IF answered THEN mark[s] ELSE 0,
                                      !.own = acked[s],
                                      !.unpinned = ~answered \/ s \in lost]
    <2>2. wal' = wal /\ received' = received /\ replayed' = replayed /\ receiver' = receiver
          /\ replayLSN' = replayLSN /\ healthy' = healthy /\ lags' = lags
          /\ mark' = mark /\ acked' = acked /\ lost' = lost
      BY <1>5 DEF authenticate, nodes, health
    <2>3. /\ new.phase = "serving" /\ new.own = acked[s] /\ new.change = 0 /\ new.lsn = 0
          /\ new.pin = (IF answered THEN mark[s] ELSE 0) /\ new.unpinned = (~answered \/ s \in lost)
          /\ new.seen = None
      BY DEF Idle
    <2>4. new \in Request
      <3>1. mark[s] \in LSN /\ acked[s] \in LSN /\ 0 \in LSN
        BY Positions DEF IInv, TypeOK
      <3> QED BY <3>1 DEF Idle, Request
    <2>5. acked[s] <= wal /\ (s \notin lost => acked[s] <= mark[s])
      BY DEF IInv, MarksCoverAnswers
    <2> HIDE DEF new
    <2>6. request' = [request EXCEPT ![q] = new]
      BY <2>1 DEF new
    <2>cov. Covered(new, wal') /\ wal' \in LSN /\ wal <= wal'
      <3>1. ~new.unpinned => answered /\ s \notin lost
        BY <2>3, Zenon
      <3>2. ~new.unpinned => new.own <= new.pin
        BY <2>3, <2>5, <3>1
      <3>3. new.own <= wal /\ new.change <= wal /\ new.change <= new.lsn /\ wal <= wal
        BY <1>1, <2>3, <2>5
      <3> QED BY <1>1, <2>2, <2>3, <3>2, <3>3 DEF Covered
    <2>7. request' \in [Requests -> Request] /\ PinsCoverAnswers' /\ KeptMarksAreHonoured'
      BY <2>4, <2>6, <2>cov, RequestChanges
    <2>8. faults' \in 0..MaxFaults
      BY <2>1, FreshnessAssumption DEF Fault, IInv, TypeOK
    <2>9. TypeOK'
      BY <2>2, <2>7, <2>8 DEF IInv, TypeOK
    <2>10. ReadingsArePast'
      BY <1>1, <2>2, RequestsLeaveReplicasAlone
    <2>11. MarksCoverAnswers'
      BY <2>2 DEF IInv, MarksCoverAnswers
    <2> QED BY <2>2, <2>7, <2>9, <2>10, <2>11 DEF IInv
  <1>6. CASE Read(q)
    <2> DEFINE able == pickReplica(request[q].pin)
    <2>1. PICK at \in IF able = {} THEN {wal} ELSE {replayed[r] : r \in able} :
            request' = [request EXCEPT ![q].seen = at]
      BY <1>6 DEF Read
    <2>2. wal' = wal /\ received' = received /\ replayed' = replayed /\ receiver' = receiver
          /\ replayLSN' = replayLSN /\ healthy' = healthy /\ lags' = lags
          /\ mark' = mark /\ acked' = acked /\ lost' = lost /\ faults' = faults
      BY <1>6 DEF Read, nodes, health
    <2>3. at \in LSN /\ (~request[q].unpinned => at >= request[q].own)
      <3>1. CASE able = {}
        BY <1>1, <1>4, <2>1, <3>1 DEF Covered
      <3>2. CASE able # {}
        <4>1. PICK r \in able : at = replayed[r]
          BY <2>1, <3>2
        <4>2. r \in Replicas /\ (request[q].pin # 0 => replayLSN[r] >= request[q].pin)
          BY <4>1 DEF pickReplica, IInv, TypeOK
        <4>3. replayLSN[r] <= replayed[r] /\ replayed[r] \in LSN /\ replayLSN[r] \in LSN
          BY <4>2 DEF IInv, TypeOK, ReadingsArePast
        <4>4. replayLSN[r] \in Nat /\ replayed[r] \in Nat
          BY <4>3, Positions
        <4>5. replayed[r] >= request[q].pin
          BY <1>nat, <4>2, <4>3, <4>4
        <4>6. ~request[q].unpinned => replayed[r] >= request[q].own
          BY <1>4, <1>nat, <4>4, <4>5 DEF Covered
        <4> QED BY <4>1, <4>3, <4>6
      <3> QED BY <3>1, <3>2
    <2> DEFINE new == [request[q] EXCEPT !.seen = at]
    <2>4. new \in Request
      BY <1>1, <2>3 DEF Request
    <2>5. /\ new.phase = request[q].phase /\ new.own = request[q].own /\ new.change = request[q].change
          /\ new.lsn = request[q].lsn /\ new.pin = request[q].pin
          /\ new.unpinned = request[q].unpinned /\ new.seen = at
      BY <1>1 DEF Request
    <2>6. request' = [request EXCEPT ![q] = new]
      BY <2>1
    <2> HIDE DEF new, able
    <2>7. request' \in [Requests -> Request] /\ PinsCoverAnswers' /\ KeptMarksAreHonoured'
      <3>1. Covered(new, wal') /\ wal' \in LSN /\ wal <= wal'
        BY <1>1, <1>4, <1>nat, <2>2, <2>3, <2>5 DEF Covered
      <3> QED BY <2>4, <2>6, <3>1, RequestChanges
    <2>8. TypeOK'
      BY <2>2, <2>7 DEF IInv, TypeOK
    <2>9. ReadingsArePast'
      BY <1>1, <2>2, RequestsLeaveReplicasAlone
    <2>10. MarksCoverAnswers'
      BY <2>2 DEF IInv, MarksCoverAnswers
    <2> QED BY <1>2, <2>2, <2>7, <2>8, <2>9, <2>10 DEF IInv
  <1>7. CASE Write(q)
    <2>1. wal' = wal + 1 /\ wal < MaxWrites /\ request[q].phase = "serving"
          /\ request' = [request EXCEPT ![q] = [@ EXCEPT !.phase = "committed", !.change = wal + 1]]
          /\ received' = received /\ replayed' = replayed /\ receiver' = receiver
          /\ replayLSN' = replayLSN /\ healthy' = healthy /\ lags' = lags
          /\ mark' = mark /\ acked' = acked /\ lost' = lost /\ faults' = faults
      BY <1>7 DEF Write, Serving, health
    <2> DEFINE new == [request[q] EXCEPT !.phase = "committed", !.change = wal + 1]
    <2>2. wal' \in LSN /\ wal <= wal' /\ wal' \in Nat
      BY <1>1, <2>1, Positions
    <2>3. new \in Request
      BY <1>1, <2>1, <2>2 DEF Request
    <2>4. /\ new.phase = "committed" /\ new.own = request[q].own /\ new.change = wal'
          /\ new.pin = request[q].pin /\ new.unpinned = request[q].unpinned
          /\ new.seen = request[q].seen
      BY <1>1, <2>1 DEF Request
    <2>5. request' = [request EXCEPT ![q] = new]
      BY <1>1, <2>1 DEF IInv, TypeOK
    <2>6. request[q].own <= wal'
      BY <1>1, <1>4, <1>nat, <2>1 DEF Covered
    <2> HIDE DEF new
    <2>7. request' \in [Requests -> Request] /\ PinsCoverAnswers' /\ KeptMarksAreHonoured'
      <3>1. Covered(new, wal')
        BY <1>4, <2>2, <2>4, <2>6 DEF Covered
      <3> QED BY <2>2, <2>3, <2>5, <3>1, RequestChanges
    <2>8. TypeOK'
      BY <2>1, <2>2, <2>7 DEF IInv, TypeOK
    <2>9. ReadingsArePast'
      BY <2>1, <2>2, RequestsLeaveReplicasAlone
    <2>10. MarksCoverAnswers'
      BY <1>1, <1>2, <2>1 DEF IInv, MarksCoverAnswers
    <2> QED BY <1>2, <2>1, <2>7, <2>8, <2>9, <2>10 DEF IInv
  <1>8. CASE committedLSN(q)
    <2>1. request[q].phase = "committed"
          /\ request' = [request EXCEPT ![q] = [@ EXCEPT !.phase = "serving", !.lsn = Greater(request[q].lsn, wal)]]
          /\ wal' = wal /\ received' = received /\ replayed' = replayed /\ receiver' = receiver
          /\ replayLSN' = replayLSN /\ healthy' = healthy /\ lags' = lags
          /\ mark' = mark /\ acked' = acked /\ lost' = lost /\ faults' = faults
      BY <1>8 DEF committedLSN, nodes, health
    <2> DEFINE new == [request[q] EXCEPT !.phase = "serving", !.lsn = Greater(@, wal)]
    <2>2. Greater(request[q].lsn, wal) \in LSN /\ Greater(request[q].lsn, wal) >= wal
      BY <1>1, <1>3, Positions
    <2>3. new \in Request
      BY <1>1, <2>2 DEF Request
    <2>4. /\ new.phase = "serving" /\ new.own = request[q].own /\ new.change = request[q].change
          /\ new.lsn = Greater(request[q].lsn, wal)
          /\ new.pin = request[q].pin /\ new.unpinned = request[q].unpinned
          /\ new.seen = request[q].seen
      BY <1>1 DEF Request
    <2>5. request' = [request EXCEPT ![q] = new]
      BY <2>1
    <2>6. new.change <= new.lsn
      <3>1. Greater(request[q].lsn, wal) \in Nat
        BY <2>2, Positions
      <3> QED BY <1>1, <1>4, <1>nat, <2>2, <2>4, <3>1 DEF Covered
    <2> HIDE DEF new
    <2>7. request' \in [Requests -> Request] /\ PinsCoverAnswers' /\ KeptMarksAreHonoured'
      <3>1. Covered(new, wal') /\ wal' \in LSN /\ wal <= wal'
        BY <1>1, <1>4, <2>1, <2>4, <2>6 DEF Covered
      <3> QED BY <2>3, <2>5, <3>1, RequestChanges
    <2>8. TypeOK'
      BY <2>1, <2>7 DEF IInv, TypeOK
    <2>9. ReadingsArePast'
      BY <1>1, <2>1, RequestsLeaveReplicasAlone
    <2>10. MarksCoverAnswers'
      BY <2>1 DEF IInv, MarksCoverAnswers
    <2> QED BY <1>2, <2>1, <2>7, <2>8, <2>9, <2>10 DEF IInv
  <1> DEFINE s == request[q].session
  <1> DEFINE idle == Idle(s)
  <1>9. /\ idle \in Request /\ idle.phase = "idle" /\ idle.own = 0 /\ idle.change = 0
        /\ idle.pin = 0 /\ idle.unpinned = FALSE /\ idle.seen = None
    BY <1>3, IdleIsARequest DEF Idle
  <1>10. CASE committedLSNFails(q)
    <2>1. wal' = wal /\ received' = received /\ replayed' = replayed /\ receiver' = receiver
          /\ replayLSN' = replayLSN /\ healthy' = healthy /\ lags' = lags
          /\ mark' = mark /\ acked' = acked /\ lost' = lost
          /\ request' = [request EXCEPT ![q] = idle]
      BY <1>10 DEF committedLSNFails, nodes, health
    <2>2. faults' \in 0..MaxFaults
      BY <1>10, FreshnessAssumption DEF committedLSNFails, Fault, IInv, TypeOK
    <2> HIDE DEF idle
    <2>3. request' \in [Requests -> Request] /\ PinsCoverAnswers' /\ KeptMarksAreHonoured'
      <3>1. Covered(idle, wal') /\ wal' \in LSN /\ wal <= wal'
        BY <1>1, <1>9, <2>1 DEF Covered
      <3> QED BY <1>9, <2>1, <3>1, RequestChanges
    <2>4. TypeOK'
      BY <2>1, <2>2, <2>3 DEF IInv, TypeOK
    <2>5. ReadingsArePast'
      BY <1>1, <2>1, RequestsLeaveReplicasAlone
    <2>6. MarksCoverAnswers'
      BY <2>1 DEF IInv, MarksCoverAnswers
    <2> QED BY <1>2, <2>1, <2>3, <2>4, <2>5, <2>6 DEF IInv
  <1>11. CASE Note(q)
    <2>1. wal' = wal /\ received' = received /\ replayed' = replayed /\ receiver' = receiver
          /\ replayLSN' = replayLSN /\ healthy' = healthy /\ lags' = lags
          /\ request' = [request EXCEPT ![q] = idle] /\ request[q].phase = "serving"
          /\ acked' = [acked EXCEPT ![s] = Greater(@, request[q].change)]
      BY <1>11 DEF Note, Serving, nodes, health
    <2>2. \/ mark' = [mark EXCEPT ![s] = Greater(@, request[q].lsn)] /\ lost' = lost
          \/ mark' = mark /\ lost' = lost \cup {s}
          \/ mark' = mark /\ lost' = lost /\ request[q].lsn = 0
      BY <1>11 DEF Note, raise
    <2>3. faults' \in 0..MaxFaults
      BY <1>11, FreshnessAssumption DEF Note, Fault, IInv, TypeOK
    <2> HIDE DEF idle
    <2>4. request' \in [Requests -> Request] /\ PinsCoverAnswers' /\ KeptMarksAreHonoured'
      <3>1. Covered(idle, wal') /\ wal' \in LSN /\ wal <= wal'
        BY <1>1, <1>9, <2>1 DEF Covered
      <3> QED BY <1>9, <2>1, <3>1, RequestChanges
    <2>5. s \in Sessions /\ acked[s] \in LSN /\ mark[s] \in LSN
      BY <1>3 DEF IInv, TypeOK
    <2> HIDE DEF s
    <2>6. acked' \in [Sessions -> LSN] /\ mark' \in [Sessions -> LSN] /\ lost' \subseteq Sessions
      <3>1. Greater(acked[s], request[q].change) \in LSN /\ Greater(mark[s], request[q].lsn) \in LSN
        BY <1>3, <2>5, Positions
      <3> QED BY <2>1, <2>2, <2>5, <3>1 DEF IInv, TypeOK
    <2>7. TypeOK'
      BY <2>1, <2>3, <2>4, <2>6 DEF IInv, TypeOK
    <2>8. ReadingsArePast'
      BY <1>1, <2>1, RequestsLeaveReplicasAlone
    <2>9. Greater(acked[s], request[q].change) <= wal
      BY <1>4, <2>5 DEF IInv, MarksCoverAnswers, Greater, Covered
    <2>10. s \notin lost' => Greater(acked[s], request[q].change) <= mark'[s]
      <3>1. SUFFICES ASSUME s \notin lost'
                     PROVE  Greater(acked[s], request[q].change) <= mark'[s]
        OBVIOUS
      <3>2. s \notin lost /\ acked[s] <= mark[s] /\ request[q].change <= request[q].lsn
        BY <1>4, <2>1, <2>2, <2>5, <3>1 DEF IInv, MarksCoverAnswers, Covered
      <3>3. CASE mark' = [mark EXCEPT ![s] = Greater(@, request[q].lsn)]
        <4>1. mark'[s] = Greater(mark[s], request[q].lsn)
          BY <2>5, <3>3 DEF IInv, TypeOK
        <4> QED BY <1>2, <1>nat, <2>5, <3>2, <4>1 DEF Greater
      <3>4. CASE mark' = mark /\ request[q].lsn = 0
        <4>1. request[q].change = 0
          BY <1>nat, <3>2, <3>4
        <4> QED BY <1>2, <2>5, <3>2, <3>4, <4>1 DEF Greater
      <3> QED BY <2>2, <3>1, <3>3, <3>4
    <2>11. \A x \in Sessions : x # s => acked'[x] = acked[x] /\ mark'[x] = mark[x] /\ (x \in lost' <=> x \in lost)
      BY <2>1, <2>2 DEF IInv, TypeOK
    <2>cov. acked'[s] = Greater(acked[s], request[q].change)
      BY <2>1, <2>5 DEF IInv, TypeOK
    <2>13. MarksCoverAnswers'
      BY <2>1, <2>9, <2>10, <2>11, <2>cov DEF IInv, MarksCoverAnswers
    <2>14. \A x \in Sessions : mark'[x] >= mark[x]
      <3>1. Greater(mark[s], request[q].lsn) >= mark[s]
        BY <1>2, <1>nat, <2>5 DEF Greater
      <3>2. mark'[s] >= mark[s]
        BY <1>2, <2>2, <2>5, <3>1 DEF IInv, TypeOK
      <3> QED BY <1>2, <2>11, <3>2
    <2> QED BY <2>4, <2>7, <2>8, <2>13, <2>14 DEF IInv
  <1> QED BY <1>2, <1>5, <1>6, <1>7, <1>8, <1>10, <1>11

(* Redis may lose a position, which the history remembers. *)
LEMMA ExpireStep ==
    ASSUME IInv, NEW s \in Sessions, Expire(s)
    PROVE  IInv' /\ \A x \in Sessions : mark'[x] < mark[x] => mark'[x] = 0 /\ x \in lost'
PROOF
  <1>1. wal' = wal /\ received' = received /\ replayed' = replayed /\ receiver' = receiver
        /\ replayLSN' = replayLSN /\ healthy' = healthy /\ lags' = lags
        /\ request' = request /\ acked' = acked /\ faults' = faults
        /\ mark' = [mark EXCEPT ![s] = 0] /\ lost' = lost \cup {s}
    BY DEF Expire, nodes, health
  <1>2. TypeOK'
    BY <1>1, Positions DEF IInv, TypeOK
  <1>3. ReadingsArePast' /\ PinsCoverAnswers' /\ KeptMarksAreHonoured'
    BY <1>1 DEF IInv, ReadingsArePast, PinsCoverAnswers, KeptMarksAreHonoured
  <1>4. MarksCoverAnswers'
    BY <1>1 DEF IInv, TypeOK, MarksCoverAnswers
  <1>5. \A x \in Sessions : mark[x] \in Nat
    BY Positions DEF IInv, TypeOK
  <1>6. \A x \in Sessions : mark'[x] < mark[x] => mark'[x] = 0 /\ x \in lost'
    BY <1>1, <1>5 DEF IInv, TypeOK
  <1> QED BY <1>2, <1>3, <1>4, <1>6 DEF IInv

LEMMA StepIInv == IInv /\ [Next]_vars =>
    IInv' /\ \A s \in Sessions : mark'[s] < mark[s] => mark'[s] = 0 /\ s \in lost'
PROOF
  <1> SUFFICES ASSUME IInv, [Next]_vars
               PROVE  IInv' /\ \A s \in Sessions : mark'[s] < mark[s] => mark'[s] = 0 /\ s \in lost'
    OBVIOUS
  <1>1. \A s \in Sessions : mark[s] \in Nat
    BY Positions DEF IInv, TypeOK
  <1>2. CASE UNCHANGED vars
    <2>1. IInv'
      BY <1>2 DEF vars, nodes, health, IInv, TypeOK, ReadingsArePast, MarksCoverAnswers,
                  PinsCoverAnswers, KeptMarksAreHonoured
    <2> QED BY <1>1, <1>2, <2>1 DEF vars
  <1>3. CASE \E r \in Replicas : Receive(r) \/ Replay(r) \/ ReceiverDrops(r) \/ ReceiverReturns(r)
                                  \/ check(r) \/ markUnhealthy(r)
    BY <1>1, <1>3, ReplicaStep
  <1>4. CASE \E q \in Requests :
               \/ \E s \in Sessions : authenticate(q, s)
               \/ Read(q) \/ Write(q) \/ committedLSN(q) \/ committedLSNFails(q) \/ Note(q)
    <2>1. PICK q \in Requests :
               \/ \E s \in Sessions : authenticate(q, s)
               \/ Read(q) \/ Write(q) \/ committedLSN(q) \/ committedLSNFails(q) \/ Note(q)
      BY <1>4
    <2>2. IInv' /\ \A s \in Sessions : mark'[s] >= mark[s]
      BY <2>1, RequestStep
    <2>3. \A s \in Sessions : mark'[s] \in Nat
      BY <2>2, Positions DEF IInv, TypeOK
    <2> QED BY <1>1, <2>2, <2>3
  <1>5. CASE \E s \in Sessions : Expire(s)
    BY <1>5, ExpireStep
  <1> QED BY <1>2, <1>3, <1>4, <1>5 DEF Next

LEMMA InvariantHolds == Spec => []IInv
BY InitIInv, StepIInv, PTL DEF Spec

(* While a session's position is kept, no read of the session hides a change
   it was answered for, whichever node serves it. *)
THEOREM OwnWritesAreRead == Spec => []KeptMarksAreHonoured
PROOF
  <1>1. IInv => KeptMarksAreHonoured
    BY DEF IInv
  <1> QED BY <1>1, InvariantHolds, PTL

(* A session's position is never walked back by a request that ends late. *)
THEOREM PositionsRise == Spec => PositionsOnlyRise
PROOF
  <1>1. IInv /\ [Next]_vars =>
          [\A s \in Sessions : mark'[s] < mark[s] => mark'[s] = 0 /\ s \in lost']_vars
    BY StepIInv
  <1> QED BY <1>1, InvariantHolds, PTL DEF Spec, PositionsOnlyRise

(* Every variable keeps its type. *)
THEOREM TypeCorrect == Spec => []TypeOK
PROOF
  <1>1. IInv => TypeOK
    BY DEF IInv
  <1> QED BY <1>1, InvariantHolds, PTL

-----------------------------------------------------------------------------
(* A window that has a reading has one more after the next, as far as there
   is room. *)
LEMMA AddGrows ==
    ASSUME Samples > 1, NEW window \in Seq(BOOLEAN), NEW late \in BOOLEAN,
           Len(window) <= Samples
    PROVE  /\ Len(add(window, late)) > 0
           /\ Len(window) > 0 => Len(add(window, late)) > 1
PROOF
  <1>1. CASE Len(window) < Samples
    <2>1. add(window, late) = Append(window, late)
      BY <1>1 DEF add
    <2>2. Len(Append(window, late)) = Len(window) + 1 /\ Len(window) \in Nat
      OBVIOUS
    <2> QED BY <2>1, <2>2
  <1>2. CASE ~(Len(window) < Samples)
    <2>1. Len(window) = Samples /\ window # <<>>
      BY <1>2, FreshnessAssumption
    <2>2. Tail(window) \in Seq(BOOLEAN) /\ Len(Tail(window)) = Samples - 1
      BY <2>1
    <2>3. add(window, late) = Append(Tail(window), late)
      BY <1>2 DEF add
    <2>4. Len(add(window, late)) = Samples
      BY <2>2, <2>3, FreshnessAssumption
    <2> QED BY <2>4, FreshnessAssumption
  <1> QED BY <1>1, <1>2

(* The late readings of a window can be counted. *)
LEMMA LateIsACount ==
    ASSUME NEW window \in Seq(BOOLEAN)
    PROVE  Late(window) \in Nat
PROOF
  <1>1. DOMAIN window = 1..Len(window) /\ Len(window) \in Nat
    OBVIOUS
  <1>2. IsFiniteSet(1..Len(window))
    BY <1>1, FS_Interval
  <1>3. IsFiniteSet({i \in DOMAIN window : window[i]})
    BY <1>1, <1>2, FS_Subset
  <1> QED BY <1>3, FS_CardinalityType DEF Late

(* The lower median of two readings or more is late only when two are. *)
LEMMA MedianTakesTwo ==
    ASSUME NEW window \in Seq(BOOLEAN), Len(window) > 1, typical(window)
    PROVE  Late(window) >= 2
PROOF
  <1>1. Late(window) \in Nat /\ Len(window) \in Nat
    BY LateIsACount
  <1>2. \A n, k \in Nat : n > 1 /\ n - k <= (n - 1) \div 2 => k >= 2
    OBVIOUS
  <1>3. Len(window) - Late(window) <= (Len(window) - 1) \div 2
    BY DEF typical
  <1> QED BY <1>1, <1>2, <1>3

(* A step that takes a replica out, other than by a failed check or for its
   receiver's status, has two late readings to show. *)
LEMMA FlapStep ==
    ASSUME Samples > 1, IInv, HealthyWereRead, [Next]_vars
    PROVE  /\ HealthyWereRead'
           /\ \A r \in healthy \ healthy' :
                receiver[r] # "waiting" /\ faults' = faults => Late(lags'[r]) >= 2
PROOF
  <1>1. CASE healthy' = healthy /\ lags' = lags
    BY <1>1 DEF HealthyWereRead
  <1>2. CASE \E r \in Replicas : markUnhealthy(r)
    <2>1. healthy' \subseteq healthy /\ lags' = lags /\ faults' = faults - 1 /\ faults \in Nat
      BY <1>2, FreshnessAssumption DEF markUnhealthy, Fault, IInv, TypeOK
    <2>2. faults' # faults
      BY <2>1
    <2> QED BY <2>1, <2>2 DEF HealthyWereRead
  <1>3. CASE \E r \in Replicas : check(r)
    <2>1. PICK r \in Replicas : judge(r)
      BY <1>3 DEF check
    <2>2. CASE receiverStatus(r) \notin {"", "streaming"}
      <3>1. receiver[r] = "waiting"
        BY <2>2 DEF receiverStatus, IInv, TypeOK
      <3>2. healthy' = healthy \ {r} /\ lags' = lags
        BY <2>1, <2>2 DEF judge
      <3> QED BY <3>1, <3>2 DEF HealthyWereRead
    <2>3. CASE receiverStatus(r) \in {"", "streaming"}
      <3>1. PICK late \in BOOLEAN : lags' = [lags EXCEPT ![r] = add(@, late)]
        BY <2>1, <2>3 DEF judge
      <3>2. lags[r] \in Seq(BOOLEAN) /\ Len(lags[r]) <= Samples
            /\ lags'[r] = add(lags[r], late)
            /\ \A x \in Replicas \ {r} : lags'[x] = lags[x]
        BY <3>1 DEF IInv, TypeOK
      <3>3. lags'[r] \in Seq(BOOLEAN) /\ Len(lags'[r]) > 0
            /\ (Len(lags[r]) > 0 => Len(lags'[r]) > 1)
        BY <3>2, AddIsAWindow, AddGrows
      <3>4. healthy' = IF typical(lags'[r]) THEN healthy \ {r} ELSE healthy \cup {r}
        BY <2>1, <2>3 DEF judge
      <3>5. HealthyWereRead'
        <4>1. healthy \subseteq Replicas /\ healthy' \subseteq healthy \cup {r}
          BY <3>4 DEF IInv, TypeOK
        <4> QED BY <3>2, <3>3, <4>1 DEF HealthyWereRead
      <3>6. ASSUME NEW x \in healthy \ healthy'
            PROVE  Late(lags'[x]) >= 2
        <4>1. x = r /\ typical(lags'[r]) /\ r \in healthy
          BY <3>4, <3>6
        <4>2. Len(lags'[r]) > 1
          BY <3>3, <4>1 DEF HealthyWereRead
        <4> QED BY <3>3, <4>1, <4>2, MedianTakesTwo
      <3> QED BY <3>5, <3>6
    <2> QED BY <2>2, <2>3
  <1>4. CASE UNCHANGED vars
    BY <1>1, <1>4 DEF vars, health
  <1>5. CASE \E r \in Replicas : Receive(r) \/ Replay(r) \/ ReceiverDrops(r) \/ ReceiverReturns(r)
    BY <1>1, <1>5 DEF Receive, Replay, ReceiverDrops, ReceiverReturns, health
  <1>6. CASE \E q \in Requests :
               \/ \E s \in Sessions : authenticate(q, s)
               \/ Read(q) \/ Write(q) \/ committedLSN(q) \/ committedLSNFails(q) \/ Note(q)
    BY <1>1, <1>6 DEF authenticate, Read, Write, committedLSN, committedLSNFails, Note, health
  <1>7. CASE \E s \in Sessions : Expire(s)
    BY <1>1, <1>7 DEF Expire, health
  <1> QED BY <1>2, <1>3, <1>4, <1>5, <1>6, <1>7 DEF Next

(* Where more than one reading is kept (the default is three), a replica that
   answers, and whose receiver gives no reason, is taken out only for two late
   readings. *)
THEOREM OneReadingIsNotEnough ==
    ASSUME Samples > 1
    PROVE  Spec => OneReadingDoesNotFlap
PROOF
  <1> DEFINE Inv == IInv /\ HealthyWereRead
  <1>1. Init => Inv
    BY InitIInv DEF Init, HealthyWereRead
  <1>2. Inv /\ [Next]_vars => Inv'
    BY StepIInv, FlapStep
  <1>3. Inv /\ [Next]_vars =>
          [\A r \in healthy \ healthy' :
             receiver[r] # "waiting" /\ faults' = faults => Late(lags'[r]) >= 2]_vars
    BY FlapStep
  <1> QED BY <1>1, <1>2, <1>3, PTL DEF Spec, OneReadingDoesNotFlap
=============================================================================
