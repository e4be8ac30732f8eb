----------------------- MODULE SprintLifecycle_proofs -----------------------
(***************************************************************************)
(* What holds of sprints and their work for any number of sprints, issues, *)
(* teams and sessions.  The argument is the invariant IInv: a stream runs  *)
(* one sprint, which stays running while a completion holds it, so the     *)
(* destination, another sprint of that stream, cannot be running and can   *)
(* only be still ahead; and what a session decided under an issue's lock   *)
(* about its sprint and its team is still so when it commits.              *)
(***************************************************************************)
EXTENDS SprintLifecycle, TLAPS

USE SprintAssumption

(* Nothing is planned and nobody is at work in the beginning. *)
LEMMA InitIInv == Init => IInv
BY DEF Init, IInv, TypeOK, OneRuns, LocksHold, CompletionsStandBy, JoinsStandBy, HandoversStandBy,
       CarriedWorkLandsAhead, SprintsHoldTheirTeamsWork, LastWordIsCompletions,
       Homes, Totals, Nothing, Phases, Completing, Moving, Open

(* What a session that stops leaves of the sessions. *)
LEMMA EndFacts ==
    ASSUME TypeOK, NEW p \in Sessions, End(p)
    PROVE  /\ at' \in [Sessions -> Phases] /\ of' \in [Sessions -> Homes]
           /\ to' \in [Sessions -> Homes] /\ work' \in [Sessions -> SUBSET Issues]
           /\ team' \in [Sessions -> Teams \cup {Nil}] /\ seen' \in [Sessions -> Totals]
           /\ at'[p] = "idle"
           /\ \A q \in Sessions \ {p} :
                /\ at'[q] = at[q] /\ of'[q] = of[q] /\ to'[q] = to[q]
                /\ work'[q] = work[q] /\ team'[q] = team[q] /\ seen'[q] = seen[q]
BY DEF TypeOK, End, Homes, Phases, Totals, Nothing

(* A session that stops gives its locks back and takes none from the others. *)
LEMMA EndKeepsLocks ==
    ASSUME TypeOK, LocksHold, NEW p \in Sessions, End(p),
           \A q \in Sessions \ {p} : Completing(q) => state'[of[q]] = "active"
    PROVE  LocksHold'
<1>1. \A q \in Sessions : Completing(q)' => q # p /\ Completing(q) /\ of'[q] = of[q]
  BY EndFacts DEF Completing
<1>2. \A q \in Sessions : Moving(q)' => q # p /\ Moving(q) /\ work'[q] = work[q]
  BY EndFacts DEF Moving
<1>3. \A q \in Sessions : at'[q] # "idle" => at'[q] = at[q] /\ of'[q] = of[q]
  BY EndFacts
<1>4. \A q \in Sessions : at'[q] \in {"starting", "completing", "snapshotting"} \/ Completing(q)' =>
        of'[q] \in Sprints
  BY <1>1, <1>3 DEF LocksHold
<1>5. \A q \in Sessions : Completing(q)' => state'[of'[q]] = "active"
  BY <1>1
<1>6. \A q, r \in Sessions : Completing(q)' /\ Completing(r)' /\ of'[q] = of'[r] => q = r
  BY <1>1 DEF LocksHold
<1>7. \A q, r \in Sessions : \A i \in Issues :
        Moving(q)' /\ Moving(r)' /\ i \in work'[q] /\ i \in work'[r] => q = r
  BY <1>2 DEF LocksHold
<1> QED
  BY <1>4, <1>5, <1>6, <1>7 DEF LocksHold

(* What the others are at is as it was. *)
LEMMA EndKeepsPhases ==
    ASSUME TypeOK, NEW p \in Sessions, End(p), NEW q \in Sessions, at'[q] # "idle"
    PROVE  /\ q # p /\ at'[q] = at[q] /\ of'[q] = of[q] /\ to'[q] = to[q]
           /\ work'[q] = work[q] /\ team'[q] = team[q]
           /\ Completing(q)' = Completing(q) /\ Moving(q)' = Moving(q)
BY EndFacts DEF Completing, Moving

(* What a sprint is counted to hold is a pair of sets of issues. *)
LEMMA TotalsAreTotals == ASSUME NEW s PROVE SprintTotals(s) \in Totals
BY DEF SprintTotals, Totals, In

(* Every step keeps the invariant. *)
LEMMA NextIInv == IInv /\ [Next]_vars => IInv'
<1> SUFFICES ASSUME IInv, [Next]_vars PROVE IInv'
    OBVIOUS
<1> USE DEF IInv
<1>u. CASE UNCHANGED vars
  BY <1>u DEF vars, tables, session, TypeOK, OneRuns, LocksHold, CompletionsStandBy, JoinsStandBy, HandoversStandBy,
       CarriedWorkLandsAhead, SprintsHoldTheirTeamsWork, LastWordIsCompletions, Completing, Moving, Open
<1>1. ASSUME NEW s \in Sprints, Create(s) PROVE IInv'
  BY <1>1 DEF Create, session, TypeOK, OneRuns, LocksHold, CompletionsStandBy, JoinsStandBy, HandoversStandBy,
       CarriedWorkLandsAhead, SprintsHoldTheirTeamsWork, LastWordIsCompletions, Completing, Moving, Open, Homes
<1>2. ASSUME NEW s \in Sprints, Update(s) PROVE IInv'
  BY <1>2 DEF Update, session, TypeOK, OneRuns, LocksHold, CompletionsStandBy, JoinsStandBy, HandoversStandBy,
       CarriedWorkLandsAhead, SprintsHoldTheirTeamsWork, LastWordIsCompletions, Completing, Moving, Open, Homes
<1>4. ASSUME NEW i \in Issues, Transition(i) PROVE IInv'
  BY <1>4 DEF Transition, session, TypeOK, OneRuns, LocksHold, CompletionsStandBy, JoinsStandBy, HandoversStandBy,
       CarriedWorkLandsAhead, SprintsHoldTheirTeamsWork, LastWordIsCompletions, Completing, Moving, Open, Homes
<1>3. ASSUME NEW s \in Sprints, Delete(s) PROVE IInv'
  <2> USE <1>3 DEF Delete, session
  <2>1. TypeOK'
    BY DEF TypeOK, Homes
  <2>2. OneRuns' /\ LastWordIsCompletions'
    BY DEF OneRuns, LastWordIsCompletions, TypeOK
  <2>3. LocksHold'
    BY DEF LocksHold, Completing, Moving, TypeOK
  <2>4. CompletionsStandBy' /\ JoinsStandBy'
    BY DEF CompletionsStandBy, JoinsStandBy, Completing, TypeOK
  <2>5. HandoversStandBy'
    BY DEF HandoversStandBy, TypeOK, Busy, Moving, In, Homes
  <2>6. CarriedWorkLandsAhead'
    BY DEF CarriedWorkLandsAhead, Lockable, Shared, TypeOK, Homes
  <2>7. SprintsHoldTheirTeamsWork'
    BY DEF SprintsHoldTheirTeamsWork, Open, TypeOK, Homes
  <2> QED
    BY <2>1, <2>2, <2>3, <2>4, <2>5, <2>6, <2>7
<1>c. ASSUME NEW p \in Sessions, NEW s \in Sprints,
             CountToStart(p, s) \/ CountToSnapshot(p, s) \/ (\E d \in Homes : CountToComplete(p, s, d))
      PROVE  IInv'
  <2>1. PICK phase \in {"starting", "snapshotting", "completing"}, d \in Homes :
            /\ Count(p, s, phase)
            /\ to' = [to EXCEPT ![p] = d]
            /\ phase = "completing" => d # s
    BY <1>c DEF CountToStart, CountToSnapshot, CountToComplete, TypeOK
  <2>2. TypeOK'
    BY <2>1, TotalsAreTotals DEF Count, tables, TypeOK, Phases, Homes
  <2>3. LocksHold'
    BY <2>1 DEF Count, tables, LocksHold, Completing, Moving, TypeOK
  <2>4. CompletionsStandBy' /\ JoinsStandBy' /\ HandoversStandBy'
    BY <2>1 DEF Count, tables, CompletionsStandBy, JoinsStandBy, HandoversStandBy, Completing, TypeOK
  <2>5. CarriedWorkLandsAhead'
    BY <2>1 DEF Count, tables, CarriedWorkLandsAhead, TypeOK
  <2>6. OneRuns' /\ SprintsHoldTheirTeamsWork' /\ LastWordIsCompletions'
    BY <2>1 DEF Count, tables, OneRuns, SprintsHoldTheirTeamsWork, LastWordIsCompletions, Open
  <2> QED
    BY <2>2, <2>3, <2>4, <2>5, <2>6
<1>r. ASSUME NEW p \in Sessions, RollBack(p) PROVE IInv'
  <2> USE <1>r DEF RollBack, tables
  <2>1. End(p)
    OBVIOUS
  <2>2. TypeOK'
    BY <2>1, EndFacts DEF TypeOK
  <2>3. LocksHold'
    BY <2>1, EndKeepsLocks DEF LocksHold
  <2>4. CompletionsStandBy' /\ JoinsStandBy' /\ HandoversStandBy' /\ CarriedWorkLandsAhead'
    BY <2>1, EndFacts DEF CompletionsStandBy, JoinsStandBy, HandoversStandBy, CarriedWorkLandsAhead, Completing
  <2>5. OneRuns' /\ SprintsHoldTheirTeamsWork' /\ LastWordIsCompletions'
    BY DEF OneRuns, SprintsHoldTheirTeamsWork, LastWordIsCompletions, Open
  <2> QED
    BY <2>2, <2>3, <2>4, <2>5
<1>s. ASSUME NEW p \in Sessions, Start(p) PROVE IInv'
  <2> DEFINE s == of[p]
  <2>1. s \in Sprints /\ End(p) /\ state[s] = "future" /\ seen[p] \in Totals
    BY <1>s DEF Start, LocksHold, TypeOK
  <2>2. /\ state' = [state EXCEPT ![s] = "active"]
        /\ point' = [point EXCEPT ![s] = seen[p]]
        /\ UNCHANGED <<dated, sprint_id, team_id, done, report>>
        /\ s \in dated
        /\ \A r \in Sprints : Stream[r] = Stream[s] => state[r] # "active"
    BY <1>s DEF Start
  <2> HIDE DEF s
  <2>3. TypeOK'
    BY <2>1, <2>2, EndFacts DEF TypeOK
  <2>4. OneRuns' /\ LastWordIsCompletions'
    BY <2>1, <2>2 DEF OneRuns, LastWordIsCompletions, TypeOK
  <2>5. LocksHold'
    <3>1. \A r \in Sprints : state[r] = "active" => state'[r] = "active"
      BY <2>1, <2>2 DEF TypeOK
    <3> QED
      BY <3>1, <2>1, EndKeepsLocks DEF LocksHold
  <2>6. CompletionsStandBy' /\ JoinsStandBy' /\ HandoversStandBy'
    <3>1. CompletionsStandBy'
      BY <2>1, <2>2, EndKeepsPhases DEF CompletionsStandBy, Completing
    <3>2. \A r \in Sprints : /\ state'[r] = "none" => state[r] = "none"
                            /\ state[r] = "closed" => state'[r] = "closed"
      BY <2>1, <2>2 DEF TypeOK
    <3>3. JoinsStandBy'
      BY <3>2, <2>1, <2>2, EndKeepsPhases DEF JoinsStandBy, TypeOK, Homes
    <3>4. HandoversStandBy'
      BY <3>2, <2>1, <2>2, EndKeepsPhases DEF HandoversStandBy, TypeOK, Homes
    <3> QED
      BY <3>1, <3>3, <3>4
  <2>7. CarriedWorkLandsAhead'
    <3> SUFFICES ASSUME NEW q \in Sessions \ {p}, at[q] = "carried", work[q] # {}, to[q] # Nil
                 PROVE  state'[to[q]] = "future"
      BY <2>1, EndFacts DEF CarriedWorkLandsAhead
    <3>1. to[q] \in Sprints /\ state[to[q]] = "future"
      BY DEF CarriedWorkLandsAhead, TypeOK, Homes
    <3>2. of[q] \in Sprints /\ state[of[q]] = "active" /\ Stream[to[q]] = Stream[of[q]]
      BY DEF LocksHold, CompletionsStandBy, Completing
    <3>3. to[q] # s
      BY <3>2, <2>2
    <3> QED
      BY <3>1, <3>3, <2>2 DEF TypeOK
  <2>8. SprintsHoldTheirTeamsWork'
    BY <2>1, <2>2 DEF SprintsHoldTheirTeamsWork, Open, TypeOK, Homes
  <2> QED
    BY <2>3, <2>4, <2>5, <2>6, <2>7, <2>8
<1>l. ASSUME NEW p \in Sessions, Lock(p) PROVE IInv'
  <2> USE <1>l DEF Lock, tables
  <2>1. TypeOK'
    BY DEF TypeOK, Phases
  <2>2. LocksHold'
    BY DEF LocksHold, Lockable, Locked, Completing, Moving, TypeOK
  <2>3. CompletionsStandBy'
    BY DEF CompletionsStandBy, resolveDestination, Completing, TypeOK
  <2>4. JoinsStandBy' /\ HandoversStandBy' /\ CarriedWorkLandsAhead'
    BY DEF JoinsStandBy, HandoversStandBy, CarriedWorkLandsAhead, TypeOK
  <2>5. OneRuns' /\ SprintsHoldTheirTeamsWork' /\ LastWordIsCompletions'
    BY DEF OneRuns, SprintsHoldTheirTeamsWork, LastWordIsCompletions, Open
  <2> QED
    BY <2>1, <2>2, <2>3, <2>4, <2>5
<1>h. ASSUME NEW p \in Sessions, Choose(p) PROVE IInv'
  <2> USE <1>h DEF Choose, tables
  <2>1. TypeOK'
    BY DEF TypeOK, Phases, In
  <2>2. LocksHold'
    BY DEF LocksHold, Completing, Moving, TypeOK
  <2>3. CompletionsStandBy'
    BY DEF CompletionsStandBy, Completing, TypeOK
  <2>4. JoinsStandBy' /\ HandoversStandBy' /\ CarriedWorkLandsAhead'
    BY DEF JoinsStandBy, HandoversStandBy, CarriedWorkLandsAhead, TypeOK
  <2>5. OneRuns' /\ SprintsHoldTheirTeamsWork' /\ LastWordIsCompletions'
    BY DEF OneRuns, SprintsHoldTheirTeamsWork, LastWordIsCompletions, Open
  <2> QED
    BY <2>1, <2>2, <2>3, <2>4, <2>5
<1>o. ASSUME NEW p \in Sessions, carryOver(p) PROVE IInv'
  <2> USE <1>o DEF carryOver, tables
  <2>1. TypeOK'
    BY DEF TypeOK, Phases
  <2>2. LocksHold'
    BY DEF LocksHold, Completing, Moving, Busy, TypeOK
  <2>3. CompletionsStandBy'
    BY DEF CompletionsStandBy, issue_sprint_guard, Completing, TypeOK
  <2>4. JoinsStandBy' /\ HandoversStandBy'
    BY DEF JoinsStandBy, HandoversStandBy, TypeOK
  <2>5. CarriedWorkLandsAhead'
    <3> SUFFICES ASSUME work[p] # {}, to[p] # Nil PROVE state[to[p]] = "future"
      BY DEF CarriedWorkLandsAhead, TypeOK
    <3>1. to[p] \in Sprints /\ Open(to[p])
      BY DEF issue_sprint_guard, TypeOK, Homes
    <3>2. of[p] \in Sprints /\ state[of[p]] = "active" /\ Stream[to[p]] = Stream[of[p]] /\ to[p] # of[p]
      BY DEF LocksHold, CompletionsStandBy, Completing
    <3> QED
      BY <3>1, <3>2 DEF Open, OneRuns
  <2>6. OneRuns' /\ SprintsHoldTheirTeamsWork' /\ LastWordIsCompletions'
    BY DEF OneRuns, SprintsHoldTheirTeamsWork, LastWordIsCompletions, Open
  <2> QED
    BY <2>1, <2>2, <2>3, <2>4, <2>5, <2>6
<1>d. ASSUME NEW p \in Sessions, Complete(p) PROVE IInv'
  <2> DEFINE s == of[p]
  <2>1. /\ s \in Sprints /\ state[s] = "active" /\ End(p)
        /\ at[p] = "carried" /\ Completing(p)
        /\ seen[p] \in Totals /\ to[p] \in Homes /\ work[p] \in SUBSET Issues
    BY <1>d DEF Complete, LocksHold, Completing, TypeOK
  <2>2. /\ state' = [state EXCEPT ![s] = "closed"]
        /\ sprint_id' = [i \in Issues |-> IF i \in work[p] THEN to[p] ELSE sprint_id[i]]
        /\ report' = [report EXCEPT ![s] = seen[p]]
        /\ point' = [point EXCEPT ![s] = seen[p]]
        /\ UNCHANGED <<dated, team_id, done>>
    BY <1>d DEF Complete
  <2>3. to[p] # Nil => to[p] # s
    BY <2>1 DEF CompletionsStandBy
  <2>4. \A q \in Sessions \ {p} : Completing(q) => of[q] # s
    BY <2>1 DEF LocksHold
  <2>5. \A q \in Sessions \ {p} : Moving(q) => work[q] \cap work[p] = {}
    BY <2>1 DEF LocksHold, Moving, TypeOK
  <2> HIDE DEF s
  <2>6. TypeOK'
    BY <2>1, <2>2, EndFacts DEF TypeOK
  <2>7. OneRuns' /\ LastWordIsCompletions'
    BY <2>1, <2>2 DEF OneRuns, LastWordIsCompletions, TypeOK
  <2>8. LocksHold'
    <3>1. \A r \in Sprints \ {s} : state'[r] = state[r]
      BY <2>2 DEF TypeOK
    <3> QED
      BY <3>1, <2>1, <2>4, EndKeepsLocks DEF LocksHold
  <2>9. CompletionsStandBy' /\ JoinsStandBy'
    <3>1. CompletionsStandBy'
      BY <2>1, <2>2, EndKeepsPhases DEF CompletionsStandBy, Completing
    <3>2. \A r \in Sprints : state'[r] = "none" => state[r] = "none"
      BY <2>1, <2>2 DEF TypeOK
    <3>3. JoinsStandBy'
      BY <3>2, <2>1, <2>2, EndKeepsPhases DEF JoinsStandBy, TypeOK, Homes
    <3> QED
      BY <3>1, <3>3
  <2>10. HandoversStandBy'
    BY <2>1, <2>2, <2>5, EndFacts DEF HandoversStandBy, Moving, TypeOK
  <2>11. CarriedWorkLandsAhead'
    BY <2>1, <2>2, EndFacts DEF CarriedWorkLandsAhead, TypeOK, Homes
  <2>12. SprintsHoldTheirTeamsWork'
    <3>1. \A i \in work[p] : to[p] # Nil => team_id[i] = Stream[to[p]] /\ state[to[p]] = "future"
      BY <2>1 DEF CompletionsStandBy, CarriedWorkLandsAhead
    <3> QED
      BY <2>1, <2>2, <2>3, <3>1 DEF SprintsHoldTheirTeamsWork, Open, TypeOK, Homes
  <2> QED
    BY <2>6, <2>7, <2>8, <2>9, <2>10, <2>11, <2>12
<1>n. ASSUME NEW p \in Sessions, Snapshot(p) PROVE IInv'
  <2>1. of[p] \in Sprints /\ state[of[p]] = "active" /\ End(p) /\ seen[p] \in Totals
    BY <1>n DEF Snapshot, LocksHold, TypeOK
  <2> USE <1>n DEF Snapshot
  <2>2. TypeOK'
    BY <2>1, EndFacts DEF TypeOK
  <2>3. LocksHold'
    BY <2>1, EndKeepsLocks DEF LocksHold
  <2>4. CompletionsStandBy' /\ JoinsStandBy' /\ HandoversStandBy' /\ CarriedWorkLandsAhead'
    BY <2>1, EndFacts DEF CompletionsStandBy, JoinsStandBy, HandoversStandBy, CarriedWorkLandsAhead, Completing
  <2>5. OneRuns' /\ SprintsHoldTheirTeamsWork'
    BY DEF OneRuns, SprintsHoldTheirTeamsWork, Open
  <2>6. LastWordIsCompletions'
    BY <2>1 DEF LastWordIsCompletions, TypeOK
  <2> QED
    BY <2>2, <2>3, <2>4, <2>5, <2>6
<1>j. ASSUME NEW p \in Sessions, NEW i \in Issues, NEW d \in Homes, commitTo(p, i, d) PROVE IInv'
  <2> USE <1>j DEF commitTo, tables
  <2>1. TypeOK'
    BY DEF TypeOK, Phases
  <2>2. LocksHold'
    BY DEF LocksHold, Completing, Moving, Busy, TypeOK
  <2>3. CompletionsStandBy' /\ HandoversStandBy' /\ CarriedWorkLandsAhead'
    BY DEF CompletionsStandBy, HandoversStandBy, CarriedWorkLandsAhead, Completing, TypeOK
  <2>4. JoinsStandBy'
    BY DEF JoinsStandBy, issue_sprint_guard, Open, TypeOK
  <2>5. OneRuns' /\ SprintsHoldTheirTeamsWork' /\ LastWordIsCompletions'
    BY DEF OneRuns, SprintsHoldTheirTeamsWork, LastWordIsCompletions, Open
  <2> QED
    BY <2>1, <2>2, <2>3, <2>4, <2>5
<1>k. ASSUME NEW p \in Sessions, SetSprint(p) PROVE IInv'
  <2>1. /\ at[p] = "joining" /\ End(p) /\ to[p] \in Homes /\ work[p] \in SUBSET Issues
        /\ to[p] # Nil => state[to[p]] \notin {"none", "deleted"}
                          /\ \A i \in work[p] : team_id[i] = Stream[to[p]]
        /\ sprint_id' = [i \in Issues |-> IF i \in work[p] THEN to[p] ELSE sprint_id[i]]
        /\ UNCHANGED <<state, dated, team_id, done, report, point>>
    BY <1>k DEF SetSprint, JoinsStandBy, TypeOK
  <2>2. \A q \in Sessions \ {p} : Moving(q) => work[q] \cap work[p] = {}
    BY <2>1 DEF LocksHold, Moving, TypeOK
  <2>3. TypeOK'
    BY <2>1, EndFacts DEF TypeOK
  <2>4. LocksHold'
    BY <2>1, EndKeepsLocks DEF LocksHold
  <2>5. CompletionsStandBy' /\ JoinsStandBy' /\ CarriedWorkLandsAhead'
    BY <2>1, EndFacts DEF CompletionsStandBy, JoinsStandBy, CarriedWorkLandsAhead, Completing
  <2>6. HandoversStandBy'
    BY <2>1, <2>2, EndFacts DEF HandoversStandBy, Moving, TypeOK
  <2>7. SprintsHoldTheirTeamsWork'
    BY <2>1 DEF SprintsHoldTheirTeamsWork, Open, TypeOK, Homes
  <2>8. OneRuns' /\ LastWordIsCompletions'
    BY <2>1 DEF OneRuns, LastWordIsCompletions
  <2> QED
    BY <2>3, <2>4, <2>5, <2>6, <2>7, <2>8
<1>g. ASSUME NEW p \in Sessions, NEW i \in Issues, NEW t \in Teams, handTo(p, i, t) PROVE IInv'
  <2> DEFINE s == sprint_id[i]
             d == IF s = Nil \/ state[s] = "closed" \/ Stream[s] = t THEN s ELSE Nil
  <2>1. /\ at[p] = "idle" /\ ~Busy(i)
        /\ at' = [at EXCEPT ![p] = "handing"]
        /\ work' = [work EXCEPT ![p] = {i}]
        /\ team' = [team EXCEPT ![p] = t]
        /\ to' = [to EXCEPT ![p] = d]
        /\ UNCHANGED <<tables, of, seen>>
    BY <1>g DEF handTo
  <2>2. d \in Homes /\ (d # Nil => sprint_id[i] = d /\ (state[d] = "closed" \/ Stream[d] = t))
    BY DEF TypeOK, Homes
  <2> HIDE DEF d, s
  <2> USE <2>1 DEF tables
  <2>3. TypeOK'
    BY <2>2 DEF TypeOK, Phases
  <2>4. LocksHold'
    BY DEF LocksHold, Completing, Moving, Busy, TypeOK
  <2>5. CompletionsStandBy' /\ JoinsStandBy' /\ CarriedWorkLandsAhead'
    BY DEF CompletionsStandBy, JoinsStandBy, CarriedWorkLandsAhead, Completing, TypeOK
  <2>6. HandoversStandBy'
    BY <2>2 DEF HandoversStandBy, TypeOK
  <2>7. OneRuns' /\ SprintsHoldTheirTeamsWork' /\ LastWordIsCompletions'
    BY DEF OneRuns, SprintsHoldTheirTeamsWork, LastWordIsCompletions, Open
  <2> QED
    BY <2>3, <2>4, <2>5, <2>6, <2>7
<1>t. ASSUME NEW p \in Sessions, SetTeam(p) PROVE IInv'
  <2>1. /\ at[p] = "handing" /\ End(p) /\ to[p] \in Homes /\ work[p] \in SUBSET Issues
        /\ team[p] \in Teams
        /\ to[p] # Nil => /\ \A i \in work[p] : sprint_id[i] = to[p]
                          /\ state[to[p]] = "closed" \/ Stream[to[p]] = team[p]
        /\ team_id' = [i \in Issues |-> IF i \in work[p] THEN team[p] ELSE team_id[i]]
        /\ sprint_id' = [i \in Issues |-> IF i \in work[p] THEN to[p] ELSE sprint_id[i]]
        /\ UNCHANGED <<state, dated, done, report, point>>
    BY <1>t DEF SetTeam, HandoversStandBy, TypeOK
  <2>2. \A q \in Sessions \ {p} : Moving(q) => work[q] \cap work[p] = {}
    BY <2>1 DEF LocksHold, Moving, TypeOK
  <2>3. TypeOK'
    BY <2>1, EndFacts DEF TypeOK
  <2>4. LocksHold'
    BY <2>1, EndKeepsLocks DEF LocksHold
  <2>5. CompletionsStandBy' /\ JoinsStandBy'
    BY <2>1, <2>2, EndFacts DEF CompletionsStandBy, JoinsStandBy, Completing, Moving, TypeOK
  <2>6. CarriedWorkLandsAhead'
    BY <2>1, EndFacts DEF CarriedWorkLandsAhead
  <2>7. HandoversStandBy'
    BY <2>1, <2>2, EndFacts DEF HandoversStandBy, Moving, TypeOK
  <2>8. SprintsHoldTheirTeamsWork'
    BY <2>1 DEF SprintsHoldTheirTeamsWork, Open, TypeOK, Homes
  <2>9. OneRuns' /\ LastWordIsCompletions'
    BY <2>1 DEF OneRuns, LastWordIsCompletions
  <2> QED
    BY <2>3, <2>4, <2>5, <2>6, <2>7, <2>8, <2>9
<1> QED
  BY <1>u, <1>1, <1>2, <1>3, <1>4, <1>c, <1>r, <1>s, <1>l, <1>h, <1>o, <1>d, <1>n, <1>j, <1>k, <1>g, <1>t DEF Next

(* A step leaves a closed sprint and its report alone, and a running sprint
   running unless it closes it. *)
LEMMA StepIsForward ==
    ASSUME IInv, [Next]_vars, NEW s \in Sprints
    PROVE  /\ state[s] = "closed" => state'[s] = "closed" /\ report'[s] = report[s]
           /\ state[s] = "active" => state'[s] \in {"active", "closed"}
<1> USE DEF IInv
<1>1. CASE UNCHANGED <<state, report>>
  BY <1>1
<1>2. ASSUME NEW r \in Sprints, Create(r) \/ Delete(r) PROVE state'[s] = state[s] \/ state[s] \in {"none", "future"}
  BY <1>2 DEF Create, Delete, TypeOK
<1>3. ASSUME NEW r \in Sprints, Create(r) \/ Delete(r) PROVE report' = report
  BY <1>3 DEF Create, Delete
<1>4. ASSUME NEW p \in Sessions, Start(p)
      PROVE  report' = report /\ (state'[s] = state[s] \/ state[s] = "future")
  BY <1>4 DEF Start, TypeOK
<1>5. ASSUME NEW p \in Sessions, Complete(p)
      PROVE  \/ s = of[p] /\ state[s] = "active" /\ state'[s] = "closed"
             \/ state'[s] = state[s] /\ report'[s] = report[s]
  BY <1>5 DEF Complete, LocksHold, Completing, TypeOK
<1>6. CASE UNCHANGED vars
  BY <1>1, <1>6 DEF vars, tables
<1>7. ASSUME NEW r \in Sprints, Update(r) PROVE UNCHANGED <<state, report>>
  BY <1>7 DEF Update
<1>8. ASSUME NEW i \in Issues, Transition(i) PROVE UNCHANGED <<state, report>>
  BY <1>8 DEF Transition
<1>9. ASSUME NEW p \in Sessions, NEW r \in Sprints,
             CountToStart(p, r) \/ CountToSnapshot(p, r) \/ (\E d \in Homes : CountToComplete(p, r, d))
      PROVE  UNCHANGED <<state, report>>
  BY <1>9 DEF CountToStart, CountToSnapshot, CountToComplete, Count, tables
<1>10. ASSUME NEW p \in Sessions, NEW i \in Issues,
              (\E d \in Homes : commitTo(p, i, d)) \/ (\E t \in Teams : handTo(p, i, t))
       PROVE  UNCHANGED <<state, report>>
  BY <1>10 DEF commitTo, handTo, tables
<1>11. ASSUME NEW p \in Sessions,
              \/ Lock(p) \/ Choose(p) \/ carryOver(p) \/ Snapshot(p)
              \/ SetSprint(p) \/ SetTeam(p) \/ RollBack(p)
       PROVE  UNCHANGED <<state, report>>
  BY <1>11 DEF Lock, Choose, carryOver, Snapshot, SetSprint, SetTeam, RollBack, tables
<1> QED
  BY <1>1, <1>2, <1>3, <1>4, <1>5, <1>6, <1>7, <1>8, <1>9, <1>10, <1>11 DEF Next

(* Every variable keeps its type, and a running sprint keeps both its dates. *)
THEOREM TypeCorrect == Spec => []TypeOK
BY InitIInv, NextIInv, PTL DEF Spec, IInv

(* Although a completion never locks its destination, the work it carries
   lands in a sprint that is still ahead. *)
THEOREM CarriedAhead == Spec => []CarriedWorkLandsAhead
BY InitIInv, NextIInv, PTL DEF Spec, IInv

(* However joins, handovers and completions interleave, an open sprint holds
   only its own team's work, and no issue is in a sprint that is gone. *)
THEOREM TeamsWork == Spec => []SprintsHoldTheirTeamsWork
BY InitIInv, NextIInv, PTL DEF Spec, IInv

(* A closed sprint's last burndown point is its completion's. *)
THEOREM LastWord == Spec => []LastWordIsCompletions
BY InitIInv, NextIInv, PTL DEF Spec, IInv

(* A sprint's life only goes forwards and its report is written once. *)
THEOREM ReportsFinal == Spec => ReportsAreFinal
<1>1. IInv /\ [Next]_vars =>
        [\A s \in Sprints :
            /\ state[s] = "closed" => state'[s] = "closed" /\ report'[s] = report[s]
            /\ state[s] = "active" => state'[s] \in {"active", "closed"}]_vars
  BY StepIsForward
<1> QED
  BY <1>1, InitIInv, NextIInv, PTL DEF Spec, ReportsAreFinal
=============================================================================
