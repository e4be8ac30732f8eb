------------------------ MODULE AutomationRun_proofs ------------------------
(***************************************************************************)
(* That a rule acts at most once on an event, for any number of rules,     *)
(* events, handlers and faults.  The argument is the invariant IInv: past  *)
(* the claim a handler holds a row that is running, no other handler holds *)
(* it, and whether it has acted is known from what it is at.  A second     *)
(* delivery finds the row, whoever left it.                                *)
(***************************************************************************)
EXTENDS AutomationRun, Counting, TLAPS

USE AutomationAssumption

(* No rule and no event is the string that stands for none. *)
LEMMA HeldIsARun ==
    ASSUME TypeOK, NEW h \in Handlers, Holds(h)
    PROVE  Held(h) \in Runs /\ at[h] \in Busy /\ at[h].rule \in Rules /\ at[h].event \in Events
BY DEF TypeOK, Holds, Held, Runs, Busy, Idle

(* Nothing is claimed and nothing was done when the installation starts. *)
LEMMA InitIInv == Init => IInv
BY DEF Init, IInv, TypeOK, HoldersHaveTheirRow, RowsHaveOneHolder, ActsAtMostOnce,
       OutcomesAreTrue, Holds, Idle, Finished

(* Every step keeps the invariant. *)
LEMMA NextIInv == IInv /\ [Next]_vars => IInv'
<1> SUFFICES ASSUME IInv, [Next]_vars PROVE IInv'
    OBVIOUS
<1> USE DEF IInv
<1>1. ASSUME NEW e \in Events, Emit(e) PROVE IInv'
  BY <1>1 DEF Emit, TypeOK, HoldersHaveTheirRow, RowsHaveOneHolder, ActsAtMostOnce, OutcomesAreTrue, Holds, Held
<1>2. ASSUME NEW x \in Runs, HourPasses(x) PROVE IInv'
  BY <1>2 DEF HourPasses, TypeOK, HoldersHaveTheirRow, RowsHaveOneHolder, ActsAtMostOnce, OutcomesAreTrue, Holds, Held
<1>c. CASE Crash
  BY <1>c DEF Crash, Fault, Idle, TypeOK, HoldersHaveTheirRow, RowsHaveOneHolder, ActsAtMostOnce, OutcomesAreTrue, Holds, Held
<1>u. CASE UNCHANGED vars
  BY <1>u DEF vars, TypeOK, HoldersHaveTheirRow, RowsHaveOneHolder, ActsAtMostOnce, OutcomesAreTrue, Holds, Held
<1>h. ASSUME NEW h \in Handlers, NEW e \in Events, Handle(h, e) PROVE IInv'
  BY <1>h DEF Handle, Busy, Phases, Idle, TypeOK, HoldersHaveTheirRow, RowsHaveOneHolder, ActsAtMostOnce, OutcomesAreTrue, Holds, Held
<1>a. ASSUME NEW h \in Handlers, Acknowledge(h) PROVE IInv'
  BY <1>a DEF Acknowledge, Fault, In, Idle, TypeOK, HoldersHaveTheirRow, RowsHaveOneHolder, ActsAtMostOnce, OutcomesAreTrue, Holds, Held
<1>k. ASSUME NEW h \in Handlers, NEW r \in Rules, claim(h, r) PROVE IInv'
  <2> DEFINE x == <<r, at[h].event>>
  <2>1. at[h] \in Busy /\ x \in Runs /\ at[h].phase = "rules"
    BY <1>k DEF claim, In, TypeOK, Runs, Busy
  <2>2. CASE run[x] # "none"
    BY <1>k, <2>1, <2>2, SMTT(30) DEF claim, Busy, Idle, TypeOK, HoldersHaveTheirRow, RowsHaveOneHolder, ActsAtMostOnce, OutcomesAreTrue, Holds, Held
  <2>3. CASE run[x] = "none"
    <3>1. /\ run' = [run EXCEPT ![x] = "running"]
          /\ recent' = recent \cup {x}
          /\ at' = [at EXCEPT ![h] = [@ EXCEPT !.todo = at[h].todo \ {r}, !.rule = r, !.phase = "judge"]]
          /\ UNCHANGED <<actor, queued, acts, faults>>
      BY <1>k, <2>3 DEF claim
    <3>2. TypeOK'
      <4>1. [at[h] EXCEPT !.todo = @ \ {r}, !.rule = r, !.phase = "judge"] \in Busy
        BY <2>1 DEF Busy, Phases
      <4>2. /\ at' \in [Handlers -> {Idle} \cup Busy]
            /\ at'[h].phase = "judge" /\ at'[h].rule = r
            /\ \A g \in Handlers \ {h} : at'[g] = at[g]
        BY <3>1, <2>1, <4>1 DEF TypeOK, Busy
      <4> QED
        BY <3>1, <2>1, <4>2 DEF TypeOK
    <3>3. Held(h)' = x /\ \A g \in Handlers \ {h} : at'[g] = at[g]
      BY <3>1, <2>1 DEF TypeOK, Busy, Idle, Held
    <3>4. \A g \in Handlers \ {h} : Holds(g) => Held(g) # x
      BY <2>3 DEF HoldersHaveTheirRow
    <3>5. acts[x] = 0
      BY <2>1, <2>3 DEF OutcomesAreTrue
    <3>6. at'[h].phase = "judge"
      BY <3>1, <2>1 DEF TypeOK, Busy
    <3>7. HoldersHaveTheirRow'
      BY <3>1, <3>3, <3>4, <3>5, <3>6, <2>1, HeldIsARun DEF HoldersHaveTheirRow, Holds, Held, TypeOK
    <3>8. RowsHaveOneHolder'
      BY <3>3, <3>4 DEF RowsHaveOneHolder, Holds, Held
    <3>9. ActsAtMostOnce' /\ OutcomesAreTrue'
      BY <3>1, <2>1 DEF ActsAtMostOnce, OutcomesAreTrue, TypeOK
    <3> QED
      BY <3>2, <3>7, <3>8, <3>9
  <2> QED
    BY <2>2, <2>3
<1>j. ASSUME NEW h \in Handlers, judge(h) \/ SaidFails(h) PROVE IInv'
  <2>1. PICK phase \in {"act", "drop", "skipped", "capped", "failed"} : Go(h, phase)
    BY <1>j DEF judge, SaidFails
  <2>2. at[h] \in Busy /\ at[h].phase = "judge" /\ at[h] # Idle
    BY <1>j DEF judge, SaidFails, In, TypeOK
  <2>3. UNCHANGED <<actor, queued, run, recent, acts>> /\ faults' \in 0..MaxFaults
    BY <1>j DEF judge, SaidFails, Fault, TypeOK
  <2> QED
    BY <2>1, <2>2, <2>3 DEF Go, Busy, Phases, Finished, Idle, TypeOK, HoldersHaveTheirRow, RowsHaveOneHolder, ActsAtMostOnce, OutcomesAreTrue, Holds, Held
<1>m. ASSUME NEW h \in Handlers, act(h) PROVE IInv'
  <2>1. PICK phase \in {"done", "failed"} : Go(h, phase)
    BY <1>m DEF act
  <2>2. at[h] \in Busy /\ at[h].phase = "act" /\ at[h] # Idle /\ Held(h) \in Runs
    BY <1>m, HeldIsARun DEF act, In, TypeOK, Holds
  <2>3. acts[Held(h)] = 0 /\ run[Held(h)] = "running"
    BY <2>2 DEF HoldersHaveTheirRow, Holds
  <2>4. acts' = [acts EXCEPT ![Held(h)] = 1] /\ UNCHANGED <<run, recent, faults>>
    BY <1>m, <2>2, <2>3 DEF act, TypeOK
  <2>5. at'[h].phase = phase /\ at'[h] # Idle /\ at'[h] \in Busy /\ Held(h)' = Held(h)
    BY <2>1, <2>2 DEF Go, Busy, Phases, Finished, Idle, Held, TypeOK
  <2>6. \A g \in Handlers \ {h} : at'[g] = at[g]
    BY <2>1 DEF Go, TypeOK
  <2>7. TypeOK'
    <3>1. actor' \in [Events -> {"none", "person", "automation"}] /\ queued' \subseteq Events
      <4>1. CASE UNCHANGED <<actor, queued>>
        BY <4>1 DEF TypeOK
      <4>2. CASE \E e \in Events : /\ actor' = [actor EXCEPT ![e] = "automation"]
                                   /\ queued' = queued \cup {e}
        BY <4>2 DEF TypeOK
      <4> QED
        BY <1>m, <4>1, <4>2 DEF act
    <3>2. at' \in [Handlers -> {Idle} \cup Busy]
      BY <2>1, <2>5, <2>6 DEF Go, TypeOK
    <3>3. acts' \in [Runs -> 0..2]
      <4>1. acts \in [Runs -> 0..2] /\ 1 \in 0..2
        BY DEF TypeOK
      <4> QED
        BY <2>4, <4>1
    <3>4. \A g \in Handlers : at'[g].phase = "rules" <=> at'[g].rule = "none"
      BY <2>1, <2>2, <2>5, <2>6 DEF Go, TypeOK, Busy, Idle
    <3> QED
      BY <3>1, <3>2, <3>3, <3>4, <2>4 DEF TypeOK
  <2>8. HoldersHaveTheirRow'
    BY <2>2, <2>3, <2>4, <2>5, <2>6 DEF HoldersHaveTheirRow, RowsHaveOneHolder, Holds, Held, TypeOK
  <2>9. RowsHaveOneHolder'
    BY <2>2, <2>5, <2>6 DEF RowsHaveOneHolder, Holds, Held
  <2>10. ActsAtMostOnce' /\ OutcomesAreTrue'
    BY <2>2, <2>3, <2>4 DEF ActsAtMostOnce, OutcomesAreTrue, TypeOK
  <2> QED
    BY <2>7, <2>8, <2>9, <2>10
<1>f. ASSUME NEW h \in Handlers, finish(h) \/ drop(h) PROVE IInv'
  <2>1. at[h] \in Busy /\ Holds(h) /\ Held(h) \in Runs
    BY <1>f, HeldIsARun DEF finish, drop, In, TypeOK, Holds, Finished
  <2>2. PICK o \in Finished \cup {"none"} : run' = [run EXCEPT ![Held(h)] = o]
    BY <1>f DEF finish, drop
  <2>3. o # "failed" => acts[Held(h)] = IF o = "done" THEN 1 ELSE 0
    BY <1>f, <2>1, <2>2 DEF finish, drop, In, HoldersHaveTheirRow, Finished, TypeOK
  <2>4. NextRule(h) /\ UNCHANGED <<actor, queued, acts, faults>> /\ recent' \subseteq recent
    BY <1>f DEF finish, drop
  <2>5. ~Holds(h)' /\ \A g \in Handlers \ {h} : at'[g] = at[g]
    BY <2>1, <2>4 DEF NextRule, Holds, TypeOK, Busy
  <2>6. TypeOK'
    BY <2>1, <2>2, <2>4 DEF NextRule, TypeOK, Busy, Phases, Idle, Holds
  <2>7. HoldersHaveTheirRow' /\ RowsHaveOneHolder'
    BY <2>1, <2>2, <2>4, <2>5 DEF HoldersHaveTheirRow, RowsHaveOneHolder, Holds, Held, TypeOK
  <2>8. ActsAtMostOnce' /\ OutcomesAreTrue'
    BY <2>1, <2>2, <2>3, <2>4 DEF ActsAtMostOnce, OutcomesAreTrue, TypeOK, Finished
  <2> QED
    BY <2>6, <2>7, <2>8
<1>r. ASSUME NEW h \in Handlers, RunFails(h) PROVE IInv'
  <2>1. at[h] \in Busy /\ UNCHANGED <<actor, queued, run, recent, acts>> /\ faults' \in 0..MaxFaults
    BY <1>r DEF RunFails, Fault, In, TypeOK
  <2>2. CASE In(h, "rules") /\ \E r \in at[h].todo : at' = [at EXCEPT ![h].todo = @ \ {r}]
    BY <2>1, <2>2 DEF In, Busy, Idle, TypeOK, HoldersHaveTheirRow, RowsHaveOneHolder, ActsAtMostOnce, OutcomesAreTrue, Holds, Held
  <2>3. CASE NextRule(h)
    <3>1. ~Holds(h)' /\ \A g \in Handlers \ {h} : at'[g] = at[g]
      BY <2>1, <2>3 DEF NextRule, Holds, TypeOK, Busy
    <3>2. TypeOK'
      BY <2>1, <2>3 DEF NextRule, TypeOK, Busy, Phases, Idle
    <3>3. HoldersHaveTheirRow' /\ RowsHaveOneHolder'
      BY <2>1, <3>1 DEF HoldersHaveTheirRow, RowsHaveOneHolder, Holds, Held
    <3>4. ActsAtMostOnce' /\ OutcomesAreTrue'
      BY <2>1 DEF ActsAtMostOnce, OutcomesAreTrue
    <3> QED
      BY <3>2, <3>3, <3>4
  <2> QED
    BY <1>r, <2>2, <2>3 DEF RunFails
<1> QED
  BY <1>1, <1>2, <1>c, <1>u, <1>h, <1>a, <1>k, <1>j, <1>m, <1>f, <1>r DEF Next

(* Every variable keeps its type, and a handler holds a rule exactly while it
   is at one. *)
THEOREM TypeCorrect == Spec => []TypeOK
BY InitIInv, NextIInv, PTL DEF Spec, IInv

(* However often the stream delivers an event, whoever else is handling it and
   wherever a worker dies, a rule's actions run at most once for it. *)
THEOREM ActsOnce == Spec => []ActsAtMostOnce
BY InitIInv, NextIInv, PTL DEF Spec, IInv

(* A recorded outcome is what happened: skipped, capped and absent runs never
   acted, and done ones acted once. *)
THEOREM LogIsTrue == Spec => []OutcomesAreTrue
BY InitIInv, NextIInv, PTL DEF Spec, IInv
-----------------------------------------------------------------------------
(***************************************************************************)
(* The three bounds.  Each counts rows: those left running, those that say *)
(* a rule acted, those that say it was capped.  A handler on its way to    *)
(* one more row is counted with them, so that recording it changes no sum; *)
(* a step that adds a handler has just counted the rows (judge), or is a   *)
(* fault.                                                                  *)
(***************************************************************************)
Bounds ==
    /\ IsFiniteSet(recent) /\ IsFiniteSet(Abandoned)
    /\ AbandonedRunsAreFaults /\ CapCoversActing /\ LogCoversTelling
Allowed == Cardinality(Handlers) * (MaxFaults - faults)

LEMMA HandlersCount == Cardinality(Handlers) \in Nat \ {0}
BY FS_CardinalityType, FS_EmptySet

(* A fault allows one abandoned run more for every handler. *)
LEMMA AllowedFacts ==
    ASSUME faults \in 0..MaxFaults
    PROVE  /\ Allowed \in Nat
           /\ faults' = faults => Allowed' = Allowed
           /\ Fault => Allowed' = Allowed + Cardinality(Handlers)
<1> DEFINE k == MaxFaults - faults
<1>1. k \in Nat /\ Cardinality(Handlers) \in Nat
  BY HandlersCount
<1>2. \A a, b \in Nat : a * b \in Nat /\ a * (b + 1) = a * b + a
  OBVIOUS
<1>3. Allowed = Cardinality(Handlers) * k
  BY DEF Allowed
<1>4. Fault => Allowed' = Cardinality(Handlers) * (k + 1)
  <2>1. Fault => MaxFaults - faults' = k + 1
    BY DEF Fault
  <2> QED BY <2>1 DEF Allowed
<1>5. faults' = faults => Allowed' = Allowed
  BY DEF Allowed
<1> HIDE DEF k
<1> QED BY <1>1, <1>2, <1>3, <1>4, <1>5

(* A handler has a row in hand exactly while it holds one. *)
LEMMA AbandonedAre ==
    ASSUME TypeOK
    PROVE  Abandoned = {x \in Runs : run[x] = "running" /\ \A h \in Handlers : Holds(h) => Held(h) # x}
<1>1. ASSUME NEW h \in Handlers, NEW x \in Runs, Held(h) = x PROVE Holds(h) <=> at[h] # Idle
  BY <1>1 DEF TypeOK, Holds, Held, Runs, Idle
<1> QED BY <1>1 DEF Abandoned

(* How a row comes to be left running: it was not running, or in somebody's
   hands. *)
LEMMA NewlyAbandoned ==
    ASSUME TypeOK, TypeOK', NEW x \in Abandoned', x \notin Abandoned
    PROVE  /\ x \in Runs /\ run'[x] = "running" /\ \A h \in Handlers : Holds(h)' => Held(h)' # x
           /\ run[x] # "running" \/ \E h \in Handlers : Holds(h) /\ Held(h) = x
<1>1. x \in Runs /\ run'[x] = "running" /\ \A h \in Handlers : at'[h] # Idle => Held(h)' # x
  BY DEF Abandoned, Idle
<1>2. \A h \in Handlers : Holds(h)' => Held(h)' # x
  BY <1>1 DEF Holds, Idle
<1> QED BY <1>1, <1>2, AbandonedAre

LEMMA SetsAreFinite ==
    ASSUME IsFiniteSet(recent), NEW r
    PROVE  /\ IsFiniteSet(Counted(r)) /\ Cardinality(Counted(r)) \in Nat
           /\ IsFiniteSet(Told(r)) /\ Cardinality(Told(r)) \in Nat
           /\ IsFiniteSet(Acting(r)) /\ Cardinality(Acting(r)) \in Nat
           /\ Cardinality(Acting(r)) <= Cardinality(Handlers)
           /\ IsFiniteSet(Telling(r)) /\ Cardinality(Telling(r)) \in Nat
           /\ Cardinality(Telling(r)) <= Cardinality(Handlers)
<1>1. Counted(r) \subseteq recent /\ Told(r) \subseteq recent
      /\ Acting(r) \subseteq Handlers /\ Telling(r) \subseteq Handlers
  BY DEF Counted, Told, Acting, Telling
<1> QED BY <1>1, CountPart

(* Each bound stays where its sets do not grow. *)
LEMMA AbandonedStay ==
    ASSUME IInv, Bounds, faults' = faults \/ Fault, Abandoned' \subseteq Abandoned
    PROVE  IsFiniteSet(Abandoned') /\ AbandonedRunsAreFaults'
<1>1. IsFiniteSet(Abandoned') /\ Cardinality(Abandoned') <= Cardinality(Abandoned)
      /\ Cardinality(Abandoned') \in Nat /\ Cardinality(Abandoned) \in Nat
  BY CountPart DEF Bounds
<1>2. Cardinality(Abandoned) <= Allowed
  BY DEF Bounds, AbandonedRunsAreFaults, Allowed
<1>3. Allowed \in Nat /\ Allowed' \in Nat /\ Allowed <= Allowed'
  BY AllowedFacts, HandlersCount DEF IInv, TypeOK
<1>4. Cardinality(Abandoned') <= Allowed'
  BY <1>1, <1>2, <1>3
<1> QED BY <1>1, <1>4 DEF AbandonedRunsAreFaults, Allowed

LEMMA CapStays ==
    ASSUME Bounds, \A r \in Rules : Counted(r)' \subseteq Counted(r) /\ Acting(r)' \subseteq Acting(r)
    PROVE  CapCoversActing'
<1> SUFFICES ASSUME NEW r \in Rules
             PROVE  Cardinality(Counted(r)') + Cardinality(Acting(r)')
                      <= HourlyCap + Cardinality(Handlers) - 1
    BY DEF CapCoversActing
<1>1. Cardinality(Counted(r)') <= Cardinality(Counted(r)) /\ Cardinality(Counted(r)') \in Nat
      /\ Cardinality(Acting(r)') <= Cardinality(Acting(r)) /\ Cardinality(Acting(r)') \in Nat
      /\ Cardinality(Counted(r)) \in Nat /\ Cardinality(Acting(r)) \in Nat
  BY SetsAreFinite, CountPart DEF Bounds
<1>2. Cardinality(Counted(r)) + Cardinality(Acting(r)) <= HourlyCap + Cardinality(Handlers) - 1
  BY DEF Bounds, CapCoversActing
<1> QED BY <1>1, <1>2, HandlersCount

LEMMA LogStays ==
    ASSUME IInv, Bounds, faults' = faults \/ Fault,
           \A r \in Rules : Told(r)' \subseteq Told(r) /\ Telling(r)' \subseteq Telling(r)
    PROVE  LogCoversTelling'
<1> SUFFICES ASSUME NEW r \in Rules
             PROVE  Cardinality(Told(r)') + Cardinality(Telling(r)')
                      <= Cardinality(Handlers) + (MaxFaults - faults')
    BY DEF LogCoversTelling
<1>1. Cardinality(Told(r)') <= Cardinality(Told(r)) /\ Cardinality(Told(r)') \in Nat
      /\ Cardinality(Telling(r)') <= Cardinality(Telling(r)) /\ Cardinality(Telling(r)') \in Nat
      /\ Cardinality(Told(r)) \in Nat /\ Cardinality(Telling(r)) \in Nat
  BY SetsAreFinite, CountPart DEF Bounds
<1>2. Cardinality(Told(r)) + Cardinality(Telling(r)) <= Cardinality(Handlers) + (MaxFaults - faults)
  BY DEF Bounds, LogCoversTelling
<1>3. faults \in 0..MaxFaults /\ (faults' = faults \/ faults' = faults - 1)
  BY DEF IInv, TypeOK, Fault
<1> QED BY <1>1, <1>2, <1>3, HandlersCount

-----------------------------------------------------------------------------
(* A step that changes no row and no handler that holds one. *)
Quiet ==
    /\ run' = run /\ acts' = acts /\ recent' \subseteq recent /\ (faults' = faults \/ Fault)
    /\ \A h \in Handlers : /\ Holds(h)' <=> Holds(h)
                           /\ Holds(h) => at'[h].phase = at[h].phase /\ at'[h].rule = at[h].rule
                                          /\ Held(h)' = Held(h)

LEMMA QuietBounds ==
    ASSUME IInv, IInv', Bounds, Quiet
    PROVE  Bounds'
<1>1. Abandoned' \subseteq Abandoned
  <2> SUFFICES ASSUME NEW x \in Abandoned', x \notin Abandoned PROVE FALSE
    OBVIOUS
  <2> QED BY NewlyAbandoned DEF IInv, Quiet
<1>2. \A r \in Rules : Counted(r)' \subseteq Counted(r) /\ Told(r)' \subseteq Told(r)
  BY DEF Quiet, Counted, Told
<1>3. \A r \in Rules : Acting(r)' \subseteq Acting(r) /\ Telling(r)' \subseteq Telling(r)
  BY DEF Quiet, Acting, Telling
<1>4. IsFiniteSet(recent') /\ (faults' = faults \/ Fault)
  BY CountPart DEF Quiet, Bounds
<1> QED BY <1>1, <1>2, <1>3, <1>4, AbandonedStay, CapStays, LogStays DEF Bounds

(* A row is claimed: it has not acted, and it is held. *)
LEMMA ClaimBounds ==
    ASSUME IInv, IInv', Bounds, NEW h \in Handlers, NEW r \in Rules, claim(h, r),
           run[<<r, at[h].event>>] = "none"
    PROVE  Bounds'
<1> DEFINE x == <<r, at[h].event>>
<1>1. at[h] \in Busy /\ x \in Runs /\ ~Holds(h)
  BY DEF claim, In, IInv, TypeOK, Runs, Busy, Holds
<1>2. /\ run' = [run EXCEPT ![x] = "running"]
      /\ recent' = recent \cup {x}
      /\ at' = [at EXCEPT ![h] = [@ EXCEPT !.todo = at[h].todo \ {r}, !.rule = r, !.phase = "judge"]]
      /\ acts' = acts /\ faults' = faults
  BY DEF claim
<1>3. at'[h].phase = "judge" /\ at'[h].rule = r /\ Held(h)' = x /\ Holds(h)'
      /\ \A g \in Handlers \ {h} : at'[g] = at[g]
  <2>1. at'[h].phase = "judge" /\ at'[h].rule = r /\ at'[h].event = at[h].event
        /\ \A g \in Handlers \ {h} : at'[g] = at[g]
    BY <1>1, <1>2 DEF IInv, TypeOK, Busy
  <2> QED BY <2>1 DEF Idle, Held, Holds
<1>4. acts[x] = 0
  BY <1>1 DEF IInv, OutcomesAreTrue
<1>5. \A g \in Handlers \ {h} : (Holds(g)' <=> Holds(g)) /\ Held(g)' = Held(g)
  BY <1>3 DEF Holds, Held
<1>6. run'[x] = "running" /\ \A y \in Runs \ {x} : run'[y] = run[y]
  BY <1>1, <1>2 DEF IInv, TypeOK
<1> HIDE DEF x
<1>7. Abandoned' \subseteq Abandoned
  <2> SUFFICES ASSUME NEW y \in Abandoned', y \notin Abandoned PROVE FALSE
    OBVIOUS
  <2> QED BY <1>1, <1>3, <1>5, <1>6, NewlyAbandoned DEF IInv
<1>8. recent' \subseteq Runs
  BY DEF IInv, TypeOK
<1>9. \A q \in Rules : Counted(q)' \subseteq Counted(q) /\ Told(q)' \subseteq Told(q)
  BY <1>2, <1>6, <1>8 DEF Counted, Told
<1>10. \A q \in Rules : Acting(q)' \subseteq Acting(q) /\ Telling(q)' \subseteq Telling(q)
  <2>1. \A q \in Rules : h \notin Acting(q)' /\ h \notin Telling(q)'
    BY <1>2, <1>3, <1>4 DEF Acting, Telling
  <2> QED BY <1>2, <1>3, <1>5, <2>1 DEF Acting, Telling
<1>11. IsFiniteSet(recent')
  BY <1>2, CountAdd DEF Bounds
<1> QED BY <1>2, <1>7, <1>9, <1>10, <1>11, AbandonedStay, CapStays, LogStays DEF Bounds

(* A handler goes on with the row it holds. *)
GoesOn(h, phase) ==
    /\ Holds(h) /\ Holds(h)' /\ Held(h)' = Held(h) /\ at'[h].phase = phase
    /\ at'[h].rule = at[h].rule
    /\ \A g \in Handlers \ {h} : at'[g] = at[g]
    /\ run' = run /\ recent' = recent

LEMMA GoingOn ==
    ASSUME IInv, NEW h \in Handlers, NEW phase \in {"act", "drop"} \cup Finished, Go(h, phase),
           Holds(h), run' = run, recent' = recent
    PROVE  GoesOn(h, phase)
<1>1. at[h] \in Busy
  BY DEF IInv, TypeOK, Holds
<1>2. at'[h].phase = phase /\ at'[h].rule = at[h].rule /\ at'[h].event = at[h].event
      /\ \A g \in Handlers \ {h} : at'[g] = at[g]
  BY <1>1 DEF Go, IInv, TypeOK, Busy
<1>3. at'[h] # Idle /\ phase # "rules"
  BY <1>2 DEF Idle, Finished
<1> QED BY <1>2, <1>3 DEF GoesOn, Holds, Held

LEMMA GoesOnAbandons ==
    ASSUME IInv, IInv', NEW h \in Handlers, NEW phase, GoesOn(h, phase)
    PROVE  /\ Abandoned' \subseteq Abandoned
           /\ \A r \in Rules : Told(r)' = Told(r)
           /\ \A g \in Handlers \ {h} : (Holds(g)' <=> Holds(g)) /\ Held(g)' = Held(g)
<1>1. \A g \in Handlers : (Holds(g)' <=> Holds(g)) /\ Held(g)' = Held(g)
  BY DEF GoesOn, Holds, Held
<1>2. Abandoned' \subseteq Abandoned
  <2> SUFFICES ASSUME NEW x \in Abandoned', x \notin Abandoned PROVE FALSE
    OBVIOUS
  <2> QED BY <1>1, NewlyAbandoned DEF IInv, GoesOn
<1> QED BY <1>1, <1>2 DEF GoesOn, Told

(* The verdict: act only where the rows on record leave room, and tell of the
   cap only where no row does, or the question failed. *)
LEMMA JudgeBounds ==
    ASSUME IInv, IInv', Bounds, NEW h \in Handlers, judge(h) \/ SaidFails(h)
    PROVE  Bounds'
<1> DEFINE x == Held(h)
           q == at[h].rule
<1>1. PICK phase \in {"act", "drop", "skipped", "capped", "failed"} :
        /\ Go(h, phase)
        /\ phase = "act" => Cardinality(Ran(x)) < HourlyCap
        /\ phase = "capped" => (faults' = faults /\ ~Said(x)) \/ Fault
  BY DEF judge, SaidFails
<1>2. Holds(h) /\ at[h].phase = "judge" /\ run' = run /\ recent' = recent /\ acts' = acts
      /\ (faults' = faults \/ Fault)
  BY DEF judge, SaidFails, In, Holds
<1>3. GoesOn(h, phase)
  BY <1>1, <1>2, GoingOn DEF Finished
<1>4. /\ x \in Runs /\ q \in Rules /\ x[1] = q /\ run[x] = "running" /\ acts[x] = 0
      /\ Held(h)' = x /\ at'[h].rule = q /\ at'[h].phase = phase
      /\ \A g \in Handlers \ {h} : at'[g] = at[g]
  BY <1>2, <1>3, HeldIsARun DEF IInv, HoldersHaveTheirRow, GoesOn, Held
<1> HIDE DEF x, q
<1>5. Abandoned' \subseteq Abandoned /\ \A r \in Rules : Told(r)' = Told(r)
      /\ \A g \in Handlers \ {h} : (Holds(g)' <=> Holds(g)) /\ Held(g)' = Held(g)
  BY <1>3, GoesOnAbandons
<1>6. \A r \in Rules : Counted(r)' = Counted(r)
  BY <1>2 DEF Counted
<1>7. \A r \in Rules : Acting(r)' \subseteq Acting(r) \cup {h} /\ Telling(r)' \subseteq Telling(r) \cup {h}
  BY <1>2, <1>4, <1>5 DEF Acting, Telling
<1>8. \A r \in Rules : /\ h \in Acting(r)' => r = q /\ phase = "act"
                       /\ h \in Telling(r)' => r = q /\ phase = "capped"
  BY <1>2, <1>4 DEF Acting, Telling
<1>9. CapCoversActing'
  <2>1. CASE phase # "act"
    BY <2>1, <1>6, <1>7, <1>8, CapStays
  <2>2. CASE phase = "act"
    <3> SUFFICES ASSUME NEW r \in Rules
                 PROVE  Cardinality(Counted(r)') + Cardinality(Acting(r)')
                          <= HourlyCap + Cardinality(Handlers) - 1
      BY DEF CapCoversActing
    <3>1. CASE r # q
      <4>1. Acting(r)' \subseteq Acting(r)
        BY <1>7, <1>8, <3>1
      <4>2. Cardinality(Acting(r)') <= Cardinality(Acting(r)) /\ Cardinality(Acting(r)') \in Nat
            /\ Cardinality(Acting(r)) \in Nat /\ Cardinality(Counted(r)) \in Nat
        BY <4>1, SetsAreFinite, CountPart DEF Bounds
      <4>3. Cardinality(Counted(r)) + Cardinality(Acting(r)) <= HourlyCap + Cardinality(Handlers) - 1
        BY DEF Bounds, CapCoversActing
      <4> QED BY <4>2, <4>3, <1>6, HandlersCount
    <3>2. CASE r = q
      <4>1. Counted(r) \subseteq Ran(x)
        BY <1>4, <3>2 DEF Counted, Ran
      <4>2. IsFiniteSet(Ran(x))
        BY CountPart DEF Ran, Bounds
      <4>3. Cardinality(Counted(r)) <= Cardinality(Ran(x)) /\ Cardinality(Counted(r)) \in Nat
            /\ Cardinality(Ran(x)) \in Nat
        BY <4>1, <4>2, CountPart
      <4>4. Acting(r)' \subseteq Handlers
        BY DEF Acting
      <4>5. Cardinality(Acting(r)') <= Cardinality(Handlers) /\ Cardinality(Acting(r)') \in Nat
        BY <4>4, CountPart
      <4>6. Cardinality(Ran(x)) < HourlyCap /\ Counted(r)' = Counted(r)
        BY <1>1, <1>6, <2>2
      <4> QED BY <4>3, <4>5, <4>6, HandlersCount
    <3> QED BY <3>1, <3>2
  <2> QED BY <2>1, <2>2
<1>10. LogCoversTelling'
  <2>1. CASE phase # "capped"
    BY <2>1, <1>2, <1>5, <1>7, <1>8, LogStays
  <2>2. CASE phase = "capped"
    <3> SUFFICES ASSUME NEW r \in Rules
                 PROVE  Cardinality(Told(r)') + Cardinality(Telling(r)')
                          <= Cardinality(Handlers) + (MaxFaults - faults')
      BY DEF LogCoversTelling
    <3>0. faults \in 0..MaxFaults /\ faults' \in 0..MaxFaults /\ faults' <= faults
          /\ (Fault => faults' = faults - 1)
      BY <1>2 DEF IInv, TypeOK, Fault
    <3>1. Cardinality(Told(r)) + Cardinality(Telling(r)) <= Cardinality(Handlers) + (MaxFaults - faults)
          /\ Cardinality(Told(r)) \in Nat /\ Cardinality(Telling(r)) \in Nat /\ IsFiniteSet(Telling(r))
      BY SetsAreFinite DEF Bounds, LogCoversTelling
    <3>2. CASE r # q
      <4>1. Telling(r)' \subseteq Telling(r)
        BY <1>7, <1>8, <3>2
      <4>2. Cardinality(Telling(r)') <= Cardinality(Telling(r)) /\ Cardinality(Telling(r)') \in Nat
        BY <3>1, <4>1, CountPart
      <4> QED BY <1>5, <3>0, <3>1, <4>2, HandlersCount
    <3>3. CASE r = q /\ Fault
      <4>1. IsFiniteSet(Telling(r) \cup {h}) /\ Cardinality(Telling(r) \cup {h}) \in Nat
            /\ Cardinality(Telling(r) \cup {h}) <= Cardinality(Telling(r)) + 1
        BY <3>1, CountAdd
      <4>2. Cardinality(Telling(r)') <= Cardinality(Telling(r) \cup {h}) /\ Cardinality(Telling(r)') \in Nat
        BY <1>7, <4>1, CountPart
      <4> QED BY <1>5, <3>0, <3>1, <3>3, <4>1, <4>2, HandlersCount
    <3>4. CASE r = q /\ ~Said(x)
      <4>1. Told(r) = {}
        BY <3>4, <1>4 DEF Told, Said
      <4>2. Cardinality(Told(r)') = 0
        BY <4>1, <1>5, FS_EmptySet
      <4>3. Telling(r)' \subseteq Handlers
        BY DEF Telling
      <4>4. Cardinality(Telling(r)') <= Cardinality(Handlers) /\ Cardinality(Telling(r)') \in Nat
        BY <4>3, CountPart
      <4> QED BY <3>0, <4>2, <4>4, HandlersCount
    <3> QED BY <1>1, <2>2, <3>2, <3>3, <3>4
  <2> QED BY <2>1, <2>2
<1>11. IsFiniteSet(Abandoned') /\ AbandonedRunsAreFaults'
  BY <1>2, <1>5, AbandonedStay
<1> QED BY <1>2, <1>9, <1>10, <1>11 DEF Bounds

(* Acting: the handler was counted before it acted. *)
LEMMA ActBounds ==
    ASSUME IInv, IInv', Bounds, NEW h \in Handlers, act(h)
    PROVE  Bounds'
<1> DEFINE x == Held(h)
<1>1. PICK phase \in {"done", "failed"} : Go(h, phase)
  BY DEF act
<1>2. Holds(h) /\ at[h].phase = "act" /\ run' = run /\ recent' = recent /\ faults' = faults
  BY DEF act, In, Holds
<1>3. GoesOn(h, phase)
  BY <1>1, <1>2, GoingOn DEF Finished
<1>4. /\ x \in Runs /\ run[x] = "running" /\ Held(h)' = x /\ at'[h].rule = at[h].rule
      /\ at'[h].phase = phase /\ \A g \in Handlers \ {h} : at'[g] = at[g]
  BY <1>2, <1>3, HeldIsARun DEF IInv, HoldersHaveTheirRow, GoesOn
<1>5. \A y \in Runs \ {x} : acts'[y] = acts[y]
  BY DEF act, IInv, TypeOK
<1>6. \A g \in Handlers \ {h} : Holds(g) => Held(g) \in Runs \ {x}
  BY <1>2, HeldIsARun DEF IInv, RowsHaveOneHolder
<1> HIDE DEF x
<1>7. Abandoned' \subseteq Abandoned /\ \A r \in Rules : Told(r)' = Told(r)
      /\ \A g \in Handlers \ {h} : (Holds(g)' <=> Holds(g)) /\ Held(g)' = Held(g)
  BY <1>3, GoesOnAbandons
<1>8. \A r \in Rules : Counted(r)' \subseteq Counted(r)
  BY <1>2, <1>4, <1>5 DEF Counted, IInv, TypeOK
<1>9. \A r \in Rules : Acting(r)' \subseteq Acting(r) /\ Telling(r)' \subseteq Telling(r)
  BY <1>2, <1>4, <1>5, <1>6, <1>7 DEF Acting, Telling
<1> QED BY <1>2, <1>7, <1>8, <1>9, AbandonedStay, CapStays, LogStays DEF Bounds

(* A handler lets go of its row. *)
LetsGo(h) ==
    /\ Holds(h) /\ ~Holds(h)'
    /\ \A g \in Handlers \ {h} : at'[g] = at[g]
    /\ acts' = acts

LEMMA LettingGo ==
    ASSUME IInv, NEW h \in Handlers, Holds(h), NextRule(h), acts' = acts
    PROVE  /\ LetsGo(h)
           /\ \A g \in Handlers \ {h} : (Holds(g)' <=> Holds(g)) /\ Held(g)' = Held(g)
           /\ \A r \in Rules : /\ Acting(r)' = Acting(r) \ {h}
                               /\ Telling(r)' = Telling(r) \ {h}
<1>1. at[h] \in Busy
  BY DEF IInv, TypeOK, Holds
<1>2. at'[h].phase = "rules" /\ \A g \in Handlers \ {h} : at'[g] = at[g]
  BY <1>1 DEF NextRule, IInv, TypeOK, Busy
<1>3. LetsGo(h)
  BY <1>2 DEF LetsGo, Holds
<1>4. \A g \in Handlers \ {h} : (Holds(g)' <=> Holds(g)) /\ Held(g)' = Held(g)
  BY <1>2 DEF Holds, Held
<1> QED BY <1>2, <1>3, <1>4 DEF LetsGo, Acting, Telling

(* A run is concluded, or its row taken out again: it leaves the handler and
   joins the rows on record, or neither. *)
LEMMA ConcludeBounds ==
    ASSUME IInv, IInv', Bounds, NEW h \in Handlers, finish(h) \/ drop(h)
    PROVE  Bounds'
<1> DEFINE x == Held(h)
           q == at[h].rule
<1>1. Holds(h) /\ NextRule(h) /\ acts' = acts /\ faults' = faults /\ recent' \subseteq recent
  BY DEF finish, drop, In, Holds, Finished
<1>2. PICK o \in Finished \cup {"none"} :
        /\ run' = [run EXCEPT ![Held(h)] = o]
        /\ o # "none" => at[h].phase = o
  BY DEF finish, drop, In
<1>3. x \in Runs /\ q \in Rules /\ x[1] = q /\ run[x] = "running"
  BY <1>1, HeldIsARun DEF IInv, HoldersHaveTheirRow, Held
<1>4. /\ LetsGo(h)
      /\ \A g \in Handlers \ {h} : (Holds(g)' <=> Holds(g)) /\ Held(g)' = Held(g)
      /\ \A r \in Rules : Acting(r)' = Acting(r) \ {h} /\ Telling(r)' = Telling(r) \ {h}
  BY <1>1, LettingGo
<1>5. run'[x] = o /\ \A y \in Runs \ {x} : run'[y] = run[y]
  BY <1>2, <1>3 DEF IInv, TypeOK
<1>6. (acts[x] > 0 /\ o \in {"done", "failed"} => h \in Acting(q)) /\ (o = "capped" => h \in Telling(q))
  BY <1>1, <1>2 DEF Acting, Telling
<1> HIDE DEF x, q
<1>7. Abandoned' \subseteq Abandoned
  <2>1. o # "running"
    BY DEF Finished
  <2> SUFFICES ASSUME NEW y \in Abandoned', y \notin Abandoned PROVE FALSE
    OBVIOUS
  <2>2. y \in Runs \ {x} /\ run[y] = "running"
    BY <1>5, <2>1, NewlyAbandoned DEF IInv
  <2>3. PICK g \in Handlers : Holds(g) /\ Held(g) = y
    BY <2>2, NewlyAbandoned DEF IInv
  <2>4. g # h
    BY <2>2, <2>3 DEF x
  <2> QED BY <1>4, <2>3, <2>4, NewlyAbandoned DEF IInv
<1>8. recent \subseteq Runs /\ IsFiniteSet(recent) /\ IsFiniteSet(recent')
  BY <1>1, CountPart DEF IInv, TypeOK, Bounds
<1>9. \A r \in Rules : /\ Counted(r)' \subseteq Counted(r) \cup {x} /\ Told(r)' \subseteq Told(r) \cup {x}
                       /\ x \in Counted(r)' => r = q /\ acts[x] > 0 /\ o \in {"done", "failed"}
                       /\ x \in Told(r)' => r = q /\ o = "capped"
  BY <1>1, <1>3, <1>4, <1>5, <1>8 DEF Counted, Told, LetsGo
<1>10. CapCoversActing'
  <2> SUFFICES ASSUME NEW r \in Rules
               PROVE  Cardinality(Counted(r)') + Cardinality(Acting(r)')
                        <= HourlyCap + Cardinality(Handlers) - 1
    BY DEF CapCoversActing
  <2>0. /\ Cardinality(Counted(r)) + Cardinality(Acting(r)) <= HourlyCap + Cardinality(Handlers) - 1
        /\ Cardinality(Counted(r)) \in Nat /\ Cardinality(Acting(r)) \in Nat
        /\ IsFiniteSet(Counted(r)) /\ IsFiniteSet(Acting(r))
    BY SetsAreFinite DEF Bounds, CapCoversActing
  <2>1. CASE x \notin Counted(r)'
    <3>1. Counted(r)' \subseteq Counted(r) /\ Acting(r)' \subseteq Acting(r)
      BY <1>4, <1>9, <2>1
    <3>2. Cardinality(Counted(r)') <= Cardinality(Counted(r)) /\ Cardinality(Counted(r)') \in Nat
          /\ Cardinality(Acting(r)') <= Cardinality(Acting(r)) /\ Cardinality(Acting(r)') \in Nat
      BY <2>0, <3>1, CountPart
    <3> QED BY <2>0, <3>2, HandlersCount
  <2>2. CASE x \in Counted(r)'
    <3>1. h \in Acting(r)
      BY <1>6, <1>9, <2>2
    <3>2. Cardinality(Acting(r)') = Cardinality(Acting(r)) - 1 /\ Cardinality(Acting(r)') \in Nat
      BY <1>4, <2>0, <3>1, CountRemove
    <3>3. IsFiniteSet(Counted(r) \cup {x}) /\ Cardinality(Counted(r) \cup {x}) \in Nat
          /\ Cardinality(Counted(r) \cup {x}) <= Cardinality(Counted(r)) + 1
      BY <2>0, CountAdd
    <3>4. Cardinality(Counted(r)') <= Cardinality(Counted(r) \cup {x}) /\ Cardinality(Counted(r)') \in Nat
      BY <1>9, <3>3, CountPart
    <3> QED BY <2>0, <3>2, <3>3, <3>4, HandlersCount
  <2> QED BY <2>1, <2>2
<1>11. LogCoversTelling'
  <2> SUFFICES ASSUME NEW r \in Rules
               PROVE  Cardinality(Told(r)') + Cardinality(Telling(r)')
                        <= Cardinality(Handlers) + (MaxFaults - faults)
    BY <1>1 DEF LogCoversTelling
  <2>0. /\ Cardinality(Told(r)) + Cardinality(Telling(r)) <= Cardinality(Handlers) + (MaxFaults - faults)
        /\ Cardinality(Told(r)) \in Nat /\ Cardinality(Telling(r)) \in Nat
        /\ IsFiniteSet(Told(r)) /\ IsFiniteSet(Telling(r)) /\ faults \in 0..MaxFaults
    BY SetsAreFinite DEF Bounds, LogCoversTelling, IInv, TypeOK
  <2>1. CASE x \notin Told(r)'
    <3>1. Told(r)' \subseteq Told(r) /\ Telling(r)' \subseteq Telling(r)
      BY <1>4, <1>9, <2>1
    <3>2. Cardinality(Told(r)') <= Cardinality(Told(r)) /\ Cardinality(Told(r)') \in Nat
          /\ Cardinality(Telling(r)') <= Cardinality(Telling(r)) /\ Cardinality(Telling(r)') \in Nat
      BY <2>0, <3>1, CountPart
    <3> QED BY <2>0, <3>2, HandlersCount
  <2>2. CASE x \in Told(r)'
    <3>1. h \in Telling(r)
      BY <1>6, <1>9, <2>2
    <3>2. Cardinality(Telling(r)') = Cardinality(Telling(r)) - 1 /\ Cardinality(Telling(r)') \in Nat
      BY <1>4, <2>0, <3>1, CountRemove
    <3>3. IsFiniteSet(Told(r) \cup {x}) /\ Cardinality(Told(r) \cup {x}) \in Nat
          /\ Cardinality(Told(r) \cup {x}) <= Cardinality(Told(r)) + 1
      BY <2>0, CountAdd
    <3>4. Cardinality(Told(r)') <= Cardinality(Told(r) \cup {x}) /\ Cardinality(Told(r)') \in Nat
      BY <1>9, <3>3, CountPart
    <3> QED BY <2>0, <3>2, <3>3, <3>4, HandlersCount
  <2> QED BY <2>1, <2>2
<1>12. IsFiniteSet(Abandoned') /\ AbandonedRunsAreFaults'
  BY <1>1, <1>7, AbandonedStay
<1> QED BY <1>8, <1>10, <1>11, <1>12 DEF Bounds

(* A fault: the rows of some handlers are left running. *)
LEMMA FaultBounds ==
    ASSUME IInv, IInv', Bounds, Fault, run' = run, acts' = acts, recent' = recent,
           Abandoned' \subseteq Abandoned \cup {Held(h) : h \in Handlers},
           \A r \in Rules : Acting(r)' \subseteq Acting(r) /\ Telling(r)' \subseteq Telling(r)
    PROVE  Bounds'
<1> DEFINE f == [h \in Handlers |-> Held(h)]
           Lost == {f[h] : h \in Handlers}
<1>1. IsFiniteSet(Lost) /\ Cardinality(Lost) <= Cardinality(Handlers) /\ Cardinality(Lost) \in Nat
  <2>1. f = [h \in Handlers |-> f[h]]
    OBVIOUS
  <2> HIDE DEF f
  <2> QED BY <2>1, CountImage
<1>2. Abandoned' \subseteq Abandoned \cup Lost
  OBVIOUS
<1> HIDE DEF f, Lost
<1>3. IsFiniteSet(Abandoned \cup Lost) /\ Cardinality(Abandoned) \in Nat
      /\ Cardinality(Abandoned \cup Lost) \in Nat
      /\ Cardinality(Abandoned \cup Lost) <= Cardinality(Abandoned) + Cardinality(Lost)
  BY <1>1, CountUnion DEF Bounds
<1>4. IsFiniteSet(Abandoned') /\ Cardinality(Abandoned') \in Nat
      /\ Cardinality(Abandoned') <= Cardinality(Abandoned \cup Lost)
  BY <1>2, <1>3, CountPart
<1>5. Cardinality(Abandoned) <= Allowed
  BY DEF Bounds, AbandonedRunsAreFaults, Allowed
<1>6. Allowed \in Nat /\ Allowed' = Allowed + Cardinality(Handlers)
  BY AllowedFacts DEF IInv, TypeOK
<1>7. Cardinality(Abandoned') <= Allowed'
  BY <1>1, <1>3, <1>4, <1>5, <1>6, HandlersCount
<1>8. AbandonedRunsAreFaults'
  BY <1>7 DEF AbandonedRunsAreFaults, Allowed
<1>9. \A r \in Rules : Counted(r)' \subseteq Counted(r) /\ Told(r)' \subseteq Told(r)
  BY DEF Counted, Told
<1> QED BY <1>4, <1>8, <1>9, CapStays, LogStays DEF Bounds

LEMMA NextBounds == IInv /\ Bounds /\ [Next]_vars => Bounds'
<1> SUFFICES ASSUME IInv, Bounds, [Next]_vars PROVE Bounds'
    OBVIOUS
<1>i. IInv'
  BY NextIInv
<1>1. ASSUME NEW e \in Events, Emit(e) PROVE Quiet
  BY <1>1 DEF Emit, Quiet, Holds, Held
<1>2. ASSUME NEW x \in Runs, HourPasses(x) PROVE Quiet
  BY <1>2 DEF HourPasses, Quiet, Holds, Held
<1>3. CASE UNCHANGED vars
  <2>1. Quiet
    BY <1>3 DEF vars, Quiet, Holds, Held
  <2> QED BY <2>1, <1>i, QuietBounds
<1>4. ASSUME NEW h \in Handlers, NEW e \in Events, Handle(h, e) PROVE Quiet
  <2>1. ~Holds(h) /\ ~Holds(h)' /\ \A g \in Handlers \ {h} : at'[g] = at[g]
    BY <1>4 DEF Handle, IInv, TypeOK, Holds
  <2> QED BY <1>4, <2>1 DEF Handle, Quiet, Holds, Held
<1>5. ASSUME NEW h \in Handlers, Acknowledge(h) PROVE Quiet
  <2>1. ~Holds(h) /\ ~Holds(h)' /\ \A g \in Handlers \ {h} : at'[g] = at[g]
    BY <1>5 DEF Acknowledge, In, IInv, TypeOK, Holds
  <2> QED BY <1>5, <2>1 DEF Acknowledge, Quiet, Holds, Held
<1>6. ASSUME NEW h \in Handlers, NEW r \in Rules, In(h, "rules"),
             at' = [at EXCEPT ![h].todo = @ \ {r}]
      PROVE  \A g \in Handlers : /\ Holds(g)' <=> Holds(g)
                                 /\ Holds(g) => at'[g] = at[g]
  <2>1. at[h] \in Busy /\ at[h].phase = "rules"
    BY <1>6 DEF In, IInv, TypeOK
  <2>2. at'[h].phase = "rules" /\ \A g \in Handlers \ {h} : at'[g] = at[g]
    BY <1>6, <2>1 DEF IInv, TypeOK, Busy
  <2> QED BY <2>1, <2>2 DEF Holds
<1>7. ASSUME NEW h \in Handlers, NEW r \in Rules, claim(h, r) PROVE Bounds'
  <2>1. CASE run[<<r, at[h].event>>] = "none"
    BY <1>7, <2>1, <1>i, ClaimBounds
  <2>2. CASE run[<<r, at[h].event>>] # "none"
    <3>1. In(h, "rules") /\ at' = [at EXCEPT ![h].todo = @ \ {r}]
          /\ UNCHANGED <<run, recent, acts, faults>>
      BY <1>7, <2>2 DEF claim
    <3>2. Quiet
      BY <1>6, <3>1 DEF Quiet, Held
    <3> QED BY <3>2, <1>i, QuietBounds
  <2> QED BY <2>1, <2>2
<1>8. ASSUME NEW h \in Handlers, RunFails(h) PROVE Bounds'
  <2>0. Fault /\ UNCHANGED <<run, recent, acts>>
    BY <1>8 DEF RunFails
  <2>1. ASSUME In(h, "rules"), NEW r \in at[h].todo, at' = [at EXCEPT ![h].todo = @ \ {r}]
        PROVE  Bounds'
    <3>1. r \in Rules
      BY <2>1 DEF In, IInv, TypeOK, Busy
    <3>2. Quiet
      BY <1>6, <2>0, <2>1, <3>1 DEF Quiet, Held
    <3> QED BY <3>2, <1>i, QuietBounds
  <2>2. ASSUME ~In(h, "rules"), at[h] # Idle, NextRule(h) PROVE Bounds'
    <3>1. Holds(h)
      BY <2>2 DEF In, Holds
    <3>2. /\ LetsGo(h)
          /\ \A g \in Handlers \ {h} : (Holds(g)' <=> Holds(g)) /\ Held(g)' = Held(g)
          /\ \A r \in Rules : Acting(r)' = Acting(r) \ {h} /\ Telling(r)' = Telling(r) \ {h}
      BY <2>0, <2>2, <3>1, LettingGo
    <3>3. Abandoned' \subseteq Abandoned \cup {Held(g) : g \in Handlers}
      <4>1. ASSUME NEW x \in Abandoned', x \notin Abandoned PROVE \E g \in Handlers : Held(g) = x
        BY <2>0, <4>1, <1>i, NewlyAbandoned DEF IInv
      <4> QED BY <4>1
    <3> QED BY <1>i, <2>0, <3>2, <3>3, FaultBounds
  <2> QED BY <1>8, <2>1, <2>2 DEF RunFails
<1>9. CASE Crash
  <2>0. Fault /\ UNCHANGED <<run, recent, acts>> /\ \A g \in Handlers : ~Holds(g)'
    BY <1>9 DEF Crash, Holds
  <2>1. \A r \in Rules : Acting(r)' = {} /\ Telling(r)' = {}
    BY <2>0 DEF Acting, Telling
  <2>2. Abandoned' \subseteq Abandoned \cup {Held(g) : g \in Handlers}
    <3>1. ASSUME NEW x \in Abandoned', x \notin Abandoned PROVE \E g \in Handlers : Held(g) = x
      BY <2>0, <3>1, <1>i, NewlyAbandoned DEF IInv
    <3> QED BY <3>1
  <2> QED BY <1>i, <2>0, <2>1, <2>2, FaultBounds
<1>10. ASSUME NEW h \in Handlers, judge(h) \/ SaidFails(h) PROVE Bounds'
  BY <1>10, <1>i, JudgeBounds
<1>11. ASSUME NEW h \in Handlers, act(h) PROVE Bounds'
  BY <1>11, <1>i, ActBounds
<1>12. ASSUME NEW h \in Handlers, finish(h) \/ drop(h) PROVE Bounds'
  BY <1>12, <1>i, ConcludeBounds
<1>13. Quiet => Bounds'
  BY <1>i, QuietBounds
<1> QED
  BY <1>1, <1>2, <1>3, <1>4, <1>5, <1>7, <1>8, <1>9, <1>10, <1>11, <1>12, <1>13 DEF Next

LEMMA InitBounds == Init => Bounds
<1> SUFFICES ASSUME Init PROVE Bounds
    OBVIOUS
<1>1. recent = {} /\ Abandoned = {} /\ faults = MaxFaults
  BY DEF Init, Abandoned
<1>2. ASSUME NEW r \in Rules
      PROVE  Counted(r) = {} /\ Told(r) = {} /\ Acting(r) = {} /\ Telling(r) = {}
  BY DEF Init, Counted, Told, Acting, Telling, Holds
<1>3. Cardinality({}) = 0 /\ IsFiniteSet({})
  BY FS_EmptySet
<1>4. AbandonedRunsAreFaults
  <2>1. faults \in 0..MaxFaults
    BY <1>1
  <2>2. Allowed \in Nat /\ Cardinality(Abandoned) = 0
    BY <1>1, <1>3, <2>1, AllowedFacts
  <2> QED BY <2>2 DEF AbandonedRunsAreFaults, Allowed
<1>5. CapCoversActing
  <2>1. \A r \in Rules : Cardinality(Counted(r)) = 0 /\ Cardinality(Acting(r)) = 0
    BY <1>2, <1>3
  <2> QED BY <2>1, HandlersCount DEF CapCoversActing
<1>6. LogCoversTelling
  BY <1>1, <1>2, <1>3, HandlersCount DEF LogCoversTelling
<1> QED BY <1>1, <1>3, <1>4, <1>5, <1>6 DEF Bounds

(* Runs that acted: those on record, those in a handler's hands, and those a
   fault left running. *)
LEMMA BoundsKeepCap == IInv /\ Bounds => CapIsKept
<1> SUFFICES ASSUME IInv, Bounds, NEW r \in Rules
             PROVE  Cardinality({x \in recent : x[1] = r /\ acts[x] > 0})
                      <= (HourlyCap + Cardinality(Handlers) - 1) + Allowed
    BY DEF CapIsKept, Allowed
<1> DEFINE Acted == {x \in recent : x[1] = r /\ acts[x] > 0}
           f == [h \in Acting(r) |-> Held(h)]
           InHand == {f[h] : h \in Acting(r)}
<1>1. Acted \subseteq (Counted(r) \cup InHand) \cup Abandoned
  <2> SUFFICES ASSUME NEW x \in Acted, x \notin Counted(r), x \notin Abandoned
               PROVE  \E h \in Acting(r) : Held(h) = x
    OBVIOUS
  <2>1. x \in Runs /\ run[x] \in {"running"}
    BY DEF IInv, TypeOK, OutcomesAreTrue, Counted, Finished
  <2>2. PICK h \in Handlers : Holds(h) /\ Held(h) = x
    BY <2>1, AbandonedAre DEF IInv
  <2>3. h \in Acting(r)
    BY <2>2 DEF Acting, Held
  <2> QED BY <2>2, <2>3
<1>2. /\ IsFiniteSet(Counted(r)) /\ IsFiniteSet(Acting(r)) /\ IsFiniteSet(Abandoned)
      /\ Cardinality(Counted(r)) \in Nat /\ Cardinality(Acting(r)) \in Nat
  BY SetsAreFinite DEF Bounds
<1>3. IsFiniteSet(InHand) /\ Cardinality(InHand) <= Cardinality(Acting(r)) /\ Cardinality(InHand) \in Nat
  <2>1. f = [h \in Acting(r) |-> f[h]]
    OBVIOUS
  <2> HIDE DEF f
  <2> QED BY <1>2, <2>1, CountImage
<1> HIDE DEF Acted, f, InHand
<1>4. IsFiniteSet(Counted(r) \cup InHand) /\ Cardinality(Counted(r) \cup InHand) \in Nat
      /\ Cardinality(Counted(r) \cup InHand) <= Cardinality(Counted(r)) + Cardinality(InHand)
  BY <1>2, <1>3, CountUnion
<1>5. IsFiniteSet((Counted(r) \cup InHand) \cup Abandoned)
      /\ Cardinality((Counted(r) \cup InHand) \cup Abandoned) \in Nat /\ Cardinality(Abandoned) \in Nat
      /\ Cardinality((Counted(r) \cup InHand) \cup Abandoned)
           <= Cardinality(Counted(r) \cup InHand) + Cardinality(Abandoned)
  BY <1>2, <1>4, CountUnion
<1>6. Cardinality(Acted) <= Cardinality((Counted(r) \cup InHand) \cup Abandoned)
      /\ Cardinality(Acted) \in Nat
  BY <1>1, <1>5, CountPart
<1>7. Cardinality(Abandoned) <= Allowed /\ Allowed \in Nat
      /\ Cardinality(Counted(r)) + Cardinality(Acting(r)) <= HourlyCap + Cardinality(Handlers) - 1
  BY AllowedFacts DEF Bounds, AbandonedRunsAreFaults, Allowed, CapCoversActing, IInv, TypeOK
<1>8. Cardinality(Acted) <= (HourlyCap + Cardinality(Handlers) - 1) + Allowed
  BY <1>2, <1>3, <1>4, <1>5, <1>6, <1>7, HandlersCount
<1> QED BY <1>8 DEF Acted

LEMMA BoundsKeepLog == IInv /\ Bounds => LogIsNotFlooded
<1> SUFFICES ASSUME IInv, Bounds, NEW r \in Rules
             PROVE  Cardinality(Told(r)) <= Cardinality(Handlers) + (MaxFaults - faults)
    BY DEF LogIsNotFlooded, Told
<1>1. Cardinality(Told(r)) \in Nat /\ Cardinality(Telling(r)) \in Nat
      /\ Cardinality(Told(r)) + Cardinality(Telling(r)) <= Cardinality(Handlers) + (MaxFaults - faults)
  BY SetsAreFinite DEF Bounds, LogCoversTelling
<1> QED BY <1>1, HandlersCount DEF IInv, TypeOK

LEMMA SpecBounds == Spec => [](IInv /\ Bounds)
<1>1. Init => IInv /\ Bounds
  BY InitIInv, InitBounds
<1>2. IInv /\ Bounds /\ [Next]_vars => (IInv /\ Bounds)'
  BY NextIInv, NextBounds
<1> QED BY <1>1, <1>2, PTL DEF Spec

(* The count judge makes is not locked against other handlers, and a run that
   was cut off is not counted at all: a rule acts no more than HourlyCap times
   an hour, once more for every other handler, and once for every run that a
   fault left running.  For any cap and any number of handlers. *)
THEOREM CapHolds == Spec => []CapIsKept
BY SpecBounds, BoundsKeepCap, PTL

(* A storm over the cap fills the log with one row for every handler that may
   have asked at once, and one for every question that failed. *)
THEOREM LogStaysShort == Spec => []LogIsNotFlooded
BY SpecBounds, BoundsKeepLog, PTL

(* A row is left running only by a fault, and a fault leaves at most one row
   for every handler it took away. *)
THEOREM OnlyFaultsAbandon == Spec => []AbandonedRunsAreFaults
<1>1. IInv /\ Bounds => AbandonedRunsAreFaults
  BY DEF Bounds
<1> QED BY <1>1, SpecBounds, PTL
=============================================================================
