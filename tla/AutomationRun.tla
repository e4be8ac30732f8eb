--------------------------- MODULE AutomationRun ---------------------------
(***************************************************************************)
(* One automation rule against one event (backend/internal/automation).    *)
(*                                                                         *)
(* The stream delivers an event at least once.  A run is claimed by a row  *)
(* keyed by rule and event before anything is done, then guarded, capped   *)
(* and tested, acts, and records its outcome; each of these is a           *)
(* transaction of its own, and an error between them is only logged.       *)
(* What a rule does may be an event again, with the automation account as  *)
(* its actor.                                                              *)
(***************************************************************************)
EXTENDS Naturals, FiniteSets

CONSTANTS
    Rules, Events,
    Handlers,     \* goroutines that hand events to the rules
    OwnEvents,    \* the rules with AllowOwnEvents
    HourlyCap,
    MaxFaults     \* bound of the model: crashes and failed calls

ASSUME AutomationAssumption ==
    /\ OwnEvents \subseteq Rules /\ "none" \notin Rules
    /\ IsFiniteSet(Handlers) /\ Handlers # {}
    /\ HourlyCap \in Nat /\ MaxFaults \in Nat

Runs == Rules \X Events
Finished == {"done", "failed", "skipped", "capped"}

VARIABLES
    actor,    \* per event: whose act it is, "none" before it is emitted
    queued,   \* the events the stream has to deliver, or to deliver again
    run,      \* per rule and event: the row's outcome, "none" without a row
    recent,   \* the rows started within the hour
    acts,     \* per rule and event: how often its actions ran, 2 for more (history)
    at,       \* per handler: what it is at
    faults

vars == <<actor, queued, run, recent, acts, at, faults>>

(* A handler goes through the rules of its event; phase says what is next for
   the claimed rule. *)
Phases == {"rules", "judge", "act", "drop"} \cup Finished
Idle == [event |-> "none", todo |-> {}, rule |-> "none", phase |-> "rules"]
Busy == [event : Events, todo : SUBSET Rules, rule : Rules \cup {"none"}, phase : Phases]

(* Every variable has the type its comment gives it; a handler holds a rule
   exactly while it is at one. *)
TypeOK ==
    /\ actor \in [Events -> {"none", "person", "automation"}]
    /\ queued \subseteq Events
    /\ run \in [Runs -> {"none", "running"} \cup Finished]
    /\ recent \subseteq Runs
    /\ acts \in [Runs -> 0..2]
    /\ at \in [Handlers -> {Idle} \cup Busy]
    /\ \A h \in Handlers : at[h].phase = "rules" <=> at[h].rule = "none"
    /\ faults \in 0..MaxFaults

Init ==
    /\ actor = [e \in Events |-> "none"]
    /\ queued = {}
    /\ run = [x \in Runs |-> "none"]
    /\ recent = {}
    /\ acts = [x \in Runs |-> 0]
    /\ at = [h \in Handlers |-> Idle]
    /\ faults = MaxFaults

Fault == faults > 0 /\ faults' = faults - 1
In(h, phase) == at[h] # Idle /\ at[h].phase = phase
Held(h) == <<at[h].rule, at[h].event>>
Go(h, phase) == at' = [at EXCEPT ![h].phase = phase]
NextRule(h) == at' = [at EXCEPT ![h] = [@ EXCEPT !.rule = "none", !.phase = "rules"]]

-----------------------------------------------------------------------------
(* Somebody does something a rule watches. *)
Emit(e) ==
    /\ actor[e] = "none"
    /\ actor' = [actor EXCEPT ![e] = "person"]
    /\ queued' = queued \cup {e}
    /\ UNCHANGED <<run, recent, acts, at, faults>>

(* A row's hour is over. *)
HourPasses(x) ==
    /\ x \in recent
    /\ recent' = recent \ {x}
    /\ UNCHANGED <<actor, queued, run, acts, at, faults>>

(* Handle: the event is handed over, again if nobody acknowledged it. *)
Handle(h, e) ==
    /\ at[h] = Idle
    /\ e \in queued
    /\ at' = [at EXCEPT ![h] = [event |-> e, todo |-> Rules, rule |-> "none", phase |-> "rules"]]
    /\ UNCHANGED <<actor, queued, run, recent, acts, faults>>

(* Mutant: a row that is there is taken over. *)
claimAgain(h, r) ==
    /\ In(h, "rules") /\ r \in at[h].todo
    /\ LET x == <<r, at[h].event>> IN
       /\ run' = [run EXCEPT ![x] = "running"]
       /\ recent' = recent \cup {x}
       /\ at' = [at EXCEPT ![h] = [@ EXCEPT !.todo = at[h].todo \ {r}, !.rule = r, !.phase = "judge"]]
    /\ UNCHANGED <<actor, queued, acts, faults>>

(* The run is claimed by its row; where there is one already the rule is
   passed over. *)
claim(h, r) ==
    /\ In(h, "rules") /\ r \in at[h].todo
    /\ LET x == <<r, at[h].event>> IN
       \/ /\ run[x] = "none"
          /\ run' = [run EXCEPT ![x] = "running"]
          /\ recent' = recent \cup {x}
          /\ at' = [at EXCEPT ![h] = [@ EXCEPT !.todo = at[h].todo \ {r}, !.rule = r, !.phase = "judge"]]
       \/ /\ run[x] # "none"
          /\ at' = [at EXCEPT ![h].todo = @ \ {r}]
          /\ UNCHANGED <<run, recent>>
    /\ UNCHANGED <<actor, queued, acts, faults>>

(* What the rule did this hour, by the rows that say so. *)
Ran(x) == {y \in recent \ {x} : y[1] = x[1] /\ run[y] \in {"done", "failed"}}
Said(x) == {y \in recent \ {x} : y[1] = x[1] /\ run[y] = "capped"} # {}
Own(x) == actor[x[2]] = "automation" /\ x[1] \notin OwnEvents

(* Mutants: one run too many; every capped run leaves a row. *)
judgeOneMore(h) ==
    /\ In(h, "judge")
    /\ LET x == Held(h) IN
       \/ Own(x) /\ Go(h, "skipped")
       \/ ~Own(x) /\ Cardinality(Ran(x)) > HourlyCap /\ Go(h, IF Said(x) THEN "drop" ELSE "capped")
       \/ /\ ~Own(x) /\ Cardinality(Ran(x)) <= HourlyCap
          /\ \E next \in {"act", "skipped", "failed"} : Go(h, next)
    /\ UNCHANGED <<actor, queued, run, recent, acts, faults>>
judgeFloods(h) ==
    /\ In(h, "judge")
    /\ LET x == Held(h) IN
       \/ Own(x) /\ Go(h, "skipped")
       \/ ~Own(x) /\ Cardinality(Ran(x)) >= HourlyCap /\ Go(h, "capped")
       \/ /\ ~Own(x) /\ Cardinality(Ran(x)) < HourlyCap
          /\ \E next \in {"act", "skipped", "failed"} : Go(h, next)
    /\ UNCHANGED <<actor, queued, run, recent, acts, faults>>

(* The loop guard, the hourly cap, then the trigger's field and the
   conditions: they hold, do not, or cannot be asked.  Of the runs over the
   cap one an hour leaves its row. *)
judge(h) ==
    /\ In(h, "judge")
    /\ LET x == Held(h) IN
       \/ Own(x) /\ Go(h, "skipped")
       \/ ~Own(x) /\ Cardinality(Ran(x)) >= HourlyCap /\ Go(h, IF Said(x) THEN "drop" ELSE "capped")
       \/ /\ ~Own(x) /\ Cardinality(Ran(x)) < HourlyCap
          /\ \E next \in {"act", "skipped", "failed"} : Go(h, next)
    /\ UNCHANGED <<actor, queued, run, recent, acts, faults>>

(* The question whether another row said so fails, which counts as no. *)
SaidFails(h) ==
    /\ Fault
    /\ In(h, "judge") /\ ~Own(Held(h)) /\ Cardinality(Ran(Held(h))) >= HourlyCap
    /\ Go(h, "capped")
    /\ UNCHANGED <<actor, queued, run, recent, acts>>

(* The actions run, and may be an event of the automation's own. *)
act(h) ==
    /\ In(h, "act")
    /\ acts' = [acts EXCEPT ![Held(h)] = IF @ = 2 THEN 2 ELSE @ + 1]
    /\ \/ UNCHANGED <<actor, queued>>
       \/ \E e \in Events : /\ actor[e] = "none"
                            /\ actor' = [actor EXCEPT ![e] = "automation"]
                            /\ queued' = queued \cup {e}
    /\ \E outcome \in {"done", "failed"} : Go(h, outcome)
    /\ UNCHANGED <<run, recent, faults>>

(* The outcome is recorded. *)
finish(h) ==
    /\ \E outcome \in Finished :
        /\ In(h, outcome)
        /\ run' = [run EXCEPT ![Held(h)] = outcome]
    /\ NextRule(h)
    /\ UNCHANGED <<actor, queued, recent, acts, faults>>

(* Mutant: the whole log of the rule goes. *)
dropAll(h) ==
    /\ In(h, "drop")
    /\ run' = [x \in Runs |-> IF x[1] = at[h].rule THEN "none" ELSE run[x]]
    /\ recent' = recent \ {Held(h)}
    /\ NextRule(h)
    /\ UNCHANGED <<actor, queued, acts, faults>>

(* Mutant: the row of a dropped run stays. *)
dropKeeps(h) ==
    /\ In(h, "drop")
    /\ NextRule(h)
    /\ UNCHANGED <<actor, queued, run, recent, acts, faults>>

(* The row of one more capped run goes. *)
drop(h) ==
    /\ In(h, "drop")
    /\ run' = [run EXCEPT ![Held(h)] = "none"]
    /\ recent' = recent \ {Held(h)}
    /\ NextRule(h)
    /\ UNCHANGED <<actor, queued, acts, faults>>

(* One of these calls fails: the rule is given up with a line in the log. *)
RunFails(h) ==
    /\ Fault
    /\ \/ /\ In(h, "rules")
          /\ \E r \in at[h].todo : at' = [at EXCEPT ![h].todo = @ \ {r}]
       \/ ~In(h, "rules") /\ at[h] # Idle /\ ~In(h, "act") /\ NextRule(h)
    /\ UNCHANGED <<actor, queued, run, recent, acts>>

(* Every rule was considered: the event is acknowledged, or that is lost and
   it will be delivered again. *)
Acknowledge(h) ==
    /\ In(h, "rules") /\ at[h].todo = {}
    /\ at' = [at EXCEPT ![h] = Idle]
    /\ \/ queued' = queued \ {at[h].event} /\ UNCHANGED faults
       \/ Fault /\ UNCHANGED queued
    /\ UNCHANGED <<actor, run, recent, acts>>

(* The worker dies, and every handler with it. *)
Crash ==
    /\ Fault
    /\ \E h \in Handlers : at[h] # Idle
    /\ at' = [h \in Handlers |-> Idle]
    /\ UNCHANGED <<actor, queued, run, recent, acts>>

-----------------------------------------------------------------------------
Next ==
    \/ \E e \in Events : Emit(e)
    \/ \E x \in Runs : HourPasses(x)
    \/ \E h \in Handlers :
        \/ \E e \in Events : Handle(h, e)
        \/ \E r \in Rules : claim(h, r)
        \/ judge(h) \/ SaidFails(h) \/ act(h) \/ finish(h) \/ drop(h) \/ RunFails(h) \/ Acknowledge(h)
    \/ Crash

Spec == Init /\ [][Next]_vars

-----------------------------------------------------------------------------
(* A rule acts at most once on an event, however often the stream delivers
   it, whoever handles it at the same time, and wherever a worker dies. *)
ActsAtMostOnce == \A x \in Runs : acts[x] <= 1

(* A rule acts in an hour no more often than its cap, and once more for every
   other handler, which may have asked before the run was recorded, and for
   every run a fault kept from being recorded: its row does not count. *)
CapIsKept ==
    \A r \in Rules :
        Cardinality({x \in recent : x[1] = r /\ acts[x] > 0}) <=
            (HourlyCap + Cardinality(Handlers) - 1) + Cardinality(Handlers) * (MaxFaults - faults)

(* A storm over the cap leaves one row an hour in the rule's log, one more for
   every other handler that asked at the same time, and one for each time the
   question failed. *)
LogIsNotFlooded ==
    \A r \in Rules :
        Cardinality({x \in recent : x[1] = r /\ run[x] = "capped"}) <=
            Cardinality(Handlers) + (MaxFaults - faults)

(* A run is what its row says: only an outcome of acting has acted. *)
OutcomesAreTrue ==
    \A x \in Runs :
        /\ run[x] \in {"none", "skipped", "capped"} => acts[x] = 0
        /\ run[x] = "done" => acts[x] = 1

(* The inductive invariant: a handler past the claim holds a row that is
   running, holds it alone, and what it is at says whether it has acted. *)
Holds(h) == at[h] # Idle /\ at[h].phase # "rules"

HoldersHaveTheirRow ==
    \A h \in Handlers : Holds(h) =>
        /\ run[Held(h)] = "running"
        /\ at[h].phase \in {"judge", "act", "drop", "skipped", "capped"} => acts[Held(h)] = 0
        /\ at[h].phase = "done" => acts[Held(h)] = 1

RowsHaveOneHolder ==
    \A g, h \in Handlers : Holds(g) /\ Holds(h) /\ Held(g) = Held(h) => g = h

IInv == TypeOK /\ HoldersHaveTheirRow /\ RowsHaveOneHolder /\ ActsAtMostOnce /\ OutcomesAreTrue

(* A claimed run is concluded or taken out again: a row is left running, and
   the event lost to its rule, only by the handlers a fault took away. *)
Abandoned == {x \in Runs : run[x] = "running" /\ \A h \in Handlers : at[h] # Idle => Held(h) # x}
AbandonedRunsAreFaults ==
    Cardinality(Abandoned) <= Cardinality(Handlers) * (MaxFaults - faults)

(* The inductive invariants behind CapIsKept and LogIsNotFlooded: the runs on
   record and the handlers on their way to one more stay within the bound
   together. *)
Counted(r) == {x \in recent : x[1] = r /\ run[x] \in {"done", "failed"} /\ acts[x] > 0}
Acting(r) ==
    {h \in Handlers : Holds(h) /\ at[h].rule = r /\ (at[h].phase = "act" \/ acts[Held(h)] > 0)}
Told(r) == {x \in recent : x[1] = r /\ run[x] = "capped"}
Telling(r) == {h \in Handlers : Holds(h) /\ at[h].rule = r /\ at[h].phase = "capped"}

CapCoversActing ==
    \A r \in Rules :
        Cardinality(Counted(r)) + Cardinality(Acting(r)) <= HourlyCap + Cardinality(Handlers) - 1
LogCoversTelling ==
    \A r \in Rules :
        Cardinality(Told(r)) + Cardinality(Telling(r)) <= Cardinality(Handlers) + (MaxFaults - faults)
=============================================================================
