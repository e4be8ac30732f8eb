-------------------------- MODULE SprintLifecycle --------------------------
(***************************************************************************)
(* The life of a sprint and of the work in it (backend/internal/sprint,    *)
(* issue/sprint.go, and the triggers and indexes of the migrations).       *)
(*                                                                         *)
(* People start, complete and delete sprints, move issues between them and *)
(* hand issues to other teams, and the worker writes each running sprint's *)
(* burndown point, all at once.  Every operation is a transaction under    *)
(* READ COMMITTED: a statement sees what was committed before it began, a  *)
(* row lock is held to the end, and a foreign key takes a share of the row *)
(* it points to.  What a transaction writes is seen when it commits.  An   *)
(* operation that is waited for, refused or rolled back changes nothing.   *)
(*                                                                         *)
(* Totals are the sets of issues that were counted; how points and parents *)
(* add up is the plan's.                                                   *)
(***************************************************************************)
EXTENDS Naturals

CONSTANTS
    Sprints,
    Issues,
    Teams,      \* the project's teams, its own stream among them
    Stream,     \* per sprint: the team it was created for, which never changes
    Sessions,   \* requests in progress, the worker's snapshots among them
    Nil         \* no sprint, which is the backlog, or nothing

ASSUME SprintAssumption == Stream \in [Sprints -> Teams] /\ Nil \notin Sprints

Homes == Sprints \cup {Nil}
Totals == [held : SUBSET Issues, done : SUBSET Issues]
Nothing == [held |-> {}, done |-> {}]

VARIABLES
    state,      \* per sprint: "none", "future", "active", "closed" or "deleted"
    dated,      \* the sprints with a start and an end
    sprint_id,  \* per issue: the sprint it is in
    team_id,    \* per issue: the team that carries it
    done,       \* the issues in a status of the category done
    report,     \* per sprint: the totals its completion recorded
    point,      \* per sprint: the last burndown point written
    at,         \* per session: how far its operation is
    of,         \* per session: the sprint it starts, completes or snapshots
    to,         \* per session: where it moves work
    work,       \* per session: the issues it moves
    team,       \* per session: the team it hands an issue to
    seen        \* per session: the totals it counted before its transaction

tables == <<state, dated, sprint_id, team_id, done, report, point>>
session == <<at, of, to, work, team, seen>>
vars == <<tables, session>>

Phases == {"idle", "starting", "completing", "locked", "chosen", "carried",
           "snapshotting", "joining", "handing"}

(* Every variable has the type its comment gives it, and a running sprint has
   both its dates. *)
TypeOK ==
    /\ state \in [Sprints -> {"none", "future", "active", "closed", "deleted"}]
    /\ dated \subseteq Sprints /\ {s \in Sprints : state[s] = "active"} \subseteq dated
    /\ sprint_id \in [Issues -> Homes] /\ team_id \in [Issues -> Teams]
    /\ done \subseteq Issues
    /\ report \in [Sprints -> Totals] /\ point \in [Sprints -> Totals]
    /\ at \in [Sessions -> Phases]
    /\ of \in [Sessions -> Homes] /\ to \in [Sessions -> Homes]
    /\ work \in [Sessions -> SUBSET Issues]
    /\ team \in [Sessions -> Teams \cup {Nil}]
    /\ seen \in [Sessions -> Totals]

(* No sprint has been planned and every issue is in its team's backlog. *)
Init ==
    /\ state = [s \in Sprints |-> "none"]
    /\ dated = {}
    /\ sprint_id = [i \in Issues |-> Nil]
    /\ team_id \in [Issues -> Teams]
    /\ done = {}
    /\ report = [s \in Sprints |-> Nothing] /\ point = [s \in Sprints |-> Nothing]
    /\ at = [p \in Sessions |-> "idle"]
    /\ of = [p \in Sessions |-> Nil] /\ to = [p \in Sessions |-> Nil]
    /\ work = [p \in Sessions |-> {}]
    /\ team = [p \in Sessions |-> Nil]
    /\ seen = [p \in Sessions |-> Nothing]

-----------------------------------------------------------------------------
Open(s) == state[s] \in {"future", "active"}
In(s) == {i \in Issues : sprint_id[i] = s}
SprintTotals(s) == [held |-> In(s), done |-> In(s) \cap done]

(* FOR UPDATE of a sprint is held from a completion's lock to its commit; the
   share a foreign key takes is held while carried work points to the sprint. *)
Completing(p) == at[p] \in {"locked", "chosen", "carried"}
Locked(s) == \E p \in Sessions : Completing(p) /\ of[p] = s
Shared(s) == \E p \in Sessions : at[p] = "carried" /\ work[p] # {} /\ to[p] = s
Lockable(s) == ~Locked(s) /\ ~Shared(s)

(* An issue row is locked by the transaction that moves or hands it. *)
Moving(p) == at[p] \in {"carried", "joining", "handing"}
Busy(i) == \E p \in Sessions : Moving(p) /\ i \in work[p]

(* The session is done with its operation. *)
End(p) ==
    /\ at' = [at EXCEPT ![p] = "idle"]
    /\ of' = [of EXCEPT ![p] = Nil]
    /\ to' = [to EXCEPT ![p] = Nil]
    /\ work' = [work EXCEPT ![p] = {}]
    /\ team' = [team EXCEPT ![p] = Nil]
    /\ seen' = [seen EXCEPT ![p] = Nothing]

(* The operation is refused, loses a deadlock, fails, or its client goes. *)
RollBack(p) == at[p] # "idle" /\ End(p) /\ UNCHANGED tables

-----------------------------------------------------------------------------
(* A sprint is planned, with its dates or without. *)
Create(s) ==
    /\ state[s] = "none"
    /\ state' = [state EXCEPT ![s] = "future"]
    /\ dated' \in {dated, dated \cup {s}}
    /\ UNCHANGED <<sprint_id, team_id, done, report, point, session>>

(* Mutant: the dates of a running sprint may go. *)
UpdateAny(s) ==
    /\ Open(s) /\ Lockable(s)
    /\ dated' \in {dated \cup {s}, dated \ {s}}
    /\ UNCHANGED <<state, sprint_id, team_id, done, report, point, session>>

(* Its dates are set or cleared; a running sprint keeps both. *)
Update(s) ==
    /\ Open(s) /\ Lockable(s)
    /\ \/ dated' = dated \cup {s}
       \/ state[s] # "active" /\ dated' = dated \ {s}
    /\ UNCHANGED <<state, sprint_id, team_id, done, report, point, session>>

(* A planned sprint goes, and its work returns to the backlog. *)
Delete(s) ==
    /\ state[s] = "future" /\ Lockable(s)
    /\ \A i \in In(s) : ~Busy(i)
    /\ sprint_id' = [i \in Issues |-> IF sprint_id[i] = s THEN Nil ELSE sprint_id[i]]
    /\ state' = [state EXCEPT ![s] = "deleted"]
    /\ UNCHANGED <<dated, team_id, done, report, point, session>>

(* Before the transaction of a start, a completion or a snapshot, the sprint
   is looked up and what it holds is counted. *)
Count(p, s, phase) ==
    /\ at[p] = "idle"
    /\ at' = [at EXCEPT ![p] = phase]
    /\ of' = [of EXCEPT ![p] = s]
    /\ seen' = [seen EXCEPT ![p] = SprintTotals(s)]
    /\ UNCHANGED <<tables, work, team>>

CountToStart(p, s) ==
    /\ state[s] \notin {"none", "deleted"}
    /\ Count(p, s, "starting")
    /\ UNCHANGED to

(* Mutant: any sprint may run beside another. *)
StartBeside(p) ==
    LET s == of[p] IN
    /\ at[p] = "starting"
    /\ Lockable(s) /\ state[s] = "future" /\ s \in dated
    /\ state' = [state EXCEPT ![s] = "active"]
    /\ point' = [point EXCEPT ![s] = seen[p]]
    /\ End(p)
    /\ UNCHANGED <<dated, sprint_id, team_id, done, report>>

(* A planned sprint with both dates starts if none of its stream is running,
   which the unique index decides where two start at once. *)
Start(p) ==
    LET s == of[p] IN
    /\ at[p] = "starting"
    /\ Lockable(s) /\ state[s] = "future" /\ s \in dated
    /\ \A r \in Sprints : Stream[r] = Stream[s] => state[r] # "active"
    /\ state' = [state EXCEPT ![s] = "active"]
    /\ point' = [point EXCEPT ![s] = seen[p]]
    /\ End(p)
    /\ UNCHANGED <<dated, sprint_id, team_id, done, report>>

-----------------------------------------------------------------------------
(* Completion: the totals are counted, the sprint is locked, found running and
   its destination checked, the unfinished work is chosen and carried over,
   and the report is committed. *)
CountToComplete(p, s, d) ==
    /\ state[s] = "active" /\ d # s
    /\ Count(p, s, "completing")
    /\ to' = [to EXCEPT ![p] = d]

(* The destination is another sprint of the same stream that is not over. *)
resolveDestination(p) ==
    to[p] # Nil => Open(to[p]) /\ Stream[to[p]] = Stream[of[p]]

(* Mutant: the sprint is not asked again under its lock. *)
LockUnasked(p) ==
    /\ at[p] = "completing"
    /\ Lockable(of[p])
    /\ resolveDestination(p)
    /\ at' = [at EXCEPT ![p] = "locked"]
    /\ UNCHANGED <<tables, of, to, work, team, seen>>

Lock(p) ==
    /\ at[p] = "completing"
    /\ Lockable(of[p]) /\ state[of[p]] = "active"
    /\ resolveDestination(p)
    /\ at' = [at EXCEPT ![p] = "locked"]
    /\ UNCHANGED <<tables, of, to, work, team, seen>>

(* The statement that carries work over chooses its rows as it begins. *)
Choose(p) ==
    /\ at[p] = "locked"
    /\ work' = [work EXCEPT ![p] = In(of[p]) \ done]
    /\ at' = [at EXCEPT ![p] = "chosen"]
    /\ UNCHANGED <<tables, of, to, team, seen>>

(* Mutant: the trigger does not compare the teams. *)
guardOfStateOnly(d, moved) == moved # {} /\ d # Nil => Open(d)

(* The trigger: work joins a sprint that is there, is not over and is its own
   team's. *)
issue_sprint_guard(d, moved) ==
    moved # {} /\ d # Nil => Open(d) /\ \A i \in moved : team_id[i] = Stream[d]

(* It waits for the transactions that hold these rows, does not choose again,
   and moves each as that transaction left it. *)
carryOver(p) ==
    /\ at[p] = "chosen"
    /\ \A i \in work[p] : ~Busy(i)
    /\ issue_sprint_guard(to[p], work[p])
    /\ work[p] # {} => ~Locked(to[p])
    /\ at' = [at EXCEPT ![p] = "carried"]
    /\ UNCHANGED <<tables, of, to, work, team, seen>>

Complete(p) ==
    LET s == of[p] IN
    /\ at[p] = "carried"
    /\ state' = [state EXCEPT ![s] = "closed"]
    /\ sprint_id' = [i \in Issues |-> IF i \in work[p] THEN to[p] ELSE sprint_id[i]]
    /\ report' = [report EXCEPT ![s] = seen[p]]
    /\ point' = [point EXCEPT ![s] = seen[p]]
    /\ End(p)
    /\ UNCHANGED <<dated, team_id, done>>

-----------------------------------------------------------------------------
(* The worker's burndown point of a sprint it found running. *)
CountToSnapshot(p, s) ==
    /\ state[s] = "active"
    /\ Count(p, s, "snapshotting")
    /\ UNCHANGED to

(* Mutant: the sprint is not asked again under its lock. *)
SnapshotUnasked(p) ==
    /\ at[p] = "snapshotting"
    /\ Lockable(of[p])
    /\ point' = [point EXCEPT ![of[p]] = seen[p]]
    /\ End(p)
    /\ UNCHANGED <<state, dated, sprint_id, team_id, done, report>>

Snapshot(p) ==
    /\ at[p] = "snapshotting"
    /\ Lockable(of[p]) /\ state[of[p]] = "active"
    /\ point' = [point EXCEPT ![of[p]] = seen[p]]
    /\ End(p)
    /\ UNCHANGED <<state, dated, sprint_id, team_id, done, report>>

-----------------------------------------------------------------------------
(* An issue is committed to a sprint, or sent back to the backlog: its row is
   locked and the sprint's state and team are read, by the service and again
   by the trigger. *)
commitTo(p, i, d) ==
    /\ at[p] = "idle" /\ ~Busy(i)
    /\ sprint_id[i] # d
    /\ issue_sprint_guard(d, {i})
    /\ at' = [at EXCEPT ![p] = "joining"]
    /\ work' = [work EXCEPT ![p] = {i}]
    /\ to' = [to EXCEPT ![p] = d]
    /\ UNCHANGED <<tables, of, team, seen>>

(* Then the foreign key waits for the sprint's lock and finds it there. *)
SetSprint(p) ==
    /\ at[p] = "joining"
    /\ to[p] # Nil => ~Locked(to[p]) /\ state[to[p]] # "deleted"
    /\ sprint_id' = [i \in Issues |-> IF i \in work[p] THEN to[p] ELSE sprint_id[i]]
    /\ End(p)
    /\ UNCHANGED <<state, dated, team_id, done, report, point>>

(* An issue is handed to another team: under its lock, an open sprint of the
   old stream is left, a closed one keeps it. *)
handTo(p, i, t) ==
    LET s == sprint_id[i] IN
    /\ at[p] = "idle" /\ ~Busy(i)
    /\ team_id[i] # t
    /\ at' = [at EXCEPT ![p] = "handing"]
    /\ work' = [work EXCEPT ![p] = {i}]
    /\ team' = [team EXCEPT ![p] = t]
    /\ to' = [to EXCEPT ![p] =
          IF s = Nil \/ state[s] = "closed" \/ Stream[s] = t THEN s ELSE Nil]
    /\ UNCHANGED <<tables, of, seen>>

SetTeam(p) ==
    /\ at[p] = "handing"
    /\ team_id' = [i \in Issues |-> IF i \in work[p] THEN team[p] ELSE team_id[i]]
    /\ sprint_id' = [i \in Issues |-> IF i \in work[p] THEN to[p] ELSE sprint_id[i]]
    /\ End(p)
    /\ UNCHANGED <<state, dated, done, report, point>>

(* An issue's status changes to or from done. *)
Transition(i) ==
    /\ ~Busy(i)
    /\ done' \in {done \cup {i}, done \ {i}} \ {done}
    /\ UNCHANGED <<state, dated, sprint_id, team_id, report, point, session>>

-----------------------------------------------------------------------------
Next ==
    \/ \E s \in Sprints : Create(s) \/ Update(s) \/ Delete(s)
    \/ \E i \in Issues : Transition(i)
    \/ \E p \in Sessions :
        \/ \E s \in Sprints : CountToStart(p, s) \/ CountToSnapshot(p, s)
        \/ \E s \in Sprints, d \in Homes : CountToComplete(p, s, d)
        \/ \E i \in Issues, d \in Homes : commitTo(p, i, d)
        \/ \E i \in Issues, t \in Teams : handTo(p, i, t)
        \/ Start(p) \/ Lock(p) \/ Choose(p) \/ carryOver(p) \/ Complete(p)
        \/ Snapshot(p) \/ SetSprint(p) \/ SetTeam(p) \/ RollBack(p)

Spec == Init /\ [][Next]_vars

-----------------------------------------------------------------------------
(***************************************************************************)
(* Properties.                                                             *)
(***************************************************************************)

(* Work is carried into a sprint that is still ahead when the completion
   commits, although the destination is never locked: it could only run, and
   then close, once this sprint of the same stream is over. *)
CarriedWorkLandsAhead ==
    \A p \in Sessions : at[p] = "carried" /\ work[p] # {} /\ to[p] # Nil =>
        state[to[p]] = "future"

(* Every issue is in the backlog or in a sprint that is there, and an open
   sprint holds only its own team's work, whoever hands an issue over while
   another session moves it or completes its sprint. *)
SprintsHoldTheirTeamsWork ==
    \A i \in Issues : LET s == sprint_id[i] IN
        s # Nil =>
            /\ state[s] \notin {"none", "deleted"}
            /\ Open(s) => team_id[i] = Stream[s]

(* A sprint's last burndown point is the one its completion wrote: a snapshot
   that counted before the completion does not overwrite it. *)
LastWordIsCompletions ==
    \A s \in Sprints : state[s] = "closed" => point[s] = report[s]

(* A sprint's life only goes forwards and a report is written once: two
   sessions may complete one sprint, and one of them is refused. *)
ReportsAreFinal ==
    [][\A s \in Sprints :
        /\ state[s] = "closed" => state'[s] = "closed" /\ report'[s] = report[s]
        /\ state[s] = "active" => state'[s] \in {"active", "closed"}]_vars

(* Work cannot be added to a sprint that is already over, whose report has
   been written. *)
ClosedSprintsTakeNoWork ==
    [][\A i \in Issues, s \in Sprints :
        state[s] = "closed" /\ sprint_id'[i] = s => sprint_id[i] = s]_vars

-----------------------------------------------------------------------------
(***************************************************************************)
(* The inductive invariant the proofs rest on.                             *)
(***************************************************************************)

(* A stream runs one sprint at a time. *)
OneRuns ==
    \A r, s \in Sprints :
        Stream[r] = Stream[s] /\ state[r] = "active" /\ state[s] = "active" => r = s

(* A session between count and commit has a sprint; one completion at a time
   holds it, and it runs until that commits; an issue is moved by one session. *)
LocksHold ==
    /\ \A p \in Sessions : at[p] \in {"starting", "completing", "snapshotting"} \/ Completing(p) =>
        of[p] \in Sprints
    /\ \A p \in Sessions : Completing(p) => state[of[p]] = "active"
    /\ \A p, q \in Sessions : Completing(p) /\ Completing(q) /\ of[p] = of[q] => p = q
    /\ \A p, q \in Sessions : \A i \in Issues :
        Moving(p) /\ Moving(q) /\ i \in work[p] /\ i \in work[q] => p = q

(* What a session decided for the issues it holds is still right when it
   commits. *)
CompletionsStandBy ==
    \A p \in Sessions : to[p] # Nil =>
        /\ at[p] = "completing" => to[p] # of[p]
        /\ Completing(p) => to[p] # of[p] /\ Stream[to[p]] = Stream[of[p]]
        /\ at[p] = "carried" => \A i \in work[p] : team_id[i] = Stream[to[p]]
JoinsStandBy ==
    \A p \in Sessions : at[p] = "joining" /\ to[p] # Nil =>
        state[to[p]] # "none" /\ \A i \in work[p] : team_id[i] = Stream[to[p]]
HandoversStandBy ==
    \A p \in Sessions : at[p] = "handing" =>
        /\ team[p] \in Teams
        /\ to[p] # Nil =>
            /\ \A i \in work[p] : sprint_id[i] = to[p]
            /\ state[to[p]] = "closed" \/ Stream[to[p]] = team[p]

IInv ==
    /\ TypeOK /\ OneRuns /\ LocksHold
    /\ CompletionsStandBy /\ JoinsStandBy /\ HandoversStandBy
    /\ CarriedWorkLandsAhead /\ SprintsHoldTheirTeamsWork /\ LastWordIsCompletions
=============================================================================
