---------------------------- MODULE ClientCache ----------------------------
(***************************************************************************)
(* One change made on a screen and one query that is subscribed on it: the *)
(* life of the cached answer from the press to the moment the screen shows *)
(* what was changed.  Init chooses the pair from Cases, so that every      *)
(* change of the client is followed against every answer it touches; pairs *)
(* that are wired alike are one case.                                      *)
(* The query cache is TanStack's (external, version 5.102): invalidating   *)
(* marks the answer, reads an active query again, and cancels the read     *)
(* under way only if the query already has an answer to show.              *)
(***************************************************************************)
EXTENDS ClientScreens, Integers

CONSTANTS Cases,       \* how a change and a query of one screen are wired, see Wiring
          MaxChanges   \* bound: presses followed in one behaviour

(* How the control of a change, its hook and a query meet.  The hook tells *)
(* the cache whatever happens to its caller; the caller, the component     *)
(* that made the change, only if it is still there.                        *)
Wiring(op, write, read) ==
  [tells   |-> Tells(write, read),
   caller  |-> \E prefix \in op.also : Matches(prefix, read.key),
   removes |-> write.spares \in PartsOf(read.key),
   puts    |-> Puts(write, read),
   drops   |-> Drops(write, read),
   awaits  |-> write.awaits,
   settled |-> write.settled,
   retells |-> Retells(write, read),
   scoped  |-> write.scoped,
   waits   |-> "waits" \in op.how,
   later   |-> "later" \in op.how,
   polls   |-> read.polls,
   forever |-> read.forever]

Wirings == [{"tells", "caller", "removes", "puts", "drops", "awaits", "settled",
             "retells", "scoped", "waits", "later", "polls", "forever"} -> BOOLEAN]

ASSUME CasesAssumption == Cases \subseteq Wirings
ASSUME ChangesAssumption == MaxChanges \in Nat \ {0}

NoData == -1

Changes == 1..MaxChanges

VARIABLES case,      \* the pair followed; never changes
          server,    \* how many of the changes the server has made
          data,      \* how many of them the cached answer has, or NoData
          old,       \* the query's isInvalidated
          mounted,   \* a component is subscribed to the query, and makes the changes
          own,       \* the changes made by the one mounted now
          fetch,     \* the read under way: "idle", "asked" or "answered"
          carried,   \* what the answer on its way has
          early,     \* that read was asked before the newest invalidation
          excuse,    \* why the answer shown may be old: see ShownIsCurrent
          phase,     \* of each change, see Phases
          version    \* of each change: what the server was after it

vars == <<case, server, data, old, mounted, own, fetch, carried, early, excuse, phase, version>>

view == <<data, old, fetch, carried, early, excuse>>

(* new, on its way to the server, answered on its way back, the answer     *)
(* held open for the reader, waiting for the reads it asked for, over.     *)
Phases == {"new", "queued", "sent", "done", "refused", "reading", "settling",
           "undoing", "ended", "unheard", "failed"}

Pending(c) == phase[c] \in {"queued", "sent", "done", "refused", "settling", "undoing"}

(* The changes the client knows of: answered, or read again after a        *)
(* failure that may have been a lost answer.                               *)
Known(c) == phase[c] = "ended" \/ (case.settled /\ case.tells /\ phase[c] = "failed")

Heard(c) == Known(c) \/ phase[c] \in {"settling", "undoing"}

TypeOK ==
  /\ case \in Wirings
  /\ server \in Nat
  /\ data \in Nat \cup {NoData}
  /\ old \in BOOLEAN
  /\ mounted \in BOOLEAN
  /\ own \subseteq Changes
  /\ fetch \in {"idle", "asked", "answered"}
  /\ carried \in Nat
  /\ early \in BOOLEAN
  /\ excuse \in {"none", "failed", "early", "overtaken"}
  /\ phase \in [Changes -> Phases]
  /\ version \in [Changes -> Nat]

(* The screen opens: the query starts empty and its first read goes out.   *)
Init ==
  /\ case \in Cases
  /\ server = 0 /\ data = NoData /\ old = FALSE /\ mounted = TRUE /\ own = {}
  /\ fetch = "asked" /\ carried = 0 /\ early = FALSE /\ excuse = "none"
  /\ phase = [c \in Changes |-> "new"]
  /\ version = [c \in Changes |-> 0]

-----------------------------------------------------------------------------
(* The query.                                                              *)

(* A read goes out, replacing the one under way.                           *)
Ask ==
  /\ fetch' = "asked"
  /\ early' = FALSE
  /\ UNCHANGED <<data, carried, excuse>>

(* invalidateQueries: marked, and read again if somebody is subscribed.    *)
(* A read under way is cancelled for it when there is an answer to show    *)
(* meanwhile, and goes on otherwise.                                       *)
Invalidate ==
  /\ old' = TRUE
  /\ IF mounted /\ (fetch = "idle" \/ data # NoData)
     THEN Ask
     ELSE /\ early' = (fetch # "idle")
          /\ UNCHANGED <<data, fetch, carried, excuse>>

ReadServer ==
  /\ fetch = "asked"
  /\ fetch' = "answered"
  /\ carried' = server
  /\ UNCHANGED <<case, server, data, old, mounted, own, early, excuse, phase, version>>

(* A change that waits for its reads is over when they are, well or not.   *)
Settled ==
  [c \in Changes |-> CASE phase[c] = "settling" -> "ended"
                       [] phase[c] = "undoing"  -> "failed"
                       [] OTHER                 -> phase[c]]

Land ==
  /\ fetch = "answered"
  /\ fetch' = "idle"
  /\ data' = carried
  /\ old' = FALSE
  /\ early' = FALSE
  /\ excuse' = IF early THEN "early" ELSE "none"
  /\ phase' = Settled
  /\ UNCHANGED <<case, server, mounted, own, carried, version>>

(* Mutant: a failed read is a state of its own. *)
FailReadStays ==
  /\ fetch # "idle"
  /\ fetch' = "error"
  /\ old' = TRUE
  /\ early' = FALSE
  /\ excuse' = "failed"
  /\ phase' = Settled
  /\ UNCHANGED <<case, server, data, mounted, own, carried, version>>

(* Mutant: the changes that wait for it are not told. *)
FailReadUnsettled ==
  /\ fetch # "idle"
  /\ fetch' = "idle"
  /\ old' = TRUE
  /\ early' = FALSE
  /\ excuse' = "failed"
  /\ UNCHANGED <<case, server, data, mounted, own, carried, phase, version>>

(* retry: false, so one failed read is final; what was shown stays.        *)
FailRead ==
  /\ fetch # "idle"
  /\ fetch' = "idle"
  /\ old' = TRUE
  /\ early' = FALSE
  /\ excuse' = "failed"
  /\ phase' = Settled
  /\ UNCHANGED <<case, server, data, mounted, own, carried, version>>

(* refetchInterval, while subscribed.                                      *)
Poll ==
  /\ case.polls /\ mounted /\ fetch = "idle"
  /\ Ask
  /\ UNCHANGED <<case, server, old, mounted, own, phase, version>>

(* Mutant: an answer declared old is not read again. *)
MountTrusts ==
  /\ ~mounted
  /\ mounted' = TRUE
  /\ IF fetch = "idle" /\ data = NoData
     THEN Ask
     ELSE UNCHANGED <<data, fetch, carried, early, excuse>>
  /\ UNCHANGED <<case, server, old, own, phase, version>>

(* A component subscribes: the cached answer is shown at once, and read    *)
(* again when it was declared old or is older than staleTime.              *)
Mount ==
  /\ ~mounted
  /\ mounted' = TRUE
  /\ \E aged \in BOOLEAN :
       /\ aged => ~case.forever
       /\ IF fetch = "idle" /\ (data = NoData \/ old \/ aged)
          THEN Ask
          ELSE UNCHANGED <<data, fetch, carried, early, excuse>>
  /\ UNCHANGED <<case, server, old, own, phase, version>>

(* The read under way goes on: no query function takes the abort signal.   *)
Unmount ==
  /\ mounted
  /\ mounted' = FALSE
  /\ own' = {}
  /\ UNCHANGED <<case, server, view, phase, version>>

(* gcTime: an answer nobody is subscribed to is dropped after a while.     *)
Collect ==
  /\ ~mounted /\ fetch = "idle" /\ data # NoData
  /\ data' = NoData /\ old' = FALSE /\ excuse' = "none"
  /\ UNCHANGED <<case, server, mounted, own, fetch, carried, early, phase, version>>

-----------------------------------------------------------------------------
(* The change.                                                             *)

(* A control that waits is disabled while its own change is pending, which *)
(* one mounted anew knows nothing of; changes of one scope queue up behind *)
(* each other.                                                             *)
Press(c) ==
  /\ mounted /\ phase[c] = "new"
  /\ \A d \in Changes : d < c => phase[d] # "new"
  /\ case.waits => \A d \in own : ~Pending(d)
  /\ own' = own \cup {c}
  /\ phase' = [phase EXCEPT ![c] =
                 IF case.scoped /\ \E d \in Changes : Pending(d) THEN "queued" ELSE "sent"]
  /\ UNCHANGED <<case, server, mounted, view, version>>

Dequeue(c) ==
  /\ phase[c] = "queued"
  /\ \A d \in Changes : d < c => ~Pending(d)
  /\ phase' = [phase EXCEPT ![c] = "sent"]
  /\ UNCHANGED <<case, server, mounted, own, view, version>>

(* The server makes the change; its answer may be lost, which the client   *)
(* cannot tell from a refusal.                                             *)
Serve(c) ==
  /\ phase[c] = "sent"
  /\ server' = server + 1
  /\ version' = [version EXCEPT ![c] = server + 1]
  /\ \E answer \in {"done", "refused"} : phase' = [phase EXCEPT ![c] = answer]
  /\ UNCHANGED <<case, mounted, own, view>>

Refuse(c) ==
  /\ phase[c] = "sent"
  /\ phase' = [phase EXCEPT ![c] = "refused"]
  /\ UNCHANGED <<case, server, mounted, own, view, version>>

(* onSuccess returned the promise of invalidateQueries, or dropped it.     *)
After(c, waiting, over) ==
  phase' = [phase EXCEPT ![c] = IF case.awaits /\ mounted THEN waiting ELSE over]

(* setQueryData: the answer of the change becomes the answer of the query. *)
(* A read under way is left to land on top of it.                          *)
AnswerPuts(c) ==
  /\ phase[c] = "done" /\ case.puts
  /\ data' = version[c] /\ old' = FALSE
  /\ early' = (fetch # "idle")
  /\ excuse' = IF \E d \in Changes : Heard(d) /\ version[d] > version[c] THEN "overtaken" ELSE "none"
  /\ phase' = [phase EXCEPT ![c] = "ended"]
  /\ UNCHANGED <<case, server, mounted, own, fetch, carried, version>>

(* clear and removeQueries take the query away with the read under way.    *)
AnswerDrops(c) ==
  /\ phase[c] = "done" /\ ~case.puts /\ case.drops
  /\ data' = NoData /\ old' = FALSE /\ fetch' = "idle" /\ early' = FALSE /\ excuse' = "none"
  /\ phase' = [phase EXCEPT ![c] = "ended"]
  /\ UNCHANGED <<case, server, mounted, own, carried, version>>

Told(c) == phase[c] = "done" /\ ~case.puts /\ ~case.drops

(* Mutant: told by the callback given to mutate, which goes with its caller. *)
AnswerTellsThere(c) ==
  /\ Told(c) /\ ~case.later /\ case.tells
  /\ IF c \in own
     THEN Invalidate /\ After(c, "settling", "ended")
     ELSE UNCHANGED view /\ phase' = [phase EXCEPT ![c] = "ended"]
  /\ UNCHANGED <<case, server, mounted, own, version>>

(* Mutant: told with refetchType "none", and left to the next subscriber. *)
AnswerTellsOnly(c) ==
  /\ Told(c) /\ ~case.later /\ case.tells
  /\ old' = TRUE
  /\ phase' = [phase EXCEPT ![c] = "ended"]
  /\ UNCHANGED <<case, server, mounted, own, version, data, fetch, carried, early, excuse>>

(* Mutant: told with cancelRefetch off, so that a read under way will do. *)
AnswerTellsJoins(c) ==
  /\ Told(c) /\ ~case.later /\ case.tells
  /\ old' = TRUE
  /\ IF mounted /\ fetch = "idle" THEN Ask ELSE UNCHANGED <<data, fetch, carried, early, excuse>>
  /\ After(c, "settling", "ended")
  /\ UNCHANGED <<case, server, mounted, own, version>>

(* The hook's onSuccess: it runs whatever has become of the caller.        *)
AnswerTells(c) ==
  /\ Told(c) /\ ~case.later /\ case.tells
  /\ Invalidate
  /\ After(c, "settling", "ended")
  /\ UNCHANGED <<case, server, mounted, own, version>>

(* The caller's own onSuccess: it runs only while the caller is there.     *)
AnswerTellsCaller(c) ==
  /\ Told(c) /\ ~case.later /\ ~case.tells /\ case.caller /\ c \in own
  /\ ~case.removes
  /\ Invalidate
  /\ phase' = [phase EXCEPT ![c] = "ended"]
  /\ UNCHANGED <<case, server, mounted, own, version>>

(* DeleteIssueButton leaves the issue's page and then removes its queries. *)
AnswerRemoves(c) ==
  /\ Told(c) /\ ~case.tells /\ case.removes /\ c \in own
  /\ mounted' = FALSE
  /\ own' = {}
  /\ data' = NoData /\ old' = FALSE /\ fetch' = "idle" /\ early' = FALSE /\ excuse' = "none"
  /\ phase' = [phase EXCEPT ![c] = "ended"]
  /\ UNCHANGED <<case, server, carried, version>>

(* The cache hears nothing: the caller that would have told it has gone,   *)
(* or nobody tells it of this query at all.                                *)
AnswerUntold(c) ==
  /\ Told(c) /\ ~case.later /\ ~case.tells
  /\ case.caller \/ case.removes => c \notin own
  /\ phase' = [phase EXCEPT ![c] = IF case.caller \/ case.removes THEN "unheard" ELSE "ended"]
  /\ UNCHANGED <<case, server, mounted, own, view, version>>

(* The recovery codes are shown, and the cache told when they are put away *)
(* (useSecondFactorSettled); a reader who leaves instead never tells it.   *)
AnswerHeld(c) ==
  /\ Told(c) /\ case.later
  /\ phase' = [phase EXCEPT ![c] = IF c \in own THEN "reading" ELSE "unheard"]
  /\ UNCHANGED <<case, server, mounted, own, view, version>>

PutAway(c) ==
  /\ phase[c] = "reading"
  /\ IF c \in own /\ case.tells
     THEN Invalidate /\ phase' = [phase EXCEPT ![c] = "ended"]
     ELSE phase' = [phase EXCEPT ![c] = "unheard"] /\ UNCHANGED view
  /\ UNCHANGED <<case, server, mounted, own, version>>

(* onSettled reads again after a failure too; the others tell nothing.     *)
AnswerFails(c) ==
  /\ phase[c] = "refused"
  /\ IF case.settled /\ case.tells
     THEN Invalidate /\ After(c, "undoing", "failed")
     ELSE UNCHANGED view /\ phase' = [phase EXCEPT ![c] = "failed"]
  /\ UNCHANGED <<case, server, mounted, own, version>>

(* useUpdateIssue: an edit refused for being made on an old copy reads the *)
(* newer one, without waiting for it.                                      *)
AnswerFailsStale(c) ==
  /\ phase[c] = "refused" /\ case.retells /\ version[c] = 0
  /\ Invalidate
  /\ phase' = [phase EXCEPT ![c] = "failed"]
  /\ UNCHANGED <<case, server, mounted, own, version>>

Answer(c) ==
  \/ AnswerPuts(c) \/ AnswerDrops(c) \/ AnswerTells(c) \/ AnswerTellsCaller(c)
  \/ AnswerRemoves(c) \/ AnswerUntold(c) \/ AnswerHeld(c)
  \/ AnswerFails(c) \/ AnswerFailsStale(c)

Query == ReadServer \/ Land \/ FailRead \/ Poll \/ Mount \/ Unmount \/ Collect

Change(c) == Press(c) \/ Dequeue(c) \/ Serve(c) \/ Refuse(c) \/ Answer(c) \/ PutAway(c)

Next == Query \/ \E c \in Changes : Change(c)

(* The network answers in the end, with a failure if need be, and queued   *)
(* changes are sent; nobody has to press, look or leave.                   *)
Fairness ==
  /\ WF_vars(ReadServer) /\ WF_vars(Land) /\ WF_vars(Poll)
  /\ \A c \in Changes : /\ WF_vars(Dequeue(c)) /\ WF_vars(Serve(c) \/ Refuse(c))
                        /\ WF_vars(Answer(c)) /\ WF_vars(PutAway(c))

Spec == Init /\ [][Next]_vars /\ Fairness

-----------------------------------------------------------------------------
(* What the cache owes the reader.                                         *)

(* Every wiring tells the query of the change in one way or another, or    *)
(* the query is polled.                                                    *)
EveryCaseIsTold ==
  \A c \in Cases : c.tells \/ c.puts \/ c.drops \/ c.caller \/ c.removes \/ c.polls

(* A screen at rest shows every change its reader knows to be made: no     *)
(* change of the API layer leaves out a query that shows what it changes,  *)
(* on any screen that has both.  Three excuses are left: the read that the *)
(* change asked for failed; a read no invalidation could cancel (the       *)
(* query's first, or one whose reader had left) was already under way; or  *)
(* the answer of an earlier change was written over that of a later one.   *)
ShownIsCurrent ==
  ~case.polls /\ mounted /\ data # NoData /\ fetch = "idle" /\ excuse = "none"
    => \A c \in Changes : Known(c) => version[c] <= data

(* A change whose hook awaits its reads is pending until the screen shows  *)
(* it: the step that ends it, and lets its dialog close, finds it there.   *)
EndShowsTheChange ==
  [][\A c \in Changes :
       phase[c] = "settling" /\ phase'[c] = "ended" /\ excuse' = "none"
         => version[c] <= data']_vars

(* Every press comes to an end, and the control that waits for it back.    *)
EveryChangeEnds == \A c \in Changes : phase[c] = "sent" ~> ~Pending(c)

(* And what it changed is shown in the end, by being told or by polling,   *)
(* to a reader who stays.                                                  *)
ShownInTheEnd ==
  \A c \in Changes :
    Known(c) ~> (version[c] <= data \/ data = NoData \/ ~mounted \/ excuse # "none")

(* The cache implements ClientView.  A change that writes its answer into  *)
(* the cache itself is left out: a read under way may land on top of it.   *)
View ==
  INSTANCE ClientView WITH
    made  <- server,
    known <- {version[c] : c \in {d \in Changes : Known(d)}},
    shown <- IF mounted /\ ~case.puts THEN data ELSE NoData,
    busy  <- fetch # "idle" \/ excuse # "none" \/ case.polls

ShowsWhatIsKnown == View!Spec
=============================================================================
