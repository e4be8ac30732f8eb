------------------------- MODULE ClientCache_proofs -------------------------
(***************************************************************************)
(* Proofs about ClientCache, for any number of changes and any set of      *)
(* wirings.                                                                *)
(***************************************************************************)
EXTENDS ClientCache, TLAPS

LEMMA InitTypeOK == Init => TypeOK
<1> SUFFICES ASSUME Init PROVE TypeOK
  OBVIOUS
<1>1. case \in Wirings
  BY CasesAssumption DEF Init
<1> QED
  BY <1>1 DEF Init, TypeOK, Phases, NoData

LEMMA StepTypeOK == TypeOK /\ [Next]_vars => TypeOK'
<1> SUFFICES ASSUME TypeOK, [Next]_vars PROVE TypeOK'
  OBVIOUS
<1> USE DEF TypeOK, Phases, NoData
<1>1. CASE ReadServer
  BY <1>1 DEF ReadServer
<1>2. CASE Land
  BY <1>2 DEF Land, Settled
<1>3. CASE FailRead
  BY <1>3 DEF FailRead, Settled
<1>4. CASE Poll
  BY <1>4 DEF Poll, Ask
<1>5. CASE Mount
  BY <1>5 DEF Mount, Ask
<1>6. CASE Unmount
  BY <1>6 DEF Unmount, view
<1>7. CASE Collect
  BY <1>7 DEF Collect
<1>8. ASSUME NEW c \in Changes, Change(c) PROVE TypeOK'
  <2>1. CASE Press(c)
    BY <2>1 DEF Press, view
  <2>2. CASE Dequeue(c)
    BY <2>2 DEF Dequeue, view
  <2>3. CASE Serve(c)
    BY <2>3 DEF Serve, view
  <2>4. CASE Refuse(c)
    BY <2>4 DEF Refuse, view
  <2>5. CASE AnswerPuts(c)
    BY <2>5 DEF AnswerPuts
  <2>6. CASE AnswerDrops(c)
    BY <2>6 DEF AnswerDrops
  <2>7. CASE AnswerTells(c)
    BY <2>7 DEF AnswerTells, Invalidate, Ask, After
  <2>8. CASE AnswerTellsCaller(c)
    BY <2>8 DEF AnswerTellsCaller, Invalidate, Ask
  <2>9. CASE AnswerRemoves(c)
    BY <2>9 DEF AnswerRemoves
  <2>10. CASE AnswerUntold(c)
    BY <2>10 DEF AnswerUntold, view
  <2>11. CASE AnswerHeld(c)
    BY <2>11 DEF AnswerHeld, view
  <2>12. CASE AnswerFails(c)
    BY <2>12 DEF AnswerFails, Invalidate, Ask, After, view
  <2>13. CASE PutAway(c)
    BY <2>13 DEF PutAway, Invalidate, Ask, view
  <2>14. CASE AnswerFailsStale(c)
    BY <2>14 DEF AnswerFailsStale, Invalidate, Ask
  <2> QED
    BY <1>8, <2>1, <2>2, <2>3, <2>4, <2>5, <2>6, <2>7, <2>8, <2>9, <2>10, <2>11, <2>12, <2>13, <2>14
    DEF Change, Answer
<1>9. CASE UNCHANGED vars
  BY <1>9 DEF vars
<1> QED
  BY <1>1, <1>2, <1>3, <1>4, <1>5, <1>6, <1>7, <1>8, <1>9 DEF Next, Query

(* The state keeps its type, whatever the wirings: an answer is a number of *)
(* changes or nothing, a change is in one phase.                            *)
THEOREM TypeCorrect == Spec => []TypeOK
BY InitTypeOK, StepTypeOK, PTL DEF Spec

-----------------------------------------------------------------------------
(* The invariant.  No number runs ahead of the server, and a read under    *)
(* way has seen at least what is shown.                                    *)
CountsInOrder ==
  /\ \A c \in Changes : version[c] <= server
  /\ carried <= server /\ data <= server
  /\ fetch = "answered" /\ ~case.puts => data <= carried

(* Why a change is, or will be, on the screen: its read is still to reach  *)
(* the server; the answer on its way has it, or counts as early; or there  *)
(* is nothing under way and what is cached has it, is excused, or will not *)
(* be shown without being read again.                                      *)
Fresh(c) ==
  \/ fetch = "asked"
  \/ fetch = "answered" /\ (version[c] <= carried \/ early)
  \/ /\ fetch = "idle"
     /\ data = NoData \/ version[c] <= data \/ excuse # "none" \/ (~mounted /\ old)

Wired == case.tells \/ case.puts \/ case.drops \/ case.caller \/ case.removes

HeardIsFresh ==
  \A c \in Changes : Heard(c) => Fresh(c) \/ (phase[c] = "ended" /\ ~Wired)

IInv == TypeOK /\ CountsInOrder /\ HeardIsFresh

LEMMA InitIInv == Init => IInv
<1> SUFFICES ASSUME Init PROVE IInv
  OBVIOUS
<1>1. CountsInOrder
  BY DEF Init, CountsInOrder, NoData
<1>2. HeardIsFresh
  BY DEF Init, HeardIsFresh, Fresh
<1> QED
  BY <1>1, <1>2, InitTypeOK DEF IInv

(* Once the query is invalidated every change is accounted for.            *)
LEMMA InvalidateFresh ==
  ASSUME TypeOK, Invalidate, UNCHANGED <<version, mounted>>, NEW x \in Changes
  PROVE  Fresh(x)'
BY DEF TypeOK, Invalidate, Ask, Fresh

LEMMA StepCounts == TypeOK /\ CountsInOrder /\ [Next]_vars => CountsInOrder'
<1> SUFFICES ASSUME TypeOK, CountsInOrder, [Next]_vars PROVE CountsInOrder'
  OBVIOUS
<1> USE DEF TypeOK, CountsInOrder, NoData
<1>1. CASE ReadServer
  BY <1>1 DEF ReadServer
<1>2. CASE Land
  BY <1>2 DEF Land, Settled
<1>3. CASE FailRead
  BY <1>3 DEF FailRead, Settled
<1>4. CASE Poll
  BY <1>4 DEF Poll, Ask
<1>5. CASE Mount
  BY <1>5 DEF Mount, Ask
<1>6. CASE Unmount
  BY <1>6 DEF Unmount, view
<1>7. CASE Collect
  BY <1>7 DEF Collect
<1>8. ASSUME NEW c \in Changes, Change(c) PROVE CountsInOrder'
  <2>1. CASE Press(c)
    BY <2>1 DEF Press, view
  <2>2. CASE Dequeue(c)
    BY <2>2 DEF Dequeue, view
  <2>3. CASE Serve(c)
    BY <2>3 DEF Serve, view
  <2>4. CASE Refuse(c)
    BY <2>4 DEF Refuse, view
  <2>5. CASE AnswerPuts(c)
    BY <2>5 DEF AnswerPuts
  <2>6. CASE AnswerDrops(c)
    BY <2>6 DEF AnswerDrops
  <2>7. CASE AnswerTells(c)
    BY <2>7 DEF AnswerTells, Invalidate, Ask
  <2>8. CASE AnswerTellsCaller(c)
    BY <2>8 DEF AnswerTellsCaller, Invalidate, Ask
  <2>9. CASE AnswerRemoves(c)
    BY <2>9 DEF AnswerRemoves
  <2>10. CASE AnswerUntold(c)
    BY <2>10 DEF AnswerUntold, view
  <2>11. CASE AnswerHeld(c)
    BY <2>11 DEF AnswerHeld, view
  <2>12. CASE AnswerFails(c)
    BY <2>12 DEF AnswerFails, Invalidate, Ask, view
  <2>13. CASE PutAway(c)
    BY <2>13 DEF PutAway, Invalidate, Ask, view
  <2>14. CASE AnswerFailsStale(c)
    BY <2>14 DEF AnswerFailsStale, Invalidate, Ask
  <2> QED
    BY <1>8, <2>1, <2>2, <2>3, <2>4, <2>5, <2>6, <2>7, <2>8, <2>9, <2>10, <2>11, <2>12, <2>13, <2>14
    DEF Change, Answer
<1>9. CASE UNCHANGED vars
  BY <1>9 DEF vars
<1> QED
  BY <1>1, <1>2, <1>3, <1>4, <1>5, <1>6, <1>7, <1>8, <1>9 DEF Next, Query

LEMMA StepFresh == IInv /\ [Next]_vars => HeardIsFresh'
<1> SUFFICES ASSUME IInv, [Next]_vars, NEW x \in Changes, Heard(x)'
             PROVE  Fresh(x)' \/ (phase'[x] = "ended" /\ ~Wired')
  BY DEF HeardIsFresh
<1> USE DEF IInv, TypeOK, CountsInOrder, HeardIsFresh, Heard, Known, Fresh, Wired
<1>1. CASE ReadServer
  BY <1>1 DEF ReadServer
<1>2. CASE Land
  BY <1>2 DEF Land, Settled, Phases
<1>3. CASE FailRead
  BY <1>3 DEF FailRead, Settled, Phases
<1>4. CASE Poll
  BY <1>4 DEF Poll, Ask
<1>5. CASE Mount
  BY <1>5 DEF Mount, Ask
<1>6. CASE Unmount
  BY <1>6 DEF Unmount, view
<1>7. CASE Collect
  BY <1>7 DEF Collect
<1>8. ASSUME NEW c \in Changes, Change(c)
      PROVE  Fresh(x)' \/ (phase'[x] = "ended" /\ ~Wired')
  <2>1. CASE Press(c)
    BY <2>1 DEF Press, view
  <2>2. CASE Dequeue(c)
    BY <2>2 DEF Dequeue, view
  <2>3. CASE Serve(c)
    BY <2>3 DEF Serve, view
  <2>4. CASE Refuse(c)
    BY <2>4 DEF Refuse, view
  <2>5. CASE AnswerPuts(c)
    <3>1. /\ version' = version /\ fetch' = fetch /\ carried' = carried /\ mounted' = mounted
          /\ data' = version[c] /\ old' = FALSE /\ early' = (fetch # "idle")
          /\ phase' = [phase EXCEPT ![c] = "ended"] /\ case' = case
      BY <2>5 DEF AnswerPuts
    <3>2. CASE x = c \/ version[x] <= version[c]
      <4>1. version[x] <= data'
        BY <3>1, <3>2
      <4>2. CASE fetch = "idle"
        BY <3>1, <4>1, <4>2
      <4>3. CASE fetch # "idle"
        BY <3>1, <4>3
      <4> QED
        BY <4>2, <4>3
    <3>3. CASE x # c /\ version[x] > version[c]
      <4>1. Heard(x)
        BY <3>1, <3>3
      <4>2. excuse' = "overtaken"
        BY <2>5, <3>3, <4>1 DEF AnswerPuts
      <4> QED
        BY <3>1, <4>2
    <3> QED
      BY <3>2, <3>3
  <2>6. CASE AnswerDrops(c)
    BY <2>6 DEF AnswerDrops
  <2>7. CASE AnswerTells(c)
    <3>1. Invalidate /\ UNCHANGED <<version, mounted>>
      BY <2>7 DEF AnswerTells
    <3> QED
      BY <3>1, InvalidateFresh
  <2>8. CASE AnswerTellsCaller(c)
    <3>1. Invalidate /\ UNCHANGED <<version, mounted>>
      BY <2>8 DEF AnswerTellsCaller
    <3> QED
      BY <3>1, InvalidateFresh
  <2>9. CASE AnswerRemoves(c)
    BY <2>9 DEF AnswerRemoves
  <2>10. CASE AnswerUntold(c)
    BY <2>10 DEF AnswerUntold, Told, view
  <2>11. CASE AnswerHeld(c)
    BY <2>11 DEF AnswerHeld, view
  <2>12. CASE AnswerFails(c)
    <3>1. CASE case.settled /\ case.tells
      BY <2>12, <3>1, InvalidateFresh DEF AnswerFails
    <3>2. CASE ~(case.settled /\ case.tells)
      BY <2>12, <3>2 DEF AnswerFails, view
    <3> QED
      BY <3>1, <3>2
  <2>13. CASE PutAway(c)
    <3>1. CASE c \in own /\ case.tells
      BY <2>13, <3>1, InvalidateFresh DEF PutAway
    <3>2. CASE ~(c \in own /\ case.tells)
      BY <2>13, <3>2 DEF PutAway, view
    <3> QED
      BY <3>1, <3>2
  <2>14. CASE AnswerFailsStale(c)
    BY <2>14, InvalidateFresh DEF AnswerFailsStale
  <2> QED
    BY <1>8, <2>1, <2>2, <2>3, <2>4, <2>5, <2>6, <2>7, <2>8, <2>9, <2>10, <2>11, <2>12, <2>13, <2>14
    DEF Change, Answer
<1>9. CASE UNCHANGED vars
  BY <1>9 DEF vars
<1> QED
  BY <1>1, <1>2, <1>3, <1>4, <1>5, <1>6, <1>7, <1>8, <1>9 DEF Next, Query

LEMMA StepIInv == IInv /\ [Next]_vars => IInv'
BY StepTypeOK, StepCounts, StepFresh DEF IInv

(* The wiring is chosen once.                                              *)
CaseListed == case \in Cases

LEMMA StepCase == [Next]_vars => case' = case
BY DEF Next, Query, Change, Answer, vars, ReadServer, Land, FailRead, Poll, Mount, Unmount,
       Collect, Press, Dequeue, Serve, Refuse, AnswerPuts, AnswerDrops, AnswerTells,
       AnswerTellsCaller, AnswerRemoves, AnswerUntold, AnswerHeld, AnswerFails, AnswerFailsStale, PutAway

LEMMA IInvShows ==
  ASSUME EveryCaseIsTold, CaseListed, IInv
  PROVE  ShownIsCurrent
<1>1. case.polls \/ Wired
  BY DEF EveryCaseIsTold, Wired, CaseListed
<1> QED
  BY <1>1 DEF IInv, TypeOK, HeardIsFresh, Heard, Fresh, ShownIsCurrent

(* A screen at rest shows every change its reader knows of, for any number *)
(* of changes, if every change tells the queries that show it.             *)
THEOREM ShownCurrent == EveryCaseIsTold => (Spec => []ShownIsCurrent)
<1> SUFFICES ASSUME EveryCaseIsTold PROVE Spec => []ShownIsCurrent
  OBVIOUS
<1>1. Init => IInv /\ CaseListed
  BY InitIInv DEF Init, CaseListed
<1>2. IInv /\ CaseListed /\ [Next]_vars => IInv' /\ CaseListed'
  BY StepIInv, StepCase DEF CaseListed
<1>3. IInv /\ CaseListed => ShownIsCurrent
  BY IInvShows
<1> QED
  BY <1>1, <1>2, <1>3, PTL DEF Spec

(* A change is pending until the screen shows it, if its hook awaits its   *)
(* reads, whatever else is read, told or pressed meanwhile.                *)
THEOREM EndShows == Spec => EndShowsTheChange
<1>1. ASSUME IInv, [Next]_vars
      PROVE  [\A c \in Changes :
                phase[c] = "settling" /\ phase'[c] = "ended" /\ excuse' = "none"
                  => version[c] <= data']_vars
  <2> SUFFICES ASSUME NEW c \in Changes, phase[c] = "settling", phase'[c] = "ended",
                      excuse' = "none"
               PROVE  version[c] <= data'
    OBVIOUS
  <2>1. Fresh(c)
    BY <1>1 DEF IInv, HeardIsFresh, Heard
  <2>2. CASE Land
    BY <2>1, <2>2, <1>1 DEF Land, Fresh, IInv, TypeOK
  <2>3. CASE FailRead
    BY <2>3 DEF FailRead
  <2>4. CASE UNCHANGED vars
    BY <2>4 DEF vars
  <2>5. CASE Query /\ ~Land /\ ~FailRead
    BY <2>5 DEF Query, ReadServer, Poll, Mount, Unmount, Collect
  <2>6. ASSUME NEW d \in Changes, Change(d) PROVE FALSE
    <3>1. phase' = [phase EXCEPT ![d] = phase'[d]] /\ phase[d] # "settling"
      BY <2>6, <1>1 DEF Change, Answer, Press, Dequeue, Serve, Refuse, AnswerPuts, AnswerDrops,
         AnswerTells, AnswerTellsCaller, AnswerRemoves, AnswerUntold, AnswerHeld, AnswerFails, AnswerFailsStale,
         PutAway, After, Told, IInv, TypeOK
    <3> QED
      BY <3>1, <1>1 DEF IInv, TypeOK
  <2> QED
    BY <1>1, <2>2, <2>3, <2>4, <2>5, <2>6 DEF Next
<1> QED
  BY <1>1, InitIInv, StepIInv, PTL DEF Spec, EndShowsTheChange

-----------------------------------------------------------------------------
(* The refinement.                                                         *)

KnownVersions == {version[c] : c \in {d \in Changes : Known(d)}}

Screen == IF mounted /\ ~case.puts THEN data ELSE NoData

Underway == fetch # "idle" \/ excuse # "none" \/ case.polls

(* What is known stays known, and counts changes the server has made.      *)
LEMMA KnownGrows ==
  ASSUME IInv, [Next]_vars, ~\E c \in Changes : Serve(c)
  PROVE  /\ KnownVersions \subseteq KnownVersions'
         /\ KnownVersions' \subseteq 0..server'
         /\ server' = server
<1>1. version' = version /\ server' = server
  BY DEF Next, Query, Change, Answer, vars, ReadServer, Land, FailRead, Poll, Mount, Unmount,
       Collect, Press, Dequeue, Refuse, AnswerPuts, AnswerDrops, AnswerTells,
       AnswerTellsCaller, AnswerRemoves, AnswerUntold, AnswerHeld, AnswerFails, AnswerFailsStale, PutAway
<1>2. \A c \in Changes : phase[c] \in {"ended", "failed"} => phase'[c] = phase[c]
  <2> SUFFICES ASSUME NEW c \in Changes, phase[c] \in {"ended", "failed"}
               PROVE  phase'[c] = phase[c]
    OBVIOUS
  <2> USE DEF IInv, TypeOK
  <2>1. CASE Query
    BY <2>1 DEF Query, ReadServer, Land, FailRead, Settled, Poll, Mount, Unmount, Collect
  <2>2. ASSUME NEW d \in Changes, Change(d) PROVE phase'[c] = phase[c]
    <3>1. phase' = [phase EXCEPT ![d] = phase'[d]] /\ phase[d] \notin {"ended", "failed"}
      BY <2>2 DEF Change, Answer, Press, Dequeue, Serve, Refuse, AnswerPuts, AnswerDrops,
         AnswerTells, AnswerTellsCaller, AnswerRemoves, AnswerUntold, AnswerHeld, AnswerFails, AnswerFailsStale,
         PutAway, After, Told
    <3> QED
      BY <3>1
  <2>3. CASE UNCHANGED vars
    BY <2>3 DEF vars
  <2> QED
    BY <2>1, <2>2, <2>3 DEF Next
<1>3. \A c \in Changes : Known(c) => Known(c)'
  BY <1>2, StepCase DEF Known
<1>4. \A c \in Changes : version[c] \in 0..server
  BY DEF IInv, TypeOK, CountsInOrder
<1> QED
  BY <1>1, <1>3, <1>4 DEF KnownVersions

(* What is shown goes away or forwards, and never past the server.         *)
LEMMA ScreenRises ==
  ASSUME IInv, IInv', [Next]_vars
  PROVE  Screen' = NoData \/ (Screen <= Screen' /\ Screen' <= server')
<1>1. case' = case
  BY StepCase
<1>2. CASE ~mounted' \/ case.puts
  BY <1>1, <1>2 DEF Screen
<1>3. CASE mounted' /\ ~case.puts
  <2>1. data' = data \/ data' = NoData \/ (Land /\ data' = carried)
    BY <1>3 DEF Next, Query, Change, Answer, vars, view, ReadServer, Land, FailRead, Poll, Ask,
       Mount, Unmount, Collect, Press, Dequeue, Serve, Refuse, AnswerPuts, AnswerDrops,
       AnswerTells, AnswerTellsCaller, AnswerRemoves, AnswerUntold, AnswerHeld, AnswerFails, AnswerFailsStale,
       PutAway, Invalidate
  <2>2. data' <= server' /\ data' \in Nat \cup {NoData} /\ data \in Nat \cup {NoData}
    BY DEF IInv, CountsInOrder, TypeOK
  <2>3. Screen' = data' /\ Screen \in {data, NoData}
    BY <1>1, <1>3 DEF Screen
  <2>4. Land => data <= carried
    BY <1>3 DEF Land, IInv, CountsInOrder
  <2> QED
    BY <2>1, <2>2, <2>3, <2>4 DEF NoData
<1> QED
  BY <1>2, <1>3

(* The cache implements ClientView: for any number of changes, what a      *)
(* screen shows never goes back, and at rest it has all that is known.     *)
THEOREM Refinement == EveryCaseIsTold => (Spec => ShowsWhatIsKnown)
<1> SUFFICES ASSUME EveryCaseIsTold PROVE Spec => ShowsWhatIsKnown
  OBVIOUS
<1>1. Init => IInv /\ CaseListed
  BY InitIInv DEF Init, CaseListed
<1>2. IInv /\ CaseListed /\ [Next]_vars => IInv' /\ CaseListed'
  BY StepIInv, StepCase DEF CaseListed
<1>3. Init => View!Init
  <2> SUFFICES ASSUME Init PROVE View!Init
    OBVIOUS
  <2>1. KnownVersions = {}
    BY DEF Init, KnownVersions, Known
  <2> QED
    BY <2>1 DEF Init, View!Init, View!Nothing, KnownVersions, NoData
<1>4. IInv /\ CaseListed => ShownIsCurrent
  BY IInvShows
<1>5. IInv /\ CaseListed /\ [Next]_vars
        => [View!Next]_<<server, KnownVersions, Screen, Underway>>
  <2> SUFFICES ASSUME IInv, CaseListed, [Next]_vars
               PROVE  [View!Next]_<<server, KnownVersions, Screen, Underway>>
    OBVIOUS
  <2>1. IInv' /\ CaseListed'
    BY <1>2
  <2>2. ASSUME NEW c \in Changes, Serve(c) PROVE View!Make
    <3>1. server' = server + 1 /\ UNCHANGED <<Screen, Underway>>
      BY <2>2 DEF Serve, view, Screen, Underway
    <3>2. \A d \in Changes : (Known(d) <=> Known(d)') /\ (Known(d) => version'[d] = version[d])
      BY <2>2 DEF Serve, Known, IInv, TypeOK
    <3>3. KnownVersions' = KnownVersions
      BY <3>2 DEF KnownVersions
    <3> QED
      BY <3>1, <3>3 DEF View!Make, KnownVersions, Screen, Underway
  <2>3. CASE ~\E c \in Changes : Serve(c)
    <3>1. /\ KnownVersions \subseteq KnownVersions'
          /\ KnownVersions' \subseteq 0..server' /\ server' = server
      BY <2>3, KnownGrows
    <3>2. Screen' = NoData \/ (Screen <= Screen' /\ Screen' <= server')
      BY <2>1, ScreenRises
    <3>3. ShownIsCurrent'
      BY <2>1, <1>4, PTL
    <3>4. View!AtRest'
      BY <3>3 DEF ShownIsCurrent, View!AtRest, View!Nothing, NoData
    <3>5. View!Turn
      BY <3>1, <3>2, <3>4
      DEF View!Turn, View!AtRest, View!Nothing, NoData, KnownVersions, Screen
    <3> QED
      BY <3>5 DEF View!Next
  <2> QED
    BY <2>2, <2>3 DEF View!Next
<1> QED
  BY <1>1, <1>2, <1>3, <1>5, PTL
  DEF Spec, ShowsWhatIsKnown, View!Spec, KnownVersions, Screen, Underway
=============================================================================
