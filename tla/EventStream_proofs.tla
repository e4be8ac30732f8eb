------------------------- MODULE EventStream_proofs -------------------------
(***************************************************************************)
(* What EventStream guarantees for every number of workers, groups, events *)
(* and faults.  Each part of the invariant has a lemma of its own, with    *)
(* one step per action that disturbs it.                                   *)
(***************************************************************************)
EXTENDS EventStream, Counting, TLAPS

-----------------------------------------------------------------------------
(* What a read returns comes after the group's position and is on the stream,
   and a read that returns something moves the position to its end. *)
LEMMA FreshBounds ==
    ASSUME OutboxType, GroupType, NEW g \in AllGroups
    PROVE  LET end == smaller(Len(log), larger(first - 1, last[g]) + ReadSize)
           IN  /\ end \in Nat /\ end <= Len(log)
               /\ Fresh(g) # {} => last[g] < end
               /\ \A i \in Fresh(g) : i \in Ids /\ first <= i /\ last[g] < i /\ i <= end
               /\ \A i \in Ids : first <= last[g] + 1 /\ last[g] < i /\ i <= end => i \in Fresh(g)
<1>1. /\ Len(log) \in Nat /\ Len(log) <= MaxEntries /\ MaxEntries \in Nat
      /\ last[g] \in Nat /\ first \in Nat \ {0} /\ ReadSize \in Nat \ {0}
  BY BoundsAssumption DEF OutboxType, GroupType
<1>. QED BY <1>1, SMTT(30) DEF Fresh, smaller, larger, Ids

(* The outbox, the stream and the fault budget keep their types. *)
LEMMA OutboxTypeStep ==
    ASSUME OutboxType, GroupType, RelayType, [Next]_vars
    PROVE  OutboxType'
<1>. USE EventsAssumption, BoundsAssumption DEF OutboxType
<1>1. CASE UNCHANGED vars BY <1>1 DEF vars, streamVars
<1>2. ASSUME NEW e \in Events, Emit(e) PROVE OutboxType'
  BY <1>2 DEF Emit, streamVars
<1>3. ASSUME NEW w \in Workers, RelayStep(w) PROVE OutboxType'
  <2>1. CASE TrimInfo(w) BY <2>1 DEF TrimInfo, streamVars
  <2>2. CASE TrimMinID(w)
    BY <2>2 DEF TrimMinID, larger, smaller, RelayType
  <2>3. CASE TrimMaxLen(w)
    BY <2>3 DEF TrimMaxLen, larger, smaller
  <2>4. CASE Measure(w) BY <2>4 DEF Measure, streamVars
  <2>5. ASSUME NEW g \in Groups, TrimPending(w, g) PROVE OutboxType'
    BY <2>5 DEF TrimPending, streamVars
  <2>6. CASE ClaimRows(w) BY <2>6 DEF ClaimRows, streamVars
  <2>7. CASE ClaimNothing(w) BY <2>7 DEF ClaimNothing, streamVars
  <2>8. CASE CommitPass(w) BY <2>8 DEF CommitPass, streamVars
  <2>9. ASSUME NEW e \in Events, publish(w, e) PROVE OutboxType'
    BY <2>9 DEF publish
  <2>. QED BY <1>3, <2>1, <2>2, <2>3, <2>4, <2>5, <2>6, <2>7, <2>8, <2>9 DEF RelayStep
<1>4. ASSUME NEW w \in Workers, FaultStep(w) PROVE OutboxType'
  <2>0. Fault => faults' \in 0..MaxFaults BY DEF Fault
  <2>1. CASE TrimFails(w) BY <2>0, <2>1 DEF TrimFails, streamVars
  <2>2. CASE RollBackPass(w) BY <2>0, <2>2 DEF RollBackPass, streamVars
  <2>3. CASE Stop(w) BY <2>0, <2>3 DEF Stop, streamVars
  <2>4. CASE Crash(w) BY <2>0, <2>4 DEF Crash, GoDown, streamVars
  <2>5. ASSUME NEW e \in Events, PublishFails(w, e) PROVE OutboxType'
    <3>1. CASE UNCHANGED log BY <2>0, <2>5, <3>1 DEF PublishFails
    <3>2. CASE Len(log) < MaxEntries /\ log' = Append(log, e)
      BY <2>0, <2>5, <3>2 DEF PublishFails
    <3>. QED BY <2>5, <3>1, <3>2 DEF PublishFails
  <2>6. ASSUME NEW g \in Running, ConsumerCallFails(w, g) PROVE OutboxType'
    BY <2>0, <2>6 DEF ConsumerCallFails, streamVars
  <2>. QED BY <1>4, <2>1, <2>2, <2>3, <2>4, <2>5, <2>6 DEF FaultStep
<1>5. ASSUME NEW w \in Workers, Start(w) \/ Exit(w) PROVE OutboxType'
  BY <1>5 DEF Start, Exit, GoDown, streamVars
<1>6. ASSUME NEW w \in Workers, NEW g \in Running,
             Join(w, g) \/ Read(w, g) \/ claim(w, g) \/ OneStep(w, g)
      PROVE  OutboxType'
  BY <1>6 DEF Join, Read, claim, OneStep, Handle, deliveries, deadLetter, ack, streamVars
<1>. QED BY <1>1, <1>2, <1>3, <1>4, <1>5, <1>6 DEF Next

(* The groups keep their types. *)
LEMMA GroupTypeStep ==
    ASSUME OutboxType, GroupType, ConsumerType, HandsInOrder, [Next]_vars
    PROVE  GroupType'
<1>. USE BoundsAssumption DEF GroupType
<1>1. CASE UNCHANGED groupVars BY <1>1 DEF groupVars
<1>2. CASE UNCHANGED vars BY <1>1, <1>2 DEF vars
<1>3. ASSUME NEW e \in Events, Emit(e) PROVE GroupType' BY <1>1, <1>3 DEF Emit
<1>4. ASSUME NEW w \in Workers, RelayStep(w) PROVE GroupType'
  BY <1>1, <1>4 DEF RelayStep, TrimInfo, TrimMinID, TrimMaxLen, Measure, TrimPending,
       ClaimRows, ClaimNothing, CommitPass, publish
<1>5. ASSUME NEW w \in Workers, FaultStep(w) PROVE GroupType'
  BY <1>1, <1>5 DEF FaultStep, TrimFails, RollBackPass, Stop, Crash, GoDown,
       PublishFails, ConsumerCallFails
<1>6. ASSUME NEW w \in Workers, Start(w) \/ Exit(w) PROVE GroupType'
  BY <1>1, <1>6 DEF Start, Exit, GoDown
<1>7. ASSUME NEW w \in Workers, NEW g \in Running,
             Join(w, g) \/ Read(w, g) \/ claim(w, g) \/ OneStep(w, g)
      PROVE  GroupType'
  <2>0. g \in AllGroups BY DEF AllGroups
  <2>1. CASE Join(w, g)
    <3>1. CASE g \in made BY <1>1, <2>1, <3>1 DEF Join
    <3>2. CASE g \notin made
      <4>1. Len(log) \in Nat BY DEF OutboxType
      <4>. QED BY <2>0, <2>1, <3>2, <4>1 DEF Join
    <3>. QED BY <3>1, <3>2
  <2>2. CASE Read(w, g)
    <3>1. smaller(Len(log), larger(first - 1, last[g]) + ReadSize) \in Nat
      BY <2>0, FreshBounds
    <3>2. [i \in Ids |-> IF i \in Fresh(g) THEN 1 ELSE tries[g][i]] \in [Ids -> 0..MaxDeliveries]
      BY <2>0
    <3>. QED BY <2>0, <2>2, <3>1, <3>2 DEF Read
  <2>3. CASE claim(w, g)
    <3>1. PICK abandoned \in SUBSET pending(g) :
            tries' = [tries EXCEPT ![g] = [i \in Ids |->
              IF i \notin abandoned THEN tries[g][i]
              ELSE IF i < first THEN 0
              ELSE smaller(tries[g][i] + 1, MaxDeliveries)]]
      BY <2>0, <2>3 DEF claim
    <3>2. \A i \in Ids : smaller(tries[g][i] + 1, MaxDeliveries) \in 0..MaxDeliveries
      BY <2>0 DEF smaller
    <3>. QED BY <2>0, <2>3, <3>1, <3>2 DEF claim
  <2>4. CASE ack(w, g)
    <3>1. cur[w][g] \in Ids BY <2>4 DEF ack, InHand, HandsInOrder
    <3>. QED BY <2>0, <2>4, <3>1 DEF ack
  <2>5. CASE Handle(w, g) \/ deliveries(w, g) \/ deadLetter(w, g)
    BY <1>1, <2>5 DEF Handle, deliveries, deadLetter
  <2>. QED BY <1>7, <2>1, <2>2, <2>3, <2>4, <2>5 DEF OneStep
<1>. QED BY <1>2, <1>3, <1>4, <1>5, <1>6, <1>7 DEF Next

(* The relays keep their types. *)
LEMMA RelayTypeStep ==
    ASSUME OutboxType, GroupType, RelayType, [Next]_vars
    PROVE  RelayType'
<1>. USE EventsAssumption, BoundsAssumption DEF RelayType
<1>1. CASE UNCHANGED relayVars BY <1>1 DEF relayVars
<1>2. CASE UNCHANGED vars BY <1>1, <1>2 DEF vars
<1>3. ASSUME NEW e \in Events, Emit(e) PROVE RelayType' BY <1>1, <1>3 DEF Emit
<1>f. ASSUME NEW w \in Workers, ForgetPass(w) PROVE RelayType'
  BY <1>f DEF ForgetPass, RelayPoints
<1>4. ASSUME NEW w \in Workers, RelayStep(w) PROVE RelayType'
  <2>1. CASE TrimInfo(w)
    <3>1. CASE made \cap Groups = {} /\ rpc' = [rpc EXCEPT ![w] = "blind"] /\ UNCHANGED <<floor, todo>>
      BY <2>1, <3>1 DEF TrimInfo, RelayPoints
    <3>2. ASSUME NEW slowest \in made \cap Groups,
                 floor' = [floor EXCEPT ![w] = last[slowest]],
                 todo' = [todo EXCEPT ![w] = {g \in made \cap Groups : pending(g) # {}}],
                 rpc' = [rpc EXCEPT ![w] = "pend"]
          PROVE  RelayType'
      <4>1. last[slowest] \in Nat BY DEF GroupType
      <4>2. {g \in made \cap Groups : pending(g) # {}} \in SUBSET Groups OBVIOUS
      <4>. QED BY <2>1, <3>2, <4>1, <4>2 DEF TrimInfo, RelayPoints
    <3>. QED BY <2>1, <3>1, <3>2 DEF TrimInfo
  <2>2. CASE TrimMinID(w) BY <2>2 DEF TrimMinID, RelayPoints
  <2>3. CASE TrimMaxLen(w) BY <2>3 DEF TrimMaxLen, RelayPoints, smaller
  <2>4. CASE Measure(w)
    <3>1. room(Kept) \in Nat
      BY DEF room, Kept, smaller, OutboxType
    <3>. QED BY <2>4, <3>1 DEF Measure, RelayPoints
  <2>5. ASSUME NEW g \in Groups, TrimPending(w, g) PROVE RelayType'
    <3>1. \A i \in pending(g) : smaller(floor[w], i) \in Nat
      BY DEF pending, Ids, smaller
    <3>. QED BY <2>5, <3>1 DEF TrimPending
  <2>6. CASE ClaimRows(w) BY <2>6 DEF ClaimRows, Claimable, RelayPoints
  <2>7. CASE ClaimNothing(w) BY <1>f, <2>7 DEF ClaimNothing
  <2>8. CASE CommitPass(w) BY <1>f, <2>8 DEF CommitPass
  <2>9. ASSUME NEW e \in Events, publish(w, e) PROVE RelayType'
    BY <2>9 DEF publish
  <2>. QED BY <1>4, <2>1, <2>2, <2>3, <2>4, <2>5, <2>6, <2>7, <2>8, <2>9 DEF RelayStep
<1>5. ASSUME NEW w \in Workers, FaultStep(w) PROVE RelayType'
  <2>1. CASE TrimFails(w) BY <2>1 DEF TrimFails, RelayPoints
  <2>2. CASE RollBackPass(w) BY <1>f, <2>2 DEF RollBackPass
  <2>3. CASE Stop(w) BY <1>f, <2>3 DEF Stop
  <2>4. CASE Crash(w) BY <1>f, <2>4 DEF Crash, GoDown
  <2>5. ASSUME NEW e \in Events, PublishFails(w, e) PROVE RelayType'
    BY <2>5 DEF PublishFails
  <2>6. ASSUME NEW g \in Running, ConsumerCallFails(w, g) PROVE RelayType'
    BY <1>1, <2>6 DEF ConsumerCallFails
  <2>. QED BY <1>5, <2>1, <2>2, <2>3, <2>4, <2>5, <2>6 DEF FaultStep
<1>6. ASSUME NEW w \in Workers, Start(w) \/ Exit(w) PROVE RelayType'
  BY <1>1, <1>f, <1>6 DEF Start, Exit, GoDown
<1>7. ASSUME NEW w \in Workers, NEW g \in Running,
             Join(w, g) \/ Read(w, g) \/ claim(w, g) \/ OneStep(w, g)
      PROVE  RelayType'
  BY <1>1, <1>7 DEF Join, Read, claim, OneStep, Handle, deliveries, deadLetter, ack
<1>. QED BY <1>2, <1>3, <1>4, <1>5, <1>6, <1>7 DEF Next

(* The consumers keep their types. *)
LEMMA ConsumerTypeStep ==
    ASSUME OutboxType, GroupType, ConsumerType, [Next]_vars
    PROVE  ConsumerType'
<1>. USE BoundsAssumption DEF ConsumerType
<1>1. CASE UNCHANGED <<mode, joined, handVars>> BY <1>1 DEF handVars
<1>2. CASE UNCHANGED vars BY <1>1, <1>2 DEF vars
<1>3. ASSUME NEW e \in Events, Emit(e) PROVE ConsumerType' BY <1>1, <1>3 DEF Emit
<1>4. ASSUME NEW w \in Workers, RelayStep(w) PROVE ConsumerType'
  BY <1>1, <1>4 DEF RelayStep, TrimInfo, TrimMinID, TrimMaxLen, Measure, TrimPending,
       ClaimRows, ClaimNothing, CommitPass, publish
<1>d. ASSUME NEW w \in Workers, GoDown(w) PROVE ConsumerType'
  BY <1>d DEF GoDown, Stages
<1>l. ASSUME NEW w \in Workers, NEW g \in Running, LetGo(w, g), UNCHANGED <<mode, joined, hand>>
      PROVE  ConsumerType'
  BY <1>l DEF LetGo, Stages
<1>5. ASSUME NEW w \in Workers, FaultStep(w) PROVE ConsumerType'
  <2>1. CASE Stop(w) BY <2>1 DEF Stop
  <2>2. CASE Crash(w) BY <1>d, <2>2 DEF Crash
  <2>3. ASSUME NEW g \in Running, ConsumerCallFails(w, g) PROVE ConsumerType'
    BY <1>l, <2>3 DEF ConsumerCallFails
  <2>4. CASE TrimFails(w) \/ RollBackPass(w) \/ \E e \in Events : PublishFails(w, e)
    BY <1>1, <2>4 DEF TrimFails, RollBackPass, PublishFails
  <2>. QED BY <1>5, <2>1, <2>2, <2>3, <2>4 DEF FaultStep
<1>6. ASSUME NEW w \in Workers, Start(w) \/ Exit(w) PROVE ConsumerType'
  <2>1. CASE Start(w) BY <2>1 DEF Start, handVars
  <2>. QED BY <1>d, <1>6, <2>1 DEF Exit
<1>7. ASSUME NEW w \in Workers, NEW g \in Running,
             Join(w, g) \/ Read(w, g) \/ claim(w, g) \/ OneStep(w, g)
      PROVE  ConsumerType'
  <2>0. g \in AllGroups BY DEF AllGroups
  <2>1. CASE Join(w, g) BY <2>1 DEF Join, handVars
  <2>2. CASE Read(w, g)
    <3>1. Fresh(g) \subseteq Ids
      BY <2>0, FreshBounds
    <3>. QED BY <2>2, <3>1 DEF Read
  <2>3. CASE claim(w, g)
    <3>1. \A abandoned \in SUBSET pending(g) : {i \in abandoned : i >= first} \in SUBSET Ids
      BY DEF pending
    <3>. QED BY <2>3, <3>1 DEF claim
  <2>4. CASE Handle(w, g)
    <3>1. PICK i \in hand[w][g] :
            /\ cur' = [cur EXCEPT ![w][g] = i]
            /\ hand' = [hand EXCEPT ![w][g] = @ \ {i}]
      BY <2>4 DEF Handle
    <3>2. PICK s \in Stages : stage' = [stage EXCEPT ![w][g] = s]
      BY <2>4 DEF Handle, Stages
    <3>. QED BY <2>4, <3>1, <3>2 DEF Handle
  <2>5. CASE deliveries(w, g)
    <3>1. CASE LetGo(w, g) BY <1>l, <2>5, <3>1 DEF deliveries
    <3>2. CASE stage' = [stage EXCEPT ![w][g] = "aside"] /\ UNCHANGED cur
      BY <2>5, <3>2 DEF deliveries, Stages
    <3>. QED BY <2>5, <3>1, <3>2 DEF deliveries
  <2>6. CASE deadLetter(w, g) BY <2>6 DEF deadLetter, Stages
  <2>7. CASE ack(w, g) BY <1>l, <2>7 DEF ack
  <2>. QED BY <1>7, <2>1, <2>2, <2>3, <2>4, <2>5, <2>6, <2>7 DEF OneStep
<1>. QED BY <1>2, <1>3, <1>4, <1>5, <1>6, <1>7 DEF Next

(* The outcomes keep their types: what is handled or recorded is the event of
   an entry that exists. *)
LEMMA OutcomeTypeStep ==
    ASSUME OutboxType, GroupType, ConsumerType, OutcomeType, GroupsInOrder, HandsInOrder,
           [Next]_vars
    PROVE  OutcomeType'
<1>. USE DEF OutcomeType
<1>1. CASE UNCHANGED outcomeVars BY <1>1 DEF outcomeVars
<1>2. CASE UNCHANGED vars BY <1>1, <1>2 DEF vars
<1>3. ASSUME NEW e \in Events, Emit(e) PROVE OutcomeType' BY <1>1, <1>3 DEF Emit
<1>4. ASSUME NEW w \in Workers, RelayStep(w) PROVE OutcomeType'
  BY <1>1, <1>4 DEF RelayStep, TrimInfo, TrimMinID, TrimMaxLen, Measure, TrimPending,
       ClaimRows, ClaimNothing, CommitPass, publish
<1>5. ASSUME NEW w \in Workers, FaultStep(w) PROVE OutcomeType'
  BY <1>1, <1>5 DEF FaultStep, TrimFails, RollBackPass, Stop, Crash, GoDown,
       PublishFails, ConsumerCallFails
<1>6. ASSUME NEW w \in Workers, Start(w) \/ Exit(w) PROVE OutcomeType'
  BY <1>1, <1>6 DEF Start, Exit, GoDown
<1>7. ASSUME NEW w \in Workers, NEW g \in Running,
             Join(w, g) \/ Read(w, g) \/ claim(w, g) \/ OneStep(w, g)
      PROVE  OutcomeType'
  <2>0. g \in AllGroups BY DEF AllGroups
  <2>i. ASSUME NEW i \in Ids, i <= last[g] PROVE log[i] \in Events
    BY <2>0, <2>i DEF GroupsInOrder, OutboxType, GroupType, Ids
  <2>1. CASE Handle(w, g)
    <3>1. \A i \in hand[w][g] : log[i] \in Events
      BY <2>i DEF HandsInOrder, ConsumerType
    <3>. QED BY <2>0, <2>1, <3>1 DEF Handle
  <2>2. CASE deadLetter(w, g)
    <3>1. log[cur[w][g]] \in Events
      BY <2>i, <2>2 DEF deadLetter, InHand, HandsInOrder
    <3>. QED BY <2>0, <2>2, <3>1 DEF deadLetter
  <2>3. CASE Join(w, g) \/ Read(w, g) \/ claim(w, g) \/ deliveries(w, g) \/ ack(w, g)
    BY <1>1, <2>3 DEF Join, Read, claim, deliveries, ack
  <2>. QED BY <1>7, <2>1, <2>2, <2>3 DEF OneStep
<1>. QED BY <1>2, <1>3, <1>4, <1>5, <1>6, <1>7 DEF Next

(* The stream only grows at its end: what is there stays where it is. *)
LEMMA LogGrows ==
    ASSUME OutboxType, [Next]_vars
    PROVE  /\ Len(log) <= Len(log')
           /\ \A i \in 1..Len(log) : log'[i] = log[i]
<1>1. CASE UNCHANGED log BY <1>1 DEF OutboxType
<1>2. ASSUME NEW e \in Events, log' = Append(log, e)
      PROVE  Len(log) <= Len(log') /\ \A i \in 1..Len(log) : log'[i] = log[i]
  BY <1>2 DEF OutboxType
<1>3. CASE UNCHANGED vars BY <1>1, <1>3 DEF vars, streamVars
<1>4. ASSUME NEW e \in Events, Emit(e) PROVE UNCHANGED log BY <1>4 DEF Emit, streamVars
<1>5. ASSUME NEW w \in Workers, RelayStep(w)
      PROVE  UNCHANGED log \/ \E e \in Events : log' = Append(log, e)
  BY <1>5 DEF RelayStep, TrimInfo, TrimMinID, TrimMaxLen, Measure, TrimPending,
       ClaimRows, ClaimNothing, CommitPass, publish, streamVars
<1>6. ASSUME NEW w \in Workers, FaultStep(w)
      PROVE  UNCHANGED log \/ \E e \in Events : log' = Append(log, e)
  BY <1>6 DEF FaultStep, TrimFails, RollBackPass, Stop, Crash, GoDown,
       PublishFails, ConsumerCallFails, streamVars
<1>7. ASSUME NEW w \in Workers, Start(w) \/ Exit(w) PROVE UNCHANGED log
  BY <1>7 DEF Start, Exit, GoDown, streamVars
<1>8. ASSUME NEW w \in Workers, NEW g \in Running,
             Join(w, g) \/ Read(w, g) \/ claim(w, g) \/ OneStep(w, g)
      PROVE  UNCHANGED log
  BY <1>8 DEF Join, Read, claim, OneStep, Handle, deliveries, deadLetter, ack, streamVars
<1>. QED BY <1>1, <1>2, <1>3, <1>4, <1>5, <1>6, <1>7, <1>8 DEF Next

(* A group's position only moves forward. *)
LEMMA LastGrows ==
    ASSUME OutboxType, GroupType, GroupsInOrder, [Next]_vars
    PROVE  \A g \in AllGroups : last[g] <= last'[g]
<1>1. CASE UNCHANGED last BY <1>1 DEF GroupType
<1>2. CASE \E w \in Workers, g \in Running : Join(w, g) \/ Read(w, g)
  <2>1. PICK w \in Workers, g \in Running : Join(w, g) \/ Read(w, g) BY <1>2
  <2>2. g \in AllGroups BY DEF AllGroups
  <2>3. CASE Join(w, g)
    <3>1. CASE UNCHANGED last BY <1>1, <3>1
    <3>2. CASE last' = [last EXCEPT ![g] = Len(log)]
      <4>1. last[g] <= Len(log) BY <2>2 DEF GroupsInOrder
      <4>. QED BY <2>2, <3>2, <4>1 DEF GroupType
    <3>. QED BY <2>3, <3>1, <3>2 DEF Join, groupVars
  <2>4. CASE Read(w, g)
    <3>. DEFINE end == smaller(Len(log), larger(first - 1, last[g]) + ReadSize)
    <3>1. last' = [last EXCEPT ![g] = end] BY <2>2, <2>4 DEF Read, GroupType
    <3>2. end \in Nat /\ last[g] < end BY <2>2, <2>4, FreshBounds DEF Read
    <3>. HIDE DEF end
    <3>. QED BY <2>2, <3>1, <3>2 DEF GroupType
  <2>. QED BY <2>1, <2>3, <2>4
<1>3. CASE ~ \E w \in Workers, g \in Running : Join(w, g) \/ Read(w, g)
  <2>1. CASE UNCHANGED vars BY <1>1, <2>1 DEF vars, groupVars
  <2>2. ASSUME NEW e \in Events, Emit(e) PROVE UNCHANGED last BY <2>2 DEF Emit, groupVars
  <2>3. ASSUME NEW w \in Workers, RelayStep(w) PROVE UNCHANGED last
    BY <2>3 DEF RelayStep, TrimInfo, TrimMinID, TrimMaxLen, Measure, TrimPending,
         ClaimRows, ClaimNothing, CommitPass, publish, groupVars
  <2>4. ASSUME NEW w \in Workers, FaultStep(w) PROVE UNCHANGED last
    BY <2>4 DEF FaultStep, TrimFails, RollBackPass, Stop, Crash, GoDown,
         PublishFails, ConsumerCallFails, groupVars
  <2>5. ASSUME NEW w \in Workers, Start(w) \/ Exit(w) PROVE UNCHANGED last
    BY <2>5 DEF Start, Exit, GoDown, groupVars
  <2>6. ASSUME NEW w \in Workers, NEW g \in Running, claim(w, g) \/ OneStep(w, g)
        PROVE  UNCHANGED last
    BY <2>6 DEF claim, OneStep, Handle, deliveries, deadLetter, ack, groupVars
  <2>. QED BY <1>1, <1>3, <2>1, <2>2, <2>3, <2>4, <2>5, <2>6 DEF Next
<1>. QED BY <1>2, <1>3

(* A group's positions stay ordered. *)
LEMMA GroupsInOrderStep ==
    ASSUME OutboxType, OutboxType', GroupType, ConsumerType, GroupsInOrder, HandsInOrder,
           [Next]_vars
    PROVE  GroupsInOrder'
<1>. USE BoundsAssumption
<1>0. /\ Len(log) \in Nat /\ Len(log') \in Nat /\ Len(log) <= Len(log')
  BY LogGrows DEF OutboxType
<1>1. CASE UNCHANGED groupVars
  BY <1>0, <1>1 DEF groupVars, GroupsInOrder, GroupType
<1>2. CASE UNCHANGED vars BY <1>1, <1>2 DEF vars
<1>3. ASSUME NEW e \in Events, Emit(e) PROVE GroupsInOrder' BY <1>1, <1>3 DEF Emit
<1>4. ASSUME NEW w \in Workers, RelayStep(w) PROVE GroupsInOrder'
  BY <1>1, <1>4 DEF RelayStep, TrimInfo, TrimMinID, TrimMaxLen, Measure, TrimPending,
       ClaimRows, ClaimNothing, CommitPass, publish
<1>5. ASSUME NEW w \in Workers, FaultStep(w) PROVE GroupsInOrder'
  BY <1>1, <1>5 DEF FaultStep, TrimFails, RollBackPass, Stop, Crash, GoDown,
       PublishFails, ConsumerCallFails
<1>6. ASSUME NEW w \in Workers, Start(w) \/ Exit(w) PROVE GroupsInOrder'
  BY <1>1, <1>6 DEF Start, Exit, GoDown
<1>7. ASSUME NEW w \in Workers, NEW g \in Running,
             Join(w, g) \/ Read(w, g) \/ claim(w, g) \/ OneStep(w, g)
      PROVE  GroupsInOrder'
  <2>0. g \in AllGroups BY DEF AllGroups
  <2>1. CASE Join(w, g)
    <3>1. CASE g \in made BY <1>1, <2>1, <3>1 DEF Join
    <3>2. CASE g \notin made
      <4>1. /\ start' = [start EXCEPT ![g] = Len(log)]
            /\ last' = [last EXCEPT ![g] = Len(log)]
            /\ tries' = tries /\ log' = log
        BY <2>1, <3>2 DEF Join, streamVars
      <4>2. \A h \in AllGroups : start'[h] <= last'[h] /\ last'[h] <= Len(log')
        BY <1>0, <2>0, <4>1 DEF GroupsInOrder, GroupType
      <4>3. \A h \in AllGroups : \A i \in Ids : tries'[h][i] > 0 => i <= last'[h]
        <5>1. ASSUME NEW h \in AllGroups, NEW i \in Ids, tries[h][i] > 0 PROVE i <= last'[h]
          <6>1. i <= last[h] /\ last[h] <= Len(log) /\ last[h] \in Nat /\ i \in Nat
            BY <5>1 DEF GroupsInOrder, GroupType, Ids
          <6>2. last'[h] = IF h = g THEN Len(log) ELSE last[h] BY <4>1 DEF GroupType
          <6>. QED BY <1>0, <6>1, <6>2
        <5>. QED BY <4>1, <5>1
      <4>. QED BY <4>2, <4>3 DEF GroupsInOrder
    <3>. QED BY <3>1, <3>2
  <2>2. CASE Read(w, g)
    <3>. DEFINE end == smaller(Len(log), larger(first - 1, last[g]) + ReadSize)
    <3>1. /\ last' = [last EXCEPT ![g] = end] /\ start' = start /\ log' = log
          /\ tries' = [tries EXCEPT ![g] = [i \in Ids |-> IF i \in Fresh(g) THEN 1 ELSE tries[g][i]]]
      BY <2>0, <2>2 DEF Read, GroupType, streamVars
    <3>2. end \in Nat /\ last[g] < end /\ end <= Len(log) /\ \A i \in Fresh(g) : i <= end
      BY <2>0, <2>2, FreshBounds DEF Read
    <3>. HIDE DEF end
    <3>3. \A h \in AllGroups : start'[h] <= last'[h] /\ last'[h] <= Len(log')
      BY <1>0, <2>0, <3>1, <3>2 DEF GroupsInOrder, GroupType
    <3>4. ASSUME NEW h \in AllGroups, NEW i \in Ids, tries'[h][i] > 0 PROVE i <= last'[h]
      <4>1. CASE h = g
        <5>1. i \in Fresh(g) \/ tries[g][i] > 0 BY <2>0, <3>1, <3>4, <4>1 DEF GroupType
        <5>2. i \in Fresh(g) \/ i <= last[g] BY <2>0, <5>1 DEF GroupsInOrder
        <5>3. i \in Nat /\ last[g] \in Nat BY <2>0 DEF Ids, GroupType
        <5>. QED BY <2>0, <3>1, <3>2, <4>1, <5>2, <5>3 DEF GroupType
      <4>2. CASE h # g BY <3>1, <3>4, <4>2 DEF GroupType, GroupsInOrder
      <4>. QED BY <4>1, <4>2
    <3>. QED BY <3>3, <3>4 DEF GroupsInOrder
  <2>3. ASSUME UNCHANGED <<start, last, log>>,
               \A h \in AllGroups : \A i \in Ids : tries'[h][i] > 0 => tries[h][i] > 0
        PROVE  GroupsInOrder'
    BY <2>3 DEF GroupsInOrder
  <2>4. CASE claim(w, g)
    <3>1. PICK abandoned \in SUBSET pending(g) :
            tries' = [tries EXCEPT ![g] = [i \in Ids |->
              IF i \notin abandoned THEN tries[g][i]
              ELSE IF i < first THEN 0
              ELSE smaller(tries[g][i] + 1, MaxDeliveries)]]
      BY <2>0, <2>4 DEF claim
    <3>2. \A i \in abandoned : tries[g][i] > 0 BY DEF pending
    <3>3. \A h \in AllGroups : \A i \in Ids : tries'[h][i] > 0 => tries[h][i] > 0
      BY <2>0, <3>1, <3>2 DEF GroupType
    <3>. QED BY <2>3, <2>4, <3>3 DEF claim, streamVars
  <2>5. CASE ack(w, g)
    <3>1. tries' = [tries EXCEPT ![g][cur[w][g]] = 0] BY <2>5 DEF ack
    <3>2. \A h \in AllGroups : \A i \in Ids : tries'[h][i] > 0 => tries[h][i] > 0
      BY <2>0, <3>1 DEF GroupType
    <3>. QED BY <2>3, <2>5, <3>2 DEF ack, streamVars
  <2>6. CASE Handle(w, g) \/ deliveries(w, g) \/ deadLetter(w, g)
    BY <1>1, <2>6 DEF Handle, deliveries, deadLetter
  <2>. QED BY <1>7, <2>1, <2>2, <2>4, <2>5, <2>6 DEF OneStep
<1>. QED BY <1>2, <1>3, <1>4, <1>5, <1>6, <1>7 DEF Next

(* A consumer works only on what its group was handed. *)
LEMMA HandsInOrderStep ==
    ASSUME OutboxType, GroupType, GroupType', ConsumerType, GroupsInOrder, HandsInOrder,
           [Next]_vars
    PROVE  HandsInOrder'
<1>0. \A g \in Running : /\ g \in AllGroups /\ last[g] \in Nat /\ last'[g] \in Nat
                         /\ last[g] <= last'[g]
  BY LastGrows DEF AllGroups, GroupType
<1>. DEFINE
    InOrder(w, g, h, c, s) == /\ \A i \in h : i <= last'[g]
                              /\ s # "idle" => c \in Ids /\ c <= last'[g]
<1>i. \A i \in Ids : i \in Nat BY DEF Ids
<1>u. ASSUME NEW w \in Workers, NEW g \in Running
      PROVE  InOrder(w, g, hand[w][g], cur[w][g], stage[w][g])
  <2>1. \A i \in hand[w][g] : i \in Nat /\ i <= last[g] BY <1>i DEF HandsInOrder, ConsumerType
  <2>2. stage[w][g] # "idle" => cur[w][g] \in Ids /\ cur[w][g] <= last[g] BY DEF HandsInOrder
  <2>. QED BY <1>0, <1>i, <2>1, <2>2
<1>1. CASE UNCHANGED handVars
  BY <1>1, <1>u DEF handVars, HandsInOrder
<1>2. CASE UNCHANGED vars BY <1>1, <1>2 DEF vars
<1>3. ASSUME NEW e \in Events, Emit(e) PROVE HandsInOrder' BY <1>1, <1>3 DEF Emit
<1>4. ASSUME NEW w \in Workers, RelayStep(w) PROVE HandsInOrder'
  BY <1>1, <1>4 DEF RelayStep, TrimInfo, TrimMinID, TrimMaxLen, Measure, TrimPending,
       ClaimRows, ClaimNothing, CommitPass, publish
<1>d. ASSUME NEW w \in Workers, GoDown(w) PROVE HandsInOrder'
  BY <1>d, <1>u DEF GoDown, HandsInOrder, ConsumerType
<1>l. ASSUME NEW w \in Workers, NEW g \in Running, LetGo(w, g), UNCHANGED hand
      PROVE  HandsInOrder'
  BY <1>l, <1>u DEF LetGo, HandsInOrder, ConsumerType
<1>5. ASSUME NEW w \in Workers, FaultStep(w) PROVE HandsInOrder'
  <2>1. CASE Stop(w) BY <1>u, <2>1 DEF Stop, HandsInOrder, ConsumerType
  <2>2. CASE Crash(w) BY <1>d, <2>2 DEF Crash
  <2>3. ASSUME NEW g \in Running, ConsumerCallFails(w, g) PROVE HandsInOrder'
    BY <1>l, <2>3 DEF ConsumerCallFails
  <2>4. CASE TrimFails(w) \/ RollBackPass(w) \/ \E e \in Events : PublishFails(w, e)
    BY <1>1, <2>4 DEF TrimFails, RollBackPass, PublishFails
  <2>. QED BY <1>5, <2>1, <2>2, <2>3, <2>4 DEF FaultStep
<1>6. ASSUME NEW w \in Workers, Start(w) \/ Exit(w) PROVE HandsInOrder'
  BY <1>1, <1>d, <1>6 DEF Start, Exit
<1>7. ASSUME NEW w \in Workers, NEW g \in Running,
             Join(w, g) \/ Read(w, g) \/ claim(w, g) \/ OneStep(w, g)
      PROVE  HandsInOrder'
  <2>1. CASE Join(w, g) BY <1>1, <2>1 DEF Join
  <2>2. ASSUME NEW S \in SUBSET Ids, \A i \in S : i <= last'[g],
               hand' = [hand EXCEPT ![w][g] = S], UNCHANGED <<cur, stage>>
        PROVE  HandsInOrder'
    BY <1>u, <2>2 DEF HandsInOrder, ConsumerType
  <2>3. CASE Read(w, g)
    <3>1. \A i \in Fresh(g) : i \in Ids /\ i <= last'[g]
      BY <1>0, <2>3, FreshBounds DEF Read, GroupType
    <3>. QED BY <2>2, <2>3, <3>1 DEF Read
  <2>4. CASE claim(w, g)
    <3>1. PICK abandoned \in SUBSET pending(g) :
            hand' = [hand EXCEPT ![w][g] = {i \in abandoned : i >= first}]
      BY <2>4 DEF claim
    <3>2. last' = last BY <2>4 DEF claim
    <3>3. \A i \in abandoned : i \in Ids /\ i <= last'[g]
      BY <1>0, <3>2 DEF pending, GroupsInOrder
    <3>. QED BY <2>2, <2>4, <3>1, <3>3 DEF claim
  <2>5. CASE Handle(w, g)
    <3>1. PICK i \in hand[w][g] :
            /\ cur' = [cur EXCEPT ![w][g] = i]
            /\ hand' = [hand EXCEPT ![w][g] = @ \ {i}]
      BY <2>5 DEF Handle
    <3>2. i \in Ids /\ i <= last'[g] BY <1>u DEF ConsumerType
    <3>3. PICK s \in Stages : stage' = [stage EXCEPT ![w][g] = s]
      BY <2>5 DEF Handle, Stages
    <3>4. ASSUME NEW v \in Workers, NEW h \in Running
          PROVE  InOrder(v, h, hand'[v][h], cur'[v][h], stage'[v][h])
      BY <1>u, <3>1, <3>2, <3>3 DEF ConsumerType
    <3>. QED BY <3>4 DEF HandsInOrder
  <2>6. ASSUME NEW s \in Stages, stage[w][g] # "idle",
               stage' = [stage EXCEPT ![w][g] = s], UNCHANGED <<hand, cur>>
        PROVE  HandsInOrder'
    BY <1>u, <2>6 DEF HandsInOrder, ConsumerType
  <2>7. CASE deliveries(w, g)
    <3>1. CASE LetGo(w, g) BY <1>l, <2>7, <3>1 DEF deliveries
    <3>2. CASE stage' = [stage EXCEPT ![w][g] = "aside"] /\ UNCHANGED cur
      BY <2>6, <2>7, <3>2 DEF deliveries, InHand, Stages
    <3>. QED BY <2>7, <3>1, <3>2 DEF deliveries
  <2>8. CASE deadLetter(w, g) BY <2>6, <2>8 DEF deadLetter, InHand, Stages
  <2>9. CASE ack(w, g) BY <1>l, <2>9 DEF ack
  <2>. QED BY <1>7, <2>1, <2>3, <2>4, <2>5, <2>7, <2>8, <2>9 DEF OneStep
<1>. QED BY <1>2, <1>3, <1>4, <1>5, <1>6, <1>7 DEF Next

(* Every variable keeps its type, with the two facts that needs: an entry a
   consumer has in hand, or its group has pending, exists. *)
TypeInv == TypeOK /\ GroupsInOrder /\ HandsInOrder

LEMMA TypeInvInit == Init => TypeInv
<1>. SUFFICES ASSUME Init PROVE TypeInv OBVIOUS
<1>. USE EventsAssumption, BoundsAssumption DEF Init
<1>1. OutboxType BY DEF OutboxType
<1>2. GroupType BY DEF GroupType, AllGroups, Ids
<1>3. RelayType BY DEF RelayType, RelayPoints
<1>4. ConsumerType BY DEF ConsumerType, Stages
<1>5. OutcomeType BY DEF OutcomeType
<1>6. GroupsInOrder BY DEF GroupsInOrder
<1>7. HandsInOrder BY DEF HandsInOrder
<1>. QED BY <1>1, <1>2, <1>3, <1>4, <1>5, <1>6, <1>7 DEF TypeInv, TypeOK

LEMMA TypeInvStep == TypeInv /\ [Next]_vars => TypeInv'
<1>. SUFFICES ASSUME TypeInv, [Next]_vars PROVE TypeInv' OBVIOUS
<1>0. /\ OutboxType /\ GroupType /\ RelayType /\ ConsumerType /\ OutcomeType
      /\ GroupsInOrder /\ HandsInOrder
  BY DEF TypeInv, TypeOK
<1>1. OutboxType' BY <1>0, OutboxTypeStep
<1>2. GroupType' BY <1>0, GroupTypeStep
<1>3. RelayType' BY <1>0, RelayTypeStep
<1>4. ConsumerType' BY <1>0, ConsumerTypeStep
<1>5. OutcomeType' BY <1>0, OutcomeTypeStep
<1>6. GroupsInOrder' BY <1>0, <1>1, GroupsInOrderStep
<1>7. HandsInOrder' BY <1>0, <1>2, HandsInOrderStep
<1>. QED BY <1>1, <1>2, <1>3, <1>4, <1>5, <1>6, <1>7 DEF TypeInv, TypeOK

(* Type correctness of the outbox, the stream, the relays and the consumers,
   for any number of workers, groups, events and faults. *)
THEOREM TypeCorrect == Spec => []TypeOK
<1>1. TypeInv => TypeOK BY DEF TypeInv
<1>. QED BY <1>1, TypeInvInit, TypeInvStep, PTL DEF Spec
-----------------------------------------------------------------------------
(* Nothing a group needs is trimmed, and nothing a group was handed is lost. *)

(* Once a group the relay waits for exists, it exists for ever, so no relay
   falls back on trimming by length. *)
LEMMA NeverBlindStep ==
    ASSUME RelayType, NeverBlind, [Next]_vars
    PROVE  NeverBlind'
<1>1. made \subseteq made'
  BY SMTT(30) DEF Next, vars, groupVars, Emit, RelayStep, TrimInfo, TrimMinID, TrimMaxLen, Measure,
       TrimPending, ClaimRows, ClaimNothing, CommitPass, publish, FaultStep, TrimFails,
       RollBackPass, Stop, Crash, GoDown, PublishFails, ConsumerCallFails, Start, Exit,
       Join, Read, claim, OneStep, Handle, deliveries, deadLetter, ack
<1>2. \A w \in Workers : rpc'[w] # "blind"
  BY SMTT(30) DEF NeverBlind, RelayType, RelayPoints, Next, vars, relayVars, Emit, RelayStep, TrimInfo,
       TrimMinID, TrimMaxLen, Measure, TrimPending, ClaimRows, ClaimNothing, CommitPass,
       publish, FaultStep, TrimFails, RollBackPass, Stop, Crash, GoDown, ForgetPass,
       PublishFails, ConsumerCallFails, Start, Exit, Join, Read, claim, OneStep, Handle,
       deliveries, deadLetter, ack
<1>. QED BY <1>1, <1>2 DEF NeverBlind

(* What a step can make pending comes after the group's position before it. *)
LEMMA NewlyPending ==
    ASSUME TypeInv, [Next]_vars,
           NEW g \in AllGroups, NEW i \in Ids, tries'[g][i] > 0, ~(tries[g][i] > 0)
    PROVE  last[g] < i /\ first <= i /\ UNCHANGED first
<1>. USE DEF TypeInv, TypeOK
<1>0. CASE UNCHANGED tries BY <1>0
<1>1. ASSUME NEW w \in Workers, NEW h \in Running, Read(w, h)
      PROVE  last[g] < i /\ first <= i /\ UNCHANGED first
  <2>1. h \in AllGroups BY DEF AllGroups
  <2>2. g = h /\ i \in Fresh(g) BY <1>1, <2>1 DEF Read, GroupType
  <2>. QED BY <1>1, <2>1, <2>2, FreshBounds DEF Read, streamVars
<1>2. ASSUME NEW w \in Workers, NEW h \in Running, claim(w, h) PROVE FALSE
  <2>0. h \in AllGroups BY DEF AllGroups
  <2>1. PICK abandoned \in SUBSET pending(h) :
            tries' = [tries EXCEPT ![h] = [j \in Ids |->
              IF j \notin abandoned THEN tries[h][j]
              ELSE IF j < first THEN 0
              ELSE smaller(tries[h][j] + 1, MaxDeliveries)]]
    BY <1>2, <2>0 DEF claim
  <2>2. \A j \in abandoned : tries[h][j] > 0 BY DEF pending
  <2>. QED BY <2>0, <2>1, <2>2 DEF GroupType
<1>3. ASSUME NEW w \in Workers, NEW h \in Running, ack(w, h) PROVE FALSE
  <2>0. h \in AllGroups BY DEF AllGroups
  <2>1. tries' = [tries EXCEPT ![h][cur[w][h]] = 0] BY <1>3 DEF ack
  <2>. QED BY <2>0, <2>1 DEF GroupType
<1>4. ASSUME NEW w \in Workers, NEW h \in Running,
             Join(w, h) \/ Handle(w, h) \/ deliveries(w, h) \/ deadLetter(w, h)
      PROVE  UNCHANGED tries
  BY <1>4 DEF Join, Handle, deliveries, deadLetter, groupVars
<1>5. ASSUME NEW w \in Workers, RelayStep(w) \/ FaultStep(w) \/ Start(w) \/ Exit(w)
      PROVE  UNCHANGED tries
  BY <1>5 DEF RelayStep, TrimInfo, TrimMinID, TrimMaxLen, Measure, TrimPending, ClaimRows,
       ClaimNothing, CommitPass, publish, FaultStep, TrimFails, RollBackPass, Stop, Crash,
       GoDown, PublishFails, ConsumerCallFails, Start, Exit, groupVars
<1>6. ASSUME NEW e \in Events, Emit(e) PROVE UNCHANGED tries BY <1>6 DEF Emit, groupVars
<1>7. CASE UNCHANGED vars BY <1>0, <1>7 DEF vars, groupVars
<1>. QED BY <1>0, <1>1, <1>2, <1>3, <1>4, <1>5, <1>6, <1>7 DEF Next, OneStep

(* A group that is made joins at the end of the stream, with nothing pending. *)
LEMMA NewlyMade ==
    ASSUME TypeInv, [Next]_vars, NEW g \in made', g \notin made
    PROVE  /\ g \in AllGroups /\ last'[g] = Len(log) /\ start'[g] = Len(log)
           /\ UNCHANGED <<log, first, rpc, floor, todo, tries>>
<1>1. ASSUME UNCHANGED made PROVE FALSE BY <1>1
<1>2. ASSUME NEW w \in Workers, NEW h \in Running, Join(w, h)
      PROVE  /\ g \in AllGroups /\ last'[g] = Len(log) /\ start'[g] = Len(log)
             /\ UNCHANGED <<log, first, rpc, floor, todo, tries>>
  <2>1. g = h /\ h \notin made BY <1>2 DEF Join, groupVars
  <2>2. g \in AllGroups BY <2>1 DEF AllGroups
  <2>. QED BY <1>2, <2>1, <2>2 DEF Join, TypeInv, TypeOK, GroupType, streamVars, relayVars
<1>3. ASSUME NEW w \in Workers, NEW h \in Running, Read(w, h) \/ claim(w, h) \/ OneStep(w, h)
      PROVE  FALSE
  BY <1>1, <1>3 DEF Read, claim, OneStep, Handle, deliveries, deadLetter, ack, groupVars
<1>4. ASSUME NEW w \in Workers, RelayStep(w) \/ FaultStep(w) \/ Start(w) \/ Exit(w)
      PROVE  FALSE
  BY <1>1, <1>4 DEF RelayStep, TrimInfo, TrimMinID, TrimMaxLen, Measure, TrimPending, ClaimRows,
       ClaimNothing, CommitPass, publish, FaultStep, TrimFails, RollBackPass, Stop, Crash,
       GoDown, PublishFails, ConsumerCallFails, Start, Exit, groupVars
<1>5. ASSUME NEW e \in Events, Emit(e) PROVE FALSE BY <1>1, <1>5 DEF Emit, groupVars
<1>6. CASE UNCHANGED vars BY <1>1, <1>6 DEF vars, groupVars
<1>. QED BY <1>2, <1>3, <1>4, <1>5, <1>6 DEF Next

LEMMA MadeBeforeReadStep ==
    ASSUME TypeInv, MadeBeforeRead, [Next]_vars
    PROVE  MadeBeforeRead'
<1>. USE DEF TypeInv, TypeOK
<1>1. CASE UNCHANGED <<made, tries, joined>> BY <1>1 DEF MadeBeforeRead
<1>2. ASSUME NEW w \in Workers, NEW h \in Running, Join(w, h) PROVE MadeBeforeRead'
  BY <1>2 DEF Join, groupVars, MadeBeforeRead, ConsumerType
<1>4. ASSUME NEW w \in Workers, NEW h \in Running, Read(w, h) \/ claim(w, h)
      PROVE  MadeBeforeRead'
  <2>1. h \in made /\ h \in AllGroups BY <1>4 DEF Read, claim, Idle, MadeBeforeRead, AllGroups
  <2>2. \A g \in AllGroups \ {h} : tries'[g] = tries[g]
    BY <1>4 DEF Read, claim, GroupType
  <2>. QED BY <1>4, <2>1, <2>2 DEF Read, claim, MadeBeforeRead
<1>5. ASSUME NEW w \in Workers, NEW h \in Running, ack(w, h) PROVE MadeBeforeRead'
  <2>1. h \in AllGroups BY DEF AllGroups
  <2>2. tries' = [tries EXCEPT ![h][cur[w][h]] = 0] /\ UNCHANGED <<made, joined>>
    BY <1>5 DEF ack
  <2>. QED BY <2>1, <2>2 DEF MadeBeforeRead, GroupType
<1>6. ASSUME NEW w \in Workers, NEW h \in Running,
             Handle(w, h) \/ deliveries(w, h) \/ deadLetter(w, h)
      PROVE  MadeBeforeRead'
  BY <1>1, <1>6 DEF Handle, deliveries, deadLetter, groupVars
<1>7. ASSUME NEW w \in Workers, RelayStep(w) \/ Start(w) PROVE MadeBeforeRead'
  BY <1>1, <1>7 DEF RelayStep, TrimInfo, TrimMinID, TrimMaxLen, Measure, TrimPending, ClaimRows,
       ClaimNothing, CommitPass, publish, Start, groupVars
<1>d. ASSUME NEW w \in Workers, GoDown(w) PROVE MadeBeforeRead'
  BY <1>d DEF GoDown, groupVars, MadeBeforeRead, ConsumerType
<1>8. ASSUME NEW w \in Workers, FaultStep(w) \/ Exit(w) PROVE MadeBeforeRead'
  BY <1>1, <1>d, <1>8 DEF FaultStep, TrimFails, RollBackPass, Stop, Crash, PublishFails,
       ConsumerCallFails, Exit, groupVars
<1>9. ASSUME NEW e \in Events, Emit(e) PROVE MadeBeforeRead' BY <1>1, <1>9 DEF Emit, groupVars
<1>10. CASE UNCHANGED vars BY <1>1, <1>10 DEF vars, groupVars
<1>. QED BY <1>2, <1>4, <1>5, <1>6, <1>7, <1>8, <1>9, <1>10 DEF Next, OneStep

(* A relay that is about to trim came from XINFO, has just read one group's
   pending entries, or has not moved. *)
LEMMA PendCases ==
    ASSUME TypeInv, [Next]_vars, NEW w \in Workers, rpc'[w] = "pend"
    PROVE  \/ TrimInfo(w)
           \/ \E g \in Groups : TrimPending(w, g)
           \/ rpc[w] = "pend" /\ floor'[w] = floor[w] /\ todo'[w] = todo[w]
<1>. USE DEF TypeInv, TypeOK, RelayType, RelayPoints
<1>1. ASSUME NEW v \in Workers, RelayStep(v)
      PROVE  \/ TrimInfo(w) \/ \E g \in Groups : TrimPending(w, g)
             \/ rpc[w] = "pend" /\ floor'[w] = floor[w] /\ todo'[w] = todo[w]
  <2>1. CASE TrimInfo(v) \/ \E g \in Groups : TrimPending(v, g)
    BY <2>1 DEF TrimInfo, TrimPending
  <2>2. CASE TrimMinID(v) \/ TrimMaxLen(v) \/ Measure(v)
    BY <2>2 DEF TrimMinID, TrimMaxLen, Measure
  <2>3. CASE ClaimRows(v) \/ ClaimNothing(v) \/ CommitPass(v) \/ \E e \in Events : publish(v, e)
    BY <2>3 DEF ClaimRows, ClaimNothing, CommitPass, publish, ForgetPass
  <2>. QED BY <1>1, <2>1, <2>2, <2>3 DEF RelayStep
<1>2. ASSUME NEW v \in Workers, FaultStep(v) \/ Start(v) \/ Exit(v)
      PROVE  rpc[w] = "pend" /\ floor'[w] = floor[w] /\ todo'[w] = todo[w]
  BY <1>2 DEF FaultStep, TrimFails, RollBackPass, Stop, Crash, GoDown, ForgetPass, PublishFails,
       ConsumerCallFails, Start, Exit, relayVars
<1>3. ASSUME UNCHANGED relayVars
      PROVE  rpc[w] = "pend" /\ floor'[w] = floor[w] /\ todo'[w] = todo[w]
  BY <1>3 DEF relayVars
<1>4. ASSUME NEW v \in Workers, NEW h \in Running,
             Join(v, h) \/ Read(v, h) \/ claim(v, h) \/ OneStep(v, h)
      PROVE  UNCHANGED relayVars
  BY <1>4 DEF Join, Read, claim, OneStep, Handle, deliveries, deadLetter, ack
<1>5. ASSUME NEW e \in Events, Emit(e) PROVE UNCHANGED relayVars BY <1>5 DEF Emit
<1>6. CASE UNCHANGED vars BY <1>3, <1>6 DEF vars
<1>. QED BY <1>1, <1>2, <1>3, <1>4, <1>5, <1>6 DEF Next

(* The floor stays safe while the groups read, claim, acknowledge and join. *)
LEMMA FloorsAreSafeStep ==
    ASSUME TypeInv, TypeInv', MadeBeforeRead, FloorsAreSafe, [Next]_vars
    PROVE  FloorsAreSafe'
<1>0. /\ Len(log) \in Nat /\ Len(log') \in Nat /\ Len(log) <= Len(log')
      /\ \A g \in AllGroups : last[g] \in Nat /\ last'[g] \in Nat /\ last[g] <= last'[g]
      /\ \A w \in Workers : floor[w] \in Nat /\ floor'[w] \in Nat
      /\ made \subseteq AllGroups /\ made' \subseteq AllGroups
  BY LogGrows, LastGrows DEF TypeInv, TypeOK, OutboxType, GroupType, RelayType
<1>i. \A i \in Ids : i \in Nat BY DEF Ids
<1>. SUFFICES ASSUME NEW w \in Workers, rpc'[w] = "pend"
              PROVE  /\ floor'[w] <= Len(log')
                     /\ \A g \in made' \cap Groups :
                        /\ floor'[w] <= last'[g]
                        /\ g \notin todo'[w] =>
                              \A i \in Ids : tries'[g][i] > 0 => floor'[w] <= i
  BY DEF FloorsAreSafe, pending
<1>1. CASE rpc[w] = "pend" /\ floor'[w] = floor[w] /\ todo'[w] = todo[w]
  <2>1. /\ floor[w] <= Len(log)
        /\ \A g \in made \cap Groups :
            /\ floor[w] <= last[g]
            /\ g \notin todo[w] => \A i \in Ids : tries[g][i] > 0 => floor[w] <= i
    BY <1>1 DEF FloorsAreSafe, pending
  <2>2. ASSUME NEW g \in made' \cap Groups, g \in made
        PROVE  /\ floor[w] <= last'[g]
               /\ g \notin todo[w] => \A i \in Ids : tries'[g][i] > 0 => floor[w] <= i
    <3>1. floor[w] <= last'[g] BY <1>0, <2>1, <2>2
    <3>2. ASSUME g \notin todo[w], NEW i \in Ids, tries'[g][i] > 0 PROVE floor[w] <= i
      <4>1. CASE tries[g][i] > 0 BY <2>1, <2>2, <3>2, <4>1
      <4>2. CASE ~(tries[g][i] > 0)
        <5>1. last[g] < i BY <1>0, <2>2, <3>2, <4>2, NewlyPending
        <5>. QED BY <1>0, <1>i, <2>1, <2>2, <5>1
      <4>. QED BY <4>1, <4>2
    <3>. QED BY <3>1, <3>2
  <2>3. ASSUME NEW g \in made' \cap Groups, g \notin made
        PROVE  floor[w] <= last'[g] /\ \A i \in Ids : ~(tries'[g][i] > 0)
    <3>1. last'[g] = Len(log) /\ tries' = tries BY <2>3, NewlyMade
    <3>2. \A i \in Ids : tries[g][i] = 0 BY <1>0, <2>3 DEF MadeBeforeRead
    <3>. QED BY <2>1, <3>1, <3>2
  <2>. QED BY <1>0, <1>1, <2>1, <2>2, <2>3
<1>2. CASE TrimInfo(w)
  <2>1. PICK slowest \in made \cap Groups :
            /\ \A g \in made \cap Groups : last[slowest] <= last[g]
            /\ floor' = [floor EXCEPT ![w] = last[slowest]]
            /\ todo' = [todo EXCEPT ![w] = {g \in made \cap Groups : pending(g) # {}}]
    BY <1>2 DEF TrimInfo, TypeInv, TypeOK, RelayType
  <2>2. UNCHANGED <<made, last, tries, log>> BY <1>2 DEF TrimInfo, groupVars, streamVars
  <2>3. floor'[w] = last[slowest] /\ todo'[w] = {g \in made \cap Groups : pending(g) # {}}
    BY <2>1 DEF TypeInv, TypeOK, RelayType
  <2>4. last[slowest] <= Len(log) BY <1>0 DEF TypeInv, GroupsInOrder
  <2>5. ASSUME NEW g \in made \cap Groups, g \notin todo'[w] PROVE \A i \in Ids : ~(tries[g][i] > 0)
    BY <2>3, <2>5 DEF pending
  <2>. QED BY <2>1, <2>2, <2>3, <2>4, <2>5
<1>3. ASSUME NEW h \in Groups, TrimPending(w, h)
      PROVE  /\ floor'[w] <= Len(log')
             /\ \A g \in made' \cap Groups :
                /\ floor'[w] <= last'[g]
                /\ g \notin todo'[w] => \A i \in Ids : tries'[g][i] > 0 => floor'[w] <= i
  <2>1. /\ UNCHANGED <<made, last, tries, log>> /\ rpc[w] = "pend"
        /\ todo'[w] = todo[w] \ {h}
    BY <1>3 DEF TrimPending, groupVars, streamVars, TypeInv, TypeOK, RelayType
  <2>2. /\ floor'[w] <= floor[w]
        /\ \A i \in Ids : tries[h][i] > 0 => floor'[w] <= i
    <3>1. CASE pending(h) = {} /\ UNCHANGED floor BY <1>0, <3>1 DEF pending
    <3>2. ASSUME NEW oldest \in pending(h), \A i \in pending(h) : oldest <= i,
                 floor' = [floor EXCEPT ![w] = smaller(floor[w], oldest)]
          PROVE  /\ floor'[w] <= floor[w]
                 /\ \A i \in Ids : tries[h][i] > 0 => floor'[w] <= i
      <4>1. oldest \in Nat /\ \A i \in Ids : tries[h][i] > 0 => oldest <= i
        BY <1>i, <3>2 DEF pending
      <4>2. floor'[w] = smaller(floor[w], oldest) BY <3>2 DEF TypeInv, TypeOK, RelayType
      <4>. QED BY <1>0, <1>i, <4>1, <4>2 DEF smaller
    <3>. QED BY <1>3, <3>1, <3>2 DEF TrimPending, TypeInv, TypeOK, RelayType
  <2>3. /\ floor[w] <= Len(log)
        /\ \A g \in made \cap Groups :
            /\ floor[w] <= last[g]
            /\ g \notin todo[w] => \A i \in Ids : tries[g][i] > 0 => floor[w] <= i
    BY <2>1 DEF FloorsAreSafe, pending
  <2>. QED BY <1>0, <1>i, <2>1, <2>2, <2>3
<1>. QED BY <1>1, <1>2, <1>3, PendCases

(* The trim keeps what every group needs: XTRIM cuts at a safe floor, and
   nothing else removes entries. *)
LEMMA NothingNeededIsTrimmedStep ==
    ASSUME TypeInv, TypeInv', MadeBeforeRead, FloorsAreSafe, NeverBlind,
           NothingNeededIsTrimmed, [Next]_vars
    PROVE  NothingNeededIsTrimmed'
<1>0. /\ Len(log) \in Nat /\ first \in Nat /\ first' \in Nat
      /\ \A g \in AllGroups : /\ last[g] \in Nat /\ last'[g] \in Nat
                              /\ last[g] <= last'[g] /\ last[g] <= Len(log)
      /\ \A w \in Workers : floor[w] \in Nat
      /\ made \subseteq AllGroups /\ made' \subseteq AllGroups
  BY LastGrows DEF TypeInv, TypeOK, OutboxType, GroupType, RelayType, GroupsInOrder
<1>i. \A i \in Ids : i \in Nat BY DEF Ids
<1>n. \A g \in made \cap Groups :
        first <= last[g] + 1 /\ \A i \in Ids : tries[g][i] > 0 => first <= i
  BY DEF NothingNeededIsTrimmed, pending
<1>f. first <= Len(log) + 1
  <2>1. PICK g \in made \cap Groups : TRUE BY DEF NeverBlind
  <2>. QED BY <1>0, <1>n, <2>1
<1>1. CASE UNCHANGED first
  <2>1. ASSUME NEW g \in made' \cap Groups, g \in made
        PROVE  first <= last'[g] + 1 /\ \A i \in Ids : tries'[g][i] > 0 => first <= i
    <3>1. first <= last'[g] + 1 BY <1>0, <1>n, <2>1
    <3>2. ASSUME NEW i \in Ids, tries'[g][i] > 0 PROVE first <= i
      <4>1. CASE tries[g][i] > 0 BY <1>n, <2>1, <4>1
      <4>2. CASE ~(tries[g][i] > 0) BY <1>0, <2>1, <3>2, <4>2, NewlyPending
      <4>. QED BY <4>1, <4>2
    <3>. QED BY <3>1, <3>2
  <2>2. ASSUME NEW g \in made' \cap Groups, g \notin made
        PROVE  first <= last'[g] + 1 /\ \A i \in Ids : ~(tries'[g][i] > 0)
    <3>1. last'[g] = Len(log) /\ tries' = tries BY <2>2, NewlyMade
    <3>2. \A i \in Ids : tries[g][i] = 0 BY <1>0, <2>2 DEF MadeBeforeRead
    <3>. QED BY <1>f, <3>1, <3>2
  <2>. QED BY <1>1, <2>1, <2>2 DEF NothingNeededIsTrimmed, pending
<1>2. ASSUME NEW w \in Workers, TrimMinID(w) PROVE NothingNeededIsTrimmed'
  <2>1. /\ rpc[w] = "pend" /\ todo[w] = {}
        /\ UNCHANGED <<made, last, tries>>
        /\ first' = larger(first, smaller(floor[w], Len(log) + 1))
    BY <1>2 DEF TrimMinID, groupVars
  <2>2. first' = first \/ first' <= floor[w]
    BY <1>0, <2>1 DEF larger, smaller
  <2>3. \A g \in made \cap Groups :
          floor[w] <= last[g] /\ \A i \in Ids : tries[g][i] > 0 => floor[w] <= i
    BY <2>1 DEF FloorsAreSafe, pending
  <2>4. \A g \in made \cap Groups :
          first' <= last[g] + 1 /\ \A i \in Ids : tries[g][i] > 0 => first' <= i
    BY <1>0, <1>i, <1>n, <2>2, <2>3
  <2>. QED BY <2>1, <2>4 DEF NothingNeededIsTrimmed, pending
<1>3. ASSUME NEW w \in Workers, RelayStep(w), ~TrimMinID(w) PROVE UNCHANGED first
  BY <1>3 DEF RelayStep, TrimInfo, TrimMaxLen, Measure, TrimPending, ClaimRows, ClaimNothing,
       CommitPass, publish, streamVars, NeverBlind
<1>4. ASSUME NEW w \in Workers, FaultStep(w) \/ Start(w) \/ Exit(w) PROVE UNCHANGED first
  BY <1>4 DEF FaultStep, TrimFails, RollBackPass, Stop, Crash, GoDown, PublishFails,
       ConsumerCallFails, Start, Exit, streamVars
<1>5. ASSUME NEW w \in Workers, NEW h \in Running,
             Join(w, h) \/ Read(w, h) \/ claim(w, h) \/ OneStep(w, h)
      PROVE  UNCHANGED first
  BY <1>5 DEF Join, Read, claim, OneStep, Handle, deliveries, deadLetter, ack, streamVars
<1>6. ASSUME NEW e \in Events, Emit(e) PROVE UNCHANGED first BY <1>6 DEF Emit, streamVars
<1>7. CASE UNCHANGED vars BY <1>1, <1>7 DEF vars, streamVars
<1>. QED BY <1>1, <1>2, <1>3, <1>4, <1>5, <1>6, <1>7 DEF Next

(* A settled entry stays settled: outcomes only accumulate. *)
LEMMA SettledStable ==
    ASSUME TypeInv, TypeInv', [Next]_vars, NEW g \in AllGroups, NEW i \in 1..Len(log), Settled(g, i)
    PROVE  Settled(g, i)'
<1>1. log'[i] = log[i] BY LogGrows DEF TypeInv, TypeOK
<1>2. handled[g] \subseteq handled'[g] /\ recorded[g] \subseteq recorded'[g]
  <2>. USE DEF TypeInv, TypeOK, OutcomeType
  <2>1. CASE UNCHANGED outcomeVars BY <2>1 DEF outcomeVars
  <2>2. ASSUME NEW w \in Workers, NEW h \in Running, Handle(w, h) \/ deadLetter(w, h)
        PROVE  handled[g] \subseteq handled'[g] /\ recorded[g] \subseteq recorded'[g]
    BY <2>2 DEF Handle, deadLetter
  <2>3. ASSUME NEW w \in Workers, NEW h \in Running,
               Join(w, h) \/ Read(w, h) \/ claim(w, h) \/ deliveries(w, h) \/ ack(w, h)
        PROVE  UNCHANGED outcomeVars
    BY <2>3 DEF Join, Read, claim, deliveries, ack
  <2>4. ASSUME NEW w \in Workers, RelayStep(w) \/ FaultStep(w) \/ Start(w) \/ Exit(w)
        PROVE  UNCHANGED outcomeVars
    BY <2>4 DEF RelayStep, TrimInfo, TrimMinID, TrimMaxLen, Measure, TrimPending, ClaimRows,
         ClaimNothing, CommitPass, publish, FaultStep, TrimFails, RollBackPass, Stop, Crash,
         GoDown, PublishFails, ConsumerCallFails, Start, Exit
  <2>5. ASSUME NEW e \in Events, Emit(e) PROVE UNCHANGED outcomeVars BY <2>5 DEF Emit
  <2>6. CASE UNCHANGED vars BY <2>1, <2>6 DEF vars
  <2>. QED BY <2>1, <2>2, <2>3, <2>4, <2>5, <2>6 DEF Next, OneStep
<1>. QED BY <1>1, <1>2 DEF Settled


(* A consumer reaches for the acknowledgement only with a settled entry. *)
LEMMA SettledBeforeAckStep ==
    ASSUME TypeInv, TypeInv', SettledBeforeAck, [Next]_vars
    PROVE  SettledBeforeAck'
<1>. USE DEF TypeInv, TypeOK
<1>. SUFFICES ASSUME NEW w \in Workers, NEW g \in Running, stage'[w][g] = "settled"
              PROVE  log'[cur'[w][g]] \in handled'[g] \cup recorded'[g]
  BY DEF SettledBeforeAck, Settled
<1>0. g \in AllGroups BY DEF AllGroups
<1>1. CASE stage[w][g] = "settled" /\ cur'[w][g] = cur[w][g]
  <2>1. cur[w][g] \in Ids /\ cur[w][g] <= last[g] BY <1>1 DEF HandsInOrder
  <2>2. last[g] <= Len(log) /\ last[g] \in Nat /\ Len(log) \in Nat
    BY <1>0 DEF GroupsInOrder, GroupType, OutboxType
  <2>3. PICK c \in 1..Len(log) : c = cur[w][g] BY <2>1, <2>2 DEF Ids
  <2>4. Settled(g, c) BY <1>1, <2>3 DEF SettledBeforeAck
  <2>5. Settled(g, c)' BY <1>0, <2>4, SettledStable
  <2>. QED BY <1>1, <2>3, <2>5 DEF Settled
<1>2. ASSUME NEW v \in Workers, NEW h \in Running, Handle(v, h)
      PROVE  \/ log'[cur'[w][g]] \in handled'[g] \cup recorded'[g]
             \/ stage[w][g] = "settled" /\ cur'[w][g] = cur[w][g]
  <2>1. CASE v = w /\ h = g
    <3>1. UNCHANGED log BY <1>2 DEF Handle, streamVars
    <3>2. PICK i \in hand[w][g] :
            /\ cur' = [cur EXCEPT ![w][g] = i]
            /\ \/ handled' = [handled EXCEPT ![g] = @ \cup {log[i]}]
               \/ \E s \in {"failed", "permanent"} : stage' = [stage EXCEPT ![w][g] = s]
      BY <1>2, <2>1 DEF Handle
    <3>3. cur'[w][g] = i BY <3>2 DEF ConsumerType
    <3>4. handled' = [handled EXCEPT ![g] = @ \cup {log[i]}] BY <3>2 DEF ConsumerType
    <3>. QED BY <1>0, <3>1, <3>3, <3>4 DEF OutcomeType
  <2>2. CASE v # w \/ h # g BY <1>2, <2>2 DEF Handle, ConsumerType
  <2>. QED BY <2>1, <2>2
<1>3. ASSUME NEW v \in Workers, NEW h \in Running, deadLetter(v, h)
      PROVE  \/ log'[cur'[w][g]] \in handled'[g] \cup recorded'[g]
             \/ stage[w][g] = "settled" /\ cur'[w][g] = cur[w][g]
  <2>1. CASE v = w /\ h = g
    BY <1>0, <1>3, <2>1 DEF deadLetter, OutcomeType, streamVars
  <2>2. CASE v # w \/ h # g BY <1>3, <2>2 DEF deadLetter, ConsumerType
  <2>. QED BY <2>1, <2>2
<1>4. ASSUME NEW v \in Workers, NEW h \in Running,
             Join(v, h) \/ Read(v, h) \/ claim(v, h) \/ deliveries(v, h) \/ ack(v, h)
      PROVE  stage[w][g] = "settled" /\ cur'[w][g] = cur[w][g]
  BY <1>4 DEF Join, Read, claim, deliveries, ack, LetGo, handVars, ConsumerType
<1>5. ASSUME NEW v \in Workers, RelayStep(v) \/ Start(v)
      PROVE  stage[w][g] = "settled" /\ cur'[w][g] = cur[w][g]
  BY <1>5 DEF RelayStep, TrimInfo, TrimMinID, TrimMaxLen, Measure, TrimPending, ClaimRows,
       ClaimNothing, CommitPass, publish, Start, handVars
<1>6. ASSUME NEW v \in Workers, FaultStep(v) \/ Exit(v)
      PROVE  stage[w][g] = "settled" /\ cur'[w][g] = cur[w][g]
  BY <1>6 DEF FaultStep, TrimFails, RollBackPass, Stop, Crash, GoDown, PublishFails,
       ConsumerCallFails, LetGo, Exit, handVars, ConsumerType
<1>7. ASSUME NEW e \in Events, Emit(e)
      PROVE  stage[w][g] = "settled" /\ cur'[w][g] = cur[w][g]
  BY <1>7 DEF Emit, handVars
<1>8. CASE UNCHANGED vars BY <1>1, <1>8 DEF vars, handVars
<1>. QED BY <1>1, <1>2, <1>3, <1>4, <1>5, <1>6, <1>7, <1>8 DEF Next, OneStep

(* Only the acknowledgement of a settled entry ends its being pending. *)
LEMMA PendingEnds ==
    ASSUME TypeInv, SettledBeforeAck, NothingNeededIsTrimmed, [Next]_vars,
           NEW g \in made \cap Groups, NEW i \in Ids, tries[g][i] > 0, ~(tries'[g][i] > 0)
    PROVE  Settled(g, i)
<1>. USE DEF TypeInv, TypeOK
<1>0. g \in AllGroups /\ first <= i /\ first \in Nat /\ i \in Nat
  BY DEF AllGroups, NothingNeededIsTrimmed, pending, OutboxType, Ids
<1>1. ASSUME UNCHANGED tries PROVE FALSE BY <1>1
<1>2. ASSUME NEW w \in Workers, NEW h \in Running, Read(w, h) PROVE FALSE
  <2>1. h \in AllGroups BY DEF AllGroups
  <2>. QED BY <1>0, <1>2, <2>1 DEF Read, GroupType
<1>3. ASSUME NEW w \in Workers, NEW h \in Running, claim(w, h) PROVE FALSE
  <2>0. h \in AllGroups BY DEF AllGroups
  <2>1. PICK abandoned \in SUBSET pending(h) :
            tries' = [tries EXCEPT ![h] = [j \in Ids |->
              IF j \notin abandoned THEN tries[h][j]
              ELSE IF j < first THEN 0
              ELSE smaller(tries[h][j] + 1, MaxDeliveries)]]
    BY <1>3, <2>0 DEF claim
  <2>2. g = h /\ tries'[g][i] = smaller(tries[g][i] + 1, MaxDeliveries)
    BY <1>0, <2>0, <2>1 DEF GroupType
  <2>3. tries[g][i] \in Nat BY <1>0 DEF GroupType
  <2>. QED BY <2>2, <2>3, BoundsAssumption DEF smaller
<1>4. ASSUME NEW w \in Workers, NEW h \in Running, ack(w, h) PROVE Settled(g, i)
  <2>0. h \in AllGroups BY DEF AllGroups
  <2>1. tries' = [tries EXCEPT ![h][cur[w][h]] = 0] /\ stage[w][h] = "settled"
    BY <1>4 DEF ack, InHand
  <2>2. g = h /\ i = cur[w][h] BY <1>0, <2>0, <2>1 DEF GroupType
  <2>. QED BY <2>1, <2>2 DEF SettledBeforeAck
<1>5. ASSUME NEW w \in Workers, NEW h \in Running,
             Join(w, h) \/ Handle(w, h) \/ deliveries(w, h) \/ deadLetter(w, h)
      PROVE  UNCHANGED tries
  BY <1>5 DEF Join, Handle, deliveries, deadLetter, groupVars
<1>6. ASSUME NEW w \in Workers, RelayStep(w) \/ FaultStep(w) \/ Start(w) \/ Exit(w)
      PROVE  UNCHANGED tries
  BY <1>6 DEF RelayStep, TrimInfo, TrimMinID, TrimMaxLen, Measure, TrimPending, ClaimRows,
       ClaimNothing, CommitPass, publish, FaultStep, TrimFails, RollBackPass, Stop, Crash,
       GoDown, PublishFails, ConsumerCallFails, Start, Exit, groupVars
<1>7. ASSUME NEW e \in Events, Emit(e) PROVE UNCHANGED tries BY <1>7 DEF Emit, groupVars
<1>8. CASE UNCHANGED vars BY <1>1, <1>8 DEF vars, groupVars
<1>. QED BY <1>1, <1>2, <1>3, <1>4, <1>5, <1>6, <1>7, <1>8 DEF Next, OneStep

(* The position of a group that exists moves only by a read, which makes all
   it passes pending; where the group was made never changes. *)
LEMMA PassedIsPending ==
    ASSUME TypeInv, NothingNeededIsTrimmed, [Next]_vars, NEW g \in made \cap Groups
    PROVE  /\ start'[g] = start[g]
           /\ \A i \in Ids : last[g] < i /\ i <= last'[g] => tries'[g][i] > 0
<1>. USE DEF TypeInv, TypeOK
<1>0. g \in AllGroups /\ last[g] \in Nat /\ \A i \in Ids : i \in Nat
  BY DEF AllGroups, GroupType, Ids
<1>1. ASSUME start' = start, last' = last
      PROVE  /\ start'[g] = start[g]
             /\ \A i \in Ids : last[g] < i /\ i <= last'[g] => tries'[g][i] > 0
  BY <1>0, <1>1
<1>2. ASSUME NEW w \in Workers, NEW h \in Running, Join(w, h)
      PROVE  /\ start'[g] = start[g] /\ last'[g] = last[g]
  BY <1>0, <1>2 DEF Join, groupVars, GroupType
<1>3. ASSUME NEW w \in Workers, NEW h \in Running, Read(w, h)
      PROVE  /\ start'[g] = start[g]
             /\ \A i \in Ids : last[g] < i /\ i <= last'[g] => tries'[g][i] > 0
  <2>0. h \in AllGroups BY DEF AllGroups
  <2>1. CASE h # g BY <1>0, <1>3, <2>0, <2>1 DEF Read, GroupType
  <2>2. CASE h = g
    <3>. DEFINE end == smaller(Len(log), larger(first - 1, last[g]) + ReadSize)
    <3>1. /\ start' = start /\ last'[g] = end
          /\ \A i \in Fresh(g) \cap Ids : tries'[g][i] = 1
      BY <1>0, <1>3, <2>2 DEF Read, GroupType
    <3>2. first <= last[g] + 1 BY DEF NothingNeededIsTrimmed
    <3>3. \A i \in Ids : last[g] < i /\ i <= end => i \in Fresh(g)
      BY <1>0, <3>2, FreshBounds
    <3>. HIDE DEF end
    <3>. QED BY <3>1, <3>3
  <2>. QED BY <2>1, <2>2
<1>4. ASSUME NEW w \in Workers, NEW h \in Running, claim(w, h) \/ OneStep(w, h)
      PROVE  start' = start /\ last' = last
  BY <1>4 DEF claim, OneStep, Handle, deliveries, deadLetter, ack, groupVars
<1>5. ASSUME NEW w \in Workers, RelayStep(w) \/ FaultStep(w) \/ Start(w) \/ Exit(w)
      PROVE  start' = start /\ last' = last
  BY <1>5 DEF RelayStep, TrimInfo, TrimMinID, TrimMaxLen, Measure, TrimPending, ClaimRows,
       ClaimNothing, CommitPass, publish, FaultStep, TrimFails, RollBackPass, Stop, Crash,
       GoDown, PublishFails, ConsumerCallFails, Start, Exit, groupVars
<1>6. ASSUME NEW e \in Events, Emit(e) PROVE start' = start /\ last' = last
  BY <1>6 DEF Emit, groupVars
<1>7. CASE UNCHANGED vars BY <1>1, <1>7 DEF vars, groupVars
<1>. QED BY <1>0, <1>1, <1>2, <1>3, <1>4, <1>5, <1>6, <1>7 DEF Next

(* What a group was handed stays pending until it is settled. *)
LEMMA HandedIsAccountedStep ==
    ASSUME TypeInv, TypeInv', SettledBeforeAck, NothingNeededIsTrimmed, HandedIsAccounted,
           [Next]_vars
    PROVE  HandedIsAccounted'
<1>. USE DEF TypeInv, TypeOK
<1>. SUFFICES ASSUME NEW g \in made' \cap Groups, NEW i \in Ids,
                     start'[g] < i, i <= last'[g], ~(tries'[g][i] > 0)
              PROVE  Settled(g, i)'
  BY DEF HandedIsAccounted, Settled
<1>0. /\ g \in AllGroups /\ last[g] \in Nat /\ last[g] <= Len(log) /\ Len(log) \in Nat /\ i \in Nat
  BY DEF AllGroups, GroupType, GroupsInOrder, OutboxType, Ids
<1>1. CASE g \notin made
  <2>1. last'[g] = Len(log) /\ start'[g] = Len(log) BY <1>1, NewlyMade
  <2>. QED BY <1>0, <2>1
<1>2. CASE g \in made
  <2>1. start'[g] = start[g] /\ i <= last[g] BY <1>0, <1>2, PassedIsPending
  <2>2. i \in 1..Len(log) BY <1>0, <2>1 DEF Ids
  <2>3. tries[g][i] > 0 \/ Settled(g, i) BY <1>2, <2>1 DEF HandedIsAccounted
  <2>4. Settled(g, i) BY <1>2, <2>3, PendingEnds
  <2>. QED BY <1>0, <2>2, <2>4, SettledStable
<1>. QED BY <1>1, <1>2

-----------------------------------------------------------------------------
(* The invariant holds initially wherever the relay has a group to wait for. *)
LEMMA IInvInit ==
    ASSUME Made \cap Groups # {}, Init
    PROVE  IInv
<1>1. TypeInv BY TypeInvInit
<1>2. SettledBeforeAck BY DEF Init, SettledBeforeAck
<1>3. FloorsAreSafe BY DEF Init, FloorsAreSafe
<1>4. NeverBlind BY DEF Init, NeverBlind
<1>5. MadeBeforeRead BY DEF Init, MadeBeforeRead
<1>6. NothingNeededIsTrimmed BY DEF Init, NothingNeededIsTrimmed, pending, AllGroups
<1>7. HandedIsAccounted BY DEF Init, HandedIsAccounted, AllGroups, Ids
<1>. QED BY <1>1, <1>2, <1>3, <1>4, <1>5, <1>6, <1>7 DEF IInv, TypeInv

LEMMA IInvStep == IInv /\ [Next]_vars => IInv'
<1>. SUFFICES ASSUME IInv, [Next]_vars PROVE IInv' OBVIOUS
<1>0. TypeInv BY DEF IInv, TypeInv
<1>1. TypeInv' BY <1>0, TypeInvStep
<1>2. SettledBeforeAck' BY <1>0, <1>1, SettledBeforeAckStep DEF IInv
<1>3. FloorsAreSafe' BY <1>0, <1>1, FloorsAreSafeStep DEF IInv
<1>4. NeverBlind' BY NeverBlindStep DEF IInv, TypeOK
<1>5. MadeBeforeRead' BY <1>0, MadeBeforeReadStep DEF IInv
<1>6. NothingNeededIsTrimmed' BY <1>0, <1>1, NothingNeededIsTrimmedStep DEF IInv
<1>7. HandedIsAccounted' BY <1>0, <1>1, HandedIsAccountedStep DEF IInv
<1>. QED BY <1>1, <1>2, <1>3, <1>4, <1>5, <1>6, <1>7 DEF IInv, TypeInv

(* The whole of a group's stream is accounted for: behind its position by the
   pending list and the outcomes, ahead of it by what the trim keeps. *)
LEMMA IInvNothingIsLost == IInv => NothingIsLost
<1>. SUFFICES ASSUME IInv, NEW g \in made \cap Groups, NEW i \in (start[g] + 1)..Len(log),
                     ~Settled(g, i)
              PROVE  i >= first /\ (i \in pending(g) \/ i > last[g])
  BY DEF NothingIsLost
<1>0. /\ g \in AllGroups /\ start[g] \in Nat /\ last[g] \in Nat /\ first \in Nat
      /\ Len(log) \in Nat /\ Len(log) <= MaxEntries
  BY DEF IInv, TypeOK, GroupType, OutboxType, AllGroups
<1>1. i \in Ids /\ start[g] < i BY <1>0, BoundsAssumption DEF Ids
<1>2. first <= last[g] + 1 /\ \A j \in pending(g) : first <= j
  BY DEF IInv, NothingNeededIsTrimmed
<1>3. CASE i <= last[g]
  <2>1. i \in pending(g) BY <1>1, <1>3 DEF IInv, HandedIsAccounted, pending
  <2>. QED BY <1>0, <1>1, <1>2, <2>1 DEF Ids
<1>4. CASE i > last[g] BY <1>0, <1>1, <1>2, <1>4 DEF Ids
<1>. QED BY <1>0, <1>1, <1>3, <1>4 DEF Ids

(* No relay ever trims an entry that a group it waits for has pending or has
   yet to be handed, although it reads the groups' state in several calls:
   for any number of workers and groups, on a stream that has one group. *)
THEOREM TrimIsSafe ==
    ASSUME Made \cap Groups # {}
    PROVE  Spec => []NothingNeededIsTrimmed
<1>1. Init => IInv BY IInvInit
<1>2. IInv => NothingNeededIsTrimmed BY DEF IInv
<1>. QED BY <1>1, <1>2, IInvStep, PTL DEF Spec

(* No group ever loses an entry: it is settled, or pending, or still ahead. *)
THEOREM NoEntryIsLost ==
    ASSUME Made \cap Groups # {}
    PROVE  Spec => []NothingIsLost
<1>1. Init => IInv BY IInvInit
<1>. QED BY <1>1, IInvStep, IInvNothingIsLost, PTL DEF Spec

(* No step ends an entry's being pending unless it is settled: a crash, a lost
   acknowledgement or a failed record leaves it to be claimed again. *)
THEOREM RetriedUntilSettled ==
    ASSUME Made \cap Groups # {}
    PROVE  Spec => PendingUntilSettled
<1>1. Init => IInv BY IInvInit
<1>2. ASSUME IInv, [Next]_vars
      PROVE  [\A g \in Groups \cap made : \A i \in Ids :
                tries[g][i] > 0 /\ tries'[g][i] = 0 => Settled(g, i)]_vars
  <2>1. TypeInv BY <1>2 DEF IInv, TypeInv
  <2>2. ASSUME NEW g \in Groups \cap made, NEW i \in Ids, tries[g][i] > 0, tries'[g][i] = 0
        PROVE  Settled(g, i)
    BY <1>2, <2>1, <2>2, PendingEnds DEF IInv
  <2>. QED BY <2>2
<1>. QED BY <1>1, <1>2, IInvStep, PTL DEF Spec, PendingUntilSettled

-----------------------------------------------------------------------------
(* What is marked published is on the stream.                               *)

(* A row joins sent by its own XADD only, and is marked only from sent. *)
LEMMA NewlySent ==
    ASSUME TypeOK, [Next]_vars, NEW w \in Workers, NEW e \in sent'[w], e \notin sent[w]
    PROVE  e \in Events /\ publish(w, e)
<1>. USE DEF TypeOK, RelayType
<1>1. CASE UNCHANGED sent BY <1>1
<1>2. ASSUME NEW v \in Workers, ForgetPass(v) PROVE FALSE BY <1>2 DEF ForgetPass
<1>3. ASSUME NEW v \in Workers, NEW f \in Events, publish(v, f) PROVE v = w /\ f = e
  BY <1>3 DEF publish
<1>4. \/ UNCHANGED sent
      \/ \E v \in Workers : ForgetPass(v) \/ \E f \in Events : publish(v, f)
  BY SMTT(30) DEF Next, vars, relayVars, Emit, RelayStep, TrimInfo, TrimMinID, TrimMaxLen, Measure,
       TrimPending, ClaimRows, ClaimNothing, CommitPass, FaultStep, TrimFails,
       RollBackPass, Stop, Crash, GoDown, PublishFails, ConsumerCallFails, Start, Exit,
       Join, Read, claim, OneStep, Handle, deliveries, deadLetter, ack
<1>. QED BY <1>1, <1>2, <1>3, <1>4

LEMMA NewlyMarked ==
    ASSUME TypeOK, [Next]_vars, NEW e \in Events, outbox'[e] # outbox[e]
    PROVE  Emit(e) \/ \E w \in Workers : CommitPass(w) /\ e \in sent[w] /\ outbox'[e] = "published"
<1>. USE DEF TypeOK, OutboxType
<1>1. ASSUME NEW f \in Events, Emit(f) PROVE f = e
  BY <1>1 DEF Emit
<1>2. ASSUME NEW w \in Workers, CommitPass(w) PROVE e \in sent[w] /\ outbox'[e] = "published"
  BY <1>2 DEF CommitPass
<1>3. \/ UNCHANGED outbox
      \/ \E f \in Events : Emit(f)
      \/ \E w \in Workers : CommitPass(w)
  BY SMTT(30) DEF Next, vars, RelayStep, TrimInfo, TrimMinID, TrimMaxLen, Measure,
       TrimPending, ClaimRows, ClaimNothing, publish, FaultStep, TrimFails,
       RollBackPass, Stop, Crash, GoDown, PublishFails, ConsumerCallFails, Start, Exit,
       Join, Read, claim, OneStep, Handle, deliveries, deadLetter, ack
<1>. QED BY <1>1, <1>2, <1>3

LEMMA OnTheStreamStep ==
    ASSUME TypeOK, SentIsOnTheStream, PublishedIsOnTheStream, [Next]_vars
    PROVE  SentIsOnTheStream' /\ PublishedIsOnTheStream'
<1>. DEFINE On(e) == \E i \in 1..Len(log) : log[i] = e
<1>0. Len(log) \in Nat /\ Len(log') \in Nat /\ Len(log) <= Len(log')
      /\ \A i \in 1..Len(log) : log'[i] = log[i]
  <2>1. [Next]_vars /\ OutboxType' BY OutboxTypeStep DEF TypeOK
  <2>. QED BY <2>1, LogGrows DEF TypeOK, OutboxType
<1>1. ASSUME NEW e, On(e) PROVE On(e)' BY <1>0, <1>1
<1>2. ASSUME NEW w \in Workers, NEW e \in sent'[w] PROVE On(e)'
  <2>1. CASE e \in sent[w]
    <3>1. On(e) BY <2>1 DEF SentIsOnTheStream
    <3>. QED BY <3>1, <1>1
  <2>2. CASE e \notin sent[w]
    <3>1. e \in Events /\ log' = Append(log, e) BY <2>2, NewlySent DEF publish
    <3>2. Len(log') = Len(log) + 1 /\ log'[Len(log) + 1] = e BY <3>1 DEF TypeOK, OutboxType
    <3>. QED BY <1>0, <3>2
  <2>. QED BY <2>1, <2>2
<1>3. ASSUME NEW e \in Events, outbox'[e] = "published" PROVE On(e)'
  <2>1. CASE outbox[e] = "published"
    <3>1. On(e) BY <2>1 DEF PublishedIsOnTheStream
    <3>. QED BY <3>1, <1>1
  <2>2. CASE outbox[e] # "published"
    <3>1. ~Emit(e) BY <1>3, <2>2 DEF Emit, TypeOK, OutboxType
    <3>2. PICK w \in Workers : e \in sent[w] BY <1>3, <2>2, <3>1, NewlyMarked
    <3>3. On(e) BY <3>2 DEF SentIsOnTheStream
    <3>. QED BY <3>3, <1>1
  <2>. QED BY <2>1, <2>2
<1>. QED BY <1>2, <1>3 DEF SentIsOnTheStream, PublishedIsOnTheStream

(* A row is marked published only when its entry is on the stream, whichever
   call of a pass fails and wherever its process dies. *)
THEOREM MarkedIsPublished == Spec => []PublishedIsOnTheStream
<1>. DEFINE Inv == TypeInv /\ SentIsOnTheStream /\ PublishedIsOnTheStream
<1>1. Init => Inv
  <2>1. Init => SentIsOnTheStream /\ PublishedIsOnTheStream
    BY DEF Init, SentIsOnTheStream, PublishedIsOnTheStream
  <2>. QED BY <2>1, TypeInvInit
<1>2. Inv /\ [Next]_vars => Inv'
  BY TypeInvStep, OnTheStreamStep DEF TypeInv
<1>3. Inv => PublishedIsOnTheStream OBVIOUS
<1>. QED BY <1>1, <1>2, <1>3, PTL DEF Spec
-----------------------------------------------------------------------------
(***************************************************************************)
(* The cap on the stream.  Owed has one element for each entry a pass may  *)
(* still add: an XADD takes one off it, a measurement replaces a relay's   *)
(* share by what the cap leaves, and only a failed trim adds to it beyond  *)
(* the cap, at the price of a fault.                                       *)
(***************************************************************************)
Slack == Batch * ((Cardinality(Workers) - 1) + (MaxFaults - faults))
SentIsFinite == \A w \in Workers : IsFiniteSet(sent[w])
CapInv == TypeOK /\ NeverBlind /\ SentIsFinite /\ CapCoversOwed

LEMMA SlackFacts ==
    ASSUME faults \in 0..MaxFaults
    PROVE  /\ Slack \in Nat /\ Batch * (Cardinality(Workers) - 1) <= Slack
           /\ faults' = faults => Slack' = Slack
           /\ faults' = faults - 1 => Slack' = Slack + Batch
<1>. DEFINE n == Cardinality(Workers) - 1
            k == MaxFaults - faults
<1>1. Cardinality(Workers) \in Nat /\ Cardinality(Workers) # 0
  BY WorkersAssumption, FS_CardinalityType, FS_EmptySet
<1>2. n \in Nat /\ k \in Nat /\ Batch \in Nat BY <1>1, BoundsAssumption
<1>3. \A b, x, y \in Nat : b * (x + y) \in Nat /\ b * x <= b * (x + y)
  <2>1. \A b, x, y \in Nat : b * (x + y) = b * x + b * y /\ b * x \in Nat /\ b * y \in Nat OBVIOUS
  <2>. QED BY <2>1
<1>4. \A b, x, y \in Nat : b * (x + (y + 1)) = b * (x + y) + b OBVIOUS
<1>5. Slack = Batch * (n + k) BY DEF Slack
<1>6. faults' = faults - 1 => Slack' = Batch * (n + (k + 1))
  <2>1. faults' = faults - 1 => MaxFaults - faults' = k + 1 BY BoundsAssumption
  <2>. QED BY <2>1 DEF Slack
<1>7. faults' = faults => Slack' = Slack BY DEF Slack
<1>. HIDE DEF n, k
<1>8. Slack \in Nat /\ Batch * n <= Slack BY <1>2, <1>3, <1>5
<1>9. faults' = faults - 1 => Slack' = Slack + Batch BY <1>2, <1>4, <1>5, <1>6
<1>. QED BY <1>7, <1>8, <1>9 DEF n

(* There are finitely many entries owed, of one relay or of all. *)
LEMMA OwedIsFinite == IsFiniteSet(Owed) /\ Cardinality(Owed) \in Nat
<1>1. IsFiniteSet(1..Batch) BY FS_Interval, BoundsAssumption
<1>2. IsFiniteSet(Workers \X (1..Batch)) BY <1>1, WorkersAssumption, FS_Product
<1>. QED BY <1>2, CountPart DEF Owed

(* A step that adds to no relay's share, and no entry, keeps the bound. *)
LEMMA CapStays ==
    ASSUME CapInv, outbox' = outbox \/ IsFiniteSet({e \in Events : outbox'[e] # "none"}),
           faults' = faults \/ Fault,
           first \in Nat, first' \in Nat, first <= first', log' = log,
           \A w \in Workers : IsFiniteSet(rows'[w]) /\ Owing(w)' <= Owing(w),
           \A w \in Workers : Owing(w) \in Int /\ Owing(w)' \in Int
    PROVE  CapCoversOwed'
<1>1. Owed' \subseteq Owed
  BY BoundsAssumption DEF Owed
<1>2. Cardinality(Owed') <= Cardinality(Owed) /\ Cardinality(Owed') \in Nat /\ Cardinality(Owed) \in Nat
  BY <1>1, OwedIsFinite, CountPart
<1>3. faults \in 0..MaxFaults /\ Len(log) \in Nat /\ Kept \in Int /\ Kept' \in Int /\ Kept' <= Kept
  BY DEF CapInv, TypeOK, OutboxType, Kept
<1>4. Slack \in Nat /\ Slack' \in Nat /\ Slack <= Slack'
  BY <1>3, SlackFacts, BoundsAssumption DEF Fault
<1>5. Kept + Cardinality(Owed) <= MaxLen + Slack
  BY DEF CapInv, CapCoversOwed, Slack
<1>6. Kept' + Cardinality(Owed') <= MaxLen + Slack'
  BY <1>2, <1>3, <1>4, <1>5, BoundsAssumption
<1>7. \A w \in Workers : Owing(w)' <= Batch
  BY BoundsAssumption DEF CapInv, CapCoversOwed
<1>8. IsFiniteSet({e \in Events : outbox'[e] # "none"})
  BY DEF CapInv, CapCoversOwed
<1>. QED BY <1>6, <1>7, <1>8 DEF CapCoversOwed, Slack

(* One entry more, one entry owed less. *)
LEMMA CapPaysForAdd ==
    ASSUME CapInv, NEW w \in Workers, NEW e \in Events, IsNext(w, e), rpc[w] = "publish",
           rpc' = rpc, limit' = limit, outbox' = outbox, first' = first,
           log' = log \/ log' = Append(log, e),
           rows' = [rows EXCEPT ![w] = @ \ {e}], faults' = faults \/ Fault
    PROVE  CapCoversOwed'
<1>1. e \in rows[w] /\ IsFiniteSet(rows[w]) /\ rows'[w] = rows[w] \ {e}
      /\ \A v \in Workers \ {w} : rows'[v] = rows[v]
  BY DEF IsNext, CapInv, CapCoversOwed, TypeOK, RelayType
<1>2. IsFiniteSet(rows'[w]) /\ Cardinality(rows[w]) \in Nat
      /\ Cardinality(rows'[w]) = Cardinality(rows[w]) - 1 /\ Cardinality(rows'[w]) \in Nat
  BY <1>1, CountRemove
<1>3. Owing(w) = Cardinality(rows[w]) /\ Owing(w)' = Cardinality(rows'[w])
  BY DEF Owing
<1>4. \A v \in Workers \ {w} : Owing(v)' = Owing(v)
  BY <1>1 DEF Owing
<1>5. Owing(w) \in 1..Batch /\ \A v \in Workers : Owing(v)' <= Batch
  BY <1>2, <1>3, <1>4, BoundsAssumption DEF CapInv, CapCoversOwed
<1>6. Owed' = Owed \ {<<w, Owing(w)>>}
  <2>1. ASSUME NEW v \in Workers, NEW k \in 1..Batch
        PROVE  k <= Owing(v)' <=> k <= Owing(v) /\ <<v, k>> # <<w, Owing(w)>>
    BY <1>2, <1>3, <1>4
  <2>. QED BY <2>1, <1>5 DEF Owed
<1>7. <<w, Owing(w)>> \in Owed BY <1>5 DEF Owed
<1>8. Cardinality(Owed) \in Nat /\ Cardinality(Owed') = Cardinality(Owed) - 1
      /\ Cardinality(Owed') \in Nat
  BY <1>6, <1>7, OwedIsFinite, CountRemove
<1>9. faults \in 0..MaxFaults /\ Kept \in Int /\ Kept' \in Int /\ Kept' <= Kept + 1
  <2>1. log \in Seq(Events) /\ Len(log) \in Nat /\ first \in Nat /\ faults \in 0..MaxFaults
    BY DEF CapInv, TypeOK, OutboxType
  <2>2. Len(log') \in Nat /\ Len(log') <= Len(log) + 1
    BY <2>1
  <2>. QED BY <2>1, <2>2 DEF Kept
<1>10. Slack \in Nat /\ Slack' \in Nat /\ Slack <= Slack'
  BY <1>9, SlackFacts, BoundsAssumption DEF Fault
<1>11. Kept + Cardinality(Owed) <= MaxLen + Slack
  BY DEF CapInv, CapCoversOwed, Slack
<1>12. Kept' + Cardinality(Owed') <= MaxLen + Slack'
  BY <1>8, <1>9, <1>10, <1>11, BoundsAssumption
<1>13. \A v \in Workers : IsFiniteSet(rows'[v])
  BY <1>1, <1>2 DEF CapInv, CapCoversOwed
<1>. QED BY <1>5, <1>12, <1>13 DEF CapInv, CapCoversOwed, Slack

(* The measurement: what the other relays owe is at most a batch each, and
   this one takes no more than the cap leaves. *)
LEMMA CapIsMeasured ==
    ASSUME CapInv, NEW w \in Workers, Measure(w)
    PROVE  CapCoversOwed'
<1>. DEFINE k == room(Kept)
            Others == (Workers \ {w}) \X (1..Batch)
            Own == {w} \X (1..k)
<1>1. faults \in 0..MaxFaults /\ Kept \in Int /\ Kept' = Kept /\ faults' = faults /\ outbox' = outbox
      /\ rows' = rows
  BY DEF CapInv, TypeOK, OutboxType, Kept, Measure, streamVars
<1>2. k \in 0..Batch /\ (k > 0 => Kept + k <= MaxLen)
  BY <1>1, BoundsAssumption DEF room, smaller
<1>3. limit'[w] = k /\ rpc'[w] = (IF k = 0 THEN "info" ELSE "claim")
      /\ \A v \in Workers \ {w} : limit'[v] = limit[v] /\ rpc'[v] = rpc[v]
  BY DEF Measure, CapInv, TypeOK, RelayType
<1>. HIDE DEF k
<1>4. Owing(w)' = k /\ \A v \in Workers \ {w} : Owing(v)' = Owing(v)
  BY <1>1, <1>2, <1>3 DEF Owing
<1>5. \A v \in Workers : Owing(v)' <= Batch
  BY <1>2, <1>4 DEF CapInv, CapCoversOwed
<1>6. Owing(w) = 0
  BY DEF Measure, Owing
<1>7. CASE k = 0
  <2>1. \A v \in Workers : Owing(v) \in Int /\ Owing(v)' \in Int
    <3>1. \A v \in Workers : Owing(v) \in Nat
      BY FS_CardinalityType DEF Owing, CapInv, CapCoversOwed, TypeOK, RelayType
    <3>. QED BY <1>4, <1>7, <3>1
  <2>2. \A v \in Workers : IsFiniteSet(rows'[v]) /\ Owing(v)' <= Owing(v)
    <3>1. \A v \in Workers : Owing(v)' = Owing(v) BY <1>4, <1>6, <1>7
    <3>. QED BY <1>1, <2>1, <3>1 DEF CapInv, CapCoversOwed
  <2>3. first' = first /\ log' = log /\ first \in Nat
    BY DEF Measure, streamVars, CapInv, TypeOK, OutboxType
  <2>. QED BY <1>1, <2>1, <2>2, <2>3, CapStays
<1>8. CASE k > 0
  <2>1. Owed' \subseteq Others \cup Own
    <3>1. ASSUME NEW v \in Workers, NEW j \in 1..Batch, j <= Owing(v)'
          PROVE  <<v, j>> \in Others \cup Own
      BY <1>2, <1>4, <3>1
    <3>. QED BY <3>1 DEF Owed
  <2>2. IsFiniteSet(Others) /\ Cardinality(Others) = Batch * (Cardinality(Workers) - 1)
    <3>1. IsFiniteSet(Workers \ {w}) /\ Cardinality(Workers \ {w}) = Cardinality(Workers) - 1
          /\ Cardinality(Workers) \in Nat
      BY WorkersAssumption, CountRemove
    <3>2. IsFiniteSet(1..Batch) /\ Cardinality(1..Batch) = Batch
      BY FS_Interval, BoundsAssumption
    <3>3. IsFiniteSet(Others) /\ Cardinality(Others) = Cardinality(Workers \ {w}) * Cardinality(1..Batch)
      BY <3>1, <3>2, FS_Product
    <3>4. \A a, b \in Int : a * b = b * a OBVIOUS
    <3>. QED BY <3>1, <3>2, <3>3, <3>4, BoundsAssumption
  <2>3. IsFiniteSet(Own) /\ Cardinality(Own) = k
    <3>1. IsFiniteSet({w}) /\ Cardinality({w}) = 1 BY FS_Singleton
    <3>2. IsFiniteSet(1..k) /\ Cardinality(1..k) = k
      BY <1>2, <1>8, FS_Interval, BoundsAssumption
    <3>3. IsFiniteSet(Own) /\ Cardinality(Own) = Cardinality({w}) * Cardinality(1..k)
      BY <3>1, <3>2, FS_Product
    <3>. QED BY <1>2, <3>1, <3>2, <3>3, BoundsAssumption
  <2>. HIDE DEF Others, Own
  <2>4. Cardinality(Owed') <= Cardinality(Others) + Cardinality(Own)
        /\ Cardinality(Owed') \in Nat /\ Cardinality(Others) \in Nat /\ Cardinality(Own) \in Nat
    <3>1. IsFiniteSet(Others \cup Own) /\ Cardinality(Others) \in Nat /\ Cardinality(Own) \in Nat
          /\ Cardinality(Others \cup Own) \in Nat
          /\ Cardinality(Others \cup Own) <= Cardinality(Others) + Cardinality(Own)
      BY <2>2, <2>3, CountUnion
    <3>2. Cardinality(Owed') <= Cardinality(Others \cup Own) /\ Cardinality(Owed') \in Nat
      BY <2>1, <3>1, CountPart
    <3>. QED BY <3>1, <3>2
  <2>5. Slack \in Nat /\ Batch * (Cardinality(Workers) - 1) <= Slack /\ Slack' = Slack
    BY <1>1, SlackFacts
  <2>6. Kept' + Cardinality(Owed') <= MaxLen + Slack'
    BY <1>1, <1>2, <1>8, <2>2, <2>3, <2>4, <2>5, BoundsAssumption
  <2>. QED BY <1>1, <1>5, <2>6 DEF CapInv, CapCoversOwed, Slack
<1>. QED BY <1>2, <1>7, <1>8, BoundsAssumption

(* A failed trim lets its relay add a batch, and is a fault. *)
LEMMA CapPaysForFailedTrim ==
    ASSUME CapInv, NEW w \in Workers, TrimFails(w)
    PROVE  CapCoversOwed'
<1>. DEFINE Own == {w} \X (1..Batch)
<1>1. Fault /\ outbox' = outbox /\ rows' = rows /\ Kept' = Kept /\ Kept \in Int
      /\ faults \in 0..MaxFaults
  BY DEF CapInv, TypeOK, OutboxType, Kept, TrimFails, streamVars
<1>2. limit'[w] = Batch /\ rpc'[w] = "claim"
      /\ \A v \in Workers \ {w} : limit'[v] = limit[v] /\ rpc'[v] = rpc[v]
  BY DEF TrimFails, CapInv, TypeOK, RelayType
<1>3. Owing(w)' = Batch /\ \A v \in Workers \ {w} : Owing(v)' = Owing(v)
  BY <1>1, <1>2 DEF Owing
<1>4. \A v \in Workers : Owing(v)' <= Batch
  BY <1>3, BoundsAssumption DEF CapInv, CapCoversOwed
<1>5. Owed' \subseteq Owed \cup Own
  <2>1. ASSUME NEW v \in Workers, NEW j \in 1..Batch, j <= Owing(v)'
        PROVE  <<v, j>> \in Owed \cup Own
    BY <1>3, <2>1 DEF Owed
  <2>. QED BY <2>1 DEF Owed
<1>6. IsFiniteSet(Own) /\ Cardinality(Own) = Batch
  <2>1. IsFiniteSet({w}) /\ Cardinality({w}) = 1 BY FS_Singleton
  <2>2. IsFiniteSet(1..Batch) /\ Cardinality(1..Batch) = Batch
    BY FS_Interval, BoundsAssumption
  <2>3. IsFiniteSet(Own) /\ Cardinality(Own) = Cardinality({w}) * Cardinality(1..Batch)
    BY <2>1, <2>2, FS_Product
  <2>. QED BY <2>1, <2>2, <2>3, BoundsAssumption
<1>. HIDE DEF Own
<1>7. Cardinality(Owed') <= Cardinality(Owed) + Batch /\ Cardinality(Owed') \in Nat
      /\ Cardinality(Owed) \in Nat
  <2>1. IsFiniteSet(Owed \cup Own) /\ Cardinality(Owed) \in Nat
        /\ Cardinality(Owed \cup Own) \in Nat
        /\ Cardinality(Owed \cup Own) <= Cardinality(Owed) + Cardinality(Own)
    BY <1>6, OwedIsFinite, CountUnion
  <2>2. Cardinality(Owed') <= Cardinality(Owed \cup Own) /\ Cardinality(Owed') \in Nat
    BY <1>5, <2>1, CountPart
  <2>. QED BY <1>6, <2>1, <2>2, BoundsAssumption
<1>8. Slack \in Nat /\ Slack' = Slack + Batch
  BY <1>1, SlackFacts DEF Fault
<1>9. Kept + Cardinality(Owed) <= MaxLen + Slack
  BY DEF CapInv, CapCoversOwed, Slack
<1>10. Kept' + Cardinality(Owed') <= MaxLen + Slack'
  BY <1>1, <1>7, <1>8, <1>9, BoundsAssumption
<1>. QED BY <1>1, <1>4, <1>10 DEF CapInv, CapCoversOwed, Slack

(* A claim takes no more rows than were measured, and they are finitely many
   as the outbox is. *)
LEMMA ClaimIsMeasured ==
    ASSUME CapInv, NEW w \in Workers, ClaimRows(w)
    PROVE  CapCoversOwed'
<1>1. PICK R \in SUBSET Claimable :
        /\ Cardinality(R) = smaller(limit[w], Cardinality(Claimable))
        /\ rows' = [rows EXCEPT ![w] = R]
  BY DEF ClaimRows
<1>2. IsFiniteSet(Claimable) /\ IsFiniteSet(R) /\ Cardinality(Claimable) \in Nat /\ Cardinality(R) \in Nat
  <2>1. Claimable \subseteq {e \in Events : outbox[e] # "none"} BY DEF Claimable
  <2>2. IsFiniteSet(Claimable) /\ Cardinality(Claimable) \in Nat
    BY <2>1, CountPart DEF CapInv, CapCoversOwed
  <2>. QED BY <1>1, <2>2, CountPart
<1>3. limit[w] \in Nat /\ Cardinality(R) <= limit[w]
  BY <1>1, <1>2 DEF smaller, CapInv, TypeOK, RelayType
<1>4. rows'[w] = R /\ rpc'[w] = "publish" /\ rpc[w] = "claim"
      /\ \A v \in Workers \ {w} : rows'[v] = rows[v] /\ limit'[v] = limit[v] /\ rpc'[v] = rpc[v]
  BY <1>1 DEF ClaimRows, CapInv, TypeOK, RelayType
<1>5. Owing(w) = limit[w] /\ Owing(w)' = Cardinality(R)
      /\ \A v \in Workers \ {w} : Owing(v)' = Owing(v)
  BY <1>4 DEF Owing
<1>6. \A v \in Workers : Owing(v) \in Nat
  BY FS_CardinalityType DEF Owing, CapInv, CapCoversOwed, TypeOK, RelayType
<1>7. \A v \in Workers : /\ IsFiniteSet(rows'[v]) /\ Owing(v)' <= Owing(v)
                         /\ Owing(v) \in Int /\ Owing(v)' \in Int
  <2>1. ASSUME NEW v \in Workers \ {w} PROVE IsFiniteSet(rows'[v])
    BY <1>4 DEF CapInv, CapCoversOwed
  <2>. QED BY <1>2, <1>3, <1>4, <1>5, <1>6, <2>1
<1>8. outbox' = outbox /\ faults' = faults /\ first' = first /\ log' = log /\ first \in Nat
  BY DEF ClaimRows, streamVars, CapInv, TypeOK, OutboxType
<1>. QED BY <1>7, <1>8, CapStays

(* A relay whose pass is forgotten owes nothing. *)
LEMMA CapForgets ==
    ASSUME CapInv, NEW w \in Workers, ForgetPass(w), UNCHANGED streamVars, faults' = faults \/ Fault,
           outbox' = outbox \/ IsFiniteSet({e \in Events : outbox'[e] # "none"})
    PROVE  CapCoversOwed'
<1>1. rows'[w] = {} /\ rpc'[w] = "info"
      /\ \A v \in Workers \ {w} : rows'[v] = rows[v] /\ limit'[v] = limit[v] /\ rpc'[v] = rpc[v]
  BY DEF ForgetPass, CapInv, TypeOK, RelayType
<1>2. Owing(w)' = 0 /\ \A v \in Workers \ {w} : Owing(v)' = Owing(v)
  BY <1>1 DEF Owing
<1>3. \A v \in Workers : Owing(v) \in Nat
  BY FS_CardinalityType DEF Owing, CapInv, CapCoversOwed, TypeOK, RelayType
<1>4. \A v \in Workers : /\ IsFiniteSet(rows'[v]) /\ Owing(v)' <= Owing(v)
                         /\ Owing(v) \in Int /\ Owing(v)' \in Int
  <2>1. ASSUME NEW v \in Workers \ {w} PROVE IsFiniteSet(rows'[v])
    BY <1>1 DEF CapInv, CapCoversOwed
  <2>. QED BY <1>1, <1>2, <1>3, <2>1, FS_EmptySet
<1>5. first' = first /\ log' = log /\ first \in Nat
  BY DEF streamVars, CapInv, TypeOK, OutboxType
<1>. QED BY <1>4, <1>5, CapStays

(* A step that leaves every relay's share alone. *)
LEMMA CapUntouched ==
    ASSUME CapInv, rows' = rows, limit' = limit, log' = log, faults' = faults \/ Fault,
           outbox' = outbox \/ IsFiniteSet({e \in Events : outbox'[e] # "none"}),
           first' \in Nat, first <= first',
           \A w \in Workers : rpc'[w] = rpc[w] \/ {rpc[w], rpc'[w]} \cap {"claim", "publish"} = {}
    PROVE  CapCoversOwed'
<1>1. \A v \in Workers : Owing(v)' = Owing(v) BY DEF Owing
<1>2. \A v \in Workers : Owing(v) \in Nat
  BY FS_CardinalityType DEF Owing, CapInv, CapCoversOwed, TypeOK, RelayType
<1>3. \A v \in Workers : /\ IsFiniteSet(rows'[v]) /\ Owing(v)' <= Owing(v)
                         /\ Owing(v) \in Int /\ Owing(v)' \in Int
  BY <1>1, <1>2 DEF CapInv, CapCoversOwed
<1>. QED BY <1>3, CapStays DEF CapInv, TypeOK, OutboxType

LEMMA CapCoversOwedStep ==
    ASSUME CapInv, [Next]_vars
    PROVE  CapCoversOwed'
<1>. USE DEF streamVars, relayVars
<1>0. first \in Nat BY DEF CapInv, TypeOK, OutboxType
<1>1. CASE UNCHANGED vars BY <1>0, <1>1, CapUntouched DEF vars
<1>2. ASSUME NEW e \in Events, Emit(e) PROVE CapCoversOwed'
  <2>1. {f \in Events : outbox'[f] # "none"} = {f \in Events : outbox[f] # "none"} \cup {e}
    BY <1>2 DEF Emit, CapInv, TypeOK, OutboxType
  <2>2. IsFiniteSet({f \in Events : outbox[f] # "none"} \cup {e})
    BY CountAdd DEF CapInv, CapCoversOwed
  <2>3. IsFiniteSet({f \in Events : outbox'[f] # "none"}) BY <2>1, <2>2
  <2>. QED BY <1>0, <1>2, <2>3, CapUntouched DEF Emit
<1>3. ASSUME NEW w \in Workers, RelayStep(w) PROVE CapCoversOwed'
  <2>1. CASE TrimInfo(w)
    BY <1>0, <2>1, CapUntouched DEF TrimInfo, CapInv, TypeOK, RelayType
  <2>2. CASE TrimMinID(w)
    <3>1. first' \in Nat /\ first <= first'
      BY <2>2 DEF TrimMinID, larger, smaller, CapInv, TypeOK, OutboxType, RelayType
    <3>. QED BY <2>2, <3>1, CapUntouched DEF TrimMinID, CapInv, TypeOK, RelayType
  <2>3. CASE TrimMaxLen(w) BY <2>3 DEF TrimMaxLen, CapInv, NeverBlind
  <2>4. CASE Measure(w) BY <2>4, CapIsMeasured
  <2>5. ASSUME NEW g \in Groups, TrimPending(w, g) PROVE CapCoversOwed'
    BY <1>0, <2>5, CapUntouched DEF TrimPending
  <2>6. CASE ClaimRows(w) BY <2>6, ClaimIsMeasured
  <2>7. CASE ClaimNothing(w) BY <2>7, CapForgets DEF ClaimNothing
  <2>8. CASE CommitPass(w)
    <3>1. {e \in Events : outbox'[e] # "none"} \subseteq {e \in Events : outbox[e] # "none"} \cup sent[w]
      BY <2>8 DEF CommitPass
    <3>2. IsFiniteSet({e \in Events : outbox[e] # "none"} \cup sent[w])
      BY CountUnion DEF CapInv, SentIsFinite, CapCoversOwed
    <3>3. IsFiniteSet({e \in Events : outbox'[e] # "none"})
      BY <3>1, <3>2, CountPart
    <3>. QED BY <2>8, <3>3, CapForgets DEF CommitPass
  <2>9. ASSUME NEW e \in Events, publish(w, e) PROVE CapCoversOwed'
    BY <2>9, CapPaysForAdd DEF publish
  <2>. QED BY <1>3, <2>1, <2>2, <2>3, <2>4, <2>5, <2>6, <2>7, <2>8, <2>9 DEF RelayStep
<1>4. ASSUME NEW w \in Workers, FaultStep(w) PROVE CapCoversOwed'
  <2>1. CASE TrimFails(w) BY <2>1, CapPaysForFailedTrim
  <2>2. CASE RollBackPass(w) BY <2>2, CapForgets DEF RollBackPass
  <2>3. CASE Stop(w) BY <2>3, CapForgets DEF Stop
  <2>4. CASE Crash(w) BY <2>4, CapForgets DEF Crash, GoDown
  <2>5. ASSUME NEW e \in Events, PublishFails(w, e) PROVE CapCoversOwed'
    BY <2>5, CapPaysForAdd DEF PublishFails
  <2>6. ASSUME NEW g \in Running, ConsumerCallFails(w, g) PROVE CapCoversOwed'
    BY <1>0, <2>6, CapUntouched DEF ConsumerCallFails
  <2>. QED BY <1>4, <2>1, <2>2, <2>3, <2>4, <2>5, <2>6 DEF FaultStep
<1>5. ASSUME NEW w \in Workers, Start(w) PROVE CapCoversOwed'
  BY <1>0, <1>5, CapUntouched DEF Start
<1>6. ASSUME NEW w \in Workers, Exit(w) PROVE CapCoversOwed'
  BY <1>6, CapForgets DEF Exit, GoDown
<1>7. ASSUME NEW w \in Workers, NEW g \in Running,
             Join(w, g) \/ Read(w, g) \/ claim(w, g) \/ OneStep(w, g)
      PROVE  CapCoversOwed'
  <2>1. UNCHANGED <<outbox, log, first, faults, rpc, rows, limit>>
    BY <1>7 DEF Join, Read, claim, OneStep, Handle, deliveries, deadLetter, ack
  <2>. QED BY <1>0, <2>1, CapUntouched
<1>. QED BY <1>1, <1>2, <1>3, <1>4, <1>5, <1>6, <1>7 DEF Next

(* What a pass has sent is finite: each XADD adds one row to it. *)
LEMMA SentStaysFinite ==
    ASSUME TypeOK, SentIsFinite, [Next]_vars
    PROVE  SentIsFinite'
<1>. SUFFICES ASSUME NEW w \in Workers PROVE IsFiniteSet(sent'[w])
  BY DEF SentIsFinite
<1>1. CASE sent'[w] \subseteq sent[w] BY <1>1, CountPart DEF SentIsFinite
<1>2. ASSUME NEW e \in sent'[w], e \notin sent[w] PROVE IsFiniteSet(sent'[w])
  <2>1. publish(w, e) BY <1>2, NewlySent
  <2>2. sent'[w] = sent[w] \cup {e} BY <2>1 DEF publish, TypeOK, RelayType
  <2>3. IsFiniteSet(sent[w] \cup {e}) BY CountAdd DEF SentIsFinite
  <2>. QED BY <2>2, <2>3
<1>. QED BY <1>1, <1>2

(* On a stream that has a group the relay waits for, the backlog exceeds its
   cap by at most a batch for every other relay, which measured before this
   one published, and a batch for every call that failed: for any number of
   relays, any batch and any cap. *)
THEOREM CapHolds ==
    ASSUME Made \cap Groups # {}
    PROVE  Spec => []BacklogIsBounded
<1>. DEFINE Inv == IInv /\ SentIsFinite /\ CapCoversOwed
<1>1. Init => Inv
  <2>. SUFFICES ASSUME Init PROVE Inv OBVIOUS
  <2>1. IInv BY IInvInit
  <2>2. SentIsFinite BY FS_EmptySet DEF SentIsFinite, Init
  <2>3. \A w \in Workers : IsFiniteSet(rows[w]) /\ Owing(w) = 0
    BY FS_EmptySet DEF Init, Owing
  <2>4. Owed = {} BY <2>3, BoundsAssumption DEF Owed
  <2>5. {e \in Events : outbox[e] # "none"} = {} BY DEF Init
  <2>6. Kept = 0 /\ Cardinality(Owed) = 0 /\ IsFiniteSet({e \in Events : outbox[e] # "none"})
    <3>1. Kept = 0 BY DEF Init, Kept
    <3>2. Cardinality(Owed) = 0 /\ IsFiniteSet({e \in Events : outbox[e] # "none"})
      BY <2>4, <2>5, FS_EmptySet
    <3>. QED BY <3>1, <3>2
  <2>7. Slack \in Nat
    <3>1. faults \in 0..MaxFaults BY BoundsAssumption DEF Init
    <3>. QED BY <3>1, SlackFacts
  <2>8. Kept + Cardinality(Owed) <= MaxLen + Slack BY <2>6, <2>7, BoundsAssumption
  <2>. QED BY <2>1, <2>2, <2>3, <2>6, <2>8, BoundsAssumption DEF CapCoversOwed, Slack
<1>2. Inv /\ [Next]_vars => Inv'
  BY IInvStep, SentStaysFinite, CapCoversOwedStep DEF IInv, CapInv
<1>3. Inv => BacklogIsBounded
  <2>. SUFFICES ASSUME Inv PROVE BacklogIsBounded OBVIOUS
  <2>1. Kept + Cardinality(Owed) <= MaxLen + Slack BY DEF CapCoversOwed, Slack
  <2>2. Cardinality(Owed) \in Nat /\ Slack \in Nat /\ Kept \in Int
    BY OwedIsFinite, SlackFacts DEF IInv, TypeOK, OutboxType, Kept
  <2>3. Kept <= MaxLen + Slack BY <2>1, <2>2, BoundsAssumption
  <2>. QED BY <2>3 DEF BacklogIsBounded, Slack
<1>. QED BY <1>1, <1>2, <1>3, PTL DEF Spec

-----------------------------------------------------------------------------
(***************************************************************************)
(* The stream implements EventDelivery: the initial states map to initial  *)
(* states, and every step to one of its steps or to none.                  *)
(***************************************************************************)

(* What is emitted stays emitted. *)
LEMMA EmittedGrows ==
    ASSUME TypeOK, [Next]_vars
    PROVE  Emitted \subseteq Emitted'
<1>. SUFFICES ASSUME NEW e \in Events, outbox[e] # "none" PROVE outbox'[e] # "none"
  BY DEF Emitted
<1>1. CASE outbox'[e] = outbox[e] BY <1>1
<1>2. CASE outbox'[e] # outbox[e] BY <1>2, NewlyMarked DEF Emit
<1>. QED BY <1>1, <1>2

(* A pass claims only rows of the outbox, and lets go of them. *)
LEMMA RowsAreEmittedStep ==
    ASSUME TypeOK, RowsAreEmitted, [Next]_vars
    PROVE  RowsAreEmitted'
<1>. USE DEF TypeOK, RelayType
<1>0. \A w \in Workers : sent'[w] \subseteq Emitted
  <2>. SUFFICES ASSUME NEW w \in Workers, NEW e \in sent'[w] PROVE e \in Emitted OBVIOUS
  <2>1. CASE e \in sent[w] BY <2>1 DEF RowsAreEmitted
  <2>2. CASE e \notin sent[w]
    <3>1. e \in rows[w] BY <2>2, NewlySent DEF publish, IsNext
    <3>. QED BY <3>1 DEF RowsAreEmitted
  <2>. QED BY <2>1, <2>2
<1>1. ASSUME \A w \in Workers : rows'[w] \subseteq Emitted PROVE RowsAreEmitted'
  BY <1>0, <1>1, EmittedGrows DEF RowsAreEmitted
<1>2. CASE UNCHANGED rows BY <1>1, <1>2 DEF RowsAreEmitted
<1>3. ASSUME NEW v \in Workers, ForgetPass(v) PROVE RowsAreEmitted'
  BY <1>1, <1>3 DEF ForgetPass, RowsAreEmitted
<1>4. ASSUME NEW v \in Workers, NEW e \in Events, publish(v, e) \/ PublishFails(v, e)
      PROVE  RowsAreEmitted'
  BY <1>1, <1>4 DEF publish, PublishFails, RowsAreEmitted
<1>5. ASSUME NEW v \in Workers, ClaimRows(v) PROVE RowsAreEmitted'
  <2>1. PICK R \in SUBSET Claimable : rows' = [rows EXCEPT ![v] = R] BY <1>5 DEF ClaimRows
  <2>2. R \subseteq Emitted BY DEF Claimable, Emitted
  <2>. QED BY <1>1, <2>1, <2>2 DEF RowsAreEmitted
<1>6. \/ UNCHANGED rows
      \/ \E v \in Workers : \/ ForgetPass(v) \/ ClaimRows(v)
                            \/ \E e \in Events : publish(v, e) \/ PublishFails(v, e)
  BY SMTT(30) DEF Next, vars, relayVars, Emit, RelayStep, TrimInfo, TrimMinID, TrimMaxLen, Measure,
       TrimPending, ClaimNothing, CommitPass, FaultStep, TrimFails,
       RollBackPass, Stop, Crash, GoDown, ConsumerCallFails, Start, Exit,
       Join, Read, claim, OneStep, Handle, deliveries, deadLetter, ack
<1>. QED BY <1>2, <1>3, <1>4, <1>5, <1>6

(* A group's beginning is fixed once it is made. *)
LEMMA StartIsFixed ==
    ASSUME TypeOK, [Next]_vars
    PROVE  made \subseteq made' /\ \A g \in made : start'[g] = start[g]
<1>1. CASE UNCHANGED <<made, start>> BY <1>1
<1>2. ASSUME NEW w \in Workers, NEW h \in Running, Join(w, h)
      PROVE  made \subseteq made' /\ \A g \in made : start'[g] = start[g]
  BY <1>2 DEF Join, groupVars, TypeOK, GroupType
<1>3. \/ UNCHANGED <<made, start>>
      \/ \E w \in Workers, h \in Running : Join(w, h)
  BY SMTT(30) DEF Next, vars, groupVars, Emit, RelayStep, TrimInfo, TrimMinID, TrimMaxLen, Measure,
       TrimPending, ClaimRows, ClaimNothing, CommitPass, publish, FaultStep, TrimFails,
       RollBackPass, Stop, Crash, GoDown, PublishFails, ConsumerCallFails, Start, Exit,
       Read, claim, OneStep, Handle, deliveries, deadLetter, ack
<1>. QED BY <1>1, <1>2, <1>3

(* What comes into a consumer's hand is pending for its group when it comes,
   and what a handler has in hand was in the batch before. *)
LEMMA NewlyInHand ==
    ASSUME TypeInv, MadeBeforeRead, [Next]_vars, NEW w \in Workers, NEW g \in Running
    PROVE  /\ \A i \in hand'[w][g] : i \in hand[w][g] \/ (g \in made /\ tries'[g][i] > 0)
           /\ stage'[w][g] # "idle" =>
                \/ stage[w][g] # "idle" /\ cur'[w][g] = cur[w][g]
                \/ cur'[w][g] \in hand[w][g]
<1>. USE DEF TypeInv, TypeOK, ConsumerType
<1>. DEFINE Goal == /\ \A i \in hand'[w][g] : i \in hand[w][g] \/ (g \in made /\ tries'[g][i] > 0)
                    /\ stage'[w][g] # "idle" =>
                         \/ stage[w][g] # "idle" /\ cur'[w][g] = cur[w][g]
                         \/ cur'[w][g] \in hand[w][g]
<1>0. g \in AllGroups BY DEF AllGroups
<1>1. CASE UNCHANGED handVars BY <1>1 DEF handVars
<1>2. ASSUME NEW v \in Workers, NEW h \in Running, Read(v, h) PROVE Goal
  <2>1. CASE v = w /\ h = g
    <3>1. hand'[w][g] = Fresh(g) /\ UNCHANGED <<cur, stage>> BY <1>2, <2>1 DEF Read
    <3>2. g \in made BY <1>2, <2>1 DEF Read, Idle, MadeBeforeRead
    <3>3. \A i \in Fresh(g) : i \in Ids BY <1>0, <1>2, <2>1, FreshBounds DEF Read
    <3>4. \A i \in Fresh(g) : tries'[g][i] = 1 BY <1>0, <1>2, <2>1, <3>3 DEF Read, GroupType
    <3>. QED BY <3>1, <3>2, <3>4
  <2>2. CASE v # w \/ h # g BY <1>2, <2>2 DEF Read
  <2>. QED BY <2>1, <2>2
<1>3. ASSUME NEW v \in Workers, NEW h \in Running, claim(v, h) PROVE Goal
  <2>1. CASE v = w /\ h = g
    <3>0. h \in AllGroups BY DEF AllGroups
    <3>1. PICK abandoned \in SUBSET pending(h) :
            /\ tries' = [tries EXCEPT ![h] = [i \in Ids |->
                 IF i \notin abandoned THEN tries[h][i]
                 ELSE IF i < first THEN 0
                 ELSE smaller(tries[h][i] + 1, MaxDeliveries)]]
            /\ hand' = [hand EXCEPT ![v][h] = {i \in abandoned : i >= first}]
      BY <1>3, <3>0 DEF claim, GroupType
    <3>2. UNCHANGED <<cur, stage>> BY <1>3 DEF claim
    <3>3. g \in made BY <1>3, <2>1 DEF claim, Idle, MadeBeforeRead
    <3>4. hand'[w][g] = {i \in abandoned : i >= first} BY <2>1, <3>1
    <3>5. ASSUME NEW i \in abandoned, i >= first PROVE tries'[g][i] > 0
      <4>1. i \in Ids /\ i \in Nat /\ first \in Nat BY DEF pending, Ids, OutboxType
      <4>2. tries'[g][i] = smaller(tries[g][i] + 1, MaxDeliveries)
        BY <1>0, <2>1, <3>1, <3>5, <4>1 DEF GroupType
      <4>3. tries[g][i] \in Nat BY <1>0, <4>1 DEF GroupType
      <4>. QED BY <4>2, <4>3, BoundsAssumption DEF smaller
    <3>. QED BY <3>2, <3>3, <3>4, <3>5
  <2>2. CASE v # w \/ h # g BY <1>3, <2>2 DEF claim
  <2>. QED BY <2>1, <2>2
<1>4. ASSUME NEW v \in Workers, NEW h \in Running, Handle(v, h) PROVE Goal
  BY <1>4 DEF Handle
<1>5. ASSUME NEW v \in Workers, NEW h \in Running,
             deliveries(v, h) \/ deadLetter(v, h) \/ ack(v, h) \/ ConsumerCallFails(v, h)
      PROVE  Goal
  <2>1. hand' = hand BY <1>5 DEF deliveries, deadLetter, ack, ConsumerCallFails
  <2>2. CASE LetGo(v, h) BY <2>1, <2>2 DEF LetGo
  <2>3. CASE ~LetGo(v, h)
    <3>1. cur' = cur /\ stage[v][h] # "idle" /\ \E s \in Stages : stage' = [stage EXCEPT ![v][h] = s]
      BY <1>5, <2>3 DEF deliveries, deadLetter, ack, ConsumerCallFails, InHand, Stages
    <3>. QED BY <2>1, <3>1
  <2>. QED BY <2>2, <2>3
<1>6. ASSUME NEW v \in Workers, Stop(v) \/ GoDown(v) PROVE Goal
  <2>1. hand' = [hand EXCEPT ![v] = [h \in Running |-> {}]] BY <1>6 DEF Stop, GoDown
  <2>2. hand'[w][g] \subseteq hand[w][g] BY <2>1
  <2>3. CASE UNCHANGED <<cur, stage>> BY <2>2, <2>3
  <2>4. CASE GoDown(v)
    <3>1. stage'[w][g] # "idle" => stage'[w][g] = stage[w][g] /\ cur'[w][g] = cur[w][g]
      BY <2>4 DEF GoDown
    <3>. QED BY <2>2, <3>1
  <2>. QED BY <1>6, <2>3, <2>4 DEF Stop
<1>7. \/ UNCHANGED handVars
      \/ \E v \in Workers : Stop(v) \/ GoDown(v)
      \/ \E v \in Workers, h \in Running :
            \/ Read(v, h) \/ claim(v, h) \/ Handle(v, h) \/ deliveries(v, h) \/ deadLetter(v, h)
            \/ ack(v, h) \/ ConsumerCallFails(v, h)
  BY SMTT(30) DEF Next, vars, Emit, RelayStep, TrimInfo, TrimMinID, TrimMaxLen, Measure,
       TrimPending, ClaimRows, ClaimNothing, CommitPass, publish, FaultStep, TrimFails,
       RollBackPass, Crash, PublishFails, Start, Exit, Join, OneStep
<1>. QED BY <1>1, <1>2, <1>3, <1>4, <1>5, <1>6, <1>7

LEMMA HandsAreTheGroupsStep ==
    ASSUME TypeInv, TypeInv', MadeBeforeRead, HandsAreTheGroups, [Next]_vars
    PROVE  HandsAreTheGroups'
<1>. USE DEF TypeInv, TypeOK
<1>0. made \subseteq made' /\ \A g \in made : start'[g] = start[g] BY StartIsFixed
<1>1. ASSUME NEW g \in AllGroups, NEW i \in Ids, tries'[g][i] > 0
      PROVE  g \in made' /\ start'[g] < i
  <2>0. start[g] \in Nat /\ last[g] \in Nat /\ start[g] <= last[g] /\ i \in Nat
    BY DEF GroupType, GroupsInOrder, Ids
  <2>1. CASE tries[g][i] > 0
    BY <1>0, <2>1 DEF MadeBeforeRead, HandsAreTheGroups, GroupType
  <2>2. CASE ~(tries[g][i] > 0)
    <3>1. last[g] < i BY <1>1, <2>2, NewlyPending
    <3>2. g \in made'
      BY <1>1, MadeBeforeReadStep DEF MadeBeforeRead, GroupType
    <3>3. CASE g \in made BY <1>0, <2>0, <3>1, <3>2, <3>3
    <3>4. CASE g \notin made
      BY <1>1, <2>2, <3>2, <3>4, NewlyMade
    <3>. QED BY <3>3, <3>4
  <2>. QED BY <2>1, <2>2
<1>2. ASSUME NEW w \in Workers, NEW g \in Running
      PROVE  /\ \A i \in hand'[w][g] : g \in made' /\ start'[g] < i
             /\ stage'[w][g] # "idle" => g \in made' /\ start'[g] < cur'[w][g]
  <2>0. g \in AllGroups BY DEF AllGroups
  <2>1. /\ \A i \in hand[w][g] : g \in made' /\ start'[g] < i
        /\ stage[w][g] # "idle" => g \in made' /\ start'[g] < cur[w][g]
    BY <1>0 DEF HandsAreTheGroups
  <2>2. \A i \in hand'[w][g] : i \in Ids BY DEF ConsumerType
  <2>3. /\ \A i \in hand'[w][g] : i \in hand[w][g] \/ (g \in made /\ tries'[g][i] > 0)
        /\ stage'[w][g] # "idle" =>
             \/ stage[w][g] # "idle" /\ cur'[w][g] = cur[w][g]
             \/ cur'[w][g] \in hand[w][g]
    BY NewlyInHand
  <2>. QED BY <1>1, <2>0, <2>1, <2>2, <2>3
<1>. QED BY <1>1, <1>2 DEF HandsAreTheGroups

(* What is held for the groups is the same when the same entries are within
   the reach of the same groups. *)
LEMMA HeldStays ==
    ASSUME OutboxType, OutboxType', UNCHANGED log, made' \cap Groups = made \cap Groups,
           \A g \in made \cap Groups : \A i \in 1..Len(log) :
                (first <= i /\ (tries[g][i] > 0 \/ last[g] < i))
                  <=> (first' <= i /\ (tries'[g][i] > 0 \/ last'[g] < i))
    PROVE  Held' = Held
<1>. DEFINE Old(g) == {i \in first..Len(log) : g \in made /\ (tries[g][i] > 0 \/ last[g] < i)}
            New(g) == {i \in first'..Len(log') : g \in made' /\ (tries'[g][i] > 0 \/ last'[g] < i)}
<1>1. first \in Nat \ {0} /\ first' \in Nat \ {0} /\ Len(log) \in Nat BY DEF OutboxType
<1>2. ASSUME NEW g \in Groups PROVE New(g) = Old(g)
  <2>1. CASE g \in made
    <3>1. g \in made' BY <2>1
    <3>2. \A i \in 1..Len(log) : i \in New(g) <=> i \in Old(g) BY <1>1, <2>1, <3>1
    <3>3. New(g) \subseteq 1..Len(log) /\ Old(g) \subseteq 1..Len(log) BY <1>1
    <3>. QED BY <3>2, <3>3
  <2>2. CASE g \notin made
    <3>1. g \notin made' BY <2>2
    <3>. QED BY <2>2, <3>1
  <2>. QED BY <2>1, <2>2
<1>3. Held = [g \in Groups |-> Old(g)] /\ Held' = [g \in Groups |-> New(g)] BY DEF Held
<1>. HIDE DEF Old, New
<1>. QED BY <1>2, <1>3

(* The facts a step of the refinement may use. *)
DeliveryInv ==
    /\ IInv /\ HandsAreTheGroups /\ RowsAreEmitted
    /\ SentIsOnTheStream /\ PublishedIsOnTheStream
DeliveryVars == <<Emitted, log, Published, made \cap Groups, Held, SettledEvents>>

(* Emitting, adding and marking: the way of an event onto the stream. *)
LEMMA EmitDelivers ==
    ASSUME DeliveryInv, NEW e \in Events, Emit(e)
    PROVE  Delivery!Emit(e)
<1>1. outbox \in [Events -> {"none", "waiting", "published"}] BY DEF DeliveryInv, IInv, TypeOK, OutboxType
<1>2. outbox[e] = "none" /\ outbox' = [outbox EXCEPT ![e] = "waiting"] BY DEF Emit
<1>3. e \notin Emitted /\ Emitted' = Emitted \cup {e} /\ Published' = Published
  BY <1>1, <1>2 DEF Emitted, Published
<1>4. UNCHANGED <<log, first, made, last, tries, handled, recorded>>
  BY DEF Emit, streamVars, groupVars, outcomeVars
<1>5. Held' = Held /\ SettledEvents' = SettledEvents BY <1>4 DEF Held, SettledEvents
<1>. QED BY <1>3, <1>4, <1>5 DEF Delivery!Emit

LEMMA AddDelivers ==
    ASSUME DeliveryInv, TypeOK', NEW w \in Workers, NEW e \in rows[w], log' = Append(log, e),
           UNCHANGED <<outbox, first, groupVars, outcomeVars>>
    PROVE  Delivery!Add(e)
<1>. DEFINE n == Len(log) + 1
            Old(g) == {i \in first..Len(log) : g \in made /\ (tries[g][i] > 0 \/ last[g] < i)}
            New(g) == {i \in first'..Len(log') : g \in made' /\ (tries'[g][i] > 0 \/ last'[g] < i)}
<1>0. UNCHANGED <<first, made, last, tries, handled, recorded, outbox>> BY DEF groupVars, outcomeVars
<1>1. e \in Emitted /\ e \in Events
  BY DEF DeliveryInv, RowsAreEmitted, IInv, TypeOK, RelayType
<1>2. first \in Nat \ {0} /\ Len(log) \in Nat /\ Len(log') = n
  BY <1>1 DEF DeliveryInv, IInv, TypeOK, OutboxType
<1>3. ASSUME NEW g \in Groups, g \in made PROVE New(g) = Old(g) \cup {n}
  <2>1. last[g] \in Nat /\ last[g] < n /\ first <= n
    <3>1. g \in AllGroups BY DEF AllGroups
    <3>2. last[g] \in Nat /\ last[g] <= Len(log)
      BY <3>1 DEF DeliveryInv, IInv, TypeOK, GroupType, GroupsInOrder
    <3>3. first <= last[g] + 1 BY <1>3 DEF DeliveryInv, IInv, NothingNeededIsTrimmed
    <3>. QED BY <1>2, <3>2, <3>3
  <2>2. first..Len(log') = (first..Len(log)) \cup {n} /\ n \in Nat BY <1>2, <2>1
  <2>. QED BY <1>0, <1>2, <1>3, <2>1, <2>2
<1>4. ASSUME NEW g \in Groups, g \notin made PROVE New(g) = Old(g)
  BY <1>0, <1>4
<1>5. Held = [g \in Groups |-> Old(g)] /\ Held' = [g \in Groups |-> New(g)] BY DEF Held
<1>6. Held' = [g \in Groups |-> IF g \in made \cap Groups THEN Held[g] \cup {n} ELSE Held[g]]
  <2>. HIDE DEF Old, New, n
  <2>. QED BY <1>3, <1>4, <1>5
<1>7. Emitted' = Emitted /\ Published' = Published /\ SettledEvents' = SettledEvents
  BY <1>0 DEF Emitted, Published, SettledEvents
<1>. QED BY <1>0, <1>1, <1>6, <1>7 DEF Delivery!Add

LEMMA CommitDelivers ==
    ASSUME DeliveryInv, NEW w \in Workers, CommitPass(w)
    PROVE  Delivery!Publish(sent[w]) /\ sent[w] \in SUBSET Events
<1>1. outbox \in [Events -> {"none", "waiting", "published"}] /\ sent[w] \in SUBSET Events
  BY DEF DeliveryInv, IInv, TypeOK, OutboxType, RelayType
<1>2. outbox' = [e \in Events |-> IF e \in sent[w] THEN "published" ELSE outbox[e]]
  BY DEF CommitPass
<1>3. \A e \in sent[w] : \E i \in 1..Len(log) : log[i] = e BY DEF DeliveryInv, SentIsOnTheStream
<1>4. sent[w] \subseteq Emitted BY DEF DeliveryInv, RowsAreEmitted
<1>5. Published' = Published \cup sent[w] /\ Emitted' = Emitted
  BY <1>1, <1>2, <1>4 DEF Published, Emitted
<1>6. UNCHANGED <<log, first, made, last, tries, handled, recorded>>
  BY DEF CommitPass, streamVars, groupVars, outcomeVars
<1>7. Held' = Held /\ SettledEvents' = SettledEvents BY <1>6 DEF Held, SettledEvents
<1>. QED BY <1>1, <1>3, <1>5, <1>6, <1>7 DEF Delivery!Publish

(* A group that is made joins at the end of the stream. *)
LEMMA JoinDelivers ==
    ASSUME DeliveryInv, NEW w \in Workers, NEW g \in Running, Join(w, g)
    PROVE  (g \in Groups /\ Delivery!Subscribe(g)) \/ UNCHANGED DeliveryVars
<1>. USE DEF DeliveryInv, IInv, TypeOK
<1>1. UNCHANGED <<outbox, log, first, tries, handled, recorded>> BY DEF Join, groupVars, streamVars, outcomeVars
<1>2. UNCHANGED <<Emitted, Published, SettledEvents>> BY <1>1 DEF Emitted, Published, SettledEvents
<1>3. CASE g \in made
  <2>1. UNCHANGED <<made, last>> BY <1>3 DEF Join, groupVars
  <2>2. Held' = Held BY <1>1, <2>1 DEF Held
  <2>. QED BY <1>1, <1>2, <2>1, <2>2 DEF DeliveryVars
<1>4. CASE g \notin made
  <2>1. made' = made \cup {g} /\ last' = [last EXCEPT ![g] = Len(log)] BY <1>4 DEF Join, groupVars
  <2>2. g \in AllGroups /\ last'[g] = Len(log) /\ \A h \in AllGroups \ {g} : last'[h] = last[h]
    BY <2>1 DEF AllGroups, GroupType
  <2>3. Len(log) \in Nat /\ Len(log) <= MaxEntries /\ first \in Nat \ {0} BY DEF OutboxType
  <2>4. \A i \in first..Len(log) : ~(tries[g][i] > 0)
    <3>1. \A i \in first..Len(log) : i \in Ids BY <2>3, BoundsAssumption DEF Ids
    <3>2. \A i \in Ids : tries[g][i] = 0 BY <1>4, <2>2 DEF MadeBeforeRead
    <3>. QED BY <3>1, <3>2
  <2>. DEFINE Old(h) == {i \in first..Len(log) : h \in made /\ (tries[h][i] > 0 \/ last[h] < i)}
              New(h) == {i \in first'..Len(log') : h \in made' /\ (tries'[h][i] > 0 \/ last'[h] < i)}
  <2>5. ASSUME NEW h \in Groups PROVE New(h) = Old(h)
    <3>1. CASE h = g
      <4>1. \A i \in first..Len(log) : ~(last'[g] < i) BY <2>2, <2>3
      <4>2. New(g) = {} BY <1>1, <2>4, <4>1
      <4>3. Old(g) = {} BY <1>4
      <4>. QED BY <3>1, <4>2, <4>3
    <3>2. CASE h # g
      <4>1. h \in AllGroups /\ last'[h] = last[h] BY <2>2, <3>2 DEF AllGroups
      <4>2. h \in made' <=> h \in made BY <2>1, <3>2
      <4>. QED BY <1>1, <4>1, <4>2
    <3>. QED BY <3>1, <3>2
  <2>6. Held = [h \in Groups |-> Old(h)] /\ Held' = [h \in Groups |-> New(h)] BY DEF Held
  <2>. HIDE DEF Old, New
  <2>7. Held' = Held BY <2>5, <2>6
  <2>8. CASE g \in Groups
    <3>1. made' \cap Groups = (made \cap Groups) \cup {g} BY <2>1, <2>8
    <3>. QED BY <1>1, <1>2, <2>7, <2>8, <3>1 DEF Delivery!Subscribe
  <2>9. CASE g \notin Groups
    <3>1. made' \cap Groups = made \cap Groups BY <2>1, <2>9
    <3>. QED BY <1>1, <1>2, <2>7, <3>1 DEF DeliveryVars
  <2>. QED BY <2>8, <2>9
<1>. QED BY <1>3, <1>4

(* An entry a consumer has in hand is held for its group, unless it has been
   settled already. *)
LEMMA InHandIsHeld ==
    ASSUME DeliveryInv, NEW g \in Groups, NEW c \in Ids, g \in made, start[g] < c, c <= last[g]
    PROVE  /\ c \in 1..Len(log)
           /\ Settled(g, c) \/ c \in Held[g]
           /\ tries[g][c] > 0 => c \in Held[g]
<1>. USE DEF DeliveryInv, IInv, TypeOK
<1>1. g \in AllGroups BY DEF AllGroups
<1>2. last[g] \in Nat /\ last[g] <= Len(log) /\ Len(log) \in Nat /\ first \in Nat /\ c \in Nat /\ c > 0
  BY <1>1 DEF GroupType, GroupsInOrder, OutboxType, Ids
<1>3. tries[g][c] > 0 \/ Settled(g, c) BY DEF HandedIsAccounted
<1>4. ASSUME tries[g][c] > 0 PROVE c \in Held[g]
  <2>1. first <= c BY <1>4 DEF NothingNeededIsTrimmed, pending
  <2>2. c \in first..Len(log) BY <1>2, <2>1
  <2>. QED BY <1>4, <2>2 DEF Held
<1>. QED BY <1>2, <1>3, <1>4

(* A handler that finishes, and a record in the audit log, settle an entry. *)
LEMMA SettleDelivers ==
    ASSUME DeliveryInv, NEW g \in Running, NEW c \in Ids, g \in made, start[g] < c, c <= last[g],
           \/ handled' = [handled EXCEPT ![g] = @ \cup {log[c]}] /\ recorded' = recorded
           \/ recorded' = [recorded EXCEPT ![g] = @ \cup {log[c]}] /\ handled' = handled,
           UNCHANGED <<outbox, streamVars, groupVars>>
    PROVE  \/ g \in Groups /\ c \in 1..Len(log) /\ Delivery!Settle(g, c)
           \/ UNCHANGED DeliveryVars
<1>. USE DEF DeliveryInv, IInv, TypeOK
<1>1. UNCHANGED <<outbox, log, first, made, last, tries>> BY DEF streamVars, groupVars
<1>2. UNCHANGED <<Emitted, Published, Held>> BY <1>1 DEF Emitted, Published, Held
<1>3. handled \in [AllGroups -> SUBSET Events] /\ recorded \in [AllGroups -> SUBSET Events]
  BY DEF OutcomeType
<1>4. ASSUME NEW h \in Groups
      PROVE  handled'[h] \cup recorded'[h]
               = IF h = g THEN handled[h] \cup recorded[h] \cup {log[c]} ELSE handled[h] \cup recorded[h]
  <2>1. h \in AllGroups BY DEF AllGroups
  <2>2. CASE h = g BY <1>3, <2>1, <2>2
  <2>3. CASE h # g BY <1>3, <2>1, <2>3
  <2>. QED BY <2>2, <2>3
<1>5. CASE g \in Groups /\ ~Settled(g, c)
  <2>1. c \in Held[g] /\ c \in 1..Len(log) BY <1>5, InHandIsHeld
  <2>2. SettledEvents' = [SettledEvents EXCEPT ![g] = @ \cup {log[c]}]
    BY <1>4, <1>5 DEF SettledEvents
  <2>. QED BY <1>1, <1>2, <1>5, <2>1, <2>2 DEF Delivery!Settle
<1>6. CASE g \notin Groups \/ Settled(g, c)
  <2>1. \A h \in Groups : handled'[h] \cup recorded'[h] = handled[h] \cup recorded[h]
    BY <1>4, <1>6 DEF Settled
  <2>2. SettledEvents' = SettledEvents BY <2>1 DEF SettledEvents
  <2>. QED BY <1>1, <1>2, <2>2 DEF DeliveryVars
<1>. QED BY <1>5, <1>6

(* An acknowledgement lets go of a settled entry. *)
LEMMA AckDelivers ==
    ASSUME DeliveryInv, TypeOK', NEW w \in Workers, NEW g \in Running, ack(w, g)
    PROVE  \/ g \in Groups /\ cur[w][g] \in 1..Len(log) /\ Delivery!LetGo(g, cur[w][g])
           \/ UNCHANGED DeliveryVars
<1>. DEFINE c == cur[w][g]
<1>. USE DEF DeliveryInv, IInv, TypeOK
<1>1. UNCHANGED <<outbox, log, first, made, last, handled, recorded>>
  BY DEF ack, streamVars, outcomeVars
<1>2. UNCHANGED <<Emitted, Published, SettledEvents>> BY <1>1 DEF Emitted, Published, SettledEvents
<1>3. stage[w][g] = "settled" /\ tries' = [tries EXCEPT ![g][c] = 0] BY DEF ack, InHand
<1>4. c \in Ids /\ c <= last[g] /\ g \in made /\ start[g] < c /\ g \in AllGroups /\ Settled(g, c)
  BY <1>3 DEF HandsInOrder, HandsAreTheGroups, AllGroups, SettledBeforeAck
<1>. HIDE DEF c
<1>5. \A h \in AllGroups : \A i \in Ids :
        tries'[h][i] = IF h = g /\ i = c THEN 0 ELSE tries[h][i]
  BY <1>3, <1>4 DEF GroupType
<1>6. Len(log) \in Nat /\ Len(log) <= MaxEntries /\ first \in Nat \ {0} /\ c \in Nat /\ last[g] \in Nat
  BY <1>4 DEF OutboxType, Ids, GroupType
<1>7. CASE g \in Groups /\ tries[g][c] > 0
  <2>1. c \in Held[g] /\ c \in 1..Len(log) BY <1>4, <1>7, InHandIsHeld
  <2>2. log[c] \in SettledEvents[g] BY <1>4, <1>7 DEF Settled, SettledEvents
  <2>. DEFINE Old(h) == {i \in first..Len(log) : h \in made /\ (tries[h][i] > 0 \/ last[h] < i)}
              New(h) == {i \in first'..Len(log') : h \in made' /\ (tries'[h][i] > 0 \/ last'[h] < i)}
  <2>3. \A i \in first..Len(log) : i \in Ids BY <1>6, BoundsAssumption DEF Ids
  <2>4. ASSUME NEW h \in Groups, h # g PROVE New(h) = Old(h)
    <3>1. h \in AllGroups BY DEF AllGroups
    <3>2. \A i \in first..Len(log) : tries'[h][i] = tries[h][i] BY <1>5, <2>3, <2>4, <3>1
    <3>. QED BY <1>1, <3>2
  <2>5. New(g) = Old(g) \ {c}
    <3>1. ~(last[g] < c) BY <1>4, <1>6
    <3>2. \A i \in first..Len(log) : i # c => tries'[g][i] = tries[g][i] BY <1>4, <1>5, <2>3
    <3>3. ~(tries'[g][c] > 0) BY <1>4, <1>5
    <3>. QED BY <1>1, <3>1, <3>2, <3>3
  <2>6. Held = [h \in Groups |-> Old(h)] /\ Held' = [h \in Groups |-> New(h)] BY DEF Held
  <2>. HIDE DEF Old, New
  <2>7. Held' = [Held EXCEPT ![g] = @ \ {c}] BY <1>7, <2>4, <2>5, <2>6
  <2>. QED BY <1>1, <1>2, <1>7, <2>1, <2>2, <2>7 DEF Delivery!LetGo, c
<1>8. CASE g \notin Groups \/ ~(tries[g][c] > 0)
  <2>1. \A i \in 1..Len(log) : i \in Ids BY <1>6, BoundsAssumption DEF Ids
  <2>2. ASSUME NEW h \in made \cap Groups, NEW i \in 1..Len(log)
        PROVE  tries[h][i] > 0 <=> tries'[h][i] > 0
    <3>1. h \in AllGroups /\ i \in Ids BY <2>1 DEF AllGroups
    <3>. QED BY <1>5, <1>8, <3>1
  <2>3. Held' = Held BY <1>1, <2>2, HeldStays
  <2>. QED BY <1>1, <1>2, <2>3 DEF DeliveryVars
<1>. QED BY <1>7, <1>8

(* A read moves entries from ahead of the group to its pending list. *)
LEMMA ReadDelivers ==
    ASSUME DeliveryInv, TypeOK', NEW w \in Workers, NEW g \in Running, Read(w, g)
    PROVE  UNCHANGED DeliveryVars
<1>. USE DEF DeliveryInv, IInv, TypeOK
<1>1. UNCHANGED <<outbox, log, first, made, handled, recorded>>
  BY DEF Read, streamVars, outcomeVars
<1>2. UNCHANGED <<Emitted, Published, SettledEvents>> BY <1>1 DEF Emitted, Published, SettledEvents
<1>. DEFINE end == smaller(Len(log), larger(first - 1, last[g]) + ReadSize)
<1>3. g \in AllGroups /\ Fresh(g) # {} /\ last' = [last EXCEPT ![g] = end]
      /\ tries' = [tries EXCEPT ![g] = [i \in Ids |-> IF i \in Fresh(g) THEN 1 ELSE tries[g][i]]]
  BY DEF Read, AllGroups, GroupType
<1>4. Len(log) \in Nat /\ Len(log) <= MaxEntries /\ first \in Nat \ {0} BY DEF OutboxType
<1>5. \A i \in 1..Len(log) : i \in Ids BY <1>4, BoundsAssumption DEF Ids
<1>6. ASSUME NEW h \in made \cap Groups, NEW i \in 1..Len(log)
      PROVE  (first <= i /\ (tries[h][i] > 0 \/ last[h] < i))
               <=> (first' <= i /\ (tries'[h][i] > 0 \/ last'[h] < i))
  <2>1. h \in AllGroups /\ i \in Ids /\ i \in Nat BY <1>5 DEF AllGroups, Ids
  <2>2. CASE h # g
    <3>1. last'[h] = last[h] /\ tries'[h] = tries[h] BY <1>3, <2>1, <2>2 DEF GroupType
    <3>. QED BY <1>1, <3>1
  <2>3. CASE h = g
    <3>1. last'[g] = end /\ tries'[g][i] = IF i \in Fresh(g) THEN 1 ELSE tries[g][i]
      BY <1>3, <2>1 DEF GroupType
    <3>2. last[g] \in Nat /\ first <= last[g] + 1 /\ (tries[g][i] > 0 => i <= last[g])
      BY <1>3, <2>1, <2>3 DEF GroupType, NothingNeededIsTrimmed, GroupsInOrder
    <3>3. end \in Nat /\ last[g] < end
      BY <1>3, FreshBounds
    <3>4. i \in Fresh(g) <=> last[g] < i /\ i <= end
      BY <1>4, <2>1, <3>2, <3>3 DEF Fresh, larger
    <3>. HIDE DEF end
    <3>5. CASE first <= i BY <1>1, <2>1, <2>3, <3>1, <3>2, <3>3, <3>4, <3>5
    <3>6. CASE ~(first <= i) BY <1>1, <2>3, <3>6
    <3>. QED BY <3>5, <3>6
  <2>. QED BY <2>2, <2>3
<1>7. Held' = Held BY <1>1, <1>6, HeldStays
<1>. QED BY <1>1, <1>2, <1>7 DEF DeliveryVars

(* A claim hands out again what is pending, and drops nothing that the stream
   still has. *)
LEMMA ClaimDelivers ==
    ASSUME DeliveryInv, TypeOK', NEW w \in Workers, NEW g \in Running, claim(w, g)
    PROVE  UNCHANGED DeliveryVars
<1>. USE DEF DeliveryInv, IInv, TypeOK
<1>1. UNCHANGED <<outbox, log, first, made, last, handled, recorded>>
  BY DEF claim, streamVars, outcomeVars
<1>2. UNCHANGED <<Emitted, Published, SettledEvents>> BY <1>1 DEF Emitted, Published, SettledEvents
<1>3. g \in AllGroups BY DEF AllGroups
<1>4. PICK abandoned \in SUBSET pending(g) :
            tries' = [tries EXCEPT ![g] = [j \in Ids |->
              IF j \notin abandoned THEN tries[g][j]
              ELSE IF j < first THEN 0
              ELSE smaller(tries[g][j] + 1, MaxDeliveries)]]
  BY <1>3 DEF claim
<1>5. Len(log) \in Nat /\ Len(log) <= MaxEntries /\ first \in Nat BY DEF OutboxType
<1>6. ASSUME NEW h \in made \cap Groups, NEW i \in 1..Len(log)
      PROVE  (first <= i /\ (tries[h][i] > 0 \/ last[h] < i))
               <=> (first' <= i /\ (tries'[h][i] > 0 \/ last'[h] < i))
  <2>1. h \in AllGroups /\ i \in Ids /\ i \in Nat
    BY <1>5, BoundsAssumption DEF AllGroups, Ids
  <2>2. tries[h][i] \in Nat BY <2>1 DEF GroupType
  <2>3. first <= i => (tries[h][i] > 0 <=> tries'[h][i] > 0)
    <3>1. CASE h # g \/ i \notin abandoned BY <1>3, <1>4, <2>1, <3>1 DEF GroupType
    <3>2. CASE h = g /\ i \in abandoned /\ first <= i
      <4>1. tries[h][i] > 0 BY <3>2 DEF pending
      <4>2. tries'[h][i] = smaller(tries[h][i] + 1, MaxDeliveries)
        BY <1>3, <1>4, <1>5, <2>1, <3>2 DEF GroupType
      <4>. QED BY <2>2, <4>1, <4>2, BoundsAssumption DEF smaller
    <3>. QED BY <3>1, <3>2
  <2>. QED BY <1>1, <2>3
<1>7. Held' = Held BY <1>1, <1>6, HeldStays
<1>. QED BY <1>1, <1>2, <1>7 DEF DeliveryVars

(* A trim takes away nothing that is held. *)
LEMMA TrimDelivers ==
    ASSUME DeliveryInv, IInv', first <= first',
           UNCHANGED <<outbox, log, groupVars, outcomeVars>>
    PROVE  UNCHANGED DeliveryVars
<1>. USE DEF DeliveryInv, IInv, TypeOK
<1>1. UNCHANGED <<made, last, tries, handled, recorded>> BY DEF groupVars, outcomeVars
<1>2. UNCHANGED <<Emitted, Published, SettledEvents>> BY <1>1 DEF Emitted, Published, SettledEvents
<1>3. Len(log) \in Nat /\ Len(log) <= MaxEntries /\ first \in Nat /\ first' \in Nat BY DEF OutboxType
<1>4. ASSUME NEW h \in made \cap Groups, NEW i \in 1..Len(log)
      PROVE  (first <= i /\ (tries[h][i] > 0 \/ last[h] < i))
               <=> (first' <= i /\ (tries'[h][i] > 0 \/ last'[h] < i))
  <2>1. h \in AllGroups /\ i \in Ids /\ i \in Nat
    BY <1>3, BoundsAssumption DEF AllGroups, Ids
  <2>2. last[h] \in Nat BY <2>1 DEF GroupType
  <2>3. first' <= last[h] + 1 /\ (tries[h][i] > 0 => first' <= i)
    BY <1>1, <2>1 DEF NothingNeededIsTrimmed, pending
  <2>. QED BY <1>1, <1>3, <2>1, <2>2, <2>3
<1>5. Held' = Held BY <1>1, <1>4, HeldStays
<1>. QED BY <1>1, <1>2, <1>5 DEF DeliveryVars

(* The steps that touch none of what EventDelivery speaks of. *)
LEMMA OthersDeliver ==
    ASSUME UNCHANGED <<outbox, log, first, made, last, tries, handled, recorded>>
    PROVE  UNCHANGED DeliveryVars
BY DEF DeliveryVars, Emitted, Published, Held, SettledEvents

LEMMA StepDelivers ==
    ASSUME DeliveryInv, IInv', [Next]_vars
    PROVE  [Delivery!Next]_DeliveryVars
<1>. USE DEF streamVars, groupVars, outcomeVars
<1>0. TypeOK /\ TypeOK' /\ IInv BY DEF DeliveryInv, IInv
<1>1. ASSUME NEW e \in Events, Emit(e) PROVE Delivery!Next
  BY <1>1, EmitDelivers DEF Delivery!Next
<1>2. ASSUME NEW w \in Workers, NEW e \in Events, publish(w, e) \/ PublishFails(w, e)
      PROVE  Delivery!Next \/ UNCHANGED DeliveryVars
  <2>1. e \in rows[w] /\ UNCHANGED <<outbox, first, groupVars, outcomeVars>>
    BY <1>2 DEF publish, PublishFails, IsNext
  <2>2. CASE log' = Append(log, e)
    <3>1. Delivery!Add(e) BY <1>0, <2>1, <2>2, AddDelivers
    <3>. QED BY <3>1 DEF Delivery!Next
  <2>3. CASE UNCHANGED log BY <2>1, <2>3, OthersDeliver
  <2>. QED BY <1>2, <2>2, <2>3 DEF publish, PublishFails
<1>3. ASSUME NEW w \in Workers, CommitPass(w) PROVE Delivery!Next
  BY <1>3, CommitDelivers DEF Delivery!Next
<1>4. ASSUME NEW w \in Workers, NEW g \in Running, Join(w, g)
      PROVE  Delivery!Next \/ UNCHANGED DeliveryVars
  BY <1>4, JoinDelivers DEF Delivery!Next
<1>5. ASSUME NEW w \in Workers, NEW g \in Running, Handle(w, g)
      PROVE  Delivery!Next \/ UNCHANGED DeliveryVars
  <2>1. PICK i \in hand[w][g] :
          \/ handled' = [handled EXCEPT ![g] = @ \cup {log[i]}]
          \/ handled' = handled
    BY <1>5 DEF Handle
  <2>2. UNCHANGED <<outbox, log, first, made, start, last, tries, recorded>> BY <1>5 DEF Handle
  <2>3. i \in Ids /\ i <= last[g] /\ g \in made /\ start[g] < i
    BY DEF DeliveryInv, IInv, TypeOK, ConsumerType, HandsInOrder, HandsAreTheGroups
  <2>4. CASE handled' = handled BY <2>2, <2>4, OthersDeliver
  <2>5. CASE handled' = [handled EXCEPT ![g] = @ \cup {log[i]}]
    <3>1. (g \in Groups /\ i \in 1..Len(log) /\ Delivery!Settle(g, i)) \/ UNCHANGED DeliveryVars
      BY <2>2, <2>3, <2>5, SettleDelivers
    <3>. QED BY <3>1 DEF Delivery!Next
  <2>. QED BY <2>1, <2>4, <2>5
<1>6. ASSUME NEW w \in Workers, NEW g \in Running, deadLetter(w, g)
      PROVE  Delivery!Next \/ UNCHANGED DeliveryVars
  <2>. DEFINE c == cur[w][g]
  <2>1. /\ recorded' = [recorded EXCEPT ![g] = @ \cup {log[c]}] /\ stage[w][g] # "idle"
        /\ UNCHANGED <<outbox, log, first, made, start, last, tries, handled>>
    BY <1>6 DEF deadLetter, InHand
  <2>2. c \in Ids /\ c <= last[g] /\ g \in made /\ start[g] < c
    BY <2>1 DEF DeliveryInv, IInv, HandsInOrder, HandsAreTheGroups
  <2>. HIDE DEF c
  <2>3. (g \in Groups /\ c \in 1..Len(log) /\ Delivery!Settle(g, c)) \/ UNCHANGED DeliveryVars
    BY <2>1, <2>2, SettleDelivers
  <2>. QED BY <2>3 DEF Delivery!Next
<1>7. ASSUME NEW w \in Workers, NEW g \in Running, ack(w, g)
      PROVE  Delivery!Next \/ UNCHANGED DeliveryVars
  BY <1>0, <1>7, AckDelivers DEF Delivery!Next
<1>8. ASSUME NEW w \in Workers, NEW g \in Running, Read(w, g) \/ claim(w, g)
      PROVE  UNCHANGED DeliveryVars
  BY <1>0, <1>8, ReadDelivers, ClaimDelivers
<1>9. ASSUME NEW w \in Workers, TrimMinID(w) \/ TrimMaxLen(w) PROVE UNCHANGED DeliveryVars
  <2>1. first \in Nat /\ first' \in Nat /\ Len(log) \in Nat /\ floor[w] \in Nat
    BY <1>0 DEF TypeOK, OutboxType, RelayType
  <2>2. first <= first'
    <3>1. CASE TrimMinID(w) BY <2>1, <3>1 DEF TrimMinID, larger, smaller
    <3>2. CASE TrimMaxLen(w) BY <2>1, <3>2 DEF TrimMaxLen
    <3>. QED BY <1>9, <3>1, <3>2
  <2>3. UNCHANGED <<outbox, log, groupVars, outcomeVars>> BY <1>9 DEF TrimMinID, TrimMaxLen
  <2>. QED BY <1>0, <2>2, <2>3, TrimDelivers
<1>10. \/ UNCHANGED <<outbox, log, first, made, last, tries, handled, recorded>>
       \/ \E e \in Events : Emit(e)
       \/ \E w \in Workers : \/ CommitPass(w) \/ TrimMinID(w) \/ TrimMaxLen(w)
                             \/ \E e \in Events : publish(w, e) \/ PublishFails(w, e)
                             \/ \E g \in Running : \/ Join(w, g) \/ Read(w, g) \/ claim(w, g)
                                                   \/ Handle(w, g) \/ deadLetter(w, g) \/ ack(w, g)
  BY SMTT(30) DEF Next, vars, RelayStep, TrimInfo, Measure, TrimPending, ClaimRows, ClaimNothing,
       FaultStep, TrimFails, RollBackPass, Stop, Crash, GoDown, ConsumerCallFails, Start, Exit,
       OneStep, deliveries
<1>. QED BY <1>1, <1>2, <1>3, <1>4, <1>5, <1>6, <1>7, <1>8, <1>9, <1>10, OthersDeliver

(* The outbox, the relay and the stream implement at-least-once delivery to
   every group the relay waits for, for any number of workers, groups, events
   and faults, on a stream that has one group. *)
THEOREM Refinement ==
    ASSUME Made \cap Groups # {}
    PROVE  Spec => DeliversAtLeastOnce
<1>1. Init => DeliveryInv
  <2>. SUFFICES ASSUME Init PROVE DeliveryInv OBVIOUS
  <2>1. IInv BY IInvInit
  <2>2. HandsAreTheGroups BY DEF Init, HandsAreTheGroups
  <2>3. RowsAreEmitted /\ SentIsOnTheStream /\ PublishedIsOnTheStream
    BY DEF Init, RowsAreEmitted, SentIsOnTheStream, PublishedIsOnTheStream
  <2>. QED BY <2>1, <2>2, <2>3 DEF DeliveryInv
<1>2. ASSUME DeliveryInv, [Next]_vars PROVE DeliveryInv' /\ IInv'
  <2>1. IInv' BY <1>2, IInvStep DEF DeliveryInv
  <2>2. TypeInv /\ TypeInv' /\ TypeOK BY <1>2, <2>1 DEF DeliveryInv, IInv, TypeInv
  <2>3. HandsAreTheGroups' BY <1>2, <2>2, HandsAreTheGroupsStep DEF DeliveryInv, IInv
  <2>4. RowsAreEmitted' BY <1>2, <2>2, RowsAreEmittedStep DEF DeliveryInv
  <2>5. SentIsOnTheStream' /\ PublishedIsOnTheStream' BY <1>2, <2>2, OnTheStreamStep DEF DeliveryInv
  <2>. QED BY <2>1, <2>3, <2>4, <2>5 DEF DeliveryInv
<1>3. Init => Delivery!Init
  <2>. SUFFICES ASSUME Init PROVE Delivery!Init OBVIOUS
  <2>1. Emitted = {} /\ Published = {} /\ log = <<>> BY DEF Init, Emitted, Published
  <2>2. Held = [g \in Groups |-> {}] BY DEF Init, Held
  <2>3. SettledEvents = [g \in Groups |-> {}] BY DEF Init, SettledEvents, AllGroups
  <2>. QED BY <2>1, <2>2, <2>3 DEF Delivery!Init
<1>4. DeliveryInv /\ [Next]_vars => [Delivery!Next]_DeliveryVars
  BY <1>2, StepDelivers
<1>. QED BY <1>1, <1>2, <1>3, <1>4, PTL
     DEF Spec, DeliversAtLeastOnce, Delivery!Spec, Delivery!vars, DeliveryVars
=============================================================================
