------------------------- MODULE ClientForms_proofs -------------------------
(***************************************************************************)
(* Proofs about ClientForms, for any number of calls, fillings, openings   *)
(* and pieces and any set of kinds.  The argument: a component that goes   *)
(* takes what was filled in along, so a call that carries what is filled   *)
(* in now was made by the form on the screen (or, of a kept draft, by one  *)
(* that was left), and that form's mutation follows it until it is over or *)
(* a press comes before the screen can show it pending.                    *)
(***************************************************************************)
EXTENDS ClientForms, TLAPS

USE BoundsAssumption

(* A control that is held while its call is under way, to the end of what  *)
(* follows it, and one that is gone with the press.                        *)
Holding ==
  ~kind.asks /\ (kind.waits \/ kind.locks) /\ (kind.follows => kind.async /\ ~kind.stays)

Gesture == kind.gone /\ ~kind.asks

Asking(c) == phase[c] \in {"sent", "done", "refused"}

(* Numbers are given out in order, and pieces follow only where they may.  *)
InOrder ==
  /\ filled <= fillings /\ asked <= fillings /\ draft <= fillings
  /\ asker <= opening /\ (asked # Nothing => kind.asks)
  /\ kind.locks => ~kind.asks /\ ~kind.stays /\ ~kind.follows
  /\ kind.keeps => ~kind.asks /\ ~kind.stays /\ ~kind.gone
  /\ \A c \in Calls :
       /\ of[c] <= fillings /\ by[c] <= opening
       /\ UnderWay(c) => of[c] # Nothing
       /\ todo[c] > 0 \/ phase[c] = "following" => kind.follows
       /\ missed[c] => phase[c] \in {"following", "ended"}
       /\ phase[c] = "new" => c \notin unseen /\ \A d \in Calls : d > c => phase[d] = "new"

(* A component that goes takes what was filled in and its mutation along.  *)
GoneIsEmpty ==
  /\ ~shown /\ ~kind.stays => filled = Nothing /\ latest = Nothing
  /\ asked # Nothing => filled \in {asked, Nothing}
  /\ asked # Nothing /\ filled = asked => kind.stays \/ (shown /\ asker = opening)
  /\ \A c \in Calls :
       UnderWay(c) /\ of[c] = filled /\ ~kind.stays /\ ~kind.keeps => by[c] = opening

(* Between a call and a later one what it carries was sent by a press that *)
(* came before the screen showed the call pending.                         *)
Again(c, d) == \E b \in unseen : c < b /\ b <= d /\ of[b] = of[c]

(* The call this form made of what is filled in holds the control: the     *)
(* mutation follows it, or the form counts what follows it, unless it was  *)
(* overtaken unseen.                                                       *)
FillingIsHeld ==
  Holding =>
    \A c \in Calls :
      UnderWay(c) /\ of[c] = filled /\ (kind.keeps => by[c] = opening)
        => \/ latest = c /\ Asking(c)
           \/ kind.async /\ phase[c] = "following" /\ by[c] = opening
           \/ ~kind.locks /\ Again(c, MaxCalls)

(* A gesture is sent once.                                                 *)
GestureIsGone ==
  Gesture => asked = Nothing /\ \A c \in Calls : UnderWay(c) => of[c] # filled

SentOnce ==
  Holding \/ Gesture =>
    \A c, d \in Calls :
      c < d /\ UnderWay(c) /\ UnderWay(d) /\ of[c] = of[d]
        => \/ ~kind.locks /\ ~kind.gone /\ Again(c, d)
           \/ kind.keeps /\ by[c] # by[d]

(* On the screen that made a call its mutation follows it, or the next.    *)
ReaderFollows ==
  \A c \in Calls :
    Asking(c) /\ shown /\ by[c] = opening
      => \/ latest = c
         \/ /\ ~kind.locks
            /\ \E d \in Calls : d > c /\ phase[d] # "new" /\ (kind.waits => d \in unseen)

(* A mutation that does not outlive its opening follows a call of its own. *)
FollowsItsOwn ==
  \A c \in Calls :
    latest = c => /\ phase[c] # "new"
                  /\ ~kind.stays \/ (kind.resets /\ ~kind.asks) => by[c] = opening

LEMMA InitTypeOK == Init => TypeOK
<1> SUFFICES ASSUME Init PROVE TypeOK
  OBVIOUS
<1>1. kind \in [Words -> BOOLEAN]
  BY KindsAssumption DEF Init
<1> QED
  BY <1>1 DEF Init, TypeOK, Phases, Places, Nothing

LEMMA FinishTypes ==
  ASSUME TypeOK, NEW c \in Calls, Finish(c)
  PROVE  /\ shown' \in BOOLEAN /\ (shown' => shown) /\ filled' \in Nat
         /\ latest' \in Calls \cup {Nothing}
         /\ heard' \in [Calls -> Places] /\ drawn' \in BOOLEAN /\ draft' = 0
         /\ \A y \in Calls : y # c => heard'[y] = heard[y]
<1> USE DEF TypeOK, Nothing, Places
<1>1. filled' \in {filled, 0} /\ latest' \in {latest, 0}
  BY DEF Finish
<1>2. shown' = shown \/ ~shown'
  BY DEF Finish
<1>3. heard' = [heard EXCEPT ![c] = IF Here(c) THEN "form" ELSE "nowhere"]
  BY DEF Finish
<1>4. filled' \in Nat /\ latest' \in Calls \cup {Nothing}
  BY <1>1
<1>5. shown' \in BOOLEAN /\ drawn' \in BOOLEAN /\ draft' = 0
  BY DEF Finish
<1>7. shown' => shown
  BY <1>2
<1>6. heard' \in [Calls -> Places] /\ \A y \in Calls : y # c => heard'[y] = heard[y]
  BY <1>3
<1> QED
  BY <1>4, <1>5, <1>6, <1>7

LEMMA StepTypeOK == TypeOK /\ [Next]_vars => TypeOK'
<1> SUFFICES ASSUME TypeOK, [Next]_vars PROVE TypeOK'
  OBVIOUS
<1> USE DEF TypeOK, Phases, Places, Nothing
<1>1. CASE Fill
  BY <1>1 DEF Fill
<1>2. CASE Ask
  BY <1>2 DEF Ask, Pressable
<1>3. CASE Decline
  BY <1>3 DEF Decline
<1>4. CASE Close
  <2>1. /\ shown' = FALSE /\ drawn' = FALSE /\ draft' \in {draft, 0}
        /\ UNCHANGED <<kind, opening, fillings, asked, asker, phase, of, by, todo, missed,
            heard, unseen>>
    BY <1>4 DEF Close
  <2>2. filled' \in {filled, 0} /\ latest' \in {latest, 0} /\ named' \in {named, 0}
    BY <1>4 DEF Close
  <2>3. latest' \in Calls \cup {Nothing} /\ named' \in Calls \cup {Nothing} /\ filled' \in Nat
    BY <2>2
  <2>4. draft' \in Nat
    BY <2>1
  <2> QED
    BY <2>1, <2>3, <2>4
<1>5. CASE Open
  BY <1>5 DEF Open, Pending
<1>6. ASSUME NEW c \in Calls, Press(c) \/ Confirm(c) \/ Serve(c) \/ Answer(c) PROVE TypeOK'
  <2>1. CASE Press(c)
    BY <2>1 DEF Press, Send, Pressable
  <2>2. CASE Confirm(c)
    BY <2>2 DEF Confirm, Send
  <2>3. CASE Serve(c)
    BY <2>3 DEF Serve, form
  <2>4. CASE AnswerEnds(c)
    <3>1. /\ phase' = [phase EXCEPT ![c] = "ended"]
          /\ UNCHANGED <<kind, opening, fillings, asked, asker, of, by, named, todo, missed,
                         unseen>>
      BY <2>4 DEF AnswerEnds, Finish
    <3>2. Finish(c)
      BY <2>4 DEF AnswerEnds
    <3> QED
      BY <3>1, <3>2, FinishTypes
  <2>5. CASE AnswerUnheard(c)
    BY <2>5 DEF AnswerUnheard, form
  <2>6. CASE AnswerFollowed(c)
    BY <2>6 DEF AnswerFollowed, form
  <2>7. CASE Follow(c)
    BY <2>7 DEF Follow, form
  <2>8. CASE LandWhole(c)
    <3>1. /\ phase' = [phase EXCEPT ![c] = "ended"] /\ todo' = [todo EXCEPT ![c] = 0]
          /\ UNCHANGED <<kind, opening, fillings, asked, asker, of, by, named, missed, unseen>>
      BY <2>8 DEF LandWhole, Finish
    <3>2. Finish(c)
      BY <2>8 DEF LandWhole
    <3> QED
      BY <3>1, <3>2, FinishTypes
  <2>9. CASE LandShort(c)
    BY <2>9 DEF LandShort
  <2>10. CASE AnswerFails(c)
    BY <2>10 DEF AnswerFails, form
  <2> QED
    BY <1>6, <2>1, <2>2, <2>3, <2>4, <2>5, <2>6, <2>7, <2>8, <2>9, <2>10 DEF Answer
<1>7. CASE UNCHANGED vars
  BY <1>7 DEF vars, form
<1>8. CASE Render
  BY <1>8 DEF Render, Pending
<1> QED
  BY <1>1, <1>2, <1>3, <1>4, <1>5, <1>6, <1>7, <1>8 DEF Next

LEMMA CallsAreNat == Calls \subseteq Nat /\ Nothing \notin Calls
BY DEF Calls, Nothing

(* What sending does to the calls.                                         *)
LEMMA SendEffect ==
  ASSUME TypeOK, NEW c \in Calls, NEW filling, NEW from, Send(c, filling, from)
  PROVE  /\ phase[c] = "new" /\ phase'[c] = "sent" /\ of'[c] = filling /\ by'[c] = from
         /\ \A x \in Calls : x # c => phase'[x] = phase[x] /\ of'[x] = of[x] /\ by'[x] = by[x]
         /\ latest' = IF kind.stays \/ (shown /\ from = opening) THEN c ELSE latest
         /\ unseen' = IF Pending /\ (kind.asks \/ ~drawn) THEN unseen \cup {c} ELSE unseen
         /\ \A x \in Calls : x < c => phase[x] # "new"
         /\ UNCHANGED <<missed, heard>>
BY DEF TypeOK, Send

LEMMA StepInOrder == TypeOK /\ InOrder /\ [Next]_vars => InOrder'
<1> SUFFICES ASSUME TypeOK, InOrder, [Next]_vars PROVE InOrder'
  OBVIOUS
<1> USE DEF TypeOK, InOrder, UnderWay, Nothing
<1>1. CASE Fill
  BY <1>1 DEF Fill
<1>2. CASE Ask
  BY <1>2 DEF Ask, Pressable
<1>3. CASE Decline
  BY <1>3 DEF Decline
<1>4. CASE Close
  BY <1>4 DEF Close
<1>5. CASE Open
  BY <1>5 DEF Open
<1>6. ASSUME NEW c \in Calls, Press(c) \/ Confirm(c) \/ Serve(c) \/ Answer(c) PROVE InOrder'
  <2>1. CASE Press(c)
    BY <2>1 DEF Press, Send, Pressable
  <2>2. CASE Confirm(c)
    BY <2>2 DEF Confirm, Send
  <2>3. CASE Serve(c)
    BY <2>3 DEF Serve, form
  <2>4. CASE AnswerEnds(c)
    BY <2>4 DEF AnswerEnds, Finish
  <2>5. CASE AnswerUnheard(c)
    BY <2>5 DEF AnswerUnheard, form
  <2>6. CASE AnswerFollowed(c)
    BY <2>6 DEF AnswerFollowed, form
  <2>7. CASE Follow(c)
    BY <2>7 DEF Follow, form
  <2>8. CASE LandWhole(c)
    BY <2>8 DEF LandWhole, Finish
  <2>9. CASE LandShort(c)
    BY <2>9 DEF LandShort
  <2>10. CASE AnswerFails(c)
    BY <2>10 DEF AnswerFails, form
  <2> QED
    BY <1>6, <2>1, <2>2, <2>3, <2>4, <2>5, <2>6, <2>7, <2>8, <2>9, <2>10 DEF Answer
<1>7. CASE UNCHANGED vars
  BY <1>7 DEF vars, form
<1>8. CASE Render
  BY <1>8 DEF Render
<1> QED
  BY <1>1, <1>2, <1>3, <1>4, <1>5, <1>6, <1>7, <1>8 DEF Next

LEMMA StepGone == TypeOK /\ InOrder /\ GoneIsEmpty /\ [Next]_vars => GoneIsEmpty'
<1> SUFFICES ASSUME TypeOK, InOrder, GoneIsEmpty, [Next]_vars PROVE GoneIsEmpty'
  OBVIOUS
<1> USE DEF TypeOK, InOrder, GoneIsEmpty, UnderWay, Nothing
<1>1. CASE Fill
  BY <1>1 DEF Fill
<1>2. CASE Ask
  BY <1>2 DEF Ask, Pressable
<1>3. CASE Decline
  BY <1>3 DEF Decline
<1>4. CASE Close
  BY <1>4 DEF Close
<1>5. CASE Open
  BY <1>5 DEF Open
<1>6. ASSUME NEW c \in Calls, Press(c) \/ Confirm(c) \/ Serve(c) \/ Answer(c) PROVE GoneIsEmpty'
  <2>1. CASE Press(c)
    BY <2>1 DEF Press, Send, Pressable
  <2>2. CASE Confirm(c)
    BY <2>2 DEF Confirm, Send
  <2>3. CASE Serve(c)
    BY <2>3 DEF Serve, form
  <2>4. CASE AnswerEnds(c)
    BY <2>4 DEF AnswerEnds, Finish
  <2>5. CASE AnswerUnheard(c)
    BY <2>5 DEF AnswerUnheard, form
  <2>6. CASE AnswerFollowed(c)
    BY <2>6 DEF AnswerFollowed, form
  <2>7. CASE Follow(c)
    BY <2>7 DEF Follow, form
  <2>8. CASE LandWhole(c)
    BY <2>8 DEF LandWhole, Finish
  <2>9. CASE LandShort(c)
    BY <2>9 DEF LandShort
  <2>10. CASE AnswerFails(c)
    BY <2>10 DEF AnswerFails, form
  <2> QED
    BY <1>6, <2>1, <2>2, <2>3, <2>4, <2>5, <2>6, <2>7, <2>8, <2>9, <2>10 DEF Answer
<1>7. CASE UNCHANGED vars
  BY <1>7 DEF vars, form
<1>8. CASE Render
  BY <1>8 DEF Render
<1> QED
  BY <1>1, <1>2, <1>3, <1>4, <1>5, <1>6, <1>7, <1>8 DEF Next

(* What is under way is pressed for again only before it is shown.         *)
LEMMA PressedAgain ==
  ASSUME TypeOK, InOrder, GoneIsEmpty, FillingIsHeld, Holding, ~kind.gone,
         NEW c \in Calls, Press(c),
         NEW x \in Calls, UnderWay(x), of[x] = filled, kind.keeps => by[x] = opening
  PROVE  x < c /\ ~kind.locks /\ Again(x, c)'
<1> USE DEF TypeOK, InOrder
<1>1. Pressable /\ Send(c, filled, opening) /\ kind' = kind
  BY DEF Press
<1>2. /\ phase[c] = "new" /\ phase'[c] = "sent" /\ of'[c] = filled /\ by'[c] = opening
      /\ \A y \in Calls : y # c => phase'[y] = phase[y] /\ of'[y] = of[y] /\ by'[y] = by[y]
      /\ unseen' = IF Pending /\ (kind.asks \/ ~drawn) THEN unseen \cup {c} ELSE unseen
  BY <1>1, SendEffect
<1>3. x # c /\ x \in Nat /\ c \in Nat /\ ~(x > c)
  BY <1>2, CallsAreNat DEF UnderWay
<1>4. x < c /\ of'[x] = of[x]
  BY <1>2, <1>3
<1>5. \/ latest = x /\ Asking(x)
      \/ kind.async /\ phase[x] = "following" /\ by[x] = opening
      \/ ~kind.locks /\ Again(x, MaxCalls)
  BY DEF FillingIsHeld
<1>6. kind.locks => ~(latest = x /\ Asking(x)) /\ phase[x] # "following"
  BY <1>1 DEF Pressable, Locked, Asking, GoneIsEmpty
<1>7. ~kind.locks
  BY <1>5, <1>6
<1>8. CASE Again(x, MaxCalls)
  <2>1. PICK b \in unseen : x < b /\ of[b] = of[x]
    BY <1>8 DEF Again
  <2>2. b \in Calls /\ phase[b] # "new" /\ b \in unseen'
    BY <1>2, <2>1
  <2>3. b <= c /\ b # c
    BY <1>2, <2>2, CallsAreNat
  <2>4. of'[b] = of'[x]
    BY <1>2, <1>4, <2>1, <2>2, <2>3
  <2> QED
    BY <1>4, <1>7, <2>1, <2>2, <2>3, <2>4 DEF Again
<1>9. CASE \/ latest = x /\ Asking(x)
           \/ kind.async /\ phase[x] = "following" /\ by[x] = opening
  <2>1. Pending
    BY <1>9, CallsAreNat DEF Pending, Asking
  <2>2. kind.waits /\ ~drawn
    BY <1>1, <1>7 DEF Pressable, Holding
  <2>3. c \in unseen' /\ of'[c] = of'[x]
    BY <1>2, <1>4, <2>1, <2>2
  <2> QED
    BY <1>3, <1>4, <1>7, <2>3 DEF Again
<1> QED
  BY <1>5, <1>7, <1>8, <1>9

LEMMA StepHeld == TypeOK /\ InOrder /\ GoneIsEmpty /\ FillingIsHeld /\ [Next]_vars
    => FillingIsHeld'
<1> SUFFICES ASSUME TypeOK, InOrder, GoneIsEmpty, FillingIsHeld, [Next]_vars
    PROVE FillingIsHeld'
  OBVIOUS
<1> USE DEF TypeOK, InOrder, GoneIsEmpty, FillingIsHeld, Holding, UnderWay, Asking, Nothing,
    Again
<1>1. CASE Fill
  BY <1>1 DEF Fill
<1>2. CASE Ask
  BY <1>2 DEF Ask
<1>3. CASE Decline
  BY <1>3 DEF Decline
<1>4. CASE Close
  BY <1>4 DEF Close
<1>5. CASE Open
  BY <1>5 DEF Open
<1>6. ASSUME NEW c \in Calls, Press(c) \/ Confirm(c) \/ Serve(c) \/ Answer(c)
    PROVE FillingIsHeld'
  <2>1. CASE Press(c)
    <3>1. Send(c, filled, opening) /\ shown /\ UNCHANGED <<kind, opening>>
      BY <2>1 DEF Press, Pressable
    <3>2. /\ phase[c] = "new" /\ phase'[c] = "sent" /\ of'[c] = filled /\ by'[c] = opening
          /\ \A x \in Calls : x # c => phase'[x] = phase[x] /\ of'[x] = of[x] /\ by'[x] = by[x]
          /\ latest' = c
      BY <3>1, SendEffect
    <3>3. filled' = IF kind.gone THEN Nothing ELSE filled
      BY <2>1 DEF Press
    <3> SUFFICES ASSUME Holding', NEW x \in Calls, UnderWay(x)', of'[x] = filled',
                        kind'.keeps => by'[x] = opening', x # c
                 PROVE  ~kind.locks /\ Again(x, MaxCalls)'
      BY <3>1, <3>2
    <3>4. UnderWay(x) /\ of[x] # Nothing /\ Holding
      BY <3>1, <3>2
    <3>5. ~kind.gone /\ of[x] = filled /\ (kind.keeps => by[x] = opening)
      BY <3>1, <3>2, <3>3, <3>4
    <3>6. ~kind.locks /\ Again(x, c)'
      <4> HIDE DEF TypeOK, InOrder, GoneIsEmpty, FillingIsHeld, Holding, UnderWay, Again
      <4> QED
        BY <2>1, <3>4, <3>5, PressedAgain
    <3>7. unseen' \subseteq unseen \cup {c}
      BY <3>1 DEF Send
    <3>8. c <= MaxCalls /\ unseen' \subseteq Nat /\ c \in Nat /\ MaxCalls \in Nat
      BY <3>7 DEF Calls
    <3> QED
      BY <3>6, <3>8
  <2>2. CASE Confirm(c)
    BY <2>2 DEF Confirm
  <2>3. CASE Serve(c)
    BY <2>3 DEF Serve, form
  <2>4. CASE AnswerEnds(c)
    BY <2>4 DEF AnswerEnds, Finish
  <2>5. CASE AnswerUnheard(c)
    BY <2>5 DEF AnswerUnheard, form
  <2>6. CASE AnswerFollowed(c)
    BY <2>6 DEF AnswerFollowed, form
  <2>7. CASE Follow(c)
    BY <2>7 DEF Follow, form
  <2>8. CASE LandWhole(c)
    BY <2>8 DEF LandWhole, Finish
  <2>9. CASE LandShort(c)
    BY <2>9 DEF LandShort
  <2>10. CASE AnswerFails(c)
    BY <2>10 DEF AnswerFails, form
  <2> QED
    BY <1>6, <2>1, <2>2, <2>3, <2>4, <2>5, <2>6, <2>7, <2>8, <2>9, <2>10 DEF Answer
<1>7. CASE UNCHANGED vars
  BY <1>7 DEF vars, form
<1>8. CASE Render
  BY <1>8 DEF Render
<1> QED
  BY <1>1, <1>2, <1>3, <1>4, <1>5, <1>6, <1>7, <1>8 DEF Next

LEMMA StepGesture == TypeOK /\ InOrder /\ GestureIsGone /\ [Next]_vars => GestureIsGone'
<1> SUFFICES ASSUME TypeOK, InOrder, GestureIsGone, [Next]_vars PROVE GestureIsGone'
  OBVIOUS
<1> USE DEF TypeOK, InOrder, GestureIsGone, Gesture, UnderWay, Nothing
<1>1. CASE Fill
  BY <1>1 DEF Fill
<1>2. CASE Ask
  BY <1>2 DEF Ask, Pressable
<1>3. CASE Decline
  BY <1>3 DEF Decline
<1>4. CASE Close
  BY <1>4 DEF Close
<1>5. CASE Open
  BY <1>5 DEF Open
<1>6. ASSUME NEW c \in Calls, Press(c) \/ Confirm(c) \/ Serve(c) \/ Answer(c)
    PROVE GestureIsGone'
  <2>1. CASE Press(c)
    BY <2>1 DEF Press, Send, Pressable
  <2>2. CASE Confirm(c)
    BY <2>2 DEF Confirm, Send
  <2>3. CASE Serve(c)
    BY <2>3 DEF Serve, form
  <2>4. CASE AnswerEnds(c)
    BY <2>4 DEF AnswerEnds, Finish
  <2>5. CASE AnswerUnheard(c)
    BY <2>5 DEF AnswerUnheard, form
  <2>6. CASE AnswerFollowed(c)
    BY <2>6 DEF AnswerFollowed, form
  <2>7. CASE Follow(c)
    BY <2>7 DEF Follow, form
  <2>8. CASE LandWhole(c)
    BY <2>8 DEF LandWhole, Finish
  <2>9. CASE LandShort(c)
    BY <2>9 DEF LandShort
  <2>10. CASE AnswerFails(c)
    BY <2>10 DEF AnswerFails, form
  <2> QED
    BY <1>6, <2>1, <2>2, <2>3, <2>4, <2>5, <2>6, <2>7, <2>8, <2>9, <2>10 DEF Answer
<1>7. CASE UNCHANGED vars
  BY <1>7 DEF vars, form
<1>8. CASE Render
  BY <1>8 DEF Render
<1> QED
  BY <1>1, <1>2, <1>3, <1>4, <1>5, <1>6, <1>7, <1>8 DEF Next

LEMMA StepOnce == TypeOK /\ InOrder /\ GoneIsEmpty /\ FillingIsHeld /\ GestureIsGone
    /\ SentOnce /\ [Next]_vars => SentOnce'
<1> SUFFICES ASSUME TypeOK, InOrder, GoneIsEmpty, FillingIsHeld, GestureIsGone, SentOnce,
    [Next]_vars PROVE SentOnce'
  OBVIOUS
<1> USE DEF TypeOK, InOrder, GoneIsEmpty, FillingIsHeld, GestureIsGone, SentOnce, Holding,
    Gesture, UnderWay, Asking, Nothing, Again
<1>1. CASE Fill
  BY <1>1 DEF Fill
<1>2. CASE Ask
  BY <1>2 DEF Ask, Pressable
<1>3. CASE Decline
  BY <1>3 DEF Decline
<1>4. CASE Close
  BY <1>4 DEF Close
<1>5. CASE Open
  BY <1>5 DEF Open
<1>6. ASSUME NEW c \in Calls, Press(c) \/ Confirm(c) \/ Serve(c) \/ Answer(c) PROVE SentOnce'
  <2>1. CASE Press(c)
    <3>1. Send(c, filled, opening) /\ UNCHANGED <<kind, opening>>
      BY <2>1 DEF Press
    <3>2. /\ phase[c] = "new" /\ phase'[c] = "sent" /\ of'[c] = filled /\ by'[c] = opening
          /\ \A x \in Calls : x # c => phase'[x] = phase[x] /\ of'[x] = of[x] /\ by'[x] = by[x]
          /\ unseen \subseteq unseen'
      BY <3>1, SendEffect
    <3> SUFFICES ASSUME (Holding \/ Gesture)', NEW x \in Calls, NEW y \in Calls, x < y,
                        UnderWay(x)', UnderWay(y)', of'[x] = of'[y]
                 PROVE  \/ ~kind.locks /\ ~kind.gone /\ Again(x, y)'
                        \/ kind.keeps /\ by'[x] # by'[y]
      BY <3>1
    <3>3. x # c /\ UnderWay(x)
      BY <3>2, CallsAreNat
    <3>4. CASE y # c
      <4>1. UnderWay(y) /\ of[x] = of[y] /\ (Holding \/ Gesture)
        BY <3>1, <3>2, <3>3, <3>4
      <4>2. Again(x, y) => Again(x, y)'
        <5> SUFFICES ASSUME NEW b \in unseen, x < b, b <= y, of[b] = of[x] PROVE Again(x, y)'
          OBVIOUS
        <5>1. b \in unseen' /\ of'[b] = of'[x]
          BY <3>2, <3>3
        <5> QED
          BY <5>1
      <4>3. \/ ~kind.locks /\ ~kind.gone /\ Again(x, y)
            \/ kind.keeps /\ by[x] # by[y]
        BY <4>1, <3>3
      <4>4. by'[x] = by[x] /\ by'[y] = by[y]
        BY <3>2, <3>3, <3>4
      <4> QED
        BY <4>2, <4>3, <4>4
    <3>5. CASE y = c
      <4>1. of[x] = filled
        BY <3>2, <3>3, <3>5
      <4>2. ~kind.gone /\ Holding
        BY <3>1, <3>3, <4>1
      <4>3. CASE kind.keeps => by[x] = opening
        <5> HIDE DEF TypeOK, InOrder, GoneIsEmpty, FillingIsHeld, Holding, UnderWay, Again
        <5> QED
          BY <2>1, <3>3, <3>5, <4>1, <4>2, <4>3, PressedAgain
      <4>4. CASE kind.keeps /\ by[x] # opening
        BY <3>2, <3>3, <3>5, <4>4
      <4> QED
        BY <4>3, <4>4
    <3> QED
      BY <3>4, <3>5
  <2>2. CASE Confirm(c)
    BY <2>2 DEF Confirm, Send
  <2>3. CASE Serve(c)
    BY <2>3 DEF Serve, form
  <2>4. CASE AnswerEnds(c)
    BY <2>4 DEF AnswerEnds, Finish
  <2>5. CASE AnswerUnheard(c)
    BY <2>5 DEF AnswerUnheard, form
  <2>6. CASE AnswerFollowed(c)
    BY <2>6 DEF AnswerFollowed, form
  <2>7. CASE Follow(c)
    BY <2>7 DEF Follow, form
  <2>8. CASE LandWhole(c)
    BY <2>8 DEF LandWhole, Finish
  <2>9. CASE LandShort(c)
    BY <2>9 DEF LandShort
  <2>10. CASE AnswerFails(c)
    BY <2>10 DEF AnswerFails, form
  <2> QED
    BY <1>6, <2>1, <2>2, <2>3, <2>4, <2>5, <2>6, <2>7, <2>8, <2>9, <2>10 DEF Answer
<1>7. CASE UNCHANGED vars
  BY <1>7 DEF vars, form
<1>8. CASE Render
  BY <1>8 DEF Render
<1> QED
  BY <1>1, <1>2, <1>3, <1>4, <1>5, <1>6, <1>7, <1>8 DEF Next

LEMMA StepFollows == TypeOK /\ InOrder /\ ReaderFollows /\ [Next]_vars => ReaderFollows'
<1> SUFFICES ASSUME TypeOK, InOrder, ReaderFollows, [Next]_vars PROVE ReaderFollows'
  OBVIOUS
<1> USE DEF TypeOK, InOrder, ReaderFollows, Asking, Nothing
<1>1. CASE Fill
  BY <1>1 DEF Fill
<1>2. CASE Ask
  BY <1>2 DEF Ask, Pressable
<1>3. CASE Decline
  BY <1>3 DEF Decline
<1>4. CASE Close
  BY <1>4 DEF Close
<1>5. CASE Open
  BY <1>5 DEF Open
<1>6. ASSUME NEW c \in Calls, Press(c) \/ Confirm(c) \/ Serve(c) \/ Answer(c)
    PROVE ReaderFollows'
  <2>1. CASE Press(c)
    <3>1. Send(c, filled, opening) /\ Pressable /\ UNCHANGED <<kind, shown, opening>>
      BY <2>1 DEF Press
    <3>2. /\ phase[c] = "new" /\ phase'[c] = "sent" /\ by'[c] = opening
          /\ \A x \in Calls : x # c => phase'[x] = phase[x] /\ by'[x] = by[x]
          /\ latest' = IF kind.stays \/ (shown /\ opening = opening) THEN c ELSE latest
          /\ unseen' = IF Pending /\ (kind.asks \/ ~drawn) THEN unseen \cup {c} ELSE unseen
      BY <3>1, SendEffect
    <3> SUFFICES ASSUME NEW x \in Calls, Asking(x)', shown, by'[x] = opening, x # c
                 PROVE  \/ latest' = x
                        \/ /\ ~kind.locks
                           /\ \E d \in Calls : /\ d > x /\ phase'[d] # "new"
                                               /\ kind.waits => d \in unseen'
      BY <3>1, <3>2
    <3>3. Asking(x) /\ by[x] = opening /\ c > x
      BY <3>2, CallsAreNat
    <3>4. CASE latest = x
      <4>1. Pending
        BY <3>3, <3>4, CallsAreNat DEF Pending
      <4>2. ~kind.locks
        BY <3>1, <3>3 DEF Pressable, Locked
      <4>3. kind.waits => c \in unseen'
        BY <3>1, <3>2, <4>1 DEF Pressable
      <4> QED
        BY <3>2, <3>3, <4>2, <4>3
    <3>5. CASE latest # x
      BY <3>2, <3>3, <3>5
    <3> QED
      BY <3>4, <3>5
  <2>2. CASE Confirm(c)
    <3>1. Send(c, asked, asker) /\ asked # Nothing /\ UNCHANGED <<kind, shown, opening>>
      BY <2>2 DEF Confirm
    <3>2. /\ phase[c] = "new" /\ phase'[c] = "sent" /\ by'[c] = asker
          /\ \A x \in Calls : x # c => phase'[x] = phase[x] /\ by'[x] = by[x]
          /\ latest' = IF kind.stays \/ (shown /\ asker = opening) THEN c ELSE latest
          /\ unseen' = IF Pending /\ (kind.asks \/ ~drawn) THEN unseen \cup {c} ELSE unseen
      BY <3>1, SendEffect
    <3> SUFFICES ASSUME NEW x \in Calls, Asking(x)', shown, by'[x] = opening, x # c
                 PROVE  \/ latest' = x
                        \/ /\ ~kind.locks
                           /\ \E d \in Calls : /\ d > x /\ phase'[d] # "new"
                                               /\ kind.waits => d \in unseen'
      BY <3>1, <3>2
    <3>3. Asking(x) /\ by[x] = opening /\ c > x
      BY <3>2, CallsAreNat
    <3>4. CASE latest = x
      <4>1. Pending
        BY <3>3, <3>4, CallsAreNat DEF Pending
      <4>2. ~kind.locks
        BY <3>1, <3>3
      <4>3. kind.waits => c \in unseen'
        BY <3>1, <3>2, <4>1
      <4> QED
        BY <3>2, <3>3, <4>2, <4>3
    <3>5. CASE latest # x
      BY <3>2, <3>3, <3>5
    <3> QED
      BY <3>4, <3>5
  <2>3. CASE Serve(c)
    BY <2>3 DEF Serve, form
  <2>4. CASE AnswerEnds(c)
    <3>1. /\ phase' = [phase EXCEPT ![c] = "ended"] /\ UNCHANGED <<kind, opening, by, unseen>>
          /\ shown' => shown /\ latest' = latest
      BY <2>4 DEF AnswerEnds, Finish
    <3>2. \A x \in Calls : /\ Asking(x)' => Asking(x)
                          /\ phase[x] # "new" => phase'[x] # "new"
      BY <3>1
    <3> QED
      BY <3>1, <3>2
  <2>5. CASE AnswerUnheard(c)
    BY <2>5 DEF AnswerUnheard, form
  <2>6. CASE AnswerFollowed(c)
    BY <2>6 DEF AnswerFollowed, form
  <2>7. CASE Follow(c)
    BY <2>7 DEF Follow, form
  <2>8. CASE LandWhole(c)
    <3>1. /\ phase' = [phase EXCEPT ![c] = "ended"] /\ UNCHANGED <<kind, opening, by, unseen>>
          /\ shown' => shown /\ latest' = latest
      BY <2>8 DEF LandWhole, Finish
    <3>2. \A x \in Calls : /\ Asking(x)' => Asking(x)
                          /\ phase[x] # "new" => phase'[x] # "new"
      BY <3>1
    <3> QED
      BY <3>1, <3>2
  <2>9. CASE LandShort(c)
    BY <2>9 DEF LandShort
  <2>10. CASE AnswerFails(c)
    BY <2>10 DEF AnswerFails, form
  <2> QED
    BY <1>6, <2>1, <2>2, <2>3, <2>4, <2>5, <2>6, <2>7, <2>8, <2>9, <2>10 DEF Answer
<1>7. CASE UNCHANGED vars
  BY <1>7 DEF vars, form
<1>8. CASE Render
  BY <1>8 DEF Render
<1> QED
  BY <1>1, <1>2, <1>3, <1>4, <1>5, <1>6, <1>7, <1>8 DEF Next

LEMMA StepOwn == TypeOK /\ InOrder /\ GoneIsEmpty /\ FollowsItsOwn /\ [Next]_vars
    => FollowsItsOwn'
<1> SUFFICES ASSUME TypeOK, InOrder, GoneIsEmpty, FollowsItsOwn, [Next]_vars
    PROVE FollowsItsOwn'
  OBVIOUS
<1> USE DEF TypeOK, InOrder, GoneIsEmpty, FollowsItsOwn, Nothing
<1>1. CASE Fill
  BY <1>1 DEF Fill
<1>2. CASE Ask
  BY <1>2 DEF Ask, Pressable
<1>3. CASE Decline
  BY <1>3 DEF Decline
<1>4. CASE Close
  <2>1. latest' \in {latest, Nothing} /\ UNCHANGED <<kind, opening, by, phase>>
    BY <1>4 DEF Close
  <2> QED
    BY <2>1, CallsAreNat
<1>5. CASE Open
  <2>1. latest' \in {latest, Nothing} /\ (~kind.stays \/ kind.resets => latest' = Nothing)
    BY <1>5 DEF Open
  <2> QED
    BY <1>5, <2>1, CallsAreNat DEF Open
<1>6. ASSUME NEW c \in Calls, Press(c) \/ Confirm(c) \/ Serve(c) \/ Answer(c)
    PROVE FollowsItsOwn'
  <2>1. CASE Press(c)
    BY <2>1 DEF Press, Send, Pressable
  <2>2. CASE Confirm(c)
    <3> USE <2>2
    <3>1. Send(c, asked, asker)
      BY DEF Confirm
    <3>2. /\ phase[c] = "new" /\ phase'[c] = "sent" /\ of'[c] = asked /\ by'[c] = asker
          /\ \A x \in Calls : x # c => phase'[x] = phase[x] /\ of'[x] = of[x] /\ by'[x] = by[x]
          /\ latest' = IF kind.stays \/ (shown /\ asker = opening) THEN c ELSE latest
          /\ unseen' = IF Pending /\ (kind.asks \/ ~drawn) THEN unseen \cup {c} ELSE unseen
          /\ \A x \in Calls : x < c => phase[x] # "new"
          /\ UNCHANGED <<missed, heard>>
      BY <3>1, SendEffect
    <3>3. /\ asked # Nothing /\ asked' = Nothing
          /\ UNCHANGED <<kind, shown, opening, filled, fillings, asker>>
      BY DEF Confirm
    <3> SUFFICES ASSUME NEW x \in Calls, latest' = x
                 PROVE  phase'[x] # "new" /\ (~kind.stays => by'[x] = opening)
      BY <3>3
    <3>4. CASE x = c
      BY <3>2, <3>4
    <3>5. CASE x # c
      BY <3>2, <3>5
    <3> QED
      BY <3>4, <3>5
  <2>3. CASE Serve(c)
    BY <2>3 DEF Serve, form
  <2>4. CASE AnswerEnds(c)
    <3>1. /\ latest' \in {latest, Nothing} /\ UNCHANGED <<kind, opening, by>>
          /\ \A x \in Calls : phase[x] # "new" => phase'[x] # "new"
      BY <2>4 DEF AnswerEnds, Finish
    <3> QED
      BY <3>1, CallsAreNat
  <2>5. CASE AnswerUnheard(c)
    BY <2>5 DEF AnswerUnheard, form
  <2>6. CASE AnswerFollowed(c)
    BY <2>6 DEF AnswerFollowed, form
  <2>7. CASE Follow(c)
    BY <2>7 DEF Follow, form
  <2>8. CASE LandWhole(c)
    <3>1. /\ latest' \in {latest, Nothing} /\ UNCHANGED <<kind, opening, by>>
          /\ \A x \in Calls : phase[x] # "new" => phase'[x] # "new"
      BY <2>8 DEF LandWhole, Finish
    <3> QED
      BY <3>1, CallsAreNat
  <2>9. CASE LandShort(c)
    BY <2>9 DEF LandShort
  <2>10. CASE AnswerFails(c)
    BY <2>10 DEF AnswerFails, form
  <2> QED
    BY <1>6, <2>1, <2>2, <2>3, <2>4, <2>5, <2>6, <2>7, <2>8, <2>9, <2>10 DEF Answer
<1>7. CASE UNCHANGED vars
  BY <1>7 DEF vars, form
<1>8. CASE Render
  BY <1>8 DEF Render
<1> QED
  BY <1>1, <1>2, <1>3, <1>4, <1>5, <1>6, <1>7, <1>8 DEF Next

LEMMA StepSaid == TypeOK /\ InOrder /\ ReaderFollows /\ FailuresAreSaid /\ [Next]_vars
    => FailuresAreSaid'
<1> SUFFICES ASSUME TypeOK, InOrder, ReaderFollows, FailuresAreSaid, [Next]_vars
    PROVE FailuresAreSaid'
  OBVIOUS
<1> USE DEF TypeOK, InOrder, ReaderFollows, FailuresAreSaid, Unsaid, Asking, Nothing
<1>1. CASE Fill
  BY <1>1 DEF Fill
<1>2. CASE Ask
  BY <1>2 DEF Ask, Pressable
<1>3. CASE Decline
  BY <1>3 DEF Decline
<1>4. CASE Close
  BY <1>4 DEF Close
<1>5. CASE Open
  BY <1>5 DEF Open
<1>6. ASSUME NEW c \in Calls, Press(c) \/ Confirm(c) \/ Serve(c) \/ Answer(c)
    PROVE FailuresAreSaid'
  <2>1. CASE Press(c)
    BY <2>1 DEF Press, Send, Pressable
  <2>2. CASE Confirm(c)
    BY <2>2 DEF Confirm, Send
  <2>3. CASE Serve(c)
    BY <2>3 DEF Serve, form
  <2>4. CASE AnswerEnds(c)
    <3> SUFFICES ASSUME NEW x \in Calls, Unsaid(x)', shown', by'[x] = opening'
                 PROVE  (\/ kind.mutes
                         \/ /\ ~kind.locks
                            /\ \E d \in Calls : /\ d > x /\ phase[d] # "new"
                                                /\ kind.waits => d \in unseen)'
      OBVIOUS
    <3>0. Finish(c) /\ phase' = [phase EXCEPT ![c] = "ended"] /\ ~missed[c]
      BY <2>4 DEF AnswerEnds
    <3>1. /\ UNCHANGED <<kind, opening, by, missed, unseen>> /\ (shown' => shown)
          /\ ~missed[c] /\ phase' = [phase EXCEPT ![c] = "ended"]
          /\ \A y \in Calls : y # c => heard'[y] = heard[y]
      <4>1. UNCHANGED <<kind, opening, by, missed, unseen>>
        BY <2>4, <3>0 DEF AnswerEnds, Finish
      <4> QED
        BY <3>0, <4>1, FinishTypes
    <3>2. x # c
      BY <3>1
    <3>3. Unsaid(x) /\ shown /\ by[x] = opening
      BY <3>1, <3>2
    <3> QED
      BY <3>1, <3>3
  <2>5. CASE AnswerUnheard(c)
    BY <2>5 DEF AnswerUnheard, form
  <2>6. CASE AnswerFollowed(c)
    BY <2>6 DEF AnswerFollowed, form
  <2>7. CASE Follow(c)
    BY <2>7 DEF Follow, form
  <2>8. CASE LandWhole(c)
    <3> SUFFICES ASSUME NEW x \in Calls, Unsaid(x)', shown', by'[x] = opening'
                 PROVE  (\/ kind.mutes
                         \/ /\ ~kind.locks
                            /\ \E d \in Calls : /\ d > x /\ phase[d] # "new"
                                                /\ kind.waits => d \in unseen)'
      OBVIOUS
    <3>0. Finish(c) /\ phase' = [phase EXCEPT ![c] = "ended"] /\ ~missed[c]
      BY <2>8 DEF LandWhole
    <3>1. /\ UNCHANGED <<kind, opening, by, missed, unseen>> /\ (shown' => shown)
          /\ ~missed[c] /\ phase' = [phase EXCEPT ![c] = "ended"]
          /\ \A y \in Calls : y # c => heard'[y] = heard[y]
      <4>1. UNCHANGED <<kind, opening, by, missed, unseen>>
        BY <2>8, <3>0 DEF LandWhole, Finish
      <4> QED
        BY <3>0, <4>1, FinishTypes
    <3>2. x # c
      BY <3>1
    <3>3. Unsaid(x) /\ shown /\ by[x] = opening
      BY <3>1, <3>2
    <3> QED
      BY <3>1, <3>3
  <2>9. CASE LandShort(c)
    BY <2>9 DEF LandShort, Here
  <2>10. CASE AnswerFails(c)
    BY <2>10 DEF AnswerFails, form
  <2> QED
    BY <1>6, <2>1, <2>2, <2>3, <2>4, <2>5, <2>6, <2>7, <2>8, <2>9, <2>10 DEF Answer
<1>7. CASE UNCHANGED vars
  BY <1>7 DEF vars, form
<1>8. CASE Render
  BY <1>8 DEF Render
<1> QED
  BY <1>1, <1>2, <1>3, <1>4, <1>5, <1>6, <1>7, <1>8 DEF Next

-----------------------------------------------------------------------------
(* The theorems.                                                           *)

Inv == /\ TypeOK /\ InOrder /\ GoneIsEmpty /\ FillingIsHeld /\ GestureIsGone /\ SentOnce
       /\ ReaderFollows /\ FollowsItsOwn /\ FailuresAreSaid

LEMMA InitInv == Init => Inv
<1> SUFFICES ASSUME Init PROVE Inv
  OBVIOUS
<1>1. TypeOK
  BY InitTypeOK
<1>2. \A c \in Calls : /\ phase[c] = "new" /\ of[c] = 0 /\ by[c] = 0 /\ todo[c] = 0
                       /\ ~missed[c] /\ latest # c
  BY CallsAreNat DEF Init
<1>3. /\ filled = 0 /\ fillings = 0 /\ draft = 0 /\ asked = 0 /\ asker = 0 /\ opening = 1
      /\ shown /\ unseen = {}
  BY DEF Init, Nothing
<1>7. /\ kind.locks => ~kind.asks /\ ~kind.stays /\ ~kind.follows
      /\ kind.keeps => ~kind.asks /\ ~kind.stays /\ ~kind.gone
  BY KindsAssumption DEF Init
<1>4. InOrder
  BY <1>2, <1>3, <1>7 DEF InOrder, UnderWay, Nothing
<1>5. GoneIsEmpty /\ FillingIsHeld /\ GestureIsGone /\ SentOnce
  BY <1>2, <1>3 DEF GoneIsEmpty, FillingIsHeld, GestureIsGone, SentOnce, UnderWay, Nothing
<1>6. ReaderFollows /\ FollowsItsOwn /\ FailuresAreSaid
  BY <1>2, <1>3 DEF ReaderFollows, FollowsItsOwn, FailuresAreSaid, Unsaid, Asking, Nothing
<1> QED
  BY <1>1, <1>4, <1>5, <1>6 DEF Inv

LEMMA StepInv == Inv /\ [Next]_vars => Inv'
BY StepTypeOK, StepInOrder, StepGone, StepHeld, StepGesture, StepOnce, StepFollows, StepOwn,
   StepSaid DEF Inv

LEMMA Invariance == Spec => []Inv
<1>1. Init => Inv
  BY InitInv
<1>2. Inv /\ [Next]_vars => Inv'
  BY StepInv
<1> QED
  BY <1>1, <1>2, PTL DEF Spec

(* The form, its confirmation, the calls and what follows them stay what   *)
(* they are declared to be: a mutation follows a call there is, and pieces *)
(* are counted down to none.                                               *)
THEOREM TypeCorrect == Spec => []TypeOK
<1>1. Inv => TypeOK
  BY DEF Inv
<1> QED
  BY <1>1, Invariance, PTL

(* A control that makes something and is disabled while its call and what  *)
(* follows it are shown under way, is locked by a ref or goes away with    *)
(* the press never asks a second time for what is being made, but for a    *)
(* press that lands before the render that shows the first pending, where  *)
(* nothing but isPending holds it, and a draft that is come back to:       *)
(* whoever closes and opens the form or fills it in anew meanwhile.        *)
THEOREM MakersMakeOnce == Spec => []GuardedMakersMakeOnce
<1>1. Inv => GuardedMakersMakeOnce
  <2> SUFFICES ASSUME Inv, Guarded(kind), kind.makes PROVE MadeOnce
    BY DEF GuardedMakersMakeOnce, MadeOnce
  <2>1. Holding \/ Gesture
    BY DEF Guarded, Holding, Gesture
  <2>2. SentOnce
    BY DEF Inv
  <2> QED
    BY <2>1, <2>2 DEF SentOnce, MadeOnce, Again
<1> QED
  BY <1>1, Invariance, PTL

(* A refused change is told to the reader who stayed with the control that *)
(* made it, by the form or by the shell's toast (handlesError), unless the *)
(* control let the next change overtake it, unheld or not yet shown        *)
(* pending, or its caller mutes it.                                        *)
THEOREM FailuresSaid == Spec => []FailuresAreSaid
<1>1. Inv => FailuresAreSaid
  BY DEF Inv
<1> QED
  BY <1>1, Invariance, PTL

(* The end of one late call leaves the form opened since alone.            *)
LEMMA LateAnswer ==
  ASSUME Inv, [Next]_vars, NEW c \in Calls,
         Spares, UnderWay(c), by[c] # opening, phase'[c] = "ended"
  PROVE  shown' = shown /\ filled' = filled
<1> USE DEF Inv, TypeOK
<1>1. latest = c => kind.stays /\ kind.asks
  BY DEF Spares, FollowsItsOwn
<1>2. latest # c
  BY <1>1 DEF Spares
<1>3. phase[c] # "ended"
  BY DEF UnderWay
<1>4. phase' # phase
  BY <1>3
<1>5. PICK d \in Calls : Press(d) \/ Confirm(d) \/ Serve(d) \/ Answer(d)
  BY <1>4 DEF Next, vars, form, Fill, Ask, Decline, Close, Open, Render
<1>6. CASE Press(d) \/ Confirm(d) \/ Serve(d) \/ AnswerFollowed(d) \/ Follow(d) \/ AnswerFails(d)
  BY <1>3, <1>6 DEF Press, Confirm, Send, Serve, AnswerFollowed, Follow, AnswerFails
<1>7. CASE AnswerUnheard(d) \/ LandShort(d)
  BY <1>7 DEF AnswerUnheard, LandShort, form
<1>8. CASE AnswerEnds(d)
  <2>1. d = c
    BY <1>3, <1>8 DEF AnswerEnds
  <2>2. kind.async /\ ~kind.stays
    BY <1>2, <1>8, <2>1 DEF AnswerEnds, Runs, Spares
  <2>3. ~Here(c) /\ (kind.leaves => kind.follows) /\ ~kind.lent
    BY <2>2 DEF Here, Spares
  <2> QED
    BY <1>8, <2>1, <2>3 DEF AnswerEnds, Finish
<1>9. CASE LandWhole(d)
  <2>1. d = c
    BY <1>3, <1>9 DEF LandWhole
  <2>2. kind.follows /\ ~kind.stays
    BY <1>9, <2>1 DEF LandWhole, InOrder, Spares
  <2>3. ~Here(c) /\ ~kind.lent
    BY <2>2 DEF Here, Spares
  <2> QED
    BY <1>9, <2>1, <2>2, <2>3 DEF LandWhole, Finish
<1> QED
  BY <1>5, <1>6, <1>7, <1>8, <1>9 DEF Answer

(* The answer to a form that was closed neither closes nor empties the one *)
(* opened since: useMutation runs the callbacks of the call it follows and *)
(* an unmounted component sets no state.                                   *)
THEOREM LateAnswersSpare == Spec => LateAnswersSpareTheReader
<1>1. Inv /\ [Next]_vars
        => [\A c \in Calls :
              Spares /\ UnderWay(c) /\ by[c] # opening /\ phase'[c] = "ended"
                => shown' = shown /\ filled' = filled]_vars
  BY LateAnswer
<1> QED
  BY <1>1, Invariance, PTL DEF Spec, LateAnswersSpareTheReader

=============================================================================
