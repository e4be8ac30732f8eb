---------------------------- MODULE ClientForms ----------------------------
(***************************************************************************)
(* A form or a control of the client and the calls it makes: what is       *)
(* filled in, the confirmation it may ask for, the calls under way, the    *)
(* one of them its useMutation follows, what the screen shows of that, and *)
(* what each call's end does to a reader who stayed, closed the form or    *)
(* has opened it again.  Init chooses how the control behaves from Kinds;  *)
(* ClientWork lists what the words of a kind mean.  A session that ends    *)
(* meanwhile is left out: sign in then takes the page's place.             *)
(***************************************************************************)
EXTENDS ClientScreens, Integers

CONSTANTS Kinds,         \* the behaviours of a control, see Kind
          MaxCalls,      \* bound: calls made in one behaviour
          MaxFillings,   \* bound: times something is filled in
          MaxOpenings,   \* bound: times the form is opened
          MaxPieces      \* bound: what is sent after the call, one by one

Words == {"waits", "locks", "asks", "shows", "mutes", "clears", "closes", "lent", "leaves",
          "async", "stays", "keeps", "resets", "follows", "makes", "gone"}

(* A control that goes away or is emptied by the press is "gone" with it.  *)
Kind(op, write) ==
  [word \in Words |->
     CASE word = "makes" -> write.makes
       [] word = "gone"  -> op.how \cap {"once", "early"} # {}
       [] OTHER          -> word \in op.how]

ASSUME KindsAssumption ==
  /\ Kinds \subseteq [Words -> BOOLEAN]
  /\ \A k \in Kinds : /\ k.locks => ~k.asks /\ ~k.stays /\ ~k.follows
                      /\ k.keeps => ~k.asks /\ ~k.stays /\ ~k.gone
ASSUME BoundsAssumption ==
  /\ MaxCalls \in Nat /\ MaxFillings \in Nat /\ MaxOpenings \in Nat /\ MaxPieces \in Nat

Calls == 1..MaxCalls

Nothing == 0

VARIABLES kind,      \* how the control behaves; never changes
          shown,     \* the form is on the screen
          opening,   \* the how manieth time
          filled,    \* what is filled in: the number of the filling, or Nothing
          fillings,  \* how many there have been
          draft,     \* the filling kept outside the form, or Nothing
          asked,     \* the filling the confirmation is about, or Nothing
          asker,     \* the opening that asks
          latest,    \* the call the form's useMutation follows, or Nothing
          drawn,     \* the screen shows a call pending
          named,     \* the call whose leftovers the form names, or Nothing
          phase,     \* of each call, see Phases
          of, by,    \* of each call: the filling it carries, the opening that made it
          todo,      \* of each call: the pieces still to follow it
          missed,    \* of each call: a piece was refused
          heard,     \* of each call: where its end was said
          unseen     \* the calls made before the screen showed the one before pending

form == <<shown, opening, filled, fillings, draft, asked, asker, latest, drawn, named>>

vars == <<kind, form, phase, of, by, todo, missed, heard, unseen>>

(* Not made, at the server, answered, pieces following, over.              *)
Phases == {"new", "sent", "done", "refused", "following", "ended", "failed"}

UnderWay(c) == phase[c] \in {"sent", "done", "refused", "following"}

Places == {"nowhere", "form", "toast"}

TypeOK ==
  /\ kind \in [Words -> BOOLEAN]
  /\ shown \in BOOLEAN /\ drawn \in BOOLEAN
  /\ opening \in Nat /\ filled \in Nat /\ fillings \in Nat /\ draft \in Nat
  /\ asked \in Nat /\ asker \in Nat
  /\ latest \in Calls \cup {Nothing}
  /\ named \in Calls \cup {Nothing}
  /\ phase \in [Calls -> Phases]
  /\ of \in [Calls -> Nat] /\ by \in [Calls -> Nat] /\ todo \in [Calls -> Nat]
  /\ missed \in [Calls -> BOOLEAN]
  /\ heard \in [Calls -> Places]
  /\ unseen \subseteq Calls

Init ==
  /\ kind \in Kinds
  /\ shown = TRUE /\ opening = 1
  /\ filled = Nothing /\ fillings = 0 /\ draft = Nothing
  /\ asked = Nothing /\ asker = 0
  /\ latest = Nothing /\ drawn = FALSE /\ named = Nothing
  /\ phase = [c \in Calls |-> "new"]
  /\ of = [c \in Calls |-> 0] /\ by = [c \in Calls |-> 0] /\ todo = [c \in Calls |-> 0]
  /\ missed = [c \in Calls |-> FALSE]
  /\ heard = [c \in Calls |-> "nowhere"]
  /\ unseen = {}

-----------------------------------------------------------------------------
(* The reader.                                                             *)

(* Mutant: a control is never disabled. *)
PressableAlways == shown /\ filled # Nothing /\ asked = Nothing

(* Mutant: what follows the call is never over once a piece was refused. *)
PendingStays ==
  \/ latest # Nothing /\ phase[latest] \in {"sent", "done", "refused"}
  \/ kind.async /\ \E c \in Calls : (phase[c] = "following" \/ missed[c]) /\ by[c] = opening

(* isPending of the call that is followed; a form that awaits what follows *)
(* its call counts that in (attaching).                                    *)
Pending ==
  \/ latest # Nothing /\ phase[latest] \in {"sent", "done", "refused"}
  \/ kind.async /\ \E c \in Calls : phase[c] = "following" /\ by[c] = opening

(* A render shows what the observer has been told, some time after the     *)
(* press: until then a control that is disabled by isPending is not.       *)
Render ==
  /\ shown /\ drawn # Pending
  /\ drawn' = Pending
  /\ UNCHANGED <<kind, shown, opening, filled, fillings, draft, asked, asker, latest, named,
                 phase, of, by, todo, missed, heard, unseen>>

(* The ref of the comment form, which is set by the press itself.          *)
Locked ==
  kind.locks /\ \E c \in Calls : by[c] = opening /\ phase[c] \in {"sent", "done", "refused"}

Pressable ==
  /\ shown /\ filled # Nothing /\ asked = Nothing
  /\ kind.waits => ~drawn
  /\ ~Locked
  /\ named = Nothing

Fill ==
  /\ shown /\ asked = Nothing /\ fillings < MaxFillings
  /\ fillings' = fillings + 1
  /\ filled' = fillings + 1
  /\ draft' = IF kind.keeps THEN fillings + 1 ELSE draft
  /\ UNCHANGED <<kind, shown, opening, asked, asker, latest, drawn, named,
                 phase, of, by, todo, missed, heard, unseen>>

(* mutate, or mutateAsync: the observer follows the new call from now on,  *)
(* if the component is still there.                                        *)
Send(c, filling, from) ==
  /\ phase[c] = "new" /\ \A d \in Calls : d < c => phase[d] # "new"
  /\ phase' = [phase EXCEPT ![c] = "sent"]
  /\ of' = [of EXCEPT ![c] = filling]
  /\ by' = [by EXCEPT ![c] = from]
  /\ \E pieces \in 0..MaxPieces :
       /\ pieces > 0 => kind.follows
       /\ todo' = [todo EXCEPT ![c] = pieces]
  /\ latest' = IF kind.stays \/ (shown /\ from = opening) THEN c ELSE latest
  /\ unseen' = IF Pending /\ (kind.asks \/ ~drawn) THEN unseen \cup {c} ELSE unseen
  /\ UNCHANGED <<missed, heard>>

Press(c) ==
  /\ Pressable /\ ~kind.asks
  /\ Send(c, filled, opening)
  /\ filled' = IF kind.gone THEN Nothing ELSE filled
  /\ UNCHANGED <<kind, shown, opening, fillings, draft, asked, asker, drawn, named>>

(* useConfirm: the shell's one dialog, which outlives the form.            *)
Ask ==
  /\ Pressable /\ kind.asks
  /\ asked' = filled
  /\ asker' = opening
  /\ UNCHANGED <<kind, shown, opening, filled, fillings, draft, latest, drawn, named,
                 phase, of, by, todo, missed, heard, unseen>>

Confirm(c) ==
  /\ asked # Nothing
  /\ Send(c, asked, asker)
  /\ asked' = Nothing
  /\ UNCHANGED <<kind, shown, opening, filled, fillings, draft, asker, drawn, named>>

Decline ==
  /\ asked # Nothing
  /\ asked' = Nothing
  /\ UNCHANGED <<kind, shown, opening, filled, fillings, draft, asker, latest, drawn, named,
                 phase, of, by, todo, missed, heard, unseen>>

(* The component goes, and what it held with it, unless it stays mounted   *)
(* around a closed dialog.  A draft is kept, or thrown away on the way out.*)
Close ==
  /\ shown
  /\ shown' = FALSE /\ drawn' = FALSE
  /\ IF kind.stays
     THEN UNCHANGED <<filled, latest, named>>
     ELSE filled' = Nothing /\ latest' = Nothing /\ named' = Nothing
  /\ draft' \in {draft, Nothing}
  /\ UNCHANGED <<kind, opening, fillings, asked, asker, phase, of, by, todo, missed, heard,
                 unseen>>

(* reset() lets go of the call that is followed: nothing is heard of it.   *)
Open ==
  /\ ~shown /\ opening < MaxOpenings
  /\ shown' = TRUE
  /\ opening' = opening + 1
  /\ filled' = IF kind.keeps THEN draft ELSE IF kind.resets THEN Nothing ELSE filled
  /\ IF kind.resets
     THEN latest' = Nothing /\ named' = Nothing
     ELSE UNCHANGED <<latest, named>>
  /\ UNCHANGED <<kind, fillings, draft, asked, asker, phase, of, by, todo, missed, heard,
                 unseen>>
  /\ drawn' = Pending'

-----------------------------------------------------------------------------
(* The server: a lost answer is a failure like any other.                  *)

Serve(c) ==
  /\ phase[c] = "sent"
  /\ \E answer \in {"done", "refused"} : phase' = [phase EXCEPT ![c] = answer]
  /\ UNCHANGED <<kind, form, of, by, todo, missed, heard, unseen>>

-----------------------------------------------------------------------------
(* The answers.                                                            *)

(* The component that made the call is mounted.                            *)
Here(c) == kind.stays \/ (shown /\ by[c] = opening)

(* The callbacks given to mutate run for the call that is followed; what   *)
(* comes after an await runs whatever has become of the component.         *)
Runs(c) == kind.async \/ latest = c

(* What the caller does at the end: the form is emptied or closed, which   *)
(* only a component that is there can do, or the page is left (the portal  *)
(* leaves it by rendering Navigate, so it has to be there as well).  A     *)
(* closing that was lent to the form closes whatever is open by then.      *)
Finish(c) ==
  LET leaving == kind.leaves /\ (kind.follows => Here(c))
      closing == kind.closes /\ (Here(c) \/ kind.lent)
  IN  /\ IF leaving \/ closing
         THEN /\ shown' = FALSE /\ drawn' = FALSE
              /\ filled' = IF kind.stays /\ ~kind.clears THEN filled ELSE Nothing
              /\ latest' = IF kind.stays THEN latest ELSE Nothing
         ELSE /\ filled' = IF kind.clears /\ Here(c) THEN Nothing ELSE filled
              /\ UNCHANGED <<shown, latest, drawn>>
      /\ draft' = Nothing
      /\ heard' = [heard EXCEPT ![c] = IF Here(c) THEN "form" ELSE "nowhere"]
      /\ UNCHANGED <<kind, opening, fillings, asked, asker, of, by, unseen>>

(* Mutant: what the caller does is given to the hook, and outlives the caller. *)
AnswerEndsAnyway(c) ==
  /\ phase[c] = "done" /\ todo[c] = 0
  /\ phase' = [phase EXCEPT ![c] = "ended"]
  /\ Finish(c)
  /\ UNCHANGED <<named, todo, missed>>

AnswerEnds(c) ==
  /\ phase[c] = "done" /\ todo[c] = 0 /\ Runs(c)
  /\ phase' = [phase EXCEPT ![c] = "ended"]
  /\ Finish(c)
  /\ UNCHANGED <<named, todo, missed>>

AnswerUnheard(c) ==
  /\ phase[c] = "done" /\ ~Runs(c)
  /\ phase' = [phase EXCEPT ![c] = "ended"]
  /\ UNCHANGED <<kind, form, of, by, todo, missed, heard, unseen>>

(* Mutant: one piece more than there are. *)
FollowOn(c) ==
  /\ phase[c] = "following"
  /\ todo' = [todo EXCEPT ![c] = todo[c] - 1]
  /\ \E refused \in BOOLEAN : missed' = [missed EXCEPT ![c] = missed[c] \/ refused]
  /\ UNCHANGED <<kind, form, phase, of, by, heard, unseen>>

(* applyRest of the create dialog, the files of the portal's request: sent *)
(* one by one after the call, a refused one put down and gone past.  The   *)
(* end of the last is the end of the whole.                                *)
AnswerFollowed(c) ==
  /\ phase[c] = "done" /\ todo[c] > 0 /\ Runs(c)
  /\ phase' = [phase EXCEPT ![c] = "following"]
  /\ UNCHANGED <<kind, form, of, by, todo, missed, heard, unseen>>

Follow(c) ==
  /\ phase[c] = "following" /\ todo[c] > 1
  /\ todo' = [todo EXCEPT ![c] = todo[c] - 1]
  /\ \E refused \in BOOLEAN : missed' = [missed EXCEPT ![c] = missed[c] \/ refused]
  /\ UNCHANGED <<kind, form, phase, of, by, heard, unseen>>

LandWhole(c) ==
  /\ phase[c] = "following" /\ todo[c] = 1 /\ ~missed[c]
  /\ phase' = [phase EXCEPT ![c] = "ended"]
  /\ todo' = [todo EXCEPT ![c] = 0]
  /\ Finish(c)
  /\ UNCHANGED <<named, missed>>

(* A piece before was refused, or the last one is.                         *)
LandShort(c) ==
  /\ phase[c] = "following" /\ todo[c] = 1
  /\ phase' = [phase EXCEPT ![c] = "ended"]
  /\ todo' = [todo EXCEPT ![c] = 0]
  /\ missed' = [missed EXCEPT ![c] = TRUE]
  /\ IF Here(c)
     THEN named' = c /\ heard' = [heard EXCEPT ![c] = "form"]
     ELSE UNCHANGED <<named, heard>>
  /\ UNCHANGED <<kind, shown, opening, filled, fillings, draft, asked, asker, latest, drawn,
                 of, by, unseen>>

(* Mutant: the toast is left to the callers that show the error. *)
AnswerFailsQuietly(c) ==
  /\ phase[c] = "refused"
  /\ phase' = [phase EXCEPT ![c] = "failed"]
  /\ heard' = [heard EXCEPT ![c] =
                 IF kind.shows /\ shown /\ latest = c THEN "form" ELSE "nowhere"]
  /\ UNCHANGED <<kind, form, of, by, todo, missed, unseen>>

(* The caller shows the error of the call it follows; the shell's toast    *)
(* says the failure of a change whose caller never looks (handlesError).   *)
AnswerFails(c) ==
  /\ phase[c] = "refused"
  /\ phase' = [phase EXCEPT ![c] = "failed"]
  /\ heard' = [heard EXCEPT ![c] =
                 IF kind.shows THEN IF shown /\ latest = c THEN "form" ELSE "nowhere"
                               ELSE IF kind.mutes THEN "nowhere" ELSE "toast"]
  /\ UNCHANGED <<kind, form, of, by, todo, missed, unseen>>

Answer(c) ==
  \/ AnswerEnds(c) \/ AnswerUnheard(c) \/ AnswerFollowed(c)
  \/ Follow(c) \/ LandWhole(c) \/ LandShort(c) \/ AnswerFails(c)

Next ==
  \/ Fill \/ Ask \/ Decline \/ Close \/ Open \/ Render
  \/ \E c \in Calls : Press(c) \/ Confirm(c) \/ Serve(c) \/ Answer(c)

(* Every request is answered in the end, with a failure if need be, and    *)
(* what has changed is rendered; nobody has to fill in, press, confirm or  *)
(* close anything.                                                         *)
Fairness ==
  /\ \A c \in Calls : WF_vars(Serve(c)) /\ WF_vars(Answer(c))
  /\ WF_vars(Render)

Spec == Init /\ [][Next]_vars /\ Fairness

-----------------------------------------------------------------------------
(* What a control owes its reader.                                         *)

(* A control that makes something goes away with the press, or is held     *)
(* until what follows its call is over as well.                            *)
Guarded(k) ==
  k.makes => /\ ~k.asks
             /\ \/ k.gone
                \/ (k.waits \/ k.locks) /\ (k.follows => k.async /\ ~k.stays)

(* What is being made is not asked for again: until the reader has been    *)
(* told how the sending of what was filled in came out, it is sent a       *)
(* second time only by a press that landed before the screen could show    *)
(* the first pending, which neither the comment form's ref nor a control   *)
(* that goes away lets through, and by a reader who left a kept draft and  *)
(* has come back to it.                                                    *)
MadeOnce ==
  kind.makes =>
    \A c, d \in Calls :
      c < d /\ UnderWay(c) /\ UnderWay(d) /\ of[c] = of[d]
        => \/ /\ ~kind.locks /\ ~kind.gone
              /\ \E b \in unseen : c < b /\ b <= d /\ of[b] = of[c]
           \/ kind.keeps /\ by[c] # by[d]

(* The same of the controls that are guarded, whether they wait, lock or   *)
(* go away, are closed and opened again, or send pieces after the call.    *)
GuardedMakersMakeOnce == Guarded(kind) => MadeOnce

Unsaid(c) ==
  /\ phase[c] = "failed" \/ (phase[c] = "ended" /\ missed[c])
  /\ heard[c] = "nowhere"

(* A failure goes unsaid only to a reader who left the form, or who had    *)
(* already sent the next, on a control that does not wait or before it was *)
(* shown waiting: whoever stays is told, by the form or by a toast, and    *)
(* told what did not follow the call.                                      *)
FailuresAreSaid ==
  \A c \in Calls :
    Unsaid(c) /\ shown /\ by[c] = opening
      => \/ kind.mutes
         \/ /\ ~kind.locks
            /\ \E d \in Calls : d > c /\ phase[d] # "new" /\ (kind.waits => d \in unseen)

Spares ==
  /\ kind.stays => kind.resets /\ ~kind.asks /\ ~kind.async /\ ~kind.follows
  /\ kind.async /\ kind.leaves => kind.follows
  /\ ~kind.lent

(* The answer to a form that was closed leaves the one opened since alone: *)
(* it neither closes it nor takes away what is filled in.  Not promised by *)
(* a dialog that keeps its mutation from one opening to the next, by a     *)
(* caller that awaits its call and then navigates or runs the closing it   *)
(* was lent, nor by the create dialog, whose applyRest closes whatever is  *)
(* open.                                                                   *)
LateAnswersSpareTheReader ==
  [][\A c \in Calls :
       Spares /\ UnderWay(c) /\ by[c] # opening /\ phase'[c] = "ended"
         => shown' = shown /\ filled' = filled]_vars

(* Every call comes to an end, and the control that is shown waiting for   *)
(* it is given back, or has gone.                                          *)
ControlsComeBack == kind.waits /\ drawn ~> ~drawn
=============================================================================
