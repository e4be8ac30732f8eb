----------------------------- MODULE ClientView -----------------------------
(***************************************************************************)
(* What a screen owes the person who works on it, whatever keeps the       *)
(* answers: what it shows never goes back to an older state of the server, *)
(* and once nothing is coming any more it shows every change the client    *)
(* knows to be made.                                                       *)
(***************************************************************************)
EXTENDS Integers

VARIABLES made,    \* how many changes the server has made
          known,   \* those the client has been told of, each by its number
          shown,   \* how many of them the screen shows, or Nothing
          busy     \* a newer answer is on its way, or has been refused

Nothing == -1

AtRest == ~busy /\ shown # Nothing => \A v \in known : v <= shown

Init == made = 0 /\ known = {} /\ shown = Nothing /\ busy \in BOOLEAN

Make ==
  /\ made' = made + 1
  /\ UNCHANGED <<known, shown, busy>>

Turn ==
  /\ known \subseteq known' /\ known' \subseteq 0..made
  /\ shown' = Nothing \/ (shown <= shown' /\ shown' <= made)
  /\ busy' \in BOOLEAN
  /\ AtRest'
  /\ UNCHANGED made

Next == Make \/ Turn

Spec == Init /\ [][Next]_<<made, known, shown, busy>>
=============================================================================
