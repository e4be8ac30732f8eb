--------------------------- MODULE MCClientCache ---------------------------
EXTENDS ClientCache

(* The account menu's list of connected tools is not read again when an    *)
(* administrator changes an app.                                           *)
MCLeftOld ==
  {"useCreateConnectedApp", "useUpdateConnectedApp", "useApproveConnectedApp",
   "useDeleteConnectedApp"} \X {"useConnectedTools"}

(* Every change and every query it touches that share a screen.            *)
MCCases ==
  UNION {{Wiring(pair[1], AllWrites[pair[1].write], AllReads[pair[2]]) :
            pair \in {p \in screen.ops \X screen.reads :
                        /\ Touches(AllWrites[p[1].write], AllReads[p[2]])
                        /\ <<p[1].write, p[2]>> \notin MCLeftOld}} : screen \in Screens}

(* What the theorems ShownCurrent and Refinement ask of the client's hooks. *)
ASSUME MCTold == EveryCaseIsTold
=============================================================================
