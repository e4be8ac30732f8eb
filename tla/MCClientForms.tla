--------------------------- MODULE MCClientForms ---------------------------
EXTENDS ClientForms

KindsOf(ops) == {Kind(op, AllWrites[op.write]) : op \in ops}

MCOps == UNION {screen.ops : screen \in Screens}

(* Every control of every screen.                                          *)
MCKinds == KindsOf(MCOps)

(* The create dialog, which is pressed again while applyRest is at work.   *)
MCCreateDialog == KindsOf({op \in CreateIssueDialog.ops : "follows" \in op.how})

(* The controls that make something and are never disabled: Copy on a      *)
(* workflow's card, the cards a widget is added with, and the box that a   *)
(* drag on the timeline leaves behind.                                     *)
MCUnheld ==
  KindsOf({op \in MCOps : /\ op.write \in {"useCopyWorkflow", "useAddWidget", "useCreateIssue"}
                          /\ op.how \cap {"waits", "once"} = {}})

(* There are no others: GuardedMakersMakeOnce speaks for all the rest.     *)
ASSUME MCGuarded ==
  {k \in MCKinds : ~Guarded(k)} = MCCreateDialog \cup MCUnheld
=============================================================================
