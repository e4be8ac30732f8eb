--------------------------- MODULE MCEventStream ---------------------------
(* Small instances of EventStream for TLC.  Workers are interchangeable, and
   so are the groups where all of them are run and none is made yet. *)
EXTENDS EventStream, TLC

CONSTANTS audit, mail
WorkerSymmetry == Permutations(Workers)
GroupSymmetry == Permutations({audit, mail})
=============================================================================
