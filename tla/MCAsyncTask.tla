---------------------------- MODULE MCAsyncTask ----------------------------
(* Model-checking instances of AsyncTask: tasks, and the tool calls of a round,
   are interchangeable. *)
EXTENDS AsyncTask

Symmetry == Permutations(Tasks) \cup Permutations(Callers)
=============================================================================
