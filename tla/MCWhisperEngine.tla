--------------------------- MODULE MCWhisperEngine ---------------------------
(* Values for the constants of WhisperEngine.                              *)
EXTENDS WhisperEngine

TwoJobs == 1..2

\* The second job asks for another model.
TwoModels == <<1, 2>>

OnceEach == [cancel |-> 1, destroy |-> 1, trim |-> 1, other |-> 1]
=============================================================================
