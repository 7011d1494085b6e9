-------------------------- MODULE MCAsyncSingleton --------------------------
(* AsyncSingleton with four tasks. *)
EXTENDS AsyncSingleton
CONSTANTS t1, t2, t3, t4
MCTasks == {t1, t2, t3, t4}
=============================================================================
