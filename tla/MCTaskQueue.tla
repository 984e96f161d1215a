----------------------------- MODULE MCTaskQueue -----------------------------
(* TLC instance of TaskQueue: three task objects, two of which share an       *)
(* identifier, and two workers, so that both can be parked while two tasks    *)
(* arrive.                                                                    *)
EXTENDS TaskQueue, TLC

CONSTANTS t1, t2, t3

MCTasks == {t1, t2, t3}
MCIDs == {"a", "b"}
MCIdOf == (t1 :> "a") @@ (t2 :> "a") @@ (t3 :> "b")
==============================================================================
