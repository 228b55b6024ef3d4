---------------------------- MODULE MCEventStream ----------------------------
(* Instances of EventStream for TLC. *)
EXTENDS EventStream, TLC

MCWriters == {"dispatcher", "rest"}

\* The other writers of a run, its workers and the sweeper, take turns: "rest".

\* A run that completes.
Completes == "dispatcher" :> <<"run.enqueued">> @@ "rest" :> <<"run.started", "run.completed">>
==============================================================================
