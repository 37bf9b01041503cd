------------------------------- MODULE MCAsync -------------------------------
(***************************************************************************)
(* Two tasks, each of which awaits a when_all, a when_any or a race of two *)
(* children; a thread that calls sync_wait beside them.                    *)
(***************************************************************************)
EXTENDS Async

MCTasks    == {"a", "b"}
MCShapes   == {"all", "any", "race"}
MCChildren == 1..2

RaceTasks  == {"c"}
RaceShapes == {"race"}
=============================================================================
