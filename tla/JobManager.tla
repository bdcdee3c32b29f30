----------------------------- MODULE JobManager -----------------------------
(***************************************************************************)
(* The background jobs of each process, by their names: what the users of  *)
(* JobManager can see of it.  The web server and a command of manage.py    *)
(* have each their own, so that a name that is taken in one is free in the *)
(* other.  What a job does is the business of the module that spawns it.   *)
(***************************************************************************)
CONSTANTS Processes, Names

VARIABLE jobs  \* the <<process, name>> pairs of self.jobs

Jobs == Processes \X Names

\* exists
Exists(p, n) == <<p, n>> \in jobs

\* spawn_once, where it does not raise: the caller tests Exists.
SpawnOnce(p, n) == jobs' = jobs \cup {<<p, n>>}

\* Mutant: a wrapper that forgets its job only when it went well.
PopUnlessFailed(p, n, failed) ==
    jobs' = IF failed THEN jobs ELSE jobs \ {<<p, n>>}

\* _wrapper_single_shot_task's finally, for a job that failed as for any other
Pop(p, n, failed) == jobs' = jobs \ {<<p, n>>}

\* stop, or the death of the process
Stop(p) == jobs' = {j \in jobs : j[1] # p}
=============================================================================
