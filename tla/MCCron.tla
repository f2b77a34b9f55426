------------------------------- MODULE MCCron -------------------------------
(* Instances of Cron for TLC. *)
EXTENDS Cron, TLC

CONSTANTS once, often, p1, p2, c1

At(t)    == [kind |-> "at", time |-> t]
Every(t) == [kind |-> "every", time |-> t]

Added(s) == [sched |-> s, enabled |-> TRUE, declared |-> FALSE, locked |-> FALSE,
           once |-> s.kind = "at", next |-> s.time]
Started(decls, orphans, unpoliced, catchUp) ==
  [decls |-> decls, orphans |-> orphans, unpoliced |-> unpoliced, catchUp |-> catchUp]

\* A recurring job that was added, and a declared one-shot.
AddedAndDeclared == (often :> Added(Every(1))) @@ (once :> NoJob)
OnceDeclared     == once :> [sched |-> At(1), enabled |-> TRUE]

\* All is well; the agent of one job has gone, or its policy is broken, and the
\* other is no longer declared.
ThreeConfigs == {Started({once}, {}, {}, TRUE), Started({once}, {often}, {}, FALSE),
                 Started({}, {}, {often}, TRUE)}
OneConfig    == {Started({once}, {}, {}, TRUE)}

NextOnly == {At(2), Every(1)}
=============================================================================
