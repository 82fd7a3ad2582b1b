---------------------------- MODULE MCGoalQueue ----------------------------
EXTENDS GoalQueue, TLC

CONSTANTS g1, g2, g3

Item(repo, auto, kind, on, policy) ==
    [repo |-> repo, auto |-> auto, kind |-> kind, on |-> on, policy |-> policy]

Alone == g1 :> Item("r1", TRUE, "none", None, "completed_only")

\* The second goal waits for the first, or for its task.
MCPlans == {Alone @@ (g2 :> second) : second \in
    {Item("r1", TRUE, "goal", g1, "completed_only"),
     Item("r1", FALSE, "task", g1, "terminal_any")}}

\* A chain behind a goal and its task, and a goal that only shares the
\* repository, or another one.
DrainPlans == {Alone @@ (g2 :> Item("r1", TRUE, "goal", g1, "completed_only"))
                     @@ (g3 :> third) : third \in
    {Item("r1", TRUE, "task", g2, "completed_only"),
     Item("r2", TRUE, "none", None, "completed_only")}}
=============================================================================
