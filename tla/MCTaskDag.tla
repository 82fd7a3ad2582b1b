----------------------------- MODULE MCTaskDag -----------------------------
EXTENDS TaskDag, TLC

CONSTANTS c1, c2

\* 1 fans out to 2; a plan has 4 after 3; of the joins 5 and 6 each waits for
\* the other, and for the shard or the plan's last task, which belongs to
\* another workstream.
MCKind == <<"fanout", "task", "task", "task", "join", "join">>
MCWorkstream == <<"w", "w", "v", "v", "w", "w">>
MCParent == "f" :> 1
MCShards == "f" :> {2}
MCJoinNode == "j" :> 5 @@ "k" :> 6
MCAwaited == "j" :> {2, 6} @@ "k" :> {4, 5}
MCPlanNodes == "p" :> {3, 4}
MCPlanEdges == "p" :> {<<3, 4>>}
Anyone == Permutations(Callers)
=============================================================================
