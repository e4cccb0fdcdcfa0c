------------------------- MODULE MCMissionExecutor -------------------------
(* Small instances of MissionExecutor for TLC.                             *)
EXTENDS MissionExecutor, TLC

CONSTANTS a, b, c

Graph(g) == [ids |-> DOMAIN g,
             deps |-> [t \in Tasks |-> IF t \in DOMAIN g THEN g[t] ELSE {}]]

\* a alone; b after a; three side by side, more than the pool takes at once.
MCTemplates ==
    {Graph(a :> {}), Graph(a :> {} @@ b :> {a}),
     Graph(a :> {} @@ b :> {} @@ c :> {})}

Entry(t, ds) == [id |-> t, deps |-> ds, ok |-> TRUE]
NotADict == [id |-> a, deps |-> {}, ok |-> FALSE]

\* Nothing; a task after a; a task that waits for itself; a good entry
\* followed by one that is not a dict.
MCFollowups ==
    {<<>>, <<Entry(c, {a})>>, <<Entry(c, {c})>>, <<Entry(c, {}), NotADict>>}

\* For the attempts of one task and of the task it spawns.
LoneTask == {Graph(a :> {})}
SpawnOrBreak == {<<>>, <<Entry(b, {a})>>, <<Entry(b, {}), NotADict>>}

MCPriority == [t \in Tasks |-> CASE t = b -> 0 [] t = a -> 1 [] OTHER -> 2]
TwoTries == a :> 1 @@ b :> 0
OneRetry == a :> 1 @@ b :> 0 @@ c :> 0
=============================================================================
