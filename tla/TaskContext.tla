---------------------------- MODULE TaskContext -----------------------------
(***************************************************************************)
(* What the builder's process-wide context promises its client, without   *)
(* the operators: between two calls of process_custom_task the graph only *)
(* grows, and only by new vertices with their incoming edges, so that a   *)
(* node's inputs are fixed once it exists; a key stays in the key table   *)
(* and its level never goes down; process_custom_task hands the graph on  *)
(* as the task and leaves an empty graph and key table.                   *)
(***************************************************************************)
EXTENDS Integers, Graphs

VARIABLES
    dag,       \* the graph of the task being built
    keyLevel,  \* key name -> the level of its key node
    task       \* the graph of the last task handed on

vars == <<dag, keyLevel, task>>

Init ==
    /\ dag = EmptyGraph
    /\ keyLevel = <<>>
    /\ task = EmptyGraph

\* One call of an operator: new vertices, each with its incoming edges;
\* new keys, and existing keys at the same or a higher level.
Extend ==
    /\ dag.node \subseteq dag'.node
    /\ dag.edge \subseteq dag'.edge
    /\ \A e \in dag'.edge \ dag.edge : e[2] \notin dag.node
    /\ DOMAIN keyLevel \subseteq DOMAIN keyLevel'
    /\ \A k \in DOMAIN keyLevel : keyLevel'[k] >= keyLevel[k]
    /\ UNCHANGED task

\* process_custom_task: the task is the graph; the context is emptied.
HandOn ==
    /\ task' = dag
    /\ dag' = EmptyGraph
    /\ keyLevel' = <<>>

Next == Extend \/ HandOn

Spec == Init /\ [][Next]_vars

=============================================================================
