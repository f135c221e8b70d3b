------------------------------ MODULE MCTasks ------------------------------
EXTENDS Tasks, TLC
Symm == Permutations(Ids) \cup Permutations(Requests \ Rescheduling)

\* What a handler has read and will write, less the columns no later statement looks at.
Held(q) == [pc |-> q.pc, id |-> q.id, date |-> q.current.date, rule |-> q.current.rule,
            from |-> IF q.pc = "write" THEN q.current.status ELSE "todo",
            to |-> IF q.pc = "write" THEN <<q.params.date, q.params.status, q.params.rule>>
                                     ELSE <<>>]

\* The histories of a task; those of an id that is free again start anew when it is given.
History(m) ==
  IF tasks[m].there \/ Referenced(m)
  THEN <<completions[m], spawned[m] + dropped[m], overlaps[m]>> ELSE <<>>
View == <<today, tasks, [r \in Requests |-> Held(req[r])], [m \in Ids |-> History(m)]>>
=============================================================================
