--------------------------- MODULE MCActiveFocus ---------------------------
EXTENDS ActiveFocus, TLC
CONSTANTS u1, t1
MCOwner == [t \in Tasks |-> u1]
MCStarts == {<<"work", t1>>, <<"break", Nil>>}
MCWorkStarts == {<<"work", t1>>}
Symm == Permutations(Sids) \cup Permutations(Requests)
View ==
  <<now, tasks, history, study, req, sweep,
    [s \in Sids |->
       [session[s] EXCEPT !.heartbeat = IF session[s].status = "running" THEN @ ELSE 0,
                          !.updated = IF session[s].status = "paused" THEN @ ELSE 0,
                          !.opened = 0]]>>
=============================================================================
