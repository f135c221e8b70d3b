---------------------------- MODULE MCReminders ----------------------------
EXTENDS Reminders, TLC
CONSTANTS every1, every2, never
MCPeriod == [c \in Crons |-> IF c = never THEN 0 ELSE IF c = every1 THEN 1 ELSE 2]
Symm == Permutations(Instances)
SymmIds == Permutations(Ids) \cup Permutations(Instances)
=============================================================================
