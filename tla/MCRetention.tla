----------------------------- MODULE MCRetention -----------------------------
EXTENDS Retention

CONSTANT MaxTime

(* A "day" is 2 instants long and a "week" 3, so that a week starts in the
   middle of a day.                                                        *)
MCTimes == 1 .. MaxTime
MCDurations == {"daily", "weekly"}
MCBucket == [d \in MCDurations |-> [t \in MCTimes |-> IF d = "daily" THEN t \div 2 ELSE t \div 3]]

MCSettings == [exportRetention : 1 .. 2, longTermRetention : [MCDurations -> 0 .. 2],
               deleteFirst : BOOLEAN, maxMergedDeltasPerRun : {1, 3}]

=============================================================================
