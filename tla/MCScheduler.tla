----------------------------- MODULE MCScheduler -----------------------------
\* The scheduler for TLC: a daily schedule for the second half of a day and a monthly one
\* for the first, and two months, the second of which is shorter than the first.
EXTENDS Scheduler

MCCadence == <<"daily", "monthly">>
MCWhen == <<1, 0>>
MCMonthEnds == <<2, 3>>

\* After an overlap or a kill the safety properties and DueRuns hold for good, whatever
\* follows; of those states TLC visits the ones that two commands lead to.
FewAfterFault == overlap \/ killed => commands <= 2
=============================================================================
