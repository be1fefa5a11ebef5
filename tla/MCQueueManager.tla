-------------------------- MODULE MCQueueManager --------------------------
(* Instances of QueueManager for TLC. *)
EXTENDS QueueManager

CONSTANTS i1, i2, q1, q2, t1, t2

\* Switches go to the other plugin, with either of its configs.
Forth == [plugin : {"bullmq"}, config : Configs]

\* Everything at once is too much, so each behaviour has one of these.
OneInstance == [instances |-> {i1}, names |-> {q1, q2}, recurring |-> {},
                ticks |-> {t1}, calls |-> 2, mishaps |-> 1]
TwoTicks == [instances |-> {i1}, names |-> {q1}, recurring |-> {},
             ticks |-> {t1, t2}, calls |-> 2, mishaps |-> 1]
RecurringJobs == [instances |-> {i1}, names |-> {q1}, recurring |-> {q1},
                  ticks |-> {t1}, calls |-> 2, mishaps |-> 0]
TwoInstances == [instances |-> {i1, i2}, names |-> {q1, q2}, recurring |-> {},
                 ticks |-> {t1}, calls |-> 1, mishaps |-> 1]
NoQueues == [instances |-> {i1, i2}, names |-> {}, recurring |-> {},
             ticks |-> {t1}, calls |-> 2, mishaps |-> 1]
Cases == {OneInstance, TwoTicks, RecurringJobs, TwoInstances, NoQueues}
=============================================================================
