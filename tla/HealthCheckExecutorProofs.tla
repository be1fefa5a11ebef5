--------------------- MODULE HealthCheckExecutorProofs ---------------------
(***************************************************************************)
(* Theorems about StateEvaluator, for any number of runs and thresholds;   *)
(* about HealthCheckExecutor, for any checks, thresholds, windows and      *)
(* failures and any number of overlapping executions;                      *)
(* and about CollectorFigures, for any collectors, measures and runs.      *)
(***************************************************************************)
EXTENDS HealthCheckExecutor, CollectorFigures, SubsequenceFacts, SequenceTheorems, FiniteSetTheorems, TLAPS

\* The streak the newest run ends exists: it stops before the first run of the
\* other kind, or at the end.
LEMMA StreakFact ==
  ASSUME NEW s \in Seq(HealthCheckStatus), NEW failures \in BOOLEAN
  PROVE  /\ Streak(s, failures) \in 0..Len(s)
         /\ IsStreak(s, failures, Streak(s, failures))
         /\ Streak(s, failures) < Len(s) => ~IsStreak(s, failures, Streak(s, failures) + 1)
<1> DEFINE others == {i \in 1..Len(s) : Failed(s[i]) # failures}
           P(n) == /\ IsStreak(s, failures, n)
                   /\ n < Len(s) => ~IsStreak(s, failures, n + 1)
<1>1. Len(s) \in Nat
  OBVIOUS
<1>2. \E n \in 0..Len(s) : P(n)
  <2>1. CASE others = {}
    <3>1. IsStreak(s, failures, Len(s))
      BY <2>1 DEF IsStreak
    <3> QED
      BY <3>1, <1>1
  <2>2. CASE others # {}
    <3>0. others \in SUBSET Nat
      BY <1>1
    <3>1. PICK n \in others : \A i \in others : n <= i
      BY <3>0, <2>2, LeastNumber, Zenon
    <3>2. n \in 1..Len(s) /\ Failed(s[n]) # failures
      BY <3>1
    <3>3. \A i \in 1..n - 1 : Failed(s[i]) = failures
      <4> SUFFICES ASSUME NEW i \in 1..n - 1 PROVE Failed(s[i]) = failures
        OBVIOUS
      <4>1. i \in 1..Len(s) /\ i < n
        BY <3>2, <1>1
      <4> QED
        BY <4>1, <3>1, <3>2
    <3>4. n - 1 \in 0..Len(s) /\ n - 1 + 1 = n
      BY <3>2, <1>1
    <3>5. ~IsStreak(s, failures, n - 1 + 1)
      BY <3>2, <3>4 DEF IsStreak
    <3> QED
      BY <3>3, <3>4, <3>5 DEF IsStreak
  <2> QED
    BY <2>1, <2>2
<1> QED
  BY <1>2 DEF Streak

\* Both streaks are decided by the newest run.
LEMMA NewestDecides ==
  ASSUME NEW s \in Seq(HealthCheckStatus), s # << >>, NEW failures \in BOOLEAN,
         Failed(s[1]) # failures
  PROVE  Streak(s, failures) = 0
<1>1. Streak(s, failures) \in 0..Len(s) /\ IsStreak(s, failures, Streak(s, failures))
  BY StreakFact
<1>2. Streak(s, failures) >= 1 => Failed(s[1]) = failures
  BY <1>1 DEF IsStreak
<1> QED
  BY <1>1, <1>2

\* evaluateConsecutive, core/healthcheck-backend/src/state-evaluator.ts:41: whatever the thresholds
\* and the history, the check is healthy exactly when its newest run is: the
\* fallback to the latest run covers every streak that is too short, so one
\* failure is enough to leave healthy and one success to return.
THEOREM ConsecutiveFollowsLatest ==
  ASSUME NEW history \in Seq(HealthCheckStatus), history # << >>,
         NEW t, t.mode = "consecutive",
         t.healthy \in Nat \ {0}, t.degraded \in Nat \ {0}, t.unhealthy \in Nat \ {0}
  PROVE  (EvaluateHealthStatus(history, t) = "healthy") = ~Failed(history[1])
<1>1. EvaluateHealthStatus(history, t) = EvaluateConsecutive(history, t)
  BY DEF EvaluateHealthStatus
<1>2. CASE Failed(history[1])
  <2>1. Streak(history, FALSE) = 0
    BY <1>2, NewestDecides
  <2>2. ~(0 >= t.healthy)
    OBVIOUS
  <2>3. ~(Streak(history, FALSE) >= t.healthy)
    BY <2>1, <2>2, Zenon
  <2> QED
    BY <2>3, <1>1, <1>2 DEF EvaluateConsecutive, Failed
<1>3. CASE ~Failed(history[1])
  <2>1. Streak(history, TRUE) = 0
    BY <1>3, NewestDecides DEF Failed
  <2>2. ~(0 >= t.unhealthy) /\ ~(0 >= t.degraded)
    OBVIOUS
  <2>3. ~(Streak(history, TRUE) >= t.unhealthy) /\ ~(Streak(history, TRUE) >= t.degraded)
    BY <2>1, <2>2, Zenon
  <2> QED
    BY <2>3, <1>1, <1>3 DEF EvaluateConsecutive, Failed
<1> QED
  BY <1>2, <1>3
-----------------------------------------------------------------------------
(* Types and connections *)

Pcs == {"idle", "fetch", "connecting", "collecting", "store", "signal", "compare",
        "notify", "hook"}

Record ==
  [pc : Pcs, check : Checks \cup {None}, path : {"normal", "failed", "caught"},
   previous : HealthCheckStatus, status : {"healthy", "unhealthy"},
   new : HealthCheckStatus, stored : 0..2]

Connection == {"none", "connecting", "open", "late"}

\* Where an execution is tells how many runs it has stored, which catch blocks it
\* has been through, and whether it may hold a connection: one that is not late is
\* being made, or serves the collectors, or is left to the catch block's finally.
Consistent(x, c) ==
  /\ x.pc \in {"idle", "fetch", "connecting", "collecting"} => x.stored = 0 /\ x.path = "normal"
  /\ x.pc = "store" => x.stored <= 1 /\ (x.path # "caught" => x.stored = 0)
  /\ x.path # "caught" => x.stored <= 1
  /\ c = "connecting" => x.pc = "connecting"
  /\ c = "open" => x.pc = "collecting" \/ x.path = "failed"

ConnectionInv ==
  /\ TypeOK
  /\ \A e \in Executions : Consistent(exec[e], client[e])
  /\ ~leaked

\* TypeOK in the terms of this module.
LEMMA Types ==
  TypeOK <=>
    /\ runs \in [Checks -> UNION {[1..n -> {"healthy", "unhealthy"}] : n \in 0..maxWindowSize}]
    /\ enabled \subseteq Checks /\ paused \subseteq Checks /\ suppressed \in BOOLEAN
    /\ exec \in [Executions -> Record]
    /\ client \in [Executions -> Connection] /\ leaked \in BOOLEAN
    /\ told \in HealthCheckStatus /\ astray \in BOOLEAN
    /\ mishaps \in 0..MaxMishaps
  BY DEF TypeOK, Record, Pcs, Connection

LEMMA StatusType == SystemStatus \in HealthCheckStatus
  BY DEF SystemStatus, Worst, HealthCheckStatus

\* What an action may do to one execution and its connection.
Moves(e, x, c) ==
  /\ x \in Record /\ c \in Connection
  /\ exec' = [exec EXCEPT ![e] = x] /\ client' = [client EXCEPT ![e] = c]
  /\ Consistent(x, c)
  /\ leaked' = FALSE

Rest ==
  /\ runs' \in [Checks -> UNION {[1..n -> {"healthy", "unhealthy"}] : n \in 0..maxWindowSize}]
  /\ enabled' \subseteq Checks /\ paused' \subseteq Checks /\ suppressed' \in BOOLEAN
  /\ told' \in HealthCheckStatus /\ astray' \in BOOLEAN /\ mishaps' \in 0..MaxMishaps

LEMMA MovesKeep ==
  ASSUME ConnectionInv, NEW e \in Executions, NEW x, NEW c, Moves(e, x, c), Rest
  PROVE  ConnectionInv'
<1>1. exec' \in [Executions -> Record] /\ client' \in [Executions -> Connection]
  BY Types DEF ConnectionInv, Moves
<1>2. TypeOK'
  BY <1>1, Types DEF Moves, Rest, TypeOK, Record, Pcs, Connection
<1>3. ASSUME NEW d \in Executions PROVE Consistent(exec[d], client[d])'
  <2>1. CASE d = e
    <3>1. exec'[d] = x /\ client'[d] = c
      BY <2>1, Types DEF ConnectionInv, Moves
    <3> QED
      BY <3>1 DEF Moves
  <2>2. CASE d # e
    <3>1. exec'[d] = exec[d] /\ client'[d] = client[d]
      BY <2>2, Types DEF ConnectionInv, Moves
    <3>2. Consistent(exec[d], client[d])
      BY DEF ConnectionInv
    <3> QED
      BY <3>1, <3>2 DEF Consistent
  <2> QED
    BY <2>1, <2>2
<1> QED
  BY <1>2, <1>3 DEF ConnectionInv, Moves

\* The execution is over in the state in which its connection was left.
LEMMA LeaveMoves ==
  ASSUME ConnectionInv, NEW e \in Executions, Leave(e),
         ~At(e, "connecting"), ~At(e, "collecting")
  PROVE  Moves(e, Idle, "none")
<1> DEFINE left == IF exec[e].path = "failed" THEN Closed(client[e]) ELSE client[e]
<1>1. Idle \in Record
  BY DEF Idle, Record, Pcs, HealthCheckStatus
<1>2. left # "open"
  <2>1. Consistent(exec[e], client[e])
    BY DEF ConnectionInv
  <2> QED
    BY <2>1 DEF Consistent, At, Closed
<1>3. Consistent(Idle, "none")
  BY DEF Consistent, Idle
<1>4. exec' = [exec EXCEPT ![e] = Idle] /\ client' = [client EXCEPT ![e] = "none"]
  BY DEF Leave, Ends
<1>5. leaked' = (leaked \/ left = "open") /\ ~leaked
  BY DEF Leave, Ends, ConnectionInv
<1> HIDE DEF left
<1> QED
  BY <1>1, <1>2, <1>3, <1>4, <1>5 DEF Moves, Connection

\* What the actions use of the invariant.
Before(e) ==
  /\ Consistent(exec[e], client[e]) /\ exec[e] \in Record
  /\ client[e] \in Connection /\ leaked = FALSE
  /\ exec \in [Executions -> Record] /\ client \in [Executions -> Connection]

LEMMA BeforeHolds ==
  ASSUME ConnectionInv, NEW e \in Executions
  PROVE  Before(e)
  BY Types DEF ConnectionInv, Before

\* Something throws: on to the outer catch block, or out of it.
LEMMA ThrowsMoves ==
  ASSUME ConnectionInv, NEW e \in Executions, Throws(e),
         exec[e].pc \in {"fetch", "store", "signal", "compare", "hook"}
  PROVE  \E x, c : Moves(e, x, c)
<1>0. Before(e)
  BY BeforeHolds
<1>1. CASE exec[e].path = "caught"
  <2>1. Leave(e) /\ ~At(e, "connecting") /\ ~At(e, "collecting")
    BY <1>1 DEF Throws, At
  <2> QED
    BY <2>1, LeaveMoves
<1>2. CASE exec[e].path # "caught"
  <2> DEFINE x == [exec[e] EXCEPT !.pc = "store", !.path = "caught", !.status = "unhealthy"]
             c == IF exec[e].path = "failed" THEN Closed(client[e]) ELSE client[e]
  <2>1. exec' = [exec EXCEPT ![e] = x] /\ client' = [client EXCEPT ![e] = c] /\ leaked' = FALSE
    BY <1>2, <1>0 DEF Throws, Before
  <2>2. x \in Record /\ x.pc = "store" /\ x.path = "caught" /\ x.stored = exec[e].stored
    BY <1>0 DEF Record, Pcs, Before
  <2>3. c \in Connection
    BY <1>0 DEF Closed, Connection, Before
  <2>4. exec[e].stored <= 1
    BY <1>2, <1>0 DEF Consistent, Before
  <2>5. c # "open" /\ c # "connecting"
    BY <1>2, <1>0 DEF Consistent, Closed, Connection, Before
  <2>6. Consistent(x, c)
    <3> HIDE DEF x, c
    <3> QED
      BY <2>2, <2>4, <2>5 DEF Consistent
  <2> HIDE DEF x, c
  <2>7. Moves(e, x, c)
    BY <2>1, <2>2, <2>3, <2>6 DEF Moves
  <2> QED
    BY <2>7
<1> QED
  BY <1>1, <1>2

LEMMA RestUnchanged ==
  ASSUME ConnectionInv, UNCHANGED <<runs, enabled, paused, suppressed>>,
         told' \in HealthCheckStatus, astray' \in BOOLEAN, mishaps' = mishaps \/ Mishap
  PROVE  Rest
<1>1. mishaps' \in 0..MaxMishaps
  BY Types, BoundAssumption DEF ConnectionInv, Mishap
<1> QED
  BY <1>1, Types DEF ConnectionInv, Rest

\* The newest runs, at most maxWindowSize of them.
LEMMA NewestRuns ==
  ASSUME NEW h \in UNION {[1..n -> {"healthy", "unhealthy"}] : n \in 0..maxWindowSize},
         NEW status \in {"healthy", "unhealthy"}
  PROVE  SubSeq(<<status>> \o h, 1,
                IF Len(h) < maxWindowSize THEN Len(h) + 1 ELSE maxWindowSize)
           \in UNION {[1..n -> {"healthy", "unhealthy"}] : n \in 0..maxWindowSize}
<1> DEFINE S == {"healthy", "unhealthy"}
           k == IF Len(h) < maxWindowSize THEN Len(h) + 1 ELSE maxWindowSize
           longer == <<status>> \o h
<1>1. maxWindowSize \in Nat \ {0}
  BY BoundAssumption
<1>2. PICK n \in 0..maxWindowSize : h \in [1..n -> S]
  OBVIOUS
<1>3. h \in Seq(S) /\ Len(h) = n
  BY <1>1, <1>2
<1>4. <<status>> \in Seq(S) /\ Len(<<status>>) = 1
  OBVIOUS
<1> HIDE DEF S
<1>5. longer \in Seq(S) /\ Len(longer) = n + 1
  BY <1>3, <1>4, ConcatProperties
<1>6. k \in 0..maxWindowSize /\ k <= n + 1
  BY <1>1, <1>2, <1>3
<1> HIDE DEF longer, k
<1>7. SubSeq(longer, 1, k) = [i \in 1..k |-> longer[i]]
  BY <1>1, <1>6
<1>8. \A i \in 1..k : longer[i] \in S
  BY <1>1, <1>2, <1>5, <1>6
<1>9. SubSeq(longer, 1, k) \in [1..k -> S]
  BY <1>7, <1>8
<1> QED
  BY <1>6, <1>9 DEF longer, k, S

LEMMA EarlyMoves ==
  ASSUME ConnectionInv, NEW e \in Executions,
         \/ \E c \in Checks : Start(e, c)
         \/ FetchConfig(e) \/ Connected(e) \/ Refused(e) \/ Timeout(e)
         \/ \E status \in {"healthy", "unhealthy"} : Collected(e, status)
  PROVE  (\E x, c : Moves(e, x, c)) /\ Rest
<1>0. Before(e)
  BY BeforeHolds
<1>r. Rest
  <2>1. UNCHANGED <<runs, enabled, paused, suppressed, told, astray>>
    BY DEF Start, FetchConfig, Connected, Refused, Timeout, Collected
  <2>2. mishaps' = mishaps \/ Mishap
    BY DEF Start, FetchConfig, Connected, Refused, Timeout, Collected
  <2>3. told \in HealthCheckStatus /\ astray \in BOOLEAN
    BY Types DEF ConnectionInv
  <2> QED
    BY <2>1, <2>2, <2>3, RestUnchanged
<1>1. ASSUME NEW k \in Checks, Start(e, k) PROVE \E x, c : Moves(e, x, c)
  <2> DEFINE x == [Idle EXCEPT !.pc = "fetch", !.check = k, !.previous = SystemStatus]
  <2>1. exec' = [exec EXCEPT ![e] = x] /\ At(e, "idle") /\ UNCHANGED <<client, leaked>>
    BY <1>1 DEF Start
  <2>2. x \in Record /\ x.pc = "fetch" /\ x.stored = 0 /\ x.path = "normal"
    <3>1. Idle \in Record /\ Idle.stored = 0 /\ Idle.path = "normal"
      BY DEF Idle, Record, Pcs, HealthCheckStatus
    <3> QED
      BY <3>1, StatusType DEF Record, Pcs
  <2> HIDE DEF x
  <2>3. client' = [client EXCEPT ![e] = client[e]]
    BY <1>0, <2>1 DEF Before
  <2>4. Consistent(x, client[e])
    BY <1>0, <2>1, <2>2 DEF Consistent, Before, At
  <2>5. Moves(e, x, client[e])
    BY <1>0, <2>1, <2>2, <2>3, <2>4 DEF Moves, Before
  <2> QED
    BY <2>5
<1>2. CASE FetchConfig(e)
  <2>1. CASE exec[e].check \in enabled \ paused
    <3> DEFINE x == [exec[e] EXCEPT !.pc = "connecting"]
    <3>1. /\ exec' = [exec EXCEPT ![e] = x] /\ At(e, "fetch")
          /\ client' = [client EXCEPT ![e] = "connecting"] /\ leaked' = leaked
      BY <1>2, <2>1, <1>0 DEF FetchConfig, GoesTo, Before
    <3>2. x \in Record /\ x.pc = "connecting" /\ x.stored = exec[e].stored
          /\ x.path = exec[e].path
      BY <1>0 DEF Record, Pcs, Before
    <3> HIDE DEF x
    <3>3. Consistent(x, "connecting")
      <4>1. exec[e].stored <= 1 \/ exec[e].path = "caught"
        BY <1>0 DEF Consistent, Before
      <4> QED
        BY <1>0, <3>1, <3>2, <4>1 DEF Consistent, Before, At
    <3>4. Moves(e, x, "connecting")
      BY <1>0, <3>1, <3>2, <3>3 DEF Moves, Before, Connection
    <3> QED
      BY <3>4, <1>r
  <2>2. CASE exec[e].check \notin enabled \ paused
    <3>1. Leave(e) /\ ~At(e, "connecting") /\ ~At(e, "collecting")
      BY <1>2, <2>2 DEF FetchConfig, At
    <3>2. Moves(e, Idle, "none")
      BY <3>1, LeaveMoves
    <3> QED
      BY <3>2, <1>r
  <2> QED
    BY <2>1, <2>2
<1>3. CASE Connected(e)
  <2> DEFINE x == [exec[e] EXCEPT !.pc = "collecting"]
  <2>1. /\ client' = [client EXCEPT ![e] = "open"] /\ leaked' = leaked
        /\ exec' = [exec EXCEPT ![e] = x] /\ At(e, "connecting")
    BY <1>3, <1>0 DEF Connected, GoesTo, Before
  <2>2. x \in Record /\ x.stored = exec[e].stored /\ x.path = exec[e].path /\ x.pc = "collecting"
    BY <1>0 DEF Record, Pcs, Before
  <2> HIDE DEF x
  <2>3. Consistent(x, "open")
    BY <1>0, <2>1, <2>2 DEF Consistent, Before, At
  <2>4. Moves(e, x, "open")
    BY <1>0, <2>1, <2>2, <2>3 DEF Moves, Before, Connection
  <2> QED
    BY <2>4, <1>r
\* The catch block of the connection.
<1>4. ASSUME NEW c \in {"none", "open", "late"}, client' = [client EXCEPT ![e] = c],
             CheckFails(e), leaked' = leaked, At(e, "connecting") \/ At(e, "collecting")
      PROVE  Moves(e, [exec[e] EXCEPT !.pc = "store", !.path = "failed", !.status = "unhealthy"], c)
  <2> DEFINE x == [exec[e] EXCEPT !.pc = "store", !.path = "failed", !.status = "unhealthy"]
  <2>1. exec' = [exec EXCEPT ![e] = x]
    BY <1>4, <1>0 DEF CheckFails, Before
  <2>2. x \in Record /\ x.stored = exec[e].stored /\ x.pc = "store" /\ x.path = "failed"
    BY <1>0 DEF Record, Pcs, Before
  <2> HIDE DEF x
  <2>3. Consistent(x, c)
    BY <1>0, <1>4, <2>2 DEF Consistent, Before, At
  <2>4. Moves(e, x, c)
    BY <1>0, <1>4, <2>1, <2>2, <2>3 DEF Moves, Before, Connection
  <2> QED
    BY <2>4 DEF x
<1>5. CASE Refused(e)
  BY <1>5, <1>4, <1>r DEF Refused
<1>6. CASE Timeout(e)
  <2>1. CASE At(e, "connecting") /\ client' = [client EXCEPT ![e] = "late"]
    BY <1>6, <2>1, <1>4, <1>r DEF Timeout
  <2>2. CASE At(e, "collecting") /\ UNCHANGED client
    <3>1. client[e] \in {"none", "open", "late"} /\ client' = [client EXCEPT ![e] = client[e]]
      BY <2>2, <1>0 DEF Before, Consistent, Connection, At
    <3> QED
      BY <1>6, <2>2, <3>1, <1>4, <1>r DEF Timeout
  <2> QED
    BY <1>6, <2>1, <2>2 DEF Timeout
<1>7. ASSUME NEW status \in {"healthy", "unhealthy"}, Collected(e, status)
      PROVE  \E x, c : Moves(e, x, c)
  <2> DEFINE x == [exec[e] EXCEPT !.pc = "store", !.status = status]
             c == Closed(client[e])
  <2>1. /\ exec' = [exec EXCEPT ![e] = x] /\ client' = [client EXCEPT ![e] = c]
        /\ leaked' = leaked /\ At(e, "collecting")
    BY <1>7, <1>0 DEF Collected, Before
  <2>2. x \in Record /\ x.stored = exec[e].stored /\ x.pc = "store" /\ x.path = exec[e].path
    BY <1>0 DEF Record, Pcs, Before
  <2>3. c \in Connection /\ c # "open" /\ (c = "connecting" => client[e] = "connecting")
    BY <1>0 DEF Before, Closed, Connection
  <2> HIDE DEF x, c
  <2>4. Consistent(x, c)
    BY <1>0, <2>1, <2>2, <2>3 DEF Consistent, Before, At
  <2>5. Moves(e, x, c)
    BY <1>0, <2>1, <2>2, <2>3, <2>4 DEF Moves, Before
  <2> QED
    BY <2>5
<1> QED
  BY <1>1, <1>2, <1>3, <1>5, <1>6, <1>7, <1>r

\* A step after the check that moves on, or is over.
LEMMA OnMoves ==
  ASSUME ConnectionInv, NEW e \in Executions,
         exec[e].pc \in {"signal", "compare", "notify"},
         NEW pc \in {"compare", "notify", "hook"}, NEW new \in HealthCheckStatus,
         exec' = [exec EXCEPT ![e] = [exec[e] EXCEPT !.pc = pc, !.new = new]],
         UNCHANGED <<client, leaked>>
  PROVE  \E x, c : Moves(e, x, c)
<1> DEFINE x == [exec[e] EXCEPT !.pc = pc, !.new = new]
<1>0. Before(e)
  BY BeforeHolds
<1>1. exec' = [exec EXCEPT ![e] = x] /\ client' = [client EXCEPT ![e] = client[e]]
  BY <1>0 DEF Before
<1>2. x \in Record /\ x.pc = pc /\ x.stored = exec[e].stored /\ x.path = exec[e].path
  BY <1>0 DEF Record, Pcs, Before
<1> HIDE DEF x
<1>3. Consistent(x, client[e])
  BY <1>0, <1>2 DEF Consistent, Before
<1>4. Moves(e, x, client[e])
  BY <1>0, <1>1, <1>2, <1>3 DEF Moves, Before
<1> QED
  BY <1>4

LEMMA LateActionsMove ==
  ASSUME ConnectionInv, NEW e \in Executions,
         \/ StoreRun(e) \/ QueryFails(e) \/ Broadcast(e) \/ BroadcastFails(e)
         \/ CompareState(e) \/ NotifyStateChange(e) \/ EmitHook(e) \/ EmitHookFails(e)
  PROVE  (\E x, c : Moves(e, x, c)) /\ Rest
<1>0. Before(e)
  BY BeforeHolds
<1>1. told \in HealthCheckStatus /\ astray \in BOOLEAN
  BY Types DEF ConnectionInv
<1>2. exec[e].new \in HealthCheckStatus
  BY <1>0 DEF Before, Record
\* Both catch blocks.
<1>3. ASSUME Throws(e), exec[e].pc \in {"fetch", "store", "signal", "compare", "hook"},
             Mishap, astray' \in BOOLEAN, UNCHANGED <<runs, enabled, paused, suppressed, told>>
      PROVE  (\E x, c : Moves(e, x, c)) /\ Rest
  BY <1>1, <1>3, ThrowsMoves, RestUnchanged
\* The end.
<1>4. ASSUME Leave(e), exec[e].pc \in {"compare", "notify", "hook"}
      PROVE  \E x, c : Moves(e, x, c)
  <2>1. ~At(e, "connecting") /\ ~At(e, "collecting")
    BY <1>4 DEF At
  <2> QED
    BY <1>4, <2>1, LeaveMoves
<1>5. CASE StoreRun(e)
  <2> DEFINE x == [exec[e] EXCEPT !.pc = "signal", !.status = "healthy", !.stored = exec[e].stored + 1]
  <2>1. /\ exec' = [exec EXCEPT ![e] = x] /\ client' = [client EXCEPT ![e] = client[e]]
        /\ leaked' = leaked /\ At(e, "store")
    BY <1>5, <1>0 DEF StoreRun, Before
  <2>2. exec[e].stored \in 0..1
    BY <1>0, <2>1 DEF Before, Consistent, Record, At
  <2>3. x \in Record /\ x.stored = exec[e].stored + 1 /\ x.pc = "signal" /\ x.path = exec[e].path
    <3>1. exec[e].stored + 1 \in 0..2
      BY <2>2
    <3> DEFINE more == exec[e].stored + 1
    <3> HIDE DEF more
    <3>2. [exec[e] EXCEPT !.pc = "signal", !.status = "healthy", !.stored = more] \in Record
      BY <1>0, <3>1 DEF Before, Record, Pcs, more
    <3> QED
      BY <1>0, <3>2 DEF Before, Record, more
  <2> HIDE DEF x
  <2>4. Consistent(x, client[e])
    BY <1>0, <2>1, <2>2, <2>3 DEF Consistent, Before, At
  <2>5. Moves(e, x, client[e])
    BY <1>0, <2>1, <2>3, <2>4 DEF Moves, Before
  <2>6. Rest
    <3> DEFINE Newest(h) == SubSeq(<<exec[e].status>> \o h, 1,
                              IF Len(h) < maxWindowSize THEN Len(h) + 1 ELSE maxWindowSize)
               Recent == UNION {[1..n -> {"healthy", "unhealthy"}] : n \in 0..maxWindowSize}
    <3>1. runs' = [runs EXCEPT ![exec[e].check] = Newest(@)]
      BY <1>5 DEF StoreRun
    <3>2. \A h \in Recent : Newest(h) \in Recent
      <4>1. exec[e].status \in {"healthy", "unhealthy"}
        BY <1>0 DEF Before, Record
      <4> QED
        BY <4>1, NewestRuns
    <3> HIDE DEF Newest
    <3>3. runs \in [Checks -> Recent]
      BY Types DEF ConnectionInv
    <3> HIDE DEF Recent
    <3>4. runs' \in [Checks -> Recent]
      BY <3>1, <3>2, <3>3
    <3>5. UNCHANGED <<enabled, paused, suppressed, told, mishaps>>
      BY <1>5 DEF StoreRun
    <3>6. astray' \in BOOLEAN
      BY <1>5 DEF StoreRun, Strays
    <3> QED
      BY <3>4, <3>5, <3>6, Types DEF ConnectionInv, Rest, Recent
  <2> QED
    BY <2>5, <2>6
<1>6. CASE QueryFails(e)
  <2>1. astray' \in BOOLEAN
    BY <1>6 DEF QueryFails, Strays
  <2> QED
    BY <1>6, <2>1, <1>3 DEF QueryFails
<1>7. CASE Broadcast(e)
  <2>1. /\ exec' = [exec EXCEPT ![e] = [exec[e] EXCEPT !.pc = "compare", !.new = exec[e].new]]
        /\ exec[e].pc = "signal"
    <3>1. [exec[e] EXCEPT !.pc = "compare", !.new = exec[e].new] = [exec[e] EXCEPT !.pc = "compare"]
      BY <1>0 DEF Before, Record
    <3> QED
      BY <1>7, <3>1 DEF Broadcast, GoesTo, At
  <2>2. UNCHANGED <<runs, enabled, paused, suppressed, client, told, astray, leaked, mishaps>>
    BY <1>7 DEF Broadcast
  <2> QED
    BY <2>1, <2>2, <1>1, <1>2, OnMoves, RestUnchanged
<1>8. CASE BroadcastFails(e)
  <2>1. astray' \in BOOLEAN
    BY <1>8 DEF BroadcastFails, Strays
  <2> QED
    BY <1>8, <2>1, <1>3 DEF BroadcastFails, At
<1>9. CASE CompareState(e)
  <2>1. /\ UNCHANGED <<runs, enabled, paused, suppressed, told, astray, mishaps>>
        /\ exec[e].pc = "compare"
    BY <1>9 DEF CompareState, At
  <2>2. CASE SystemStatus = exec[e].previous
    BY <1>9, <2>1, <2>2, <1>1, <1>4, RestUnchanged DEF CompareState
  <2>3. CASE SystemStatus # exec[e].previous
    <3>1. /\ exec' = [exec EXCEPT ![e] = [exec[e] EXCEPT !.pc = "notify", !.new = SystemStatus]]
          /\ UNCHANGED <<client, leaked>>
      BY <1>9, <2>3, <1>0 DEF CompareState, Before
    <3> QED
      BY <3>1, <2>1, <1>1, StatusType, OnMoves, RestUnchanged
  <2> QED
    BY <2>2, <2>3
<1>10. CASE NotifyStateChange(e)
  <2>1. /\ UNCHANGED <<runs, enabled, paused, suppressed>>
        /\ exec[e].pc = "notify" /\ told' \in HealthCheckStatus
    BY <1>10, <1>1, <1>2 DEF NotifyStateChange, Told, At
  <2>2. astray' \in BOOLEAN /\ (mishaps' = mishaps \/ Mishap)
    BY <1>10 DEF NotifyStateChange, Told, Strays
  <2>3. CASE Leave(e)
    BY <2>1, <2>2, <2>3, <1>4, RestUnchanged
  <2>4. CASE ~Leave(e)
    <3>1. /\ exec' = [exec EXCEPT ![e] = [exec[e] EXCEPT !.pc = "hook", !.new = "healthy"]]
          /\ UNCHANGED <<client, leaked>>
      BY <1>10, <2>4, <1>0 DEF NotifyStateChange, Before
    <3>2. "healthy" \in HealthCheckStatus
      BY DEF HealthCheckStatus
    <3> QED
      BY <3>1, <3>2, <2>1, <2>2, OnMoves, RestUnchanged
  <2> QED
    BY <2>3, <2>4
<1>11. CASE EmitHook(e)
  <2>1. /\ UNCHANGED <<runs, enabled, paused, suppressed, told, astray, mishaps>>
        /\ Leave(e) /\ exec[e].pc = "hook"
    BY <1>11 DEF EmitHook, At
  <2> QED
    BY <2>1, <1>1, <1>4, RestUnchanged
<1>12. CASE EmitHookFails(e)
  <2>1. astray' \in BOOLEAN
    BY <1>12 DEF EmitHookFails, Strays
  <2> QED
    BY <1>12, <2>1, <1>3 DEF EmitHookFails, At
<1> QED
  BY <1>5, <1>6, <1>7, <1>8, <1>9, <1>10, <1>11, <1>12

LEMMA ConnectionInvInductive ==
  /\ Init => ConnectionInv
  /\ ConnectionInv /\ [Next]_vars => ConnectionInv'
<1>1. ASSUME Init PROVE ConnectionInv
  <2>1. exec \in [Executions -> Record] /\ Idle \in Record
    BY <1>1 DEF Init, Idle, Record, Pcs, HealthCheckStatus
  <2>2. runs \in [Checks -> UNION {[1..n -> {"healthy", "unhealthy"}] : n \in 0..maxWindowSize}]
    <3>1. << >> \in [1..0 -> {"healthy", "unhealthy"}] /\ 0 \in 0..maxWindowSize
      BY BoundAssumption
    <3> QED
      BY <1>1, <3>1 DEF Init
  <2>3. TypeOK
    <3>1. 0 \in 0..MaxMishaps
      BY BoundAssumption
    <3> QED
      BY <1>1, <2>1, <2>2, <3>1, Types DEF Init, Connection, HealthCheckStatus
  <2>4. Consistent(Idle, "none")
    BY DEF Consistent, Idle
  <2> QED
    BY <1>1, <2>3, <2>4 DEF ConnectionInv, Init
<1>2. ASSUME ConnectionInv, [Next]_vars PROVE ConnectionInv'
  <2>1. ASSUME NEW e \in Executions,
               Step(e) \/ Connected(e) \/ Refused(e) \/ \E c \in Checks : Start(e, c)
        PROVE  ConnectionInv'
    <3>1. (\E x, c : Moves(e, x, c)) /\ Rest
      BY <1>2, <2>1, EarlyMoves, LateActionsMove DEF Step
    <3> QED
      BY <1>2, <3>1, MovesKeep
  <2>2. CASE (\E c \in Checks : ToggleEnabled(c) \/ PauseOrResume(c)) \/ ToggleSuppression
    <3>1. UNCHANGED <<runs, exec, client, told, leaked>> /\ Mishap
      BY <2>2 DEF ToggleEnabled, PauseOrResume, ToggleSuppression
    <3>2. enabled' \subseteq Checks /\ paused' \subseteq Checks /\ suppressed' \in BOOLEAN
      BY <1>2, <2>2 DEF ToggleEnabled, PauseOrResume, ToggleSuppression, ConnectionInv, TypeOK
    <3>3. astray' \in BOOLEAN
      BY <1>2, <2>2 DEF ToggleEnabled, PauseOrResume, ToggleSuppression, ConnectionInv, TypeOK, Strays
    <3>4. mishaps' \in 0..MaxMishaps
      BY <1>2, <3>1, BoundAssumption DEF Mishap, ConnectionInv, TypeOK
    <3>5. TypeOK'
      BY <1>2, <3>1, <3>2, <3>3, <3>4 DEF ConnectionInv, TypeOK
    <3> QED
      BY <1>2, <3>1, <3>5 DEF ConnectionInv, Consistent
  <2>3. CASE UNCHANGED vars
    BY <1>2, <2>3 DEF vars, ConnectionInv, TypeOK, Consistent
  <2> QED
    BY <1>2, <2>1, <2>2, <2>3 DEF Next
<1> QED
  BY <1>1, <1>2

\* The variables keep their types.
THEOREM ExecutorTypesCorrect == Spec => []TypeOK
<1>1. ConnectionInv => TypeOK
  BY DEF ConnectionInv
<1> QED
  BY <1>1, ConnectionInvInductive, PTL DEF Spec

\* executeHealthCheckJob, core/healthcheck-backend/src/queue-executor.ts:217: unless
\* the timeout fires while createClient is under way, no connection outlives its
\* execution, for any number of executions at once and whatever else fails.
THEOREM ClientsClosedCorrect == Spec => []ClientsClosed
<1>1. ConnectionInv => ClientsClosed
  BY DEF ConnectionInv, ClientsClosed
<1> QED
  BY <1>1, ConnectionInvInductive, PTL DEF Spec

\* The same function stores one run per execution, for any number of executions,
\* however the timeout ends: the outer catch block is the only way to a second.
THEOREM OneRunEachCorrect == Spec => []OneRunEach
<1>1. ConnectionInv => OneRunEach
  BY DEF ConnectionInv, Consistent, OneRunEach
<1> QED
  BY <1>1, ConnectionInvInductive, PTL DEF Spec
-----------------------------------------------------------------------------
(* What subscribers are told *)

\* At each await of an execution with record x, where s is the status of the system
\* and t what subscribers were told. Settled: it will not tell, having read s.
Settled(x, s) == x.pc \in {"idle", "hook"} \/ (x.pc # "notify" /\ x.previous = s)

\* Owes: it has changed the status from t to s, and will tell.
Owes(x, t, s) ==
  /\ x.pc \in {"store", "signal", "compare", "notify"}
  /\ x.previous = t /\ (x.pc = "notify" => x.new = s)

\* Unless they went astray, subscribers know the status, or one execution owes it to
\* them, and no other execution will tell them anything.
ToldInv ==
  ~astray =>
    IF told = SystemStatus THEN \A e \in Executions : Settled(exec[e], SystemStatus)
    ELSE \E t \in Executions :
           /\ Owes(exec[t], told, SystemStatus)
           /\ \A e \in Executions \ {t} : Settled(exec[e], SystemStatus)

LEMMA StatusKept ==
  ASSUME UNCHANGED <<runs, enabled>>
  PROVE  SystemStatus' = SystemStatus
  BY DEF SystemStatus

\* Without runs a check counts as healthy.
LEMMA HealthyAtFirst == Init => SystemStatus = "healthy"
<1>1. ASSUME Init, NEW c \in Checks PROVE EvaluateHealthStatus(runs[c], Thresholds[c]) = "healthy"
  BY <1>1 DEF Init, EvaluateHealthStatus
<1>2. ASSUME Init PROVE enabled = Checks
  BY <1>2 DEF Init
<1> QED
  BY <1>1, <1>2 DEF SystemStatus, Worst

\* Steps that change neither the status nor what was told, and leave an execution
\* settled, or owing, that was so before.
LEMMA QuietSteps ==
  ASSUME ToldInv, NEW e \in Executions, NEW x, ConnectionInv,
         exec' = [exec EXCEPT ![e] = x], told' = told, SystemStatus' = SystemStatus,
         ~astray' => ~astray,
         ~astray' /\ Settled(exec[e], SystemStatus) => Settled(x, SystemStatus),
         ~astray' /\ told # SystemStatus /\ Owes(exec[e], told, SystemStatus)
           => Owes(x, told, SystemStatus)
  PROVE  ToldInv'
<1> DEFINE s == SystemStatus
<1>1. exec'[e] = x /\ \A d \in Executions \ {e} : exec'[d] = exec[d]
  BY Types DEF ConnectionInv
<1>2. s' = s
  OBVIOUS
<1> SUFFICES ASSUME ~astray'
             PROVE  IF told = s THEN \A d \in Executions : Settled(exec'[d], s)
                    ELSE \E t \in Executions :
                           /\ Owes(exec'[t], told, s)
                           /\ \A d \in Executions \ {t} : Settled(exec'[d], s)
  BY <1>2 DEF ToldInv
<1>3. IF told = s THEN \A d \in Executions : Settled(exec[d], s)
      ELSE \E t \in Executions :
             /\ Owes(exec[t], told, s)
             /\ \A d \in Executions \ {t} : Settled(exec[d], s)
  BY DEF ToldInv
<1>4. /\ Settled(exec[e], s) => Settled(x, s)
      /\ told # s /\ Owes(exec[e], told, s) => Owes(x, told, s)
  OBVIOUS
<1> HIDE DEF s
<1>5. CASE told = s
  BY <1>1, <1>3, <1>4, <1>5
<1>6. CASE told # s
  <2>1. PICK t \in Executions :
          /\ Owes(exec[t], told, s)
          /\ \A d \in Executions \ {t} : Settled(exec[d], s)
    BY <1>3, <1>6
  <2>2. Owes(exec'[t], told, s)
    BY <1>1, <1>4, <1>6, <2>1
  <2>3. \A d \in Executions \ {t} : Settled(exec'[d], s)
    BY <1>1, <1>4, <2>1
  <2> QED
    BY <1>6, <2>2, <2>3
<1> QED
  BY <1>5, <1>6

\* The insert of a run: if the status changes, nobody else has read the old one.
LEMMA StoreRunTold ==
  ASSUME ConnectionInv, ToldInv, NEW e \in Executions, StoreRun(e)
  PROVE  ToldInv'
<1> DEFINE s == SystemStatus
           r == SystemStatus'
<1>0. Before(e)
  BY BeforeHolds
<1>1. /\ exec[e].pc = "store" /\ exec'[e].pc = "signal" /\ exec'[e].previous = exec[e].previous
      /\ \A d \in Executions \ {e} : exec'[d] = exec[d]
  BY <1>0 DEF StoreRun, At, Before, Record
<1>2. /\ told' = told
      /\ astray' = (astray \/ ((\E d \in Executions \ {e} : Comparing(d)) /\ r # s))
  BY DEF StoreRun, Strays
<1> SUFFICES ASSUME ~astray'
             PROVE  IF told = r THEN \A d \in Executions : Settled(exec'[d], r)
                    ELSE \E t \in Executions :
                           /\ Owes(exec'[t], told, r)
                           /\ \A d \in Executions \ {t} : Settled(exec'[d], r)
  BY <1>2 DEF ToldInv
<1>3. IF told = s THEN \A d \in Executions : Settled(exec[d], s)
      ELSE \E t \in Executions :
             /\ Owes(exec[t], told, s)
             /\ \A d \in Executions \ {t} : Settled(exec[d], s)
  BY <1>2 DEF ToldInv
<1>4. r # s => \A d \in Executions \ {e} : exec[d].pc \in {"idle", "hook"}
  BY <1>2 DEF Comparing
<1> HIDE DEF s, r
\* In either case the status it compares with is the one subscribers know.
<1>5. CASE r # s
  <2>1. \A d \in Executions \ {e} : Settled(exec'[d], r)
    BY <1>1, <1>4, <1>5 DEF Settled
  <2>2. exec[e].previous = told
    <3>1. CASE told = s
      BY <1>1, <1>3, <3>1 DEF Settled
    <3>2. CASE told # s
      <4>1. PICK t \in Executions : Owes(exec[t], told, s)
        BY <1>3, <3>2
      <4>2. t = e
        BY <1>4, <1>5, <4>1 DEF Owes
      <4> QED
        BY <4>1, <4>2 DEF Owes
    <3> QED
      BY <3>1, <3>2
  <2>3. CASE told = r
    BY <1>1, <2>1, <2>2, <2>3 DEF Settled
  <2>4. CASE told # r
    <3>1. Owes(exec'[e], told, r)
      BY <1>1, <2>2 DEF Owes
    <3> QED
      BY <2>1, <2>4, <3>1
  <2> QED
    BY <2>3, <2>4
<1>6. CASE r = s
  <2>1. Settled(exec[e], s) => Settled(exec'[e], s)
    BY <1>1 DEF Settled
  <2>2. CASE told = s
    BY <1>1, <1>3, <1>6, <2>1, <2>2
  <2>3. CASE told # s
    <3>1. PICK t \in Executions :
            /\ Owes(exec[t], told, s)
            /\ \A d \in Executions \ {t} : Settled(exec[d], s)
      BY <1>3, <2>3
    <3>2. Owes(exec'[t], told, s)
      BY <1>1, <3>1 DEF Owes
    <3>3. \A d \in Executions \ {t} : Settled(exec'[d], s)
      BY <1>1, <2>1, <3>1
    <3> QED
      BY <1>6, <2>3, <3>2, <3>3
  <2> QED
    BY <2>2, <2>3
<1> QED
  BY <1>5, <1>6

\* A notification: the execution that tells is the one that owes it, or nobody else
\* is comparing.
LEMMA NotifyTold ==
  ASSUME ConnectionInv, ToldInv, NEW e \in Executions, NotifyStateChange(e)
  PROVE  ToldInv'
<1> DEFINE s == SystemStatus
<1>0. Before(e)
  BY BeforeHolds
<1>1. exec[e].pc = "notify" /\ SystemStatus' = s
  BY StatusKept DEF NotifyStateChange, At
<1>2. exec'[e].pc \in {"idle", "hook"} /\ \A d \in Executions \ {e} : exec'[d] = exec[d]
  BY <1>0 DEF NotifyStateChange, Leave, Ends, Idle, Before, Record
<1>3. Told(e) \/ astray'
  BY DEF NotifyStateChange, Strays
<1> SUFFICES ASSUME ~astray' PROVE told' = s /\ \A d \in Executions : Settled(exec'[d], s)
  BY <1>1 DEF ToldInv
<1>4. /\ told' = exec[e].new
      /\ ~astray \/ (exec[e].new = s /\ \A d \in Executions \ {e} : ~Comparing(d))
  BY <1>3 DEF Told
<1>5. Settled(exec'[e], s)
  BY <1>2 DEF Settled
<1>6. CASE ~astray
  <2>1. ~Settled(exec[e], s)
    BY <1>1 DEF Settled
  <2>2. PICK t \in Executions :
          /\ Owes(exec[t], told, s)
          /\ \A d \in Executions \ {t} : Settled(exec[d], s)
    BY <1>6, <2>1 DEF ToldInv
  <2>3. t = e
    BY <2>1, <2>2
  <2>4. exec[e].new = s
    BY <1>1, <2>2, <2>3 DEF Owes
  <2> HIDE DEF s
  <2> QED
    BY <1>2, <1>4, <1>5, <2>2, <2>3, <2>4
<1>7. CASE exec[e].new = s /\ \A d \in Executions \ {e} : ~Comparing(d)
  <2>1. \A d \in Executions \ {e} : Settled(exec'[d], s)
    BY <1>2, <1>7 DEF Settled, Comparing
  <2> QED
    BY <1>4, <1>5, <1>7, <2>1
<1> QED
  BY <1>4, <1>6, <1>7

\* Something throws outside the catch block: the comparison is made after that.
LEMMA ThrowsTold ==
  ASSUME ConnectionInv, ToldInv, NEW e \in Executions, Throws(e),
         UNCHANGED <<runs, enabled, told>>, ~astray' => ~astray,
         \/ exec[e].pc = "hook" /\ (exec[e].path # "caught" => astray')
         \/ exec[e].pc \in {"fetch", "store", "signal", "compare"}
            /\ (exec[e].path = "caught" => astray')
  PROVE  ToldInv'
<1>0. Before(e)
  BY BeforeHolds
<1>1. SystemStatus' = SystemStatus
  BY StatusKept
<1>2. CASE exec[e].path = "caught"
  <2>1. exec' = [exec EXCEPT ![e] = Idle]
    BY <1>2 DEF Throws, Leave, Ends
  <2>2. Settled(Idle, SystemStatus)
    BY DEF Settled, Idle
  <2>3. astray' \/ ~Owes(exec[e], told, SystemStatus)
    BY <1>2 DEF Owes
  <2> QED
    BY <1>1, <2>1, <2>2, <2>3, QuietSteps
<1>3. CASE exec[e].path # "caught"
  <2> DEFINE x == [exec[e] EXCEPT !.pc = "store", !.path = "caught", !.status = "unhealthy"]
  <2>1. exec' = [exec EXCEPT ![e] = x]
    BY <1>3, <1>0 DEF Throws, Before
  <2>2. x.pc = "store" /\ x.previous = exec[e].previous
    BY <1>0 DEF Before, Record
  <2> HIDE DEF x
  <2>3. astray' \/ exec[e].pc \in {"fetch", "store", "signal", "compare"}
    BY <1>3
  <2>4. ~astray' /\ Settled(exec[e], SystemStatus) => Settled(x, SystemStatus)
    BY <2>2, <2>3 DEF Settled
  <2>5. Owes(exec[e], told, SystemStatus) => Owes(x, told, SystemStatus)
    BY <2>2 DEF Owes
  <2> QED
    BY <1>1, <2>1, <2>4, <2>5, QuietSteps
<1> QED
  BY <1>2, <1>3

\* The other steps of an execution.
LEMMA OtherStepsTold ==
  ASSUME ConnectionInv, ToldInv, NEW e \in Executions,
         \/ \E c \in Checks : Start(e, c)
         \/ FetchConfig(e) \/ Connected(e) \/ Refused(e) \/ Timeout(e)
         \/ \E status \in {"healthy", "unhealthy"} : Collected(e, status)
         \/ Broadcast(e) \/ CompareState(e) \/ EmitHook(e)
  PROVE  ToldInv'
<1> DEFINE s == SystemStatus
<1>0. Before(e)
  BY BeforeHolds
<1>u. UNCHANGED <<runs, enabled, told, astray>>
  BY DEF Start, FetchConfig, Connected, Refused, Timeout, Collected, Broadcast, CompareState,
         EmitHook
<1>s. SystemStatus' = SystemStatus
  BY <1>u, StatusKept
\* What there is to show of the execution's new record.
<1>q. ASSUME NEW x, exec' = [exec EXCEPT ![e] = x],
             Settled(exec[e], s) => Settled(x, s),
             told # s /\ Owes(exec[e], told, s) => Owes(x, told, s)
      PROVE  ToldInv'
  BY <1>u, <1>s, <1>q, QuietSteps
<1>l. ASSUME Leave(e), ~Owes(exec[e], told, s) \/ told = s PROVE ToldInv'
  <2>1. exec' = [exec EXCEPT ![e] = Idle] /\ Settled(Idle, s)
    BY <1>l DEF Leave, Ends, Settled, Idle
  <2> QED
    BY <1>l, <2>1, <1>q
\* It has read the status and not stored its run.
<1>m. ASSUME NEW x, exec' = [exec EXCEPT ![e] = x],
             exec[e].pc \in {"fetch", "connecting", "collecting"},
             x.pc \in Pcs \ {"notify"}, x.previous = exec[e].previous
      PROVE  ToldInv'
  BY <1>m, <1>q DEF Settled, Owes
<1>1. ASSUME NEW c \in Checks, Start(e, c) PROVE ToldInv'
  <2> DEFINE x == [Idle EXCEPT !.pc = "fetch", !.check = c, !.previous = SystemStatus]
  <2>1. exec' = [exec EXCEPT ![e] = x] /\ exec[e].pc = "idle"
    BY <1>1 DEF Start, At
  <2>2. x.pc = "fetch" /\ x.previous = s
    BY DEF Idle
  <2> HIDE DEF x, s
  <2> QED
    BY <2>1, <2>2, <1>q DEF Settled, Owes
<1>2. CASE FetchConfig(e)
  <2>1. exec[e].pc = "fetch" /\ ~Owes(exec[e], told, s)
    BY <1>2 DEF FetchConfig, At, Owes
  <2>2. CASE Leave(e)
    BY <2>1, <2>2, <1>l
  <2>3. CASE GoesTo(e, "connecting")
    <3>1. exec' = [exec EXCEPT ![e] = [exec[e] EXCEPT !.pc = "connecting"]]
      BY <2>3, <1>0 DEF GoesTo, Before
    <3>2. [exec[e] EXCEPT !.pc = "connecting"].pc = "connecting"
          /\ [exec[e] EXCEPT !.pc = "connecting"].previous = exec[e].previous
      BY <1>0 DEF Before, Record
    <3> QED
      BY <2>1, <3>1, <3>2, <1>m DEF Pcs
  <2> QED
    BY <1>2, <2>2, <2>3 DEF FetchConfig
<1>3. CASE Connected(e)
  <2>1. exec' = [exec EXCEPT ![e] = [exec[e] EXCEPT !.pc = "collecting"]]
        /\ exec[e].pc = "connecting"
    BY <1>3, <1>0 DEF Connected, GoesTo, Before, At
  <2>2. [exec[e] EXCEPT !.pc = "collecting"].pc = "collecting"
        /\ [exec[e] EXCEPT !.pc = "collecting"].previous = exec[e].previous
    BY <1>0 DEF Before, Record
  <2> QED
    BY <2>1, <2>2, <1>m DEF Pcs
<1>4. CASE Refused(e) \/ Timeout(e)
  <2> DEFINE x == [exec[e] EXCEPT !.pc = "store", !.path = "failed", !.status = "unhealthy"]
  <2>1. exec' = [exec EXCEPT ![e] = x] /\ exec[e].pc \in {"connecting", "collecting"}
    BY <1>4, <1>0 DEF Refused, Timeout, CheckFails, Before, At
  <2>2. x.pc = "store" /\ x.previous = exec[e].previous
    BY <1>0 DEF Before, Record
  <2> HIDE DEF x
  <2> QED
    BY <2>1, <2>2, <1>m DEF Pcs
<1>5. ASSUME NEW status \in {"healthy", "unhealthy"}, Collected(e, status) PROVE ToldInv'
  <2> DEFINE x == [exec[e] EXCEPT !.pc = "store", !.status = status]
  <2>1. exec' = [exec EXCEPT ![e] = x] /\ exec[e].pc = "collecting"
    BY <1>5, <1>0 DEF Collected, Before, At
  <2>2. x.pc = "store" /\ x.previous = exec[e].previous
    BY <1>0 DEF Before, Record
  <2> HIDE DEF x
  <2> QED
    BY <2>1, <2>2, <1>m DEF Pcs
<1>6. CASE Broadcast(e)
  <2> DEFINE x == [exec[e] EXCEPT !.pc = "compare"]
  <2>1. exec' = [exec EXCEPT ![e] = x] /\ exec[e].pc = "signal"
    BY <1>6, <1>0 DEF Broadcast, GoesTo, Before, At
  <2>2. x.pc = "compare" /\ x.previous = exec[e].previous
    BY <1>0 DEF Before, Record
  <2> HIDE DEF x, s
  <2> QED
    BY <2>1, <2>2, <1>q DEF Settled, Owes
<1>7. CASE CompareState(e)
  <2>1. exec[e].pc = "compare"
    BY <1>7 DEF CompareState, At
  <2>2. CASE s = exec[e].previous
    <3>1. Leave(e) /\ (~Owes(exec[e], told, s) \/ told = s)
      BY <1>7, <2>2 DEF CompareState, Owes
    <3> QED
      BY <3>1, <1>l
  <2>3. CASE s # exec[e].previous
    <3> DEFINE x == [exec[e] EXCEPT !.pc = "notify", !.new = SystemStatus]
    <3>1. exec' = [exec EXCEPT ![e] = x]
      BY <1>7, <2>3, <1>0 DEF CompareState, Before
    <3>2. x.pc = "notify" /\ x.previous = exec[e].previous /\ x.new = s
      BY <1>0 DEF Before, Record
    <3> HIDE DEF x, s
    <3> QED
      BY <2>1, <2>3, <3>1, <3>2, <1>q DEF Settled, Owes
  <2> QED
    BY <2>2, <2>3
<1>8. CASE EmitHook(e)
  <2>1. Leave(e) /\ ~Owes(exec[e], told, s)
    BY <1>8 DEF EmitHook, At, Owes
  <2> QED
    BY <2>1, <1>l
<1> QED
  BY <1>1, <1>2, <1>3, <1>4, <1>5, <1>6, <1>7, <1>8

LEMMA ToldInvInductive ==
  /\ Init => ToldInv
  /\ ConnectionInv /\ ToldInv /\ [Next]_vars => ToldInv'
<1>1. ASSUME Init PROVE ToldInv
  <2>1. told = "healthy" /\ exec = [e \in Executions |-> Idle] /\ SystemStatus = "healthy"
    BY <1>1, HealthyAtFirst DEF Init
  <2>2. Settled(Idle, "healthy")
    BY DEF Settled, Idle
  <2> QED
    BY <2>1, <2>2, Zenon DEF ToldInv
<1>2. ASSUME ConnectionInv, ToldInv, [Next]_vars PROVE ToldInv'
  <2>1. ASSUME NEW e \in Executions, QueryFails(e) \/ BroadcastFails(e) \/ EmitHookFails(e)
        PROVE  ToldInv'
    <3>1. Throws(e) /\ UNCHANGED <<runs, enabled, told>>
      BY <2>1 DEF QueryFails, BroadcastFails, EmitHookFails
    <3>2. ~astray' => ~astray
      BY <2>1 DEF QueryFails, BroadcastFails, EmitHookFails, Strays
    <3>3. \/ exec[e].pc = "hook" /\ (exec[e].path # "caught" => astray')
          \/ exec[e].pc \in {"fetch", "store", "signal", "compare"}
             /\ (exec[e].path = "caught" => astray')
      BY <2>1 DEF QueryFails, BroadcastFails, EmitHookFails, Strays, At
    <3> QED
      BY <1>2, <3>1, <3>2, <3>3, ThrowsTold
  <2>2. ASSUME NEW e \in Executions,
               Step(e) \/ Connected(e) \/ Refused(e) \/ \E c \in Checks : Start(e, c)
        PROVE  ToldInv'
    BY <1>2, <2>1, <2>2, StoreRunTold, NotifyTold, OtherStepsTold DEF Step
  <2>3. CASE \/ \E c \in Checks : ToggleEnabled(c) \/ PauseOrResume(c)
             \/ ToggleSuppression \/ UNCHANGED vars
    <3>1. UNCHANGED <<exec, told>>
      BY <2>3 DEF ToggleEnabled, PauseOrResume, ToggleSuppression, vars
    <3>2. ~astray' => ~astray /\ SystemStatus' = SystemStatus
      <4>1. CASE \E c \in Checks : ToggleEnabled(c)
        BY <4>1 DEF ToggleEnabled, Strays
      <4>2. CASE (\E c \in Checks : PauseOrResume(c)) \/ ToggleSuppression \/ UNCHANGED vars
        BY <4>2, StatusKept DEF PauseOrResume, ToggleSuppression, vars
      <4> QED
        BY <2>3, <4>1, <4>2
    <3> QED
      BY <1>2, <3>1, <3>2 DEF ToldInv
  <2> QED
    BY <1>2, <2>2, <2>3 DEF Next
<1> QED
  BY <1>1, <1>2

\* core/healthcheck-backend/src/queue-executor.ts:171, notifyStateChange: for any
\* number of overlapping executions, checks, thresholds and failures, subscribers
\* know the status when nothing is being executed, unless they went astray.
THEOREM ToldCurrentCorrect == Spec => []ToldCurrent
<1>1. ToldInv => ToldCurrent
  BY DEF ToldInv, ToldCurrent, Quiet, At, Owes
<1> QED
  BY <1>1, ConnectionInvInductive, ToldInvInductive, PTL DEF Spec
-----------------------------------------------------------------------------
(* CollectorFigures. A chart's figures are those of the runs they stand for. The
   aggregates, and the sum the property compares them with, are folds, so first what
   is true of folds. One recursion stands for the three: the sum of a function's
   values, the row of some runs and the row of some rows. Each lemma about it looks at
   a smallest set for which it fails. *)

StartOf(kind) == IF kind = "sum" THEN 0 ELSE NoData

Combined(kind, x, rest) ==
  IF kind = "sum" THEN x + rest
  ELSE IF kind = "runs" THEN MergeCollectorResults(rest, x) ELSE MergeRows(rest, x)

Chosen(kind, S) == IF kind = "sum" THEN CHOOSE x \in S : TRUE ELSE Max(S)

Others(kind, S) == S \ {Chosen(kind, S)}

\* What can be folded: elements in any order, or numbers from the highest down.
Foldable(kind, S) == IsFiniteSet(S) /\ (kind = "sum" \/ S \subseteq Nat)

\* f agrees with the recursion in the definition of MapThenFoldSet.
IsFold(f, kind, w, S) ==
  f = [s \in SUBSET S |->
         IF s = {} THEN StartOf(kind) ELSE Combined(kind, w[Chosen(kind, s)], f[Others(kind, s)])]

Folded(kind, w, S) == (CHOOSE f : IsFold(f, kind, w, S))[S]

\* The least of some finite sets.
LEMMA SmallestSet ==
  ASSUME NEW C, C # {}, \A s \in C : IsFiniteSet(s)
  PROVE  \E s \in C : \A t \in C : Cardinality(s) <= Cardinality(t)
<1> DEFINE T == {n \in Nat : \E s \in C : Cardinality(s) = n}
<1>1. \A s \in C : Cardinality(s) \in T
  BY FS_CardinalityType
<1>2. T \in SUBSET Nat /\ T # {}
  BY <1>1
<1>3. PICK n \in T : \A m \in T : n <= m
  BY <1>2, LeastNumber
<1> QED
  BY <1>1, <1>3

\* A finite nonempty set of numbers has a greatest.
LEMMA GreatestNumber ==
  ASSUME NEW S, S # {}, S \subseteq Int, IsFiniteSet(S)
  PROVE  Max(S) \in S /\ \A x \in S : Max(S) >= x
<1> DEFINE Bad == {s \in SUBSET S : s # {} /\ ~ \E x \in s : \A y \in s : x >= y}
<1>1. Bad = {}
  <2> SUFFICES ASSUME Bad # {} PROVE FALSE
    OBVIOUS
  <2>1. \A s \in Bad : IsFiniteSet(s)
    BY FS_Subset
  <2>2. PICK s \in Bad : \A t \in Bad : Cardinality(s) <= Cardinality(t)
    BY <2>1, SmallestSet
  <2>3. PICK x \in s : TRUE
    OBVIOUS
  <2>4. s \in SUBSET S /\ IsFiniteSet(s) /\ ~ \E z \in s : \A y \in s : z >= y
    BY <2>1
  <2>5. Cardinality(s \ {x}) = Cardinality(s) - 1 /\ Cardinality(s) \in Nat
    BY <2>3, <2>4, FS_RemoveElement, FS_CardinalityType
  <2>6. s \ {x} \notin Bad
    <3> SUFFICES ASSUME s \ {x} \in Bad PROVE FALSE
      OBVIOUS
    <3>1. Cardinality(s) <= Cardinality(s \ {x})
      BY <2>2
    <3> QED
      BY <2>5, <3>1
  <2>7. CASE s \ {x} = {}
    <3>1. \A y \in s : x >= y
      BY <2>3, <2>4, <2>7
    <3> QED
      BY <2>3, <2>4, <3>1
  <2>8. CASE s \ {x} # {}
    <3>1. PICK z \in s \ {x} : \A y \in s \ {x} : z >= y
      BY <2>4, <2>6, <2>8
    <3>2. z \in Int /\ x \in Int /\ \A y \in s : y \in Int
      BY <2>3, <2>4, <3>1
    <3>3. (\A y \in s : z >= y) \/ (\A y \in s : x >= y)
      BY <3>1, <3>2
    <3> QED
      BY <2>3, <2>4, <3>1, <3>3
  <2> QED
    BY <2>7, <2>8
<1>2. S \in SUBSET S
  OBVIOUS
<1>3. \E x \in S : \A y \in S : x >= y
  BY <1>1, <1>2
<1> QED
  BY <1>3 DEF Max

LEMMA ChosenSmaller ==
  ASSUME NEW kind, NEW S, Foldable(kind, S), S # {}
  PROVE  /\ Chosen(kind, S) \in S /\ Foldable(kind, Others(kind, S)) /\ Others(kind, S) \subseteq S
         /\ ~(Cardinality(S) <= Cardinality(Others(kind, S)))
<1>1. Chosen(kind, S) \in S
  <2>1. CASE kind = "sum"
    BY <2>1 DEF Chosen
  <2>2. CASE kind # "sum"
    <3>1. S \subseteq Int /\ IsFiniteSet(S)
      BY <2>2 DEF Foldable
    <3> QED
      BY <2>2, <3>1, GreatestNumber DEF Chosen
  <2> QED
    BY <2>1, <2>2
<1>2. IsFiniteSet(Others(kind, S)) /\ Cardinality(Others(kind, S)) = Cardinality(S) - 1
  BY <1>1, FS_RemoveElement DEF Others, Foldable
<1>3. Cardinality(S) \in Nat
  BY FS_CardinalityType DEF Foldable
<1> QED
  BY <1>1, <1>2, <1>3 DEF Others, Foldable

LEMMA FoldableSubset ==
  ASSUME NEW kind, NEW S, Foldable(kind, S), NEW s \in SUBSET S
  PROVE  Foldable(kind, s) /\ IsFiniteSet(s)
BY FS_Subset DEF Foldable

\* Two solutions agree on the sets both are defined on.
LEMMA FoldsAgree ==
  ASSUME NEW kind, NEW w, NEW v, NEW S, NEW T, NEW f, NEW g,
         IsFold(f, kind, w, S), IsFold(g, kind, v, T)
  PROVE  \A s \in SUBSET S : s \subseteq T /\ Foldable(kind, s) /\ (\A x \in s : w[x] = v[x]) => f[s] = g[s]
<1> DEFINE Fine(s) == s \subseteq T /\ Foldable(kind, s) /\ (\A x \in s : w[x] = v[x])
           Bad == {s \in SUBSET S : Fine(s) /\ f[s] # g[s]}
<1> SUFFICES ASSUME Bad # {} PROVE FALSE
  OBVIOUS
<1>0. \A s \in Bad : IsFiniteSet(s)
  BY DEF Foldable
<1>1. PICK s \in Bad : \A t \in Bad : Cardinality(s) <= Cardinality(t)
  BY <1>0, SmallestSet
<1>2. s \in SUBSET S /\ s \in SUBSET T /\ Fine(s) /\ f[s] # g[s]
  OBVIOUS
<1> HIDE DEF Fine
<1>3. /\ f[s] = IF s = {} THEN StartOf(kind) ELSE Combined(kind, w[Chosen(kind, s)], f[Others(kind, s)])
      /\ g[s] = IF s = {} THEN StartOf(kind) ELSE Combined(kind, v[Chosen(kind, s)], g[Others(kind, s)])
  <2>1. \A x \in SUBSET S : f[x] = IF x = {} THEN StartOf(kind) ELSE Combined(kind, w[Chosen(kind, x)], f[Others(kind, x)])
    BY DEF IsFold
  <2>2. \A x \in SUBSET T : g[x] = IF x = {} THEN StartOf(kind) ELSE Combined(kind, v[Chosen(kind, x)], g[Others(kind, x)])
    BY DEF IsFold
  <2> QED
    BY <1>2, <2>1, <2>2
<1>4. s # {}
  BY <1>2, <1>3
<1>5. /\ Chosen(kind, s) \in s /\ Foldable(kind, Others(kind, s)) /\ Others(kind, s) \subseteq s
      /\ ~(Cardinality(s) <= Cardinality(Others(kind, s)))
  BY <1>2, <1>4, ChosenSmaller DEF Fine
<1>6. w[Chosen(kind, s)] = v[Chosen(kind, s)] /\ Fine(Others(kind, s))
  BY <1>2, <1>5 DEF Fine
<1>7. f[Others(kind, s)] # g[Others(kind, s)]
  BY <1>2, <1>3, <1>4, <1>6
<1>8. Others(kind, s) \in Bad
  BY <1>2, <1>5, <1>6, <1>7
<1> QED
  BY <1>1, <1>5, <1>8

\* The recursion has a solution for every finite set.
LEMMA FoldExists ==
  ASSUME NEW kind, NEW w, NEW S, Foldable(kind, S)
  PROVE  \E f : IsFold(f, kind, w, S)
<1> DEFINE Bad == {s \in SUBSET S : ~ \E f : IsFold(f, kind, w, s)}
<1> SUFFICES ASSUME Bad # {} PROVE FALSE
  <2>1. S \in SUBSET S
    OBVIOUS
  <2> QED
    BY <2>1
<1>1. \A s \in SUBSET S : IsFiniteSet(s) /\ Foldable(kind, s)
  BY FoldableSubset
<1>2. PICK s \in Bad : \A t \in Bad : Cardinality(s) <= Cardinality(t)
  BY <1>1, SmallestSet
<1>3. s \in SUBSET S /\ IsFiniteSet(s) /\ Foldable(kind, s) /\ ~ \E f : IsFold(f, kind, w, s)
  BY <1>1
<1>4. \A t \in SUBSET s : t # s => \E f : IsFold(f, kind, w, t)
  <2> SUFFICES ASSUME NEW t \in SUBSET s, t # s, t \in Bad PROVE FALSE
    BY <1>3
  <2>1. IsFiniteSet(t) /\ Cardinality(t) <= Cardinality(s) /\ Cardinality(t) # Cardinality(s)
    BY <1>3, FS_Subset
  <2>2. Cardinality(s) \in Nat /\ Cardinality(t) \in Nat
    BY <1>3, <2>1, FS_CardinalityType
  <2> QED
    BY <1>2, <2>1, <2>2
<1> DEFINE f == [t \in SUBSET s |->
                   IF t = {} THEN StartOf(kind)
                   ELSE Combined(kind, w[Chosen(kind, t)], Folded(kind, w, Others(kind, t)))]
<1>5. \A t \in SUBSET s : t # s => f[t] = Folded(kind, w, t)
  <2> SUFFICES ASSUME NEW t \in SUBSET s, t # s PROVE f[t] = Folded(kind, w, t)
    OBVIOUS
  <2> DEFINE g == CHOOSE h : IsFold(h, kind, w, t)
  <2>1. IsFold(g, kind, w, t) /\ Folded(kind, w, t) = g[t]
    BY <1>4 DEF Folded
  <2> HIDE DEF g
  <2>2. t \in SUBSET t
    OBVIOUS
  <2>3. g[t] = IF t = {} THEN StartOf(kind) ELSE Combined(kind, w[Chosen(kind, t)], g[Others(kind, t)])
    BY <2>1, <2>2 DEF IsFold
  <2>4. f[t] = IF t = {} THEN StartOf(kind)
               ELSE Combined(kind, w[Chosen(kind, t)], Folded(kind, w, Others(kind, t)))
    OBVIOUS
  <2>5. ASSUME t # {} PROVE g[Others(kind, t)] = Folded(kind, w, Others(kind, t))
    <3> DEFINE r == Others(kind, t)
               k == CHOOSE h : IsFold(h, kind, w, r)
    <3>1. Foldable(kind, t)
      BY <1>1, <1>3
    <3>2. /\ r \in SUBSET s /\ r # s /\ Foldable(kind, r) /\ r \in SUBSET t /\ r \subseteq r
          /\ \A x \in r : w[x] = w[x]
      BY <2>5, <3>1, ChosenSmaller
    <3>3. IsFold(k, kind, w, r) /\ Folded(kind, w, r) = k[r]
      BY <1>4, <3>2 DEF Folded
    <3> HIDE DEF k, r
    <3>4. g[r] = k[r]
      BY <2>1, <3>2, <3>3, FoldsAgree
    <3> QED
      BY <3>3, <3>4 DEF r
  <2> QED
    BY <2>1, <2>3, <2>4, <2>5
<1>6. IsFold(f, kind, w, s)
  <2>1. \A t \in SUBSET s : t # {} => Others(kind, t) \in SUBSET s /\ Others(kind, t) # s
    <3> SUFFICES ASSUME NEW t \in SUBSET s, t # {}
                 PROVE  Others(kind, t) \in SUBSET s /\ Others(kind, t) # s
      OBVIOUS
    <3>1. Foldable(kind, t)
      BY <1>1, <1>3
    <3>2. Chosen(kind, t) \in t
      BY <3>1, ChosenSmaller
    <3> QED
      BY <3>2 DEF Others
  <2>2. \A t \in SUBSET s : t # {} => Folded(kind, w, Others(kind, t)) = f[Others(kind, t)]
    BY <1>5, <2>1
  <2>3. f = [t \in SUBSET s |->
               IF t = {} THEN StartOf(kind)
               ELSE Combined(kind, w[Chosen(kind, t)], f[Others(kind, t)])]
    BY <2>2
  <2> HIDE DEF f
  <2> QED
    BY <2>3 DEF IsFold
<1> QED
  BY <1>3, <1>6

\* So the folds are what the recursion says.
LEMMA FoldRecursion ==
  ASSUME NEW kind, NEW w, NEW S, Foldable(kind, S)
  PROVE  Folded(kind, w, S) = IF S = {} THEN StartOf(kind)
                              ELSE Combined(kind, w[Chosen(kind, S)], Folded(kind, w, Others(kind, S)))
<1> DEFINE sol(t) == CHOOSE f : IsFold(f, kind, w, t)
<1>1. IsFold(sol(S), kind, w, S) /\ Folded(kind, w, S) = sol(S)[S]
  BY FoldExists DEF Folded
<1>2. S # {} => /\ IsFold(sol(Others(kind, S)), kind, w, Others(kind, S))
                /\ Folded(kind, w, Others(kind, S)) = sol(Others(kind, S))[Others(kind, S)]
  BY FoldExists, ChosenSmaller DEF Folded
<1> HIDE DEF sol
<1>3. S \in SUBSET S
  OBVIOUS
<1>4. sol(S)[S] = IF S = {} THEN StartOf(kind)
                  ELSE Combined(kind, w[Chosen(kind, S)], sol(S)[Others(kind, S)])
  <2>1. \A f : IsFold(f, kind, w, S) => f[S] = IF S = {} THEN StartOf(kind)
                  ELSE Combined(kind, w[Chosen(kind, S)], f[Others(kind, S)])
    BY <1>3 DEF IsFold
  <2> QED
    BY <1>1, <2>1
<1>5. S # {} => sol(S)[Others(kind, S)] = sol(Others(kind, S))[Others(kind, S)]
  <2> SUFFICES ASSUME S # {} PROVE sol(S)[Others(kind, S)] = sol(Others(kind, S))[Others(kind, S)]
    OBVIOUS
  <2>1. /\ Others(kind, S) \in SUBSET S /\ Others(kind, S) \subseteq Others(kind, S)
        /\ Foldable(kind, Others(kind, S)) /\ \A x \in Others(kind, S) : w[x] = w[x]
    BY ChosenSmaller
  <2> QED
    BY <1>1, <1>2, <2>1, FoldsAgree
<1> QED
  BY <1>1, <1>2, <1>4, <1>5

\* A fold depends on the elements it folds and nothing else.
LEMMA FoldSame ==
  ASSUME NEW kind, NEW w, NEW v, NEW S, Foldable(kind, S), \A x \in S : w[x] = v[x]
  PROVE  Folded(kind, w, S) = Folded(kind, v, S)
<1>1. PICK f : IsFold(f, kind, w, S) /\ Folded(kind, w, S) = f[S]
  BY FoldExists DEF Folded
<1>2. PICK g : IsFold(g, kind, v, S) /\ Folded(kind, v, S) = g[S]
  BY FoldExists DEF Folded
<1>3. S \in SUBSET S /\ S \subseteq S
  OBVIOUS
<1> QED
  BY <1>1, <1>2, <1>3, FoldsAgree

\* The three folds of the model.
LEMMA SumIsFold ==
  ASSUME NEW w, NEW S, IsFiniteSet(S)
  PROVE  SumFunctionOnSet(w, S) = Folded("sum", w, S)
<1> DEFINE P(f) == f = [s \in SUBSET S |->
                          IF s = {} THEN 0 ELSE w[CHOOSE x \in s : TRUE] + f[s \ {CHOOSE x \in s : TRUE}]]
<1>1. \A f : IsFold(f, "sum", w, S) <=> P(f)
  BY DEF IsFold, StartOf, Combined, Chosen, Others
<1>2. SumFunctionOnSet(w, S) = (CHOOSE f : P(f))[S]
  BY DEF SumFunctionOnSet, FoldFunctionOnSet, MapThenFoldSet
<1>3. Foldable("sum", S)
  BY DEF Foldable
<1>4. \E f : P(f)
  <2>1. \E f : IsFold(f, "sum", w, S)
    BY <1>3, FoldExists
  <2> HIDE DEF P
  <2> QED
    BY <1>1, <2>1
<1> DEFINE g == CHOOSE f : P(f)
<1>5. P(g)
  BY <1>4
<1> HIDE DEF g, P
<1>6. IsFold(g, "sum", w, S) /\ SumFunctionOnSet(w, S) = g[S]
  BY <1>1, <1>2, <1>5 DEF g
<1>7. PICK f : IsFold(f, "sum", w, S) /\ Folded("sum", w, S) = f[S]
  BY <1>3, FoldExists DEF Folded
<1>8. S \in SUBSET S /\ S \subseteq S
  OBVIOUS
<1> QED
  BY <1>3, <1>6, <1>7, <1>8, FoldsAgree

LEMMA RunsAreFold ==
  ASSUME NEW n \in Nat, NEW s, DOMAIN s = 1..n
  PROVE  AggregateCollectorData(s) = Folded("runs", s, 1..n)
<1> DEFINE S == 1..n
           P(f) == f = [t \in SUBSET S |->
                          IF t = {} THEN NoData ELSE MergeCollectorResults(f[t \ {Max(t)}], s[Max(t)])]
<1>1. \A f : IsFold(f, "runs", s, S) <=> P(f)
  BY DEF IsFold, StartOf, Combined, Chosen, Others
<1>2. AggregateCollectorData(s) = (CHOOSE f : P(f))[S]
  BY DEF AggregateCollectorData, FoldLeft, MapThenFoldSet
<1>3. Foldable("runs", S)
  BY FS_Interval DEF Foldable
<1>4. \E f : P(f)
  BY <1>1, <1>3, FoldExists
<1> DEFINE g == CHOOSE f : P(f)
<1>5. P(g)
  BY <1>4
<1> HIDE DEF g, P, S
<1>6. IsFold(g, "runs", s, S) /\ AggregateCollectorData(s) = g[S]
  BY <1>1, <1>2, <1>5 DEF g
<1>7. PICK f : IsFold(f, "runs", s, S) /\ Folded("runs", s, S) = f[S]
  BY <1>3, FoldExists DEF Folded
<1>8. S \in SUBSET S /\ S \subseteq S
  OBVIOUS
<1>9. AggregateCollectorData(s) = Folded("runs", s, S)
  BY <1>3, <1>6, <1>7, <1>8, FoldsAgree
<1> QED
  BY <1>9 DEF S

LEMMA RowsAreFold ==
  ASSUME NEW n \in Nat, NEW s, DOMAIN s = 1..n
  PROVE  MergeAggregatedBucketResults(s) = Folded("rows", s, 1..n)
<1> DEFINE S == 1..n
           P(f) == f = [t \in SUBSET S |->
                          IF t = {} THEN NoData ELSE MergeRows(f[t \ {Max(t)}], s[Max(t)])]
<1>1. \A f : IsFold(f, "rows", s, S) <=> P(f)
  BY DEF IsFold, StartOf, Combined, Chosen, Others
<1>2. MergeAggregatedBucketResults(s) = (CHOOSE f : P(f))[S]
  BY DEF MergeAggregatedBucketResults, FoldLeft, MapThenFoldSet
<1>3. Foldable("rows", S)
  BY FS_Interval DEF Foldable
<1>4. \E f : P(f)
  BY <1>1, <1>3, FoldExists
<1> DEFINE g == CHOOSE f : P(f)
<1>5. P(g)
  BY <1>4
<1> HIDE DEF g, P, S
<1>6. IsFold(g, "rows", s, S) /\ MergeAggregatedBucketResults(s) = g[S]
  BY <1>1, <1>2, <1>5 DEF g
<1>7. PICK f : IsFold(f, "rows", s, S) /\ Folded("rows", s, S) = f[S]
  BY <1>3, FoldExists DEF Folded
<1>8. S \in SUBSET S /\ S \subseteq S
  OBVIOUS
<1>9. MergeAggregatedBucketResults(s) = Folded("rows", s, S)
  BY <1>3, <1>6, <1>7, <1>8, FoldsAgree
<1> QED
  BY <1>9 DEF S

-----------------------------------------------------------------------------
(* Sums, and folds of sequences *)

LEMMA SumIsInteger ==
  ASSUME NEW w, NEW S, IsFiniteSet(S), \A x \in S : w[x] \in Int
  PROVE  SumFunctionOnSet(w, S) \in Int
<1> DEFINE Bad == {s \in SUBSET S : Folded("sum", w, s) \notin Int}
<1>1. Bad = {}
  <2> SUFFICES ASSUME Bad # {} PROVE FALSE
    OBVIOUS
  <2>1. \A s \in SUBSET S : IsFiniteSet(s) /\ Foldable("sum", s)
    BY FS_Subset DEF Foldable
  <2>2. PICK s \in Bad : \A t \in Bad : Cardinality(s) <= Cardinality(t)
    BY <2>1, SmallestSet
  <2>3. s \in SUBSET S /\ Foldable("sum", s) /\ Folded("sum", w, s) \notin Int
    BY <2>1
  <2>4. Folded("sum", w, s) = IF s = {} THEN 0 ELSE w[Chosen("sum", s)] + Folded("sum", w, Others("sum", s))
    BY <2>3, FoldRecursion DEF StartOf, Combined
  <2>5. s # {}
    BY <2>3, <2>4
  <2>6. Chosen("sum", s) \in S /\ Others("sum", s) \in SUBSET S /\ ~(Cardinality(s) <= Cardinality(Others("sum", s)))
    BY <2>3, <2>5, ChosenSmaller
  <2>7. Folded("sum", w, Others("sum", s)) \in Int
    BY <2>2, <2>6
  <2> QED
    BY <2>3, <2>4, <2>5, <2>6, <2>7
<1>2. Folded("sum", w, S) \in Int
  <2>1. S \in SUBSET S
    OBVIOUS
  <2> QED
    BY <1>1, <2>1
<1> QED
  BY <1>2, SumIsFold

\* Whichever element is taken out.
LEMMA SumTakesOutAny ==
  ASSUME NEW w, NEW S, IsFiniteSet(S), \A x \in S : w[x] \in Int
  PROVE  \A x \in S : SumFunctionOnSet(w, S) = w[x] + SumFunctionOnSet(w, S \ {x})
<1> DEFINE sum(s) == SumFunctionOnSet(w, s)
           Fine(s) == \A x \in s : sum(s) = w[x] + sum(s \ {x})
           Bad == {s \in SUBSET S : ~Fine(s)}
<1> SUFFICES ASSUME Bad # {} PROVE FALSE
  <2>1. S \in SUBSET S
    OBVIOUS
  <2> QED
    BY <2>1
<1>1. \A s \in SUBSET S : IsFiniteSet(s) /\ Foldable("sum", s) /\ sum(s) \in Int
  <2> SUFFICES ASSUME NEW s \in SUBSET S PROVE IsFiniteSet(s) /\ Foldable("sum", s) /\ sum(s) \in Int
    OBVIOUS
  <2>1. IsFiniteSet(s)
    BY FS_Subset
  <2> QED
    BY <2>1, SumIsInteger DEF Foldable
<1>2. PICK s \in Bad : \A t \in Bad : Cardinality(s) <= Cardinality(t)
  BY <1>1, SmallestSet
<1>3. s \in SUBSET S /\ IsFiniteSet(s) /\ Foldable("sum", s) /\ ~Fine(s)
  BY <1>1
<1>4. PICK x \in s : sum(s) # w[x] + sum(s \ {x})
  BY <1>3
<1>5. ASSUME NEW t \in SUBSET S, ~(Cardinality(s) <= Cardinality(t)), NEW y \in t
      PROVE  sum(t) = w[y] + sum(t \ {y})
  BY <1>2, <1>5
<1> HIDE DEF Bad, Fine
<1> DEFINE p == Chosen("sum", s)
<1>6. p \in s /\ sum(s) = w[p] + sum(s \ {p})
  <2>1. p \in s /\ Others("sum", s) = s \ {p} /\ s # {}
    BY <1>3, <1>4, ChosenSmaller DEF Others
  <2>2. sum(s) = Folded("sum", w, s) /\ sum(s \ {p}) = Folded("sum", w, s \ {p})
    BY <1>1, <1>3, <2>1, SumIsFold
  <2>3. Folded("sum", w, s) = w[p] + Folded("sum", w, Others("sum", s))
    BY <1>3, <2>1, FoldRecursion DEF StartOf, Combined
  <2> QED
    BY <2>1, <2>2, <2>3
<1> HIDE DEF p, sum
<1>7. x # p
  BY <1>4, <1>6
<1>8. \A y \in s : ~(Cardinality(s) <= Cardinality(s \ {y}))
  <2> SUFFICES ASSUME NEW y \in s PROVE ~(Cardinality(s) <= Cardinality(s \ {y}))
    OBVIOUS
  <2>1. Cardinality(s \ {y}) = Cardinality(s) - 1 /\ Cardinality(s) \in Nat
    BY <1>3, FS_RemoveElement, FS_CardinalityType
  <2> QED
    BY <2>1
<1>9. /\ sum(s \ {p}) = w[x] + sum((s \ {p}) \ {x})
      /\ sum(s \ {x}) = w[p] + sum((s \ {x}) \ {p})
  <2>1. s \ {p} \in SUBSET S /\ x \in s \ {p} /\ s \ {x} \in SUBSET S /\ p \in s \ {x}
    BY <1>3, <1>6, <1>7
  <2> QED
    BY <1>5, <1>6, <1>8, <2>1
<1>10. (s \ {p}) \ {x} = (s \ {x}) \ {p}
  OBVIOUS
<1>11. w[p] \in Int /\ w[x] \in Int /\ sum((s \ {x}) \ {p}) \in Int
  <2>1. (s \ {x}) \ {p} \in SUBSET S /\ p \in S /\ x \in S
    BY <1>3, <1>6
  <2>2. sum((s \ {x}) \ {p}) \in Int
    BY <1>1, <2>1
  <2> QED
    BY <2>1, <2>2
<1>12. sum(s \ {p}) = w[x] + sum((s \ {x}) \ {p})
  BY <1>9, <1>10
<1>13. \A wp, wx, rest \in Int : wp + (wx + rest) = wx + (wp + rest)
  OBVIOUS
<1>14. sum(s) = w[x] + (w[p] + sum((s \ {x}) \ {p}))
  BY <1>6, <1>11, <1>12, <1>13
<1> QED
  BY <1>4, <1>9, <1>14

LEMMA SumAdds ==
  ASSUME NEW w, NEW S, IsFiniteSet(S), NEW x, x \notin S, \A y \in S \cup {x} : w[y] \in Int
  PROVE  SumFunctionOnSet(w, S \cup {x}) = SumFunctionOnSet(w, S) + w[x]
<1>1. IsFiniteSet(S \cup {x}) /\ x \in S \cup {x} /\ (S \cup {x}) \ {x} = S
  BY FS_AddElement
<1>2. SumFunctionOnSet(w, S \cup {x}) = w[x] + SumFunctionOnSet(w, (S \cup {x}) \ {x})
  BY <1>1, SumTakesOutAny
<1>3. SumFunctionOnSet(w, S) \in Int /\ w[x] \in Int
  BY SumIsInteger
<1>4. SumFunctionOnSet(w, S \cup {x}) = w[x] + SumFunctionOnSet(w, S)
  BY <1>1, <1>2
<1>5. \A a, b \in Int : a + b = b + a
  OBVIOUS
<1> QED
  BY <1>3, <1>4, <1>5

LEMMA SumOfNone ==
  ASSUME NEW w
  PROVE  SumFunctionOnSet(w, {}) = 0
<1>1. IsFiniteSet({}) /\ Foldable("sum", {})
  BY FS_EmptySet DEF Foldable
<1> QED
  BY <1>1, SumIsFold, FoldRecursion DEF StartOf

\* Two disjoint sets add up.
LEMMA SumOfBoth ==
  ASSUME NEW w, NEW S, IsFiniteSet(S), NEW T, IsFiniteSet(T), S \cap T = {}, \A x \in S \cup T : w[x] \in Int
  PROVE  SumFunctionOnSet(w, S \cup T) = SumFunctionOnSet(w, S) + SumFunctionOnSet(w, T)
<1> DEFINE sum(s) == SumFunctionOnSet(w, s)
           Bad == {t \in SUBSET T : sum(S \cup t) # sum(S) + sum(t)}
<1> SUFFICES ASSUME Bad # {} PROVE FALSE
  <2>1. T \in SUBSET T
    OBVIOUS
  <2> QED
    BY <2>1
<1>1. \A s \in SUBSET T : IsFiniteSet(s)
  BY FS_Subset
<1>2. PICK t \in Bad : \A u \in Bad : Cardinality(t) <= Cardinality(u)
  BY <1>1, SmallestSet
<1>3. t \in SUBSET T /\ IsFiniteSet(t) /\ sum(S \cup t) # sum(S) + sum(t)
  BY <1>1
<1>4. sum(S) \in Int
  BY SumIsInteger
<1>5. t # {}
  <2> SUFFICES ASSUME t = {} PROVE FALSE
    OBVIOUS
  <2>1. S \cup t = S /\ sum(t) = 0
    BY SumOfNone
  <2> HIDE DEF sum
  <2> QED
    BY <1>3, <1>4, <2>1
<1>6. PICK x \in t : TRUE
  BY <1>5
<1> DEFINE r == t \ {x}
<1>7. r \in SUBSET T /\ IsFiniteSet(r) /\ t = r \cup {x} /\ x \notin r /\ ~(Cardinality(t) <= Cardinality(r))
  <2>1. Cardinality(r) = Cardinality(t) - 1 /\ Cardinality(t) \in Nat /\ IsFiniteSet(r)
    BY <1>3, <1>6, FS_RemoveElement, FS_CardinalityType
  <2> QED
    BY <1>3, <1>6, <2>1
<1>8. sum(S \cup r) = sum(S) + sum(r)
  BY <1>2, <1>7
<1> HIDE DEF r
<1>9. sum(r) \in Int /\ w[x] \in Int
  BY <1>3, <1>6, <1>7, SumIsInteger
<1>10. sum(t) = sum(r) + w[x]
  <2>1. \A y \in r \cup {x} : w[y] \in Int
    BY <1>3, <1>7
  <2>2. sum(r \cup {x}) = sum(r) + w[x]
    BY <1>7, <2>1, SumAdds
  <2> QED
    BY <1>7, <2>2
<1>11. sum(S \cup t) = sum(S \cup r) + w[x]
  <2>1. x \notin S \cup r /\ S \cup t = (S \cup r) \cup {x} /\ IsFiniteSet(S \cup r)
    <3>1. x \in T /\ x \notin S
      BY <1>3, <1>6
    <3>2. IsFiniteSet(S \cup r)
      BY <1>7, FS_Union
    <3> QED
      BY <1>7, <3>1, <3>2
  <2>2. \A y \in (S \cup r) \cup {x} : w[y] \in Int
    BY <1>3, <1>7, <2>1
  <2>3. sum((S \cup r) \cup {x}) = sum(S \cup r) + w[x]
    BY <2>1, <2>2, SumAdds
  <2> QED
    BY <2>1, <2>3
<1> HIDE DEF sum
<1> QED
  BY <1>3, <1>4, <1>8, <1>9, <1>10, <1>11

LEMMA SumsSameValues ==
  ASSUME NEW w, NEW v, NEW S, IsFiniteSet(S), \A x \in S : w[x] = v[x]
  PROVE  SumFunctionOnSet(w, S) = SumFunctionOnSet(v, S)
<1>1. Foldable("sum", S)
  BY DEF Foldable
<1> QED
  BY <1>1, SumIsFold, FoldSame

\* Sequences are folded from their first element to their last.
LEMMA FoldOfFirst ==
  ASSUME NEW kind \in {"runs", "rows"}, NEW s, NEW n \in Nat
  PROVE  Folded(kind, s, 1..n) = IF n = 0 THEN NoData ELSE Combined(kind, s[n], Folded(kind, s, 1..(n - 1)))
<1>1. Foldable(kind, 1..n)
  BY FS_Interval DEF Foldable
<1>2. CASE n = 0
  <2>1. 1..n = {}
    BY <1>2
  <2> QED
    BY <1>1, <1>2, <2>1, FoldRecursion DEF StartOf
<1>3. CASE n # 0
  <2>1. 1..n # {} /\ 1..n \subseteq Int /\ IsFiniteSet(1..n)
    <3>1. 1 \in 1..n
      BY <1>3
    <3>2. IsFiniteSet(1..n)
      BY <1>1 DEF Foldable
    <3> QED
      BY <3>1, <3>2
  <2>2. Max(1..n) \in 1..n /\ \A x \in 1..n : Max(1..n) >= x
    BY <2>1, GreatestNumber
  <2>3. n \in 1..n
    BY <1>3
  <2>4. Max(1..n) = n
    BY <2>2, <2>3
  <2>5. Chosen(kind, 1..n) = n
    BY <2>4 DEF Chosen
  <2>6. Others(kind, 1..n) = 1..(n - 1)
    BY <2>5 DEF Others
  <2> QED
    BY <1>1, <1>3, <2>1, <2>5, <2>6, FoldRecursion
<1> QED
  BY <1>2, <1>3

\* A run more in the row of some runs (incrementHourlyAggregate).
LEMMA AppendedRun ==
  ASSUME NEW n \in Nat, NEW s, DOMAIN s = 1..n, NEW t, DOMAIN t = 1..(n + 1), \A i \in 1..n : t[i] = s[i]
  PROVE  AggregateCollectorData(t) = MergeCollectorResults(AggregateCollectorData(s), t[n + 1])
<1>1. n + 1 \in Nat /\ n + 1 # 0 /\ (n + 1) - 1 = n
  OBVIOUS
<1>2. Folded("runs", t, 1..(n + 1)) = Combined("runs", t[n + 1], Folded("runs", t, 1..n))
  BY <1>1, FoldOfFirst
<1>3. Foldable("runs", 1..n)
  BY FS_Interval DEF Foldable
<1>4. Folded("runs", t, 1..n) = Folded("runs", s, 1..n)
  BY <1>3, FoldSame
<1>5. AggregateCollectorData(t) = Folded("runs", t, 1..(n + 1)) /\ AggregateCollectorData(s) = Folded("runs", s, 1..n)
  BY <1>1, RunsAreFold
<1> QED
  BY <1>2, <1>4, <1>5 DEF Combined

-----------------------------------------------------------------------------
(* Aggregates of a collector *)

\* What an aggregate of a collector can be: its derived figures follow from its sums.
Counters == {Counter(n) : n \in Nat}
Averages == {Average(s, n) : s \in Int, n \in Nat}
Rates == {Rate(s, n) : s \in Nat, n \in Nat}
Ranges == {Extremes(x, y) : x \in Int, y \in Int}
Figures == [errors : Counters, average : Averages, rate : Rates, extremes : Ranges]

LEMMA ReadingHolds ==
  ASSUME NEW reading \in Readings, reading # {}
  PROVE  Measured(reading) \in Int
<1>1. PICK m \in Measures : reading = {m}
  BY DEF Readings
<1>2. Measured(reading) \in reading
  BY <1>1 DEF Measured
<1> QED
  BY <1>1, <1>2, FiguresAssumption DEF FiguresAssumption

\* An average is given by its sum and its count.
LEMMA AverageFields ==
  /\ \A s \in Int, n \in Nat : Average(s, n).sum = s /\ Average(s, n).count = n
  /\ \A f \in Averages : f.sum \in Int /\ f.count \in Nat /\ f = Average(f.sum, f.count)
<1>1. \A s \in Int, n \in Nat : Average(s, n).sum = s /\ Average(s, n).count = n
  BY DEF Average
<1> QED
  BY <1>1 DEF Averages

\* A rate is given by its successes and its total.
LEMMA RateFields ==
  /\ \A s \in Nat, n \in Nat : Rate(s, n).success = s /\ Rate(s, n).total = n
  /\ \A f \in Rates : f.success \in Nat /\ f.total \in Nat /\ f = Rate(f.success, f.total)
<1>1. \A s \in Nat, n \in Nat : Rate(s, n).success = s /\ Rate(s, n).total = n
  BY DEF Rate
<1> QED
  BY <1>1 DEF Rates

LEMMA AverageClosed ==
  /\ \A a, b \in Averages : MergeAverageStates(a, b) \in Averages
  /\ \A a \in Averages, reading \in Readings : MergeAverage(a, reading) \in Averages
<1>1. \A a, b \in Averages : MergeAverageStates(a, b) \in Averages
  BY AverageFields DEF Averages, MergeAverageStates
<1>2. ASSUME NEW a \in Averages, NEW reading \in Readings
      PROVE  MergeAverage(a, reading) \in Averages
  <2>1. CASE reading = {}
    BY <2>1 DEF MergeAverage
  <2>2. CASE reading # {}
    <3>1. a.sum + Measured(reading) \in Int /\ a.count + 1 \in Nat
      BY <2>2, ReadingHolds, AverageFields
    <3> QED
      BY <2>2, <3>1 DEF MergeAverage, Averages
  <2> QED
    BY <2>1, <2>2
<1> QED
  BY <1>1, <1>2

LEMMA RateClosed ==
  /\ \A a, b \in Rates : MergeRateStates(a, b) \in Rates
  /\ \A a \in Rates, reading \in Readings : MergeRate(a, reading) \in Rates
<1>1. \A a, b \in Rates : MergeRateStates(a, b) \in Rates
  BY RateFields DEF Rates, MergeRateStates
<1>2. ASSUME NEW a \in Rates, NEW reading \in Readings
      PROVE  MergeRate(a, reading) \in Rates
  <2> DEFINE more == IF reading \subseteq Successes THEN 1 ELSE 0
  <2>1. a.success + more \in Nat /\ a.total + 1 \in Nat
    BY RateFields
  <2> QED
    BY <2>1 DEF MergeRate, Rates
<1> QED
  BY <1>1, <1>2

LEMMA RangeClosed ==
  /\ \A a, b \in Ranges : MergeMinMaxStates(a, b) \in Ranges
  /\ \A a \in Ranges, reading \in Readings : MergeMinMax(a, reading) \in Ranges
  /\ \A reading \in Readings : FirstExtremes(reading) \in Ranges
<1>1. \A a \in Ranges : a.min \in Int /\ a.max \in Int
  BY DEF Ranges, Extremes
<1>2. \A a, b \in Ranges : MergeMinMaxStates(a, b) \in Ranges
  <2> SUFFICES ASSUME NEW a \in Ranges, NEW b \in Ranges
               PROVE  MergeMinMaxStates(a, b) \in Ranges
    OBVIOUS
  <2>1. Lower(a.min, b.min) \in Int /\ Higher(a.max, b.max) \in Int
    BY <1>1 DEF Lower, Higher
  <2> QED
    BY <2>1 DEF Ranges, MergeMinMaxStates
<1>3. ASSUME NEW a \in Ranges, NEW reading \in Readings
      PROVE  MergeMinMax(a, reading) \in Ranges /\ FirstExtremes(reading) \in Ranges
  <2>1. CASE reading = {}
    BY <2>1 DEF MergeMinMax, FirstExtremes, Ranges
  <2>2. CASE reading # {}
    <3>1. Measured(reading) \in Int
      BY <2>2, ReadingHolds
    <3>2. Lower(a.min, Measured(reading)) \in Int /\ Higher(a.max, Measured(reading)) \in Int
      BY <1>1, <3>1 DEF Lower, Higher
    <3> QED
      BY <2>2, <3>1, <3>2 DEF MergeMinMax, FirstExtremes, Ranges
  <2> QED
    BY <2>1, <2>2
<1>4. \A reading \in Readings : FirstExtremes(reading) \in Ranges
  <2>1. Extremes(0, 0) \in Ranges
    BY DEF Ranges
  <2> QED
    BY <1>3, <2>1
<1> QED
  BY <1>2, <1>3, <1>4

LEMMA CounterClosed ==
  /\ \A a \in Counters : a.count \in Nat /\ a = Counter(a.count)
  /\ \A a, b \in Counters : MergeCounterStates(a, b) \in Counters
  /\ \A a \in Counters, reading \in Readings : MergeCounter(a, reading) \in Counters
<1>1. \A a \in Counters : a.count \in Nat /\ a = Counter(a.count)
  BY DEF Counters, Counter
<1>2. \A a, b \in Counters : MergeCounterStates(a, b) \in Counters
  BY <1>1 DEF Counters, MergeCounterStates
<1>3. ASSUME NEW a \in Counters, NEW reading \in Readings
      PROVE  MergeCounter(a, reading) \in Counters
  <2>1. a.count + (IF reading = {} THEN 1 ELSE 0) \in Nat
    BY <1>1
  <2> QED
    BY <2>1 DEF MergeCounter, Counters
<1> QED
  BY <1>1, <1>2, <1>3

-----------------------------------------------------------------------------
(* Splitting. Combining aggregates is commutative, and merging a reading into one of
   two aggregates comes to the same as merging it into both together. *)

\* Aggregates can be combined in any order (mergeAggregatedStates, aggregated-result.ts).
THEOREM CombiningCommutes ==
  ASSUME NEW a \in Figures, NEW b \in Figures
  PROVE  MergeAggregatedStates(a, b) = MergeAggregatedStates(b, a)
<1>1. MergeCounterStates(a.errors, b.errors) = MergeCounterStates(b.errors, a.errors)
  <2>1. a.errors.count + b.errors.count = b.errors.count + a.errors.count
    BY CounterClosed DEF Figures
  <2> QED
    BY <2>1 DEF MergeCounterStates
<1>2. MergeAverageStates(a.average, b.average) = MergeAverageStates(b.average, a.average)
  <2>1. /\ a.average.sum + b.average.sum = b.average.sum + a.average.sum
        /\ a.average.count + b.average.count = b.average.count + a.average.count
    BY AverageFields DEF Figures
  <2> QED
    BY <2>1 DEF MergeAverageStates
<1>3. MergeRateStates(a.rate, b.rate) = MergeRateStates(b.rate, a.rate)
  <2>1. /\ a.rate.success + b.rate.success = b.rate.success + a.rate.success
        /\ a.rate.total + b.rate.total = b.rate.total + a.rate.total
    BY RateFields DEF Figures
  <2> QED
    BY <2>1 DEF MergeRateStates
<1>4. MergeMinMaxStates(a.extremes, b.extremes) = MergeMinMaxStates(b.extremes, a.extremes)
  BY DEF Figures, Ranges, MergeMinMaxStates, Extremes, Lower, Higher
<1> QED
  BY <1>1, <1>2, <1>3, <1>4 DEF MergeAggregatedStates

\* A reading comes to the same in one of two aggregates as in both together, so a run
\* may be counted in any row of a point (mergeResult, mergeAggregatedStates).
THEOREM ReadingsSplit ==
  ASSUME NEW a \in Figures, NEW b \in Figures, NEW reading \in Readings
  PROVE  MergeAggregatedStates(a, MergeResult(b, reading)) = MergeResult(MergeAggregatedStates(a, b), reading)
<1>1. MergeCounterStates(a.errors, MergeCounter(b.errors, reading))
        = MergeCounter(MergeCounterStates(a.errors, b.errors), reading)
  BY CounterClosed DEF Figures, MergeCounterStates, MergeCounter, Counter
<1>2. MergeAverageStates(a.average, MergeAverage(b.average, reading))
        = MergeAverage(MergeAverageStates(a.average, b.average), reading)
  <2>1. CASE reading = {}
    BY <2>1 DEF MergeAverage
  <2>2. CASE reading # {}
    <3> DEFINE m == Measured(reading)
               s == a.average.sum   n == a.average.count
               t == b.average.sum   k == b.average.count
    <3>1. m \in Int /\ s \in Int /\ n \in Nat /\ t \in Int /\ k \in Nat
      BY <2>2, ReadingHolds, AverageFields DEF Figures
    <3>2. MergeAverage(b.average, reading) = Average(t + m, k + 1)
      BY <2>2 DEF MergeAverage
    <3>3. MergeAverageStates(a.average, Average(t + m, k + 1)) = Average(s + (t + m), n + (k + 1))
      <4>1. t + m \in Int /\ k + 1 \in Nat
        BY <3>1
      <4> HIDE DEF m, t, k
      <4> QED
        BY <4>1, AverageFields DEF MergeAverageStates
    <3>4. MergeAverage(MergeAverageStates(a.average, b.average), reading) = Average((s + t) + m, (n + k) + 1)
      <4>1. s + t \in Int /\ n + k \in Nat
        BY <3>1
      <4>2. MergeAverageStates(a.average, b.average) = Average(s + t, n + k)
        BY DEF MergeAverageStates
      <4> HIDE DEF s, t, n, k
      <4> QED
        BY <2>2, <4>1, <4>2, AverageFields DEF MergeAverage
    <3>5. s + (t + m) = (s + t) + m /\ n + (k + 1) = (n + k) + 1
      BY <3>1
    <3> HIDE DEF m, s, t, n, k
    <3> QED
      BY <3>2, <3>3, <3>4, <3>5
  <2> QED
    BY <2>1, <2>2
<1>3. MergeRateStates(a.rate, MergeRate(b.rate, reading)) = MergeRate(MergeRateStates(a.rate, b.rate), reading)
  <2>1. CASE reading = {}
    BY <2>1 DEF MergeRate
  <2>2. CASE reading # {}
    <3> DEFINE m == IF reading \subseteq Successes THEN 1 ELSE 0
               s == a.rate.success   n == a.rate.total
               t == b.rate.success   k == b.rate.total
    <3>1. m \in Nat /\ s \in Nat /\ n \in Nat /\ t \in Nat /\ k \in Nat
      BY RateFields DEF Figures
    <3>2. MergeRate(b.rate, reading) = Rate(t + m, k + 1)
      BY <2>2 DEF MergeRate
    <3>3. MergeRateStates(a.rate, Rate(t + m, k + 1)) = Rate(s + (t + m), n + (k + 1))
      <4>1. t + m \in Nat /\ k + 1 \in Nat
        BY <3>1
      <4> HIDE DEF m, t, k
      <4> QED
        BY <4>1, RateFields DEF MergeRateStates
    <3>4. MergeRate(MergeRateStates(a.rate, b.rate), reading) = Rate((s + t) + m, (n + k) + 1)
      <4>1. s + t \in Nat /\ n + k \in Nat
        BY <3>1
      <4>2. MergeRateStates(a.rate, b.rate) = Rate(s + t, n + k)
        BY DEF MergeRateStates
      <4> HIDE DEF s, t, n, k
      <4> QED
        BY <2>2, <4>1, <4>2, RateFields DEF MergeRate
    <3>5. s + (t + m) = (s + t) + m /\ n + (k + 1) = (n + k) + 1
      BY <3>1
    <3> HIDE DEF m, s, t, n, k
    <3> QED
      BY <3>2, <3>3, <3>4, <3>5
  <2> QED
    BY <2>1, <2>2
<1>4. MergeMinMaxStates(a.extremes, MergeMinMax(b.extremes, reading))
        = MergeMinMax(MergeMinMaxStates(a.extremes, b.extremes), reading)
  <2>1. CASE reading = {}
    BY <2>1 DEF MergeMinMax
  <2>2. CASE reading # {}
    <3>1. \A x, y, z \in Int : /\ Lower(x, Lower(y, z)) = Lower(Lower(x, y), z)
                               /\ Higher(x, Higher(y, z)) = Higher(Higher(x, y), z)
      BY DEF Lower, Higher
    <3>2. /\ a.extremes.min \in Int /\ a.extremes.max \in Int
          /\ b.extremes.min \in Int /\ b.extremes.max \in Int
      BY DEF Figures, Ranges, Extremes
    <3>3. Measured(reading) \in Int
      BY <2>2, ReadingHolds
    <3> QED
      BY <2>2, <3>1, <3>2, <3>3 DEF MergeMinMax, MergeMinMaxStates, Extremes
  <2> QED
    BY <2>1, <2>2
<1> QED
  BY <1>1, <1>2, <1>3, <1>4 DEF MergeAggregatedStates, MergeResult

\* A row that begins with a measure may be begun anywhere; one that begins with a
\* failure differs in its extremes.
THEOREM FirstReadingSplits ==
  ASSUME NEW a \in Figures, NEW reading \in Readings, reading # {}
  PROVE  MergeAggregatedStates(a, FirstResult(reading)) = MergeResult(a, reading)
<1> DEFINE m == Measured(reading)
<1>m. m \in Int
  BY ReadingHolds
<1>1. MergeCounterStates(a.errors, MergeCounter(Counter(0), reading)) = MergeCounter(a.errors, reading)
  BY CounterClosed DEF Figures, MergeCounterStates, MergeCounter, Counter
<1>2. MergeAverageStates(a.average, MergeAverage(Average(0, 0), reading)) = MergeAverage(a.average, reading)
  <2>1. MergeAverage(Average(0, 0), reading) = Average(m, 1)
    BY <1>m, AverageFields DEF MergeAverage
  <2>2. MergeAverageStates(a.average, Average(m, 1)) = Average(a.average.sum + m, a.average.count + 1)
    BY <1>m, AverageFields DEF MergeAverageStates
  <2> QED
    BY <2>1, <2>2 DEF MergeAverage
<1>3. MergeRateStates(a.rate, MergeRate(Rate(0, 0), reading)) = MergeRate(a.rate, reading)
  <2> DEFINE k == IF reading \subseteq Successes THEN 1 ELSE 0
  <2>1. k \in Nat
    OBVIOUS
  <2>2. MergeRate(Rate(0, 0), reading) = Rate(k, 1)
    BY RateFields DEF MergeRate
  <2>3. MergeRate(a.rate, reading) = Rate(a.rate.success + k, a.rate.total + 1)
    BY DEF MergeRate
  <2> HIDE DEF k
  <2>4. MergeRateStates(a.rate, Rate(k, 1)) = Rate(a.rate.success + k, a.rate.total + 1)
    BY <2>1, RateFields DEF MergeRateStates
  <2> QED
    BY <2>2, <2>3, <2>4
<1>4. MergeMinMaxStates(a.extremes, FirstExtremes(reading)) = MergeMinMax(a.extremes, reading)
  BY <1>m DEF MergeMinMaxStates, FirstExtremes, MergeMinMax, Extremes
<1> QED
  BY <1>1, <1>2, <1>3, <1>4 DEF MergeAggregatedStates, FirstResult, MergeResult

-----------------------------------------------------------------------------
(* Rows *)

\* What a row can hold.
FigureRows == UNION {[cs -> Figures] : cs \in SUBSET Collectors}

LEMMA ResultsClosed ==
  ASSUME NEW reading \in Readings
  PROVE  FirstResult(reading) \in Figures /\ \A a \in Figures : MergeResult(a, reading) \in Figures
<1>1. Counter(0) \in Counters /\ Average(0, 0) \in Averages /\ Rate(0, 0) \in Rates
  BY DEF Counters, Averages, Rates
<1> QED
  BY <1>1, CounterClosed, AverageClosed, RateClosed, RangeClosed DEF Figures, FirstResult, MergeResult

LEMMA DataAndRows ==
  /\ NoData \in RunData /\ NoData \in FigureRows
  /\ \A r \in FigureRows : DOMAIN r \subseteq Collectors /\ \A c \in DOMAIN r : r[c] \in Figures
  /\ \A d \in RunData : DOMAIN d \subseteq Collectors /\ \A c \in DOMAIN d : d[c] \in Readings
<1>1. NoData \in RunData /\ NoData \in FigureRows
  <2>1. NoData \in [{} -> Readings] /\ NoData \in [{} -> Figures]
    BY DEF NoData
  <2>2. {} \in SUBSET Collectors
    OBVIOUS
  <2> QED
    BY <2>1, <2>2 DEF RunData, FigureRows
<1>2. ASSUME NEW r \in FigureRows
      PROVE  DOMAIN r \subseteq Collectors /\ \A c \in DOMAIN r : r[c] \in Figures
  <2>1. PICK cs \in SUBSET Collectors : r \in [cs -> Figures]
    BY DEF FigureRows
  <2> QED
    BY <2>1
<1>3. ASSUME NEW d \in RunData
      PROVE  DOMAIN d \subseteq Collectors /\ \A c \in DOMAIN d : d[c] \in Readings
  <2>1. PICK cs \in SUBSET Collectors : d \in [cs -> Readings]
    BY DEF RunData
  <2> QED
    BY <2>1
<1> QED
  BY <1>1, <1>2, <1>3

\* Merging a run keeps a row one.
LEMMA MergingClosed ==
  ASSUME NEW existing \in FigureRows, NEW data \in RunData
  PROVE  MergeCollectorResults(existing, data) \in FigureRows
<1> DEFINE cs == DOMAIN existing \cup DOMAIN data
<1>1. cs \in SUBSET Collectors
  BY DataAndRows
<1>2. \A c \in cs : MergeCollectorResults(existing, data)[c] \in Figures
  BY DataAndRows, ResultsClosed DEF MergeCollectorResults
<1>3. MergeCollectorResults(existing, data) \in [cs -> Figures]
  BY <1>2 DEF MergeCollectorResults
<1> QED
  BY <1>1, <1>3 DEF FigureRows

-----------------------------------------------------------------------------
(* What an aggregate says of the readings it was merged from. r gives the readings of one
   collector, R are the runs counted so far. *)

\* Of some runs, those with a measure, and those whose measure means success.
Valued(r, R) == {e \in R : r[e] # {}}
Failing(r, R) == {e \in R : r[e] = {}}
Succeeding(r, R) == {e \in R : r[e] # {} /\ r[e] \subseteq Successes}

Values(r) == [e \in DOMAIN r |-> Measured(r[e])]

\* x has the least and the greatest of what v is on S.
Spans(x, v, S) ==
  /\ \E e \in S : x.min = v[e]
  /\ \E e \in S : x.max = v[e]
  /\ \A e \in S : x.min <= v[e] /\ v[e] <= x.max

\* The figures count just these runs; their extremes, if the runs were merged well.
Shows(f, r, R, well) ==
  /\ f \in Figures
  /\ f.errors.count = Cardinality(Failing(r, R))
  /\ f.average = Average(SumFunctionOnSet(Values(r), Valued(r, R)), Cardinality(Valued(r, R)))
  /\ f.rate = Rate(Cardinality(Succeeding(r, R)), Cardinality(Valued(r, R)))
  /\ well => Spans(f.extremes, Values(r), Valued(r, R))

IsReadings(r) == \A e \in DOMAIN r : r[e] \in Readings

LEMMA ValuesAreNumbers ==
  ASSUME NEW r, IsReadings(r), NEW R, R \subseteq DOMAIN r, IsFiniteSet(R)
  PROVE  /\ \A e \in Valued(r, R) : Values(r)[e] = Measured(r[e]) /\ Values(r)[e] \in Int
         /\ IsFiniteSet(Valued(r, R)) /\ IsFiniteSet(Failing(r, R)) /\ IsFiniteSet(Succeeding(r, R))
         /\ Cardinality(Valued(r, R)) \in Nat /\ Cardinality(Succeeding(r, R)) \in Nat
         /\ Cardinality(Failing(r, R)) \in Nat
         /\ SumFunctionOnSet(Values(r), Valued(r, R)) \in Int
<1>1. \A e \in Valued(r, R) : Values(r)[e] = Measured(r[e]) /\ Values(r)[e] \in Int
  BY ReadingHolds DEF IsReadings, Valued, Values
<1>2. Valued(r, R) \subseteq R /\ Failing(r, R) \subseteq R /\ Succeeding(r, R) \subseteq R
  BY DEF Valued, Failing, Succeeding
<1>3. IsFiniteSet(Valued(r, R)) /\ IsFiniteSet(Failing(r, R)) /\ IsFiniteSet(Succeeding(r, R))
  BY <1>2, FS_Subset
<1> QED
  BY <1>1, <1>3, FS_CardinalityType, SumIsInteger

\* The first run of a collector in a row.
LEMMA FirstShows ==
  ASSUME NEW r, IsReadings(r), NEW x \in DOMAIN r, NEW R, R = {x}
  PROVE  Shows(FirstResult(r[x]), r, R, r[x] # {})
<1> DEFINE f == FirstResult(r[x])
           v == Values(r)
<1>0. r[x] \in Readings /\ f \in Figures
  BY ResultsClosed DEF IsReadings
<1>1. IsFiniteSet({}) /\ Cardinality({}) = 0 /\ IsFiniteSet(R) /\ Cardinality(R) = 1
  BY FS_EmptySet, FS_Singleton
<1>2. CASE r[x] = {}
  <2>1. Valued(r, R) = {} /\ Failing(r, R) = R /\ Succeeding(r, R) = {}
    BY <1>2 DEF Valued, Failing, Succeeding
  <2>2. f.errors.count = 1 /\ f.average = Average(0, 0) /\ f.rate = Rate(0, 0)
    BY <1>2 DEF FirstResult, MergeCounter, MergeAverage, MergeRate, Counter
  <2>3. SumFunctionOnSet(v, {}) = 0
    BY SumOfNone
  <2> QED
    BY <1>0, <1>1, <1>2, <2>1, <2>2, <2>3 DEF Shows
<1>3. CASE r[x] # {}
  <2>1. Valued(r, R) = R /\ Failing(r, R) = {} /\ Succeeding(r, R) = IF r[x] \subseteq Successes THEN R ELSE {}
    BY <1>3 DEF Valued, Failing, Succeeding
  <2>2. v[x] = Measured(r[x]) /\ v[x] \in Int
    BY <1>0, <1>3, ReadingHolds DEF Values
  <2>3. SumFunctionOnSet(v, R) = v[x]
    <3>1. \A y \in {} \cup {x} : v[y] \in Int
      BY <2>2
    <3>2. SumFunctionOnSet(v, {} \cup {x}) = SumFunctionOnSet(v, {}) + v[x]
      BY <1>1, <3>1, SumAdds
    <3>3. {} \cup {x} = R /\ SumFunctionOnSet(v, {}) = 0
      BY SumOfNone
    <3> HIDE DEF v
    <3> QED
      BY <2>2, <3>2, <3>3
  <2>4. f.errors.count = 0
    BY <1>3 DEF FirstResult, MergeCounter, Counter
  <2>5. f.average = Average(v[x], 1)
    <3>1. f.average = Average(0 + Measured(r[x]), 0 + 1)
      BY <1>3, AverageFields DEF FirstResult, MergeAverage
    <3> QED
      BY <2>2, <3>1
  <2>6. f.rate = Rate(IF r[x] \subseteq Successes THEN 1 ELSE 0, 1)
    BY <1>3, RateFields DEF FirstResult, MergeRate
  <2>7. f.extremes = Extremes(v[x], v[x])
    BY <1>3, <2>2 DEF FirstResult, FirstExtremes
  <2>8. Spans(f.extremes, v, R)
    BY <2>2, <2>7 DEF Spans, Extremes
  <2>9. f.rate = Rate(Cardinality(Succeeding(r, R)), Cardinality(Valued(r, R)))
    BY <1>1, <2>1, <2>6
  <2> HIDE DEF f, v
  <2> QED
    BY <1>0, <1>1, <1>3, <2>1, <2>3, <2>4, <2>5, <2>8, <2>9 DEF Shows, v, f
<1> QED
  BY <1>2, <1>3

\* A run more.
LEMMA RunShows ==
  ASSUME NEW r, IsReadings(r), NEW R, R \subseteq DOMAIN r, IsFiniteSet(R),
         NEW x \in DOMAIN r, x \notin R, NEW T, T = R \cup {x},
         NEW f, NEW well, Shows(f, r, R, well)
  PROVE  Shows(MergeResult(f, r[x]), r, T, well)
<1> DEFINE g == MergeResult(f, r[x])
           v == Values(r)
           sum == SumFunctionOnSet(v, Valued(r, R))
           n == Cardinality(Valued(r, R))
           k == Cardinality(Succeeding(r, R))
<1>0. r[x] \in Readings /\ f \in Figures /\ g \in Figures
  BY ResultsClosed DEF IsReadings, Shows
<1>1. /\ f.errors.count = Cardinality(Failing(r, R)) /\ f.average = Average(sum, n) /\ f.rate = Rate(k, n)
      /\ well => Spans(f.extremes, v, Valued(r, R))
  BY DEF Shows
<1>2. /\ \A e \in Valued(r, R) : v[e] = Measured(r[e]) /\ v[e] \in Int
      /\ IsFiniteSet(Valued(r, R)) /\ IsFiniteSet(Failing(r, R)) /\ IsFiniteSet(Succeeding(r, R))
      /\ n \in Nat /\ k \in Nat /\ sum \in Int /\ Cardinality(Failing(r, R)) \in Nat
  BY ValuesAreNumbers
<1>3. x \notin Valued(r, R) /\ x \notin Failing(r, R) /\ x \notin Succeeding(r, R)
  BY DEF Valued, Failing, Succeeding
<1>4. CASE r[x] = {}
  <2>1. Valued(r, T) = Valued(r, R) /\ Failing(r, T) = Failing(r, R) \cup {x} /\ Succeeding(r, T) = Succeeding(r, R)
    BY <1>4 DEF Valued, Failing, Succeeding
  <2>2. Cardinality(Failing(r, T)) = Cardinality(Failing(r, R)) + 1
    BY <1>2, <1>3, <2>1, FS_AddElement
  <2>3. /\ g.errors.count = f.errors.count + 1 /\ g.average = f.average /\ g.rate = f.rate
        /\ g.extremes = f.extremes
    BY <1>4 DEF MergeResult, MergeCounter, MergeAverage, MergeRate, MergeMinMax, Counter
  <2> HIDE DEF g, v, sum, n, k
  <2>4. Shows(g, r, T, well)
    BY <1>0, <1>1, <2>1, <2>2, <2>3 DEF Shows, v, sum, n, k
  <2> QED
    BY <2>4 DEF g
<1>5. CASE r[x] # {}
  <2> DEFINE more == IF r[x] \subseteq Successes THEN 1 ELSE 0
  <2>1. /\ Valued(r, T) = Valued(r, R) \cup {x} /\ Failing(r, T) = Failing(r, R)
        /\ Succeeding(r, T) = Succeeding(r, R) \cup (IF r[x] \subseteq Successes THEN {x} ELSE {})
    BY <1>5 DEF Valued, Failing, Succeeding
  <2>2. v[x] = Measured(r[x]) /\ v[x] \in Int
    BY <1>0, <1>5, ReadingHolds DEF Values
  <2> HIDE DEF v
  <2>3. SumFunctionOnSet(v, Valued(r, T)) = sum + v[x]
    <3>1. \A y \in Valued(r, R) \cup {x} : v[y] \in Int
      BY <1>2, <2>2
    <3>2. SumFunctionOnSet(v, Valued(r, R) \cup {x}) = SumFunctionOnSet(v, Valued(r, R)) + v[x]
      BY <1>2, <1>3, <3>1, SumAdds
    <3> QED
      BY <2>1, <3>2
  <2>4. Cardinality(Valued(r, T)) = n + 1
    BY <1>2, <1>3, <2>1, FS_AddElement
  <2>5. Cardinality(Succeeding(r, T)) = k + more
    <3>1. CASE r[x] \subseteq Successes
      <4>1. Succeeding(r, T) = Succeeding(r, R) \cup {x}
        BY <2>1, <3>1
      <4>2. Cardinality(Succeeding(r, R) \cup {x}) = Cardinality(Succeeding(r, R)) + 1
        BY <1>2, <1>3, FS_AddElement
      <4> QED
        BY <3>1, <4>1, <4>2
    <3>2. CASE ~(r[x] \subseteq Successes)
      <4>1. Succeeding(r, T) = Succeeding(r, R)
        BY <2>1, <3>2
      <4> QED
        BY <1>2, <3>2, <4>1
    <3> QED
      BY <3>1, <3>2
  <2>6. g.errors.count = f.errors.count
    <3>1. g.errors.count = f.errors.count + 0
      BY <1>5 DEF MergeResult, MergeCounter, Counter
    <3> QED
      BY <1>1, <1>2, <3>1
  <2>7. g.average = Average(sum + v[x], n + 1)
    <3>1. f.average.sum = sum /\ f.average.count = n
      BY <1>1, <1>2, AverageFields
    <3>2. g.average = Average(f.average.sum + Measured(r[x]), f.average.count + 1)
      BY <1>5 DEF MergeResult, MergeAverage
    <3> QED
      BY <2>2, <3>1, <3>2
  <2>8. g.rate = Rate(k + more, n + 1)
    <3>1. f.rate.success = k /\ f.rate.total = n
      BY <1>1, <1>2, RateFields
    <3>2. g.rate = Rate(f.rate.success + more, f.rate.total + 1)
      BY <1>5 DEF MergeResult, MergeRate
    <3> QED
      BY <3>1, <3>2
  <2>9. well => Spans(g.extremes, v, Valued(r, T))
    <3> SUFFICES ASSUME well PROVE Spans(g.extremes, v, Valued(r, T))
      OBVIOUS
    <3>1. g.extremes = Extremes(Lower(f.extremes.min, v[x]), Higher(f.extremes.max, v[x]))
      BY <1>5, <2>2 DEF MergeResult, MergeMinMax
    <3>2. g.extremes.min = Lower(f.extremes.min, v[x]) /\ g.extremes.max = Higher(f.extremes.max, v[x])
      BY <3>1 DEF Extremes
    <3>3. Spans(f.extremes, v, Valued(r, R))
      BY <1>1
    <3>4. f.extremes.min \in Int /\ f.extremes.max \in Int
      BY <1>2, <3>3 DEF Spans
    <3> HIDE DEF g
    <3> QED
      BY <1>2, <2>1, <2>2, <3>2, <3>3, <3>4 DEF Spans, Lower, Higher
  <2> HIDE DEF g, sum, n, k, more
  <2>10. Shows(g, r, T, well)
    BY <1>0, <1>1, <2>1, <2>3, <2>4, <2>5, <2>6, <2>7, <2>8, <2>9 DEF Shows, v
  <2> QED
    BY <2>10 DEF g
<1> QED
  BY <1>4, <1>5

LEMMA Disjoint ==
  ASSUME NEW S, NEW T, IsFiniteSet(S), IsFiniteSet(T), S \cap T = {}
  PROVE  Cardinality(S \cup T) = Cardinality(S) + Cardinality(T)
<1>1. Cardinality(S \cup T) = Cardinality(S) + Cardinality(T) - Cardinality(S \cap T) /\ Cardinality({}) = 0
  BY FS_Union, FS_EmptySet
<1>2. Cardinality(S) \in Nat /\ Cardinality(T) \in Nat
  BY FS_CardinalityType
<1>3. Cardinality(S \cap T) = 0
  BY <1>1
<1> QED
  BY <1>1, <1>2, <1>3

\* Two rows with different runs.
LEMMA BothShow ==
  ASSUME NEW r, IsReadings(r), NEW R, R \subseteq DOMAIN r, IsFiniteSet(R),
         NEW T, T \subseteq DOMAIN r, IsFiniteSet(T), R \cap T = {}, NEW U, U = R \cup T,
         NEW f, NEW g, NEW wellF, NEW wellG, Shows(f, r, R, wellF), Shows(g, r, T, wellG)
  PROVE  Shows(MergeAggregatedStates(f, g), r, U, wellF /\ wellG)
<1> DEFINE b == MergeAggregatedStates(f, g)
           v == Values(r)
           s == SumFunctionOnSet(v, Valued(r, R))
           n == Cardinality(Valued(r, R))
           k == Cardinality(Succeeding(r, R))
           s2 == SumFunctionOnSet(v, Valued(r, T))
           n2 == Cardinality(Valued(r, T))
           k2 == Cardinality(Succeeding(r, T))
<1>1. /\ f \in Figures /\ f.errors.count = Cardinality(Failing(r, R))
      /\ f.average = Average(s, n) /\ f.rate = Rate(k, n) /\ (wellF => Spans(f.extremes, v, Valued(r, R)))
  BY DEF Shows
<1>2. /\ g \in Figures /\ g.errors.count = Cardinality(Failing(r, T))
      /\ g.average = Average(s2, n2) /\ g.rate = Rate(k2, n2) /\ (wellG => Spans(g.extremes, v, Valued(r, T)))
  BY DEF Shows
<1>3. /\ \A e \in Valued(r, R) : v[e] \in Int
      /\ IsFiniteSet(Valued(r, R)) /\ IsFiniteSet(Failing(r, R)) /\ IsFiniteSet(Succeeding(r, R))
      /\ n \in Nat /\ k \in Nat /\ s \in Int
  BY ValuesAreNumbers
<1>4. /\ \A e \in Valued(r, T) : v[e] \in Int
      /\ IsFiniteSet(Valued(r, T)) /\ IsFiniteSet(Failing(r, T)) /\ IsFiniteSet(Succeeding(r, T))
      /\ n2 \in Nat /\ k2 \in Nat /\ s2 \in Int
  BY ValuesAreNumbers
<1>5. /\ Valued(r, U) = Valued(r, R) \cup Valued(r, T) /\ Valued(r, R) \cap Valued(r, T) = {}
      /\ Failing(r, U) = Failing(r, R) \cup Failing(r, T) /\ Failing(r, R) \cap Failing(r, T) = {}
      /\ Succeeding(r, U) = Succeeding(r, R) \cup Succeeding(r, T) /\ Succeeding(r, R) \cap Succeeding(r, T) = {}
  BY DEF Valued, Failing, Succeeding
<1>6. b.errors.count = Cardinality(Failing(r, U))
  <2>1. b.errors.count = f.errors.count + g.errors.count
    BY DEF MergeAggregatedStates, MergeCounterStates, Counter
  <2>2. Cardinality(Failing(r, R) \cup Failing(r, T)) = Cardinality(Failing(r, R)) + Cardinality(Failing(r, T))
    BY <1>3, <1>4, <1>5, Disjoint
  <2> HIDE DEF b
  <2> QED
    BY <1>1, <1>2, <1>5, <2>1, <2>2
<1>7. Cardinality(Valued(r, U)) = n + n2
  BY <1>3, <1>4, <1>5, Disjoint
<1>8. Cardinality(Succeeding(r, U)) = k + k2
  BY <1>3, <1>4, <1>5, Disjoint
<1>9. SumFunctionOnSet(v, Valued(r, U)) = s + s2
  <2>1. \A e \in Valued(r, R) \cup Valued(r, T) : v[e] \in Int
    BY <1>3, <1>4
  <2> HIDE DEF v
  <2>2. SumFunctionOnSet(v, Valued(r, R) \cup Valued(r, T))
          = SumFunctionOnSet(v, Valued(r, R)) + SumFunctionOnSet(v, Valued(r, T))
    BY <1>3, <1>4, <1>5, <2>1, SumOfBoth
  <2> QED
    BY <1>5, <2>2
<1>10. b.average = Average(s + s2, n + n2)
  <2>1. f.average.sum = s /\ f.average.count = n /\ g.average.sum = s2 /\ g.average.count = n2
    BY <1>1, <1>2, <1>3, <1>4, AverageFields
  <2>2. b.average = Average(f.average.sum + g.average.sum, f.average.count + g.average.count)
    BY DEF MergeAggregatedStates, MergeAverageStates
  <2> QED
    BY <2>1, <2>2
<1>11. b.rate = Rate(k + k2, n + n2)
  <2>1. f.rate.success = k /\ f.rate.total = n /\ g.rate.success = k2 /\ g.rate.total = n2
    BY <1>1, <1>2, <1>3, <1>4, RateFields
  <2>2. b.rate = Rate(f.rate.success + g.rate.success, f.rate.total + g.rate.total)
    BY DEF MergeAggregatedStates, MergeRateStates
  <2> QED
    BY <2>1, <2>2
<1>12. wellF /\ wellG => Spans(b.extremes, v, Valued(r, U))
  <2> SUFFICES ASSUME wellF, wellG PROVE Spans(b.extremes, v, Valued(r, U))
    OBVIOUS
  <2>1. b.extremes.min = Lower(f.extremes.min, g.extremes.min) /\ b.extremes.max = Higher(f.extremes.max, g.extremes.max)
    BY DEF MergeAggregatedStates, MergeMinMaxStates, Extremes
  <2>2. Spans(f.extremes, v, Valued(r, R)) /\ Spans(g.extremes, v, Valued(r, T))
    BY <1>1, <1>2
  <2> HIDE DEF b, v
  <2>3. /\ f.extremes.min \in Int /\ f.extremes.max \in Int
        /\ g.extremes.min \in Int /\ g.extremes.max \in Int
    BY <1>3, <1>4, <2>2 DEF Spans
  <2>4. /\ b.extremes.min \in {f.extremes.min, g.extremes.min}
        /\ b.extremes.min <= f.extremes.min /\ b.extremes.min <= g.extremes.min
    BY <2>1, <2>3 DEF Lower
  <2>5. /\ b.extremes.max \in {f.extremes.max, g.extremes.max}
        /\ f.extremes.max <= b.extremes.max /\ g.extremes.max <= b.extremes.max
    BY <2>1, <2>3 DEF Higher
  <2>6. (\E e \in Valued(r, U) : b.extremes.min = v[e]) /\ (\E e \in Valued(r, U) : b.extremes.max = v[e])
    <3>1. /\ \E e \in Valued(r, U) : f.extremes.min = v[e]
          /\ \E e \in Valued(r, U) : g.extremes.min = v[e]
          /\ \E e \in Valued(r, U) : f.extremes.max = v[e]
          /\ \E e \in Valued(r, U) : g.extremes.max = v[e]
      BY <1>5, <2>2 DEF Spans
    <3> QED
      BY <2>4, <2>5, <3>1
  <2>7. ASSUME NEW e \in Valued(r, U)
        PROVE  b.extremes.min <= v[e] /\ v[e] <= b.extremes.max
    <3>1. CASE e \in Valued(r, R)
      <4>1. v[e] \in Int /\ f.extremes.min <= v[e] /\ v[e] <= f.extremes.max
        BY <1>3, <2>2, <3>1 DEF Spans
      <4> QED
        BY <2>3, <2>4, <2>5, <4>1
    <3>2. CASE e \in Valued(r, T)
      <4>1. v[e] \in Int /\ g.extremes.min <= v[e] /\ v[e] <= g.extremes.max
        BY <1>4, <2>2, <3>2 DEF Spans
      <4> QED
        BY <2>3, <2>4, <2>5, <4>1
    <3> QED
      BY <1>5, <3>1, <3>2
  <2> QED
    BY <2>6, <2>7 DEF Spans
<1>13. b \in Figures
  <2>1. /\ MergeCounterStates(f.errors, g.errors) \in Counters /\ MergeAverageStates(f.average, g.average) \in Averages
        /\ MergeRateStates(f.rate, g.rate) \in Rates /\ MergeMinMaxStates(f.extremes, g.extremes) \in Ranges
    BY <1>1, <1>2, CounterClosed, AverageClosed, RateClosed, RangeClosed DEF Figures
  <2> QED
    BY <2>1 DEF MergeAggregatedStates, Figures
<1> HIDE DEF b, v, s, n, k, s2, n2, k2
<1>14. Shows(b, r, U, wellF /\ wellG)
  BY <1>6, <1>7, <1>8, <1>9, <1>10, <1>11, <1>12, <1>13 DEF Shows, v
<1> QED
  BY <1>14 DEF b

\* A weaker claim.
LEMMA ShowsLess ==
  ASSUME NEW f, NEW r, NEW R, NEW well, NEW better, Shows(f, r, R, well), better => well
  PROVE  Shows(f, r, R, better)
BY DEF Shows

-----------------------------------------------------------------------------
(* Rows of all collectors, of stored runs *)

ReadingsOf(c) == [e \in TakenPart(c, DOMAIN stored) |-> stored[e].data[c]]

StoredTypes == stored \in Seq([hour : ChartHours, data : RunData])

\* A row has just the collectors that took part in these runs, each with figures that
\* count just these; their extremes only outside a set of collectors.
RowShows(a, these, bad) ==
  /\ a \in FigureRows
  /\ \A c \in Collectors : c \in DOMAIN a <=> TakenPart(c, these) # {}
  /\ \A c \in DOMAIN a : Shows(a[c], ReadingsOf(c), TakenPart(c, these), c \notin bad)

LEMMA StoredRuns ==
  ASSUME StoredTypes
  PROVE  /\ Len(stored) \in Nat /\ DOMAIN stored = 1..Len(stored) /\ IsFiniteSet(DOMAIN stored)
         /\ \A e \in DOMAIN stored : stored[e].hour \in ChartHours /\ stored[e].data \in RunData
<1> DEFINE Runs == [hour : ChartHours, data : RunData]
<1>1. stored \in Seq(Runs)
  BY DEF StoredTypes
<1>2. \A e \in Runs : e.hour \in ChartHours /\ e.data \in RunData
  OBVIOUS
<1> HIDE DEF Runs
<1>3. Len(stored) \in Nat /\ DOMAIN stored = 1..Len(stored) /\ \A e \in 1..Len(stored) : stored[e] \in Runs
  BY <1>1, ElementOfSeq
<1> QED
  BY <1>2, <1>3, FS_Interval

LEMMA ReadingsFacts ==
  ASSUME StoredTypes, NEW c, NEW these, these \subseteq DOMAIN stored, IsFiniteSet(these)
  PROVE  /\ IsReadings(ReadingsOf(c))
         /\ TakenPart(c, these) \subseteq DOMAIN ReadingsOf(c) /\ IsFiniteSet(TakenPart(c, these))
         /\ \A e \in TakenPart(c, these) : ReadingsOf(c)[e] = stored[e].data[c]
<1>1. \A e \in DOMAIN stored : stored[e].data \in RunData
  BY StoredRuns
<1>2. \A e \in TakenPart(c, DOMAIN stored) : stored[e].data[c] \in Readings
  <2> SUFFICES ASSUME NEW e \in TakenPart(c, DOMAIN stored) PROVE stored[e].data[c] \in Readings
    OBVIOUS
  <2>1. stored[e].data \in RunData /\ c \in DOMAIN stored[e].data
    BY <1>1 DEF TakenPart
  <2> QED
    BY <2>1, DataAndRows
<1>3. TakenPart(c, these) \subseteq TakenPart(c, DOMAIN stored) /\ TakenPart(c, these) \subseteq these
  BY DEF TakenPart
<1> QED
  BY <1>2, <1>3, FS_Subset DEF IsReadings, ReadingsOf

LEMMA RowOfNone ==
  ASSUME NEW bad
  PROVE  RowShows(NoData, {}, bad)
<1>1. NoData \in FigureRows /\ DOMAIN NoData = {}
  BY DataAndRows DEF NoData
<1> QED
  BY <1>1 DEF RowShows, TakenPart

LEMMA RowOfRun ==
  ASSUME StoredTypes, NEW R, R \subseteq DOMAIN stored, IsFiniteSet(R),
         NEW e \in DOMAIN stored, e \notin R, NEW T, T = R \cup {e},
         NEW a, NEW bad, NEW worse, RowShows(a, R, bad), bad \subseteq worse,
         \A c \in DOMAIN stored[e].data :
           TakenPart(c, R) = {} /\ stored[e].data[c] = {} => c \in worse
  PROVE  RowShows(MergeCollectorResults(a, stored[e].data), T, worse)
<1> DEFINE data == stored[e].data
           b == MergeCollectorResults(a, data)
<1>1. data \in RunData /\ a \in FigureRows
  BY StoredRuns DEF RowShows
<1>2. b \in FigureRows
  BY <1>1, MergingClosed
<1>3. DOMAIN b = DOMAIN a \cup DOMAIN data /\ DOMAIN a \subseteq Collectors /\ DOMAIN data \subseteq Collectors
  BY <1>1, DataAndRows DEF MergeCollectorResults
<1>4. \A c \in Collectors : TakenPart(c, T) = TakenPart(c, R) \cup (IF c \in DOMAIN data THEN {e} ELSE {})
  BY DEF TakenPart
<1>5. \A c \in Collectors : c \in DOMAIN b <=> TakenPart(c, T) # {}
  <2>1. \A c \in Collectors : c \in DOMAIN a <=> TakenPart(c, R) # {}
    BY DEF RowShows
  <2> HIDE DEF b, data
  <2> QED
    BY <1>3, <1>4, <2>1
<1>6. ASSUME NEW c \in DOMAIN b
      PROVE  Shows(b[c], ReadingsOf(c), TakenPart(c, T), c \notin worse)
  <2>0. c \in Collectors
    BY <1>3
  <2>1. /\ IsReadings(ReadingsOf(c)) /\ TakenPart(c, R) \subseteq DOMAIN ReadingsOf(c) /\ IsFiniteSet(TakenPart(c, R))
    BY ReadingsFacts
  <2>2. c \in DOMAIN a => Shows(a[c], ReadingsOf(c), TakenPart(c, R), c \notin worse)
    <3>1. c \in DOMAIN a => Shows(a[c], ReadingsOf(c), TakenPart(c, R), c \notin bad)
      BY DEF RowShows
    <3>2. c \notin worse => c \notin bad
      OBVIOUS
    <3> QED
      BY <3>1, <3>2, ShowsLess
  <2>3. c \notin DOMAIN a => TakenPart(c, R) = {}
    BY <2>0 DEF RowShows
  <2>4. c \in DOMAIN data => e \in DOMAIN ReadingsOf(c) /\ ReadingsOf(c)[e] = data[c] /\ e \notin TakenPart(c, R)
    BY DEF ReadingsOf, TakenPart
  <2>5. CASE c \notin DOMAIN data
    <3>1. b[c] = a[c] /\ c \in DOMAIN a
      BY <1>3, <2>5 DEF MergeCollectorResults
    <3>2. TakenPart(c, T) = TakenPart(c, R)
      BY <1>4, <2>0, <2>5
    <3> QED
      BY <2>2, <3>1, <3>2
  <2>6. CASE c \in DOMAIN data /\ c \notin DOMAIN a
    <3>1. b[c] = FirstResult(data[c])
      BY <1>3, <2>6 DEF MergeCollectorResults
    <3>2. TakenPart(c, T) = {e}
      BY <1>4, <2>0, <2>3, <2>6
    <3>3. Shows(FirstResult(ReadingsOf(c)[e]), ReadingsOf(c), TakenPart(c, T), ReadingsOf(c)[e] # {})
      BY <2>1, <2>4, <2>6, <3>2, FirstShows
    <3>4. c \notin worse => ReadingsOf(c)[e] # {}
      BY <2>3, <2>4, <2>6
    <3>5. Shows(FirstResult(ReadingsOf(c)[e]), ReadingsOf(c), TakenPart(c, T), c \notin worse)
      BY <3>3, <3>4, ShowsLess
    <3> QED
      BY <2>4, <2>6, <3>1, <3>5
  <2>7. CASE c \in DOMAIN data /\ c \in DOMAIN a
    <3>1. b[c] = MergeResult(a[c], data[c])
      BY <1>3, <2>7 DEF MergeCollectorResults
    <3>2. TakenPart(c, T) = TakenPart(c, R) \cup {e}
      BY <1>4, <2>0, <2>7
    <3>3. Shows(MergeResult(a[c], ReadingsOf(c)[e]), ReadingsOf(c), TakenPart(c, T), c \notin worse)
      BY <2>1, <2>2, <2>4, <2>7, <3>2, RunShows
    <3> QED
      BY <2>4, <2>7, <3>1, <3>3
  <2> QED
    BY <2>5, <2>6, <2>7
<1> HIDE DEF b
<1>7. RowShows(b, T, worse)
  BY <1>2, <1>5, <1>6 DEF RowShows
<1> QED
  BY <1>7 DEF b

LEMMA RowOfRows ==
  ASSUME StoredTypes, NEW R, R \subseteq DOMAIN stored, IsFiniteSet(R),
         NEW T, T \subseteq DOMAIN stored, IsFiniteSet(T), R \cap T = {}, NEW U, U = R \cup T,
         NEW a, NEW b, NEW badA, NEW badB, RowShows(a, R, badA), RowShows(b, T, badB),
         NEW worse, badA \subseteq worse, badB \subseteq worse
  PROVE  RowShows(MergeRows(a, b), U, worse)
<1> DEFINE m == MergeRows(a, b)
<1>1. a \in FigureRows /\ b \in FigureRows
  BY DEF RowShows
<1>2. DOMAIN m = DOMAIN a \cup DOMAIN b /\ DOMAIN a \subseteq Collectors /\ DOMAIN b \subseteq Collectors
  BY <1>1, DataAndRows DEF MergeRows
<1>3. \A c \in Collectors : TakenPart(c, U) = TakenPart(c, R) \cup TakenPart(c, T) /\ TakenPart(c, R) \cap TakenPart(c, T) = {}
  BY DEF TakenPart
<1>4. /\ \A c \in Collectors : c \in DOMAIN a <=> TakenPart(c, R) # {}
      /\ \A c \in Collectors : c \in DOMAIN b <=> TakenPart(c, T) # {}
  BY DEF RowShows
<1>5. \A c \in Collectors : c \in DOMAIN m <=> TakenPart(c, U) # {}
  <2> HIDE DEF m
  <2> QED
    BY <1>2, <1>3, <1>4
<1>6. ASSUME NEW c \in DOMAIN m
      PROVE  Shows(m[c], ReadingsOf(c), TakenPart(c, U), c \notin worse)
  <2>0. c \in Collectors
    BY <1>2
  <2>1. /\ IsReadings(ReadingsOf(c))
        /\ TakenPart(c, R) \subseteq DOMAIN ReadingsOf(c) /\ IsFiniteSet(TakenPart(c, R))
        /\ TakenPart(c, T) \subseteq DOMAIN ReadingsOf(c) /\ IsFiniteSet(TakenPart(c, T))
    BY ReadingsFacts
  <2>2. c \in DOMAIN a => Shows(a[c], ReadingsOf(c), TakenPart(c, R), c \notin badA)
    BY DEF RowShows
  <2>3. c \in DOMAIN b => Shows(b[c], ReadingsOf(c), TakenPart(c, T), c \notin badB)
    BY DEF RowShows
  <2>4. c \notin worse => c \notin badA /\ c \notin badB
    OBVIOUS
  <2>5. CASE c \notin DOMAIN b
    <3>1. m[c] = a[c] /\ c \in DOMAIN a
      BY <1>2, <2>5 DEF MergeRows
    <3>2. TakenPart(c, U) = TakenPart(c, R)
      BY <1>3, <1>4, <2>0, <2>5
    <3> QED
      BY <2>2, <2>4, <3>1, <3>2, ShowsLess
  <2>6. CASE c \in DOMAIN b /\ c \notin DOMAIN a
    <3>1. m[c] = b[c]
      BY <1>2, <2>6 DEF MergeRows
    <3>2. TakenPart(c, U) = TakenPart(c, T)
      BY <1>3, <1>4, <2>0, <2>6
    <3> QED
      BY <2>3, <2>4, <2>6, <3>1, <3>2, ShowsLess
  <2>7. CASE c \in DOMAIN b /\ c \in DOMAIN a
    <3>1. m[c] = MergeAggregatedStates(a[c], b[c])
      BY <1>2, <2>7 DEF MergeRows
    <3>2. Shows(MergeAggregatedStates(a[c], b[c]), ReadingsOf(c), TakenPart(c, U), c \notin badA /\ c \notin badB)
      BY <1>3, <2>0, <2>1, <2>2, <2>3, <2>7, BothShow
    <3> QED
      BY <2>4, <3>1, <3>2, ShowsLess
  <2> QED
    BY <2>5, <2>6, <2>7
<1>7. m \in FigureRows
  <2>1. \A c \in DOMAIN m : m[c] \in Figures
    BY <1>6 DEF Shows
  <2>2. m = [c \in DOMAIN m |-> m[c]]
    BY DEF MergeRows
  <2>3. DOMAIN m \in SUBSET Collectors
    BY <1>2
  <2> HIDE DEF m
  <2>4. m \in [DOMAIN m -> Figures]
    BY <2>1, <2>2
  <2> QED
    BY <2>3, <2>4 DEF FigureRows
<1> HIDE DEF m
<1>8. RowShows(m, U, worse)
  BY <1>5, <1>6, <1>7 DEF RowShows
<1> QED
  BY <1>8 DEF m

\* The first n runs in some order, and the collectors whose first reading in them is a failure.
UpTo(order, n) == {order[i] : i \in 1..n}
BadIn(order, n) ==
  {c \in Collectors : \E i \in 1..n :
     /\ order[i] \in TakenPart(c, DOMAIN stored) \ MeasuredIn(c, DOMAIN stored)
     /\ \A j \in 1..(i - 1) : order[j] \notin TakenPart(c, DOMAIN stored)}

EachOnce(order) == \A i, j \in DOMAIN order : order[i] = order[j] => i = j

\* Runs merged one after the other, whatever the order (aggregateCollectorData, and the
\* row of an hour).
LEMMA MergedInOrder ==
  ASSUME StoredTypes, NEW order \in Seq(DOMAIN stored), EachOnce(order)
  PROVE  RowShows(AggregateCollectorData(DataOf(order)), UpTo(order, Len(order)), BadIn(order, Len(order)))
<1> DEFINE N == Len(order)
           s == DataOf(order)
           Fine(n) == RowShows(Folded("runs", s, 1..n), UpTo(order, n), BadIn(order, n))
           Bad == {n \in 0..N : ~Fine(n)}
<1>1. N \in Nat /\ DOMAIN order = 1..N /\ \A i \in 1..N : order[i] \in DOMAIN stored
  BY ElementOfSeq
<1>2. DOMAIN s = 1..N /\ \A i \in 1..N : s[i] = stored[order[i]].data
  BY <1>1 DEF DataOf
<1>3. IsFiniteSet(DOMAIN stored)
  BY StoredRuns
<1> HIDE DEF N, s
<1>4. Bad = {}
  <2> SUFFICES ASSUME Bad # {} PROVE FALSE
    OBVIOUS
  <2>0. Bad \in SUBSET Nat
    BY <1>1
  <2>1. PICK n \in Bad : \A m \in Bad : n <= m
    BY <2>0, LeastNumber
  <2>2. n \in 0..N /\ n \in Nat /\ ~Fine(n)
    BY <1>1
  <2>3. CASE n = 0
    <3>1. Folded("runs", s, 1..n) = NoData
      BY <2>2, <2>3, FoldOfFirst
    <3>2. UpTo(order, n) = {}
      BY <2>3 DEF UpTo
    <3> QED
      BY <2>2, <3>1, <3>2, RowOfNone
  <2>4. CASE n # 0
    <3> DEFINE e == order[n]
               R == UpTo(order, n - 1)
               T == UpTo(order, n)
    <3>1. n \in 1..N /\ n - 1 \in 0..N /\ n - 1 \in Nat /\ ~(n <= n - 1)
      BY <1>1, <2>2, <2>4
    <3>2. Fine(n - 1)
      BY <2>1, <3>1
    <3>3. Folded("runs", s, 1..n) = MergeCollectorResults(Folded("runs", s, 1..(n - 1)), stored[e].data)
      <4>1. Folded("runs", s, 1..n) = Combined("runs", s[n], Folded("runs", s, 1..(n - 1)))
        BY <2>2, <2>4, FoldOfFirst
      <4> QED
        BY <1>2, <3>1, <4>1 DEF Combined
    <3>4. e \in DOMAIN stored /\ e \notin R /\ T = R \cup {e} /\ R \subseteq DOMAIN stored
      <4>1. \A i \in 1..(n - 1) : i \in 1..N /\ i # n
        BY <1>1, <3>1
      <4>2. 1..n = (1..(n - 1)) \cup {n}
        BY <3>1
      <4>3. \A i \in 1..(n - 1) : order[i] # order[n]
        BY <1>1, <3>1, <4>1 DEF EachOnce
      <4> QED
        BY <1>1, <3>1, <4>1, <4>2, <4>3 DEF UpTo
    <3>5. IsFiniteSet(R)
      BY <1>3, <3>4, FS_Subset
    <3>6. BadIn(order, n - 1) \subseteq BadIn(order, n)
      <4>1. \A i \in 1..(n - 1) : i \in 1..n
        BY <3>1
      <4> QED
        BY <4>1 DEF BadIn
    <3>7. ASSUME NEW c \in DOMAIN stored[e].data, TakenPart(c, R) = {} /\ stored[e].data[c] = {}
          PROVE  c \in BadIn(order, n)
      <4>1. e \in TakenPart(c, DOMAIN stored) \ MeasuredIn(c, DOMAIN stored)
        BY <3>4, <3>7 DEF TakenPart, MeasuredIn
      <4>2. ASSUME NEW j \in 1..(n - 1)
            PROVE  order[j] \notin TakenPart(c, DOMAIN stored)
        <5>1. order[j] \in R
          BY DEF UpTo
        <5> QED
          BY <3>7, <5>1 DEF TakenPart
      <4>3. c \in Collectors
        BY <3>4, StoredRuns, DataAndRows
      <4>4. n \in 1..n
        BY <3>1
      <4> QED
        BY <4>1, <4>2, <4>3, <4>4 DEF BadIn
    <3> HIDE DEF e, R, T
    <3>8. RowShows(MergeCollectorResults(Folded("runs", s, 1..(n - 1)), stored[e].data), T, BadIn(order, n))
      <4>1. RowShows(Folded("runs", s, 1..(n - 1)), R, BadIn(order, n - 1))
        BY <3>2 DEF R
      <4> QED
        BY <3>4, <3>5, <3>6, <3>7, <4>1, RowOfRun
    <3> QED
      BY <2>2, <3>3, <3>8 DEF T
  <2> QED
    BY <2>3, <2>4
<1>5. Fine(N)
  <2>1. N \in 0..N
    BY <1>1
  <2> QED
    BY <1>4, <2>1
<1>6. AggregateCollectorData(s) = Folded("runs", s, 1..N)
  BY <1>1, <1>2, RunsAreFold
<1> QED
  BY <1>5, <1>6 DEF N, s

\* Rows of successive hours.
BadOf(hours) == UNION {BadIn(merged[h], Len(merged[h])) : h \in hours}

RowsFrom(from, to) == [i \in 1..(to - from + 1) |-> row[from + i - 1]]

LEMMA MergedRows ==
  ASSUME StoredTypes, NEW from \in Nat, NEW to \in Nat, from <= to,
         \A h \in from..to : RowShows(row[h], StoredIn({h}), BadIn(merged[h], Len(merged[h])))
  PROVE  RowShows(MergeAggregatedBucketResults(RowsFrom(from, to)), StoredIn(from..to), BadOf(from..to))
<1> DEFINE N == to - from + 1
           s == RowsFrom(from, to)
           Upper(n) == from + n - 1
           Fine(n) == RowShows(Folded("rows", s, 1..n), StoredIn(from..Upper(n)), BadOf(from..Upper(n)))
           Bad == {n \in 0..N : ~Fine(n)}
<1>1. N \in Nat /\ Upper(N) = to /\ Upper(0) = from - 1
  OBVIOUS
<1>2. DOMAIN s = 1..N /\ \A i \in 1..N : s[i] = row[Upper(i)] /\ Upper(i) \in from..to
  BY DEF RowsFrom
<1>3. IsFiniteSet(DOMAIN stored)
  BY StoredRuns
<1>4. Bad = {}
  <2> SUFFICES ASSUME Bad # {} PROVE FALSE
    OBVIOUS
  <2>0. Bad \in SUBSET Nat
    BY <1>1
  <2>1. PICK n \in Bad : \A m \in Bad : n <= m
    BY <2>0, LeastNumber
  <2>2. n \in 0..N /\ n \in Nat /\ ~Fine(n)
    BY <1>1
  <2>3. CASE n = 0
    <3>1. Folded("rows", s, 1..n) = NoData
      BY <2>2, <2>3, FoldOfFirst
    <3>2. from..Upper(n) = {}
      BY <2>3
    <3>3. StoredIn(from..Upper(n)) = {}
      BY <3>2 DEF StoredIn
    <3> QED
      BY <2>2, <3>1, <3>3, RowOfNone
  <2>4. CASE n # 0
    <3> DEFINE h == Upper(n)
               R == StoredIn(from..Upper(n - 1))
               T == StoredIn({h})
               U == StoredIn(from..h)
    <3>1. n \in 1..N /\ n - 1 \in 0..N /\ n - 1 \in Nat /\ ~(n <= n - 1)
      BY <1>1, <2>2, <2>4
    <3>2. Fine(n - 1)
      BY <2>1, <3>1
    <3>3. Folded("rows", s, 1..n) = MergeRows(Folded("rows", s, 1..(n - 1)), row[h])
      <4>1. Folded("rows", s, 1..n) = Combined("rows", s[n], Folded("rows", s, 1..(n - 1)))
        BY <2>2, <2>4, FoldOfFirst
      <4> QED
        BY <1>2, <3>1, <4>1 DEF Combined
    <3>4. h \in from..to /\ from..h = (from..Upper(n - 1)) \cup {h} /\ h \notin from..Upper(n - 1)
      <4>1. h \in from..to /\ h \in Nat /\ from <= h /\ Upper(n - 1) = h - 1
        BY <1>2, <3>1
      <4> HIDE DEF h, Upper
      <4>2. from..h = (from..(h - 1)) \cup {h} /\ h \notin from..(h - 1)
        BY <4>1
      <4> QED
        BY <4>1, <4>2
    <3> HIDE DEF h, Upper
    <3>5. /\ U = R \cup T /\ R \cap T = {} /\ R \subseteq DOMAIN stored /\ T \subseteq DOMAIN stored
      BY <3>4 DEF StoredIn
    <3>6. IsFiniteSet(R) /\ IsFiniteSet(T)
      BY <1>3, <3>5, FS_Subset
    <3>7. BadOf(from..Upper(n - 1)) \subseteq BadOf(from..h) /\ BadIn(merged[h], Len(merged[h])) \subseteq BadOf(from..h)
      BY <3>4 DEF BadOf
    <3>8. RowShows(row[h], T, BadIn(merged[h], Len(merged[h])))
      BY <3>4
    <3>9. RowShows(Folded("rows", s, 1..(n - 1)), R, BadOf(from..Upper(n - 1)))
      BY <3>2
    <3> HIDE DEF R, T, U
    <3>10. RowShows(MergeRows(Folded("rows", s, 1..(n - 1)), row[h]), U, BadOf(from..h))
      BY <3>5, <3>6, <3>7, <3>8, <3>9, RowOfRows
    <3> QED
      BY <2>2, <3>3, <3>10 DEF U, h
  <2> QED
    BY <2>3, <2>4
<1>5. Fine(N)
  <2>1. N \in 0..N
    BY <1>1
  <2> QED
    BY <1>4, <2>1
<1>6. MergeAggregatedBucketResults(s) = Folded("rows", s, 1..N)
  BY <1>1, <1>2, RowsAreFold
<1> HIDE DEF s, N
<1> QED
  BY <1>1, <1>5, <1>6 DEF s

\* Rounding is off by at most a half.
LEMMA RoundedNear ==
  ASSUME NEW k \in Int, NEW n \in Nat \ {0}
  PROVE  /\ Rounded(k, n) \in Int
         /\ 2 * Rounded(k, n) * n - 2 * k \in (1 - n)..n
<1> DEFINE q == Rounded(k, n)
           a == 2 * k + n
           d == 2 * n
<1>1. a \in Int /\ d \in Nat \ {0} /\ q = a \div d
  BY DEF Rounded
<1> HIDE DEF q, a, d
<1>2. q \in Int /\ d * q <= a /\ a < d * q + d
  BY <1>1
<1>3. d * q = 2 * q * n
  BY <1>2 DEF d
<1> DEFINE z == 2 * q * n
<1>4. z \in Int /\ z <= 2 * k + n /\ 2 * k + n < z + 2 * n
  BY <1>2, <1>3 DEF a, d
<1> HIDE DEF z
<1>6. z - 2 * k \in (1 - n)..n
  BY <1>4
<1> QED
  BY <1>2, <1>6 DEF z, q

LEMMA ReadingIs ==
  ASSUME NEW reading \in Readings, reading # {}
  PROVE  reading = {Measured(reading)}
<1>1. PICK m \in Measures : reading = {m}
  BY DEF Readings
<1>2. Measured(reading) \in reading
  BY <1>1 DEF Measured
<1> QED
  BY <1>1, <1>2

\* What a figure must show is what it counts.
LEMMA ShowsTrue ==
  ASSUME StoredTypes, NEW c, NEW these, these \subseteq DOMAIN stored, NEW orders, NEW f, NEW well,
         Shows(f, ReadingsOf(c), TakenPart(c, these), well),
         (\A order \in orders : ~StartsFailed(c, order)) => well
  PROVE  TrueTo(f, c, these, orders)
<1> DEFINE r == ReadingsOf(c)
           R == TakenPart(c, these)
           m == MeasuresOf(c, these)
           M == MeasuredIn(c, these)
           n == Cardinality(M)
           sum == SumFunctionOnSet(Values(r), Valued(r, R))
           good == {e \in DOMAIN m : m[e] \in Successes}
           k == Cardinality(good)
<1>0. IsFiniteSet(these)
  BY StoredRuns, FS_Subset
<1>1. /\ IsReadings(r) /\ R \subseteq DOMAIN r /\ IsFiniteSet(R)
      /\ \A e \in R : r[e] = stored[e].data[c]
  BY <1>0, ReadingsFacts
<1>2. DOMAIN m = M /\ Valued(r, R) = M /\ Failing(r, R) = R \ M /\ M \subseteq R
  BY <1>1 DEF MeasuresOf, MeasuredIn, Valued, Failing
<1>3. \A e \in M : m[e] = Values(r)[e] /\ m[e] \in Int /\ r[e] = {m[e]}
  <2> SUFFICES ASSUME NEW e \in M PROVE m[e] = Values(r)[e] /\ m[e] \in Int /\ r[e] = {m[e]}
    OBVIOUS
  <2>1. e \in R /\ e \in DOMAIN r /\ r[e] \in Readings /\ r[e] # {} /\ m[e] = Measured(r[e])
    BY <1>1, <1>2 DEF MeasuresOf, MeasuredIn, IsReadings
  <2> HIDE DEF r, m
  <2> QED
    BY <2>1, ReadingHolds, ReadingIs DEF Values
<1>4. Succeeding(r, R) = good
  BY <1>2, <1>3 DEF Succeeding, Valued
<1>5. IsFiniteSet(M) /\ n \in Nat /\ sum \in Int /\ k \in Nat
  <2> HIDE DEF r, R
  <2>1. /\ IsFiniteSet(Valued(r, R)) /\ Cardinality(Valued(r, R)) \in Nat /\ Cardinality(Succeeding(r, R)) \in Nat
        /\ SumFunctionOnSet(Values(r), Valued(r, R)) \in Int
    BY <1>1, ValuesAreNumbers
  <2> HIDE DEF M, good
  <2> QED
    BY <1>2, <1>4, <2>1
<1>6. SumFunction(m) = sum
  <2>1. SumFunctionOnSet(m, M) = SumFunctionOnSet(Values(r), M)
    BY <1>3, <1>5, SumsSameValues
  <2> QED
    BY <1>2, <2>1 DEF SumFunction
<1>7. /\ f \in Figures /\ f.errors.count = Cardinality(R \ M) /\ f.average = Average(sum, n) /\ f.rate = Rate(k, n)
      /\ well => Spans(f.extremes, Values(r), M)
  BY <1>2, <1>4 DEF Shows
<1> HIDE DEF r, R, m, M, n, sum, k, good
<1>8. n = 0 => f.average.avg = 0 /\ f.rate.rate = 0
  BY <1>7 DEF Average, Rate
<1>9. ASSUME n > 0
      PROVE  /\ 2 * f.average.avg * n - 20 * sum \in (1 - n)..n
             /\ 2 * f.rate.rate * n - 200 * k \in (1 - n)..n
  <2>1. f.average.avg = Rounded(10 * sum, n) /\ f.rate.rate = Rounded(100 * k, n)
    BY <1>7, <1>9 DEF Average, Rate
  <2>2. 10 * sum \in Int /\ 100 * k \in Int /\ n \in Nat \ {0} /\ 2 * (10 * sum) = 20 * sum /\ 2 * (100 * k) = 200 * k
    BY <1>5, <1>9
  <2> QED
    BY <2>1, <2>2, RoundedNear
<1>10. ASSUME n > 0, \A order \in orders : ~StartsFailed(c, order)
       PROVE  f.extremes = Extremes(Min(Range(m)), Max(Range(m)))
  <2> DEFINE x == f.extremes
  <2>1. Spans(x, Values(r), M) /\ x \in Ranges
    BY <1>7, <1>10 DEF Figures
  <2>2. x.min \in Range(m) /\ x.max \in Range(m) /\ \A y \in Range(m) : y \in Int /\ x.min <= y /\ y <= x.max
    BY <1>2, <1>3, <2>1 DEF Spans, Range
  <2>3. x = Extremes(x.min, x.max)
    BY <2>1 DEF Ranges, Extremes
  <2> HIDE DEF x
  <2>4. Min(Range(m)) = x.min
    <3>1. Min(Range(m)) \in Range(m) /\ \A y \in Range(m) : Min(Range(m)) <= y
      BY <2>2 DEF Min
    <3> QED
      BY <2>2, <3>1
  <2>5. Max(Range(m)) = x.max
    <3>1. Max(Range(m)) \in Range(m) /\ \A y \in Range(m) : Max(Range(m)) >= y
      <4>1. \A y \in Range(m) : x.max >= y
        BY <2>2
      <4> QED
        BY <2>2, <4>1 DEF Max
    <3> QED
      BY <2>2, <3>1
  <2> QED
    BY <2>3, <2>4, <2>5 DEF x
<1> QED
  BY <1>2, <1>6, <1>7, <1>8, <1>9, <1>10 DEF TrueTo, r, R, m, M, n, k, good

-----------------------------------------------------------------------------
(* Executions. Whoever is about to write the row of an hour has read it as it is, as
   long as no execution has written over another's: so the row is that of its runs, in
   the order they were merged in. *)

\* Types; each collector's derived figures follow from its sums in every row.
FiguresTypes ==
  /\ hour \in ChartHours /\ overwritten \subseteq ChartHours
  /\ StoredTypes
  /\ row \in [ChartHours -> FigureRows]
  /\ checkRun \in [CheckRuns -> [pc : {"idle", "read", "upsert", "ended"}, data : RunData, read : FigureRows]]
  /\ merged \in [ChartHours -> Seq(CheckRuns)]

\* Every execution that has ended has been merged into the row of its hour, once.
EndedMerged ==
  /\ Len(stored) <= MaxRuns
  /\ \A e \in CheckRuns : checkRun[e].pc = "idle" <=> Len(stored) < e
  /\ \A e \in CheckRuns : checkRun[e].pc \in {"read", "upsert"} =>
       stored[e].hour = hour /\ stored[e].data = checkRun[e].data
  /\ \A h \in ChartHours : EachOnce(merged[h])
  /\ \A h \in ChartHours : \A i \in 1..Len(merged[h]) :
       checkRun[merged[h][i]].pc = "ended" /\ stored[merged[h][i]].hour = h
  /\ \A e \in CheckRuns : checkRun[e].pc = "ended" =>
       \E i \in 1..Len(merged[stored[e].hour]) : merged[stored[e].hour][i] = e

\* A row that no execution has written over another's is that of its runs in the order
\* they were merged in: whoever is about to write it is alone, and has read it as it is.
RowsInOrder ==
  /\ hour \notin overwritten =>
       \A e, f \in CheckRuns : checkRun[e].pc = "upsert" =>
         checkRun[e].read = row[hour] /\ (checkRun[f].pc = "upsert" => e = f)
  /\ \A h \in ChartHours \ overwritten : row[h] = AggregateCollectorData(DataOf(merged[h]))

FiguresInv == FiguresTypes /\ EndedMerged /\ RowsInOrder

LEMMA FiguresInitially == FiguresInit => FiguresInv
<1> SUFFICES ASSUME FiguresInit
             PROVE  FiguresInv
  OBVIOUS
<1>1. 0 \in ChartHours /\ MaxRuns \in Nat
  BY FiguresAssumption DEF FiguresAssumption, ChartHours
<1>2. NotRunning \in [pc : {"idle", "read", "upsert", "ended"}, data : RunData, read : FigureRows]
  BY DataAndRows DEF NotRunning
<1>3. FiguresTypes
  BY <1>1, <1>2, DataAndRows DEF FiguresInit, FiguresTypes, StoredTypes
<1>4. EndedMerged
  <2>1. \A h \in ChartHours : merged[h] = << >>
    BY DEF FiguresInit
  <2>2. \A e \in CheckRuns : checkRun[e].pc = "idle" /\ 0 < e
    BY DEF FiguresInit, NotRunning, CheckRuns
  <2>3. Len(stored) = 0
    BY DEF FiguresInit
  <2> QED
    BY <1>1, <2>1, <2>2, <2>3 DEF EndedMerged, EachOnce
<1>5. RowsInOrder
  <2>1. AggregateCollectorData(DataOf(<< >>)) = NoData
    <3>1. DOMAIN DataOf(<< >>) = 1..0 /\ 0 \in Nat
      BY DEF DataOf
    <3>2. Folded("runs", DataOf(<< >>), 1..0) = NoData
      BY <3>1, FoldOfFirst
    <3> QED
      BY <3>1, <3>2, RunsAreFold
  <2>2. \A e \in CheckRuns : checkRun[e].pc = "idle"
    BY DEF FiguresInit, NotRunning
  <2> QED
    BY <2>1, <2>2 DEF RowsInOrder, FiguresInit
<1> QED
  BY <1>3, <1>4, <1>5 DEF FiguresInv

LEMMA TypesStep == FiguresTypes /\ [FiguresNext]_figuresVars => FiguresTypes'
<1> SUFFICES ASSUME FiguresTypes, [FiguresNext]_figuresVars
             PROVE  FiguresTypes'
  OBVIOUS
<1> USE DEF FiguresTypes, StoredTypes
<1>1. CASE NextHour
  BY <1>1, FiguresAssumption DEF NextHour, FiguresAssumption, ChartHours
<1>2. ASSUME NEW e \in CheckRuns, StoreResult(e)
      PROVE  FiguresTypes'
  <2>1. PICK data \in RunData :
          /\ stored' = Append(stored, [hour |-> hour, data |-> data])
          /\ checkRun' = [checkRun EXCEPT ![e].pc = "read", ![e].data = data]
    BY <1>2 DEF StoreResult
  <2>2. stored' \in Seq([hour : ChartHours, data : RunData])
    BY <2>1
  <2>3. checkRun' \in [CheckRuns -> [pc : {"idle", "read", "upsert", "ended"}, data : RunData, read : FigureRows]]
    BY <2>1
  <2> QED
    BY <1>2, <2>2, <2>3 DEF StoreResult
<1>3. ASSUME NEW e \in CheckRuns, ReadRow(e)
      PROVE  FiguresTypes'
  BY <1>3 DEF ReadRow
<1>4. ASSUME NEW e \in CheckRuns, UpsertRow(e)
      PROVE  FiguresTypes'
  <2>1. MergeCollectorResults(checkRun[e].read, checkRun[e].data) \in FigureRows
    BY MergingClosed
  <2>2. row' \in [ChartHours -> FigureRows]
    BY <1>4, <2>1 DEF UpsertRow
  <2>3. Ended \in [pc : {"idle", "read", "upsert", "ended"}, data : RunData, read : FigureRows]
    BY DataAndRows DEF Ended, NotRunning
  <2>4. merged' \in [ChartHours -> Seq(CheckRuns)]
    <3>1. Append(merged[hour], e) \in Seq(CheckRuns)
      OBVIOUS
    <3> QED
      BY <1>4, <3>1 DEF UpsertRow
  <2> QED
    BY <1>4, <2>2, <2>3, <2>4 DEF UpsertRow
<1>5. CASE UNCHANGED figuresVars
  BY <1>5 DEF figuresVars
<1> QED
  BY <1>1, <1>2, <1>3, <1>4, <1>5 DEF FiguresNext

\* The executions that are merged have stored their runs.
LEMMA MergedStored ==
  ASSUME FiguresTypes, EndedMerged, NEW h \in ChartHours
  PROVE  /\ merged[h] \in Seq(DOMAIN stored) /\ Len(merged[h]) \in Nat /\ DOMAIN merged[h] = 1..Len(merged[h])
         /\ \A i \in 1..Len(merged[h]) : merged[h][i] \in CheckRuns /\ merged[h][i] \in DOMAIN stored
<1>1. merged[h] \in Seq(CheckRuns)
  BY DEF FiguresTypes
<1>2. Len(merged[h]) \in Nat /\ DOMAIN merged[h] = 1..Len(merged[h]) /\ \A i \in 1..Len(merged[h]) : merged[h][i] \in CheckRuns
  BY <1>1, ElementOfSeq
<1>3. Len(stored) \in Nat /\ DOMAIN stored = 1..Len(stored)
  BY StoredRuns DEF FiguresTypes
<1>4. \A e \in CheckRuns : checkRun[e].pc = "ended" => e \in DOMAIN stored
  <2>1. \A e \in CheckRuns : checkRun[e].pc = "ended" => ~(Len(stored) < e)
    BY DEF EndedMerged
  <2> QED
    BY <1>3, <2>1 DEF CheckRuns
<1>5. \A i \in 1..Len(merged[h]) : merged[h][i] \in DOMAIN stored
  BY <1>2, <1>4 DEF EndedMerged
<1>6. merged[h] \in Seq(DOMAIN stored)
  BY <1>1, <1>2, <1>5
<1> QED
  BY <1>2, <1>5, <1>6

\* A run stored: nothing that was stored before is touched.
LEMMA RunAppended ==
  ASSUME FiguresTypes, EndedMerged, NEW e \in CheckRuns, StoreResult(e)
  PROVE  /\ e = Len(stored) + 1 /\ Len(stored) \in Nat /\ Len(stored') = e /\ e \notin DOMAIN stored
         /\ stored'[e].hour = hour /\ stored'[e].data = checkRun'[e].data
         /\ \A f \in DOMAIN stored : f \in DOMAIN stored' /\ stored'[f] = stored[f]
         /\ checkRun'[e].pc = "read"
         /\ \A f \in CheckRuns : f # e => checkRun'[f] = checkRun[f]
<1>1. PICK data \in RunData :
        /\ stored' = Append(stored, [hour |-> hour, data |-> data])
        /\ checkRun' = [checkRun EXCEPT ![e].pc = "read", ![e].data = data]
  BY DEF StoreResult
<1>2. stored \in Seq([hour : ChartHours, data : RunData]) /\ [hour |-> hour, data |-> data] \in [hour : ChartHours, data : RunData]
  BY DEF FiguresTypes, StoredTypes
<1>3. e = Len(stored) + 1
  BY DEF StoreResult
<1>4. Len(stored) \in Nat /\ DOMAIN stored = 1..Len(stored)
  BY StoredRuns DEF FiguresTypes
<1>5. /\ Len(stored') = Len(stored) + 1 /\ DOMAIN stored' = 1..(Len(stored) + 1)
      /\ stored'[Len(stored) + 1] = [hour |-> hour, data |-> data]
      /\ \A f \in 1..Len(stored) : stored'[f] = stored[f]
  BY <1>1, <1>2, AppendProperties
<1>6. /\ checkRun'[e].pc = "read" /\ checkRun'[e].data = data
      /\ \A f \in CheckRuns : f # e => checkRun'[f] = checkRun[f]
  BY <1>1 DEF FiguresTypes
<1> QED
  BY <1>3, <1>4, <1>5, <1>6

\* An execution that ends: its run is the last to be merged in its hour.
LEMMA RunMerged ==
  ASSUME FiguresTypes, EndedMerged, NEW e \in CheckRuns, UpsertRow(e)
  PROVE  /\ e \in DOMAIN stored /\ hour \in ChartHours /\ stored[e].hour = hour /\ stored[e].data = checkRun[e].data
         /\ checkRun'[e].pc = "ended"
         /\ \A f \in CheckRuns : f # e => checkRun'[f] = checkRun[f]
         /\ \A h \in ChartHours : h # hour => merged'[h] = merged[h]
         /\ Len(merged[hour]) \in Nat /\ Len(merged'[hour]) = Len(merged[hour]) + 1
         /\ DOMAIN merged'[hour] = 1..(Len(merged[hour]) + 1)
         /\ merged'[hour][Len(merged[hour]) + 1] = e
         /\ \A i \in 1..Len(merged[hour]) : merged'[hour][i] = merged[hour][i] /\ merged[hour][i] # e
<1>1. /\ checkRun[e].pc = "upsert" /\ merged' = [merged EXCEPT ![hour] = Append(@, e)]
      /\ checkRun' = [checkRun EXCEPT ![e] = Ended]
  BY DEF UpsertRow
<1>2. hour \in ChartHours /\ merged[hour] \in Seq(CheckRuns)
  BY DEF FiguresTypes
<1>3. /\ merged'[hour] = Append(merged[hour], e)
      /\ \A h \in ChartHours : h # hour => merged'[h] = merged[h]
  BY <1>1, <1>2 DEF FiguresTypes
<1>4. /\ Len(merged[hour]) \in Nat /\ Len(merged'[hour]) = Len(merged[hour]) + 1
      /\ DOMAIN merged'[hour] = 1..(Len(merged[hour]) + 1)
      /\ merged'[hour][Len(merged[hour]) + 1] = e
      /\ \A i \in 1..Len(merged[hour]) : merged'[hour][i] = merged[hour][i]
  BY <1>2, <1>3, AppendProperties
<1>5. \A i \in 1..Len(merged[hour]) : merged[hour][i] # e
  BY <1>1, <1>2 DEF EndedMerged
<1>6. checkRun'[e].pc = "ended" /\ \A f \in CheckRuns : f # e => checkRun'[f] = checkRun[f]
  BY <1>1 DEF FiguresTypes, Ended, NotRunning
<1>7. e \in DOMAIN stored
  <2>1. Len(stored) \in Nat /\ DOMAIN stored = 1..Len(stored) /\ ~(Len(stored) < e)
    BY <1>1, StoredRuns DEF FiguresTypes, EndedMerged
  <2> QED
    BY <2>1 DEF CheckRuns
<1>8. stored[e].hour = hour /\ stored[e].data = checkRun[e].data
  BY <1>1 DEF EndedMerged
<1> QED
  BY <1>2, <1>3, <1>4, <1>5, <1>6, <1>7, <1>8

LEMMA EndedMergedStep ==
  FiguresTypes /\ EndedMerged /\ [FiguresNext]_figuresVars => EndedMerged'
<1> SUFFICES ASSUME FiguresTypes, EndedMerged, [FiguresNext]_figuresVars
             PROVE  EndedMerged'
  OBVIOUS
<1>0. Len(stored) \in Nat /\ DOMAIN stored = 1..Len(stored)
  BY StoredRuns DEF FiguresTypes
<1>1. CASE NextHour
  <2>1. /\ \A e \in CheckRuns : checkRun[e].pc \in {"idle", "ended"}
        /\ stored' = stored /\ checkRun' = checkRun /\ merged' = merged
    BY <1>1 DEF NextHour
  <2> QED
    BY <2>1 DEF EndedMerged, EachOnce
<1>2. ASSUME NEW e \in CheckRuns, StoreResult(e)
      PROVE  EndedMerged'
  <2>1. merged' = merged /\ hour' = hour
    BY <1>2 DEF StoreResult
  <2>2. /\ e = Len(stored) + 1 /\ Len(stored') = e /\ e \notin DOMAIN stored
        /\ stored'[e].hour = hour /\ stored'[e].data = checkRun'[e].data
        /\ \A f \in DOMAIN stored : f \in DOMAIN stored' /\ stored'[f] = stored[f]
        /\ checkRun'[e].pc = "read"
        /\ \A f \in CheckRuns : f # e => checkRun'[f] = checkRun[f]
    BY <1>2, RunAppended
  <2>3. \A f \in CheckRuns : f \in Nat /\ f <= MaxRuns /\ 1 <= f
    BY FiguresAssumption DEF FiguresAssumption, CheckRuns
  <2>4. \A f \in CheckRuns : checkRun[f].pc # "idle" => f \in DOMAIN stored
    BY <1>0, <2>3 DEF EndedMerged
  <2>5. Len(stored') <= MaxRuns /\ \A f \in CheckRuns : checkRun'[f].pc = "idle" <=> Len(stored') < f
    <3>1. ASSUME NEW f \in CheckRuns PROVE checkRun'[f].pc = "idle" <=> Len(stored') < f
      <4>1. CASE f = e
        BY <2>2, <2>3, <4>1
      <4>2. CASE f # e
        BY <1>0, <2>2, <2>3, <4>2 DEF EndedMerged
      <4> QED
        BY <4>1, <4>2
    <3> QED
      BY <2>2, <2>3, <3>1
  <2>6. ASSUME NEW f \in CheckRuns, checkRun'[f].pc \in {"read", "upsert"}
        PROVE  stored'[f].hour = hour' /\ stored'[f].data = checkRun'[f].data
    <3>1. CASE f = e
      BY <2>1, <2>2, <3>1
    <3>2. CASE f # e
      BY <2>1, <2>2, <2>4, <2>6, <3>2 DEF EndedMerged
    <3> QED
      BY <3>1, <3>2
  <2>7. ASSUME NEW h \in ChartHours, NEW i \in 1..Len(merged'[h])
        PROVE  checkRun'[merged'[h][i]].pc = "ended" /\ stored'[merged'[h][i]].hour = h
    <3> DEFINE f == merged[h][i]
    <3>1. f \in CheckRuns /\ f \in DOMAIN stored /\ f # e /\ i \in 1..Len(merged[h])
      BY <2>1, <2>2, <2>7, MergedStored
    <3>2. checkRun[f].pc = "ended" /\ stored[f].hour = h
      BY <3>1 DEF EndedMerged
    <3>3. checkRun'[f] = checkRun[f] /\ stored'[f] = stored[f] /\ merged'[h][i] = f
      BY <2>1, <2>2, <3>1
    <3> HIDE DEF f
    <3> QED
      BY <3>2, <3>3
  <2>8. ASSUME NEW f \in CheckRuns, checkRun'[f].pc = "ended"
        PROVE  \E i \in 1..Len(merged'[stored'[f].hour]) : merged'[stored'[f].hour][i] = f
    <3>1. f # e /\ checkRun[f].pc = "ended"
      BY <2>2, <2>8
    <3>2. stored'[f] = stored[f] /\ merged' = merged
      BY <2>1, <2>2, <2>4, <3>1
    <3>3. \E i \in 1..Len(merged[stored[f].hour]) : merged[stored[f].hour][i] = f
      BY <3>1 DEF EndedMerged
    <3> QED
      BY <3>2, <3>3
  <2>9. \A h \in ChartHours : EachOnce(merged'[h])
    BY <2>1 DEF EndedMerged
  <2> QED
    BY <2>5, <2>6, <2>7, <2>8, <2>9 DEF EndedMerged, EachOnce
<1>3. ASSUME NEW e \in CheckRuns, ReadRow(e)
      PROVE  EndedMerged'
  <2>1. /\ checkRun[e].pc = "read" /\ checkRun' = [checkRun EXCEPT ![e].pc = "upsert", ![e].read = row[hour]]
        /\ stored' = stored /\ merged' = merged /\ hour' = hour
    BY <1>3 DEF ReadRow
  <2>2. /\ \A f \in CheckRuns : checkRun'[f].data = checkRun[f].data
        /\ \A f \in CheckRuns : f # e => checkRun'[f].pc = checkRun[f].pc
        /\ checkRun'[e].pc = "upsert"
    BY <2>1 DEF FiguresTypes
  <2>3. \A h \in ChartHours : \A i \in 1..Len(merged[h]) :
          merged[h][i] \in CheckRuns /\ merged[h][i] # e /\ checkRun[merged[h][i]].pc = "ended"
    BY <2>1, MergedStored DEF EndedMerged
  <2>4. \A f \in CheckRuns : /\ checkRun'[f].pc = "idle" <=> checkRun[f].pc = "idle"
                             /\ checkRun'[f].pc \in {"read", "upsert"} <=> checkRun[f].pc \in {"read", "upsert"}
                             /\ checkRun'[f].pc = "ended" <=> checkRun[f].pc = "ended"
    BY <2>1, <2>2
  <2>5. /\ \A f \in CheckRuns : checkRun'[f].pc = "idle" <=> Len(stored') < f
        /\ \A f \in CheckRuns : checkRun'[f].pc \in {"read", "upsert"} =>
             stored'[f].hour = hour' /\ stored'[f].data = checkRun'[f].data
    <3> SUFFICES ASSUME NEW f \in CheckRuns
                 PROVE  /\ checkRun'[f].pc = "idle" <=> Len(stored') < f
                        /\ checkRun'[f].pc \in {"read", "upsert"} =>
                             stored'[f].hour = hour' /\ stored'[f].data = checkRun'[f].data
      OBVIOUS
    <3>1. /\ checkRun[f].pc = "idle" <=> Len(stored) < f
          /\ checkRun[f].pc \in {"read", "upsert"} => stored[f].hour = hour /\ stored[f].data = checkRun[f].data
      BY DEF EndedMerged
    <3>2. /\ checkRun'[f].pc = "idle" <=> checkRun[f].pc = "idle"
          /\ checkRun'[f].pc \in {"read", "upsert"} <=> checkRun[f].pc \in {"read", "upsert"}
          /\ checkRun'[f].data = checkRun[f].data
      BY <2>2, <2>4
    <3>3. stored' = stored /\ hour' = hour
      BY <2>1
    <3> QED
      BY <3>1, <3>2, <3>3
  <2>6. \A h \in ChartHours : \A i \in 1..Len(merged'[h]) :
          checkRun'[merged'[h][i]].pc = "ended" /\ stored'[merged'[h][i]].hour = h
    <3>1. stored' = stored /\ merged' = merged
      BY <2>1
    <3>2. \A h \in ChartHours : \A i \in 1..Len(merged[h]) : stored[merged[h][i]].hour = h
      BY DEF EndedMerged
    <3> QED
      BY <2>3, <2>4, <3>1, <3>2
  <2>7. \A f \in CheckRuns : checkRun'[f].pc = "ended" =>
          \E i \in 1..Len(merged'[stored'[f].hour]) : merged'[stored'[f].hour][i] = f
    BY <2>1, <2>4 DEF EndedMerged
  <2>8. Len(stored') <= MaxRuns /\ \A h \in ChartHours : EachOnce(merged'[h])
    BY <2>1 DEF EndedMerged
  <2> QED
    BY <2>5, <2>6, <2>7, <2>8 DEF EndedMerged, EachOnce
<1>4. ASSUME NEW e \in CheckRuns, UpsertRow(e)
      PROVE  EndedMerged'
  <2>1. /\ e \in DOMAIN stored /\ hour \in ChartHours /\ stored[e].hour = hour
        /\ checkRun'[e].pc = "ended"
        /\ \A f \in CheckRuns : f # e => checkRun'[f] = checkRun[f]
        /\ \A h \in ChartHours : h # hour => merged'[h] = merged[h]
        /\ Len(merged[hour]) \in Nat /\ Len(merged'[hour]) = Len(merged[hour]) + 1
        /\ DOMAIN merged'[hour] = 1..(Len(merged[hour]) + 1)
        /\ merged'[hour][Len(merged[hour]) + 1] = e
        /\ \A i \in 1..Len(merged[hour]) : merged'[hour][i] = merged[hour][i] /\ merged[hour][i] # e
    BY <1>4, RunMerged
  <2>2. stored' = stored /\ hour' = hour /\ checkRun[e].pc = "upsert"
    BY <1>4 DEF UpsertRow
  <2>3. \A f \in CheckRuns : checkRun'[f].pc = "idle" <=> Len(stored') < f
    BY <2>1, <2>2 DEF EndedMerged
  <2>4. \A f \in CheckRuns : checkRun'[f].pc \in {"read", "upsert"} =>
          stored'[f].hour = hour' /\ stored'[f].data = checkRun'[f].data
    BY <2>1, <2>2 DEF EndedMerged
  <2>5. ASSUME NEW h \in ChartHours
        PROVE  /\ EachOnce(merged'[h])
               /\ \A i \in 1..Len(merged'[h]) :
                    checkRun'[merged'[h][i]].pc = "ended" /\ stored'[merged'[h][i]].hour = h
               /\ \A i \in 1..Len(merged[h]) : i \in 1..Len(merged'[h]) /\ merged'[h][i] = merged[h][i]
    <3>1. /\ Len(merged[h]) \in Nat /\ DOMAIN merged[h] = 1..Len(merged[h]) /\ EachOnce(merged[h])
          /\ \A i \in 1..Len(merged[h]) : merged[h][i] \in CheckRuns /\ merged[h][i] # e
                                          /\ checkRun[merged[h][i]].pc = "ended" /\ stored[merged[h][i]].hour = h
      <4>1. EachOnce(merged[h])
        BY DEF EndedMerged
      <4>2. ASSUME NEW i \in 1..Len(merged[h])
            PROVE  /\ merged[h][i] \in CheckRuns /\ merged[h][i] # e
                   /\ checkRun[merged[h][i]].pc = "ended" /\ stored[merged[h][i]].hour = h
        <5>1. checkRun[merged[h][i]].pc = "ended" /\ stored[merged[h][i]].hour = h
          BY DEF EndedMerged
        <5>2. merged[h][i] \in CheckRuns
          BY MergedStored
        <5>3. merged[h][i] # e
          BY <2>2, <5>1
        <5> QED
          BY <5>1, <5>2, <5>3
      <4>3. Len(merged[h]) \in Nat /\ DOMAIN merged[h] = 1..Len(merged[h])
        BY MergedStored
      <4> QED
        BY <4>1, <4>2, <4>3
    <3>2. CASE h # hour
      BY <2>1, <2>2, <3>1, <3>2 DEF EachOnce
    <3>3. CASE h = hour
      <4> DEFINE n == Len(merged[hour])
                 m == merged'[hour]
      <4>1. n \in Nat /\ DOMAIN m = 1..(n + 1) /\ Len(m) = n + 1 /\ \A i \in 1..(n + 1) : i \in 1..n \/ i = n + 1
        BY <2>1
      <4>2. m[n + 1] = e /\ \A i \in 1..n : m[i] = merged[hour][i] /\ m[i] # e
        BY <2>1
      <4> HIDE DEF n, m
      <4>3. EachOnce(m)
        <5>1. \A i, j \in 1..n : m[i] = m[j] => i = j
          BY <3>1, <3>3, <4>2 DEF EachOnce, n
        <5> QED
          BY <4>1, <4>2, <5>1 DEF EachOnce
      <4>4. \A i \in 1..(n + 1) : checkRun'[m[i]].pc = "ended" /\ stored'[m[i]].hour = hour
        <5>1. \A i \in 1..n : checkRun'[m[i]].pc = "ended" /\ stored'[m[i]].hour = hour
          BY <2>1, <2>2, <3>1, <3>3, <4>2 DEF n
        <5> QED
          BY <2>1, <2>2, <4>1, <4>2, <5>1
      <4>5. \A i \in 1..n : i \in 1..(n + 1)
        BY <4>1
      <4> QED
        BY <3>3, <4>1, <4>2, <4>3, <4>4, <4>5 DEF n, m
    <3> QED
      BY <3>2, <3>3
  <2>6. ASSUME NEW f \in CheckRuns, checkRun'[f].pc = "ended"
        PROVE  \E i \in 1..Len(merged'[stored'[f].hour]) : merged'[stored'[f].hour][i] = f
    <3>1. CASE f = e
      <4>1. Len(merged[hour]) + 1 \in 1..Len(merged'[hour])
        BY <2>1
      <4> QED
        BY <2>1, <2>2, <3>1, <4>1
    <3>2. CASE f # e
      <4>1. checkRun[f].pc = "ended"
        BY <2>1, <2>6, <3>2
      <4>2. PICK i \in 1..Len(merged[stored[f].hour]) : merged[stored[f].hour][i] = f
        BY <4>1 DEF EndedMerged
      <4>3. f \in DOMAIN stored
        BY <1>0, <4>1, FiguresAssumption DEF EndedMerged, CheckRuns, FiguresAssumption
      <4>4. stored[f].hour \in ChartHours
        BY <4>3, StoredRuns DEF FiguresTypes
      <4> QED
        BY <2>2, <2>5, <4>2, <4>4
    <3> QED
      BY <3>1, <3>2
  <2>7. Len(stored') <= MaxRuns
    BY <2>2 DEF EndedMerged
  <2> QED
    BY <2>3, <2>4, <2>5, <2>6, <2>7 DEF EndedMerged, EachOnce
<1>5. CASE UNCHANGED figuresVars
  BY <1>5 DEF figuresVars, EndedMerged, EachOnce
<1> QED
  BY <1>1, <1>2, <1>3, <1>4, <1>5 DEF FiguresNext

LEMMA DataSame ==
  ASSUME FiguresTypes, EndedMerged, NEW h \in ChartHours, merged'[h] = merged[h],
         \A f \in DOMAIN stored : stored'[f] = stored[f]
  PROVE  DataOf(merged[h])' = DataOf(merged[h])
<1> DEFINE m == merged[h]
<1>1. DOMAIN m = 1..Len(m) /\ \A i \in 1..Len(m) : m[i] \in DOMAIN stored
  BY MergedStored
<1>2. DataOf(merged[h])' = [i \in DOMAIN m |-> stored'[m[i]].data]
  BY DEF DataOf
<1>3. DataOf(merged[h]) = [i \in DOMAIN m |-> stored[m[i]].data]
  BY DEF DataOf
<1> HIDE DEF m
<1>4. \A i \in DOMAIN m : stored'[m[i]].data = stored[m[i]].data
  BY <1>1
<1> QED
  BY <1>2, <1>3, <1>4

LEMMA RowsInOrderStep ==
  FiguresTypes /\ EndedMerged /\ RowsInOrder /\ [FiguresNext]_figuresVars => RowsInOrder'
<1> SUFFICES ASSUME FiguresTypes, EndedMerged, RowsInOrder, [FiguresNext]_figuresVars
             PROVE  RowsInOrder'
  OBVIOUS
<1>0. hour \in ChartHours /\ overwritten \subseteq ChartHours
  BY DEF FiguresTypes
<1>a. ASSUME merged' = merged, row' = row, overwritten \subseteq overwritten',
             \A f \in DOMAIN stored : stored'[f] = stored[f]
      PROVE  \A h \in ChartHours \ overwritten' : row'[h] = AggregateCollectorData(DataOf(merged[h])')
  <2> SUFFICES ASSUME NEW h \in ChartHours \ overwritten'
               PROVE  row'[h] = AggregateCollectorData(DataOf(merged[h])')
    OBVIOUS
  <2>1. DataOf(merged[h])' = DataOf(merged[h])
    BY <1>a, DataSame
  <2>2. row[h] = AggregateCollectorData(DataOf(merged[h]))
    BY <1>a DEF RowsInOrder
  <2> QED
    BY <1>a, <2>1, <2>2
<1>b. ASSUME \A h \in ChartHours \ overwritten' : row'[h] = AggregateCollectorData(DataOf(merged[h])'),
             hour' \notin overwritten' =>
               \A e, f \in CheckRuns : checkRun'[e].pc = "upsert" =>
                 checkRun'[e].read = row'[hour'] /\ (checkRun'[f].pc = "upsert" => e = f)
      PROVE  RowsInOrder'
  <2>1. \A h : AggregateCollectorData(DataOf(merged[h]))' = AggregateCollectorData(DataOf(merged[h])')
    BY DEF AggregateCollectorData
  <2> QED
    BY <1>b, <2>1 DEF RowsInOrder
<1>1. CASE NextHour
  <2>1. /\ \A e \in CheckRuns : checkRun'[e].pc \in {"idle", "ended"}
        /\ stored' = stored /\ row' = row /\ merged' = merged /\ overwritten' = overwritten
    BY <1>1 DEF NextHour
  <2>2. \A e \in CheckRuns : checkRun'[e].pc # "upsert"
    BY <2>1
  <2> QED
    BY <1>a, <1>b, <2>1, <2>2
<1>2. ASSUME NEW e \in CheckRuns, StoreResult(e)
      PROVE  RowsInOrder'
  <2>1. merged' = merged /\ row' = row /\ overwritten' = overwritten /\ hour' = hour
    BY <1>2 DEF StoreResult
  <2>2. /\ \A f \in DOMAIN stored : stored'[f] = stored[f]
        /\ checkRun'[e].pc = "read" /\ \A f \in CheckRuns : f # e => checkRun'[f] = checkRun[f]
    BY <1>2, RunAppended
  <2>3. hour' \notin overwritten' =>
               \A d, f \in CheckRuns : checkRun'[d].pc = "upsert" =>
                 checkRun'[d].read = row'[hour'] /\ (checkRun'[f].pc = "upsert" => d = f)
    BY <2>1, <2>2 DEF RowsInOrder
  <2> QED
    BY <1>a, <1>b, <2>1, <2>2, <2>3
<1>3. ASSUME NEW e \in CheckRuns, ReadRow(e)
      PROVE  RowsInOrder'
  <2>1. /\ stored' = stored /\ merged' = merged /\ row' = row /\ hour' = hour
        /\ checkRun' = [checkRun EXCEPT ![e].pc = "upsert", ![e].read = row[hour]]
        /\ overwritten' = IF \E f \in CheckRuns : checkRun[f].pc = "upsert"
                          THEN overwritten \cup {hour} ELSE overwritten
    BY <1>3 DEF ReadRow
  <2>2. /\ checkRun'[e].pc = "upsert" /\ checkRun'[e].read = row[hour]
        /\ \A f \in CheckRuns : f # e => checkRun'[f] = checkRun[f]
    BY <2>1 DEF FiguresTypes
  <2>3. ASSUME hour' \notin overwritten', NEW d \in CheckRuns, NEW f \in CheckRuns, checkRun'[d].pc = "upsert"
        PROVE  checkRun'[d].read = row'[hour'] /\ (checkRun'[f].pc = "upsert" => d = f)
    <3>1. \A g \in CheckRuns : checkRun[g].pc # "upsert"
      BY <2>1, <2>3
    <3>2. \A g \in CheckRuns : checkRun'[g].pc = "upsert" => g = e
      BY <2>2, <3>1
    <3> QED
      BY <2>1, <2>2, <2>3, <3>2
  <2>4. overwritten \subseteq overwritten'
    BY <2>1
  <2> QED
    BY <1>a, <1>b, <2>1, <2>3, <2>4
<1>4. ASSUME NEW e \in CheckRuns, UpsertRow(e)
      PROVE  RowsInOrder'
  <2> DEFINE result == MergeCollectorResults(checkRun[e].read, checkRun[e].data)
  <2>1. /\ checkRun[e].pc = "upsert" /\ row' = (IF result = NoData THEN row ELSE [row EXCEPT ![hour] = result])
        /\ hour' = hour /\ stored' = stored /\ overwritten' = overwritten
    BY <1>4 DEF UpsertRow
  <2>2. /\ e \in DOMAIN stored /\ stored[e].data = checkRun[e].data
        /\ checkRun'[e].pc = "ended"
        /\ \A f \in CheckRuns : f # e => checkRun'[f] = checkRun[f]
        /\ \A h \in ChartHours : h # hour => merged'[h] = merged[h]
        /\ Len(merged[hour]) \in Nat
        /\ DOMAIN merged'[hour] = 1..(Len(merged[hour]) + 1)
        /\ merged'[hour][Len(merged[hour]) + 1] = e
        /\ \A i \in 1..Len(merged[hour]) : merged'[hour][i] = merged[hour][i]
    BY <1>4, RunMerged
  <2>3. \A h \in ChartHours : h # hour => row'[h] = row[h]
    BY <2>1 DEF FiguresTypes
  <2>4. ASSUME hour \notin overwritten
        PROVE  /\ \A f \in CheckRuns : checkRun'[f].pc # "upsert"
               /\ row'[hour] = MergeCollectorResults(row[hour], stored[e].data)
    <3>1. checkRun[e].read = row[hour] /\ \A f \in CheckRuns : checkRun[f].pc = "upsert" => e = f
      BY <2>1, <2>4 DEF RowsInOrder
    <3>2. \A f \in CheckRuns : checkRun'[f].pc # "upsert"
      BY <2>2, <3>1
    <3>3. result = MergeCollectorResults(row[hour], stored[e].data)
      BY <2>2, <3>1
    <3>4. row'[hour] = IF result = NoData THEN row[hour] ELSE result
      BY <1>0, <2>1 DEF FiguresTypes
    <3>5. result = NoData => row[hour] = NoData
      <4>1. row[hour] \in FigureRows
        BY <1>0 DEF FiguresTypes
      <4>2. DOMAIN result = DOMAIN row[hour] \cup DOMAIN stored[e].data
        BY <3>3 DEF MergeCollectorResults
      <4>3. DOMAIN NoData = {}
        BY DEF NoData
      <4>4. PICK cs \in SUBSET Collectors : row[hour] \in [cs -> Figures]
        BY <4>1 DEF FigureRows
      <4>5. cs = {} => row[hour] = NoData
        BY <4>4 DEF NoData
      <4> HIDE DEF result
      <4> QED
        BY <4>2, <4>3, <4>4, <4>5
    <3> QED
      BY <3>2, <3>3, <3>4, <3>5
  <2>5. ASSUME NEW h \in ChartHours \ overwritten'
        PROVE  row'[h] = AggregateCollectorData(DataOf(merged[h])')
    <3>0. row[h] = AggregateCollectorData(DataOf(merged[h]))
      BY <2>1, <2>5 DEF RowsInOrder
    <3>1. CASE h # hour
      <4>1. DataOf(merged[h])' = DataOf(merged[h])
        BY <2>1, <2>2, <3>1, DataSame
      <4> QED
        BY <2>3, <3>0, <3>1, <4>1
    <3>2. CASE h = hour
      <4> DEFINE n == Len(merged[hour])
                 s == DataOf(merged[hour])
                 t == DataOf(merged[hour])'
      <4>1. n \in Nat /\ DOMAIN merged[hour] = 1..n /\ \A i \in 1..n : merged[hour][i] \in DOMAIN stored
        BY <1>0, MergedStored
      <4>2. t = [i \in DOMAIN merged'[hour] |-> stored[merged'[hour][i]].data]
        BY <2>1 DEF DataOf
      <4>3. DOMAIN s = 1..n /\ \A i \in 1..n : s[i] = stored[merged[hour][i]].data
        BY <4>1 DEF DataOf
      <4>4. n + 1 \in 1..(n + 1) /\ \A i \in 1..n : i \in 1..(n + 1)
        BY <4>1
      <4>5. DOMAIN t = 1..(n + 1) /\ (\A i \in 1..n : t[i] = s[i]) /\ t[n + 1] = stored[e].data
        BY <2>2, <4>2, <4>3, <4>4
      <4> HIDE DEF s, t, n
      <4>6. AggregateCollectorData(t) = MergeCollectorResults(AggregateCollectorData(s), t[n + 1])
        BY <4>1, <4>3, <4>5, AppendedRun
      <4>7. row'[hour] = MergeCollectorResults(row[hour], stored[e].data)
        BY <2>1, <2>4, <2>5, <3>2
      <4>8. row[hour] = AggregateCollectorData(s)
        BY <3>0, <3>2 DEF s
      <4>9. row'[hour] = AggregateCollectorData(t)
        BY <4>5, <4>6, <4>7, <4>8
      <4> QED
        BY <2>1, <3>2, <4>9 DEF t
    <3> QED
      BY <3>1, <3>2
  <2> QED
    BY <1>b, <2>1, <2>4, <2>5
<1>5. CASE UNCHANGED figuresVars
  <2>1. /\ merged' = merged /\ row' = row /\ overwritten' = overwritten /\ stored' = stored
        /\ checkRun' = checkRun /\ hour' = hour
    BY <1>5 DEF figuresVars
  <2>2. hour' \notin overwritten' =>
               \A d, f \in CheckRuns : checkRun'[d].pc = "upsert" =>
                 checkRun'[d].read = row'[hour'] /\ (checkRun'[f].pc = "upsert" => d = f)
    BY <2>1 DEF RowsInOrder
  <2> QED
    BY <1>a, <1>b, <2>1, <2>2
<1> QED
  BY <1>1, <1>2, <1>3, <1>4, <1>5 DEF FiguresNext

\* Whichever runs come, fail or overlap: every row keeps for each collector derived
\* figures that follow from its sums, and a row that no execution has written over
\* another's is that of its runs (incrementHourlyAggregate's upsert).
THEOREM FiguresInvariant == FiguresSpec => []FiguresInv
<1>1. FiguresInv /\ [FiguresNext]_figuresVars => FiguresInv'
  BY TypesStep, EndedMergedStep, RowsInOrderStep DEF FiguresInv
<1> QED
  BY <1>1, FiguresInitially, PTL DEF FiguresSpec

\* Types (the rows of health_check_aggregates).
THEOREM FiguresTypesCorrect == FiguresSpec => []FiguresTypeOK
<1>1. FiguresInv => FiguresTypeOK
  BY DataAndRows DEF FiguresInv, FiguresTypes, StoredTypes, FiguresTypeOK
<1> QED
  BY <1>1, FiguresInvariant, PTL

\* The runs that are read for a chart are those of its hours, each once.
LEMMA ReadRunsFacts ==
  ASSUME StoredTypes, NEW hours
  PROVE  /\ ReadRuns(hours) \in Seq(DOMAIN stored) /\ EachOnce(ReadRuns(hours))
         /\ UpTo(ReadRuns(hours), Len(ReadRuns(hours))) = StoredIn(hours)
<1> DEFINE D == DOMAIN stored
           s == [e \in D |-> e]
           P == StoredIn(hours)
           o == ReadRuns(hours)
           n == Len(stored)
<1>1. n \in Nat /\ D = 1..n /\ P \subseteq D
  BY StoredRuns DEF StoredIn
<1>2. s \in Seq(D) /\ Len(s) = n
  BY <1>1
<1>3. o = Subsequence(s, P)
  BY DEF ReadRuns
<1> HIDE DEF D, P, o, n
<1>4. \A i \in D : s[i] = i
  OBVIOUS
<1> HIDE DEF s
<1>5. Holds(o, s, P, n)
  BY <1>2, <1>3, SubsequenceHolds
<1>6. P \cap (1..n) = P /\ {s[i] : i \in P \cap (1..n)} = P
  BY <1>1, <1>4
<1>7. o \in Seq(P) /\ \A i \in P : \E k \in 1..Len(o) : o[k] = i
  BY <1>1, <1>4, <1>5, <1>6 DEF Holds
<1>8. Len(o) \in Nat /\ DOMAIN o = 1..Len(o) /\ \A k \in 1..Len(o) : o[k] \in P
  BY <1>7, ElementOfSeq
<1>9. \A i, k \in 1..Len(o) : o[i] = o[k] => i = k
  <2>1. \A i, k \in 1..n : s[i] = s[k] => i = k
    BY <1>1, <1>4
  <2> QED
    BY <1>5, <2>1 DEF Holds
<1>10. o \in Seq(D)
  <2>1. \A k \in 1..Len(o) : o[k] \in D
    BY <1>1, <1>8
  <2> QED
    BY <1>7, <2>1
<1>11. UpTo(o, Len(o)) = P
  BY <1>7, <1>8 DEF UpTo
<1> QED
  BY <1>8, <1>9, <1>10, <1>11 DEF EachOnce, o, P, D

LEMMA BadStart ==
  ASSUME NEW order, DOMAIN order = 1..Len(order), NEW c \in Collectors, ~StartsFailed(c, order)
  PROVE  c \notin BadIn(order, Len(order))
BY DEF StartsFailed, BadIn

LEMMA MatchFollows == FiguresInv => FiguresMatchRuns
<1> SUFFICES ASSUME FiguresInv, NEW from \in ChartHours, NEW to \in ChartHours, from <= to, to <= hour,
                    to = hour => \A e \in CheckRuns : checkRun[e].pc \in {"idle", "ended"},
                    NEW c \in Collectors, TakenPart(c, StoredIn(from..to)) # {}
             PROVE  LET these == StoredIn(from..to)
                        order == ReadRuns(from..to)
                        raw == AggregateCollectorData(DataOf(order))
                        rows == MergeAggregatedBucketResults(RowsFrom(from, to))
                    IN /\ c \in DOMAIN raw /\ TrueTo(raw[c], c, these, {order})
                       /\ overwritten \cap (from..to) = {} =>
                            c \in DOMAIN rows /\ TrueTo(rows[c], c, these, {merged[h] : h \in from..to})
  BY DEF FiguresMatchRuns, RowsFrom
<1>0. FiguresTypes /\ EndedMerged /\ RowsInOrder /\ StoredTypes
  BY DEF FiguresInv, FiguresTypes
<1> DEFINE these == StoredIn(from..to)
           order == ReadRuns(from..to)
           raw == AggregateCollectorData(DataOf(order))
           rows == MergeAggregatedBucketResults(RowsFrom(from, to))
<1>1. these \subseteq DOMAIN stored /\ TakenPart(c, these) # {}
  BY DEF StoredIn
<1>2. /\ order \in Seq(DOMAIN stored) /\ EachOnce(order) /\ UpTo(order, Len(order)) = these
      /\ DOMAIN order = 1..Len(order)
  BY <1>0, ReadRunsFacts
<1>3. RowShows(raw, these, BadIn(order, Len(order)))
  BY <1>0, <1>2, MergedInOrder
<1> HIDE DEF these, order, raw, rows
<1>4. c \in DOMAIN raw /\ Shows(raw[c], ReadingsOf(c), TakenPart(c, these), c \notin BadIn(order, Len(order)))
  BY <1>1, <1>3 DEF RowShows
<1>5. TrueTo(raw[c], c, these, {order})
  <2>1. (\A o \in {order} : ~StartsFailed(c, o)) => c \notin BadIn(order, Len(order))
    BY <1>2, BadStart
  <2> QED
    BY <1>0, <1>1, <1>4, <2>1, ShowsTrue
<1>6. ASSUME overwritten \cap (from..to) = {}
      PROVE  c \in DOMAIN rows /\ TrueTo(rows[c], c, these, {merged[h] : h \in from..to})
  <2>0. from \in Nat /\ to \in Nat /\ hour \in Nat /\ \A h \in from..to : h \in ChartHours /\ h \notin overwritten /\ h \in Nat /\ h <= to
    <3>1. from \in Nat /\ to \in Nat /\ to <= LastHour /\ hour \in Nat /\ LastHour \in Nat
      BY <1>0, FiguresAssumption DEF ChartHours, FiguresAssumption, FiguresTypes
    <3> QED
      BY <1>6, <3>1 DEF ChartHours
  <2>1. ASSUME NEW h \in from..to
        PROVE  RowShows(row[h], StoredIn({h}), BadIn(merged[h], Len(merged[h])))
    <3> DEFINE o == merged[h]
    <3>1. h \in ChartHours \ overwritten
      BY <2>0
    <3>2. /\ o \in Seq(DOMAIN stored) /\ EachOnce(o)
          /\ \A i \in 1..Len(o) : o[i] \in DOMAIN stored /\ stored[o[i]].hour = h
      BY <1>0, <3>1, MergedStored DEF EndedMerged
    <3>3. ASSUME NEW e \in DOMAIN stored, stored[e].hour = h
          PROVE  \E i \in 1..Len(o) : o[i] = e
      <4>1. e \in CheckRuns /\ ~(Len(stored) < e)
        <5>1. Len(stored) \in Nat /\ DOMAIN stored = 1..Len(stored) /\ Len(stored) <= MaxRuns /\ MaxRuns \in Nat
          BY <1>0, StoredRuns, FiguresAssumption DEF EndedMerged, FiguresAssumption
        <5> QED
          BY <5>1 DEF CheckRuns
      <4>2. checkRun[e].pc \in {"read", "upsert", "ended"}
        BY <1>0, <4>1 DEF EndedMerged, FiguresTypes
      <4>3. checkRun[e].pc \notin {"read", "upsert"}
        <5> SUFFICES ASSUME checkRun[e].pc \in {"read", "upsert"} PROVE FALSE
          OBVIOUS
        <5>1. h = hour
          BY <1>0, <3>3, <4>1 DEF EndedMerged
        <5>2. to = hour
          BY <2>0, <5>1
        <5> QED
          BY <4>1, <5>2
      <4> QED
        BY <1>0, <3>3, <4>1, <4>2, <4>3 DEF EndedMerged
    <3>4. UpTo(o, Len(o)) = StoredIn({h})
      BY <3>2, <3>3 DEF UpTo, StoredIn
    <3>5. row[h] = AggregateCollectorData(DataOf(o))
      BY <1>0, <3>1 DEF RowsInOrder
    <3> HIDE DEF o
    <3>6. RowShows(AggregateCollectorData(DataOf(o)), UpTo(o, Len(o)), BadIn(o, Len(o)))
      BY <1>0, <3>2, MergedInOrder
    <3> QED
      BY <3>4, <3>5, <3>6 DEF o
  <2>2. RowShows(rows, these, BadOf(from..to))
    BY <1>0, <2>0, <2>1, MergedRows DEF rows, these
  <2>3. c \in DOMAIN rows /\ Shows(rows[c], ReadingsOf(c), TakenPart(c, these), c \notin BadOf(from..to))
    BY <1>1, <2>2 DEF RowShows
  <2> DEFINE orders == {merged[h] : h \in from..to}
  <2>4. (\A o \in orders : ~StartsFailed(c, o)) => c \notin BadOf(from..to)
    <3> SUFFICES ASSUME \A h \in from..to : ~StartsFailed(c, merged[h]), NEW h \in from..to
                 PROVE  c \notin BadIn(merged[h], Len(merged[h]))
      BY DEF BadOf
    <3>1. DOMAIN merged[h] = 1..Len(merged[h])
      BY <1>0, <2>0, MergedStored
    <3> QED
      BY <3>1, BadStart
  <2> HIDE DEF orders
  <2>5. TrueTo(rows[c], c, these, orders)
    BY <1>0, <1>1, <2>3, <2>4, ShowsTrue
  <2> QED
    BY <2>3, <2>5 DEF orders
<1> QED
  BY <1>4, <1>5, <1>6 DEF these, order, raw, rows

\* core/backend-api/src/incremental-aggregation.test.ts:63: a point of a chart shows the
\* same of a collector whether it is computed from raw runs or combined from the rows of
\* their hours, namely what it measured in just those runs; for any collectors, measures,
\* hours and number of overlapping executions.
THEOREM FiguresMatchRunsCorrect == FiguresSpec => []FiguresMatchRuns
<1> QED
  BY FiguresInvariant, MatchFollows, PTL
=============================================================================
