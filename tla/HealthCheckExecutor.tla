------------------------ MODULE HealthCheckExecutor ------------------------
(***************************************************************************)
(* core/healthcheck-backend/src/queue-executor.ts: executeHealthCheckJob   *)
(* for the checks of one system, from the read of the status before the    *)
(* run, through the connection, the collectors and the timeout they race   *)
(* with, to the run, the signal, the notification and the integration      *)
(* hook, and the catch block around it all. An action is the code up to    *)
(* the next await that other executions could be seen from; reading the    *)
(* status of a system (one query per check) and the two suppression        *)
(* queries are one step each, and storing a run includes its aggregation.  *)
(***************************************************************************)
EXTENDS StateEvaluator

\* Definitions named ...Mutant are plausible bugs, used only to show that the
\* properties can fail.
CONSTANTS
  Checks,     \* the configurations assigned to the system
  Thresholds, \* the stateThresholds of each
  maxWindowSize, \* the number of runs read; older ones are forgotten
  Executions, \* bound: executions at once (the queue's concurrency)
  MaxMishaps, \* bound: how often a connection is refused, collectors are timed out, a
              \* query, signal, hook or notification fails or an administrator interferes
  None

ASSUME BoundAssumption ==
  maxWindowSize \in Nat \ {0} /\ MaxMishaps \in Nat /\ None \notin Checks

VARIABLES
  runs,       \* the newest runs of each check, newest first
  enabled,    \* checks whose association is enabled
  paused,     \* configurations that are paused
  suppressed, \* an active maintenance or incident suppresses notifications
  exec,       \* each execution
  client,     \* its connection: "none", "connecting", "open", or "late": the timeout
              \* has fired and createClient goes on
  leaked,     \* history: an execution has left a connection open that was not late
  told,       \* history: the status subscribers were last notified of
  astray,     \* history: ... and whether something no execution makes up for has
              \* befallen it since it was the status of the system (Strays)
  mishaps     \* how many of them there were

vars == <<runs, enabled, paused, suppressed, exec, client, leaked, told, astray, mishaps>>

\* pc: where it is. path: how it got there, "normal", "failed" (the catch block of
\* the connection) or "caught" (the outer one). stored: runs it has stored.
Idle == [pc |-> "idle", check |-> None, path |-> "normal", previous |-> "healthy",
         status |-> "healthy", new |-> "healthy", stored |-> 0]

Init ==
  /\ runs = [c \in Checks |-> << >>]
  /\ enabled = Checks /\ paused = {} /\ suppressed = FALSE
  /\ exec = [e \in Executions |-> Idle]
  /\ client = [e \in Executions |-> "none"] /\ leaked = FALSE
  /\ told = "healthy" /\ astray = FALSE /\ mishaps = 0

\* getSystemHealthStatus.
SystemStatus == Worst({EvaluateHealthStatus(runs[c], Thresholds[c]) : c \in enabled})

\* It is between its reading of the status and its notification.
Comparing(e) == exec[e].pc \notin {"idle", "hook"}

\* What subscribers were told goes astray if this holds.
Strays(bad) == astray' = (astray \/ bad)

Mishap == mishaps < MaxMishaps /\ mishaps' = mishaps + 1

At(e, pc) == exec[e].pc = pc
GoesTo(e, pc) == exec' = [exec EXCEPT ![e].pc = pc]

\* connectedClient.close() in the finally block, if the client is known by then.
Closed(state) == IF state = "open" THEN "none" ELSE state

\* The execution is over, in this state of its connection.
Ends(e, state) ==
  /\ exec' = [exec EXCEPT ![e] = Idle]
  /\ client' = [client EXCEPT ![e] = "none"]
  /\ leaked' = (leaked \/ state = "open")

LeaveMutant(e) == Ends(e, client[e])

\* The execution returns or throws; the inner finally block runs if it was in the
\* catch block of the connection. (The queue does not retry.)
Leave(e) == Ends(e, IF exec[e].path = "failed" THEN Closed(client[e]) ELSE client[e])

\* Something throws: the outer catch block stores an unhealthy run, unless it is
\* that block that threw.
Throws(e) ==
  IF exec[e].path = "caught" THEN Leave(e)
  ELSE /\ exec' = [exec EXCEPT ![e].pc = "store", ![e].path = "caught", ![e].status = "unhealthy"]
       /\ client' = [client EXCEPT ![e] = IF exec[e].path = "failed" THEN Closed(@) ELSE @]
       /\ UNCHANGED leaked

-----------------------------------------------------------------------------
(* Before and during the check *)

Start(e, c) ==
  /\ At(e, "idle")
  /\ exec' = [exec EXCEPT ![e] = [Idle EXCEPT !.pc = "fetch", !.check = c, !.previous = SystemStatus]]
  /\ UNCHANGED <<runs, enabled, paused, suppressed, client, told, astray, leaked, mishaps>>

\* A disabled or paused check is skipped. Otherwise createClient is called.
FetchConfig(e) ==
  /\ At(e, "fetch")
  /\ IF exec[e].check \in enabled \ paused
     THEN /\ GoesTo(e, "connecting") /\ client' = [client EXCEPT ![e] = "connecting"]
          /\ UNCHANGED leaked
     ELSE Leave(e)
  /\ UNCHANGED <<runs, enabled, paused, suppressed, told, astray, mishaps>>

\* createClient resolves ...
Connected(e) ==
  /\ At(e, "connecting")
  /\ client' = [client EXCEPT ![e] = "open"]
  /\ GoesTo(e, "collecting")
  /\ UNCHANGED <<runs, enabled, paused, suppressed, told, astray, leaked, mishaps>>

\* The catch block of the connection.
CheckFails(e) ==
  exec' = [exec EXCEPT ![e].pc = "store", ![e].path = "failed", ![e].status = "unhealthy"]

\* ... or rejects.
Refused(e) ==
  /\ Mishap /\ At(e, "connecting")
  /\ client' = [client EXCEPT ![e] = "none"]
  /\ CheckFails(e)
  /\ UNCHANGED <<runs, enabled, paused, suppressed, told, astray, leaked>>

\* The collectors are done: the client is closed, and the run is healthy or not.
Collected(e, status) ==
  /\ At(e, "collecting")
  /\ exec' = [exec EXCEPT ![e].pc = "store", ![e].status = status]
  /\ client' = [client EXCEPT ![e] = Closed(@)]
  /\ UNCHANGED <<runs, enabled, paused, suppressed, told, astray, leaked, mishaps>>

TimeoutMutant(e) ==
  /\ Mishap /\ At(e, "collecting")
  /\ CheckFails(e)
  /\ UNCHANGED <<runs, enabled, paused, suppressed, client, told, astray, leaked>>

\* The timeout wins the race. What it raced with goes on.
Timeout(e) ==
  /\ \/ /\ At(e, "connecting")
        /\ client' = [client EXCEPT ![e] = "late"] /\ UNCHANGED mishaps
     \/ /\ At(e, "collecting")
        /\ Mishap /\ UNCHANGED client
  /\ CheckFails(e)
  /\ UNCHANGED <<runs, enabled, paused, suppressed, told, astray, leaked>>

-----------------------------------------------------------------------------
(* After the check *)

\* The insert of the run, whose status is not needed any more, nor are older runs
\* than those read. If it changes the status, an execution that has read the old
\* status will compare with that.
StoreRun(e) ==
  /\ At(e, "store")
  /\ runs' = [runs EXCEPT ![exec[e].check] =
                SubSeq(<<exec[e].status>> \o @, 1,
                       IF Len(@) < maxWindowSize THEN Len(@) + 1 ELSE maxWindowSize)]
  /\ exec' = [exec EXCEPT ![e].pc = "signal", ![e].status = "healthy", ![e].stored = @ + 1]
  /\ UNCHANGED <<enabled, paused, suppressed, client, told, leaked, mishaps>>
  /\ Strays((\E d \in Executions \ {e} : Comparing(d)) /\ SystemStatus' # SystemStatus)

\* The insert of the run fails, or the query of the configuration or the new status.
\* In the outer catch block that ends the execution, its comparison undone.
QueryFails(e) ==
  /\ Mishap /\ exec[e].pc \in {"fetch", "store", "compare"}
  /\ Throws(e)
  /\ Strays(exec[e].path = "caught")
  /\ UNCHANGED <<runs, enabled, paused, suppressed, told>>

Broadcast(e) ==
  /\ At(e, "signal")
  /\ GoesTo(e, "compare")
  /\ UNCHANGED <<runs, enabled, paused, suppressed, client, told, astray, leaked, mishaps>>

\* The aggregation of the run or its signal fails.
BroadcastFails(e) ==
  /\ Mishap /\ At(e, "signal")
  /\ Throws(e)
  /\ Strays(exec[e].path = "caught")
  /\ UNCHANGED <<runs, enabled, paused, suppressed, told>>

CompareStateMutant(e) ==
  /\ At(e, "compare")
  /\ IF EvaluateHealthStatus(runs[exec[e].check], Thresholds[exec[e].check]) = exec[e].previous THEN Leave(e)
     ELSE /\ exec' = [exec EXCEPT ![e].pc = "notify", ![e].new = SystemStatus]
          /\ UNCHANGED <<client, leaked>>
  /\ UNCHANGED <<runs, enabled, paused, suppressed, told, astray, mishaps>>

CompareState(e) ==
  /\ At(e, "compare")
  /\ IF SystemStatus = exec[e].previous THEN Leave(e)
     ELSE /\ exec' = [exec EXCEPT ![e].pc = "notify", ![e].new = SystemStatus]
          /\ UNCHANGED <<client, leaked>>
  /\ UNCHANGED <<runs, enabled, paused, suppressed, told, astray, mishaps>>

\* A hook is due for recovery, and for leaving healthy.
HookDue(previous, new) == new = "healthy" \/ previous = "healthy"

\* The status is told: of the system, with no comparison under way, that is right.
Told(e) ==
  /\ told' = exec[e].new
  /\ astray' = (astray /\ (exec[e].new # SystemStatus
                           \/ \E d \in Executions \ {e} : Comparing(d)))

\* notifyStateChange, best effort: a query of the suppression that fails counts as
\* none, a failure to notify is logged. Only the other two paths go on to the hooks.
NotifyStateChange(e) ==
  /\ At(e, "notify")
  /\ \/ Told(e) /\ IF suppressed THEN Mishap ELSE UNCHANGED mishaps
     \/ Strays(TRUE) /\ UNCHANGED told /\ IF suppressed THEN UNCHANGED mishaps ELSE Mishap
  /\ IF exec[e].path # "failed" /\ HookDue(exec[e].previous, exec[e].new)
     THEN /\ exec' = [exec EXCEPT ![e].pc = "hook", ![e].new = "healthy"]
          /\ UNCHANGED <<client, leaked>>
     ELSE Leave(e)
  /\ UNCHANGED <<runs, enabled, paused, suppressed>>

EmitHook(e) ==
  /\ At(e, "hook")
  /\ Leave(e)
  /\ UNCHANGED <<runs, enabled, paused, suppressed, told, astray, mishaps>>

\* The outer catch block then stores a run, and compares with a status of long ago.
EmitHookFails(e) ==
  /\ Mishap /\ At(e, "hook")
  /\ Throws(e)
  /\ Strays(exec[e].path # "caught")
  /\ UNCHANGED <<runs, enabled, paused, suppressed, told>>

-----------------------------------------------------------------------------
(* Administrators *)

\* associateSystem with the other value of enabled; nothing is scheduled off or told.
ToggleEnabled(c) ==
  /\ Mishap
  /\ enabled' = IF c \in enabled THEN enabled \ {c} ELSE enabled \cup {c}
  /\ UNCHANGED <<runs, paused, suppressed, exec, client, told, leaked>>
  /\ Strays(SystemStatus' # SystemStatus)

PauseOrResume(c) ==
  /\ Mishap
  /\ paused' = IF c \in paused THEN paused \ {c} ELSE paused \cup {c}
  /\ UNCHANGED <<runs, enabled, suppressed, exec, client, told, astray, leaked>>

ToggleSuppression ==
  /\ Mishap
  /\ suppressed' = ~suppressed
  /\ UNCHANGED <<runs, enabled, paused, exec, client, told, astray, leaked>>

Step(e) ==
  \/ FetchConfig(e) \/ Timeout(e)
  \/ \E status \in {"healthy", "unhealthy"} : Collected(e, status)
  \/ StoreRun(e) \/ QueryFails(e) \/ Broadcast(e) \/ BroadcastFails(e)
  \/ CompareState(e) \/ NotifyStateChange(e) \/ EmitHook(e) \/ EmitHookFails(e)

Next ==
  \/ \E e \in Executions :
       \/ Step(e) \/ Connected(e) \/ Refused(e)
       \/ \E c \in Checks : Start(e, c)
  \/ \E c \in Checks : ToggleEnabled(c) \/ PauseOrResume(c)
  \/ ToggleSuppression

Spec == Init /\ [][Next]_vars

\* Awaited calls settle and the timeout fires, but a connection may never be
\* answered, and the queue need not deliver another job.
FairSpec == Spec /\ \A e \in Executions : WF_vars(Step(e))

-----------------------------------------------------------------------------
(* Properties *)

\* Types.
TypeOK ==
  /\ runs \in [Checks -> UNION {[1..n -> {"healthy", "unhealthy"}] : n \in 0..maxWindowSize}]
  /\ enabled \subseteq Checks /\ paused \subseteq Checks /\ suppressed \in BOOLEAN
  /\ exec \in [Executions ->
       [pc : {"idle", "fetch", "connecting", "collecting", "store", "signal", "compare",
              "notify", "hook"},
        check : Checks \cup {None}, path : {"normal", "failed", "caught"},
        previous : HealthCheckStatus, status : {"healthy", "unhealthy"},
        new : HealthCheckStatus, stored : 0..2]]
  /\ client \in [Executions -> {"none", "connecting", "open", "late"}] /\ leaked \in BOOLEAN
  /\ told \in HealthCheckStatus /\ astray \in BOOLEAN
  /\ mishaps \in 0..MaxMishaps

Quiet == \A e \in Executions : At(e, "idle")

\* core/healthcheck-backend/src/queue-executor.ts:171, "All health checks are now
\* passing": once subscribers were told the status, they know it whenever nothing is
\* being executed, whatever executions overlap and fail; until a run changes it
\* between another's reading and comparison, the outer catch block fails too or runs
\* for a hook, a notification fails or is suppressed, or an administrator changes it.
ToldCurrent == Quiet /\ ~astray => told = SystemStatus

\* docs/backend/healthcheck-strategies.md:28, "Ensuring `close()` is called in a
\* `finally` block": whatever else fails, no connection that was made in time stays
\* open when its execution is over.
ClientsClosed == ~leaked

\* An execution stores one run, also when the timeout wins the race and what it
\* raced with goes on, unless one of its queries, signals or hooks fails.
OneRunEach == \A e \in Executions : exec[e].path # "caught" => exec[e].stored <= 1

\* CHANGELOG.md:15 of the package, "ensuring checks never hang indefinitely": every
\* execution ends, although a connection may never be answered.
ExecutionsEnd == \A e \in Executions : []<>At(e, "idle")

-----------------------------------------------------------------------------
(* What the documentation promises and the code does not keep (README.md) *)

\* core/healthcheck-backend/src/queue-executor.ts:120, "Only notify on actual state
\* changes": subscribers are not told twice of the same status in a row.
NotToldTwice ==
  [][\A e \in Executions : At(e, "notify") /\ exec'[e].pc # "notify" => exec[e].new # told]_vars

\* docs/backend/healthcheck-strategies.md:28, without the exception of ClientsClosed:
\* no execution ends while its connection is still being made.
NoneLeftBehind ==
  [][\A e \in Executions : ~At(e, "idle") /\ exec'[e].pc = "idle" => client[e] # "late"]_vars

\* core/healthcheck-backend/src/hooks.ts:9-11, "Emitted when a system's aggregated
\* health status degrades. This fires when status changes from healthy to
\* degraded/unhealthy, or from degraded to unhealthy."
HookedDegradation ==
  [][\A e \in Executions :
       At(e, "notify") /\ exec'[e].pc # "notify"
       /\ \/ exec[e].previous = "healthy"
          \/ exec[e].previous = "degraded" /\ exec[e].new = "unhealthy"
         => exec'[e].pc = "hook"]_vars
=============================================================================
