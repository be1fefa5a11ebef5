----------------------- MODULE HealthCheckScheduling -----------------------
(***************************************************************************)
(* core/healthcheck-backend: the recurring job of every health check that  *)
(* is enabled for a system. router.ts and service.ts write associations    *)
(* and schedule; queue-executor.ts schedules all and cancels orphans when  *)
(* an instance starts, while it already serves requests; index.ts forgets  *)
(* the associations of deleted systems. Nothing else cancels a job: the    *)
(* executor skips what is not enabled. The interval is left out (an edit   *)
(* of it reaches no job before the next schedule).                         *)
(***************************************************************************)
EXTENDS FiniteSets

CONSTANTS
  CheckedSystems, Configs, \* ids
  Schedulers,              \* administrators, each with one request at a time
  Instances,
  Deployments              \* functions from Instances to the queues they use

\* Deployments name the queue of each instance, and there are instances.
ASSUME DeploymentAssumption ==
  Instances # {} /\ \A d \in Deployments : DOMAIN d = Instances

VARIABLES
  deployment,    \* which of them this is
  configs,       \* rows of health_check_configurations
  associations,  \* rows of system_health_checks: what they say, or "none"
  jobs,          \* recurring jobs of each queue
  scheduling,    \* each administrator's associateSystem
  starting,      \* each instance's bootstrapHealthChecks
  unscheduled    \* history: checks that a failure or overlap may have left without job

schedulingVars == <<deployment, configs, associations, jobs, scheduling, starting, unscheduled>>

Checks == CheckedSystems \X Configs
NoRequest == [pc |-> "idle", check |-> <<>>, at |-> "none"]
Off == [pc |-> "off", expected |-> {}, todo |-> {}]

\* A database may hold configurations and associations when the instances start.
SchedulingInit ==
  /\ deployment \in Deployments
  /\ configs \in [Configs -> {"unborn", "present"}]
  /\ associations \in [Checks -> {"none", "enabled"}]
  /\ \A k \in Checks : associations[k] # "none" => configs[k[2]] = "present"
  /\ jobs = [q \in UNION {{d[i] : i \in Instances} : d \in Deployments} |-> {}]
  /\ scheduling = [k \in Schedulers |-> NoRequest]
  /\ starting = [i \in Instances |-> Off]
  /\ unscheduled = {}

\* Definitions named ...Mutant are plausible bugs, used only to show that the
\* properties below can fail.

Enabled == {k \in Checks : associations[k] = "enabled"}
Queue(i) == deployment[i]

\* An instance that shares i's queue has read the associations without check k
\* and is going to cancel what it did not find.
CancellationAhead(i, k) ==
  \E j \in Instances : /\ Queue(j) = Queue(i) /\ starting[j].pc \in {"schedule", "cancel"}
                       /\ k \notin starting[j].expected

-----------------------------------------------------------------------------
(* Requests *)

CreateConfiguration(c) ==
  /\ configs[c] = "unborn"
  /\ configs' = [configs EXCEPT ![c] = "present"]
  /\ UNCHANGED <<deployment, associations, jobs, scheduling, starting, unscheduled>>

\* The associations go with it, their jobs do not.
DeleteConfiguration(c) ==
  /\ configs[c] = "present"
  /\ configs' = [configs EXCEPT ![c] = "deleted"]
  /\ associations' = [k \in Checks |-> IF k[2] = c THEN "none" ELSE associations[k]]
  /\ UNCHANGED <<deployment, jobs, scheduling, starting, unscheduled>>

\* associateSystem at instance i: the row, whether or not the system exists.
AssociateSystem(who, i, k, enabled) ==
  /\ scheduling[who].pc = "idle" /\ starting[i].pc # "off" /\ configs[k[2]] = "present"
  /\ associations' = [associations EXCEPT ![k] = IF enabled THEN "enabled" ELSE "disabled"]
  /\ scheduling' = IF enabled
                   THEN [scheduling EXCEPT ![who] = [pc |-> "readConfig", check |-> k, at |-> i]]
                   ELSE scheduling
  /\ unscheduled' = IF enabled /\ CancellationAhead(i, k) THEN unscheduled \cup {k} ELSE unscheduled
  /\ UNCHANGED <<deployment, configs, jobs, starting>>

\* getConfiguration, then scheduleHealthCheck.
ReadConfig(who) ==
  /\ scheduling[who].pc = "readConfig"
  /\ scheduling' = IF configs[scheduling[who].check[2]] = "present"
                   THEN [scheduling EXCEPT ![who].pc = "schedule"]
                   ELSE [scheduling EXCEPT ![who] = NoRequest]
  /\ UNCHANGED <<deployment, configs, associations, jobs, starting, unscheduled>>

ScheduleHealthCheck(who) ==
  /\ scheduling[who].pc = "schedule"
  /\ jobs' = [jobs EXCEPT ![Queue(scheduling[who].at)] = @ \cup {scheduling[who].check}]
  /\ scheduling' = [scheduling EXCEPT ![who] = NoRequest]
  /\ UNCHANGED <<deployment, configs, associations, starting, unscheduled>>

\* A query fails, or the queue refuses the job.
SchedulingFails(who) ==
  /\ scheduling[who].pc # "idle"
  /\ scheduling' = [scheduling EXCEPT ![who] = NoRequest]
  /\ unscheduled' = unscheduled \cup {scheduling[who].check}
  /\ UNCHANGED <<deployment, configs, associations, jobs, starting>>

DisassociateSystem(k) ==
  /\ associations[k] # "none"
  /\ associations' = [associations EXCEPT ![k] = "none"]
  /\ UNCHANGED <<deployment, configs, jobs, scheduling, starting, unscheduled>>

RemoveAllSystemAssociationsMutant(s) ==
  /\ associations' = [k \in Checks |-> IF k[1] = s /\ k \in Enabled THEN "none" ELSE associations[k]]
  /\ UNCHANGED <<deployment, configs, jobs, scheduling, starting, unscheduled>>

\* The handler of systemDeleted.
RemoveAllSystemAssociations(s) ==
  /\ associations' = [k \in Checks |-> IF k[1] = s THEN "none" ELSE associations[k]]
  /\ UNCHANGED <<deployment, configs, jobs, scheduling, starting, unscheduled>>

-----------------------------------------------------------------------------
(* bootstrapHealthChecks *)

StartReadEnabled(i) ==
  /\ starting[i].pc = "off"
  /\ starting' = [starting EXCEPT ![i] = [pc |-> "schedule", expected |-> Enabled, todo |-> Enabled]]
  /\ UNCHANGED <<deployment, configs, associations, jobs, scheduling, unscheduled>>

StartSchedule(i) ==
  /\ starting[i].pc = "schedule"
  /\ \E k \in starting[i].todo :
       /\ jobs' = [jobs EXCEPT ![Queue(i)] = @ \cup {k}]
       /\ starting' = [starting EXCEPT ![i].todo = @ \ {k}]
  /\ UNCHANGED <<deployment, configs, associations, scheduling, unscheduled>>

StartListOrphansMutant(i) ==
  /\ starting[i].pc = "schedule" /\ starting[i].todo = {}
  /\ starting' = [starting EXCEPT ![i].pc = "cancel", ![i].todo = starting[i].expected \cap jobs[Queue(i)]]
  /\ UNCHANGED <<deployment, configs, associations, jobs, scheduling, unscheduled>>

StartListOrphans(i) ==
  /\ starting[i].pc = "schedule" /\ starting[i].todo = {}
  /\ starting' = [starting EXCEPT ![i].pc = "cancel", ![i].todo = jobs[Queue(i)] \ starting[i].expected]
  /\ UNCHANGED <<deployment, configs, associations, jobs, scheduling, unscheduled>>

StartCancel(i) ==
  /\ starting[i].pc = "cancel"
  /\ \E k \in starting[i].todo :
       /\ jobs' = [jobs EXCEPT ![Queue(i)] = @ \ {k}]
       /\ starting' = [starting EXCEPT ![i].todo = @ \ {k}]
  /\ UNCHANGED <<deployment, configs, associations, scheduling, unscheduled>>

StartEnds(i) ==
  /\ starting[i].pc = "cancel" /\ starting[i].todo = {}
  /\ starting' = [starting EXCEPT ![i] = [Off EXCEPT !.pc = "up"]]
  /\ UNCHANGED <<deployment, configs, associations, jobs, scheduling, unscheduled>>

Crash(i) ==
  LET lost == {k \in Schedulers : scheduling[k].at = i} IN
  /\ starting[i].pc # "off"
  /\ starting' = [starting EXCEPT ![i] = Off]
  /\ scheduling' = [k \in Schedulers |-> IF k \in lost THEN NoRequest ELSE scheduling[k]]
  /\ jobs' = IF \E j \in Instances \ {i} : Queue(j) = Queue(i) THEN jobs
             ELSE [jobs EXCEPT ![Queue(i)] = {}]
  /\ UNCHANGED <<deployment, configs, associations, unscheduled>>

-----------------------------------------------------------------------------
(* Properties *)

SchedulingAtRest ==
  /\ \A k \in Schedulers : scheduling[k].pc = "idle"
  /\ \A i \in Instances : starting[i].pc = "up"

\* Types, and what the foreign key sees to.
SchedulingTypeOK ==
  /\ associations \in [Checks -> {"none", "enabled", "disabled"}]
  /\ \A k \in Checks : associations[k] # "none" => configs[k[2]] = "present"
  /\ \A q \in DOMAIN jobs : jobs[q] \subseteq Checks
  /\ unscheduled \subseteq Checks

\* core/healthcheck-backend/src/router.ts:132, "If enabling the health check, schedule
\* it immediately": whatever requests, starting instances and crashes do in between,
\* an enabled check has a job somewhere, unless it was enabled while a starting
\* instance was about to cancel the jobs it had not found enabled, or a query or the
\* queue failed in its request. (A crash in its request loses nothing: the instance
\* schedules the check when it starts again.)
EnabledChecksScheduled ==
  SchedulingAtRest => \A k \in Enabled \ unscheduled : \E q \in DOMAIN jobs : k \in jobs[q]
=============================================================================
