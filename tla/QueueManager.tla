---------------------------- MODULE QueueManager ----------------------------
(***************************************************************************)
(* core/backend/src/services/queue-manager.ts on every instance of a       *)
(* deployment: booting, switching the queue backend, and following, by     *)
(* polling, the switches of other instances. The instances share two rows  *)
(* of the configuration table: the config of each queue plugin, and the    *)
(* pointer "queue:active". Each await is a gap between two actions, and    *)
(* nothing keeps switches, polls and the boot of an instance apart.        *)
(*                                                                         *)
(* A proxy is reduced to the setting its delegate was created with and to  *)
(* its stopped flag; module QueueProxy has the rest.                       *)
(***************************************************************************)
EXTENDS Integers, FiniteSets

\* Definitions named ...Mutant are plausible bugs, used only to show that the
\* properties can fail.
CONSTANTS
  Instances,
  Names,         \* queue names that getQueue is asked for
  Plugins,       \* registered queue plugins, "memory" among them
  Configs,       \* values of a plugin's config, "default" among them
  Targets,       \* settings that administrators switch to
  Shared,        \* plugins whose queues live outside the process (Redis)
  Ticks,         \* poll callbacks of one instance that may overlap
  MaxCalls,      \* bound: calls of setActiveBackend
  Limits,        \* bounds: each behaviour keeps within one of these
  None

ASSUME DefaultAssumption == "memory" \in Plugins \ Shared /\ "default" \in Configs

Setting == [plugin : Plugins, config : Configs]
DefaultSetting == [plugin |-> "memory", config |-> "default"]
ASSUME TargetAssumption == Targets \subseteq Setting

\* What happens in a behaviour: the instances that start, the queues they are asked
\* for and those with a recurring job, the poll callbacks that overlap, the calls of
\* setActiveBackend, and how many restarts and failures there are.
Limit == [instances : SUBSET Instances, names : SUBSET Names, recurring : SUBSET Names,
          ticks : SUBSET Ticks, calls : 0..MaxCalls, mishaps : Nat]
ASSUME LimitAssumption == MaxCalls \in Nat /\ Limits \subseteq Limit
ASSUME NoneAssumption ==
  None \notin Names \cup Instances \cup Plugins \cup Configs \cup Setting \cup [plugin : Plugins, version : Nat]

VARIABLES
  row,           \* database: config stored for each plugin, or None
  pointer,       \* database: active plugin and version, or None
  phase,         \* boot: plugins load, then the pointer, then its row is read;
                 \* "defaults" if one of these reads failed
  loading,       \* the plugin whose row the boot reads, or None
  active,        \* activePluginId and activeConfig
  version,       \* configVersion
  delegate,      \* setting of each proxy's queue, None before getQueue
  open,          \* proxies not stopped
  jobs,          \* recurring jobs in the delegates that live in the process
  stored,        \* recurring jobs in shared backends
  call,          \* the calls of setActiveBackend, numbered as they begin
  reload,        \* the poll callbacks of each instance
  limits,        \* the bounds of this behaviour ...
  mishaps,       \* ... and its restarts and failures so far
  torn,          \* history: the row the pointer names is not what its switch wrote
  behind,        \* history: proxies that a failure left with another delegate, or
                 \* that were created before the stored setting was loaded
  overlapped,    \* history: a loop over the proxies began, or the stored setting was
                 \* loaded, during another loop, and none has begun alone since
  issued,        \* history: versions that switches counted up to ...
  ambiguous      \* ... and those that stand for two settings

database == <<row, pointer, torn>>
local == <<phase, loading, active, version>>
proxies == <<delegate, open, jobs, stored, behind>>
bounds == <<limits, mishaps>>
versions == <<issued, ambiguous>>
vars == <<database, local, proxies, call, reload, limits, mishaps, overlapped, versions>>

Calls == 1..MaxCalls
Unused == [pc |-> "unused", at |-> None, target |-> DefaultSetting, done |-> {},
           recurring |-> {}, issued |-> 0, version |-> 0]
Over == [Unused EXCEPT !.pc = "over"]
NoReload == [pc |-> "idle", seen |-> None, config |-> "default", done |-> {}]

Init ==
  /\ row = [p \in Plugins |-> None] /\ pointer = None /\ torn = FALSE
  /\ phase = [i \in Instances |-> "plugins"]
  /\ loading = [i \in Instances |-> None]
  /\ active = [i \in Instances |-> DefaultSetting]
  /\ version = [i \in Instances |-> 0]
  /\ delegate = [i \in Instances |-> [n \in Names |-> None]]
  /\ open = [i \in Instances |-> {}]
  /\ jobs = [i \in Instances |-> {}]
  /\ stored = [s \in Setting |-> {}]
  /\ call = [c \in Calls |-> Unused]
  /\ reload = [i \in Instances |-> [t \in Ticks |-> NoReload]]
  /\ limits \in Limits /\ mishaps = 0
  /\ behind = [i \in Instances |-> {}] /\ overlapped = [i \in Instances |-> FALSE]
  /\ issued = {} /\ ambiguous = {}

\* The keys of queueProxies. The loops over this Map see what is added to it.
Proxies(i) == {n \in Names : delegate[i][n] # None}

\* The queues whose recurring job the backend of their delegate runs.
Scheduled(i) ==
  {n \in Proxies(i) : IF delegate[i][n].plugin \in Shared THEN n \in stored[delegate[i][n]]
                                                           ELSE n \in jobs[i]}

\* A call or a poll callback of the instance is in a loop over the proxies.
Looping(i) ==
  \/ \E c \in Calls : call[c].at = i /\ call[c].pc \in {"stopping", "replacing"}
  \/ \E t \in Ticks : reload[i][t].pc = "replacing"

LoopBegins(i) == overlapped' = [overlapped EXCEPT ![i] = Looping(i)]

\* switchDelegate, up to its subscriptions: a new queue in the process knows no
\* recurring job, one outside those it always had.
SwitchDelegate(i, n, setting) ==
  /\ delegate' = [delegate EXCEPT ![i][n] = setting]
  /\ open' = [open EXCEPT ![i] = @ \cup {n}]
  /\ jobs' = [jobs EXCEPT ![i] = @ \ {n}]
  /\ behind' = [behind EXCEPT ![i] = @ \ {n}]
  /\ UNCHANGED stored

Mishap == mishaps < limits.mishaps /\ mishaps' = mishaps + 1 /\ UNCHANGED limits

-----------------------------------------------------------------------------
(* Boot (core/backend/src/index.ts) and the users of queues *)

\* getQueue, first call for a name: of plugins while they load, and of others.
\* (A configVersion of 0 comes with the memory plugin, so a queue is created.)
GetQueue(i, n) ==
  /\ i \in limits.instances /\ n \in limits.names \ Proxies(i)
  /\ SwitchDelegate(i, n, active[i])
  /\ UNCHANGED <<database, local, call, reload, bounds, overlapped, versions>>

\* scheduleRecurring on the queue's proxy.
ScheduleRecurring(i, n) ==
  /\ n \in open[i] \cap limits.recurring
  /\ IF delegate[i][n].plugin \in Shared
     THEN stored' = [stored EXCEPT ![delegate[i][n]] = @ \cup {n}] /\ UNCHANGED jobs
     ELSE jobs' = [jobs EXCEPT ![i] = @ \cup {n}] /\ UNCHANGED stored
  /\ UNCHANGED <<database, local, delegate, open, behind, call, reload, bounds, overlapped, versions>>

LoadPlugins(i) ==
  /\ i \in limits.instances /\ phase[i] = "plugins"
  /\ phase' = [phase EXCEPT ![i] = "pointer"]
  /\ UNCHANGED <<database, loading, active, version, proxies, call, reload, bounds, overlapped, versions>>

\* loadConfiguration assigns a setting; the queues that exist keep their delegates.
Load(i, setting) ==
  /\ active' = [active EXCEPT ![i] = setting]
  /\ behind' = [behind EXCEPT ![i] = IF setting = active[i] THEN @ ELSE Proxies(i)]
  /\ overlapped' = [overlapped EXCEPT ![i] = @ \/ (setting # active[i] /\ Looping(i))]
  /\ UNCHANGED <<database, delegate, open, jobs, stored, call, reload, bounds, versions>>

LoadPointer(i) ==
  /\ phase[i] = "pointer"
  /\ IF pointer = None
     THEN /\ phase' = [phase EXCEPT ![i] = "running"]
          /\ Load(i, active[i])
          /\ UNCHANGED <<loading, version>>
     ELSE /\ phase' = [phase EXCEPT ![i] = "row"]
          /\ loading' = [loading EXCEPT ![i] = pointer.plugin]
          /\ Load(i, [active[i] EXCEPT !.plugin = pointer.plugin])
          /\ version' = [version EXCEPT ![i] = pointer.version]

LoadRow(i) ==
  /\ phase[i] = "row"
  /\ phase' = [phase EXCEPT ![i] = "running"]
  /\ loading' = [loading EXCEPT ![i] = None]
  /\ LET config == row[loading[i]]
     IN Load(i, IF config = None THEN active[i] ELSE [active[i] EXCEPT !.config = config])
  /\ UNCHANGED version

\* One of the two reads fails: "Continue with defaults".
LoadFails(i) ==
  /\ Mishap /\ phase[i] \in {"pointer", "row"}
  /\ phase' = [phase EXCEPT ![i] = "defaults"]
  /\ loading' = [loading EXCEPT ![i] = None]
  /\ UNCHANGED <<database, active, version, proxies, call, reload, overlapped, versions>>

\* The process ends at any point, and boots again. Shared backends and the
\* database survive.
Restart(i) ==
  /\ Mishap /\ i \in limits.instances
  /\ phase' = [phase EXCEPT ![i] = "plugins"]
  /\ loading' = [loading EXCEPT ![i] = None]
  /\ active' = [active EXCEPT ![i] = DefaultSetting]
  /\ version' = [version EXCEPT ![i] = 0]
  /\ delegate' = [delegate EXCEPT ![i] = [n \in Names |-> None]]
  /\ open' = [open EXCEPT ![i] = {}]
  /\ jobs' = [jobs EXCEPT ![i] = {}]
  /\ behind' = [behind EXCEPT ![i] = {}]
  /\ overlapped' = [overlapped EXCEPT ![i] = FALSE]
  /\ call' = [c \in Calls |-> IF call[c].at = i THEN Over ELSE call[c]]
  /\ reload' = [reload EXCEPT ![i] = [t \in Ticks |-> NoReload]]
  /\ UNCHANGED <<database, stored, versions>>

-----------------------------------------------------------------------------
(* setActiveBackend: an administrator's request is answered by any instance, also
   while it boots, and while it or another works on an earlier one. Where the step
   of a call says "i", it is the instance that was asked. *)

\* Steps 1 to 5; without a connection the call throws and changes nothing.
SwitchStart(c, i, target) ==
  /\ c \leq limits.calls /\ i \in limits.instances
  /\ call[c].pc = "unused" /\ \A d \in 1..(c - 1) : call[d].pc # "unused"
  /\ call' = [call EXCEPT ![c] = [Unused EXCEPT !.pc = "stopping", !.at = i, !.target = target,
                                                 !.recurring = Scheduled(i)]]
  /\ LoopBegins(i)
  /\ UNCHANGED <<database, local, proxies, reload, bounds, versions>>

\* Step 6, one proxy at a time. A stopped queue in the process runs no jobs; a
\* failing stop is caught, and the proxy is closed all the same.
SwitchStop(c, n) ==
  LET i == call[c].at
  IN /\ call[c].pc = "stopping" /\ n \in Proxies(i) \ call[c].done
     /\ call' = [call EXCEPT ![c].done = @ \cup {n}]
     /\ open' = [open EXCEPT ![i] = @ \ {n}]
     /\ jobs' = [jobs EXCEPT ![i] = @ \ {n}]
     /\ UNCHANGED <<database, local, delegate, stored, behind, reload, bounds, overlapped, versions>>

SwitchCommitMutant(c) ==
  LET i == call[c].at
  IN /\ call[c].pc = "stopping" /\ call[c].done = Proxies(i)
     /\ call' = [call EXCEPT ![c].pc = "replacing", ![c].done = {}]
     /\ active' = [active EXCEPT ![i] = call[c].target]
     /\ UNCHANGED <<database, phase, loading, version, proxies, reload, bounds, overlapped, versions>>

\* Step 7. Before the boot has read the row, it assigns a config of its own to the
\* version of this call.
SwitchCommit(c) ==
  LET i == call[c].at
      next == version[i] + 1
  IN /\ call[c].pc = "stopping" /\ call[c].done = Proxies(i)
     /\ call' = [call EXCEPT ![c].pc = "replacing", ![c].done = {}, ![c].issued = next]
     /\ active' = [active EXCEPT ![i] = call[c].target]
     /\ version' = [version EXCEPT ![i] = next]
     /\ phase' = [phase EXCEPT ![i] = IF @ = "defaults" THEN "running" ELSE @]
     /\ issued' = issued \cup {next}
     /\ ambiguous' = IF next \in issued \/ phase[i] = "row" THEN ambiguous \cup {next} ELSE ambiguous
     /\ UNCHANGED <<database, loading, proxies, reload, bounds, overlapped>>

\* Step 8, one proxy at a time.
SwitchReplace(c, n) ==
  LET i == call[c].at
  IN /\ call[c].pc = "replacing" /\ n \in Proxies(i) \ call[c].done
     /\ call' = [call EXCEPT ![c].done = @ \cup {n}]
     /\ SwitchDelegate(i, n, call[c].target)
     /\ UNCHANGED <<database, local, reload, bounds, overlapped, versions>>

\* Step 9 asks the proxy for the details of each collected job and schedules
\* what it gets: by now the delegate that answers is the one that is told.
SwitchMigrate(c) ==
  /\ call[c].pc = "replacing" /\ call[c].done = Proxies(call[c].at)
  /\ call' = [call EXCEPT ![c].pc = "row"]
  /\ UNCHANGED <<database, local, proxies, reload, bounds, overlapped, versions>>

\* Step 10: the first write, reading configVersion when it has returned, and the
\* second write.
SaveRow(c) ==
  LET target == call[c].target
  IN /\ call[c].pc = "row"
     /\ call' = [call EXCEPT ![c].pc = "version"]
     /\ row' = [row EXCEPT ![target.plugin] = target.config]
     /\ torn' = (torn \/ (row' # row /\ pointer # None /\ pointer.plugin = target.plugin))
     /\ UNCHANGED <<pointer, local, proxies, reload, bounds, overlapped, versions>>

ReadVersion(c) ==
  /\ call[c].pc = "version"
  /\ call' = [call EXCEPT ![c].pc = "pointer", ![c].version = version[call[c].at]]
  /\ UNCHANGED <<database, local, proxies, reload, bounds, overlapped, versions>>

SavePointer(c) ==
  LET target == call[c].target
  IN /\ call[c].pc = "pointer"
     /\ call' = [call EXCEPT ![c] = Over]
     /\ pointer' = [plugin |-> target.plugin, version |-> call[c].version]
     /\ torn' = (row[target.plugin] # target.config)
     /\ ambiguous' = IF call[c].version # call[c].issued THEN ambiguous \cup {call[c].version}
                                                        ELSE ambiguous
     /\ UNCHANGED <<row, local, proxies, reload, bounds, overlapped, issued>>

\* switchDelegate or configService.set throws, before or after it has done its
\* work: the administrator is told, and the process goes on from there.
SwitchThrows(c) ==
  LET i == call[c].at
  IN /\ Mishap /\ call[c].pc \in {"replacing", "row", "version", "pointer"}
     /\ call' = [call EXCEPT ![c] = Over]
     /\ behind' = IF call[c].pc = "replacing"
                  THEN [behind EXCEPT ![i] = @ \cup (Proxies(i) \ call[c].done)] ELSE behind
     /\ UNCHANGED <<database, local, delegate, open, jobs, stored, reload, overlapped, versions>>

SwitchStep(c) ==
  \/ \E n \in Names : SwitchStop(c, n) \/ SwitchReplace(c, n)
  \/ SwitchCommit(c) \/ SwitchMigrate(c) \/ SaveRow(c) \/ ReadVersion(c) \/ SavePointer(c)

-----------------------------------------------------------------------------
(* The poll callback and reloadConfiguration *)

PollRead(i, t) ==
  /\ phase[i] \in {"running", "defaults"} /\ t \in limits.ticks
  /\ reload[i][t].pc = "idle" /\ pointer # None
  /\ reload' = [reload EXCEPT ![i][t] = [NoReload EXCEPT !.pc = "compare", !.seen = pointer]]
  /\ UNCHANGED <<database, local, proxies, call, bounds, overlapped, versions>>

PollCompareMutant(i, t) ==
  /\ reload[i][t].pc = "compare"
  /\ reload' = [reload EXCEPT ![i][t] =
                  IF @.seen.version > version[i] THEN [@ EXCEPT !.pc = "row"] ELSE NoReload]
  /\ UNCHANGED <<database, local, proxies, call, bounds, overlapped, versions>>

PollCompare(i, t) ==
  /\ reload[i][t].pc = "compare"
  /\ reload' = [reload EXCEPT ![i][t] =
                  IF @.seen.version # version[i] THEN [@ EXCEPT !.pc = "row"] ELSE NoReload]
  /\ UNCHANGED <<database, local, proxies, call, bounds, overlapped, versions>>

ReloadRow(i, t) ==
  LET config == row[reload[i][t].seen.plugin]
  IN /\ reload[i][t].pc = "row"
     /\ IF config = None
        THEN reload' = [reload EXCEPT ![i][t] = NoReload] /\ UNCHANGED overlapped
        ELSE /\ reload' = [reload EXCEPT ![i][t].pc = "replacing", ![i][t].config = config]
             /\ LoopBegins(i)
     /\ UNCHANGED <<database, local, proxies, call, bounds, versions>>

\* The read fails, and the callback catches it.
ReloadRowFails(i, t) ==
  /\ Mishap /\ reload[i][t].pc = "row"
  /\ reload' = [reload EXCEPT ![i][t] = NoReload]
  /\ UNCHANGED <<database, local, proxies, call, overlapped, versions>>

Reloaded(i, t) == [plugin |-> reload[i][t].seen.plugin, config |-> reload[i][t].config]

ReloadReplace(i, t, n) ==
  /\ reload[i][t].pc = "replacing" /\ n \in Proxies(i) \ reload[i][t].done
  /\ reload' = [reload EXCEPT ![i][t].done = @ \cup {n}]
  /\ SwitchDelegate(i, n, Reloaded(i, t))
  /\ UNCHANGED <<database, local, call, bounds, overlapped, versions>>

\* "Failed to switch queue": the loop goes on with the next proxy.
ReloadReplaceFails(i, t, n) ==
  /\ Mishap /\ reload[i][t].pc = "replacing" /\ n \in Proxies(i) \ reload[i][t].done
  /\ reload' = [reload EXCEPT ![i][t].done = @ \cup {n}]
  /\ behind' = [behind EXCEPT ![i] = @ \cup {n}]
  /\ UNCHANGED <<database, local, delegate, open, jobs, stored, call, overlapped, versions>>

ReloadApplyMutant(i, t) ==
  /\ reload[i][t].pc = "replacing" /\ reload[i][t].done # {}
  /\ reload' = [reload EXCEPT ![i][t] = NoReload]
  /\ active' = [active EXCEPT ![i] = Reloaded(i, t)]
  /\ version' = [version EXCEPT ![i] = reload[i][t].seen.version]
  /\ phase' = [phase EXCEPT ![i] = "running"]
  /\ UNCHANGED <<database, loading, proxies, call, bounds, overlapped, versions>>

\* Between the end of the loop and this there is no await.
ReloadApply(i, t) ==
  /\ reload[i][t].pc = "replacing" /\ reload[i][t].done = Proxies(i)
  /\ reload' = [reload EXCEPT ![i][t] = NoReload]
  /\ active' = [active EXCEPT ![i] = Reloaded(i, t)]
  /\ version' = [version EXCEPT ![i] = reload[i][t].seen.version]
  /\ phase' = [phase EXCEPT ![i] = "running"]
  /\ UNCHANGED <<database, loading, proxies, call, bounds, overlapped, versions>>

PollStep(i, t) ==
  \/ PollRead(i, t) \/ PollCompare(i, t) \/ ReloadRow(i, t) \/ ReloadApply(i, t)
  \/ \E n \in Names : ReloadReplace(i, t, n)

-----------------------------------------------------------------------------
Boot(i) == LoadPlugins(i) \/ LoadPointer(i) \/ LoadRow(i)

Failure ==
  \/ \E i \in Instances :
       \/ Restart(i) \/ LoadFails(i)
       \/ \E t \in Ticks : ReloadRowFails(i, t) \/ \E n \in Names : ReloadReplaceFails(i, t, n)
  \/ \E c \in Calls : SwitchThrows(c)

Next ==
  \/ \E i \in Instances :
       \/ Boot(i)
       \/ \E n \in Names : GetQueue(i, n) \/ ScheduleRecurring(i, n)
       \/ \E t \in Ticks : PollStep(i, t)
       \/ \E c \in Calls, target \in Targets : SwitchStart(c, i, target)
  \/ \E c \in Calls : SwitchStep(c)
  \/ Failure

Spec == Init /\ [][Next]_vars

\* The process runs what it has begun, its timers fire and the database answers.
Fairness ==
  /\ \A i \in Instances : WF_vars(Boot(i)) /\ \A t \in Ticks : WF_vars(PollStep(i, t))
  /\ \A c \in Calls : WF_vars(SwitchStep(c))
FairSpec == Spec /\ Fairness

-----------------------------------------------------------------------------
(* Properties *)

\* Types of the managers' fields and of the two rows.
TypeOK ==
  /\ row \in [Plugins -> Configs \cup {None}]
  /\ pointer = None \/ pointer \in [plugin : Plugins, version : Nat]
  /\ phase \in [Instances -> {"plugins", "pointer", "row", "running", "defaults"}]
  /\ loading \in [Instances -> Plugins \cup {None}]
  /\ active \in [Instances -> Setting] /\ version \in [Instances -> Nat]
  /\ delegate \in [Instances -> [Names -> Setting \cup {None}]]
  /\ open \in [Instances -> SUBSET Names] /\ jobs \in [Instances -> SUBSET Names]
  /\ stored \in [Setting -> SUBSET Names] /\ behind \in [Instances -> SUBSET Names]

\* docs/backend/queue-system.md:144, "Applications use QueueManager.getQueue() to
\* obtain queue references without knowing which backend is active": while no loop
\* over the proxies of an instance is under way, every proxy, also one created
\* while such a loop was running, accepts work and delegates to the active
\* backend. Excused are the proxies that the code leaves behind (a replacement
\* failed, or the queue is older than the stored setting) until they are replaced,
\* and an instance whose loops ran into each other, until one has begun alone.
QueuesFollowBackend ==
  \A i \in Instances : ~Looping(i) /\ ~overlapped[i] =>
    \A n \in Proxies(i) \ behind[i] : n \in open[i] /\ delegate[i][n] = active[i]

Saved == IF pointer = None THEN DefaultSetting
         ELSE [plugin |-> pointer.plugin, config |-> row[pointer.plugin]]

\* core/backend/src/services/queue-manager.ts:26, "Polls config for changes to
\* support multi-instance coordination": an instance that finds its version
\* stored, and so will not reload, has the stored setting, however switches, polls
\* and failures interleave. Excused are a version that was given out twice or
\* stored for a switch it was not given to, a pointer whose row is another switch's
\* (or will be, between the two writes), and a boot that could not read the row.
VersionIdentifiesSetting ==
  \A i \in Instances :
    pointer # None /\ ~torn /\ pointer.version \notin ambiguous
    /\ phase[i] = "running" /\ version[i] = pointer.version
      => active[i] = Saved

\* After the calls of setActiveBackend, the restarts and the failures the
\* instances come to agree on the stored setting, for good. Excused are what
\* VersionIdentifiesSetting excuses, and an instance whose first switch failed
\* before anything was stored.
InstancesConverge ==
  <>[](\/ torn \/ (pointer # None /\ pointer.version \in ambiguous)
       \/ \A i \in limits.instances : \/ active[i] = Saved \/ phase[i] = "defaults"
                                      \/ pointer = None /\ version[i] > 0)

-----------------------------------------------------------------------------
(* What the documentation promises and the code does not keep (README.md) *)

\* core/backend/src/services/queue-manager.ts:27, "Handles graceful migration of
\* recurring jobs when switching backends": when setActiveBackend returns the
\* recurring jobs it collected are scheduled in the new backend.
RecurringMigrated ==
  [][\A c \in Calls : \A i \in Instances :
       call[c].at = i /\ SavePointer(c) => call[c].recurring \subseteq Scheduled(i)']_vars
=============================================================================
