--------------------------- MODULE PluginStartup ----------------------------
(***************************************************************************)
(* How an instance starts its plugins (plugin-loader.ts): it registers     *)
(* them in the order of the plugins table, brings those that asked for it  *)
(* into an order in which providers of services precede the consumers and  *)
(* queue plugins precede the users of queues (dependency-sorter.ts),       *)
(* initialises them one by one, and then calls their afterPluginsReady.    *)
(* What a plugin offers, publishes and wants is open until it registers.   *)
(***************************************************************************)
EXTENDS Integers, FiniteSets, Sequences

CONSTANTS
  PluginCount,       \* bound: enabled plugins
  PluginServices     \* what plugins offer each other

ASSUME StartupAssumption ==
  /\ PluginCount \in Nat /\ IsFiniteSet(PluginServices)
  /\ PluginServices \cap {"queueManager", "queuePluginRegistry"} = {}

VARIABLES
  startPhase,   \* register, sort, init, ready, up, refused or failed
  shape,        \* of each registered plugin: what its register() has told
  providedBy,   \* service -> who has registered it last; 0: nobody
  graph,        \* <<provider, for the sake of, consumer>>
  degree,       \* edges into a plugin from those not yet sorted
  waiting,      \* free of such edges
  sorted,
  initialised   \* number of those initialised, or made ready

startupVars == <<startPhase, shape, providedBy, graph, degree, waiting, sorted, initialised>>

LoadOrder == 1 .. PluginCount

CoreServices == {"queueManager", "queuePluginRegistry"}
Services == PluginServices \cup CoreServices

\* registers: calls registerInit; offers: registerService within register(), publishes: within init().
Shapes == [registers : BOOLEAN, wants : SUBSET Services, offers : SUBSET PluginServices,
           publishes : SUBSET PluginServices]
\* These tell no difference in the others.
Plain == {s \in Shapes : /\ ~s.registers => s.wants = {} /\ s.publishes = {}
                         /\ s.offers \cap s.publishes = {}}

\* Plugins in pendingInits.
Pending == {p \in DOMAIN shape : shape[p].registers}

\* Plugins in the order in which they were registered.
InOrder(T) ==
  CHOOSE s \in [1 .. Cardinality(T) -> T] :
    /\ \A i, j \in 1 .. Cardinality(T) : i < j => s[i] < s[j]
    /\ \A t \in T : \E i \in 1 .. Cardinality(T) : s[i] = t

StartupInit ==
  /\ startPhase = "register" /\ shape = <<>> /\ providedBy = [s \in PluginServices |-> 0]
  /\ graph = {} /\ degree = [p \in LoadOrder |-> 0] /\ waiting = <<>> /\ sorted = <<>> /\ initialised = 0

\* Phase 1.
RegisterPlugin ==
  /\ startPhase = "register" /\ Len(shape) < PluginCount
  /\ \E s \in Plain :
       /\ shape' = Append(shape, s)
       /\ providedBy' = [x \in PluginServices |-> IF x \in s.offers THEN Len(shape) + 1 ELSE providedBy[x]]
  /\ UNCHANGED <<startPhase, graph, degree, waiting, sorted, initialised>>

\* A module that cannot be imported, a migration, an init or an afterPluginsReady that fails.
StartFails ==
  /\ startPhase \in {"register", "init", "ready"}
  /\ startPhase' = "failed"
  /\ UNCHANGED <<shape, providedBy, graph, degree, waiting, sorted, initialised>>

\* Of two plugins that offer a service the later counts.
ServiceEdges ==
  {e \in LoadOrder \X PluginServices \X Pending :
     e[1] = providedBy[e[2]] /\ e[1] # e[3] /\ e[2] \in shape[e[3]].wants}

QueueEdges ==
  {e \in Pending \X {"queueManager"} \X Pending :
     /\ e[1] # e[3] /\ "queuePluginRegistry" \in shape[e[1]].wants /\ "queueManager" \in shape[e[3]].wants
     /\ \A s \in PluginServices : <<e[1], s, e[3]>> \notin ServiceEdges}

\* Only service dependencies.
BuildGraphMutant ==
  /\ startPhase = "register" /\ Len(shape) = PluginCount
  /\ startPhase' = "sort" /\ graph' = ServiceEdges
  /\ degree' = [p \in LoadOrder |-> Cardinality({e \in graph' : e[3] = p})]
  /\ waiting' = InOrder({p \in Pending : degree'[p] = 0})
  /\ UNCHANGED <<shape, providedBy, sorted, initialised>>

BuildGraph ==
  /\ startPhase = "register" /\ Len(shape) = PluginCount
  /\ startPhase' = "sort" /\ graph' = ServiceEdges \cup QueueEdges
  /\ degree' = [p \in LoadOrder |-> Cardinality({e \in graph' : e[3] = p})]
  /\ waiting' = InOrder({p \in Pending : degree'[p] = 0})
  /\ UNCHANGED <<shape, providedBy, sorted, initialised>>

\* One turn of the loop of sortPlugins.
TakeFirst ==
  /\ startPhase = "sort" /\ waiting # <<>>
  /\ sorted' = Append(sorted, Head(waiting))
  /\ degree' = [p \in LoadOrder |-> degree[p] - Cardinality({e \in graph : e[1] = Head(waiting) /\ e[3] = p})]
  /\ waiting' = Tail(waiting) \o InOrder({p \in Pending : degree[p] > 0 /\ degree'[p] = 0})
  /\ UNCHANGED <<startPhase, shape, providedBy, graph, initialised>>

EndSort ==
  /\ startPhase = "sort" /\ waiting = <<>>
  /\ startPhase' = IF Len(sorted) = Cardinality(Pending) THEN "init" ELSE "refused"
  /\ UNCHANGED <<shape, providedBy, graph, degree, waiting, sorted, initialised>>

Resolved(p) == \A s \in shape[p].wants : s \in CoreServices \/ providedBy[s] # 0

\* Phase 2: the dependencies are resolved, then init() runs.
InitialisePlugin ==
  /\ startPhase = "init" /\ initialised < Len(sorted)
  /\ LET p == sorted[initialised + 1]
     IN IF Resolved(p)
        THEN /\ initialised' = initialised + 1 /\ UNCHANGED startPhase
             /\ providedBy' = [x \in PluginServices |-> IF x \in shape[p].publishes THEN p ELSE providedBy[x]]
        ELSE startPhase' = "failed" /\ UNCHANGED <<initialised, providedBy>>
  /\ UNCHANGED <<shape, graph, degree, waiting, sorted>>

\* Phase 3: afterPluginsReady of each, of which none touches these.
PluginsReady ==
  /\ startPhase = "init" /\ initialised = Len(sorted) /\ startPhase' = "ready"
  /\ UNCHANGED <<shape, providedBy, graph, degree, waiting, sorted, initialised>>

Started ==
  /\ startPhase = "ready" /\ startPhase' = "up"
  /\ UNCHANGED <<shape, providedBy, graph, degree, waiting, sorted, initialised>>

StartupNext ==
  RegisterPlugin \/ StartFails \/ BuildGraph \/ TakeFirst \/ EndSort \/ InitialisePlugin \/ PluginsReady \/ Started

StartupSpec == StartupInit /\ [][StartupNext]_startupVars

-----------------------------------------------------------------------------
(* Properties *)

\* Types.
StartupTypeOK ==
  /\ startPhase \in {"register", "sort", "init", "ready", "up", "refused", "failed"}
  /\ shape \in Seq(Shapes) /\ Len(shape) \leq PluginCount
  /\ providedBy \in [PluginServices -> 0 .. PluginCount]
  /\ graph \subseteq LoadOrder \X Services \X LoadOrder
  /\ degree \in [LoadOrder -> Int] /\ waiting \in Seq(LoadOrder) /\ sorted \in Seq(LoadOrder)
  /\ initialised \in 0 .. Len(sorted)

\* q has to be ready before p: it offers a service p wants and no later plugin does, or it
\* brings a queue and p uses queues.
Precedes(q, p) ==
  /\ q # p /\ shape[p].registers
  /\ \/ \E s \in shape[p].wants \cap shape[q].offers :
          \A r \in DOMAIN shape : s \in shape[r].offers => r \leq q
     \/ /\ shape[q].registers /\ "queuePluginRegistry" \in shape[q].wants
        /\ "queueManager" \in shape[p].wants

\* core/backend/src/plugin-manager.test.ts:91 and :255, "should sort plugins based on
\* their dependencies", "should respect existing service dependencies while prioritizing
\* queue plugins": no plugin is initialised before one it depends on, and a start is
\* refused as circular only if some plugins wait for each other, or for one that offers
\* a service but is never initialised.
DependenciesFirst ==
  /\ \A i \in 1 .. initialised : \A q \in DOMAIN shape :
       Precedes(q, sorted[i]) => \E j \in 1 .. i - 1 : sorted[j] = q
  /\ startPhase = "refused" =>
       \E S \in SUBSET Pending \ {{}} : \A p \in S : \E q \in DOMAIN shape :
         Precedes(q, p) /\ (q \in S \/ q \notin Pending)
=============================================================================
