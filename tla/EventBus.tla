------------------------------ MODULE EventBus ------------------------------
(***************************************************************************)
(* core/backend/src/services/event-bus.ts: the EventBus of one instance    *)
(* and one hook. The hook's channel is the cached QueueProxy of            *)
(* queue-manager.ts over an InMemoryQueue, with the parts of both that the *)
(* bus observes: one consumer per call of consume, groups served in round  *)
(* robin, maxRetries, and a stop() that ends the channel for good.         *)
(***************************************************************************)
EXTENDS Integers, FiniteSets, SequencesExt, Subsequences

\* Definitions named ...Mutant are plausible bugs, used only to show that the
\* properties can fail.
CONSTANTS
  Listeners,     \* calls of subscribe, each with its own listenerId
  WorkQueue,     \* those with mode "work-queue", the others broadcast
  GroupOf,       \* their consumerGroup: plugin and workerGroup, or plugin,
                 \* hook and instance when they broadcast
  Groups,
  MaxRetries,    \* options.maxRetries of the work-queue listeners
  Events,        \* calls of emit
  Undefined

ASSUME ListenerAssumption ==
  WorkQueue \subseteq Listeners /\ GroupOf \in [Listeners -> Groups]
ASSUME RetryAssumption == MaxRetries \in Nat

VARIABLES
  listeners,     \* registrations in this.listeners
  subscribed,    \* listeners that have called subscribe (each one once)
  workerGroups,  \* consumer groups of this.workerGroups
  cached,        \* queueChannels.has(hook.id)
  closing,       \* listeners whose unsubscribe awaits channel.stop()
  connected,     \* the proxy has its delegate
  stopped,       \* the proxy was stopped
  stored,        \* the subscription the proxy keeps for each group
  replaying,     \* groups its replay has yet to reach, or Undefined outside the loop
  consumers,     \* the delegate's consumers in each group
  nextConsumer,  \* the delegate's round-robin index of each group
  listed,        \* the delegate's list of events
  taken,         \* the events each group has picked
  attempts,      \* the attempts counter of each event
  runs,          \* picked events, before or in their handler
  backoff,       \* groups and events whose retry timer is pending
  due,           \* history: listeners registered when an event was accepted ...
  early,         \* ... and the groups the replay had yet to reach then
  calls,         \* history: the listeners each group invoked for an event, in order
  refused,       \* history: events whose emit threw
  down           \* shutdown() was called

registrationVars == <<listeners, subscribed, workerGroups, cached, closing>>
proxyVars == <<connected, stopped, stored, replaying>>
pickVars == <<listed, taken, nextConsumer, runs>>
eventVars == <<due, early, calls, refused>>
busVars == <<registrationVars, proxyVars, consumers, pickVars, attempts, backoff, eventVars, down>>

BusInit ==
  /\ listeners = {} /\ subscribed = {} /\ workerGroups = {} /\ cached = FALSE /\ closing = {}
  /\ connected = FALSE /\ stopped = FALSE /\ stored = [g \in Groups |-> Undefined]
  /\ replaying = Undefined
  /\ consumers = [g \in Groups |-> << >>] /\ nextConsumer = [g \in Groups |-> 0]
  /\ listed = << >> /\ taken = [g \in Groups |-> {}]
  /\ attempts = [e \in Events |-> 0] /\ runs = {} /\ backoff = {}
  /\ due = [e \in Events |-> Undefined] /\ early = [e \in Events |-> {}]
  /\ calls = [e \in Events |-> [g \in Groups |-> << >>]]
  /\ refused = {} /\ down = FALSE

-----------------------------------------------------------------------------
(* The channel's queue *)

\* The maxRetries subscribe passes to consume.
Retries(l) == IF l \in WorkQueue THEN MaxRetries ELSE 0

ChannelOpen == connected /\ ~stopped

\* Positions of the events that a group with these marks has yet to pick.
Unpicked(js, seen) == {i \in 1..Len(js) : js[i] \notin seen}

\* One processNext on the given list and marks: each group with a consumer picks
\* its first event, for its next consumer; what all groups have picked leaves.
ProcessNext(js, marks, current) ==
  LET known == {g \in Groups : consumers'[g] # << >>}
      picking == {g \in known : Unpicked(js, marks[g]) # {}}
      pick(g) == js[Min(Unpicked(js, marks[g]))]
      marked == [g \in Groups |-> IF g \in picking THEN marks[g] \cup {pick(g)} ELSE marks[g]]
      turn(g) == consumers'[g][(nextConsumer[g] % Len(consumers'[g])) + 1]
  IN /\ taken' = marked
     /\ listed' = IF known = {} THEN js
                  ELSE Subsequence(js, {i \in 1..Len(js) : \E g \in known : js[i] \notin marked[g]})
     /\ nextConsumer' = [g \in Groups |-> nextConsumer[g] + (IF g \in picking THEN 1 ELSE 0)]
     /\ runs' = current \cup {[group |-> g, event |-> pick(g), listener |-> turn(g),
                               invoked |-> FALSE] : g \in picking}

ProcessNextIf(go, js, marks, current) ==
  IF go THEN ProcessNext(js, marks, current)
  ELSE listed' = js /\ taken' = marks /\ runs' = current /\ UNCHANGED nextConsumer

\* The queue manager gives the proxy its delegate ...
Connect ==
  /\ ~connected /\ subscribed \cup refused # {}
  /\ connected' = TRUE /\ stopped' = FALSE
  /\ replaying' = {g \in Groups : stored[g] # Undefined}
  /\ UNCHANGED <<registrationVars, stored, consumers, pickVars, attempts, backoff, eventVars, down>>

ReplayMutant(g) ==
  /\ replaying # Undefined /\ g \in replaying
  /\ replaying' = {}
  /\ consumers' = [consumers EXCEPT ![g] = Append(@, stored[g])]
  /\ ProcessNextIf(~stopped, listed, taken, runs)
  /\ UNCHANGED <<registrationVars, connected, stopped, stored, attempts, backoff, eventVars, down>>

\* ... and the subscriptions are replayed on it, with an await after each one.
Replay(g) ==
  /\ replaying # Undefined /\ g \in replaying
  /\ replaying' = replaying \ {g}
  /\ consumers' = [consumers EXCEPT ![g] = Append(@, stored[g])]
  /\ ProcessNextIf(~stopped, listed, taken, runs)
  /\ UNCHANGED <<registrationVars, connected, stopped, stored, attempts, backoff, eventVars, down>>

ReplayEnds ==
  /\ replaying = {} /\ replaying' = Undefined
  /\ UNCHANGED <<registrationVars, connected, stopped, stored, consumers, pickVars, attempts, backoff,
                 eventVars, down>>

-----------------------------------------------------------------------------
(* subscribe and unsubscribe *)

\* A worker group is refused while it is tracked. The consumer is stored for
\* replay and reaches the delegate if the channel is open.
Subscribe(l) ==
  LET g == GroupOf[l] IN
  /\ l \notin subscribed
  /\ l \in WorkQueue => g \notin workerGroups
  /\ subscribed' = subscribed \cup {l}
  /\ listeners' = listeners \cup {l}
  /\ workerGroups' = IF l \in WorkQueue THEN workerGroups \cup {g} ELSE workerGroups
  /\ cached' = TRUE
  /\ stored' = [stored EXCEPT ![g] = l]
  /\ replaying' = IF replaying # Undefined /\ stored[g] = Undefined THEN replaying \cup {g} ELSE replaying
  /\ consumers' = IF ChannelOpen THEN [consumers EXCEPT ![g] = Append(@, l)] ELSE consumers
  /\ ProcessNextIf(ChannelOpen, listed, taken, runs)
  /\ UNCHANGED <<closing, connected, stopped, attempts, backoff, eventVars, down>>

Untrack(l) == IF l \in WorkQueue THEN workerGroups \ {GroupOf[l]} ELSE workerGroups

\* unsubscribe of a listener that leaves others: no await, nothing is stopped.
Unsubscribe(l) ==
  /\ l \in listeners /\ listeners # {l}
  /\ listeners' = listeners \ {l}
  /\ workerGroups' = Untrack(l)
  /\ UNCHANGED <<subscribed, cached, closing, proxyVars, consumers, pickVars, attempts,
                 backoff, eventVars, down>>

\* unsubscribe of the last one, to its `await channel.stop()` ...
UnsubscribeLast(l) ==
  /\ listeners = {l}
  /\ listeners' = {} /\ closing' = closing \cup {l}
  /\ stopped' = TRUE
  /\ UNCHANGED <<subscribed, workerGroups, cached, connected, stored, replaying, consumers, pickVars,
                 attempts, backoff, eventVars, down>>

\* ... and after it, once the handlers in progress have returned.
ChannelStopped(l) ==
  /\ l \in closing /\ ~\E r \in runs : r.invoked
  /\ closing' = closing \ {l} /\ cached' = FALSE
  /\ workerGroups' = Untrack(l)
  /\ UNCHANGED <<listeners, subscribed, proxyVars, consumers, pickVars, attempts, backoff,
                 eventVars, down>>

Shutdown ==
  /\ ~down /\ down' = TRUE
  /\ stopped' = (stopped \/ cached)
  /\ UNCHANGED <<registrationVars, connected, stored, replaying, consumers, pickVars, attempts, backoff,
                 eventVars>>

-----------------------------------------------------------------------------
(* emit and the delivery of an event *)

\* The channel's enqueue throws without a delegate or once stopped.
Emit(e) ==
  /\ due[e] = Undefined /\ e \notin refused
  /\ cached' = TRUE
  /\ IF ChannelOpen
     THEN /\ due' = [due EXCEPT ![e] = listeners]
          /\ early' = [early EXCEPT ![e] = IF replaying = Undefined THEN {} ELSE replaying]
          /\ UNCHANGED <<refused, consumers>>
          /\ ProcessNext(Append(listed, e), taken, runs)
     ELSE /\ refused' = refused \cup {e}
          /\ UNCHANGED <<due, early, consumers, pickVars>>
  /\ UNCHANGED <<listeners, subscribed, workerGroups, closing, proxyVars, attempts, backoff,
                 calls, down>>

\* A run leaves its handler; the queue looks for more work if told to.
Leave(r, more, js, marks) ==
  /\ UNCHANGED <<registrationVars, proxyVars, consumers, due, early, refused, down>>
  /\ ProcessNextIf(more /\ js # << >> /\ ~stopped, js, marks, runs \ {r})

\* The consumer finds its listener by id and awaits it ...
Invoke(r) ==
  /\ r \in runs /\ ~r.invoked /\ r.listener \in listeners
  /\ runs' = (runs \ {r}) \cup {[r EXCEPT !.invoked = TRUE]}
  /\ calls' = [calls EXCEPT ![r.event][r.group] = Append(@, r.listener)]
  /\ UNCHANGED <<registrationVars, proxyVars, consumers, listed, taken, nextConsumer, attempts,
                 backoff, due, early, refused, down>>

\* ... or finds none and returns: the event counts as handled by the group.
NoListener(r) ==
  /\ r \in runs /\ ~r.invoked /\ r.listener \notin listeners
  /\ UNCHANGED <<attempts, backoff, calls>>
  /\ Leave(r, TRUE, listed, taken)

ListenerReturns(r) ==
  /\ r \in runs /\ r.invoked
  /\ UNCHANGED <<attempts, backoff, calls>>
  /\ Leave(r, TRUE, listed, taken)

\* The retry puts the event back for every group.
ListenerThrowsMutant(r) ==
  /\ r \in runs /\ r.invoked
  /\ UNCHANGED calls
  /\ IF attempts[r.event] < Retries(r.listener)
     THEN /\ attempts' = [attempts EXCEPT ![r.event] = @ + 1]
          /\ backoff' = backoff \cup {<<r.group, r.event>>}
          /\ Leave(r, FALSE, Append(listed, r.event), [g \in Groups |-> taken[g] \ {r.event}])
     ELSE /\ UNCHANGED <<attempts, backoff>>
          /\ Leave(r, TRUE, listed, taken)

\* invokeListener rethrows: the queue retries for this group, or gives up.
ListenerThrows(r) ==
  /\ r \in runs /\ r.invoked
  /\ UNCHANGED calls
  /\ IF attempts[r.event] < Retries(r.listener)
     THEN /\ attempts' = [attempts EXCEPT ![r.event] = @ + 1]
          /\ backoff' = backoff \cup {<<r.group, r.event>>}
          /\ Leave(r, FALSE, Append(listed, r.event), [taken EXCEPT ![r.group] = @ \ {r.event}])
     ELSE /\ UNCHANGED <<attempts, backoff>>
          /\ Leave(r, TRUE, listed, taken)

RetryTimer(b) ==
  /\ b \in backoff
  /\ backoff' = backoff \ {b}
  /\ UNCHANGED <<registrationVars, proxyVars, consumers, attempts, eventVars, down>>
  /\ ProcessNextIf(~stopped, listed, taken, runs)

-----------------------------------------------------------------------------
BusNext ==
  \/ Connect \/ ReplayEnds \/ Shutdown
  \/ \E g \in Groups : Replay(g)
  \/ \E l \in Listeners : Subscribe(l) \/ Unsubscribe(l) \/ UnsubscribeLast(l) \/ ChannelStopped(l)
  \/ \E e \in Events : Emit(e)
  \/ \E r \in runs : Invoke(r) \/ NoListener(r) \/ ListenerReturns(r) \/ ListenerThrows(r)
  \/ \E b \in backoff : RetryTimer(b)

BusSpec == BusInit /\ [][BusNext]_busVars

\* The event loop serves what was picked and fires what is due; listeners return
\* or throw. Nobody has to subscribe, emit or stop.
BusFairness ==
  /\ WF_busVars(\E r \in runs : Invoke(r) \/ NoListener(r) \/ ListenerReturns(r) \/ ListenerThrows(r))
  /\ WF_busVars(\E b \in backoff : RetryTimer(b))
  /\ WF_busVars(\E g \in Groups : Replay(g))
BusFairSpec == BusSpec /\ BusFairness

-----------------------------------------------------------------------------
(* Properties *)

\* Types of the state of EventBus and of its channel; a consumer is registered
\* in its own group.
BusTypeOK ==
  /\ listeners \subseteq subscribed /\ subscribed \subseteq Listeners
  /\ workerGroups \subseteq Groups /\ closing \subseteq Listeners
  /\ {cached, connected, stopped, down} \subseteq BOOLEAN
  /\ \A g \in Groups : \A i \in 1..Len(consumers[g]) : GroupOf[consumers[g][i]] = g
  /\ listed \in Seq(Events) /\ taken \in [Groups -> SUBSET Events]
  /\ \A r \in runs : r.listener \in Listeners /\ r.group = GroupOf[r.listener]
  /\ backoff \subseteq Groups \X Events
  /\ attempts \in [Events -> 0..MaxRetries]

\* How often a group's consumers are given an event again.
RetriesOf(g) == IF \E l \in WorkQueue : GroupOf[l] = g THEN MaxRetries ELSE 0

\* A group handles an event once, by one of its listeners, and again at most as often as
\* it may retry, although the retry of any group puts the event back in the list that all
\* share; and only a listener that is still registered is invoked, although its consumer
\* stays with the queue and events picked for it are still on their way.
HandledOncePerGroup ==
  [][\A e \in Events, g \in Groups : calls'[e][g] # calls[e][g] =>
       /\ Len(calls'[e][g]) <= 1 + RetriesOf(g)
       /\ calls'[e][g][Len(calls'[e][g])] \in listeners]_busVars

\* Every listener registered when emit accepted an event is invoked for it, if the
\* replay of the stored subscriptions had come to its group, it stays registered
\* and the channel is not stopped, also when other groups fail and retry. (The
\* listener must be the only one its group ever has: a consumer outlives its
\* listener and goes on taking its turn.)
ListenersReached ==
  \A e \in Events, l \in Listeners : (\A m \in Listeners : GroupOf[m] = GroupOf[l] => m = l) =>
    ((due[e] # Undefined /\ l \in due[e] /\ GroupOf[l] \notin early[e]) ~>
       (l \in Range(calls[e][GroupOf[l]]) \/ l \notin listeners \/ stopped))

-----------------------------------------------------------------------------
(* What the documentation promises and the code does not keep (README.md) *)

\* docs/backend/queue-system.md:60, "Every consumer receives a copy of every
\* message": every broadcast listener registered when an event was accepted is
\* invoked for it, if nobody ever unsubscribes.
BroadcastReachesAll ==
  \A e \in Events, l \in Listeners \ WorkQueue :
    (due[e] # Undefined /\ l \in due[e]) ~> (l \in Range(calls[e][GroupOf[l]]) \/ listeners # subscribed \/ stopped)

\* core/backend/src/services/event-bus.test.ts:158 emits after the last listener has
\* left: once the channel has a queue, emit throws only after shutdown.
EmitsAccepted == [][connected /\ ~down => refused' = refused]_busVars
=============================================================================
