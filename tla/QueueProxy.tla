----------------------------- MODULE QueueProxy -----------------------------
(***************************************************************************)
(* core/backend/src/services/queue-proxy.ts: one QueueProxy, its clients,  *)
(* and the callers of switchDelegate in queue-manager.ts. setActiveBackend *)
(* calls stop() before switchDelegate ("switch"), initializeQueueProxy and *)
(* reloadConfiguration call switchDelegate alone ("reload").               *)
(***************************************************************************)
EXTENDS Integers, SequencesExt

\* Definitions named ...Mutant are plausible bugs, used only to show that the
\* properties can fail.
CONSTANTS
  Consumers, GroupOf,   \* callers of consume and their options.consumerGroup
  Groups,
  Ops,           \* operations: enqueue, scheduleRecurring, cancelRecurring
  Callers,       \* concurrent callers of switchDelegate
  CallKinds,     \* what callers do: a subset of {"switch", "reload"}
  MaxQueues,     \* bound: queue objects created
  None

ASSUME GroupAssumption == GroupOf \in [Consumers -> Groups]
ASSUME BoundAssumption ==
  /\ MaxQueues \in Nat /\ CallKinds \subseteq {"switch", "reload"}
  /\ None \notin Nat \cup Consumers

VARIABLES
  delegate,      \* the queue in use, a number, or None
  closed,        \* the proxy's stopped flag
  subscriptions, \* keys of the Map, in insertion order ...
  subscriber,    \* ... and the consumer stored for each group
  pending,       \* operations in pendingOperations
  target,        \* the queue each operation was given to
  created,       \* queues created so far are 1..created
  ended,         \* queues whose stop() has been called
  registered,    \* consumers each queue has been given
  caller         \* where each caller is

clientVars == <<subscriptions, subscriber, pending, target>>
queueVars == <<delegate, closed, created, ended, registered>>
vars == <<clientVars, queueVars, caller>>

Queues == 1..MaxQueues
Idle == [pc |-> "idle", queue |-> None, waits |-> {}, at |-> 0]

Init ==
  /\ delegate = None /\ closed = FALSE
  /\ subscriptions = << >> /\ subscriber = [g \in Groups |-> None]
  /\ pending = {} /\ target = [o \in Ops |-> None]
  /\ created = 0 /\ ended = {}
  /\ registered = [q \in Queues |-> {}]
  /\ caller = [k \in Callers |-> Idle]

-----------------------------------------------------------------------------
(* Clients *)

ConsumeMutant(c) ==
  LET g == GroupOf[c]
  IN /\ \A q \in Queues : c \notin registered[q]
     /\ subscriber[g] # c
     /\ subscriber' = [subscriber EXCEPT ![g] = c]
     /\ subscriptions' = IF g \in ToSet(subscriptions) \/ delegate # None
                         THEN subscriptions ELSE Append(subscriptions, g)
     /\ registered' = IF delegate # None /\ ~closed
                      THEN [registered EXCEPT ![delegate] = @ \cup {c}] ELSE registered
     /\ UNCHANGED <<pending, target, delegate, closed, created, ended, caller>>

\* consume: the subscription is stored for replay, and given to the delegate if
\* the proxy has one that is not stopped. (Each consumer subscribes once.)
Consume(c) ==
  LET g == GroupOf[c]
  IN /\ \A q \in Queues : c \notin registered[q]
     /\ subscriber[g] # c
     /\ subscriber' = [subscriber EXCEPT ![g] = c]
     /\ subscriptions' = IF g \in ToSet(subscriptions)
                         THEN subscriptions ELSE Append(subscriptions, g)
     /\ registered' = IF delegate # None /\ ~closed
                      THEN [registered EXCEPT ![delegate] = @ \cup {c}] ELSE registered
     /\ UNCHANGED <<pending, target, delegate, closed, created, ended, caller>>

\* An operation past ensureDelegate: its promise is tracked until it settles.
Operate(o) ==
  /\ target[o] = None /\ delegate # None /\ ~closed
  /\ target' = [target EXCEPT ![o] = delegate]
  /\ pending' = pending \cup {o}
  /\ UNCHANGED <<subscriptions, subscriber, queueVars, caller>>

OperationSettles(o) ==
  /\ o \in pending
  /\ pending' = pending \ {o}
  /\ UNCHANGED <<subscriptions, subscriber, target, queueVars, caller>>

-----------------------------------------------------------------------------
(* stop and switchDelegate *)

\* Both first wait for the operations tracked at the call, if there are any (and
\* then there is a delegate), and then call stop() of the delegate, if there is one.
AwaitOperations(k, settling, draining, queue) ==
  IF pending # {}
  THEN /\ caller' = [caller EXCEPT ![k] = [Idle EXCEPT !.pc = settling, !.queue = queue,
                                                       !.waits = pending]]
       /\ UNCHANGED ended
  ELSE /\ caller' = [caller EXCEPT ![k] = [Idle EXCEPT !.pc = draining, !.queue = queue]]
       /\ ended' = IF delegate = None THEN ended ELSE ended \cup {delegate}

OperationsAwaited(k, settling, draining) ==
  /\ caller[k].pc = settling /\ caller[k].waits \cap pending = {}
  /\ caller' = [caller EXCEPT ![k].pc = draining, ![k].waits = {}]
  /\ ended' = ended \cup {delegate}
  /\ UNCHANGED <<clientVars, delegate, closed, created, registered>>

StopCallMutant(k) ==
  /\ "switch" \in CallKinds /\ caller[k].pc = "idle" /\ created < MaxQueues
  /\ AwaitOperations(k, "settling in stop", "draining in stop", delegate)
  /\ UNCHANGED <<clientVars, delegate, closed, created, registered>>

StopCall(k) ==
  /\ "switch" \in CallKinds /\ caller[k].pc = "idle" /\ created < MaxQueues
  /\ closed' = TRUE
  /\ AwaitOperations(k, "settling in stop", "draining in stop", delegate)
  /\ UNCHANGED <<clientVars, delegate, created, registered>>

StopSettled(k) == OperationsAwaited(k, "settling in stop", "draining in stop")

\* consume on the current delegate for the subscription at position n, if there
\* is one; the loop over the Map ends at the first position it does not have.
Replay(k, queue, n) ==
  IF n <= Len(subscriptions)
  THEN /\ registered' = [registered EXCEPT ![queue] = @ \cup {subscriber[subscriptions[n]]}]
       /\ caller' = [caller EXCEPT ![k] = [Idle EXCEPT !.pc = "replaying", !.at = n]]
  ELSE /\ caller' = [caller EXCEPT ![k] = Idle]
       /\ UNCHANGED registered

\* Switch to the new implementation and begin the replay.
InstallQueue(k, queue) ==
  /\ delegate' = queue
  /\ closed' = FALSE
  /\ Replay(k, queue, 1)

\* The caller creates a queue and calls switchDelegate: a "switch" after the
\* delegate's stop() has returned, a "reload" any time. Without a delegate there is
\* nothing to await.
SwitchCall(k) ==
  /\ caller[k].pc = "draining in stop" \/ ("reload" \in CallKinds /\ caller[k].pc = "idle")
  /\ created < MaxQueues /\ created' = created + 1
  /\ IF delegate = None
     THEN InstallQueue(k, created') /\ UNCHANGED ended
     ELSE /\ AwaitOperations(k, "settling", "draining", created + 1)
          /\ UNCHANGED <<delegate, closed, registered>>
  /\ UNCHANGED clientVars

SwitchSettled(k) == OperationsAwaited(k, "settling", "draining")

\* The delegate's stop() has returned.
Replace(k) ==
  /\ caller[k].pc = "draining"
  /\ InstallQueue(k, caller[k].queue)
  /\ UNCHANGED <<clientVars, created, ended>>

ReplayNext(k) ==
  /\ caller[k].pc = "replaying"
  /\ Replay(k, delegate, caller[k].at + 1)
  /\ UNCHANGED <<clientVars, delegate, closed, created, ended>>

-----------------------------------------------------------------------------
Client ==
  \/ \E c \in Consumers : Consume(c)
  \/ \E o \in Ops : Operate(o) \/ OperationSettles(o)

Next ==
  \/ Client
  \/ \E k \in Callers : \/ StopCall(k) \/ StopSettled(k) \/ SwitchCall(k)
                        \/ SwitchSettled(k) \/ Replace(k) \/ ReplayNext(k)

Spec == Init /\ [][Next]_vars

-----------------------------------------------------------------------------
(* Properties *)

\* Types of the proxy's fields; there is a delegate from the first switchDelegate
\* on, and the callers that wait hold the queue they created.
TypeOK ==
  /\ delegate \in Queues \cup {None} /\ closed \in BOOLEAN
  /\ subscriptions \in Seq(Groups) /\ subscriber \in [Groups -> Consumers \cup {None}]
  /\ pending \subseteq Ops /\ target \in [Ops -> Queues \cup {None}]
  /\ created \in 0..MaxQueues /\ ended \subseteq 1..created
  /\ registered \in [Queues -> SUBSET Consumers]
  /\ \A k \in Callers : caller[k].pc \in {"settling", "draining"} => caller[k].queue \in 1..created
  /\ created > 0 => delegate \in 1..created

Settled == \A k \in Callers : caller[k].pc = "idle"

\* A subscription made at any moment of a switch ends on the new queue: it is
\* stored before, replayed by the loop, or applied directly.
SubscriptionsReplayed ==
  Settled /\ delegate # None =>
    \A g \in Groups : subscriber[g] # None => subscriber[g] \in registered[delegate]

\* docs/backend/queue-system.md:152, "Pending operation tracking: Waits for
\* in-flight operations before switching": while stop() of the proxy drains its
\* delegate, no operation is unsettled there, and none arrives, unless another caller
\* has installed a queue since stop() was called.
StopSettlesOperations ==
  [][\A k \in Callers : caller'[k].pc = "draining in stop" /\ caller'[k].queue = delegate' =>
       \A o \in pending' : target'[o] # delegate']_vars

-----------------------------------------------------------------------------
(* What the documentation promises and the code does not keep (README.md) *)

\* The same as StopSettlesOperations of every switchDelegate, also without a stop()
\* before it.
OperationsSettled ==
  [][\A q \in ended' \ ended : \A o \in pending : target[o] # q]_vars

\* core/backend/src/services/queue-proxy.ts:48, "Stop old delegate gracefully":
\* every queue that is neither in use nor about to be has been stopped, and no
\* worker of it goes on, also with two callers.
OneLiveQueue ==
  \A q \in 1..created :
    \/ q = delegate \/ q \in ended
    \/ \E k \in Callers : caller[k].pc \in {"settling", "draining"} /\ caller[k].queue = q

\* docs/backend/queue-system.md:151, "Subscription replay: When switching
\* backends, all subscriptions are automatically re-applied": the queue in use has
\* every consumer that a queue before it had.
AllConsumersKept ==
  Settled /\ delegate # None => \A q \in Queues : registered[q] \subseteq registered[delegate]
=============================================================================
