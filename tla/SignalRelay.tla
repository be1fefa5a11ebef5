---------------------------- MODULE SignalRelay -----------------------------
(***************************************************************************)
(* Signals on their way to the pages of a browser: SignalServiceImpl emits *)
(* them on the event bus, every instance that has subscribed relays them   *)
(* to its sockets (websocket-handler.ts), and a page keeps one socket,     *)
(* which SignalProvider.tsx opens again when it is closed. The HTTP server *)
(* takes connections from the beginning; the handler of sockets exists     *)
(* when everything else has started (core/backend/src/index.ts). The event *)
(* bus is taken to deliver what is emitted after subscribe() (EventBus).   *)
(***************************************************************************)
EXTENDS Integers, FiniteSets

CONSTANTS
  Backends,          \* instances
  Pages,             \* of browsers, each with a SignalProvider
  MaxSockets,        \* bound
  MaxCrashes,        \* bound: of instances
  MaxEffects,        \* bound: effects of SignalProvider that run again
  MaxSignals         \* bound

ASSUME RelayAssumption == {MaxSockets, MaxCrashes, MaxEffects, MaxSignals} \subseteq Nat

VARIABLES
  backend,     \* instance -> down, starting, up: its init() is through
  hasServer,   \* instances whose handler has been given the server
  hooked,      \* instance -> signals whose hook it has subscribed to
  inbox,       \* instance -> signals the bus is to hand over
  page,        \* page -> open, signed in, wsRef, its timers and the one reconnectTimeoutRef has
  socket,      \* in the order of their making
  emitted,
  heardBy,     \* history: signal -> sockets that have received it
  owed,        \* history: signal -> sockets to receive it
  crashes, effects

backendVars == <<backend, hasServer, hooked>>
relayVars == <<backendVars, inbox, page, socket, emitted, heardBy, owed, crashes, effects>>

\* One to all, one to a user.
Signals == {"broadcast", "private"}

Sockets == 1 .. MaxSockets

NoSocket == [state |-> "unused", of |-> {}, at |-> {}, hears |-> {}, early |-> FALSE]

\* It has no instance any more; the page may still have to notice.
Over(k, state) == [NoSocket EXCEPT !.state = state, !.of = socket[k].of]

NoPage == [open |-> FALSE, user |-> FALSE, ref |-> 0, timers |-> {}, timer |-> 0, again |-> FALSE]

RelayInit ==
  /\ backend = [i \in Backends |-> "down"] /\ hasServer = {}
  /\ hooked = [i \in Backends |-> {}] /\ inbox = [i \in Backends |-> {}]
  /\ page = [p \in Pages |-> NoPage]
  /\ socket = [k \in Sockets |-> NoSocket]
  /\ emitted = {} /\ heardBy = [s \in Signals |-> {}] /\ owed = [s \in Signals |-> {}]
  /\ crashes = 0 /\ effects = 0

-----------------------------------------------------------------------------
(* Instances *)

StartBackend(i) ==
  /\ \/ backend[i] = "down" /\ backend' = [backend EXCEPT ![i] = "starting"]
     \/ backend[i] = "starting" /\ backend' = [backend EXCEPT ![i] = "up"]
  /\ UNCHANGED <<hasServer, hooked, inbox, page, socket, emitted, heardBy, owed, crashes, effects>>

CrashBackend(i) ==
  /\ backend[i] # "down" /\ crashes < MaxCrashes
  /\ crashes' = crashes + 1 /\ backend' = [backend EXCEPT ![i] = "down"]
  /\ hasServer' = hasServer \ {i}
  /\ hooked' = [hooked EXCEPT ![i] = {}] /\ inbox' = [inbox EXCEPT ![i] = {}]
  /\ socket' = [k \in Sockets |-> IF socket[k].state \in {"upgrading", "open"} /\ socket[k].at = {i}
                                  THEN Over(k, "closed") ELSE socket[k]]
  /\ UNCHANGED <<page, emitted, heardBy, owed, effects>>

\* Any request gives the server to the handler, if there is one already.
ServerGiven(i) == hasServer \cup {j \in {i} : backend[i] = "up"}

Request(i) ==
  /\ backend[i] # "down" /\ hasServer' = ServerGiven(i)
  /\ UNCHANGED <<backend, hooked, inbox, page, socket, emitted, heardBy, owed, crashes, effects>>

\* setupEventBusListeners: the two subscriptions, one after the other.
SubscribeHook(i) ==
  /\ i \in hasServer
  /\ \/ hooked[i] = {} /\ hooked' = [hooked EXCEPT ![i] = {"broadcast"}]
     \/ hooked[i] = {"broadcast"} /\ hooked' = [hooked EXCEPT ![i] = Signals]
  /\ UNCHANGED <<backend, hasServer, inbox, page, socket, emitted, heardBy, owed, crashes, effects>>

\* Owed to the open sockets of the pages it is for, if their instance has subscribed, and
\* was up when they were begun.
EmitSignal(s) ==
  /\ s \notin emitted /\ Cardinality(emitted) < MaxSignals /\ emitted' = emitted \cup {s}
  /\ inbox' = [i \in Backends |-> IF s \in hooked[i] THEN inbox[i] \cup {s} ELSE inbox[i]]
  /\ owed' = [owed EXCEPT ![s] =
       {k \in Sockets : /\ socket[k].state = "open" /\ ~socket[k].early
                        /\ \A i \in socket[k].at : s \in hooked[i]
                        /\ s = "private" => \A p \in socket[k].of : page[p].user}]
  /\ UNCHANGED <<backendVars, page, socket, heardBy, crashes, effects>>

\* server.publish to the channel.
Publish(i, s) ==
  /\ s \in inbox[i] /\ inbox' = [inbox EXCEPT ![i] = @ \ {s}]
  /\ heardBy' = [heardBy EXCEPT ![s] = @ \cup
       {k \in Sockets : socket[k].state = "open" /\ socket[k].at = {i} /\ s \in socket[k].hears}]
  /\ UNCHANGED <<backendVars, page, socket, emitted, owed, crashes, effects>>

-----------------------------------------------------------------------------
(* Sockets *)

\* connect: nothing if the socket of wsRef is open, else a new one; one must be left: the bound.
Connect(p, now, sockets) ==
  IF now.ref \in Sockets /\ sockets[now.ref].state = "open"
  THEN page' = [page EXCEPT ![p] = now] /\ socket' = sockets
  ELSE \E k \in Sockets :
    /\ socket[k].state = "unused" /\ (\A j \in 1 .. k - 1 : socket[j].state # "unused")
    /\ socket' = [sockets EXCEPT ![k].state = "connecting", ![k].of = {p}]
    /\ page' = [page EXCEPT ![p] = [now EXCEPT !.ref = k]]

OpenPage(p) ==
  /\ ~page[p].open
  /\ \E user \in BOOLEAN : Connect(p, [NoPage EXCEPT !.open = TRUE, !.user = user], socket)
  /\ UNCHANGED <<backendVars, inbox, emitted, heardBy, owed, crashes, effects>>

\* Its sockets and timers go with a page, or it is loaded anew after the user has signed in or out.
ClosePage(p) ==
  /\ page[p].open /\ page' = [page EXCEPT ![p] = NoPage]
  /\ socket' = [k \in Sockets |-> IF socket[k].of = {p} THEN Over(k, "gone") ELSE socket[k]]
  /\ UNCHANGED <<backendVars, inbox, emitted, heardBy, owed, crashes, effects>>

BeginUpgrade(k, i) ==
  /\ socket[k].state = "connecting" /\ backend[i] # "down"
  /\ hasServer' = ServerGiven(i)
  /\ socket' = [socket EXCEPT ![k].state = "upgrading", ![k].at = {i}, ![k].early = backend[i] # "up"]
  /\ UNCHANGED <<backend, hooked, inbox, page, emitted, heardBy, owed, crashes, effects>>

\* fetch has authenticated, early perhaps in vain; open() subscribes, if there is a handler.
Opened(k, channels) ==
  LET handler == \A i \in socket[k].at : backend[i] = "up"
  IN [socket EXCEPT ![k].state = "open", ![k].hears = IF handler THEN channels ELSE {}]

Authenticated(k) ==
  {user \in BOOLEAN : IF user THEN \A p \in socket[k].of : page[p].user
                              ELSE socket[k].early \/ \E p \in socket[k].of : ~page[p].user}

\* Not to the channel of the user.
UpgradeMutant(k) ==
  /\ socket[k].state = "upgrading" /\ socket' = Opened(k, {"broadcast"})
  /\ UNCHANGED <<backendVars, inbox, page, emitted, heardBy, owed, crashes, effects>>

Upgrade(k) ==
  /\ socket[k].state = "upgrading"
  /\ \E user \in Authenticated(k) : socket' = Opened(k, IF user THEN Signals ELSE {"broadcast"})
  /\ UNCHANGED <<backendVars, inbox, page, emitted, heardBy, owed, crashes, effects>>

\* Refused or cut.
LoseSocket(k) ==
  /\ socket[k].state \in {"connecting", "upgrading", "open"}
  /\ socket' = [socket EXCEPT ![k] = Over(k, "closed")]
  /\ UNCHANGED <<backendVars, inbox, page, emitted, heardBy, owed, crashes, effects>>

\* The page notices and sets a timer, whichever socket it was.
CloseEvent(k) ==
  /\ socket[k].state = "closed" /\ socket' = [socket EXCEPT ![k] = Over(k, "gone")]
  /\ \E p \in socket[k].of : page' = [page EXCEPT ![p].timers = @ \cup {k}, ![p].timer = k]
  /\ UNCHANGED <<backendVars, inbox, emitted, heardBy, owed, crashes, effects>>

Reconnect(p) ==
  /\ \E t \in page[p].timers : Connect(p, [page[p] EXCEPT !.timers = @ \ {t}], socket)
  /\ UNCHANGED <<backendVars, inbox, emitted, heardBy, owed, crashes, effects>>

\* Another backendUrl, or StrictMode: the clean-up, then the effect.
EffectAgain(p) ==
  /\ page[p].open /\ effects < MaxEffects /\ effects' = effects + 1
  /\ Connect(p, [page[p] EXCEPT !.timers = @ \ {page[p].timer}, !.again = TRUE],
             [k \in Sockets |-> IF k = page[p].ref /\ socket[k].state \in {"connecting", "upgrading", "open"}
                                THEN Over(k, "closed") ELSE socket[k]])
  /\ UNCHANGED <<backendVars, inbox, emitted, heardBy, owed, crashes>>

RelayNext ==
  \/ \E i \in Backends : StartBackend(i) \/ CrashBackend(i) \/ Request(i) \/ SubscribeHook(i)
  \/ \E s \in Signals : EmitSignal(s) \/ \E i \in Backends : Publish(i, s)
  \/ \E p \in Pages : OpenPage(p) \/ ClosePage(p) \/ Reconnect(p) \/ EffectAgain(p)
  \/ \E k \in Sockets : Upgrade(k) \/ LoseSocket(k) \/ CloseEvent(k) \/ \E i \in Backends : BeginUpgrade(k, i)

RelaySpec == RelayInit /\ [][RelayNext]_relayVars

-----------------------------------------------------------------------------
(* Properties *)

\* Types.
RelayTypeOK ==
  /\ backend \in [Backends -> {"down", "starting", "up"}] /\ hasServer \subseteq Backends
  /\ hooked \in [Backends -> SUBSET Signals] /\ inbox \in [Backends -> SUBSET Signals]
  /\ page \in [Pages -> [open : BOOLEAN, user : BOOLEAN, ref : {0} \cup Sockets, timers : SUBSET Sockets,
                         timer : {0} \cup Sockets, again : BOOLEAN]]
  /\ socket \in [Sockets -> [state : {"unused", "connecting", "upgrading", "open", "closed", "gone"},
                             of : SUBSET Pages, at : SUBSET Backends, hears : SUBSET Signals, early : BOOLEAN]]
  /\ emitted \subseteq Signals /\ heardBy \in [Signals -> SUBSET Sockets] /\ owed \in [Signals -> SUBSET Sockets]

\* core/signal-backend/src/websocket-handler.test.ts:93, "should subscribe authenticated
\* user to broadcast and user channels": a page that stays connected from before a signal
\* until its instance has relayed it receives the signal, once, whatever sockets it had
\* before; more than once only if its effect has run again.
SignalsHeardOnce ==
  \A s \in Signals : \A k \in owed[s] :
    LET pages == socket[k].of
    IN socket[k].state = "open" /\ (\A i \in socket[k].at : s \notin inbox[i])
       => /\ k \in heardBy[s]
          /\ \/ {j \in heardBy[s] : socket[j].of = pages} = {k}
             \/ \E p \in pages : page[p].again
=============================================================================
