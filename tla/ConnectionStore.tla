-------------------------- MODULE ConnectionStore --------------------------
(***************************************************************************)
(* core/integration-backend/src/connection-store.ts: the connections of an *)
(* integration provider. A connection is two entries of the configuration  *)
(* service, and the provider's index, a third, lists the ids. Requests     *)
(* change them one after the other, at any instance; a statement may fail  *)
(* and an instance may crash after any of them.                            *)
(***************************************************************************)
EXTENDS FiniteSets

CONSTANTS
  Connections,   \* ids, each used once: they are UUIDs
  Stores,        \* instances of the backend, each with a connection store
  Integrators    \* administrators, each with one request at a time

VARIABLES
  metadata, configs,  \* connections that have the entry
  index,              \* connectionIds of the index entry
  providerCache,      \* connectionProviderCache of each store
  listed,             \* ids that the index has had, and that a client may name
  requesting,         \* each administrator's request
  disturbed           \* history: connections a failure or overlapping requests touched

entries == <<metadata, configs, index>>
connectionVars == <<metadata, configs, index, providerCache, listed, requesting, disturbed>>

NoRequest == [pc |-> "idle", op |-> "none", on |-> "none", at |-> "none", read |-> {},
              alone |-> TRUE]  \* history: no update and deletion of the same connection overlapped

ConnectionsInit ==
  /\ metadata = {} /\ configs = {} /\ index = {} /\ listed = {} /\ disturbed = {}
  /\ providerCache = [i \in Stores |-> {}]
  /\ requesting = [a \in Integrators |-> NoRequest]

\* Definitions named ...Mutant are plausible bugs, used only to show that the
\* properties below can fail.

Doing(a, pc) == requesting[a].pc = pc
Then(a, pc) == requesting' = [requesting EXCEPT ![a].pc = pc]
Ends(a) == requesting' = [requesting EXCEPT ![a] = NoRequest]
Others(a, op, c) == {b \in Integrators \ {a} : requesting[b].op = op /\ requesting[b].on = c}

\* A request begins; its overlap with opposite ones disturbs the connection.
Begins(a, pc, op, opposite, c, i) ==
  LET others == Others(a, opposite, c) IN
  /\ requesting' = [b \in Integrators |->
       IF b = a THEN [pc |-> pc, op |-> op, on |-> c, at |-> i, read |-> {}, alone |-> others = {}]
       ELSE IF b \in others THEN [requesting[b] EXCEPT !.alone = FALSE] ELSE requesting[b]]
  /\ disturbed' = IF others = {} THEN disturbed ELSE disturbed \cup {c}

\* findConnectionProvider: the cache, else the index.
Found(i, c) == c \in providerCache[i] \cup index
Cached(i, c) == providerCache' = [providerCache EXCEPT ![i] = @ \cup {c}]

-----------------------------------------------------------------------------
\* createConnection.
Create(a, i, c) ==
  /\ Doing(a, "idle") /\ c \notin listed /\ c \notin metadata /\ Others(a, "create", c) = {}
  /\ Begins(a, "setMetadata", "create", "none", c, i)
  /\ UNCHANGED <<entries, providerCache, listed>>

\* updateConnection, up to its reads of both entries, without which it fails.
Update(a, i, c) ==
  /\ Doing(a, "idle") /\ c \in listed /\ Found(i, c) /\ Cached(i, c)
  /\ \/ c \in metadata \cap configs /\ Begins(a, "setMetadata", "update", "delete", c, i)
     \/ c \notin metadata \cap configs /\ UNCHANGED <<requesting, disturbed>>
  /\ UNCHANGED <<entries, listed>>

\* deleteConnection of one that is found.
Delete(a, i, c) ==
  /\ Doing(a, "idle") /\ c \in listed /\ Found(i, c) /\ Cached(i, c)
  /\ Begins(a, "deleteConfig", "delete", "update", c, i)
  /\ UNCHANGED <<entries, listed>>

\* listConnections, getConnection and the reads of a delivery.
Look(i, c) ==
  /\ c \in index /\ Cached(i, c)
  /\ UNCHANGED <<entries, listed, requesting, disturbed>>

SetMetadata(a) ==
  /\ Doing(a, "setMetadata") /\ metadata' = metadata \cup {requesting[a].on} /\ Then(a, "setConfig")
  /\ UNCHANGED <<configs, index, providerCache, listed, disturbed>>

SetConfig(a) ==
  /\ Doing(a, "setConfig") /\ configs' = configs \cup {requesting[a].on}
  /\ \/ requesting[a].op = "create" /\ Then(a, "readIndex")
     \/ requesting[a].op = "update" /\ Ends(a)
  /\ UNCHANGED <<metadata, index, providerCache, listed, disturbed>>

DeleteConfig(a) ==
  /\ Doing(a, "deleteConfig") /\ configs' = configs \ {requesting[a].on} /\ Then(a, "deleteMetadata")
  /\ UNCHANGED <<metadata, index, providerCache, listed, disturbed>>

DeleteMetadataMutant(a) ==
  /\ Doing(a, "deleteMetadata") /\ Then(a, "readIndex")
  /\ UNCHANGED <<metadata, configs, index, providerCache, listed, disturbed>>

DeleteMetadata(a) ==
  /\ Doing(a, "deleteMetadata") /\ metadata' = metadata \ {requesting[a].on} /\ Then(a, "readIndex")
  /\ UNCHANGED <<configs, index, providerCache, listed, disturbed>>

\* A deletion ends here when the index does not have the id.
ReadIndex(a) ==
  LET c == requesting[a].on IN
  /\ Doing(a, "readIndex")
  /\ \/ requesting[a].op = "delete" /\ c \notin index /\ Ends(a)
     \/ /\ requesting[a].op = "delete" => c \in index
        /\ requesting' = [requesting EXCEPT ![a].pc = "writeIndex", ![a].read = index]
  /\ UNCHANGED <<entries, providerCache, listed, disturbed>>

\* The list read before, with this one change. What others changed since is lost. A
\* deletion that gets this far makes up for one that did not.
WriteIndex(a) ==
  LET c   == requesting[a].on
      new == IF requesting[a].op = "create" THEN requesting[a].read \cup {c} ELSE requesting[a].read \ {c}
      lost == (index \ requesting[a].read) \cup (requesting[a].read \ index)
  IN
  /\ Doing(a, "writeIndex") /\ index' = new /\ listed' = listed \cup new
  /\ providerCache' = [providerCache EXCEPT ![requesting[a].at] =
       IF requesting[a].op = "create" THEN @ \cup {c} ELSE @ \ {c}]
  /\ disturbed' = (IF requesting[a].op = "delete" /\ requesting[a].alone
                   THEN disturbed \ {c} ELSE disturbed) \cup (lost \ {c})
  /\ Ends(a)
  /\ UNCHANGED <<metadata, configs>>

\* A statement fails, or the instance crashes; a crashed instance starts with an
\* empty cache.
RequestFails(a) ==
  /\ ~Doing(a, "idle")
  /\ \/ /\ Ends(a) /\ UNCHANGED providerCache
        /\ disturbed' = disturbed \cup {requesting[a].on}
     \/ LET at   == requesting[a].at
            lost == {b \in Integrators : requesting[b].at = at}
        IN
        /\ providerCache' = [providerCache EXCEPT ![at] = {}]
        /\ disturbed' = disturbed \cup {requesting[b].on : b \in lost}
        /\ requesting' = [b \in Integrators |-> IF b \in lost THEN NoRequest ELSE requesting[b]]
  /\ UNCHANGED <<entries, listed>>

RequestStep(a) ==
  \/ SetMetadata(a) \/ SetConfig(a) \/ DeleteConfig(a) \/ DeleteMetadata(a)
  \/ ReadIndex(a) \/ WriteIndex(a) \/ RequestFails(a)

ConnectionsNext ==
  \/ \E i \in Stores, c \in Connections :
       Look(i, c) \/ \E a \in Integrators : Create(a, i, c) \/ Update(a, i, c) \/ Delete(a, i, c)
  \/ \E a \in Integrators : RequestStep(a)

ConnectionsSpec == ConnectionsInit /\ [][ConnectionsNext]_connectionVars

-----------------------------------------------------------------------------
(* Properties *)

\* Types, and that clients name ids they were told of.
ConnectionsTypeOK ==
  /\ metadata \subseteq Connections /\ configs \subseteq Connections
  /\ index \subseteq listed /\ listed \subseteq Connections /\ disturbed \subseteq Connections
  /\ providerCache \in [Stores -> SUBSET listed]
  /\ \A a \in Integrators : requesting[a].read \subseteq listed

\* core/integration-backend/src/connection-store.ts:7, "tracks connection IDs": once no
\* request is under way a connection is whole and in the index, or nothing of it is
\* left. Only a request that failed, an index written over another's change, or an
\* update during a deletion may leave part of one; deleting it again then helps.
ConnectionsWhole ==
  (\A a \in Integrators : Doing(a, "idle")) =>
    \A c \in Connections \ disturbed :
      \/ c \in index \cap metadata \cap configs
      \/ c \notin index \cup metadata \cup configs
=============================================================================
