--------------------------- MODULE CorePartsProofs ---------------------------
(***************************************************************************)
(* Theorems about the components that CoreParts runs, each about its       *)
(* component alone, which shares no state with the others.                 *)
(***************************************************************************)
EXTENDS CoreParts, SubsequenceFacts, FiniteSetTheorems, TLAPS

-----------------------------------------------------------------------------
(* KeyStore. For every rotation interval, grace period and life of tokens, and
   any number of calls at once: a token that has not expired can be verified.
   TokensVerify is not inductive: a key must be kept for the tokens that calls
   under way are yet to sign with it. *)

\* The key with this kid is there until at least the given time.
KeptUntil(kid, time) ==
  \E k \in keys : k.kid = kid /\ (k.expiresAt = Never \/ k.expiresAt >= time)

TokenKept(t) == now <= t.until /\ t.until <= now + Life /\ KeptUntil(t.kid, t.until)

CallTimely(s) ==
  signing[s].pc # "idle" => signing[s].since <= now /\ now <= signing[s].since + MaxCall

CallKept(s) ==
  signing[s].pc \in {"cleanup", "sign"}
    => KeptUntil(signing[s].kid, signing[s].since + MaxCall + Life)

KeysKept ==
  /\ KeyTypeOK
  /\ \A t \in tokens : TokenKept(t)
  /\ \A s \in Signers : CallTimely(s) /\ CallKept(s)

-----------------------------------------------------------------------------
\* What is kept stays kept when a call adds a key.
LEMMA KeptMore ==
  ASSUME NEW kid, NEW time, keys \subseteq keys', KeptUntil(kid, time)
  PROVE  KeptUntil(kid, time)'
BY DEF KeptUntil, Never

\* A key that is retired is kept for the grace period from then on.
LEMMA KeptWhenExpired ==
  ASSUME KeyTypeOK, NEW s \in Signers, ExpireOld(s), NEW kid, NEW time \in Nat,
         time <= now + Grace, KeptUntil(kid, time)
  PROVE  KeptUntil(kid, time)'
<1> USE TimeAssumption
<1>1. PICK k \in keys : k.kid = kid /\ (k.expiresAt = Never \/ k.expiresAt >= time)
  BY DEF KeptUntil
<1> DEFINE new == IF k.kid = signing[s].kid THEN [k EXCEPT !.expiresAt = now + Grace] ELSE k
<1>2. k \in Key
  BY DEF KeyTypeOK
<1>3. new \in keys'
  BY DEF ExpireOld
<1>4. new.kid = kid /\ (new.expiresAt = Never \/ new.expiresAt >= time)
  BY <1>1, <1>2 DEF Key, KeyTypeOK
<1> QED
  BY <1>3, <1>4 DEF KeptUntil, Never

\* The clean-up deletes nothing that is to be kept until now or later.
LEMMA KeptWhenCleaned ==
  ASSUME KeyTypeOK, NEW s \in Signers, CleanupKeys(s), NEW kid, NEW time \in Nat,
         now <= time, KeptUntil(kid, time)
  PROVE  KeptUntil(kid, time)'
<1>1. PICK k \in keys : k.kid = kid /\ (k.expiresAt = Never \/ k.expiresAt >= time)
  BY DEF KeptUntil
<1>2. k \in Key
  BY DEF KeyTypeOK
<1>3. k.expiresAt = Never \/ k.expiresAt >= now
  BY <1>1, <1>2 DEF Key, KeyTypeOK, Never
<1>4. k \in keys'
  BY <1>3 DEF CleanupKeys
<1> QED
  BY <1>1, <1>4 DEF KeptUntil, Never

\* Types are kept by every step.
LEMMA KeyTypeStep ==
  ASSUME KeyTypeOK, [KeyNext]_keyVars
  PROVE  KeyTypeOK'
<1> USE TimeAssumption DEF KeyTypeOK
<1>1. CASE Tick
  BY <1>1 DEF Tick
<1>2. ASSUME NEW s \in Signers, GetSigningKey(s) PROVE KeyTypeOK'
  <2>1. CASE signing' = [signing EXCEPT ![s] = [pc |-> "generate", kid |-> 0, since |-> now]]
    BY <1>2, <2>1 DEF GetSigningKey, Call
  <2>2. ASSUME NEW k \in Newest,
               signing' = [signing EXCEPT ![s] =
                 [pc |-> IF now - k.createdAt > Rotation THEN "expireOld" ELSE "sign",
                  kid |-> k.kid, since |-> now]]
        PROVE  KeyTypeOK'
    <3>1. k \in Key
      BY DEF Newest, ActiveKeys
    <3> QED
      BY <1>2, <2>2, <3>1 DEF GetSigningKey, Call, Key
  <2> QED
    BY <1>2, <2>1, <2>2 DEF GetSigningKey
<1>3. ASSUME NEW s \in Signers, ExpireOld(s) PROVE KeyTypeOK'
  <2>1. \A k \in Key : [k EXCEPT !.expiresAt = now + Grace] \in Key
    BY DEF Key
  <2>2. keys' \subseteq Key
    BY <1>3, <2>1 DEF ExpireOld
  <2> QED
    BY <1>3, <2>2 DEF ExpireOld, Goes, Call
<1>4. ASSUME NEW s \in Signers, GenerateKey(s) PROVE KeyTypeOK'
  <2>1. generated' \in Nat /\ [kid |-> generated', createdAt |-> now, expiresAt |-> Never] \in Key
    BY <1>4 DEF GenerateKey, Key
  <2>2. keys' \subseteq Key
    BY <1>4, <2>1 DEF GenerateKey
  <2>3. signing' \in [Signers -> Call]
    BY ZenonT(30), <1>4, <2>1 DEF GenerateKey, Call
  <2> QED
    BY <1>4, <2>1, <2>2, <2>3 DEF GenerateKey
<1>5. ASSUME NEW s \in Signers, CleanupKeys(s) PROVE KeyTypeOK'
  BY <1>5 DEF CleanupKeys, Goes, Call
<1>6. ASSUME NEW s \in Signers, Sign(s) PROVE KeyTypeOK'
  BY <1>6 DEF Sign, Token, Call, NoCall
<1>7. ASSUME NEW s \in Signers, SigningFails(s) PROVE KeyTypeOK'
  BY <1>7 DEF SigningFails, Call, NoCall
<1>8. CASE UNCHANGED keyVars
  BY <1>8 DEF keyVars
<1> QED
  BY <1>1, <1>2, <1>3, <1>4, <1>5, <1>6, <1>7, <1>8 DEF KeyNext, SignerStep

\* The invariant is inductive. One step per action, and for each the tokens and the calls.
LEMMA KeysKeptStep ==
  ASSUME KeysKept, [KeyNext]_keyVars
  PROVE  KeysKept'
<1> USE TimeAssumption
<1>0. KeyTypeOK /\ KeyTypeOK'
  BY KeyTypeStep DEF KeysKept
<1>T. \A t \in tokens : t.kid \in Nat /\ t.until \in Nat /\ TokenKept(t)
  BY <1>0 DEF KeysKept, KeyTypeOK, Token
<1>S. \A s \in Signers : signing[s] \in Call /\ CallTimely(s) /\ CallKept(s)
  BY <1>0 DEF KeysKept, KeyTypeOK
<1>N. now \in Nat
  BY <1>0 DEF KeyTypeOK
<1>1. CASE Tick
  <2>1. ASSUME NEW t \in tokens' PROVE TokenKept(t)'
    <3>1. t \in tokens /\ t.until >= now' /\ now' = now + 1 /\ keys' = keys
      BY <1>1 DEF Tick
    <3>2. KeptUntil(t.kid, t.until)'
      BY <1>T, <3>1, KeptMore DEF TokenKept
    <3> QED
      BY <1>T, <1>N, <3>1, <3>2 DEF TokenKept
  <2>2. ASSUME NEW s \in Signers PROVE CallTimely(s)' /\ CallKept(s)'
    <3>1. signing' = signing /\ keys' = keys /\ now' = now + 1
          /\ (signing[s].pc # "idle" => now - signing[s].since < MaxCall)
      BY <1>1 DEF Tick
    <3>2. signing[s].since \in Nat
      BY <1>S DEF Call
    <3>3. CallTimely(s)'
      BY <1>S, <1>N, <3>1, <3>2 DEF CallTimely
    <3>4. CallKept(s)'
      BY <1>S, <3>1, KeptMore DEF CallKept
    <3> QED
      BY <3>3, <3>4
  <2> QED
    BY <1>0, <2>1, <2>2 DEF KeysKept
<1>2. ASSUME NEW s \in Signers, GetSigningKey(s) PROVE KeysKept'
  <2>1. now' = now /\ keys' = keys /\ tokens' = tokens
        /\ \A r \in Signers \ {s} : signing'[r] = signing[r]
    BY <1>2, <1>0 DEF GetSigningKey, KeyTypeOK
  <2>2. \A t \in tokens' : TokenKept(t)'
    BY <1>T, <2>1 DEF TokenKept, KeptUntil
  <2>3. ASSUME NEW r \in Signers, r # s PROVE CallTimely(r)' /\ CallKept(r)'
    BY <1>S, <2>1, <2>3 DEF CallTimely, CallKept, KeptUntil
  <2>4. signing'[s].since = now
    BY <1>2, <1>0 DEF GetSigningKey, KeyTypeOK
  <2>5. CallTimely(s)'
    BY <1>N, <2>1, <2>4 DEF CallTimely
  <2>6. CallKept(s)'
    <3>1. CASE signing'[s].pc = "generate"
      BY <3>1 DEF CallKept
    <3>2. ASSUME NEW k \in Newest, signing'[s].kid = k.kid PROVE CallKept(s)'
      <4>1. k \in keys /\ k.expiresAt = Never
        BY DEF Newest, ActiveKeys
      <4> QED
        BY <2>1, <3>2, <4>1 DEF CallKept, KeptUntil, Never
    <3> QED
      BY <1>2, <1>0, <3>1, <3>2 DEF GetSigningKey, KeyTypeOK
  <2> QED
    BY <1>0, <2>2, <2>3, <2>5, <2>6 DEF KeysKept
<1>3. ASSUME NEW s \in Signers, ExpireOld(s) PROVE KeysKept'
  <2>1. /\ now' = now /\ tokens' = tokens
        /\ \A r \in Signers : /\ signing'[r].kid = signing[r].kid /\ signing'[r].since = signing[r].since
                              /\ signing'[r].pc = IF r = s THEN "generate" ELSE signing[r].pc
    BY <1>3, <1>0 DEF ExpireOld, Goes, KeyTypeOK, Call
  <2>2. signing[s].pc = "expireOld"
    BY <1>3 DEF ExpireOld
  <2>3. ASSUME NEW t \in tokens' PROVE TokenKept(t)'
    <3>1. t.until <= now + Grace
      BY <1>T, <1>N, <2>1 DEF TokenKept
    <3>2. KeptUntil(t.kid, t.until)'
      BY <1>T, <1>0, <1>3, <2>1, <3>1, KeptWhenExpired DEF TokenKept
    <3> QED
      BY <1>T, <2>1, <3>2 DEF TokenKept
  <2>4. ASSUME NEW r \in Signers PROVE CallTimely(r)' /\ CallKept(r)'
    <3>1. signing[r].since \in Nat
      BY <1>S DEF Call
    <3>2. CallTimely(r)'
      BY <1>S, <2>1, <2>2 DEF CallTimely
    <3>3. ASSUME signing'[r].pc \in {"cleanup", "sign"}
          PROVE  \E kid \in Nat, time \in Nat : /\ kid = signing'[r].kid
                                              /\ time = signing'[r].since + MaxCall + Life
                                              /\ KeptUntil(kid, time)'
      <4>1. PICK kid \in Nat, time \in Nat : kid = signing[r].kid /\ time = signing[r].since + MaxCall + Life
        BY <1>S, <3>1 DEF Call
      <4>2. KeptUntil(kid, time) /\ time <= now + Grace
        BY <1>S, <1>N, <2>1, <2>2, <3>1, <3>3, <4>1 DEF CallKept, CallTimely
      <4>3. KeptUntil(kid, time)'
        BY <1>0, <1>3, <4>2, KeptWhenExpired
      <4> QED
        BY <2>1, <4>1, <4>3
    <3> QED
      BY <2>1, <3>2, <3>3 DEF CallKept, KeptUntil
  <2> QED
    BY <1>0, <2>3, <2>4 DEF KeysKept
<1>4. ASSUME NEW s \in Signers, GenerateKey(s) PROVE KeysKept'
  <2>1. /\ now' = now /\ tokens' = tokens /\ keys \subseteq keys'
        /\ \A r \in Signers \ {s} : signing'[r] = signing[r]
        /\ signing'[s].since = signing[s].since /\ signing[s].pc = "generate"
        /\ [kid |-> signing'[s].kid, createdAt |-> now, expiresAt |-> Never] \in keys'
    BY <1>4, <1>0 DEF GenerateKey, KeyTypeOK, Call
  <2>2. \A t \in tokens' : TokenKept(t)'
    BY <1>T, <2>1, KeptMore DEF TokenKept
  <2>3. ASSUME NEW r \in Signers, r # s PROVE CallTimely(r)' /\ CallKept(r)'
    BY <1>S, <2>1, <2>3, KeptMore DEF CallTimely, CallKept
  <2>4. CallTimely(s)' /\ CallKept(s)'
    BY <1>S, <2>1 DEF CallTimely, CallKept, KeptUntil, Never
  <2> QED
    BY <1>0, <2>2, <2>3, <2>4 DEF KeysKept
<1>5. ASSUME NEW s \in Signers, CleanupKeys(s) PROVE KeysKept'
  <2>1. /\ now' = now /\ tokens' = tokens
        /\ \A r \in Signers : /\ signing'[r].kid = signing[r].kid /\ signing'[r].since = signing[r].since
                              /\ signing'[r].pc = IF r = s THEN "sign" ELSE signing[r].pc
    BY <1>5, <1>0 DEF CleanupKeys, Goes, KeyTypeOK, Call
  <2>2. signing[s].pc = "cleanup"
    BY <1>5 DEF CleanupKeys
  <2>3. ASSUME NEW t \in tokens' PROVE TokenKept(t)'
    <3>1. KeptUntil(t.kid, t.until)'
      BY <1>T, <1>0, <1>5, <2>1, KeptWhenCleaned DEF TokenKept
    <3> QED
      BY <1>T, <2>1, <3>1 DEF TokenKept
  <2>4. ASSUME NEW r \in Signers PROVE CallTimely(r)' /\ CallKept(r)'
    <3>1. signing[r].since \in Nat
      BY <1>S DEF Call
    <3>2. CallTimely(r)'
      BY <1>S, <2>1, <2>2 DEF CallTimely
    <3>3. ASSUME signing'[r].pc \in {"cleanup", "sign"}
          PROVE  \E kid \in Nat, time \in Nat : /\ kid = signing'[r].kid
                                              /\ time = signing'[r].since + MaxCall + Life
                                              /\ KeptUntil(kid, time)'
      <4>1. PICK kid \in Nat, time \in Nat : kid = signing[r].kid /\ time = signing[r].since + MaxCall + Life
        BY <1>S, <3>1 DEF Call
      <4>2. KeptUntil(kid, time) /\ now <= time
        BY <1>S, <1>N, <2>1, <2>2, <3>1, <3>3, <4>1 DEF CallKept, CallTimely
      <4>3. KeptUntil(kid, time)'
        BY <1>0, <1>5, <4>2, KeptWhenCleaned
      <4> QED
        BY <2>1, <4>1, <4>3
    <3> QED
      BY <2>1, <3>2, <3>3 DEF CallKept, KeptUntil
  <2> QED
    BY <1>0, <2>3, <2>4 DEF KeysKept
<1>6. ASSUME NEW s \in Signers, Sign(s) PROVE KeysKept'
  <2>0. PICK new : new = [kid |-> signing[s].kid, until |-> now + Life]
    OBVIOUS
  <2>1. /\ now' = now /\ keys' = keys /\ tokens' = tokens \cup {new}
        /\ signing[s].pc = "sign" /\ signing'[s].pc = "idle"
        /\ \A r \in Signers \ {s} : signing'[r] = signing[r]
    BY <1>6, <1>0, <2>0 DEF Sign, KeyTypeOK, NoCall
  <2>2. TokenKept(new)'
    <3>1. PICK since \in Nat : since = signing[s].since
      BY <1>S DEF Call
    <3>2. now <= since + MaxCall
      BY <1>S, <2>1, <3>1 DEF CallTimely
    <3>3. PICK k \in keys : /\ k.kid = signing[s].kid
                            /\ k.expiresAt = Never \/ k.expiresAt >= since + MaxCall + Life
      BY <1>S, <2>1, <3>1 DEF CallKept, KeptUntil
    <3>4. k.expiresAt = Never \/ k.expiresAt \in Nat
      BY <1>0 DEF KeyTypeOK, Key
    <3>5. k.expiresAt = Never \/ k.expiresAt >= now + Life
      BY <1>N, <3>2, <3>3, <3>4
    <3>6. k.kid = new.kid /\ new.until = now + Life
      BY <2>0, <3>3
    <3>7. KeptUntil(new.kid, new.until)'
      BY <2>1, <3>5, <3>6 DEF KeptUntil, Never
    <3> QED
      BY <1>N, <2>1, <3>6, <3>7 DEF TokenKept
  <2>3. \A t \in tokens : TokenKept(t)'
    BY <1>T, <2>1 DEF TokenKept, KeptUntil
  <2>4. \A r \in Signers : CallTimely(r)' /\ CallKept(r)'
    BY <1>S, <2>1 DEF CallTimely, CallKept, KeptUntil
  <2>5. \A t \in tokens' : TokenKept(t)'
    BY <2>1, <2>2, <2>3
  <2> QED
    BY <1>0, <2>4, <2>5 DEF KeysKept
<1>7. ASSUME NEW s \in Signers, SigningFails(s) PROVE KeysKept'
  <2>1. /\ now' = now /\ keys' = keys /\ tokens' = tokens /\ signing'[s].pc = "idle"
        /\ \A r \in Signers \ {s} : signing'[r] = signing[r]
    BY <1>7, <1>0 DEF SigningFails, KeyTypeOK, NoCall
  <2>2. \A t \in tokens' : TokenKept(t)'
    BY <1>T, <2>1 DEF TokenKept, KeptUntil
  <2>3. \A r \in Signers : CallTimely(r)' /\ CallKept(r)'
    BY <1>S, <2>1 DEF CallTimely, CallKept, KeptUntil
  <2> QED
    BY <1>0, <2>2, <2>3 DEF KeysKept
<1>8. CASE UNCHANGED keyVars
  BY <1>0, <1>T, <1>S, <1>8 DEF keyVars, KeysKept, TokenKept, CallTimely, CallKept, KeptUntil
<1> QED
  BY <1>1, <1>2, <1>3, <1>4, <1>5, <1>6, <1>7, <1>8 DEF KeyNext, SignerStep

-----------------------------------------------------------------------------
\* The types of keys, calls and tokens are kept by every rotation and failure.
THEOREM KeyTypesCorrect == KeySpec => []KeyTypeOK
<1>1. KeyInit => KeyTypeOK
  BY DEF KeyInit, KeyTypeOK, NoCall, Call
<1> QED
  BY <1>1, KeyTypeStep, PTL DEF KeySpec

\* core/backend/src/services/keystore.ts:117: whatever number of calls rotate, clean up
\* and fail at once, a token that has not expired can be verified, if a call and the
\* life of its token together are not longer than the grace period.
THEOREM TokensVerifyCorrect == KeySpec => []TokensVerify
<1>1. KeyInit => KeysKept
  BY DEF KeyInit, KeysKept, KeyTypeOK, NoCall, Call, CallTimely, CallKept
<1>2. KeysKept => TokensVerify
  BY DEF KeysKept, TokenKept, KeptUntil, TokensVerify, Published
<1> QED
  BY <1>1, <1>2, KeysKeptStep, PTL DEF KeySpec

-----------------------------------------------------------------------------
(* AccessRules and PluginLifecycle: RemovalsStick, for any plugins, instances,
   roles and administrators. A default that was removed is recorded as disabled,
   no starting instance has read that it is not, and no edit under way gives it
   back. *)

DefaultRoles == {"users", "anonymous"}
SyncPhases == {"off", "record", "grantAdmin", "unmap", "deleteRule", "readRole", "grantRole"}
SyncType == [pc : SyncPhases, rules : SUBSET Plugins, todo : SUBSET Plugins,
             role : {"none"} \cup DefaultRoles, off : SUBSET Plugins]
EditType == [pc : {"idle", "track"}, role : {"none"} \cup Roles, rules : SUBSET Plugins,
             remove : SUBSET Plugins, add : SUBSET Plugins, alone : BOOLEAN]

StickTypes ==
  /\ loaded \in [Hosts -> SUBSET Plugins] /\ installed \subseteq Plugins /\ known \subseteq Plugins
  /\ roles \subseteq CustomRoles
  /\ syncing \in [Syncers -> SyncType] /\ editingRole \in [Administrators -> EditType]
  /\ disabled \subseteq DefaultRoles \X Plugins /\ removed \subseteq disabled

\* A starting instance that is about to grant the defaults of a role leaves out what was
\* removed from it.
Granting(sync) == sync.pc \in {"readRole", "grantRole"}
SyncRespects(sync) ==
  /\ Granting(sync) => \A p \in Plugins : <<sync.role, p>> \in removed => p \in sync.off
  /\ sync.pc = "grantRole" => sync.todo \cap sync.off = {}
SyncsRespect ==
  \A s \in Syncers : SyncRespects(syncing[s]) /\ (Granting(syncing[s]) => s \in Hosts)

\* An edit under way gives nothing back that counts as removed, and does not count as
\* alone when the role has another.
EditRespects(edit) ==
  edit.pc = "track" =>
    /\ \A p \in Plugins : <<edit.role, p>> \in removed => p \notin edit.rules /\ p \notin edit.add
    /\ edit.remove # {} => edit.role \in DefaultRoles
EditsRespect == \A a \in Administrators : EditRespects(editingRole[a])
EditsAlone ==
  \A a, b \in Administrators :
    /\ a # b /\ editingRole[a].pc = "track" /\ editingRole[b].pc = "track"
    /\ editingRole[a].role = editingRole[b].role
    => ~editingRole[a].alone

StickInv == StickTypes /\ RemovalsStick /\ SyncsRespect /\ EditsRespect /\ EditsAlone
LEMMA DefaultsOf == DOMAIN Defaults = DefaultRoles /\ "admin" \notin DefaultRoles
BY DEF Defaults, DefaultRoles

LEMMA RemovedPairs ==
  ASSUME StickTypes, NEW d \in removed
  PROVE  d = <<d[1], d[2]>> /\ d[1] \in DefaultRoles /\ d[2] \in Plugins
BY DEF StickTypes

\* Nothing is given back by a step that gives no removed default to its role.
LEMMA StillRemoved ==
  ASSUME RemovalsStick, removed' = removed, \A d \in removed : d \notin granted' \/ d \in granted
  PROVE  RemovalsStick'
BY DEF RemovalsStick

\* A syncer takes a step.
LEMMA SyncerMoves ==
  ASSUME StickInv, NEW s \in Syncers, NEW new \in SyncType,
         syncing' = [syncing EXCEPT ![s] = new], SyncRespects(new), Granting(new) => s \in Hosts,
         UNCHANGED <<roles, disabled, editingRole, removed, installed>>,
         loaded' \in [Hosts -> SUBSET Plugins], known' \subseteq Plugins,
         \A d \in removed : d \notin granted' \/ d \in granted
  PROVE  StickInv'
<1>1. syncing' \in [Syncers -> SyncType] /\ syncing'[s] = new
      /\ \A t \in Syncers \ {s} : syncing'[t] = syncing[t]
  BY DEF StickInv, StickTypes
<1>2. StickTypes'
  BY <1>1 DEF StickInv, StickTypes
<1>3. RemovalsStick'
  BY StillRemoved DEF StickInv
<1>4. SyncsRespect'
  BY <1>1 DEF StickInv, SyncsRespect, SyncRespects, Granting
<1>5. EditsRespect' /\ EditsAlone'
  BY DEF StickInv, EditsRespect, EditRespects, EditsAlone
<1> QED
  BY <1>2, <1>3, <1>4, <1>5 DEF StickInv

LEMMA SyncStepSticks ==
  ASSUME StickInv, NEW s \in Syncers, SyncStep(s), UNCHANGED installed
  PROVE  StickInv'
<1>0. /\ syncing[s] \in SyncType /\ known \subseteq Plugins /\ loaded \in [Hosts -> SUBSET Plugins]
      /\ syncing \in [Syncers -> SyncType]
  BY DEF StickInv, StickTypes
<1>1. PICK recorded \in SyncPhases : recorded = "grantAdmin"
  BY DEF SyncPhases
<1>2. PICK orphaned \in SyncPhases : orphaned = "unmap"
  BY DEF SyncPhases
<1>3. PICK unmapped \in SyncPhases : unmapped = "deleteRule"
  BY DEF SyncPhases
<1>4. PICK told \in SyncPhases : told = "readRole"
  BY DEF SyncPhases
<1>5. PICK read \in SyncPhases : read = "grantRole"
  BY DEF SyncPhases
<1>6. PICK none \in SUBSET Plugins : none = {}
  OBVIOUS
<1>7. CASE RecordRule(s)
  <2> PICK p \in Left(s) : known' = known \cup {p}
                           /\ syncing' = [syncing EXCEPT ![s].todo = @ \ {p}]
    BY <1>7 DEF RecordRule
  <2> DEFINE new == [syncing[s] EXCEPT !.todo = syncing[s].todo \ {p}]
  <2>1. new \in SyncType /\ new.pc = "record" /\ p \in Plugins
    BY <1>0, <1>7 DEF SyncType, RecordRule, At, Left
  <2>2. SyncRespects(new) /\ ~Granting(new)
    BY <2>1 DEF SyncRespects, Granting
  <2>3. syncing' = [syncing EXCEPT ![s] = new] /\ known' \subseteq Plugins
        /\ UNCHANGED <<loaded, granted, roles, disabled, editingRole, removed, installed>>
    BY <1>0, <1>7, <2>1 DEF RecordRule
  <2> HIDE DEF new
  <2> QED
    BY <1>0, <2>1, <2>2, <2>3, SyncerMoves
<1>8. CASE ReadAdmin(s)
  <2> DEFINE todo == {p \in syncing[s].rules : <<"admin", p>> \notin granted}
  <2>0. todo \in SUBSET Plugins
    BY <1>0 DEF SyncType
  <2>1. syncing' = [syncing EXCEPT ![s].pc = recorded, ![s].todo = todo]
        /\ UNCHANGED <<loaded, ruleTables, editingRole, removed, installed>>
    BY <1>1, <1>8 DEF ReadAdmin
  <2> HIDE DEF todo
  <2> DEFINE new == [syncing[s] EXCEPT !.pc = recorded, !.todo = todo]
  <2>2. new \in SyncType /\ new.pc = "grantAdmin"
    BY <1>0, <1>1, <2>0 DEF SyncType
  <2>3. SyncRespects(new) /\ ~Granting(new)
    BY <2>2 DEF SyncRespects, Granting
  <2>4. syncing' = [syncing EXCEPT ![s] = new]
    BY <1>0, <2>1
  <2> HIDE DEF new
  <2> QED
    BY <1>0, <2>1, <2>2, <2>3, <2>4, SyncerMoves DEF ruleTables
<1>9. CASE GrantAdmin(s)
  <2> PICK p \in Left(s) \cap known : /\ granted' = granted \cup {<<"admin", p>>}
                                      /\ syncing' = [syncing EXCEPT ![s].todo = @ \ {p}]
    BY <1>9 DEF GrantAdmin
  <2> DEFINE new == [syncing[s] EXCEPT !.todo = syncing[s].todo \ {p}]
  <2>1. new \in SyncType /\ new.pc = "grantAdmin"
    BY <1>0, <1>9 DEF SyncType, GrantAdmin, At
  <2>2. SyncRespects(new) /\ ~Granting(new)
    BY <2>1 DEF SyncRespects, Granting
  <2>3. syncing' = [syncing EXCEPT ![s] = new]
        /\ UNCHANGED <<loaded, known, roles, disabled, editingRole, removed, installed>>
    BY <1>0, <1>9 DEF GrantAdmin
  <2>4. \A d \in removed : d \notin granted' \/ d \in granted
    BY RemovedPairs, DefaultsOf DEF StickInv
  <2> HIDE DEF new
  <2> QED
    BY <1>0, <2>1, <2>2, <2>3, <2>4, SyncerMoves
<1>10. CASE FindOrphans(s)
  <2> DEFINE todo == known \ syncing[s].rules
  <2>0. todo \in SUBSET Plugins
    BY <1>0
  <2>1. syncing' = [syncing EXCEPT ![s].pc = orphaned, ![s].todo = todo]
        /\ UNCHANGED <<loaded, ruleTables, editingRole, removed, installed>>
    BY <1>2, <1>10 DEF FindOrphans
  <2> HIDE DEF todo
  <2> DEFINE new == [syncing[s] EXCEPT !.pc = orphaned, !.todo = todo]
  <2>2. new \in SyncType /\ new.pc = "unmap"
    BY <1>0, <1>2, <2>0 DEF SyncType
  <2>3. SyncRespects(new) /\ ~Granting(new)
    BY <2>2 DEF SyncRespects, Granting
  <2>4. syncing' = [syncing EXCEPT ![s] = new]
    BY <1>0, <2>1
  <2> HIDE DEF new
  <2> QED
    BY <1>0, <2>1, <2>2, <2>3, <2>4, SyncerMoves DEF ruleTables
<1>11. CASE UnmapOrphan(s)
  <2> PICK p \in Left(s) : /\ granted' = granted \ Held(p)
                           /\ syncing' = [syncing EXCEPT ![s].pc = "deleteRule", ![s].off = {p}]
    BY <1>11 DEF UnmapOrphan
  <2>0. PICK off \in SUBSET Plugins : off = {p}
    BY <1>0 DEF SyncType, Left
  <2> DEFINE new == [syncing[s] EXCEPT !.pc = unmapped, !.off = off]
  <2>2. new \in SyncType /\ new.pc = "deleteRule"
    BY <1>0, <1>3 DEF SyncType
  <2>3. SyncRespects(new) /\ ~Granting(new)
    BY <2>2 DEF SyncRespects, Granting
  <2>4. syncing' = [syncing EXCEPT ![s] = new]
        /\ UNCHANGED <<loaded, known, roles, disabled, editingRole, removed, installed>>
    BY <1>0, <1>3, <1>11, <2>0 DEF UnmapOrphan
  <2> HIDE DEF new
  <2> QED
    BY <1>0, <2>2, <2>3, <2>4, SyncerMoves
<1>12. CASE DeleteRule(s)
  <2>0. PICK todo \in SUBSET Plugins : todo = syncing[s].todo \ syncing[s].off
    BY <1>0 DEF SyncType
  <2> DEFINE new == [syncing[s] EXCEPT !.pc = orphaned, !.todo = todo, !.off = none]
  <2>2. new \in SyncType /\ new.pc = "unmap"
    BY <1>0, <1>2 DEF SyncType
  <2>3. SyncRespects(new) /\ ~Granting(new)
    BY <2>2 DEF SyncRespects, Granting
  <2>4. syncing' = [syncing EXCEPT ![s] = new]
        /\ known' = known \ syncing[s].off
        /\ UNCHANGED <<loaded, granted, roles, disabled, editingRole, removed, installed>>
    BY <1>0, <1>2, <1>6, <1>12, <2>0 DEF DeleteRule
  <2> HIDE DEF new
  <2> QED
    BY <1>0, <2>2, <2>3, <2>4, SyncerMoves
<1>13. CASE ReadDisabled(s)
  <2> PICK r \in DefaultRoles :
        syncing' = [syncing EXCEPT ![s].pc = "readRole", ![s].role = r,
                                   ![s].off = {p \in Plugins : <<r, p>> \in disabled}]
    BY <1>13, DefaultsOf DEF ReadDisabled
  <2>0. PICK off \in SUBSET Plugins : off = {p \in Plugins : <<r, p>> \in disabled}
    OBVIOUS
  <2> DEFINE new == [syncing[s] EXCEPT !.pc = told, !.role = r, !.off = off]
  <2>2. new \in SyncType /\ new.pc = "readRole" /\ new.role = r /\ new.off = off
    BY <1>0, <1>4 DEF SyncType
  <2>3. SyncRespects(new) /\ s \in Hosts
    BY <1>13, <2>0, <2>2 DEF SyncRespects, Granting, ReadDisabled, StickInv, StickTypes
  <2>4. syncing' = [syncing EXCEPT ![s] = new]
        /\ UNCHANGED <<loaded, ruleTables, editingRole, removed, installed>>
    BY <1>0, <1>4, <1>13, <2>0 DEF ReadDisabled
  <2> HIDE DEF new
  <2> QED
    BY <1>0, <2>2, <2>3, <2>4, SyncerMoves DEF ruleTables
<1>14. CASE ReadRole(s)
  <2> DEFINE todo == {p \in syncing[s].rules \cap Defaults[syncing[s].role] :
                        p \notin syncing[s].off /\ <<syncing[s].role, p>> \notin granted}
  <2>0. todo \in SUBSET Plugins /\ todo \cap syncing[s].off = {}
    BY <1>0 DEF SyncType
  <2>1. syncing' = [syncing EXCEPT ![s].pc = read, ![s].todo = todo]
        /\ UNCHANGED <<loaded, ruleTables, editingRole, removed, installed>>
    BY <1>5, <1>14 DEF ReadRole
  <2> HIDE DEF todo
  <2> DEFINE new == [syncing[s] EXCEPT !.pc = read, !.todo = todo]
  <2>2. new \in SyncType /\ new.pc = "grantRole" /\ new.todo = todo /\ new.role = syncing[s].role
        /\ new.off = syncing[s].off
    BY <1>0, <1>5, <2>0 DEF SyncType
  <2>3. SyncRespects(new) /\ s \in Hosts
    BY <1>14, <2>0, <2>2 DEF SyncRespects, Granting, ReadRole, At, StickInv, SyncsRespect
  <2>4. syncing' = [syncing EXCEPT ![s] = new]
    BY <1>0, <2>1
  <2> HIDE DEF new
  <2> QED
    BY <1>0, <2>1, <2>2, <2>3, <2>4, SyncerMoves DEF ruleTables
<1>15. CASE GrantRole(s)
  <2> PICK p \in Left(s) \cap known :
        /\ granted' = granted \cup {<<syncing[s].role, p>>}
        /\ syncing' = [syncing EXCEPT ![s].todo = @ \ {p}]
    BY <1>15 DEF GrantRole
  <2> DEFINE new == [syncing[s] EXCEPT !.todo = syncing[s].todo \ {p}]
  <2>1. new \in SyncType /\ new.pc = "grantRole" /\ new.todo = syncing[s].todo \ {p}
        /\ new.role = syncing[s].role /\ new.off = syncing[s].off
    BY <1>0, <1>15 DEF SyncType, GrantRole, At
  <2>2. SyncRespects(syncing[s]) /\ syncing[s].pc = "grantRole" /\ s \in Hosts
    BY <1>15 DEF StickInv, SyncsRespect, Granting, GrantRole, At
  <2>3. SyncRespects(new)
    BY <2>1, <2>2 DEF SyncRespects, Granting
  <2>4. syncing' = [syncing EXCEPT ![s] = new]
        /\ UNCHANGED <<loaded, known, roles, disabled, editingRole, removed, installed>>
    BY <1>0, <1>15 DEF GrantRole
  <2>5. <<syncing[s].role, p>> \notin removed
    BY <1>0, <2>2 DEF SyncRespects, Granting, Left
  <2>6. \A d \in removed : d \notin granted' \/ d \in granted
    BY <2>5
  <2> HIDE DEF new
  <2> QED
    BY <1>0, <2>1, <2>2, <2>3, <2>4, <2>6, SyncerMoves
<1> QED
  BY <1>7, <1>8, <1>9, <1>10, <1>11, <1>12, <1>13, <1>14, <1>15 DEF SyncStep
\* The tracking of an edit, by one step.
LEMMA EditorMoves ==
  ASSUME StickInv, NEW a \in Administrators, NEW new \in EditType,
         editingRole' = [editingRole EXCEPT ![a] = new],
         new.pc = editingRole[a].pc, new.role = editingRole[a].role,
         new.rules = editingRole[a].rules, new.alone = editingRole[a].alone,
         new.remove \subseteq editingRole[a].remove, new.add \subseteq editingRole[a].add,
         disabled' \subseteq DefaultRoles \X Plugins, removed \subseteq disabled',
         UNCHANGED <<loaded, known, granted, roles, syncing, removed, installed>>
  PROVE  StickInv'
<1>1. editingRole' \in [Administrators -> EditType] /\ editingRole'[a] = new
      /\ \A b \in Administrators \ {a} : editingRole'[b] = editingRole[b]
  BY DEF StickInv, StickTypes
<1>2. StickTypes' /\ RemovalsStick'
  BY <1>1 DEF StickInv, StickTypes, RemovalsStick
<1>3. SyncsRespect'
  BY DEF StickInv, SyncsRespect, SyncRespects, Granting
<1>4. EditRespects(editingRole[a])
  BY DEF StickInv, EditsRespect
<1>5. EditRespects(new)'
  <2>1. EditRespects(new)
    BY <1>4 DEF EditRespects
  <2> QED
    BY <2>1 DEF EditRespects
<1>6. EditsRespect'
  BY <1>1, <1>5 DEF StickInv, EditsRespect, EditRespects
<1>7. EditsAlone'
  BY <1>1 DEF StickInv, EditsAlone
<1> QED
  BY <1>2, <1>3, <1>6, <1>7 DEF StickInv

LEMMA NoEditIs == NoEdit \in EditType /\ NoEdit.pc = "idle"
<1>1. PICK pc \in {"idle", "track"} : pc = "idle"
  OBVIOUS
<1>2. PICK role \in {"none"} \cup Roles : role = "none"
  OBVIOUS
<1>3. PICK none \in SUBSET Plugins : none = {}
  OBVIOUS
<1>4. PICK alone \in BOOLEAN : alone = TRUE
  OBVIOUS
<1>5. NoEdit = [pc |-> pc, role |-> role, rules |-> none, remove |-> none, add |-> none,
                alone |-> alone]
  BY <1>1, <1>2, <1>3, <1>4 DEF NoEdit
<1> QED
  BY <1>1, <1>5 DEF EditType

LEMMA NotSyncingIs == NotSyncing \in SyncType /\ NotSyncing.pc = "off"
<1>1. PICK pc \in SyncPhases : pc = "off"
  BY DEF SyncPhases
<1>2. PICK none \in SUBSET Plugins : none = {}
  OBVIOUS
<1>3. PICK role \in {"none"} \cup DefaultRoles : role = "none"
  OBVIOUS
<1>4. NotSyncing = [pc |-> pc, rules |-> none, todo |-> none, role |-> role, off |-> none]
  BY <1>1, <1>2, <1>3 DEF NotSyncing
<1> QED
  BY <1>1, <1>4 DEF SyncType

\* An edit that is over disturbs nobody.
LEMMA EditorLeaves ==
  ASSUME StickInv, NEW a \in Administrators, editingRole' = [editingRole EXCEPT ![a] = NoEdit],
         UNCHANGED <<loaded, known, granted, roles, syncing, disabled, removed, installed>>
  PROVE  StickInv'
<1>1. editingRole' \in [Administrators -> EditType] /\ editingRole'[a].pc = "idle"
      /\ \A b \in Administrators \ {a} : editingRole'[b] = editingRole[b]
  BY NoEditIs DEF StickInv, StickTypes
<1>2. StickTypes' /\ RemovalsStick'
  BY <1>1 DEF StickInv, StickTypes, RemovalsStick
<1>3. SyncsRespect'
  BY DEF StickInv, SyncsRespect, SyncRespects, Granting
<1>4. EditsRespect' /\ EditsAlone'
  BY <1>1 DEF StickInv, EditsRespect, EditRespects, EditsAlone
<1> QED
  BY <1>2, <1>3, <1>4 DEF StickInv

LEMMA EditStepSticks ==
  ASSUME StickInv, NEW a \in Administrators, EditStep(a), UNCHANGED installed
  PROVE  StickInv'
<1> DEFINE edit == editingRole[a]
<1>0. /\ edit \in EditType /\ known \subseteq Plugins /\ EditRespects(edit) /\ edit.pc = "track"
      /\ editingRole \in [Administrators -> EditType]
  BY DEF StickInv, StickTypes, EditsRespect, EditStep, TrackRemoved, TrackAdded, ReplaceGrants
<1>1. CASE TrackRemoved(a)
  <2> PICK p \in edit.remove \cap known :
        /\ disabled' = disabled \cup {<<edit.role, p>>}
        /\ editingRole' = [editingRole EXCEPT ![a].remove = @ \ {p}]
    BY <1>1 DEF TrackRemoved
  <2> DEFINE new == [edit EXCEPT !.remove = edit.remove \ {p}]
  <2>1. /\ new \in EditType /\ new.pc = edit.pc /\ new.role = edit.role /\ new.rules = edit.rules
        /\ new.alone = edit.alone /\ new.remove \subseteq edit.remove /\ new.add = edit.add
    BY <1>0 DEF EditType
  <2>2. editingRole' = [editingRole EXCEPT ![a] = new]
        /\ UNCHANGED <<loaded, known, granted, roles, syncing, removed, installed>>
    BY <1>0, <1>1 DEF TrackRemoved
  <2>3. <<edit.role, p>> \in DefaultRoles \X Plugins
    BY <1>0 DEF EditRespects
  <2> HIDE DEF new
  <2> QED
    BY <2>1, <2>2, <2>3, EditorMoves DEF StickInv, StickTypes
<1>2. CASE TrackAdded(a)
  <2> PICK p \in edit.add :
        /\ disabled' = disabled \ {<<edit.role, p>>}
        /\ editingRole' = [editingRole EXCEPT ![a].add = @ \ {p}]
    BY <1>2 DEF TrackAdded
  <2> DEFINE new == [edit EXCEPT !.add = edit.add \ {p}]
  <2>1. /\ new \in EditType /\ new.pc = edit.pc /\ new.role = edit.role /\ new.rules = edit.rules
        /\ new.alone = edit.alone /\ new.remove = edit.remove /\ new.add \subseteq edit.add
    BY <1>0 DEF EditType
  <2>2. editingRole' = [editingRole EXCEPT ![a] = new]
        /\ UNCHANGED <<loaded, known, granted, roles, syncing, removed, installed>>
    BY <1>0, <1>2 DEF TrackAdded
  <2>3. <<edit.role, p>> \notin removed
    BY <1>0 DEF EditRespects, EditType
  <2> HIDE DEF new
  <2> QED
    BY <2>1, <2>2, <2>3, EditorMoves DEF StickInv, StickTypes
<1>3. CASE ReplaceGrants(a)
  <2> DEFINE r == edit.role
             gone == IF edit.alone
                     THEN removed \cup {d \in disabled : d[1] = r /\ d[2] \notin edit.rules
                                                         /\ ~AboutToGrant(r, d[2])}
                     ELSE {d \in removed : d[1] # r}
  <2>1. /\ granted' = {g \in granted : g[1] # r} \cup ({r} \X edit.rules) /\ removed' = gone
        /\ editingRole' = [editingRole EXCEPT ![a] = NoEdit]
        /\ UNCHANGED <<loaded, known, disabled, roles, syncing, installed>>
    BY <1>3 DEF ReplaceGrants
  <2>2. editingRole' \in [Administrators -> EditType] /\ editingRole'[a].pc = "idle"
        /\ \A b \in Administrators \ {a} : editingRole'[b] = editingRole[b]
    BY <2>1, NoEditIs DEF StickInv, StickTypes
  <2>3. StickTypes'
    BY <2>1, <2>2 DEF StickInv, StickTypes
  <2>4. ASSUME NEW d \in removed'
        PROVE  /\ d = <<d[1], d[2]>> /\ d[2] \in Plugins
               /\ \/ d \in removed /\ (d[1] = r => edit.alone)
                  \/ edit.alone /\ d[1] = r /\ d[2] \notin edit.rules /\ ~AboutToGrant(r, d[2])
    BY <2>1 DEF StickInv, StickTypes
  <2>5. RemovalsStick'
    <3> SUFFICES ASSUME NEW d \in removed' PROVE d \notin granted'
      BY DEF RemovalsStick
    <3>1. CASE d[1] # r
      BY <2>1, <2>4, <3>1 DEF StickInv, RemovalsStick
    <3>2. CASE d[1] = r
      <4>1. d[2] \notin edit.rules
        <5>1. CASE d \in removed
          BY <1>0, <2>4, <3>2, <5>1 DEF EditRespects
        <5> QED
          BY <2>4, <5>1
      <4> QED
        BY <2>1, <3>2, <4>1
    <3> QED
      BY <3>1, <3>2
  <2>6. SyncsRespect'
    <3> SUFFICES ASSUME NEW s \in Syncers, Granting(syncing[s]), NEW p \in Plugins,
                        <<syncing[s].role, p>> \in removed'
                 PROVE  p \in syncing[s].off
      BY <2>1 DEF StickInv, SyncsRespect, SyncRespects, Granting
    <3>1. s \in Hosts /\ SyncRespects(syncing[s])
      BY DEF StickInv, SyncsRespect
    <3>2. CASE <<syncing[s].role, p>> \in removed
      BY <3>1, <3>2 DEF SyncRespects
    <3>3. CASE syncing[s].role = r /\ ~AboutToGrant(r, p)
      BY <3>1, <3>3 DEF AboutToGrant, Granting
    <3> QED
      BY <2>4, <3>2, <3>3
  <2>7. EditsRespect'
    <3> SUFFICES ASSUME NEW b \in Administrators \ {a}, editingRole[b].pc = "track"
                 PROVE  EditRespects(editingRole[b])'
      BY <2>2 DEF EditsRespect, EditRespects
    <3>1. EditRespects(editingRole[b])
      BY DEF StickInv, EditsRespect
    <3>2. editingRole[b].role = r => ~edit.alone
      BY <1>0 DEF StickInv, EditsAlone
    <3>3. ASSUME NEW p \in Plugins, <<editingRole[b].role, p>> \in removed'
          PROVE  <<editingRole[b].role, p>> \in removed
      BY <2>4, <3>2, <3>3
    <3> QED
      BY <2>2, <3>1, <3>3 DEF EditRespects
  <2>8. EditsAlone'
    BY <2>2 DEF StickInv, EditsAlone
  <2> QED
    BY <2>3, <2>5, <2>6, <2>7, <2>8 DEF StickInv
<1> QED
  BY <1>1, <1>2, <1>3 DEF EditStep
LEMMA RoleRequestSticks ==
  ASSUME StickInv, RoleRequest
  PROVE  StickInv'
<1>0. /\ UNCHANGED installed /\ editingRole \in [Administrators -> EditType]
      /\ loaded \in [Hosts -> SUBSET Plugins] /\ roles \subseteq CustomRoles
  BY DEF RoleRequest, StickInv, StickTypes
<1>1. ASSUME NEW i \in Hosts, NEW rules \in SUBSET Plugins, NEW r \in CustomRoles,
             CreateRole(i, r, rules)
      PROVE  StickInv'
  <2>1. /\ granted' = granted \cup ({r} \X (rules \cap loaded[i])) /\ roles' = roles \cup {r}
        /\ UNCHANGED <<loaded, known, disabled, syncing, editingRole, removed>>
    BY <1>1 DEF CreateRole
  <2>2. r \notin DefaultRoles
    BY AccessAssumption DEF DefaultRoles
  <2>3. \A d \in removed : d \notin granted' \/ d \in granted
    BY <2>1, <2>2, RemovedPairs DEF StickInv
  <2>4. RemovalsStick'
    BY <2>1, <2>3, StillRemoved DEF StickInv
  <2>5. StickTypes'
    BY <1>0, <2>1 DEF StickInv, StickTypes
  <2> QED
    BY <2>1, <2>4, <2>5 DEF StickInv, SyncsRespect, SyncRespects, Granting, EditsRespect,
                            EditRespects, EditsAlone
<1>2. ASSUME NEW r \in CustomRoles, DeleteRole(r)
      PROVE  StickInv'
  <2>1. /\ granted' \subseteq granted /\ roles' \subseteq roles
        /\ UNCHANGED <<loaded, known, disabled, syncing, editingRole, removed>>
    BY <1>2 DEF DeleteRole
  <2> QED
    BY <1>0, <2>1 DEF StickInv, StickTypes, RemovalsStick, SyncsRespect, SyncRespects, Granting,
                      EditsRespect, EditRespects, EditsAlone
<1>3. ASSUME NEW a \in Administrators, EditFails(a)
      PROVE  StickInv'
  BY <1>0, <1>3, EditorLeaves DEF EditFails, ruleTables
<1>4. ASSUME NEW i \in Hosts, NEW rules \in SUBSET Plugins, NEW a \in Administrators,
             NEW r \in Roles, UpdateRole(a, i, r, rules)
      PROVE  StickInv'
  <2> DEFINE default == IF r \in DOMAIN Defaults THEN Defaults[r] \cap loaded[i] ELSE {}
             others == {b \in Administrators : editingRole[b].role = r}
             edit == [pc |-> "track", role |-> r, rules |-> rules \cap loaded[i],
                      remove |-> default \ rules, add |-> default \cap rules, alone |-> others = {}]
  <2>1. /\ editingRole' = [b \in Administrators |->
             IF b = a THEN edit
             ELSE IF b \in others THEN [editingRole[b] EXCEPT !.alone = FALSE] ELSE editingRole[b]]
        /\ removed' = removed \ ({r} \X rules)
        /\ UNCHANGED <<loaded, ruleTables, syncing>>
    BY <1>4 DEF UpdateRole
  <2>2. default \in SUBSET Plugins /\ (r \notin DefaultRoles => default = {})
    BY <1>0, DefaultsOf
  <2>3. /\ edit \in EditType /\ edit.pc = "track" /\ edit.role = r /\ edit.rules \subseteq rules
        /\ edit.add \subseteq rules /\ (edit.remove # {} => r \in DefaultRoles)
        /\ edit.alone => others = {}
    <3>1. PICK pc \in {"idle", "track"} : pc = "track"
      OBVIOUS
    <3>2. PICK alone \in BOOLEAN : alone <=> others = {}
      OBVIOUS
    <3>3. PICK remove \in SUBSET Plugins : remove = default \ rules
      BY <2>2
    <3>4. PICK add \in SUBSET Plugins : add = default \cap rules
      BY <2>2
    <3>5. PICK given \in SUBSET Plugins : given = rules \cap loaded[i]
      OBVIOUS
    <3> DEFINE new == [pc |-> pc, role |-> r, rules |-> given, remove |-> remove, add |-> add,
                       alone |-> alone]
    <3>6. edit = new
      BY <3>1, <3>2, <3>3, <3>4, <3>5
    <3>7. new \in EditType
      BY DEF EditType
    <3>8. /\ new.pc = "track" /\ new.role = r /\ new.rules \subseteq rules
          /\ new.add \subseteq rules /\ (new.remove # {} => r \in DefaultRoles)
          /\ new.alone => others = {}
      BY <2>2, <3>1, <3>2, <3>3, <3>4, <3>5
    <3> HIDE DEF new, edit
    <3> QED
      BY <3>6, <3>7, <3>8
  <2> HIDE DEF edit, default
  <2>4. ASSUME NEW b \in Administrators, b # a
        PROVE  /\ editingRole'[b] \in EditType /\ editingRole'[b].pc = editingRole[b].pc
               /\ editingRole'[b].role = editingRole[b].role
               /\ editingRole'[b].rules = editingRole[b].rules
               /\ editingRole'[b].add = editingRole[b].add
               /\ editingRole'[b].remove = editingRole[b].remove
               /\ editingRole[b].role # r => editingRole'[b].alone = editingRole[b].alone
               /\ editingRole[b].role = r => ~editingRole'[b].alone
    <3>1. editingRole[b] \in EditType
      BY <1>0
    <3>2. PICK alone \in BOOLEAN : alone = FALSE
      OBVIOUS
    <3> DEFINE overlapped == [editingRole[b] EXCEPT !.alone = alone]
    <3>3. /\ overlapped \in EditType /\ overlapped.pc = editingRole[b].pc
          /\ overlapped.role = editingRole[b].role /\ overlapped.rules = editingRole[b].rules
          /\ overlapped.add = editingRole[b].add /\ overlapped.remove = editingRole[b].remove
          /\ ~overlapped.alone
      BY <3>1, <3>2 DEF EditType
    <3>4. editingRole'[b] = IF editingRole[b].role = r THEN overlapped ELSE editingRole[b]
      BY <2>1, <2>4, <3>2
    <3> HIDE DEF overlapped
    <3> QED
      BY <3>1, <3>3, <3>4
  <2>5. editingRole' \in [Administrators -> EditType] /\ editingRole'[a] = edit
    BY <2>1, <2>3, <2>4
  <2>6. removed' \subseteq removed /\ \A p \in rules : <<r, p>> \notin removed'
    BY <2>1
  <2>7. StickTypes'
    BY <1>0, <2>1, <2>5, <2>6 DEF StickInv, StickTypes, ruleTables
  <2>8. RemovalsStick' /\ SyncsRespect'
    BY <2>1, <2>6 DEF StickInv, RemovalsStick, SyncsRespect, SyncRespects, Granting, ruleTables
  <2>9. EditsRespect'
    <3> SUFFICES ASSUME NEW b \in Administrators PROVE EditRespects(editingRole[b])'
      BY DEF EditsRespect
    <3>1. CASE b = a
      BY <2>3, <2>5, <2>6, <3>1 DEF EditRespects
    <3>2. CASE b # a
      <4>1. EditRespects(editingRole[b])
        BY DEF StickInv, EditsRespect
      <4> QED
        BY <2>4, <2>6, <3>2, <4>1 DEF EditRespects
    <3> QED
      BY <3>1, <3>2
  <2>10. EditsAlone'
    <3> SUFFICES ASSUME NEW b \in Administrators, NEW c \in Administrators, b # c,
                        editingRole'[b].pc = "track", editingRole'[c].pc = "track",
                        editingRole'[b].role = editingRole'[c].role
                 PROVE  ~editingRole'[b].alone
      BY DEF EditsAlone
    <3>1. CASE b = a
      BY <2>3, <2>4, <2>5, <3>1
    <3>2. CASE c = a
      BY <2>3, <2>4, <2>5, <3>2
    <3>3. CASE b # a /\ c # a
      BY <2>4, <3>3 DEF StickInv, EditsAlone
    <3> QED
      BY <3>1, <3>2, <3>3
  <2> QED
    BY <2>7, <2>8, <2>9, <2>10 DEF StickInv
<1> QED
  BY <1>1, <1>2, <1>3, <1>4 DEF RoleRequest

\* A syncer starts afresh, or stops.
LEMMA SyncerReset ==
  ASSUME StickInv, NEW s \in Syncers, NEW pc \in SyncPhases \ {"readRole", "grantRole"},
         NEW rules \in SUBSET Plugins, NEW todo \in SUBSET Plugins,
         \/ syncing' = [syncing EXCEPT ![s] = [NotSyncing EXCEPT !.pc = pc, !.rules = rules,
                                                                 !.todo = todo]]
         \/ syncing' = [syncing EXCEPT ![s] = NotSyncing],
         UNCHANGED <<ruleTables, editingRole, removed, installed>>,
         loaded' \in [Hosts -> SUBSET Plugins]
  PROVE  StickInv'
<1> DEFINE new == [NotSyncing EXCEPT !.pc = pc, !.rules = rules, !.todo = todo]
<1>1. new \in SyncType /\ new.pc = pc
  BY NotSyncingIs DEF SyncType
<1>2. SyncRespects(new) /\ ~Granting(new) /\ SyncRespects(NotSyncing) /\ ~Granting(NotSyncing)
  BY <1>1, NotSyncingIs DEF SyncRespects, Granting
<1>3. syncing' = [syncing EXCEPT ![s] = new] \/ syncing' = [syncing EXCEPT ![s] = NotSyncing]
  OBVIOUS
<1> HIDE DEF new
<1>4. CASE syncing' = [syncing EXCEPT ![s] = new]
  BY <1>1, <1>2, <1>4, SyncerMoves DEF StickInv, StickTypes, ruleTables
<1>5. CASE syncing' = [syncing EXCEPT ![s] = NotSyncing]
  BY <1>2, <1>5, NotSyncingIs, SyncerMoves DEF StickInv, StickTypes, ruleTables
<1> QED
  BY <1>3, <1>4, <1>5

\* An instance's own set of plugins plays no part.
LEMMA LoadingSticks ==
  ASSUME StickInv, loaded' \in [Hosts -> SUBSET Plugins], installed' \subseteq Plugins,
         UNCHANGED <<ruleTables, syncing, editingRole, removed>>
  PROVE  StickInv'
BY DEF StickInv, StickTypes, RemovalsStick, SyncsRespect, SyncRespects, Granting, EditsRespect,
       EditRespects, EditsAlone, ruleTables

LEMMA LifecycleSticks == StickInv /\ [LifecycleNext]_lifecycleVars => StickInv'
<1> SUFFICES ASSUME StickInv, [LifecycleNext]_lifecycleVars PROVE StickInv'
  OBVIOUS
<1>0. /\ loaded \in [Hosts -> SUBSET Plugins] /\ installed \subseteq Plugins
      /\ known \subseteq Plugins /\ syncing \in [Syncers -> SyncType]
  BY DEF StickInv, StickTypes
<1>a. PICK starts \in SyncPhases \ {"readRole", "grantRole"} : starts = "record"
  BY DEF SyncPhases
<1>b. PICK cleans \in SyncPhases \ {"readRole", "grantRole"} : cleans = "unmap"
  BY DEF SyncPhases
<1>c. PICK none \in SUBSET Plugins : none = {}
  OBVIOUS
<1>1. ASSUME NEW i \in Hosts, Start(i) PROVE StickInv'
  <2>1. PICK all \in SUBSET Plugins : all = BuiltIn \cup installed
    BY <1>0, AccessAssumption
  <2>2. /\ loaded' = [loaded EXCEPT ![i] = all]
        /\ syncing' = [syncing EXCEPT ![i] = [NotSyncing EXCEPT !.pc = starts, !.rules = all,
                                                                !.todo = all]]
        /\ UNCHANGED <<ruleTables, editingRole, removed, installed>>
    BY <1>1, <1>a, <2>1 DEF Start
  <2>3. i \in Syncers /\ loaded' \in [Hosts -> SUBSET Plugins]
    BY <1>0, <2>2 DEF Syncers
  <2> QED
    BY <2>2, <2>3, SyncerReset
<1>2. ASSUME NEW i \in Hosts, Listen(i) \/ Down(i) PROVE StickInv'
  <2>1. syncing' = [syncing EXCEPT ![i] = NotSyncing] /\ i \in Syncers
        /\ UNCHANGED <<ruleTables, editingRole, removed, installed>>
        /\ loaded' \in [Hosts -> SUBSET Plugins]
    BY <1>0, <1>2 DEF Listen, Down, Syncers
  <2> QED
    BY <1>a, <1>c, <2>1, SyncerReset
<1>3. ASSUME NEW p \in Plugins, Install(p) \/ RequestInstallation(p) \/ Deregister(p)
      PROVE  StickInv'
  BY <1>0, <1>3, LoadingSticks DEF Install, RequestInstallation, Deregister, accessVars
<1>4. ASSUME NEW i \in Hosts, NEW p \in Plugins, LoadSinglePlugin(i, p) \/ DeregisterPlugin(i, p)
      PROVE  StickInv'
  <2>1. loaded' \in [Hosts -> SUBSET Plugins]
        /\ UNCHANGED <<ruleTables, syncing, editingRole, removed, installed>>
    BY <1>0, <1>4 DEF LoadSinglePlugin, DeregisterPlugin
  <2> QED
    BY <1>0, <2>1, LoadingSticks
<1>5. ASSUME NEW b \in broadcasts, BroadcastFails(b) PROVE StickInv'
  BY <1>0, <1>5, LoadingSticks DEF BroadcastFails, accessVars
<1>6. ASSUME NEW w \in HookWorkers, JobDone(w) \/ JobFails(w) PROVE StickInv'
  <2>1. syncing' = [syncing EXCEPT ![w] = NotSyncing] /\ w \in Syncers
        /\ UNCHANGED <<loaded, ruleTables, editingRole, removed, installed>>
    BY <1>6 DEF JobDone, JobFails, Syncers
  <2> QED
    BY <1>0, <1>a, <1>c, <2>1, SyncerReset
<1>7. ASSUME NEW w \in HookWorkers, NEW p \in Plugins, TakeJob(w, p) PROVE StickInv'
  <2>1. PICK rules \in SUBSET Plugins : rules = {p}
    OBVIOUS
  <2>2. PICK todo \in SUBSET Plugins : todo = IF w = "sync" THEN {p} ELSE {p} \cap known
    OBVIOUS
  <2>3. PICK pc \in SyncPhases \ {"readRole", "grantRole"} :
          pc = IF w = "sync" THEN "record" ELSE "unmap"
    BY <1>a, <1>b
  <2>4. /\ syncing' = [syncing EXCEPT ![w] = [NotSyncing EXCEPT !.pc = pc, !.rules = rules,
                                                               !.todo = todo]]
        /\ w \in Syncers /\ UNCHANGED <<loaded, ruleTables, editingRole, removed, installed>>
    BY <1>7, <2>1, <2>2, <2>3 DEF TakeJob, Syncers
  <2> QED
    BY <1>0, <2>4, SyncerReset
<1>8. CASE RoleRequest
  BY <1>8, RoleRequestSticks
<1>9. CASE Proceeds
  BY <1>9, SyncStepSticks, EditStepSticks DEF Proceeds
<1>10. CASE UNCHANGED lifecycleVars
  BY <1>0, <1>10, LoadingSticks DEF lifecycleVars, accessVars
<1> QED
  BY <1>1, <1>2, <1>3, <1>4, <1>5, <1>6, <1>7, <1>8, <1>9, <1>10 DEF LifecycleNext

LEMMA StickInvInvariant == LifecycleSpec => []StickInv
<1>1. LifecycleInit => StickInv
  <2> SUFFICES ASSUME LifecycleInit PROVE StickInv
    OBVIOUS
  <2> PICK running \in SUBSET Hosts : AccessInit(running)
    BY DEF LifecycleInit
  <2>1. /\ loaded = [i \in Hosts |-> IF i \in running THEN BuiltIn ELSE {}]
        /\ known = IF running = {} THEN {} ELSE BuiltIn
        /\ disabled = {} /\ roles = {} /\ removed = {} /\ installed = {}
        /\ syncing = [s \in Syncers |-> NotSyncing]
        /\ editingRole = [a \in Administrators |-> NoEdit]
    BY DEF AccessInit, LifecycleInit
  <2>2. StickTypes
    <3>1. syncing \in [Syncers -> SyncType] /\ editingRole \in [Administrators -> EditType]
      BY <2>1, NotSyncingIs, NoEditIs
    <3> QED
      BY <2>1, <3>1, AccessAssumption DEF StickTypes
  <2>3. RemovalsStick
    BY <2>1 DEF RemovalsStick
  <2>4. SyncsRespect
    BY <2>1, NotSyncingIs DEF SyncsRespect, SyncRespects, Granting
  <2>5. EditsRespect /\ EditsAlone
    BY <2>1, NoEditIs DEF EditsRespect, EditRespects, EditsAlone
  <2> QED
    BY <2>2, <2>3, <2>4, <2>5 DEF StickInv
<1> QED
  BY <1>1, LifecycleSticks, PTL DEF LifecycleSpec

\* index.ts of auth-backend, "Respects admin-disabled defaults": whatever starts, fails,
\* is installed or deregistered in between, no role has a default that an administrator
\* took from it, until an administrator gives it back.
THEOREM RemovalsStickCorrect == LifecycleSpec => []RemovalsStick
<1>1. StickInv => RemovalsStick
  BY DEF StickInv
<1> QED
  BY <1>1, StickInvInvariant, PTL

-----------------------------------------------------------------------------
(* PluginLifecycle: RunningPluginsHaveRules, for any plugins, instances and
   administrators. As long as requests about plugins do not overlap with each other
   or with a start (excused), a plugin that an instance runs has its rule, or a job
   or a syncer is to give it the rule, or it is leaving every instance. *)

All == BuiltIn \cup installed
Fulfilled(p) == p \in known /\ <<"admin", p>> \in granted

Installing == announcing # {} \/ \E p \in Plugins, i \in Hosts : <<"install", p, i>> \in broadcasts
\* The plugin's clean-up is ahead.
Leaving(p) ==
  /\ p \in NamedAlike
  /\ \/ \E i \in Hosts : <<"deregister", p, i>> \in broadcasts
     \/ <<"cleanup", p>> \in hookJobs
     \/ ~At("cleanup", "off") /\ p \in syncing["cleanup"].rules
Deregistering ==
  \/ \E p \in Plugins, i \in Hosts : <<"deregister", p, i>> \in broadcasts
  \/ \E p \in Plugins : <<"cleanup", p>> \in hookJobs
  \/ ~At("cleanup", "off")
Supplied(p) == <<"sync", p>> \in hookJobs \/ (~At("sync", "off") /\ p \in syncing["sync"].rules)

LifecycleTypes ==
  /\ phase \in [Hosts -> {"down", "starting", "up"}]
  /\ announcing \subseteq installed
  /\ \A i \in Hosts : loaded[i] \subseteq All
  /\ \A p \in Plugins, i \in Hosts : <<"install", p, i>> \in broadcasts => p \in installed
  /\ hookJobs \subseteq HookWorkers \X Plugins

JobsKept ==
  \A p \in Plugins : /\ <<"sync", p>> \in hookJobs => p \in All
                     /\ <<"cleanup", p>> \in hookJobs => p \in NamedAlike

\* A synchronisation under way has done its part for the rules it has passed, and
\* removes none of a plugin that there is.
SupplierKept(s) ==
  LET w == syncing[s] IN
  /\ w.pc # "off" => w.rules \subseteq All /\ (s \in Hosts => w.rules = All)
  /\ w.pc = "record" => w.rules \ w.todo \subseteq known
  /\ w.pc = "grantAdmin" =>
       /\ w.rules \subseteq known
       /\ \A p \in w.rules \ w.todo : <<"admin", p>> \in granted
  /\ w.pc \notin {"off", "record", "grantAdmin"} =>
       /\ s \in Hosts
       /\ \A p \in w.rules : Fulfilled(p)
  /\ w.pc \in {"unmap", "deleteRule"} => w.todo \cap All = {}
  /\ w.pc = "deleteRule" => w.off \cap All = {}
CleanupKept ==
  LET w == syncing["cleanup"] IN
  /\ w.pc \in {"off", "unmap", "deleteRule"}
  /\ w.pc # "off" => w.todo \subseteq w.rules /\ w.rules \subseteq NamedAlike
  /\ w.pc = "deleteRule" => w.off \subseteq w.rules

\* Requests about plugins and starts take turns.
TurnsTaken ==
  /\ Installing => \A i \in Hosts : At(i, "off")
  /\ Deregistering =>
       /\ ~Installing /\ (\A s \in Syncers \ {"cleanup"} : At(s, "off"))
       /\ \A p \in Plugins : <<"sync", p>> \notin hookJobs

\* A plugin that leaves has a broadcast on its way to each instance that runs it.
LeavesAll ==
  \A p \in Plugins, i \in Up : Leaving(p) /\ p \in loaded[i] => <<"deregister", p, i>> \in broadcasts
RulesAhead ==
  \A i \in Up : \A p \in loaded[i] : Fulfilled(p) \/ Supplied(p) \/ Leaving(p)

RulesKept ==
  /\ \A s \in Syncers \ {"cleanup"} : SupplierKept(s)
  /\ CleanupKept /\ JobsKept /\ TurnsTaken /\ LeavesAll /\ RulesAhead
RulesInv == LifecycleTypes /\ (~excused => RulesKept)

LEMMA SyncersAre ==
  /\ "sync" \in Syncers \ Hosts /\ "cleanup" \in Syncers \ Hosts
  /\ Syncers \ {"cleanup"} = Hosts \cup {"sync"}
BY LifecycleAssumption DEF Syncers, HookWorkers

\* Who does not move keeps what it has done.
LEMMA SupplierStays ==
  ASSUME StickTypes, NEW s \in Syncers, SupplierKept(s), syncing'[s] = syncing[s],
         \A p \in All : Fulfilled(p) => Fulfilled(p)',
         known \cap All \subseteq known',
         \A p \in All : <<"admin", p>> \in granted => <<"admin", p>> \in granted',
         syncing[s].pc # "off" => All' = All
  PROVE  SupplierKept(s)'
<1>1. CASE syncing[s].pc = "off"
  BY <1>1 DEF SupplierKept
<1>2. CASE syncing[s].pc # "off"
  <2>1. All' = All /\ syncing[s].rules \subseteq All
    BY <1>2 DEF SupplierKept
  <2> HIDE DEF All, Fulfilled
  <2>2. /\ syncing[s].pc = "record" => syncing[s].rules \ syncing[s].todo \subseteq known'
        /\ syncing[s].pc = "grantAdmin" =>
             /\ syncing[s].rules \subseteq known'
             /\ \A p \in syncing[s].rules \ syncing[s].todo : <<"admin", p>> \in granted'
        /\ syncing[s].pc \notin {"off", "record", "grantAdmin"} =>
             \A p \in syncing[s].rules : Fulfilled(p)'
    BY <2>1 DEF SupplierKept
  <2> QED
    BY <2>1, <2>2 DEF SupplierKept
<1> QED
  BY <1>1, <1>2

\* A syncer goes on; the rules or grants of the plugins in gone may go.
LEMMA SyncerGoesOn ==
  ASSUME StickTypes, LifecycleTypes, RulesKept, NEW s \in Syncers, NEW new \in SyncType,
         ~At(s, "off"), new.pc # "off", new.rules = syncing[s].rules,
         syncing' = [syncing EXCEPT ![s] = new], NEW gone \in SUBSET Plugins,
         known \ gone \subseteq known',
         \A p \in Plugins \ gone : <<"admin", p>> \in granted => <<"admin", p>> \in granted',
         s = "cleanup" => gone \subseteq syncing[s].rules /\ CleanupKept',
         s # "cleanup" => gone \cap All = {} /\ SupplierKept(s)',
         UNCHANGED <<loaded, phase, installed, announcing, broadcasts, hookJobs>>
  PROVE  RulesKept'
<1>1. /\ syncing'[s] = new /\ \A t \in Syncers : t # s => syncing'[t] = syncing[t]
      /\ \A t \in Syncers : At(t, "off")' <=> At(t, "off")
  BY DEF StickTypes, At
<1>2. \A t \in Syncers : syncing'[t].rules = syncing[t].rules
  BY <1>1
<1>3. /\ Installing' = Installing /\ All' = All /\ Up' = Up /\ All \subseteq Plugins
      /\ \A i \in Hosts : loaded[i] \subseteq All
  BY AccessAssumption DEF Installing, All, Up, LifecycleTypes, StickTypes
<1>4. /\ Deregistering' <=> Deregistering
      /\ \A p \in Plugins : (Leaving(p)' <=> Leaving(p)) /\ (Supplied(p)' <=> Supplied(p))
  BY <1>1, <1>2, SyncersAre DEF Deregistering, Leaving, Supplied
<1>5. TurnsTaken'
  BY <1>1, <1>3, <1>4, SyncersAre DEF RulesKept, TurnsTaken
<1>6. LeavesAll' /\ JobsKept'
  BY <1>3, <1>4 DEF RulesKept, LeavesAll, JobsKept
<1>7. ASSUME s # "cleanup", NEW p \in All
      PROVE  /\ p \in known => p \in known'
             /\ <<"admin", p>> \in granted => <<"admin", p>> \in granted'
             /\ Fulfilled(p) => Fulfilled(p)'
  BY <1>3, <1>7 DEF Fulfilled
<1>8. ASSUME s = "cleanup" PROVE \A t \in Syncers \ {"cleanup"} : At(t, "off")'
  BY <1>1, <1>8 DEF RulesKept, TurnsTaken, Deregistering
<1>9. RulesAhead'
  <2> SUFFICES ASSUME NEW i \in Up, NEW p \in loaded[i], Fulfilled(p)
               PROVE  Fulfilled(p)' \/ Leaving(p)
    BY <1>3, <1>4 DEF RulesKept, RulesAhead, Up
  <2>1. p \in All /\ p \in Plugins
    BY <1>3 DEF Up
  <2>2. CASE s = "cleanup" /\ p \in gone
    BY <2>2 DEF RulesKept, CleanupKept, Leaving, At
  <2>3. CASE s = "cleanup" /\ p \notin gone
    BY <2>1, <2>3 DEF Fulfilled
  <2> QED
    BY <1>7, <2>1, <2>2, <2>3
<1>10. ASSUME NEW t \in Syncers \ {"cleanup"} PROVE SupplierKept(t)'
  <2>1. CASE s = "cleanup"
    BY <1>8, <2>1 DEF SupplierKept, At
  <2>2. CASE s # "cleanup" /\ t # s
    BY <1>1, <1>3, <1>7, <2>2, SupplierStays DEF RulesKept
  <2> QED
    BY <2>1, <2>2
<1>11. CleanupKept'
  BY <1>1, SyncersAre DEF RulesKept, CleanupKept
<1> QED
  BY <1>5, <1>6, <1>9, <1>10, <1>11 DEF RulesKept

LEMMA SyncStepKeepsRules ==
  ASSUME StickTypes, LifecycleTypes, RulesKept, NEW s \in Syncers, SyncStep(s),
         UNCHANGED <<loaded, phase, installed, announcing, broadcasts, hookJobs>>
  PROVE  RulesKept'
<1> DEFINE w == syncing[s]
<1>0. /\ w \in SyncType /\ known \subseteq Plugins /\ syncing \in [Syncers -> SyncType]
      /\ w.rules \subseteq Plugins /\ w.todo \subseteq Plugins /\ w.off \subseteq Plugins
      /\ All \subseteq Plugins /\ All' = All
  BY AccessAssumption DEF StickTypes, SyncType, All
<1>1. IF s = "cleanup" THEN CleanupKept ELSE SupplierKept(s)
  BY DEF RulesKept
<1>2. PICK recorded \in SyncPhases : recorded = "grantAdmin"
  BY DEF SyncPhases
<1>3. PICK orphaned \in SyncPhases : orphaned = "unmap"
  BY DEF SyncPhases
<1>4. PICK unmapped \in SyncPhases : unmapped = "deleteRule"
  BY DEF SyncPhases
<1>5. PICK told \in SyncPhases : told = "readRole"
  BY DEF SyncPhases
<1>6. PICK read \in SyncPhases : read = "grantRole"
  BY DEF SyncPhases
<1>7. PICK none \in SUBSET Plugins : none = {}
  OBVIOUS
\* For who is not the clean-up.
<1>c. w.pc \notin {"off", "unmap", "deleteRule"} => s # "cleanup"
  BY <1>1 DEF CleanupKept
<1>8. ASSUME NEW new \in SyncType, syncing' = [syncing EXCEPT ![s] = new]
      PROVE  syncing'[s] = new
  BY <1>0, <1>8
<1>9. CASE RecordRule(s)
  <2> PICK p \in Left(s) : known' = known \cup {p}
                           /\ syncing' = [syncing EXCEPT ![s].todo = @ \ {p}]
    BY <1>9 DEF RecordRule
  <2> DEFINE new == [w EXCEPT !.todo = w.todo \ {p}]
  <2>1. /\ new \in SyncType /\ new.pc = "record" /\ new.rules = w.rules /\ new.todo = w.todo \ {p}
        /\ syncing' = [syncing EXCEPT ![s] = new] /\ w.pc = "record"
        /\ granted' = granted
    BY <1>0, <1>9 DEF SyncType, RecordRule, At
  <2> HIDE DEF new
  <2>2. s # "cleanup" /\ SupplierKept(s)'
    <3>1. s # "cleanup" /\ syncing'[s] = new
      BY <1>c, <1>8, <2>1
    <3>2. new.rules \subseteq All /\ (s \in Hosts => new.rules = All)
          /\ new.rules \ new.todo \subseteq known'
      BY <1>1, <2>1, <3>1 DEF SupplierKept
    <3> QED
      BY <1>0, <2>1, <3>1, <3>2 DEF SupplierKept
  <2> QED
    BY <1>7, <2>1, <2>2, SyncerGoesOn DEF At
<1>10. CASE ReadAdmin(s)
  <2> DEFINE todo == {p \in w.rules : <<"admin", p>> \notin granted}
             new == [w EXCEPT !.pc = recorded, !.todo = todo]
  <2>0. todo \in SUBSET Plugins
    BY <1>0
  <2>1. w.pc = "record" /\ w.todo = {} /\ UNCHANGED <<known, granted>>
        /\ syncing' = [syncing EXCEPT ![s].pc = recorded, ![s].todo = todo]
    BY <1>2, <1>10 DEF ReadAdmin, At, Left, ruleTables
  <2>2. \A p \in w.rules \ todo : <<"admin", p>> \in granted
    OBVIOUS
  <2> HIDE DEF todo
  <2>3. /\ new \in SyncType /\ new.pc = "grantAdmin" /\ new.rules = w.rules /\ new.todo = todo
        /\ syncing' = [syncing EXCEPT ![s] = new]
    BY <1>0, <1>2, <2>0, <2>1 DEF SyncType
  <2> HIDE DEF new
  <2>4. s # "cleanup" /\ SupplierKept(s)'
    <3>1. s # "cleanup" /\ syncing'[s] = new
      BY <1>c, <1>8, <2>1, <2>3
    <3>2. new.rules \subseteq All /\ (s \in Hosts => new.rules = All) /\ new.rules \subseteq known
      BY <1>1, <2>1, <2>3, <3>1 DEF SupplierKept
    <3> QED
      BY <1>0, <2>1, <2>2, <2>3, <3>1, <3>2 DEF SupplierKept
  <2> QED
    BY <1>7, <2>1, <2>3, <2>4, SyncerGoesOn DEF At
<1>11. CASE GrantAdmin(s)
  <2> PICK p \in Left(s) \cap known : /\ granted' = granted \cup {<<"admin", p>>}
                                      /\ syncing' = [syncing EXCEPT ![s].todo = @ \ {p}]
    BY <1>11 DEF GrantAdmin
  <2> DEFINE new == [w EXCEPT !.todo = w.todo \ {p}]
  <2>1. /\ new \in SyncType /\ new.pc = "grantAdmin" /\ new.rules = w.rules /\ new.todo = w.todo \ {p}
        /\ syncing' = [syncing EXCEPT ![s] = new] /\ w.pc = "grantAdmin"
        /\ known' = known
    BY <1>0, <1>11 DEF SyncType, GrantAdmin, At
  <2> HIDE DEF new
  <2>2. s # "cleanup" /\ SupplierKept(s)'
    <3>1. s # "cleanup" /\ syncing'[s] = new
      BY <1>c, <1>8, <2>1
    <3>2. /\ new.rules \subseteq All /\ (s \in Hosts => new.rules = All) /\ new.rules \subseteq known
          /\ \A q \in new.rules \ new.todo : <<"admin", q>> \in granted'
      BY <1>1, <2>1, <3>1 DEF SupplierKept
    <3> QED
      BY <1>0, <2>1, <3>1, <3>2 DEF SupplierKept
  <2> QED
    BY <1>7, <2>1, <2>2, SyncerGoesOn DEF At
<1>12. CASE FindOrphans(s)
  <2> DEFINE todo == known \ w.rules
             new == [w EXCEPT !.pc = orphaned, !.todo = todo]
  <2>0. todo \in SUBSET Plugins /\ todo \cap w.rules = {}
    BY <1>0
  <2>1. w.pc = "grantAdmin" /\ w.todo = {} /\ UNCHANGED <<known, granted>> /\ s \in Hosts
        /\ syncing' = [syncing EXCEPT ![s].pc = orphaned, ![s].todo = todo]
    BY <1>3, <1>12 DEF FindOrphans, At, Left, ruleTables
  <2> HIDE DEF todo
  <2>2. /\ new \in SyncType /\ new.pc = "unmap" /\ new.rules = w.rules /\ new.todo = todo
        /\ syncing' = [syncing EXCEPT ![s] = new]
    BY <1>0, <1>3, <2>0, <2>1 DEF SyncType
  <2> HIDE DEF new
  <2>3. s # "cleanup" /\ SupplierKept(s)'
    <3>1. s # "cleanup" /\ syncing'[s] = new
      BY <1>c, <1>8, <2>1, <2>2
    <3>2. new.rules = All /\ \A p \in new.rules : Fulfilled(p)
      BY <1>1, <2>1, <2>2, <3>1 DEF SupplierKept, Fulfilled
    <3>3. \A p \in new.rules : Fulfilled(p)'
      BY <2>1, <3>2 DEF Fulfilled
    <3> QED
      BY <1>0, <2>0, <2>1, <2>2, <3>1, <3>2, <3>3 DEF SupplierKept
  <2> QED
    BY <1>7, <2>1, <2>2, <2>3, SyncerGoesOn DEF At
<1>13. CASE UnmapOrphan(s)
  <2> PICK p \in Left(s) : /\ granted' = granted \ Held(p)
                           /\ syncing' = [syncing EXCEPT ![s].pc = "deleteRule", ![s].off = {p}]
    BY <1>13 DEF UnmapOrphan
  <2>0. PICK gone \in SUBSET Plugins : gone = {p}
    BY <1>0 DEF Left
  <2> DEFINE new == [w EXCEPT !.pc = unmapped, !.off = gone]
  <2>1. /\ new \in SyncType /\ new.pc = "deleteRule" /\ new.rules = w.rules /\ new.todo = w.todo
        /\ new.off = gone /\ syncing' = [syncing EXCEPT ![s] = new] /\ w.pc = "unmap"
        /\ known' = known /\ gone \subseteq w.todo
    BY <1>0, <1>4, <1>13, <2>0 DEF SyncType, UnmapOrphan, At, Left
  <2>2. \A q \in Plugins \ gone : <<"admin", q>> \in granted => <<"admin", q>> \in granted'
    BY <2>0 DEF Held
  <2> HIDE DEF new
  <2>3. ASSUME s = "cleanup" PROVE gone \subseteq w.rules /\ CleanupKept'
    BY <1>1, <1>8, <2>1, <2>3 DEF CleanupKept
  <2>4. ASSUME s # "cleanup" PROVE gone \cap All = {} /\ SupplierKept(s)'
    <3>1. /\ new.rules = All /\ s \in Hosts /\ gone \cap All = {} /\ new.todo \cap All = {}
          /\ \A q \in All : Fulfilled(q)
      BY <1>1, <2>1, <2>4 DEF SupplierKept
    <3>2. \A q \in All : Fulfilled(q)'
      BY <1>0, <2>1, <2>2, <3>1 DEF Fulfilled
    <3> QED
      BY <1>0, <1>8, <2>1, <3>1, <3>2 DEF SupplierKept
  <2> QED
    BY <2>1, <2>2, <2>3, <2>4, SyncerGoesOn DEF At
<1>14. CASE DeleteRule(s)
  <2> DEFINE new == [w EXCEPT !.pc = orphaned, !.todo = w.todo \ w.off, !.off = none]
  <2>1. /\ new \in SyncType /\ new.pc = "unmap" /\ new.rules = w.rules
        /\ new.todo \subseteq w.todo /\ syncing' = [syncing EXCEPT ![s] = new] /\ w.pc = "deleteRule"
        /\ known' = known \ w.off /\ granted' = granted
    BY <1>0, <1>3, <1>7, <1>14 DEF SyncType, DeleteRule, At
  <2> HIDE DEF new
  <2>2. ASSUME s = "cleanup" PROVE w.off \subseteq w.rules /\ CleanupKept'
    BY <1>1, <1>8, <2>1, <2>2 DEF CleanupKept
  <2>3. ASSUME s # "cleanup" PROVE w.off \cap All = {} /\ SupplierKept(s)'
    <3>1. /\ new.rules = All /\ s \in Hosts /\ w.off \cap All = {} /\ new.todo \cap All = {}
          /\ \A q \in All : Fulfilled(q)
      BY <1>1, <2>1, <2>3 DEF SupplierKept
    <3>2. \A q \in All : Fulfilled(q)'
      BY <1>0, <2>1, <3>1 DEF Fulfilled
    <3> QED
      BY <1>0, <1>8, <2>1, <3>1, <3>2 DEF SupplierKept
  <2> QED
    BY <1>0, <2>1, <2>2, <2>3, SyncerGoesOn DEF At
\* The defaults of the other roles, of plugins that all have their rule by now.
<1>d. ASSUME s \in Hosts, w.pc \in {"unmap", "readRole", "grantRole"}, NEW new \in SyncType,
             new.pc \in {"readRole", "grantRole"}, new.rules = w.rules,
             syncing' = [syncing EXCEPT ![s] = new], known' = known, granted \subseteq granted'
      PROVE  RulesKept'
  <2>1. s # "cleanup" /\ syncing'[s] = new
    BY <1>8, <1>d, SyncersAre
  <2>2. new.rules = All /\ \A q \in All : Fulfilled(q)
    BY <1>1, <1>d, <2>1 DEF SupplierKept
  <2>3. \A q \in All : Fulfilled(q)'
    BY <1>d, <2>2 DEF Fulfilled
  <2>4. SupplierKept(s)'
    BY <1>0, <1>d, <2>1, <2>2, <2>3 DEF SupplierKept
  <2> QED
    BY <1>7, <1>d, <2>1, <2>4, SyncerGoesOn DEF At
<1>15. CASE ReadDisabled(s)
  <2> PICK role \in DOMAIN Defaults :
        /\ \/ role = "users" /\ At(s, "unmap")
           \/ role = "anonymous" /\ At(s, "grantRole") /\ syncing[s].role = "users"
        /\ syncing' = [syncing EXCEPT ![s].pc = "readRole", ![s].role = role,
                                      ![s].off = {p \in Plugins : <<role, p>> \in disabled}]
    BY <1>15 DEF ReadDisabled
  <2> DEFINE off == {p \in Plugins : <<role, p>> \in disabled}
             new == [w EXCEPT !.pc = told, !.role = role, !.off = off]
  <2>0. off \in SUBSET Plugins /\ role \in {"none"} \cup DefaultRoles
    BY DefaultsOf
  <2>1. syncing' = [syncing EXCEPT ![s].pc = told, ![s].role = role, ![s].off = off]
    BY <1>5
  <2> HIDE DEF off
  <2>2. /\ new \in SyncType /\ new.pc = "readRole" /\ new.rules = w.rules
        /\ syncing' = [syncing EXCEPT ![s] = new]
    BY <1>0, <1>5, <2>0, <2>1 DEF SyncType
  <2>3. s \in Hosts /\ w.pc \in {"unmap", "grantRole"} /\ UNCHANGED <<known, granted>>
    BY <1>15 DEF ReadDisabled, At, ruleTables
  <2> HIDE DEF new
  <2> QED
    BY <1>d, <2>2, <2>3
<1>16. CASE ReadRole(s)
  <2> DEFINE todo == {p \in w.rules \cap Defaults[w.role] : p \notin w.off /\ <<w.role, p>> \notin granted}
             new == [w EXCEPT !.pc = read, !.todo = todo]
  <2>0. todo \in SUBSET Plugins
    BY <1>0
  <2>1. syncing' = [syncing EXCEPT ![s].pc = read, ![s].todo = todo] /\ w.pc = "readRole"
        /\ UNCHANGED <<known, granted>>
    BY <1>6, <1>16 DEF ReadRole, At, ruleTables
  <2> HIDE DEF todo
  <2>2. /\ new \in SyncType /\ new.pc = "grantRole" /\ new.rules = w.rules
        /\ syncing' = [syncing EXCEPT ![s] = new]
    BY <1>0, <1>6, <2>0, <2>1 DEF SyncType
  <2>3. s \in Hosts
    BY <1>1, <1>c, <2>1 DEF SupplierKept
  <2> HIDE DEF new
  <2> QED
    BY <1>d, <2>1, <2>2, <2>3
<1>17. CASE GrantRole(s)
  <2> PICK p \in Left(s) \cap known :
        /\ granted' = granted \cup {<<syncing[s].role, p>>}
        /\ syncing' = [syncing EXCEPT ![s].todo = @ \ {p}]
    BY <1>17 DEF GrantRole
  <2> DEFINE new == [w EXCEPT !.todo = w.todo \ {p}]
  <2>1. /\ new \in SyncType /\ new.pc = "grantRole" /\ new.rules = w.rules
        /\ syncing' = [syncing EXCEPT ![s] = new] /\ w.pc = "grantRole" /\ known' = known
    BY <1>0, <1>17 DEF SyncType, GrantRole, At
  <2>2. s \in Hosts
    BY <1>1, <1>c, <2>1 DEF SupplierKept
  <2> HIDE DEF new
  <2> QED
    BY <1>d, <2>1, <2>2
<1> QED
  BY <1>9, <1>10, <1>11, <1>12, <1>13, <1>14, <1>15, <1>16, <1>17 DEF SyncStep

\* Tables change that do not tell which plugins have their rule.
LEMMA TablesKeepRules ==
  ASSUME StickTypes, LifecycleTypes, RulesKept,
         UNCHANGED <<loaded, known, syncing, phase, installed, announcing, broadcasts, hookJobs>>,
         \A p \in Plugins : <<"admin", p>> \in granted => <<"admin", p>> \in granted'
  PROVE  RulesKept'
<1>1. /\ Installing' = Installing /\ All' = All /\ Up' = Up /\ All \subseteq Plugins
      /\ Deregistering' = Deregistering
      /\ \A p \in Plugins : (Leaving(p)' <=> Leaving(p)) /\ (Supplied(p)' <=> Supplied(p))
  BY AccessAssumption DEF Installing, All, Up, Deregistering, Leaving, Supplied, At, StickTypes
<1>2. \A p \in All : Fulfilled(p) => Fulfilled(p)'
  BY <1>1 DEF Fulfilled
<1>3. \A s \in Syncers \ {"cleanup"} : SupplierKept(s)'
  BY <1>1, <1>2, SupplierStays DEF RulesKept
<1>4. CleanupKept' /\ TurnsTaken' /\ LeavesAll' /\ JobsKept'
  BY <1>1 DEF RulesKept, CleanupKept, TurnsTaken, LeavesAll, JobsKept, At
<1>5. RulesAhead'
  <2>1. \A i \in Up : \A p \in loaded[i] : p \in All /\ p \in Plugins
    BY <1>1 DEF Up, LifecycleTypes
  <2> QED
    BY <1>1, <1>2, <2>1 DEF RulesKept, RulesAhead
<1> QED
  BY <1>3, <1>4, <1>5 DEF RulesKept

LEMMA RolesKeepRules ==
  ASSUME StickTypes, LifecycleTypes, RulesKept,
         \/ RoleRequest
         \/ /\ \E a \in Administrators : EditStep(a)
            /\ UNCHANGED <<phase, installed, announcing, broadcasts, hookJobs>>
  PROVE  RulesKept'
<1>1. \A r \in roles \cup DefaultRoles \cup CustomRoles : r # "admin"
  BY AccessAssumption DEF StickTypes, DefaultRoles
<1>2. UNCHANGED <<loaded, known, syncing, phase, installed, announcing, broadcasts, hookJobs>>
  BY DEF RoleRequest, CreateRole, DeleteRole, UpdateRole, EditFails, EditStep, TrackRemoved, TrackAdded,
         ReplaceGrants, ruleTables
<1>3. ASSUME NEW p \in Plugins, <<"admin", p>> \in granted PROVE <<"admin", p>> \in granted'
  <2>1. ASSUME NEW a \in Administrators, ReplaceGrants(a) PROVE <<"admin", p>> \in granted'
    <3>1. editingRole[a].role # "admin"
      BY <1>1, <2>1, DefaultsOf DEF ReplaceGrants
    <3> QED
      BY <1>3, <2>1, <3>1 DEF ReplaceGrants
  <2>2. ASSUME NEW a \in Administrators, EditStep(a) PROVE <<"admin", p>> \in granted'
    BY <1>3, <2>1, <2>2 DEF EditStep, TrackRemoved, TrackAdded
  <2>3. CASE RoleRequest
    BY <1>1, <1>3, <2>3 DEF RoleRequest, CreateRole, DeleteRole, UpdateRole, EditFails, ruleTables
  <2> QED
    BY <2>2, <2>3
<1> QED
  BY <1>2, <1>3, TablesKeepRules

-----------------------------------------------------------------------------
(* Instances, broadcasts and jobs *)

\* A plugin that leaves is on its way from an instance that runs it.
LEMMA LeavesByBroadcast ==
  ASSUME LeavesAll, NEW p \in Plugins, NEW i \in Up, Leaving(p), p \in loaded[i],
         <<"deregister", p, i>> \in broadcasts => <<"deregister", p, i>> \in broadcasts'
  PROVE  Leaving(p)'
BY DEF LeavesAll, Leaving, Up

LEMMA Reset ==
  ASSUME StickTypes, NEW s \in Syncers, NEW pc \in SyncPhases, NEW rules \in SUBSET Plugins,
         NEW todo \in SUBSET Plugins,
         syncing' = [syncing EXCEPT ![s] = [NotSyncing EXCEPT !.pc = pc, !.rules = rules, !.todo = todo]]
  PROVE  /\ syncing'[s].pc = pc /\ syncing'[s].rules = rules /\ syncing'[s].todo = todo
         /\ \A t \in Syncers : t # s => syncing'[t] = syncing[t]
<1> DEFINE new == [NotSyncing EXCEPT !.pc = pc, !.rules = rules, !.todo = todo]
<1>1. new.pc = pc /\ new.rules = rules /\ new.todo = todo
  BY NotSyncingIs DEF SyncType
<1> HIDE DEF new
<1> QED
  BY <1>1 DEF StickTypes

LEMMA SettledTurns ==
  ASSUME PluginsSettled, LifecycleTypes
  PROVE  ~Installing /\ ~Deregistering /\ \A p \in Plugins : ~Leaving(p)
<1>1. \A p \in Plugins : <<"cleanup", p>> \notin hookJobs
  BY DEF PluginsSettled
<1> QED
  BY <1>1 DEF PluginsSettled, Installing, Deregistering, Leaving

LEMMA LeavingIsDeregistering == \A p \in Plugins : Leaving(p) => Deregistering
BY DEF Leaving, Deregistering

LEMMA StartKeepsRules ==
  ASSUME StickTypes, LifecycleTypes, RulesKept, NEW i \in Hosts, Start(i), ~excused'
  PROVE  RulesKept'
<1>0. PluginsSettled
  BY DEF Start
<1>1. /\ known' = known /\ granted' = granted /\ installed' = installed
      /\ announcing' = announcing /\ broadcasts' = broadcasts /\ All' = All
      /\ \A j \in Hosts : j # i => loaded'[j] = loaded[j]
      /\ hookJobs' = hookJobs \cup ({"sync"} \X All)
      /\ Up' = Up \ {i}
  BY DEF Start, ruleTables, All, Up, StickTypes, LifecycleTypes
<1>2. All \in SUBSET Plugins
  BY AccessAssumption DEF All, StickTypes
<1>3. PICK pc \in SyncPhases : pc = "record"
  BY DEF SyncPhases
<1>4. /\ syncing'[i].pc = "record" /\ syncing'[i].rules = All /\ syncing'[i].todo = All
      /\ \A t \in Syncers : t # i => syncing'[t] = syncing[t]
  <2>1. syncing' = [syncing EXCEPT ![i] = [NotSyncing EXCEPT !.pc = pc, !.rules = All, !.todo = All]]
    BY <1>3 DEF Start, All
  <2>2. i \in Syncers
    BY SyncersAre
  <2> HIDE DEF All
  <2>3. /\ syncing'[i].pc = pc /\ syncing'[i].rules = All /\ syncing'[i].todo = All
        /\ \A t \in Syncers : t # i => syncing'[t] = syncing[t]
    BY <1>2, <2>1, <2>2, Reset
  <2> QED
    BY <1>3, <2>3
<1>5. syncing'["cleanup"] = syncing["cleanup"] /\ syncing'["sync"] = syncing["sync"]
  BY <1>4, SyncersAre
<1>6. ~Installing' /\ ~Deregistering' /\ \A p \in Plugins : ~Leaving(p) /\ ~Leaving(p)'
  BY <1>0, <1>1, <1>5, SettledTurns DEF Installing, Deregistering, Leaving, At, PluginsSettled
<1>7. ASSUME NEW s \in Syncers \ {"cleanup"} PROVE SupplierKept(s)'
  <2>1. CASE s = i
    BY <1>1, <1>4, <2>1 DEF SupplierKept
  <2>2. CASE s # i
    BY <1>1, <1>4, <2>2, SupplierStays DEF RulesKept, Fulfilled
  <2> QED
    BY <2>1, <2>2
<1>8. CleanupKept' /\ TurnsTaken' /\ LeavesAll'
  BY <1>5, <1>6 DEF RulesKept, CleanupKept, TurnsTaken, LeavesAll
<1>9. JobsKept'
  BY <1>1 DEF RulesKept, JobsKept
<1>10. RulesAhead'
  <2> SUFFICES ASSUME NEW j \in Up, j # i, NEW p \in loaded[j] PROVE Fulfilled(p)' \/ Supplied(p)'
    BY <1>1 DEF RulesAhead, Up
  <2>1. p \in Plugins
    BY <1>2 DEF Up, LifecycleTypes
  <2>2. Fulfilled(p) \/ Supplied(p)
    BY <1>6, <2>1 DEF RulesKept, RulesAhead
  <2> QED
    BY <1>1, <1>5, <2>2 DEF Fulfilled, Supplied, At
<1> QED
  BY <1>7, <1>8, <1>9, <1>10 DEF RulesKept

LEMMA ListenKeepsRules ==
  ASSUME StickTypes, LifecycleTypes, RulesKept, NEW i \in Hosts, Listen(i)
  PROVE  RulesKept'
<1>0. syncing[i].pc = "grantRole" /\ i \in Syncers \ {"cleanup"}
  BY SyncersAre DEF Listen, SyncDone, At
<1>1. /\ UNCHANGED <<known, granted, loaded, installed, announcing, broadcasts, hookJobs>> /\ All' = All
      /\ Up' = Up \cup {i}
  BY DEF Listen, ruleTables, All, Up, LifecycleTypes
<1>2. /\ syncing'[i].pc = "off" /\ \A t \in Syncers : t # i => syncing'[t] = syncing[t]
  BY <1>0, NotSyncingIs DEF Listen, StickTypes
<1>3. syncing'["cleanup"] = syncing["cleanup"] /\ syncing'["sync"] = syncing["sync"]
  BY <1>2, SyncersAre
<1>4. ~Deregistering /\ ~Installing
  BY <1>0 DEF RulesKept, TurnsTaken, At
<1>5. ~Deregistering' /\ ~Installing'
  BY <1>1, <1>3, <1>4 DEF Deregistering, Installing, At
<1>6. ASSUME NEW s \in Syncers \ {"cleanup"} PROVE SupplierKept(s)'
  <2>1. CASE s = i
    BY <1>2, <2>1 DEF SupplierKept
  <2>2. CASE s # i
    BY <1>1, <1>2, <2>2, SupplierStays DEF RulesKept, Fulfilled
  <2> QED
    BY <2>1, <2>2
<1>7. CleanupKept' /\ TurnsTaken' /\ JobsKept'
  BY <1>1, <1>3, <1>5 DEF RulesKept, CleanupKept, TurnsTaken, JobsKept
<1>8. LeavesAll'
  <2>1. \A p \in Plugins : Leaving(p)' => Deregistering'
    BY LeavingIsDeregistering DEF Leaving, Deregistering
  <2> QED
    BY <1>5, <2>1 DEF LeavesAll
<1>9. RulesAhead'
  <2> SUFFICES ASSUME NEW j \in Up \cup {i}, NEW p \in loaded[j] PROVE Fulfilled(p)' \/ Supplied(p)'
    BY <1>1 DEF RulesAhead
  <2>1. CASE j = i
    BY <1>0, <1>1, <2>1 DEF RulesKept, SupplierKept, LifecycleTypes, Fulfilled
  <2>2. CASE j # i
    <3>1. p \in Plugins
      BY <2>2 DEF Up, StickTypes
    <3>2. Fulfilled(p) \/ Supplied(p)
      BY <1>4, <2>2, <3>1, LeavingIsDeregistering DEF RulesKept, RulesAhead
    <3> QED
      BY <1>1, <1>3, <3>2 DEF Fulfilled, Supplied, At
  <2> QED
    BY <2>1, <2>2
<1> QED
  BY <1>6, <1>7, <1>8, <1>9 DEF RulesKept

LEMMA DownKeepsRules ==
  ASSUME StickTypes, LifecycleTypes, RulesKept, NEW i \in Hosts, Down(i)
  PROVE  RulesKept'
<1>0. i \in Syncers \ {"cleanup"}
  BY SyncersAre
<1>1. /\ UNCHANGED <<known, granted, installed, announcing, hookJobs>> /\ All' = All
      /\ Up' = Up \ {i} /\ \A j \in Hosts : j # i => loaded'[j] = loaded[j]
      /\ broadcasts' = {b \in broadcasts : b[3] # i}
  BY DEF Down, ruleTables, All, Up, LifecycleTypes, StickTypes
<1>2. /\ syncing'[i].pc = "off" /\ \A t \in Syncers : t # i => syncing'[t] = syncing[t]
  BY <1>0, NotSyncingIs DEF Down, StickTypes
<1>3. syncing'["cleanup"] = syncing["cleanup"] /\ syncing'["sync"] = syncing["sync"]
  BY <1>2, SyncersAre
<1>4. /\ Deregistering' => Deregistering
      /\ Installing' => Installing
      /\ \A p \in Plugins : Leaving(p)' => Leaving(p)
  BY <1>1, <1>3 DEF Deregistering, Installing, Leaving, At
<1>5. ASSUME NEW s \in Syncers \ {"cleanup"} PROVE SupplierKept(s)' /\ (At(s, "off") => At(s, "off")')
  <2>1. CASE s = i
    BY <1>2, <2>1 DEF SupplierKept, At
  <2>2. CASE s # i
    BY <1>1, <1>2, <2>2, SupplierStays DEF RulesKept, Fulfilled, At
  <2> QED
    BY <2>1, <2>2
<1>6. CleanupKept' /\ JobsKept'
  BY <1>1, <1>3 DEF RulesKept, CleanupKept, JobsKept
<1>7. TurnsTaken'
  BY <1>1, <1>4, <1>5, SyncersAre DEF RulesKept, TurnsTaken
<1>8. \A p \in Plugins, j \in Up : j # i /\ <<"deregister", p, j>> \in broadcasts
                                   => <<"deregister", p, j>> \in broadcasts'
  BY <1>1
<1>9. LeavesAll'
  BY <1>1, <1>4, <1>8 DEF RulesKept, LeavesAll, Up
<1>10. RulesAhead'
  <2> SUFFICES ASSUME NEW j \in Up, j # i, NEW p \in loaded[j]
               PROVE  Fulfilled(p)' \/ Supplied(p)' \/ Leaving(p)'
    BY <1>1 DEF RulesAhead, Up
  <2>1. p \in Plugins
    BY DEF Up, StickTypes
  <2>2. Leaving(p) => Leaving(p)'
    BY <1>8, <2>1, LeavesByBroadcast DEF RulesKept
  <2>3. Fulfilled(p) \/ Supplied(p) \/ Leaving(p)
    BY DEF RulesKept, RulesAhead
  <2> QED
    BY <1>1, <1>3, <2>2, <2>3 DEF Fulfilled, Supplied, At
<1> QED
  BY <1>5, <1>6, <1>7, <1>9, <1>10 DEF RulesKept

\* A request comes, with nothing under way.
LEMMA RequestKeepsRules ==
  ASSUME StickTypes, LifecycleTypes, RulesKept, NEW p \in Plugins, Install(p) \/ Deregister(p), ~excused'
  PROVE  RulesKept'
<1>0. LifecycleAtRest /\ PluginsSettled
  BY DEF Install, Deregister, LifecycleAtRest
<1>1. UNCHANGED <<known, granted, syncing, loaded, phase, hookJobs>> /\ Up' = Up
  BY DEF Install, Deregister, accessVars, ruleTables, Up
<1>2. \A s \in Syncers : At(s, "off") /\ At(s, "off")'
  BY <1>0, <1>1 DEF LifecycleAtRest, At
<1>3. (\A s \in Syncers \ {"cleanup"} : SupplierKept(s)') /\ CleanupKept' /\ hookJobs' = {}
  BY <1>0, <1>1, <1>2, SyncersAre DEF SupplierKept, CleanupKept, At, LifecycleAtRest
<1>4. ASSUME NEW i \in Up, NEW q \in loaded[i] PROVE Fulfilled(q)'
  <2>1. q \in Plugins
    BY DEF Up, StickTypes
  <2>2. Fulfilled(q) \/ Supplied(q)
    BY <1>0, <2>1, SettledTurns DEF RulesKept, RulesAhead
  <2>3. ~Supplied(q)
    BY <1>0, <1>2, SyncersAre DEF Supplied, LifecycleAtRest
  <2> QED
    BY <1>1, <2>2, <2>3 DEF Fulfilled
<1>5. JobsKept' /\ RulesAhead'
  BY <1>1, <1>3, <1>4 DEF JobsKept, RulesAhead
<1>6. CASE Install(p)
  <2>1. broadcasts' = {}
    BY <1>0, <1>6 DEF Install, PluginsSettled
  <2>2. ~Deregistering' /\ \A q \in Plugins : ~Leaving(q)'
    BY <1>2, <1>3, <2>1, SyncersAre DEF Deregistering, Leaving
  <2>3. TurnsTaken' /\ LeavesAll'
    BY <1>2, <2>2, SyncersAre DEF TurnsTaken, LeavesAll
  <2> QED
    BY <1>3, <1>5, <2>3 DEF RulesKept
<1>7. CASE Deregister(p)
  <2>1. broadcasts' = {<<"deregister", p, i>> : i \in Up} /\ announcing' = {}
    BY <1>0, <1>7 DEF Deregister, PluginsSettled, Broadcast
  <2>2. ~Installing'
    BY <2>1 DEF Installing
  <2>3. \A q \in Plugins : Leaving(q)' => q = p
    BY <1>2, <1>3, <2>1, SyncersAre DEF Leaving
  <2>4. LeavesAll'
    BY <1>1, <2>1, <2>3 DEF LeavesAll
  <2>5. TurnsTaken'
    BY <1>2, <1>3, <2>2 DEF TurnsTaken
  <2> QED
    BY <1>3, <1>5, <2>4, <2>5 DEF RulesKept
<1> QED
  BY <1>6, <1>7

\* An installation is announced, or an instance follows.
LEMMA InstallingKeepsRules ==
  ASSUME StickTypes, LifecycleTypes, RulesKept, NEW p \in Plugins,
         RequestInstallation(p) \/ \E i \in Hosts : LoadSinglePlugin(i, p)
  PROVE  RulesKept'
<1>1. Installing /\ p \in installed
  BY DEF RequestInstallation, LoadSinglePlugin, Installing, LifecycleTypes
<1>2. ~Deregistering /\ \A i \in Hosts : At(i, "off")
  BY <1>1 DEF RulesKept, TurnsTaken
<1>3. /\ UNCHANGED <<known, granted, syncing, phase, installed>> /\ Up' = Up /\ All' = All
      /\ hookJobs \subseteq hookJobs' /\ hookJobs' \subseteq hookJobs \cup {<<"sync", p>>}
      /\ \A q \in Plugins, i \in Hosts : <<"deregister", q, i>> \in broadcasts' => <<"deregister", q, i>> \in broadcasts
      /\ \A i \in Hosts : \/ loaded'[i] = loaded[i]
                          \/ loaded'[i] = loaded[i] \cup {p} /\ <<"sync", p>> \in hookJobs'
  <2>1. ASSUME RequestInstallation(p)
        PROVE  /\ UNCHANGED <<known, granted, syncing, phase, installed, loaded, hookJobs>>
               /\ \A q \in Plugins, i \in Hosts :
                    <<"deregister", q, i>> \in broadcasts' => <<"deregister", q, i>> \in broadcasts
    <3>1. UNCHANGED <<known, granted, syncing, phase, installed, loaded, hookJobs>>
      BY <2>1 DEF RequestInstallation, accessVars, ruleTables
    <3>2. broadcasts' = broadcasts \cup {<<"install", p, i>> : i \in Up}
      BY <2>1 DEF RequestInstallation, Broadcast
    <3> QED
      BY <3>1, <3>2
  <2>2. ASSUME NEW i \in Hosts, LoadSinglePlugin(i, p)
        PROVE  /\ UNCHANGED <<known, granted, syncing, phase, installed>>
               /\ broadcasts' \subseteq broadcasts /\ hookJobs' = hookJobs \cup {<<"sync", p>>}
               /\ \A j \in Hosts : loaded'[j] = loaded[j] \/ loaded'[j] = loaded[j] \cup {p}
    BY <2>2 DEF LoadSinglePlugin, ruleTables, StickTypes
  <2>3. CASE RequestInstallation(p)
    BY <2>1, <2>3 DEF Up, All
  <2>4. CASE \E i \in Hosts : LoadSinglePlugin(i, p)
    BY <2>2, <2>4 DEF Up, All
  <2> QED
    BY <2>3, <2>4
<1>4. (\A i \in Hosts : At(i, "off")') /\ ~Deregistering'
  BY <1>2, <1>3 DEF Deregistering, At
<1>5. \A q \in Plugins : ~Leaving(q) /\ ~Leaving(q)'
  BY <1>2, <1>3 DEF Leaving, Deregistering, At
<1>6. \A s \in Syncers \ {"cleanup"} : SupplierKept(s)'
  BY <1>3, SupplierStays DEF RulesKept, Fulfilled
<1>7. CleanupKept' /\ TurnsTaken' /\ LeavesAll'
  BY <1>3, <1>4, <1>5 DEF RulesKept, CleanupKept, TurnsTaken, LeavesAll
<1>8. JobsKept'
  BY <1>1, <1>3 DEF RulesKept, JobsKept, All
<1>9. RulesAhead'
  <2> SUFFICES ASSUME NEW i \in Up, NEW q \in loaded'[i] PROVE Fulfilled(q)' \/ Supplied(q)'
    BY <1>3 DEF RulesAhead
  <2>1. CASE q \in loaded[i]
    <3>1. Fulfilled(q) \/ Supplied(q)
      BY <1>5, <2>1 DEF RulesKept, RulesAhead, Up, StickTypes
    <3> QED
      BY <1>3, <3>1 DEF Fulfilled, Supplied, At
  <2>2. CASE q \notin loaded[i]
    BY <1>3, <2>2 DEF Supplied, Up
  <2> QED
    BY <2>1, <2>2
<1> QED
  BY <1>6, <1>7, <1>8, <1>9 DEF RulesKept

LEMMA DeregisterPluginKeepsRules ==
  ASSUME StickTypes, LifecycleTypes, RulesKept, NEW i \in Hosts, NEW p \in Plugins, DeregisterPlugin(i, p)
  PROVE  RulesKept'
<1>1. /\ UNCHANGED <<known, granted, syncing, phase, installed, announcing>> /\ Up' = Up /\ All' = All
      /\ <<"deregister", p, i>> \in broadcasts
      /\ broadcasts' = broadcasts \ {<<"deregister", p, i>>}
      /\ p \notin NamedAlike => UNCHANGED <<loaded, hookJobs>>
      /\ p \in NamedAlike => /\ loaded' = [loaded EXCEPT ![i] = @ \ {p}]
                             /\ hookJobs' = hookJobs \cup {<<"cleanup", p>>}
  BY DEF DeregisterPlugin, ruleTables, Up, All
<1>2. /\ ~Installing /\ \A s \in Syncers \ {"cleanup"} : At(s, "off") /\ At(s, "off")'
      /\ \A q \in Plugins : <<"sync", q>> \notin hookJobs /\ <<"sync", q>> \notin hookJobs'
  <2>1. Deregistering
    BY <1>1 DEF Deregistering
  <2> QED
    BY <1>1, <2>1 DEF RulesKept, TurnsTaken, At
<1>3. ~Installing' /\ TurnsTaken'
  BY <1>1, <1>2 DEF Installing, TurnsTaken
<1>4. \A q \in Plugins : Leaving(q)' => Leaving(q)
  BY <1>1 DEF Leaving, At
<1>5. /\ \A j \in Up : loaded'[j] \subseteq loaded[j] /\ loaded[j] \subseteq Plugins
      /\ p \in NamedAlike /\ i \in Up => p \notin loaded'[i]
  BY <1>1 DEF Up, StickTypes
<1>6. ASSUME NEW j \in Up, NEW q \in loaded'[j], Leaving(q)
      PROVE  <<"deregister", q, j>> \in broadcasts' /\ Leaving(q)' /\ q \in Plugins
  <2>1. q \in Plugins /\ q \in NamedAlike
    BY <1>5, <1>6 DEF Leaving
  <2>2. <<"deregister", q, j>> \in broadcasts
    BY <1>5, <1>6, <2>1 DEF RulesKept, LeavesAll
  <2>3. q # p \/ j # i
    BY <1>5, <2>1
  <2>4. <<"deregister", q, j>> \in broadcasts'
    BY <1>1, <2>2, <2>3
  <2> QED
    BY <2>1, <2>4 DEF Leaving, Up
<1>7. LeavesAll'
  BY <1>1, <1>4, <1>6 DEF LeavesAll
<1>8. \A s \in Syncers \ {"cleanup"} : SupplierKept(s)'
  BY <1>1, SupplierStays DEF RulesKept, Fulfilled
<1>9. CleanupKept' /\ JobsKept'
  BY <1>1, <1>2 DEF RulesKept, CleanupKept, JobsKept
<1>10. RulesAhead'
  <2> SUFFICES ASSUME NEW j \in Up, NEW q \in loaded'[j]
               PROVE  Fulfilled(q)' \/ Supplied(q)' \/ Leaving(q)'
    BY <1>1 DEF RulesAhead
  <2>1. Fulfilled(q) \/ Supplied(q) \/ Leaving(q)
    BY <1>5 DEF RulesKept, RulesAhead
  <2> QED
    BY <1>1, <1>6, <2>1 DEF Fulfilled, Supplied, At
<1> QED
  BY <1>3, <1>7, <1>8, <1>9, <1>10 DEF RulesKept

LEMMA TakeJobKeepsRules ==
  ASSUME StickTypes, LifecycleTypes, RulesKept, NEW w \in HookWorkers, NEW p \in Plugins, TakeJob(w, p)
  PROVE  RulesKept'
<1>1. /\ UNCHANGED <<known, granted, loaded, phase, installed, announcing, broadcasts>> /\ Up' = Up
      /\ All' = All /\ hookJobs' = hookJobs \ {<<w, p>>} /\ <<w, p>> \in hookJobs /\ At(w, "off")
  BY DEF TakeJob, ruleTables, Up, All
<1>2. PICK rules \in SUBSET Plugins : rules = {p}
  OBVIOUS
<1>3. PICK todo \in SUBSET Plugins : todo = IF w = "sync" THEN {p} ELSE {p} \cap known
  OBVIOUS
<1>4. PICK pc \in SyncPhases : pc = IF w = "sync" THEN "record" ELSE "unmap"
  BY DEF SyncPhases
<1>5. /\ syncing'[w].pc = pc /\ syncing'[w].rules = rules /\ syncing'[w].todo = todo
      /\ \A t \in Syncers : t # w => syncing'[t] = syncing[t]
  <2>1. syncing' = [syncing EXCEPT ![w] = [NotSyncing EXCEPT !.pc = pc, !.rules = rules, !.todo = todo]]
    BY <1>2, <1>3, <1>4 DEF TakeJob
  <2>2. w \in Syncers
    BY DEF Syncers
  <2> QED
    BY <2>1, <2>2, Reset
<1>6. Installing' = Installing /\ JobsKept'
  BY <1>1 DEF Installing, RulesKept, JobsKept
<1>7. ASSUME NEW s \in Syncers \ {"cleanup"}, s # w PROVE SupplierKept(s)'
  BY <1>1, <1>5, <1>7, SupplierStays DEF RulesKept, Fulfilled
<1>8. CASE w = "sync"
  <2>1. ~Deregistering
    BY <1>1, <1>8 DEF RulesKept, TurnsTaken
  <2>2. ~Deregistering' /\ \A q \in Plugins : ~Leaving(q) /\ ~Leaving(q)'
    BY <1>1, <1>5, <1>8, <2>1, SyncersAre DEF Deregistering, Leaving, At
  <2>3. p \in All
    BY <1>1, <1>8 DEF RulesKept, JobsKept
  <2>4. SupplierKept("sync")'
    BY <1>1, <1>2, <1>3, <1>4, <1>5, <1>8, <2>3, SyncersAre DEF SupplierKept
  <2>5. CleanupKept'
    BY <1>5, <1>8, SyncersAre DEF RulesKept, CleanupKept
  <2>6. TurnsTaken' /\ LeavesAll'
    BY <1>5, <1>6, <1>8, <2>2, SyncersAre DEF RulesKept, TurnsTaken, LeavesAll, At
  <2>7. \A q \in Plugins : Supplied(q) => Supplied(q)'
    BY <1>1, <1>2, <1>4, <1>5, <1>8 DEF Supplied, At
  <2>8. RulesAhead'
    <3> SUFFICES ASSUME NEW i \in Up, NEW q \in loaded[i] PROVE Fulfilled(q)' \/ Supplied(q)'
      BY <1>1 DEF RulesAhead
    <3>1. q \in Plugins
      BY DEF Up, StickTypes
    <3>2. Fulfilled(q) \/ Supplied(q)
      BY <2>2, <3>1 DEF RulesKept, RulesAhead
    <3> QED
      BY <1>1, <2>7, <3>1, <3>2 DEF Fulfilled
  <2> QED
    BY <1>6, <1>7, <1>8, <2>4, <2>5, <2>6, <2>8 DEF RulesKept
<1>9. CASE w = "cleanup"
  <2>1. Deregistering /\ p \in NamedAlike
    BY <1>1, <1>9 DEF Deregistering, RulesKept, JobsKept
  <2>2. CleanupKept'
    BY <1>2, <1>3, <1>4, <1>5, <1>9, <2>1 DEF CleanupKept
  <2>3. TurnsTaken'
    BY <1>1, <1>5, <1>6, <1>9, <2>1, SyncersAre DEF RulesKept, TurnsTaken, At
  <2>4. \A q \in Plugins : Leaving(q)' => Leaving(q)
    BY <1>1, <1>2, <1>5, <1>9 DEF Leaving, At
  <2>5. LeavesAll'
    BY <1>1, <2>4 DEF RulesKept, LeavesAll
  <2>6. syncing'["sync"] = syncing["sync"]
    BY <1>5, <1>9, SyncersAre
  <2>7. RulesAhead'
    <3> SUFFICES ASSUME NEW i \in Up, NEW q \in loaded[i]
                 PROVE  Fulfilled(q)' \/ Supplied(q)' \/ Leaving(q)'
      BY <1>1 DEF RulesAhead
    <3>1. q \in Plugins
      BY DEF Up, StickTypes
    <3>2. Leaving(q) => Leaving(q)'
      BY <1>1, <3>1, LeavesByBroadcast DEF RulesKept
    <3>3. Fulfilled(q) \/ Supplied(q) \/ Leaving(q)
      BY DEF RulesKept, RulesAhead
    <3>4. Supplied(q) => Supplied(q)'
      BY <1>1, <1>9, <2>6 DEF Supplied, At
    <3> QED
      BY <1>1, <3>2, <3>3, <3>4 DEF Fulfilled
  <2> QED
    BY <1>6, <1>7, <1>9, <2>2, <2>3, <2>5, <2>7 DEF RulesKept
<1> QED
  BY <1>8, <1>9 DEF HookWorkers

\* A job is done, or fails and is retried.
LEMMA JobEndsKeepsRules ==
  ASSUME StickTypes, LifecycleTypes, RulesKept, NEW w \in HookWorkers, JobDone(w) \/ JobFails(w), ~excused'
  PROVE  RulesKept'
<1>0. w \in Syncers
  BY DEF Syncers
<1>1. /\ UNCHANGED <<known, granted, loaded, phase, installed, announcing, broadcasts>> /\ Up' = Up
      /\ All' = All /\ ~At(w, "off")
      /\ JobDone(w) => hookJobs' = hookJobs
      /\ ~JobDone(w) => hookJobs' = hookJobs \cup ({w} \X syncing[w].rules)
  BY DEF JobDone, JobFails, ruleTables, Up, All
<1>2. /\ syncing'[w].pc = "off" /\ \A t \in Syncers : t # w => syncing'[t] = syncing[t]
      /\ syncing[w].rules \subseteq Plugins
  BY <1>0, NotSyncingIs DEF JobDone, JobFails, StickTypes, SyncType
<1>3. Installing' = Installing
  BY <1>1 DEF Installing
<1>4. ASSUME NEW s \in Syncers \ {"cleanup"} PROVE SupplierKept(s)'
  <2>1. CASE s = w
    BY <1>2, <2>1 DEF SupplierKept
  <2>2. CASE s # w
    BY <1>1, <1>2, <2>2, SupplierStays DEF RulesKept, Fulfilled
  <2> QED
    BY <2>1, <2>2
<1>5. CleanupKept'
  BY <1>2, SyncersAre DEF RulesKept, CleanupKept
<1>6. JobsKept'
  <2>1. w = "sync" => syncing[w].rules \subseteq All
    BY <1>1, <1>0 DEF RulesKept, SupplierKept, At
  <2>2. w = "cleanup" => syncing[w].rules \subseteq NamedAlike
    BY <1>1 DEF RulesKept, CleanupKept, At
  <2>3. ASSUME NEW q \in Plugins, NEW v \in HookWorkers, <<v, q>> \in hookJobs'
        PROVE  <<v, q>> \in hookJobs \/ (v = w /\ q \in syncing[w].rules)
    BY <1>1, <2>3
  <2> QED
    BY <1>1, <2>1, <2>2, <2>3 DEF RulesKept, JobsKept, HookWorkers
<1>7. CASE w = "sync"
  <2>1. ~Deregistering
    BY <1>0, <1>1, <1>7 DEF RulesKept, TurnsTaken
  <2>2. ~Deregistering' /\ \A q \in Plugins : ~Leaving(q) /\ ~Leaving(q)'
    BY <1>1, <1>2, <1>7, <2>1, SyncersAre DEF Deregistering, Leaving, At
  <2>3. TurnsTaken' /\ LeavesAll'
    BY <1>2, <1>3, <1>7, <2>2, SyncersAre DEF RulesKept, TurnsTaken, LeavesAll, At
  <2>4. ASSUME NEW q \in Plugins, Supplied(q) PROVE Supplied(q)' \/ Fulfilled(q)
    <3>1. CASE <<"sync", q>> \in hookJobs
      BY <1>1, <3>1 DEF Supplied
    <3>2. CASE <<"sync", q>> \notin hookJobs /\ JobDone(w)
      <4>1. syncing[w].pc = "grantAdmin" /\ syncing[w].todo = {} /\ q \in syncing[w].rules
        BY <1>7, <2>4, <3>2, SyncersAre DEF JobDone, SyncDone, At, Left, Supplied
      <4> QED
        BY <1>7, <4>1, SyncersAre DEF RulesKept, SupplierKept, Fulfilled
    <3>3. CASE <<"sync", q>> \notin hookJobs /\ ~JobDone(w)
      BY <1>1, <1>7, <2>4, <3>3 DEF Supplied
    <3> QED
      BY <3>1, <3>2, <3>3
  <2>5. RulesAhead'
    <3> SUFFICES ASSUME NEW i \in Up, NEW q \in loaded[i] PROVE Fulfilled(q)' \/ Supplied(q)'
      BY <1>1 DEF RulesAhead
    <3>1. q \in Plugins
      BY DEF Up, StickTypes
    <3>2. Fulfilled(q) \/ Supplied(q)
      BY <2>2, <3>1 DEF RulesKept, RulesAhead
    <3> QED
      BY <1>1, <2>4, <3>1, <3>2 DEF Fulfilled
  <2> QED
    BY <1>4, <1>5, <1>6, <2>3, <2>5 DEF RulesKept
<1>8. CASE w = "cleanup"
  <2>1. Deregistering
    BY <1>1, <1>8 DEF Deregistering
  <2>2. syncing'["sync"] = syncing["sync"]
    BY <1>2, <1>8, SyncersAre
  <2>3. TurnsTaken'
    BY <1>1, <1>2, <1>3, <1>8, <2>1, SyncersAre DEF RulesKept, TurnsTaken, At
  <2>4. \A q \in Plugins : Leaving(q)' => Leaving(q)
    BY <1>1, <1>2, <1>8 DEF Leaving, At, RulesKept, CleanupKept
  <2>5. LeavesAll'
    BY <1>1, <2>4 DEF RulesKept, LeavesAll
  <2>6. RulesAhead'
    <3> SUFFICES ASSUME NEW i \in Up, NEW q \in loaded[i]
                 PROVE  Fulfilled(q)' \/ Supplied(q)' \/ Leaving(q)'
      BY <1>1 DEF RulesAhead
    <3>1. q \in Plugins
      BY DEF Up, StickTypes
    <3>2. Leaving(q) => Leaving(q)'
      BY <1>1, <3>1, LeavesByBroadcast DEF RulesKept
    <3>3. Fulfilled(q) \/ Supplied(q) \/ Leaving(q)
      BY DEF RulesKept, RulesAhead
    <3>4. Supplied(q) => Supplied(q)'
      BY <1>1, <2>2 DEF Supplied, At
    <3> QED
      BY <1>1, <3>2, <3>3, <3>4 DEF Fulfilled
  <2> QED
    BY <1>4, <1>5, <1>6, <2>3, <2>5, <2>6 DEF RulesKept
<1> QED
  BY <1>7, <1>8 DEF HookWorkers

LEMMA LifecycleTypesKept ==
  ASSUME StickTypes, LifecycleTypes, [LifecycleNext]_lifecycleVars
  PROVE  LifecycleTypes'
<1>0. /\ syncing \in [Syncers -> SyncType] /\ loaded \in [Hosts -> SUBSET Plugins]
      /\ phase \in [Hosts -> {"down", "starting", "up"}] /\ announcing \subseteq installed
      /\ \A i \in Hosts : loaded[i] \subseteq All
      /\ \A p \in Plugins, i \in Hosts : <<"install", p, i>> \in broadcasts => p \in installed
      /\ hookJobs \subseteq HookWorkers \X Plugins /\ All \subseteq Plugins
      /\ \A s \in Syncers : syncing[s].rules \subseteq Plugins
  BY AccessAssumption DEF StickTypes, LifecycleTypes, SyncType, All
<1>1. ASSUME NEW i \in Hosts, Start(i) \/ Listen(i) \/ Down(i) PROVE LifecycleTypes'
  <2>1. installed' = installed /\ announcing' = announcing /\ broadcasts' \subseteq broadcasts
        /\ hookJobs' \subseteq hookJobs \cup ({"sync"} \X All)
    BY <1>1 DEF Start, Listen, Down, All
  <2>2. phase' \in [Hosts -> {"down", "starting", "up"}]
    BY <1>0, <1>1 DEF Start, Listen, Down
  <2>3. \A j \in Hosts : loaded'[j] \subseteq All
    BY <1>0, <1>1 DEF Start, Listen, Down, All
  <2>4. hookJobs' \subseteq HookWorkers \X Plugins
    BY <1>0, <2>1 DEF HookWorkers
  <2> QED
    BY <1>0, <2>1, <2>2, <2>3, <2>4 DEF LifecycleTypes, All
<1>2. ASSUME NEW p \in Plugins, Install(p) \/ RequestInstallation(p) \/ Deregister(p)
      PROVE  LifecycleTypes'
  BY <1>0, <1>2 DEF Install, RequestInstallation, Deregister, accessVars, Broadcast, LifecycleTypes, All
<1>3. ASSUME NEW i \in Hosts, NEW p \in Plugins, LoadSinglePlugin(i, p) \/ DeregisterPlugin(i, p)
      PROVE  LifecycleTypes'
  <2>1. UNCHANGED <<phase, installed, announcing>> /\ broadcasts' \subseteq broadcasts
        /\ hookJobs' \subseteq hookJobs \cup (HookWorkers \X {p})
    BY <1>3 DEF LoadSinglePlugin, DeregisterPlugin, HookWorkers
  <2>2. \A j \in Hosts : loaded'[j] \subseteq All
    BY <1>0, <1>3 DEF LoadSinglePlugin, DeregisterPlugin, All
  <2> QED
    BY <1>0, <2>1, <2>2 DEF LifecycleTypes, All
<1>4. ASSUME NEW b \in broadcasts, BroadcastFails(b) PROVE LifecycleTypes'
  BY <1>0, <1>4 DEF BroadcastFails, accessVars, LifecycleTypes, All
<1>5. ASSUME NEW w \in HookWorkers, JobDone(w) \/ JobFails(w) \/ \E p \in Plugins : TakeJob(w, p)
      PROVE  LifecycleTypes'
  <2>1. UNCHANGED <<loaded, phase, installed, announcing, broadcasts>>
        /\ hookJobs' \subseteq hookJobs \cup ({w} \X syncing[w].rules)
    BY <1>5 DEF JobDone, JobFails, TakeJob
  <2>2. w \in Syncers
    BY DEF Syncers
  <2> QED
    BY <1>0, <2>1, <2>2 DEF LifecycleTypes, All
<1>6. CASE RoleRequest \/ Proceeds \/ UNCHANGED lifecycleVars
  <2>1. UNCHANGED <<loaded, phase, installed, announcing, broadcasts, hookJobs>>
    BY <1>6 DEF RoleRequest, CreateRole, DeleteRole, UpdateRole, EditFails, Proceeds, lifecycleVars, accessVars,
                EditStep, TrackRemoved, TrackAdded, ReplaceGrants, SyncStep, RecordRule, ReadAdmin, GrantAdmin,
                FindOrphans, UnmapOrphan, DeleteRule, ReadDisabled, ReadRole, GrantRole
  <2> QED
    BY <1>0, <2>1 DEF LifecycleTypes, All
<1> QED
  BY <1>1, <1>2, <1>3, <1>4, <1>5, <1>6 DEF LifecycleNext

LEMMA RulesInvInductive ==
  /\ LifecycleInit => RulesInv
  /\ StickInv /\ RulesInv /\ [LifecycleNext]_lifecycleVars => RulesInv'
<1>1. ASSUME LifecycleInit PROVE RulesInv
  <2> PICK running \in SUBSET Hosts :
        /\ AccessInit(running)
        /\ phase = [i \in Hosts |-> IF i \in running THEN "up" ELSE "down"]
    BY <1>1 DEF LifecycleInit
  <2>1. /\ loaded = [i \in Hosts |-> IF i \in running THEN BuiltIn ELSE {}]
        /\ known = IF running = {} THEN {} ELSE BuiltIn
        /\ \A p \in known : <<"admin", p>> \in granted
        /\ syncing = [s \in Syncers |-> NotSyncing]
        /\ installed = {} /\ announcing = {} /\ broadcasts = {} /\ hookJobs = {}
    BY <1>1 DEF AccessInit, LifecycleInit
  <2>2. LifecycleTypes
    BY <2>1 DEF LifecycleTypes, All
  <2>3. \A s \in Syncers : At(s, "off")
    BY <2>1, NotSyncingIs DEF At
  <2>4. (\A s \in Syncers \ {"cleanup"} : SupplierKept(s)) /\ CleanupKept /\ JobsKept
    BY <2>1, <2>3, SyncersAre DEF SupplierKept, CleanupKept, JobsKept, At
  <2>5. ~Deregistering /\ \A p \in Plugins : ~Leaving(p)
    BY <2>1, <2>3, SyncersAre DEF Deregistering, Leaving
  <2>6. TurnsTaken /\ LeavesAll
    BY <2>3, <2>5, SyncersAre DEF TurnsTaken, LeavesAll
  <2>7. RulesAhead
    BY <2>1 DEF RulesAhead, Fulfilled, Up
  <2> QED
    BY <2>2, <2>4, <2>6, <2>7 DEF RulesInv, RulesKept
<1>2. ASSUME StickInv, RulesInv, [LifecycleNext]_lifecycleVars PROVE RulesInv'
  <2>0. StickTypes /\ LifecycleTypes
    BY <1>2 DEF StickInv, RulesInv
  <2>1. LifecycleTypes'
    BY <1>2, <2>0, LifecycleTypesKept
  <2> SUFFICES ASSUME ~excused' PROVE RulesKept'
    BY <2>1 DEF RulesInv
  <2>2. RulesKept
    <3>1. ~excused
      BY <1>2 DEF LifecycleNext, Start, Listen, Down, Install, RequestInstallation, Deregister,
                  LoadSinglePlugin, DeregisterPlugin, BroadcastFails, JobDone, JobFails, TakeJob,
                  RoleRequest, Proceeds, lifecycleVars
    <3> QED
      BY <1>2, <3>1 DEF RulesInv
  <2>3. ASSUME NEW i \in Hosts, Start(i) \/ Listen(i) \/ Down(i) PROVE RulesKept'
    BY <2>0, <2>2, <2>3, StartKeepsRules, ListenKeepsRules, DownKeepsRules
  <2>4. ASSUME NEW p \in Plugins, Install(p) \/ RequestInstallation(p) \/ Deregister(p)
        PROVE  RulesKept'
    BY <2>0, <2>2, <2>4, RequestKeepsRules, InstallingKeepsRules
  <2>5. ASSUME NEW i \in Hosts, NEW p \in Plugins, LoadSinglePlugin(i, p) \/ DeregisterPlugin(i, p)
        PROVE  RulesKept'
    BY <2>0, <2>2, <2>5, InstallingKeepsRules, DeregisterPluginKeepsRules
  <2>6. ASSUME NEW b \in broadcasts PROVE ~BroadcastFails(b)
    BY DEF BroadcastFails
  <2>7. ASSUME NEW w \in HookWorkers, JobDone(w) \/ JobFails(w) \/ \E p \in Plugins : TakeJob(w, p)
        PROVE  RulesKept'
    BY <2>0, <2>2, <2>7, TakeJobKeepsRules, JobEndsKeepsRules
  <2>8. CASE RoleRequest \/ Proceeds
    <3>1. ASSUME NEW s \in Syncers, SyncStep(s), Proceeds PROVE RulesKept'
      <4>1. UNCHANGED <<loaded, phase, installed, announcing, broadcasts, hookJobs>>
        BY <3>1 DEF Proceeds, SyncStep, RecordRule, ReadAdmin, GrantAdmin, FindOrphans, UnmapOrphan,
                    DeleteRule, ReadDisabled, ReadRole, GrantRole
      <4> QED
        BY <2>0, <2>2, <3>1, <4>1, SyncStepKeepsRules
    <3> QED
      BY <2>0, <2>2, <2>8, <3>1, RolesKeepRules DEF Proceeds
  <2>9. CASE UNCHANGED lifecycleVars
    BY <2>0, <2>2, <2>9, TablesKeepRules DEF lifecycleVars, accessVars, ruleTables
  <2> QED
    BY <1>2, <2>3, <2>4, <2>5, <2>6, <2>7, <2>8, <2>9 DEF LifecycleNext
<1> QED
  BY <1>1, <1>2

\* syncAccessRulesToDb and the hooks, core/auth-backend/src/index.ts:779: for any plugins,
\* instances and administrators, whatever crashes and whichever jobs are retried, once
\* all has settled the rule of a plugin that an instance runs is there and administrators
\* have it, unless requests about plugins and starts overlapped or a job was given up.
THEOREM RunningPluginsHaveRulesCorrect == LifecycleSpec => []RunningPluginsHaveRules
<1>1. StickInv /\ RulesInv => RunningPluginsHaveRules
  <2> SUFFICES ASSUME StickInv, RulesInv, LifecycleAtRest, ~excused, NEW i \in Up, NEW p \in loaded[i]
               PROVE  Fulfilled(p)
    BY DEF RunningPluginsHaveRules, Fulfilled
  <2>1. p \in Plugins
    BY DEF Up, StickInv, StickTypes
  <2>2. ~Leaving(p)
    BY <2>1, SettledTurns DEF RulesInv, LifecycleAtRest
  <2>3. ~Supplied(p)
    BY SyncersAre DEF LifecycleAtRest, Supplied
  <2> QED
    BY <2>2, <2>3 DEF RulesInv, RulesKept, RulesAhead
<1> QED
  BY <1>1, StickInvInvariant, RulesInvInductive, PTL DEF LifecycleSpec

-----------------------------------------------------------------------------
(* QueueProxy: SubscriptionsReplayed, for any consumers, groups and callers. A
   group whose consumer is not on the queue in use is ahead of a replay, or
   someone is about to install another queue, which replays them all. *)

BeforeInstall == {"settling in stop", "draining in stop", "settling", "draining"}
CallerType == [pc : {"idle", "replaying"} \cup BeforeInstall, queue : Queues \cup {None},
               waits : SUBSET Ops, at : Nat]

ProxyTypes ==
  /\ delegate \in Queues \cup {None} /\ closed \in BOOLEAN /\ created \in 0..MaxQueues
  /\ subscriptions \in Seq(Groups) /\ subscriber \in [Groups -> Consumers \cup {None}]
  /\ pending \subseteq Ops /\ registered \in [Queues -> SUBSET Consumers]
  /\ caller \in [Callers -> CallerType]
  /\ \A k \in Callers : /\ caller[k].pc \in {"settling", "draining"} => caller[k].queue \in Queues
                        /\ caller[k].pc = "replaying" => delegate # None

\* The Map's keys are the groups that have a consumer.
KeysSubscribed ==
  /\ \A n \in 1..Len(subscriptions) : subscriber[subscriptions[n]] # None
  /\ \A g \in Groups : subscriber[g] # None => \E n \in 1..Len(subscriptions) : subscriptions[n] = g

InstallAhead == \E k \in Callers : caller[k].pc \in BeforeInstall

\* Caller k's replay is yet to come to g.
ReplayAhead(k, g) ==
  /\ caller[k].pc = "replaying"
  /\ \E n \in 1..Len(subscriptions) : n > caller[k].at /\ subscriptions[n] = g

OnQueueOrAhead ==
  delegate # None /\ ~InstallAhead =>
    /\ ~closed
    /\ \A g \in Groups : subscriber[g] # None =>
         subscriber[g] \in registered[delegate] \/ \E k \in Callers : ReplayAhead(k, g)

ProxyInv == ProxyTypes /\ KeysSubscribed /\ OnQueueOrAhead

\* What a caller's record can become.
LEMMA IdleIs == Idle \in CallerType /\ Idle.pc = "idle"
<1>1. PICK none \in SUBSET Ops : none = {}
  OBVIOUS
<1>2. PICK pc \in {"idle", "replaying"} \cup BeforeInstall : pc = "idle"
  OBVIOUS
<1>3. PICK queue \in Queues \cup {None} : queue = None
  OBVIOUS
<1>4. Idle = [pc |-> pc, queue |-> queue, waits |-> none, at |-> 0]
  BY <1>1, <1>2, <1>3 DEF Idle
<1> QED
  BY <1>2, <1>4 DEF CallerType

LEMMA CallerDrains ==
  ASSUME NEW pc \in BeforeInstall, NEW queue \in Queues \cup {None}
  PROVE  LET new == [Idle EXCEPT !.pc = pc, !.queue = queue]
         IN new \in CallerType /\ new.pc = pc /\ new.queue = queue
BY IdleIs DEF CallerType

LEMMA CallerReplays ==
  ASSUME NEW at \in Nat
  PROVE  LET new == [Idle EXCEPT !.pc = "replaying", !.at = at]
         IN new \in CallerType /\ new.pc = "replaying" /\ new.at = at
<1>1. PICK pc \in {"idle", "replaying"} \cup BeforeInstall : pc = "replaying"
  OBVIOUS
<1>2. LET new == [Idle EXCEPT !.pc = pc, !.at = at]
      IN new \in CallerType /\ new.pc = pc /\ new.at = at
  BY IdleIs DEF CallerType
<1> QED
  BY <1>1, <1>2

\* A caller starts to wait, or the delegate's stop() is called at once.
LEMMA AwaitEffect ==
  ASSUME ProxyInv, NEW k \in Callers, NEW settling \in BeforeInstall,
         NEW draining \in BeforeInstall, NEW queue \in Queues \cup {None},
         queue \in Queues \/ {settling, draining} \cap {"settling", "draining"} = {},
         AwaitOperations(k, settling, draining, queue),
         UNCHANGED <<clientVars, delegate, registered>>,
         created' \in 0..MaxQueues, closed' \in BOOLEAN
  PROVE  ProxyInv'
<1>1. \E new \in CallerType : /\ caller' = [caller EXCEPT ![k] = new] /\ new.queue = queue
                              /\ new.pc \in {settling, draining}
  <2>1. CASE pending # {}
    <3>1. PICK waits \in SUBSET Ops : waits = pending
      BY DEF ProxyInv, ProxyTypes
    <3> DEFINE new == [Idle EXCEPT !.pc = settling, !.queue = queue, !.waits = waits]
    <3>2. caller' = [caller EXCEPT ![k] = new]
      BY <2>1, <3>1 DEF AwaitOperations
    <3>3. new \in CallerType /\ new.pc = settling /\ new.queue = queue
      BY IdleIs DEF CallerType
    <3> HIDE DEF new
    <3> QED
      BY <3>2, <3>3
  <2>2. CASE pending = {}
    <3>1. caller' = [caller EXCEPT ![k] = [Idle EXCEPT !.pc = draining, !.queue = queue]]
      BY <2>2 DEF AwaitOperations
    <3> DEFINE new == [Idle EXCEPT !.pc = draining, !.queue = queue]
    <3>2. new \in CallerType /\ new.pc = draining /\ new.queue = queue
      BY CallerDrains
    <3>3. caller' = [caller EXCEPT ![k] = new]
      BY <3>1
    <3> HIDE DEF new
    <3> QED
      BY <3>2, <3>3
  <2> QED
    BY <2>1, <2>2
<1>2. PICK new \in CallerType : /\ caller' = [caller EXCEPT ![k] = new] /\ new.queue = queue
                                /\ new.pc \in {settling, draining}
  BY <1>1
<1>3. caller' \in [Callers -> CallerType] /\ caller'[k] = new
      /\ \A j \in Callers \ {k} : caller'[j] = caller[j]
  BY <1>2 DEF ProxyInv, ProxyTypes
<1>4. InstallAhead'
  BY <1>2, <1>3 DEF InstallAhead
<1>5. ProxyTypes'
  BY <1>2, <1>3 DEF ProxyInv, ProxyTypes, clientVars, BeforeInstall
<1> QED
  BY <1>4, <1>5 DEF ProxyInv, KeysSubscribed, OnQueueOrAhead, clientVars

\* The operations that were waited for have settled.
LEMMA AwaitedEffect ==
  ASSUME ProxyInv, NEW k \in Callers, NEW settling \in BeforeInstall,
         NEW draining \in BeforeInstall, OperationsAwaited(k, settling, draining),
         draining = "draining" => settling = "settling", draining # "settling"
  PROVE  ProxyInv'
<1>1. /\ caller[k].pc = settling /\ caller' = [caller EXCEPT ![k].pc = draining, ![k].waits = {}]
      /\ UNCHANGED <<clientVars, delegate, closed, created, registered>>
  BY DEF OperationsAwaited
<1>2. caller[k] \in CallerType /\ caller \in [Callers -> CallerType]
  BY DEF ProxyInv, ProxyTypes
<1>3. PICK none \in SUBSET Ops : none = {}
  OBVIOUS
<1> DEFINE new == [caller[k] EXCEPT !.pc = draining, !.waits = none]
<1>4. new \in CallerType /\ new.pc = draining /\ new.queue = caller[k].queue
  BY <1>2 DEF CallerType
<1>5. caller' = [caller EXCEPT ![k] = new]
  BY <1>1, <1>2, <1>3
<1> HIDE DEF new
<1>6. caller' \in [Callers -> CallerType] /\ caller'[k] = new
      /\ \A j \in Callers \ {k} : caller'[j] = caller[j]
  BY <1>2, <1>4, <1>5
<1>7. InstallAhead'
  BY <1>4, <1>6 DEF InstallAhead
<1>8. ProxyTypes'
  <2>1. new.pc \notin {"replaying", "settling"} /\ (new.pc = "draining" => new.queue \in Queues)
    BY <1>1, <1>4 DEF ProxyInv, ProxyTypes, BeforeInstall
  <2> QED
    BY <1>1, <1>6, <2>1 DEF ProxyInv, ProxyTypes, clientVars
<1> QED
  BY <1>1, <1>7, <1>8 DEF ProxyInv, KeysSubscribed, OnQueueOrAhead, clientVars

\* The replay of one subscription, or the end of the loop.
LEMMA ReplayEffect ==
  ASSUME ProxyInv, NEW k \in Callers, NEW queue \in Queues, NEW n \in Nat \ {0},
         Replay(k, queue, n)
  PROVE  /\ caller' \in [Callers -> CallerType]
         /\ \A j \in Callers \ {k} : caller'[j] = caller[j]
         /\ registered' \in [Queues -> SUBSET Consumers]
         /\ \A q \in Queues : registered[q] \subseteq registered'[q]
         /\ \/ /\ n \in 1..Len(subscriptions) /\ caller'[k].pc = "replaying" /\ caller'[k].at = n
               /\ subscriber[subscriptions[n]] \in registered'[queue]
            \/ n > Len(subscriptions) /\ caller'[k].pc = "idle"
<1> USE DEF ProxyInv
<1>0. subscriptions \in Seq(Groups) /\ Len(subscriptions) \in Nat
  BY DEF ProxyTypes
<1>1. CASE n <= Len(subscriptions)
  <2>1. /\ registered' = [registered EXCEPT ![queue] = @ \cup {subscriber[subscriptions[n]]}]
        /\ caller' = [caller EXCEPT ![k] = [Idle EXCEPT !.pc = "replaying", !.at = n]]
    BY <1>1 DEF Replay
  <2>2. n \in 1..Len(subscriptions) /\ subscriptions[n] \in Groups
    BY <1>0, <1>1
  <2>3. subscriber[subscriptions[n]] \in Consumers
    BY <2>2 DEF ProxyTypes, KeysSubscribed
  <2> DEFINE new == [Idle EXCEPT !.pc = "replaying", !.at = n]
  <2>4. new \in CallerType /\ new.pc = "replaying" /\ new.at = n
    BY CallerReplays
  <2>5. caller' = [caller EXCEPT ![k] = new]
    BY <2>1
  <2> HIDE DEF new
  <2>6. /\ registered' \in [Queues -> SUBSET Consumers]
        /\ \A q \in Queues : registered[q] \subseteq registered'[q]
        /\ subscriber[subscriptions[n]] \in registered'[queue]
    BY <2>1, <2>3 DEF ProxyTypes
  <2> QED
    BY <2>2, <2>4, <2>5, <2>6 DEF ProxyTypes
<1>2. CASE ~(n <= Len(subscriptions))
  <2>1. caller' = [caller EXCEPT ![k] = Idle] /\ registered' = registered
    BY <1>2 DEF Replay
  <2>2. Idle \in CallerType /\ Idle.pc = "idle"
    BY IdleIs
  <2>3. n > Len(subscriptions)
    BY <1>0, <1>2
  <2> QED
    BY <2>1, <2>2, <2>3 DEF ProxyTypes
<1> QED
  BY <1>1, <1>2

LEMMA InstallEffect ==
  ASSUME ProxyInv, NEW k \in Callers, NEW queue \in Queues, InstallQueue(k, queue),
         UNCHANGED clientVars, created' \in 0..MaxQueues
  PROVE  ProxyInv'
<1>1. Replay(k, queue, 1) /\ delegate' = queue /\ closed' = FALSE
      /\ UNCHANGED <<subscriptions, subscriber, pending>>
  BY DEF InstallQueue, clientVars
<1>2. /\ caller' \in [Callers -> CallerType]
      /\ \A j \in Callers \ {k} : caller'[j] = caller[j]
      /\ registered' \in [Queues -> SUBSET Consumers]
      /\ \/ /\ 1 \in 1..Len(subscriptions) /\ caller'[k].pc = "replaying" /\ caller'[k].at = 1
            /\ subscriber[subscriptions[1]] \in registered'[queue]
         \/ 1 > Len(subscriptions) /\ caller'[k].pc = "idle"
  BY <1>1, ReplayEffect
<1>3. queue # None
  BY BoundAssumption DEF Queues
<1>4. ProxyTypes'
  BY <1>1, <1>2, <1>3 DEF ProxyInv, ProxyTypes
<1>5. KeysSubscribed'
  BY <1>1 DEF ProxyInv, KeysSubscribed
<1>6. ASSUME NEW g \in Groups, subscriber[g] # None
      PROVE  subscriber[g] \in registered'[queue] \/ ReplayAhead(k, g)'
  <2>1. PICK n \in 1..Len(subscriptions) : subscriptions[n] = g
    BY <1>6 DEF ProxyInv, KeysSubscribed
  <2>2. Len(subscriptions) \in Nat
    BY DEF ProxyInv, ProxyTypes
  <2>3. CASE n = 1
    BY <1>2, <2>1, <2>2, <2>3
  <2>4. CASE n # 1
    <3>1. n > 1 /\ caller'[k].pc = "replaying" /\ caller'[k].at = 1
      BY <1>2, <2>1, <2>2, <2>4
    <3> QED
      BY <1>1, <2>1, <3>1 DEF ReplayAhead
  <2> QED
    BY <2>3, <2>4
<1>7. OnQueueOrAhead'
  BY <1>1, <1>6 DEF OnQueueOrAhead
<1> QED
  BY <1>4, <1>5, <1>7 DEF ProxyInv

LEMMA ReplayNextKeeps ==
  ASSUME ProxyInv, NEW k \in Callers, ReplayNext(k)
  PROVE  ProxyInv'
<1> DEFINE n == caller[k].at + 1
<1>1. /\ caller[k].pc = "replaying" /\ Replay(k, delegate, n) /\ delegate \in Queues
      /\ n \in Nat \ {0} /\ caller[k].at \in Nat
      /\ UNCHANGED <<subscriptions, subscriber, pending, delegate, closed, created>>
  BY DEF ReplayNext, clientVars, ProxyInv, ProxyTypes, CallerType
<1>2. /\ caller' \in [Callers -> CallerType]
      /\ \A j \in Callers \ {k} : caller'[j] = caller[j]
      /\ registered' \in [Queues -> SUBSET Consumers]
      /\ \A q \in Queues : registered[q] \subseteq registered'[q]
      /\ \/ /\ n \in 1..Len(subscriptions) /\ caller'[k].pc = "replaying" /\ caller'[k].at = n
            /\ subscriber[subscriptions[n]] \in registered'[delegate]
         \/ n > Len(subscriptions) /\ caller'[k].pc = "idle"
  BY <1>1, ReplayEffect
<1>3. ProxyTypes'
  BY <1>1, <1>2, BoundAssumption DEF ProxyInv, ProxyTypes, Queues
<1>4. KeysSubscribed'
  BY <1>1 DEF ProxyInv, KeysSubscribed
<1>5. InstallAhead => InstallAhead'
  BY <1>1, <1>2 DEF InstallAhead, BeforeInstall
<1>6. ASSUME NEW g \in Groups, NEW j \in Callers, ReplayAhead(j, g)
      PROVE  subscriber[g] \in registered'[delegate] \/ ReplayAhead(j, g)'
  <2>1. PICK m \in 1..Len(subscriptions) : m > caller[j].at /\ subscriptions[m] = g
    BY <1>6 DEF ReplayAhead
  <2>2. Len(subscriptions) \in Nat
    BY DEF ProxyInv, ProxyTypes
  <2>3. CASE j # k
    BY <1>1, <1>2, <1>6, <2>3 DEF ReplayAhead
  <2>4. CASE j = k /\ m = n
    BY <1>2, <2>1, <2>2, <2>4
  <2>5. CASE j = k /\ m # n
    <3>1. m > n /\ caller'[k].pc = "replaying" /\ caller'[k].at = n
      BY <1>1, <1>2, <2>1, <2>2, <2>5
    <3> QED
      BY <1>1, <2>1, <2>5, <3>1 DEF ReplayAhead
  <2> QED
    BY <2>3, <2>4, <2>5
<1>7. OnQueueOrAhead'
  BY <1>1, <1>2, <1>5, <1>6 DEF ProxyInv, OnQueueOrAhead
<1> QED
  BY <1>3, <1>4, <1>7 DEF ProxyInv

LEMMA ConsumeKeeps ==
  ASSUME ProxyInv, NEW c \in Consumers, Consume(c)
  PROVE  ProxyInv'
<1> DEFINE g == GroupOf[c]
<1>1. /\ g \in Groups /\ c # None
      /\ subscriber' = [subscriber EXCEPT ![g] = c]
      /\ subscriptions' = IF g \in ToSet(subscriptions) THEN subscriptions
                          ELSE Append(subscriptions, g)
      /\ registered' = IF delegate # None /\ ~closed
                       THEN [registered EXCEPT ![delegate] = @ \cup {c}] ELSE registered
      /\ UNCHANGED <<pending, delegate, closed, created, caller>>
  BY GroupAssumption, BoundAssumption DEF Consume
<1>2. /\ subscriptions' \in Seq(Groups) /\ Len(subscriptions') \in Nat
      /\ \A n \in 1..Len(subscriptions) : n \in 1..Len(subscriptions') /\ subscriptions'[n] = subscriptions[n]
      /\ \A n \in 1..Len(subscriptions') : n \in 1..Len(subscriptions) \/ subscriptions'[n] = g
      /\ \E n \in 1..Len(subscriptions') : subscriptions'[n] = g
  <2>1. subscriptions \in Seq(Groups) /\ Len(subscriptions) \in Nat
    BY DEF ProxyInv, ProxyTypes
  <2>2. CASE g \in ToSet(subscriptions)
    BY <1>1, <2>1, <2>2 DEF ToSet
  <2>3. CASE g \notin ToSet(subscriptions)
    <3>1. subscriptions' = Append(subscriptions, g)
      BY <1>1, <2>3
    <3> HIDE DEF g
    <3>2. Len(subscriptions') = Len(subscriptions) + 1
          /\ subscriptions'[Len(subscriptions) + 1] = g
          /\ subscriptions' \in Seq(Groups)
      BY <1>1, <2>1, <3>1
    <3>3. \A n \in 1..Len(subscriptions) : subscriptions'[n] = subscriptions[n]
      BY <1>1, <2>1, <3>1
    <3>4. \A n \in 1..Len(subscriptions') : n \in 1..Len(subscriptions) \/ n = Len(subscriptions) + 1
      BY <2>1, <3>2
    <3>5. \A n \in 1..Len(subscriptions) : n \in 1..Len(subscriptions')
      BY <2>1, <3>2
    <3>6. Len(subscriptions) + 1 \in 1..Len(subscriptions')
      BY <2>1, <3>2
    <3> QED
      BY <2>1, <3>2, <3>3, <3>4, <3>5, <3>6
  <2> QED
    BY <2>2, <2>3
<1>3. /\ registered' \in [Queues -> SUBSET Consumers]
      /\ \A q \in Queues : registered[q] \subseteq registered'[q]
      /\ delegate # None /\ ~closed => c \in registered'[delegate]
  BY <1>1 DEF ProxyInv, ProxyTypes
<1>4. /\ subscriber' \in [Groups -> Consumers \cup {None}] /\ subscriber'[g] = c
      /\ \A h \in Groups \ {g} : subscriber'[h] = subscriber[h]
  BY <1>1 DEF ProxyInv, ProxyTypes
<1> HIDE DEF g
<1>5. ProxyTypes'
  BY <1>1, <1>2, <1>3, <1>4 DEF ProxyInv, ProxyTypes
<1>6. KeysSubscribed'
  <2>1. ASSUME NEW n \in 1..Len(subscriptions') PROVE subscriber'[subscriptions'[n]] # None
    <3>1. subscriptions'[n] \in Groups
      BY <1>2
    <3>2. subscriptions'[n] = g \/ (n \in 1..Len(subscriptions) /\ subscriptions'[n] = subscriptions[n])
      BY <1>2
    <3> QED
      BY <1>1, <1>4, <3>1, <3>2 DEF ProxyInv, KeysSubscribed
  <2>2. ASSUME NEW h \in Groups, subscriber'[h] # None
        PROVE  \E n \in 1..Len(subscriptions') : subscriptions'[n] = h
    <3>1. CASE h = g
      BY <1>2, <3>1
    <3>2. CASE h # g
      BY <1>2, <1>4, <2>2, <3>2 DEF ProxyInv, KeysSubscribed
    <3> QED
      BY <3>1, <3>2
  <2> QED
    BY <2>1, <2>2 DEF KeysSubscribed
<1>7. OnQueueOrAhead'
  <2> SUFFICES ASSUME delegate # None, ~InstallAhead, NEW h \in Groups, subscriber'[h] # None
               PROVE  subscriber'[h] \in registered'[delegate]
                      \/ \E k \in Callers : ReplayAhead(k, h)'
    BY <1>1 DEF OnQueueOrAhead, InstallAhead, ProxyInv
  <2>1. CASE h = g
    BY <1>3, <1>4, <2>1 DEF ProxyInv, OnQueueOrAhead
  <2>2. CASE h # g
    <3>1. subscriber[h] \in registered[delegate] \/ \E k \in Callers : ReplayAhead(k, h)
      BY <1>4, <2>2 DEF ProxyInv, OnQueueOrAhead
    <3>2. ASSUME NEW k \in Callers, ReplayAhead(k, h) PROVE ReplayAhead(k, h)'
      BY <1>1, <1>2, <3>2 DEF ReplayAhead
    <3>3. delegate \in Queues
      BY DEF ProxyInv, ProxyTypes
    <3> QED
      BY <1>3, <1>4, <2>2, <3>1, <3>2, <3>3
  <2> QED
    BY <2>1, <2>2
<1> QED
  BY <1>5, <1>6, <1>7 DEF ProxyInv

LEMMA ProxyStep == ProxyInv /\ [Next]_vars => ProxyInv'
<1> SUFFICES ASSUME ProxyInv, [Next]_vars PROVE ProxyInv'
  OBVIOUS
<1>1. ASSUME NEW c \in Consumers, Consume(c) PROVE ProxyInv'
  BY <1>1, ConsumeKeeps
<1>2. ASSUME UNCHANGED <<subscriptions, subscriber, delegate, closed, created, registered, caller>>,
             pending' \subseteq Ops
      PROVE  ProxyInv'
  BY <1>2 DEF ProxyInv, ProxyTypes, KeysSubscribed, OnQueueOrAhead, InstallAhead, ReplayAhead
<1>3. ASSUME NEW o \in Ops, Operate(o) \/ OperationSettles(o) PROVE ProxyInv'
  BY <1>2, <1>3 DEF Operate, OperationSettles, queueVars, ProxyInv, ProxyTypes
<1>4. ASSUME NEW k \in Callers, StopCall(k) PROVE ProxyInv'
  <2>1. /\ AwaitOperations(k, "settling in stop", "draining in stop", delegate)
        /\ delegate \in Queues \cup {None} /\ closed' \in BOOLEAN /\ created' \in 0..MaxQueues
        /\ UNCHANGED <<clientVars, delegate, registered>>
    BY <1>4 DEF StopCall, ProxyInv, ProxyTypes
  <2> QED
    BY <2>1, AwaitEffect DEF BeforeInstall
<1>5. ASSUME NEW k \in Callers, StopSettled(k) PROVE ProxyInv'
  BY <1>5, AwaitedEffect DEF StopSettled, BeforeInstall
<1>6. ASSUME NEW k \in Callers, SwitchSettled(k) PROVE ProxyInv'
  BY <1>6, AwaitedEffect DEF SwitchSettled, BeforeInstall
<1>7. ASSUME NEW k \in Callers, SwitchCall(k) PROVE ProxyInv'
  <2>1. created' = created + 1 /\ created' \in 0..MaxQueues /\ created + 1 \in Queues
    <3>1. created' = created + 1 /\ created < MaxQueues
      BY <1>7 DEF SwitchCall
    <3>2. created \in Nat /\ MaxQueues \in Nat
      BY BoundAssumption DEF ProxyInv, ProxyTypes
    <3> QED
      BY <3>1, <3>2 DEF Queues
  <2>2. CASE delegate = None
    <3>1. InstallQueue(k, created + 1) /\ UNCHANGED clientVars
      BY <1>7, <2>1, <2>2 DEF SwitchCall
    <3> QED
      BY <2>1, <3>1, InstallEffect
  <2>3. CASE delegate # None
    <3>1. /\ AwaitOperations(k, "settling", "draining", created + 1)
          /\ UNCHANGED <<clientVars, delegate, closed, registered>>
      BY <1>7, <2>3 DEF SwitchCall
    <3>2. closed' \in BOOLEAN
      BY <3>1 DEF ProxyInv, ProxyTypes
    <3> QED
      BY <2>1, <3>1, <3>2, AwaitEffect DEF BeforeInstall
  <2> QED
    BY <2>2, <2>3
<1>8. ASSUME NEW k \in Callers, Replace(k) PROVE ProxyInv'
  <2>1. caller[k].queue \in Queues /\ InstallQueue(k, caller[k].queue)
        /\ UNCHANGED clientVars /\ created' \in 0..MaxQueues
    BY <1>8 DEF Replace, ProxyInv, ProxyTypes
  <2> QED
    BY <2>1, InstallEffect
<1>9. ASSUME NEW k \in Callers, ReplayNext(k) PROVE ProxyInv'
  BY <1>9, ReplayNextKeeps
<1>10. CASE UNCHANGED vars
  BY <1>2, <1>10 DEF vars, clientVars, queueVars, ProxyInv, ProxyTypes
<1> QED
  BY <1>1, <1>3, <1>4, <1>5, <1>6, <1>7, <1>8, <1>9, <1>10 DEF Next, Client

LEMMA ProxyInit == Init => ProxyInv
<1> SUFFICES ASSUME Init PROVE ProxyInv
  OBVIOUS
<1>1. caller \in [Callers -> CallerType] /\ \A k \in Callers : caller[k].pc = "idle"
  BY IdleIs DEF Init
<1>2. subscriptions \in Seq(Groups) /\ Len(subscriptions) = 0
  BY DEF Init
<1>3. ProxyTypes
  <2>1. 0 \in 0..MaxQueues /\ subscriber \in [Groups -> Consumers \cup {None}]
        /\ registered \in [Queues -> SUBSET Consumers]
    BY BoundAssumption DEF Init
  <2> QED
    BY <1>1, <1>2, <2>1 DEF Init, ProxyTypes
<1>4. KeysSubscribed
  BY <1>2 DEF Init, KeysSubscribed
<1>5. OnQueueOrAhead
  BY DEF Init, OnQueueOrAhead
<1> QED
  BY <1>3, <1>4, <1>5 DEF ProxyInv

\* A consumer that subscribes at any moment of any switches of the backend, also by
\* several callers at once, is on the queue that is in use when they are done
\* (queue-proxy.ts).
THEOREM SubscriptionsReplayedCorrect == Spec => []SubscriptionsReplayed
<1>1. ProxyInv => SubscriptionsReplayed
  <2> SUFFICES ASSUME ProxyInv, Settled PROVE SubscriptionsReplayed
    BY DEF SubscriptionsReplayed
  <2>1. ~InstallAhead /\ \A k \in Callers, g \in Groups : ~ReplayAhead(k, g)
    BY DEF Settled, InstallAhead, BeforeInstall, ReplayAhead
  <2> QED
    BY <2>1 DEF ProxyInv, OnQueueOrAhead, SubscriptionsReplayed
<1> QED
  BY <1>1, ProxyInit, ProxyStep, PTL DEF Spec

(* StopSettlesOperations, also with callers that overlap. Another caller that
   installs a queue opens the proxy again, but that is not the queue of the first
   caller's stop(). *)

\* Nobody else knows a queue that its caller has not installed yet.
QueuesOwned ==
  /\ delegate \in 1..created \cup {None}
  /\ \A k \in Callers : caller[k].queue \in 1..created \cup {None}
  /\ \A j \in Callers : caller[j].pc \in {"settling", "draining"} =>
       /\ caller[j].queue \in 1..created /\ caller[j].queue # delegate
       /\ \A k \in Callers \ {j} : caller[k].queue # caller[j].queue

\* From the call of stop() on the proxy takes no operation for that delegate: those
\* stop() still waits for are the only ones, and none is left when it drains it.
StopWaitsForAll ==
  \A k \in Callers : caller[k].queue = delegate =>
    /\ caller[k].pc = "settling in stop" => closed /\ pending \subseteq caller[k].waits
    /\ caller[k].pc = "draining in stop" => closed /\ pending = {}

StopInv == QueuesOwned /\ StopWaitsForAll

LEMMA WaitsOf ==
  ASSUME ProxyTypes, NEW k \in Callers, NEW settling, NEW draining, NEW queue,
         AwaitOperations(k, settling, draining, queue)
  PROVE  /\ pending # {} => caller'[k].pc = settling /\ caller'[k].waits = pending
         /\ pending = {} => caller'[k].pc = draining
         /\ caller'[k].queue = queue
         /\ \A j \in Callers \ {k} : caller'[j] = caller[j]
<1>1. /\ [Idle EXCEPT !.pc = settling, !.queue = queue, !.waits = pending].pc = settling
      /\ [Idle EXCEPT !.pc = settling, !.queue = queue, !.waits = pending].waits = pending
      /\ [Idle EXCEPT !.pc = settling, !.queue = queue, !.waits = pending].queue = queue
  BY DEF Idle
<1>2. /\ [Idle EXCEPT !.pc = draining, !.queue = queue].pc = draining
      /\ [Idle EXCEPT !.pc = draining, !.queue = queue].queue = queue
  BY DEF Idle
<1>3. DOMAIN caller = Callers
  BY DEF ProxyTypes
<1>4. CASE pending # {}
  <2>1. caller' = [caller EXCEPT ![k] = [Idle EXCEPT !.pc = settling, !.queue = queue,
                                                     !.waits = pending]]
    BY <1>4 DEF AwaitOperations
  <2> DEFINE new == [Idle EXCEPT !.pc = settling, !.queue = queue, !.waits = pending]
  <2>2. caller'[k] = new /\ \A j \in Callers \ {k} : caller'[j] = caller[j]
    BY <1>3, <2>1
  <2> QED
    BY <1>1, <1>4, <2>2
<1>5. CASE pending = {}
  <2>1. caller' = [caller EXCEPT ![k] = [Idle EXCEPT !.pc = draining, !.queue = queue]]
    BY <1>5 DEF AwaitOperations
  <2> DEFINE new == [Idle EXCEPT !.pc = draining, !.queue = queue]
  <2>2. caller'[k] = new /\ \A j \in Callers \ {k} : caller'[j] = caller[j]
    BY <1>3, <2>1
  <2> QED
    BY <1>2, <1>5, <2>2
<1> QED
  BY <1>4, <1>5

LEMMA ReplaysOf ==
  ASSUME ProxyTypes, NEW k \in Callers, NEW queue, NEW n, Replay(k, queue, n)
  PROVE  /\ caller'[k].pc \in {"idle", "replaying"} /\ caller'[k].queue = None
         /\ \A j \in Callers \ {k} : caller'[j] = caller[j]
<1>1. \E new : caller' = [caller EXCEPT ![k] = new] /\ new.pc \in {"idle", "replaying"}
                /\ new.queue = None
  <2>1. /\ [Idle EXCEPT !.pc = "replaying", !.at = n].pc = "replaying" /\ Idle.pc = "idle"
        /\ [Idle EXCEPT !.pc = "replaying", !.at = n].queue = None /\ Idle.queue = None
    BY DEF Idle
  <2> QED
    BY <2>1, Zenon DEF Replay
<1> QED
  BY <1>1 DEF ProxyTypes

\* A caller that has no queue of its own takes none away.
LEMMA QueuesOwnedKept ==
  ASSUME QueuesOwned, NEW k \in Callers, UNCHANGED <<delegate, created>>,
         caller'[k].queue \in {None, delegate}, caller'[k].pc \notin {"settling", "draining"},
         \A j \in Callers \ {k} : caller'[j] = caller[j]
  PROVE  QueuesOwned'
<1>0. None \notin Nat
  BY BoundAssumption
<1>1. \A j \in Callers : caller'[j].queue \in 1..created \cup {None}
  BY DEF QueuesOwned
<1>2. ASSUME NEW j \in Callers, caller'[j].pc \in {"settling", "draining"}
      PROVE  /\ caller'[j].queue \in 1..created /\ caller'[j].queue # delegate
             /\ \A i \in Callers \ {j} : caller'[i].queue # caller'[j].queue
  <2>1. j # k /\ caller'[j] = caller[j]
    BY <1>2
  <2>2. /\ caller[j].queue \in 1..created /\ caller[j].queue # delegate
        /\ \A i \in Callers \ {j} : caller[i].queue # caller[j].queue
    BY <1>2, <2>1 DEF QueuesOwned
  <2>3. caller[j].queue # None
    BY <1>0, <2>2
  <2>4. ASSUME NEW i \in Callers \ {j} PROVE caller'[i].queue # caller'[j].queue
    BY <2>1, <2>2, <2>3
  <2> QED
    BY <2>1, <2>2, <2>4
<1> QED
  BY <1>1, <1>2 DEF QueuesOwned

LEMMA StopInvStep ==
  ASSUME ProxyInv, StopInv, [Next]_vars
  PROVE  StopInv'
<1> USE DEF ProxyInv, ProxyTypes
<1>n. created \in Nat /\ created + 1 \notin 1..created \cup {None} /\ None \notin Nat
  BY BoundAssumption
<1>1. ASSUME NEW c \in Consumers, Consume(c) PROVE StopInv'
  BY <1>1 DEF Consume, StopInv, QueuesOwned, StopWaitsForAll
<1>2. ASSUME NEW o \in Ops, Operate(o) PROVE StopInv'
  BY <1>2 DEF Operate, queueVars, StopInv, QueuesOwned, StopWaitsForAll
<1>3. ASSUME NEW o \in Ops, OperationSettles(o) PROVE StopInv'
  BY <1>3 DEF OperationSettles, queueVars, StopInv, QueuesOwned, StopWaitsForAll
<1>4. ASSUME NEW k \in Callers, StopCall(k) PROVE StopInv'
  <2>1. /\ closed' /\ UNCHANGED <<pending, delegate, created>>
        /\ AwaitOperations(k, "settling in stop", "draining in stop", delegate)
    BY <1>4 DEF StopCall, clientVars
  <2>2. /\ pending # {} => caller'[k].pc = "settling in stop" /\ caller'[k].waits = pending
        /\ pending = {} => caller'[k].pc = "draining in stop"
        /\ caller'[k].queue = delegate
        /\ \A j \in Callers \ {k} : caller'[j] = caller[j]
    BY <2>1, WaitsOf
  <2>3. QueuesOwned'
    <3>1. caller'[k].pc \notin {"settling", "draining"}
      BY <2>2
    <3> QED
      BY <2>1, <2>2, <3>1, QueuesOwnedKept DEF StopInv
  <2>4. StopWaitsForAll'
    BY <2>1, <2>2 DEF StopInv, StopWaitsForAll
  <2> QED
    BY <2>3, <2>4 DEF StopInv
\* The operations awaited have settled.
<1>5. ASSUME NEW k \in Callers, NEW settling, NEW draining, OperationsAwaited(k, settling, draining),
             <<settling, draining>> \in {<<"settling in stop", "draining in stop">>,
                                        <<"settling", "draining">>}
      PROVE  StopInv'
  <2>1. /\ caller[k].pc = settling /\ caller[k].waits \cap pending = {}
        /\ caller'[k].pc = draining /\ caller'[k].queue = caller[k].queue
        /\ \A j \in Callers \ {k} : caller'[j] = caller[j]
        /\ UNCHANGED <<closed, pending, delegate, created>>
    BY <1>5 DEF OperationsAwaited, clientVars, CallerType
  <2>2. QueuesOwned'
    <3>1. \A j \in Callers : caller'[j].queue = caller[j].queue
      BY <2>1
    <3>2. \A j \in Callers : caller'[j].pc \in {"settling", "draining"}
                              => caller[j].pc \in {"settling", "draining"}
      BY <1>5, <2>1
    <3> QED
      BY <2>1, <3>1, <3>2 DEF StopInv, QueuesOwned
  <2>3. StopWaitsForAll'
    BY <1>5, <2>1 DEF StopInv, StopWaitsForAll
  <2> QED
    BY <2>2, <2>3 DEF StopInv
\* A queue nobody else knows is installed, by a caller that then replays.
<1>6. ASSUME NEW k \in Callers, NEW queue \in 1..created', InstallQueue(k, queue),
             created' \in {created, created + 1}, pending' = pending,
             \A j \in Callers \ {k} : caller[j].queue # queue
      PROVE  StopInv'
  <2>1. /\ caller'[k].pc \in {"idle", "replaying"} /\ caller'[k].queue = None
        /\ \A j \in Callers \ {k} : caller'[j] = caller[j]
        /\ delegate' = queue
    BY <1>6, ReplaysOf DEF InstallQueue
  <2>2. 1..created \subseteq 1..created'
    BY <1>n, <1>6
  <2>3. QueuesOwned'
    <3>1. \A j \in Callers : caller'[j].queue \in 1..created' \cup {None}
      BY <2>1, <2>2 DEF StopInv, QueuesOwned
    <3>2. ASSUME NEW j \in Callers, caller'[j].pc \in {"settling", "draining"}
          PROVE  /\ caller'[j].queue \in 1..created' /\ caller'[j].queue # delegate'
                 /\ \A i \in Callers \ {j} : caller'[i].queue # caller'[j].queue
      <4>1. j # k /\ caller'[j] = caller[j]
        BY <2>1, <3>2
      <4>2. /\ caller[j].queue \in 1..created
            /\ \A i \in Callers \ {j} : caller[i].queue # caller[j].queue
        BY <3>2, <4>1 DEF StopInv, QueuesOwned
      <4>3. ASSUME NEW i \in Callers \ {j} PROVE caller'[i].queue # caller'[j].queue
        BY <1>n, <2>1, <4>1, <4>2
      <4> QED
        BY <1>6, <2>1, <2>2, <4>1, <4>2, <4>3
    <3> QED
      BY <1>6, <2>1, <3>1, <3>2 DEF QueuesOwned
  <2>4. StopWaitsForAll'
    BY <1>6, <2>1 DEF StopWaitsForAll
  <2> QED
    BY <2>3, <2>4 DEF StopInv
<1>7. ASSUME NEW k \in Callers, SwitchCall(k) PROVE StopInv'
  <2>1. created' = created + 1 /\ UNCHANGED pending
    BY <1>7 DEF SwitchCall, clientVars
  <2>2. \A j \in Callers : caller[j].queue # created + 1
    BY <1>n DEF StopInv, QueuesOwned
  <2>3. created + 1 \in 1..created'
    BY <1>n, <2>1
  <2>4. CASE delegate = None
    BY <1>6, <1>7, <2>1, <2>2, <2>3, <2>4 DEF SwitchCall
  <2>5. CASE delegate # None
    <3>1. /\ AwaitOperations(k, "settling", "draining", created + 1)
          /\ UNCHANGED <<delegate, closed>>
      BY <1>7, <2>5 DEF SwitchCall
    <3>2. /\ caller'[k].pc \in {"settling", "draining"} /\ caller'[k].queue = created + 1
          /\ \A j \in Callers \ {k} : caller'[j] = caller[j]
      BY <3>1, WaitsOf
    <3>3. 1..created \subseteq 1..created' /\ delegate # created + 1
      BY <1>n, <2>1 DEF StopInv, QueuesOwned
    <3>4. QueuesOwned'
      <4>1. /\ delegate' \in 1..created' \cup {None}
            /\ \A j \in Callers : caller'[j].queue \in 1..created' \cup {None}
        BY <2>3, <3>1, <3>2, <3>3 DEF StopInv, QueuesOwned
      <4>2. ASSUME NEW j \in Callers, caller'[j].pc \in {"settling", "draining"}
            PROVE  /\ caller'[j].queue \in 1..created' /\ caller'[j].queue # delegate'
                   /\ \A i \in Callers \ {j} : caller'[i].queue # caller'[j].queue
        <5>1. CASE j = k
          BY <2>2, <2>3, <3>1, <3>2, <3>3, <5>1
        <5>2. CASE j # k
          BY <2>2, <3>1, <3>2, <3>3, <4>2, <5>2 DEF StopInv, QueuesOwned
        <5> QED
          BY <5>1, <5>2
      <4> QED
        BY <4>1, <4>2 DEF QueuesOwned
    <3>5. StopWaitsForAll'
      BY <2>1, <3>1, <3>2 DEF StopInv, StopWaitsForAll
    <3> QED
      BY <3>4, <3>5 DEF StopInv
  <2> QED
    BY <2>4, <2>5
<1>8. ASSUME NEW k \in Callers, Replace(k) PROVE StopInv'
  <2>1. /\ caller[k].queue \in 1..created
        /\ \A j \in Callers \ {k} : caller[j].queue # caller[k].queue
    BY <1>8 DEF Replace, StopInv, QueuesOwned
  <2>2. InstallQueue(k, caller[k].queue) /\ UNCHANGED <<created, pending>>
    BY <1>8 DEF Replace, clientVars
  <2> QED
    BY <1>6, <2>1, <2>2
<1>9. ASSUME NEW k \in Callers, ReplayNext(k) PROVE StopInv'
  <2>1. /\ caller'[k].pc \in {"idle", "replaying"} /\ caller'[k].queue = None
        /\ \A j \in Callers \ {k} : caller'[j] = caller[j]
    BY <1>9, ReplaysOf DEF ReplayNext
  <2>2. UNCHANGED <<pending, delegate, closed, created>>
    BY <1>9 DEF ReplayNext, clientVars
  <2>3. QueuesOwned'
    BY <2>1, <2>2, QueuesOwnedKept DEF StopInv
  <2>4. StopWaitsForAll'
    BY <2>1, <2>2 DEF StopInv, StopWaitsForAll
  <2> QED
    BY <2>3, <2>4 DEF StopInv
<1>10. CASE UNCHANGED vars
  BY <1>10 DEF vars, clientVars, queueVars, StopInv, QueuesOwned, StopWaitsForAll
<1>11. ASSUME NEW k \in Callers, StopSettled(k) \/ SwitchSettled(k) PROVE StopInv'
  BY <1>5, <1>11 DEF StopSettled, SwitchSettled
<1> QED
  BY <1>1, <1>2, <1>3, <1>4, <1>7, <1>8, <1>9, <1>10, <1>11 DEF Next, Client

\* While stop() of the proxy drains the delegate no operation given to it is
\* unsettled, and none arrives (queue-proxy.ts, stop), for any consumers, operations
\* and queues and any number of callers that switch and reload at once, until one of
\* them installs another queue.
THEOREM StopSettlesOperationsCorrect == Spec => StopSettlesOperations
<1>1. Init => StopInv
  <2>1. ASSUME Init PROVE delegate = None /\ \A k \in Callers : caller[k] = Idle
    BY <2>1 DEF Init
  <2>2. Idle.pc = "idle" /\ Idle.queue = None
    BY DEF Idle
  <2> QED
    BY <2>1, <2>2 DEF StopInv, QueuesOwned, StopWaitsForAll
<1>2. StopInv' =>
        \A k \in Callers : caller'[k].pc = "draining in stop" /\ caller'[k].queue = delegate' =>
          \A o \in pending' : target'[o] # delegate'
  BY DEF StopInv, StopWaitsForAll
<1>3. ProxyInv /\ StopInv /\ [Next]_vars => StopInv'
  BY StopInvStep
<1> QED
  BY <1>1, <1>2, <1>3, ProxyInit, ProxyStep, PTL DEF Spec, StopSettlesOperations

-----------------------------------------------------------------------------
(* SignalRelay. For any instances, pages and sockets: a page that stays connected
   hears a signal, once. The property speaks of sockets that are open, and needs
   to know how each came to be: what it listens to, and that a page has one socket,
   or one timer, at a time until its effect runs again. *)

Page == [open : BOOLEAN, user : BOOLEAN, ref : {0} \cup Sockets, timers : SUBSET Sockets,
         timer : {0} \cup Sockets, again : BOOLEAN]
Socket == [state : {"unused", "connecting", "upgrading", "open", "closed", "gone"},
           of : SUBSET Pages, at : SUBSET Backends, hears : SUBSET Signals, early : BOOLEAN]

\* The page waits for it, uses it, or has yet to notice its end.
Alive(k) == socket[k].state \in {"connecting", "upgrading", "open", "closed"}

\* It has been open.
Begun(k) == socket[k].state \in {"open", "closed", "gone"}

SocketKept(k) ==
  /\ socket[k].state # "unused" => \E p \in Pages : socket[k].of = {p}
  /\ Alive(k) => \A p \in socket[k].of : page[p].open
  /\ socket[k].state \in {"upgrading", "open"} =>
       \E i \in Backends : socket[k].at = {i} /\ (~socket[k].early => backend[i] = "up")
  /\ socket[k].state = "open" /\ ~socket[k].early =>
       /\ "broadcast" \in socket[k].hears
       /\ (\A p \in socket[k].of : page[p].user) => "private" \in socket[k].hears

\* One at a time.
OneSocket(p) ==
  /\ \A j, k \in Sockets :
       Alive(j) /\ Alive(k) /\ socket[j].of = {p} /\ socket[k].of = {p} => j = k
  /\ page[p].timers # {} => \A k \in Sockets : socket[k].of = {p} => ~Alive(k)
  /\ \A t, u \in page[p].timers : t = u

PageKept(p) ==
  /\ page[p].timers # {} => page[p].open
  /\ ~page[p].again => OneSocket(p)

\* A socket to which a signal is owed has heard it, or its instance is to relay it,
\* and no other socket of its page has heard it.
SignalKept(s) ==
  /\ s \notin emitted => heardBy[s] = {} /\ owed[s] = {} /\ \A i \in Backends : s \notin inbox[i]
  /\ \A k \in heardBy[s] \cup owed[s] : Begun(k)
  /\ \A k \in owed[s] : socket[k].state = "open" =>
       /\ s \in socket[k].hears
       /\ \A i \in socket[k].at : s \in inbox[i] \/ k \in heardBy[s]
       /\ \A p \in socket[k].of : ~page[p].again =>
            \A j \in heardBy[s] : socket[j].of = {p} => j = k

RelayInv ==
  /\ RelayTypeOK
  /\ \A k \in Sockets : SocketKept(k)
  /\ \A p \in Pages : PageKept(p)
  /\ \A s \in Signals : SignalKept(s)

LEMMA RelayTypes ==
  RelayTypeOK <=>
    /\ backend \in [Backends -> {"down", "starting", "up"}] /\ hasServer \subseteq Backends
    /\ hooked \in [Backends -> SUBSET Signals] /\ inbox \in [Backends -> SUBSET Signals]
    /\ page \in [Pages -> Page] /\ socket \in [Sockets -> Socket]
    /\ emitted \subseteq Signals /\ heardBy \in [Signals -> SUBSET Sockets]
    /\ owed \in [Signals -> SUBSET Sockets]
  BY DEF RelayTypeOK, Page, Socket

\* What is over.
LEMMA OverSocket ==
  ASSUME RelayTypeOK, NEW k \in Sockets, NEW state \in {"closed", "gone"}
  PROVE  /\ Over(k, state) \in Socket
         /\ Over(k, state).state = state /\ Over(k, state).of = socket[k].of
<1>1. socket[k] \in Socket
  BY RelayTypes
<1>2. socket[k].of \subseteq Pages
  BY <1>1 DEF Socket
<1>3. NoSocket \in Socket
  BY DEF NoSocket, Socket
<1> QED
  BY <1>2, <1>3 DEF Over, Socket

\* A socket as it was, of a page still there, or over.
LEMMA SocketStays ==
  ASSUME RelayInv, NEW k \in Sockets, socket'[k] = socket[k],
         Alive(k) => \A p \in socket[k].of :
                       page[p].open => page'[p].open /\ page'[p].user = page[p].user,
         socket[k].state \in {"upgrading", "open"} =>
           \A i \in socket[k].at : backend[i] = "up" => backend'[i] = "up"
  PROVE  SocketKept(k)'
<1>1. SocketKept(k)
  BY DEF RelayInv
<1>2. Alive(k)' <=> Alive(k)
  BY DEF Alive
<1>3. socket[k].state = "open" => Alive(k)
  BY DEF Alive
<1>4. Alive(k) => \A p \in socket[k].of : page'[p].open /\ page'[p].user = page[p].user
  BY <1>1 DEF SocketKept
<1>5. socket[k].state \in {"upgrading", "open"} =>
        \E i \in Backends : socket[k].at = {i} /\ (~socket[k].early => backend'[i] = "up")
  BY <1>1 DEF SocketKept
<1> QED
  BY <1>1, <1>2, <1>3, <1>4, <1>5 DEF SocketKept

LEMMA SocketEnds ==
  ASSUME RelayInv, NEW k \in Sockets, \E p \in Pages : socket[k].of = {p},
         socket'[k] = Over(k, "gone") \/
           (socket'[k] = Over(k, "closed") /\ \A p \in socket[k].of : page'[p].open)
  PROVE  SocketKept(k)'
<1>1. SocketKept(k) /\ RelayTypeOK
  BY DEF RelayInv
<1>2. socket'[k].of = socket[k].of
  BY <1>1, OverSocket
<1>3. socket'[k].state \in {"gone", "closed"}
  BY <1>1, OverSocket
<1>4. socket'[k].state = "closed" => \A p \in socket[k].of : page'[p].open
  <2>1. Over(k, "gone").state = "gone"
    BY <1>1, OverSocket
  <2> QED
    BY <2>1
<1> QED
  BY <1>1, <1>2, <1>3, <1>4 DEF SocketKept, Alive

\* A page that gets no new socket or timer.
LEMMA PageStays ==
  ASSUME RelayInv, NEW p \in Pages,
         page'[p].timers # {} => page'[p].open,
         page'[p].again \/ (~page[p].again /\ page'[p].timers \subseteq page[p].timers),
         \A k \in Sockets : Alive(k)' /\ socket'[k].of = {p} => Alive(k) /\ socket[k].of = {p}
  PROVE  PageKept(p)'
<1>1. CASE page'[p].again
  BY <1>1 DEF PageKept
<1>2. CASE ~page'[p].again
  <2>1. OneSocket(p)
    BY <1>2 DEF RelayInv, PageKept
  <2>2. OneSocket(p)'
    BY <2>1, <1>2 DEF OneSocket
  <2> QED
    BY <2>2 DEF PageKept
<1> QED
  BY <1>1, <1>2

\* The signals when nothing is emitted or relayed.
LEMMA SignalsStay ==
  ASSUME RelayInv, UNCHANGED <<emitted, heardBy, owed>>,
         \A i \in Backends : inbox'[i] \subseteq inbox[i],
         \A k \in Sockets : Begun(k) =>
           /\ Begun(k)' /\ socket'[k].of = socket[k].of
           /\ socket'[k].state = "open" =>
                /\ socket'[k] = socket[k]
                /\ \A i \in socket[k].at : inbox'[i] = inbox[i]
                /\ \A p \in socket[k].of : ~page'[p].again => ~page[p].again
  PROVE  \A s \in Signals : SignalKept(s)'
<1> SUFFICES ASSUME NEW s \in Signals PROVE SignalKept(s)'
  OBVIOUS
<1>1. SignalKept(s) /\ heardBy[s] \subseteq Sockets /\ owed[s] \subseteq Sockets
  BY RelayTypes DEF RelayInv
<1>2. (s \notin emitted => heardBy[s] = {} /\ owed[s] = {} /\ \A i \in Backends : s \notin inbox[i])'
  BY <1>1 DEF SignalKept
<1>3. \A k \in heardBy'[s] \cup owed'[s] : Begun(k) /\ Begun(k)' /\ k \in Sockets
  BY <1>1 DEF SignalKept
<1>4. ASSUME NEW k \in owed'[s], socket'[k].state = "open"
      PROVE  /\ s \in socket'[k].hears
             /\ \A i \in socket'[k].at : s \in inbox'[i] \/ k \in heardBy'[s]
             /\ \A p \in socket'[k].of : ~page'[p].again =>
                  \A j \in heardBy'[s] : socket'[j].of = {p} => j = k
  <2>1. k \in owed[s] /\ Begun(k) /\ socket'[k] = socket[k] /\ k \in Sockets
    BY <1>3, <1>4
  <2>2. /\ s \in socket[k].hears
        /\ \A i \in socket[k].at : s \in inbox[i] \/ k \in heardBy[s]
        /\ \A p \in socket[k].of : ~page[p].again =>
             \A j \in heardBy[s] : socket[j].of = {p} => j = k
    BY <2>1, <1>1, <1>4 DEF SignalKept
  <2>3. \A j \in heardBy'[s] : socket'[j].of = socket[j].of
    BY <1>3
  <2>4. \A i \in socket[k].at : inbox'[i] = inbox[i]
    BY <2>1, <1>4
  <2>5. \A p \in socket[k].of : ~page'[p].again => ~page[p].again
    BY <2>1, <1>4
  <2> QED
    BY <2>1, <2>2, <2>3, <2>4, <2>5
<1> QED
  BY <1>2, <1>3, <1>4 DEF SignalKept

-----------------------------------------------------------------------------
LEMMA InstancesKeep ==
  ASSUME RelayInv, NEW i \in Backends,
         StartBackend(i) \/ Request(i) \/ SubscribeHook(i)
  PROVE  RelayInv'
<1>1. UNCHANGED <<inbox, page, socket, emitted, heardBy, owed>>
  BY DEF StartBackend, Request, SubscribeHook
<1>2. /\ backend' \in [Backends -> {"down", "starting", "up"}]
      /\ \A j \in Backends : backend[j] = "up" => backend'[j] = "up"
  BY RelayTypes DEF RelayInv, StartBackend, Request, SubscribeHook
<1>3. hasServer' \subseteq Backends
  BY RelayTypes DEF RelayInv, StartBackend, Request, SubscribeHook, ServerGiven
<1>4. hooked' \in [Backends -> SUBSET Signals]
  BY RelayTypes DEF RelayInv, StartBackend, Request, SubscribeHook, Signals
<1>5. RelayTypeOK'
  BY <1>1, <1>2, <1>3, <1>4 DEF RelayInv, RelayTypeOK
<1>6. \A k \in Sockets : SocketKept(k)'
  <2> SUFFICES ASSUME NEW k \in Sockets PROVE SocketKept(k)'
    OBVIOUS
  <2>1. socket[k].at \subseteq Backends
    BY RelayTypes DEF RelayInv, Socket
  <2> QED
    BY <1>1, <1>2, <2>1, SocketStays
<1>7. \A p \in Pages : PageKept(p)'
  BY <1>1 DEF RelayInv, PageKept, OneSocket, Alive
<1>8. \A s \in Signals : SignalKept(s)'
  BY <1>1 DEF RelayInv, SignalKept, Begun
<1> QED
  BY <1>5, <1>6, <1>7, <1>8 DEF RelayInv

LEMMA CrashKeeps ==
  ASSUME RelayInv, NEW i \in Backends, CrashBackend(i)
  PROVE  RelayInv'
<1> DEFINE cut(k) == socket[k].state \in {"upgrading", "open"} /\ socket[k].at = {i}
<1>0. RelayTypeOK
  BY DEF RelayInv
<1>1. UNCHANGED <<page, emitted, heardBy, owed>>
  BY DEF CrashBackend
<1>2. \A k \in Sockets : socket'[k] = IF cut(k) THEN Over(k, "closed") ELSE socket[k]
  BY DEF CrashBackend
<1>3. socket' \in [Sockets -> Socket]
  <2>1. \A k \in Sockets : socket'[k] \in Socket
    BY <1>0, <1>2, OverSocket, RelayTypes
  <2>2. socket' = [k \in Sockets |-> socket'[k]]
    BY DEF CrashBackend
  <2> QED
    BY <2>1, <2>2
<1>4. /\ backend' = [backend EXCEPT ![i] = "down"]
      /\ hasServer' = hasServer \ {i}
      /\ hooked' = [hooked EXCEPT ![i] = {}] /\ inbox' = [inbox EXCEPT ![i] = {}]
  BY DEF CrashBackend
<1>5. RelayTypeOK'
  <2>1. backend' \in [Backends -> {"down", "starting", "up"}] /\ hasServer' \subseteq Backends
    BY <1>0, <1>4, RelayTypes
  <2>2. hooked' \in [Backends -> SUBSET Signals] /\ inbox' \in [Backends -> SUBSET Signals]
    BY <1>0, <1>4, RelayTypes
  <2> QED
    BY <1>0, <1>1, <1>3, <2>1, <2>2 DEF RelayTypeOK, Socket
<1>6. \A j \in Backends \ {i} : backend'[j] = backend[j] /\ inbox'[j] = inbox[j]
  BY <1>0, <1>4, RelayTypes
<1>i. inbox'[i] = {}
  BY <1>0, <1>4, RelayTypes
<1>7. \A k \in Sockets : SocketKept(k)'
  <2> SUFFICES ASSUME NEW k \in Sockets PROVE SocketKept(k)'
    OBVIOUS
  <2>1. CASE cut(k)
    <3>1. socket'[k] = Over(k, "closed") /\ \E p \in Pages : socket[k].of = {p}
      BY <1>2, <2>1 DEF RelayInv, SocketKept
    <3>2. \A p \in socket[k].of : page'[p].open
      BY <2>1, <1>1 DEF RelayInv, SocketKept, Alive
    <3> QED
      BY <3>1, <3>2, SocketEnds
  <2>2. CASE ~cut(k)
    <3>1. socket'[k] = socket[k]
      BY <1>2, <2>2
    <3>2. socket[k].state \in {"upgrading", "open"} =>
            \A j \in socket[k].at : backend[j] = "up" => backend'[j] = "up"
      BY <2>2, <1>6 DEF RelayInv, SocketKept
    <3> QED
      BY <3>1, <3>2, <1>1, SocketStays
  <2> QED
    BY <2>1, <2>2
<1>8. \A k \in Sockets : /\ Alive(k)' => Alive(k)
                         /\ socket'[k].of = socket[k].of
                         /\ Begun(k) => Begun(k)'
  <2> SUFFICES ASSUME NEW k \in Sockets
               PROVE  /\ Alive(k)' => Alive(k)
                      /\ socket'[k].of = socket[k].of
                      /\ Begun(k) => Begun(k)'
    OBVIOUS
  <2>1. CASE cut(k)
    <3>1. socket'[k].state = "closed" /\ socket'[k].of = socket[k].of
      BY <1>0, <1>2, <2>1, OverSocket
    <3> QED
      BY <2>1, <3>1 DEF Alive, Begun
  <2>2. CASE ~cut(k)
    BY <1>2, <2>2 DEF Alive, Begun
  <2> QED
    BY <2>1, <2>2
<1>9. ASSUME NEW p \in Pages PROVE PageKept(p)'
  <2>1. page'[p].again \/ (~page[p].again /\ page'[p].timers \subseteq page[p].timers)
    BY <1>1
  <2>2. page'[p].timers # {} => page'[p].open
    BY <1>1 DEF RelayInv, PageKept
  <2> QED
    BY <1>8, <2>1, <2>2, PageStays
<1>10. \A s \in Signals : SignalKept(s)'
  <2>1. ASSUME NEW k \in Sockets, Begun(k), socket'[k].state = "open"
        PROVE  socket'[k] = socket[k] /\ \A j \in socket[k].at : inbox'[j] = inbox[j]
    <3>1. ~cut(k)
      BY <1>0, <1>2, <2>1, OverSocket
    <3>2. socket'[k] = socket[k] /\ socket[k].state = "open"
      BY <1>2, <2>1, <3>1
    <3>3. PICK j \in Backends : socket[k].at = {j}
      BY <3>2 DEF RelayInv, SocketKept
    <3>4. j # i
      BY <3>1, <3>2, <3>3
    <3> QED
      BY <3>2, <3>3, <3>4, <1>6
  <2>2. \A j \in Backends : inbox'[j] \subseteq inbox[j]
    BY <1>6, <1>i
  <2> HIDE DEF cut
  <2>3. \A k \in Sockets : Begun(k) =>
           /\ Begun(k)' /\ socket'[k].of = socket[k].of
           /\ socket'[k].state = "open" =>
                /\ socket'[k] = socket[k]
                /\ \A j \in socket[k].at : inbox'[j] = inbox[j]
                /\ \A p \in socket[k].of : ~page'[p].again => ~page[p].again
    BY <1>1, <1>8, <2>1
  <2> QED
    BY <1>1, <2>2, <2>3, SignalsStay
<1> QED
  BY <1>5, <1>7, <1>9, <1>10 DEF RelayInv

LEMMA EmitKeeps ==
  ASSUME RelayInv, NEW s \in Signals, EmitSignal(s)
  PROVE  RelayInv'
<1>0. RelayTypeOK
  BY DEF RelayInv
<1>1. /\ UNCHANGED <<backend, hasServer, hooked, page, socket, heardBy>>
      /\ s \notin emitted /\ emitted' = emitted \cup {s}
  BY DEF EmitSignal, backendVars
<1>2. /\ inbox' \in [Backends -> SUBSET Signals]
      /\ \A i \in Backends : inbox'[i] = IF s \in hooked[i] THEN inbox[i] \cup {s} ELSE inbox[i]
  BY <1>0, RelayTypes DEF EmitSignal
<1> DEFINE due == {k \in Sockets : /\ socket[k].state = "open" /\ ~socket[k].early
                                   /\ \A i \in socket[k].at : s \in hooked[i]
                                   /\ s = "private" => \A p \in socket[k].of : page[p].user}
<1>3. owed' = [owed EXCEPT ![s] = due]
  BY DEF EmitSignal
<1>4. owed' \in [Signals -> SUBSET Sockets] /\ owed'[s] = due
      /\ \A r \in Signals \ {s} : owed'[r] = owed[r]
  <2>1. due \in SUBSET Sockets
    OBVIOUS
  <2> HIDE DEF due
  <2> QED
    BY <1>0, <1>3, <2>1, RelayTypes
<1>5. RelayTypeOK'
  BY <1>0, <1>1, <1>2, <1>4 DEF RelayTypeOK
<1>6. \A k \in Sockets : SocketKept(k)'
  BY <1>1 DEF RelayInv, SocketKept, Alive
<1>7. \A p \in Pages : PageKept(p)'
  BY <1>1 DEF RelayInv, PageKept, OneSocket, Alive
<1>8. ASSUME NEW r \in Signals \ {s} PROVE SignalKept(r)'
  <2>1. \A i \in Backends : r \in inbox'[i] <=> r \in inbox[i]
    BY <1>2
  <2>2. SignalKept(r) /\ owed'[r] = owed[r] /\ (r \in emitted' <=> r \in emitted)
    BY <1>1, <1>4 DEF RelayInv
  <2>3. \A k \in owed[r] : socket[k].at \subseteq Backends
    BY <1>0, RelayTypes DEF Socket
  <2> QED
    BY <1>1, <2>1, <2>2, <2>3 DEF SignalKept, Begun
<1>9. SignalKept(s)'
  <2>1. heardBy'[s] = {} /\ s \in emitted'
    BY <1>1 DEF RelayInv, SignalKept
  <2>2. ASSUME NEW k \in due
        PROVE  /\ Begun(k)' /\ s \in socket'[k].hears
               /\ \A i \in socket'[k].at : s \in inbox'[i]
    <3>1. SocketKept(k) /\ k \in Sockets
      BY DEF RelayInv
    <3>2. s \in socket[k].hears
      <4>1. s = "broadcast" \/ s = "private"
        BY DEF Signals
      <4> QED
        BY <4>1, <3>1, <2>2 DEF SocketKept
    <3>3. socket[k].at \subseteq Backends
      BY <1>0, <3>1, RelayTypes DEF Socket
    <3>4. \A i \in socket[k].at : s \in inbox'[i]
      BY <1>2, <3>3
    <3> QED
      BY <1>1, <3>2, <3>4 DEF Begun
  <2> HIDE DEF due
  <2> QED
    BY <1>4, <2>1, <2>2 DEF SignalKept
<1> QED
  BY <1>5, <1>6, <1>7, <1>8, <1>9 DEF RelayInv

\* Who is owed a signal hears it when its instance relays it, and hears it with no
\* other socket of its page.
LEMMA PublishKeeps ==
  ASSUME RelayInv, NEW i \in Backends, NEW s \in Signals, Publish(i, s)
  PROVE  RelayInv'
<1>0. RelayTypeOK
  BY DEF RelayInv
<1> DEFINE hearing == {k \in Sockets : /\ socket[k].state = "open" /\ socket[k].at = {i}
                                       /\ s \in socket[k].hears}
<1>1. /\ UNCHANGED <<backend, hasServer, hooked, page, socket, emitted, owed>>
      /\ s \in inbox[i] /\ inbox' = [inbox EXCEPT ![i] = @ \ {s}]
      /\ heardBy' = [heardBy EXCEPT ![s] = @ \cup hearing]
  BY DEF Publish, backendVars
<1>2. /\ inbox' \in [Backends -> SUBSET Signals] /\ inbox'[i] = inbox[i] \ {s}
      /\ \A j \in Backends \ {i} : inbox'[j] = inbox[j]
  BY <1>0, <1>1, RelayTypes
<1>3. /\ heardBy' \in [Signals -> SUBSET Sockets] /\ heardBy'[s] = heardBy[s] \cup hearing
      /\ \A r \in Signals \ {s} : heardBy'[r] = heardBy[r]
  <2>1. hearing \in SUBSET Sockets
    OBVIOUS
  <2> HIDE DEF hearing
  <2> QED
    BY <1>0, <1>1, <2>1, RelayTypes
<1>4. RelayTypeOK'
  BY <1>0, <1>1, <1>2, <1>3 DEF RelayTypeOK
<1>5. \A k \in Sockets : SocketKept(k)'
  BY <1>1 DEF RelayInv, SocketKept, Alive
<1>6. \A p \in Pages : PageKept(p)'
  BY <1>1 DEF RelayInv, PageKept, OneSocket, Alive
<1>7. ASSUME NEW r \in Signals \ {s} PROVE SignalKept(r)'
  <2>1. \A j \in Backends : r \in inbox'[j] <=> r \in inbox[j]
    BY <1>2
  <2>2. SignalKept(r) /\ heardBy'[r] = heardBy[r]
    BY <1>3 DEF RelayInv
  <2>3. \A k \in owed[r] : socket[k].at \subseteq Backends
    BY <1>0, RelayTypes DEF Socket
  <2> QED
    BY <1>1, <2>1, <2>2, <2>3 DEF SignalKept, Begun
<1>8. SignalKept(s)'
  <2>1. SignalKept(s) /\ s \in emitted
    BY <1>1 DEF RelayInv, SignalKept
  <2>2. \A k \in heardBy'[s] \cup owed'[s] : Begun(k)'
    BY <1>1, <1>3, <2>1 DEF SignalKept, Begun
  <2>3. ASSUME NEW k \in owed[s], socket[k].state = "open"
        PROVE  /\ s \in socket[k].hears
               /\ \A j \in socket[k].at : s \in inbox'[j] \/ k \in heardBy'[s]
               /\ \A p \in socket[k].of : ~page[p].again =>
                    \A j \in heardBy'[s] : socket[j].of = {p} => j = k
    <3>1. /\ s \in socket[k].hears
          /\ \A j \in socket[k].at : s \in inbox[j] \/ k \in heardBy[s]
          /\ \A p \in socket[k].of : ~page[p].again =>
               \A j \in heardBy[s] : socket[j].of = {p} => j = k
      BY <2>1, <2>3 DEF SignalKept
    <3>2. k \in Sockets /\ SocketKept(k)
      BY <1>0, RelayTypes DEF RelayInv
    <3>3. PICK h \in Backends : socket[k].at = {h}
      BY <3>2, <2>3 DEF SocketKept
    <3>4. PICK p \in Pages : socket[k].of = {p}
      BY <3>2, <2>3 DEF SocketKept
    <3>5. \A j \in socket[k].at : s \in inbox'[j] \/ k \in heardBy'[s]
      <4>1. CASE h = i
        BY <4>1, <3>1, <3>2, <3>3, <2>3, <1>3
      <4>2. CASE h # i
        BY <4>2, <3>1, <3>3, <1>2, <1>3
      <4> QED
        BY <4>1, <4>2
    <3>6. ASSUME ~page[p].again, NEW j \in hearing, socket[j].of = {p} PROVE j = k
      <4>1. OneSocket(p) /\ j \in Sockets
        BY <3>6 DEF RelayInv, PageKept
      <4>2. Alive(j) /\ Alive(k)
        BY <2>3 DEF Alive
      <4> QED
        BY <4>1, <4>2, <3>2, <3>4, <3>6 DEF OneSocket
    <3> HIDE DEF hearing
    <3> QED
      BY <3>1, <3>4, <3>5, <3>6, <1>3
  <2> QED
    BY <1>1, <2>1, <2>2, <2>3 DEF SignalKept
<1> QED
  BY <1>4, <1>5, <1>6, <1>7, <1>8 DEF RelayInv

-----------------------------------------------------------------------------
\* A socket that goes on, from being made to being open or from open to being over.
LEMMA SocketMoves ==
  ASSUME RelayInv, NEW k \in Sockets, NEW x \in Socket,
         socket' = [socket EXCEPT ![k] = x], x.of = socket[k].of,
         x.state \in {"upgrading", "open", "closed", "gone"}, Alive(k),
         Begun(k) => x.state \in {"closed", "gone"},
         UNCHANGED <<inbox, emitted, heardBy, owed>>
  PROVE  /\ \A j \in Sockets : j # k => socket'[j] = socket[j]
         /\ socket'[k] = x
         /\ socket' \in [Sockets -> Socket]
         /\ \A j \in Sockets : Alive(j)' => Alive(j) /\ socket'[j].of = socket[j].of
         /\ (\A p \in Pages : ~page'[p].again => ~page[p].again) =>
              \A s \in Signals : SignalKept(s)'
<1>0. RelayTypeOK /\ socket \in [Sockets -> Socket]
  BY RelayTypes DEF RelayInv
<1>1. (\A j \in Sockets : j # k => socket'[j] = socket[j]) /\ socket'[k] = x
      /\ socket' \in [Sockets -> Socket]
  BY <1>0
<1>2. \A j \in Sockets : Alive(j)' => Alive(j) /\ socket'[j].of = socket[j].of
  BY <1>1 DEF Alive
<1>3. ASSUME \A p \in Pages : ~page'[p].again => ~page[p].again
      PROVE  \A s \in Signals : SignalKept(s)'
  <2>1. ASSUME NEW j \in Sockets, Begun(j)
        PROVE  /\ Begun(j)' /\ socket'[j].of = socket[j].of
               /\ socket'[j].state = "open" =>
                    /\ socket'[j] = socket[j]
                    /\ \A i \in socket[j].at : inbox'[i] = inbox[i]
                    /\ \A p \in socket[j].of : ~page'[p].again => ~page[p].again
    <3>1. socket[j].of \subseteq Pages
      BY <1>0 DEF Socket
    <3>2. CASE j = k
      BY <3>2, <1>1, <2>1 DEF Begun
    <3>3. CASE j # k
      BY <3>1, <3>3, <1>1, <1>3, <2>1 DEF Begun
    <3> QED
      BY <3>2, <3>3
  <2> QED
    BY <2>1, SignalsStay
<1> QED
  BY <1>1, <1>2, <1>3

LEMMA UpgradesKeep ==
  ASSUME RelayInv, NEW k \in Sockets,
         (\E i \in Backends : BeginUpgrade(k, i)) \/ Upgrade(k) \/ LoseSocket(k)
  PROVE  RelayInv'
<1>0. RelayTypeOK /\ SocketKept(k) /\ socket[k] \in Socket /\ socket \in [Sockets -> Socket]
  BY RelayTypes DEF RelayInv
<1>1. UNCHANGED <<backend, hooked, inbox, page, emitted, heardBy, owed>>
  BY DEF BeginUpgrade, Upgrade, LoseSocket, backendVars
<1>2. hasServer' \subseteq Backends
  <2>1. hasServer \subseteq Backends
    BY <1>0, RelayTypes
  <2> QED
    BY <2>1 DEF BeginUpgrade, Upgrade, LoseSocket, ServerGiven, backendVars
<1>3. ASSUME NEW x \in Socket, socket' = [socket EXCEPT ![k] = x], x.of = socket[k].of,
             x.state \in {"upgrading", "open", "closed"}, Alive(k),
             Begun(k) => x.state \in {"closed", "gone"}, SocketKept(k)'
      PROVE  RelayInv'
  <2>1. /\ \A j \in Sockets : j # k => socket'[j] = socket[j]
        /\ socket' \in [Sockets -> Socket]
        /\ \A j \in Sockets : Alive(j)' => Alive(j) /\ socket'[j].of = socket[j].of
        /\ \A s \in Signals : SignalKept(s)'
    BY <1>1, <1>3, SocketMoves
  <2>2. RelayTypeOK'
    BY <1>0, <1>1, <1>2, <2>1 DEF RelayTypeOK, Socket
  <2>3. ASSUME NEW j \in Sockets PROVE SocketKept(j)'
    <3>1. CASE j = k
      BY <3>1, <1>3
    <3>2. CASE j # k
      BY <3>2, <2>1, <1>1, SocketStays
    <3> QED
      BY <3>1, <3>2
  <2>4. ASSUME NEW p \in Pages PROVE PageKept(p)'
    <3>1. page'[p].again \/ (~page[p].again /\ page'[p].timers \subseteq page[p].timers)
      BY <1>1
    <3>2. page'[p].timers # {} => page'[p].open
      BY <1>1 DEF RelayInv, PageKept
    <3> QED
      BY <2>1, <3>1, <3>2, PageStays
  <2> QED
    BY <2>1, <2>2, <2>3, <2>4 DEF RelayInv
<1>4. ASSUME NEW i \in Backends, BeginUpgrade(k, i) PROVE RelayInv'
  <2> DEFINE x == [socket[k] EXCEPT !.state = "upgrading", !.at = {i}, !.early = backend[i] # "up"]
  <2>1. socket[k].state = "connecting" /\ socket' = [socket EXCEPT ![k] = x]
    BY <1>0, <1>4 DEF BeginUpgrade
  <2>2. /\ x \in Socket /\ x.state = "upgrading" /\ x.at = {i} /\ x.of = socket[k].of
        /\ x.early = (backend[i] # "up")
    BY <1>0 DEF Socket
  <2> HIDE DEF x
  <2>3. socket'[k] = x
    BY <1>0, <2>1
  <2>4. SocketKept(k)'
    BY <1>0, <1>1, <2>1, <2>2, <2>3 DEF SocketKept, Alive
  <2> QED
    BY <1>3, <2>1, <2>2, <2>4 DEF Alive, Begun
<1>5. CASE Upgrade(k)
  <2>1. PICK user \in Authenticated(k) :
          socket' = Opened(k, IF user THEN Signals ELSE {"broadcast"})
    BY <1>5 DEF Upgrade
  <2> DEFINE handler == \A i \in socket[k].at : backend[i] = "up"
             listens == IF handler THEN IF user THEN Signals ELSE {"broadcast"} ELSE {}
             x == [socket[k] EXCEPT !.state = "open", !.hears = listens]
  <2>2. socket[k].state = "upgrading" /\ socket' = [socket EXCEPT ![k] = x]
    BY <1>0, <1>5, <2>1 DEF Upgrade, Opened
  <2>3. listens \subseteq Signals
    BY DEF Signals
  <2>4. /\ ~socket[k].early => "broadcast" \in listens
        /\ ~socket[k].early /\ (\A p \in socket[k].of : page[p].user) => "private" \in listens
    <3>1. ~socket[k].early => handler
      BY <1>0, <2>2 DEF SocketKept
    <3>2. ~user => socket[k].early \/ \E p \in socket[k].of : ~page[p].user
      BY <2>1 DEF Authenticated
    <3> QED
      BY <3>1, <3>2 DEF Signals
  <2> HIDE DEF listens
  <2>5. /\ x \in Socket /\ x.state = "open" /\ x.at = socket[k].at /\ x.of = socket[k].of
        /\ x.early = socket[k].early /\ x.hears = listens
    BY <1>0, <2>3 DEF Socket
  <2> HIDE DEF x
  <2>6. socket'[k] = x
    BY <1>0, <2>2
  <2>7. SocketKept(k)'
    BY <1>0, <1>1, <2>2, <2>4, <2>5, <2>6 DEF SocketKept, Alive
  <2> QED
    BY <1>3, <2>2, <2>5, <2>7 DEF Alive, Begun
<1>6. CASE LoseSocket(k)
  <2>1. Alive(k) /\ socket' = [socket EXCEPT ![k] = Over(k, "closed")]
    BY <1>6 DEF LoseSocket, Alive
  <2>2. /\ Over(k, "closed") \in Socket /\ Over(k, "closed").state = "closed"
        /\ Over(k, "closed").of = socket[k].of
    BY <1>0, OverSocket
  <2>3. socket'[k] = Over(k, "closed")
    BY <1>0, <2>1
  <2>4. (\E p \in Pages : socket[k].of = {p}) /\ \A p \in socket[k].of : page'[p].open
    BY <1>0, <1>1, <2>1 DEF SocketKept, Alive
  <2>5. SocketKept(k)'
    BY <2>3, <2>4, SocketEnds
  <2> QED
    BY <1>3, <2>1, <2>2, <2>5
<1> QED
  BY <1>4, <1>5, <1>6

\* A page sets a timer for a socket it had, so that it has none left.
LEMMA CloseEventKeeps ==
  ASSUME RelayInv, NEW k \in Sockets, CloseEvent(k)
  PROVE  RelayInv'
<1>0. RelayTypeOK /\ SocketKept(k) /\ socket \in [Sockets -> Socket] /\ page \in [Pages -> Page]
  BY RelayTypes DEF RelayInv
<1>1. /\ UNCHANGED <<backend, hasServer, hooked, inbox, emitted, heardBy, owed>>
      /\ socket[k].state = "closed" /\ socket' = [socket EXCEPT ![k] = Over(k, "gone")]
  BY DEF CloseEvent, backendVars
<1>2. PICK p \in Pages : socket[k].of = {p}
  BY <1>0, <1>1 DEF SocketKept
<1> DEFINE x == [page[p] EXCEPT !.timers = @ \cup {k}, !.timer = k]
<1>3. page' = [page EXCEPT ![p] = x]
  BY <1>0, <1>2 DEF CloseEvent
<1>4. /\ x \in Page /\ x.open = page[p].open /\ x.user = page[p].user /\ x.again = page[p].again
      /\ x.timers = page[p].timers \cup {k}
  BY <1>0 DEF Page
<1> HIDE DEF x
<1>5. page'[p] = x /\ page' \in [Pages -> Page] /\ \A q \in Pages : q # p => page'[q] = page[q]
  BY <1>0, <1>3, <1>4
<1>6. /\ Over(k, "gone") \in Socket /\ Over(k, "gone").state = "gone"
      /\ Over(k, "gone").of = socket[k].of
  BY <1>0, OverSocket
<1>7. Alive(k) /\ page[p].open
  BY <1>0, <1>1, <1>2 DEF Alive, SocketKept
<1>8. /\ \A j \in Sockets : j # k => socket'[j] = socket[j]
      /\ socket'[k] = Over(k, "gone")
      /\ socket' \in [Sockets -> Socket]
      /\ \A j \in Sockets : Alive(j)' => Alive(j) /\ socket'[j].of = socket[j].of
      /\ \A s \in Signals : SignalKept(s)'
  <2>1. \A q \in Pages : ~page'[q].again => ~page[q].again
    BY <1>4, <1>5
  <2> QED
    BY <1>1, <1>6, <1>7, <2>1, SocketMoves
<1>9. RelayTypeOK'
  BY <1>0, <1>1, <1>5, <1>8 DEF RelayTypeOK, Socket, Page
<1>10. ASSUME NEW j \in Sockets PROVE SocketKept(j)'
  <2>1. CASE j = k
    BY <2>1, <1>2, <1>8, SocketEnds
  <2>2. CASE j # k
    <3>1. \A q \in socket[j].of : page'[q].open = page[q].open /\ page'[q].user = page[q].user
      <4>1. socket[j].of \subseteq Pages
        BY <1>0 DEF Socket
      <4> QED
        BY <4>1, <1>4, <1>5
    <3> QED
      BY <2>2, <3>1, <1>1, <1>8, SocketStays
  <2> QED
    BY <2>1, <2>2
<1>11. ASSUME NEW q \in Pages PROVE PageKept(q)'
  <2>1. CASE q # p
    <3>1. page'[q] = page[q]
      BY <2>1, <1>5
    <3>2. page[q].timers # {} => page[q].open
      BY DEF RelayInv, PageKept
    <3> QED
      BY <3>1, <3>2, <1>8, PageStays
  <2>2. CASE q = p
    <3>1. ASSUME ~page[p].again
          PROVE  OneSocket(p)'
      <4>1. OneSocket(p)
        BY <3>1 DEF RelayInv, PageKept
      <4>2. page[p].timers = {}
        BY <4>1, <1>2, <1>7 DEF OneSocket
      <4>3. \A j \in Sockets : Alive(j)' => socket'[j].of # {p}
        <5> SUFFICES ASSUME NEW j \in Sockets, Alive(j)', socket'[j].of = {p} PROVE FALSE
          OBVIOUS
        <5>1. Alive(j) /\ socket[j].of = {p}
          BY <1>8
        <5>2. j = k
          BY <5>1, <4>1, <1>2, <1>7 DEF OneSocket
        <5> QED
          BY <5>2, <1>6, <1>8 DEF Alive
      <4>4. page'[p].timers = {k}
        BY <4>2, <1>4, <1>5
      <4> QED
        BY <4>3, <4>4 DEF OneSocket
    <3> QED
      BY <2>2, <3>1, <1>4, <1>5, <1>7 DEF PageKept
  <2> QED
    BY <2>1, <2>2
<1> QED
  BY <1>8, <1>9, <1>10, <1>11 DEF RelayInv

LEMMA ClosePageKeeps ==
  ASSUME RelayInv, NEW p \in Pages, ClosePage(p)
  PROVE  RelayInv'
<1>0. RelayTypeOK /\ socket \in [Sockets -> Socket] /\ page \in [Pages -> Page]
  BY RelayTypes DEF RelayInv
<1>1. /\ UNCHANGED <<backend, hasServer, hooked, inbox, emitted, heardBy, owed>>
      /\ page' = [page EXCEPT ![p] = NoPage]
      /\ socket' = [k \in Sockets |-> IF socket[k].of = {p} THEN Over(k, "gone") ELSE socket[k]]
  BY DEF ClosePage, backendVars
<1>2. \A k \in Sockets : /\ Over(k, "gone") \in Socket /\ Over(k, "gone").state = "gone"
                         /\ Over(k, "gone").of = socket[k].of
  BY <1>0, OverSocket
<1>3. /\ socket' \in [Sockets -> Socket]
      /\ \A k \in Sockets : socket'[k] = IF socket[k].of = {p} THEN Over(k, "gone") ELSE socket[k]
  BY <1>0, <1>1, <1>2
<1>4. NoPage \in Page /\ NoPage.timers = {}
  BY DEF NoPage, Page
<1>5. page'[p] = NoPage /\ page' \in [Pages -> Page] /\ \A q \in Pages : q # p => page'[q] = page[q]
  BY <1>0, <1>1, <1>4
<1>6. RelayTypeOK'
  BY <1>0, <1>1, <1>3, <1>5 DEF RelayTypeOK, Socket, Page
<1>7. ASSUME NEW k \in Sockets PROVE SocketKept(k)'
  <2>1. CASE socket[k].of = {p}
    BY <2>1, <1>3, SocketEnds
  <2>2. CASE socket[k].of # {p}
    <3>1. socket'[k] = socket[k] /\ SocketKept(k) /\ socket[k].of \subseteq Pages
      BY <2>2, <1>0, <1>3 DEF RelayInv, Socket
    <3>2. Alive(k) => \A q \in socket[k].of : page'[q] = page[q]
      <4>1. Alive(k) => socket[k].state # "unused"
        BY DEF Alive
      <4>2. Alive(k) => p \notin socket[k].of
        BY <3>1, <4>1, <2>2 DEF SocketKept
      <4> QED
        BY <4>2, <3>1, <1>5
    <3> QED
      BY <3>1, <3>2, <1>1, SocketStays
  <2> QED
    BY <2>1, <2>2
<1>8. \A k \in Sockets : Alive(k)' => socket'[k] = socket[k] /\ socket[k].of # {p} /\ Alive(k)
  BY <1>2, <1>3 DEF Alive
<1>9. ASSUME NEW q \in Pages PROVE PageKept(q)'
  <2>1. CASE q = p
    BY <2>1, <1>4, <1>5, <1>8 DEF PageKept, OneSocket
  <2>2. CASE q # p
    <3>1. page'[q] = page[q]
      BY <2>2, <1>5
    <3>2. page[q].timers # {} => page[q].open
      BY DEF RelayInv, PageKept
    <3> QED
      BY <3>1, <3>2, <1>8, PageStays
  <2> QED
    BY <2>1, <2>2
<1>10. ASSUME NEW k \in Sockets, Begun(k)
       PROVE  /\ Begun(k)' /\ socket'[k].of = socket[k].of
              /\ socket'[k].state = "open" =>
                   /\ socket'[k] = socket[k]
                   /\ \A i \in socket[k].at : inbox'[i] = inbox[i]
                   /\ \A q \in socket[k].of : ~page'[q].again => ~page[q].again
  <2>1. CASE socket[k].of = {p}
    BY <2>1, <1>2, <1>3 DEF Begun
  <2>2. CASE socket[k].of # {p}
    <3>1. socket'[k] = socket[k] /\ SocketKept(k) /\ socket[k].of \subseteq Pages
      BY <2>2, <1>0, <1>3 DEF RelayInv, Socket
    <3>2. p \notin socket[k].of
      BY <3>1, <2>2, <1>10 DEF SocketKept, Begun
    <3> QED
      BY <3>1, <3>2, <1>1, <1>5, <1>10 DEF Begun
  <2> QED
    BY <2>1, <2>2
<1>11. \A s \in Signals : SignalKept(s)'
  BY <1>1, <1>10, SignalsStay
<1> QED
  BY <1>6, <1>7, <1>9, <1>11 DEF RelayInv

-----------------------------------------------------------------------------
\* What connect does: to the page, and to a socket not used before, if it makes one.
Connects(p, next, sockets, x, fresh) ==
  /\ fresh \subseteq Sockets /\ x \in Page /\ x.open = next.open /\ x.user = next.user
  /\ x.timers = next.timers
  /\ x.again = next.again /\ page' = [page EXCEPT ![p] = x]
  /\ socket' \in [Sockets -> Socket]
  /\ \A k \in Sockets \ fresh : socket'[k] = sockets[k]
  /\ \A k \in fresh : socket[k].state = "unused" /\ socket'[k].state = "connecting"
                      /\ socket'[k].of = {p}
  /\ \A j, k \in fresh : j = k

LEMMA ConnectEffect ==
  ASSUME RelayTypeOK, NEW p \in Pages, NEW next \in Page, NEW sockets \in [Sockets -> Socket],
         Connect(p, next, sockets)
  PROVE  \E x, fresh : Connects(p, next, sockets, x, fresh)
<1>1. CASE page' = [page EXCEPT ![p] = next] /\ socket' = sockets
  <2>1. Connects(p, next, sockets, next, {})
    BY <1>1 DEF Connects
  <2> QED
    BY <2>1
<1>2. ASSUME NEW k \in Sockets, socket[k].state = "unused",
             socket' = [sockets EXCEPT ![k].state = "connecting", ![k].of = {p}],
             page' = [page EXCEPT ![p] = [next EXCEPT !.ref = k]]
      PROVE  \E x, fresh : Connects(p, next, sockets, x, fresh)
  <2> DEFINE x == [next EXCEPT !.ref = k]
             y == [sockets[k] EXCEPT !.state = "connecting", !.of = {p}]
  <2>1. /\ x \in Page /\ x.open = next.open /\ x.user = next.user /\ x.timers = next.timers
        /\ x.again = next.again
    BY DEF Page
  <2>2. y \in Socket /\ y.state = "connecting" /\ y.of = {p}
    BY DEF Socket
  <2>3. socket' = [sockets EXCEPT ![k] = y]
    BY <1>2
  <2> HIDE DEF x, y
  <2>4. /\ socket' \in [Sockets -> Socket] /\ socket'[k] = y
        /\ \A j \in Sockets \ {k} : socket'[j] = sockets[j]
    BY <2>2, <2>3
  <2>5. Connects(p, next, sockets, x, {k})
    BY <1>2, <2>1, <2>2, <2>4 DEF Connects, x
  <2>6. {k} \in SUBSET Sockets
    OBVIOUS
  <2> QED
    BY <2>5, <2>6
<1> QED
  BY <1>1, <1>2 DEF Connect

\* The socket of connect is the page's only one, unless its effect has run again.
LEMMA ConnectKeeps ==
  ASSUME RelayInv, NEW p \in Pages, NEW next \in Page, next.open,
         NEW sockets \in [Sockets -> Socket], Connect(p, next, sockets),
         UNCHANGED <<backendVars, inbox, emitted, heardBy, owed>>,
         \A k \in Sockets :
           \/ sockets[k] = socket[k]
           \/ /\ socket[k].state \in {"connecting", "upgrading", "open"}
              /\ sockets[k] = Over(k, "closed"),
         page[p].open => next.user = page[p].user,
         \/ next.again
         \/ next.timers = {} /\ \A k \in Sockets : socket[k].of = {p} => ~Alive(k)
  PROVE  RelayInv'
<1>0. RelayTypeOK /\ socket \in [Sockets -> Socket] /\ page \in [Pages -> Page]
  BY RelayTypes DEF RelayInv
<1>1. PICK x, fresh : Connects(p, next, sockets, x, fresh)
  BY <1>0, ConnectEffect
<1>2. /\ x \in Page /\ x.open /\ x.user = next.user /\ x.timers = next.timers /\ x.again = next.again
      /\ page' = [page EXCEPT ![p] = x] /\ socket' \in [Sockets -> Socket]
  BY <1>1 DEF Connects
<1>3. page'[p] = x /\ page' \in [Pages -> Page] /\ \A q \in Pages : q # p => page'[q] = page[q]
  BY <1>0, <1>2
<1>4. \A k \in fresh : socket[k].state = "unused" /\ socket'[k].state = "connecting"
                       /\ socket'[k].of = {p}
  BY <1>1 DEF Connects
<1>5. ASSUME NEW k \in Sockets \ fresh
      PROVE  \/ socket'[k] = socket[k]
             \/ /\ socket[k].state \in {"connecting", "upgrading", "open"}
                /\ socket'[k] = Over(k, "closed") /\ socket'[k].state = "closed"
                /\ socket'[k].of = socket[k].of
  <2>1. socket'[k] = sockets[k]
    BY <1>1 DEF Connects
  <2>2. Over(k, "closed").state = "closed" /\ Over(k, "closed").of = socket[k].of
    BY <1>0, OverSocket
  <2> QED
    BY <2>1, <2>2
<1>6. RelayTypeOK'
  BY <1>0, <1>2, <1>3 DEF RelayTypeOK, Socket, Page, backendVars
<1>7. ASSUME NEW q \in Pages, page[q].open
      PROVE  page'[q].open /\ page'[q].user = page[q].user
  BY <1>2, <1>3, <1>7
<1>8. ASSUME NEW k \in Sockets PROVE SocketKept(k)'
  <2>0. SocketKept(k) /\ socket[k].of \subseteq Pages
    BY <1>0 DEF RelayInv, Socket
  <2>1. CASE k \in fresh
    BY <2>1, <1>2, <1>3, <1>4 DEF SocketKept
  <2>2. CASE k \notin fresh /\ socket'[k] = socket[k]
    <3>1. Alive(k) => \A q \in socket[k].of :
                        page[q].open => page'[q].open /\ page'[q].user = page[q].user
      BY <1>7, <2>0
    <3>2. backend' = backend
      BY DEF backendVars
    <3> QED
      BY <2>2, <3>1, <3>2, SocketStays
  <2>3. CASE k \notin fresh /\ socket'[k] # socket[k]
    <3>1. /\ socket[k].state \in {"connecting", "upgrading", "open"}
          /\ socket'[k] = Over(k, "closed")
      BY <1>5, <2>3
    <3>2. (\E q \in Pages : socket[k].of = {q}) /\ \A q \in socket[k].of : page'[q].open
      BY <1>7, <2>0, <3>1 DEF SocketKept, Alive
    <3> QED
      BY <3>1, <3>2, SocketEnds
  <2> QED
    BY <2>1, <2>2, <2>3
<1>9. ASSUME NEW k \in Sockets, Alive(k)', k \notin fresh
      PROVE  Alive(k) /\ socket'[k].of = socket[k].of
  BY <1>5, <1>9 DEF Alive
<1>10. ASSUME NEW q \in Pages PROVE PageKept(q)'
  <2>1. CASE q # p
    <3>1. page'[q] = page[q]
      BY <2>1, <1>3
    <3>2. page[q].timers # {} => page[q].open
      BY DEF RelayInv, PageKept
    <3>3. \A k \in Sockets : Alive(k)' /\ socket'[k].of = {q} => Alive(k) /\ socket[k].of = {q}
      <4>1. \A k \in fresh : socket'[k].of # {q}
        BY <1>4, <2>1
      <4> QED
        BY <4>1, <1>9
    <3> QED
      BY <3>1, <3>2, <3>3, PageStays
  <2>2. CASE q = p
    <3>1. ASSUME ~next.again PROVE OneSocket(p)'
      <4>1. next.timers = {} /\ \A k \in Sockets : socket[k].of = {p} => ~Alive(k)
        BY <3>1
      <4>2. \A k \in Sockets : Alive(k)' /\ socket'[k].of = {p} => k \in fresh
        BY <4>1, <1>9
      <4>3. \A j, k \in fresh : j = k
        BY <1>1 DEF Connects
      <4> QED
        BY <4>1, <4>2, <4>3, <1>2, <1>3 DEF OneSocket
    <3> QED
      BY <2>2, <3>1, <1>2, <1>3 DEF PageKept
  <2> QED
    BY <2>1, <2>2
<1>11. ASSUME NEW k \in Sockets, Begun(k)
       PROVE  /\ Begun(k)' /\ socket'[k].of = socket[k].of
              /\ socket'[k].state = "open" =>
                   /\ socket'[k] = socket[k]
                   /\ \A i \in socket[k].at : inbox'[i] = inbox[i]
                   /\ \A q \in socket[k].of : ~page'[q].again => ~page[q].again
  <2>1. k \notin fresh
    BY <1>4, <1>11 DEF Begun
  <2>2. Begun(k)' /\ socket'[k].of = socket[k].of
    BY <1>5, <1>11, <2>1 DEF Begun
  <2>3. ASSUME socket'[k].state = "open"
        PROVE  /\ socket'[k] = socket[k]
               /\ \A q \in socket[k].of : ~page'[q].again => ~page[q].again
    <3>1. socket'[k] = socket[k]
      BY <1>5, <2>1, <2>3
    <3>2. PICK h \in Pages : socket[k].of = {h}
      BY <3>1, <2>3 DEF RelayInv, SocketKept
    <3>3. Alive(k)
      BY <3>1, <2>3 DEF Alive
    <3>4. h = p => next.again
      BY <3>2, <3>3
    <3> QED
      BY <3>1, <3>2, <3>4, <1>2, <1>3
  <2> QED
    BY <2>2, <2>3
<1>12. \A s \in Signals : SignalKept(s)'
  BY <1>11, SignalsStay
<1> QED
  BY <1>6, <1>8, <1>10, <1>12 DEF RelayInv

LEMMA PagesConnect ==
  ASSUME RelayInv, NEW p \in Pages, OpenPage(p) \/ Reconnect(p) \/ EffectAgain(p)
  PROVE  RelayInv'
<1>0. /\ RelayTypeOK /\ socket \in [Sockets -> Socket] /\ page[p] \in Page /\ PageKept(p)
      /\ \A k \in Sockets : SocketKept(k)
  BY RelayTypes DEF RelayInv
<1>1. UNCHANGED <<backendVars, inbox, emitted, heardBy, owed>>
  BY DEF OpenPage, Reconnect, EffectAgain
<1>2. CASE OpenPage(p)
  <2>1. PICK user \in BOOLEAN : Connect(p, [NoPage EXCEPT !.open = TRUE, !.user = user], socket)
    BY <1>2 DEF OpenPage
  <2> DEFINE next == [NoPage EXCEPT !.open = TRUE, !.user = user]
  <2>2. NoPage \in Page /\ NoPage.timers = {}
    BY DEF NoPage, Page
  <2>3. next \in Page /\ next.open /\ next.timers = {}
    BY <2>2 DEF Page
  <2> HIDE DEF next
  <2>4. ~page[p].open
    BY <1>2 DEF OpenPage
  <2>5. \A k \in Sockets : socket[k].of = {p} => ~Alive(k)
    BY <1>0, <2>4 DEF SocketKept
  <2> QED
    BY <1>0, <1>1, <2>1, <2>3, <2>4, <2>5, ConnectKeeps DEF next
<1>3. CASE Reconnect(p)
  <2>1. PICK t \in page[p].timers : Connect(p, [page[p] EXCEPT !.timers = @ \ {t}], socket)
    BY <1>3 DEF Reconnect
  <2> DEFINE next == [page[p] EXCEPT !.timers = @ \ {t}]
  <2>2. /\ next \in Page /\ next.open = page[p].open /\ next.user = page[p].user
        /\ next.again = page[p].again /\ next.timers = page[p].timers \ {t}
    BY <1>0 DEF Page
  <2> HIDE DEF next
  <2>3. next.open
    BY <1>0, <2>1, <2>2 DEF PageKept
  <2>4. next.again \/ (next.timers = {} /\ \A k \in Sockets : socket[k].of = {p} => ~Alive(k))
    BY <1>0, <2>1, <2>2 DEF PageKept, OneSocket
  <2> QED
    BY <1>0, <1>1, <2>1, <2>2, <2>3, <2>4, ConnectKeeps DEF next
<1>4. CASE EffectAgain(p)
  <2> DEFINE next == [page[p] EXCEPT !.timers = @ \ {page[p].timer}, !.again = TRUE]
             isEnded(k) == k = page[p].ref /\ socket[k].state \in {"connecting", "upgrading", "open"}
             sockets == [k \in Sockets |-> IF isEnded(k) THEN Over(k, "closed") ELSE socket[k]]
  <2>1. page[p].open /\ Connect(p, next, sockets)
    BY <1>4 DEF EffectAgain
  <2>2. next \in Page /\ next.open = page[p].open /\ next.user = page[p].user /\ next.again
    BY <1>0 DEF Page
  <2>3. sockets \in [Sockets -> Socket]
    BY <1>0, OverSocket
  <2>4. \A k \in Sockets :
           \/ sockets[k] = socket[k]
           \/ /\ socket[k].state \in {"connecting", "upgrading", "open"}
              /\ sockets[k] = Over(k, "closed")
    OBVIOUS
  <2> HIDE DEF next, sockets
  <2> QED
    BY <1>1, <2>1, <2>2, <2>3, <2>4, ConnectKeeps
<1> QED
  BY <1>2, <1>3, <1>4

LEMMA RelayInvInductive ==
  /\ RelayInit => RelayInv
  /\ RelayInv /\ [RelayNext]_relayVars => RelayInv'
<1>1. ASSUME RelayInit PROVE RelayInv
  <2>1. NoPage \in Page /\ NoSocket \in Socket /\ NoSocket.state = "unused" /\ NoPage.timers = {}
    BY DEF NoPage, Page, NoSocket, Socket
  <2>2. RelayTypeOK
    BY <1>1, <2>1, RelayTypes DEF RelayInit
  <2>3. \A k \in Sockets : socket[k].state = "unused"
    BY <1>1, <2>1 DEF RelayInit
  <2>4. \A p \in Pages : page[p].timers = {}
    BY <1>1, <2>1 DEF RelayInit
  <2>5. \A k \in Sockets : SocketKept(k)
    BY <2>3 DEF SocketKept, Alive
  <2>6. \A p \in Pages : PageKept(p)
    BY <2>3, <2>4 DEF PageKept, OneSocket, Alive
  <2>7. \A s \in Signals : SignalKept(s)
    BY <1>1 DEF RelayInit, SignalKept
  <2> QED
    BY <2>2, <2>5, <2>6, <2>7 DEF RelayInv
<1>2. ASSUME RelayInv, UNCHANGED relayVars PROVE RelayInv'
  BY <1>2 DEF RelayInv, RelayTypeOK, SocketKept, PageKept, OneSocket, SignalKept, Alive, Begun,
              relayVars, backendVars
<1>3. ASSUME RelayInv, RelayNext PROVE RelayInv'
  BY <1>3, InstancesKeep, CrashKeeps, EmitKeeps, PublishKeeps, PagesConnect, ClosePageKeeps,
     UpgradesKeep, CloseEventKeeps DEF RelayNext
<1> QED
  BY <1>1, <1>2, <1>3

\* websocket-handler.ts and SignalProvider.tsx, for any number of instances, pages,
\* sockets, crashes and lost connections: a signal that is owed to a socket is heard
\* there once its instance has relayed it, and on no other socket of the page unless
\* the page's effect has run again.
THEOREM SignalsHeardOnceCorrect == RelaySpec => []SignalsHeardOnce
<1>1. RelayInv => SignalsHeardOnce
  <2> SUFFICES ASSUME RelayInv, NEW s \in Signals, NEW k \in owed[s], socket[k].state = "open",
                      \A i \in socket[k].at : s \notin inbox[i]
               PROVE  /\ k \in heardBy[s]
                      /\ \/ {j \in heardBy[s] : socket[j].of = socket[k].of} = {k}
                         \/ \E p \in socket[k].of : page[p].again
    BY DEF SignalsHeardOnce
  <2>1. k \in Sockets /\ SocketKept(k) /\ SignalKept(s)
    BY RelayTypes DEF RelayInv
  <2>2. PICK i \in Backends : socket[k].at = {i}
    BY <2>1 DEF SocketKept
  <2>3. PICK p \in Pages : socket[k].of = {p}
    BY <2>1 DEF SocketKept
  <2>4. k \in heardBy[s]
    BY <2>1, <2>2 DEF SignalKept
  <2>5. ~page[p].again => \A j \in heardBy[s] : socket[j].of = {p} => j = k
    BY <2>1, <2>3 DEF SignalKept
  <2> QED
    BY <2>3, <2>4, <2>5
<1> QED
  BY <1>1, RelayInvInductive, PTL DEF RelaySpec

-----------------------------------------------------------------------------
(* PluginStartup. Why plugins start after those they depend on, for any number
   of plugins and services: while sorting, the degree of a plugin is the number
   of edges into it from plugins not yet sorted, so one is sorted only when there
   are none; and what is left over with none waiting has an edge from something
   left over. First the order of registration. *)

IsInOrder(s, T) ==
  /\ s \in [1 .. Cardinality(T) -> T]
  /\ \A i, j \in 1 .. Cardinality(T) : i < j => s[i] < s[j]
  /\ \A t \in T : \E i \in 1 .. Cardinality(T) : s[i] = t

\* A set of numbers up to n can be listed in order.
LEMMA OrderExists == \A n \in Nat : \A T \in SUBSET (1 .. n) : IsFiniteSet(T) /\ \E s : IsInOrder(s, T)
<1> DEFINE Bad == {n \in Nat : \E T \in SUBSET (1 .. n) : ~ \E s : IsInOrder(s, T)}
<1>1. ASSUME NEW n \in Nat, NEW T \in SUBSET (1 .. n)
      PROVE  IsFiniteSet(T)
  <2>1. IsFiniteSet(1 .. n)
    BY FS_Interval
  <2> QED
    BY <2>1, FS_Subset
<1>2. SUFFICES ASSUME Bad # {} PROVE FALSE
  BY <1>1
<1>3. PICK n \in Bad : \A m \in Bad : n \leq m
  <2>1. Bad \in SUBSET Nat
    OBVIOUS
  <2> HIDE DEF Bad
  <2> QED
    BY <1>2, <2>1, LeastNumber
<1>n. n \in Nat
  OBVIOUS
<1>4. PICK T \in SUBSET (1 .. n) : ~ \E s : IsInOrder(s, T)
  OBVIOUS
<1>5. IsFiniteSet(T) /\ Cardinality(T) \in Nat
  BY <1>n, <1>1, FS_CardinalityType
<1>6. T # {}
  <2> SUFFICES ASSUME T = {} PROVE FALSE
    OBVIOUS
  <2>1. Cardinality(T) = 0
    BY FS_EmptySet
  <2>2. IsInOrder(<<>>, T)
    BY <2>1 DEF IsInOrder
  <2> QED
    BY <1>4, <2>2
<1>7. n # 0
  <2>1. PICK t \in T : t \in 1 .. n
    BY <1>6
  <2> QED
    BY <1>n, <2>1
<1>8. n - 1 \in Nat /\ n - 1 \notin Bad
  <2>1. n - 1 \in Nat /\ ~(n \leq n - 1)
    BY <1>n, <1>7
  <2> HIDE DEF Bad
  <2> QED
    BY <1>3, <2>1
<1>9. n \in T
  <2> SUFFICES ASSUME n \notin T PROVE FALSE
    OBVIOUS
  <2>1. T \in SUBSET (1 .. n - 1)
    BY <1>n
  <2> QED
    BY <1>4, <1>8, <2>1
<1> DEFINE U == T \ {n}
           k == Cardinality(T)
<1>10. U \in SUBSET (1 .. n - 1) /\ Cardinality(U) = k - 1 /\ k \in Nat /\ k - 1 \in Nat
  <2>1. U \in SUBSET (1 .. n - 1)
    BY <1>n
  <2>2. IsFiniteSet(U) /\ Cardinality(U) = k - 1
    BY <1>5, <1>9, FS_RemoveElement
  <2>3. Cardinality(U) \in Nat
    BY <2>2, FS_CardinalityType
  <2> QED
    BY <1>5, <2>1, <2>2, <2>3
<1>11. PICK r : IsInOrder(r, U)
  BY <1>8, <1>10
<1> DEFINE s == [i \in 1 .. k |-> IF i = k THEN n ELSE r[i]]
<1>12. /\ r \in [1 .. k - 1 -> U]
       /\ \A i, j \in 1 .. k - 1 : i < j => r[i] < r[j]
       /\ \A t \in U : \E i \in 1 .. k - 1 : r[i] = t
  BY <1>10, <1>11 DEF IsInOrder
<1>13. s \in [1 .. k -> T]
  BY <1>9, <1>10, <1>12
<1>14. \A i, j \in 1 .. k : i < j => s[i] < s[j]
  <2> SUFFICES ASSUME NEW i \in 1 .. k, NEW j \in 1 .. k, i < j
               PROVE  s[i] < s[j]
    OBVIOUS
  <2>1. i \in 1 .. k - 1 /\ s[i] = r[i] /\ r[i] \in 1 .. n - 1
    <3>1. k \in Nat
      BY <1>10
    <3> HIDE DEF k
    <3>2. i \in 1 .. k - 1 /\ i # k
      BY <3>1
    <3>3. r[i] \in U
      BY <1>12, <3>2
    <3> QED
      BY <1>10, <3>2, <3>3
  <2>2. CASE j = k
    BY <1>n, <2>1, <2>2
  <2>3. CASE j # k
    BY <1>10, <1>12, <2>1, <2>3
  <2> QED
    BY <2>2, <2>3
<1>15. \A t \in T : \E i \in 1 .. k : s[i] = t
  <2> SUFFICES ASSUME NEW t \in T
               PROVE  \E i \in 1 .. k : s[i] = t
    OBVIOUS
  <2>1. CASE t = n
    <3>1. k \in 1 .. k
      BY <1>10
    <3> QED
      BY <2>1, <3>1
  <2>2. CASE t # n
    <3>1. PICK i \in 1 .. k - 1 : r[i] = t
      BY <1>12, <2>2
    <3>2. i \in 1 .. k /\ i # k
      BY <1>10
    <3> QED
      BY <3>1, <3>2
  <2> QED
    BY <2>1, <2>2
<1>16. IsInOrder(s, T)
  BY <1>13, <1>14, <1>15 DEF IsInOrder
<1> QED
  BY <1>4, <1>16

\* InOrder lists exactly the given plugins, each once.
LEMMA InOrderLists ==
  ASSUME NEW T, T \in SUBSET LoadOrder
  PROVE  /\ InOrder(T) \in Seq(T)
         /\ \A i, j \in 1 .. Len(InOrder(T)) : i # j => InOrder(T)[i] # InOrder(T)[j]
         /\ \A t \in T : \E i \in 1 .. Len(InOrder(T)) : InOrder(T)[i] = t
<1>1. IsFiniteSet(T) /\ \E s : IsInOrder(s, T)
  BY OrderExists, StartupAssumption DEF LoadOrder, StartupAssumption
<1>2. IsInOrder(InOrder(T), T)
  BY <1>1 DEF IsInOrder, InOrder
<1>3. Cardinality(T) \in Nat
  BY <1>1, FS_CardinalityType
<1>4. InOrder(T) \in Seq(T) /\ Len(InOrder(T)) = Cardinality(T)
  BY <1>2, <1>3 DEF IsInOrder
<1>5. \A i, j \in 1 .. Cardinality(T) : i # j => InOrder(T)[i] # InOrder(T)[j]
  <2> SUFFICES ASSUME NEW i \in 1 .. Cardinality(T), NEW j \in 1 .. Cardinality(T), i # j
               PROVE  InOrder(T)[i] # InOrder(T)[j]
    OBVIOUS
  <2>1. InOrder(T)[i] \in T /\ InOrder(T)[j] \in T
    BY <1>2 DEF IsInOrder
  <2>2. \A t \in T : t \in Nat
    BY DEF LoadOrder
  <2> QED
    BY <1>2, <1>3, <2>1, <2>2 DEF IsInOrder
<1> QED
  BY <1>2, <1>4, <1>5 DEF IsInOrder

-----------------------------------------------------------------------------
(* The invariant *)

Done == {sorted[i] : i \in 1 .. Len(sorted)}

\* Edges into a plugin from those not yet sorted.
Into(p) == {e \in graph : e[3] = p /\ e[1] \notin Done}

\* While plugins register, providedBy names the last to offer a service.
LastOffers ==
  startPhase = "register" => \A s \in PluginServices :
    /\ providedBy[s] = 0 => \A r \in DOMAIN shape : s \notin shape[r].offers
    /\ providedBy[s] # 0 => /\ providedBy[s] \in DOMAIN shape /\ s \in shape[providedBy[s]].offers
                            /\ \A r \in DOMAIN shape : s \in shape[r].offers => r \leq providedBy[s]

\* The graph has an edge exactly where one plugin is to precede another.
GraphTrue ==
  startPhase = "sort" =>
    /\ \A e \in graph : e[1] \in DOMAIN shape /\ e[3] \in Pending /\ Precedes(e[1], e[3])
    /\ \A q, p \in DOMAIN shape : Precedes(q, p) => \E e \in graph : e[1] = q /\ e[3] = p

\* The degree of a plugin counts them; those without wait or are sorted, each once.
DegreesTrue ==
  startPhase = "sort" =>
    /\ \A p \in LoadOrder : degree[p] = Cardinality(Into(p))
    /\ \A i \in 1 .. Len(waiting) :
         waiting[i] \in Pending /\ waiting[i] \notin Done /\ degree[waiting[i]] = 0
    /\ \A i, j \in 1 .. Len(waiting) : i # j => waiting[i] # waiting[j]
    /\ \A i, j \in 1 .. Len(sorted) : i # j => sorted[i] # sorted[j]
    /\ \A p \in Pending : degree[p] = 0 => p \in Done \/ \E i \in 1 .. Len(waiting) : waiting[i] = p

SortedInOrder ==
  /\ \A i \in 1 .. Len(sorted) : sorted[i] \in Pending
  /\ \A i \in 1 .. Len(sorted) : \A q \in DOMAIN shape :
       Precedes(q, sorted[i]) => \E j \in 1 .. i - 1 : sorted[j] = q

RefusedStuck ==
  startPhase = "refused" =>
    \E S \in SUBSET Pending \ {{}} : \A p \in S : \E q \in DOMAIN shape :
      Precedes(q, p) /\ (q \in S \/ q \notin Pending)

NothingYet == startPhase = "register" => sorted = <<>> /\ initialised = 0

StartupInv ==
  /\ StartupTypeOK /\ NothingYet /\ LastOffers /\ GraphTrue /\ DegreesTrue /\ SortedInOrder /\ RefusedStuck

LEMMA PendingInOrder == StartupTypeOK => DOMAIN shape = 1 .. Len(shape) /\ DOMAIN shape \in SUBSET LoadOrder /\ Pending \in SUBSET LoadOrder
  BY StartupAssumption DEF StartupTypeOK, Pending, LoadOrder, StartupAssumption

\* There are finitely many edges.
LEMMA GraphFinite ==
  ASSUME NEW edges \in SUBSET (LoadOrder \X Services \X LoadOrder)
  PROVE  IsFiniteSet(edges)
<1> DEFINE pairs == (LoadOrder \X Services) \X LoadOrder
           triples == LoadOrder \X Services \X LoadOrder
           f == [x \in pairs |-> <<x[1][1], x[1][2], x[2]>>]
<1>1. IsFiniteSet(LoadOrder)
  BY FS_Interval, StartupAssumption DEF LoadOrder, StartupAssumption
<1>2. IsFiniteSet(Services)
  <2>1. IsFiniteSet({"queueManager"} \cup {"queuePluginRegistry"})
    BY FS_Singleton, FS_Union
  <2>2. CoreServices = {"queueManager"} \cup {"queuePluginRegistry"}
    BY DEF CoreServices
  <2>3. IsFiniteSet(PluginServices \cup CoreServices)
    BY <2>1, <2>2, FS_Union, StartupAssumption DEF StartupAssumption
  <2> QED
    BY <2>3 DEF Services
<1>3. IsFiniteSet(pairs)
  BY <1>1, <1>2, FS_Product
<1>4. f \in Surjection(pairs, triples)
  <2>1. f \in [pairs -> triples]
    OBVIOUS
  <2>2. \A t \in triples : \E x \in pairs : f[x] = t
    <3> SUFFICES ASSUME NEW t \in triples
                 PROVE  \E x \in pairs : f[x] = t
      OBVIOUS
    <3>1. t[1] \in LoadOrder /\ t[2] \in Services /\ t[3] \in LoadOrder /\ t = <<t[1], t[2], t[3]>>
      OBVIOUS
    <3>2. <<<<t[1], t[2]>>, t[3]>> \in pairs /\ f[<<<<t[1], t[2]>>, t[3]>>] = <<t[1], t[2], t[3]>>
      BY <3>1
    <3> QED
      BY <3>1, <3>2
  <2> QED
    BY <2>1, <2>2 DEF Surjection
<1>5. IsFiniteSet(triples)
  BY <1>3, <1>4, FS_Surjection
<1> QED
  BY <1>5, FS_Subset

LEMMA StartupInitially == StartupInit => StartupInv
<1> SUFFICES ASSUME StartupInit
             PROVE  StartupInv
  OBVIOUS
<1>1. StartupTypeOK
  BY StartupAssumption DEF StartupInit, StartupTypeOK, StartupAssumption
<1>2. NothingYet /\ LastOffers /\ GraphTrue /\ DegreesTrue /\ SortedInOrder /\ RefusedStuck
  BY DEF StartupInit, NothingYet, LastOffers, GraphTrue, DegreesTrue, SortedInOrder, RefusedStuck
<1> QED
  BY <1>1, <1>2 DEF StartupInv

\* Steps that leave the plugins and their order alone.
LEMMA OrderKept ==
  ASSUME StartupInv, UNCHANGED <<shape, graph, degree, waiting, sorted>>,
         startPhase' \in {"init", "ready", "up", "failed"}
  PROVE  NothingYet' /\ LastOffers' /\ GraphTrue' /\ DegreesTrue' /\ SortedInOrder' /\ RefusedStuck'
<1>1. NothingYet' /\ LastOffers' /\ GraphTrue' /\ DegreesTrue' /\ RefusedStuck'
  BY DEF NothingYet, LastOffers, GraphTrue, DegreesTrue, RefusedStuck
<1>2. SortedInOrder'
  BY DEF StartupInv, SortedInOrder, Pending, Precedes
<1> QED
  BY <1>1, <1>2

LEMMA RegisterKeeps == StartupInv /\ RegisterPlugin => StartupInv'
<1> SUFFICES ASSUME StartupInv, RegisterPlugin
             PROVE  StartupInv'
  OBVIOUS
<1> DEFINE n == Len(shape) + 1
<1>1. PICK t \in Plain :
        /\ shape' = Append(shape, t)
        /\ providedBy' = [x \in PluginServices |-> IF x \in t.offers THEN n ELSE providedBy[x]]
  BY DEF RegisterPlugin
<1>2. t \in Shapes /\ Len(shape) \in Nat /\ n \in 0 .. PluginCount /\ shape \in Seq(Shapes)
  BY StartupAssumption DEF RegisterPlugin, StartupInv, StartupTypeOK, Plain, StartupAssumption
<1>3. /\ DOMAIN shape = 1 .. n - 1 /\ DOMAIN shape' = 1 .. n
      /\ shape'[n] = t /\ \A r \in DOMAIN shape : shape'[r] = shape[r]
  BY <1>1, <1>2
<1>4. StartupTypeOK'
  BY <1>1, <1>2 DEF RegisterPlugin, StartupInv, StartupTypeOK
<1>5. LastOffers'
  <2> SUFFICES ASSUME NEW s \in PluginServices
               PROVE  /\ providedBy'[s] = 0 => \A r \in DOMAIN shape' : s \notin shape'[r].offers
                      /\ providedBy'[s] # 0 =>
                           /\ providedBy'[s] \in DOMAIN shape' /\ s \in shape'[providedBy'[s]].offers
                           /\ \A r \in DOMAIN shape' : s \in shape'[r].offers => r \leq providedBy'[s]
    BY DEF LastOffers
  <2>1. CASE s \in t.offers
    <3>1. providedBy'[s] = n
      BY <1>1, <2>1
    <3> QED
      BY <1>2, <1>3, <2>1, <3>1
  <2>2. CASE s \notin t.offers
    <3>1. providedBy'[s] = providedBy[s]
      BY <1>1, <2>2
    <3>2. /\ providedBy[s] = 0 => \A r \in DOMAIN shape : s \notin shape[r].offers
          /\ providedBy[s] # 0 => /\ providedBy[s] \in DOMAIN shape /\ s \in shape[providedBy[s]].offers
                                  /\ \A r \in DOMAIN shape : s \in shape[r].offers => r \leq providedBy[s]
      BY DEF RegisterPlugin, StartupInv, LastOffers
    <3> QED
      BY <1>2, <1>3, <2>2, <3>1, <3>2
  <2> QED
    BY <2>1, <2>2
<1>6. startPhase = "register" /\ startPhase' = "register" /\ sorted = <<>> /\ sorted' = <<>> /\ initialised' = 0
  BY DEF RegisterPlugin, StartupInv, NothingYet
<1>7. NothingYet' /\ GraphTrue' /\ DegreesTrue' /\ SortedInOrder' /\ RefusedStuck'
  BY <1>6 DEF NothingYet, GraphTrue, DegreesTrue, SortedInOrder, RefusedStuck
<1> QED
  BY <1>4, <1>5, <1>7 DEF StartupInv

\* What the loops of sortPlugins put into the graph is what the order is to respect.
LEMMA EdgesTrue ==
  ASSUME StartupInv, startPhase = "register", Len(shape) = PluginCount
  PROVE  LET edges == ServiceEdges \cup QueueEdges
         IN /\ edges \subseteq LoadOrder \X Services \X LoadOrder
            /\ \A e \in edges : e[1] \in DOMAIN shape /\ e[3] \in Pending /\ Precedes(e[1], e[3])
            /\ \A q, p \in DOMAIN shape : Precedes(q, p) => \E e \in edges : e[1] = q /\ e[3] = p
<1> DEFINE edges == ServiceEdges \cup QueueEdges
<1>1. DOMAIN shape = LoadOrder /\ Pending \subseteq LoadOrder
  BY PendingInOrder DEF StartupInv, LoadOrder
<1>2. \A s \in PluginServices :
        /\ providedBy[s] = 0 => \A r \in DOMAIN shape : s \notin shape[r].offers
        /\ providedBy[s] # 0 => /\ providedBy[s] \in DOMAIN shape /\ s \in shape[providedBy[s]].offers
                                /\ \A r \in DOMAIN shape : s \in shape[r].offers => r \leq providedBy[s]
  BY DEF StartupInv, LastOffers
<1>3. ASSUME NEW e \in ServiceEdges
      PROVE  /\ e \in LoadOrder \X Services \X LoadOrder
             /\ e[1] \in DOMAIN shape /\ e[3] \in Pending /\ Precedes(e[1], e[3])
  <2>1. /\ e \in LoadOrder \X PluginServices \X Pending
        /\ e[1] = providedBy[e[2]] /\ e[1] # e[3] /\ e[2] \in shape[e[3]].wants
    BY DEF ServiceEdges
  <2>2. e[1] \in LoadOrder /\ e[2] \in PluginServices /\ e[3] \in Pending /\ e = <<e[1], e[2], e[3]>>
    BY <2>1
  <2>3. e[1] # 0
    BY <2>2 DEF LoadOrder
  <2>4. /\ e[1] \in DOMAIN shape /\ e[2] \in shape[e[1]].offers
        /\ \A r \in DOMAIN shape : e[2] \in shape[r].offers => r \leq e[1]
    BY <1>2, <2>1, <2>2, <2>3
  <2>5. shape[e[3]].registers
    BY <2>2 DEF Pending
  <2>6. Precedes(e[1], e[3])
    BY <2>1, <2>4, <2>5 DEF Precedes
  <2>7. e[2] \in Services /\ e[3] \in LoadOrder
    BY <1>1, <2>2 DEF Services
  <2> QED
    BY <2>2, <2>4, <2>6, <2>7
<1>4. ASSUME NEW e \in QueueEdges
      PROVE  /\ e \in LoadOrder \X Services \X LoadOrder
             /\ e[1] \in DOMAIN shape /\ e[3] \in Pending /\ Precedes(e[1], e[3])
  <2>1. /\ e \in Pending \X {"queueManager"} \X Pending
        /\ e[1] # e[3] /\ "queuePluginRegistry" \in shape[e[1]].wants /\ "queueManager" \in shape[e[3]].wants
    BY DEF QueueEdges
  <2>2. e[1] \in Pending /\ e[2] = "queueManager" /\ e[3] \in Pending /\ e = <<e[1], e[2], e[3]>>
    BY <2>1
  <2>3. Precedes(e[1], e[3])
    BY <2>1, <2>2 DEF Precedes, Pending
  <2>4. "queueManager" \in Services
    BY DEF Services, CoreServices
  <2> QED
    BY <1>1, <2>2, <2>3, <2>4
<1>5. ASSUME NEW q \in DOMAIN shape, NEW p \in DOMAIN shape, Precedes(q, p)
      PROVE  \E e \in edges : e[1] = q /\ e[3] = p
  <2>1. q # p /\ p \in Pending
    BY <1>5 DEF Precedes, Pending
  <2>2. CASE \E s \in PluginServices : <<q, s, p>> \in ServiceEdges
    BY <2>2
  <2>3. CASE \A s \in PluginServices : <<q, s, p>> \notin ServiceEdges
    <3>1. ~ \E s \in shape[p].wants \cap shape[q].offers :
              \A r \in DOMAIN shape : s \in shape[r].offers => r \leq q
      <4> SUFFICES ASSUME NEW s \in shape[p].wants \cap shape[q].offers,
                          \A r \in DOMAIN shape : s \in shape[r].offers => r \leq q
                   PROVE  FALSE
        OBVIOUS
      <4>1. s \in PluginServices
        <5>1. shape[q] \in Shapes
          BY DEF StartupInv, StartupTypeOK
        <5> QED
          BY <5>1 DEF Shapes
      <4>2. providedBy[s] \in DOMAIN shape /\ q \leq providedBy[s] /\ providedBy[s] \leq q
        BY <1>2, <4>1
      <4>3. providedBy[s] = q
        BY <1>1, <4>2 DEF LoadOrder
      <4>4. <<q, s, p>> \in ServiceEdges
        BY <1>1, <2>1, <4>1, <4>3 DEF ServiceEdges
      <4> QED
        BY <2>3, <4>1, <4>4
    <3>2. q \in Pending /\ "queuePluginRegistry" \in shape[q].wants /\ "queueManager" \in shape[p].wants
      BY <1>5, <3>1 DEF Precedes, Pending
    <3>3. <<q, "queueManager", p>> \in QueueEdges
      BY <2>1, <2>3, <3>2 DEF QueueEdges
    <3> QED
      BY <3>3
  <2> QED
    BY <2>2, <2>3
<1> QED
  BY <1>3, <1>4, <1>5

LEMMA BuildKeeps == StartupInv /\ BuildGraph => StartupInv'
<1> SUFFICES ASSUME StartupInv, BuildGraph
             PROVE  StartupInv'
  OBVIOUS
<1> DEFINE T == {p \in Pending : degree'[p] = 0}
<1>1. /\ graph' = ServiceEdges \cup QueueEdges /\ startPhase = "register" /\ startPhase' = "sort"
      /\ degree' = [p \in LoadOrder |-> Cardinality({e \in graph' : e[3] = p})]
      /\ waiting' = InOrder(T) /\ sorted = <<>> /\ initialised = 0
      /\ UNCHANGED <<shape, providedBy, sorted, initialised>>
  BY DEF BuildGraph, StartupInv, NothingYet
<1>2. /\ graph' \subseteq LoadOrder \X Services \X LoadOrder
      /\ \A e \in graph' : e[1] \in DOMAIN shape /\ e[3] \in Pending /\ Precedes(e[1], e[3])
      /\ \A q, p \in DOMAIN shape : Precedes(q, p) => \E e \in graph' : e[1] = q /\ e[3] = p
  BY <1>1, EdgesTrue DEF BuildGraph
<1>3. GraphTrue'
  BY <1>1, <1>2 DEF GraphTrue, Pending, Precedes
<1>4. Pending \in SUBSET LoadOrder /\ T \in SUBSET LoadOrder
  BY PendingInOrder DEF StartupInv
<1>5. /\ waiting' \in Seq(T)
      /\ \A i, j \in 1 .. Len(waiting') : i # j => waiting'[i] # waiting'[j]
      /\ \A t \in T : \E i \in 1 .. Len(waiting') : waiting'[i] = t
  BY <1>1, <1>4, InOrderLists
<1>6. StartupTypeOK'
  <2>1. waiting' \in Seq(LoadOrder)
    BY <1>4, <1>5
  <2>2. \A p \in LoadOrder : IsFiniteSet({e \in graph' : e[3] = p})
    <3>1. IsFiniteSet(graph')
      BY <1>2, GraphFinite
    <3> QED
      BY <3>1, FS_Subset
  <2>3. degree' \in [LoadOrder -> Int]
    BY <1>1, <2>2, FS_CardinalityType
  <2> QED
    BY <1>1, <1>2, <2>1, <2>3 DEF StartupInv, StartupTypeOK
<1>7. DegreesTrue'
  <2>1. Done' = {}
    BY <1>1 DEF Done
  <2>2. \A p \in LoadOrder : degree'[p] = Cardinality(Into(p)')
    BY <1>1, <2>1 DEF Into
  <2>3. \A i \in 1 .. Len(waiting') : waiting'[i] \in T
    BY <1>5
  <2>4. Pending' = Pending
    BY <1>1 DEF Pending
  <2>5. \A i \in 1 .. Len(waiting') :
          waiting'[i] \in Pending' /\ waiting'[i] \notin Done' /\ degree'[waiting'[i]] = 0
    BY <2>1, <2>3, <2>4
  <2>6. \A i, j \in 1 .. Len(sorted') : i # j => sorted'[i] # sorted'[j]
    BY <1>1
  <2>7. \A p \in Pending' : degree'[p] = 0 => \E i \in 1 .. Len(waiting') : waiting'[i] = p
    BY <1>5, <2>4
  <2> HIDE DEF T
  <2> QED
    BY <1>5, <2>2, <2>5, <2>6, <2>7 DEF DegreesTrue
<1>8. NothingYet' /\ LastOffers' /\ SortedInOrder' /\ RefusedStuck'
  BY <1>1 DEF NothingYet, LastOffers, SortedInOrder, RefusedStuck
<1> QED
  BY <1>3, <1>6, <1>7, <1>8 DEF StartupInv

LEMMA TakeFirstKeeps == StartupInv /\ TakeFirst => StartupInv'
<1> SUFFICES ASSUME StartupInv, TakeFirst
             PROVE  StartupInv'
  OBVIOUS
<1> DEFINE u == Head(waiting)
           n == Len(sorted)
           T == {p \in Pending : degree[p] > 0 /\ degree'[p] = 0}
           From(p) == {e \in graph : e[1] = u /\ e[3] = p}
<1>1. /\ startPhase = "sort" /\ startPhase' = "sort" /\ waiting # <<>> /\ sorted' = Append(sorted, u)
      /\ degree' = [p \in LoadOrder |-> degree[p] - Cardinality(From(p))]
      /\ waiting' = Tail(waiting) \o InOrder(T)
      /\ UNCHANGED <<shape, providedBy, graph, initialised>>
  BY DEF TakeFirst
<1>2. /\ \A p \in LoadOrder : degree[p] = Cardinality(Into(p))
      /\ \A i \in 1 .. Len(waiting) :
           waiting[i] \in Pending /\ waiting[i] \notin Done /\ degree[waiting[i]] = 0
      /\ \A i, j \in 1 .. Len(waiting) : i # j => waiting[i] # waiting[j]
      /\ \A i, j \in 1 .. n : i # j => sorted[i] # sorted[j]
      /\ \A p \in Pending : degree[p] = 0 => p \in Done \/ \E i \in 1 .. Len(waiting) : waiting[i] = p
  BY <1>1 DEF StartupInv, DegreesTrue
<1>3. /\ Pending \in SUBSET LoadOrder /\ Pending' = Pending /\ waiting \in Seq(LoadOrder) /\ sorted \in Seq(LoadOrder)
      /\ degree \in [LoadOrder -> Int] /\ graph \in SUBSET (LoadOrder \X Services \X LoadOrder) /\ n \in Nat
  BY <1>1, PendingInOrder DEF StartupInv, StartupTypeOK, Pending
<1>4. 1 \in 1 .. Len(waiting) /\ u = waiting[1]
  BY <1>1, <1>3
<1>5. u \in Pending /\ u \in LoadOrder /\ u \notin Done /\ degree[u] = 0
  BY <1>2, <1>3, <1>4
<1>6. Done' = Done \cup {u}
  <2>1. \A i \in 1 .. n : sorted'[i] = sorted[i]
    BY <1>1, <1>3
  <2>2. sorted'[n + 1] = u /\ Len(sorted') = n + 1
    BY <1>1, <1>3
  <2>3. 1 .. n + 1 = (1 .. n) \cup {n + 1}
    BY <1>3
  <2> QED
    BY <2>1, <2>2, <2>3 DEF Done
<1>7. ASSUME NEW p \in LoadOrder
      PROVE  /\ IsFiniteSet(Into(p)) /\ IsFiniteSet(From(p)) /\ degree'[p] = Cardinality(Into(p)')
             /\ Cardinality(From(p)) \in Nat /\ From(p) \subseteq Into(p)
  <2>1. IsFiniteSet(graph)
    BY <1>3, GraphFinite
  <2>2. IsFiniteSet(Into(p)) /\ IsFiniteSet(From(p))
    BY <2>1, FS_Subset DEF Into
  <2>3. From(p) \subseteq Into(p) /\ Into(p)' = Into(p) \ From(p)
    BY <1>1, <1>5, <1>6 DEF Into
  <2>4. Cardinality(Into(p) \ From(p)) = Cardinality(Into(p)) - Cardinality(Into(p) \cap From(p))
    BY <2>2, FS_Difference
  <2>5. Into(p) \cap From(p) = From(p)
    BY <2>3
  <2>6. degree'[p] = degree[p] - Cardinality(From(p))
    BY <1>1
  <2> QED
    BY <1>2, <2>2, <2>3, <2>4, <2>5, <2>6, FS_CardinalityType
<1>8. T \in SUBSET LoadOrder
  BY <1>3
<1>9. /\ InOrder(T) \in Seq(T)
      /\ \A i, j \in 1 .. Len(InOrder(T)) : i # j => InOrder(T)[i] # InOrder(T)[j]
      /\ \A t \in T : \E i \in 1 .. Len(InOrder(T)) : InOrder(T)[i] = t
  BY <1>8, InOrderLists
<1> DEFINE l == Len(waiting) - 1
           added == InOrder(T)
<1>10. /\ l \in Nat /\ Len(waiting') = l + Len(added) /\ Len(added) \in Nat
       /\ \A i \in 1 .. l : waiting'[i] = waiting[i + 1]
       /\ \A i \in 1 .. Len(added) : waiting'[l + i] = added[i]
  BY <1>1, <1>3, <1>9
<1>11. \A p \in Pending : degree[p] = 0 => degree'[p] = 0
  <2> SUFFICES ASSUME NEW p \in Pending, degree[p] = 0
               PROVE  degree'[p] = 0
    OBVIOUS
  <2>1. p \in LoadOrder
    BY <1>3
  <2>2. Into(p) = {}
    BY <1>2, <1>7, <2>1, FS_EmptySet
  <2>3. Cardinality(From(p)) = 0
    <3>1. From(p) = {}
      BY <1>7, <2>1, <2>2
    <3> QED
      BY <3>1, FS_EmptySet
  <2>4. degree'[p] = degree[p] - Cardinality(From(p))
    BY <1>1, <2>1
  <2> HIDE DEF From
  <2> QED
    BY <2>3, <2>4
<1>12. StartupTypeOK'
  <2>1. waiting' \in Seq(LoadOrder)
    <3> HIDE DEF T
    <3>1. Tail(waiting) \in Seq(LoadOrder)
      BY <1>1, <1>3
    <3>2. InOrder(T) \in Seq(LoadOrder)
      BY <1>8, <1>9
    <3> QED
      BY <1>1, <3>1, <3>2
  <2>2. degree' \in [LoadOrder -> Int]
    <3>1. ASSUME NEW p \in LoadOrder
          PROVE  degree[p] - Cardinality(From(p)) \in Int
      <4>1. degree[p] \in Int /\ Cardinality(From(p)) \in Nat
        BY <1>3, <1>7
      <4> HIDE DEF From
      <4> QED
        BY <4>1
    <3> HIDE DEF From
    <3> QED
      BY <1>1, <3>1
  <2>3. sorted' \in Seq(LoadOrder) /\ Len(sorted') = n + 1
    BY <1>1, <1>3, <1>5
  <2>4. /\ shape \in Seq(Shapes) /\ Len(shape) \leq PluginCount
        /\ providedBy \in [PluginServices -> 0 .. PluginCount] /\ initialised \in 0 .. n
    BY DEF StartupInv, StartupTypeOK
  <2>5. initialised \in 0 .. n + 1
    BY <1>3, <2>4
  <2> HIDE DEF n, u
  <2> QED
    BY <1>1, <1>3, <2>1, <2>2, <2>3, <2>4, <2>5 DEF StartupTypeOK
<1>13. \A i \in 1 .. Len(waiting') :
         \/ \E j \in 2 .. Len(waiting) : j = i + 1 /\ waiting'[i] = waiting[j]
         \/ \E j \in 1 .. Len(added) : i = l + j /\ waiting'[i] = added[j]
  <2> SUFFICES ASSUME NEW i \in 1 .. Len(waiting')
               PROVE  \/ \E j \in 2 .. Len(waiting) : j = i + 1 /\ waiting'[i] = waiting[j]
                      \/ \E j \in 1 .. Len(added) : i = l + j /\ waiting'[i] = added[j]
    OBVIOUS
  <2>1. CASE i \leq l
    <3>1. i \in 1 .. l /\ i + 1 \in 2 .. Len(waiting)
      BY <1>3, <1>10, <2>1
    <3>2. waiting'[i] = waiting[i + 1]
      BY <1>10, <3>1
    <3> QED
      BY <3>1, <3>2
  <2>2. CASE i > l
    <3>1. i - l \in 1 .. Len(added) /\ i = l + (i - l)
      BY <1>10, <2>2
    <3>2. waiting'[l + (i - l)] = added[i - l]
      BY <1>10, <3>1
    <3> HIDE DEF l, added
    <3> QED
      BY <3>1, <3>2
  <2>3. i \leq l \/ i > l
    BY <1>10
  <2> HIDE DEF l, added
  <2> QED
    BY <2>1, <2>2, <2>3
<1>14. \A j \in 1 .. Len(added) : added[j] \in Pending /\ added[j] \in LoadOrder /\ degree[added[j]] > 0 /\ degree'[added[j]] = 0
  BY <1>3, <1>9
<1>15. ASSUME NEW i \in 1 .. Len(waiting')
       PROVE  waiting'[i] \in Pending /\ waiting'[i] \notin Done' /\ degree'[waiting'[i]] = 0
  <2>1. CASE \E j \in 2 .. Len(waiting) : j = i + 1 /\ waiting'[i] = waiting[j]
    <3>1. PICK j \in 2 .. Len(waiting) : waiting'[i] = waiting[j]
      BY <2>1
    <3>2. j \in 1 .. Len(waiting) /\ j # 1
      BY <1>3
    <3>3. waiting[j] \in Pending /\ waiting[j] \notin Done /\ degree[waiting[j]] = 0 /\ waiting[j] # u
      BY <1>2, <1>4, <3>2
    <3> QED
      BY <1>6, <1>11, <3>1, <3>3
  <2>2. CASE \E j \in 1 .. Len(added) : i = l + j /\ waiting'[i] = added[j]
    <3>1. PICK j \in 1 .. Len(added) : waiting'[i] = added[j]
      BY <2>2
    <3>2. added[j] # u
      BY <1>5, <1>14
    <3>3. added[j] \notin Done
      <4> SUFFICES ASSUME added[j] \in Done
                   PROVE  FALSE
        OBVIOUS
      <4>1. PICK e \in Into(added[j]) : e[1] \notin Done
        <5>1. Cardinality(Into(added[j])) # 0
          BY <1>2, <1>3, <1>14
        <5> QED
          BY <1>7, <1>14, <5>1, FS_EmptySet DEF Into
      <4>2. e \in graph /\ e[3] = added[j] /\ Precedes(e[1], e[3]) /\ e[1] \in DOMAIN shape
        BY <1>1, <4>1 DEF StartupInv, GraphTrue, Into
      <4>3. PICK i1 \in 1 .. n : sorted[i1] = added[j]
        BY DEF Done
      <4>4. \E i2 \in 1 .. i1 - 1 : sorted[i2] = e[1]
        BY <4>2, <4>3 DEF StartupInv, SortedInOrder
      <4> QED
        BY <1>3, <4>1, <4>4 DEF Done
    <3> QED
      BY <1>6, <1>14, <3>1, <3>2, <3>3
  <2> QED
    BY <1>13, <2>1, <2>2
<1>16. \A i, j \in 1 .. Len(waiting') : i # j => waiting'[i] # waiting'[j]
  <2> SUFFICES ASSUME NEW i \in 1 .. Len(waiting'), NEW j \in 1 .. Len(waiting'), i < j
               PROVE  waiting'[i] # waiting'[j]
    <3>1. \A i, j \in 1 .. Len(waiting') : i # j => i < j \/ j < i
      BY <1>10
    <3> QED
      BY <3>1
  <2>1. CASE j \leq l
    <3>1. i \in 1 .. l /\ j \in 1 .. l /\ i + 1 \in 1 .. Len(waiting) /\ j + 1 \in 1 .. Len(waiting) /\ i + 1 # j + 1
      <4>1. l \in Nat /\ Len(waiting) = l + 1 /\ i \in Nat /\ j \in Nat /\ 1 \leq i
        BY <1>3, <1>10
      <4> HIDE DEF l
      <4> QED
        BY <2>1, <4>1
    <3> QED
      BY <1>2, <1>10, <3>1
  <2>2. CASE i \leq l /\ l < j
    <3>1. i \in 1 .. l /\ i + 1 \in 1 .. Len(waiting) /\ j - l \in 1 .. Len(added) /\ l + (j - l) = j
      BY <1>3, <1>10, <2>2
    <3>2. degree[waiting'[i]] = 0
      BY <1>2, <1>10, <3>1
    <3>3. waiting'[j] = added[j - l]
      BY <1>10, <3>1
    <3>4. degree[waiting'[j]] > 0
      BY <1>14, <3>1, <3>3
    <3> QED
      BY <3>2, <3>4
  <2>3. CASE l < i
    <3>1. /\ i - l \in 1 .. Len(added) /\ j - l \in 1 .. Len(added) /\ i - l # j - l
          /\ l + (i - l) = i /\ l + (j - l) = j
      BY <1>10, <2>3
    <3>2. waiting'[i] = added[i - l] /\ waiting'[j] = added[j - l]
      BY <1>10, <3>1
    <3> QED
      BY <1>9, <3>1, <3>2
  <2> QED
    BY <1>10, <2>1, <2>2, <2>3
<1>17. /\ Len(sorted') = n + 1 /\ sorted'[n + 1] = u
       /\ \A i \in 1 .. n : sorted'[i] = sorted[i] /\ sorted'[i] \in Done
  BY <1>1, <1>3 DEF Done
<1>18. \A i, j \in 1 .. Len(sorted') : i # j => sorted'[i] # sorted'[j]
  <2> SUFFICES ASSUME NEW i \in 1 .. n + 1, NEW j \in 1 .. n + 1, i # j
               PROVE  sorted'[i] # sorted'[j]
    BY <1>17
  <2>1. CASE i \in 1 .. n /\ j \in 1 .. n
    BY <1>2, <1>17, <2>1
  <2>2. CASE i = n + 1 \/ j = n + 1
    BY <1>3, <1>5, <1>17, <2>2
  <2> QED
    BY <1>3, <2>1, <2>2
<1>19. ASSUME NEW p \in Pending, degree'[p] = 0
       PROVE  p \in Done' \/ \E i \in 1 .. Len(waiting') : waiting'[i] = p
  <2>1. CASE p \in Done
    BY <1>6, <2>1
  <2>2. CASE \E i \in 1 .. Len(waiting) : waiting[i] = p
    <3>1. PICK i \in 1 .. Len(waiting) : waiting[i] = p
      BY <2>2
    <3>2. CASE i = 1
      BY <1>4, <1>6, <3>1, <3>2
    <3>3. CASE i # 1
      <4>1. i - 1 \in 1 .. l /\ i - 1 \in 1 .. Len(waiting') /\ (i - 1) + 1 = i
        BY <1>3, <1>10, <3>3
      <4> QED
        BY <1>10, <3>1, <4>1
    <3> QED
      BY <3>2, <3>3
  <2>3. CASE degree[p] # 0
    <3>1. p \in LoadOrder /\ degree[p] = Cardinality(Into(p)) /\ IsFiniteSet(Into(p))
      BY <1>2, <1>3, <1>7
    <3>2. degree[p] > 0
      BY <2>3, <3>1, FS_CardinalityType
    <3>3. p \in T
      BY <1>19, <3>2
    <3>4. PICK i \in 1 .. Len(added) : added[i] = p
      BY <1>9, <3>3
    <3>5. l + i \in 1 .. Len(waiting') /\ waiting'[l + i] = p
      BY <1>10, <3>4
    <3> QED
      BY <3>5
  <2> QED
    BY <1>2, <2>1, <2>2, <2>3
<1>20. DegreesTrue'
  <2>1. \A p \in LoadOrder : degree'[p] = Cardinality(Into(p)')
    BY <1>7
  <2> HIDE DEF T, u, l, added
  <2> QED
    BY <1>3, <1>15, <1>16, <1>18, <1>19, <2>1 DEF DegreesTrue
<1>21. SortedInOrder'
  <2>1. \A i \in 1 .. Len(sorted') : sorted'[i] \in Pending'
    BY SMTT(30), <1>3, <1>5, <1>17 DEF StartupInv, SortedInOrder
  <2>2. ASSUME NEW i \in 1 .. Len(sorted'), NEW q \in DOMAIN shape, Precedes(q, sorted'[i])
        PROVE  \E j \in 1 .. i - 1 : sorted'[j] = q
    <3>1. CASE i \in 1 .. n
      <4>1. \E j \in 1 .. i - 1 : sorted[j] = q
        BY <1>17, <2>2, <3>1 DEF StartupInv, SortedInOrder
      <4>2. \A j \in 1 .. i - 1 : j \in 1 .. n
        BY <1>3, <3>1
      <4> QED
        BY <1>17, <4>1, <4>2
    <3>2. CASE i = n + 1
      <4>1. u \in DOMAIN shape /\ Precedes(q, u)
        BY <1>5, <1>17, <2>2, <3>2 DEF Pending
      <4>2. PICK e \in graph : e[1] = q /\ e[3] = u
        BY <1>1, <4>1 DEF StartupInv, GraphTrue
      <4>3. Into(u) = {}
        BY <1>2, <1>5, <1>7, FS_EmptySet
      <4>4. q \in Done
        BY <4>2, <4>3 DEF Into
      <4>5. PICK j \in 1 .. n : sorted[j] = q
        BY <4>4 DEF Done
      <4>6. j \in 1 .. i - 1 /\ sorted'[j] = q
        BY <1>3, <1>17, <3>2, <4>5
      <4> QED
        BY <4>6
    <3> QED
      BY <1>3, <1>17, <3>1, <3>2
  <2>3. \A p : \A q : Precedes(q, p)' <=> Precedes(q, p)
    BY <1>1 DEF Precedes
  <2> QED
    BY <1>1, <2>1, <2>2, <2>3 DEF SortedInOrder
<1>22. GraphTrue'
  BY <1>1 DEF StartupInv, GraphTrue, Pending, Precedes
<1>23. NothingYet' /\ LastOffers' /\ RefusedStuck'
  BY <1>1 DEF NothingYet, LastOffers, RefusedStuck
<1> QED
  BY <1>12, <1>20, <1>21, <1>22, <1>23 DEF StartupInv

LEMMA EndSortKeeps == StartupInv /\ EndSort => StartupInv'
<1> SUFFICES ASSUME StartupInv, EndSort
             PROVE  StartupInv'
  OBVIOUS
<1>1. /\ startPhase = "sort" /\ waiting = <<>> /\ startPhase' \in {"init", "refused"}
      /\ startPhase' = "refused" => Len(sorted) # Cardinality(Pending)
      /\ UNCHANGED <<shape, providedBy, graph, degree, waiting, sorted, initialised>>
  BY DEF EndSort
<1>2. StartupTypeOK'
  BY <1>1 DEF StartupInv, StartupTypeOK
<1>3. NothingYet' /\ LastOffers' /\ GraphTrue' /\ DegreesTrue'
  BY <1>1 DEF NothingYet, LastOffers, GraphTrue, DegreesTrue
<1>4. SortedInOrder'
  BY <1>1 DEF StartupInv, SortedInOrder, Pending, Precedes
<1>5. RefusedStuck'
  <2> SUFFICES ASSUME startPhase' = "refused"
               PROVE  \E S \in SUBSET Pending \ {{}} : \A p \in S : \E q \in DOMAIN shape :
                        Precedes(q, p) /\ (q \in S \/ q \notin Pending)
    BY <1>1 DEF RefusedStuck, Pending, Precedes
  <2> DEFINE S == Pending \ Done
  <2>1. Pending \in SUBSET LoadOrder /\ sorted \in Seq(LoadOrder) /\ Len(sorted) \in Nat /\ Done \subseteq Pending
    BY PendingInOrder DEF StartupInv, StartupTypeOK, SortedInOrder, Done
  <2>2. S # {}
    <3> SUFFICES ASSUME Pending = Done
                 PROVE  FALSE
      BY <2>1
    <3>1. \A i, j \in 1 .. Len(sorted) : i # j => sorted[i] # sorted[j]
      BY <1>1 DEF StartupInv, DegreesTrue
    <3>2. DOMAIN sorted = 1 .. Len(sorted) /\ sorted \in [1 .. Len(sorted) -> Pending]
      BY <2>1 DEF Done
    <3>3. sorted \in Bijection(1 .. Len(sorted), Pending)
      BY <3>1, <3>2 DEF Bijection, Injection, Surjection, IsInjective, Done
    <3>4. IsFiniteSet(1 .. Len(sorted)) /\ Cardinality(1 .. Len(sorted)) = Len(sorted)
      BY SMTT(30), <2>1, FS_Interval
    <3>5. Cardinality(Pending) = Len(sorted)
      BY <3>3, <3>4, FS_Bijection DEF ExistsBijection
    <3> QED
      BY <1>1, <3>5
  <2>3. ASSUME NEW p \in S
        PROVE  \E q \in DOMAIN shape : Precedes(q, p) /\ (q \in S \/ q \notin Pending)
    <3>1. degree[p] # 0 /\ degree[p] = Cardinality(Into(p)) /\ p \in LoadOrder
      BY <1>1, <2>1 DEF StartupInv, DegreesTrue
    <3>2. PICK e \in Into(p) : TRUE
      BY <3>1, FS_EmptySet
    <3>3. e \in graph /\ e[3] = p /\ e[1] \notin Done
      BY <3>2 DEF Into
    <3>4. e[1] \in DOMAIN shape /\ Precedes(e[1], p)
      BY <1>1, <3>3 DEF StartupInv, GraphTrue
    <3> QED
      BY <3>3, <3>4
  <2> QED
    BY <2>2, <2>3
<1> QED
  BY <1>2, <1>3, <1>4, <1>5 DEF StartupInv

LEMMA StartupStep == StartupInv /\ [StartupNext]_startupVars => StartupInv'
<1> SUFFICES ASSUME StartupInv, [StartupNext]_startupVars
             PROVE  StartupInv'
  OBVIOUS
<1>1. CASE RegisterPlugin
  BY <1>1, RegisterKeeps
<1>2. CASE StartFails
  <2>1. StartupTypeOK'
    BY <1>2 DEF StartFails, StartupInv, StartupTypeOK
  <2> QED
    BY <1>2, <2>1, OrderKept DEF StartFails, StartupInv
<1>3. CASE BuildGraph
  BY <1>3, BuildKeeps
<1>4. CASE TakeFirst
  BY <1>4, TakeFirstKeeps
<1>5. CASE EndSort
  BY <1>5, EndSortKeeps
<1>6. CASE InitialisePlugin
  <2> DEFINE p == sorted[initialised + 1]
  <2>1. /\ startPhase' \in {"init", "failed"} /\ UNCHANGED <<shape, graph, degree, waiting, sorted>>
        /\ initialised' \in {initialised, initialised + 1} /\ initialised < Len(sorted)
        /\ \/ providedBy' = providedBy
           \/ providedBy' = [x \in PluginServices |-> IF x \in shape[p].publishes THEN p ELSE providedBy[x]]
    BY <1>6 DEF InitialisePlugin
  <2>2. p \in 0 .. PluginCount /\ initialised' \in 0 .. Len(sorted)
    <3>1. sorted \in Seq(LoadOrder) /\ initialised \in 0 .. Len(sorted) /\ initialised + 1 \in 1 .. Len(sorted)
      BY <2>1 DEF StartupInv, StartupTypeOK
    <3>2. p \in LoadOrder
      BY <3>1
    <3> QED
      BY <2>1, <3>1, <3>2 DEF LoadOrder
  <2>3. providedBy' \in [PluginServices -> 0 .. PluginCount]
    <3> HIDE DEF p
    <3> QED
      BY <2>1, <2>2 DEF StartupInv, StartupTypeOK
  <2>4. StartupTypeOK'
    BY <2>1, <2>2, <2>3 DEF StartupInv, StartupTypeOK
  <2> QED
    BY <2>1, <2>4, OrderKept DEF StartupInv
<1>7. CASE PluginsReady
  <2>1. StartupTypeOK'
    BY <1>7 DEF PluginsReady, StartupInv, StartupTypeOK
  <2> QED
    BY <1>7, <2>1, OrderKept DEF PluginsReady, StartupInv
<1>8. CASE Started
  <2>1. StartupTypeOK'
    BY <1>8 DEF Started, StartupInv, StartupTypeOK
  <2> QED
    BY <1>8, <2>1, OrderKept DEF Started, StartupInv
<1>9. CASE UNCHANGED startupVars
  <2> USE <1>9 DEF startupVars, StartupInv
  <2>1. StartupTypeOK' /\ NothingYet' /\ LastOffers'
    BY DEF StartupTypeOK, NothingYet, LastOffers
  <2>2. Pending' = Pending /\ \A q, p : Precedes(q, p)' <=> Precedes(q, p)
    BY DEF Pending, Precedes
  <2>3. Done' = Done /\ \A p : Into(p)' = Into(p)
    BY DEF Done, Into
  <2>5. GraphTrue' /\ SortedInOrder' /\ RefusedStuck'
    <3>1. GraphTrue'
      BY <2>2 DEF GraphTrue
    <3>2. SortedInOrder'
      BY <2>2 DEF SortedInOrder
    <3>3. RefusedStuck'
      BY <2>2 DEF RefusedStuck
    <3> QED
      BY <3>1, <3>2, <3>3
  <2>4. DegreesTrue'
    BY <2>2, <2>3 DEF DegreesTrue
  <2> QED
    BY <2>1, <2>4, <2>5
<1> QED
  BY <1>1, <1>2, <1>3, <1>4, <1>5, <1>6, <1>7, <1>8, <1>9 DEF StartupNext

-----------------------------------------------------------------------------
(* The theorems *)

\* Types (the maps of sortPlugins and loadPlugins).
THEOREM StartupTypesCorrect == StartupSpec => []StartupTypeOK
<1>1. StartupInv => StartupTypeOK
  BY DEF StartupInv
<1> QED
  BY <1>1, StartupInitially, StartupStep, PTL DEF StartupSpec

\* For any number of plugins and whatever they offer and want, none is initialised before
\* one it depends on, and a start is refused only if plugins wait for each other or for
\* one that is never initialised (sortPlugins, loadPlugins).
THEOREM DependenciesFirstCorrect == StartupSpec => []DependenciesFirst
<1>1. StartupInv => DependenciesFirst
  <2> SUFFICES ASSUME StartupInv
               PROVE  DependenciesFirst
    OBVIOUS
  <2>1. initialised \in 0 .. Len(sorted) /\ Len(sorted) \in Nat
    BY DEF StartupInv, StartupTypeOK
  <2>2. \A i \in 1 .. initialised : i \in 1 .. Len(sorted)
    BY <2>1
  <2> QED
    BY <2>2 DEF StartupInv, SortedInOrder, RefusedStuck, DependenciesFirst
<1> QED
  BY <1>1, StartupInitially, StartupStep, PTL DEF StartupSpec
=============================================================================
