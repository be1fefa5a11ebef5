------------------------------ MODULE KeyStore ------------------------------
(***************************************************************************)
(* core/backend/src/services/keystore.ts and jwt.ts: the keys that sign    *)
(* the tokens of calls between services. Every instance calls sign, and    *)
(* nothing keeps two calls from rotating at once; a call may fail or its   *)
(* instance may crash at any await. Time is counted in ticks.              *)
(***************************************************************************)
EXTENDS Integers, FiniteSets

CONSTANTS
  Signers,     \* bound: calls of jwtService.sign at once
  Rotation,    \* ROTATION_INTERVAL_MS
  Grace,       \* ROTATION_GRACE_PERIOD_MS
  Life,        \* expiresIn of the tokens
  MaxCall,     \* bound: ticks a call lasts, from its first query to its signature
  MaxTime, MaxKeys  \* bounds of a run

ASSUME TimeAssumption ==
  /\ Rotation \in Nat /\ Grace \in Nat /\ Life \in Nat /\ MaxCall \in Nat
  /\ MaxTime \in Nat /\ MaxKeys \in Nat
  /\ MaxCall + Life <= Grace

VARIABLES
  now,
  keys,        \* rows of jwt_keys
  generated,   \* number of keys ever generated; a kid is one of these numbers
  signing,     \* each call: where it is, the key it has selected, when it started
  tokens       \* tokens that have not expired

keyVars == <<now, keys, generated, signing, tokens>>

Never == -1    \* expiresAt is null
Key == [kid : Nat, createdAt : Nat, expiresAt : Nat \cup {Never}]
Call == [pc : {"idle", "expireOld", "generate", "cleanup", "sign"},
         kid : Nat \cup {0}, since : Nat]
Token == [kid : Nat, until : Nat]

NoCall == [pc |-> "idle", kid |-> 0, since |-> 0]

KeyInit ==
  /\ now = 0 /\ keys = {} /\ generated = 0 /\ tokens = {}
  /\ signing = [s \in Signers |-> NoCall]

\* Definitions named ...Mutant are plausible bugs, used only to show that the
\* properties below can fail.

ActiveKeys == {k \in keys : k.expiresAt = Never}
Newest == {k \in ActiveKeys : \A other \in ActiveKeys : other.createdAt <= k.createdAt}

Goes(s, pc) == signing' = [signing EXCEPT ![s].pc = pc]

-----------------------------------------------------------------------------
\* The first query. Several keys may be equally new.
GetSigningKey(s) ==
  /\ signing[s].pc = "idle"
  /\ \/ /\ ActiveKeys = {}
        /\ signing' = [signing EXCEPT ![s] = [pc |-> "generate", kid |-> 0, since |-> now]]
     \/ \E k \in Newest :
          signing' = [signing EXCEPT ![s] =
            [pc |-> IF now - k.createdAt > Rotation THEN "expireOld" ELSE "sign",
             kid |-> k.kid, since |-> now]]
  /\ UNCHANGED <<now, keys, generated, tokens>>

ExpireOldMutant(s) ==
  /\ signing[s].pc = "expireOld"
  /\ keys' = {IF k.kid = signing[s].kid THEN [k EXCEPT !.expiresAt = k.createdAt + Grace] ELSE k : k \in keys}
  /\ Goes(s, "generate")
  /\ UNCHANGED <<now, generated, tokens>>

\* The update of the old key; it may be gone.
ExpireOld(s) ==
  /\ signing[s].pc = "expireOld"
  /\ keys' = {IF k.kid = signing[s].kid THEN [k EXCEPT !.expiresAt = now + Grace] ELSE k : k \in keys}
  /\ Goes(s, "generate")
  /\ UNCHANGED <<now, generated, tokens>>

GenerateKey(s) ==
  /\ signing[s].pc = "generate" /\ generated < MaxKeys
  /\ generated' = generated + 1
  /\ keys' = keys \cup {[kid |-> generated', createdAt |-> now, expiresAt |-> Never]}
  /\ signing' = [signing EXCEPT ![s].pc = "cleanup", ![s].kid = generated']
  /\ UNCHANGED <<now, tokens>>

CleanupKeys(s) ==
  /\ signing[s].pc = "cleanup"
  /\ keys' = {k \in keys : k.expiresAt = Never \/ k.expiresAt >= now}
  /\ Goes(s, "sign")
  /\ UNCHANGED <<now, generated, tokens>>

Sign(s) ==
  /\ signing[s].pc = "sign"
  /\ tokens' = tokens \cup {[kid |-> signing[s].kid, until |-> now + Life]}
  /\ signing' = [signing EXCEPT ![s] = NoCall]
  /\ UNCHANGED <<now, keys, generated>>

\* A query fails, or the instance crashes.
SigningFails(s) ==
  /\ signing[s].pc # "idle"
  /\ signing' = [signing EXCEPT ![s] = NoCall]
  /\ UNCHANGED <<now, keys, generated, tokens>>

Tick ==
  /\ now < MaxTime
  /\ \A s \in Signers : signing[s].pc # "idle" => now - signing[s].since < MaxCall
  /\ now' = now + 1
  /\ tokens' = {t \in tokens : t.until >= now'}
  /\ UNCHANGED <<keys, generated, signing>>

SignerStep(s) ==
  \/ GetSigningKey(s) \/ ExpireOld(s) \/ GenerateKey(s) \/ CleanupKeys(s) \/ Sign(s)
  \/ SigningFails(s)

KeyNext == Tick \/ \E s \in Signers : SignerStep(s)

KeySpec == KeyInit /\ [][KeyNext]_keyVars

-----------------------------------------------------------------------------
(* Properties *)

\* Types.
KeyTypeOK ==
  /\ now \in Nat /\ keys \subseteq Key /\ generated \in Nat
  /\ signing \in [Signers -> Call] /\ tokens \subseteq Token

\* The keys getPublicJWKS publishes, by which jwtService.verify finds a token's.
Published == {k.kid : k \in keys}

\* core/backend/src/services/keystore.ts:117, "Return all non-revoked keys (even if
\* old, for grace period)": as long as a token has not expired every instance can
\* verify it, although its signer may have selected the key before another call
\* retired it, and although any call deletes what has expired.
TokensVerify == \A t \in tokens : t.kid \in Published
=============================================================================
