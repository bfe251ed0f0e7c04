------------------------------ MODULE Passkeys ------------------------------
(***************************************************************************)
(* The passkeys of one account (account/passkey_service.go;                *)
(* account/passkey_store.go; account/passkey_repo.go).                     *)
(*                                                                         *)
(* A ceremony is begun in one request and finished in another; its session *)
(* lives in Redis in between and is taken out by whoever finishes.  What   *)
(* the WebAuthn library verifies is a choice: the answer holds or not.     *)
(***************************************************************************)
EXTENDS Integers, FiniteSets

CONSTANTS
    PasskeyRequests,
    Credentials,      \* credentials the account's devices have
    Ceremonies,       \* session ids
    MaxPasskeys,      \* passkeyMaxPerAccount
    NoCeremony

ASSUME MaxPasskeysAssumption == MaxPasskeys \in Nat \ {0} /\ IsFiniteSet(PasskeyRequests)

VARIABLES
    passkeys,         \* rows of account_passkeys
    ceremonies,       \* sessions in Redis, with their kind
    begun,            \* session ids that were given out
    passkeyRequest    \* what every request does

passkeyVars == <<passkeys, ceremonies, begun, passkeyRequest>>
ceremonyStore == <<ceremonies, begun>>

Kinds == {"register", "login"}
PasskeyIdle == [pc |-> "idle", at |-> NoCeremony]

PasskeyTypeOK ==
    /\ passkeys \in SUBSET Credentials
    /\ ceremonies \in SUBSET [id : Ceremonies, kind : Kinds] /\ begun \in SUBSET Ceremonies
    /\ passkeyRequest \in [PasskeyRequests ->
         [pc : {"idle", "save", "count", "insert", "touch"},
          at : Ceremonies \union Credentials \union {NoCeremony}]]

PasskeyInit ==
    /\ passkeys = {} /\ ceremonies = {} /\ begun = {}
    /\ passkeyRequest = [r \in PasskeyRequests |-> PasskeyIdle]
-----------------------------------------------------------------------------
PasskeyAt(r, pc) == passkeyRequest[r].pc = pc
PasskeyGoes(r, pc, at) == passkeyRequest' = [passkeyRequest EXCEPT ![r] = [pc |-> pc, at |-> at]]
PasskeyEnds(r) == PasskeyGoes(r, "idle", NoCeremony)

Room == Cardinality(passkeys) < MaxPasskeys

\* BeginPasskeyRegister refuses an account that has all its passkeys.
BeginPasskeyRegister(r) ==
    /\ PasskeyAt(r, "idle") /\ Room /\ PasskeyGoes(r, "save", NoCeremony)
    /\ UNCHANGED <<passkeys, ceremonyStore>>

SaveCeremony(s, kind) ==
    /\ s \notin begun /\ begun' = begun \union {s}
    /\ ceremonies' = ceremonies \union {[id |-> s, kind |-> kind]}

RegisterSaved(r, s) ==
    /\ PasskeyAt(r, "save") /\ SaveCeremony(s, "register") /\ PasskeyEnds(r)
    /\ UNCHANGED passkeys

BeginPasskeyLogin(r, s) ==
    /\ PasskeyAt(r, "idle") /\ SaveCeremony(s, "login")
    /\ UNCHANGED <<passkeys, passkeyRequest>>

\* passkeySessionTTL.
ExpireCeremony(e) ==
    /\ ceremonies' = ceremonies \ {e}
    /\ UNCHANGED <<passkeys, begun, passkeyRequest>>
-----------------------------------------------------------------------------
\* Consume is one GETDEL.
Consume(e) == ceremonies' = ceremonies \ {e}

Finish(r, e, kind, pc, at) ==
    /\ PasskeyAt(r, "idle") /\ e.kind = kind /\ PasskeyGoes(r, pc, at)
    /\ Consume(e)
    /\ UNCHANGED <<passkeys, begun>>

\* The wrong kind of session is taken all the same, and the request refused.
FinishWrong(r, e) ==
    /\ PasskeyAt(r, "idle") /\ Consume(e)
    /\ UNCHANGED <<passkeys, begun, passkeyRequest>>

\* FinishPasskeyRegister: the session, then the credential's row and the count
\* are read, then the row is inserted; nothing holds the count meanwhile.
FinishPasskeyRegister(r, e, k) == Finish(r, e, "register", "count", k)

\* Nothing is counted again.
CountNothing(r) ==
    /\ PasskeyAt(r, "count")
    /\ IF passkeyRequest[r].at \notin passkeys
       THEN PasskeyGoes(r, "insert", passkeyRequest[r].at) ELSE PasskeyEnds(r)
    /\ UNCHANGED <<passkeys, ceremonyStore>>

CountPasskeys(r) ==
    /\ PasskeyAt(r, "count")
    /\ IF passkeyRequest[r].at \notin passkeys /\ Room
       THEN PasskeyGoes(r, "insert", passkeyRequest[r].at) ELSE PasskeyEnds(r)
    /\ UNCHANGED <<passkeys, ceremonyStore>>

\* CreatePasskey, behind the unique index of credential_id.
CreatePasskey(r) ==
    /\ PasskeyAt(r, "insert") /\ PasskeyEnds(r)
    /\ passkeys' = passkeys \union {passkeyRequest[r].at}
    /\ UNCHANGED <<ceremonyStore>>

\* FinishPasskeyLogin: the credential is found twice, before and after the
\* answer is verified, and its row touched; a row deleted meanwhile stays so.
FinishPasskeyLogin(r, e, k) == k \in passkeys /\ Finish(r, e, "login", "touch", k)

TouchPasskey(r) ==
    /\ PasskeyAt(r, "touch") /\ PasskeyEnds(r)
    /\ UNCHANGED <<passkeys, ceremonyStore>>

DeletePasskey(k) ==
    /\ k \in passkeys /\ passkeys' = passkeys \ {k}
    /\ UNCHANGED <<ceremonyStore, passkeyRequest>>

\* The answer does not hold, a store fails, or the process dies.
CeremonyFails(r) ==
    /\ ~PasskeyAt(r, "idle") /\ PasskeyEnds(r)
    /\ UNCHANGED <<passkeys, ceremonyStore>>

PasskeyNext ==
    \/ \E r \in PasskeyRequests :
         \/ BeginPasskeyRegister(r) \/ CountPasskeys(r) \/ CreatePasskey(r) \/ TouchPasskey(r)
         \/ CeremonyFails(r)
         \/ \E s \in Ceremonies : RegisterSaved(r, s) \/ BeginPasskeyLogin(r, s)
         \/ \E e \in ceremonies :
              \/ FinishWrong(r, e)
              \/ \E k \in Credentials : FinishPasskeyRegister(r, e, k) \/ FinishPasskeyLogin(r, e, k)
    \/ \E e \in ceremonies : ExpireCeremony(e)
    \/ \E k \in Credentials : DeletePasskey(k)

PasskeySafety == PasskeyInit /\ [][PasskeyNext]_passkeyVars
-----------------------------------------------------------------------------
\* The limit of passkeys (account/passkey_service.go:95-101) may be passed by
\* those that were counted together and by no others: rows and inserts under
\* way exceed it by less than the requests that run at once, because every
\* finish counts again, however many ceremonies were begun below the limit.
PasskeysBounded ==
    Cardinality(passkeys) + Cardinality({r \in PasskeyRequests : PasskeyAt(r, "insert")})
      <= MaxPasskeys + Cardinality(PasskeyRequests) - 1
=============================================================================
