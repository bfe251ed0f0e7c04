------------------------------ MODULE Sessions ------------------------------
(***************************************************************************)
(* The token of one account, kept in its row and in Redis                  *)
(* (account/service.go: Login, Logout, ChangePassword, Rename;             *)
(* account/passkey_service.go:persistLogin; account/token_cache.go;        *)
(* middleware/jwt/jwt.go:BindToken).                                       *)
(*                                                                         *)
(* A token is made of the account's id and name and of nothing else: it is *)
(* modelled by the name.  Every operation writes the row first and the     *)
(* cache after it, in two calls that nothing joins; the check of a request *)
(* asks the cache first and writes what it found in the row back to it.    *)
(***************************************************************************)
EXTENDS Integers

CONSTANTS SessionRequests, UserNames, FirstName, NoToken

ASSUME FirstNameAssumption == FirstName \in UserNames

VARIABLES
    username, token,    \* the row of accounts
    tokenCache,         \* the key in Redis, with its history
    sessionRequest      \* what every request does

sessionVars == <<username, token, tokenCache, sessionRequest>>

Tokens == UserNames \union {NoToken}
NotCached == [token |-> NoToken, late |-> FALSE]
SessionIdle == [pc |-> "idle", token |-> NoToken, late |-> FALSE]

\* "late" is history: the row was written while the request was on its way to
\* the cache, or the cache could not be written.
SessionTypeOK ==
    /\ username \in UserNames /\ token \in Tokens
    /\ tokenCache \in [token : Tokens, late : BOOLEAN]
    /\ sessionRequest \in [SessionRequests ->
         [pc : {"idle", "sign", "lookup", "set", "drop"}, token : Tokens, late : BOOLEAN]]

SessionInit ==
    /\ username = FirstName /\ token = NoToken /\ tokenCache = NotCached
    /\ sessionRequest = [r \in SessionRequests |-> SessionIdle]
-----------------------------------------------------------------------------
SessionAt(r, pc) == sessionRequest[r].pc = pc
SessionGoes(r, pc, t) ==
    sessionRequest' = [sessionRequest EXCEPT ![r] = [SessionIdle EXCEPT !.pc = pc, !.token = t]]

\* The row gets token t; what others are about to write to the cache is old.
WriteRow(r, t, pc) ==
    /\ token' = t
    /\ sessionRequest' = [q \in SessionRequests |->
         IF q = r THEN [SessionIdle EXCEPT !.pc = pc, !.token = t]
         ELSE [sessionRequest[q] EXCEPT !.late = @ \/ sessionRequest[q].pc # "idle"]]

\* Login, VerifyEmail and FinishPasskeyLogin: the account is read, and the
\* token made of the name it had then.
ReadAccount(r) ==
    /\ SessionAt(r, "idle") /\ SessionGoes(r, "sign", username)
    /\ UNCHANGED <<username, token, tokenCache>>

SaveToken(r) ==
    /\ SessionAt(r, "sign") /\ WriteRow(r, sessionRequest[r].token, "set")
    /\ UNCHANGED <<username, tokenCache>>

\* Logout and ChangePassword clear the token of the row.
EndSession(r) ==
    /\ SessionAt(r, "idle") /\ WriteRow(r, NoToken, "drop")
    /\ UNCHANGED <<username, tokenCache>>

\* Rename to a name that is free: name and token in one statement.
Rename(r, n) ==
    /\ SessionAt(r, "idle") /\ username' = n /\ WriteRow(r, n, "set")
    /\ UNCHANGED tokenCache

\* BindToken: a hit is accepted or refused and changes nothing; a miss, or a
\* cache that does not answer, asks the row.
MissToken(r, t) ==
    /\ SessionAt(r, "idle") /\ SessionGoes(r, "lookup", t)
    /\ UNCHANGED <<username, token, tokenCache>>

LookupToken(r) ==
    /\ SessionAt(r, "lookup")
    /\ IF token = sessionRequest[r].token THEN SessionGoes(r, "set", token)
       ELSE SessionGoes(r, "idle", NoToken)
    /\ UNCHANGED <<username, token, tokenCache>>
-----------------------------------------------------------------------------
\* writeTokenCache and the refill of BindToken.
SetTokenCache(r) ==
    /\ SessionAt(r, "set") /\ SessionGoes(r, "idle", NoToken)
    /\ tokenCache' = [token |-> sessionRequest[r].token, late |-> sessionRequest[r].late]
    /\ UNCHANGED <<username, token>>

\* A logout that forgets the cache.
KeepTokenCache(r) ==
    /\ SessionAt(r, "drop") /\ SessionGoes(r, "idle", NoToken)
    /\ UNCHANGED <<username, token, tokenCache>>

\* deleteTokenCache.
DropTokenCache(r) ==
    /\ SessionAt(r, "drop") /\ SessionGoes(r, "idle", NoToken)
    /\ tokenCache' = NotCached
    /\ UNCHANGED <<username, token>>

\* Redis fails, or the process dies, after the row was written: logged only.
MissTokenCache(r) ==
    /\ sessionRequest[r].pc \in {"set", "drop"} /\ SessionGoes(r, "idle", NoToken)
    /\ tokenCache' = IF tokenCache = NotCached THEN NotCached ELSE [tokenCache EXCEPT !.late = TRUE]
    /\ UNCHANGED <<username, token>>

\* defaultTokenCacheTTL.
ExpireToken ==
    /\ tokenCache # NotCached /\ tokenCache' = NotCached
    /\ UNCHANGED <<username, token, sessionRequest>>

SessionNext ==
    \/ \E r \in SessionRequests :
         \/ ReadAccount(r) \/ SaveToken(r) \/ EndSession(r) \/ LookupToken(r)
         \/ SetTokenCache(r) \/ DropTokenCache(r) \/ MissTokenCache(r)
         \/ \E n \in UserNames : Rename(r, n) \/ MissToken(r, n)
    \/ ExpireToken

SessionSafety == SessionInit /\ [][SessionNext]_sessionVars
-----------------------------------------------------------------------------
\* "Login establishes the service's current authentication state, logout
\* invalidates it" (.spec/backend/account/spec.md): the cache, which is asked
\* first, agrees with the row, unless the request that wrote the row last is
\* about to write the cache, or a write of the cache failed or ran across a
\* later change.
CacheFollowsRow ==
    \/ tokenCache.token \in {NoToken, token} \/ tokenCache.late
    \/ \E r \in SessionRequests :
         /\ sessionRequest[r].pc \in {"set", "drop"} /\ ~sessionRequest[r].late
         /\ sessionRequest[r].token = token
=============================================================================
