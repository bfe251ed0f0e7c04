---------------------------- MODULE AccessProofs ----------------------------
(***************************************************************************)
(* What guards an account, its clients and its uploads, for any number of  *)
(* requests and workers: the token in the cache against the one in the     *)
(* row, the limit of passkeys, the counters in Redis that refuse a client, *)
(* names and addresses at sign-up, the objects of published media, and the *)
(* composer that publishes them once.  The types of the parts come last.   *)
(***************************************************************************)
EXTENDS Sessions, Passkeys, Traffic, SignUp, Media, PublishPage, FiniteSetTheorems,
        WellFoundedInduction, TLAPS

-----------------------------------------------------------------------------
\* Whoever is about to write the cache, and across whose way no change of the
\* row came, carries the token of the row.
OnTime(r) == sessionRequest[r].pc \in {"set", "drop"} /\ ~sessionRequest[r].late

Carries(r) ==
    /\ sessionRequest[r] \in [pc : {"idle", "sign", "lookup", "set", "drop"},
                              token : Tokens, late : BOOLEAN]
    /\ sessionRequest[r].pc = "drop" => sessionRequest[r].token = NoToken
    /\ OnTime(r) => sessionRequest[r].token = token

SessionInv ==
    /\ DOMAIN sessionRequest = SessionRequests
    /\ \A r \in SessionRequests : Carries(r)
    /\ username \in UserNames /\ token \in Tokens
    /\ CacheFollowsRow

\* A cached token that is not the row's is explained: by a request that is
\* about to write the cache, by a write that failed, or by one that ran across
\* a later change (account/service.go, middleware/jwt/jwt.go:100-131).
THEOREM CacheIsExplained == SessionSafety => []CacheFollowsRow
<1> USE DEF Tokens, SessionIdle, NotCached
<1>1. ASSUME FirstName \in UserNames, SessionInit PROVE SessionInv
  BY <1>1 DEF SessionInit, SessionInv, Carries, OnTime, CacheFollowsRow
<1>2. SessionInv /\ [SessionNext]_sessionVars => SessionInv'
  <2> SUFFICES ASSUME SessionInv, [SessionNext]_sessionVars PROVE SessionInv'
    OBVIOUS
  <2>0. ASSUME NEW r \in SessionRequests, NEW t \in Tokens,
               NEW pc \in {"idle", "sign", "lookup", "set", "drop"}, SessionGoes(r, pc, t)
        PROVE  /\ DOMAIN sessionRequest' = SessionRequests
               /\ sessionRequest'[r] = [pc |-> pc, token |-> t, late |-> FALSE]
               /\ \A q \in SessionRequests \ {r} : sessionRequest'[q] = sessionRequest[q]
    BY <2>0 DEF SessionGoes, SessionInv
  <2>1. ASSUME NEW r \in SessionRequests, NEW t \in Tokens, NEW pc \in {"set", "drop"},
               WriteRow(r, t, pc), pc = "drop" => t = NoToken, username' \in UserNames,
               UNCHANGED tokenCache
        PROVE  SessionInv'
    <3>1. /\ DOMAIN sessionRequest' = SessionRequests /\ token' = t
          /\ sessionRequest'[r] = [pc |-> pc, token |-> t, late |-> FALSE]
      BY <2>1 DEF WriteRow
    <3>2. ASSUME NEW q \in SessionRequests \ {r}
          PROVE  /\ sessionRequest'[q] \in [pc : {"idle", "sign", "lookup", "set", "drop"},
                                             token : Tokens, late : BOOLEAN]
                 /\ sessionRequest'[q].pc = sessionRequest[q].pc
                 /\ sessionRequest'[q].token = sessionRequest[q].token
                 /\ sessionRequest'[q].pc # "idle" => sessionRequest'[q].late
      <4>1. Carries(q) /\ sessionRequest'[q] =
              [sessionRequest[q] EXCEPT !.late = @ \/ sessionRequest[q].pc # "idle"]
        BY <2>1 DEF WriteRow, SessionInv
      <4> QED
        BY <4>1 DEF Carries
    <3>3. OnTime(r)' /\ CacheFollowsRow'
      BY <3>1 DEF OnTime, CacheFollowsRow
    <3>4. Carries(r)'
      BY <2>1, <3>1 DEF Carries, OnTime
    <3>5. ASSUME NEW q \in SessionRequests \ {r} PROVE Carries(q)'
      BY <3>2, <3>5 DEF SessionInv, Carries, OnTime
    <3> QED
      BY <2>1, <3>1, <3>3, <3>4, <3>5 DEF SessionInv
  <2>2. ASSUME NEW r \in SessionRequests, SaveToken(r) PROVE SessionInv'
    BY <2>1, <2>2 DEF SaveToken, SessionAt, SessionInv, Carries
  <2>3. ASSUME NEW r \in SessionRequests, EndSession(r) PROVE SessionInv'
    BY <2>1, <2>3 DEF EndSession, SessionInv
  <2>4. ASSUME NEW r \in SessionRequests, NEW n \in UserNames, Rename(r, n) PROVE SessionInv'
    BY <2>1, <2>4 DEF Rename
  <2>5. ASSUME NEW r \in SessionRequests,
               ReadAccount(r) \/ \E n \in UserNames : MissToken(r, n)
        PROVE  SessionInv'
    <3>1. /\ UNCHANGED <<username, token, tokenCache>> /\ ~OnTime(r)
          /\ \E t \in Tokens, pc \in {"sign", "lookup"} : SessionGoes(r, pc, t)
      BY <2>5 DEF ReadAccount, MissToken, SessionAt, SessionInv, Carries, OnTime
    <3>2. /\ DOMAIN sessionRequest' = SessionRequests
          /\ \E t \in Tokens, pc \in {"sign", "lookup"} :
                sessionRequest'[r] = [pc |-> pc, token |-> t, late |-> FALSE]
          /\ \A q \in SessionRequests \ {r} : sessionRequest'[q] = sessionRequest[q]
      BY <2>0, <3>1
    <3>3. CacheFollowsRow'
      BY <3>1, <3>2 DEF SessionInv, Carries, OnTime, CacheFollowsRow
    <3>4. Carries(r)'
      BY <3>1, <3>2 DEF SessionInv, Carries, OnTime
    <3>5. ASSUME NEW q \in SessionRequests \ {r} PROVE Carries(q)'
      BY <3>1, <3>2 DEF SessionInv, Carries, OnTime
    <3> QED
      BY <3>1, <3>2, <3>3, <3>4, <3>5 DEF SessionInv
  <2>6. ASSUME NEW r \in SessionRequests, LookupToken(r) PROVE SessionInv'
    <3>1. /\ UNCHANGED <<username, token, tokenCache>> /\ ~OnTime(r)
          /\ SessionGoes(r, "set", token) \/ SessionGoes(r, "idle", NoToken)
      BY <2>6 DEF LookupToken, SessionAt, SessionInv, Carries, OnTime
    <3>2. /\ DOMAIN sessionRequest' = SessionRequests
          /\ sessionRequest'[r] \in {[pc |-> "set", token |-> token, late |-> FALSE],
                                      [pc |-> "idle", token |-> NoToken, late |-> FALSE]}
          /\ \A q \in SessionRequests \ {r} : sessionRequest'[q] = sessionRequest[q]
      BY <2>0, <3>1 DEF SessionInv
    <3>3. CacheFollowsRow'
      BY <3>1, <3>2 DEF SessionInv, Carries, OnTime, CacheFollowsRow
    <3>4. Carries(r)'
      <4>1. token \in Tokens /\ token' = token
        BY <3>1 DEF SessionInv
      <4>2. CASE sessionRequest'[r] = [pc |-> "set", token |-> token, late |-> FALSE]
        BY <4>1, <4>2 DEF Carries, OnTime
      <4>3. CASE sessionRequest'[r] = [pc |-> "idle", token |-> NoToken, late |-> FALSE]
        BY <4>3 DEF Carries, OnTime
      <4> QED
        BY <3>2, <4>2, <4>3
    <3>5. ASSUME NEW q \in SessionRequests \ {r} PROVE Carries(q)'
      BY <3>1, <3>2 DEF SessionInv, Carries, OnTime
    <3> QED
      BY <3>1, <3>2, <3>3, <3>4, <3>5 DEF SessionInv
  <2>7. ASSUME NEW r \in SessionRequests, SetTokenCache(r) PROVE SessionInv'
    BY <2>7 DEF SetTokenCache, SessionAt, SessionGoes, SessionInv, Carries, OnTime, CacheFollowsRow
  <2>8. ASSUME NEW r \in SessionRequests, DropTokenCache(r) PROVE SessionInv'
    BY <2>8 DEF DropTokenCache, SessionAt, SessionGoes, SessionInv, Carries, OnTime, CacheFollowsRow
  <2>9. ASSUME NEW r \in SessionRequests, MissTokenCache(r) PROVE SessionInv'
    <3>1. /\ SessionGoes(r, "idle", NoToken) /\ UNCHANGED <<username, token>>
          /\ tokenCache'.token = NoToken \/ tokenCache'.late
      BY <2>9, Z3 DEF MissTokenCache
    <3>2. /\ DOMAIN sessionRequest' = SessionRequests
          /\ sessionRequest'[r] = [pc |-> "idle", token |-> NoToken, late |-> FALSE]
          /\ \A q \in SessionRequests \ {r} : sessionRequest'[q] = sessionRequest[q]
      BY <2>0, <3>1
    <3>3. CacheFollowsRow'
      BY <3>1 DEF CacheFollowsRow
    <3>4. Carries(r)'
      BY <3>1, <3>2 DEF SessionInv, Carries, OnTime
    <3>5. ASSUME NEW q \in SessionRequests \ {r} PROVE Carries(q)'
      BY <3>1, <3>2 DEF SessionInv, Carries, OnTime
    <3> QED
      BY <3>1, <3>2, <3>3, <3>4, <3>5 DEF SessionInv
  <2>10. CASE ExpireToken \/ UNCHANGED sessionVars
    BY <2>10 DEF ExpireToken, sessionVars, SessionInv, Carries, OnTime, CacheFollowsRow
  <2> QED
    BY <2>2, <2>3, <2>4, <2>5, <2>6, <2>7, <2>8, <2>9, <2>10 DEF SessionNext
<1>3. SessionInv => CacheFollowsRow
  BY DEF SessionInv
<1> QED
  BY <1>1, <1>2, <1>3, FirstNameAssumption, PTL DEF SessionSafety
-----------------------------------------------------------------------------
Inserting == {r \in PasskeyRequests : PasskeyAt(r, "insert")}

PasskeyInv ==
    /\ DOMAIN passkeyRequest = PasskeyRequests /\ IsFiniteSet(passkeys)
    /\ PasskeysBounded

\* A step that begins no insert and adds no row passes no limit.
LEMMA PasskeyQuiet ==
    ASSUME PasskeyInv, DOMAIN passkeyRequest' = PasskeyRequests,
           passkeys' \subseteq passkeys, Inserting' \subseteq Inserting
    PROVE  PasskeyInv'
<1>1. IsFiniteSet(Inserting)
  BY MaxPasskeysAssumption, FS_Subset DEF Inserting
<1>2. /\ IsFiniteSet(passkeys') /\ Cardinality(passkeys') <= Cardinality(passkeys)
      /\ Cardinality(Inserting') <= Cardinality(Inserting)
      /\ IsFiniteSet(Inserting')
  BY <1>1, FS_Subset DEF PasskeyInv
<1>3. /\ Cardinality(passkeys) \in Nat /\ Cardinality(passkeys') \in Nat
      /\ Cardinality(Inserting) \in Nat /\ Cardinality(Inserting') \in Nat
      /\ Cardinality(PasskeyRequests) \in Nat /\ MaxPasskeys \in Nat
  BY <1>1, <1>2, FS_CardinalityType, MaxPasskeysAssumption DEF PasskeyInv
<1> QED
  BY <1>2, <1>3 DEF PasskeyInv, PasskeysBounded, Inserting

\* Rows and inserts under way pass the limit by less than the number of
\* requests, however many ceremonies were begun below it
\* (account/passkey_service.go:95-101).
THEOREM PasskeysStayBounded == PasskeySafety => []PasskeysBounded
<1>0. /\ IsFiniteSet(PasskeyRequests) /\ Cardinality(PasskeyRequests) \in Nat
      /\ MaxPasskeys \in Nat \ {0}
  BY MaxPasskeysAssumption, FS_CardinalityType
<1>1. PasskeyInit => PasskeyInv
  <2> SUFFICES ASSUME PasskeyInit PROVE PasskeyInv
    OBVIOUS
  <2>1. Inserting = {}
    BY DEF PasskeyInit, Inserting, PasskeyAt, PasskeyIdle
  <2> QED
    BY <1>0, <2>1, FS_EmptySet DEF PasskeyInit, PasskeyInv, PasskeysBounded, Inserting
<1>2. PasskeyInv /\ [PasskeyNext]_passkeyVars => PasskeyInv'
  <2> SUFFICES ASSUME PasskeyInv, [PasskeyNext]_passkeyVars PROVE PasskeyInv'
    OBVIOUS
  <2>1. ASSUME NEW r \in PasskeyRequests, NEW pc, NEW at, pc # "insert", PasskeyGoes(r, pc, at),
               passkeys' \subseteq passkeys
        PROVE  PasskeyInv'
    <3>1. Inserting' \subseteq Inserting /\ DOMAIN passkeyRequest' = PasskeyRequests
      BY <2>1 DEF PasskeyGoes, PasskeyInv, Inserting, PasskeyAt
    <3> QED
      BY <2>1, <3>1, PasskeyQuiet
  <2>2. ASSUME NEW r \in PasskeyRequests, CountPasskeys(r), Room PROVE PasskeyInv'
    <3>1. passkeys' = passkeys /\ DOMAIN passkeyRequest' = PasskeyRequests
      BY <2>2 DEF CountPasskeys, PasskeyEnds, PasskeyGoes, PasskeyInv
    <3>2. IsFiniteSet(Inserting') /\ Cardinality(Inserting') <= Cardinality(PasskeyRequests)
      BY <1>0, FS_Subset DEF Inserting
    <3>3. Cardinality(passkeys) \in Nat /\ Cardinality(Inserting') \in Nat
      BY <3>2, FS_CardinalityType DEF PasskeyInv
    <3> QED
      BY <1>0, <2>2, <3>1, <3>2, <3>3 DEF Room, PasskeyInv, PasskeysBounded, Inserting
  <2>3. ASSUME NEW r \in PasskeyRequests, CreatePasskey(r) PROVE PasskeyInv'
    <3>1. /\ Inserting' = Inserting \ {r} /\ r \in Inserting
          /\ DOMAIN passkeyRequest' = PasskeyRequests
      BY <2>3 DEF CreatePasskey, PasskeyEnds, PasskeyGoes, PasskeyAt, PasskeyInv, Inserting
    <3>2. /\ IsFiniteSet(Inserting) /\ IsFiniteSet(Inserting')
          /\ Cardinality(Inserting') = Cardinality(Inserting) - 1
      BY <1>0, <3>1, FS_Subset, FS_RemoveElement, ZenonT(40) DEF Inserting
    <3>3. /\ IsFiniteSet(passkeys') /\ Cardinality(passkeys') <= Cardinality(passkeys) + 1
          /\ Cardinality(passkeys) \in Nat
      <4>1. passkeys' = passkeys \union {passkeyRequest[r].at} /\ IsFiniteSet(passkeys)
        BY <2>3 DEF CreatePasskey, PasskeyInv
      <4>2. /\ IsFiniteSet(passkeys')
            /\ Cardinality(passkeys') \in {Cardinality(passkeys), Cardinality(passkeys) + 1}
        BY <4>1, FS_AddElement
      <4>3. Cardinality(passkeys) \in Nat
        BY <4>1, FS_CardinalityType
      <4> QED
        BY <4>2, <4>3
    <3>4. /\ Cardinality(passkeys') \in Nat /\ Cardinality(Inserting) \in Nat
      BY <3>2, <3>3, FS_CardinalityType
    <3> QED
      BY <1>0, <3>1, <3>2, <3>3, <3>4 DEF PasskeyInv, PasskeysBounded, Inserting
  <2>4. ASSUME UNCHANGED passkeyRequest, passkeys' \subseteq passkeys PROVE PasskeyInv'
    <3>1. Inserting' = Inserting /\ DOMAIN passkeyRequest' = PasskeyRequests
      BY <2>4 DEF Inserting, PasskeyAt, PasskeyInv
    <3> QED
      BY <2>4, <3>1, PasskeyQuiet
  <2>5. ASSUME NEW r \in PasskeyRequests,
               BeginPasskeyRegister(r) \/ TouchPasskey(r) \/ CeremonyFails(r)
               \/ (\E s \in Ceremonies : RegisterSaved(r, s))
        PROVE  PasskeyInv'
    BY <2>1, <2>5 DEF BeginPasskeyRegister, TouchPasskey, CeremonyFails, RegisterSaved, PasskeyEnds
  <2>6. ASSUME NEW r \in PasskeyRequests, CountPasskeys(r), ~Room PROVE PasskeyInv'
    BY <2>1, <2>6 DEF CountPasskeys, PasskeyEnds
  <2>7. ASSUME NEW r \in PasskeyRequests, NEW e \in ceremonies, NEW k \in Credentials,
               FinishPasskeyRegister(r, e, k) \/ FinishPasskeyLogin(r, e, k)
        PROVE  PasskeyInv'
    BY <2>1, <2>7 DEF FinishPasskeyRegister, FinishPasskeyLogin, Finish
  <2>8. ASSUME NEW r \in PasskeyRequests, \/ \E s \in Ceremonies : BeginPasskeyLogin(r, s)
                                          \/ \E e \in ceremonies : FinishWrong(r, e)
        PROVE  PasskeyInv'
    BY <2>4, <2>8 DEF BeginPasskeyLogin, FinishWrong
  <2>9. CASE \/ \E e \in ceremonies : ExpireCeremony(e)
             \/ \E k \in Credentials : DeletePasskey(k)
             \/ UNCHANGED passkeyVars
    BY <2>4, <2>9 DEF ExpireCeremony, DeletePasskey, passkeyVars
  <2> QED
    BY <2>2, <2>3, <2>5, <2>6, <2>7, <2>8, <2>9 DEF PasskeyNext
<1>3. PasskeyInv => PasskeysBounded
  BY DEF PasskeyInv
<1> QED
  BY <1>1, <1>2, <1>3, PTL DEF PasskeySafety
-----------------------------------------------------------------------------
GuardPcs == {"out", "shed", "box", "hit", "expire", "undo", "deny", "denyexpire", "denyundo",
             "punish", "refused", "in"}

TrafficInv ==
    /\ counter \in [Counters -> [n : Nat, ttl : BOOLEAN]]
    /\ guarded \in [TrafficRequests -> [pc : GuardPcs, at : Nat, ceiling : Nat]]
    /\ CounterExpires

\* What a step of request r may do to counter k: leave it no worse off, or
\* settle it.
Spared(r, k) ==
    /\ counter'[k].n > 0 => counter[k].n > 0
    /\ counter[k].ttl => counter'[k].ttl
    /\ k \in orphaned => k \in orphaned'
    /\ Owes(r, k) => Owes(r, k)'

Settled(r, k) == k \in orphaned' \/ counter'[k].n = 0 \/ counter'[k].ttl \/ Owes(r, k)'

\* One request moves and the counters change: those it does not owe anything
\* must be settled, the one it owes must be settled or owed still.
LEMMA GuardStep ==
    ASSUME TrafficInv, NEW r \in TrafficRequests,
           counter' \in [Counters -> [n : Nat, ttl : BOOLEAN]],
           NEW g \in [pc : GuardPcs, at : Nat, ceiling : Nat], guarded' = [guarded EXCEPT ![r] = g],
           \A k \in Counters : Spared(r, k) \/ Settled(r, k)
    PROVE  TrafficInv'
<1>1. guarded' \in [TrafficRequests -> [pc : GuardPcs, at : Nat, ceiling : Nat]]
  BY DEF TrafficInv
<1>2. \A q \in TrafficRequests \ {r}, k \in Counters : Owes(q, k) => Owes(q, k)'
  BY DEF TrafficInv, Owes
<1>3. ASSUME NEW k \in Counters, k \notin orphaned', counter'[k].n > 0
      PROVE  counter'[k].ttl \/ \E q \in TrafficRequests : Owes(q, k)'
  <2>1. CASE Settled(r, k)
    BY <1>3, <2>1 DEF Settled
  <2>2. CASE Spared(r, k)
    <3>1. k \notin orphaned /\ counter[k].n > 0
      BY <1>3, <2>2 DEF Spared
    <3>2. counter[k].ttl \/ \E q \in TrafficRequests : Owes(q, k)
      BY <3>1 DEF TrafficInv, CounterExpires
    <3> QED
      BY <1>2, <2>2, <3>2 DEF Spared
  <2> QED
    BY <2>1, <2>2
<1>4. CounterExpires'
  BY <1>3, Zenon DEF CounterExpires
<1> QED
  BY <1>1, <1>4 DEF TrafficInv

\* A step that touches no counter and is of a request that owes nothing.
LEMMA GuardPasses ==
    ASSUME TrafficInv, NEW r \in TrafficRequests, UNCHANGED <<counter, orphaned>>,
           guarded[r].pc \notin {"expire", "undo", "denyexpire", "denyundo"},
           NEW g \in [pc : GuardPcs, at : Nat, ceiling : Nat], guarded' = [guarded EXCEPT ![r] = g]
    PROVE  TrafficInv'
<1>1. \A k \in Counters : Spared(r, k)
  BY DEF Spared, Owes
<1> QED
  BY <1>1, GuardStep DEF TrafficInv

\* Where a request can go: one program counter further, or into the next box.
LEMMA Moves ==
    ASSUME TrafficInv, NEW r \in TrafficRequests
    PROVE  /\ \A pc \in GuardPcs : GuardGoes(r, pc) =>
                 \E g \in [pc : GuardPcs, at : Nat, ceiling : Nat] :
                     g.pc = pc /\ g.at = guarded[r].at /\ guarded' = [guarded EXCEPT ![r] = g]
           /\ PassTo(r) =>
                 \E g \in [pc : GuardPcs, at : Nat, ceiling : Nat] :
                     g.pc \in {"box", "in"} /\ guarded' = [guarded EXCEPT ![r] = g]
<1> DEFINE T == [pc : GuardPcs, at : Nat, ceiling : Nat]
<1>1. guarded[r] \in T /\ Ceiling \in Nat
  BY TrafficAssumption DEF TrafficInv
<1>2. ASSUME NEW pc \in GuardPcs, GuardGoes(r, pc)
      PROVE  \E g \in T : g.pc = pc /\ g.at = guarded[r].at /\ guarded' = [guarded EXCEPT ![r] = g]
  <2> DEFINE g == [guarded[r] EXCEPT !.pc = pc]
  <2>1. g \in T /\ g.pc = pc /\ g.at = guarded[r].at
    BY <1>1
  <2>2. guarded' = [guarded EXCEPT ![r] = g]
    BY <1>2 DEF GuardGoes
  <2> QED
    BY <2>1, <2>2
<1>3. ASSUME PassTo(r)
      PROVE  \E g \in T : g.pc \in {"box", "in"} /\ guarded' = [guarded EXCEPT ![r] = g]
  <2> DEFINE g == IF guarded[r].at < Len(Dimensions)
                  THEN [Outside EXCEPT !.pc = "box", !.at = guarded[r].at + 1]
                  ELSE [guarded[r] EXCEPT !.pc = "in"]
  <2>0. guarded[r].at + 1 \in Nat
    BY <1>1
  <2>1. Outside \in T
    BY <1>1 DEF Outside, GuardPcs
  <2>2. CASE guarded[r].at < Len(Dimensions)
    <3>1. g = [Outside EXCEPT !.pc = "box", !.at = guarded[r].at + 1]
      BY <2>2
    <3>2. g \in T /\ g.pc = "box"
      BY <2>0, <2>1, <3>1 DEF GuardPcs
    <3> QED
      BY <1>3, <2>2, <3>1, <3>2 DEF PassTo
  <2>3. CASE ~(guarded[r].at < Len(Dimensions))
    <3>1. g = [guarded[r] EXCEPT !.pc = "in"]
      BY <2>3
    <3>2. g \in T /\ g.pc = "in"
      BY <1>1, <3>1 DEF GuardPcs
    <3> QED
      BY <1>3, <2>3, <3>1, <3>2 DEF PassTo
  <2> QED
    BY <2>2, <2>3
<1> QED
  BY <1>2, <1>3

\* INCR, EXPIRE and DEL of one counter, for every other one and for it.
LEMMA Increment ==
    ASSUME TrafficInv, NEW j, Counted(j)
    PROVE  /\ counter' \in [Counters -> [n : Nat, ttl : BOOLEAN]]
           /\ \A k \in Counters : /\ counter'[k].ttl = counter[k].ttl
                                  /\ k # j => counter'[k] = counter[k]
                                  /\ k = j /\ counter'[k].n # 1 => counter[k].n > 0
<1>1. \A k \in Counters : Most(k) \in Nat /\ Most(k) > 0
  BY TrafficAssumption DEF Most
<1>2. \A k \in Counters : counter[k].n \in Nat /\ counter[k] \in [n : Nat, ttl : BOOLEAN]
  BY DEF TrafficInv
<1>3. CASE j \notin Counters
  BY <1>3 DEF Counted, TrafficInv
<1>4. CASE j \in Counters
  <2> DEFINE n == IF counter[j].n < Most(j) THEN counter[j].n + 1 ELSE counter[j].n
  <2>1. n \in Nat /\ (n # 1 => counter[j].n > 0)
    BY <1>1, <1>2, <1>4
  <2>2. counter' = [counter EXCEPT ![j] = [counter[j] EXCEPT !.n = n]]
    BY DEF Counted
  <2> HIDE DEF n
  <2> QED
    BY <1>2, <1>4, <2>1, <2>2 DEF TrafficInv
<1> QED
  BY <1>3, <1>4

\* The request that owes a counter its time to live, or its end, is at one of
\* two places for either kind of counter.
Kind == {"hits", "denies"}
Expires(kind) == IF kind = "hits" THEN "expire" ELSE "denyexpire"
Undoes(kind) == IF kind = "hits" THEN "undo" ELSE "denyundo"

LEMMA OwesOnly ==
    ASSUME TrafficInv, NEW r \in TrafficRequests, NEW kind \in Kind, NEW k \in Counters
    PROVE  /\ Owes(r, k) => guarded[r].pc \in {"expire", "undo", "denyexpire", "denyundo"}
           /\ guarded[r].pc \in {Expires(kind), Undoes(kind)} =>
                 (Owes(r, k) <=> k = <<kind, guarded[r].at>>)
<1>1. k = <<k[1], k[2]>> /\ k[1] \in Kind
  BY DEF Counters, Kind
<1>2. CASE k[1] = "hits"
  BY <1>1, <1>2 DEF Owes, Kind, Expires, Undoes
<1>3. CASE k[1] = "denies"
  BY <1>1, <1>3 DEF Owes, Kind, Expires, Undoes
<1> QED
  BY <1>1, <1>2, <1>3 DEF Kind

\* INCR: a fresh counter gets an owner that will give it a time to live, or its
\* answer was lost.
LEMMA CountStep ==
    ASSUME TrafficInv, NEW r \in TrafficRequests, NEW kind \in Kind,
           guarded[r].pc \notin {"expire", "undo", "denyexpire", "denyundo"},
           NEW g \in [pc : GuardPcs, at : Nat, ceiling : Nat], guarded' = [guarded EXCEPT ![r] = g],
           \/ /\ Counted(<<kind, guarded[r].at>>) /\ UNCHANGED orphaned
              /\ \/ counter'[<<kind, guarded[r].at>>].n # 1
                 \/ g.pc = Expires(kind) /\ g.at = guarded[r].at
           \/ IncrTimesOut(<<kind, guarded[r].at>>)
    PROVE  TrafficInv'
<1> DEFINE j == <<kind, guarded[r].at>>
<1>1. \A k \in Counters : ~Owes(r, k)
  BY OwesOnly
<1>2. CASE /\ Counted(j) /\ UNCHANGED orphaned
           /\ counter'[j].n # 1 \/ (g.pc = Expires(kind) /\ g.at = guarded[r].at)
  <2>1. \A k \in Counters : k # j => Spared(r, k)
    BY <1>1, <1>2, Increment DEF Spared
  <2>2. CASE counter'[j].n # 1
    <3>1. \A k \in Counters : k = j => Spared(r, k)
      BY <1>1, <1>2, <2>2, Increment DEF Spared
    <3> QED
      BY <1>2, <2>1, <3>1, Increment, GuardStep
  <2>3. CASE g.pc = Expires(kind) /\ g.at = guarded[r].at
    <3>1. \A k \in Counters : k = j => Owes(r, k)'
      BY <2>3 DEF Owes, Expires, TrafficInv, Kind
    <3> QED
      BY <1>2, <2>1, <3>1, Increment, GuardStep DEF Settled
  <2> QED
    BY <1>2, <2>2, <2>3
<1>3. CASE Counted(j) /\ orphaned' = IF counter[j].n = 0 THEN orphaned \union {j} ELSE orphaned
  <2>1. \A k \in Counters : k # j => Spared(r, k)
    BY <1>1, <1>3, Increment DEF Spared
  <2>2. \A k \in Counters : counter[k].n \in Nat
    BY DEF TrafficInv
  <2>3. \A k \in Counters : k = j => Spared(r, k) \/ k \in orphaned'
    BY <1>1, <1>3, <2>2, Increment DEF Spared
  <2> QED
    BY <1>3, <2>1, <2>3, Increment, GuardStep DEF Settled
<1>4. CASE UNCHANGED <<counter, orphaned>>
  BY <1>4, GuardPasses
<1> QED
  BY <1>2, <1>3, <1>4 DEF IncrTimesOut

\* EXPIRE: the counter lives shortly, or its owner goes on to delete it.
LEMMA ExpireStep ==
    ASSUME TrafficInv, NEW r \in TrafficRequests, NEW kind \in Kind,
           guarded[r].pc = Expires(kind), UNCHANGED orphaned,
           NEW g \in [pc : GuardPcs, at : Nat, ceiling : Nat], guarded' = [guarded EXCEPT ![r] = g],
           \/ LivesShortly(<<kind, guarded[r].at>>)
           \/ UNCHANGED counter /\ g.pc = Undoes(kind) /\ g.at = guarded[r].at
    PROVE  TrafficInv'
<1> DEFINE j == <<kind, guarded[r].at>>
<1>1. \A k \in Counters : Owes(r, k) => k = j
  BY OwesOnly
<1>2. \A k \in Counters : counter[k] \in [n : Nat, ttl : BOOLEAN]
  BY DEF TrafficInv
<1>3. CASE LivesShortly(j)
  <2>1. /\ counter' \in [Counters -> [n : Nat, ttl : BOOLEAN]]
        /\ \A k \in Counters : k # j => counter'[k] = counter[k]
        /\ \A k \in Counters : k = j => counter'[k].ttl \/ counter'[k].n = 0
    <3> DEFINE t == counter[j].ttl \/ counter[j].n > 0
    <3>1. counter' = [counter EXCEPT ![j] = [counter[j] EXCEPT !.ttl = t]]
      BY <1>3 DEF LivesShortly
    <3>2. t \in BOOLEAN
      OBVIOUS
    <3>3. j \in Counters => t \/ counter[j].n = 0
      BY <1>2
    <3> HIDE DEF t
    <3> QED
      BY <1>2, <3>1, <3>2, <3>3 DEF TrafficInv
  <2>2. \A k \in Counters : k # j => Spared(r, k)
    BY <1>1, <2>1 DEF Spared
  <2> QED
    BY <2>1, <2>2, GuardStep DEF Settled
<1>4. CASE UNCHANGED counter /\ g.pc = Undoes(kind) /\ g.at = guarded[r].at
  <2>1. \A k \in Counters : k = j => Owes(r, k)'
    BY <1>4 DEF Owes, Undoes, TrafficInv, Kind
  <2>2. \A k \in Counters : Spared(r, k)
    BY <1>1, <1>4, <2>1 DEF Spared
  <2> QED
    BY <1>4, <2>2, GuardStep DEF TrafficInv
<1> QED
  BY <1>3, <1>4

\* DEL: the counter is gone, or is counted as orphaned.
LEMMA UndoStep ==
    ASSUME TrafficInv, NEW r \in TrafficRequests, NEW kind \in Kind,
           guarded[r].pc = Undoes(kind), Undo(<<kind, guarded[r].at>>),
           NEW g \in [pc : GuardPcs, at : Nat, ceiling : Nat], guarded' = [guarded EXCEPT ![r] = g]
    PROVE  TrafficInv'
<1> DEFINE j == <<kind, guarded[r].at>>
<1>1. \A k \in Counters : Owes(r, k) => k = j
  BY OwesOnly
<1>2. /\ counter' \in [Counters -> [n : Nat, ttl : BOOLEAN]]
      /\ \A k \in Counters : k # j => counter'[k] = counter[k] /\ (k \in orphaned => k \in orphaned')
      /\ \A k \in Counters : k = j => counter'[k].n = 0 \/ k \in orphaned'
  <2>1. CASE counter' = [counter EXCEPT ![j] = NoCounter] /\ orphaned' = orphaned \ {j}
    BY <2>1 DEF TrafficInv, NoCounter
  <2>2. CASE UNCHANGED counter /\ orphaned' = orphaned \union {j}
    BY <2>2 DEF TrafficInv
  <2> QED
    BY <2>1, <2>2 DEF Undo
<1>3. \A k \in Counters : k # j => Spared(r, k)
  BY <1>1, <1>2 DEF Spared
<1> QED
  BY <1>2, <1>3, GuardStep DEF Settled

\* A counter of the client has a time to live, or a request is about to give
\* it one or to delete it, unless an answer was lost, the deletion failed, or
\* the process died (middleware/ratelimit/ratelimit.go:70-96).
THEOREM CountersExpire == TrafficSafety => []CounterExpires
<1>1. TrafficInit => TrafficInv
  <2> SUFFICES ASSUME TrafficInit PROVE TrafficInv
    OBVIOUS
  <2>1. Outside \in [pc : GuardPcs, at : Nat, ceiling : Nat]
    BY TrafficAssumption DEF Outside, GuardPcs
  <2> QED
    BY <2>1 DEF TrafficInit, TrafficInv, NoCounter, CounterExpires
<1>2. TrafficInv /\ [TrafficNext]_trafficVars => TrafficInv'
  <2> SUFFICES ASSUME TrafficInv, [TrafficNext]_trafficVars PROVE TrafficInv'
    OBVIOUS
  <2>1. \A k \in Counters : /\ k = <<k[1], k[2]>> /\ k[1] \in {"hits", "denies"}
                            /\ counter[k] \in [n : Nat, ttl : BOOLEAN]
    BY DEF Counters, TrafficInv
  <2> DEFINE G == [pc : GuardPcs, at : Nat, ceiling : Nat]
  <2>2. ASSUME NEW r \in TrafficRequests, EnterGuard(r) \/ LeaveGuard(r) \/ LookUpPenalty(r) \/ ApplyPenalty(r)
        PROVE  TrafficInv'
    <3>1. /\ UNCHANGED <<counter, orphaned>>
          /\ guarded[r].pc \in {"out", "shed", "refused", "in", "box", "punish"}
      BY <2>2 DEF EnterGuard, LeaveGuard, LookUpPenalty, ApplyPenalty, GuardAt
    <3>2. \E g \in G : guarded' = [guarded EXCEPT ![r] = g]
      <4>1. CASE EnterGuard(r)
        <5> DEFINE g == [Outside EXCEPT !.pc = IF inflight + 1 > MaxInFlight THEN "shed" ELSE "box"]
        <5>1. g \in G
          BY TrafficAssumption DEF Outside, GuardPcs
        <5> QED
          BY <4>1, <5>1 DEF EnterGuard
      <4>2. CASE LeaveGuard(r) \/ ApplyPenalty(r)
        BY <4>2, Moves DEF LeaveGuard, ApplyPenalty, GuardPcs
      <4>3. CASE LookUpPenalty(r)
        <5>1. \E c \in {Ceiling, PenaltyCeiling} :
                guarded' = [guarded EXCEPT ![r].pc = "hit", ![r].ceiling = c]
          BY <4>3 DEF LookUpPenalty
        <5>2. guarded[r] \in G /\ {Ceiling, PenaltyCeiling} \subseteq Nat
          BY TrafficAssumption DEF TrafficInv
        <5>3. PICK c \in {Ceiling, PenaltyCeiling} :
                guarded' = [guarded EXCEPT ![r] = [guarded[r] EXCEPT !.pc = "hit", !.ceiling = c]]
          BY <5>1 DEF TrafficInv
        <5>4. [guarded[r] EXCEPT !.pc = "hit", !.ceiling = c] \in G
          BY <5>2 DEF GuardPcs
        <5> QED
          BY <5>3, <5>4
      <4> QED
        BY <2>2, <4>1, <4>2, <4>3
    <3> QED
      BY <3>1, <3>2, GuardPasses
  <2>3. ASSUME NEW r \in TrafficRequests, Hit(r) PROVE TrafficInv'
    <3> DEFINE j == <<"hits", guarded[r].at>>
    <3>1. guarded[r].pc = "hit" /\ "hits" \in Kind /\ Expires("hits") = "expire"
      BY <2>3 DEF Hit, GuardAt, Kind, Expires
    <3>2. CASE Counted(j) /\ UNCHANGED orphaned /\ counter'[j].n = 1 /\ GuardGoes(r, "expire")
      <4>1. PICK g \in G : g.pc = "expire" /\ g.at = guarded[r].at /\ guarded' = [guarded EXCEPT ![r] = g]
        BY <3>2, Moves DEF GuardPcs
      <4> QED
        BY <3>1, <3>2, <4>1, CountStep
    <3>3. CASE Counted(j) /\ UNCHANGED orphaned /\ counter'[j].n # 1 /\ JudgeHit(r, counter'[j].n)
      <4>1. PICK g \in G : guarded' = [guarded EXCEPT ![r] = g]
        BY <3>3, Moves DEF JudgeHit, GuardPcs
      <4> QED
        BY <3>1, <3>3, <4>1, CountStep
    <3>4. CASE IncrTimesOut(j) /\ PassTo(r)
      <4>1. PICK g \in G : guarded' = [guarded EXCEPT ![r] = g]
        BY <3>4, Moves
      <4> QED
        BY <3>1, <3>4, <4>1, CountStep
    <3>5. CASE IncrTimesOut(j) /\ UNCHANGED guarded
      <4>1. PICK g \in G : guarded' = [guarded EXCEPT ![r] = g]
        BY <3>5 DEF TrafficInv
      <4> QED
        BY <3>1, <3>5, <4>1, CountStep
    <3> QED
      BY <2>3, <3>2, <3>3, <3>4, <3>5 DEF Hit
  <2>4. ASSUME NEW r \in TrafficRequests, Deny(r) PROVE TrafficInv'
    <3> DEFINE j == <<"denies", guarded[r].at>>
    <3>1. guarded[r].pc = "deny" /\ "denies" \in Kind /\ Expires("denies") = "denyexpire"
      BY <2>4 DEF Deny, GuardAt, Kind, Expires
    <3>2. CASE Counted(j) /\ UNCHANGED orphaned /\ counter'[j].n = 1 /\ GuardGoes(r, "denyexpire")
      <4>1. PICK g \in G : g.pc = "denyexpire" /\ g.at = guarded[r].at /\ guarded' = [guarded EXCEPT ![r] = g]
        BY <3>2, Moves DEF GuardPcs
      <4> QED
        BY <3>1, <3>2, <4>1, CountStep
    <3>3. CASE Counted(j) /\ UNCHANGED orphaned /\ counter'[j].n # 1 /\ JudgeDeny(r, counter'[j].n)
      <4>1. PICK g \in G : guarded' = [guarded EXCEPT ![r] = g]
        BY <3>3, Moves DEF JudgeDeny, GuardPcs
      <4> QED
        BY <3>1, <3>3, <4>1, CountStep
    <3>4. CASE IncrTimesOut(j) /\ GuardGoes(r, "refused")
      <4>1. PICK g \in G : guarded' = [guarded EXCEPT ![r] = g]
        BY <3>4, Moves DEF GuardPcs
      <4> QED
        BY <3>1, <3>4, <4>1, CountStep
    <3>5. CASE IncrTimesOut(j) /\ UNCHANGED guarded
      <4>1. PICK g \in G : guarded' = [guarded EXCEPT ![r] = g]
        BY <3>5 DEF TrafficInv
      <4> QED
        BY <3>1, <3>5, <4>1, CountStep
    <3> QED
      BY <2>4, <3>2, <3>3, <3>4, <3>5 DEF Deny
  <2>5. ASSUME NEW r \in TrafficRequests, ExpireHit(r) PROVE TrafficInv'
    <3>1. /\ guarded[r].pc = Expires("hits") /\ "hits" \in Kind /\ Undoes("hits") = "undo"
          /\ UNCHANGED orphaned
      BY <2>5 DEF ExpireHit, GuardAt, Kind, Expires, Undoes
    <3>2. PICK g \in G : /\ guarded' = [guarded EXCEPT ![r] = g]
                        /\ \/ LivesShortly(<<"hits", guarded[r].at>>)
                           \/ UNCHANGED counter /\ g.pc = "undo" /\ g.at = guarded[r].at
      BY <2>5, Moves DEF ExpireHit, JudgeHit, GuardPcs
    <3> QED
      BY <3>1, <3>2, ExpireStep
  <2>6. ASSUME NEW r \in TrafficRequests, ExpireDeny(r) PROVE TrafficInv'
    <3>1. /\ guarded[r].pc = Expires("denies") /\ "denies" \in Kind /\ Undoes("denies") = "denyundo"
          /\ UNCHANGED orphaned
      BY <2>6 DEF ExpireDeny, GuardAt, Kind, Expires, Undoes
    <3>2. PICK g \in G : /\ guarded' = [guarded EXCEPT ![r] = g]
                        /\ \/ LivesShortly(<<"denies", guarded[r].at>>)
                           \/ UNCHANGED counter /\ g.pc = "denyundo" /\ g.at = guarded[r].at
      BY <2>6, Moves DEF ExpireDeny, JudgeDeny, GuardPcs
    <3> QED
      BY <3>1, <3>2, ExpireStep
  <2>7. ASSUME NEW r \in TrafficRequests, UndoHit(r) \/ UndoDeny(r) PROVE TrafficInv'
    <3>1. PICK g \in G : guarded' = [guarded EXCEPT ![r] = g]
      BY <2>7, Moves DEF UndoHit, UndoDeny, GuardPcs
    <3>2. \E kind \in Kind : guarded[r].pc = Undoes(kind) /\ Undo(<<kind, guarded[r].at>>)
      BY <2>7 DEF UndoHit, UndoDeny, GuardAt, Kind, Undoes
    <3> QED
      BY <3>1, <3>2, UndoStep
  <2>8. ASSUME NEW j \in Counters, ExpireCounter(j) PROVE TrafficInv'
    BY <2>8 DEF ExpireCounter, NoCounter, TrafficInv, CounterExpires, Owes
  <2>9. CASE ApiDies
    <3>1. Outside \in G
      BY TrafficAssumption DEF Outside, GuardPcs
    <3> QED
      BY <2>9, <3>1 DEF ApiDies, TrafficInv, CounterExpires
  <2>10. CASE (\E d \in penalty : ExpirePenalty(d)) \/ UNCHANGED trafficVars
    BY <2>10 DEF ExpirePenalty, trafficVars, TrafficInv, CounterExpires, Owes
  <2> QED
    BY <2>2, <2>3, <2>4, <2>5, <2>6, <2>7, <2>8, <2>9, <2>10 DEF TrafficNext
<1>3. TrafficInv => CounterExpires
  BY DEF TrafficInv
<1> QED
  BY <1>1, <1>2, <1>3, PTL DEF TrafficSafety

-----------------------------------------------------------------------------
\* Requests hold names that exist, and accounts are as many as the gifts say.
Account == [name : NamesInUse, email : BOOLEAN, id : NamesInUse]
Made(n) == {a \in accounts : a.id = n}

SignUpInv ==
    /\ DOMAIN signUp = SignUpRequests /\ DOMAIN gifts = NamesInUse
    /\ accounts \subseteq Account /\ IsFiniteSet(accounts)
    /\ \A r \in SignUpRequests :
         signUp[r].pc \in {"insert", "create", "rename"} => signUp[r].name \in NamesInUse
    /\ SignedUpOnce

\* A request moves and holds a name that exists, or none.
LEMMA SignUpQuiet ==
    ASSUME SignUpInv, UNCHANGED <<accounts, gifts>>, NEW r \in SignUpRequests, NEW pc, NEW n, NEW c,
           SignUpGoes(r, pc, n, c), pc \in {"insert", "create", "rename"} => n \in NamesInUse
    PROVE  SignUpInv'
BY DEF SignUpInv, SignUpGoes, SignedUpOnce

\* An insert that the indexes let through adds one account and its gift.
LEMMA InsertOnce ==
    ASSUME SignUpInv, NEW r \in SignUpRequests, NEW n \in NamesInUse, NEW email \in BOOLEAN,
           InsertAccount(r, n, email)
    PROVE  SignUpInv'
<1>1. CASE ~MayInsert(n, email)
  BY <1>1, SignUpQuiet DEF InsertAccount, SignUpEnds
<1>2. CASE MayInsert(n, email)
  <2> DEFINE x == [name |-> n, email |-> email, id |-> n]
  <2>1. /\ x \in Account /\ x \notin accounts /\ x.name = n /\ x.id = n /\ x.email = email
        /\ \A a \in accounts : a.name # n /\ ~(email /\ a.email)
    BY <1>2 DEF MayInsert, Taken, Bound, Account
  <2>2. accounts' = accounts \union {x} /\ gifts' = [gifts EXCEPT ![n] = @ + 1]
    BY <1>2 DEF InsertAccount
  <2> HIDE DEF x
  <2>3. \A m \in NamesInUse : Made(m)' = IF m = n THEN Made(m) \union {x} ELSE Made(m)
    BY <2>1, <2>2 DEF Made
  <2>4. \A m \in NamesInUse : IsFiniteSet(Made(m)) /\ x \notin Made(m)
    BY <2>1, FS_Subset DEF Made, SignUpInv
  <2>5. Cardinality(Made(n) \union {x}) = Cardinality(Made(n)) + 1
    BY <2>4, FS_AddElement
  <2>6. \A m \in NamesInUse : gifts[m] = Cardinality(Made(m))
    BY DEF SignUpInv, SignedUpOnce, Made
  <2>7. \A m \in NamesInUse : gifts'[m] = Cardinality(Made(m)')
    BY <2>2, <2>3, <2>5, <2>6 DEF SignUpInv
  <2>8. \A a, b \in accounts' : a.name = b.name \/ (a.email /\ b.email) => a = b
    BY <2>1, <2>2 DEF SignUpInv, SignedUpOnce
  <2>9. IsFiniteSet(accounts')
    BY <2>2, FS_AddElement DEF SignUpInv
  <2>10. SignedUpOnce'
    BY <2>7, <2>8 DEF SignedUpOnce, Made
  <2>11. \A q \in SignUpRequests : q # r => signUp'[q] = signUp[q]
    BY DEF InsertAccount, SignUpEnds, SignUpGoes, SignUpInv
  <2>12. signUp'[r].pc = "idle" /\ DOMAIN signUp' = SignUpRequests
    BY DEF InsertAccount, SignUpEnds, SignUpGoes, SignUpInv
  <2> QED
    BY <2>1, <2>2, <2>9, <2>10, <2>11, <2>12 DEF SignUpInv
<1> QED
  BY <1>1, <1>2

\* A new name replaces one account by another of the same origin.
LEMMA RenameKeeps ==
    ASSUME SignUpInv, NEW r \in SignUpRequests, Renamed(r) PROVE SignUpInv'
<1> DEFINE n == signUp[r].name
           new(a) == IF a.email THEN [a EXCEPT !.name = n] ELSE a
<1>0. n \in NamesInUse /\ SignUpGoes(r, "idle", NoName, 0) /\ UNCHANGED gifts
  BY DEF Renamed, SignUpAt, SignUpEnds, SignUpInv
<1>1. CASE accounts' = accounts
  BY <1>0, <1>1, SignUpQuiet
<1>2. CASE ~Taken(n) /\ \E e \in accounts : e.email
  <2>1. PICK e \in accounts : e.email
    BY <1>2
  <2> DEFINE x == [e EXCEPT !.name = n]
  <2>2. /\ e \in Account /\ x \in Account /\ x.name = n /\ x.email = e.email /\ x.id = e.id
        /\ \A a \in accounts : a.name # n
    BY <1>0, <1>2, <2>1 DEF SignUpInv, Account, Taken
  <2>3. \A a \in accounts : a # e => ~a.email
    BY <2>1 DEF SignUpInv, SignedUpOnce
  <2>4. accounts' = (accounts \ {e}) \union {x}
    <3>1. accounts' = {IF a.email THEN [a EXCEPT !.name = n] ELSE a : a \in accounts}
      BY <1>2 DEF Renamed
    <3>2. \A a \in accounts : (IF a.email THEN [a EXCEPT !.name = n] ELSE a) = IF a = e THEN x ELSE a
      BY <2>1, <2>3
    <3> QED
      BY <2>1, <3>1, <3>2, ZenonT(40)
  <2> HIDE DEF x
  <2>5. x \notin accounts
    BY <2>2
  <2>6. \A m \in NamesInUse : Made(m)' = IF m = e.id THEN (Made(m) \ {e}) \union {x} ELSE Made(m)
    BY <2>1, <2>2, <2>4 DEF Made
  <2>7. \A m \in NamesInUse : IsFiniteSet(Made(m)) /\ x \notin Made(m)
    BY <2>5, FS_Subset DEF Made, SignUpInv
  <2>8. /\ e.id \in NamesInUse /\ e \in Made(e.id)
    BY <2>1, <2>2 DEF Made, Account
  <2>9. /\ IsFiniteSet(Made(e.id) \ {e})
        /\ Cardinality(Made(e.id) \ {e}) = Cardinality(Made(e.id)) - 1
    BY <2>7, <2>8, FS_RemoveElement
  <2>10. /\ Cardinality((Made(e.id) \ {e}) \union {x}) = Cardinality(Made(e.id) \ {e}) + 1
         /\ Cardinality(Made(e.id)) \in Nat
    BY <2>7, <2>8, <2>9, FS_AddElement, FS_CardinalityType
  <2>11. \A m \in NamesInUse : Cardinality(Made(m)') = Cardinality(Made(m))
    <3> SUFFICES ASSUME NEW m \in NamesInUse PROVE Cardinality(Made(m)') = Cardinality(Made(m))
      OBVIOUS
    <3>1. CASE m # e.id
      BY <2>6, <3>1
    <3>2. CASE m = e.id
      <4>1. Made(m)' = (Made(e.id) \ {e}) \union {x}
        BY <2>6, <3>2
      <4>2. Cardinality((Made(e.id) \ {e}) \union {x}) = Cardinality(Made(e.id))
        BY <2>9, <2>10
      <4> QED
        BY <3>2, <4>1, <4>2
    <3> QED
      BY <3>1, <3>2
  <2>12. \A m \in NamesInUse : gifts'[m] = Cardinality(Made(m)')
    BY <1>0, <2>11 DEF SignUpInv, SignedUpOnce, Made
  <2>13. \A a, b \in accounts' : a.name = b.name \/ (a.email /\ b.email) => a = b
    BY <2>1, <2>2, <2>3, <2>4 DEF SignUpInv, SignedUpOnce
  <2>14. SignedUpOnce'
    BY <2>12, <2>13 DEF SignedUpOnce, Made
  <2>15. IsFiniteSet(accounts')
    BY <2>4, FS_AddElement, FS_RemoveElement DEF SignUpInv
  <2>16. accounts' \subseteq Account
    BY <2>2, <2>4 DEF SignUpInv
  <2>17. /\ DOMAIN signUp' = SignUpRequests /\ signUp'[r].pc = "idle"
         /\ \A q \in SignUpRequests : q # r => signUp'[q] = signUp[q]
    BY <1>0 DEF SignUpGoes, SignUpInv
  <2> QED
    BY <1>0, <2>14, <2>15, <2>16, <2>17 DEF SignUpInv
<1>3. (\A e \in accounts : ~e.email) => accounts' = accounts
  BY DEF Renamed
<1>4. Taken(n) => accounts' = accounts
  BY DEF Renamed
<1> QED
  BY <1>1, <1>2, <1>3, <1>4

\* However requests race, no two accounts share a name or the address, and each
\* account was given its gift with its row (account/repo.go:24-71, the unique
\* indexes of accounts and account_identities).
THEOREM AccountsAreMadeOnce == SignUpSafety => []SignedUpOnce
<1>1. SignUpInit => SignUpInv
  <2> SUFFICES ASSUME SignUpInit PROVE SignUpInv
    OBVIOUS
  <2>1. \A n \in NamesInUse : Made(n) = {}
    BY DEF SignUpInit, Made
  <2>2. Cardinality({}) = 0 /\ IsFiniteSet({})
    BY FS_EmptySet
  <2> QED
    BY <2>1, <2>2 DEF SignUpInit, SignUpIdle, SignUpInv, SignedUpOnce, Made
<1>2. SignUpInv /\ [SignUpNext]_signUpVars => SignUpInv'
  <2> SUFFICES ASSUME SignUpInv, [SignUpNext]_signUpVars PROVE SignUpInv'
    OBVIOUS
  <2>1. ASSUME NEW r \in SignUpRequests, NEW n \in NamesInUse, Register(r, n) \/ AskRename(r, n)
        PROVE  SignUpInv'
    BY <2>1, SignUpQuiet DEF Register, AskRename
  <2>2. ASSUME NEW r \in SignUpRequests, RegisterInserts(r) \/ CreateEmailAccount(r) PROVE SignUpInv'
    <3>1. signUp[r].name \in NamesInUse
      BY <2>2 DEF RegisterInserts, CreateEmailAccount, SignUpAt, SignUpInv
    <3> QED
      BY <2>2, <3>1, InsertOnce DEF RegisterInserts, CreateEmailAccount
  <2>3. ASSUME NEW r \in SignUpRequests, Renamed(r) PROVE SignUpInv'
    BY <2>3, RenameKeeps
  <2>4. ASSUME NEW r \in SignUpRequests,
               StartCode(r) \/ SaveHash(r) \/ MailCode(r) \/ DeleteCode(r) \/ FindIdentity(r) \/ SignUpFails(r)
        PROVE  SignUpInv'
    BY <2>4, SignUpQuiet
    DEF StartCode, SaveHash, MailCode, DeleteCode, FindIdentity, SignUpFails, SignUpEnds
  <2>5. ASSUME NEW r \in SignUpRequests, PickName(r) PROVE SignUpInv'
    <3>1. PICK k \in DOMAIN AccountNames : SignUpGoes(r, "create", AccountNames[k], 0)
      BY <2>5 DEF PickName
    <3>2. AccountNames[k] \in NamesInUse /\ UNCHANGED <<accounts, gifts>>
      BY <2>5 DEF PickName, NamesInUse
    <3> QED
      BY <3>1, <3>2, SignUpQuiet
  <2>6. ASSUME NEW r \in SignUpRequests, NEW c \in SentCodes, MatchCode(r, c) PROVE SignUpInv'
    BY <2>6, SignUpQuiet DEF MatchCode
  <2>7. CASE ExpireCooldown \/ ExpireCode \/ UNCHANGED signUpVars
    BY <2>7 DEF ExpireCooldown, ExpireCode, signUpVars, SignUpInv, SignedUpOnce
  <2> QED
    BY <2>1, <2>2, <2>3, <2>4, <2>5, <2>6, <2>7 DEF SignUpNext
<1>3. SignUpInv => SignedUpOnce
  BY DEF SignUpInv
<1> QED
  BY <1>1, <1>2, <1>3, PTL DEF SignUpSafety

-----------------------------------------------------------------------------
\* As long as no two workers were on a task at once, whoever is on it is alone
\* with it, and it is not ready, so that nothing is published of it.
WorkAlone ==
    \A t \in MediaTasks \ overlapped, w \in MediaWorkers : AtWork(w, t) =>
        /\ task[t] # "ready"
        /\ \A v \in MediaWorkers : AtWork(v, t) => v = w

\* Inductive.
MediaInv ==
    /\ DOMAIN upload = MediaTasks /\ DOMAIN task = MediaTasks /\ DOMAIN objects = MediaTasks
    /\ DOMAIN job = MediaWorkers /\ published \subseteq MediaTasks
    /\ \A w \in MediaWorkers : job[w].pc # "idle" => job[w].t \in MediaTasks
    /\ \A t \in MediaTasks : task[t] # "none" => upload[t] = "closed"
    /\ \A t \in published : task[t] = "ready"
    /\ WorkAlone
    /\ PublishedKeepsObjects

\* A video that was published with the objects of a ready task keeps them,
\* however often its event is published and delivered, and whatever workers lose
\* or leave half done; only its cover may be lost, and only when two workers were
\* on the task at once (worker/media_worker.go:55-124, outbox/poller.go:92-95).
THEOREM ObjectsAreKept == MediaSafety => []PublishedKeepsObjects
<1>1. MediaInit => MediaInv
  BY DEF MediaInit, JobIdle, MediaInv, WorkAlone, AtWork, PublishedKeepsObjects
<1>2. MediaInv /\ [MediaNext]_mediaVars => MediaInv'
  <2> SUFFICES ASSUME MediaInv, [MediaNext]_mediaVars PROVE MediaInv'
    OBVIOUS
  <2> USE DEF MediaInv, WorkAlone, AtWork, PublishedKeepsObjects, uploadVars, taskVars, brokerVars
  <2>1. ASSUME NEW t \in MediaTasks,
               InitMultipart(t) \/ AssembleUpload(t) \/ EnqueueVideoTask(t)
               \/ RejectUpload(t) \/ PublishMedia(t) \/ PublishTranscode(t)
        PROVE  MediaInv'
    BY <2>1 DEF InitMultipart, AssembleUpload, EnqueueVideoTask, RejectUpload, PublishMedia,
                PublishTranscode, Uploaded
  <2>2. ASSUME NEW w \in MediaWorkers, NEW t \in MediaTasks, TakeTask(w, t) PROVE MediaInv'
    <3>1. UNCHANGED <<upload, published, source, task, mediaSeen, objects>>
      BY <2>2 DEF TakeTask, ReceiveTask
    <3>2. CASE task[t] = "processing" /\ BeginTask(w, t)
      <4>1. /\ job' = [job EXCEPT ![w] = [pc |-> "download", t |-> t, owns |-> TRUE]]
            /\ overlapped \subseteq overlapped'
        BY <3>2 DEF BeginTask, StartJob
      <4>2. ASSUME t \notin overlapped'  PROVE \A v \in MediaWorkers : ~AtWork(v, t)
        BY <3>2, <4>2 DEF BeginTask
      <4>3. ASSUME NEW v \in MediaWorkers, v # w  PROVE job'[v] = job[v]
        BY <4>1, <4>3
      <4>4. job'[w].t = t /\ job'[w].pc = "download"
        BY <4>1
      <4>5. WorkAlone'
        BY <3>1, <3>2, <4>1, <4>2, <4>3, <4>4
      <4> QED
        BY <3>1, <4>1, <4>3, <4>4, <4>5
    <3>3. CASE StartJob(w, t, "ack") /\ UNCHANGED overlapped
      BY <3>1, <3>3 DEF StartJob
    <3> QED
      BY <2>2, <3>2, <3>3 DEF TakeTask
  <2>3. ASSUME NEW w \in MediaWorkers, NEW t \in MediaTasks, RefuseTask(w, t) PROVE MediaInv'
    BY <2>3 DEF RefuseTask, ReceiveTask
  <2>4. ASSUME NEW w \in MediaWorkers, Transcode(w) PROVE MediaInv'
    BY <2>4 DEF Transcode, JobStep
  <2>5. ASSUME NEW w \in MediaWorkers, UploadCover(w) \/ UploadVideo(w) PROVE MediaInv'
    <3>1. PICK o \in {"cover", "video"} :
            /\ objects' = [objects EXCEPT ![job[w].t] = @ \union {o}]
            /\ job[w].pc \in {"cover", "video"}
            /\ \E pc \in {"video", "ready"} : job' = [job EXCEPT ![w].pc = pc]
            /\ UNCHANGED <<upload, published, source, task, mediaSeen, overlapped>>
      BY <2>5 DEF UploadCover, UploadVideo, JobStep, PutObject
    <3>2. \A t \in MediaTasks : objects[t] \subseteq objects'[t]
      BY <3>1
    <3>3. PublishedKeepsObjects'
      BY <3>1, <3>2
    <3>4. WorkAlone'
      BY <3>1
    <3> QED
      BY <3>1, <3>3, <3>4
  <2>6. ASSUME NEW w \in MediaWorkers, ProcessFails(w) PROVE MediaInv'
    <3>1. /\ job' = [job EXCEPT ![w].pc = "failed"] /\ AtWork(w, job[w].t)
          /\ UNCHANGED <<upload, published, source, task, mediaSeen, overlapped>>
      BY <2>6 DEF ProcessFails, JobStep
    <3>2. \A t \in MediaTasks : \/ objects'[t] = objects[t]
                                \/ t = job[w].t /\ objects'[t] = objects[t] \ {"cover"}
      BY <2>6 DEF ProcessFails
    <3>3. PublishedKeepsObjects'
      BY <3>1, <3>2
    <3>4. DOMAIN objects' = MediaTasks
      BY <2>6 DEF ProcessFails
    <3> QED
      BY <3>1, <3>3, <3>4
  <2>7. ASSUME NEW w \in MediaWorkers, SettleTask(w) PROVE MediaInv'
    <3> DEFINE t == job[w].t
    <3>1. /\ job' = [job EXCEPT ![w].pc = "clean"] /\ job[w].pc \in {"ready", "failed"}
          /\ UNCHANGED <<upload, published, source, objects, overlapped>>
      BY <2>7 DEF SettleTask, JobStep
    <3>2. \/ task' = task
          \/ task' = [task EXCEPT ![t] = job[w].pc] /\ task[t] = "processing"
      BY <2>7 DEF SettleTask
    <3>3. WorkAlone'
      BY <3>1, <3>2
    <3> QED
      BY <3>1, <3>2, <3>3
  <2>8. ASSUME NEW w \in MediaWorkers, NackTask(w) \/ AckTask(w) \/ MediaCrash(w) PROVE MediaInv'
    BY <2>8 DEF NackTask, AckTask, MediaCrash, JobIdle
  <2>9. ASSUME NEW w \in MediaWorkers, RemoveSource(w) PROVE MediaInv'
    BY <2>9 DEF RemoveSource, JobStep
  <2>10. ASSUME NEW w \in MediaWorkers, LoseMediaChannel(w) PROVE MediaInv'
    BY <2>10 DEF LoseMediaChannel
  <2>11. CASE UNCHANGED mediaVars
    BY <2>11 DEF mediaVars
  <2> QED
    BY <2>1, <2>2, <2>3, <2>4, <2>5, <2>6, <2>7, <2>8, <2>9, <2>10, <2>11 DEF MediaNext
<1>3. MediaInv => PublishedKeepsObjects
  BY DEF MediaInv
<1> QED
  BY <1>1, <1>2, <1>3, PTL DEF MediaSafety
-----------------------------------------------------------------------------
\* Every set of numbers has a least one, and every set of rows a highest one.
LEMMA LeastNumber ==
    ASSUME NEW T \in SUBSET Nat, T # {}
    PROVE  \E n \in T : \A m \in T : n <= m
<1> DEFINE R == OpToRel(<, Nat)
<1>1. IsWellFoundedOn(R, Nat)
  BY NatLessThanWellFounded
<1>2. \A m, n \in Nat : <<m, n>> \in R <=> m < n
  BY DEF OpToRel
<1> HIDE DEF R
<1>3. PICK n \in T : \A m \in T : ~ (<<m, n>> \in R)
  BY <1>1, WFMin
<1>4. \A m \in T : ~ (m < n)
  BY <1>2, <1>3, Zenon
<1> QED BY <1>4

LEMMA HighestIsOne ==
    ASSUME NEW n \in Nat, NEW S \in SUBSET (1..n), S # {}
    PROVE  Highest(S) \in S
<1> DEFINE T == {n - w : w \in S}
<1>1. T \in SUBSET Nat /\ T # {}
  <2>1. \A w \in 1..n : n - w \in Nat
    OBVIOUS
  <2>2. PICK w \in S : TRUE
    OBVIOUS
  <2>3. n - w \in T
    OBVIOUS
  <2>4. T \subseteq Nat
    BY <2>1
  <2> QED BY <2>3, <2>4
<1>2. PICK t \in T : \A u \in T : t <= u
  BY <1>1, LeastNumber
<1>3. PICK w \in S : t = n - w
  BY <1>2
<1>4. \A x \in S : x <= w
  <2> TAKE x \in S
  <2>1. n - x \in T
    OBVIOUS
  <2> QED BY <1>2, <1>3, <2>1
<1> QED BY <1>3, <1>4 DEF Highest
-----------------------------------------------------------------------------
\* What a request, the composer, a run and a row can be, in any number.
Post == [op : {"draft", "publish"}, by : Nat, key : Nat, media : Nat, form : Nat, file : Nat,
         draft : Nat, pc : {"sent", "done", "refused"}, row : Nat, heard : BOOLEAN, alone : BOOLEAN]
Posts(ps) == ps \in Seq(Post)

\* The list of requests, when it grows by one.
LEMMA PostsAre ==
    ASSUME NEW ps, Posts(ps)
    PROVE  Len(ps) \in Nat /\ DOMAIN ps = 1..Len(ps) /\ \A i \in 1..Len(ps) : ps[i] \in Post
  BY DEF Posts

LEMMA OnePostMore ==
    ASSUME NEW ps, Posts(ps), NEW q \in Post
    PROVE  /\ Posts(Append(ps, q)) /\ Len(Append(ps, q)) = Len(ps) + 1
           /\ \A i \in 1..Len(ps) : Append(ps, q)[i] = ps[i]
           /\ Append(ps, q)[Len(ps) + 1] = q
  BY DEF Posts
-----------------------------------------------------------------------------
Composers == [at : {"closed", "loading", "open", "leaving", "left"},
              phase : {"idle", "ready", "failed", "done"} \union Busy,
              file : Nat, ready : Nat, draft : Nat, key : Nat, asked : BOOLEAN, form : Nat,
              run : Nat, saving : BOOLEAN]
RunState == [pc : {"upload", "wait", "draft", "end"}, aborted : BOOLEAN]
RunList(rs) == rs \in Seq(RunState)
WorkList(ws) == ws \in Seq([media : Nat, life : {"draft", "published"}])

\* The list of runs.
LEMMA RunsAre ==
    ASSUME NEW rs, RunList(rs)
    PROVE  Len(rs) \in Nat /\ DOMAIN rs = 1..Len(rs) /\ \A r \in 1..Len(rs) : rs[r] \in RunState
  BY DEF RunList

\* A run that makes its media.
Active(rs, r) == r \in 1..Len(rs) /\ rs[r].pc \in {"upload", "wait"}

\* Media that no run makes any more.
Finished(rs, m) == m = 0 \/ m = Stored \/ (m \in 1..Len(rs) /\ ~Active(rs, m))

\* The types, and that nothing names a form or a run that was not there yet.
PageTypes ==
    /\ composer \in Composers /\ forms \in Nat
    /\ RunList(preparing) /\ Len(preparing) <= MaxRuns /\ Posts(posts) /\ WorkList(works)
    /\ composer.form <= forms /\ composer.file <= Len(preparing) /\ composer.run <= Len(preparing)

\* Publications name what there was, and what they publish is there.
Named ==
    \A i \in 1..Len(posts) :
      /\ posts[i].media # 0 /\ Finished(preparing, posts[i].media)
      /\ posts[i].op = "publish" =>
           /\ posts[i].key # 0 /\ posts[i].form \in 1..forms /\ posts[i].file \in 1..Len(preparing)

\* What the composer shows as ready is made, a run that it waits for makes its
\* media, and a wish to publish is about a file.
WishesOK ==
    /\ Finished(preparing, composer.ready)
    /\ composer.phase \in {"uploading", "processing"} /\ composer.run # 0 => Active(preparing, composer.run)
    /\ composer.asked => composer.file # 0

\* The server answers for a key with one row and one content.
Answers ==
    \A i, j \in 1..Len(posts) :
      /\ posts[i].op = "publish" /\ posts[j].op = "publish"
      /\ posts[i].pc = "done" /\ posts[j].pc = "done" /\ posts[i].key = posts[j].key
      => posts[i].row = posts[j].row /\ posts[i].media = posts[j].media /\ posts[i].form = posts[j].form

\* What the promise assumes of the past, and who is out.
AllAlone == \A i \in 1..Len(posts) : posts[i].op = "publish" => posts[i].alone
Out(i) == posts[i].op = "publish" /\ ~posts[i].heard
NoneOut == \A i \in 1..Len(posts) : ~Out(i)
OneOut == \A i, j \in 1..Len(posts) : Out(i) /\ Out(j) => i = j

\* A run that is saving its draft was not asked to publish, unless what was
\* asked for is on its way.
SavesOnly ==
    composer.run # 0 /\ preparing[composer.run].pc = "draft" /\ composer.asked => ~NoneOut

\* Media that the composer will not publish with this form and file.
Spent(m) == composer.ready # m \/ (composer.phase \notin {"ready", "publishing"} /\ NoneOut)

\* A publication of the form and file of the composer has its key, or its media
\* will not be published with them again.
KeyHeld ==
    \A i \in 1..Len(posts) :
      posts[i].op = "publish" /\ posts[i].form = composer.form /\ posts[i].file = composer.file
      => posts[i].key = composer.key \/ Spent(posts[i].media)

\* Publications of one content have one key.
OneKey ==
    \A i, j \in 1..Len(posts) :
      /\ posts[i].op = "publish" /\ posts[j].op = "publish" /\ posts[i].media = posts[j].media
      /\ posts[i].form = posts[j].form /\ posts[i].file = posts[j].file
      => posts[i].key = posts[j].key

\* A run saves one draft, once its media are ready, and waits for the answer.
RunDrafts ==
    \A i \in 1..Len(posts) : posts[i].op = "draft" /\ posts[i].by \in Runs =>
      /\ posts[i].by \in 1..Len(preparing) /\ ~Active(preparing, posts[i].by)
      /\ ~posts[i].heard => preparing[posts[i].by].pc = "draft"
      /\ \A j \in 1..Len(posts) : posts[j].op = "draft" /\ posts[j].by = posts[i].by => j = i

\* The inductive invariant.
PageInv == PageTypes /\ Named /\ RunDrafts /\ WishesOK /\ Answers
           /\ (AllAlone => OneOut /\ SavesOnly /\ KeyHeld /\ OneKey)

\* What no step does to a request.
Same(q, p) ==
    /\ q.op = p.op /\ q.by = p.by /\ q.key = p.key /\ q.form = p.form /\ q.file = p.file /\ q.media = p.media
    /\ q.alone = p.alone /\ (p.heard => q.heard)

\* What a step may do to the requests and runs that are there.
OldPosts == Len(posts) <= Len(posts') /\ \A i \in 1..Len(posts) : Same(posts'[i], posts[i])
OldWorks == \A i \in 1..Len(posts) :
    posts[i].op = "publish" => posts'[i].pc = posts[i].pc /\ posts'[i].row = posts[i].row
OldRuns == Len(preparing) <= Len(preparing') /\ \A m : Finished(preparing, m) => Finished(preparing', m)

\* Steps that publish nothing.
LEMMA DraftsOnly ==
    ASSUME PageInv, PageTypes', OldPosts, OldRuns, forms <= forms',
           \A i \in 1..Len(posts') : i > Len(posts) =>
             posts'[i].op = "draft" /\ posts'[i].media # 0 /\ Finished(preparing', posts'[i].media)
    PROVE  /\ Named' /\ (OldWorks => Answers') /\ (AllAlone' => AllAlone)
           /\ (AllAlone' => OneOut' /\ OneKey') /\ (NoneOut => NoneOut')
<1>1. /\ Len(posts) \in Nat /\ Len(posts') \in Nat /\ Len(preparing) \in Nat /\ Len(preparing') \in Nat
      /\ forms \in Nat /\ forms' \in Nat
  BY PostsAre, RunsAre DEF PageInv, PageTypes
<1>2. \A i \in 1..Len(posts') : posts'[i].op = "publish" => i \in 1..Len(posts)
  BY <1>1
<1>3. \A i \in 1..Len(posts) : i \in 1..Len(posts') /\ Same(posts'[i], posts[i])
  BY <1>1 DEF OldPosts
<1>4. Named'
  <2> SUFFICES ASSUME NEW i \in 1..Len(posts')
               PROVE  /\ posts'[i].media # 0 /\ Finished(preparing', posts'[i].media)
                      /\ posts'[i].op = "publish" =>
                           /\ posts'[i].key # 0 /\ posts'[i].form \in 1..forms'
                           /\ posts'[i].file \in 1..Len(preparing')
    BY DEF Named
  <2>1. CASE i \in 1..Len(posts)
    <3>1. Same(posts'[i], posts[i])
      BY <1>3, <2>1
    <3>2. posts[i].media # 0 /\ Finished(preparing', posts[i].media)
      BY <2>1 DEF PageInv, Named, OldRuns
    <3>3. posts'[i].media # 0 /\ Finished(preparing', posts'[i].media)
      BY <3>1, <3>2 DEF Same
    <3>4. posts'[i].op = "publish" =>
                           /\ posts'[i].key # 0 /\ posts'[i].form \in 1..forms'
                           /\ posts'[i].file \in 1..Len(preparing')
      <4>1. posts[i].op = "publish" => posts[i].key # 0 /\ posts[i].form \in 1..forms
                                       /\ posts[i].file \in 1..Len(preparing)
        BY <2>1 DEF PageInv, Named
      <4>2. Len(preparing) <= Len(preparing')
        BY DEF OldRuns
      <4>3. posts'[i].op = posts[i].op /\ posts'[i].key = posts[i].key
            /\ posts'[i].form = posts[i].form /\ posts'[i].file = posts[i].file
        BY <3>1 DEF Same
      <4> QED BY <1>1, <4>1, <4>2, <4>3
    <3> QED BY <3>3, <3>4
  <2>2. CASE i \notin 1..Len(posts)
    BY <1>1, <2>2
  <2> QED BY <2>1, <2>2
<1>5. OldWorks => Answers'
  BY <1>2, <1>3 DEF OldWorks, Same, PageInv, Answers
<1>6. AllAlone' => AllAlone
  BY <1>3 DEF AllAlone, Same
<1>7. NoneOut => NoneOut'
  BY <1>2, <1>3 DEF NoneOut, Out, Same
<1>8. OneOut => OneOut'
  BY <1>2, <1>3 DEF OneOut, Out, Same
<1>9. OneKey => OneKey'
  BY <1>2, <1>3 DEF OneKey, Same
<1> QED BY <1>4, <1>5, <1>6, <1>7, <1>8, <1>9 DEF PageInv

\* What is left to show of a step that publishes nothing.
LEMMA StepKeeps ==
    ASSUME PageInv, PageTypes', OldPosts, OldWorks \/ Answers', OldRuns, forms <= forms',
           \A i \in 1..Len(posts') : i > Len(posts) =>
             posts'[i].op = "draft" /\ posts'[i].media # 0 /\ Finished(preparing', posts'[i].media),
           RunDrafts', WishesOK', AllAlone => SavesOnly' /\ KeyHeld'
    PROVE  PageInv'
  BY DraftsOnly DEF PageInv

\* The key is kept, and what is ready does not come back.
LEMMA KeyStays ==
    ASSUME PageInv, AllAlone, OldPosts, NoneOut => NoneOut',
           \A i \in 1..Len(posts') : i > Len(posts) => posts'[i].op = "draft",
           Len(posts') \in Nat,
           composer'.form = composer.form, composer'.file = composer.file, composer'.key = composer.key,
           \/ composer'.ready = 0 \/ Active(preparing, composer'.ready)
           \/ /\ composer'.ready = composer.ready
              /\ NoneOut /\ composer'.phase \in {"ready", "publishing"} =>
                   composer.phase \in {"ready", "publishing"}
    PROVE  KeyHeld'
<1>1. Len(posts) \in Nat
  BY PostsAre DEF PageInv, PageTypes
<1>2. SUFFICES ASSUME NEW i \in 1..Len(posts'), posts'[i].op = "publish",
                      posts'[i].form = composer'.form, posts'[i].file = composer'.file,
                      posts'[i].key # composer'.key
               PROVE  \/ composer'.ready # posts'[i].media
                      \/ composer'.phase \notin {"ready", "publishing"} /\ NoneOut'
  BY DEF KeyHeld, Spent
<1>3. i \in 1..Len(posts) /\ Same(posts'[i], posts[i])
  BY <1>1, <1>2 DEF OldPosts
<1>4. Spent(posts[i].media)
  BY <1>2, <1>3 DEF Same, PageInv, KeyHeld
<1>5. posts[i].media # 0 /\ Finished(preparing, posts[i].media) /\ posts'[i].media = posts[i].media
  BY <1>3 DEF PageInv, Named, Same
<1>6. CASE composer'.ready = 0
  BY <1>5, <1>6
<1>7. CASE Active(preparing, composer'.ready)
  <2>1. composer'.ready \in 1..MaxRuns
    BY <1>7, RunsAre, StoredAssumption DEF PageInv, PageTypes, Active
  <2> QED BY <1>5, <1>7, <2>1, StoredAssumption DEF Finished
<1>8. CASE /\ composer'.ready = composer.ready
           /\ NoneOut /\ composer'.phase \in {"ready", "publishing"} =>
                composer.phase \in {"ready", "publishing"}
  BY <1>4, <1>5, <1>8 DEF Spent
<1> QED BY <1>6, <1>7, <1>8

\* Steps that leave the form, the file and the key, and publish nothing.
LEMMA QuietKeeps ==
    ASSUME PageInv, PageTypes', OldPosts, OldWorks \/ Answers', OldRuns, forms' = forms,
           \A i \in 1..Len(posts') : i > Len(posts) =>
             posts'[i].op = "draft" /\ posts'[i].media # 0 /\ Finished(preparing', posts'[i].media),
           RunDrafts', WishesOK',
           composer'.form = composer.form, composer'.file = composer.file, composer'.key = composer.key,
           composer'.run \in {0, composer.run},
           \/ composer'.ready = 0 \/ Active(preparing, composer'.ready)
           \/ /\ composer'.ready = composer.ready
              /\ NoneOut /\ composer'.phase \in {"ready", "publishing"} =>
                   composer.phase \in {"ready", "publishing"},
           composer'.asked /\ composer.run # 0 /\ preparing'[composer.run].pc = "draft" =>
             composer.asked /\ preparing[composer.run].pc = "draft" /\ (NoneOut' => NoneOut)
    PROVE  PageInv'
<1>1. forms \in Nat /\ Len(posts') \in Nat
  BY PostsAre DEF PageInv, PageTypes
<1>2. NoneOut => NoneOut'
  BY <1>1, DraftsOnly
<1>3. AllAlone => KeyHeld'
  BY <1>1, <1>2, KeyStays
<1>4. AllAlone => SavesOnly'
  BY DEF PageInv, SavesOnly
<1> QED BY <1>1, <1>3, <1>4, StepKeeps

\* No request is of a new form or file, or of none.
LEMMA KeyIsNew ==
    ASSUME PageInv, OldPosts, Len(posts') \in Nat,
           \A i \in 1..Len(posts') : i > Len(posts) => posts'[i].op = "draft",
           composer'.form \notin 1..forms \/ composer'.file \notin 1..Len(preparing)
    PROVE  KeyHeld'
<1>1. Len(posts) \in Nat
  BY PostsAre DEF PageInv, PageTypes
<1>2. SUFFICES ASSUME NEW i \in 1..Len(posts'), posts'[i].op = "publish",
                      posts'[i].form = composer'.form, posts'[i].file = composer'.file
               PROVE  FALSE
  BY DEF KeyHeld
<1>3. i \in 1..Len(posts) /\ Same(posts'[i], posts[i])
  BY <1>1, <1>2 DEF OldPosts
<1> QED BY <1>2, <1>3 DEF PageInv, Named, Same

\* What is said of the runs when the list of them changes.
LEMMA RunsFinish ==
    ASSUME RunList(preparing), Len(preparing) <= Len(preparing'), Len(preparing') \in Nat,
           \A r \in 1..Len(preparing) :
             preparing'[r].pc \in {"upload", "wait"} => preparing[r].pc \in {"upload", "wait"}
    PROVE  OldRuns
<1>1. Len(preparing) \in Nat
  BY RunsAre
<1> QED BY <1>1 DEF OldRuns, Finished, Active

\* An abort and the change of a run leave all else of the list.
LEMMA RunAborted ==
    ASSUME NEW rs, RunList(rs), NEW r
    PROVE  /\ RunList(Aborted(rs, r)) /\ Len(Aborted(rs, r)) = Len(rs)
           /\ \A i \in 1..Len(rs) : Aborted(rs, r)[i].pc = rs[i].pc
<1>1. Len(rs) \in Nat /\ DOMAIN rs = 1..Len(rs) /\ \A i \in 1..Len(rs) : rs[i] \in RunState
  BY RunsAre
<1>2. \A i \in 1..Len(rs) : [rs[i] EXCEPT !.aborted = TRUE] \in RunState
                            /\ [rs[i] EXCEPT !.aborted = TRUE].pc = rs[i].pc
  BY <1>1 DEF RunState
<1>3. /\ DOMAIN Aborted(rs, r) = 1..Len(rs)
      /\ \A i \in 1..Len(rs) : Aborted(rs, r)[i] \in RunState /\ Aborted(rs, r)[i].pc = rs[i].pc
  BY <1>1, <1>2 DEF Aborted
<1>4. Aborted(rs, r) \in [1..Len(rs) -> RunState]
  BY <1>1, <1>2 DEF Aborted
<1>5. Aborted(rs, r) \in Seq(RunState) /\ Len(Aborted(rs, r)) = Len(rs)
  BY <1>1, <1>4
<1> QED BY <1>3, <1>5 DEF RunList

LEMMA RunSet ==
    ASSUME NEW rs, RunList(rs), NEW r \in 1..Len(rs), NEW s \in RunState
    PROVE  LET qs == [rs EXCEPT ![r] = s] IN
           RunList(qs) /\ Len(qs) = Len(rs) /\ qs[r] = s /\ \A i \in 1..Len(rs) : i # r => qs[i] = rs[i]
  BY DEF RunList

LEMMA RunAdded ==
    ASSUME NEW rs, RunList(rs), NEW s \in RunState
    PROVE  LET qs == Append(rs, s) IN
           RunList(qs) /\ Len(qs) = Len(rs) + 1 /\ qs[Len(rs) + 1] = s /\ \A i \in 1..Len(rs) : qs[i] = rs[i]
  BY DEF RunList

\* A step that asks for no draft by a run.
LEMMA DraftsStay ==
    ASSUME PageInv, OldPosts, Len(posts') \in Nat, Len(preparing) <= Len(preparing'), Len(preparing') \in Nat,
           \A r \in 1..Len(preparing) :
             /\ preparing'[r].pc \in {"upload", "wait"} => preparing[r].pc \in {"upload", "wait"}
             /\ preparing[r].pc = "draft" => preparing'[r].pc = "draft",
           \A i \in 1..Len(posts') :
             i > Len(posts) => posts'[i].op # "draft" \/ posts'[i].by \notin Runs
    PROVE  RunDrafts'
<1>1. Len(posts) \in Nat /\ Len(preparing) \in Nat
  BY PostsAre, RunsAre DEF PageInv, PageTypes
<1>2. ASSUME NEW i \in 1..Len(posts'), posts'[i].op = "draft", posts'[i].by \in Runs
      PROVE  i \in 1..Len(posts) /\ Same(posts'[i], posts[i])
  BY <1>1, <1>2 DEF OldPosts
<1> SUFFICES ASSUME NEW i \in 1..Len(posts'), posts'[i].op = "draft", posts'[i].by \in Runs
             PROVE  /\ posts'[i].by \in 1..Len(preparing') /\ ~Active(preparing', posts'[i].by)
                    /\ ~posts'[i].heard => preparing'[posts'[i].by].pc = "draft"
                    /\ \A j \in 1..Len(posts') : posts'[j].op = "draft" /\ posts'[j].by = posts'[i].by => j = i
  BY DEF RunDrafts
<1>3. i \in 1..Len(posts) /\ Same(posts'[i], posts[i])
  BY <1>2
<1>4. /\ posts[i].by \in 1..Len(preparing) /\ ~Active(preparing, posts[i].by)
      /\ ~posts[i].heard => preparing[posts[i].by].pc = "draft"
      /\ \A j \in 1..Len(posts) : posts[j].op = "draft" /\ posts[j].by = posts[i].by => j = i
  BY <1>3 DEF Same, PageInv, RunDrafts
<1>5. \A j \in 1..Len(posts') : posts'[j].op = "draft" /\ posts'[j].by = posts'[i].by => j = i
  BY <1>2, <1>3, <1>4 DEF Same
<1> QED BY <1>1, <1>3, <1>4, <1>5 DEF Same, Active

\* Nothing is asked, and no run changes.
LEMMA PostsStay ==
    ASSUME PageInv, posts' = posts
    PROVE  /\ OldPosts /\ OldWorks /\ (NoneOut' <=> NoneOut) /\ Len(posts') \in Nat /\ Posts(posts')
           /\ \A i \in 1..Len(posts') : ~ (i > Len(posts))
<1>1. Len(posts) \in Nat /\ Posts(posts)
  BY PostsAre DEF PageInv, PageTypes
<1> QED BY <1>1 DEF OldPosts, OldWorks, Same, NoneOut, Out

LEMMA RunsStay ==
    ASSUME PageInv, preparing' = preparing
    PROVE  OldRuns /\ RunList(preparing') /\ Len(preparing') = Len(preparing) /\ Len(preparing) \in Nat
<1>1. RunList(preparing) /\ Len(preparing) \in Nat
  BY RunsAre DEF PageInv, PageTypes
<1> QED BY <1>1 DEF OldRuns

\* The page opens, the draft arrives, or the form is edited.
LEMMA LoadKeeps ==
    ASSUME PageInv, OpenPage \/ DraftLoaded \/ DraftNotLoaded \/ Edit
    PROVE  PageInv'
<1>1. posts' = posts /\ preparing' = preparing /\ works' = works
  BY DEF OpenPage, DraftLoaded, DraftNotLoaded, Edit
<1>2. /\ OldPosts /\ OldWorks /\ OldRuns /\ (NoneOut' <=> NoneOut)
      /\ Len(posts') \in Nat /\ Posts(posts') /\ RunList(preparing') /\ Len(preparing) \in Nat
      /\ \A i \in 1..Len(posts') : ~ (i > Len(posts))
  BY <1>1, PostsStay, RunsStay
<1>3. /\ composer \in Composers /\ forms \in Nat /\ Len(preparing) <= MaxRuns /\ WorkList(works)
      /\ composer.form <= forms /\ composer.file <= Len(preparing) /\ composer.run <= Len(preparing)
      /\ Stored \in Nat
  BY StoredAssumption DEF PageInv, PageTypes
<1>4. forms' \in Nat /\ forms <= forms'
  BY <1>3 DEF OpenPage, DraftLoaded, DraftNotLoaded, Edit
<1>5. CASE OpenPage \/ DraftNotLoaded
  <2>1. PICK at \in {"open", "loading"} : composer' = [composer EXCEPT !.at = at] /\ forms' = forms
    BY <1>5 DEF OpenPage, DraftNotLoaded
  <2>2. composer' \in Composers
    BY <1>3, <2>1 DEF Composers
  <2>3. /\ composer'.phase = composer.phase /\ composer'.file = composer.file
        /\ composer'.ready = composer.ready /\ composer'.key = composer.key
        /\ composer'.asked = composer.asked /\ composer'.form = composer.form
        /\ composer'.run = composer.run
    BY <1>3, <2>1 DEF Composers
  <2>4. PageTypes'
    BY <1>1, <1>2, <1>3, <2>1, <2>2, <2>3 DEF PageTypes
  <2>5. WishesOK'
    BY <1>1, <2>3 DEF PageInv, WishesOK
  <2>6. AllAlone => SavesOnly' /\ KeyHeld'
    BY <1>1, <1>2, <2>3, KeyStays DEF PageInv, SavesOnly
  <2>7. RunDrafts'
    BY <1>1, <1>2, DraftsStay
  <2> QED BY <1>1, <1>2, <1>4, <2>4, <2>5, <2>6, <2>7, StepKeeps
<1>6. CASE DraftLoaded \/ Edit
  <2>1. composer' \in Composers /\ composer'.form = forms' /\ forms' = forms + 1
    <3> DEFINE f == forms + 1
    <3>1. f \in Nat /\ forms' = f
      BY <1>3, <1>6 DEF DraftLoaded, Edit
    <3>2. CASE DraftLoaded
      <4> DEFINE p == [composer EXCEPT !.at = "open", !.phase = "ready", !.ready = Stored,
                                       !.draft = 1, !.form = f]
      <4>1. composer' = [p EXCEPT !.key = 0]
        BY <3>2 DEF DraftLoaded, Changed
      <4> HIDE DEF f
      <4>2. p \in Composers /\ p.form = f
        BY <1>3, <3>1 DEF Composers
      <4> HIDE DEF p
      <4> QED BY <3>1, <4>1, <4>2 DEF Composers, f
    <3>3. CASE Edit
      <4> DEFINE p == [composer EXCEPT !.form = f]
      <4>1. composer' = [p EXCEPT !.key = 0]
        BY <3>3 DEF Edit, Changed
      <4> HIDE DEF f
      <4>2. p \in Composers /\ p.form = f
        BY <1>3, <3>1 DEF Composers
      <4> HIDE DEF p
      <4> QED BY <3>1, <4>1, <4>2 DEF Composers, f
    <3> QED BY <1>6, <3>2, <3>3
  <2>2. /\ composer'.file = composer.file /\ composer'.run = composer.run
        /\ composer'.asked = composer.asked
        /\ \/ composer'.ready = composer.ready /\ composer'.phase = composer.phase
           \/ composer'.ready = Stored /\ composer'.phase = "ready"
    <3>1. CASE DraftLoaded
      BY <1>3, <3>1 DEF Composers, DraftLoaded, Changed
    <3>2. CASE Edit
      BY <1>3, <3>2 DEF Composers, Edit, Changed
    <3> QED BY <1>6, <3>1, <3>2
  <2>3. composer'.form \notin 1..forms
    BY <1>3, <2>1
  <2>4. PageTypes'
    BY <1>1, <1>2, <1>3, <2>1, <2>2, <2>3 DEF PageTypes
  <2>5. WishesOK'
    BY <1>1, <2>2 DEF PageInv, WishesOK, Finished
  <2>6. AllAlone => SavesOnly' /\ KeyHeld'
    BY <1>1, <1>2, <2>2, <2>3, KeyIsNew DEF PageInv, SavesOnly
  <2>7. RunDrafts'
    BY <1>1, <1>2, DraftsStay
  <2> QED BY <1>1, <1>2, <1>4, <2>4, <2>5, <2>6, <2>7, StepKeeps
<1> QED BY <1>5, <1>6

\* Whatever else the user does without a request.
LEMMA PickKeeps ==
    ASSUME PageInv, AcceptFile \/ ClearVideo \/ Cancel \/ StartAnother
    PROVE  PageInv'
<1>1. posts' = posts /\ works' = works /\ forms' = forms
  BY DEF AcceptFile, ClearVideo, Cancel, StartAnother
<1>2. /\ OldPosts /\ OldWorks /\ (NoneOut' <=> NoneOut)
      /\ Len(posts') \in Nat /\ Posts(posts')
      /\ \A i \in 1..Len(posts') : ~ (i > Len(posts))
  BY <1>1, PostsStay
<1>3. /\ composer \in Composers /\ forms \in Nat /\ Len(preparing) <= MaxRuns /\ WorkList(works)
      /\ composer.form <= forms /\ composer.file <= Len(preparing) /\ composer.run <= Len(preparing)
      /\ Len(preparing) \in Nat /\ RunList(preparing)
  BY RunsAre DEF PageInv, PageTypes
<1>4. LET rs == Aborted(preparing, composer.run) IN
      /\ RunList(rs) /\ Len(rs) = Len(preparing)
      /\ \A i \in 1..Len(preparing) : rs[i].pc = preparing[i].pc
  BY <1>3, RunAborted
<1>5. CASE AcceptFile
  <2> DEFINE rs == Aborted(preparing, composer.run)
             r == Len(preparing) + 1
             new == [pc |-> "upload", aborted |-> FALSE]
  <2>1. /\ r \in Runs /\ preparing' = Append(rs, new)
        /\ composer' = [Changed([composer EXCEPT !.asked = FALSE, !.file = r])
                          EXCEPT !.run = r, !.ready = 0, !.phase = "uploading"]
    BY <1>5 DEF AcceptFile, Prepare
  <2>2. new \in RunState
    BY DEF RunState
  <2>3. /\ RunList(preparing') /\ Len(preparing') = r /\ preparing'[r] = new
        /\ \A i \in 1..Len(preparing) : preparing'[i].pc = preparing[i].pc
    <3> HIDE DEF rs, new
    <3>1. RunList(rs) /\ Len(rs) = Len(preparing) /\ \A i \in 1..Len(preparing) : rs[i].pc = preparing[i].pc
      BY <1>4 DEF rs
    <3> QED BY <2>1, <2>2, <3>1, RunAdded
  <2>4. /\ composer' \in Composers /\ composer'.form = composer.form /\ composer'.file = r
        /\ composer'.run = r /\ composer'.ready = 0 /\ composer'.phase = "uploading" /\ composer'.asked = FALSE
    <3> DEFINE p == [composer EXCEPT !.asked = FALSE, !.file = r]
               q == [p EXCEPT !.key = 0]
    <3>0. r \in Nat
      BY <1>3
    <3> HIDE DEF r
    <3>1. /\ p \in Composers /\ p.form = composer.form /\ p.file = r /\ p.asked = FALSE
      BY <1>3, <3>0 DEF Composers
    <3> HIDE DEF p
    <3>2. /\ q \in Composers /\ q.form = composer.form /\ q.file = r /\ q.asked = FALSE
      BY <3>1 DEF Composers
    <3>3. composer' = [q EXCEPT !.run = r, !.ready = 0, !.phase = "uploading"]
      BY <2>1 DEF Changed, p
    <3> HIDE DEF q
    <3> QED BY <3>0, <3>2, <3>3 DEF Composers, Busy
  <2>5. OldRuns
    BY <1>3, <2>3, RunsFinish
  <2>6. PageTypes'
    BY <1>1, <1>2, <1>3, <2>1, <2>3, <2>4 DEF PageTypes, Runs
  <2>7. WishesOK'
    BY <1>3, <2>3, <2>4 DEF WishesOK, Finished, Active
  <2>8. AllAlone => SavesOnly' /\ KeyHeld'
    BY <1>2, <1>3, <2>4, KeyIsNew DEF SavesOnly
  <2>9. RunDrafts'
    BY <1>2, <1>3, <2>3, DraftsStay
  <2> QED BY <1>1, <1>2, <1>3, <2>5, <2>6, <2>7, <2>8, <2>9, StepKeeps
<1>6. CASE ClearVideo \/ Cancel \/ StartAnother
  <2>1. preparing' = Aborted(preparing, composer.run)
    BY <1>6 DEF ClearVideo, Cancel, StartAnother
  <2>2. /\ RunList(preparing') /\ Len(preparing') = Len(preparing)
        /\ \A i \in 1..Len(preparing) : preparing'[i].pc = preparing[i].pc
    BY <1>4, <2>1
  <2>3. OldRuns
    BY <1>3, <2>2, RunsFinish
  <2>4. /\ composer' \in Composers /\ composer'.asked = FALSE
        /\ \/ /\ composer'.form = composer.form /\ composer'.file = composer.file
              /\ composer'.key = composer.key /\ composer'.ready = composer.ready
              /\ composer'.phase = composer.phase /\ composer'.run = composer.run
           \/ /\ composer'.form \in {composer.form, 0} /\ composer'.file = 0 /\ composer'.ready = 0
              /\ composer'.run = 0 /\ composer'.phase = "idle"
    <3>1. CASE ClearVideo /\ composer.file = 0
      BY <1>3, <3>1 DEF Composers, Changed, ClearVideo
    <3>2. CASE ClearVideo /\ composer.file # 0
      BY <1>3, <3>2 DEF Composers, Changed, ClearVideo
    <3>3. CASE Cancel
      BY <1>3, <3>3 DEF Composers, Cancel
    <3>4. CASE StartAnother
      BY <1>3, <3>4 DEF Composers, StartAnother
    <3> QED BY <1>6, <3>1, <3>2, <3>3, <3>4
  <2>5. PageTypes'
    BY <1>1, <1>2, <1>3, <2>2, <2>4 DEF PageTypes
  <2>6. WishesOK'
    BY <1>3, <2>2, <2>4 DEF PageInv, WishesOK, Finished, Active
  <2>7. AllAlone => SavesOnly' /\ KeyHeld'
    BY <1>2, <1>3, <2>4, KeyIsNew, KeyStays DEF SavesOnly
  <2>8. RunDrafts'
    BY <1>2, <1>3, <2>2, DraftsStay
  <2> QED BY <1>1, <1>2, <1>3, <2>3, <2>5, <2>6, <2>7, <2>8, StepKeeps
<1> QED BY <1>5, <1>6
-----------------------------------------------------------------------------
\* A new publication that is alone is of media no spent request is of.
LEMMA PublicationKeeps ==
    ASSUME PageInv, PageTypes', OldRuns, forms' = forms, RunDrafts', WishesOK',
           NEW ps, Posts(ps), Len(ps) = Len(posts),
           \A i \in 1..Len(posts) : Same(ps[i], posts[i]) /\ ps[i].pc = posts[i].pc /\ ps[i].row = posts[i].row,
           NEW q \in Post, posts' = Append(ps, q),
           q.op = "publish" /\ q.pc = "sent" /\ ~q.heard,
           q.key # 0 /\ q.form \in 1..forms /\ q.file \in 1..Len(preparing) /\ q.media # 0,
           Finished(preparing', q.media),
           q.form = composer.form /\ q.file = composer.file,
           q.key = composer'.key /\ q.form = composer'.form /\ q.file = composer'.file,
           composer.key # 0 => q.key = composer.key,
           AllAlone /\ q.alone => /\ NoneOut /\ composer'.ready = q.media
                                  /\ \/ composer.ready = q.media /\ composer.phase = "ready"
                                     \/ Active(preparing, q.media)
    PROVE  PageInv'
<1> DEFINE n == Len(posts) + 1
<1>1. /\ Len(posts) \in Nat /\ Len(posts') = n /\ posts'[n] = q
      /\ \A i \in 1..Len(posts) : posts'[i] = ps[i]
  BY PostsAre, OnePostMore
<1>2. \A i \in 1..n : i \in 1..Len(posts) \/ i = n
  BY <1>1
<1> HIDE DEF n
<1>3. \A i \in 1..Len(posts) :
        Same(posts'[i], posts[i]) /\ posts'[i].pc = posts[i].pc /\ posts'[i].row = posts[i].row
  BY <1>1
<1>4. /\ Len(preparing) \in Nat /\ Len(preparing') \in Nat /\ Len(preparing) <= Len(preparing')
  BY RunsAre DEF PageInv, PageTypes, OldRuns
<1>5. Named'
  <2> SUFFICES ASSUME NEW i \in 1..n
               PROVE  /\ posts'[i].media # 0 /\ Finished(preparing', posts'[i].media)
                      /\ posts'[i].op = "publish" =>
                           /\ posts'[i].key # 0 /\ posts'[i].form \in 1..forms
                           /\ posts'[i].file \in 1..Len(preparing')
    BY <1>1 DEF Named
  <2>1. CASE i = n
    BY <1>1, <1>4, <2>1
  <2>2. CASE i \in 1..Len(posts)
    <3>1. /\ posts'[i].op = posts[i].op /\ posts'[i].key = posts[i].key /\ posts'[i].media = posts[i].media
          /\ posts'[i].form = posts[i].form /\ posts'[i].file = posts[i].file
      BY <1>3, <2>2 DEF Same
    <3>2. /\ posts[i].media # 0 /\ Finished(preparing, posts[i].media)
          /\ posts[i].op = "publish" =>
               posts[i].key # 0 /\ posts[i].form \in 1..forms /\ posts[i].file \in 1..Len(preparing)
      BY <2>2 DEF PageInv, Named
    <3>3. Finished(preparing', posts[i].media)
      BY <3>2 DEF OldRuns
    <3> QED BY <1>4, <3>1, <3>2, <3>3
  <2> QED BY <1>2, <2>1, <2>2
<1>6. Answers'
  <2>1. \A i \in 1..n : posts'[i].pc = "done" => i \in 1..Len(posts)
    BY <1>1, <1>2
  <2> QED BY <1>1, <1>3, <2>1, SMTT(30) DEF Answers, Same, PageInv
<1>7. ASSUME AllAlone' PROVE OneOut' /\ SavesOnly' /\ KeyHeld' /\ OneKey'
  <2>1. n \in 1..n
    BY <1>1 DEF n
  <2>2. q.alone
    BY <1>1, <1>7, <2>1 DEF AllAlone
  <2>3. \A i \in 1..Len(posts) : i \in 1..n
    BY <1>1 DEF n
  <2>4. AllAlone
    BY <1>1, <1>3, <1>7, <2>3 DEF AllAlone, Same
  <2>5. \A i \in 1..Len(posts) : posts[i].op = "publish" =>
          /\ posts'[i].heard
          /\ posts[i].form = q.form /\ posts[i].file = q.file /\ posts[i].key # q.key
               => posts'[i].media # q.media
    <3> SUFFICES ASSUME NEW i \in 1..Len(posts), posts[i].op = "publish"
                 PROVE  /\ posts'[i].heard
                        /\ posts[i].form = q.form /\ posts[i].file = q.file /\ posts[i].key # q.key
                             => posts'[i].media # q.media
      OBVIOUS
    <3>1. posts'[i].heard
      BY <1>3, <2>2, <2>4 DEF NoneOut, Out, Same
    <3>2. ASSUME posts[i].form = q.form, posts[i].file = q.file, posts[i].key # q.key
          PROVE  posts'[i].media # q.media
      <4>1. posts[i].key # 0 /\ Finished(preparing, posts[i].media) /\ posts'[i].media = posts[i].media
        BY <1>3 DEF PageInv, Named, Same
      <4>2. posts[i].key # composer.key
        BY <3>2, <4>1
      <4>3. Spent(posts[i].media)
        BY <2>4, <3>2, <4>2 DEF PageInv, KeyHeld
      <4>4. CASE composer.ready = q.media /\ composer.phase = "ready"
        BY <4>1, <4>3, <4>4 DEF Spent
      <4>5. CASE Active(preparing, q.media)
        <5>1. q.media \in 1..MaxRuns
          BY <4>5, RunsAre, StoredAssumption DEF PageInv, PageTypes, Active
        <5> QED BY <4>1, <4>5, <5>1, StoredAssumption DEF Finished
      <4> QED BY <2>2, <2>4, <4>4, <4>5
    <3> QED BY <3>1, <3>2
  <2>6. OneOut'
    BY <1>1, <1>2, <1>3, <2>5 DEF OneOut, Out, Same
  <2>7. SavesOnly'
    BY <1>1, <2>1 DEF SavesOnly, NoneOut, Out
  <2>8. KeyHeld'
    <3> SUFFICES ASSUME NEW i \in 1..n, posts'[i].op = "publish",
                        posts'[i].form = composer'.form, posts'[i].file = composer'.file
                 PROVE  posts'[i].key = composer'.key \/ composer'.ready # posts'[i].media
      BY <1>1 DEF KeyHeld, Spent
    <3>1. CASE i = n
      BY <1>1, <3>1
    <3>2. CASE i \in 1..Len(posts)
      BY <1>3, <2>2, <2>4, <2>5, <3>2 DEF Same
    <3> QED BY <1>2, <3>1, <3>2
  <2>9. OneKey'
    <3> SUFFICES ASSUME NEW i \in 1..n, NEW j \in 1..n,
                        posts'[i].op = "publish", posts'[j].op = "publish",
                        posts'[i].media = posts'[j].media,
                        posts'[i].form = posts'[j].form, posts'[i].file = posts'[j].file
                 PROVE  posts'[i].key = posts'[j].key
      BY <1>1 DEF OneKey
    <3>1. \A k \in 1..Len(posts) : /\ posts'[k].op = posts[k].op /\ posts'[k].media = posts[k].media
                                   /\ posts'[k].form = posts[k].form /\ posts'[k].file = posts[k].file
                                   /\ posts'[k].key = posts[k].key
      BY <1>3 DEF Same
    <3>2. CASE i = n \/ j = n
      BY <1>1, <1>2, <2>5, <3>1, <3>2
    <3>3. CASE i \in 1..Len(posts) /\ j \in 1..Len(posts)
      BY <2>4, <3>1, <3>3, SMTT(30) DEF PageInv, OneKey
    <3> QED BY <1>2, <3>2, <3>3
  <2> QED BY <2>6, <2>7, <2>8, <2>9
<1> QED BY <1>5, <1>6, <1>7 DEF PageInv

\* What a new request carries.
LEMMA PublicationIsPost ==
    ASSUME NEW by \in Nat, NEW key \in Nat, NEW p \in Composers
    PROVE  LET q == NewPost("publish", by, [p EXCEPT !.key = key]) IN
           /\ q \in Post /\ q.op = "publish" /\ q.pc = "sent" /\ ~q.heard /\ q.key = key
           /\ q.form = p.form /\ q.file = p.file /\ q.media = p.ready
           /\ q.alone <=> by \in {User, p.run} /\ \A i \in DOMAIN posts : posts[i].op = "publish" => posts[i].heard
<1> DEFINE r == [p EXCEPT !.key = key]
           b == by \in {User, p.run} /\ \A i \in DOMAIN posts : posts[i].op = "publish" => posts[i].heard
           c == "publish" = "draft" \/ (by \in {User, r.run} /\ \A i \in DOMAIN posts : posts[i].op = "publish" => posts[i].heard)
<1>1. r \in Composers /\ r.form = p.form /\ r.file = p.file /\ r.ready = p.ready /\ r.run = p.run /\ r.key = key
      /\ r.draft = p.draft
  BY DEF Composers
<1>2. c \in BOOLEAN
  OBVIOUS
<1>3. c <=> b
  <2> HIDE DEF r
  <2> QED BY <1>1
<1>4. NewPost("publish", by, r) =
        [op |-> "publish", by |-> by, media |-> r.ready, draft |-> r.draft, key |-> r.key, form |-> r.form,
         file |-> r.file, alone |-> c, pc |-> "sent", row |-> 0, heard |-> FALSE]
  <2> HIDE DEF r
  <2> QED BY DEF NewPost
<1> HIDE DEF c, b, r
<1>5. NewPost("publish", by, r) \in Post /\ NewPost("publish", by, r).alone = c
  <2>1. /\ r.ready \in Nat /\ r.draft \in Nat /\ r.key \in Nat /\ r.form \in Nat /\ r.file \in Nat
    BY <1>1 DEF Composers
  <2> SUFFICES ASSUME NEW a \in BOOLEAN
               PROVE  LET q == [op |-> "publish", by |-> by, media |-> r.ready, draft |-> r.draft,
                                key |-> r.key, form |-> r.form, file |-> r.file, alone |-> a,
                                pc |-> "sent", row |-> 0, heard |-> FALSE]
                      IN  q \in Post /\ q.alone = a
    BY <1>2, <1>4, Zenon
  <2> QED BY <2>1 DEF Post
<1> QED BY <1>1, <1>3, <1>4, <1>5 DEF r, b

LEMMA DraftIsPost ==
    ASSUME NEW by \in Nat, NEW p \in Composers
    PROVE  LET q == NewPost("draft", by, p) IN
           q \in Post /\ q.op = "draft" /\ q.media = p.ready
  BY DEF NewPost, Post, Composers
-----------------------------------------------------------------------------
\* What every step knows of the variables.
LEMMA KnownTypes ==
    ASSUME PageInv
    PROVE  /\ composer \in Composers /\ forms \in Nat /\ RunList(preparing) /\ Posts(posts) /\ WorkList(works)
           /\ Len(preparing) \in Nat /\ Len(preparing) <= MaxRuns /\ Len(posts) \in Nat
           /\ composer.form <= forms /\ composer.file <= Len(preparing) /\ composer.run <= Len(preparing)
           /\ \A r \in 1..Len(preparing) : preparing[r] \in RunState
           /\ \A i \in 1..Len(posts) : posts[i] \in Post
  BY PostsAre, RunsAre DEF PageInv, PageTypes

\* A draft is asked for.
LEMMA DraftPosted ==
    ASSUME PageInv, NEW p \in Composers, NEW by \in Nat, PersistDraft(p, by),
           p.ready # 0, Finished(preparing', p.ready)
    PROVE  /\ OldPosts /\ OldWorks /\ (NoneOut' <=> NoneOut) /\ Posts(posts') /\ Len(posts') \in Nat
           /\ \A i \in 1..Len(posts') : i > Len(posts) =>
                /\ posts'[i].op = "draft" /\ posts'[i].media # 0 /\ Finished(preparing', posts'[i].media)
                /\ posts'[i].by = by /\ i = Len(posts) + 1
           /\ composer' = [p EXCEPT !.saving = TRUE]
<1> DEFINE q == NewPost("draft", by, p)
<1>1. q \in Post /\ q.op = "draft" /\ q.media = p.ready /\ q.by = by
  BY DraftIsPost DEF NewPost
<1>2. posts' = Append(posts, q) /\ composer' = [p EXCEPT !.saving = TRUE]
  BY DEF PersistDraft
<1> HIDE DEF q
<1>3. /\ Len(posts) \in Nat /\ Posts(posts') /\ Len(posts') = Len(posts) + 1
      /\ \A i \in 1..Len(posts) : posts'[i] = posts[i]
      /\ posts'[Len(posts) + 1] = q
  BY <1>1, <1>2, KnownTypes, OnePostMore
<1>4. OldPosts /\ OldWorks
  BY <1>3 DEF OldPosts, OldWorks, Same
<1>5. \A i \in 1..Len(posts') : i > Len(posts) => i = Len(posts) + 1 /\ posts'[i] = q
  BY <1>3
<1>6. NoneOut' <=> NoneOut
  BY <1>1, <1>3, <1>5 DEF NoneOut, Out
<1> QED BY <1>1, <1>2, <1>3, <1>4, <1>5, <1>6

\* The user saves a draft, or leaves.
LEMMA SaveKeeps ==
    ASSUME PageInv, OnSaveDraft
    PROVE  PageInv'
<1> USE KnownTypes
<1>1. /\ PersistDraft(composer, User) /\ composer.ready # 0
      /\ preparing' = preparing /\ forms' = forms /\ works' = works
  BY DEF OnSaveDraft
<1>2. Finished(preparing', composer.ready) /\ OldRuns
  BY <1>1, RunsStay DEF PageInv, WishesOK
<1>3. /\ OldPosts /\ OldWorks /\ (NoneOut' <=> NoneOut) /\ Posts(posts') /\ Len(posts') \in Nat
      /\ \A i \in 1..Len(posts') : i > Len(posts) =>
           /\ posts'[i].op = "draft" /\ posts'[i].media # 0 /\ Finished(preparing', posts'[i].media)
           /\ posts'[i].by = User /\ i = Len(posts) + 1
      /\ composer' = [composer EXCEPT !.saving = TRUE]
  BY <1>1, <1>2, DraftPosted DEF User
<1>4. /\ composer' \in Composers /\ composer'.form = composer.form /\ composer'.file = composer.file
      /\ composer'.key = composer.key /\ composer'.run = composer.run /\ composer'.ready = composer.ready
      /\ composer'.asked = composer.asked /\ composer'.phase = composer.phase
  BY <1>3 DEF Composers
<1>5. PageTypes'
  BY <1>1, <1>3, <1>4 DEF PageTypes
<1>6. WishesOK'
  BY <1>1, <1>4 DEF PageInv, WishesOK
<1>7. RunDrafts'
  BY <1>1, <1>3, DraftsStay DEF User, Runs
<1> QED BY <1>1, <1>2, <1>3, <1>4, <1>5, <1>6, <1>7, QuietKeeps

LEMMA LeaveKeeps ==
    ASSUME PageInv, LeavePage
    PROVE  PageInv'
<1> USE KnownTypes
<1>1. forms' = forms /\ works' = works
  BY DEF LeavePage
<1>2. CASE composer.phase = "ready" /\ composer.ready # 0 /\ ~composer.saving
  <2> DEFINE p == [composer EXCEPT !.at = "leaving"]
  <2>1. p \in Composers /\ p.ready = composer.ready
    BY DEF Composers
  <2>2. PersistDraft(p, OnLeave) /\ preparing' = preparing
    BY <1>2 DEF LeavePage
  <2>3. OnLeave \in Nat /\ OnLeave \notin Runs
    BY StoredAssumption DEF OnLeave, Runs
  <2>4. Finished(preparing', p.ready) /\ OldRuns /\ p.ready # 0
    BY <1>2, <2>1, <2>2, RunsStay DEF PageInv, WishesOK
  <2> HIDE DEF p
  <2>5. /\ OldPosts /\ OldWorks /\ (NoneOut' <=> NoneOut) /\ Posts(posts') /\ Len(posts') \in Nat
        /\ \A i \in 1..Len(posts') : i > Len(posts) =>
             /\ posts'[i].op = "draft" /\ posts'[i].media # 0 /\ Finished(preparing', posts'[i].media)
             /\ posts'[i].by = OnLeave /\ i = Len(posts) + 1
        /\ composer' = [p EXCEPT !.saving = TRUE]
    BY <2>1, <2>2, <2>3, <2>4, DraftPosted
  <2>6. composer' = [composer EXCEPT !.at = "leaving", !.saving = TRUE]
    BY <2>5 DEF p, Composers
  <2>7. /\ composer' \in Composers /\ composer'.form = composer.form /\ composer'.file = composer.file
        /\ composer'.key = composer.key /\ composer'.run = composer.run /\ composer'.ready = composer.ready
        /\ composer'.asked = composer.asked /\ composer'.phase = composer.phase
    BY <2>6 DEF Composers
  <2>8. PageTypes'
    BY <1>1, <2>2, <2>5, <2>7 DEF PageTypes
  <2>9. WishesOK'
    BY <2>2, <2>7 DEF PageInv, WishesOK
  <2>10. RunDrafts'
    BY <2>2, <2>3, <2>5, DraftsStay
  <2> QED BY <1>1, <2>2, <2>4, <2>5, <2>7, <2>8, <2>9, <2>10, QuietKeeps
<1>3. CASE ~(composer.phase = "ready" /\ composer.ready # 0 /\ ~composer.saving)
  <2>1. composer' = Left(composer) /\ preparing' = Aborted(preparing, composer.run) /\ posts' = posts
    BY <1>3 DEF LeavePage
  <2>2. /\ RunList(preparing') /\ Len(preparing') = Len(preparing)
        /\ \A i \in 1..Len(preparing) : preparing'[i].pc = preparing[i].pc
    BY <2>1, RunAborted
  <2>3. OldRuns
    BY <2>2, RunsFinish
  <2>4. /\ composer' \in Composers /\ composer'.form = composer.form /\ composer'.file = composer.file
        /\ composer'.key = composer.key /\ composer'.run = 0 /\ composer'.ready = composer.ready
        /\ composer'.asked = composer.asked /\ composer'.phase = composer.phase
    BY <2>1 DEF Composers, Left
  <2>5. /\ OldPosts /\ OldWorks /\ (NoneOut' <=> NoneOut) /\ Len(posts') \in Nat /\ Posts(posts')
        /\ \A i \in 1..Len(posts') : ~ (i > Len(posts))
    BY <2>1, PostsStay
  <2>6. PageTypes'
    BY <1>1, <2>1, <2>2, <2>4 DEF PageTypes
  <2>7. WishesOK'
    BY <2>3, <2>4 DEF PageInv, WishesOK, OldRuns
  <2>8. RunDrafts'
    BY <2>2, <2>5, DraftsStay
  <2>9. composer'.asked /\ composer.run # 0 /\ preparing'[composer.run].pc = "draft" =>
             composer.asked /\ preparing[composer.run].pc = "draft"
    BY <2>2, <2>4 DEF Composers
  <2> QED BY <1>1, <2>3, <2>4, <2>5, <2>6, <2>7, <2>8, <2>9, QuietKeeps
<1> QED BY <1>2, <1>3
-----------------------------------------------------------------------------
\* A run that makes its media becomes another state of the same run.
LEMMA RunMoves ==
    ASSUME PageInv, NEW r \in 1..Len(preparing), NEW s \in RunState,
           s.pc \in {"upload", "wait"} => Active(preparing, r),
           preparing' = [preparing EXCEPT ![r] = s]
    PROVE  /\ RunList(preparing') /\ Len(preparing') = Len(preparing) /\ preparing'[r] = s
           /\ \A i \in 1..Len(preparing) : i # r => preparing'[i] = preparing[i]
           /\ OldRuns
<1>1. /\ RunList(preparing') /\ Len(preparing') = Len(preparing) /\ preparing'[r] = s
      /\ \A i \in 1..Len(preparing) : i # r => preparing'[i] = preparing[i]
  <2>1. RunList(preparing)
    BY KnownTypes
  <2> QED BY <2>1 DEF RunList
<1> USE KnownTypes
<1>2. \A i \in 1..Len(preparing) :
        preparing'[i].pc \in {"upload", "wait"} => preparing[i].pc \in {"upload", "wait"}
  BY <1>1 DEF Active
<1>3. OldRuns
  BY <1>1, <1>2, RunsFinish
<1> QED BY <1>1, <1>3

\* The end of a run, whatever it ends with, and nothing published.
LEMMA RunQuiet ==
    ASSUME PageInv, NEW r \in 1..Len(preparing), Active(preparing, r), NEW s \in RunState, s.pc # "draft",
           preparing' = [preparing EXCEPT ![r] = s], forms' = forms, works' = works, posts' = posts,
           composer' \in Composers,
           composer'.form = composer.form, composer'.file = composer.file, composer'.key = composer.key,
           composer'.run = composer.run, composer'.asked => composer.asked,
           \/ composer.run = r /\ composer'.ready = composer.ready /\ composer'.phase \notin {"ready", "publishing"}
           \/ composer.run = r /\ composer'.ready = 0
           \/ composer.run = r /\ composer'.ready = r /\ composer'.phase = "ready" /\ s.pc = "end"
           \/ composer.run # r /\ composer'.ready = composer.ready /\ composer'.phase = composer.phase,
           composer'.phase \in {"uploading", "processing"} /\ composer.run = r =>
             s.pc \in {"upload", "wait"}
    PROVE  PageInv'
<1> USE KnownTypes
<1>1. /\ RunList(preparing') /\ Len(preparing') = Len(preparing) /\ preparing'[r] = s
      /\ \A i \in 1..Len(preparing) : i # r => preparing'[i] = preparing[i]
      /\ OldRuns
  BY RunMoves
<1>2. /\ OldPosts /\ OldWorks /\ (NoneOut' <=> NoneOut) /\ Len(posts') \in Nat /\ Posts(posts')
      /\ \A i \in 1..Len(posts') : ~ (i > Len(posts))
  BY PostsStay
<1>3. PageTypes'
  BY <1>1, <1>2 DEF PageTypes
<1>4. WishesOK'
  <2>1. Finished(preparing', composer'.ready)
    <3>1. Finished(preparing', composer.ready)
      BY <1>1 DEF OldRuns, PageInv, WishesOK
    <3>2. s.pc = "end" => Finished(preparing', r)
      BY <1>1 DEF Finished, Active
    <3>3. Finished(preparing', 0)
      BY DEF Finished
    <3> QED BY <3>1, <3>2, <3>3
  <2>2. composer'.phase \in {"uploading", "processing"} /\ composer'.run # 0 => Active(preparing', composer'.run)
    <3>1. CASE composer.run = r
      BY <1>1, <3>1 DEF Active
    <3>2. CASE composer.run # r
      <4>1. composer.run \in Nat
        BY DEF Composers
      <4>2. composer.run # 0 => preparing'[composer.run] = preparing[composer.run]
        BY <1>1, <3>2, <4>1
      <4>3. ASSUME composer'.phase \in {"uploading", "processing"}, composer'.run # 0,
                   composer'.phase = composer.phase
            PROVE  Active(preparing', composer'.run)
        BY <1>1, <4>2, <4>3 DEF PageInv, WishesOK, Active
      <4>4. ASSUME composer'.phase \in {"uploading", "processing"}, composer'.run # 0
            PROVE  composer'.phase = composer.phase
        BY <3>2, <4>4
      <4> QED BY <4>3, <4>4
    <3> QED BY <3>1, <3>2
  <2>3. composer'.asked => composer'.file # 0
    BY DEF PageInv, WishesOK
  <2> QED BY <2>1, <2>2, <2>3 DEF WishesOK
<1>5. \A i \in 1..Len(preparing) :
        /\ preparing'[i].pc \in {"upload", "wait"} => preparing[i].pc \in {"upload", "wait"}
        /\ preparing[i].pc = "draft" => preparing'[i].pc = "draft"
  BY <1>1 DEF Active
<1>6. RunDrafts'
  BY <1>1, <1>2, <1>5, DraftsStay
<1>7. composer'.asked /\ composer.run # 0 /\ preparing'[composer.run].pc = "draft" =>
        composer.asked /\ preparing[composer.run].pc = "draft"
  <2>1. composer.run \in Nat
    BY DEF Composers
  <2> QED BY <1>1, <2>1
<1> QED BY <1>1, <1>2, <1>3, <1>4, <1>6, <1>7, QuietKeeps

\* A publication is asked for, with the key of the composer if it has one.
LEMMA CommitPublishes ==
    ASSUME NEW p \in Composers, NEW ps, NEW by \in Nat, NEW m \in Nat, Posts(ps), Commit(p, ps, by, m),
           p.phase \notin {"publishing", "done"}, p.form # 0
    PROVE  \E q \in Post :
             /\ posts' = Append(ps, q) /\ q.op = "publish" /\ q.pc = "sent" /\ ~q.heard /\ q.key # 0
             /\ q.form = p.form /\ q.file = p.file /\ q.media = m /\ (p.key # 0 => q.key = p.key)
             /\ q.alone => /\ by \in {User, p.run}
                           /\ \A i \in DOMAIN posts : posts[i].op = "publish" => posts[i].heard
             /\ composer' \in Composers /\ composer'.key = q.key /\ composer'.phase = "publishing"
             /\ composer'.form = p.form /\ composer'.file = p.file /\ composer'.run = p.run
             /\ composer'.ready = p.ready /\ composer'.asked = p.asked
<1> DEFINE key == IF p.key = 0 THEN NewKey(ps) ELSE p.key
           pm == [p EXCEPT !.ready = m]
           q == NewPost("publish", by, [pm EXCEPT !.key = key])
<1>1. key \in Nat /\ key # 0 /\ (p.key # 0 => key = p.key)
  <2>1. Len(ps) \in Nat
    BY PostsAre
  <2> QED BY <2>1 DEF NewKey, Composers
<1>2. /\ composer' = [p EXCEPT !.phase = "publishing", !.key = key]
      /\ posts' = Append(ps, NewPost("publish", by, [p EXCEPT !.key = key, !.ready = m]))
  BY DEF Commit
<1> HIDE DEF key
<1>3. pm \in Composers /\ pm.form = p.form /\ pm.file = p.file /\ pm.ready = m /\ pm.run = p.run
  BY DEF Composers
<1>4. [p EXCEPT !.key = key, !.ready = m] = [pm EXCEPT !.key = key]
  BY DEF Composers
<1> HIDE DEF pm
<1>5. /\ q \in Post /\ q.op = "publish" /\ q.pc = "sent" /\ ~q.heard /\ q.key = key
      /\ q.form = pm.form /\ q.file = pm.file /\ q.media = pm.ready
      /\ q.alone <=> /\ by \in {User, pm.run}
                     /\ \A i \in DOMAIN posts : posts[i].op = "publish" => posts[i].heard
  BY <1>1, <1>3, PublicationIsPost
<1>6. posts' = Append(ps, q)
  BY <1>2, <1>4
<1> HIDE DEF q
<1>7. /\ composer' \in Composers /\ composer'.key = key /\ composer'.phase = "publishing"
      /\ composer'.form = p.form /\ composer'.file = p.file /\ composer'.run = p.run
      /\ composer'.ready = p.ready /\ composer'.asked = p.asked
  BY <1>1, <1>2 DEF Composers, Busy
<1>8. q.alone => /\ by \in {User, p.run}
                 /\ \A i \in DOMAIN posts : posts[i].op = "publish" => posts[i].heard
  BY <1>3, <1>5
<1> QED BY <1>1, <1>3, <1>5, <1>6, <1>7, <1>8

\* Whoever publishes: the user, a run that is ready, or one whose draft is saved.
LEMMA PublishKeeps ==
    ASSUME PageInv, NEW p \in Composers, NEW ps, NEW by \in Nat, NEW m \in Nat, Posts(ps), Commit(p, ps, by, m),
           p.phase \notin {"publishing", "done"}, p.form # 0, p.file # 0, m # 0,
           p.form = composer.form, p.file = composer.file, p.key = composer.key, p.run = composer.run,
           Len(ps) = Len(posts),
           \A i \in 1..Len(posts) : Same(ps[i], posts[i]) /\ ps[i].pc = posts[i].pc /\ ps[i].row = posts[i].row,
           forms' = forms, works' = works, OldRuns, RunList(preparing'), Len(preparing') = Len(preparing),
           Finished(preparing', m), Finished(preparing', p.ready),
           /\ OldPosts /\ Len(posts') \in Nat
           /\ \A i \in 1..Len(posts) : posts'[i] = ps[i]
           /\ \A i \in 1..Len(posts') : i > Len(posts) => posts'[i].op # "draft"
           => RunDrafts',
           AllAlone /\ NoneOut /\ by \in {User, composer.run} =>
             /\ p.ready = m
             /\ (composer.ready = m /\ composer.phase = "ready") \/ Active(preparing, m)
    PROVE  PageInv'
<1> USE KnownTypes
<1>1. PICK q \in Post :
             /\ posts' = Append(ps, q) /\ q.op = "publish" /\ q.pc = "sent" /\ ~q.heard /\ q.key # 0
             /\ q.form = p.form /\ q.file = p.file /\ q.media = m /\ (p.key # 0 => q.key = p.key)
             /\ q.alone => /\ by \in {User, p.run}
                           /\ \A i \in DOMAIN posts : posts[i].op = "publish" => posts[i].heard
             /\ composer' \in Composers /\ composer'.key = q.key /\ composer'.phase = "publishing"
             /\ composer'.form = p.form /\ composer'.file = p.file /\ composer'.run = p.run
             /\ composer'.ready = p.ready /\ composer'.asked = p.asked
  BY CommitPublishes
<1>2. /\ Posts(posts') /\ Len(posts') = Len(posts) + 1
      /\ \A i \in 1..Len(posts) : posts'[i] = ps[i]
      /\ posts'[Len(posts) + 1] = q
  BY <1>1, OnePostMore
<1>3. OldPosts
  BY <1>2 DEF OldPosts
<1>4. \A i \in 1..Len(posts') : i > Len(posts) => posts'[i].op # "draft"
  <2>1. \A i \in 1..Len(posts') : i > Len(posts) => i = Len(posts) + 1
    BY <1>2
  <2> QED BY <1>1, <1>2, <2>1
<1>5. RunDrafts'
  BY <1>2, <1>3, <1>4
<1>6. PageTypes'
  BY <1>1, <1>2 DEF PageTypes
<1>7. WishesOK'
  BY <1>1 DEF WishesOK
<1>8. q.form \in 1..forms /\ q.file \in 1..Len(preparing)
  BY <1>1, SMTT(30) DEF Composers
<1>9. q.alone => NoneOut /\ by \in {User, composer.run}
  <2>1. DOMAIN posts = 1..Len(posts)
    BY PostsAre
  <2> QED BY <1>1, <2>1 DEF NoneOut, Out
<1>10. AllAlone /\ q.alone => /\ NoneOut /\ composer'.ready = q.media
                              /\ \/ composer.ready = q.media /\ composer.phase = "ready"
                                 \/ Active(preparing, q.media)
  BY <1>1, <1>9
<1> QED BY <1>1, <1>5, <1>6, <1>7, <1>8, <1>10, PublicationKeeps

\* The publish button.
LEMMA PressKeeps ==
    ASSUME PageInv, OnPublish
    PROVE  PageInv'
<1> USE KnownTypes
<1> DEFINE p == [composer EXCEPT !.asked = TRUE]
<1>1. /\ p \in Composers /\ p.asked /\ p.form = composer.form /\ p.file = composer.file /\ p.key = composer.key
      /\ p.run = composer.run /\ p.ready = composer.ready /\ p.phase = composer.phase
  BY DEF Composers
<1>2. /\ p.phase \notin {"publishing", "done"} /\ p.form # 0 /\ p.file # 0 /\ forms' = forms /\ works' = works
      /\ composer.phase \notin {"publishing", "done"}
  BY <1>1 DEF OnPublish, Locked
<1>3. CASE p.phase = "ready" /\ p.ready # 0
  <2>1. Commit(p, posts, User, p.ready) /\ preparing' = preparing
    BY <1>3 DEF OnPublish, Busy
  <2>2. OldRuns /\ RunList(preparing') /\ Len(preparing') = Len(preparing)
    BY <2>1, RunsStay
  <2>3. \A i \in 1..Len(posts) :
          Same(posts[i], posts[i]) /\ posts[i].pc = posts[i].pc /\ posts[i].row = posts[i].row
    BY DEF Same
  <2>4. Finished(preparing', p.ready)
    BY <1>1, <2>1 DEF PageInv, WishesOK
  <2>5. /\ OldPosts /\ Len(posts') \in Nat
        /\ \A i \in 1..Len(posts') : i > Len(posts) => posts'[i].op # "draft"
        => RunDrafts'
    BY <2>1, DraftsStay
  <2>6. User \in Nat /\ p.ready \in Nat
    BY <1>1 DEF User, Composers
  <2> HIDE DEF p
  <2> QED BY <1>1, <1>2, <1>3, <2>1, <2>2, <2>3, <2>4, <2>5, <2>6, PublishKeeps
<1>4. CASE p.phase \in Busy
  <2>1. composer' = p /\ preparing' = preparing /\ posts' = posts
    BY <1>4 DEF OnPublish, Busy
  <2>2. OldRuns /\ RunList(preparing') /\ Len(preparing') = Len(preparing)
    BY <2>1, RunsStay
  <2>3. /\ OldPosts /\ OldWorks /\ (NoneOut' <=> NoneOut) /\ Len(posts') \in Nat /\ Posts(posts')
        /\ \A i \in 1..Len(posts') : ~ (i > Len(posts))
    BY <2>1, PostsStay
  <2>4. PageTypes'
    BY <1>1, <1>2, <2>1, <2>2, <2>3 DEF PageTypes
  <2>5. WishesOK'
    BY <1>1, <1>2, <2>1 DEF PageInv, WishesOK
  <2>6. RunDrafts'
    BY <2>1, <2>3, DraftsStay
  <2>7. composer.run # 0 => preparing[composer.run].pc # "draft"
    BY <1>1, <1>2, <1>4 DEF PageInv, WishesOK, Active, Busy
  <2> HIDE DEF p
  <2> QED BY <1>1, <1>2, <2>1, <2>2, <2>3, <2>4, <2>5, <2>6, <2>7, QuietKeeps
<1>5. CASE ~(p.phase = "ready" /\ p.ready # 0) /\ p.phase \notin Busy
  <2> DEFINE rs == Aborted(preparing, composer.run)
             r == Len(preparing) + 1
             new == [pc |-> "upload", aborted |-> FALSE]
  <2>1. /\ r \in Runs /\ preparing' = Append(rs, new) /\ posts' = posts
        /\ composer' = [p EXCEPT !.run = r, !.ready = 0, !.phase = "uploading"]
    BY <1>5 DEF OnPublish, Prepare
  <2>2. new \in RunState /\ new.pc = "upload"
    BY DEF RunState
  <2>3. /\ RunList(preparing') /\ Len(preparing') = r /\ preparing'[r] = new
        /\ \A i \in 1..Len(preparing) : preparing'[i].pc = preparing[i].pc
    <3>1. RunList(rs) /\ Len(rs) = Len(preparing) /\ \A i \in 1..Len(preparing) : rs[i].pc = preparing[i].pc
      BY RunAborted
    <3> HIDE DEF rs, new
    <3> QED BY <2>1, <2>2, <3>1, RunAdded
  <2>4. /\ composer' \in Composers /\ composer'.form = p.form /\ composer'.file = p.file /\ composer'.key = p.key
        /\ composer'.run = r /\ composer'.ready = 0 /\ composer'.phase = "uploading"
    <3>1. r \in Nat
      OBVIOUS
    <3> HIDE DEF p, r
    <3> QED BY <1>1, <2>1, <3>1 DEF Composers, Busy
  <2> HIDE DEF p
  <2>5. OldRuns
    BY <2>3, RunsFinish
  <2>6. /\ OldPosts /\ OldWorks /\ (NoneOut' <=> NoneOut) /\ Len(posts') \in Nat /\ Posts(posts')
        /\ \A i \in 1..Len(posts') : ~ (i > Len(posts))
    BY <2>1, PostsStay
  <2>7. PageTypes'
    <3>1. r <= MaxRuns /\ r \in Nat /\ composer'.file <= r /\ composer'.form <= forms
      <4>1. composer.file \in Nat /\ composer'.file = composer.file /\ composer'.form = composer.form
        BY <1>1, <2>4 DEF Composers
      <4>2. r \in 1..MaxRuns /\ MaxRuns \in Nat
        BY <2>1, StoredAssumption DEF Runs
      <4> QED BY <4>1, <4>2
    <3> HIDE DEF r
    <3> QED BY <1>2, <2>3, <2>4, <2>6, <3>1 DEF PageTypes
  <2>8. WishesOK'
    BY <1>1, <1>2, <2>2, <2>3, <2>4 DEF WishesOK, Finished, Active
  <2>9. AllAlone => SavesOnly' /\ KeyHeld'
    BY <1>1, <2>2, <2>3, <2>4, <2>6, KeyStays DEF SavesOnly
  <2>10. RunDrafts'
    BY <2>3, <2>6, DraftsStay
  <2> QED BY <1>2, <2>5, <2>6, <2>7, <2>8, <2>9, <2>10, StepKeeps
<1> QED BY <1>3, <1>4, <1>5
-----------------------------------------------------------------------------

\* The steps of a run.
LEMMA ReadyKeeps ==
    ASSUME PageInv, NEW r \in 1..Len(preparing), Active(preparing, r), r = composer.run, Ready(r),
           forms' = forms, works' = works
    PROVE  PageInv'
<1> USE KnownTypes
<1> DEFINE p == [composer EXCEPT !.ready = r, !.phase = "ready"]
           end == [pc |-> "end", aborted |-> FALSE]
<1>1. /\ p \in Composers /\ p.asked = composer.asked /\ p.form = composer.form /\ p.file = composer.file
      /\ p.key = composer.key /\ p.run = composer.run /\ p.ready = r /\ p.phase = "ready"
      /\ p.saving = composer.saving
  BY DEF Composers
<1>2. end \in RunState /\ end.pc = "end"
  BY DEF RunState
<1>3. CASE p.asked /\ p.form # 0
  <2>1. Commit(p, posts, r, r) /\ preparing' = [preparing EXCEPT ![r] = end]
    BY <1>3 DEF Ready, Ended
  <2> HIDE DEF p, end
  <2>2. /\ RunList(preparing') /\ Len(preparing') = Len(preparing) /\ preparing'[r] = end /\ OldRuns
        /\ \A i \in 1..Len(preparing) : i # r => preparing'[i] = preparing[i]
    BY <1>2, <2>1, RunMoves
  <2>3. \A i \in 1..Len(posts) :
          Same(posts[i], posts[i]) /\ posts[i].pc = posts[i].pc /\ posts[i].row = posts[i].row
    BY DEF Same
  <2>4. Finished(preparing', r)
    BY <1>2, <2>2 DEF Finished, Active
  <2>5. \A i \in 1..Len(preparing) :
          /\ preparing'[i].pc \in {"upload", "wait"} => preparing[i].pc \in {"upload", "wait"}
          /\ preparing[i].pc = "draft" => preparing'[i].pc = "draft"
    BY <1>2, <2>2 DEF Active
  <2>6. /\ OldPosts /\ Len(posts') \in Nat
        /\ \A i \in 1..Len(posts') : i > Len(posts) => posts'[i].op # "draft"
        => RunDrafts'
    BY <2>2, <2>5, DraftsStay
  <2>7. p.file # 0
    BY <1>1, <1>3 DEF PageInv, WishesOK
  <2>8. p.phase \notin {"publishing", "done"} /\ r # 0 /\ r \in Nat
    BY <1>1
  <2> QED BY <1>1, <1>3, <2>1, <2>2, <2>3, <2>4, <2>6, <2>7, <2>8, PublishKeeps
<1>4. CASE (p.asked /\ p.form = 0) \/ (~p.asked /\ p.saving)
  <2>1. /\ posts' = posts /\ preparing' = [preparing EXCEPT ![r] = end]
        /\ composer' = p \/ composer' = [p EXCEPT !.asked = FALSE]
    BY <1>1, <1>4 DEF Ready, Ended, Commit
  <2> HIDE DEF p, end
  <2>2. /\ composer' \in Composers /\ composer'.form = composer.form /\ composer'.file = composer.file
        /\ composer'.key = composer.key /\ composer'.run = composer.run /\ composer'.ready = r
        /\ composer'.phase = "ready" /\ (composer'.asked => composer.asked)
    BY <1>1, <2>1 DEF Composers
  <2> QED BY <1>2, <2>1, <2>2, RunQuiet
<1>5. CASE ~p.asked /\ ~p.saving
  <2> DEFINE s == [preparing[r] EXCEPT !.pc = "draft"]
  <2>1. PersistDraft(p, r) /\ preparing' = [preparing EXCEPT ![r].pc = "draft"]
    BY <1>5 DEF Ready
  <2>2. s \in RunState /\ s.pc = "draft"
    BY DEF RunState
  <2>3. preparing' = [preparing EXCEPT ![r] = s]
    BY <2>1
  <2> HIDE DEF p, s
  <2>4. /\ RunList(preparing') /\ Len(preparing') = Len(preparing) /\ preparing'[r] = s /\ OldRuns
        /\ \A i \in 1..Len(preparing) : i # r => preparing'[i] = preparing[i]
    BY <2>2, <2>3, RunMoves
  <2>5. Finished(preparing', r) /\ r \in Nat /\ r # 0
    BY <2>2, <2>4 DEF Finished, Active
  <2>6. /\ OldPosts /\ OldWorks /\ (NoneOut' <=> NoneOut) /\ Posts(posts') /\ Len(posts') \in Nat
        /\ \A i \in 1..Len(posts') : i > Len(posts) =>
             /\ posts'[i].op = "draft" /\ posts'[i].media # 0 /\ Finished(preparing', posts'[i].media)
             /\ posts'[i].by = r /\ i = Len(posts) + 1
        /\ composer' = [p EXCEPT !.saving = TRUE]
    BY <1>1, <2>1, <2>5, DraftPosted
  <2>7. /\ composer' \in Composers /\ composer'.form = composer.form /\ composer'.file = composer.file
        /\ composer'.key = composer.key /\ composer'.run = composer.run /\ composer'.ready = r
        /\ composer'.phase = "ready" /\ composer'.asked = composer.asked
    BY <1>1, <2>6 DEF Composers
  <2>8. PageTypes'
    BY <2>4, <2>6, <2>7 DEF PageTypes
  <2>9. WishesOK'
    BY <2>5, <2>7 DEF PageInv, WishesOK
  <2>10. RunDrafts'
    <3>1. \A k \in 1..Len(posts) : posts[k].op = "draft" /\ posts[k].by \in Runs => posts[k].by # r
      BY DEF PageInv, RunDrafts
    <3>2. \A k \in 1..Len(posts') : \/ k \in 1..Len(posts) /\ Same(posts'[k], posts[k])
                                    \/ k = Len(posts) + 1 /\ posts'[k].by = r
      BY <2>6 DEF OldPosts
    <3> SUFFICES ASSUME NEW i \in 1..Len(posts'), posts'[i].op = "draft", posts'[i].by \in Runs
                 PROVE  /\ posts'[i].by \in 1..Len(preparing') /\ ~Active(preparing', posts'[i].by)
                        /\ ~posts'[i].heard => preparing'[posts'[i].by].pc = "draft"
                        /\ \A j \in 1..Len(posts') :
                             posts'[j].op = "draft" /\ posts'[j].by = posts'[i].by => j = i
      BY DEF RunDrafts
    <3>3. CASE i = Len(posts) + 1
      <4>1. posts'[i].by = r
        BY <2>6, <3>3
      <4>2. \A j \in 1..Len(posts') : posts'[j].op = "draft" /\ posts'[j].by = r => j = i
        BY <3>1, <3>2, <3>3, <4>1 DEF Same
      <4> QED BY <2>2, <2>4, <4>1, <4>2 DEF Active
    <3>4. CASE i \in 1..Len(posts) /\ Same(posts'[i], posts[i])
      <4>1. /\ posts[i].by \in 1..Len(preparing) /\ ~Active(preparing, posts[i].by) /\ posts[i].by # r
            /\ ~posts[i].heard => preparing[posts[i].by].pc = "draft"
            /\ \A j \in 1..Len(posts) : posts[j].op = "draft" /\ posts[j].by = posts[i].by => j = i
        BY <3>1, <3>4 DEF Same, PageInv, RunDrafts
      <4>2. \A j \in 1..Len(posts') : posts'[j].op = "draft" /\ posts'[j].by = posts'[i].by => j = i
        BY <3>2, <3>4, <4>1, SMTT(30) DEF Same
      <4>3. preparing'[posts[i].by] = preparing[posts[i].by] /\ posts'[i].by = posts[i].by
            /\ (posts[i].heard => posts'[i].heard)
        BY <2>4, <3>4, <4>1 DEF Same
      <4> QED BY <2>4, <4>1, <4>2, <4>3 DEF Active
    <3> QED BY <3>2, <3>3, <3>4
  <2>11. ~composer'.asked
    BY <1>1, <1>5, <2>7
  <2>12. \/ composer'.ready = 0 \/ Active(preparing, composer'.ready)
         \/ /\ composer'.ready = composer.ready
            /\ NoneOut /\ composer'.phase \in {"ready", "publishing"} =>
                 composer.phase \in {"ready", "publishing"}
    BY <2>7
  <2> QED BY <2>4, <2>6, <2>7, <2>8, <2>9, <2>10, <2>11, <2>12, QuietKeeps
<1> QED BY <1>1, <1>3, <1>4, <1>5 DEF Composers

LEMMA RunKeeps ==
    ASSUME PageInv, NEW r \in DOMAIN preparing,
           UploadEnds(r) \/ TranscodeEnds(r) \/ Fails(r) \/ Cancelled(r)
    PROVE  PageInv'
<1> USE KnownTypes
<1> DEFINE end == [pc |-> "end", aborted |-> FALSE]
<1>1. end \in RunState /\ end.pc = "end"
  BY DEF RunState
<1>2. /\ r \in 1..Len(preparing) /\ Active(preparing, r) /\ forms' = forms /\ works' = works
  BY RunsAre DEF UploadEnds, TranscodeEnds, Fails, Cancelled, Active
<1>3. CASE RunOvertaken(r)
  <2>1. /\ r # composer.run /\ preparing' = [preparing EXCEPT ![r] = end]
        /\ composer' = composer /\ posts' = posts
    BY <1>3 DEF RunOvertaken, Ended
  <2> HIDE DEF end
  <2> QED BY <1>1, <1>2, <2>1, RunQuiet
<1>4. CASE r = composer.run /\ Ready(r)
  BY <1>2, <1>4, ReadyKeeps
<1>5. CASE /\ r = composer.run
           /\ composer' = [composer EXCEPT !.phase = "processing"]
           /\ preparing' = [preparing EXCEPT ![r].pc = "wait"] /\ posts' = posts
  <2> DEFINE s == [preparing[r] EXCEPT !.pc = "wait"]
  <2>1. s \in RunState /\ s.pc = "wait"
    BY <1>2 DEF RunState
  <2>2. preparing' = [preparing EXCEPT ![r] = s]
    BY <1>5
  <2> HIDE DEF s
  <2>3. /\ composer' \in Composers /\ composer'.form = composer.form /\ composer'.file = composer.file
        /\ composer'.key = composer.key /\ composer'.run = composer.run /\ composer'.ready = composer.ready
        /\ composer'.phase = "processing" /\ composer'.asked = composer.asked
    BY <1>5 DEF Composers, Busy
  <2> QED BY <1>2, <1>5, <2>1, <2>2, <2>3, RunQuiet
<1>6. CASE /\ r = composer.run /\ preparing' = Ended(r) /\ posts' = posts
           /\ \/ composer' = [composer EXCEPT !.phase = "failed", !.asked = FALSE]
              \/ composer' = [composer EXCEPT !.phase = "idle", !.ready = 0]
  <2>1. preparing' = [preparing EXCEPT ![r] = end]
    BY <1>6 DEF Ended
  <2> HIDE DEF end
  <2>2. /\ composer' \in Composers /\ composer'.form = composer.form /\ composer'.file = composer.file
        /\ composer'.key = composer.key /\ composer'.run = composer.run
        /\ (composer'.asked => composer.asked)
        /\ \/ composer'.ready = composer.ready /\ composer'.phase = "failed"
           \/ composer'.ready = 0 /\ composer'.phase = "idle"
    <3>1. CASE composer' = [composer EXCEPT !.phase = "failed", !.asked = FALSE]
      BY <3>1 DEF Composers
    <3>2. CASE composer' = [composer EXCEPT !.phase = "idle", !.ready = 0]
      BY <3>2 DEF Composers
    <3> QED BY <1>6, <3>1, <3>2
  <2> QED BY <1>1, <1>2, <1>6, <2>1, <2>2, RunQuiet
<1> QED BY <1>3, <1>4, <1>5, <1>6 DEF UploadEnds, TranscodeEnds, Fails, Cancelled
-----------------------------------------------------------------------------

\* The server: nobody else changes works, and it changes nothing else.
LEMMA FoundIsRow ==
    ASSUME PageInv, NEW q \in Post
    PROVE  Found(q) \in Nat /\ RowOf(Found(q)) \in Nat
<1>1. Len(works) \in Nat /\ DOMAIN works = 1..Len(works)
  BY KnownTypes DEF WorkList
<1>2. CASE q.draft # 0
  BY <1>1, <1>2 DEF Found, RowOf, Post
<1>3. CASE q.draft = 0 /\ DraftsOf(q.media) = {}
  BY <1>1, <1>3 DEF Found, RowOf
<1>4. CASE q.draft = 0 /\ DraftsOf(q.media) # {}
  <2>1. DraftsOf(q.media) \in SUBSET (1..Len(works))
    BY <1>1 DEF DraftsOf
  <2>2. Highest(DraftsOf(q.media)) \in 1..Len(works)
    BY <1>1, <1>4, <2>1, HighestIsOne
  <2> QED BY <1>1, <1>4, <2>2 DEF Found, RowOf
<1> QED BY <1>2, <1>3, <1>4

\* A row is written.
LEMMA WorkRowKeeps ==
    ASSUME WorkList(works), NEW w \in Nat, NEW m \in Nat, NEW life \in {"draft", "published"},
           Write(w, m, life)
    PROVE  WorkList(works')
<1> DEFINE Rows == [media : Nat, life : {"draft", "published"}]
           row == Row(m, life)
<1>1. row \in Rows
  BY DEF Row
<1>2. works \in Seq(Rows)
  BY DEF WorkList
<1>3. works' = Append(works, row) \/ works' = [works EXCEPT ![w] = row]
  BY DEF Write
<1> HIDE DEF row, Rows
<1>4. CASE works' = Append(works, row)
  BY <1>1, <1>2, <1>4 DEF WorkList, Rows
<1>5. CASE works' = [works EXCEPT ![w] = row]
  <2>1. works \in [1..Len(works) -> Rows] /\ Len(works) \in Nat
    BY <1>2
  <2>2. works' \in [1..Len(works) -> Rows]
    BY <1>1, <1>5, <2>1
  <2>3. works' \in Seq(Rows)
    BY <2>1, <2>2
  <2> QED BY <2>3 DEF WorkList, Rows
<1> QED BY <1>3, <1>4, <1>5

\* What changes when a request is served.
LEMMA PostServed ==
    ASSUME PageInv, NEW i \in 1..Len(posts), NEW pc \in {"done", "refused"}, NEW w \in Nat, Served(i, pc, w)
    PROVE  /\ Posts(posts') /\ Len(posts') = Len(posts)
           /\ \A j \in 1..Len(posts) : j # i => posts'[j] = posts[j]
           /\ posts'[i] = [posts[i] EXCEPT !.pc = pc, !.row = w] /\ posts'[i] \in Post
           /\ posts'[i].pc = pc /\ posts'[i].row = w /\ posts'[i].op = posts[i].op
           /\ posts'[i].key = posts[i].key /\ posts'[i].media = posts[i].media
           /\ posts'[i].form = posts[i].form /\ posts'[i].heard = posts[i].heard
           /\ Same(posts'[i], posts[i])
<1> DEFINE q == posts[i]
           n == [q EXCEPT !.pc = pc, !.row = w]
<1>1. q \in Post /\ DOMAIN posts = 1..Len(posts) /\ Len(posts) \in Nat /\ Posts(posts)
  BY KnownTypes, PostsAre
<1>2. posts' = [posts EXCEPT ![i] = n]
  BY <1>1 DEF Served
<1>3. /\ n \in Post /\ n.pc = pc /\ n.row = w /\ n.op = q.op /\ n.key = q.key /\ n.media = q.media
      /\ n.form = q.form /\ n.heard = q.heard /\ n.by = q.by /\ n.file = q.file /\ n.alone = q.alone
  <2> HIDE DEF q
  <2> QED BY <1>1 DEF Post
<1>4. /\ posts' \in Seq(Post) /\ Len(posts') = Len(posts) /\ posts'[i] = n
      /\ \A j \in 1..Len(posts) : j # i => posts'[j] = posts[j]
  <2> HIDE DEF q, n
  <2> QED BY <1>1, <1>2, <1>3 DEF Posts
<1>5. Same(posts'[i], posts[i])
  <2> HIDE DEF n
  <2> QED BY <1>3, <1>4 DEF Same
<1> QED BY <1>3, <1>4, <1>5 DEF Posts

\* A request is served or heard: nothing else of the requests changes.
LEMMA ServedKeeps ==
    ASSUME PageInv, NEW i \in 1..Len(posts), NEW pc \in {"done", "refused"}, NEW w \in Nat,
           Served(i, pc, w), WorkList(works'), OldWorks \/ Answers',
           composer' = composer, forms' = forms, preparing' = preparing
    PROVE  PageInv'
<1> USE KnownTypes
<1>1. /\ Posts(posts') /\ Len(posts') = Len(posts)
      /\ \A j \in 1..Len(posts) : j # i => posts'[j] = posts[j]
      /\ Same(posts'[i], posts[i]) /\ posts'[i].op = posts[i].op /\ posts'[i].heard = posts[i].heard
  BY PostServed
<1>2. Same(posts'[i], posts[i])
  BY <1>1
<1>3. OldPosts
  <2>1. \A j \in 1..Len(posts) : Same(posts[j], posts[j])
    BY DEF Same
  <2> QED BY <1>1, <1>2, <2>1 DEF OldPosts
<1>4. OldRuns
  BY RunsStay
<1>5. PageTypes' /\ WishesOK'
  BY <1>1 DEF PageInv, PageTypes, WishesOK
<1>6. \A j \in 1..Len(posts') : ~ (j > Len(posts))
  BY <1>1
<1>7. RunDrafts'
  BY <1>1, <1>3, <1>6, DraftsStay
<1>8. NoneOut' => NoneOut
  <2>1. \A j \in 1..Len(posts) : /\ posts'[j].op = posts[j].op /\ posts'[j].heard = posts[j].heard
    BY <1>1
  <2> QED BY <1>1, <2>1 DEF NoneOut, Out
<1> QED BY <1>1, <1>3, <1>4, <1>5, <1>6, <1>7, <1>8, QuietKeeps

LEMMA HowServed ==
    ASSUME PageInv, NEW i \in 1..Len(posts)
    PROVE  \A pc \in {"done", "refused"}, row \in Nat : Served(i, pc, row) =>
        /\ Len(posts') = Len(posts)
        /\ \A j \in 1..Len(posts) : j # i => posts'[j] = posts[j]
        /\ posts'[i].pc = pc /\ posts'[i].row = row /\ posts'[i].op = posts[i].op
        /\ posts'[i].key = posts[i].key /\ posts'[i].media = posts[i].media /\ posts'[i].form = posts[i].form
<1> SUFFICES ASSUME NEW pc \in {"done", "refused"}, NEW row \in Nat, Served(i, pc, row)
             PROVE  /\ Len(posts') = Len(posts)
                    /\ \A j \in 1..Len(posts) : j # i => posts'[j] = posts[j]
                    /\ posts'[i].pc = pc /\ posts'[i].row = row /\ posts'[i].op = posts[i].op
                    /\ posts'[i].key = posts[i].key /\ posts'[i].media = posts[i].media
                    /\ posts'[i].form = posts[i].form
  OBVIOUS
<1>1. Len(posts') = Len(posts) /\ \A j \in 1..Len(posts) : j # i => posts'[j] = posts[j]
  BY PostServed
<1>2. posts'[i].pc = pc /\ posts'[i].row = row /\ posts'[i].op = posts[i].op
  BY PostServed, ZenonT(40)
<1>3. posts'[i].key = posts[i].key /\ posts'[i].media = posts[i].media /\ posts'[i].form = posts[i].form
  BY PostServed
<1> QED BY <1>1, <1>2, <1>3

\* The server answers for a key as it did before.
LEMMA ServeKeeps ==
    ASSUME PageInv, NEW i \in DOMAIN posts, ServeDraft(i) \/ ServePublish(i)
    PROVE  PageInv'
<1> USE KnownTypes
<1> DEFINE q == posts[i]
           w == Found(q)
           first == {j \in PublishedPosts : posts[j].key = q.key}
<1>1. /\ i \in 1..Len(posts) /\ DOMAIN posts = 1..Len(posts) /\ q \in Post /\ q.media \in Nat /\ q.pc = "sent"
      /\ composer' = composer /\ forms' = forms /\ preparing' = preparing
  BY PostsAre DEF ServeDraft, ServePublish, Post
<1>2. w \in Nat /\ RowOf(w) \in Nat
  BY <1>1, FoundIsRow
<1>3. \A pc \in {"done", "refused"}, row \in Nat : Served(i, pc, row) =>
        /\ Len(posts') = Len(posts)
        /\ \A j \in 1..Len(posts) : j # i => posts'[j] = posts[j]
        /\ posts'[i].pc = pc /\ posts'[i].row = row /\ posts'[i].op = q.op
        /\ posts'[i].key = q.key /\ posts'[i].media = q.media /\ posts'[i].form = q.form
  BY <1>1, HowServed
<1>4. CASE ServeDraft(i)
  <2>1. q.op = "draft"
    BY <1>4 DEF ServeDraft
  <2>2. CASE NoDraft(w)
    <3>1. Served(i, "refused", 0) /\ works' = works
      BY <1>4, <2>2 DEF ServeDraft
    <3>2. OldWorks
      BY <1>1, <1>3, <2>1, <3>1 DEF OldWorks
    <3> QED BY <1>1, <3>1, <3>2, ServedKeeps
  <2>3. CASE ~NoDraft(w)
    <3>1. Write(w, q.media, "draft") /\ Served(i, "done", RowOf(w))
      BY <1>4, <2>3 DEF ServeDraft
    <3> HIDE DEF q, w
    <3>2. OldWorks
      <4>1. \A j \in 1..Len(posts) : j # i => posts'[j] = posts[j]
        BY <1>2, <1>3, <3>1
      <4>2. posts[i].op # "publish"
        BY <2>1 DEF q
      <4> QED BY <4>1, <4>2 DEF OldWorks
    <3>3. WorkList(works')
      BY <1>1, <1>2, <3>1, WorkRowKeeps
    <3> QED BY <1>1, <1>2, <3>1, <3>2, <3>3, ServedKeeps
  <2> QED BY <2>2, <2>3
<1>5. CASE ServePublish(i)
  <2>1. q.op = "publish"
    BY <1>5 DEF ServePublish
  <2>2. CASE Served(i, "refused", 0) /\ works' = works
    <3>1. Answers'
      <4>1. /\ Len(posts') = Len(posts) /\ \A j \in 1..Len(posts) : j # i => posts'[j] = posts[j]
            /\ posts'[i].pc = "refused"
        BY <1>3, <2>2
      <4> QED BY <4>1, SMTT(30) DEF PageInv, Answers
    <3> QED BY <1>1, <2>2, <3>1, ServedKeeps
  <2>3. CASE \E j \in first : SameContent(posts[j], q) /\ Served(i, "done", posts[j].row) /\ works' = works
    <3>1. PICK j \in first : SameContent(posts[j], q) /\ Served(i, "done", posts[j].row) /\ works' = works
      BY <2>3
    <3>2. /\ j \in 1..Len(posts) /\ posts[j].op = "publish" /\ posts[j].pc = "done" /\ posts[j].key = q.key
          /\ posts[j].row \in Nat /\ posts[j].media = q.media /\ posts[j].form = q.form
      BY <1>1, <3>1 DEF PublishedPosts, SameContent, Post
    <3>3. /\ Len(posts') = Len(posts) /\ \A k \in 1..Len(posts) : k # i => posts'[k] = posts[k]
          /\ posts'[i].row = posts[j].row /\ posts'[i].key = posts[j].key /\ posts'[i].media = posts[j].media
          /\ posts'[i].form = posts[j].form
      BY <1>3, <3>1, <3>2
    <3>4. Answers'
      <4>1. \A k \in 1..Len(posts) :
              posts'[k].op = "publish" /\ posts'[k].pc = "done" =>
                \E l \in 1..Len(posts) :
                  /\ posts[l].op = "publish" /\ posts[l].pc = "done" /\ posts[l].key = posts'[k].key
                  /\ posts[l].row = posts'[k].row /\ posts[l].media = posts'[k].media
                  /\ posts[l].form = posts'[k].form
        <5> TAKE k \in 1..Len(posts)
        <5>1. CASE k = i
          BY <3>2, <3>3, <5>1
        <5>2. CASE k # i
          BY <3>3, <5>2
        <5> QED BY <5>1, <5>2
      <4>2. ASSUME NEW k \in 1..Len(posts), NEW m \in 1..Len(posts),
                   posts'[k].op = "publish", posts'[m].op = "publish",
                   posts'[k].pc = "done", posts'[m].pc = "done", posts'[k].key = posts'[m].key
            PROVE  /\ posts'[k].row = posts'[m].row /\ posts'[k].media = posts'[m].media
                   /\ posts'[k].form = posts'[m].form
        <5>1. PICK a \in 1..Len(posts) :
                /\ posts[a].op = "publish" /\ posts[a].pc = "done" /\ posts[a].key = posts'[k].key
                /\ posts[a].row = posts'[k].row /\ posts[a].media = posts'[k].media
                /\ posts[a].form = posts'[k].form
          BY <4>1, <4>2
        <5>2. PICK b \in 1..Len(posts) :
                /\ posts[b].op = "publish" /\ posts[b].pc = "done" /\ posts[b].key = posts'[m].key
                /\ posts[b].row = posts'[m].row /\ posts[b].media = posts'[m].media
                /\ posts[b].form = posts'[m].form
          BY <4>1, <4>2
        <5>3. /\ posts[a].row = posts[b].row /\ posts[a].media = posts[b].media
              /\ posts[a].form = posts[b].form
          BY <4>2, <5>1, <5>2 DEF PageInv, Answers
        <5> QED BY <5>1, <5>2, <5>3
      <4> QED BY <3>3, <4>2 DEF Answers
    <3> HIDE DEF q
    <3> QED BY <1>1, <3>1, <3>2, <3>4, ServedKeeps
  <2>4. CASE first = {} /\ Write(w, q.media, "published") /\ Served(i, "done", RowOf(w))
    <3>1. \A k \in 1..Len(posts) : posts[k].op = "publish" /\ posts[k].pc = "done" => posts[k].key # q.key
      BY <1>1, <2>4 DEF PublishedPosts
    <3>2. /\ Len(posts') = Len(posts) /\ \A k \in 1..Len(posts) : k # i => posts'[k] = posts[k]
          /\ posts'[i].key = q.key
      BY <1>2, <1>3, <2>4
    <3>3. Answers'
      BY <1>1, <3>1, <3>2 DEF PageInv, Answers
    <3> HIDE DEF q, w
    <3>4. WorkList(works')
      BY <1>1, <1>2, <2>4, WorkRowKeeps
    <3> QED BY <1>1, <1>2, <2>4, <3>3, <3>4, ServedKeeps
  <2> QED BY <1>5, <2>2, <2>3, <2>4 DEF ServePublish
<1> QED BY <1>4, <1>5
-----------------------------------------------------------------------------

\* What is known of the requests when one more is heard.
\* The answers.
Heard(i) == [posts EXCEPT ![i].heard = TRUE]

LEMMA OneIsHeard ==
    ASSUME PageInv, NEW i \in 1..Len(posts)
    PROVE  /\ Posts(Heard(i)) /\ Len(Heard(i)) = Len(posts) /\ Heard(i)[i].heard
           /\ \A j \in 1..Len(posts) : /\ Same(Heard(i)[j], posts[j]) /\ Heard(i)[j].pc = posts[j].pc
                                       /\ Heard(i)[j].row = posts[j].row
                                       /\ j # i => Heard(i)[j] = posts[j]
<1> DEFINE q == posts[i]
           n == [q EXCEPT !.heard = TRUE]
           qs == Heard(i)
<1>1. q \in Post /\ DOMAIN posts = 1..Len(posts) /\ Len(posts) \in Nat /\ Posts(posts)
  BY KnownTypes, PostsAre
<1>2. qs = [posts EXCEPT ![i] = n]
  BY <1>1 DEF Heard
<1>3. /\ n \in Post /\ n.heard /\ n.op = q.op /\ n.by = q.by /\ n.key = q.key /\ n.form = q.form
      /\ n.file = q.file /\ n.media = q.media /\ n.alone = q.alone /\ n.pc = q.pc /\ n.row = q.row
  <2> HIDE DEF q
  <2> QED BY <1>1 DEF Post
<1>4. /\ qs \in Seq(Post) /\ Len(qs) = Len(posts) /\ qs[i] = n
      /\ \A j \in 1..Len(posts) : j # i => qs[j] = posts[j]
  <2> HIDE DEF q, n
  <2>1. posts \in Seq(Post)
    BY <1>1 DEF Posts
  <2>2. qs[i] = n /\ \A j \in 1..Len(posts) : j # i => qs[j] = posts[j]
    BY <1>1, <1>2, <2>1
  <2>3. qs \in Seq(Post) /\ Len(qs) = Len(posts)
    <3>1. posts \in [1..Len(posts) -> Post]
      BY <1>1, <2>1
    <3>2. qs \in [1..Len(posts) -> Post]
      BY <1>2, <1>3, <3>1
    <3> QED BY <1>1, <3>2
  <2> QED BY <2>2, <2>3
<1>5. Same(qs[i], posts[i]) /\ qs[i].pc = posts[i].pc /\ qs[i].row = posts[i].row /\ qs[i].heard
  <2> HIDE DEF n
  <2> QED BY <1>3, <1>4 DEF Same
<1>6. \A j \in 1..Len(posts) : j # i => Same(qs[j], posts[j]) /\ qs[j].pc = posts[j].pc /\ qs[j].row = posts[j].row
  BY <1>4 DEF Same
<1> QED BY <1>4, <1>5, <1>6 DEF Posts

\* The run whose draft is answered ends, and no other draft is by it.
LEMMA DraftEnds ==
    ASSUME PageInv, OldPosts, Len(posts') \in Nat, NEW i \in 1..Len(posts), posts[i].op = "draft",
           posts[i].by \in Runs, ~posts[i].heard, preparing' = Ended(posts[i].by), posts'[i].heard,
           \A j \in 1..Len(posts') : j > Len(posts) => posts'[j].op # "draft"
    PROVE  /\ RunDrafts' /\ OldRuns /\ RunList(preparing') /\ Len(preparing') = Len(preparing)
           /\ posts[i].by \in 1..Len(preparing) /\ preparing[posts[i].by].pc = "draft"
           /\ preparing'[posts[i].by].pc = "end"
           /\ \A r \in 1..Len(preparing) : r # posts[i].by => preparing'[r] = preparing[r]
<1> USE KnownTypes
<1> DEFINE r == posts[i].by
           end == [pc |-> "end", aborted |-> FALSE]
<1>1. /\ r \in 1..Len(preparing) /\ preparing[r].pc = "draft"
      /\ \A j \in 1..Len(posts) : posts[j].op = "draft" /\ posts[j].by = r => j = i
  BY DEF PageInv, RunDrafts
<1>2. end \in RunState /\ end.pc = "end" /\ preparing' = [preparing EXCEPT ![r] = end]
  BY DEF RunState, Ended
<1> HIDE DEF r, end
<1>3. /\ RunList(preparing') /\ Len(preparing') = Len(preparing) /\ preparing'[r] = end /\ OldRuns
      /\ \A k \in 1..Len(preparing) : k # r => preparing'[k] = preparing[k]
  BY <1>1, <1>2, RunMoves, ZenonT(40)
<1>4. \A j \in 1..Len(posts') : posts'[j].op = "draft" => j \in 1..Len(posts) /\ Same(posts'[j], posts[j])
  BY DEF OldPosts
<1>5. RunDrafts'
  <2> SUFFICES ASSUME NEW k \in 1..Len(posts'), posts'[k].op = "draft", posts'[k].by \in Runs
               PROVE  /\ posts'[k].by \in 1..Len(preparing') /\ ~Active(preparing', posts'[k].by)
                      /\ ~posts'[k].heard => preparing'[posts'[k].by].pc = "draft"
                      /\ \A j \in 1..Len(posts') :
                           posts'[j].op = "draft" /\ posts'[j].by = posts'[k].by => j = k
    BY DEF RunDrafts
  <2>1. k \in 1..Len(posts) /\ Same(posts'[k], posts[k])
    BY <1>4
  <2>2. /\ posts[k].by \in 1..Len(preparing) /\ ~Active(preparing, posts[k].by)
        /\ ~posts[k].heard => preparing[posts[k].by].pc = "draft"
        /\ \A j \in 1..Len(posts) : posts[j].op = "draft" /\ posts[j].by = posts[k].by => j = k
        /\ posts'[k].by = posts[k].by /\ posts[k].op = "draft" /\ (posts[k].heard => posts'[k].heard)
    BY <2>1 DEF Same, PageInv, RunDrafts
  <2>3. \A j \in 1..Len(posts') : posts'[j].op = "draft" /\ posts'[j].by = posts'[k].by => j = k
    BY <1>4, <2>2 DEF Same
  <2>4. CASE k = i
    BY <1>2, <1>3, <2>2, <2>3, <2>4 DEF Active, r
  <2>5. CASE k # i
    <3>1. posts[k].by # r
      BY <1>1, <2>1, <2>2, <2>5
    <3>2. preparing'[posts[k].by] = preparing[posts[k].by]
      BY <1>3, <2>2, <3>1
    <3> QED BY <1>3, <2>2, <2>3, <3>2 DEF Active
  <2> QED BY <2>4, <2>5
<1> QED BY <1>1, <1>2, <1>3, <1>5 DEF r

\* An overtaken run may publish here, which is then not alone.
LEMMA DraftAnswerKeeps ==
    ASSUME PageInv, NEW i \in DOMAIN posts, NEW how, DraftAnswered(i, how)
    PROVE  PageInv'
<1> USE KnownTypes
<1> DEFINE q == posts[i]
           p == [composer EXCEPT !.saving = FALSE, !.draft = IF how = "ok" THEN q.row ELSE @]
           heard == Heard(i)
<1>1. /\ i \in 1..Len(posts) /\ q \in Post /\ q.op = "draft" /\ ~q.heard
      /\ forms' = forms /\ works' = works
  BY PostsAre DEF DraftAnswered, Hears
<1>4. /\ q.by \in Runs /\ p.asked =>
           Commit(p, heard, q.by, q.media) /\ preparing' = Ended(q.by)
      /\ q.by \in Runs /\ ~p.asked =>
           composer' = p /\ preparing' = Ended(q.by) /\ posts' = heard
      /\ q.by \notin Runs =>
           /\ posts' = heard
           /\ \/ composer' = Left(p) /\ preparing' = Aborted(preparing, composer.run)
              \/ composer' = p /\ preparing' = preparing
  <2>1. OnLeave \notin Runs /\ p.asked \in BOOLEAN
    BY StoredAssumption DEF OnLeave, Runs, Composers
  <2>2. CASE q.by \in Runs /\ p.asked
    BY <2>1, <2>2 DEF DraftAnswered, Heard
  <2>3. CASE q.by \in Runs /\ ~p.asked
    BY <2>1, <2>3 DEF DraftAnswered, Heard
  <2>4. CASE q.by \notin Runs /\ q.by = OnLeave
    BY <2>1, <2>4 DEF DraftAnswered, Heard
  <2>5. CASE q.by \notin Runs /\ q.by # OnLeave
    BY <2>1, <2>5 DEF DraftAnswered, Heard
  <2> QED BY <2>2, <2>3, <2>4, <2>5
<1>5. /\ p \in Composers /\ p.form = composer.form /\ p.file = composer.file /\ p.key = composer.key
      /\ p.run = composer.run /\ p.ready = composer.ready /\ p.phase = composer.phase
      /\ p.asked = composer.asked
  <2> DEFINE d == IF how = "ok" THEN q.row ELSE composer.draft
  <2>1. p = [composer EXCEPT !.saving = FALSE, !.draft = d]
    OBVIOUS
  <2>2. d \in Nat
    BY <1>1 DEF Post, Composers
  <2> HIDE DEF p, d
  <2> QED BY <2>1, <2>2 DEF Composers
<1>6. /\ Posts(heard) /\ Len(heard) = Len(posts) /\ heard[i].heard
      /\ \A j \in 1..Len(posts) : /\ Same(heard[j], posts[j]) /\ heard[j].pc = posts[j].pc
                                  /\ heard[j].row = posts[j].row
                                  /\ j # i => heard[j] = posts[j]
  BY <1>1, OneIsHeard
<1>7. q.media # 0 /\ Finished(preparing, q.media) /\ q.media \in Nat /\ q.by \in Nat
  BY <1>1 DEF PageInv, Named, Post
<1> HIDE DEF p, heard
<1>9. posts' = heard =>
        /\ OldPosts /\ OldWorks /\ (NoneOut' => NoneOut) /\ Len(posts') \in Nat /\ Posts(posts')
        /\ \A j \in 1..Len(posts') : ~ (j > Len(posts))
        /\ posts'[i].heard
  <2> SUFFICES ASSUME posts' = heard
               PROVE  /\ OldPosts /\ OldWorks /\ (NoneOut' => NoneOut) /\ Len(posts') \in Nat /\ Posts(posts')
                      /\ \A j \in 1..Len(posts') : ~ (j > Len(posts))
                      /\ posts'[i].heard
    OBVIOUS
  <2>1. OldPosts /\ OldWorks
    BY <1>6 DEF OldPosts, OldWorks
  <2>2. NoneOut' => NoneOut
    <3>1. \A j \in 1..Len(posts) : Out(j) => j # i
      BY <1>1 DEF Out
    <3> QED BY <1>6, <3>1 DEF NoneOut, Out
  <2> QED BY <1>6, <2>1, <2>2
<1>10. ASSUME q.by \in Runs, preparing' = Ended(q.by), posts' = heard, composer' \in Composers,
              composer'.form = composer.form, composer'.file = composer.file, composer'.key = composer.key,
              composer'.run = composer.run, composer'.ready = composer.ready,
              composer'.phase = composer.phase, composer'.asked => composer.asked
       PROVE  PageInv'
  <2>1. /\ RunDrafts' /\ OldRuns /\ RunList(preparing') /\ Len(preparing') = Len(preparing)
        /\ q.by \in 1..Len(preparing) /\ preparing[q.by].pc = "draft" /\ preparing'[q.by].pc = "end"
        /\ \A r \in 1..Len(preparing) : r # q.by => preparing'[r] = preparing[r]
    BY <1>1, <1>9, <1>10, DraftEnds
  <2>2. PageTypes'
    BY <1>1, <1>9, <1>10, <2>1 DEF PageTypes
  <2>3. WishesOK'
    <3>1. composer'.phase \in {"uploading", "processing"} /\ composer'.run # 0
          => Active(preparing', composer'.run)
      BY <1>10, <2>1 DEF PageInv, WishesOK, Active
    <3>2. Finished(preparing', composer'.ready)
      BY <1>10, <2>1 DEF PageInv, WishesOK, OldRuns
    <3> QED BY <1>10, <3>1, <3>2 DEF PageInv, WishesOK
  <2>4. composer'.asked /\ composer.run # 0 /\ preparing'[composer.run].pc = "draft" =>
             composer.asked /\ preparing[composer.run].pc = "draft" /\ (NoneOut' => NoneOut)
    <3>1. composer.run \in Nat
      BY DEF Composers
    <3> QED BY <1>9, <1>10, <2>1, <3>1, SMTT(30)
  <2> QED BY <1>1, <1>9, <1>10, <2>1, <2>2, <2>3, <2>4, QuietKeeps
<1>11. CASE q.by \in Runs /\ p.asked
  <2>1. Commit(p, heard, q.by, q.media) /\ preparing' = Ended(q.by)
    BY <1>4, <1>11
  <2>2. CASE p.phase \in {"publishing", "done"} \/ p.form = 0
    <3>1. posts' = heard /\ (composer' = p \/ composer' = [p EXCEPT !.asked = FALSE])
      BY <2>1, <2>2 DEF Commit
    <3>2. /\ composer' \in Composers
          /\ composer'.form = composer.form /\ composer'.file = composer.file /\ composer'.key = composer.key
          /\ composer'.run = composer.run /\ composer'.ready = composer.ready
          /\ composer'.phase = composer.phase /\ (composer'.asked => composer.asked)
      BY <1>5, <3>1 DEF Composers
    <3> QED BY <1>10, <1>11, <2>1, <3>1, <3>2
  <2>3. CASE p.phase \notin {"publishing", "done"} /\ p.form # 0
    <3>1. PICK n \in Post : posts' = Append(heard, n) /\ n.op = "publish"
      BY <1>5, <1>6, <1>7, <2>1, <2>3, CommitPublishes
    <3>2. /\ Len(posts') \in Nat /\ \A j \in 1..Len(posts) : posts'[j] = heard[j]
          /\ \A j \in 1..Len(posts') : j > Len(posts) => posts'[j].op # "draft"
          /\ Len(posts) <= Len(posts')
      <4>1. /\ Len(posts') = Len(posts) + 1 /\ posts'[Len(posts) + 1] = n
            /\ \A j \in 1..Len(posts) : posts'[j] = heard[j]
        <5>1. /\ Len(Append(heard, n)) = Len(heard) + 1 /\ Append(heard, n)[Len(heard) + 1] = n
              /\ \A j \in 1..Len(heard) : Append(heard, n)[j] = heard[j]
          BY <1>6, OnePostMore
        <5> QED BY <1>6, <3>1, <5>1
      <4>2. \A j \in 1..Len(posts') : j > Len(posts) => j = Len(posts) + 1
        BY <4>1
      <4> QED BY <3>1, <4>1, <4>2
    <3>3. OldPosts
      BY <1>6, <3>2 DEF OldPosts
    <3>4. /\ RunDrafts' /\ OldRuns /\ RunList(preparing') /\ Len(preparing') = Len(preparing)
          /\ preparing[q.by].pc = "draft"
      BY <1>1, <1>6, <1>11, <2>1, <3>2, <3>3, DraftEnds
    <3>5. Finished(preparing', q.media) /\ Finished(preparing', p.ready)
      BY <1>5, <1>7, <3>4 DEF OldRuns, PageInv, WishesOK
    <3>6. p.file # 0
      BY <1>5, <1>11 DEF PageInv, WishesOK
    <3>7. AllAlone /\ NoneOut => q.by \notin {User, composer.run}
      BY <1>5, <1>11, <3>4 DEF PageInv, SavesOnly, User, Runs
    <3>8. /\ AllAlone /\ NoneOut /\ q.by \in {User, composer.run} =>
             /\ p.ready = q.media
             /\ (composer.ready = q.media /\ composer.phase = "ready") \/ Active(preparing, q.media)
      BY <3>7
    <3>9. \A j \in 1..Len(posts) :
            Same(heard[j], posts[j]) /\ heard[j].pc = posts[j].pc /\ heard[j].row = posts[j].row
      BY <1>6
    <3> HIDE DEF q
    <3> QED BY <1>1, <1>5, <1>6, <1>7, <2>1, <2>3, <3>4, <3>5, <3>6, <3>8, <3>9, PublishKeeps
  <2> QED BY <2>2, <2>3
<1>12. CASE q.by \in Runs /\ ~p.asked
  <2>1. composer' = p /\ preparing' = Ended(q.by) /\ posts' = heard
    BY <1>4, <1>12
  <2> QED BY <1>5, <1>10, <1>12, <2>1
<1>13. CASE q.by \notin Runs
  <2>1. /\ posts' = heard
        /\ \/ composer' = Left(p) /\ preparing' = Aborted(preparing, composer.run)
           \/ composer' = p /\ preparing' = preparing
    BY <1>4, <1>13
  <2>2. /\ RunList(preparing') /\ Len(preparing') = Len(preparing)
        /\ \A r \in 1..Len(preparing) : preparing'[r].pc = preparing[r].pc
    BY <2>1, RunAborted
  <2>3. OldRuns
    BY <2>2, RunsFinish
  <2>4. /\ composer' \in Composers /\ composer'.form = composer.form /\ composer'.file = composer.file
        /\ composer'.key = composer.key /\ composer'.ready = composer.ready
        /\ composer'.phase = composer.phase /\ composer'.asked = composer.asked
        /\ composer'.run \in {0, composer.run}
    <3>1. CASE composer' = p
      BY <1>5, <3>1
    <3>2. CASE composer' = Left(p)
      BY <1>5, <3>2 DEF Left, Composers
    <3> QED BY <2>1, <3>1, <3>2
  <2>5. PageTypes'
    BY <1>1, <1>9, <2>1, <2>2, <2>4 DEF PageTypes
  <2>6. WishesOK'
    BY <2>2, <2>3, <2>4 DEF PageInv, WishesOK, OldRuns, Active
  <2>7. RunDrafts'
    BY <1>9, <2>1, <2>2, DraftsStay
  <2>8. composer'.asked /\ composer.run # 0 /\ preparing'[composer.run].pc = "draft" =>
             composer.asked /\ preparing[composer.run].pc = "draft" /\ (NoneOut' => NoneOut)
    <3>1. composer.run \in Nat
      BY DEF Composers
    <3> QED BY <1>9, <2>1, <2>2, <2>4, <3>1
  <2> QED BY <1>1, <1>9, <2>1, <2>3, <2>4, <2>5, <2>6, <2>7, <2>8, QuietKeeps
<1> QED BY <1>11, <1>12, <1>13

\* A failure keeps the key; the one success that drops it is heard when nothing is
\* out, and the media are published and not ready again under this form and file.
LEMMA PublishAnswerKeeps ==
    ASSUME PageInv, NEW i \in DOMAIN posts, NEW how, PublishAnswered(i, how)
    PROVE  PageInv'
<1> USE KnownTypes
<1> DEFINE heard == Heard(i)
<1>1. /\ i \in 1..Len(posts) /\ Out(i) /\ posts' = heard
      /\ forms' = forms /\ works' = works /\ preparing' = preparing
  BY PostsAre DEF PublishAnswered, Hears, Out, Heard
<1>2. /\ Posts(heard) /\ Len(heard) = Len(posts) /\ heard[i].heard
      /\ \A j \in 1..Len(posts) : /\ Same(heard[j], posts[j]) /\ heard[j].pc = posts[j].pc
                                  /\ heard[j].row = posts[j].row
                                  /\ j # i => heard[j] = posts[j]
  BY <1>1, OneIsHeard
<1> HIDE DEF heard
<1>3. /\ OldPosts /\ OldWorks /\ Len(posts') \in Nat /\ Posts(posts') /\ posts'[i].heard
      /\ \A j \in 1..Len(posts') : ~ (j > Len(posts))
  BY <1>1, <1>2 DEF OldPosts, OldWorks
<1>4. OldRuns
  BY <1>1, RunsStay
<1>5. RunDrafts'
  BY <1>1, <1>3, DraftsStay
<1>6. ~NoneOut
  BY <1>1 DEF NoneOut
<1>7. CASE composer' = [composer EXCEPT !.asked = FALSE, !.phase = "ready"]
  <2>1. /\ composer' \in Composers /\ composer'.form = composer.form /\ composer'.file = composer.file
        /\ composer'.key = composer.key /\ composer'.run = composer.run /\ composer'.ready = composer.ready
        /\ composer'.phase = "ready" /\ ~composer'.asked
    BY <1>7 DEF Composers
  <2>2. PageTypes'
    BY <1>1, <1>3, <2>1 DEF PageTypes
  <2>3. WishesOK'
    BY <1>1, <2>1 DEF PageInv, WishesOK
  <2> QED BY <1>1, <1>3, <1>4, <1>5, <1>6, <2>1, <2>2, <2>3, QuietKeeps
<1>8. CASE composer' = [composer EXCEPT !.draft = 0, !.key = 0, !.asked = FALSE, !.phase = "done"]
  <2>1. /\ composer' \in Composers /\ composer'.form = composer.form /\ composer'.file = composer.file
        /\ composer'.run = composer.run /\ composer'.ready = composer.ready
        /\ composer'.phase = "done" /\ ~composer'.asked
    BY <1>8 DEF Composers
  <2>2. PageTypes'
    BY <1>1, <1>3, <2>1 DEF PageTypes
  <2>3. WishesOK'
    BY <1>1, <2>1 DEF PageInv, WishesOK
  <2>4. OneOut => NoneOut'
    <3>1. \A j \in 1..Len(posts') : Out(j)' => j \in 1..Len(posts) /\ j # i /\ Out(j)
      BY <1>1, <1>2, <1>3 DEF Out
    <3> QED BY <1>1, <3>1 DEF OneOut, NoneOut
  <2>5. NoneOut' => KeyHeld'
    BY <2>1 DEF KeyHeld, Spent
  <2>6. AllAlone => SavesOnly' /\ KeyHeld'
    BY <2>1, <2>4, <2>5 DEF PageInv, SavesOnly
  <2> QED BY <1>1, <1>3, <1>4, <1>5, <2>2, <2>3, <2>6, StepKeeps
<1> QED BY <1>7, <1>8 DEF PublishAnswered, Hears
-----------------------------------------------------------------------------
\* The invariant holds at first and is kept.
LEMMA PageStarts == PageInit => PageInv
<1> SUFFICES ASSUME PageInit PROVE PageInv
  OBVIOUS
<1>1. posts = <<>> /\ preparing = <<>> /\ Len(posts) = 0 /\ Len(preparing) = 0 /\ 1..0 = {}
  BY DEF PageInit
<1>2. PageTypes
  <2>1. composer \in Composers /\ forms \in Nat
    BY DEF PageInit, Composers
  <2>2. RunList(preparing) /\ Len(preparing) <= MaxRuns /\ Posts(posts)
    BY <1>1, StoredAssumption DEF RunList, Posts
  <2>3. WorkList(works)
    BY StoredAssumption DEF PageInit, WorkList, Row
  <2>4. composer.form <= forms /\ composer.file <= Len(preparing) /\ composer.run <= Len(preparing)
    BY <1>1 DEF PageInit
  <2> QED BY <2>1, <2>2, <2>3, <2>4 DEF PageTypes
<1>3. Named /\ RunDrafts /\ Answers /\ OneOut /\ KeyHeld /\ OneKey
  BY <1>1 DEF Named, RunDrafts, Answers, OneOut, KeyHeld, OneKey
<1>4. WishesOK /\ SavesOnly
  BY DEF PageInit, WishesOK, SavesOnly, Finished
<1> QED BY <1>2, <1>3, <1>4 DEF PageInv

LEMMA PageStep == PageInv /\ [PageNext]_pageVars => PageInv'
<1> SUFFICES ASSUME PageInv, [PageNext]_pageVars PROVE PageInv'
  OBVIOUS
<1>1. CASE UNCHANGED pageVars
  <2>1. composer' = composer /\ forms' = forms /\ preparing' = preparing /\ posts' = posts /\ works' = works
    BY <1>1 DEF pageVars
  <2>2. PageTypes' /\ Named' /\ RunDrafts' /\ WishesOK' /\ Answers' /\ (AllAlone' => AllAlone)
    BY <2>1 DEF PageInv, PageTypes, Named, RunDrafts, WishesOK, Answers, AllAlone
  <2>3. /\ OneOut => OneOut'
        /\ SavesOnly => SavesOnly'
        /\ KeyHeld => KeyHeld'
        /\ OneKey => OneKey'
    <3>1. NoneOut' <=> NoneOut
      BY <2>1 DEF NoneOut, Out
    <3> QED BY <2>1, <3>1 DEF OneOut, Out, SavesOnly, KeyHeld, OneKey, Spent
  <2> QED BY <2>2, <2>3 DEF PageInv
<1>2. CASE PageNext
  <2>1. CASE OpenPage \/ DraftLoaded \/ DraftNotLoaded \/ Edit
    BY <2>1, LoadKeeps
  <2>2. CASE AcceptFile \/ ClearVideo \/ Cancel \/ StartAnother
    BY <2>2, PickKeeps
  <2>3. CASE OnPublish
    BY <2>3, PressKeeps
  <2>4. CASE OnSaveDraft
    BY <2>4, SaveKeeps
  <2>5. CASE LeavePage
    BY <2>5, LeaveKeeps
  <2>6. CASE \E r \in DOMAIN preparing : UploadEnds(r) \/ TranscodeEnds(r) \/ Fails(r) \/ Cancelled(r)
    BY <2>6, RunKeeps
  <2>7. CASE \E i \in DOMAIN posts : ServeDraft(i) \/ ServePublish(i)
    BY <2>7, ServeKeeps
  <2>8. CASE \E i \in DOMAIN posts : \E how \in {"ok", "failure"} : DraftAnswered(i, how) \/ PublishAnswered(i, how)
    BY <2>8, DraftAnswerKeeps, PublishAnswerKeeps
  <2> QED BY <1>2, <2>1, <2>2, <2>3, <2>4, <2>5, <2>6, <2>7, <2>8 DEF PageNext
<1> QED BY <1>1, <1>2

\* However often the button is pressed and the answers are lost, the same form
\* with the same file and media becomes one work, as long as no publication is
\* sent while another is out or by a run that was overtaken (VideoView.vue,
\* commitPublish; service.go, Publish).
THEOREM RetriesPublishOnce == PageSafety => []RetryPublishesOnce
<1>1. PageInv => RetryPublishesOnce
  <2> SUFFICES ASSUME PageInv, \A i \in DOMAIN posts : posts[i].op = "publish" => posts[i].alone,
                      NEW i \in PublishedPosts, NEW j \in PublishedPosts,
                      posts[i].form = posts[j].form, posts[i].file = posts[j].file,
                      posts[i].media = posts[j].media
               PROVE  posts[i].row = posts[j].row
    BY DEF RetryPublishesOnce
  <2>1. DOMAIN posts = 1..Len(posts)
    BY PostsAre DEF PageInv, PageTypes
  <2>2. /\ i \in 1..Len(posts) /\ posts[i].op = "publish" /\ posts[i].pc = "done"
        /\ j \in 1..Len(posts) /\ posts[j].op = "publish" /\ posts[j].pc = "done"
    BY <2>1 DEF PublishedPosts
  <2>3. AllAlone
    BY <2>1 DEF AllAlone
  <2>4. posts[i].key = posts[j].key
    BY <2>2, <2>3 DEF PageInv, OneKey
  <2> QED BY <2>2, <2>4 DEF PageInv, Answers
<1> QED BY <1>1, PageStarts, PageStep, PTL DEF PageSafety
-----------------------------------------------------------------------------
(* The types of the parts.                                                  *)

\* The name, the tokens and what requests carry keep their types
\* (account/service.go).
LEMMA SessionTypes == SessionSafety => []SessionTypeOK
<1> DEFINE Req == [pc : {"idle", "sign", "lookup", "set", "drop"}, token : Tokens, late : BOOLEAN]
<1>0. SessionIdle \in Req /\ NotCached \in [token : Tokens, late : BOOLEAN]
  BY DEF SessionIdle, NotCached, Tokens
<1>1. SessionInit => SessionTypeOK
  BY <1>0, FirstNameAssumption DEF SessionInit, SessionTypeOK, Tokens
<1>2. SessionTypeOK /\ [SessionNext]_sessionVars => SessionTypeOK'
  <2> SUFFICES ASSUME SessionTypeOK, [SessionNext]_sessionVars  PROVE SessionTypeOK'
    OBVIOUS
  <2>0. sessionRequest \in [SessionRequests -> Req]
    BY DEF SessionTypeOK
  <2>1. ASSUME NEW r \in SessionRequests, NEW t \in Tokens,
               NEW pc \in {"idle", "sign", "lookup", "set", "drop"}, SessionGoes(r, pc, t)
        PROVE  sessionRequest' \in [SessionRequests -> Req]
    <3>1. [SessionIdle EXCEPT !.pc = pc, !.token = t] \in Req
      BY <1>0
    <3> HIDE DEF Req
    <3> QED BY <2>0, <2>1, <3>1 DEF SessionGoes
  <2>2. ASSUME NEW r \in SessionRequests, NEW t \in Tokens, NEW pc \in {"set", "drop"}, WriteRow(r, t, pc)
        PROVE  token' \in Tokens /\ sessionRequest' \in [SessionRequests -> Req]
    <3>1. [SessionIdle EXCEPT !.pc = pc, !.token = t] \in Req
      BY <1>0
    <3>2. \A k \in Req, b \in BOOLEAN : [k EXCEPT !.late = b] \in Req
      OBVIOUS
    <3>3. \A q \in SessionRequests : (sessionRequest[q].late \/ sessionRequest[q].pc # "idle") \in BOOLEAN
      OBVIOUS
    <3>4. \A q \in SessionRequests :
            [sessionRequest[q] EXCEPT !.late = @ \/ sessionRequest[q].pc # "idle"] \in Req
      BY <2>0, <3>2
    <3> HIDE DEF Req
    <3> QED BY <2>2, <3>1, <3>4 DEF WriteRow
  <2> HIDE DEF Req
  <2>3. NoToken \in Tokens /\ UserNames \subseteq Tokens
    BY DEF Tokens
  <2>5. ASSUME NEW r \in SessionRequests, ReadAccount(r)  PROVE SessionTypeOK'
    BY <2>1, <2>3, <2>5 DEF ReadAccount, SessionTypeOK, Req
  <2>6. ASSUME NEW r \in SessionRequests, SaveToken(r) \/ EndSession(r)  PROVE SessionTypeOK'
    <3>1. sessionRequest[r].token \in Tokens
      BY <2>0 DEF Req
    <3> QED BY <2>2, <2>3, <2>6, <3>1 DEF SaveToken, EndSession, SessionTypeOK, Req
  <2>7. ASSUME NEW r \in SessionRequests, NEW n \in UserNames, Rename(r, n)  PROVE SessionTypeOK'
    BY <2>2, <2>3, <2>7 DEF Rename, SessionTypeOK, Req
  <2>8. ASSUME NEW r \in SessionRequests, NEW n \in UserNames, MissToken(r, n)  PROVE SessionTypeOK'
    BY <2>1, <2>3, <2>8 DEF MissToken, SessionTypeOK, Req
  <2>9. ASSUME NEW r \in SessionRequests, LookupToken(r)  PROVE SessionTypeOK'
    BY <2>1, <2>3, <2>9 DEF LookupToken, SessionTypeOK, Req
  <2>10. ASSUME NEW r \in SessionRequests, SetTokenCache(r)  PROVE SessionTypeOK'
    <3>1. sessionRequest[r].token \in Tokens /\ sessionRequest[r].late \in BOOLEAN
      BY <2>0 DEF Req
    <3> QED BY <2>1, <2>3, <2>10, <3>1 DEF SetTokenCache, SessionTypeOK, Req
  <2>11. ASSUME NEW r \in SessionRequests, DropTokenCache(r)  PROVE SessionTypeOK'
    BY <1>0, <2>1, <2>3, <2>11 DEF DropTokenCache, SessionTypeOK, Req
  <2>12. ASSUME NEW r \in SessionRequests, MissTokenCache(r)  PROVE SessionTypeOK'
    BY <1>0, <2>1, <2>3, <2>12 DEF MissTokenCache, SessionTypeOK, Req
  <2>13. CASE ExpireToken
    BY <1>0, <2>13 DEF ExpireToken, SessionTypeOK
  <2>14. CASE UNCHANGED sessionVars
    BY <2>14 DEF sessionVars, SessionTypeOK
  <2> QED BY <2>5, <2>6, <2>7, <2>8, <2>9, <2>10, <2>11, <2>12, <2>13, <2>14 DEF SessionNext
<1> QED BY <1>1, <1>2, PTL DEF SessionSafety
-----------------------------------------------------------------------------
\* A request that is about to write a name has one, and one that is about to
\* store or to send a code has one.
SignUpTyped ==
    /\ SignUpTypeOK
    /\ \A r \in SignUpRequests :
         /\ signUp[r].pc \in {"insert", "create", "rename"} => signUp[r].name \in NamesInUse
         /\ signUp[r].pc \in {"save", "mail"} => signUp[r].code \in SentCodes

\* Accounts, gifts, codes and requests keep their types (account/service.go,
\* account/email_code.go).
LEMMA SignUpTypes == SignUpSafety => []SignUpTypeOK
<1> DEFINE Pcs == {"idle", "insert", "save", "mail", "delete", "find", "pick", "create", "rename"}
           Req == [pc : Pcs, name : NamesInUse \union {NoName}, code : 0..MaxCodes]
           Rows == [name : NamesInUse, email : BOOLEAN, id : NamesInUse]
           ReqsOK == /\ signUp' \in [SignUpRequests -> Req]
                     /\ \A q \in SignUpRequests :
                          /\ signUp'[q].pc \in {"insert", "create", "rename"} => signUp'[q].name \in NamesInUse
                          /\ signUp'[q].pc \in {"save", "mail"} => signUp'[q].code \in SentCodes
<1>1. SignUpInit => SignUpTyped
  <2> SUFFICES ASSUME SignUpInit  PROVE SignUpTyped
    OBVIOUS
  <2>1. 0 \in 0..MaxCodes
    BY MaxCodesAssumption
  <2>2. SignUpIdle \in Req /\ SignUpIdle.pc = "idle"
    BY <2>1 DEF SignUpIdle
  <2>3. signUp \in [SignUpRequests -> Req] /\ \A r \in SignUpRequests : signUp[r].pc = "idle"
    <3> HIDE DEF Req
    <3> QED BY <2>2 DEF SignUpInit
  <2> QED BY <2>1, <2>3 DEF SignUpInit, SignUpTyped, SignUpTypeOK
<1>2. SignUpTyped /\ [SignUpNext]_signUpVars => SignUpTyped'
  <2> SUFFICES ASSUME SignUpTyped, [SignUpNext]_signUpVars  PROVE SignUpTyped'
    OBVIOUS
  <2>0. /\ signUp \in [SignUpRequests -> Req] /\ accounts \in SUBSET Rows /\ gifts \in [NamesInUse -> Nat]
        /\ otp \in 0..MaxCodes /\ cooldown \in BOOLEAN /\ codes \in 0..MaxCodes /\ mailbox \in SUBSET SentCodes
    BY DEF SignUpTyped, SignUpTypeOK
  <2>1. SentCodes \subseteq 0..MaxCodes /\ 0 \in 0..MaxCodes
    BY MaxCodesAssumption DEF SentCodes
  <2>2. ASSUME NEW r \in SignUpRequests, NEW pc \in Pcs, NEW n \in NamesInUse \union {NoName},
               NEW c \in 0..MaxCodes, SignUpGoes(r, pc, n, c),
               pc \in {"insert", "create", "rename"} => n \in NamesInUse,
               pc \in {"save", "mail"} => c \in SentCodes
        PROVE  ReqsOK
    <3>1. [pc |-> pc, name |-> n, code |-> c] \in Req
      OBVIOUS
    <3>2. signUp' \in [SignUpRequests -> Req]
      <4> HIDE DEF Req
      <4> QED BY <2>0, <2>2, <3>1 DEF SignUpGoes
    <3> QED BY <2>0, <2>2, <3>2 DEF SignUpGoes, SignUpTyped
  <2>3. ASSUME NEW r \in SignUpRequests, SignUpEnds(r)  PROVE ReqsOK
    <3> HIDE DEF Req
    <3> QED BY <2>1, <2>2, <2>3 DEF SignUpEnds
  <2>4. ASSUME ReqsOK, accounts' \in SUBSET Rows, gifts' \in [NamesInUse -> Nat], otp' \in 0..MaxCodes,
               cooldown' \in BOOLEAN, codes' \in 0..MaxCodes, mailbox' \in SUBSET SentCodes
        PROVE  SignUpTyped'
    BY <2>4 DEF SignUpTyped, SignUpTypeOK
  <2>5. \A r \in SignUpRequests :
          /\ signUp[r].pc \in {"insert", "create", "rename"} => signUp[r].name \in NamesInUse
          /\ signUp[r].pc \in {"save", "mail"} => signUp[r].code \in SentCodes
          /\ signUp[r].code \in 0..MaxCodes
    BY <2>0 DEF SignUpTyped
  <2> HIDE DEF Req, ReqsOK, Rows
  <2>6. ASSUME NEW r \in SignUpRequests, NEW n \in NamesInUse, NEW email \in BOOLEAN,
               InsertAccount(r, n, email), UNCHANGED codeStore
        PROVE  SignUpTyped'
    <3>1. [name |-> n, email |-> email, id |-> n] \in Rows
      BY DEF Rows
    <3>2. accounts' \in SUBSET Rows /\ gifts' \in [NamesInUse -> Nat]
      BY <2>0, <2>6, <3>1 DEF InsertAccount
    <3>3. ReqsOK
      BY <2>3, <2>6 DEF InsertAccount
    <3> QED BY <2>0, <2>4, <2>6, <3>2, <3>3 DEF codeStore
  <2>7. ASSUME NEW r \in SignUpRequests, NEW n \in NamesInUse, Register(r, n) \/ AskRename(r, n)
        PROVE  SignUpTyped'
    <3>1. ReqsOK
      BY <2>1, <2>2, <2>7 DEF Register, AskRename
    <3> QED BY <2>0, <2>4, <2>7, <3>1 DEF Register, AskRename, codeStore
  <2>8. ASSUME NEW r \in SignUpRequests, RegisterInserts(r) \/ CreateEmailAccount(r)  PROVE SignUpTyped'
    BY <2>5, <2>6, <2>8 DEF RegisterInserts, CreateEmailAccount, SignUpAt
  <2>9. ASSUME NEW r \in SignUpRequests, Renamed(r)  PROVE SignUpTyped'
    <3> DEFINE n == signUp[r].name
    <3>1. n \in NamesInUse /\ SignUpEnds(r)
      BY <2>5, <2>9 DEF Renamed, SignUpAt
    <3>2. \A a \in accounts : [a EXCEPT !.name = n] \in Rows /\ a \in Rows
      BY <2>0, <3>1 DEF Rows
    <3>3. accounts' \in SUBSET Rows
      <4> HIDE DEF n
      <4>1. {IF a.email THEN [a EXCEPT !.name = n] ELSE a : a \in accounts} \in SUBSET Rows
        BY <3>2
      <4> QED BY <2>0, <2>9, <4>1 DEF Renamed, n
    <3>4. ReqsOK
      BY <2>3, <3>1
    <3> QED BY <2>0, <2>4, <2>9, <3>3, <3>4 DEF Renamed, codeStore
  <2>10. ASSUME NEW r \in SignUpRequests, StartCode(r)  PROVE SignUpTyped'
    <3>1. codes + 1 \in SentCodes /\ codes + 1 \in 0..MaxCodes
      BY <2>0, <2>10, MaxCodesAssumption DEF StartCode, SentCodes
    <3>2. ReqsOK
      BY <2>2, <2>10, <3>1 DEF StartCode
    <3> QED BY <2>0, <2>4, <2>10, <3>1, <3>2 DEF StartCode
  <2>11. ASSUME NEW r \in SignUpRequests, SaveHash(r)  PROVE SignUpTyped'
    <3>1. ReqsOK
      BY <2>2, <2>5, <2>11 DEF SaveHash, SignUpAt
    <3> QED BY <2>0, <2>4, <2>5, <2>11, <3>1 DEF SaveHash
  <2>12. ASSUME NEW r \in SignUpRequests, MailCode(r)  PROVE SignUpTyped'
    <3>1. ReqsOK /\ signUp[r].code \in SentCodes
      BY <2>3, <2>5, <2>12 DEF MailCode, SignUpAt
    <3> QED BY <2>0, <2>4, <2>12, <3>1 DEF MailCode
  <2>13. ASSUME NEW r \in SignUpRequests, NEW c \in SentCodes, MatchCode(r, c)  PROVE SignUpTyped'
    <3>1. ReqsOK
      BY <2>1, <2>2, <2>13 DEF MatchCode
    <3> QED BY <2>0, <2>4, <2>13, <3>1 DEF MatchCode, codeStore
  <2>14. ASSUME NEW r \in SignUpRequests, DeleteCode(r)  PROVE SignUpTyped'
    <3>1. ReqsOK
      BY <2>2, <2>5, <2>14 DEF DeleteCode
    <3> QED BY <2>0, <2>1, <2>4, <2>14, <3>1 DEF DeleteCode
  <2>15. ASSUME NEW r \in SignUpRequests, FindIdentity(r)  PROVE SignUpTyped'
    <3>1. ReqsOK
      BY <2>1, <2>2, <2>3, <2>15 DEF FindIdentity
    <3> QED BY <2>0, <2>4, <2>15, <3>1 DEF FindIdentity, codeStore
  <2>16. ASSUME NEW r \in SignUpRequests, PickName(r)  PROVE SignUpTyped'
    <3>1. PICK k \in DOMAIN AccountNames : SignUpGoes(r, "create", AccountNames[k], 0)
      BY <2>16 DEF PickName
    <3>2. AccountNames[k] \in NamesInUse
      BY DEF NamesInUse
    <3>3. ReqsOK
      BY <2>1, <2>2, <3>1, <3>2
    <3> QED BY <2>0, <2>4, <2>16, <3>3 DEF PickName, codeStore
  <2>17. ASSUME NEW r \in SignUpRequests, SignUpFails(r)  PROVE SignUpTyped'
    BY <2>0, <2>3, <2>4, <2>17 DEF SignUpFails, codeStore
  <2>18. CASE ExpireCooldown \/ ExpireCode \/ UNCHANGED signUpVars
    <3>1. ReqsOK
      BY <2>0, <2>5, <2>18 DEF ExpireCooldown, ExpireCode, signUpVars, ReqsOK
    <3> QED BY <2>0, <2>1, <2>4, <2>18, <3>1 DEF ExpireCooldown, ExpireCode, signUpVars
  <2> QED BY <2>7, <2>8, <2>9, <2>10, <2>11, <2>12, <2>13, <2>14, <2>15, <2>16, <2>17, <2>18
      DEF SignUpNext
<1>3. SignUpTyped => SignUpTypeOK
  BY DEF SignUpTyped
<1> QED BY <1>1, <1>2, <1>3, PTL DEF SignUpSafety
-----------------------------------------------------------------------------
\* A request that counts or inserts has a credential.
PasskeyTyped ==
    /\ PasskeyTypeOK
    /\ \A r \in PasskeyRequests :
         passkeyRequest[r].pc \in {"count", "insert"} => passkeyRequest[r].at \in Credentials

\* Rows, ceremonies and requests of passkeys keep their types: only
\* credentials are inserted (account/passkey_service.go).
LEMMA PasskeyTypes == PasskeySafety => []PasskeyTypeOK
<1> DEFINE Pcs == {"idle", "save", "count", "insert", "touch"}
           Ats == Ceremonies \union Credentials \union {NoCeremony}
           ReqsOK == /\ passkeyRequest' \in [PasskeyRequests -> [pc : Pcs, at : Ats]]
                     /\ \A q \in PasskeyRequests : passkeyRequest'[q].pc \in {"count", "insert"} =>
                                                     passkeyRequest'[q].at \in Credentials
<1>1. PasskeyInit => PasskeyTyped
  BY DEF PasskeyInit, PasskeyTyped, PasskeyTypeOK, PasskeyIdle
<1>2. PasskeyTyped /\ [PasskeyNext]_passkeyVars => PasskeyTyped'
  <2> SUFFICES ASSUME PasskeyTyped, [PasskeyNext]_passkeyVars  PROVE PasskeyTyped'
    OBVIOUS
  <2>0. /\ passkeyRequest \in [PasskeyRequests -> [pc : Pcs, at : Ats]] /\ passkeys \in SUBSET Credentials
        /\ ceremonies \in SUBSET [id : Ceremonies, kind : Kinds] /\ begun \in SUBSET Ceremonies
    BY DEF PasskeyTyped, PasskeyTypeOK
  <2>1. ASSUME NEW r \in PasskeyRequests, NEW pc \in Pcs, NEW at \in Ats, PasskeyGoes(r, pc, at),
               pc \in {"count", "insert"} => at \in Credentials
        PROVE  ReqsOK
    BY <2>0, <2>1 DEF PasskeyGoes, PasskeyTyped
  <2>2. ASSUME NEW r \in PasskeyRequests, PasskeyEnds(r)  PROVE ReqsOK
    BY <2>1, <2>2 DEF PasskeyEnds
  <2>3. ReqsOK \/ ~(UNCHANGED passkeyRequest)
    BY <2>0 DEF PasskeyTyped
  <2>4. ASSUME ReqsOK, passkeys' \in SUBSET Credentials, begun' \in SUBSET Ceremonies,
               ceremonies' \in SUBSET [id : Ceremonies, kind : Kinds]
        PROVE  PasskeyTyped'
    BY <2>4 DEF PasskeyTyped, PasskeyTypeOK
  <2>5. \A r \in PasskeyRequests : passkeyRequest[r].pc \in {"count", "insert"} =>
                                     passkeyRequest[r].at \in Credentials
    BY DEF PasskeyTyped
  <2> HIDE DEF ReqsOK
  <2>6. ASSUME NEW s \in Ceremonies, NEW kind \in Kinds, SaveCeremony(s, kind)
        PROVE  begun' \in SUBSET Ceremonies /\ ceremonies' \in SUBSET [id : Ceremonies, kind : Kinds]
    BY <2>0, <2>6 DEF SaveCeremony
  <2>7. ASSUME NEW r \in PasskeyRequests, BeginPasskeyRegister(r)  PROVE PasskeyTyped'
    BY <2>0, <2>1, <2>4, <2>7 DEF BeginPasskeyRegister, ceremonyStore
  <2>8. ASSUME NEW r \in PasskeyRequests, CountPasskeys(r)  PROVE PasskeyTyped'
    <3>1. passkeyRequest[r].at \in Credentials
      BY <2>5, <2>8 DEF CountPasskeys, PasskeyAt
    <3>2. ReqsOK
      BY <2>1, <2>2, <2>8, <3>1 DEF CountPasskeys
    <3> QED BY <2>0, <2>4, <2>8, <3>2 DEF CountPasskeys, ceremonyStore
  <2>9. ASSUME NEW r \in PasskeyRequests, CreatePasskey(r)  PROVE PasskeyTyped'
    <3>1. passkeyRequest[r].at \in Credentials
      BY <2>5, <2>9 DEF CreatePasskey, PasskeyAt
    <3> QED BY <2>0, <2>2, <2>4, <2>9, <3>1 DEF CreatePasskey, ceremonyStore
  <2>10. ASSUME NEW r \in PasskeyRequests, TouchPasskey(r) \/ CeremonyFails(r)  PROVE PasskeyTyped'
    BY <2>0, <2>2, <2>4, <2>10 DEF TouchPasskey, CeremonyFails, ceremonyStore
  <2>11. ASSUME NEW r \in PasskeyRequests, NEW s \in Ceremonies, RegisterSaved(r, s) \/ BeginPasskeyLogin(r, s)
         PROVE  PasskeyTyped'
    BY <2>0, <2>2, <2>3, <2>4, <2>6, <2>11 DEF RegisterSaved, BeginPasskeyLogin, Kinds
  <2>12. ASSUME NEW r \in PasskeyRequests, NEW e \in ceremonies, NEW k \in Credentials,
                FinishPasskeyRegister(r, e, k) \/ FinishPasskeyLogin(r, e, k)
         PROVE  PasskeyTyped'
    <3>1. ReqsOK
      BY <2>1, <2>12 DEF FinishPasskeyRegister, FinishPasskeyLogin, Finish
    <3> QED BY <2>0, <2>4, <2>12, <3>1 DEF FinishPasskeyRegister, FinishPasskeyLogin, Finish, Consume
  <2>13. ASSUME NEW r \in PasskeyRequests, NEW e \in ceremonies, FinishWrong(r, e) \/ ExpireCeremony(e)
         PROVE  PasskeyTyped'
    BY <2>0, <2>3, <2>4, <2>13 DEF FinishWrong, ExpireCeremony, Consume
  <2>14. ASSUME NEW e \in ceremonies, ExpireCeremony(e)  PROVE PasskeyTyped'
    BY <2>0, <2>3, <2>4, <2>14 DEF ExpireCeremony
  <2>15. ASSUME NEW k \in Credentials, DeletePasskey(k)  PROVE PasskeyTyped'
    BY <2>0, <2>3, <2>4, <2>15 DEF DeletePasskey, ceremonyStore
  <2>16. CASE UNCHANGED passkeyVars
    BY <2>0, <2>3, <2>4, <2>16 DEF passkeyVars
  <2> QED BY <2>7, <2>8, <2>9, <2>10, <2>11, <2>12, <2>13, <2>14, <2>15, <2>16 DEF PasskeyNext
<1>3. PasskeyTyped => PasskeyTypeOK
  BY DEF PasskeyTyped
<1> QED BY <1>1, <1>2, <1>3, PTL DEF PasskeySafety
-----------------------------------------------------------------------------
\* Where a request can be; and no counter counts more than is told apart.
GuardStates ==
    [pc : {"out", "shed", "box", "hit", "expire", "undo", "deny", "denyexpire", "denyundo",
           "punish", "refused", "in"},
     at : DOMAIN Dimensions, ceiling : {Ceiling, PenaltyCeiling}]

CountsOK ==
    /\ counter \in [Counters -> [n : Nat, ttl : BOOLEAN]]
    /\ \A k \in Counters : counter[k].n <= Most(k)

\* What is done to one counter keeps it within what is told apart.
LEMMA CounterTypes ==
    ASSUME CountsOK, NEW k \in Counters,
           \/ Counted(k) \/ LivesShortly(k) \/ UNCHANGED counter
           \/ counter' = [counter EXCEPT ![k] = NoCounter]
    PROVE  CountsOK'
<1> DEFINE C == [n : Nat, ttl : BOOLEAN]
<1>1. \A q \in Counters : Most(q) \in Nat
  BY TrafficAssumption DEF Most
<1>2. counter \in [Counters -> C] /\ \A q \in Counters : counter[q].n <= Most(q)
  BY DEF CountsOK
<1>3. \A c \in C, n \in Nat : [c EXCEPT !.n = n] \in C /\ [c EXCEPT !.n = n].n = n
  OBVIOUS
<1>4. \A c \in C, b \in BOOLEAN : [c EXCEPT !.ttl = b] \in C /\ [c EXCEPT !.ttl = b].n = c.n
  OBVIOUS
<1>5. NoCounter \in C /\ NoCounter.n = 0
  BY DEF NoCounter
<1>6. counter[k].n \in Nat /\ counter[k].ttl \in BOOLEAN
  BY <1>2
<1>7. ASSUME NEW c \in C, c.n <= Most(k), counter' = [counter EXCEPT ![k] = c]
      PROVE  CountsOK'
  <2> HIDE DEF C
  <2>1. counter' \in [Counters -> C] /\ \A q \in Counters : counter'[q] = IF q = k THEN c ELSE counter[q]
    BY <1>2, <1>7
  <2>2. \A q \in Counters : counter'[q].n <= Most(q)
    BY <1>2, <1>7, <2>1
  <2> QED BY <2>1, <2>2 DEF CountsOK, C
<1>8. CASE Counted(k)
  <2> DEFINE n == IF counter[k].n < Most(k) THEN counter[k].n + 1 ELSE counter[k].n
             c == [counter[k] EXCEPT !.n = n]
  <2>1. n \in Nat /\ n <= Most(k)
    BY <1>1, <1>2, <1>6
  <2>2. counter' = [counter EXCEPT ![k] = c]
    BY <1>2, <1>8 DEF Counted
  <2> HIDE DEF n
  <2>3. c \in C /\ c.n <= Most(k)
    BY <1>2, <1>3, <2>1
  <2> QED BY <1>7, <2>2, <2>3
<1>9. CASE LivesShortly(k)
  <2> DEFINE b == counter[k].ttl \/ counter[k].n > 0
             c == [counter[k] EXCEPT !.ttl = b]
  <2>1. b \in BOOLEAN
    OBVIOUS
  <2>2. counter' = [counter EXCEPT ![k] = c]
    BY <1>2, <1>9 DEF LivesShortly
  <2>3. counter[k] \in C
    BY <1>2
  <2>4. c \in C /\ c.n = counter[k].n
    BY <2>3
  <2> HIDE DEF c
  <2> QED BY <1>2, <1>7, <2>2, <2>4
<1>10. CASE UNCHANGED counter
  BY <1>10 DEF CountsOK
<1>11. CASE counter' = [counter EXCEPT ![k] = NoCounter]
  <2>1. NoCounter.n <= Most(k)
    BY <1>1, <1>5
  <2> HIDE DEF C
  <2> QED BY <1>5, <1>7, <1>11, <2>1
<1> QED BY <1>8, <1>9, <1>10, <1>11

\* Where a request can go.
LEMMA GuardTypes ==
    ASSUME guarded \in [TrafficRequests -> GuardStates], NEW r \in TrafficRequests
    PROVE  /\ Outside \in GuardStates
           /\ \A pc \in {"out", "shed", "box", "hit", "expire", "undo", "deny", "denyexpire",
                         "denyundo", "punish", "refused", "in"} :
                GuardGoes(r, pc) => guarded' \in [TrafficRequests -> GuardStates]
           /\ PassTo(r) => guarded' \in [TrafficRequests -> GuardStates]
<1>1. 1 \in DOMAIN Dimensions /\ DOMAIN Dimensions = 1..Len(Dimensions) /\ Len(Dimensions) \in Nat
  BY DimensionsAssumption
<1>2. Outside \in GuardStates
  BY <1>1 DEF Outside, GuardStates
<1>3. \A g \in GuardStates : \A pc \in {"out", "shed", "box", "hit", "expire", "undo", "deny",
          "denyexpire", "denyundo", "punish", "refused", "in"} : [g EXCEPT !.pc = pc] \in GuardStates
  BY DEF GuardStates
<1>4. guarded[r].at \in 1..Len(Dimensions)
  BY <1>1 DEF GuardStates
<1>5. guarded[r].at < Len(Dimensions) =>
        [Outside EXCEPT !.pc = "box", !.at = guarded[r].at + 1] \in GuardStates
  <2> SUFFICES ASSUME guarded[r].at < Len(Dimensions)
               PROVE  [Outside EXCEPT !.pc = "box", !.at = guarded[r].at + 1] \in GuardStates
    OBVIOUS
  <2>1. guarded[r].at + 1 \in DOMAIN Dimensions
    BY <1>1, <1>4
  <2>2. \A d \in DOMAIN Dimensions : [Outside EXCEPT !.pc = "box", !.at = d] \in GuardStates
    BY <1>2 DEF GuardStates
  <2> QED BY <2>1, <2>2
<1>6. ASSUME PassTo(r)  PROVE guarded' \in [TrafficRequests -> GuardStates]
  <2> DEFINE g == IF guarded[r].at < Len(Dimensions)
                  THEN [Outside EXCEPT !.pc = "box", !.at = guarded[r].at + 1]
                  ELSE [guarded[r] EXCEPT !.pc = "in"]
  <2>1. g \in GuardStates
    BY <1>3, <1>5
  <2>2. guarded' = [guarded EXCEPT ![r] = g]
    BY <1>6 DEF PassTo
  <2> HIDE DEF g
  <2> QED BY <2>1, <2>2
<1>7. \A pc \in {"out", "shed", "box", "hit", "expire", "undo", "deny", "denyexpire",
                 "denyundo", "punish", "refused", "in"} :
        GuardGoes(r, pc) => guarded' \in [TrafficRequests -> GuardStates]
  <2> SUFFICES ASSUME NEW pc \in {"out", "shed", "box", "hit", "expire", "undo", "deny", "denyexpire",
                                  "denyundo", "punish", "refused", "in"}, GuardGoes(r, pc)
               PROVE  guarded' \in [TrafficRequests -> GuardStates]
    OBVIOUS
  <2>1. [guarded[r] EXCEPT !.pc = pc] \in GuardStates
    BY <1>3
  <2>2. guarded' = [guarded EXCEPT ![r] = [guarded[r] EXCEPT !.pc = pc]]
    BY DEF GuardGoes
  <2> QED BY <2>1, <2>2
<1> QED BY <1>2, <1>6, <1>7

\* The counters stay within what is told apart, and requests and the gauge
\* keep their types (middleware/ratelimit/ratelimit.go, traffic.go).
LEMMA TrafficTypes == TrafficSafety => []TrafficTypeOK
<1> DEFINE Guarded == guarded \in [TrafficRequests -> GuardStates]
<1>0. Outside \in GuardStates
  <2>1. 1 \in DOMAIN Dimensions
    BY DimensionsAssumption
  <2> QED BY <2>1 DEF Outside, GuardStates
<1>1. TrafficInit => TrafficTypeOK
  <2> SUFFICES ASSUME TrafficInit  PROVE TrafficTypeOK
    OBVIOUS
  <2>1. \A k \in Counters : Most(k) \in Nat
    BY TrafficAssumption DEF Most
  <2>2. guarded \in [TrafficRequests -> GuardStates]
    BY <1>0 DEF TrafficInit
  <2> QED BY <2>1, <2>2 DEF TrafficInit, TrafficTypeOK, NoCounter, GuardStates
<1>2. TrafficTypeOK /\ [TrafficNext]_trafficVars => TrafficTypeOK'
  <2> SUFFICES ASSUME TrafficTypeOK, [TrafficNext]_trafficVars  PROVE TrafficTypeOK'
    OBVIOUS
  <2>0. /\ CountsOK /\ guarded \in [TrafficRequests -> GuardStates]
        /\ penalty \in SUBSET DOMAIN Dimensions /\ inflight \in Int /\ orphaned \in SUBSET Counters
    BY DEF TrafficTypeOK, CountsOK, GuardStates
  <2>1. ASSUME CountsOK', guarded' \in [TrafficRequests -> GuardStates],
               penalty' \in SUBSET DOMAIN Dimensions, inflight' \in Int, orphaned' \in SUBSET Counters
        PROVE  TrafficTypeOK'
    BY <2>1 DEF TrafficTypeOK, CountsOK, GuardStates
  <2>2. UNCHANGED counter => CountsOK'
    BY <2>0 DEF CountsOK
  <2>3. ASSUME NEW r \in TrafficRequests
        PROVE  /\ <<"hits", guarded[r].at>> \in Counters /\ <<"denies", guarded[r].at>> \in Counters
               /\ guarded[r].at \in DOMAIN Dimensions
    BY <2>0 DEF Counters, GuardStates
  <2>4. ASSUME NEW k \in Counters, IncrTimesOut(k)  PROVE CountsOK' /\ orphaned' \in SUBSET Counters
    <3>1. CountsOK'
      BY <2>0, <2>4, CounterTypes DEF IncrTimesOut
    <3>2. orphaned' \in SUBSET Counters
      BY <2>0, <2>4 DEF IncrTimesOut
    <3> QED BY <3>1, <3>2
  <2>5. ASSUME NEW k \in Counters, Undo(k)  PROVE CountsOK' /\ orphaned' \in SUBSET Counters
    <3>1. CountsOK'
      BY <2>0, <2>5, CounterTypes DEF Undo
    <3>2. orphaned' \in SUBSET Counters
      BY <2>0, <2>5 DEF Undo
    <3> QED BY <3>1, <3>2
  <2>6. ASSUME NEW r \in TrafficRequests, EnterGuard(r)  PROVE TrafficTypeOK'
    <3>1. \A pc \in {"shed", "box"} : [Outside EXCEPT !.pc = pc] \in GuardStates
      BY <1>0 DEF GuardStates
    <3>2. guarded' \in [TrafficRequests -> GuardStates]
      BY <2>0, <2>6, <3>1 DEF EnterGuard
    <3> QED BY <2>0, <2>1, <2>2, <2>6, <3>2 DEF EnterGuard
  <2>7. ASSUME NEW r \in TrafficRequests, LeaveGuard(r)  PROVE TrafficTypeOK'
    <3>1. guarded' \in [TrafficRequests -> GuardStates]
      BY <2>0, <2>7, GuardTypes DEF LeaveGuard
    <3> QED BY <2>0, <2>1, <2>2, <2>7, <3>1 DEF LeaveGuard
  <2>8. ASSUME NEW r \in TrafficRequests, LookUpPenalty(r)  PROVE TrafficTypeOK'
    <3>1. \A g \in GuardStates, c \in {Ceiling, PenaltyCeiling} :
            [g EXCEPT !.pc = "hit", !.ceiling = c] \in GuardStates
      BY DEF GuardStates
    <3>2. PICK c \in {Ceiling, PenaltyCeiling} :
            guarded' = [guarded EXCEPT ![r].pc = "hit", ![r].ceiling = c]
      BY <2>8, Zenon DEF LookUpPenalty
    <3>3. guarded' \in [TrafficRequests -> GuardStates]
      BY <2>0, <3>1, <3>2
    <3> QED BY <2>0, <2>1, <2>2, <2>8, <3>3 DEF LookUpPenalty
  <2>9. ASSUME NEW r \in TrafficRequests, Hit(r)  PROVE TrafficTypeOK'
    <3>1. guarded' \in [TrafficRequests -> GuardStates]
      BY <2>0, <2>9, GuardTypes DEF Hit, JudgeHit
    <3>2. CountsOK' /\ orphaned' \in SUBSET Counters
      BY <2>0, <2>3, <2>4, <2>9, CounterTypes DEF Hit
    <3> QED BY <2>0, <2>1, <2>9, <3>1, <3>2 DEF Hit
  <2>10. ASSUME NEW r \in TrafficRequests, ExpireHit(r)  PROVE TrafficTypeOK'
    <3>1. guarded' \in [TrafficRequests -> GuardStates]
      BY <2>0, <2>10, GuardTypes DEF ExpireHit, JudgeHit
    <3>2. CountsOK'
      BY <2>0, <2>3, <2>10, CounterTypes DEF ExpireHit
    <3> QED BY <2>0, <2>1, <2>10, <3>1, <3>2 DEF ExpireHit
  <2>11. ASSUME NEW r \in TrafficRequests, UndoHit(r) \/ UndoDeny(r)  PROVE TrafficTypeOK'
    <3>1. guarded' \in [TrafficRequests -> GuardStates]
      BY <2>0, <2>11, GuardTypes DEF UndoHit, UndoDeny
    <3>2. CountsOK' /\ orphaned' \in SUBSET Counters
      BY <2>3, <2>5, <2>11 DEF UndoHit, UndoDeny
    <3> QED BY <2>0, <2>1, <2>11, <3>1, <3>2 DEF UndoHit, UndoDeny
  <2>12. ASSUME NEW r \in TrafficRequests, Deny(r)  PROVE TrafficTypeOK'
    <3>1. guarded' \in [TrafficRequests -> GuardStates]
      BY <2>0, <2>12, GuardTypes DEF Deny, JudgeDeny
    <3>2. CountsOK' /\ orphaned' \in SUBSET Counters
      BY <2>0, <2>3, <2>4, <2>12, CounterTypes DEF Deny
    <3> QED BY <2>0, <2>1, <2>12, <3>1, <3>2 DEF Deny
  <2>13. ASSUME NEW r \in TrafficRequests, ExpireDeny(r)  PROVE TrafficTypeOK'
    <3>1. guarded' \in [TrafficRequests -> GuardStates]
      BY <2>0, <2>13, GuardTypes DEF ExpireDeny, JudgeDeny
    <3>2. CountsOK'
      BY <2>0, <2>3, <2>13, CounterTypes DEF ExpireDeny
    <3> QED BY <2>0, <2>1, <2>13, <3>1, <3>2 DEF ExpireDeny
  <2>14. ASSUME NEW r \in TrafficRequests, ApplyPenalty(r)  PROVE TrafficTypeOK'
    <3>1. guarded' \in [TrafficRequests -> GuardStates]
      BY <2>0, <2>14, GuardTypes DEF ApplyPenalty
    <3>2. penalty' \in SUBSET DOMAIN Dimensions
      <4>1. guarded[r].at \in DOMAIN Dimensions
        BY <2>3
      <4>2. penalty' \in {penalty, penalty \union {guarded[r].at}}
        BY <2>14 DEF ApplyPenalty
      <4> QED BY <2>0, <4>1, <4>2
    <3> QED BY <2>0, <2>1, <2>2, <2>14, <3>1, <3>2 DEF ApplyPenalty
  <2>15. ASSUME NEW k \in Counters, ExpireCounter(k)  PROVE TrafficTypeOK'
    <3>1. CountsOK'
      BY <2>0, <2>15, CounterTypes DEF ExpireCounter
    <3> QED BY <2>0, <2>1, <2>15, <3>1 DEF ExpireCounter
  <2>16. ASSUME NEW d \in penalty, ExpirePenalty(d)  PROVE TrafficTypeOK'
    BY <2>0, <2>1, <2>2, <2>16 DEF ExpirePenalty
  <2>17. CASE ApiDies
    <3>1. guarded' \in [TrafficRequests -> GuardStates]
      BY <1>0, <2>17 DEF ApiDies
    <3> QED BY <2>0, <2>1, <2>2, <2>17, <3>1 DEF ApiDies
  <2>18. CASE UNCHANGED trafficVars
    BY <2>0, <2>1, <2>2, <2>18 DEF trafficVars
  <2> QED BY <2>6, <2>7, <2>8, <2>9, <2>10, <2>11, <2>12, <2>13, <2>14, <2>15, <2>16, <2>17, <2>18
      DEF TrafficNext
<1> QED BY <1>1, <1>2, PTL DEF TrafficSafety
-----------------------------------------------------------------------------
\* Where a worker can be.
JobPcs == {"idle", "download", "cover", "video", "ready", "failed", "clean", "ack"}
Jobs == [pc : JobPcs, t : MediaTasks \union {NoTask}, owns : BOOLEAN]

\* A worker that is not idle has a task, and one that holds a message is not
\* idle.
JobsOK ==
    /\ job \in [MediaWorkers -> Jobs]
    /\ \A w \in MediaWorkers : /\ job[w].pc # "idle" => job[w].t \in MediaTasks
                               /\ job[w].owns => job[w].pc # "idle"

MediaTyped == MediaTypeOK /\ JobsOK

\* A worker goes on, becomes idle, or loses its message.
LEMMA JobTypes ==
    ASSUME JobsOK, NEW w \in MediaWorkers
    PROVE  /\ \A pc \in JobPcs \ {"idle"} : job[w].pc # "idle" /\ JobStep(w, pc) => JobsOK'
           /\ job' = [job EXCEPT ![w] = JobIdle] => JobsOK'
           /\ job' = [job EXCEPT ![w].owns = FALSE] => JobsOK'
<1>1. /\ job \in [MediaWorkers -> Jobs]
      /\ \A v \in MediaWorkers : /\ job[v].pc # "idle" => job[v].t \in MediaTasks
                                 /\ job[v].owns => job[v].pc # "idle"
  BY DEF JobsOK
<1>2. ASSUME NEW j \in Jobs, job' = [job EXCEPT ![w] = j], j.pc # "idle" => j.t \in MediaTasks,
             j.owns => j.pc # "idle"
      PROVE  JobsOK'
  BY <1>1, <1>2 DEF JobsOK
<1>3. \A j \in Jobs : job' = [job EXCEPT ![w] = j] /\ (j.pc # "idle" => j.t \in MediaTasks)
                      /\ (j.owns => j.pc # "idle") => JobsOK'
  BY <1>2
<1>4. JobIdle \in Jobs /\ JobIdle.pc = "idle" /\ ~JobIdle.owns
  BY DEF JobIdle, Jobs, JobPcs
<1>5. ASSUME NEW pc \in JobPcs \ {"idle"}, job[w].pc # "idle", JobStep(w, pc)  PROVE JobsOK'
  <2> DEFINE j == [job[w] EXCEPT !.pc = pc]
  <2>1. j \in Jobs /\ j.pc = pc /\ j.t = job[w].t
    BY <1>1 DEF Jobs
  <2>2. job' = [job EXCEPT ![w] = j]
    BY <1>5 DEF JobStep
  <2> HIDE DEF j
  <2> QED BY <1>1, <1>3, <1>5, <2>1, <2>2
<1>6. ASSUME job' = [job EXCEPT ![w].owns = FALSE]  PROVE JobsOK'
  <2> DEFINE j == [job[w] EXCEPT !.owns = FALSE]
  <2>1. j \in Jobs /\ j.pc = job[w].pc /\ j.t = job[w].t /\ ~j.owns
    BY <1>1 DEF Jobs
  <2>2. job' = [job EXCEPT ![w] = j]
    BY <1>6
  <2> HIDE DEF j
  <2> QED BY <1>1, <1>3, <2>1, <2>2
<1> QED BY <1>3, <1>4, <1>5, <1>6

\* Uploads, tasks, objects and workers keep their types: no worker settles a
\* task it does not have (worker/media_worker.go, video/media_task.go).
LEMMA MediaTypes == MediaSafety => []MediaTypeOK
<1>1. MediaInit => MediaTyped
  BY MaxTranscodeEventsAssumption DEF MediaInit, MediaTyped, MediaTypeOK, JobIdle, JobsOK, Jobs, JobPcs
<1>2. MediaTyped /\ [MediaNext]_mediaVars => MediaTyped'
  <2> SUFFICES ASSUME MediaTyped, [MediaNext]_mediaVars  PROVE MediaTyped'
    OBVIOUS
  <2>0. /\ upload \in [MediaTasks -> {"none", "open", "assembled", "closed"}]
        /\ source \in SUBSET MediaTasks
        /\ task \in [MediaTasks -> {"none", "processing", "ready", "failed"}]
        /\ mediaQueue \in [MediaTasks -> Nat] /\ mediaSent \in [MediaTasks -> 0..MaxTranscodeEvents]
        /\ mediaSeen \in SUBSET MediaTasks /\ mediaDead \in SUBSET MediaTasks
        /\ objects \in [MediaTasks -> SUBSET {"cover", "video"}]
        /\ published \in SUBSET MediaTasks /\ overlapped \in SUBSET MediaTasks /\ JobsOK
    BY DEF MediaTyped, MediaTypeOK
  <2>1. ASSUME UNCHANGED job  PROVE JobsOK'
    BY <2>0, <2>1 DEF JobsOK
  <2>2. ASSUME upload' \in [MediaTasks -> {"none", "open", "assembled", "closed"}],
               source' \in SUBSET MediaTasks,
               task' \in [MediaTasks -> {"none", "processing", "ready", "failed"}],
               mediaQueue' \in [MediaTasks -> Nat], mediaSent' \in [MediaTasks -> 0..MaxTranscodeEvents],
               mediaSeen' \in SUBSET MediaTasks, mediaDead' \in SUBSET MediaTasks,
               objects' \in [MediaTasks -> SUBSET {"cover", "video"}],
               published' \in SUBSET MediaTasks, overlapped' \in SUBSET MediaTasks, JobsOK'
        PROVE  MediaTyped'
    BY <2>2 DEF MediaTyped, MediaTypeOK, JobsOK, Jobs, JobPcs
  <2>3. \A w \in MediaWorkers : /\ job[w].pc # "idle" => job[w].t \in MediaTasks
                                /\ job[w].owns => job[w].t \in MediaTasks
    BY <2>0 DEF JobsOK
  <2> USE DEF uploadVars, taskVars, brokerVars
  <2>4. ASSUME NEW t \in MediaTasks,
               InitMultipart(t) \/ AssembleUpload(t) \/ EnqueueVideoTask(t) \/ RejectUpload(t) \/ PublishMedia(t)
               \/ PublishTranscode(t)
        PROVE  MediaTyped'
    <3>1. JobsOK'
      BY <2>1, <2>4 DEF InitMultipart, AssembleUpload, EnqueueVideoTask, RejectUpload, PublishMedia,
                          PublishTranscode
    <3>2. CASE InitMultipart(t)
      BY <2>0, <2>2, <3>1, <3>2 DEF InitMultipart, Uploaded
    <3>3. CASE AssembleUpload(t)
      BY <2>0, <2>2, <3>1, <3>3 DEF AssembleUpload, Uploaded
    <3>4. CASE EnqueueVideoTask(t)
      BY <2>0, <2>2, <3>1, <3>4 DEF EnqueueVideoTask, Uploaded
    <3>5. CASE RejectUpload(t)
      BY <2>0, <2>2, <3>1, <3>5 DEF RejectUpload, Uploaded
    <3>6. CASE PublishMedia(t)
      BY <2>0, <2>2, <3>1, <3>6 DEF PublishMedia
    <3>7. CASE PublishTranscode(t)
      <4>1. mediaQueue' \in [MediaTasks -> Nat]
        BY <2>0, <3>7 DEF PublishTranscode
      <4>2. mediaSent' \in [MediaTasks -> 0..MaxTranscodeEvents]
        <5>1. mediaSent[t] + 1 \in 0..MaxTranscodeEvents
          BY <2>0, <3>7, MaxTranscodeEventsAssumption DEF PublishTranscode
        <5> QED BY <2>0, <3>7, <5>1 DEF PublishTranscode
      <4> QED BY <2>0, <2>2, <3>1, <3>7, <4>1, <4>2 DEF PublishTranscode
    <3> QED BY <2>4, <3>2, <3>3, <3>4, <3>5, <3>6, <3>7
  <2>5. ASSUME NEW w \in MediaWorkers, NEW t \in MediaTasks, ReceiveTask(w, t)
         PROVE  mediaQueue' \in [MediaTasks -> Nat]
    <3>1. mediaQueue[t] - 1 \in Nat
      BY <2>0, <2>5 DEF ReceiveTask
    <3> QED BY <2>0, <2>5, <3>1 DEF ReceiveTask
  <2>6. ASSUME NEW w \in MediaWorkers, NEW t \in MediaTasks, TakeTask(w, t)  PROVE MediaTyped'
    <3>1. PICK pc \in {"download", "ack"} : StartJob(w, t, pc)
      BY <2>6 DEF TakeTask, BeginTask
    <3>2. overlapped' \in SUBSET MediaTasks
      BY <2>0, <2>6 DEF TakeTask, BeginTask
    <3> DEFINE j == [pc |-> pc, t |-> t, owns |-> TRUE]
    <3>3. j \in Jobs /\ j.pc # "idle" /\ j.t = t
      BY DEF Jobs, JobPcs
    <3>4. job' = [job EXCEPT ![w] = j]
      BY <3>1 DEF StartJob
    <3> HIDE DEF j
    <3>5. JobsOK'
      BY <2>0, <3>3, <3>4 DEF JobsOK
    <3>6. mediaQueue' \in [MediaTasks -> Nat]
      BY <2>6, <2>5 DEF TakeTask
    <3> QED BY <2>0, <2>2, <2>6, <3>2, <3>5, <3>6 DEF TakeTask, ReceiveTask
  <2>7. ASSUME NEW w \in MediaWorkers, NEW t \in MediaTasks, RefuseTask(w, t)  PROVE MediaTyped'
    <3>1. mediaQueue' \in [MediaTasks -> Nat] /\ JobsOK'
      BY <2>1, <2>7, <2>5 DEF RefuseTask
    <3> QED BY <2>0, <2>2, <2>7, <3>1 DEF RefuseTask, ReceiveTask
  <2>8. ASSUME NEW w \in MediaWorkers, GiveBack(w)  PROVE mediaQueue' \in [MediaTasks -> Nat]
    <3>1. job[w].owns => mediaQueue[job[w].t] + 1 \in Nat
      BY <2>0, <2>3
    <3> QED BY <2>0, <2>8, <3>1 DEF GiveBack
  <2>9. ASSUME NEW w \in MediaWorkers, Transcode(w) \/ UploadCover(w) \/ UploadVideo(w) \/ ProcessFails(w)
                                       \/ SettleTask(w) \/ RemoveSource(w)
        PROVE  JobsOK' /\ job[w].t \in MediaTasks
    <3>1. \E pc \in JobPcs \ {"idle"} : job[w].pc # "idle" /\ JobStep(w, pc)
      BY <2>9 DEF Transcode, UploadCover, UploadVideo, ProcessFails, SettleTask, RemoveSource, JobPcs
    <3> QED BY <2>0, <2>3, <3>1, JobTypes
  <2>10. ASSUME NEW w \in MediaWorkers, Transcode(w)  PROVE MediaTyped'
    BY <2>0, <2>2, <2>9, <2>10 DEF Transcode
  <2>11. ASSUME NEW w \in MediaWorkers, UploadCover(w) \/ UploadVideo(w)  PROVE MediaTyped'
    <3>1. objects' \in [MediaTasks -> SUBSET {"cover", "video"}]
      BY <2>0, <2>9, <2>11 DEF UploadCover, UploadVideo, PutObject
    <3> QED BY <2>0, <2>2, <2>9, <2>11, <3>1 DEF UploadCover, UploadVideo
  <2>12. ASSUME NEW w \in MediaWorkers, ProcessFails(w)  PROVE MediaTyped'
    <3>1. objects' \in [MediaTasks -> SUBSET {"cover", "video"}]
      BY <2>0, <2>9, <2>12 DEF ProcessFails
    <3> QED BY <2>0, <2>2, <2>9, <2>12, <3>1 DEF ProcessFails
  <2>13. ASSUME NEW w \in MediaWorkers, SettleTask(w)  PROVE MediaTyped'
    <3>1. task' \in [MediaTasks -> {"none", "processing", "ready", "failed"}]
      BY <2>0, <2>9, <2>13 DEF SettleTask
    <3>2. mediaSeen' \in SUBSET MediaTasks
      BY <2>0, <2>9, <2>13 DEF SettleTask
    <3> QED BY <2>0, <2>2, <2>9, <2>13, <3>1, <3>2 DEF SettleTask
  <2>14. ASSUME NEW w \in MediaWorkers, RemoveSource(w)  PROVE MediaTyped'
    BY <2>0, <2>2, <2>9, <2>14 DEF RemoveSource
  <2>15. ASSUME NEW w \in MediaWorkers, NackTask(w) \/ AckTask(w) \/ MediaCrash(w)  PROVE MediaTyped'
    <3>1. JobsOK' /\ job[w].t \in MediaTasks
      BY <2>0, <2>3, <2>15, JobTypes DEF NackTask, AckTask, MediaCrash
    <3>2. CASE NackTask(w) \/ AckTask(w)
      BY <2>0, <2>2, <3>1, <3>2 DEF NackTask, AckTask
    <3>3. CASE MediaCrash(w)
      <4>1. mediaQueue' \in [MediaTasks -> Nat]
        BY <2>8, <3>3 DEF MediaCrash
      <4> QED BY <2>0, <2>2, <3>1, <3>3, <4>1 DEF MediaCrash
    <3> QED BY <2>15, <3>2, <3>3
  <2>16. ASSUME NEW w \in MediaWorkers, LoseMediaChannel(w)  PROVE MediaTyped'
    <3>1. JobsOK' /\ job[w].t \in MediaTasks
      BY <2>0, <2>3, <2>16, JobTypes DEF LoseMediaChannel
    <3>2. mediaQueue' \in [MediaTasks -> Nat]
      BY <2>16, <2>8 DEF LoseMediaChannel
    <3> QED BY <2>0, <2>2, <2>16, <3>1, <3>2 DEF LoseMediaChannel
  <2>17. CASE UNCHANGED mediaVars
    BY <2>0, <2>1, <2>2, <2>17 DEF mediaVars
  <2> QED BY <2>4, <2>6, <2>10, <2>11, <2>12, <2>13, <2>14, <2>15, <2>16, <2>17, <2>7 DEF MediaNext
<1>3. MediaTyped => MediaTypeOK
  BY DEF MediaTyped
<1> QED BY <1>1, <1>2, <1>3, PTL DEF MediaSafety
-----------------------------------------------------------------------------
(* The types of the publish page, and how far its numbers go.               *)

\* The first numbers are as many as the last of them says.
LEMMA FirstNumbers == \A n \in Nat : IsFiniteSet(1..n) /\ Cardinality(1..n) = n
<1> SUFFICES ASSUME NEW n \in Nat  PROVE IsFiniteSet(1..n) /\ Cardinality(1..n) = n
  OBVIOUS
<1>1. /\ IsFiniteSet(1..n)
      /\ Cardinality(1..n) = IF 1 > n THEN 0 ELSE n - 1 + 1
  BY FS_Interval
<1> QED BY <1>1

\* A list of requests has as many as there are of either kind.
LEMMA CountsAll ==
    ASSUME NEW ps, Posts(ps)
    PROVE  /\ \A op : Of(op, ps) \in Nat
           /\ Of("draft", ps) + Of("publish", ps) = Len(ps)
<1> DEFINE S(op) == {i \in DOMAIN ps : ps[i].op = op}
<1>1. Len(ps) \in Nat /\ DOMAIN ps = 1..Len(ps) /\ \A i \in 1..Len(ps) : ps[i].op \in {"draft", "publish"}
  BY PostsAre DEF Post
<1>2. IsFiniteSet(1..Len(ps)) /\ Cardinality(1..Len(ps)) = Len(ps)
  BY <1>1, FirstNumbers
<1>3. \A op : S(op) \in SUBSET (1..Len(ps))
  BY <1>1
<1>4. \A op : Of(op, ps) = Cardinality(S(op))
  BY DEF Of
<1>5. S("draft") \union S("publish") = 1..Len(ps) /\ S("draft") \cap S("publish") = {}
  BY <1>1
<1> HIDE DEF S
<1>6. \A op : IsFiniteSet(S(op)) /\ Cardinality(S(op)) \in Nat
  BY <1>2, <1>3, FS_Subset, FS_CardinalityType
<1>7. Cardinality(S("draft") \union S("publish")) =
        Cardinality(S("draft")) + Cardinality(S("publish")) - Cardinality(S("draft") \cap S("publish"))
  BY <1>6, FS_Union
<1>8. Cardinality({}) = 0
  BY FS_EmptySet
<1>9. /\ Cardinality(S("draft")) \in Nat /\ Cardinality(S("publish")) \in Nat
      /\ Len(ps) = Cardinality(S("draft")) + Cardinality(S("publish")) - 0
  BY <1>2, <1>5, <1>6, <1>7, <1>8
<1>10. Len(ps) = Cardinality(S("draft")) + Cardinality(S("publish"))
  BY <1>9
<1> QED BY <1>4, <1>6, <1>10

\* They are as many while no request is added.
LEMMA CountsSame ==
    ASSUME NEW ps, Posts(ps), NEW qs, Posts(qs), Len(qs) = Len(ps),
           \A i \in 1..Len(ps) : qs[i].op = ps[i].op
    PROVE  \A op : Of(op, qs) = Of(op, ps)
<1>1. DOMAIN ps = 1..Len(ps) /\ DOMAIN qs = 1..Len(ps)
  BY PostsAre
<1>2. \A op : {i \in DOMAIN qs : qs[i].op = op} = {i \in DOMAIN ps : ps[i].op = op}
  BY <1>1
<1> QED BY <1>2 DEF Of

\* A request more is one of its kind.
LEMMA CountsGrow ==
    ASSUME NEW ps, Posts(ps), NEW qs, Posts(qs), Len(qs) = Len(ps) + 1,
           \A i \in 1..Len(ps) : qs[i].op = ps[i].op
    PROVE  \A op : Of(op, qs) = IF qs[Len(qs)].op = op THEN Of(op, ps) + 1 ELSE Of(op, ps)
<1> SUFFICES ASSUME NEW op
             PROVE  Of(op, qs) = IF qs[Len(qs)].op = op THEN Of(op, ps) + 1 ELSE Of(op, ps)
  OBVIOUS
<1> DEFINE S == {i \in DOMAIN ps : ps[i].op = op}
           T == {i \in DOMAIN qs : qs[i].op = op}
           n == Len(ps) + 1
<1>1. Len(ps) \in Nat /\ DOMAIN ps = 1..Len(ps) /\ DOMAIN qs = 1..(Len(ps) + 1)
  BY PostsAre
<1>2. S \in SUBSET (1..Len(ps)) /\ Of(op, ps) = Cardinality(S) /\ Of(op, qs) = Cardinality(T)
  BY <1>1 DEF Of
<1>3. n \notin S
  BY <1>1
<1>4. IsFiniteSet(S)
  BY <1>1, <1>2, FirstNumbers, FS_Subset
<1>5. CASE qs[n].op = op
  <2>1. T = S \union {n}
    BY <1>1, <1>5
  <2>2. n = Len(qs)
    OBVIOUS
  <2> HIDE DEF S, T, n
  <2>3. Cardinality(S \union {n}) = Cardinality(S) + 1
    BY <1>3, <1>4, FS_AddElement
  <2> QED BY <1>2, <1>5, <2>1, <2>2, <2>3
<1>6. CASE qs[n].op # op
  <2>1. T = S
    BY <1>1, <1>6
  <2> QED BY <1>2, <1>6, <2>1
<1> QED BY <1>5, <1>6
-----------------------------------------------------------------------------
\* A request names who waits for it, and a form, a file, a key and rows that
\* there are.
PostBounded(q) ==
    /\ q.by \in {User, OnLeave} \union Runs /\ q.key <= Len(posts)
    /\ q.form <= MaxForms /\ q.file <= MaxRuns /\ q.draft <= Len(works) /\ q.row <= Len(works)

PageBounds ==
    /\ forms <= MaxForms /\ composer.draft <= Len(works) /\ composer.key <= Len(posts)
    /\ Of("draft", posts) <= MaxSaves /\ Of("publish", posts) <= MaxPublishes
    /\ 1 <= Len(works) /\ \A w \in 1..Len(works) : works[w].media <= Stored
    /\ \A i \in 1..Len(posts) : PostBounded(posts[i])

\* The same request, but for who has answered it.
SameRequest(q, p) ==
    q.op = p.op /\ q.by = p.by /\ q.key = p.key /\ q.form = p.form /\ q.file = p.file /\ q.draft = p.draft

\* A step that sends nothing.
LEMMA BoundsStay ==
    ASSUME PageInv, PageInv', PageBounds, forms' <= MaxForms,
           composer'.draft <= Len(works'), composer'.key <= Len(posts), Len(works) <= Len(works'),
           \A w \in 1..Len(works') : works'[w].media <= Stored, Len(posts') = Len(posts),
           \A i \in 1..Len(posts) : SameRequest(posts'[i], posts[i]) /\ posts'[i].row <= Len(works')
    PROVE  PageBounds'
<1>1. Posts(posts) /\ Posts(posts') /\ Len(works) \in Nat /\ Len(works') \in Nat
  BY DEF PageInv, PageTypes, WorkList
<1>2. Of("draft", posts') = Of("draft", posts) /\ Of("publish", posts') = Of("publish", posts)
  BY <1>1, CountsSame DEF SameRequest
<1>3. ASSUME NEW i \in 1..Len(posts)  PROVE PostBounded(posts[i])'
  <2>1. posts[i].draft \in Nat /\ PostBounded(posts[i]) /\ SameRequest(posts'[i], posts[i])
    BY <1>1, PostsAre DEF PageBounds, Post
  <2> QED BY <1>1, <2>1 DEF PostBounded, SameRequest
<1>4. 1 <= Len(works')
  BY <1>1 DEF PageBounds
<1> QED BY <1>2, <1>3, <1>4 DEF PageBounds

\* A step that sends one request.
LEMMA BoundsGrow ==
    ASSUME PageInv, PageInv', PageBounds, forms' = forms, works' = works,
           NEW ps, Posts(ps), Len(ps) = Len(posts),
           \A i \in 1..Len(posts) : SameRequest(ps[i], posts[i]) /\ ps[i].row = posts[i].row,
           NEW q \in Post, posts' = Append(ps, q),
           composer'.draft <= Len(works), composer'.key <= Len(ps) + 1,
           q.by \in {User, OnLeave} \union Runs, q.key <= Len(ps) + 1, q.form <= MaxForms,
           q.file <= MaxRuns, q.draft <= Len(works), q.row = 0,
           q.op = "draft" => Of("draft", ps) < MaxSaves,
           q.op = "publish" => Of("publish", ps) < MaxPublishes
    PROVE  PageBounds'
<1>1. /\ Posts(posts) /\ Posts(posts') /\ Len(works) \in Nat /\ Len(posts) \in Nat
      /\ Len(posts') = Len(posts) + 1 /\ posts'[Len(posts')] = q
      /\ \A i \in 1..Len(posts) : posts'[i] = ps[i]
  <2>1. Posts(posts) /\ Posts(posts') /\ Len(works) \in Nat
    BY DEF PageInv, PageTypes, WorkList
  <2>2. Len(posts) \in Nat
    BY <2>1, PostsAre
  <2>3. /\ Len(posts') = Len(posts) + 1 /\ posts'[Len(posts')] = q
        /\ \A i \in 1..Len(posts) : posts'[i] = ps[i]
    BY <2>2, OnePostMore
  <2> QED BY <2>1, <2>2, <2>3
<1>2. \A op : Of(op, ps) = Of(op, posts) /\ Of(op, posts) \in Nat
  BY <1>1, CountsSame, CountsAll DEF SameRequest
<1>3. \A op : Of(op, posts') = IF q.op = op THEN Of(op, posts) + 1 ELSE Of(op, posts)
  <2>1. \A i \in 1..Len(posts) : posts'[i].op = posts[i].op
    BY <1>1 DEF SameRequest
  <2>2. Posts(posts) /\ Posts(posts') /\ Len(posts') = Len(posts) + 1
    BY <1>1
  <2>3. ASSUME NEW rs, Posts(rs), Len(rs) = Len(posts) + 1,
               \A i \in 1..Len(posts) : rs[i].op = posts[i].op
        PROVE  \A op : Of(op, rs) = IF rs[Len(rs)].op = op THEN Of(op, posts) + 1 ELSE Of(op, posts)
    BY <2>2, <2>3, CountsGrow
  <2>4. \A op : Of(op, posts') =
           IF posts'[Len(posts')].op = op THEN Of(op, posts) + 1 ELSE Of(op, posts)
    BY <2>1, <2>2, <2>3, Zenon
  <2> QED BY <1>1, <2>4
<1>4. Of("draft", posts') <= MaxSaves /\ Of("publish", posts') <= MaxPublishes
  BY <1>2, <1>3, RequestsAssumption DEF PageBounds
<1>5. ASSUME NEW i \in 1..Len(posts')  PROVE PostBounded(posts[i])'
  <2>1. CASE i \in 1..Len(posts)
    <3>1. /\ posts[i].draft \in Nat /\ posts[i].key \in Nat /\ PostBounded(posts[i])
          /\ SameRequest(posts'[i], posts[i]) /\ posts'[i].row = posts[i].row
      BY <1>1, <2>1, PostsAre DEF PageBounds, Post
    <3> QED BY <1>1, <3>1 DEF PostBounded, SameRequest
  <2>2. CASE i = Len(posts')
    BY <1>1, <2>2 DEF PostBounded
  <2> QED BY <1>1, <2>1, <2>2
<1> QED BY <1>1, <1>4, <1>5 DEF PageBounds

\* commitPublish, whoever calls it and with whatever answers it knows.
LEMMA CommitBounds ==
    ASSUME PageInv, PageInv', PageBounds, NEW p \in Composers, NEW ps, Posts(ps), Len(ps) = Len(posts),
           \A i \in 1..Len(posts) : SameRequest(ps[i], posts[i]) /\ ps[i].row = posts[i].row,
           NEW by \in {User} \union Runs, NEW m \in Nat, Commit(p, ps, by, m),
           p.draft <= Len(works), p.key <= Len(posts), p.form <= MaxForms, p.file <= MaxRuns,
           forms' = forms, works' = works
    PROVE  PageBounds'
<1>1. /\ Len(posts) \in Nat /\ Len(works) \in Nat /\ \A i \in 1..Len(posts) : posts[i].row <= Len(works)
      /\ forms <= MaxForms /\ by \in Nat
  BY KnownTypes, StoredAssumption DEF WorkList, PageBounds, PostBounded, User, Runs
<1>2. ASSUME posts' = ps, composer'.draft = p.draft, composer'.key = p.key  PROVE PageBounds'
  BY <1>1, <1>2, BoundsStay DEF PageBounds
<1>3. CASE p.phase \in {"publishing", "done"}
  BY <1>2, <1>3 DEF Commit
<1>4. CASE p.phase \notin {"publishing", "done"} /\ p.form = 0
  <2>1. composer' = [p EXCEPT !.asked = FALSE] /\ posts' = ps
    BY <1>4 DEF Commit
  <2>2. composer'.draft = p.draft /\ composer'.key = p.key
    BY <2>1 DEF Composers
  <2> QED BY <1>2, <2>1, <2>2
<1>5. CASE p.phase \notin {"publishing", "done"} /\ p.form # 0
  <2> DEFINE key == IF p.key = 0 THEN NewKey(ps) ELSE p.key
             pm == [p EXCEPT !.key = key, !.ready = m]
             q == NewPost("publish", by, pm)
  <2>1. /\ composer' = [p EXCEPT !.phase = "publishing", !.key = key] /\ posts' = Append(ps, q)
        /\ Of("publish", ps) < MaxPublishes
    BY <1>5 DEF Commit
  <2>2. key \in Nat /\ key <= Len(ps) + 1
    BY <1>1 DEF NewKey, Composers
  <2> HIDE DEF key
  <2>3. /\ pm \in Composers /\ pm.form = p.form /\ pm.file = p.file /\ pm.draft = p.draft
        /\ pm.key = key /\ [pm EXCEPT !.key = key] = pm
    BY <2>2 DEF Composers
  <2>4. composer'.draft = p.draft /\ composer'.key = key
    BY <2>1 DEF Composers
  <2> HIDE DEF pm
  <2>5. q \in Post /\ q.op = "publish" /\ q.key = key /\ q.form = p.form /\ q.file = p.file
    BY <1>1, <2>2, <2>3, PublicationIsPost
  <2>6. q.by = by /\ q.draft = p.draft /\ q.row = 0
    BY <2>3 DEF NewPost
  <2> HIDE DEF q
  <2> QED BY <1>1, <2>1, <2>2, <2>4, <2>5, <2>6, BoundsGrow
<1> QED BY <1>3, <1>4, <1>5

\* persistDraft, whoever calls it.
LEMMA PersistBounds ==
    ASSUME PageInv, PageInv', PageBounds, NEW p \in Composers, NEW by \in {User, OnLeave} \union Runs,
           PersistDraft(p, by), p.draft <= Len(works), p.key <= Len(posts),
           forms' = forms, works' = works
    PROVE  PageBounds'
<1> DEFINE q == NewPost("draft", by, p)
<1>1. /\ Len(posts) \in Nat /\ Len(works) \in Nat /\ Posts(posts) /\ by \in Nat /\ p.key \in Nat
      /\ MaxForms \in Nat /\ MaxRuns \in Nat
  <2>1. Len(posts) \in Nat /\ Posts(posts) /\ WorkList(works)
    BY KnownTypes
  <2>2. Len(works) \in Nat
    BY <2>1 DEF WorkList
  <2>3. MaxForms \in Nat /\ MaxRuns \in Nat
    BY StoredAssumption, RequestsAssumption
  <2>4. by \in Nat /\ p.key \in Nat
    BY <2>3 DEF User, Runs, OnLeave, Composers
  <2> QED BY <2>1, <2>2, <2>3, <2>4
<1>2. /\ posts' = Append(posts, q) /\ composer' = [p EXCEPT !.saving = TRUE]
      /\ Of("draft", posts) < MaxSaves
  BY DEF PersistDraft
<1>3. q \in Post /\ q.op = "draft"
  BY <1>1, DraftIsPost
<1>4. /\ q.by = by /\ q.key = 0 /\ q.form = 0 /\ q.file = 0 /\ q.draft = p.draft /\ q.row = 0
  BY DEF NewPost
<1> HIDE DEF q
<1>5. composer'.draft = p.draft /\ composer'.key = p.key
  BY <1>2 DEF Composers
<1>6. \A i \in 1..Len(posts) : SameRequest(posts[i], posts[i])
  BY DEF SameRequest
<1> QED BY <1>1, <1>2, <1>3, <1>4, <1>5, <1>6, BoundsGrow

\* A step that leaves the requests and the rows.
LEMMA BoundsRest ==
    ASSUME PageInv, PageInv', PageBounds, posts' = posts, works' = works, forms' <= MaxForms,
           composer'.draft \in {0, 1, composer.draft}, composer'.key \in {0, composer.key}
    PROVE  PageBounds'
<1>1. Len(posts) \in Nat /\ Len(works) \in Nat /\ composer.draft <= Len(works) /\ composer.key <= Len(posts)
      /\ 1 <= Len(works)
  BY KnownTypes DEF WorkList, PageBounds
<1>2. \A i \in 1..Len(posts) : SameRequest(posts[i], posts[i]) /\ posts[i].row <= Len(works)
  BY DEF SameRequest, PageBounds, PostBounded
<1>3. composer'.draft <= Len(works) /\ composer'.key <= Len(posts)
  BY <1>1
<1>4. Len(works) <= Len(works)
  BY <1>1
<1> QED BY <1>2, <1>3, <1>4, BoundsStay DEF PageBounds

\* The page opens, the draft arrives, or the form is edited.
LEMMA LoadBounds ==
    ASSUME PageInv, PageInv', PageBounds, OpenPage \/ DraftLoaded \/ DraftNotLoaded \/ Edit
    PROVE  PageBounds'
<1>1. posts' = posts /\ works' = works /\ composer \in Composers /\ forms \in Nat /\ MaxForms \in Nat
  BY KnownTypes, RequestsAssumption DEF OpenPage, DraftLoaded, DraftNotLoaded, Edit
<1>2. forms' <= MaxForms
  BY <1>1 DEF OpenPage, DraftLoaded, DraftNotLoaded, Edit, PageBounds
<1>3. composer'.draft \in {0, 1, composer.draft} /\ composer'.key \in {0, composer.key}
  <2>1. CASE OpenPage \/ DraftNotLoaded
    BY <1>1, <2>1 DEF OpenPage, DraftNotLoaded, Composers
  <2>2. CASE DraftLoaded
    BY <1>1, <2>2 DEF DraftLoaded, Changed, Composers
  <2>3. CASE Edit
    BY <1>1, <2>3 DEF Edit, Changed, Composers
  <2> QED BY <2>1, <2>2, <2>3
<1> QED BY <1>1, <1>2, <1>3, BoundsRest

\* The user picks a file, takes it away, or gives up.
LEMMA PickBounds ==
    ASSUME PageInv, PageInv', PageBounds, AcceptFile \/ ClearVideo \/ Cancel \/ StartAnother
    PROVE  PageBounds'
<1>1. posts' = posts /\ works' = works /\ forms' = forms /\ composer \in Composers
  BY KnownTypes DEF AcceptFile, ClearVideo, Cancel, StartAnother
<1>2. composer'.draft \in {0, composer.draft} /\ composer'.key \in {0, composer.key}
  <2>1. CASE AcceptFile
    BY <1>1, <2>1 DEF AcceptFile, Prepare, Changed, Composers
  <2>2. CASE ClearVideo
    <3>1. CASE composer.file = 0
      BY <1>1, <2>2, <3>1 DEF ClearVideo, Composers
    <3>2. CASE composer.file # 0
      BY <1>1, <2>2, <3>2 DEF ClearVideo, Changed, Composers
    <3> QED BY <3>1, <3>2
  <2>3. CASE Cancel
    BY <1>1, <2>3 DEF Cancel, Composers
  <2>4. CASE StartAnother
    BY <1>1, <2>4 DEF StartAnother, Composers
  <2> QED BY <2>1, <2>2, <2>3, <2>4
<1> QED BY <1>1, <1>2, BoundsRest DEF PageBounds

\* What the composer knows is bounded, and stays so when other parts of it change.
LEMMA ComposerBounds ==
    ASSUME PageInv, PageBounds
    PROVE  /\ composer \in Composers /\ composer.draft <= Len(works) /\ composer.key <= Len(posts)
           /\ composer.form <= MaxForms /\ composer.file <= MaxRuns
<1>1. /\ composer \in Composers /\ composer.form <= forms /\ composer.file <= Len(preparing)
      /\ forms \in Nat /\ Len(preparing) \in Nat /\ Len(preparing) <= MaxRuns
      /\ composer.form \in Nat /\ composer.file \in Nat /\ MaxForms \in Nat /\ MaxRuns \in Nat
  BY KnownTypes, StoredAssumption, RequestsAssumption DEF Composers
<1>2. composer.form <= MaxForms
  BY <1>1 DEF PageBounds
<1>3. composer.file <= MaxRuns
  BY <1>1
<1> QED BY <1>1, <1>2, <1>3 DEF PageBounds

\* The publish button.
LEMMA PressBounds ==
    ASSUME PageInv, PageInv', PageBounds, OnPublish
    PROVE  PageBounds'
<1> DEFINE p == [composer EXCEPT !.asked = TRUE]
<1>1. /\ composer \in Composers /\ composer.draft <= Len(works) /\ composer.key <= Len(posts)
      /\ composer.form <= MaxForms /\ composer.file <= MaxRuns
  BY ComposerBounds
<1>2. /\ p \in Composers /\ p.draft = composer.draft /\ p.key = composer.key /\ p.form = composer.form
      /\ p.file = composer.file
  BY <1>1 DEF Composers
<1>3. forms' = forms /\ works' = works
  BY DEF OnPublish
<1>4. CASE p.phase = "ready" /\ p.ready # 0
  <2>1. Commit(p, posts, User, p.ready)
    BY <1>4 DEF OnPublish, Busy
  <2>2. /\ Posts(posts) /\ p.ready \in Nat
        /\ \A i \in 1..Len(posts) : SameRequest(posts[i], posts[i]) /\ posts[i].row = posts[i].row
    BY <1>2, KnownTypes DEF SameRequest, Composers
  <2> HIDE DEF p
  <2> QED BY <1>1, <1>2, <1>3, <2>1, <2>2, CommitBounds
<1>5. CASE p.phase \in Busy
  <2>1. composer' = p /\ posts' = posts
    BY <1>5 DEF OnPublish, Busy
  <2> HIDE DEF p
  <2> QED BY <1>2, <1>3, <2>1, BoundsRest DEF PageBounds
<1>6. CASE ~ (p.phase = "ready" /\ p.ready # 0) /\ p.phase \notin Busy
  <2>1. Prepare(p) /\ posts' = posts
    BY <1>6 DEF OnPublish
  <2> HIDE DEF p
  <2>2. composer'.draft = p.draft /\ composer'.key = p.key
    BY <1>2, <2>1 DEF Prepare, Composers
  <2> QED BY <1>2, <1>3, <2>1, <2>2, BoundsRest DEF PageBounds
<1> QED BY <1>4, <1>5, <1>6

\* The user saves a draft, or leaves.
LEMMA SaveBounds ==
    ASSUME PageInv, PageInv', PageBounds, OnSaveDraft \/ LeavePage
    PROVE  PageBounds'
<1>1. /\ composer \in Composers /\ composer.draft <= Len(works) /\ composer.key <= Len(posts)
  BY ComposerBounds
<1>2. forms' = forms /\ works' = works
  BY DEF OnSaveDraft, LeavePage
<1>3. CASE OnSaveDraft
  BY <1>1, <1>2, <1>3, PersistBounds DEF OnSaveDraft
<1>4. CASE LeavePage
  <2> DEFINE p == [composer EXCEPT !.at = "leaving"]
  <2>1. p \in Composers /\ p.draft = composer.draft /\ p.key = composer.key
    BY <1>1 DEF Composers
  <2>2. CASE PersistDraft(p, OnLeave)
    <3> HIDE DEF p
    <3> QED BY <1>1, <1>2, <2>1, <2>2, PersistBounds
  <2>3. CASE composer' = Left(composer) /\ posts' = posts
    <3>1. composer'.draft = composer.draft /\ composer'.key = composer.key
      BY <1>1, <2>3 DEF Left, Composers
    <3> QED BY <1>2, <2>3, <3>1, BoundsRest DEF PageBounds
  <2> QED BY <1>4, <2>2, <2>3 DEF LeavePage
<1> QED BY <1>3, <1>4

\* The media are ready.
LEMMA ReadyBounds ==
    ASSUME PageInv, PageInv', PageBounds, NEW r \in 1..Len(preparing), Ready(r),
           forms' = forms, works' = works
    PROVE  PageBounds'
<1> DEFINE p == [composer EXCEPT !.ready = r, !.phase = "ready"]
<1>1. /\ composer \in Composers /\ composer.draft <= Len(works) /\ composer.key <= Len(posts)
      /\ composer.form <= MaxForms /\ composer.file <= MaxRuns
  BY ComposerBounds
<1>2. Len(preparing) \in Nat /\ Len(preparing) <= MaxRuns /\ MaxRuns \in Nat
  BY KnownTypes, StoredAssumption
<1>3. r \in Nat /\ r \in Runs
  BY <1>2 DEF Runs
<1>4. /\ p \in Composers /\ p.draft = composer.draft /\ p.key = composer.key /\ p.form = composer.form
      /\ p.file = composer.file /\ p.asked \in BOOLEAN
  BY <1>1, <1>3 DEF Composers
<1>5. CASE p.asked
  <2>1. Commit(p, posts, r, r)
    BY <1>5 DEF Ready
  <2>2. /\ Posts(posts)
        /\ \A i \in 1..Len(posts) : SameRequest(posts[i], posts[i]) /\ posts[i].row = posts[i].row
    BY KnownTypes DEF SameRequest
  <2> HIDE DEF p
  <2> QED BY <1>1, <1>3, <1>4, <2>1, <2>2, CommitBounds
<1>6. CASE ~p.asked /\ ~p.saving
  <2>1. PersistDraft(p, r)
    BY <1>6 DEF Ready
  <2> HIDE DEF p
  <2> QED BY <1>1, <1>3, <1>4, <2>1, PersistBounds
<1>7. CASE ~p.asked /\ p.saving
  <2>1. composer' = p /\ posts' = posts
    BY <1>7 DEF Ready
  <2> HIDE DEF p
  <2> QED BY <1>4, <2>1, BoundsRest DEF PageBounds
<1> QED BY <1>5, <1>6, <1>7

\* What a run waits for comes, fails or is cancelled.
LEMMA RunBounds ==
    ASSUME PageInv, PageInv', PageBounds, NEW r \in DOMAIN preparing,
           UploadEnds(r) \/ TranscodeEnds(r) \/ Fails(r) \/ Cancelled(r)
    PROVE  PageBounds'
<1>1. r \in 1..Len(preparing) /\ composer \in Composers
  BY KnownTypes, RunsAre
<1>2. forms' = forms /\ works' = works
  BY DEF UploadEnds, TranscodeEnds, Fails, Cancelled
<1>3. CASE Ready(r)
  BY <1>1, <1>2, <1>3, ReadyBounds
<1>4. CASE ~Ready(r)
  <2>1. /\ posts' = posts
        /\ \/ composer' = composer
           \/ composer' = [composer EXCEPT !.phase = "processing"]
           \/ composer' = [composer EXCEPT !.phase = "failed", !.asked = FALSE]
           \/ composer' = [composer EXCEPT !.phase = "idle", !.ready = 0]
    BY <1>4 DEF UploadEnds, TranscodeEnds, Fails, Cancelled, RunOvertaken
  <2>2. composer'.draft = composer.draft /\ composer'.key = composer.key
    BY <1>1, <2>1 DEF Composers
  <2> QED BY <1>2, <2>1, <2>2, BoundsRest DEF PageBounds
<1> QED BY <1>3, <1>4

\* What a request publishes or saves is the media of a run or of the draft.
LEMMA MediaBounds ==
    ASSUME PageInv, NEW i \in 1..Len(posts)
    PROVE  posts[i].media \in 1..Stored
<1>1. /\ posts[i].media # 0 /\ posts[i].media \in Nat /\ Len(preparing) \in Nat /\ Len(preparing) <= MaxRuns
      /\ MaxRuns \in Nat /\ Stored = MaxRuns + 1
  BY KnownTypes, StoredAssumption DEF PageInv, Named, Post
<1>2. posts[i].media = Stored \/ posts[i].media \in 1..Len(preparing)
  BY <1>1 DEF PageInv, Named, Finished
<1> QED BY <1>1, <1>2

\* The row that a request finds is one of the rows, or none.
LEMMA FoundBounds ==
    ASSUME PageInv, PageBounds, NEW i \in 1..Len(posts)
    PROVE  Found(posts[i]) \in 0..Len(works)
<1> DEFINE q == posts[i]
<1>1. /\ Len(works) \in Nat /\ DOMAIN works = 1..Len(works) /\ q.draft \in Nat /\ q.draft <= Len(works)
  BY KnownTypes DEF WorkList, PageBounds, PostBounded, Post
<1>2. CASE q.draft # 0
  BY <1>1, <1>2 DEF Found
<1>3. CASE q.draft = 0 /\ DraftsOf(q.media) = {}
  BY <1>1, <1>3 DEF Found
<1>4. CASE q.draft = 0 /\ DraftsOf(q.media) # {}
  <2>1. DraftsOf(q.media) \in SUBSET (1..Len(works))
    BY <1>1 DEF DraftsOf
  <2>2. Highest(DraftsOf(q.media)) \in 1..Len(works)
    BY <1>1, <1>4, <2>1, HighestIsOne
  <2> QED BY <1>1, <1>4, <2>2 DEF Found
<1> QED BY <1>2, <1>3, <1>4

\* A row is written.
LEMMA RowsBound ==
    ASSUME PageInv, PageInv', PageBounds, NEW w \in 0..Len(works), NEW m \in 1..Stored,
           NEW life \in {"draft", "published"}, Write(w, m, life)
    PROVE  /\ Len(works) <= Len(works') /\ RowOf(w) <= Len(works') /\ RowOf(w) \in Nat
           /\ \A x \in 1..Len(works') : works'[x].media <= Stored
<1> DEFINE row == Row(m, life)
<1>1. /\ Len(works) \in Nat /\ DOMAIN works = 1..Len(works) /\ WorkList(works) /\ Stored \in Nat
      /\ \A x \in 1..Len(works) : works[x].media <= Stored
  BY KnownTypes, StoredAssumption DEF WorkList, PageBounds
<1>2. row.media = m
  BY DEF Row
<1>3. CASE w = 0
  <2>1. works' = Append(works, row)
    BY <1>3 DEF Write
  <2> HIDE DEF row
  <2>2. /\ Len(works') = Len(works) + 1 /\ works'[Len(works) + 1] = row
        /\ \A x \in 1..Len(works) : works'[x] = works[x]
    BY <1>1, <2>1 DEF WorkList
  <2>3. ASSUME NEW x \in 1..Len(works')  PROVE works'[x].media <= Stored
    <3>1. CASE x \in 1..Len(works)
      BY <1>1, <2>2, <3>1
    <3>2. CASE x = Len(works) + 1
      BY <1>2, <2>2, <3>2
    <3> QED BY <1>1, <2>2, <3>1, <3>2
  <2> QED BY <1>1, <1>3, <2>2, <2>3 DEF RowOf
<1>4. CASE w # 0
  <2>1. works' = [works EXCEPT ![w] = row]
    BY <1>4 DEF Write
  <2> HIDE DEF row
  <2>2. w \in 1..Len(works)
    BY <1>1, <1>4
  <2>3. Len(works') = Len(works) /\ \A x \in 1..Len(works) : works'[x] = IF x = w THEN row ELSE works[x]
    BY <1>1, <2>1, <2>2 DEF WorkList
  <2>4. \A x \in 1..Len(works') : works'[x].media <= Stored
    BY <1>1, <1>2, <2>3
  <2> QED BY <1>1, <1>4, <2>2, <2>3, <2>4 DEF RowOf
<1> QED BY <1>3, <1>4

\* A request is served.
LEMMA ServedBounds ==
    ASSUME PageInv, PageInv', PageBounds, NEW i \in 1..Len(posts), NEW pc \in {"done", "refused"},
           NEW w \in Nat, Served(i, pc, w), w <= Len(works'), Len(works) <= Len(works'),
           composer' = composer, forms' = forms, \A x \in 1..Len(works') : works'[x].media <= Stored
    PROVE  PageBounds'
<1>1. /\ Len(posts') = Len(posts) /\ Len(posts) \in Nat /\ Len(works) \in Nat /\ Len(works') \in Nat
      /\ \A j \in 1..Len(posts) : j # i => posts'[j] = posts[j]
  <2>1. Len(posts') = Len(posts) /\ \A j \in 1..Len(posts) : j # i => posts'[j] = posts[j]
    BY PostServed
  <2>2. Len(works) \in Nat /\ Len(works') \in Nat
    BY DEF WorkList, PageInv, PageTypes
  <2>3. Len(posts) \in Nat
    BY KnownTypes
  <2> QED BY <2>1, <2>2, <2>3
<1>2. SameRequest(posts'[i], posts[i]) /\ posts'[i].row = w
  <2>1. Same(posts'[i], posts[i])
    BY PostServed
  <2>2. posts[i] \in Post /\ i \in DOMAIN posts
    BY PostsAre, KnownTypes
  <2>3. posts' = [posts EXCEPT ![i] = [posts[i] EXCEPT !.pc = pc, !.row = w]]
    BY <2>2 DEF Served
  <2>4. posts'[i].draft = posts[i].draft /\ posts'[i].row = w
    BY <2>2, <2>3 DEF Post
  <2> QED BY <2>1, <2>4 DEF Same, SameRequest
<1>3. ASSUME NEW j \in 1..Len(posts), j # i  PROVE SameRequest(posts'[j], posts[j]) /\ posts'[j].row <= Len(works')
  <2>1. posts'[j] = posts[j] /\ posts[j].row \in Nat /\ posts[j].row <= Len(works)
    BY <1>1, <1>3, KnownTypes DEF PageBounds, PostBounded, Post
  <2>2. posts[j].row <= Len(works')
    BY <1>1, <2>1
  <2> QED BY <2>1, <2>2 DEF SameRequest
<1>4. \A j \in 1..Len(posts) : SameRequest(posts'[j], posts[j]) /\ posts'[j].row <= Len(works')
  BY <1>2, <1>3
<1>5. composer.draft <= Len(works') /\ composer.key <= Len(posts) /\ forms <= MaxForms
  <2>1. composer.draft \in Nat /\ composer.draft <= Len(works)
    BY KnownTypes DEF PageBounds, Composers
  <2> QED BY <1>1, <2>1 DEF PageBounds
<1> QED BY <1>1, <1>4, <1>5, BoundsStay

\* The server saves a draft or publishes.
LEMMA ServeBounds ==
    ASSUME PageInv, PageInv', PageBounds, NEW i \in DOMAIN posts, ServeDraft(i) \/ ServePublish(i)
    PROVE  PageBounds'
<1> DEFINE q == posts[i]
           w == Found(q)
<1>1. /\ i \in 1..Len(posts) /\ Len(works) \in Nat /\ Len(posts) \in Nat
  BY KnownTypes, PostsAre DEF WorkList
<1>2. w \in 0..Len(works) /\ q.media \in 1..Stored
  BY <1>1, FoundBounds, MediaBounds
<1>3. composer' = composer /\ forms' = forms
  BY DEF ServeDraft, ServePublish
<1>4. \A x \in 1..Len(works) : works[x].media <= Stored
  BY DEF PageBounds
<1>5. ASSUME NEW pc \in {"done", "refused"}, NEW x \in 0..Len(works), Served(i, pc, x), works' = works
      PROVE  PageBounds'
  <2>1. x \in Nat /\ x <= Len(works') /\ Len(works) <= Len(works')
    BY <1>1, <1>5
  <2> QED BY <1>1, <1>3, <1>4, <1>5, <2>1, ServedBounds
<1>6. ASSUME NEW life \in {"draft", "published"}, Write(w, q.media, life), Served(i, "done", RowOf(w))
      PROVE  PageBounds'
  <2> HIDE DEF w
  <2>1. /\ Len(works) <= Len(works') /\ RowOf(w) <= Len(works') /\ RowOf(w) \in Nat
        /\ \A x \in 1..Len(works') : works'[x].media <= Stored
    BY <1>2, <1>6, RowsBound
  <2> QED BY <1>1, <1>3, <1>6, <2>1, ServedBounds
<1>7. 0 \in 0..Len(works)
  BY <1>1
<1>8. CASE ServeDraft(i)
  BY <1>5, <1>6, <1>7, <1>8 DEF ServeDraft
<1>9. CASE ServePublish(i)
  <2>1. \A j \in PublishedPosts : posts[j].row \in 0..Len(works)
    BY <1>1, PostsAre, KnownTypes DEF PublishedPosts, PageBounds, PostBounded, Post
  <2>2. CASE \E j \in PublishedPosts : Served(i, "done", posts[j].row) /\ works' = works
    BY <1>5, <2>1, <2>2
  <2>3. CASE Served(i, "refused", 0) /\ works' = works
    BY <1>5, <1>7, <2>3
  <2>4. CASE Write(w, q.media, "published") /\ Served(i, "done", RowOf(w))
    BY <1>6, <2>4
  <2> QED BY <1>9, <2>2, <2>3, <2>4 DEF ServePublish
<1> QED BY <1>8, <1>9

\* A request whose answer is heard is the same request.
LEMMA HeardBounds ==
    ASSUME PageInv, PageBounds, NEW i \in 1..Len(posts)
    PROVE  /\ Posts(Heard(i)) /\ Len(Heard(i)) = Len(posts)
           /\ \A j \in 1..Len(posts) :
                SameRequest(Heard(i)[j], posts[j]) /\ Heard(i)[j].row = posts[j].row
<1>1. /\ Posts(Heard(i)) /\ Len(Heard(i)) = Len(posts)
      /\ \A j \in 1..Len(posts) : /\ Same(Heard(i)[j], posts[j]) /\ Heard(i)[j].row = posts[j].row
                                  /\ j # i => Heard(i)[j] = posts[j]
  BY OneIsHeard
<1>2. Heard(i)[i].draft = posts[i].draft
  <2>1. posts[i] \in Post /\ i \in DOMAIN posts
    BY PostsAre, KnownTypes
  <2>2. Heard(i)[i] = [posts[i] EXCEPT !.heard = TRUE]
    BY <2>1 DEF Heard
  <2> QED BY <2>1, <2>2 DEF Post
<1>3. \A j \in 1..Len(posts) : Heard(i)[j].draft = posts[j].draft
  BY <1>1, <1>2
<1> QED BY <1>1, <1>3 DEF Same, SameRequest

\* A step that only hears an answer.
LEMMA AnswerBounds ==
    ASSUME PageInv, PageInv', PageBounds, NEW i \in 1..Len(posts), posts' = Heard(i), forms' = forms,
           works' = works, composer'.draft <= Len(works), composer'.key <= Len(posts)
    PROVE  PageBounds'
<1>1. /\ Len(posts') = Len(posts) /\ Len(works) \in Nat
      /\ \A j \in 1..Len(posts) : SameRequest(posts'[j], posts[j]) /\ posts'[j].row <= Len(works')
  BY HeardBounds, KnownTypes DEF PageBounds, PostBounded, WorkList
<1>2. Len(works) <= Len(works') /\ \A x \in 1..Len(works') : works'[x].media <= Stored
  BY <1>1 DEF PageBounds
<1> QED BY <1>1, <1>2, BoundsStay DEF PageBounds

\* The answer to a draft, after which the run may publish and the page is left.
LEMMA DraftAnswerBounds ==
    ASSUME PageInv, PageInv', PageBounds, NEW i \in DOMAIN posts, NEW how, DraftAnswered(i, how)
    PROVE  PageBounds'
<1> DEFINE q == posts[i]
           d == IF how = "ok" THEN q.row ELSE composer.draft
           p == [composer EXCEPT !.saving = FALSE, !.draft = d]
<1>1. /\ i \in 1..Len(posts) /\ q \in Post /\ Len(works) \in Nat
      /\ composer \in Composers /\ composer.draft <= Len(works) /\ composer.key <= Len(posts)
      /\ composer.form <= MaxForms /\ composer.file <= MaxRuns
  BY KnownTypes, PostsAre, ComposerBounds DEF WorkList
<1>2. d \in Nat /\ d <= Len(works)
  BY <1>1 DEF PageBounds, PostBounded, Post, Composers
<1>3. forms' = forms /\ works' = works
  BY DEF DraftAnswered
<1>4. [composer EXCEPT !.saving = FALSE, !.draft = IF how = "ok" THEN q.row ELSE @] = p
  OBVIOUS
<1> HIDE DEF d
<1>5. /\ p \in Composers /\ p.draft = d /\ p.key = composer.key /\ p.form = composer.form
      /\ p.file = composer.file /\ p.asked \in BOOLEAN
  BY <1>1, <1>2 DEF Composers
<1> HIDE DEF p
<1>6. \/ Commit(p, Heard(i), q.by, q.media) /\ q.by \in Runs
      \/ composer' = p /\ posts' = Heard(i)
      \/ composer' = Left(p) /\ posts' = Heard(i)
  BY <1>4, <1>5 DEF DraftAnswered, Heard
<1>7. CASE Commit(p, Heard(i), q.by, q.media) /\ q.by \in Runs
  <2>1. q.media \in Nat
    BY <1>1 DEF Post
  <2>2. p.draft <= Len(works) /\ p.key <= Len(posts) /\ p.form <= MaxForms /\ p.file <= MaxRuns
    BY <1>1, <1>2, <1>5
  <2> QED BY <1>1, <1>3, <1>5, <1>7, <2>1, <2>2, HeardBounds, CommitBounds
<1>8. CASE posts' = Heard(i) /\ (composer' = p \/ composer' = Left(p))
  <2>1. composer'.draft = d /\ composer'.key = composer.key
    BY <1>5, <1>8 DEF Left, Composers
  <2> QED BY <1>1, <1>2, <1>3, <1>8, <2>1, AnswerBounds
<1> QED BY <1>6, <1>7, <1>8

\* The answer to a publication.
LEMMA PublishAnswerBounds ==
    ASSUME PageInv, PageInv', PageBounds, NEW i \in DOMAIN posts, NEW how, PublishAnswered(i, how)
    PROVE  PageBounds'
<1>1. /\ i \in 1..Len(posts) /\ Len(works) \in Nat /\ Len(posts) \in Nat
      /\ composer \in Composers /\ composer.draft <= Len(works) /\ composer.key <= Len(posts)
  BY KnownTypes, PostsAre, ComposerBounds DEF WorkList
<1>2. posts' = Heard(i) /\ forms' = forms /\ works' = works
  BY DEF PublishAnswered, Heard
<1>3. composer'.draft \in {0, composer.draft} /\ composer'.key \in {0, composer.key}
  BY <1>1 DEF PublishAnswered, Composers
<1>4. composer'.draft <= Len(works) /\ composer'.key <= Len(posts)
  BY <1>1, <1>3
<1> QED BY <1>1, <1>2, <1>4, AnswerBounds

\* The list of rows.
LEMMA WorksAre ==
    ASSUME NEW ws, WorkList(ws)
    PROVE  /\ Len(ws) \in Nat /\ DOMAIN ws = 1..Len(ws)
           /\ \A w \in 1..Len(ws) : ws[w].media \in Nat /\ ws[w].life \in {"draft", "published"}
<1> DEFINE Works == [media : Nat, life : {"draft", "published"}]
<1>1. ws \in Seq(Works)
  BY DEF WorkList
<1>2. \A row \in Works : row.media \in Nat /\ row.life \in {"draft", "published"}
  OBVIOUS
<1> HIDE DEF Works
<1> QED BY <1>1, <1>2

\* Every step keeps the bounds.
LEMMA BoundsStep == PageInv /\ PageInv' /\ PageBounds /\ [PageNext]_pageVars => PageBounds'
<1> SUFFICES ASSUME PageInv, PageInv', PageBounds, [PageNext]_pageVars  PROVE PageBounds'
  OBVIOUS
<1>1. CASE UNCHANGED pageVars
  BY <1>1 DEF pageVars, PageBounds, PostBounded
<1>2. CASE PageNext
  <2>1. CASE OpenPage \/ DraftLoaded \/ DraftNotLoaded \/ Edit
    BY <2>1, LoadBounds
  <2>2. CASE AcceptFile \/ ClearVideo \/ Cancel \/ StartAnother
    BY <2>2, PickBounds
  <2>3. CASE OnPublish
    BY <2>3, PressBounds
  <2>4. CASE OnSaveDraft \/ LeavePage
    BY <2>4, SaveBounds
  <2>5. CASE \E r \in DOMAIN preparing : UploadEnds(r) \/ TranscodeEnds(r) \/ Fails(r) \/ Cancelled(r)
    BY <2>5, RunBounds
  <2>6. CASE \E i \in DOMAIN posts : ServeDraft(i) \/ ServePublish(i)
    BY <2>6, ServeBounds
  <2>7. CASE \E i \in DOMAIN posts : \E how \in {"ok", "failure"} : DraftAnswered(i, how) \/ PublishAnswered(i, how)
    BY <2>7, DraftAnswerBounds, PublishAnswerBounds
  <2> QED BY <1>2, <2>1, <2>2, <2>3, <2>4, <2>5, <2>6, <2>7 DEF PageNext
<1> QED BY <1>1, <1>2

LEMMA BoundsStart == PageInit => PageBounds
<1> SUFFICES ASSUME PageInit  PROVE PageBounds
  OBVIOUS
<1>1. Len(posts) = 0 /\ 1..0 = {} /\ Len(works) = 1 /\ MaxForms \in Nat /\ DOMAIN posts = {}
  BY RequestsAssumption DEF PageInit
<1>2. \A op : Of(op, posts) = 0
  <2>1. \A op : {i \in DOMAIN posts : posts[i].op = op} = {}
    BY <1>1
  <2> QED BY <2>1, FS_EmptySet DEF Of
<1>3. works[1].media <= Stored /\ \A w \in 1..1 : w = 1
  BY StoredAssumption DEF PageInit, Row
<1>4. forms <= MaxForms /\ composer.draft <= Len(works) /\ composer.key <= Len(posts)
  BY <1>1 DEF PageInit
<1>5. \A w \in 1..Len(works) : works[w].media <= Stored
  BY <1>1, <1>3
<1>6. Of("draft", posts) <= MaxSaves /\ Of("publish", posts) <= MaxPublishes
  BY <1>2, RequestsAssumption
<1> QED BY <1>1, <1>4, <1>5, <1>6 DEF PageBounds

LEMMA BoundsType == PageInv /\ PageBounds => PageTypeOK
<1> SUFFICES ASSUME PageInv, PageBounds  PROVE PageTypeOK
  OBVIOUS
<1>1. /\ composer \in Composers /\ composer.draft <= Len(works) /\ composer.key <= Len(posts)
      /\ composer.form <= MaxForms /\ composer.file <= MaxRuns
  BY ComposerBounds
<1>2. /\ Len(preparing) \in Nat /\ Len(preparing) <= MaxRuns /\ Len(posts) \in Nat /\ Len(works) \in Nat
      /\ composer.run <= Len(preparing) /\ forms \in Nat /\ Stored = MaxRuns + 1
      /\ MaxRuns \in Nat /\ MaxForms \in Nat /\ MaxSaves \in Nat /\ MaxPublishes \in Nat
  BY KnownTypes, StoredAssumption, RequestsAssumption DEF WorkList
<1>3. Len(posts) <= MaxPosts /\ MaxPosts \in Nat
  <2>1. /\ Of("draft", posts) \in Nat /\ Of("publish", posts) \in Nat
        /\ Of("draft", posts) + Of("publish", posts) = Len(posts)
    BY KnownTypes, CountsAll
  <2> QED BY <1>2, <2>1 DEF PageBounds, MaxPosts
<1>4. composer.ready \in Media
  <2>1. composer.ready = 0 \/ composer.ready = Stored \/ composer.ready \in 1..Len(preparing)
    BY DEF PageInv, WishesOK, Finished
  <2> QED BY <1>2, <2>1 DEF Media
<1>5. /\ composer.draft \in 0..Len(works) /\ composer.key \in 0..MaxPosts /\ composer.form \in 0..MaxForms
      /\ composer.file \in 0..MaxRuns /\ composer.run \in 0..MaxRuns
  <2>1. /\ composer.draft \in Nat /\ composer.key \in Nat /\ composer.form \in Nat
        /\ composer.file \in Nat /\ composer.run \in Nat
    BY <1>1 DEF Composers
  <2>2. composer.key <= MaxPosts /\ composer.run <= MaxRuns
    BY <1>1, <1>2, <1>3, <2>1
  <2> QED BY <1>1, <1>2, <1>3, <2>1, <2>2
<1>6. composer \in [at : {"closed", "loading", "open", "leaving", "left"},
                 phase : {"idle", "ready", "failed", "done"} \union Busy,
                 file : 0..MaxRuns, ready : Media, draft : 0..Len(works),
                 key : 0..MaxPosts, asked : BOOLEAN, form : 0..MaxForms,
                 run : 0..MaxRuns, saving : BOOLEAN]
  BY <1>1, <1>4, <1>5 DEF Composers
<1>7. forms \in 0..MaxForms
  BY <1>2 DEF PageBounds
<1>8. \A r \in DOMAIN preparing :
        preparing[r] \in [pc : {"upload", "wait", "draft", "end"}, aborted : BOOLEAN]
  BY KnownTypes, RunsAre DEF RunState
<1>9. ASSUME NEW i \in DOMAIN posts
      PROVE  posts[i] \in
         [op : {"draft", "publish"}, by : {User, OnLeave} \union Runs, key : 0..MaxPosts,
          media : Media \ {0}, form : 0..MaxForms, file : 0..MaxRuns, draft : 0..Len(works),
          pc : {"sent", "done", "refused"}, row : 0..Len(works), heard : BOOLEAN,
          alone : BOOLEAN]
  <2>1. i \in 1..Len(posts) /\ posts[i] \in Post
    BY PostsAre, KnownTypes
  <2>2. PostBounded(posts[i])
    BY <2>1 DEF PageBounds
  <2>3. posts[i].media \in Media \ {0}
    BY <1>2, <2>1, MediaBounds DEF Media
  <2>4. /\ posts[i].key \in Nat /\ posts[i].form \in Nat /\ posts[i].file \in Nat
        /\ posts[i].draft \in Nat /\ posts[i].row \in Nat
    BY <2>1 DEF Post
  <2>5. /\ posts[i].by \in {User, OnLeave} \union Runs /\ posts[i].key \in 0..MaxPosts
        /\ posts[i].form \in 0..MaxForms /\ posts[i].file \in 0..MaxRuns
        /\ posts[i].draft \in 0..Len(works) /\ posts[i].row \in 0..Len(works)
    BY <1>2, <1>3, <2>2, <2>4 DEF PostBounded
  <2> QED BY <2>1, <2>3, <2>5 DEF Post
<1>10. \A w \in DOMAIN works : works[w].media \in Media /\ works[w].life \in {"draft", "published"}
  <2>1. \A w \in DOMAIN works : /\ w \in 1..Len(works) /\ works[w].media \in Nat
                                /\ works[w].life \in {"draft", "published"}
    BY KnownTypes, WorksAre
  <2>2. \A w \in 1..Len(works) : works[w].media <= Stored
    BY DEF PageBounds
  <2> QED BY <1>2, <2>1, <2>2 DEF Media
<1> QED BY <1>6, <1>7, <1>8, <1>9, <1>10 DEF PageTypeOK

LEMMA PageTypesHold == PageSafety => []PageTypeOK
<1>1. PageSafety => []PageInv
  BY PageStarts, PageStep, PTL DEF PageSafety
<1> QED BY <1>1, BoundsStart, BoundsStep, BoundsType, PTL DEF PageSafety
=============================================================================
