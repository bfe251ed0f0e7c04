------------------------------- MODULE Wallet -------------------------------
(***************************************************************************)
(* Coins (wallet/service.go, wallet/repo.go, wallet/rules.go): lots that   *)
(* expire, the ledger that explains them, daily grants, the coins of paid  *)
(* orders, and tips, which take coins from the lots that expire first and  *)
(* give the author what the platform does not keep.                        *)
(*                                                                         *)
(* A tip, a summary and the sweeper are transactions of two steps: the     *)
(* first takes InnoDB's locks and reads, the second writes and commits.    *)
(***************************************************************************)
EXTENDS Integers, Sequences, FiniteSetsExt

CONSTANTS
    Holders,
    Requests,      \* requests (and the sweeper) served at the same time
    TipAmounts,    \* coins a tip may offer
    Prizes,        \* prizes of check-in and lottery
    Recharges,     \* paid orders: [acct, coins, bonus], each credited once
    TTL,           \* life of a lot by source, in ticks
    TipDebounce,   \* ticks between tips of one viewer for one video
    DayLength,     \* ticks of a Beijing calendar day
    MaxTime,       \* bound: the clock stops here
    MaxLots,       \* bound: lots that are ever created
    MaxClaims      \* bound: successful check-ins and lotteries

ASSUME WalletAssumption ==
    /\ TipAmounts \subseteq Nat /\ Prizes \subseteq Nat /\ TipDebounce \in Nat
    /\ TTL \in [{"register", "checkin", "lottery", "tip_in"} -> Nat]
    /\ \A o \in Recharges : o.acct \in Holders /\ o.coins \in Nat /\ o.bonus \in Nat

VARIABLES
    now,
    lots,       \* wallet_lots in the order of their ids
    ledger,     \* wallet_ledgers: the rows of every lot, in order
    tips,       \* wallet_tips in the order of their ids
    platform,   \* wallet_platform_entries: the cut of every tip
    daily,      \* wallet_daily_actions
    paid,       \* orders whose coins are not yet granted
    req         \* what every request is doing, and the rows it has locked

walletVars == <<now, lots, ledger, tips, platform, daily, paid, req>>

Forever == 1000   \* expire_at IS NULL

Nobody == "nobody"   \* the sweeper works for no account
NoPlan == [l \in {} |-> 0]
WalletIdle == [pc |-> "idle", acct |-> Nobody, video |-> Nobody, coins |-> 0, at |-> 0,
         plan |-> NoPlan]

WalletTypeOK ==
    /\ now \in 0..MaxTime
    /\ lots \in Seq([acct : Holders, source : DOMAIN TTL \union {"recharge"},
                     remaining : Nat, expire : Nat])
    /\ DOMAIN ledger = DOMAIN lots
    /\ \A l \in DOMAIN ledger :
         ledger[l] \in Seq([biz : {"grant", "tip", "expire"}, amount : Int, ref : Nat])
    /\ tips \in Seq([from : Holders, video : Holders, coins : Nat, at : 0..MaxTime])
    /\ platform \in [DOMAIN tips -> Nat]
    /\ daily \subseteq Holders \X {"checkin", "lottery"} \X Nat
    /\ paid \subseteq Recharges
    /\ \A r \in Requests : req[r].pc \in {"idle", "tip", "summary", "sweep", "tipping", "expiring"}

WalletInit ==
    /\ now = 0
    /\ lots = <<>> /\ ledger = <<>> /\ tips = <<>> /\ platform = <<>>
    /\ daily = {}
    /\ paid = Recharges
    /\ req = [r \in Requests |-> WalletIdle]
-----------------------------------------------------------------------------
Of(a) == {l \in DOMAIN lots : lots[l].acct = a /\ lots[l].remaining > 0}
Expired(t) == {l \in DOMAIN lots : lots[l].remaining > 0 /\ lots[l].expire <= t}
Available(a, t) == {l \in Of(a) : lots[l].expire > t}
Total(S) == SumFunction([l \in S |-> lots[l].remaining])

ExpireFor(source, t) == IF source = "recharge" THEN Forever ELSE t + TTL[source]

\* The order of availableLots: soonest expiry first, recharge last, then age.
Earlier(m, l) ==
    \/ lots[m].expire < lots[l].expire
    \/ lots[m].expire = lots[l].expire /\ m < l

\* What spendInTx takes from lot l of S for a spend of c coins.
Take(l, S, c) ==
    LET before == Total({m \in S : Earlier(m, l)}) IN
    Min({lots[l].remaining, Max({0, c - before})})

\* Everything is rounded down: the coin in between is lost.
SplitFloor(c) == [received |-> (c * 70) \div 100, cut |-> (c * 30) \div 100]

\* splitTip: the author gets 70 percent, rounded down.
SplitTip(c) == [received |-> (c * 70) \div 100, cut |-> c - (c * 70) \div 100]

\* Request r has locked the range of account a: a scan of (account_id,
\* remaining > 0) FOR UPDATE locks its rows and the gaps between them.
Locks(r, a) == req[r].pc \in {"tipping", "expiring"} /\ req[r].acct = a

\* Lots locked one by one, by the sweeper's scan of expire_at.
HasRow(r, l) == req[r].pc \in {"tipping", "expiring"} /\ l \in DOMAIN req[r].plan

\* FOR UPDATE left out of the scan.
CanScanAlways(r, a) == TRUE

\* r can lock the range of account a, or one lot.
CanScan(r, a) ==
    \A q \in Requests \ {r} : ~Locks(q, a) /\ \A l \in Of(a) : ~HasRow(q, l)
CanLock(r, l) ==
    \A q \in Requests \ {r} : ~Locks(q, lots[l].acct) /\ ~HasRow(q, l)

\* r can insert a lot of account a: no other transaction holds the gaps.
CanInsert(r, a) == \A q \in Requests \ {r} : ~Locks(q, a)

\* New lots with their first ledger row.
Lot(a, source, coins) ==
    [acct |-> a, source |-> source, remaining |-> coins, expire |-> ExpireFor(source, now)]
Grant(coins, ref) == <<[biz |-> "grant", amount |-> coins, ref |-> ref]>>

\* grantInTx as a transaction of its own, or a part of one.
GrantTx(a, source, coins) ==
    /\ Len(lots) < MaxLots
    /\ \A r \in Requests : ~Locks(r, a)
    /\ lots' = Append(lots, Lot(a, source, coins))
    /\ ledger' = Append(ledger, Grant(coins, 0))
-----------------------------------------------------------------------------
Registered(a) == \E l \in DOMAIN lots : lots[l].acct = a /\ lots[l].source = "register"

\* The gift of ten coins, in the transaction that creates the account.
GrantRegisterGift(a) ==
    /\ ~Registered(a)
    /\ GrantTx(a, "register", 10)
    /\ UNCHANGED <<now, tips, platform, daily, paid, req>>

\* Checkin and Lottery: the unique key of the day, then the prize.
Claim(a, action, prize) ==
    /\ Registered(a) /\ Cardinality(daily) < MaxClaims
    /\ <<a, action, now \div DayLength>> \notin daily
    /\ daily' = daily \union {<<a, action, now \div DayLength>>}
    /\ IF prize > 0 THEN GrantTx(a, action, prize) ELSE UNCHANGED <<lots, ledger>>
    /\ UNCHANGED <<now, tips, platform, paid, req>>

\* The coins and the bonus of a paid order (creditPaid, see Recharge).
GrantRecharge(o) ==
    /\ o \in paid /\ Registered(o.acct)
    /\ Len(lots) + 1 < MaxLots
    /\ \A r \in Requests : ~Locks(r, o.acct)
    /\ lots' = lots \o <<Lot(o.acct, "recharge", o.coins), Lot(o.acct, "recharge", o.bonus)>>
    /\ ledger' = ledger \o <<Grant(o.coins, 0), Grant(o.bonus, 0)>>
    /\ paid' = paid \ {o}
    /\ UNCHANGED <<now, tips, platform, daily, req>>
-----------------------------------------------------------------------------
\* Tip has read the video and the clock; the video of an account is named
\* after its author.
TipStart(r, a, v, c) ==
    /\ req[r] = WalletIdle /\ Registered(a) /\ Registered(v) /\ a # v
    /\ req' = [req EXCEPT ![r] = [WalletIdle EXCEPT
         !.pc = "tip", !.acct = a, !.video = v, !.coins = c, !.at = now]]
    /\ UNCHANGED <<now, lots, ledger, tips, platform, daily, paid>>

\* Summary (of a) or the sweeper have read the clock; with nothing expired
\* they will write nothing.
ExpireStart(r, pc, a) ==
    /\ req[r] = WalletIdle
    /\ \E l \in Expired(now) : pc = "summary" => l \in Of(a)
    /\ req' = [req EXCEPT ![r] = [WalletIdle EXCEPT !.pc = pc, !.acct = a, !.at = now]]
    /\ UNCHANGED <<now, lots, ledger, tips, platform, daily, paid>>

\* A write to a lot: what was read, what is written, and why.
Write(l, biz, amount) == [from |-> lots[l].remaining, amount |-> amount, biz |-> biz]

\* lastTip, and the test that follows it.
Recent(a, v, t) ==
    LET mine == {i \in DOMAIN tips : tips[i].from = a /\ tips[i].video = v} IN
    mine # {} /\ t - tips[Max(mine)].at < TipDebounce

\* The tip has expired and locked the lots of its account, found no recent
\* tip, and enough coins.
TipLock(r) ==
    LET q == req[r]
        gone == Expired(q.at) \intersect Of(q.acct)
        avail == Available(q.acct, now) \ gone
        used == {l \in avail : Take(l, avail, q.coins) > 0}
    IN
    /\ q.pc = "tip"
    /\ CanScan(r, q.acct)
    /\ ~Recent(q.acct, q.video, q.at)
    /\ Total(avail) >= q.coins
    /\ req' = [req EXCEPT ![r].pc = "tipping", ![r].plan =
         [l \in gone \union used |->
            IF l \in gone THEN Write(l, "expire", lots[l].remaining)
            ELSE Write(l, "tip", Take(l, avail, q.coins))]]
    /\ UNCHANGED <<now, lots, ledger, tips, platform, daily, paid>>

\* A sweeper that only knows the register gifts.
ExpireLockGifts(r) ==
    LET q == req[r]
        gone == {l \in Expired(q.at) : lots[l].source = "register"}
    IN
    /\ q.pc \in {"summary", "sweep"}
    /\ \A l \in gone : CanLock(r, l)
    /\ req' = [req EXCEPT ![r].pc = "expiring", ![r].plan =
         [l \in gone |-> Write(l, "expire", lots[l].remaining)]]
    /\ UNCHANGED <<now, lots, ledger, tips, platform, daily, paid>>

\* Summary and the sweeper have locked what has expired.
ExpireLock(r) ==
    LET q == req[r]
        gone == IF q.pc = "summary" THEN Expired(q.at) \intersect Of(q.acct)
                ELSE Expired(q.at)
    IN
    /\ q.pc \in {"summary", "sweep"}
    /\ q.pc = "summary" => CanScan(r, q.acct)
    /\ \A l \in gone : CanLock(r, l)
    /\ req' = [req EXCEPT ![r].pc = "expiring", ![r].plan =
         [l \in gone |-> Write(l, "expire", lots[l].remaining)]]
    /\ UNCHANGED <<now, lots, ledger, tips, platform, daily, paid>>

\* The lots and the ledger after the writes of a plan; ref is the tip.
Written(plan) ==
    [l \in DOMAIN lots |-> IF l \in DOMAIN plan
       THEN [lots[l] EXCEPT !.remaining = plan[l].from - plan[l].amount]
       ELSE lots[l]]
Booked(plan, ref) ==
    [l \in DOMAIN ledger |-> IF l \in DOMAIN plan
       THEN Append(ledger[l], [biz |-> plan[l].biz, amount |-> -plan[l].amount,
                               ref |-> IF plan[l].biz = "tip" THEN ref ELSE 0])
       ELSE ledger[l]]

\* The author's lot is inserted: this waits for a transaction that has
\* locked the author's lots.  Then everything commits.
TipCommit(r) ==
    LET q == req[r]
        id == Len(tips) + 1
        split == SplitTip(q.coins)
    IN
    /\ q.pc = "tipping"
    /\ Len(lots) < MaxLots
    /\ CanInsert(r, q.video)
    /\ lots' = Append(Written(q.plan), Lot(q.video, "tip_in", split.received))
    /\ ledger' = Append(Booked(q.plan, id), Grant(split.received, id))
    /\ tips' = Append(tips, [from |-> q.acct, video |-> q.video, coins |-> q.coins, at |-> q.at])
    /\ platform' = Append(platform, split.cut)
    /\ req' = [req EXCEPT ![r] = WalletIdle]
    /\ UNCHANGED <<now, daily, paid>>

ExpireCommit(r) ==
    /\ req[r].pc = "expiring"
    /\ lots' = Written(req[r].plan)
    /\ ledger' = Booked(req[r].plan, 0)
    /\ req' = [req EXCEPT ![r] = WalletIdle]
    /\ UNCHANGED <<now, tips, platform, daily, paid>>

\* Too few coins, a recent tip, two tips that wait for each other, an error
\* of the database, a crash: the transaction leaves nothing behind.  The
\* sweeper repeats its scan until it gets the locks.
Rollback(r) ==
    /\ req[r].pc \notin {"idle", "sweep"}
    /\ req' = [req EXCEPT ![r] = WalletIdle]
    /\ UNCHANGED <<now, lots, ledger, tips, platform, daily, paid>>

Tick ==
    /\ now < MaxTime
    /\ now' = now + 1
    /\ UNCHANGED <<lots, ledger, tips, platform, daily, paid, req>>

WalletNext ==
    \/ \E a \in Holders :
         \/ GrantRegisterGift(a)
         \/ \E action \in {"checkin", "lottery"}, prize \in Prizes : Claim(a, action, prize)
         \/ \E r \in Requests :
              \/ \E v \in Holders, c \in TipAmounts : TipStart(r, a, v, c)
              \/ ExpireStart(r, "summary", a)
    \/ \E o \in paid : GrantRecharge(o)
    \/ \E r \in Requests :
         \/ ExpireStart(r, "sweep", Nobody)
         \/ TipLock(r) \/ ExpireLock(r) \/ TipCommit(r) \/ ExpireCommit(r) \/ Rollback(r)
    \/ Tick

(***************************************************************************)
(* The poller sweeps every 30 seconds, its transaction commits now and     *)
(* then, and no request keeps its locks forever.                           *)
(***************************************************************************)
WalletFairness ==
    /\ WF_walletVars(Tick)
    /\ SF_walletVars(\E r \in Requests : ExpireStart(r, "sweep", Nobody))
    /\ SF_walletVars(\E r \in Requests : req[r].pc = "sweep" /\ ExpireLock(r))
    /\ SF_walletVars(\E r \in Requests : req[r].acct = Nobody /\ ExpireCommit(r))
    /\ \A r \in Requests : WF_walletVars(Rollback(r))

WalletSafety == WalletInit /\ [][WalletNext]_walletVars
WalletSpec == WalletSafety /\ WalletFairness
-----------------------------------------------------------------------------
Net(rows) == SumFunction([i \in DOMAIN rows |-> rows[i].amount])

\* What tip t took from the lot of these rows, and put into it.
IsOf(row, biz, t) == row.biz = biz /\ row.ref = t
Spent(rows, t) == SumFunction(
    [i \in DOMAIN rows |-> IF IsOf(rows[i], "tip", t) THEN -rows[i].amount ELSE 0])
Received(rows, t) == SumFunction(
    [i \in DOMAIN rows |-> IF IsOf(rows[i], "grant", t) THEN rows[i].amount ELSE 0])

\* The ledger explains every coin: what remains of a lot is the sum of its
\* rows, and is never negative, whatever tips, summaries and sweeps write to
\* it at the same time.
LedgerExplains ==
    \A l \in DOMAIN lots : lots[l].remaining = Net(ledger[l]) /\ lots[l].remaining >= 0

\* No coin of a tip appears or disappears: the tipper's lots lose what the
\* author receives and the platform keeps ("The whole tip fails when the
\* balance is too low", .spec/backend/wallet/spec.md).
TipBalances ==
    \A t \in DOMAIN tips :
        /\ tips[t].coins = SumFunction([l \in DOMAIN lots |-> Spent(ledger[l], t)])
        /\ tips[t].coins = platform[t] + SumFunction([l \in DOMAIN lots |-> Received(ledger[l], t)])
        /\ \A l \in DOMAIN lots : Spent(ledger[l], t) > 0 => lots[l].acct = tips[t].from

\* "The same viewer cannot tip the same video again within ten seconds",
\* although the last tip is read without a lock.
Debounced ==
    \A i, j \in DOMAIN tips :
        i < j /\ tips[i].from = tips[j].from /\ tips[i].video = tips[j].video
          => tips[j].at - tips[i].at >= TipDebounce

\* "Expired remaining amounts become zero".
ExpiredGone ==
    \A l \in 1..MaxLots :
        (l \in Expired(now)) ~> (l \in DOMAIN lots /\ lots[l].remaining = 0)
=============================================================================
