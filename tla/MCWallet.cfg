CONSTANTS
    r1 = r1
    r2 = r2
    Holders <- TwoAccounts
    Requests <- TwoRequests
    TTL <- Lives
    TipAmounts <- ElevenCoins
    Prizes <- OnePrize
    Recharges <- OneRecharge
    TipDebounce = 1
    DayLength = 1
    MaxTime = 1
    MaxLots = 5
    MaxClaims = 1
SPECIFICATION WalletSpec
INVARIANTS LedgerExplains TipBalances Debounced
PROPERTIES ExpiredGone
CHECK_DEADLOCK FALSE
