SPECIFICATION FairCompSpec
CONSTANTS
    h1 = h1
    h2 = h2
    p1 = p1
    r1 = r1
    r2 = r2
    t1 = t1
    NoOne = NoOne
    NoRound = NoRound
    Handlers = {h1, h2}
    Pods = {p1}
    Rounds = {r1, r2}
    Tokens = {t1}
    PodOf <- MCPodOf
    RoundOf <- MCRoundOf
    TokenOf <- MCTokenOf
    SeqOf <- MCSeqOf
    OpWorkers = {w1}
    TxWorkers = {w2}
    w1 = w1
    w2 = w2
    Winning = {r1}
    BigWins = {}
    WalletOutcomes = {"ok", "refused", "lost"}
    IdempotentWallet = TRUE
    MaxFaults = 1
    MaxCrashes = 1
    MaxOverruns = 0
    MaxRetries = 1
    MaxWorkerCrashes = 1
INVARIANTS
    CompTypeOK
    RoundsResolvedSafely
CHECK_DEADLOCK FALSE
