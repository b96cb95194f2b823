SPECIFICATION Spec
CONSTANTS
    h1 = h1
    h2 = h2
    h3 = h3
    p1 = p1
    p2 = p2
    r1 = r1
    r2 = r2
    t1 = t1
    t2 = t2
    NoOne = NoOne
    NoRound = NoRound
    Handlers = {h1, h2, h3}
    Pods = {p1, p2}
    Rounds = {r1, r2}
    Tokens = {t1, t2}
    PodOf <- MCPodOf
    RoundOf <- MCRoundOf
    TokenOf <- MCTokenOf
    SeqOf <- MCSeqOf
    Winning = {r1}
    BigWins = {r1}
    WalletOutcomes = {"ok", "refused", "lost"}
    IdempotentWallet = FALSE
    MaxFaults = 0
    MaxCrashes = 0
    MaxOverruns = 0
INVARIANT ReleasedClaimNotDebited
CHECK_DEADLOCK FALSE
