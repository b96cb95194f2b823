SPECIFICATION Spec
CONSTANTS
    win = win
    pendingWin = pendingWin
    adjust = adjust
    pWin1 = pWin1
    pWin2 = pWin2
    pPending = pPending
    pAdjust = pAdjust
    NoOne = NoOne
    Keys = {win, pendingWin, adjust}
    AmountOf <- MCAmountOf
    Credits = {win, pendingWin}
    Unsettled = {pendingWin}
    Postings = {pWin1, pWin2, pPending, pAdjust}
    KeyOf <- MCKeyOf
    Quoting = {pWin1, pWin2}
    Announcing = {pWin1, pPending}
    MaxFaults = 1
INVARIANTS
    LedgerTypeOK
    BookHangsTogether
    BookedAsAnnounced
    InOrderNoDrift
CHECK_DEADLOCK FALSE
