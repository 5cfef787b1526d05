\* Without gives and with approval decisions: every call is answered, a retry is
\* never a conflict, and the last row tells the balance.
CONSTANTS
    x = x
    y = y
    annP = annP
    bobR = bobR
    bankP = bankP
    ann = ann
    bob = bob
    k1 = k1
    k2 = k2
    k3 = k3
    k4 = k4
    Clients <- MCClients
    Wallets <- MCWallets
    Banks <- MCBanks
    Owner <- MCOwner
    Keys <- MCKeys
    NoClient = NoClient
    NoCall = NoCall
    NoKey = NoKey
    Overdraft = {annP}
    Calls <- RetryCalls
    Clock = {0}
    MaxCalls = 4
SPECIFICATION FairSpec
INVARIANTS TailReconciled ConflictMeansReuse
PROPERTY Answered
