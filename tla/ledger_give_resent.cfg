\* A give that is sent again.
CONSTANTS
    x = x
    y = y
    annP = annP
    bobR = bobR
    bankP = bankP
    ann = ann
    bob = bob
    k1 = k1
    k2 = k2
    k3 = k3
    k4 = k4
    Clients <- MCClients
    Wallets <- MCWallets
    Banks <- MCBanks
    Owner <- MCOwner
    Keys <- MCKeys
    NoClient = NoClient
    NoCall = NoCall
    NoKey = NoKey
    Overdraft = {}
    Calls <- GiveCalls
    Clock = {0}
    MaxCalls = 4
SPECIFICATION Spec
SYMMETRY Symmetric
INVARIANTS ConflictMeansReuse
