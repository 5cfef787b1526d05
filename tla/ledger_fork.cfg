\* An approval decision that refunds while another request earns.
CONSTANTS
    x = x
    y = y
    annP = annP
    bobR = bobR
    bankP = bankP
    ann = ann
    bob = bob
    k1 = k1
    k2 = k2
    k3 = k3
    k4 = k4
    Clients <- MCClients
    Wallets <- MCWallets
    Banks <- MCBanks
    Owner <- MCOwner
    Keys <- MCKeys
    NoClient = NoClient
    NoCall = NoCall
    NoKey = NoKey
    Overdraft = {}
    Calls <- ForkCalls
    Clock = {0}
    MaxCalls = 3
SPECIFICATION Spec
SYMMETRY Symmetric
INVARIANTS ChainIntact
