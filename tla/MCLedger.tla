------------------------------ MODULE MCLedger ------------------------------
(* Instances of Ledger for TLC.                                             *)
EXTENDS Ledger, TLC

CONSTANTS x, y,               \* two requests in flight
          annP, bobR, bankP,  \* Ann's P wallet, Bob's R wallet, the P bank
          ann, bob,
          k1, k2, k3, k4      \* idempotency keys

MCClients == {x, y}
MCWallets == {annP, bobR}
MCBanks == {bankP}
MCOwner == annP :> ann @@ bobR :> bob
MCKeys == {k1, k2, k3, k4}
Symmetric == Permutations(MCClients)

\* Every operation, and two calls that reuse the key of another.
AllCalls == {Earn(k1, annP, 2), IssueBank(k1, bankP, 2), Issue(k2, bankP, annP, 1),
             AdjustUp(k3, bankP, annP, 1), AdjustDown(k2, bankP, annP, 1),
             Redeem(k3, annP, 1), Give(k4, annP, bobR, 2),
             GiveAllowance(k1, bankP, annP, bobR, 1)}

\* No give, and two calls that an approval decision makes.
RetryCalls == {q \in AllCalls : q.kind \in {"earn", "issueBank", "issue", "adjust"}}
              \cup {InApproval(Refund(k4, bobR, 2)),
                    InApproval(Issue(k4, bankP, annP, 1))}

\* What it takes for a decision to fork the chain, for a give to be sent twice,
\* and for a give from the allowance to run beside a redemption.
ForkCalls == {Earn(k1, annP, 2), InApproval(Refund(k2, bobR, 2))}
GiveCalls == {Earn(k1, annP, 2), Give(k4, annP, bobR, 2)}
AllowanceCalls == {IssueBank(k1, bankP, 2), Earn(k1, annP, 2), Redeem(k3, annP, 1),
                   GiveAllowance(k1, bankP, annP, bobR, 1)}

=============================================================================
