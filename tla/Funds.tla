-------------------------------- MODULE Funds --------------------------------
(***************************************************************************)
(* What moves the points of a bank: finance and the timer (Banks), a       *)
(* project and its escrow (Projects), and gives out of an allowance        *)
(* (Gives).  All of them lock the bank's row, which a give holds over      *)
(* several steps.                                                          *)
(***************************************************************************)
EXTENDS Projects, Gives

ASSUME RostersAssumption ==
  Rosters \subseteq [Sessions -> SUBSET (BankOperations \cup ProjectOperations \cup GiveOperations)]

(* The callers' keys are none of those the code derives.  The header that    *)
(* carries them could say anything: callers who do send a derived key are    *)
(* left out.                                                                 *)
DerivedKeys ==
  {FundKey, ReturnKey} \cup {GiveKey(k) : k \in Gives} \cup {<<"clear", i>> : i \in 1 .. MaxCycles}

ASSUME KeysAssumption == Requests \cap DerivedKeys = {}

vars == <<bankVars, projectVars, giveVars>>

TypeOK == BankTypeOK /\ ProjectTypeOK /\ GiveTypeOK

Init == BankInit /\ ProjectInit /\ GiveInit

\* Whatever touches the bank waits for its row.
Next ==
  \/ BankStep /\ (BankLocked => bank' = bank) /\ UNCHANGED <<projectVars, giveVars>>
  \/ ProjectStep /\ (BankLocked => bank' = bank) /\ UNCHANGED giveVars
  \/ GiveStep /\ UNCHANGED projectVars

(* An armed timer fires, and a refresh goes on; a transaction that has taken *)
(* its rows commits.                                                         *)
Spec ==
  /\ Init /\ [][Next]_vars
  /\ SchedulerFairness
  /\ \A p \in Sessions : WF_vars(CommitGive(p) /\ UNCHANGED projectVars)
=============================================================================
