--------------------------- MODULE SettlementProofs ---------------------------
(***************************************************************************)
(* Theorems about Settlements, for any sessions, subjects, routes,         *)
(* administrators and workflow.                                            *)
(*                                                                         *)
(* A decision in flight acts on a snapshot, so the inductive invariant     *)
(* says how the committed request can differ from it: it has more          *)
(* decisions, or it has ended.  A decision that still commits therefore    *)
(* either finds its request as it saw it, or only adds a row to one that   *)
(* has ended.                                                              *)
(***************************************************************************)
EXTENDS Settlements, ApprovalProofs

ByVoucher == {"exchange", "approve", "complete", "cancel", "reject"}
Waits == {"exchange", "redeem"}    \* the operations that create their subject

\* What a request can have become since it was r.
Grown(r, q) ==
  /\ r.decisions \subseteq q.decisions
  /\ q.decisions = r.decisions => q = r \/ q.status # "PENDING"

\* What a session checked before it got to its second step.
Checked(w) ==
  w.op # "idle" =>
    /\ w.op \in ByVoucher => w.s \in Vouchers
    /\ w.op \in {"redeem", "fulfil", "cancelRedemption"} => w.s \in Rewards
    /\ w.op \in {"approve", "complete"} => w.s \in Legacy
    /\ w.op \in {"cancel", "reject"} =>
         /\ w.s \notin Legacy => ClosesRequest(w)
         /\ ClosesRequest(w) => w.op = "cancel" /\ w.seen.request.status = "PENDING"
         /\ Target[w.op] \in Transitions[w.seen.subject.status]
    /\ w.op \in Verdicts =>
         /\ w.s \notin Legacy \cup Plain
         /\ MayDecide(w.seen.request, w.admin)
         /\ RequestOK(w.seen.request)

\* How the rows may have changed since it read them.
Since(w) ==
  /\ w.op \notin {"idle"} \cup Waits => Status(w.s) # "NONE"
  /\ w.op \in Verdicts => Grown(w.seen.request, request[w.s])
  /\ w.op = "fulfil" /\ w.s \notin Plain => request[w.s].status = "APPROVED"

Routed(p, w) == w.op # "idle" => <<w.op, w.s>> \in Routes[p]

InFlight == \A p \in Sessions : Checked(work[p]) /\ Since(work[p]) /\ Routed(p, work[p])

RequestsOK == \A s \in Subjects : RequestOK(request[s])

NoRequestYet == \A s \in Subjects : Status(s) = "NONE" => request[s].status = "NONE"

\* What no workflow handles keeps no request, and a voucher from before is a row.
Requestless ==
  /\ \A s \in Legacy : Status(s) \notin {"NONE", "FULFILLED"}
  /\ \A s \in Legacy \cup Plain : request[s].status = "NONE"

WorkflowRedemptionsOK == \A s \in Rewards \ Plain : RedemptionAgrees(s)

WorkflowVouchersOK == \A s \in Vouchers \ Legacy : VoucherAgrees(s) /\ RefundAgrees(s)

IInv ==
  /\ TypeOK
  /\ RequestsOK
  /\ NoRequestYet
  /\ Requestless
  /\ WorkflowVouchersOK
  /\ WorkflowRedemptionsOK
  /\ InFlight

-----------------------------------------------------------------------------

LEMMA WorkFacts ==
  ASSUME NEW w \in Work
  PROVE  /\ w.op \in {"idle"} \cup Operations
         /\ w.op # "idle" => w.s \in Subjects
         /\ w.op \in {"cancel", "reject"} \cup Verdicts =>
              /\ w.seen \in Snapshots
              /\ w.seen.subject \in SubjectRows
              /\ w.seen.request \in Requests
         /\ w.op \in Verdicts => w.admin \in Admins
BY DEF Work, Idle, Operations, Verdicts, Snapshots

LEMMA IdleOK ==
  /\ Idle \in Work /\ Checked(Idle) /\ Since(Idle)
  /\ \A p \in Sessions : Routed(p, Idle)
BY DEF Work, Checked, Since, Routed, Idle, Verdicts, Waits

\* The rows of one subject change, and the session is done.
LEMMA WriteOK ==
  ASSUME IInv, NEW p \in Sessions, Done(p),
         NEW s \in Subjects, NEW row \in SubjectRows, NEW r,
         RequestOK(r),
         row.status # "NONE",
         Status(s) # "NONE" => Grown(request[s], r),
         s \in Vouchers \ Legacy =>
           /\ \/ row.status = "COMPLETED" /\ r.status = "APPROVED"
              \/ /\ row.status \in {"PENDING", "CANCELLED", "REJECTED"}
                 /\ row.status = r.status
           /\ row.refunded <=> row.status \in {"CANCELLED", "REJECTED"},
         s \in Legacy \cup Plain => r.status = "NONE",
         s \in Legacy => row.status # "FULFILLED",
         s \in Rewards \ Plain =>
           /\ row.status = "FULFILLED" => r.status = "APPROVED"
           /\ row.status = "PENDING" => r.status \in {"PENDING", "APPROVED"}
           /\ r.status \in {"REJECTED", "CANCELLED"} => row.status = "CANCELLED",
         s \in Rewards /\ request[s].status = "APPROVED" => r.status = "APPROVED",
         subject' = [subject EXCEPT ![s] = row],
         request' = [request EXCEPT ![s] = r],
         points' \in Nat, stock' \in Nat
  PROVE  IInv'
<1> USE DEF IInv
<1>1. /\ subject' \in [Subjects -> SubjectRows]
      /\ \A x \in Subjects : subject'[x] = IF x = s THEN row ELSE subject[x]
  BY DEF TypeOK
<1>2. /\ request' \in [Subjects -> Requests]
      /\ \A x \in Subjects : request'[x] = IF x = s THEN r ELSE request[x]
  BY DEF TypeOK, RequestOK
<1>3. /\ work' \in [Sessions -> Work]
      /\ \A q \in Sessions : work'[q] = IF q = p THEN Idle ELSE work[q]
  BY DEF TypeOK, Done, Work
<1>4. TypeOK'
  BY <1>1, <1>2, <1>3 DEF TypeOK
<1>5. RequestsOK' /\ NoRequestYet'
  BY <1>1, <1>2 DEF RequestsOK, NoRequestYet, Status
<1>6. WorkflowVouchersOK'
  <2>1. SUFFICES ASSUME NEW x \in Vouchers \ Legacy
                 PROVE  (VoucherAgrees(x) /\ RefundAgrees(x))'
    BY DEF WorkflowVouchersOK
  <2>2. x \in Subjects
    BY DEF Subjects
  <2>3. CASE x = s
    BY <2>1, <2>2, <2>3, <1>1, <1>2 DEF VoucherAgrees, RefundAgrees, Status
  <2>4. CASE x # s
    BY <2>1, <2>2, <2>4, <1>1, <1>2 DEF WorkflowVouchersOK, VoucherAgrees, RefundAgrees, Status
  <2> QED BY <2>3, <2>4
<1>7. Requestless'
  <2>1. \A x \in Legacy \cup Plain : x \in Subjects
    BY SettlementAssumption DEF Subjects
  <2> QED BY <2>1, <1>1, <1>2 DEF Requestless, Status
<1>8. WorkflowRedemptionsOK'
  <2>1. SUFFICES ASSUME NEW x \in Rewards \ Plain
                 PROVE  RedemptionAgrees(x)'
    BY DEF WorkflowRedemptionsOK
  <2>2. x \in Subjects
    BY DEF Subjects
  <2>3. CASE x = s
    BY <2>1, <2>2, <2>3, <1>1, <1>2 DEF RedemptionAgrees, Status
  <2>4. CASE x # s
    BY <2>1, <2>2, <2>4, <1>1, <1>2 DEF WorkflowRedemptionsOK, RedemptionAgrees, Status
  <2> QED BY <2>3, <2>4
<1>9. InFlight'
  <2>1. SUFFICES ASSUME NEW q \in Sessions
                 PROVE  (Checked(work[q]) /\ Since(work[q]) /\ Routed(q, work[q]))'
    BY DEF InFlight
  <2>2. PICK w : w = work'[q]
    OBVIOUS
  <2>3. SUFFICES Checked(w) /\ Since(w)' /\ Routed(q, w)
    BY <2>2 DEF Checked, Since, ClosesRequest, Routed
  <2>4. CASE w = Idle
    BY <2>4, IdleOK DEF Since, Idle, Verdicts, Waits
  <2>5. CASE w # Idle
    <3>1. w = work[q] /\ w \in Work /\ Checked(w) /\ Since(w) /\ Routed(q, w)
      BY <2>2, <2>5, <1>3 DEF TypeOK, InFlight
    <3>2. w.op \notin {"idle"} \cup Waits => w.s \in Subjects
      BY <3>1, WorkFacts
    <3>3. w.op \notin {"idle"} \cup Waits => subject'[w.s].status # "NONE"
      BY <3>1, <3>2, <1>1 DEF Since, Status
    <3>4. ASSUME w.op \in Verdicts
          PROVE  Grown(w.seen.request, request'[w.s])
      <4>1. w.op \notin {"idle"} \cup Waits
        BY <3>4 DEF Verdicts, Waits
      <4>2. Status(w.s) # "NONE" /\ Grown(w.seen.request, request[w.s]) /\ w.s \in Subjects
        BY <3>1, <3>2, <3>4, <4>1 DEF Since
      <4>3. CASE w.s = s
        BY <4>2, <4>3, <1>2 DEF Grown
      <4>4. CASE w.s # s
        BY <4>2, <4>4, <1>2
      <4> QED BY <4>3, <4>4
    <3>5. ASSUME w.op = "fulfil", w.s \notin Plain
          PROVE  request'[w.s].status = "APPROVED"
      <4>1. w.s \in Subjects /\ w.s \in Rewards /\ request[w.s].status = "APPROVED"
        BY <3>1, <3>5, WorkFacts DEF Checked, Since
      <4> QED BY <4>1, <1>2
    <3> QED BY <3>1, <3>3, <3>4, <3>5 DEF Since, Status
  <2> QED BY <2>4, <2>5
<1> QED BY <1>4, <1>5, <1>6, <1>7, <1>8, <1>9

\* A session reads, or gives up: the rows are as they were.
LEMMA ReadOK ==
  ASSUME IInv, NEW p \in Sessions, NEW v \in Work, Begin(p, v), Checked(v), Since(v),
         Routed(p, v)
  PROVE  IInv'
<1> USE DEF IInv
<1>1. /\ UNCHANGED <<subject, request, points, stock>>
      /\ work' \in [Sessions -> Work]
      /\ \A q \in Sessions : work'[q] = IF q = p THEN v ELSE work[q]
  BY DEF TypeOK, Begin
<1>2. TypeOK' /\ RequestsOK' /\ NoRequestYet' /\ WorkflowVouchersOK'
  BY <1>1 DEF TypeOK, RequestsOK, NoRequestYet, WorkflowVouchersOK, VoucherAgrees, RefundAgrees,
              Status
<1>3. Requestless' /\ WorkflowRedemptionsOK'
  BY <1>1 DEF Requestless, WorkflowRedemptionsOK, RedemptionAgrees, Status
<1>4. InFlight'
  <2>1. SUFFICES ASSUME NEW q \in Sessions
                 PROVE  (Checked(work[q]) /\ Since(work[q]) /\ Routed(q, work[q]))'
    BY DEF InFlight
  <2>2. PICK w : w = work'[q]
    OBVIOUS
  <2>3. Checked(w) /\ Since(w) /\ Routed(q, w)
    BY <1>1, <2>2 DEF InFlight
  <2> QED BY <1>1, <2>2, <2>3 DEF Checked, Since, Routed, Status, ClosesRequest
<1> QED BY <1>2, <1>3, <1>4

LEMMA GrownRefl == \A r : Grown(r, r)
BY DEF Grown

LEMMA InitOK == Init => IInv
<1> SUFFICES ASSUME Init PROVE IInv
  OBVIOUS
<1>1. request = [s \in Subjects |-> NoRequest] /\ NoRequest \in Requests
  BY NoRequestOK DEF Init, RequestOK
<1>2. TypeOK
  BY <1>1, SettlementAssumption DEF TypeOK, Init, Work
<1>3. RequestsOK /\ NoRequestYet
  BY <1>1, NoRequestOK DEF RequestsOK, NoRequestYet, NoRequest
<1>4. WorkflowVouchersOK
  BY <1>1 DEF WorkflowVouchersOK, VoucherAgrees, RefundAgrees, Status, Init, Subjects, NoRequest
<1>5. InFlight
  BY IdleOK DEF InFlight, Init
<1>6. Requestless
  <2>1. \A s \in Legacy \cup Plain : s \in Subjects
    BY SettlementAssumption DEF Subjects
  <2> QED BY <1>1, <2>1 DEF Requestless, NoRequest, Init, Status
<1>7. WorkflowRedemptionsOK
  <2>1. \A s \in Rewards : s \in Subjects /\ s \notin Legacy
    BY SettlementAssumption DEF Subjects
  <2>2. \A s \in Rewards : Status(s) = "NONE" /\ request[s].status = "NONE"
    BY <1>1, <2>1 DEF NoRequest, Init, Status
  <2> QED BY <2>2 DEF WorkflowRedemptionsOK, RedemptionAgrees
<1> QED BY <1>2, <1>3, <1>4, <1>5, <1>6, <1>7 DEF IInv

-----------------------------------------------------------------------------
(* The first steps: what they check is what the second steps rely on.      *)

LEMMA MemberReadsOK ==
  ASSUME IInv, NEW p \in Sessions, NEW s \in Subjects, ReadExchange(p, s) \/ ReadRedeem(p, s)
  PROVE  IInv'
<1>1. CASE ReadExchange(p, s)
  <2> DEFINE v == [op |-> "exchange", s |-> s]
  <2>1. v \in Work /\ Checked(v) /\ Since(v) /\ Routed(p, v)
    BY <1>1 DEF Work, Operations, Checked, Since, Routed, ReadExchange, Serves, ByVoucher, Waits,
                Verdicts
  <2> QED BY <1>1, <2>1, ReadOK DEF ReadExchange
<1>2. CASE ReadRedeem(p, s)
  <2> DEFINE v == [op |-> "redeem", s |-> s]
  <2>1. v \in Work /\ Checked(v) /\ Since(v) /\ Routed(p, v)
    BY <1>2 DEF Work, Operations, Checked, Since, Routed, ReadRedeem, Serves, ByVoucher, Waits,
                Verdicts
  <2> QED BY <1>2, <2>1, ReadOK DEF ReadRedeem
<1> QED BY <1>1, <1>2

\* A voucher with a workflow is never APPROVED, so nothing is left to complete.
LEMMA ReadVoucherOK ==
  ASSUME IInv, NEW p \in Sessions, NEW s \in Subjects, NEW op \in {"approve", "complete"},
         ReadVoucher(p, s, op)
  PROVE  IInv'
<1> DEFINE v == [op |-> op, s |-> s]
<1>1. s \in Vouchers /\ Target[op] \in Transitions[Status(s)] /\ Begin(p, v)
  BY DEF ReadVoucher
<1>2. s \in Legacy
  <2>1. CASE op = "approve"
    BY <2>1, SettlementAssumption DEF ReadVoucher, ByWorkflow
  <2>2. CASE op = "complete" /\ s \notin Legacy
    <3>1. Status(s) \in {"COMPLETED", "NONE", "PENDING", "CANCELLED", "REJECTED"}
      BY <1>1, <2>2 DEF IInv, WorkflowVouchersOK, VoucherAgrees
    <3>2. "COMPLETED" \in Transitions[Status(s)]
      BY <1>1, <2>2 DEF Target
    <3> QED BY <3>1, <3>2 DEF Transitions
  <2> QED BY <2>1, <2>2
<1>3. Status(s) # "NONE"
  BY <1>1 DEF Transitions
<1>4. v \in Work /\ Checked(v) /\ Since(v) /\ Routed(p, v)
  BY <1>1, <1>2, <1>3 DEF Work, Operations, Checked, Since, Routed, ReadVoucher, Serves, ByVoucher,
                          Waits, Verdicts
<1> QED BY <1>1, <1>4, ReadOK

LEMMA ReadVoucherToCancelOK ==
  ASSUME IInv, NEW p \in Sessions, NEW s \in Subjects, NEW op \in {"cancel", "reject"},
         ReadVoucherToCancel(p, s, op)
  PROVE  IInv'
<1> DEFINE v == [op |-> op, s |-> s, seen |-> Snapshot(s)]
<1>1. /\ s \in Vouchers /\ Target[op] \in Transitions[Status(s)] /\ Begin(p, v)
      /\ ClosesRequest(v) => op = "cancel" /\ request[s].status = "PENDING"
  BY DEF ReadVoucherToCancel
<1>2. Status(s) # "NONE"
  BY <1>1 DEF Transitions
<1>3. s \notin Legacy => ClosesRequest(v)
  <2>1. SUFFICES ASSUME s \notin Legacy PROVE ClosesRequest(v)
    OBVIOUS
  <2>2. Status(s) \in {"COMPLETED", "PENDING", "CANCELLED", "REJECTED"}
    BY <1>1, <1>2, <2>1 DEF IInv, WorkflowVouchersOK, VoucherAgrees
  <2>3. Status(s) = "PENDING"
    BY <1>1, <2>2 DEF Transitions
  <2>4. ByWorkflow(s)
    BY <1>1, <2>1, SettlementAssumption DEF ByWorkflow
  <2> QED BY <2>3, <2>4 DEF ClosesRequest, Snapshot, Status
<1>4. v \in Work
  BY DEF Work, Snapshots, Snapshot, IInv, TypeOK
<1>5. Checked(v)
  BY <1>1, <1>3 DEF Checked, ByVoucher, Verdicts, Snapshot, Status
<1>6. Since(v)
  BY <1>2 DEF Since, Waits, Verdicts
<1>7. Routed(p, v)
  BY DEF Routed, ReadVoucherToCancel, Serves
<1> QED BY <1>1, <1>4, <1>5, <1>6, <1>7, ReadOK

LEMMA ReadRedemptionOK ==
  ASSUME IInv, NEW p \in Sessions, NEW s \in Subjects,
         NEW op \in {"fulfil", "cancelRedemption"}, ReadRedemption(p, s, op)
  PROVE  IInv'
<1> DEFINE v == [op |-> op, s |-> s]
<1>1. s \in Rewards /\ Status(s) = "PENDING" /\ Begin(p, v)
  BY DEF ReadRedemption
<1>2. op = "fulfil" /\ s \notin Plain => request[s].status = "APPROVED"
  BY <1>1 DEF IInv, WorkflowRedemptionsOK, RedemptionAgrees, ReadRedemption
<1>3. v \in Work /\ Checked(v) /\ Since(v) /\ Routed(p, v)
  BY <1>1, <1>2 DEF Work, Operations, Checked, Since, Routed, ReadRedemption, Serves, ByVoucher,
                    Waits, Verdicts
<1> QED BY <1>1, <1>3, ReadOK

\* What a decision relies on when it has read a request it may decide.
LEMMA DecisionReadOK ==
  ASSUME IInv, NEW p \in Sessions, NEW s \in Subjects, NEW admin \in Admins,
         NEW verdict \in Verdicts, MayDecide(request[s], admin), Status(s) # "NONE",
         NEW v, v = [op |-> verdict, s |-> s, seen |-> Snapshot(s), admin |-> admin],
         Begin(p, v), <<verdict, s>> \in Routes[p]
  PROVE  IInv'
<1>1. v \in Work
  BY DEF Work, Snapshots, Snapshot, IInv, TypeOK
<1>2. RequestOK(request[s])
  BY DEF IInv, RequestsOK
<1>3. Checked(v)
  <2>1. s \notin Legacy \cup Plain
    BY DEF IInv, Requestless, MayDecide
  <2> QED BY <1>2, <2>1 DEF Checked, ByVoucher, Verdicts, Snapshot
<1>4. Since(v)
  BY GrownRefl DEF Since, Waits, Verdicts, Snapshot
<1>5. Routed(p, v)
  BY DEF Routed
<1> QED BY <1>1, <1>3, <1>4, <1>5, ReadOK

-----------------------------------------------------------------------------
(* The second steps.                                                       *)

LEMMA ExchangeOK ==
  ASSUME IInv, NEW p \in Sessions, Exchange(p)
  PROVE  IInv'
<1> DEFINE s == work[p].s
           row == [subject[s] EXCEPT !.status = "PENDING"]
<1>1. s \in Subjects /\ s \in Vouchers
  BY WorkFacts DEF IInv, TypeOK, InFlight, Checked, ByVoucher, Exchange
<1>2. /\ Status(s) = "NONE" /\ points > 0 /\ Openable /\ Done(p)
      /\ subject' = [subject EXCEPT ![s] = row]
      /\ request' = [request EXCEPT ![s] = Opened]
      /\ points' = points - 1 /\ stock' = stock
  BY <1>1 DEF Exchange, Mark, OpenRequest
<1>3. subject[s] \in SubjectRows /\ points \in Nat /\ stock \in Nat
  BY <1>1 DEF IInv, TypeOK
<1>4. /\ row \in SubjectRows /\ row.status = "PENDING"
      /\ row.refunded = subject[s].refunded
  BY <1>3 DEF SubjectRows
<1>5. s \notin Legacy => ~subject[s].refunded
  BY <1>1, <1>2 DEF IInv, WorkflowVouchersOK, RefundAgrees
<1>6. RequestOK(Opened) /\ Opened.status = "PENDING"
  BY <1>2, OpenedOK
<1>7. points' \in Nat /\ stock' \in Nat
  BY <1>2, <1>3
<1>8. s \notin Rewards /\ s \notin Plain /\ s \notin Legacy
  BY <1>1, <1>2, SettlementAssumption DEF IInv, Requestless
<1> HIDE DEF s, row
<1> QED BY <1>8, <1>1, <1>2, <1>4, <1>5, <1>6, <1>7, WriteOK

LEMMA RedeemOK ==
  ASSUME IInv, NEW p \in Sessions, Redeem(p)
  PROVE  IInv'
<1> DEFINE s == work[p].s
           row == [subject[s] EXCEPT !.status = "PENDING"]
           r == IF ByWorkflow(s) THEN Opened ELSE request[s]
<1>1. s \in Subjects /\ s \in Rewards /\ s \notin Vouchers
  BY WorkFacts, SettlementAssumption DEF IInv, TypeOK, InFlight, Checked, Redeem
<1>2. /\ subject[s] \in SubjectRows /\ points \in Nat /\ stock \in Nat
      /\ request \in [Subjects -> Requests] /\ RequestOK(request[s])
  BY <1>1 DEF IInv, TypeOK, RequestsOK
<1>3. /\ Status(s) = "NONE" /\ Done(p)
      /\ subject' = [subject EXCEPT ![s] = row]
      /\ points' \in Nat /\ stock' \in Nat
  BY <1>1, <1>2 DEF Redeem, Mark
<1>4. RequestOK(r) /\ request' = [request EXCEPT ![s] = r]
  BY <1>1, <1>2, OpenedOK DEF Redeem, OpenRequest
<1>5. row \in SubjectRows /\ row.status = "PENDING"
  BY <1>2 DEF SubjectRows
<1>6. s \in Plain => r.status = "NONE"
  <2>1. s \in Plain => ~ByWorkflow(s)
    BY DEF ByWorkflow
  <2> QED BY <2>1, <1>1 DEF IInv, Requestless
<1>7. s \notin Legacy
  BY <1>1, SettlementAssumption
<1>8. s \notin Plain => r.status = "PENDING"
  BY <1>7 DEF ByWorkflow, Opened
<1>9. request[s].status = "NONE"
  BY <1>1, <1>3 DEF IInv, NoRequestYet
<1> HIDE DEF s, row, r
<1> QED BY <1>6, <1>7, <1>8, <1>9, <1>1, <1>3, <1>4, <1>5, WriteOK

LEMMA UpdateVoucherOK ==
  ASSUME IInv, NEW p \in Sessions, UpdateVoucher(p)
  PROVE  IInv'
<1> DEFINE s == work[p].s
           row == [subject[s] EXCEPT !.status = Target[work[p].op]]
<1>1. s \in Subjects /\ s \in Legacy
  BY WorkFacts DEF IInv, TypeOK, InFlight, Checked, UpdateVoucher
<1>2. /\ subject[s] \in SubjectRows /\ points \in Nat /\ stock \in Nat
      /\ request \in [Subjects -> Requests] /\ RequestOK(request[s])
  BY <1>1 DEF IInv, TypeOK, RequestsOK
<1>3. /\ Done(p)
      /\ subject' = [subject EXCEPT ![s] = row]
      /\ request' = [request EXCEPT ![s] = request[s]]
      /\ points' \in Nat /\ stock' \in Nat
  BY <1>1, <1>2 DEF UpdateVoucher, Mark
<1>4. row \in SubjectRows /\ row.status \notin {"NONE", "FULFILLED"}
  BY <1>2 DEF SubjectRows, Target, UpdateVoucher, Final
<1>5. s \notin Rewards /\ request[s].status = "NONE"
  BY <1>1, SettlementAssumption DEF IInv, Requestless
<1> HIDE DEF s, row
<1> QED BY <1>5, <1>1, <1>2, <1>3, <1>4, WriteOK, GrownRefl

LEMMA FulfilOK ==
  ASSUME IInv, NEW p \in Sessions, Fulfil(p)
  PROVE  IInv'
<1> DEFINE s == work[p].s
           row == [subject[s] EXCEPT !.status = "FULFILLED"]
<1>1. s \in Subjects /\ s \notin Vouchers
  BY WorkFacts, SettlementAssumption DEF IInv, TypeOK, InFlight, Checked, Fulfil
<1>2. /\ subject[s] \in SubjectRows /\ points \in Nat /\ stock \in Nat
      /\ request \in [Subjects -> Requests] /\ RequestOK(request[s])
  BY <1>1 DEF IInv, TypeOK, RequestsOK
<1>3. /\ Done(p)
      /\ subject' = [subject EXCEPT ![s] = row]
      /\ request' = [request EXCEPT ![s] = request[s]]
      /\ points' \in Nat /\ stock' \in Nat
  BY <1>1, <1>2 DEF Fulfil, Mark
<1>4. row \in SubjectRows /\ row.status # "NONE"
  BY <1>2 DEF SubjectRows, Final
<1>5. row.status = "FULFILLED"
  BY <1>2 DEF SubjectRows
<1>6. s \notin Plain => request[s].status = "APPROVED"
  BY <1>1 DEF IInv, InFlight, Since, Fulfil
<1>7. /\ s \in Plain => request[s].status = "NONE"
      /\ s \notin Legacy
  BY <1>1, SettlementAssumption DEF IInv, Requestless
<1> HIDE DEF s, row
<1> QED BY <1>5, <1>6, <1>7, <1>1, <1>2, <1>3, <1>4, WriteOK, GrownRefl

\* What closing a subject with its refund writes.
LEMMA VoidFacts ==
  ASSUME IInv, NEW s \in Subjects, NEW status \in {"CANCELLED", "REJECTED"}, Void(s, status)
  PROVE  LET row == [status |-> status, refunded |-> TRUE]
         IN  /\ row \in SubjectRows /\ row.status # "NONE"
             /\ subject' = [subject EXCEPT ![s] = row]
             /\ points' \in Nat /\ stock' \in Nat
BY DEF Void, SubjectRows, Final, IInv, TypeOK

LEMMA CancelVoucherOK ==
  ASSUME IInv, NEW p \in Sessions, CancelVoucher(p)
  PROVE  IInv'
<1>1. PICK w \in Work : w = work[p]
  BY DEF IInv, TypeOK
<1> DEFINE s == w.s
           row == [status |-> Target[w.op], refunded |-> TRUE]
           r == IF ClosesRequest(w) THEN ClosedWithSteps(request[s]) ELSE request[s]
<1>2. /\ w.op \in {"cancel", "reject"} /\ ~CancelConflicts(w)
      /\ Void(s, Target[w.op]) /\ Done(p)
      /\ request' = IF ClosesRequest(w)
                    THEN [request EXCEPT ![s] = ClosedWithSteps(request[s])] ELSE request
  BY <1>1 DEF CancelVoucher
<1>3. s \in Subjects /\ s \in Vouchers /\ Checked(w)
  BY <1>1, <1>2, WorkFacts DEF IInv, InFlight, Checked, ByVoucher
<1>4. request \in [Subjects -> Requests] /\ RequestOK(request[s])
  BY <1>3 DEF IInv, TypeOK, RequestsOK
<1>5. Target[w.op] \in {"CANCELLED", "REJECTED"}
  BY <1>2 DEF Target
<1>6. /\ row \in SubjectRows /\ row.status # "NONE"
      /\ subject' = [subject EXCEPT ![s] = row]
      /\ points' \in Nat /\ stock' \in Nat
  BY <1>2, <1>3, <1>5, VoidFacts
<1>7. RequestOK(r) /\ request' = [request EXCEPT ![s] = r]
  BY <1>2, <1>3, <1>4, ClosedOK
<1>8. Grown(request[s], r)
  BY <1>4, ClosedOK DEF Grown
<1>9. s \notin Legacy => row.status = "CANCELLED" /\ r.status = "CANCELLED"
  BY <1>2, <1>3, <1>4, ClosedOK DEF Checked, Target
<1>10. row.refunded /\ row.status \in {"CANCELLED", "REJECTED"}
  BY <1>5
<1>11. s \notin Rewards /\ s \notin Plain
  BY <1>3, SettlementAssumption
<1>12. s \in Legacy => r.status = "NONE"
  <2>1. s \in Legacy => ~ClosesRequest(w)
    BY DEF ClosesRequest, ByWorkflow
  <2> QED BY <2>1 DEF IInv, Requestless
<1> HIDE DEF s, row, r
<1> QED BY <1>11, <1>12, <1>2, <1>3, <1>6, <1>7, <1>8, <1>9, <1>10, WriteOK

LEMMA CancelRedemptionOK ==
  ASSUME IInv, NEW p \in Sessions, CancelRedemption(p)
  PROVE  IInv'
<1> DEFINE s == work[p].s
           row == [status |-> "CANCELLED", refunded |-> TRUE]
           r == IF request[s].status = "PENDING" THEN Closed(request[s]) ELSE request[s]
<1>1. s \in Subjects /\ s \notin Vouchers
  BY WorkFacts, SettlementAssumption DEF IInv, TypeOK, InFlight, Checked, CancelRedemption
<1>2. request \in [Subjects -> Requests] /\ RequestOK(request[s])
  BY <1>1 DEF IInv, TypeOK, RequestsOK
<1>3. /\ row \in SubjectRows /\ row.status # "NONE"
      /\ subject' = [subject EXCEPT ![s] = row]
      /\ points' \in Nat /\ stock' \in Nat
  BY <1>1, VoidFacts DEF CancelRedemption
<1>4. RequestOK(r) /\ Grown(request[s], r)
  BY <1>2, ClosedOK DEF Grown
<1>5. request' = [request EXCEPT ![s] = r] /\ Done(p)
  BY <1>1, <1>2 DEF CancelRedemption
<1>6. /\ s \in Legacy \cup Plain => r.status = "NONE"
      /\ request[s].status = "APPROVED" => r.status = "APPROVED"
  BY <1>2 DEF IInv, Requestless
<1>7. row.status = "CANCELLED"
  OBVIOUS
<1> HIDE DEF s, row, r
<1> QED BY <1>6, <1>7, <1>1, <1>3, <1>4, <1>5, WriteOK

\* A decision that completes no step finds its request as it was, or ended; one
\* that does finds everything as it was.
LEMMA DecideOK ==
  ASSUME IInv, NEW p \in Sessions, Decide(p)
  PROVE  IInv'
<1>1. PICK w \in Work : w = work[p]
  BY DEF IInv, TypeOK
<1> DEFINE s == w.s
           b == w.seen.request
           q == Outcome(w)
           d == NewDecision(b, w.admin, w.op)
           r == AfterDecision(w)
<1>2. /\ w.op \in Verdicts /\ ~DecisionConflicts(w) /\ Hook(w) /\ Done(p)
      /\ request' = [request EXCEPT ![s] = r]
  BY <1>1 DEF Decide
<1>3. /\ s \in Subjects /\ w.admin \in Admins
      /\ Checked(w) /\ Since(w)
      /\ w.op \notin {"idle"} \cup Waits
  BY <1>1, <1>2, WorkFacts DEF IInv, InFlight, Verdicts, Waits
<1>4. /\ RequestOK(b) /\ MayDecide(b, w.admin) /\ b \in Requests /\ b.status = "PENDING"
      /\ Status(s) # "NONE" /\ Grown(b, request[s])
  BY <1>2, <1>3 DEF Checked, Since, Verdicts, RequestOK, MayDecide
<1>5. /\ RequestOK(q) /\ q \in Requests
      /\ d \in Decisions /\ d \notin b.decisions /\ d.admin \in Workflow[d.step].assignees
      /\ q.decisions = b.decisions \cup {d}
      /\ q.status \in {"PENDING", "APPROVED", "REJECTED"}
  BY <1>2, <1>3, <1>4, DecidedOK DEF Outcome, RequestOK
<1>6. /\ request[s].decisions = b.decisions
      /\ ~OnlyRecords(w) => request[s] = b /\ subject[s] = w.seen.subject
  BY <1>2 DEF DecisionConflicts, Snapshot
<1>7. /\ request[s] \in Requests /\ RequestOK(request[s])
      /\ subject[s] \in SubjectRows /\ points \in Nat /\ stock \in Nat
      /\ subject = [subject EXCEPT ![s] = subject[s]]
  BY <1>3 DEF IInv, TypeOK, RequestsOK
<1>8. s \in Vouchers \ Legacy => VoucherAgrees(s) /\ RefundAgrees(s)
  BY DEF IInv, WorkflowVouchersOK
<1>11. s \notin Legacy \cup Plain
  BY <1>2, <1>3 DEF Checked, Verdicts
<1>12. s \in Rewards \ Plain => RedemptionAgrees(s)
  BY DEF IInv, WorkflowRedemptionsOK
<1>9. CASE OnlyRecords(w)
  <2>1. /\ q.status = b.status /\ q.current = b.current /\ q.steps = b.steps
    BY <1>4, <1>5, <1>9 DEF OnlyRecords, Row, Requests
  <2>2. UNCHANGED <<subject, points, stock>>
    BY <1>2, <1>4, <2>1 DEF Hook
  <2>3. r = [request[s] EXCEPT !.decisions = request[s].decisions \cup {d}]
    BY <1>5, <1>6, <1>9 DEF AfterDecision
  <2>4. RequestOK(r) /\ r.status = request[s].status
    <3>1. CASE request[s] = b
      <4>1. r = q
        BY <1>4, <1>5, <2>1, <2>3, <3>1 DEF Requests
      <4> QED BY <1>5, <4>1, <2>1, <3>1
    <3>2. CASE request[s].status # "PENDING"
      <4>1. RequestOK([request[s] EXCEPT !.decisions = request[s].decisions \cup {d}])
        BY <1>5, <1>7, <3>2, LateDecisionOK
      <4> QED BY <4>1, <2>3, <1>7 DEF Requests
    <3> QED BY <3>1, <3>2, <1>4, <1>6 DEF Grown
  <2>5. r.decisions = request[s].decisions \cup {d}
    BY <1>7, <2>3 DEF Requests
  <2>6. Grown(request[s], r)
    BY <1>5, <1>6, <2>5 DEF Grown
  <2>7. s \in Vouchers \ Legacy =>
           /\ \/ subject[s].status = "COMPLETED" /\ r.status = "APPROVED"
              \/ /\ subject[s].status \in {"PENDING", "CANCELLED", "REJECTED"}
                 /\ subject[s].status = r.status
           /\ subject[s].refunded <=> subject[s].status \in {"CANCELLED", "REJECTED"}
    BY <1>4, <1>8, <2>4 DEF VoucherAgrees, RefundAgrees, Status
  <2>8. subject[s].status # "NONE"
    BY <1>4 DEF Status
  <2>9. s \in Rewards \ Plain =>
           /\ subject[s].status = "FULFILLED" => r.status = "APPROVED"
           /\ subject[s].status = "PENDING" => r.status \in {"PENDING", "APPROVED"}
           /\ r.status \in {"REJECTED", "CANCELLED"} => subject[s].status = "CANCELLED"
    BY <1>12, <2>4 DEF RedemptionAgrees, Status
  <2> HIDE DEF s, b, q, d, r
  <2> QED BY <1>2, <1>3, <1>7, <1>11, <2>2, <2>4, <2>6, <2>7, <2>8, <2>9, WriteOK
<1>10. CASE ~OnlyRecords(w)
  <2>1. r = q /\ request[s] = b /\ subject[s] = w.seen.subject
    BY <1>6, <1>10 DEF AfterDecision
  <2>2. Grown(request[s], r)
    BY <1>5, <2>1 DEF Grown
  <2>3. s \in Vouchers \ Legacy => subject[s].status = "PENDING" /\ ~subject[s].refunded
    BY <1>4, <1>8, <2>1 DEF VoucherAgrees, RefundAgrees, Status
  <2>4. SUFFICES ASSUME NEW row \in SubjectRows, row.status # "NONE",
                        subject' = [subject EXCEPT ![s] = row],
                        points' \in Nat, stock' \in Nat,
                        s \in Vouchers \ Legacy =>
                          /\ \/ row.status = "COMPLETED" /\ q.status = "APPROVED"
                             \/ /\ row.status \in {"PENDING", "CANCELLED", "REJECTED"}
                                /\ row.status = q.status
                          /\ row.refunded <=> row.status \in {"CANCELLED", "REJECTED"},
                        s \in Rewards =>
                          /\ row.status = "FULFILLED" => q.status = "APPROVED"
                          /\ row.status = "PENDING" => q.status \in {"PENDING", "APPROVED"}
                          /\ q.status \in {"REJECTED", "CANCELLED"} => row.status = "CANCELLED"
                 PROVE  IInv'
    <3> DEFINE Fits(row) ==
          /\ row \in SubjectRows /\ row.status # "NONE"
          /\ subject' = [subject EXCEPT ![s] = row]
          /\ points' \in Nat /\ stock' \in Nat
          /\ s \in Vouchers \ Legacy =>
               /\ \/ row.status = "COMPLETED" /\ q.status = "APPROVED"
                  \/ /\ row.status \in {"PENDING", "CANCELLED", "REJECTED"}
                     /\ row.status = q.status
               /\ row.refunded <=> row.status \in {"CANCELLED", "REJECTED"}
          /\ s \in Rewards =>
               /\ row.status = "FULFILLED" => q.status = "APPROVED"
               /\ row.status = "PENDING" => q.status \in {"PENDING", "APPROVED"}
               /\ q.status \in {"REJECTED", "CANCELLED"} => row.status = "CANCELLED"
    <3>1. SUFFICES \E row : Fits(row)
      OBVIOUS
    <3>2. subject[s].status # "NONE"
      BY <1>4 DEF Status
    <3>3. CASE /\ UNCHANGED <<subject, points, stock>>
               /\ \/ q.status = "PENDING"
                  \/ s \in Rewards /\ q.status = "APPROVED"
      <4>1. s \in Rewards => s \notin Vouchers
        BY SettlementAssumption
      <4>2. s \in Rewards =>
              /\ subject[s].status = "FULFILLED" => q.status = "APPROVED"
              /\ subject[s].status = "PENDING" => q.status \in {"PENDING", "APPROVED"}
        <5>1. s \in Rewards => RedemptionAgrees(s) /\ request[s].status = "PENDING"
          BY <1>4, <1>11, <1>12, <2>1
        <5> QED BY <3>3, <5>1 DEF RedemptionAgrees, Status
      <4>3. Fits(subject[s])
        BY <1>7, <2>3, <3>2, <3>3, <4>1, <4>2
      <4> QED BY <4>3
    <3>4. CASE Mark(s, "COMPLETED") /\ UNCHANGED <<points, stock>> /\ q.status = "APPROVED"
      <4> DEFINE row == [subject[s] EXCEPT !.status = "COMPLETED"]
      <4>1. row \in SubjectRows /\ row.status = "COMPLETED" /\ row.refunded = subject[s].refunded
        BY <1>7 DEF SubjectRows, Final
      <4>2. subject' = [subject EXCEPT ![s] = row]
        BY <3>4 DEF Mark
      <4>3. Fits(row)
        <5> HIDE DEF row
        <5> QED BY <1>7, <2>3, <3>4, <4>1, <4>2
      <4> QED BY <4>3
    <3>5. ASSUME NEW status \in {"CANCELLED", "REJECTED"}, Void(s, status),
                 s \in Vouchers => status = q.status, q.status = "REJECTED",
                 s \in Rewards => status = "CANCELLED"
          PROVE  \E row : Fits(row)
      <4> DEFINE row == [status |-> status, refunded |-> TRUE]
      <4>1. /\ row \in SubjectRows /\ row.status # "NONE"
            /\ subject' = [subject EXCEPT ![s] = row]
            /\ points' \in Nat /\ stock' \in Nat
        BY <1>3, <3>5, VoidFacts
      <4>2. Fits(row)
        BY <3>5, <4>1
      <4> QED BY <4>2
    <3>6. s \in Rewards => s \notin Vouchers
      BY SettlementAssumption
    <3> HIDE DEF Fits
    <3>7. \/ UNCHANGED <<subject, points, stock>> /\ q.status = "PENDING"
          \/ UNCHANGED <<subject, points, stock>> /\ s \in Rewards /\ q.status = "APPROVED"
          \/ Mark(s, "COMPLETED") /\ UNCHANGED <<points, stock>> /\ q.status = "APPROVED"
          \/ Void(s, "REJECTED") /\ q.status = "REJECTED" /\ s \in Vouchers
          \/ Void(s, "CANCELLED") /\ q.status = "REJECTED" /\ s \in Rewards
      BY <1>2 DEF Hook
    <3> QED BY <3>3, <3>4, <3>5, <3>6, <3>7
  <2> HIDE DEF s, b, q, d, r
  <2> QED BY <1>2, <1>3, <1>4, <1>5, <1>11, <2>1, <2>2, <2>4, WriteOK
<1> QED BY <1>9, <1>10

LEMMA ApproverOK ==
  ASSUME IInv, NEW p \in Sessions, Approver(p)
  PROVE  IInv'
<1>1. ASSUME NEW s \in Subjects, NEW admin \in Admins, NEW verdict \in Verdicts,
             ReadApproval(p, s, admin, verdict)
      PROVE  IInv'
  <2>1. MayDecide(request[s], admin)
    BY <1>1 DEF ReadApproval
  <2>2. Status(s) # "NONE"
    BY <2>1 DEF IInv, NoRequestYet, MayDecide
  <2> QED BY <1>1, <2>1, <2>2, DecisionReadOK DEF ReadApproval, Serves
<1>2. CASE Retry(p)
  <2>1. PICK w \in Work : w = work[p]
    BY DEF IInv, TypeOK
  <2>2. /\ w.op \in Verdicts /\ MayDecide(request[w.s], w.admin)
        /\ Begin(p, [w EXCEPT !.seen = Snapshot(w.s)])
    BY <1>2, <2>1 DEF Retry
  <2>3. w.s \in Subjects /\ w.admin \in Admins /\ Status(w.s) # "NONE"
    BY <2>1, <2>2, WorkFacts DEF IInv, InFlight, Since, Verdicts, Waits
  <2>6. <<w.op, w.s>> \in Routes[p]
    BY <2>1, <2>2 DEF IInv, InFlight, Routed, Verdicts
  <2>4. w \in [op : Verdicts, s : Subjects, seen : Snapshots, admin : Admins]
    BY <2>2 DEF Work, Idle, Operations, Verdicts
  <2>5. [w EXCEPT !.seen = Snapshot(w.s)]
          = [op |-> w.op, s |-> w.s, seen |-> Snapshot(w.s), admin |-> w.admin]
    BY <2>4
  <2> QED BY <2>2, <2>3, <2>5, <2>6, DecisionReadOK
<1> QED BY <1>1, <1>2, DecideOK DEF Approver

LEMMA ClerkOK ==
  ASSUME IInv, NEW p \in Sessions, Clerk(p)
  PROVE  IInv'
BY ReadVoucherOK, ReadVoucherToCancelOK, ReadRedemptionOK, UpdateVoucherOK, CancelVoucherOK,
   FulfilOK, CancelRedemptionOK DEF Clerk

LEMMA MemberOK ==
  ASSUME IInv, NEW p \in Sessions, Member(p)
  PROVE  IInv'
BY MemberReadsOK, ExchangeOK, RedeemOK DEF Member

LEMMA StepOK == IInv /\ [Next]_vars => IInv'
<1> SUFFICES ASSUME IInv, [Next]_vars PROVE IInv'
  OBVIOUS
<1>1. ASSUME NEW p \in Sessions, Fail(p)
      PROVE  IInv'
  <2>1. Begin(p, Idle)
    BY <1>1 DEF Fail, Begin, Done
  <2> QED BY <2>1, IdleOK, ReadOK
<1>2. CASE UNCHANGED vars
  <2>1. /\ UNCHANGED <<subject, request, points, stock, work>>
    BY <1>2 DEF vars
  <2>2. (TypeOK /\ RequestsOK /\ NoRequestYet /\ WorkflowVouchersOK)'
    BY <2>1 DEF IInv, TypeOK, RequestsOK, NoRequestYet, WorkflowVouchersOK, VoucherAgrees,
                RefundAgrees, Status
  <2>3. InFlight'
    BY <2>1 DEF IInv, InFlight, Checked, Since, Routed, Status, ClosesRequest
  <2>4. (Requestless /\ WorkflowRedemptionsOK)'
    BY <2>1 DEF IInv, Requestless, WorkflowRedemptionsOK, RedemptionAgrees, Status
  <2> QED BY <2>2, <2>3, <2>4 DEF IInv
<1> QED BY <1>1, <1>2, MemberOK, ClerkOK, ApproverOK DEF Next

LEMMA Inductive == Spec => []IInv
BY InitOK, StepOK, PTL DEF Spec

-----------------------------------------------------------------------------

\* Every row keeps its type, and the points and the stock stay natural numbers,
\* whatever the sessions and routes.
THEOREM TypeCorrect == Spec => []TypeOK
<1>1. IInv => TypeOK
  BY DEF IInv
<1> QED BY <1>1, Inductive, PTL

\* However decisions, cancellations and retries of any number of administrators
\* interleave, no step of a request is passed without the approvals it asks for.
THEOREM StepsHaveQuorum == Spec => []Quorum
<1>1. IInv => Quorum
  BY DEF IInv, RequestsOK, RequestOK, Quorum
<1> QED BY <1>1, Inductive, PTL

\* A pending request can always be decided: no approval is ever lost between two
\* administrators that decide at once.
THEOREM RequestsStayDecidable == Spec => []NeverStuck
<1>1. IInv => NeverStuck
  BY InProgressDecidable DEF IInv, RequestsOK, NeverStuck
<1> QED BY <1>1, Inductive, PTL

\* A voucher with a workflow is completed with its approval or refunded without it,
\* never both, whichever routes and sessions work on it: the part of
\* ApprovalAgrees and RefundedIffVoid that needs no assumption about the clerks.
THEOREM WorkflowVouchersSettleOnce ==
  Spec => [](\A s \in Vouchers \ Legacy : VoucherAgrees(s) /\ RefundAgrees(s))
<1>1. IInv => \A s \in Vouchers \ Legacy : VoucherAgrees(s) /\ RefundAgrees(s)
  BY DEF IInv, WorkflowVouchersOK
<1> QED BY <1>1, Inductive, PTL

\* A subject and its request never tell different stories, whichever sessions
\* decide, cancel, complete or fulfil at once: nothing is fulfilled or completed
\* without its approval, or waits for a request that ended.
THEOREM SubjectsFollowRequests == Spec => []ApprovalAgrees
<1>1. IInv => ApprovalAgrees
  BY DEF IInv, WorkflowVouchersOK, WorkflowRedemptionsOK, ApprovalAgrees
<1> QED BY <1>1, Inductive, PTL

-----------------------------------------------------------------------------
(***************************************************************************)
(* What needs an assumption about the clerks.  A voucher from before the   *)
(* workflows and a redemption are closed by routes that read the status in *)
(* one statement and write it in another: their outcome is sure only when  *)
(* one session at a time works on each (the run settlements_paid_twice     *)
(* shows two that do not).                                                 *)
(***************************************************************************)

Settling == {"approve", "complete", "cancel", "reject", "fulfil", "cancelRedemption", "REJECT"}

Settles(p, s) == \E op \in Settling : <<op, s>> \in Routes[p]

OneClerk ==
  \A s \in Legacy \cup Rewards : \A p, q \in Sessions : Settles(p, s) /\ Settles(q, s) => p = q

\* The status is still what the route read before its write that does not ask.
AsRead(w) ==
  /\ w.op \in {"approve", "complete"} => Target[w.op] \in Transitions[Status(w.s)]
  /\ w.op \in {"fulfil", "cancelRedemption"} => Status(w.s) = "PENDING"

\* There is room for the voucher that is being exchanged.
HasRoom(w) == w.op = "exchange" => Used + 1 <= Limit

CInv == RefundedIffVoid /\ \A p \in Sessions : AsRead(work[p])

\* What a step does to a subject, to the points and to the stock.
Opens(p, s) ==
  /\ work[p].op = IF s \in Vouchers THEN "exchange" ELSE "redeem"
  /\ Status(s) = "NONE"
  /\ points > 0
  /\ s \in Rewards => stock > 0
  /\ Mark(s, "PENDING")
  /\ points' = points - 1
  /\ stock' = IF s \in Rewards THEN stock - 1 ELSE stock

Settled(p, s) ==
  /\ s \in Legacy \cup Rewards => Settles(p, s)
  /\ Status(s) \in {"PENDING", "APPROVED"}
  /\ \/ \E status \in {"APPROVED", "COMPLETED", "FULFILLED"} :
          Mark(s, status) /\ UNCHANGED <<points, stock>>
     \/ \E status \in {"CANCELLED", "REJECTED"} : Void(s, status)

Reads(p, w) ==
  /\ work' = [work EXCEPT ![p] = w]
  /\ UNCHANGED <<subject, points, stock>>
  /\ AsRead(w) /\ HasRoom(w)

Writes(p) == Done(p) /\ \E s \in Subjects : Opens(p, s) \/ Settled(p, s)

Does(p) == Writes(p) \/ \E w \in Work : Reads(p, w)

LEMMA IdleReads == AsRead(Idle) /\ HasRoom(Idle) /\ Idle \in Work
BY DEF AsRead, HasRoom, Idle, Work

LEMMA MemberDoes ==
  ASSUME IInv, NEW p \in Sessions, Member(p)
  PROVE  Does(p)
<1>1. ASSUME NEW s \in Subjects, ReadExchange(p, s) PROVE Does(p)
  <2> DEFINE w == [op |-> "exchange", s |-> s]
  <2>1. w \in Work /\ AsRead(w) /\ HasRoom(w)
    BY <1>1 DEF Work, Operations, Verdicts, AsRead, HasRoom, ReadExchange
  <2>2. Reads(p, w)
    BY <1>1, <2>1 DEF ReadExchange, Begin, Reads
  <2> QED BY <2>1, <2>2 DEF Does
<1>2. ASSUME NEW s \in Subjects, ReadRedeem(p, s) PROVE Does(p)
  <2> DEFINE w == [op |-> "redeem", s |-> s]
  <2>1. w \in Work /\ AsRead(w) /\ HasRoom(w)
    BY DEF Work, Operations, Verdicts, AsRead, HasRoom
  <2>2. Reads(p, w)
    BY <1>2, <2>1 DEF ReadRedeem, Begin, Reads
  <2> QED BY <2>1, <2>2 DEF Does
<1>3. CASE Exchange(p)
  <2> DEFINE s == work[p].s
  <2>1. s \in Subjects /\ s \in Vouchers /\ s \notin Rewards
    BY <1>3, WorkFacts, SettlementAssumption
       DEF IInv, TypeOK, InFlight, Checked, ByVoucher, Exchange
  <2>2. Opens(p, s) /\ Done(p)
    BY <1>3, <2>1 DEF Exchange, Opens
  <2> QED BY <2>1, <2>2 DEF Writes, Does
<1>4. CASE Redeem(p)
  <2> DEFINE s == work[p].s
  <2>1. s \in Subjects /\ s \in Rewards /\ s \notin Vouchers
    BY <1>4, WorkFacts, SettlementAssumption DEF IInv, TypeOK, InFlight, Checked, Redeem
  <2>2. Opens(p, s) /\ Done(p)
    BY <1>4, <2>1 DEF Redeem, Opens
  <2> QED BY <2>1, <2>2 DEF Writes, Does
<1> QED BY <1>1, <1>2, <1>3, <1>4 DEF Member

LEMMA ClerkReads ==
  ASSUME IInv, NEW p \in Sessions, NEW s \in Subjects, NEW op,
         \/ op \in {"approve", "complete"} /\ ReadVoucher(p, s, op)
         \/ op \in {"cancel", "reject"} /\ ReadVoucherToCancel(p, s, op)
         \/ op \in {"fulfil", "cancelRedemption"} /\ ReadRedemption(p, s, op)
  PROVE  Does(p)
<1>1. CASE op \in {"approve", "complete"} /\ ReadVoucher(p, s, op)
  <2> DEFINE w == [op |-> op, s |-> s]
  <2>1. w \in Work /\ AsRead(w) /\ HasRoom(w)
    BY <1>1 DEF Work, Operations, Verdicts, AsRead, HasRoom, ReadVoucher
  <2>2. Reads(p, w)
    BY <1>1, <2>1 DEF ReadVoucher, Begin, Reads
  <2> QED BY <2>1, <2>2 DEF Does
<1>2. CASE op \in {"cancel", "reject"} /\ ReadVoucherToCancel(p, s, op)
  <2> DEFINE w == [op |-> op, s |-> s, seen |-> Snapshot(s)]
  <2>1. w \in Work /\ AsRead(w) /\ HasRoom(w)
    BY <1>2 DEF Work, AsRead, HasRoom, Snapshots, Snapshot, IInv, TypeOK
  <2>2. Reads(p, w)
    BY <1>2, <2>1 DEF ReadVoucherToCancel, Begin, Reads
  <2> QED BY <2>1, <2>2 DEF Does
<1>3. CASE op \in {"fulfil", "cancelRedemption"} /\ ReadRedemption(p, s, op)
  <2> DEFINE w == [op |-> op, s |-> s]
  <2>1. w \in Work /\ AsRead(w) /\ HasRoom(w)
    BY <1>3 DEF Work, Operations, Verdicts, AsRead, HasRoom, ReadRedemption
  <2>2. Reads(p, w)
    BY <1>3, <2>1 DEF ReadRedemption, Begin, Reads
  <2> QED BY <2>1, <2>2 DEF Does
<1> QED BY <1>1, <1>2, <1>3

\* Nothing follows what has ended, and nothing follows on what is not there.
LEMMA OpenTransitions ==
  ASSUME NEW row \in SubjectRows, NEW status, status \in Transitions[row.status],
         row.status # "FULFILLED"
  PROVE  row.status \in {"PENDING", "APPROVED"}
<1>1. row.status \in {"NONE", "PENDING", "APPROVED", "COMPLETED", "CANCELLED", "REJECTED"}
  BY DEF SubjectRows, Final
<1>2. row.status \in {"NONE", "COMPLETED", "CANCELLED", "REJECTED"} => Transitions[row.status] = {}
  BY DEF Transitions
<1> QED BY <1>1, <1>2

LEMMA ClerkWrites ==
  ASSUME IInv, CInv, NEW p \in Sessions,
         UpdateVoucher(p) \/ CancelVoucher(p) \/ Fulfil(p) \/ CancelRedemption(p)
  PROVE  Writes(p)
<1>1. PICK w \in Work : w = work[p]
  BY DEF IInv, TypeOK
<1> DEFINE s == w.s
<1>2. /\ w.op \in {"approve", "complete", "cancel", "reject", "fulfil", "cancelRedemption"}
      /\ Done(p)
  BY <1>1 DEF UpdateVoucher, CancelVoucher, Fulfil, CancelRedemption
<1>3. /\ s \in Subjects /\ subject[s] \in SubjectRows
      /\ Checked(w) /\ AsRead(w) /\ <<w.op, s>> \in Routes[p]
  BY <1>1, <1>2, WorkFacts DEF IInv, InFlight, Routed, CInv, TypeOK
<1>4. Settles(p, s)
  BY <1>2, <1>3 DEF Settles, Settling
<1>10. s \in Vouchers => Status(s) # "FULFILLED"
  BY DEF IInv, Requestless, WorkflowVouchersOK, VoucherAgrees
<1>5. SUFFICES Settled(p, s)
  BY <1>2, <1>3 DEF Writes
<1>6. CASE UpdateVoucher(p)
  <2>3. /\ Target[w.op] \in {"APPROVED", "COMPLETED"}
        /\ Target[w.op] \in Transitions[Status(s)]
    BY <1>1, <1>3, <1>6 DEF AsRead, Target, UpdateVoucher
  <2>1. Status(s) \in {"PENDING", "APPROVED"} /\ Target[w.op] \in {"APPROVED", "COMPLETED"}
    BY <1>1, <1>3, <1>6, <1>10, <2>3, OpenTransitions
       DEF Checked, ByVoucher, UpdateVoucher, Status
  <2>2. Mark(s, Target[w.op]) /\ UNCHANGED <<points, stock>>
    BY <1>1, <1>6 DEF UpdateVoucher
  <2> QED BY <1>4, <2>1, <2>2 DEF Settled
<1>7. CASE CancelVoucher(p)
  <2>1. /\ w.op \in {"cancel", "reject"} /\ Void(s, Target[w.op])
        /\ subject[s] = w.seen.subject
    BY <1>1, <1>7 DEF CancelVoucher, CancelConflicts
  <2>2. Target[w.op] \in Transitions[Status(s)] /\ Target[w.op] \in {"CANCELLED", "REJECTED"}
    BY <1>3, <2>1 DEF Checked, Target, Status
  <2>3. Status(s) \in {"PENDING", "APPROVED"}
    BY <1>3, <1>10, <2>1, <2>2, OpenTransitions DEF Checked, ByVoucher, Status
  <2> QED BY <1>4, <2>1, <2>2, <2>3 DEF Settled
<1>8. CASE Fulfil(p)
  <2>1. /\ Status(s) = "PENDING"
        /\ Mark(s, "FULFILLED") /\ UNCHANGED <<points, stock>>
    BY <1>1, <1>3, <1>8 DEF AsRead, Fulfil
  <2> QED BY <1>4, <2>1 DEF Settled
<1>9. CASE CancelRedemption(p)
  <2>1. Status(s) = "PENDING" /\ Void(s, "CANCELLED")
    BY <1>1, <1>3, <1>9 DEF AsRead, CancelRedemption
  <2> QED BY <1>4, <2>1 DEF Settled
<1> QED BY <1>6, <1>7, <1>8, <1>9

LEMMA DecideDoes ==
  ASSUME IInv, NEW p \in Sessions, Decide(p)
  PROVE  Does(p)
<1>1. PICK w \in Work : w = work[p]
  BY DEF IInv, TypeOK
<1> DEFINE s == w.s
           b == w.seen.request
           q == Outcome(w)
<1>2. w.op \in Verdicts /\ ~DecisionConflicts(w) /\ Hook(w) /\ Done(p)
  BY <1>1 DEF Decide
<1>3. /\ s \in Subjects /\ Checked(w) /\ <<w.op, s>> \in Routes[p] /\ s \notin Legacy
      /\ b.status = "PENDING" /\ b \in Requests
  <2>1. w.op # "idle"
    BY <1>2 DEF Verdicts
  <2> QED BY <1>1, <1>2, <2>1, WorkFacts DEF IInv, InFlight, Routed, Checked, MayDecide
<1>4. w.op = "APPROVE" => q.status \in {"PENDING", "APPROVED"}
  <2>1. SUFFICES ASSUME w.op = "APPROVE" PROVE q.status \in {"PENDING", "APPROVED"}
    OBVIOUS
  <2> DEFINE r == Recorded(b, w.admin, w.op)
  <2>2. "status" \in DOMAIN r /\ r.status = "PENDING"
    BY <1>3 DEF Recorded, Requests
  <2>3. q = r \/ q = Advanced(r)
    BY <2>1 DEF Outcome, Decided
  <2> HIDE DEF r, q
  <2>4. Advanced(r).status \in {"PENDING", "APPROVED"}
    <3>1. CASE r.current = Len(Workflow)
      BY <2>2, <3>1 DEF Advanced
    <3>2. CASE r.current # Len(Workflow)
      BY <2>2, <3>2 DEF Advanced
    <3> QED BY <3>1, <3>2
  <2> QED BY <2>2, <2>3, <2>4
<1>5. CASE UNCHANGED <<subject, points, stock>>
  <2>1. Reads(p, Idle)
    BY <1>2, <1>5, IdleReads DEF Reads, Done
  <2> QED BY <2>1, IdleReads DEF Does
<1>6. CASE ~UNCHANGED <<subject, points, stock>>
  <2>1. q.status # "PENDING"
    <3>1. /\ q.status = "PENDING" => s \in Vouchers \cup Rewards
      BY <1>3 DEF Subjects
    <3> QED BY <1>2, <1>6 DEF Hook
  <2>2. /\ w.seen.subject.status = "PENDING"
        /\ \/ Mark(s, "COMPLETED") /\ UNCHANGED <<points, stock>>
           \/ Void(s, "REJECTED") /\ q.status = "REJECTED"
           \/ Void(s, "CANCELLED") /\ q.status = "REJECTED"
        /\ s \in Rewards => q.status = "REJECTED"
    BY <1>2, <1>6, SettlementAssumption DEF Hook
  <2>3. ~OnlyRecords(w)
    BY <1>3, <2>1 DEF OnlyRecords, Row, Requests
  <2>4. subject[s] = w.seen.subject
    BY <1>2, <2>3 DEF DecisionConflicts, Snapshot
  <2>5. s \in Rewards => Settles(p, s)
    BY <1>2, <1>3, <1>4, <2>2 DEF Settles, Settling, Verdicts
  <2>6. Settled(p, s)
    BY <1>3, <2>2, <2>4, <2>5 DEF Settled, Status
  <2> QED BY <1>2, <1>3, <2>6 DEF Writes, Does
<1> QED BY <1>5, <1>6

LEMMA StepDoes ==
  ASSUME IInv, CInv, Next
  PROVE  \E p \in Sessions : Does(p)
<1>1. PICK p \in Sessions : Member(p) \/ Clerk(p) \/ Approver(p) \/ Fail(p)
  BY DEF Next
<1>2. CASE Clerk(p)
  BY <1>2, ClerkReads, ClerkWrites DEF Clerk, Does
<1>3. CASE Fail(p)
  <2>1. Reads(p, Idle)
    BY <1>3, IdleReads DEF Fail, Done, Reads
  <2> QED BY <2>1, IdleReads DEF Does
<1>4. ASSUME NEW s \in Subjects, NEW admin \in Admins, NEW verdict \in Verdicts,
             ReadApproval(p, s, admin, verdict)
      PROVE  Does(p)
  <2> DEFINE w == [op |-> verdict, s |-> s, seen |-> Snapshot(s), admin |-> admin]
  <2>1. w \in Work /\ AsRead(w) /\ HasRoom(w)
    BY DEF Work, Verdicts, AsRead, HasRoom, Snapshots, Snapshot, IInv, TypeOK
  <2>2. Reads(p, w)
    BY <1>4, <2>1 DEF ReadApproval, Begin, Reads
  <2> QED BY <2>1, <2>2 DEF Does
<1>5. CASE Retry(p)
  <2>1. PICK v \in Work : v = work[p]
    BY DEF IInv, TypeOK
  <2> DEFINE w == [v EXCEPT !.seen = Snapshot(v.s)]
  <2>2. /\ v.op \in Verdicts /\ Begin(p, w) /\ v.s \in Subjects
    BY <1>5, <2>1, WorkFacts DEF Retry, Verdicts
  <2>3. v \in [op : Verdicts, s : Subjects, seen : Snapshots, admin : Admins]
    BY <2>2 DEF Work, Idle, Operations, Verdicts
  <2>4. Snapshot(v.s) \in Snapshots
    BY <2>2 DEF Snapshots, Snapshot, IInv, TypeOK
  <2>5. w \in [op : Verdicts, s : Subjects, seen : Snapshots, admin : Admins]
    BY <2>3, <2>4
  <2>6. w \in Work /\ AsRead(w) /\ HasRoom(w)
    BY <2>5 DEF Work, AsRead, HasRoom, Verdicts
  <2>7. Reads(p, w)
    BY <2>2, <2>6 DEF Begin, Reads
  <2> QED BY <2>6, <2>7 DEF Does
<1> QED BY <1>1, <1>2, <1>3, <1>4, <1>5, MemberDoes, DecideDoes DEF Approver

-----------------------------------------------------------------------------
(* One clerk: the refunds.                                                 *)

\* What is written by another session is not what this one is about to write.
LEMMA CStep ==
  ASSUME OneClerk, IInv, CInv, [Next]_vars
  PROVE  CInv'
<1>1. CASE UNCHANGED vars
  BY <1>1 DEF vars, CInv, AsRead, RefundedIffVoid, RefundAgrees, Status
<1>2. ASSUME NEW p \in Sessions, NEW w \in Work, Reads(p, w)
      PROVE  CInv'
  <2>1. subject' = subject /\ \A q \in Sessions : AsRead(work'[q])
    BY <1>2 DEF Reads, CInv, IInv, TypeOK
  <2>2. RefundedIffVoid'
    BY <2>1 DEF CInv, RefundedIffVoid, RefundAgrees, Status
  <2>3. \A q \in Sessions : AsRead(work[q])'
    BY <2>1 DEF AsRead, Status
  <2> QED BY <2>2, <2>3 DEF CInv
<1>3. ASSUME NEW p \in Sessions, Done(p), NEW s \in Subjects, Opens(p, s) \/ Settled(p, s)
      PROVE  CInv'
  <2>1. PICK row \in SubjectRows :
          /\ subject' = [subject EXCEPT ![s] = row]
          /\ row.refunded <=> row.status \in {"CANCELLED", "REJECTED"}
    <3>1. subject[s] \in SubjectRows /\ RefundAgrees(s)
      BY DEF IInv, CInv, TypeOK, RefundedIffVoid
    <3>2. ASSUME NEW status \in {"PENDING", "APPROVED", "COMPLETED", "FULFILLED"}, Mark(s, status),
                 Status(s) \in {"NONE", "PENDING", "APPROVED"}
          PROVE  \E row \in SubjectRows :
                   /\ subject' = [subject EXCEPT ![s] = row]
                   /\ row.refunded <=> row.status \in {"CANCELLED", "REJECTED"}
      <4> DEFINE row == [subject[s] EXCEPT !.status = status]
      <4>1. row \in SubjectRows /\ row.status = status /\ row.refunded = subject[s].refunded
        BY <3>1 DEF SubjectRows, Final
      <4>2. subject' = [subject EXCEPT ![s] = row]
        BY <3>2 DEF Mark
      <4>3. ~row.refunded
        BY <3>1, <3>2, <4>1 DEF RefundAgrees, Status
      <4> HIDE DEF row
      <4> QED BY <4>1, <4>2, <4>3
    <3>3. ASSUME NEW status \in {"CANCELLED", "REJECTED"}, Void(s, status)
          PROVE  \E row \in SubjectRows :
                   /\ subject' = [subject EXCEPT ![s] = row]
                   /\ row.refunded <=> row.status \in {"CANCELLED", "REJECTED"}
      <4> DEFINE row == [status |-> status, refunded |-> TRUE]
      <4>1. row \in SubjectRows /\ subject' = [subject EXCEPT ![s] = row]
        BY <3>3 DEF Void, SubjectRows, Final
      <4>2. row.refunded <=> row.status \in {"CANCELLED", "REJECTED"}
        OBVIOUS
      <4> QED BY <4>1, <4>2
    <3>4. CASE Opens(p, s)
      BY <3>2, <3>4 DEF Opens
    <3>5. CASE Settled(p, s)
      BY <3>2, <3>3, <3>5 DEF Settled
    <3> QED BY <1>3, <3>4, <3>5
  <2>2. \A x \in Subjects : subject'[x] = IF x = s THEN row ELSE subject[x]
    BY <2>1 DEF IInv, TypeOK
  <2>3. RefundedIffVoid'
    BY <2>1, <2>2 DEF CInv, RefundedIffVoid, RefundAgrees, Status
  <2>4. ASSUME NEW q \in Sessions
        PROVE  AsRead(work[q])'
    <3>1. PICK v \in Work : v = work[q]
      BY DEF IInv, TypeOK
    <3>2. work'[q] = IF q = p THEN Idle ELSE v
      BY <1>3, <3>1 DEF Done, IInv, TypeOK
    <3>3. CASE q = p \/ v.op \notin {"approve", "complete", "fulfil", "cancelRedemption"}
      BY <3>2, <3>3 DEF AsRead, Idle
    <3>4. CASE q # p /\ v.op \in {"approve", "complete", "fulfil", "cancelRedemption"}
      <4>1. /\ v.s \in Subjects /\ v.s \in Legacy \cup Rewards
            /\ <<v.op, v.s>> \in Routes[q] /\ AsRead(v) /\ Status(v.s) # "NONE"
        BY <3>1, <3>4, WorkFacts DEF IInv, CInv, InFlight, Checked, Since, Routed, Waits
      <4>2. Settles(q, v.s)
        BY <3>4, <4>1 DEF Settles, Settling
      <4>3. v.s # s
        <5>1. Settled(p, s) /\ v.s = s => Settles(p, s)
          BY <4>1 DEF Settled
        <5> QED BY <1>3, <3>4, <4>1, <4>2, <5>1 DEF OneClerk, Opens
      <4>4. subject'[v.s] = subject[v.s]
        BY <2>2, <4>1, <4>3
      <4> QED BY <3>2, <3>4, <4>1, <4>4 DEF AsRead, Status
    <3> QED BY <3>3, <3>4
  <2> QED BY <2>3, <2>4 DEF CInv
<1> QED BY <1>1, <1>2, <1>3, StepDoes DEF Does, Writes

LEMMA CInit == Init => CInv
<1> SUFFICES ASSUME Init PROVE CInv
  OBVIOUS
<1>1. RefundedIffVoid
  BY DEF Init, RefundedIffVoid, RefundAgrees, Status
<1>2. \A p \in Sessions : AsRead(work[p])
  BY IdleReads DEF Init
<1> QED BY <1>1, <1>2 DEF CInv

LEMMA CHolds ==
  ASSUME OneClerk
  PROVE  Spec => [](IInv /\ CInv)
<1>1. IInv /\ CInv /\ [Next]_vars => CInv'
  BY CStep
<1> QED BY <1>1, CInit, InitOK, StepOK, PTL DEF Spec

\* With one session at a time on each voucher from before the workflows and each
\* redemption, whatever is cancelled or rejected is refunded and nothing else is,
\* however approvers, cancellations, failures and retries interleave.
THEOREM RefundsAreExact ==
  ASSUME OneClerk
  PROVE  Spec => []RefundedIffVoid
<1>1. IInv /\ CInv => RefundedIffVoid
  BY DEF CInv
<1>2. Spec => [](IInv /\ CInv)
  BY CHolds
<1> QED BY <1>1, <1>2, PTL

-----------------------------------------------------------------------------
(* One clerk: the refinement of Outcomes.  A subject is opened, paid or void *)
(* by the one step that writes its row; every other step leaves outcomes as  *)
(* they are.                                                                 *)

OutcomeNow == [s \in Subjects |-> OutcomeOf(Status(s))]

LEMMA OutcomeFacts ==
  /\ OutcomeOf("NONE") = "none"
  /\ OutcomeOf("PENDING") = "open" /\ OutcomeOf("APPROVED") = "open"
  /\ OutcomeOf("COMPLETED") = "paid" /\ OutcomeOf("FULFILLED") = "paid"
  /\ OutcomeOf("CANCELLED") = "void" /\ OutcomeOf("REJECTED") = "void"
BY DEF OutcomeOf

\* What a written status makes of the outcomes.
LEMMA OutcomeWritten ==
  ASSUME IInv, NEW s \in Subjects, NEW row \in SubjectRows,
         subject' = [subject EXCEPT ![s] = row]
  PROVE  OutcomeNow' = [OutcomeNow EXCEPT ![s] = OutcomeOf(row.status)]
<1>1. \A x \in Subjects : Status(x)' = IF x = s THEN row.status ELSE Status(x)
  BY DEF IInv, TypeOK, Status
<1>2. OutcomeNow' = [x \in Subjects |-> OutcomeOf(subject'[x].status)]
  BY DEF OutcomeNow, Status, OutcomeOf
<1>3. \A x \in Subjects : OutcomeOf(subject'[x].status)
         = IF x = s THEN OutcomeOf(row.status) ELSE OutcomeOf(Status(x))
  BY <1>1 DEF Status
<1> QED BY <1>2, <1>3 DEF OutcomeNow

LEMMA MarkedRow ==
  ASSUME IInv, NEW s \in Subjects, NEW status, Mark(s, status),
         status \in {"PENDING", "APPROVED", "COMPLETED", "FULFILLED"}
  PROVE  OutcomeNow' = [OutcomeNow EXCEPT ![s] = OutcomeOf(status)]
<1> DEFINE row == [subject[s] EXCEPT !.status = status]
<1>1. subject[s] \in SubjectRows
  BY DEF IInv, TypeOK
<1>2. row \in SubjectRows /\ row.status = status
  BY <1>1 DEF SubjectRows, Final
<1>3. subject' = [subject EXCEPT ![s] = row]
  BY DEF Mark
<1> HIDE DEF row
<1> QED BY <1>2, <1>3, OutcomeWritten

LEMMA OpensPromise ==
  ASSUME IInv, NEW p \in Sessions, NEW s \in Subjects, Opens(p, s)
  PROVE  Promise!Open(s)
<1>1. OutcomeNow' = [OutcomeNow EXCEPT ![s] = "open"]
  BY MarkedRow, OutcomeFacts DEF Opens
<1>2. OutcomeNow[s] = "none"
  BY OutcomeFacts DEF OutcomeNow, Opens
<1>3. /\ points > 0 /\ stock >= Promise!Item(s)
      /\ points' = points - 1 /\ stock' = stock - Promise!Item(s)
  BY DEF Opens, Promise!Item, IInv, TypeOK
<1> QED BY <1>1, <1>2, <1>3 DEF Promise!Open, OutcomeNow

\* A payment, or an approval that leaves the outcome open.
LEMMA PaysPromise ==
  ASSUME IInv, NEW s \in Subjects, Status(s) \in {"PENDING", "APPROVED"},
         NEW status \in {"APPROVED", "COMPLETED", "FULFILLED"}, Mark(s, status),
         UNCHANGED <<points, stock>>
  PROVE  Promise!Pay(s) \/ UNCHANGED <<OutcomeNow, points, stock>>
<1>1. OutcomeNow' = [OutcomeNow EXCEPT ![s] = OutcomeOf(status)] /\ OutcomeNow[s] = "open"
  BY MarkedRow, OutcomeFacts DEF OutcomeNow
<1>2. CASE status = "APPROVED"
  BY <1>1, <1>2, OutcomeFacts DEF OutcomeNow
<1>3. CASE status # "APPROVED"
  <2>1. OutcomeOf(status) = "paid"
    BY <1>3, OutcomeFacts
  <2> QED BY <1>1, <2>1 DEF Promise!Pay, OutcomeNow
<1> QED BY <1>2, <1>3

LEMMA VoidPromise ==
  ASSUME IInv, CInv, NEW s \in Subjects, Status(s) \in {"PENDING", "APPROVED"},
         NEW status \in {"CANCELLED", "REJECTED"}, Void(s, status)
  PROVE  Promise!Void(s)
<1> DEFINE row == [status |-> status, refunded |-> TRUE]
<1>1. row \in SubjectRows /\ subject' = [subject EXCEPT ![s] = row] /\ row.status = status
  BY DEF Void, SubjectRows, Final
<1>2. OutcomeNow' = [OutcomeNow EXCEPT ![s] = "void"]
  <2>1. OutcomeOf(row.status) = "void"
    BY <1>1, OutcomeFacts
  <2> HIDE DEF row
  <2> QED BY <1>1, <2>1, OutcomeWritten
<1>3. OutcomeNow[s] = "open"
  BY OutcomeFacts DEF OutcomeNow
<1>4. points' = points + 1 /\ stock' = stock + Promise!Item(s)
  BY DEF Void, Promise!Item, CInv, RefundedIffVoid, RefundAgrees, IInv, TypeOK
<1> QED BY <1>2, <1>3, <1>4 DEF Promise!Void, OutcomeNow

LEMMA PromiseStep ==
  ASSUME IInv, CInv, [Next]_vars
  PROVE  [Promise!Next]_<<OutcomeNow, points, stock>>
<1>1. CASE UNCHANGED vars
  BY <1>1 DEF vars, OutcomeNow, Status
<1>2. ASSUME NEW p \in Sessions, NEW w \in Work, Reads(p, w)
      PROVE  UNCHANGED <<OutcomeNow, points, stock>>
  BY <1>2 DEF Reads, OutcomeNow, Status
<1>3. ASSUME NEW p \in Sessions, NEW s \in Subjects, Opens(p, s) \/ Settled(p, s)
      PROVE  Promise!Open(s) \/ Promise!Pay(s) \/ Promise!Void(s)
               \/ UNCHANGED <<OutcomeNow, points, stock>>
  BY <1>3, OpensPromise, PaysPromise, VoidPromise DEF Settled
<1>4. Subjects = Promise!Subjects
  BY DEF Subjects, Promise!Subjects
<1> QED BY <1>1, <1>2, <1>3, <1>4, StepDoes DEF Does, Writes, Promise!Next

\* With one clerk on each, everything that sessions, routes and hooks do to vouchers
\* and redemptions amounts to steps of Outcomes: a subject is opened once for one
\* point and one item, and ends once, paid or with both given back.
THEOREM SubjectsEndOnce ==
  ASSUME OneClerk
  PROVE  Spec => ImplementsOutcomes
<1>1. Init => Promise!Init
  <2> SUFFICES ASSUME Init PROVE Promise!Init
    OBVIOUS
  <2>1. \A s \in Subjects : OutcomeOf(Status(s)) = IF s \in Legacy THEN "open" ELSE "none"
    BY OutcomeFacts DEF Init, Status
  <2> QED BY <2>1 DEF Promise!Init, Promise!Subjects, Subjects, Init
<1>2. IInv /\ CInv /\ [Next]_vars => [Promise!Next]_<<OutcomeNow, points, stock>>
  BY PromiseStep
<1>3. Spec => [](IInv /\ CInv)
  BY CHolds
<1> QED BY <1>1, <1>2, <1>3, PTL DEF Spec, ImplementsOutcomes, Promise!Spec, OutcomeNow

-----------------------------------------------------------------------------
(* One exchange at a time: the limit of the period, which is checked in one  *)
(* statement and used in another (the run settlements_period_limit shows two *)
(* requests that pass it together).                                          *)

OneExchange ==
  \A p, q \in Sessions, s, t \in Vouchers :
    <<"exchange", s>> \in Routes[p] /\ <<"exchange", t>> \in Routes[q] => p = q

Uncounted == {"NONE", "CANCELLED", "REJECTED"}

Counted == {s \in Vouchers : Status(s) \notin Uncounted}

LInv == Used <= Limit /\ \A p \in Sessions : HasRoom(work[p])

LEMMA UsedIsCounted ==
  /\ Used = Cardinality(Counted) /\ Used' = Cardinality(Counted')
  /\ IsFiniteSet(Vouchers)
  /\ IsFiniteSet(Counted) /\ Used \in Nat
<1>1. IsFiniteSet(Vouchers)
  <2>1. Vouchers \subseteq Subjects
    BY DEF Subjects
  <2> QED BY <2>1, FS_Subset, SettlementAssumption
<1>2. Counted \subseteq Vouchers
  BY DEF Counted
<1>3. IsFiniteSet(Counted) /\ Cardinality(Counted) \in Nat
  BY <1>1, <1>2, FS_Subset, FS_CardinalityType
<1> QED BY <1>1, <1>3 DEF Used, Counted, Uncounted, Status

LEMMA OpenedCounts ==
  ASSUME IInv, NEW p \in Sessions, NEW s \in Subjects, Opens(p, s)
  PROVE  Used' = IF s \in Vouchers THEN Used + 1 ELSE Used
<1>1. \A x \in Subjects : Status(x)' = IF x = s THEN "PENDING" ELSE Status(x)
  BY DEF IInv, TypeOK, Status, Opens, Mark, SubjectRows
<1>2. Counted' = IF s \in Vouchers THEN Counted \cup {s} ELSE Counted
  BY <1>1 DEF Counted, Uncounted, Subjects
<1>3. s \notin Counted
  BY DEF Counted, Uncounted, Opens
<1>4. Cardinality(Counted \cup {s}) = Cardinality(Counted) + 1
  BY <1>3, UsedIsCounted, FS_AddElement
<1> QED BY <1>2, <1>4, UsedIsCounted

LEMMA SettledCounts ==
  ASSUME IInv, NEW p \in Sessions, NEW s \in Subjects, Settled(p, s)
  PROVE  Used' \in Nat /\ Used' <= Used
<1>1. \A x \in Subjects : x # s => Status(x)' = Status(x)
  BY DEF IInv, TypeOK, Status, Settled, Mark, Void
<1>2. s \in Vouchers => s \in Counted
  BY DEF Settled, Counted, Uncounted
<1>3. Counted' \subseteq Counted
  BY <1>1, <1>2 DEF Counted, Subjects
<1>4. Cardinality(Counted') \in Nat /\ Cardinality(Counted') <= Cardinality(Counted)
  BY <1>3, UsedIsCounted, FS_Subset, FS_CardinalityType
<1> QED BY <1>4, UsedIsCounted

LEMMA LStep ==
  ASSUME OneExchange, IInv, CInv, LInv, [Next]_vars
  PROVE  LInv'
<1> USE SettlementAssumption, UsedIsCounted
<1>1. CASE UNCHANGED vars
  BY <1>1 DEF vars, LInv, HasRoom, Used, Status
<1>2. ASSUME NEW p \in Sessions, NEW w \in Work, Reads(p, w)
      PROVE  LInv'
  <2>1. Used' = Used
    BY <1>2 DEF Reads, Used, Status
  <2>2. \A q \in Sessions : HasRoom(work'[q])
    BY <1>2 DEF Reads, LInv, IInv, TypeOK
  <2> QED BY <2>1, <2>2 DEF LInv, HasRoom
<1>3. ASSUME NEW p \in Sessions, Done(p), NEW s \in Subjects, Opens(p, s) \/ Settled(p, s)
      PROVE  LInv'
  <2>1. \A q \in Sessions : work'[q] = IF q = p THEN Idle ELSE work[q]
    BY <1>3 DEF Done, IInv, TypeOK
  <2>2. Idle.op # "exchange"
    BY DEF Idle
  <2>3. CASE Used' \in Nat /\ Used' <= Used
    <3>1. \A q \in Sessions : HasRoom(work[q])'
      BY <2>1, <2>2, <2>3 DEF LInv, HasRoom
    <3>2. Used' <= Limit
      BY <2>3 DEF LInv
    <3> QED BY <3>1, <3>2 DEF LInv
  <2>4. CASE Opens(p, s) /\ s \in Vouchers
    <3>1. Used' = Used + 1 /\ work[p].op = "exchange"
      BY <2>4, OpenedCounts DEF Opens
    <3>2. Used' <= Limit
      BY <3>1 DEF LInv, HasRoom
    <3>3. ASSUME NEW q \in Sessions, q # p PROVE work[q].op # "exchange"
      <4>1. ASSUME NEW x \in Sessions, work[x].op = "exchange"
            PROVE  \E t \in Vouchers : <<"exchange", t>> \in Routes[x]
        BY <4>1 DEF IInv, InFlight, Checked, Routed, ByVoucher
      <4> QED BY <3>1, <3>3, <4>1 DEF OneExchange
    <3>4. \A q \in Sessions : HasRoom(work[q])'
      BY <2>1, <2>2, <3>3 DEF HasRoom
    <3> QED BY <3>2, <3>4 DEF LInv
  <2> QED BY <1>3, <2>3, <2>4, OpenedCounts, SettledCounts
<1> QED BY <1>1, <1>2, <1>3, StepDoes DEF Does, Writes

\* With one exchange of the member at a time, one clerk on each voucher from before
\* the workflows, and those within the limit, the points spent on vouchers and not
\* given back stay within the limit of the period.
THEOREM ExchangesStayWithinLimit ==
  ASSUME OneClerk, OneExchange, Cardinality(Legacy) <= Limit
  PROVE  Spec => []PeriodLimit
<1>1. Init => LInv
  <2> SUFFICES ASSUME Init PROVE LInv
    OBVIOUS
  <2>1. Counted = Legacy
    BY SettlementAssumption DEF Init, Counted, Uncounted, Status, Subjects
  <2>2. \A p \in Sessions : HasRoom(work[p])
    BY IdleReads DEF Init
  <2> QED BY <2>1, <2>2, UsedIsCounted DEF LInv
<1>2. IInv /\ CInv /\ LInv /\ [Next]_vars => LInv'
  BY LStep
<1>3. IInv /\ CInv /\ LInv => PeriodLimit
  <2> SUFFICES ASSUME IInv, CInv, LInv PROVE PeriodLimit
    OBVIOUS
  <2>1. {s \in Vouchers : Status(s) # "NONE" /\ ~subject[s].refunded} = Counted
    BY DEF CInv, RefundedIffVoid, RefundAgrees, Counted, Uncounted, Subjects, Status
  <2> QED BY <2>1, UsedIsCounted DEF PeriodLimit, LInv
<1>4. Spec => [](IInv /\ CInv)
  BY CHolds
<1> QED BY <1>1, <1>2, <1>3, <1>4, PTL DEF Spec
=============================================================================
