------------------------------ MODULE Earnings ------------------------------
(***************************************************************************)
(* What a professional earns and withdraws: settlement of completed        *)
(* bookings (internal/payments/service.go:469, called by the OnCompleted   *)
(* hook of cmd/api/main.go:255) and payouts (internal/payouts).            *)
(*                                                                         *)
(* One professional's wallet and the platform's, both in the Ledger.       *)
(* Credit and Debit are single steps by LedgerTx; everything else between  *)
(* them interleaves, and stops anywhere.  Amounts are whole kobo, where    *)
(* the code rounds float64 values to two decimals.                         *)
(*                                                                         *)
(* Left out: what the professional pays as a customer of others, with the  *)
(* same wallet.                                                            *)
(***************************************************************************)
EXTENDS Integers, Sums

CONSTANTS
  Bookings,     \* the professional's bookings
  TotalOf,      \* bookings.total_amount
  FeePercent,   \* PLATFORM_FEE_PERCENT
  Completers,   \* requests to complete a booking, running at the same time
  Withdrawers,  \* requests for a payout, running at the same time
  Payouts,      \* ids of the payouts a run may make
  Asks,         \* amounts asked for
  None

ASSUME SettlementAssumption ==
  /\ TotalOf \in [Bookings -> Nat]
  /\ FeePercent \in 0..100
  /\ Asks \subseteq Nat \ {0}
ASSUME ProcessesAssumption ==
  /\ Completers \cap Withdrawers = {}
  /\ None \notin Bookings \cup Payouts

VARIABLES
  completed,  \* bookings whose status is COMPLETED
  matured,    \* bookings whose earning is older than PAYOUT_HOLDING_PERIOD
  payout,     \* the rows of payouts
  balance,    \* wallets.balance
  entries,    \* wallet_transactions
  pc,         \* the next statement of each request
  working,    \* the booking or payout each request is about
  asked,      \* the amount of each request for a payout
  seen,       \* wallet.Balance as each request for a payout read it
  \* History variables: no guard reads them.
  stale,      \* requests for a payout that another's debit overtook since they read
  overtaken   \* the withdrawals of such requests

ledger == <<balance, entries>>
locals == <<working, asked, seen>>
races == <<stale, overtaken>>
vars == <<completed, matured, payout, ledger, pc, locals, races>>

-----------------------------------------------------------------------------
Requests == Completers \cup Withdrawers
Steps == {"idle", "notify", "earn", "fee", "pending", "debit", "create"}
Rows == [status : {"NONE", "PENDING", "PAID"}, amount : Asks \cup {0}]

\* roundMoney of a percentage, half away from zero.
Fee(b) == (TotalOf[b] * FeePercent + 50) \div 100
Earnings(b) == TotalOf[b] - Fee(b)

\* applyLedger refuses an amount of 0 before it begins.
Amounts == ({Fee(b) : b \in Bookings} \cup {Earnings(b) : b \in Bookings} \cup Asks) \ {0}
References == ({"earn", "fee"} \X Bookings) \cup ({"payout"} \X Payouts)
Users == {"professional", "platform"}

Wallets == INSTANCE Ledger

Earning(b) == [user |-> "professional", type |-> "CREDIT", amount |-> Earnings(b),
               reference |-> <<"earn", b>>]
PlatformFee(b) == [user |-> "platform", type |-> "CREDIT", amount |-> Fee(b),
                   reference |-> <<"fee", b>>]
Withdrawal(p, a) == [user |-> "professional", type |-> "DEBIT", amount |-> a,
                     reference |-> <<"payout", p>>]

Earned(b) == Wallets!TransactionExists(<<"earn", b>>)

\* SumEarnings of the bookings whose earning is recent enough.
SumEarnings(recent) ==
  Total([b \in Bookings |-> Earnings(b)], {b \in recent : Earned(b)})

\* PendingEarnings: the earnings inside the holding period.
PendingEarnings == SumEarnings(Bookings \ matured)

\* EarningsSummary, what a professional is shown; the sums of the week and of the
\* month are more of the same.
EarningsSummary ==
  LET free == balance["professional"] - PendingEarnings IN
  [total |-> SumEarnings(Bookings), pending |-> PendingEarnings,
   available |-> IF free < 0 THEN 0 ELSE free]

\* A variant that lets the holding period pass unnoticed.
WholeBalance(w) == seen[w]

\* AvailableBalance, from a wallet read before and the earnings read now; below
\* 0 it is 0, which no request is content with either.
AvailableBalance(w) == seen[w] - PendingEarnings

Goto(r, step) == pc' = [pc EXCEPT ![r] = step]
Finish(r) == Goto(r, "idle") /\ working' = [working EXCEPT ![r] = None]

Init ==
  /\ completed = {}
  /\ matured = {}
  /\ payout = [p \in Payouts |-> [status |-> "NONE", amount |-> 0]]
  /\ Wallets!Init
  /\ pc = [r \in Requests |-> "idle"]
  /\ working = [r \in Requests |-> None]
  /\ asked = [w \in Withdrawers |-> 0]
  /\ seen = [w \in Withdrawers |-> 0]
  /\ stale = {}
  /\ overtaken = {}

-----------------------------------------------------------------------------
(* Completion and settlement. *)

\* CompleteStatus: of two requests one wins, and fires the hook.
Complete(r, b) ==
  /\ pc[r] = "idle"
  /\ b \notin completed
  /\ completed' = completed \cup {b}
  /\ Goto(r, "notify")
  /\ working' = [working EXCEPT ![r] = b]
  /\ UNCHANGED <<matured, payout, ledger, asked, seen, races>>

\* Confirm takes a COMPLETED booking back to CONFIRMED, so that it can be
\* completed again (bookings/service.go:307).
ConfirmAgain(b) ==
  /\ b \in completed
  /\ completed' = completed \ {b}
  /\ UNCHANGED <<matured, payout, ledger, pc, locals, races>>

\* The notification of the customer succeeded; SettleBooking begins, which has
\* nothing to do for a booking without a price.
Notified(r) ==
  /\ pc[r] = "notify"
  /\ IF TotalOf[working[r]] = 0
     THEN Finish(r)
     ELSE Goto(r, "earn") /\ UNCHANGED working
  /\ UNCHANGED <<completed, matured, payout, ledger, asked, seen, races>>

\* The step whose error is not looked at: a variant.
EarningErrorIgnored(r) ==
  LET e == Earning(working[r]) IN
  /\ pc[r] = "earn"
  /\ \/ e.amount > 0 /\ Wallets!Apply(e)
     \/ UNCHANGED ledger
  /\ Goto(r, "fee")
  /\ UNCHANGED <<completed, matured, payout, locals, races>>

\* Credit the professional.  Any error ends the settlement: the reference is
\* there from an earlier completion, or there is nothing to credit.
CreditEarning(r) ==
  LET e == Earning(working[r]) IN
  /\ pc[r] = "earn"
  /\ \/ e.amount > 0 /\ Wallets!Apply(e) /\ Goto(r, "fee") /\ UNCHANGED working
     \/ /\ e.amount = 0 \/ Wallets!TransactionExists(e.reference)
        /\ Finish(r)
        /\ UNCHANGED ledger
  /\ UNCHANGED <<completed, matured, payout, asked, seen, races>>

\* Credit the platform.
CreditFee(r) ==
  LET e == PlatformFee(working[r]) IN
  /\ pc[r] = "fee"
  /\ \/ e.amount > 0 /\ Wallets!Apply(e)
     \/ /\ e.amount = 0 \/ Wallets!TransactionExists(e.reference)
        /\ UNCHANGED ledger
  /\ Finish(r)
  /\ UNCHANGED <<completed, matured, payout, asked, seen, races>>

\* created_at of an earning leaves the holding period.
HoldingPeriodEnds(b) ==
  /\ Earned(b)
  /\ b \notin matured
  /\ matured' = matured \cup {b}
  /\ UNCHANGED <<completed, payout, ledger, pc, locals, races>>

-----------------------------------------------------------------------------
(* Payouts. *)

\* RequestPayout up to GetWallet, the first read of AvailableBalance.
RequestPayout(r, a) ==
  /\ pc[r] = "idle"
  /\ asked' = [asked EXCEPT ![r] = a]
  /\ seen' = [seen EXCEPT ![r] = balance["professional"]]
  /\ Goto(r, "pending")
  /\ stale' = stale \ {r}
  /\ UNCHANGED <<completed, matured, payout, ledger, working, overtaken>>

\* The second read of AvailableBalance, and the refusal that follows from it.
CheckAvailable(r) ==
  /\ pc[r] = "pending"
  /\ IF AvailableBalance(r) < asked[r]
     THEN Finish(r)
     ELSE Goto(r, "debit") /\ UNCHANGED working
  /\ UNCHANGED <<completed, matured, payout, ledger, asked, seen, races>>

\* The step whose error is not looked at: a variant.
DebitErrorIgnored(r, p) ==
  LET e == Withdrawal(p, asked[r]) IN
  /\ pc[r] = "debit"
  /\ ~Wallets!TransactionExists(e.reference)
  /\ Wallets!Apply(e) \/ UNCHANGED ledger
  /\ working' = [working EXCEPT ![r] = p]
  /\ Goto(r, "create")
  /\ UNCHANGED <<completed, matured, payout, asked, seen, races>>

\* The requests that have read the wallet and not yet debited it.
UnderWay == {w \in Withdrawers : pc[w] \in {"pending", "debit"}}

\* Debit under a fresh reference, or a refusal because the wallet does not hold
\* as much by now.
DebitPayout(r, p) ==
  LET e == Withdrawal(p, asked[r]) IN
  /\ pc[r] = "debit"
  /\ ~Wallets!TransactionExists(e.reference)
  /\ \/ /\ Wallets!Apply(e)
        /\ working' = [working EXCEPT ![r] = p]
        /\ Goto(r, "create")
        /\ stale' = (stale \cup UnderWay) \ {r}
        /\ overtaken' = IF r \in stale THEN overtaken \cup {e} ELSE overtaken
     \/ ~Wallets!Covered(e) /\ Finish(r) /\ UNCHANGED <<ledger, races>>
  /\ UNCHANGED <<completed, matured, payout, asked, seen>>

\* The row gets what the wallet held when it was read: a variant.
RecordsBalance(r) ==
  /\ pc[r] = "create"
  /\ payout' = [payout EXCEPT ![working[r]] = [status |-> "PENDING", amount |-> seen[r]]]
  /\ Finish(r)
  /\ UNCHANGED <<completed, matured, ledger, asked, seen, races>>

\* store.Create: the row that an administrator will pay.
CreatePayout(r) ==
  /\ pc[r] = "create"
  /\ payout' = [payout EXCEPT ![working[r]] = [status |-> "PENDING", amount |-> asked[r]]]
  /\ Finish(r)
  /\ UNCHANGED <<completed, matured, ledger, asked, seen, races>>

\* MarkPaid: of two administrators one wins.
MarkPaid(p) ==
  /\ payout[p].status = "PENDING"
  /\ payout' = [payout EXCEPT ![p].status = "PAID"]
  /\ UNCHANGED <<completed, matured, ledger, pc, locals, races>>

-----------------------------------------------------------------------------
\* A statement fails or the process dies; nothing takes the rest up again.
Abandon(r) ==
  /\ pc[r] # "idle"
  /\ Finish(r)
  /\ UNCHANGED <<completed, matured, payout, ledger, asked, seen, races>>

Next ==
  \/ \E r \in Completers :
       \/ \E b \in Bookings : Complete(r, b)
       \/ Notified(r) \/ CreditEarning(r) \/ CreditFee(r)
  \/ \E r \in Withdrawers :
       \/ \E a \in Asks : RequestPayout(r, a)
       \/ CheckAvailable(r) \/ CreatePayout(r)
       \/ \E p \in Payouts : DebitPayout(r, p)
  \/ \E r \in Requests : Abandon(r)
  \/ \E b \in Bookings : ConfirmAgain(b) \/ HoldingPeriodEnds(b)
  \/ \E p \in Payouts : MarkPaid(p)

Spec == Init /\ [][Next]_vars

-----------------------------------------------------------------------------
(* Properties *)

\* Every variable keeps its type.
TypeOK ==
  /\ completed \subseteq Bookings
  /\ matured \subseteq Bookings
  /\ payout \in [Payouts -> Rows]
  /\ balance \in [Users -> Int]
  /\ entries \subseteq Wallets!Entry
  /\ pc \in [Requests -> Steps]
  /\ working \in [Requests -> Bookings \cup Payouts \cup {None}]
  /\ asked \in [Withdrawers -> Asks \cup {0}]
  /\ seen \in [Withdrawers -> Int]
  /\ stale \subseteq Withdrawers
  /\ overtaken \subseteq Wallets!Entry

\* The platform takes its fee only out of a booking whose earning was credited,
\* and the two are the price of the booking to the last kobo, however often it
\* is completed and wherever a settlement stops (payments/service.go:469).
FeesComeFromEarnings ==
  \A b \in Bookings : \A e \in entries :
    e.reference = <<"fee", b>> =>
      \E f \in entries :
        f.reference = <<"earn", b>> /\ e.amount + f.amount = TotalOf[b]

\* What professionals and administrators are shown.
ListPayouts == {p \in Payouts : payout[p].status # "NONE"}

\* An administrator pays only what was taken from the wallet before: every
\* payout row has its debit of the same amount (payouts/service.go:119-129).
PayoutsAreDebited ==
  \A p \in ListPayouts : Withdrawal(p, payout[p].amount) \in entries

Promise == INSTANCE Income WITH
  EarningOf <- [b \in Bookings |-> Earnings(b)], FeeOf <- [b \in Bookings |-> Fee(b)],
  earned <- {b \in Bookings : Earned(b)},
  withheld <- {b \in Bookings : Wallets!TransactionExists(<<"fee", b>>)},
  taken <- {pa \in Payouts \X Asks : Withdrawal(pa[1], pa[2]) \in entries},
  wallet <- balance["professional"], platform <- balance["platform"]

\* However often bookings are completed again, settlements and requests run at
\* once and stop anywhere, each price is divided once and each payout recorded
\* once, for what was taken.
ImplementsIncome == Promise!Spec

\* What the professional took out of the wallet.
Withdrawn == Total(Wallets!Amount, {e \in entries : e.type = "DEBIT"})

\* "only funds outside the payout holding period are available for withdrawal"
\* (payouts/service.go:103-104): every kobo earned is pending, available or taken,
\* and the earnings inside the period stay in the wallet.  The check is not made
\* with the debit, so requests that were overtaken by another one since they read
\* the wallet may take of them too, together at most what they withdrew.
HeldEarningsStay ==
  LET s == EarningsSummary
      accounted == s.pending + s.available + Withdrawn
  IN accounted \in s.total .. (s.total + Total(Wallets!Amount, overtaken))
=============================================================================
