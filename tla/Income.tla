------------------------------- MODULE Income -------------------------------
(***************************************************************************)
(* What settlement and payouts promise: the price of a booking is divided  *)
(* once between the professional and the platform, the platform's share    *)
(* after the professional's (payments/service.go:469); and a payout that   *)
(* an administrator pays is recorded once, for what was taken out of the   *)
(* wallet before (payouts/service.go:119).  Earnings is the program that   *)
(* keeps this promise.                                                     *)
(***************************************************************************)
EXTENDS Integers

CONSTANTS
  Bookings, EarningOf, FeeOf,
  Payouts, Asks

VARIABLES
  earned,     \* bookings whose earning the professional has
  withheld,   \* bookings whose fee the platform has
  taken,      \* the pairs of a payout and what was taken out of the wallet for it
  payout,     \* what an administrator sees of each
  wallet, platform

shares == <<earned, withheld, platform>>
income == <<shares, taken, payout, wallet>>

Init ==
  /\ earned = {} /\ withheld = {} /\ taken = {}
  /\ payout = [p \in Payouts |-> [status |-> "NONE", amount |-> 0]]
  /\ wallet = 0 /\ platform = 0

Earn(b) ==
  /\ b \notin earned
  /\ earned' = earned \cup {b}
  /\ wallet' = wallet + EarningOf[b]
  /\ UNCHANGED <<withheld, platform, taken, payout>>

Withhold(b) ==
  /\ b \in earned \ withheld
  /\ withheld' = withheld \cup {b}
  /\ platform' = platform + FeeOf[b]
  /\ UNCHANGED <<earned, taken, payout, wallet>>

Take(p, a) ==
  /\ a <= wallet
  /\ \A x \in Asks : <<p, x>> \notin taken
  /\ taken' = taken \cup {<<p, a>>}
  /\ wallet' = wallet - a
  /\ UNCHANGED <<shares, payout>>

\* Of what was taken something may stay unrecorded: a request that breaks off
\* in between is taken up by nobody.
Record(p, a) ==
  /\ <<p, a>> \in taken
  /\ payout[p].status = "NONE"
  /\ payout' = [payout EXCEPT ![p] = [status |-> "PENDING", amount |-> a]]
  /\ UNCHANGED <<shares, taken, wallet>>

Pay(p) ==
  /\ payout[p].status = "PENDING"
  /\ payout' = [payout EXCEPT ![p].status = "PAID"]
  /\ UNCHANGED <<shares, taken, wallet>>

Next ==
  \/ \E b \in Bookings : Earn(b) \/ Withhold(b)
  \/ \E p \in Payouts : Pay(p) \/ \E a \in Asks : Take(p, a) \/ Record(p, a)

Spec == Init /\ [][Next]_income
=============================================================================
