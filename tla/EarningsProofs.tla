--------------------------- MODULE EarningsProofs ---------------------------
(* What settlement and payouts guarantee for any number of bookings, prices,  *)
(* fee percentages, requests, interruptions and completions of one booking.   *)
EXTENDS Earnings, FiniteSetTheorems, TLAPS

-----------------------------------------------------------------------------
(* The inductive invariant *)

\* A settlement under way is about a booking, a payout about to be recorded
\* has its id, and a request under way has its amount.
WorkingNamed ==
  /\ \A r \in Completers : pc[r] # "idle" => working[r] \in Bookings
  /\ \A w \in Withdrawers : /\ pc[w] = "create" => working[w] \in Payouts
                            /\ pc[w] # "idle" => asked[w] \in Asks

\* The fee is credited after the earning, and a payout recorded after its debit.
CreditsInOrder == \A r \in Completers : pc[r] = "fee" => Earning(working[r]) \in entries
DebitsInOrder ==
  \A w \in Withdrawers : pc[w] = "create" => Withdrawal(working[w], asked[w]) \in entries

\* The entry of a fee is the one of its booking, next to that of its earning.
FeeEntries ==
  \A b \in Bookings : \A e \in entries :
    e.reference = <<"fee", b>> => e = PlatformFee(b) /\ Earning(b) \in entries

IInv == /\ TypeOK /\ WorkingNamed /\ CreditsInOrder /\ DebitsInOrder
        /\ FeeEntries /\ PayoutsAreDebited

-----------------------------------------------------------------------------
(* Amounts and entries *)

\* Fee and earning of a booking are numbers that add up to its price.
LEMMA PartsAddUp ==
  ASSUME NEW b \in Bookings
  PROVE  Fee(b) \in Int /\ Earnings(b) \in Int /\ Fee(b) + Earnings(b) = TotalOf[b]
  <1> DEFINE x == TotalOf[b] * FeePercent + 50
  <1>1. TotalOf[b] \in Int /\ FeePercent \in Int
    BY SettlementAssumption
  <1>2. x \in Int
    BY <1>1
  <1> HIDE DEF x
  <1>3. x \div 100 \in Int
    BY <1>2
  <1>4. Fee(b) = x \div 100
    BY DEF Fee, x
  <1> QED
    BY <1>1, <1>3, <1>4 DEF Earnings

LEMMA EarningIsEntry ==
  ASSUME NEW b \in Bookings, Earning(b).amount # 0
  PROVE  Earning(b) \in Wallets!Entry
  BY DEF Earning, Wallets!Entry, Users, Amounts, References

LEMMA FeeIsEntry ==
  ASSUME NEW b \in Bookings, PlatformFee(b).amount # 0
  PROVE  PlatformFee(b) \in Wallets!Entry
  BY DEF PlatformFee, Wallets!Entry, Users, Amounts, References

LEMMA WithdrawalIsEntry ==
  ASSUME NEW p \in Payouts, NEW a \in Asks
  PROVE  Withdrawal(p, a) \in Wallets!Entry
  BY SettlementAssumption DEF Withdrawal, Wallets!Entry, Users, Amounts, References

LEMMA AmountsAreNumbers == Amounts \subseteq Int
  <1>1. \A b \in Bookings : Fee(b) \in Int /\ Earnings(b) \in Int
    BY PartsAddUp
  <1>2. Asks \subseteq Int
    BY SettlementAssumption
  <1> QED
    BY <1>1, <1>2 DEF Amounts

\* What an entry that is booked does to the ledger.
LEMMA ApplyTypes ==
  ASSUME TypeOK, NEW e \in Wallets!Entry, Wallets!Apply(e)
  PROVE  /\ balance' \in [Users -> Int]
         /\ entries' = entries \cup {e}
         /\ entries' \subseteq Wallets!Entry
  <1>1. e.amount \in Int /\ e.user \in Users
    BY AmountsAreNumbers DEF Wallets!Entry
  <1>2. Wallets!Change(e) \in Int
    BY <1>1 DEF Wallets!Change
  <1> QED
    BY <1>1, <1>2 DEF TypeOK, Wallets!Apply

\* No request is of both kinds.
LEMMA Kinds == \A r \in Completers : r \in Requests /\ r \notin Withdrawers
  BY ProcessesAssumption DEF Requests
LEMMA KindsToo == \A w \in Withdrawers : w \in Requests /\ w \notin Completers
  BY ProcessesAssumption DEF Requests

-----------------------------------------------------------------------------
(* Steps of a request *)

\* One request moves, to a step and an id of the right type.
Moves(r) ==
  /\ pc' \in [Requests -> Steps]
  /\ working' \in [Requests -> Bookings \cup Payouts \cup {None}]
  /\ \A q \in Requests \ {r} : pc'[q] = pc[q] /\ working'[q] = working[q]

LEMMA FinishMoves ==
  ASSUME TypeOK, NEW r \in Requests, Finish(r)
  PROVE  Moves(r) /\ pc'[r] = "idle"
  BY DEF TypeOK, Finish, Goto, Moves, Steps

LEMMA GotoMoves ==
  ASSUME TypeOK, NEW r \in Requests, NEW step \in Steps, Goto(r, step), UNCHANGED working
  PROVE  Moves(r) /\ pc'[r] = step /\ working'[r] = working[r]
  BY DEF TypeOK, Goto, Moves

LEMMA BeginMoves ==
  ASSUME TypeOK, NEW r \in Requests, NEW step \in Steps, Goto(r, step),
         NEW i \in Bookings \cup Payouts, working' = [working EXCEPT ![r] = i]
  PROVE  Moves(r) /\ pc'[r] = step /\ working'[r] = i
  BY DEF TypeOK, Goto, Moves

-----------------------------------------------------------------------------
(* Each step of a completion keeps the invariant. *)

\* A completion that touches neither the ledger nor the payouts keeps the
\* invariant when it does not go on to the fee.
LEMMA QuietCompletion ==
  ASSUME IInv, NEW r \in Completers, Moves(r), pc'[r] # "fee",
         pc'[r] # "idle" => working'[r] \in Bookings,
         completed' \subseteq Bookings, UNCHANGED <<matured, payout, ledger, asked, seen, races>>
  PROVE  IInv'
  <1> USE Kinds, KindsToo
  <1>1. TypeOK'
    BY DEF IInv, TypeOK, Moves, ledger, races
  <1>2. WorkingNamed'
    BY DEF IInv, WorkingNamed, Moves
  <1>3. CreditsInOrder'
    BY DEF IInv, CreditsInOrder, Moves, ledger, Earning, Earnings
  <1>4. DebitsInOrder'
    BY DEF IInv, DebitsInOrder, Moves, ledger, Withdrawal
  <1>5. FeeEntries' /\ PayoutsAreDebited'
    BY
       DEF IInv, FeeEntries, PayoutsAreDebited, ListPayouts, ledger, PlatformFee, Earning,
           Withdrawal
  <1> QED
    BY <1>1, <1>2, <1>3, <1>4, <1>5 DEF IInv

\* A completion that books its earning keeps it, and one that books its fee
\* after the earning.
LEMMA BookingCompletion ==
  ASSUME IInv, NEW r \in Completers, pc[r] # "idle", NEW e \in Wallets!Entry,
         Wallets!Apply(e), Moves(r), pc'[r] # "idle" => working'[r] = working[r],
         \/ e = Earning(working[r])
         \/ e = PlatformFee(working[r]) /\ pc[r] = "fee" /\ pc'[r] = "idle",
         UNCHANGED <<completed, matured, payout, asked, seen, races>>
  PROVE  IInv'
  <1> USE Kinds, KindsToo
  <1>1. /\ balance' \in [Users -> Int]
        /\ entries' = entries \cup {e}
        /\ entries' \subseteq Wallets!Entry
    BY ApplyTypes DEF IInv
  <1>2. working[r] \in Bookings
    BY DEF IInv, WorkingNamed
  <1>3. TypeOK'
    BY <1>1 DEF IInv, TypeOK, Moves, races
  <1>4. WorkingNamed'
    BY <1>2 DEF IInv, WorkingNamed, Moves
  <1>5. CreditsInOrder'
    <2> SUFFICES ASSUME NEW q \in Completers, pc'[q] = "fee"
                 PROVE  Earning(working'[q]) \in entries'
      BY DEF CreditsInOrder, Earning
    <2>1. CASE q = r
      BY <2>1, <1>1
    <2>2. CASE q # r
      BY <2>2, <1>1 DEF IInv, CreditsInOrder, Moves
    <2> QED
      BY <2>1, <2>2
  <1>6. DebitsInOrder'
    BY <1>1 DEF IInv, DebitsInOrder, Moves, Withdrawal
  <1>7. FeeEntries'
    <2> SUFFICES ASSUME NEW b \in Bookings, NEW f \in entries', f.reference = <<"fee", b>>
                 PROVE  f = PlatformFee(b) /\ Earning(b) \in entries'
      BY DEF FeeEntries, PlatformFee, Earning
    <2>1. CASE f \in entries
      BY <2>1, <1>1 DEF IInv, FeeEntries
    <2>2. CASE f = e
      <3>1. e # Earning(working[r])
        BY <2>2 DEF Earning
      <3>2. e = PlatformFee(working[r]) /\ pc[r] = "fee"
        BY <3>1
      <3>3. working[r] = b
        BY <3>2, <2>2, <1>2 DEF PlatformFee
      <3> QED
        BY <3>2, <3>3, <2>2, <1>1 DEF IInv, CreditsInOrder
    <2> QED
      BY <2>1, <2>2, <1>1
  <1>8. PayoutsAreDebited'
    BY <1>1 DEF IInv, PayoutsAreDebited, ListPayouts, Withdrawal
  <1> QED
    BY <1>3, <1>4, <1>5, <1>6, <1>7, <1>8 DEF IInv

LEMMA CompletionStep ==
  ASSUME IInv, NEW r \in Completers,
         \/ \E b \in Bookings : Complete(r, b)
         \/ Notified(r) \/ CreditEarning(r) \/ CreditFee(r)
  PROVE  IInv'
  <1> USE Kinds
  <1>0. TypeOK /\ completed \subseteq Bookings
    BY DEF IInv, TypeOK
  <1>1. ASSUME NEW b \in Bookings, Complete(r, b)
        PROVE  IInv'
    <2>1. Moves(r) /\ pc'[r] = "notify" /\ working'[r] = b
      BY <1>0, <1>1, BeginMoves DEF Complete, Steps
    <2> QED
      BY <2>1, <1>0, <1>1, QuietCompletion DEF Complete
  <1>2. CASE Notified(r)
    <2>1. working[r] \in Bookings
      BY <1>2 DEF IInv, WorkingNamed, Notified
    <2>2. Moves(r) /\ pc'[r] # "fee" /\ (pc'[r] # "idle" => working'[r] \in Bookings)
      BY <2>1, <1>0, <1>2, FinishMoves, GotoMoves DEF Notified, Steps
    <2> QED
      BY <2>2, <1>0, <1>2, QuietCompletion DEF Notified
  <1>3. CASE CreditEarning(r)
    <2> DEFINE e == Earning(working[r])
    <2>1. working[r] \in Bookings /\ pc[r] # "idle"
      BY <1>3 DEF IInv, WorkingNamed, CreditEarning
    <2>2. CASE e.amount > 0 /\ Wallets!Apply(e) /\ Goto(r, "fee") /\ UNCHANGED working
      <3>1. e \in Wallets!Entry
        BY <2>1, <2>2, EarningIsEntry
      <3>2. Moves(r) /\ working'[r] = working[r]
        BY <2>2, <1>0, GotoMoves DEF Steps
      <3>3. UNCHANGED <<completed, matured, payout, asked, seen, races>>
        BY <1>3 DEF CreditEarning
      <3> HIDE DEF e
      <3>4. e = Earning(working[r])
        BY DEF e
      <3> QED
        BY <2>1, <2>2, <3>1, <3>2, <3>3, <3>4, BookingCompletion
    <2>3. CASE Finish(r) /\ UNCHANGED ledger
      <3>1. Moves(r) /\ pc'[r] = "idle"
        BY <2>3, <1>0, FinishMoves
      <3> QED
        BY <2>3, <3>1, <1>0, <1>3, QuietCompletion DEF CreditEarning
    <2> QED
      BY <2>2, <2>3, <1>3 DEF CreditEarning
  <1>4. CASE CreditFee(r)
    <2> DEFINE e == PlatformFee(working[r])
    <2>1. working[r] \in Bookings /\ pc[r] = "fee"
      BY <1>4 DEF IInv, WorkingNamed, CreditFee
    <2>2. Moves(r) /\ pc'[r] = "idle"
      BY <1>0, <1>4, FinishMoves DEF CreditFee
    <2>3. UNCHANGED <<completed, matured, payout, asked, seen, races>>
      BY <1>4 DEF CreditFee
    <2>4. CASE e.amount > 0 /\ Wallets!Apply(e)
      <3>1. e \in Wallets!Entry
        BY <2>1, <2>4, FeeIsEntry
      <3> HIDE DEF e
      <3>2. e = PlatformFee(working[r])
        BY DEF e
      <3> QED
        BY <2>1, <2>2, <2>3, <2>4, <3>1, <3>2, BookingCompletion
    <2>5. CASE UNCHANGED ledger
      BY <2>2, <2>3, <2>5, <1>0, QuietCompletion
    <2> QED
      BY <2>4, <2>5, <1>4 DEF CreditFee
  <1> QED
    BY <1>1, <1>2, <1>3, <1>4

-----------------------------------------------------------------------------
(* Each step of a request for a payout keeps the invariant. *)

LEMMA PayoutStep ==
  ASSUME IInv, NEW r \in Withdrawers,
         \/ \E a \in Asks : RequestPayout(r, a)
         \/ CheckAvailable(r) \/ CreatePayout(r)
         \/ \E p \in Payouts : DebitPayout(r, p)
  PROVE  IInv'
  <1> USE Kinds, KindsToo
  <1>0. TypeOK
    BY DEF IInv
  <1>1. ASSUME NEW a \in Asks, RequestPayout(r, a)
        PROVE  IInv'
    <2>1. Moves(r) /\ pc'[r] = "pending" /\ working'[r] = working[r]
      BY <1>0, <1>1, GotoMoves DEF RequestPayout, Steps
    <2>2. balance["professional"] \in Int
      BY <1>0 DEF TypeOK, Users
    <2>3. /\ asked' \in [Withdrawers -> Asks \cup {0}] /\ seen' \in [Withdrawers -> Int]
          /\ asked'[r] = a /\ \A w \in Withdrawers \ {r} : asked'[w] = asked[w]
      BY <1>0, <1>1, <2>2 DEF TypeOK, RequestPayout
    <2>4. /\ UNCHANGED <<completed, matured, payout, balance, entries, overtaken>>
          /\ stale' = stale \ {r}
      BY <1>1 DEF RequestPayout, ledger
    <2>5. TypeOK'
      BY <1>0, <2>1, <2>3, <2>4 DEF TypeOK, Moves
    <2>6. WorkingNamed'
      BY <2>1, <2>3 DEF IInv, WorkingNamed, Moves
    <2>7. CreditsInOrder'
      BY <2>1, <2>4 DEF IInv, CreditsInOrder, Moves, Earning
    <2>8. DebitsInOrder'
      BY <2>1, <2>3, <2>4 DEF IInv, DebitsInOrder, Moves, Withdrawal
    <2>9. FeeEntries' /\ PayoutsAreDebited'
      BY <2>4
         DEF IInv, FeeEntries, PayoutsAreDebited, ListPayouts, PlatformFee, Earning, Withdrawal
    <2> QED
      BY <2>5, <2>6, <2>7, <2>8, <2>9 DEF IInv
  <1>2. CASE CheckAvailable(r)
    <2>1. Moves(r) /\ pc'[r] \in {"idle", "debit"}
      BY <1>0, <1>2, FinishMoves, GotoMoves DEF CheckAvailable, Steps
    <2>2. pc[r] # "idle"
      BY <1>2 DEF CheckAvailable
    <2>3. UNCHANGED <<completed, matured, payout, balance, entries, asked, seen, races>>
      BY <1>2 DEF CheckAvailable, ledger
    <2>4. TypeOK'
      BY <1>0, <2>1, <2>3 DEF TypeOK, Moves, races
    <2>5. WorkingNamed'
      BY <2>1, <2>2, <2>3 DEF IInv, WorkingNamed, Moves
    <2>6. CreditsInOrder'
      BY <2>1, <2>3 DEF IInv, CreditsInOrder, Moves, Earning
    <2>7. DebitsInOrder'
      BY <2>1, <2>3 DEF IInv, DebitsInOrder, Moves, Withdrawal
    <2>8. FeeEntries' /\ PayoutsAreDebited'
      BY <2>3
         DEF IInv, FeeEntries, PayoutsAreDebited, ListPayouts, PlatformFee, Earning, Withdrawal
    <2> QED
      BY <2>4, <2>5, <2>6, <2>7, <2>8 DEF IInv
  <1>3. CASE CreatePayout(r)
    <2>1. Moves(r) /\ pc'[r] = "idle"
      BY <1>0, <1>3, FinishMoves DEF CreatePayout
    <2>2. UNCHANGED <<completed, matured, balance, entries, asked, seen, races>>
      BY <1>3 DEF CreatePayout, ledger
    <2>3. asked[r] \in Asks /\ Withdrawal(working[r], asked[r]) \in entries
      BY <1>3 DEF IInv, WorkingNamed, DebitsInOrder, CreatePayout
    <2>4. payout' = [payout EXCEPT ![working[r]] = [status |-> "PENDING", amount |-> asked[r]]]
      BY <1>3 DEF CreatePayout
    <2>5. payout' \in [Payouts -> Rows]
      BY <1>0, <2>3, <2>4 DEF TypeOK, Rows
    <2>6. TypeOK'
      BY <1>0, <2>1, <2>2, <2>5 DEF TypeOK, Moves, races
    <2>7. WorkingNamed'
      BY <2>1, <2>2 DEF IInv, WorkingNamed, Moves
    <2>8. CreditsInOrder' /\ DebitsInOrder' /\ FeeEntries'
      BY <2>1, <2>2 DEF IInv, CreditsInOrder, DebitsInOrder, FeeEntries, Moves, Earning,
                        PlatformFee, Withdrawal
    <2>9. PayoutsAreDebited'
      BY <1>0, <2>2, <2>3, <2>4 DEF IInv, TypeOK, PayoutsAreDebited, ListPayouts, Withdrawal
    <2> QED
      BY <2>6, <2>7, <2>8, <2>9 DEF IInv
  <1>4. ASSUME NEW p \in Payouts, DebitPayout(r, p)
        PROVE  IInv'
    <2> DEFINE e == Withdrawal(p, asked[r])
    <2>1. asked[r] \in Asks
      BY <1>4 DEF IInv, WorkingNamed, DebitPayout
    <2>2. UNCHANGED <<completed, matured, payout, asked, seen>>
      BY <1>4 DEF DebitPayout
    <2>3. (stale \subseteq Withdrawers /\ overtaken \subseteq Wallets!Entry)'
      BY <1>0, <1>4, <2>1, WithdrawalIsEntry DEF DebitPayout, UnderWay, TypeOK, races
    <2>4. /\ Moves(r)
          /\ pc'[r] = "create" => working'[r] = p /\ e \in entries'
          /\ pc'[r] \in {"create", "idle"}
          /\ \/ entries' = entries \cup {e}
             \/ entries' = entries
          /\ balance' \in [Users -> Int] /\ entries' \subseteq Wallets!Entry
      <3>1. e \in Wallets!Entry
        BY <2>1, WithdrawalIsEntry
      <3> HIDE DEF e
      <3>2. CASE /\ Wallets!Apply(e) /\ Goto(r, "create")
                 /\ working' = [working EXCEPT ![r] = p]
        <4>1. Moves(r) /\ pc'[r] = "create" /\ working'[r] = p
          BY <3>2, <1>0, BeginMoves DEF Steps
        <4> QED
          BY <4>1, <3>1, <3>2, <1>0, ApplyTypes
      <3>3. CASE Finish(r) /\ UNCHANGED ledger
        <4>1. Moves(r) /\ pc'[r] = "idle"
          BY <3>3, <1>0, FinishMoves
        <4> QED
          BY <4>1, <3>3, <1>0 DEF TypeOK, ledger
      <3> QED
        BY <3>2, <3>3, <1>4 DEF DebitPayout, e
    <2>5. e.reference = <<"payout", p>> /\ e = Withdrawal(p, asked[r])
      BY DEF Withdrawal
    <2> HIDE DEF e
    <2>6. TypeOK'
      BY <1>0, <2>2, <2>4, <2>3 DEF TypeOK, Moves
    <2>7. WorkingNamed'
      BY <2>1, <2>2, <2>4 DEF IInv, WorkingNamed, Moves
    <2>8. CreditsInOrder'
      BY <2>4 DEF IInv, CreditsInOrder, Moves, Earning
    <2>9. DebitsInOrder'
      BY <2>2, <2>4, <2>5 DEF IInv, DebitsInOrder, Moves, Withdrawal
    <2>10. FeeEntries'
      BY <2>4, <2>5 DEF IInv, FeeEntries, PlatformFee, Earning
    <2>11. PayoutsAreDebited'
      BY <2>2, <2>4 DEF IInv, PayoutsAreDebited, ListPayouts, Withdrawal
    <2> QED
      BY <2>6, <2>7, <2>8, <2>9, <2>10, <2>11 DEF IInv
  <1> QED
    BY <1>1, <1>2, <1>3, <1>4

-----------------------------------------------------------------------------
(* The invariant *)

\* Everybody else: interruptions, re-confirmations, the clock, administrators.
LEMMA OtherStep ==
  ASSUME IInv,
         \/ \E r \in Requests : Abandon(r)
         \/ \E b \in Bookings : ConfirmAgain(b) \/ HoldingPeriodEnds(b)
         \/ \E p \in Payouts : MarkPaid(p)
         \/ UNCHANGED vars
  PROVE  IInv'
  <1>0. TypeOK
    BY DEF IInv
  <1>1. ASSUME NEW r \in Requests, Abandon(r)
        PROVE  IInv'
    <2>1. Moves(r) /\ pc'[r] = "idle"
      BY <1>0, <1>1, FinishMoves DEF Abandon
    <2>2. UNCHANGED <<completed, matured, payout, balance, entries, asked, seen, races>>
      BY <1>1 DEF Abandon, ledger
    <2>3. TypeOK'
      BY <1>0, <2>1, <2>2 DEF TypeOK, Moves, races
    <2>4. WorkingNamed'
      BY <2>1, <2>2, Kinds, KindsToo DEF IInv, WorkingNamed, Moves
    <2>5. CreditsInOrder' /\ DebitsInOrder'
      BY <2>1, <2>2, Kinds, KindsToo DEF IInv, CreditsInOrder, DebitsInOrder, Moves, Earning,
                                         Withdrawal
    <2>6. FeeEntries' /\ PayoutsAreDebited'
      BY <2>2
         DEF IInv, FeeEntries, PayoutsAreDebited, ListPayouts, PlatformFee, Earning, Withdrawal
    <2> QED
      BY <2>3, <2>4, <2>5, <2>6 DEF IInv
  <1>2. ASSUME UNCHANGED <<payout, balance, entries, pc, working, asked, seen, stale, overtaken>>,
               completed' \subseteq Bookings, matured' \subseteq Bookings
        PROVE  IInv'
    BY <1>2 DEF IInv, TypeOK, WorkingNamed, CreditsInOrder, DebitsInOrder, FeeEntries,
                PayoutsAreDebited, ListPayouts, PlatformFee, Earning, Withdrawal
  <1>3. ASSUME NEW b \in Bookings, ConfirmAgain(b) \/ HoldingPeriodEnds(b)
        PROVE  IInv'
    BY <1>0, <1>2, <1>3 DEF TypeOK, ConfirmAgain, HoldingPeriodEnds, ledger, locals, races
  <1>4. ASSUME NEW p \in Payouts, MarkPaid(p)
        PROVE  IInv'
    <2>1. UNCHANGED <<completed, matured, balance, entries, pc, working, asked, seen, races>>
      BY <1>4 DEF MarkPaid, ledger, locals
    <2>2. /\ payout' \in [Payouts -> Rows]
          /\ \A q \in Payouts : /\ payout'[q].amount = payout[q].amount
                                /\ payout'[q].status # "NONE" => payout[q].status # "NONE"
      BY <1>0, <1>4 DEF TypeOK, Rows, MarkPaid
    <2>3. TypeOK'
      BY <1>0, <2>1, <2>2 DEF TypeOK, races
    <2>4. WorkingNamed' /\ CreditsInOrder' /\ DebitsInOrder' /\ FeeEntries'
      BY <2>1 DEF IInv, WorkingNamed, CreditsInOrder, DebitsInOrder, FeeEntries, PlatformFee,
                  Earning, Withdrawal
    <2>5. PayoutsAreDebited'
      BY <2>1, <2>2 DEF IInv, PayoutsAreDebited, ListPayouts, Withdrawal
    <2> QED
      BY <2>3, <2>4, <2>5 DEF IInv
  <1>5. CASE UNCHANGED vars
    BY <1>0, <1>2, <1>5 DEF TypeOK, vars, ledger, locals, races
  <1> QED
    BY <1>1, <1>3, <1>4, <1>5

LEMMA Invariant == Spec => []IInv
  <1>1. Init => IInv
    BY ProcessesAssumption DEF Init, IInv, TypeOK, WorkingNamed, CreditsInOrder, DebitsInOrder,
      FeeEntries, PayoutsAreDebited, ListPayouts, Wallets!Init, Rows, Steps, Requests
  <1>2. IInv /\ [Next]_vars => IInv'
    BY CompletionStep, PayoutStep, OtherStep DEF Next
  <1> QED
    BY <1>1, <1>2, PTL DEF Spec

-----------------------------------------------------------------------------
(* Theorems *)

\* Every variable of settlement and payouts keeps its type
\* (payments/service.go:469, payouts/service.go:89).
THEOREM TypeCorrect == Spec => []TypeOK
  <1>1. IInv => TypeOK
    BY DEF IInv
  <1> QED
    BY <1>1, Invariant, PTL

\* A fee in the ledger has its earning next to it, and they are the price of
\* the booking (SettleBooking, payments/service.go:482-490).
THEOREM FeesAreShares == Spec => []FeesComeFromEarnings
  <1>1. IInv => FeesComeFromEarnings
    <2> SUFFICES ASSUME IInv, NEW b \in Bookings, NEW e \in entries,
                        e.reference = <<"fee", b>>
                 PROVE  \E f \in entries :
                          f.reference = <<"earn", b>> /\ e.amount + f.amount = TotalOf[b]
      BY DEF FeesComeFromEarnings
    <2>1. e = PlatformFee(b) /\ Earning(b) \in entries
      BY DEF IInv, FeeEntries
    <2>2. e.amount = Fee(b)
      BY <2>1 DEF PlatformFee
    <2>3. Earning(b).reference = <<"earn", b>> /\ Earning(b).amount = Earnings(b)
      BY DEF Earning
    <2> QED
      BY <2>1, <2>2, <2>3, PartsAddUp
  <1> QED
    BY <1>1, Invariant, PTL

\* Every payout row was debited before it was written
\* (RequestPayout, payouts/service.go:119-129).
THEOREM PayoutsAreCovered == Spec => []PayoutsAreDebited
  <1>1. IInv => PayoutsAreDebited
    BY DEF IInv
  <1> QED
    BY <1>1, Invariant, PTL

-----------------------------------------------------------------------------
(* Totals *)

\* Nothing adds up to 0.
LEMMA TotalEmpty == \A F : Total(F, {}) = 0 /\ IsFiniteSet(Units(F, {}))
<1>1. \A F : Units(F, {}) = {}
  BY DEF Units
<1>. QED
  BY <1>1, FS_EmptySet DEF Total

LEMMA TotalType == \A F, S : IsFiniteSet(Units(F, S)) => Total(F, S) \in Nat
  BY FS_CardinalityType DEF Total

\* With one element more, a total is greater by the amount of that element.
LEMMA TotalWithout ==
  ASSUME NEW F, NEW S, NEW x \in S, F[x] \in Nat,
         IsFiniteSet(Units(F, S)) \/ IsFiniteSet(Units(F, S \ {x}))
  PROVE  /\ IsFiniteSet(Units(F, S)) /\ IsFiniteSet(Units(F, S \ {x}))
         /\ Total(F, S \ {x}) \in Nat
         /\ Total(F, S) = Total(F, S \ {x}) + F[x]
<1>. DEFINE A == {x}
            B == 1 .. F[x]
            U == A \X B
            V == Units(F, S \ {x})
            W == Units(F, S)
<1>1. W = V \cup U /\ V \cap U = {}
  BY DEF Units
<1>2. IsFiniteSet(U) /\ Cardinality(U) = F[x]
  <2>1. IsFiniteSet(A) /\ Cardinality(A) = 1
    BY FS_Singleton
  <2>2. IsFiniteSet(B) /\ Cardinality(B) = F[x]
    <3>1. 1 \in Int /\ F[x] \in Int /\ (IF 1 > F[x] THEN 0 ELSE F[x] - 1 + 1) = F[x]
      OBVIOUS
    <3>. QED
      BY <3>1, FS_Interval
  <2>3. 1 * F[x] = F[x]
    OBVIOUS
  <2>. HIDE DEF A, B
  <2>4. IsFiniteSet(A \X B) /\ Cardinality(A \X B) = Cardinality(A) * Cardinality(B)
    BY <2>1, <2>2, FS_Product
  <2>. QED
    BY <2>1, <2>2, <2>3, <2>4
<1>. HIDE DEF U, V, W
<1>3. IsFiniteSet(V)
  BY <1>1, FS_Subset DEF V, W
<1>4. Cardinality(V) \in Nat /\ IsFiniteSet(W) /\ Cardinality(W) = Cardinality(V) + F[x]
  <2>1. Cardinality(V) \in Nat /\ Cardinality(V \cap U) = 0
    BY <1>1, <1>3, FS_CardinalityType, FS_EmptySet
  <2>2. /\ IsFiniteSet(V \cup U)
        /\ Cardinality(V \cup U) = Cardinality(V) + Cardinality(U) - Cardinality(V \cap U)
    BY <1>2, <1>3, FS_Union
  <2>. QED
    BY <1>1, <1>2, <2>1, <2>2
<1>. QED
  BY <1>3, <1>4 DEF Total, V, W

-----------------------------------------------------------------------------
(* What the wallet of the professional holds *)

\* The amounts of Earnings as a function; what was earned, what of it is inside
\* the holding period, and what was taken.
EarningsOf == [b \in Bookings |-> Earnings(b)]
EarnedAmong(bookings) == {b \in bookings : Earned(b)}
Debits == {e \in entries : e.type = "DEBIT"}
EarnedTotal == Total(EarningsOf, EarnedAmong(Bookings))
HeldTotal == Total(EarningsOf, EarnedAmong(Bookings \ matured))
TakenTotal == Total(Wallets!Amount, Debits)

\* The three totals exist, and the wallet is what was earned less what was taken.
\* An earning matures after it was booked.
Books ==
  /\ matured \subseteq EarnedAmong(Bookings)
  /\ IsFiniteSet(Units(EarningsOf, EarnedAmong(Bookings)))
  /\ IsFiniteSet(Units(EarningsOf, EarnedAmong(Bookings \ matured)))
  /\ IsFiniteSet(Units(Wallets!Amount, Debits))
  /\ balance["professional"] = EarnedTotal - TakenTotal

\* The share of the professional is never below 0, whatever the percentage.
LEMMA EarningsAreNat == \A b \in Bookings : Earnings(b) \in Nat /\ EarningsOf[b] = Earnings(b)
<1>. SUFFICES ASSUME NEW b \in Bookings PROVE Earnings(b) \in Nat
  BY DEF EarningsOf
<1>. DEFINE t == TotalOf[b]
            x == t * FeePercent
<1>1. t \in Nat /\ FeePercent \in 0..100
  BY SettlementAssumption
<1>2. x \in Nat /\ x <= t * 100
  <2>. HIDE DEF t
  <2>. QED
    BY <1>1
<1>3. Fee(b) = (x + 50) \div 100
  BY DEF Fee
<1>. HIDE DEF x
<1>4. (x + 50) \div 100 \in Nat /\ (x + 50) \div 100 <= t
  <2>. HIDE DEF t
  <2>. QED
    BY <1>1, <1>2
<1>. QED
  BY <1>1, <1>3, <1>4 DEF Earnings

LEMMA TotalsAreNat ==
  Books => EarnedTotal \in Nat /\ HeldTotal \in Nat /\ TakenTotal \in Nat
  BY TotalType DEF Books, EarnedTotal, HeldTotal, TakenTotal

LEMMA InitBooks == Init => Books
<1>. SUFFICES ASSUME Init PROVE Books
  OBVIOUS
<1>1. /\ EarnedAmong(Bookings) = {} /\ EarnedAmong(Bookings \ matured) = {} /\ Debits = {}
      /\ matured = {} /\ balance["professional"] = 0
  BY DEF Init, Wallets!Init, Users, Earned, Wallets!TransactionExists, EarnedAmong, Debits
<1>. QED
  BY <1>1, TotalEmpty DEF Books, EarnedTotal, TakenTotal

\* Which steps write the ledger, and with which entries.
LEMMA LedgerStep ==
  ASSUME IInv, [Next]_vars, ~UNCHANGED ledger
  PROVE  /\ UNCHANGED matured
         /\ \/ \E b \in Bookings : Wallets!Apply(Earning(b)) /\ UNCHANGED <<asked, seen, overtaken>>
            \/ \E b \in Bookings : Wallets!Apply(PlatformFee(b)) /\ UNCHANGED <<asked, seen, overtaken>>
            \/ \E w \in Withdrawers, p \in Payouts :
                 DebitPayout(w, p) /\ Wallets!Apply(Withdrawal(p, asked[w]))
<1>1. ASSUME NEW r \in Completers, CreditEarning(r)
      PROVE  /\ UNCHANGED <<matured, asked, seen, overtaken>>
             /\ \E b \in Bookings : Wallets!Apply(Earning(b))
  BY <1>1 DEF races, CreditEarning, IInv, WorkingNamed
<1>2. ASSUME NEW r \in Completers, CreditFee(r)
      PROVE  /\ UNCHANGED <<matured, asked, seen, overtaken>>
             /\ \E b \in Bookings : Wallets!Apply(PlatformFee(b))
  BY <1>2 DEF races, CreditFee, IInv, WorkingNamed
<1>3. ASSUME NEW w \in Withdrawers, NEW p \in Payouts, DebitPayout(w, p)
      PROVE  UNCHANGED matured /\ Wallets!Apply(Withdrawal(p, asked[w]))
  BY <1>3 DEF DebitPayout
<1>4. ASSUME \/ \E r \in Completers : (\E b \in Bookings : Complete(r, b)) \/ Notified(r)
             \/ \E w \in Withdrawers :
                  (\E a \in Asks : RequestPayout(w, a)) \/ CheckAvailable(w) \/ CreatePayout(w)
             \/ \E r \in Requests : Abandon(r)
             \/ \E b \in Bookings : ConfirmAgain(b) \/ HoldingPeriodEnds(b)
             \/ \E p \in Payouts : MarkPaid(p)
             \/ UNCHANGED vars
      PROVE  FALSE
  BY <1>4
     DEF Complete, Notified, RequestPayout, CheckAvailable, CreatePayout, Abandon, ConfirmAgain,
         HoldingPeriodEnds, MarkPaid, vars
<1>. QED
  BY <1>1, <1>2, <1>3, <1>4 DEF Next

\* An earning goes to the wallet, and into the holding period.
LEMMA EarningBooked ==
  ASSUME IInv, Books, NEW b \in Bookings, Wallets!Apply(Earning(b)), UNCHANGED matured
  PROVE  /\ Books'
         /\ balance'["professional"] = balance["professional"] + Earnings(b)
         /\ HeldTotal' = HeldTotal + Earnings(b)
<1>. DEFINE F == EarningsOf
            N == EarnedAmong(Bookings)'
            H == EarnedAmong(Bookings \ matured)'
<1>1. entries' = entries \cup {Earning(b)} /\ ~Earned(b)
  BY DEF Wallets!Apply, Earning, Earned
<1>2. \A c \in Bookings : Earned(c)' <=> Earned(c) \/ c = b
  BY <1>1 DEF Earned, Earning, Wallets!TransactionExists
<1>3. /\ b \in N /\ N \ {b} = EarnedAmong(Bookings)
      /\ b \in H /\ H \ {b} = EarnedAmong(Bookings \ matured)
  BY <1>1, <1>2 DEF EarnedAmong, Books
<1>4. Debits' = Debits
  BY <1>1 DEF Debits, Earning
<1>5. /\ balance["professional"] \in Int
      /\ balance'["professional"] = balance["professional"] + Earnings(b)
  BY DEF IInv, TypeOK, Users, Wallets!Apply, Wallets!Change, Earning
<1>6. F[b] = Earnings(b) /\ F[b] \in Nat
  BY EarningsAreNat
<1>7. IsFiniteSet(Units(F, N \ {b})) /\ IsFiniteSet(Units(F, H \ {b}))
  BY <1>3 DEF Books
<1>8. EarnedTotal' = Total(F, N) /\ HeldTotal' = Total(F, H) /\ TakenTotal' = TakenTotal
  BY <1>4 DEF EarnedTotal, HeldTotal, TakenTotal
<1>9. EarnedTotal = Total(F, N \ {b}) /\ HeldTotal = Total(F, H \ {b})
  BY <1>3 DEF EarnedTotal, HeldTotal
<1>10. matured' \subseteq N
  BY <1>2 DEF Books, EarnedAmong
<1>. HIDE DEF F, N, H
<1>11. /\ IsFiniteSet(Units(F, N)) /\ Total(F, N) = Total(F, N \ {b}) + F[b]
       /\ IsFiniteSet(Units(F, H)) /\ Total(F, H) = Total(F, H \ {b}) + F[b]
  BY <1>3, <1>6, <1>7, TotalWithout
<1>12. HeldTotal' = HeldTotal + Earnings(b) /\ EarnedTotal' = EarnedTotal + Earnings(b)
  BY <1>6, <1>8, <1>9, <1>11
<1>13. balance'["professional"] = EarnedTotal' - TakenTotal'
  BY <1>5, <1>6, <1>8, <1>12, TotalsAreNat DEF Books
<1>. QED
  BY <1>4, <1>5, <1>10, <1>11, <1>12, <1>13 DEF Books, F, N, H

\* A fee goes to the platform's wallet.
LEMMA FeeBooked ==
  ASSUME IInv, Books, NEW b \in Bookings, Wallets!Apply(PlatformFee(b)), UNCHANGED matured
  PROVE  /\ Books'
         /\ balance'["professional"] = balance["professional"]
         /\ HeldTotal' = HeldTotal
<1>1. entries' = entries \cup {PlatformFee(b)}
  BY DEF Wallets!Apply
<1>2. \A c : Earned(c)' <=> Earned(c)
  BY <1>1 DEF Earned, PlatformFee, Wallets!TransactionExists
<1>3. /\ EarnedAmong(Bookings)' = EarnedAmong(Bookings)
      /\ EarnedAmong(Bookings \ matured)' = EarnedAmong(Bookings \ matured)
      /\ Debits' = Debits
  BY <1>1, <1>2 DEF EarnedAmong, Debits, PlatformFee
<1>4. balance'["professional"] = balance["professional"]
  BY DEF IInv, TypeOK, Users, Wallets!Apply, PlatformFee
<1>. QED
  BY <1>3, <1>4 DEF Books, EarnedTotal, HeldTotal, TakenTotal

\* A payout takes its amount from the wallet.
LEMMA WithdrawalBooked ==
  ASSUME IInv, Books, NEW p \in Payouts, NEW a \in Asks, Wallets!Apply(Withdrawal(p, a)),
         UNCHANGED matured
  PROVE  /\ Books'
         /\ balance'["professional"] = balance["professional"] - a
         /\ HeldTotal' = HeldTotal
<1>. DEFINE e == Withdrawal(p, a)
            F == Wallets!Amount
            D == Debits'
<1>1. entries' = entries \cup {e} /\ e \notin entries
  BY DEF Wallets!Apply, Wallets!TransactionExists
<1>2. \A c : Earned(c)' <=> Earned(c)
  BY <1>1 DEF Earned, Withdrawal, Wallets!TransactionExists
<1>3. /\ EarnedAmong(Bookings)' = EarnedAmong(Bookings)
      /\ EarnedAmong(Bookings \ matured)' = EarnedAmong(Bookings \ matured)
  BY <1>2 DEF EarnedAmong
<1>4. e \in D /\ D \ {e} = Debits
  BY <1>1 DEF Debits, Withdrawal
<1>5. a \in Nat /\ F[e] = a
  BY SettlementAssumption, WithdrawalIsEntry DEF Wallets!Amount, Withdrawal
<1>6. /\ balance["professional"] \in Int
      /\ balance'["professional"] = balance["professional"] - a
  BY <1>5 DEF IInv, TypeOK, Users, Wallets!Apply, Wallets!Change, Withdrawal
<1>7. IsFiniteSet(Units(F, D \ {e})) /\ TakenTotal = Total(F, D \ {e}) /\ TakenTotal' = Total(F, D)
  BY <1>4 DEF Books, TakenTotal
<1>. HIDE DEF e, F, D
<1>8. IsFiniteSet(Units(F, D)) /\ Total(F, D) = Total(F, D \ {e}) + F[e]
  BY <1>4, <1>5, <1>7, TotalWithout
<1>9. HeldTotal' = HeldTotal /\ EarnedTotal' = EarnedTotal
  BY <1>3 DEF HeldTotal, EarnedTotal
<1>10. balance'["professional"] = EarnedTotal' - TakenTotal'
  BY <1>5, <1>6, <1>7, <1>8, <1>9, TotalsAreNat DEF Books
<1>. QED
  BY <1>3, <1>6, <1>8, <1>9, <1>10 DEF Books, F, D

\* An earning leaves the holding period.
LEMMA EarningMatures ==
  ASSUME IInv, Books, NEW b \in Bookings, HoldingPeriodEnds(b)
  PROVE  Books' /\ HeldTotal' <= HeldTotal
<1>. DEFINE F == EarningsOf
            H == EarnedAmong(Bookings \ matured)
<1>1. /\ Earned(b) /\ b \notin matured /\ matured' = matured \cup {b}
      /\ UNCHANGED <<balance, entries>>
  BY DEF HoldingPeriodEnds, ledger
<1>2. \A c : Earned(c)' <=> Earned(c)
  BY <1>1 DEF Earned, Wallets!TransactionExists
<1>3. /\ EarnedAmong(Bookings)' = EarnedAmong(Bookings) /\ Debits' = Debits
      /\ b \in H /\ EarnedAmong(Bookings \ matured)' = H \ {b}
      /\ matured' \subseteq EarnedAmong(Bookings)
  BY <1>1, <1>2 DEF EarnedAmong, Debits, Books
<1>4. F[b] \in Nat /\ IsFiniteSet(Units(F, H))
  BY EarningsAreNat DEF Books
<1>5. HeldTotal = Total(F, H) /\ HeldTotal' = Total(F, H \ {b})
  BY <1>3 DEF HeldTotal
<1>. HIDE DEF F, H
<1>6. /\ IsFiniteSet(Units(F, H \ {b})) /\ Total(F, H \ {b}) \in Nat
      /\ Total(F, H) = Total(F, H \ {b}) + F[b]
  BY <1>3, <1>4, TotalWithout
<1>7. HeldTotal' <= HeldTotal
  BY <1>4, <1>5, <1>6
<1>. QED
  BY <1>1, <1>3, <1>6, <1>7 DEF Books, EarnedTotal, TakenTotal, F

\* Nothing else changes a total.
LEMMA NothingBooked ==
  ASSUME Books, UNCHANGED <<matured, balance, entries>>
  PROVE  Books' /\ HeldTotal' = HeldTotal
<1>1. \A c : Earned(c)' <=> Earned(c)
  BY DEF Earned, Wallets!TransactionExists
<1>2. /\ EarnedAmong(Bookings)' = EarnedAmong(Bookings) /\ Debits' = Debits
      /\ EarnedAmong(Bookings \ matured)' = EarnedAmong(Bookings \ matured)
  BY <1>1 DEF EarnedAmong, Debits
<1>. QED
  BY <1>2 DEF Books, EarnedTotal, HeldTotal, TakenTotal

\* Only the end of a holding period makes an earning mature.
LEMMA MaturedStays ==
  ASSUME IInv, [Next]_vars, ~UNCHANGED matured
  PROVE  \E b \in Bookings : HoldingPeriodEnds(b)
<1>1. ASSUME \/ \E r \in Completers :
                  (\E b \in Bookings : Complete(r, b)) \/ Notified(r) \/ CreditEarning(r) \/ CreditFee(r)
             \/ \E w \in Withdrawers :
                  \/ \E a \in Asks : RequestPayout(w, a)
                  \/ CheckAvailable(w) \/ CreatePayout(w)
                  \/ \E p \in Payouts : DebitPayout(w, p)
             \/ \E r \in Requests : Abandon(r)
             \/ \E b \in Bookings : ConfirmAgain(b)
             \/ \E p \in Payouts : MarkPaid(p)
             \/ UNCHANGED vars
      PROVE  FALSE
  BY <1>1
     DEF Complete, Notified, CreditEarning, CreditFee, RequestPayout, CheckAvailable,
         CreatePayout,
         DebitPayout, Abandon, ConfirmAgain, MarkPaid, vars
<1>. QED
  BY <1>1 DEF Next

\* A request that is about to debit has its amount.
LEMMA AskedIsAsk ==
  ASSUME IInv, NEW w \in Withdrawers, pc[w] # "idle"
  PROVE  asked[w] \in Asks /\ asked[w] \in Int
<1>1. asked[w] \in Asks
  BY DEF IInv, WorkingNamed
<1>2. Asks \subseteq Int
  BY SettlementAssumption
<1>. QED
  BY <1>1, <1>2

LEMMA StepBooks == IInv /\ Books /\ [Next]_vars => Books'
<1>. SUFFICES ASSUME IInv, Books, [Next]_vars PROVE Books'
  OBVIOUS
<1>1. CASE ~UNCHANGED ledger
  <2>1. CASE \E b \in Bookings : Wallets!Apply(Earning(b))
    BY <1>1, <2>1, LedgerStep, EarningBooked
  <2>2. CASE \E b \in Bookings : Wallets!Apply(PlatformFee(b))
    BY <1>1, <2>2, LedgerStep, FeeBooked
  <2>3. ASSUME NEW w \in Withdrawers, NEW p \in Payouts, DebitPayout(w, p),
               Wallets!Apply(Withdrawal(p, asked[w]))
        PROVE  Books'
    <3>1. asked[w] \in Asks
      BY <2>3, AskedIsAsk DEF DebitPayout
    <3>. QED
      BY <1>1, <2>3, <3>1, LedgerStep, WithdrawalBooked
  <2>. QED
    BY <1>1, <2>1, <2>2, <2>3, LedgerStep
<1>2. CASE UNCHANGED ledger /\ ~UNCHANGED matured
  BY <1>2, MaturedStays, EarningMatures
<1>3. CASE UNCHANGED ledger /\ UNCHANGED matured
  BY <1>3, NothingBooked DEF ledger
<1>. QED
  BY <1>1, <1>2, <1>3

LEMMA BooksInvariant == Spec => []Books
  BY InitBooks, StepBooks, Invariant, PTL DEF Spec

\* The wallet of a professional is what the bookings earned less what payouts took,
\* to the last kobo, however bookings are completed, settlements stop and payout
\* requests interleave (payments/service.go:482, payouts/service.go:119).
THEOREM WalletIsEarnedLessTaken ==
  Spec => [](balance["professional"] = SumEarnings(Bookings) - Withdrawn)
<1>1. Books => balance["professional"] = SumEarnings(Bookings) - Withdrawn
  BY DEF Books, EarnedTotal, TakenTotal, EarningsOf, EarnedAmong, Debits, SumEarnings, Withdrawn
<1>. QED
  BY <1>1, BooksInvariant, PTL

-----------------------------------------------------------------------------
(* What the holding period keeps *)

\* What requests took out that had been overtaken: the check and the debit are not
\* one transaction, and two requests that both read before either debits are both
\* content with the same money (payouts/service.go:104-119).
OvertakenTotal == Total(Wallets!Amount, overtaken)

\* The wallet holds the earnings inside the holding period, but for what overtaken
\* requests took.  For every other request the wallet holds what it read and, when
\* it is about to debit, what it asks for next to the held earnings.
Held ==
  /\ overtaken \subseteq Debits
  /\ IsFiniteSet(Units(Wallets!Amount, overtaken))
  /\ balance["professional"] + OvertakenTotal >= HeldTotal
  /\ \A w \in Withdrawers \ stale :
       /\ pc[w] = "pending" => seen[w] <= balance["professional"]
       /\ pc[w] = "debit" => balance["professional"] - HeldTotal >= asked[w]

\* A request comes to read or to debit by its own steps alone.
LEMMA Approach ==
  ASSUME IInv, [Next]_vars, NEW w \in Withdrawers, pc'[w] \in {"pending", "debit"}
  PROVE  \/ /\ pc'[w] = pc[w] /\ asked'[w] = asked[w] /\ seen'[w] = seen[w]
            /\ w \in stale => w \in stale'
         \/ \E a \in Asks : RequestPayout(w, a)
         \/ CheckAvailable(w)
<1>. DEFINE Same == /\ pc'[w] = pc[w] /\ asked'[w] = asked[w] /\ seen'[w] = seen[w]
                    /\ w \in stale => w \in stale'
<1>. USE Kinds, KindsToo
<1>0. TypeOK /\ \A r \in Completers : r # w
  BY DEF IInv
<1>1. ASSUME NEW r \in Completers,
             (\E b \in Bookings : Complete(r, b)) \/ Notified(r) \/ CreditEarning(r) \/ CreditFee(r)
      PROVE  Same
  BY <1>0, <1>1 DEF races, TypeOK, Complete, Notified, CreditEarning, CreditFee, Finish, Goto
<1>2. ASSUME NEW v \in Withdrawers, v # w,
             \/ \E a \in Asks : RequestPayout(v, a)
             \/ CheckAvailable(v) \/ CreatePayout(v)
             \/ \E p \in Payouts : DebitPayout(v, p)
      PROVE  Same
  BY <1>0, <1>2
     DEF races, TypeOK, RequestPayout, CheckAvailable, CreatePayout, DebitPayout, Finish, Goto
<1>3. ASSUME NEW r \in Requests, Abandon(r) PROVE Same
  BY <1>0, <1>3 DEF races, TypeOK, Abandon, Finish, Goto
<1>4. ASSUME \/ \E b \in Bookings : ConfirmAgain(b) \/ HoldingPeriodEnds(b)
             \/ \E p \in Payouts : MarkPaid(p)
             \/ UNCHANGED vars
      PROVE  Same
  BY <1>4 DEF races, ConfirmAgain, HoldingPeriodEnds, MarkPaid, vars, locals
<1>. HIDE DEF Same
<1>5. Same \/ (\E a \in Asks : RequestPayout(w, a)) \/ CheckAvailable(w)
  <2>1. ASSUME NEW v \in Withdrawers,
               \/ \E a \in Asks : RequestPayout(v, a)
               \/ CheckAvailable(v) \/ CreatePayout(v)
               \/ \E p \in Payouts : DebitPayout(v, p)
        PROVE  Same \/ (\E a \in Asks : RequestPayout(w, a)) \/ CheckAvailable(w)
    <3>1. CASE v # w
      BY <2>1, <3>1, <1>2
    <3>2. CASE v = w
      <4>1. ASSUME NEW a \in Asks, RequestPayout(v, a) PROVE RequestPayout(w, a)
        BY <3>2, <4>1 DEF RequestPayout, Goto
      <4>2. ASSUME CheckAvailable(v) PROVE CheckAvailable(w)
        BY <3>2, <4>2 DEF CheckAvailable, AvailableBalance, Finish, Goto
      <4>3. ASSUME CreatePayout(v) \/ \E p \in Payouts : DebitPayout(v, p) PROVE FALSE
        BY <1>0, <3>2, <4>3 DEF races, TypeOK, CreatePayout, DebitPayout, Finish, Goto
      <4>. QED
        BY <2>1, <4>1, <4>2, <4>3
    <3>. QED
      BY <3>1, <3>2
  <2>. QED
    BY <1>1, <1>3, <1>4, <2>1 DEF Next
<1>. QED
  BY <1>5 DEF Same

\* Only a debit is a withdrawal, of an overtaken request or of any other.
LEMMA OvertakingDebits ==
  ASSUME [Next]_vars, UNCHANGED ledger
  PROVE  overtaken' = overtaken
<1>1. ASSUME NEW w \in Withdrawers, NEW p \in Payouts, DebitPayout(w, p)
      PROVE  overtaken' = overtaken
  BY <1>1 DEF DebitPayout, ledger, races, Wallets!Apply, Wallets!TransactionExists
<1>2. ASSUME \/ \E r \in Completers :
                  (\E b \in Bookings : Complete(r, b)) \/ Notified(r) \/ CreditEarning(r) \/ CreditFee(r)
             \/ \E w \in Withdrawers :
                  (\E a \in Asks : RequestPayout(w, a)) \/ CheckAvailable(w) \/ CreatePayout(w)
             \/ \E r \in Requests : Abandon(r)
             \/ \E b \in Bookings : ConfirmAgain(b) \/ HoldingPeriodEnds(b)
             \/ \E p \in Payouts : MarkPaid(p)
             \/ UNCHANGED vars
      PROVE  overtaken' = overtaken
  BY <1>2
     DEF Complete, Notified, CreditEarning, CreditFee, RequestPayout, CheckAvailable,
         CreatePayout,
         Abandon, ConfirmAgain, HoldingPeriodEnds, MarkPaid, vars, races
<1>. QED
  BY <1>1, <1>2 DEF Next

\* Only a debit takes from the wallet, or from what the wallet holds beyond the
\* earnings inside the holding period.
LEMMA OnlyDebitsTake ==
  ASSUME IInv, Books, [Next]_vars
  PROVE  \/ /\ balance'["professional"] >= balance["professional"]
            /\ (balance["professional"] - HeldTotal)' >= balance["professional"] - HeldTotal
            /\ overtaken' = overtaken
         \/ \E w \in Withdrawers, p \in Payouts :
              /\ DebitPayout(w, p) /\ Wallets!Apply(Withdrawal(p, asked[w]))
              /\ balance'["professional"] = balance["professional"] - asked[w]
              /\ HeldTotal' = HeldTotal
<1>. DEFINE B == balance["professional"]
            H == HeldTotal
            Kept == B' >= B /\ B' - H' >= B - H /\ overtaken' = overtaken
            Took(w) == B' = B - asked[w] /\ H' = H
<1>1. B \in Int /\ H \in Int
  BY TotalsAreNat DEF IInv, TypeOK, Users
<1>2. B' \in Int /\ H' \in Int
  <2>1. (EarnedTotal \in Nat /\ HeldTotal \in Nat /\ TakenTotal \in Nat)'
    <3>1. Books'
      BY StepBooks
    <3>. QED
      BY <3>1, TotalsAreNat, PTL
  <2>2. B' = EarnedTotal' - TakenTotal'
    BY StepBooks DEF Books
  <2>. QED
    BY <2>1, <2>2
<1>3. CASE ~UNCHANGED ledger
  <2>1. ASSUME NEW b \in Bookings, Wallets!Apply(Earning(b)),
               overtaken' = overtaken
        PROVE  Kept
    <3>1. B' = B + Earnings(b) /\ H' = H + Earnings(b)
      BY <1>3, <2>1, LedgerStep, EarningBooked
    <3>2. Earnings(b) \in Nat
      BY EarningsAreNat
    <3>. HIDE DEF B, H
    <3>. QED
      BY <1>1, <2>1, <3>1, <3>2
  <2>2. ASSUME NEW b \in Bookings, Wallets!Apply(PlatformFee(b)),
               overtaken' = overtaken
        PROVE  Kept
    <3>1. B' = B /\ H' = H
      BY <1>3, <2>2, LedgerStep, FeeBooked
    <3>. HIDE DEF B, H
    <3>. QED
      BY <1>1, <2>2, <3>1
  <2>3. ASSUME NEW w \in Withdrawers, NEW p \in Payouts, DebitPayout(w, p),
               Wallets!Apply(Withdrawal(p, asked[w]))
        PROVE  Took(w)
    <3>1. asked[w] \in Asks
      BY <2>3, AskedIsAsk DEF DebitPayout
    <3>. QED
      BY <1>3, <2>3, <3>1, LedgerStep, WithdrawalBooked
  <2>4. Kept \/ \E w \in Withdrawers, p \in Payouts :
                 DebitPayout(w, p) /\ Wallets!Apply(Withdrawal(p, asked[w])) /\ Took(w)
    <3>. HIDE DEF Kept, Took
    <3>. QED
      BY <1>3, <2>1, <2>2, <2>3, LedgerStep
  <2>. QED
    BY <2>4
<1>4. CASE UNCHANGED ledger /\ ~UNCHANGED matured
  <2>1. B' = B /\ H' <= H
    BY <1>4, MaturedStays, EarningMatures DEF ledger, HoldingPeriodEnds
  <2>. QED
    BY <1>1, <1>2, <1>4, <2>1, OvertakingDebits
<1>5. CASE UNCHANGED ledger /\ UNCHANGED matured
  <2>1. B' = B /\ H' = H
    BY <1>5, NothingBooked DEF ledger
  <2>. HIDE DEF B, H
  <2>2. Kept
    BY <1>1, <1>5, <2>1, OvertakingDebits
  <2>. QED
    BY <2>2 DEF B, H
<1>. QED
  BY <1>3, <1>4, <1>5

LEMMA InitHeld == Init => Held
<1>. SUFFICES ASSUME Init PROVE Held
  OBVIOUS
<1>1. balance["professional"] = 0 /\ EarnedAmong(Bookings \ matured) = {}
  BY DEF Init, Wallets!Init, Users, Earned, Wallets!TransactionExists, EarnedAmong
<1>2. HeldTotal = 0
  BY <1>1, TotalEmpty DEF HeldTotal
<1>3. overtaken = {} /\ OvertakenTotal = 0 /\ IsFiniteSet(Units(Wallets!Amount, overtaken))
  BY TotalEmpty DEF Init, OvertakenTotal
<1>. QED
  BY <1>1, <1>2, <1>3, KindsToo DEF Init, Held

\* Debits stay in the ledger.
LEMMA DebitsStay == ASSUME IInv, [Next]_vars PROVE Debits \subseteq Debits'
<1>1. \A e : Wallets!Apply(e) => entries \subseteq entries'
  BY DEF Wallets!Apply
<1>2. UNCHANGED ledger => entries \subseteq entries'
  BY DEF ledger
<1>. QED
  BY <1>1, <1>2, LedgerStep DEF Debits

LEMMA StepHeld == IInv /\ Books /\ Held /\ [Next]_vars => Held'
<1>. SUFFICES ASSUME IInv, Books, Held, [Next]_vars PROVE Held'
  OBVIOUS
<1>. USE KindsToo
<1>0. TypeOK
  BY DEF IInv
<1>1. balance["professional"] \in Int /\ HeldTotal \in Int
  BY <1>0, TotalsAreNat DEF TypeOK, Users
<1>2. HeldTotal' \in Int
  <2>1. Books'
    BY StepBooks
  <2>2. (EarnedTotal \in Nat /\ HeldTotal \in Nat /\ TakenTotal \in Nat)'
    BY <2>1, TotalsAreNat, PTL
  <2>. QED
    BY <2>2
<1>3. balance'["professional"] \in Int
  <2>1. Books'
    BY StepBooks
  <2>2. (EarnedTotal \in Nat /\ HeldTotal \in Nat /\ TakenTotal \in Nat)'
    BY <2>1, TotalsAreNat, PTL
  <2>3. balance'["professional"] = EarnedTotal' - TakenTotal'
    BY <2>1 DEF Books
  <2>. QED
    BY <2>2, <2>3
<1>8. OvertakenTotal \in Nat
  BY TotalType DEF Held, OvertakenTotal
<1>4. ASSUME NEW w \in Withdrawers, NEW a \in Asks, RequestPayout(w, a)
      PROVE  pc'[w] = "pending" /\ seen'[w] = balance["professional"] /\ UNCHANGED balance
  BY <1>0, <1>4 DEF TypeOK, RequestPayout, Goto, ledger
<1>5. ASSUME NEW w \in Withdrawers, CheckAvailable(w)
      PROVE  /\ pc[w] = "pending" /\ UNCHANGED balance /\ asked'[w] = asked[w]
             /\ pc'[w] \in {"idle", "debit"}
             /\ pc'[w] = "debit" => ~(seen[w] - HeldTotal < asked[w])
             /\ stale' = stale
  <2>1. AvailableBalance(w) = seen[w] - HeldTotal
    BY DEF AvailableBalance, PendingEarnings, SumEarnings, HeldTotal, EarningsOf, EarnedAmong
  <2>. QED
    BY <1>0, <1>5, <2>1 DEF TypeOK, races, CheckAvailable, Finish, Goto, ledger
<1>6. CASE /\ balance'["professional"] >= balance["professional"]
           /\ (balance["professional"] - HeldTotal)' >= balance["professional"] - HeldTotal
           /\ overtaken' = overtaken
  <2>1. balance'["professional"] + OvertakenTotal' >= HeldTotal'
    <3>1. OvertakenTotal' = OvertakenTotal
      BY <1>6 DEF OvertakenTotal
    <3>. QED
      BY <3>1, <1>1, <1>2, <1>3, <1>6, <1>8 DEF Held
  <2>4. (overtaken \subseteq Debits /\ IsFiniteSet(Units(Wallets!Amount, overtaken)))'
    BY <1>6, DebitsStay DEF Held
  <2>2. ASSUME NEW w \in Withdrawers \ stale', pc'[w] = "pending"
        PROVE  seen'[w] <= balance'["professional"]
    <3>1. CASE pc'[w] = pc[w] /\ seen'[w] = seen[w] /\ w \notin stale
      <4>1. seen[w] \in Int /\ seen[w] <= balance["professional"]
        BY <1>0, <2>2, <3>1 DEF Held, TypeOK
      <4>. QED
        BY <4>1, <1>1, <1>3, <1>6, <3>1
    <3>2. CASE \E a \in Asks : RequestPayout(w, a)
      BY <1>1, <3>2, <1>4
    <3>. QED
      BY <2>2, <3>1, <3>2, <1>5, Approach
  <2>3. ASSUME NEW w \in Withdrawers \ stale', pc'[w] = "debit"
        PROVE  (balance["professional"] - HeldTotal)' >= asked'[w]
    <3>1. pc[w] # "idle" => asked[w] \in Int
      BY AskedIsAsk
    <3>2. CASE pc'[w] = pc[w] /\ asked'[w] = asked[w] /\ w \notin stale
      <4>1. asked[w] \in Int /\ balance["professional"] - HeldTotal >= asked[w]
        BY <2>3, <3>1, <3>2 DEF Held
      <4>. QED
        BY <4>1, <1>1, <1>2, <1>3, <1>6, <3>2
    <3>3. CASE CheckAvailable(w)
      <4>1. /\ asked[w] \in Int /\ seen[w] \in Int /\ seen[w] <= balance["professional"]
            /\ ~(seen[w] - HeldTotal < asked[w]) /\ asked'[w] = asked[w]
        BY <1>0, <1>5, <2>3, <3>1, <3>3 DEF Held, TypeOK
      <4>. QED
        BY <4>1, <1>1, <1>2, <1>3, <1>6
    <3>. QED
      BY <2>3, <3>2, <3>3, <1>4, Approach
  <2>. QED
    BY <2>1, <2>2, <2>3, <2>4 DEF Held
<1>7. ASSUME NEW v \in Withdrawers, NEW p \in Payouts, DebitPayout(v, p),
             Wallets!Apply(Withdrawal(p, asked[v])),
             balance'["professional"] = balance["professional"] - asked[v],
             HeldTotal' = HeldTotal
      PROVE  Held'
  <2>. DEFINE e == Withdrawal(p, asked[v])
              F == Wallets!Amount
  <2>1. /\ pc[v] = "debit" /\ asked[v] \in Asks /\ asked[v] \in Int
        /\ e \notin entries /\ entries' = entries \cup {e}
    BY <1>7, AskedIsAsk DEF DebitPayout, Wallets!Apply, Wallets!TransactionExists
  <2>2. /\ pc' = [pc EXCEPT ![v] = "create"]
        /\ stale' = (stale \cup UnderWay) \ {v}
        /\ overtaken' = IF v \in stale THEN overtaken \cup {e} ELSE overtaken
    BY <1>7, <2>1 DEF DebitPayout, Goto, ledger
  <2>3. ASSUME NEW w \in Withdrawers \ stale' PROVE pc'[w] \notin {"pending", "debit"}
    BY <1>0, <2>2, <2>3 DEF TypeOK, UnderWay
  <2>4. F[e] = asked[v] /\ asked[v] \in Nat
    BY <2>1, WithdrawalIsEntry, SettlementAssumption DEF Wallets!Amount, Withdrawal
  <2>5. (overtaken \subseteq Debits)'
    BY <2>1, <2>2 DEF Held, Debits, Withdrawal
  <2>6. CASE v \in stale
    <3>1. overtaken' = overtaken \cup {e} /\ overtaken' \ {e} = overtaken
      BY <2>1, <2>2, <2>6 DEF Held, Debits
    <3>2. IsFiniteSet(Units(F, overtaken))
      BY DEF Held
    <3>. HIDE DEF e, F
    <3>3. IsFiniteSet(Units(F, overtaken')) /\ Total(F, overtaken') = Total(F, overtaken) + F[e]
      BY <2>4, <3>1, <3>2, TotalWithout
    <3>4. OvertakenTotal' = OvertakenTotal + asked[v]
      BY <2>4, <3>3 DEF OvertakenTotal, F
    <3>5. balance'["professional"] + OvertakenTotal' >= HeldTotal'
      BY <2>4, <3>4, <1>1, <1>7, <1>8 DEF Held
    <3>. QED
      BY <2>3, <2>5, <3>3, <3>5 DEF Held, F
  <2>7. CASE v \notin stale
    <3>1. overtaken' = overtaken /\ OvertakenTotal' = OvertakenTotal
      BY <2>2, <2>7 DEF OvertakenTotal
    <3>2. balance["professional"] - HeldTotal >= asked[v]
      BY <2>1, <2>7 DEF Held
    <3>3. balance'["professional"] + OvertakenTotal' >= HeldTotal'
      BY <2>4, <3>1, <3>2, <1>1, <1>7, <1>8
    <3>. QED
      BY <2>3, <2>5, <3>1, <3>3 DEF Held
  <2>. QED
    BY <2>6, <2>7
<1>. QED
  BY <1>6, <1>7, OnlyDebitsTake

LEMMA HeldIsSummed == Books /\ Held /\ IInv => HeldEarningsStay
<1>. SUFFICES ASSUME Books, Held, IInv PROVE HeldEarningsStay
  OBVIOUS
<1>. DEFINE B == balance["professional"]
            Free == IF B - HeldTotal < 0 THEN 0 ELSE B - HeldTotal
<1>1. SumEarnings(Bookings) = EarnedTotal /\ PendingEarnings = HeldTotal /\ Withdrawn = TakenTotal
  BY DEF SumEarnings, PendingEarnings, Withdrawn, EarnedTotal, HeldTotal, TakenTotal, EarningsOf,
         EarnedAmong, Debits
<1>2. B \in Int /\ B + OvertakenTotal >= HeldTotal /\ B = EarnedTotal - TakenTotal
  BY DEF Books, Held, IInv, TypeOK, Users
<1>3. EarnedTotal \in Nat /\ HeldTotal \in Nat /\ TakenTotal \in Nat /\ OvertakenTotal \in Nat
  BY TotalsAreNat, TotalType DEF Held, OvertakenTotal
<1>4. /\ EarningsSummary.total = EarnedTotal /\ EarningsSummary.pending = HeldTotal
      /\ EarningsSummary.available = Free
  BY <1>1 DEF EarningsSummary
<1>5. HeldTotal + Free + TakenTotal \in EarnedTotal .. (EarnedTotal + OvertakenTotal)
  <2>. HIDE DEF B
  <2>. QED
    BY <1>2, <1>3
<1>. QED
  BY <1>1, <1>4, <1>5 DEF HeldEarningsStay, OvertakenTotal

\* The earnings inside the holding period stay in the wallet, and the summary adds
\* up to the last kobo, however completions, credits, the clock and other requests
\* fall between the reads and the debit of a payout request, but for what requests
\* took that another one's debit had overtaken (payouts/service.go:96-119).
THEOREM HeldEarningsAreKept == Spec => []HeldEarningsStay
  BY InitHeld, StepHeld, HeldIsSummed, Invariant, BooksInvariant, PTL DEF Spec

\* A professional who sends one request for a payout after the other is overtaken
\* by none, and never takes out money that is still held.
THEOREM OneRequestKeeps ==
  ASSUME \A v, w \in Withdrawers : v = w
  PROVE  Spec => [](LET s == EarningsSummary IN s.pending + s.available + Withdrawn = s.total)
<1>. DEFINE NoneOvertaken == stale = {} /\ overtaken = {}
<1>1. Init => NoneOvertaken
  BY DEF Init
<1>2. NoneOvertaken /\ [Next]_vars => NoneOvertaken'
  <2>. SUFFICES ASSUME NoneOvertaken, [Next]_vars PROVE NoneOvertaken'
    OBVIOUS
  <2>1. ASSUME NEW w \in Withdrawers, NEW p \in Payouts, DebitPayout(w, p)
        PROVE  NoneOvertaken'
    BY <2>1 DEF DebitPayout, UnderWay, races
  <2>2. ASSUME NEW w \in Withdrawers, NEW a \in Asks, RequestPayout(w, a)
        PROVE  NoneOvertaken'
    BY <2>2 DEF RequestPayout
  <2>3. ASSUME \/ \E r \in Completers :
                    \/ \E b \in Bookings : Complete(r, b)
                    \/ Notified(r) \/ CreditEarning(r) \/ CreditFee(r)
               \/ \E w \in Withdrawers : CheckAvailable(w) \/ CreatePayout(w)
               \/ \E r \in Requests : Abandon(r)
               \/ \E b \in Bookings : ConfirmAgain(b) \/ HoldingPeriodEnds(b)
               \/ \E p \in Payouts : MarkPaid(p)
               \/ UNCHANGED vars
        PROVE  NoneOvertaken'
    BY <2>3
       DEF Complete, Notified, CreditEarning, CreditFee, CheckAvailable, CreatePayout, Abandon,
           ConfirmAgain, HoldingPeriodEnds, MarkPaid, vars, races
  <2>. QED
    BY <2>1, <2>2, <2>3 DEF Next
<1>3. IInv /\ Books /\ NoneOvertaken /\ HeldEarningsStay
        => (LET s == EarningsSummary IN s.pending + s.available + Withdrawn = s.total)
  <2>. SUFFICES ASSUME IInv, Books, NoneOvertaken, HeldEarningsStay
                PROVE  LET s == EarningsSummary IN s.pending + s.available + Withdrawn = s.total
    OBVIOUS
  <2>1. Total(Wallets!Amount, overtaken) = 0
    BY TotalEmpty
  <2>2. EarningsSummary.total \in Int
    BY TotalsAreNat DEF EarningsSummary, SumEarnings, EarnedTotal, EarningsOf, EarnedAmong
  <2>. QED
    BY <2>1, <2>2 DEF HeldEarningsStay
<1>. QED
  BY <1>1, <1>2, <1>3, HeldEarningsAreKept, Invariant, BooksInvariant, PTL DEF Spec

-----------------------------------------------------------------------------
(* The refinement of Income *)

earnedBar == {b \in Bookings : Earned(b)}
withheldBar == {b \in Bookings : Wallets!TransactionExists(<<"fee", b>>)}
takenBar == {pa \in Payouts \X Asks : Withdrawal(pa[1], pa[2]) \in entries}
sharesBar == <<earnedBar, withheldBar, balance["platform"]>>
promised == <<sharesBar, takenBar, payout, balance["professional"]>>

\* A payout about to be recorded is on no record yet, and nobody else's.
OneRecords ==
  \A w \in Withdrawers : pc[w] = "create" =>
    /\ payout[working[w]].status = "NONE"
    /\ \A v \in Withdrawers \ {w} : pc[v] = "create" => working[v] # working[w]

\* Steps that touch neither the ledger nor a payout.
Quiet ==
  \/ \E r \in Completers : Notified(r) \/ \E b \in Bookings : Complete(r, b)
  \/ \E r \in Withdrawers : CheckAvailable(r) \/ \E a \in Asks : RequestPayout(r, a)
  \/ \E r \in Requests : Abandon(r)
  \/ \E b \in Bookings : ConfirmAgain(b) \/ HoldingPeriodEnds(b)
  \/ UNCHANGED vars

LEMMA QuietIsQuiet ==
  ASSUME IInv, Quiet
  PROVE  /\ UNCHANGED <<balance, entries, payout>>
         /\ \A w \in Withdrawers : pc'[w] = "create" => pc[w] = "create" /\ working'[w] = working[w]
<1>. USE DEF Goto, Finish, ledger, locals
<1>0. pc \in [Requests -> Steps] /\ working \in [Requests -> Bookings \cup Payouts \cup {None}]
  BY DEF IInv, TypeOK
<1>1. ASSUME NEW r \in Completers, Notified(r) \/ \E b \in Bookings : Complete(r, b)
      PROVE  /\ UNCHANGED <<balance, entries, payout>>
             /\ \A w \in Withdrawers : pc'[w] = pc[w] /\ working'[w] = working[w]
  BY <1>0, <1>1, Kinds, KindsToo DEF Notified, Complete
<1>2. ASSUME NEW r \in Withdrawers, CheckAvailable(r) \/ \E a \in Asks : RequestPayout(r, a)
      PROVE  /\ UNCHANGED <<balance, entries, payout>>
             /\ \A w \in Withdrawers : pc'[w] = "create" =>
                  pc[w] = "create" /\ working'[w] = working[w]
  BY <1>0, <1>2, KindsToo DEF CheckAvailable, RequestPayout
<1>3. ASSUME NEW r \in Requests, Abandon(r)
      PROVE  /\ UNCHANGED <<balance, entries, payout>>
             /\ \A w \in Withdrawers : pc'[w] = "create" =>
                  pc[w] = "create" /\ working'[w] = working[w]
  BY <1>0, <1>3, KindsToo DEF Abandon
<1>4. CASE UNCHANGED vars \/ \E b \in Bookings : ConfirmAgain(b) \/ HoldingPeriodEnds(b)
  BY <1>4 DEF vars, ConfirmAgain, HoldingPeriodEnds
<1>. QED
  BY <1>1, <1>2, <1>3, <1>4 DEF Quiet

LEMMA StepRecords == IInv /\ OneRecords /\ [Next]_vars => OneRecords'
<1>. SUFFICES ASSUME IInv, OneRecords, [Next]_vars PROVE OneRecords'
  OBVIOUS
<1>. USE Kinds, KindsToo
<1>0. TypeOK
  BY DEF IInv
<1>1. CASE Quiet
  BY <1>1, QuietIsQuiet DEF OneRecords
<1>2. ASSUME NEW r \in Completers, CreditEarning(r) \/ CreditFee(r) PROVE OneRecords'
  <2>1. payout' = payout /\ \A w \in Withdrawers : pc'[w] = pc[w] /\ working'[w] = working[w]
    BY <1>0, <1>2 DEF CreditEarning, CreditFee, Finish, Goto, TypeOK
  <2>. QED
    BY <2>1 DEF OneRecords
<1>3. ASSUME NEW r \in Withdrawers, CreatePayout(r) PROVE OneRecords'
  <2>1. /\ pc'[r] = "idle" /\ pc[r] = "create"
        /\ \A w \in Withdrawers \ {r} : pc'[w] = pc[w] /\ working'[w] = working[w]
    BY <1>0, <1>3, FinishMoves DEF CreatePayout, Moves
  <2>2. \A p : p # working[r] => payout'[p] = payout[p]
    BY <1>0, <1>3 DEF CreatePayout, TypeOK
  <2>. QED
    BY <2>1, <2>2 DEF OneRecords
<1>4. ASSUME NEW r \in Withdrawers, NEW p \in Payouts, DebitPayout(r, p) PROVE OneRecords'
  <2>1. payout' = payout /\ ~Wallets!TransactionExists(<<"payout", p>>)
    BY <1>4 DEF DebitPayout, Withdrawal
  <2>2. CASE Finish(r)
    <3>1. pc'[r] = "idle"
          /\ \A w \in Withdrawers \ {r} : pc'[w] = pc[w] /\ working'[w] = working[w]
      BY <1>0, <2>2, FinishMoves DEF Moves
    <3>. QED
      BY <2>1, <3>1 DEF OneRecords
  <2>3. CASE Goto(r, "create") /\ working' = [working EXCEPT ![r] = p]
    <3>1. /\ pc'[r] = "create" /\ working'[r] = p
          /\ \A w \in Withdrawers \ {r} : pc'[w] = pc[w] /\ working'[w] = working[w]
      BY <1>0, <2>3, BeginMoves DEF Moves, Steps
    <3>2. \A a : Withdrawal(p, a) \notin entries
      BY <2>1 DEF Withdrawal, Wallets!TransactionExists
    <3>3. payout[p].status = "NONE"
      BY <3>2 DEF IInv, PayoutsAreDebited, ListPayouts
    <3>4. \A w \in Withdrawers : pc[w] = "create" => working[w] # p
      BY <3>2 DEF IInv, DebitsInOrder
    <3>. QED
      BY <2>1, <3>1, <3>3, <3>4 DEF OneRecords
  <2>. QED
    BY <1>4, <2>2, <2>3 DEF DebitPayout
<1>5. ASSUME NEW p \in Payouts, MarkPaid(p) PROVE OneRecords'
  <2>1. /\ UNCHANGED <<pc, working>> /\ payout[p].status = "PENDING"
        /\ \A q : q # p => payout'[q] = payout[q]
    BY <1>0, <1>5 DEF MarkPaid, locals, TypeOK
  <2>. QED
    BY <2>1 DEF OneRecords
<1>. QED
  BY <1>1, <1>2, <1>3, <1>4, <1>5 DEF Next, Quiet

\* What each of the entries does to the marks that the refinement reads.
LEMMA EarningMarks ==
  ASSUME NEW b \in Bookings, entries' = entries \cup {Earning(b)}
  PROVE  earnedBar' = earnedBar \cup {b} /\ UNCHANGED <<withheldBar, takenBar>>
<1>. DEFINE e == Earning(b)
<1>0. e.reference = <<"earn", b>> /\ e.type = "CREDIT" /\ entries' = entries \cup {e}
  BY DEF Earning
<1>. HIDE DEF e
<1>1. ASSUME NEW c \in Bookings PROVE Earned(c)' <=> Earned(c) \/ c = b
  BY <1>0 DEF Earned, Wallets!TransactionExists
<1>2. ASSUME NEW c \in Bookings
      PROVE  Wallets!TransactionExists(<<"fee", c>>)' <=> Wallets!TransactionExists(<<"fee", c>>)
  BY <1>0 DEF Wallets!TransactionExists
<1>3. ASSUME NEW p \in Payouts, NEW a \in Asks
      PROVE  (Withdrawal(p, a) \in entries)' <=> Withdrawal(p, a) \in entries
  BY <1>0 DEF Withdrawal
<1>. QED
  BY <1>1, <1>2, <1>3 DEF earnedBar, withheldBar, takenBar

LEMMA FeeMarks ==
  ASSUME NEW b \in Bookings, entries' = entries \cup {PlatformFee(b)}
  PROVE  withheldBar' = withheldBar \cup {b} /\ UNCHANGED <<earnedBar, takenBar>>
<1>. DEFINE e == PlatformFee(b)
<1>0. e.reference = <<"fee", b>> /\ e.type = "CREDIT" /\ entries' = entries \cup {e}
  BY DEF PlatformFee
<1>. HIDE DEF e
<1>1. ASSUME NEW c \in Bookings PROVE Earned(c)' <=> Earned(c)
  BY <1>0 DEF Earned, Wallets!TransactionExists
<1>2. ASSUME NEW c \in Bookings
      PROVE  Wallets!TransactionExists(<<"fee", c>>)'
               <=> Wallets!TransactionExists(<<"fee", c>>) \/ c = b
  BY <1>0 DEF Wallets!TransactionExists
<1>3. ASSUME NEW p \in Payouts, NEW a \in Asks
      PROVE  (Withdrawal(p, a) \in entries)' <=> Withdrawal(p, a) \in entries
  BY <1>0 DEF Withdrawal
<1>. QED
  BY <1>1, <1>2, <1>3 DEF earnedBar, withheldBar, takenBar

LEMMA WithdrawalMarks ==
  ASSUME NEW p \in Payouts, NEW a \in Asks, entries' = entries \cup {Withdrawal(p, a)}
  PROVE  takenBar' = takenBar \cup {<<p, a>>} /\ UNCHANGED <<earnedBar, withheldBar>>
<1>. DEFINE e == Withdrawal(p, a)
<1>0. e.reference = <<"payout", p>> /\ e.amount = a /\ entries' = entries \cup {e}
  BY DEF Withdrawal
<1>3. ASSUME NEW q \in Payouts, NEW x \in Asks
      PROVE  (Withdrawal(q, x) \in entries)' <=> Withdrawal(q, x) \in entries \/ (q = p /\ x = a)
  BY <1>0 DEF Withdrawal
<1>. HIDE DEF e
<1>1. ASSUME NEW c \in Bookings PROVE Earned(c)' <=> Earned(c)
  BY <1>0 DEF Earned, Wallets!TransactionExists
<1>2. ASSUME NEW c \in Bookings
      PROVE  Wallets!TransactionExists(<<"fee", c>>)' <=> Wallets!TransactionExists(<<"fee", c>>)
  BY <1>0 DEF Wallets!TransactionExists
<1>. QED
  BY <1>1, <1>2, <1>3 DEF earnedBar, withheldBar, takenBar

\* What an entry does to the two wallets.
LEMMA WalletsMove ==
  ASSUME TypeOK, NEW e \in Wallets!Entry, Wallets!Apply(e)
  PROVE  /\ entries' = entries \cup {e} /\ Wallets!Covered(e)
         /\ ~Wallets!TransactionExists(e.reference)
         /\ balance'[e.user] = balance[e.user] + Wallets!Change(e)
         /\ \A u \in Users : u # e.user => balance'[u] = balance[u]
<1>1. balance \in [Users -> Int] /\ e.user \in Users
  BY DEF TypeOK, Wallets!Entry
<1>. QED
  BY <1>1 DEF Wallets!Apply

LEMMA SameBooks ==
  ASSUME UNCHANGED <<balance, entries>>
  PROVE  UNCHANGED <<earnedBar, withheldBar, takenBar, balance["platform"], balance["professional"]>>
<1>1. UNCHANGED <<earnedBar, withheldBar>>
  BY DEF earnedBar, withheldBar, Earned, Wallets!TransactionExists
<1>2. UNCHANGED takenBar
  BY DEF takenBar, Withdrawal
<1>. QED
  BY <1>1, <1>2

LEMMA EarningIsEarned ==
  ASSUME IInv, NEW r \in Completers, CreditEarning(r)
  PROVE  [Promise!Next]_promised
<1>1. working[r] \in Bookings /\ payout' = payout
  BY DEF CreditEarning, IInv, WorkingNamed
<1>2. CASE UNCHANGED ledger
  BY <1>1, <1>2, SameBooks DEF ledger, promised, sharesBar
<1>3. ASSUME NEW b \in Bookings, Earning(b).amount > 0, Wallets!Apply(Earning(b))
      PROVE  Promise!Earn(b)
  <2>1. Earning(b) \in Wallets!Entry
    BY <1>3, EarningIsEntry
  <2>2. /\ entries' = entries \cup {Earning(b)}
        /\ ~Wallets!TransactionExists(<<"earn", b>>)
        /\ balance'["professional"] = balance["professional"] + Earnings(b)
        /\ balance'["platform"] = balance["platform"]
    BY <1>3, <2>1, WalletsMove DEF IInv, Earning, Wallets!Change, Users
  <2>3. b \notin earnedBar /\ earnedBar' = earnedBar \cup {b} /\ UNCHANGED <<withheldBar, takenBar>>
    BY <2>2, EarningMarks DEF earnedBar, Earned
  <2>. QED
    BY <1>1, <2>2, <2>3 DEF Promise!Earn, earnedBar, withheldBar, takenBar
<1>. QED
  BY <1>1, <1>2, <1>3 DEF CreditEarning, Promise!Next

LEMMA FeeIsWithheld ==
  ASSUME IInv, NEW r \in Completers, CreditFee(r)
  PROVE  [Promise!Next]_promised
<1>1. /\ working[r] \in Bookings /\ payout' = payout
      /\ Earning(working[r]) \in entries
  BY DEF CreditFee, IInv, WorkingNamed, CreditsInOrder
<1>2. CASE UNCHANGED ledger
  BY <1>1, <1>2, SameBooks DEF ledger, promised, sharesBar
<1>3. ASSUME NEW b \in Bookings, Earning(b) \in entries, PlatformFee(b).amount > 0,
             Wallets!Apply(PlatformFee(b))
      PROVE  Promise!Withhold(b)
  <2>1. PlatformFee(b) \in Wallets!Entry
    BY <1>3, FeeIsEntry
  <2>2. /\ entries' = entries \cup {PlatformFee(b)}
        /\ ~Wallets!TransactionExists(<<"fee", b>>)
        /\ balance'["platform"] = balance["platform"] + Fee(b)
        /\ balance'["professional"] = balance["professional"]
    BY <1>3, <2>1, WalletsMove DEF IInv, PlatformFee, Wallets!Change, Users
  <2>3. b \in earnedBar \ withheldBar
    BY <1>3, <2>2 DEF earnedBar, withheldBar, Earned, Earning, Wallets!TransactionExists
  <2>4. withheldBar' = withheldBar \cup {b} /\ UNCHANGED <<earnedBar, takenBar>>
    BY <2>2, FeeMarks
  <2>. QED
    BY <1>1, <2>2, <2>3, <2>4 DEF Promise!Withhold, earnedBar, withheldBar, takenBar
<1>. QED
  BY <1>1, <1>2, <1>3 DEF CreditFee, Promise!Next

LEMMA DebitIsTaken ==
  ASSUME IInv, NEW r \in Withdrawers, NEW p \in Payouts, DebitPayout(r, p)
  PROVE  [Promise!Next]_promised
<1>1. asked[r] \in Asks /\ asked[r] \in Int /\ payout' = payout
  BY AskedIsAsk DEF DebitPayout
<1>2. CASE UNCHANGED ledger
  BY <1>1, <1>2, SameBooks DEF ledger, promised, sharesBar
<1>3. ASSUME NEW a \in Asks, a \in Int, Wallets!Apply(Withdrawal(p, a)) PROVE Promise!Take(p, a)
  <2>1. Withdrawal(p, a) \in Wallets!Entry
    BY WithdrawalIsEntry
  <2>2. /\ entries' = entries \cup {Withdrawal(p, a)} /\ a <= balance["professional"]
        /\ ~Wallets!TransactionExists(<<"payout", p>>)
        /\ balance'["professional"] = balance["professional"] - a
        /\ balance'["platform"] = balance["platform"]
    <3>1. balance["professional"] \in Int
      BY DEF IInv, TypeOK, Users
    <3>. QED
      BY <1>3, <2>1, <3>1, WalletsMove
         DEF IInv, Withdrawal, Wallets!Change, Wallets!Covered, Users
  <2>3. \A x \in Asks : <<p, x>> \notin takenBar
    BY <2>2 DEF takenBar, Withdrawal, Wallets!TransactionExists
  <2>4. takenBar' = takenBar \cup {<<p, a>>} /\ UNCHANGED <<earnedBar, withheldBar>>
    BY <2>2, WithdrawalMarks
  <2>. QED
    BY <1>1, <2>2, <2>3, <2>4 DEF Promise!Take, Promise!shares, earnedBar, withheldBar, takenBar
<1>. QED
  BY <1>1, <1>2, <1>3 DEF DebitPayout, Promise!Next

LEMMA RowIsRecorded ==
  ASSUME IInv, OneRecords, NEW r \in Withdrawers, CreatePayout(r)
  PROVE  [Promise!Next]_promised
<1>1. /\ working[r] \in Payouts /\ asked[r] \in Asks
      /\ Withdrawal(working[r], asked[r]) \in entries
      /\ payout[working[r]].status = "NONE"
  BY DEF CreatePayout, IInv, WorkingNamed, DebitsInOrder, OneRecords
<1>2. UNCHANGED <<balance, entries>>
  BY DEF CreatePayout, ledger
<1>3. ASSUME NEW p \in Payouts, NEW a \in Asks, Withdrawal(p, a) \in entries,
             payout[p].status = "NONE",
             payout' = [payout EXCEPT ![p] = [status |-> "PENDING", amount |-> a]]
      PROVE  Promise!Record(p, a)
  <2>1. <<p, a>> \in takenBar
    BY <1>3 DEF takenBar
  <2>. QED
    BY <1>2, <1>3, <2>1, SameBooks
       DEF Promise!Record, Promise!shares, earnedBar, withheldBar, takenBar
<1>. QED
  BY <1>1, <1>3 DEF CreatePayout, Promise!Next

LEMMA StepIncome == IInv /\ OneRecords /\ [Next]_vars => [Promise!Next]_promised
<1>. SUFFICES ASSUME IInv, OneRecords, [Next]_vars PROVE [Promise!Next]_promised
  OBVIOUS
<1>1. CASE Quiet
  BY <1>1, QuietIsQuiet, SameBooks DEF promised, sharesBar
<1>2. ASSUME NEW p \in Payouts, MarkPaid(p) PROVE Promise!Pay(p)
  <2>1. UNCHANGED <<balance, entries>>
    BY <1>2 DEF MarkPaid, ledger
  <2>. QED
    BY <1>2, <2>1, SameBooks
       DEF MarkPaid, Promise!Pay, Promise!shares, earnedBar, withheldBar, takenBar
<1>. QED
  BY <1>1, <1>2, EarningIsEarned, FeeIsWithheld, DebitIsTaken, RowIsRecorded
     DEF Next, Quiet, Promise!Next

\* However often bookings are completed again and wherever settlements and
\* requests stop, a price is divided once and a payout recorded once, for what
\* was taken out of the wallet (payments/service.go:469, payouts/service.go:119),
\* for any number of bookings, requests and prices.
THEOREM EarningsAreIncome == Spec => ImplementsIncome
<1>1. Init => Promise!Init /\ OneRecords
  <2>. SUFFICES ASSUME Init PROVE Promise!Init /\ OneRecords
    OBVIOUS
  <2>1. entries = {} /\ balance["platform"] = 0 /\ balance["professional"] = 0
    BY DEF Init, Wallets!Init, Users
  <2>2. earnedBar = {} /\ withheldBar = {} /\ takenBar = {}
    BY <2>1 DEF earnedBar, withheldBar, takenBar, Earned, Wallets!TransactionExists
  <2>3. Promise!Init
    BY <2>1, <2>2 DEF Init, Promise!Init, earnedBar, withheldBar, takenBar
  <2>4. OneRecords
    BY KindsToo DEF Init, OneRecords
  <2>. QED
    BY <2>3, <2>4
<1>2. Promise!Init /\ [][Promise!Next]_promised => Promise!Spec
  BY
     DEF Promise!Spec, Promise!income, Promise!shares, promised, sharesBar, earnedBar,
         withheldBar,
         takenBar
<1>. QED
  BY <1>1, <1>2, StepRecords, StepIncome, Invariant, PTL DEF Spec, ImplementsIncome
=============================================================================
