------------------------------- MODULE Ledger -------------------------------
(***************************************************************************)
(* What the wallets of internal/payments promise (store.go:98): a credit   *)
(* or debit changes the balance and writes its ledger entry in one step,   *)
(* or does neither.  A wallet without a row has a balance of 0, as         *)
(* GetWallet says.  LedgerTx is the transaction that keeps this promise;   *)
(* the modules about payments build on the promise alone.                  *)
(*                                                                         *)
(* Amounts are whole numbers here; they are DECIMAL(12,2) columns read     *)
(* into float64 in the code.  There is one currency.                       *)
(***************************************************************************)
EXTENDS Integers, Sums

CONSTANTS
  Users,      \* owners of wallets
  References, \* values of wallet_transactions.reference
  Amounts     \* amounts that are asked for, all positive: applyLedger refuses
              \* others before it begins

VARIABLES
  balance,    \* wallets.balance
  entries     \* the rows of wallet_transactions

ledger == <<balance, entries>>

Entry == [user : Users, type : {"CREDIT", "DEBIT"}, amount : Amounts,
          reference : References]

Amount == [e \in Entry |-> e.amount]
Change(e) == IF e.type = "CREDIT" THEN e.amount ELSE -e.amount

\* TransactionExists, and the unique index uq_wallet_tx_reference.
TransactionExists(ref) == \E e \in entries : e.reference = ref

\* A debit needs its amount on the wallet.
Covered(e) == e.type = "DEBIT" => balance[e.user] >= e.amount

\* The step without the unique index; runs show that it is told apart.
ApplyWithoutIndex(e) ==
  /\ Covered(e)
  /\ balance' = [balance EXCEPT ![e.user] = @ + Change(e)]
  /\ entries' = entries \cup {e}

Init ==
  /\ balance = [u \in Users |-> 0]
  /\ entries = {}

\* A credit or debit that succeeds.  Those refused change nothing.
Apply(e) ==
  /\ Covered(e)
  /\ ~TransactionExists(e.reference)
  /\ balance' = [balance EXCEPT ![e.user] = @ + Change(e)]
  /\ entries' = entries \cup {e}

\* What a user is shown of the ledger.
ListTransactions(u) == {e \in entries : e.user = u}

Next == \E e \in Entry : Apply(e)

Spec == Init /\ [][Next]_ledger

-----------------------------------------------------------------------------
(* Properties; the modules that use the ledger check them. *)

\* No wallet is overdrawn (store.go:132-134).
NeverOverdrawn == \A u \in Users : balance[u] >= 0

\* Each reference is booked at most once, whoever retries
\* (uq_wallet_tx_reference).
OneEntryPerReference ==
  \A e, f \in entries : e.reference = f.reference => e = f

\* A wallet holds what the transactions its user is shown add up to: none is
\* lost and none counts twice.
BalanceIsSum ==
  \A u \in Users :
    LET Sum(type) == Total(Amount, {e \in ListTransactions(u) : e.type = type}) IN
    balance[u] = Sum("CREDIT") - Sum("DEBIT")
=============================================================================
