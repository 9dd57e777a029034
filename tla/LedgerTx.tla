------------------------------ MODULE LedgerTx ------------------------------
(***************************************************************************)
(* applyLedger of internal/payments/store.go, statement by statement: the  *)
(* transaction that Credit and Debit run, and how several of them on the   *)
(* same wallets and references interleave.  It implements module Ledger.   *)
(*                                                                         *)
(* What a transaction wrote and did not commit is kept with the process    *)
(* (its new balance, and its entry once pc says "commit"); the others meet *)
(* it only as a lock they wait for.                                        *)
(***************************************************************************)
EXTENDS Integers, Sums

CONSTANTS
  Users, References, Amounts,
  Processes,  \* handlers inside Credit or Debit at the same time
  Calls,      \* the credits and debits they are asked for
  None

ASSUME AmountsAssumption == Amounts \subseteq Nat \ {0}

VARIABLES
  wallets,    \* committed wallets.balance, None while a user has no row
  entries,    \* committed rows of wallet_transactions
  rowLock,    \* the process whose transaction locks or inserted the wallet row
  pc,         \* the next statement of each process
  req         \* each process's arguments and its variable balance

vars == <<wallets, entries, rowLock, pc, req>>

Atomic == INSTANCE Ledger WITH
  balance <- [u \in Users |-> IF wallets[u] = None THEN 0 ELSE wallets[u]]

ASSUME CallsAssumption == Calls \subseteq Atomic!Entry
ASSUME NoneAssumption == None \notin Processes \cup Int \cup Atomic!Entry

Steps == {"idle", "select", "open", "update", "entry", "commit"}
NoLocals == [call |-> None, balance |-> 0]

Goto(p, step) == pc' = [pc EXCEPT ![p] = step]
User(p) == req[p].call.user

-----------------------------------------------------------------------------
\* Variants of the definitions below that a slip in the code would give; the
\* runs show that the properties tell them from the code.
PlainSelect(p, u) == UNCHANGED rowLock
NoDebitCheck(c, b) == FALSE
NoUniqueIndex(p) == FALSE
KeepsLocks(p) ==
  /\ Goto(p, "idle")
  /\ req' = [req EXCEPT ![p] = NoLocals]
  /\ UNCHANGED rowLock

-----------------------------------------------------------------------------
\* err == sql.ErrNoRows
NoRow(u) == wallets[u] = None

\* FOR UPDATE.
LockRow(p, u) == rowLock' = [rowLock EXCEPT ![u] = p]

\* if txType == TypeDebit && balance < amount
Overdraws(c, b) == c.type = "DEBIT" /\ b < c.amount

\* Another transaction inserted the same reference and did not commit yet.
ReferencePending(p) ==
  \E q \in Processes \ {p} :
    pc[q] = "commit" /\ req[q].call.reference = req[p].call.reference

\* Commit or rollback: every lock of the transaction is given up.
EndTransaction(p) ==
  /\ rowLock' = [u \in Users |-> IF rowLock[u] = p THEN None ELSE rowLock[u]]
  /\ Goto(p, "idle")
  /\ req' = [req EXCEPT ![p] = NoLocals]

-----------------------------------------------------------------------------
Init ==
  /\ wallets = [u \in Users |-> None]
  /\ entries = {}
  /\ rowLock = [u \in Users |-> None]
  /\ pc = [p \in Processes |-> "idle"]
  /\ req = [p \in Processes |-> NoLocals]

\* Credit or Debit is called; amount and user were checked.
Call(p, c) ==
  /\ pc[p] = "idle"
  /\ req' = [req EXCEPT ![p].call = c]
  /\ Goto(p, "select")
  /\ UNCHANGED <<wallets, entries, rowLock>>

\* SELECT balance ... FOR UPDATE waits for the row, or for whoever is inserting
\* it.  A row that is not there cannot be locked: a debit is refused, a credit
\* goes on to insert it.
SelectForUpdate(p) ==
  LET c == req[p].call IN
  /\ pc[p] = "select"
  /\ rowLock[c.user] = None
  /\ CASE NoRow(c.user) /\ c.type = "CREDIT" ->
            Goto(p, "open") /\ UNCHANGED <<rowLock, req>>
       [] NoRow(c.user) /\ c.type = "DEBIT" -> EndTransaction(p)
       [] ~NoRow(c.user) /\ Overdraws(c, wallets[c.user]) -> EndTransaction(p)
       [] OTHER ->
            /\ LockRow(p, c.user)
            /\ req' = [req EXCEPT ![p].balance = wallets[c.user]]
            /\ Goto(p, "update")
  /\ UNCHANGED <<wallets, entries>>

\* INSERT INTO wallets waits for another transaction that inserted the row; if
\* that one commits, uq_wallets_user_currency refuses this one.
InsertWallet(p) ==
  /\ pc[p] = "open"
  /\ rowLock[User(p)] = None
  /\ IF NoRow(User(p))
     THEN /\ rowLock' = [rowLock EXCEPT ![User(p)] = p]
          /\ req' = [req EXCEPT ![p].balance = 0]
          /\ Goto(p, "update")
     ELSE EndTransaction(p)
  /\ UNCHANGED <<wallets, entries>>

\* UPDATE wallets SET balance = ?
UpdateWallet(p) ==
  /\ pc[p] = "update"
  /\ req' = [req EXCEPT ![p].balance = @ + Atomic!Change(req[p].call)]
  /\ Goto(p, "entry")
  /\ UNCHANGED <<wallets, entries, rowLock>>

\* INSERT INTO wallet_transactions waits for another transaction that inserted
\* the same reference; a committed one makes it fail, and all is rolled back.
InsertEntry(p) ==
  /\ pc[p] = "entry"
  /\ ~ReferencePending(p)
  /\ IF Atomic!TransactionExists(req[p].call.reference)
     THEN EndTransaction(p)
     ELSE Goto(p, "commit") /\ UNCHANGED <<rowLock, req>>
  /\ UNCHANGED <<wallets, entries>>

Commit(p) ==
  /\ pc[p] = "commit"
  /\ wallets' = [wallets EXCEPT ![User(p)] = req[p].balance]
  /\ entries' = entries \cup {req[p].call}
  /\ EndTransaction(p)

\* A statement fails (a deadlock victim among them), the context is cancelled
\* or the process dies.
Rollback(p) ==
  /\ pc[p] # "idle"
  /\ EndTransaction(p)
  /\ UNCHANGED <<wallets, entries>>

Continue(p) ==
  \/ SelectForUpdate(p) \/ InsertWallet(p) \/ UpdateWallet(p)
  \/ InsertEntry(p) \/ Commit(p)

Next ==
  \E p \in Processes :
    \/ \E c \in Calls : Call(p, c)
    \/ Continue(p)
    \/ Rollback(p)

Spec == Init /\ [][Next]_vars

\* A handler goes on to its next statement; whoever waits for a row lock gets
\* it in the end, since the database queues the waiters.
Fairness ==
  \A p \in Processes :
    WF_vars(Continue(p)) /\ SF_vars(SelectForUpdate(p) \/ InsertWallet(p) \/ InsertEntry(p))

FairSpec == Spec /\ Fairness

-----------------------------------------------------------------------------
(* Properties *)

Locals == [call : Calls \cup {None}, balance : Int]

\* Every variable keeps its type.
TypeOK ==
  /\ wallets \in [Users -> Int \cup {None}]
  /\ entries \subseteq Calls
  /\ rowLock \in [Users -> Processes \cup {None}]
  /\ pc \in [Processes -> Steps]
  /\ req \in [Processes -> Locals]

\* "atomically upserts the wallet and writes a ledger entry" (store.go:98):
\* whatever interleaves and whatever rolls back, a commit changes the balance by
\* the amount of the one entry it adds, and nothing else ever changes either.
ImplementsLedger == Atomic!Spec

\* No wallet is overdrawn, though the balance was read statements ago.
NeverOverdrawn == Atomic!NeverOverdrawn

\* Wallets hold what their entries add up to.
BalanceIsSum == Atomic!BalanceIsSum

\* A reference is booked once, also when two transactions carry it.
OneEntryPerReference == Atomic!OneEntryPerReference

\* Every call ends: transactions that wait for each other's wallet row and
\* reference never wait in a circle, and none leaves its lock behind.
CallsEnd == \A p \in Processes : pc[p] # "idle" ~> pc[p] = "idle"
=============================================================================
