--------------------------- MODULE LedgerTxProofs ---------------------------
(* The ledger transaction keeps the promise of module Ledger, for any users, *)
(* references, amounts and number of concurrent transactions.                *)
EXTENDS LedgerTx, FiniteSetTheorems, TLAPS

-----------------------------------------------------------------------------
(* The inductive invariant *)

Balance(u) == IF wallets[u] = None THEN 0 ELSE wallets[u]

InTransaction == {"update", "entry", "commit"}

\* Whoever is under way has a call, and from FOR UPDATE to COMMIT owns the row
\* of the wallet it changes.
RowOwned ==
  \A p \in Processes :
    /\ pc[p] # "idle" => req[p].call \in Calls
    /\ pc[p] \in InTransaction => rowLock[User(p)] = p

\* What a transaction read, or computed from what it read, is still right, and
\* only a credit goes on without a wallet.
ReadCurrent ==
  \A p \in Processes :
    /\ pc[p] = "open" => req[p].call.type = "CREDIT"
    /\ pc[p] \in InTransaction => ~Overdraws(req[p].call, Balance(User(p)))
    /\ pc[p] = "update" => req[p].balance = Balance(User(p))
    /\ pc[p] \in {"entry", "commit"} =>
         req[p].balance = Balance(User(p)) + Atomic!Change(req[p].call)

\* Nobody else has, or is about to commit, an entry with the same reference.
ReferenceFree ==
  \A p \in Processes :
    pc[p] = "commit" =>
      /\ ~Atomic!TransactionExists(req[p].call.reference)
      /\ \A q \in Processes \ {p} :
           pc[q] = "commit" => req[q].call.reference # req[p].call.reference

IInv == TypeOK /\ RowOwned /\ ReadCurrent /\ ReferenceFree

-----------------------------------------------------------------------------
(* Calls *)

LEMMA CallFields ==
  ASSUME NEW c \in Calls
  PROVE  /\ c.user \in Users
         /\ c.type \in {"CREDIT", "DEBIT"}
         /\ c.amount \in Nat \ {0}
         /\ Atomic!Change(c) \in Int
         /\ c # None
<1>1. c \in Atomic!Entry
  BY CallsAssumption
<1>2. /\ c.user \in Users
      /\ c.type \in {"CREDIT", "DEBIT"}
      /\ c.amount \in Nat \ {0}
  BY <1>1, AmountsAssumption DEF Atomic!Entry
<1>3. Atomic!Change(c) \in Int
  BY <1>2 DEF Atomic!Change
<1>4. c # None
  BY <1>1, NoneAssumption
<1>. QED
  BY <1>2, <1>3, <1>4

LEMMA ProcessIsSome == \A p \in Processes : p # None
  BY NoneAssumption

LEMMA BalanceInt == ASSUME TypeOK, NEW u \in Users PROVE Balance(u) \in Int
  BY DEF TypeOK, Balance

-----------------------------------------------------------------------------
(* The steps *)

LEMMA EndTransactionStep ==
  ASSUME IInv, NEW p \in Processes, EndTransaction(p), UNCHANGED <<wallets, entries>>
  PROVE  IInv'
<1>1. NoLocals \in Locals
  BY DEF NoLocals, Locals
<1>2. TypeOK'
  BY <1>1 DEF IInv, TypeOK, EndTransaction, Goto, Steps
<1>3. pc'[p] = "idle" /\ \A q \in Processes \ {p} : pc'[q] = pc[q] /\ req'[q] = req[q]
  BY DEF IInv, TypeOK, EndTransaction, Goto
<1>4. \A u \in Users, q \in Processes \ {p} : rowLock[u] = q => rowLock'[u] = q
  BY DEF EndTransaction
<1>5. RowOwned'
  BY <1>3, <1>4, CallFields DEF IInv, RowOwned, User, InTransaction
<1>6. ReadCurrent'
  BY <1>3 DEF IInv, ReadCurrent, User, InTransaction, Balance
<1>7. ReferenceFree'
  BY <1>3 DEF IInv, ReferenceFree, Atomic!TransactionExists
<1>. QED
  BY <1>2, <1>5, <1>6, <1>7 DEF IInv

LEMMA CallStep ==
  ASSUME IInv, NEW p \in Processes, NEW c \in Calls, Call(p, c)
  PROVE  IInv'
<1>1. TypeOK'
  BY DEF IInv, TypeOK, Call, Goto, Steps, Locals
<1>2. /\ pc'[p] = "select" /\ req'[p].call = c
      /\ \A q \in Processes \ {p} : pc'[q] = pc[q] /\ req'[q] = req[q]
  BY DEF IInv, TypeOK, Call, Goto, Locals
<1>3. UNCHANGED <<wallets, entries, rowLock>>
  BY DEF Call
<1>4. RowOwned'
  BY <1>2, <1>3 DEF IInv, RowOwned, User, InTransaction
<1>5. ReadCurrent'
  BY <1>2, <1>3 DEF IInv, ReadCurrent, User, InTransaction, Balance
<1>6. ReferenceFree'
  BY <1>2, <1>3 DEF IInv, ReferenceFree, Atomic!TransactionExists
<1>. QED
  BY <1>1, <1>4, <1>5, <1>6 DEF IInv

\* A transaction gets the row lock with the balance as it is now.
LEMMA LockTakenStep ==
  ASSUME IInv, NEW p \in Processes, pc[p] \in {"select", "open"},
         rowLock[User(p)] = None,
         ~Overdraws(req[p].call, Balance(User(p))),
         rowLock' = [rowLock EXCEPT ![User(p)] = p],
         req' = [req EXCEPT ![p].balance = Balance(User(p))],
         Goto(p, "update"),
         UNCHANGED <<wallets, entries>>
  PROVE  IInv'
<1>1. req[p].call \in Calls /\ User(p) \in Users
  BY CallFields DEF IInv, RowOwned, User
<1>2. TypeOK'
  <2>1. pc' \in [Processes -> Steps]
    BY DEF IInv, TypeOK, Goto, Steps
  <2>2. req' \in [Processes -> Locals]
    <3>1. Balance(User(p)) \in Int /\ req \in [Processes -> Locals]
      BY <1>1, BalanceInt DEF IInv, TypeOK
    <3>2. [req[p] EXCEPT !.balance = Balance(User(p))] \in Locals
      BY <3>1 DEF Locals
    <3>. QED
      BY <3>1, <3>2
  <2>. QED
    BY <1>1, <2>1, <2>2 DEF IInv, TypeOK
<1>3. /\ pc'[p] = "update" /\ req'[p].call = req[p].call
      /\ req'[p].balance = Balance(User(p))
      /\ \A q \in Processes \ {p} : pc'[q] = pc[q] /\ req'[q] = req[q]
  BY DEF IInv, TypeOK, Goto, Locals
<1>4. rowLock'[User(p)] = p /\ \A u \in Users \ {User(p)} : rowLock'[u] = rowLock[u]
  BY <1>1 DEF IInv, TypeOK
<1>5. RowOwned'
  <2>1. ASSUME NEW q \in Processes \ {p}, pc[q] \in InTransaction
        PROVE  rowLock'[User(q)] = q
    BY <2>1, <1>4, ProcessIsSome, CallFields DEF IInv, RowOwned, InTransaction, User
  <2>. QED
    BY <2>1, <1>1, <1>3, <1>4 DEF IInv, RowOwned, User
<1>6. ReadCurrent'
  BY <1>3 DEF IInv, ReadCurrent, User, InTransaction, Balance
<1>7. ReferenceFree'
  BY <1>3 DEF IInv, ReferenceFree, Atomic!TransactionExists
<1>. QED
  BY <1>2, <1>5, <1>6, <1>7 DEF IInv

LEMMA SelectForUpdateStep ==
  ASSUME IInv, NEW p \in Processes, SelectForUpdate(p)
  PROVE  IInv'
<1>. DEFINE c == req[p].call
<1>1. pc[p] = "select" /\ rowLock[c.user] = None /\ UNCHANGED <<wallets, entries>>
  BY DEF SelectForUpdate
<1>2. c \in Calls /\ c.user \in Users
  BY <1>1, CallFields DEF IInv, RowOwned
<1>3. CASE EndTransaction(p)
  BY <1>1, <1>3, EndTransactionStep
<1>4. CASE c.type = "CREDIT" /\ Goto(p, "open") /\ UNCHANGED <<rowLock, req>>
  <2>1. pc'[p] = "open" /\ \A q \in Processes \ {p} : pc'[q] = pc[q]
    BY <1>4 DEF IInv, TypeOK, Goto
  <2>2. TypeOK'
    BY <1>1, <1>4 DEF IInv, TypeOK, Goto, Steps
  <2>3. RowOwned' /\ ReadCurrent' /\ ReferenceFree'
    BY <1>1, <1>2, <1>4, <2>1
       DEF IInv, RowOwned, ReadCurrent, ReferenceFree, User, InTransaction, Balance,
           Atomic!TransactionExists
  <2>. QED
    BY <2>2, <2>3 DEF IInv
<1>5. CASE /\ wallets[c.user] # None /\ ~Overdraws(c, wallets[c.user])
           /\ LockRow(p, c.user)
           /\ req' = [req EXCEPT ![p].balance = wallets[c.user]]
           /\ Goto(p, "update")
  BY <1>1, <1>5, LockTakenStep DEF LockRow, Balance, User
<1>. QED
  <2>1. CASE wallets[c.user] = None /\ c.type = "CREDIT"
    BY <2>1, <1>4 DEF SelectForUpdate, NoRow
  <2>2. CASE wallets[c.user] = None /\ c.type # "CREDIT"
    <3>1. c.type = "DEBIT"
      BY <1>2, <2>2, CallFields
    <3>. QED
      BY <3>1, <2>2, <1>3 DEF SelectForUpdate, NoRow
  <2>3. CASE wallets[c.user] # None /\ Overdraws(c, wallets[c.user])
    BY <2>3, <1>3 DEF SelectForUpdate, NoRow
  <2>4. CASE wallets[c.user] # None /\ ~Overdraws(c, wallets[c.user])
    BY <2>4, <1>5 DEF SelectForUpdate, NoRow
  <2>. QED
    BY <2>1, <2>2, <2>3, <2>4

LEMMA InsertWalletStep ==
  ASSUME IInv, NEW p \in Processes, InsertWallet(p)
  PROVE  IInv'
<1>1. CASE EndTransaction(p)
  BY <1>1, EndTransactionStep DEF InsertWallet
<1>2. CASE wallets[User(p)] = None
  <2>1. req[p].call.type = "CREDIT"
    BY DEF InsertWallet, IInv, ReadCurrent
  <2>. QED
    BY <1>2, <2>1, LockTakenStep DEF InsertWallet, NoRow, Overdraws, Balance
<1>. QED
  BY <1>1, <1>2 DEF InsertWallet, NoRow

LEMMA UpdateWalletStep ==
  ASSUME IInv, NEW p \in Processes, UpdateWallet(p)
  PROVE  IInv'
<1>1. pc[p] = "update" /\ UNCHANGED <<wallets, entries, rowLock>>
  BY DEF UpdateWallet
<1>2. req[p].call \in Calls /\ Atomic!Change(req[p].call) \in Int
  BY <1>1, CallFields DEF IInv, RowOwned
<1>3. req[p].balance + Atomic!Change(req[p].call) \in Int
  BY <1>2 DEF IInv, TypeOK, Locals
<1>4. TypeOK'
  BY <1>1, <1>3 DEF IInv, TypeOK, UpdateWallet, Goto, Steps, Locals
<1>5. /\ pc'[p] = "entry" /\ req'[p].call = req[p].call
      /\ req'[p].balance = req[p].balance + Atomic!Change(req[p].call)
      /\ \A q \in Processes \ {p} : pc'[q] = pc[q] /\ req'[q] = req[q]
  BY DEF UpdateWallet, IInv, TypeOK, Goto, Locals
<1>6. RowOwned'
  BY <1>1, <1>5 DEF IInv, RowOwned, User, InTransaction
<1>7. ReadCurrent'
  BY <1>1, <1>5 DEF IInv, ReadCurrent, User, InTransaction, Balance
<1>8. ReferenceFree'
  BY <1>1, <1>5 DEF IInv, ReferenceFree, Atomic!TransactionExists
<1>. QED
  BY <1>4, <1>6, <1>7, <1>8 DEF IInv

LEMMA InsertEntryStep ==
  ASSUME IInv, NEW p \in Processes, InsertEntry(p)
  PROVE  IInv'
<1>1. pc[p] = "entry" /\ UNCHANGED <<wallets, entries>>
  BY DEF InsertEntry
<1>2. CASE Atomic!TransactionExists(req[p].call.reference)
  BY <1>1, <1>2, EndTransactionStep DEF InsertEntry
<1>3. CASE ~Atomic!TransactionExists(req[p].call.reference)
  <2>1. Goto(p, "commit") /\ UNCHANGED <<rowLock, req>>
    BY <1>3 DEF InsertEntry
  <2>2. pc'[p] = "commit" /\ \A q \in Processes \ {p} : pc'[q] = pc[q]
    BY <2>1 DEF IInv, TypeOK, Goto
  <2>3. TypeOK'
    BY <1>1, <2>1 DEF IInv, TypeOK, Goto, Steps
  <2>4. RowOwned' /\ ReadCurrent'
    BY <1>1, <2>1, <2>2
       DEF IInv, RowOwned, ReadCurrent, User, InTransaction, Balance
  <2>5. ReferenceFree'
    BY <1>1, <1>3, <2>1, <2>2
       DEF InsertEntry, ReferencePending, IInv, ReferenceFree, Atomic!TransactionExists
  <2>. QED
    BY <2>3, <2>4, <2>5 DEF IInv
<1>. QED
  BY <1>2, <1>3

LEMMA CommitStep ==
  ASSUME IInv, NEW p \in Processes, Commit(p)
  PROVE  IInv'
<1>1. /\ pc[p] = "commit" /\ EndTransaction(p)
      /\ wallets' = [wallets EXCEPT ![User(p)] = req[p].balance]
      /\ entries' = entries \cup {req[p].call}
  BY DEF Commit
<1>2. /\ req[p].call \in Calls /\ User(p) \in Users /\ rowLock[User(p)] = p
      /\ req[p].balance \in Int
  BY <1>1, CallFields DEF IInv, RowOwned, User, InTransaction, TypeOK, Locals
<1>3. NoLocals \in Locals
  BY DEF NoLocals, Locals
<1>4. TypeOK'
  BY <1>1, <1>2, <1>3 DEF IInv, TypeOK, EndTransaction, Goto, Steps
<1>5. pc'[p] = "idle" /\ \A q \in Processes \ {p} : pc'[q] = pc[q] /\ req'[q] = req[q]
  BY <1>1 DEF IInv, TypeOK, EndTransaction, Goto
<1>6. \A u \in Users, q \in Processes \ {p} : rowLock[u] = q => rowLock'[u] = q
  BY <1>1 DEF EndTransaction
<1>7. RowOwned'
  BY <1>5, <1>6, CallFields DEF IInv, RowOwned, User, InTransaction
<1>8. ReadCurrent'
  <2>1. ASSUME NEW q \in Processes \ {p}, pc[q] \in InTransaction
        PROVE  Balance(User(q))' = Balance(User(q))
    <3>1. User(q) # User(p)
      BY <2>1, <1>2 DEF IInv, RowOwned
    <3>2. User(q) \in Users /\ User(q)' = User(q)
      BY <2>1, <1>5, CallFields DEF IInv, RowOwned, User, InTransaction
    <3>. QED
      BY <3>1, <3>2, <1>1 DEF IInv, TypeOK, Balance
  <2>. QED
    BY <2>1, <1>5 DEF IInv, ReadCurrent, User, InTransaction
<1>9. ReferenceFree'
  BY <1>1, <1>5 DEF IInv, ReferenceFree, Atomic!TransactionExists
<1>. QED
  BY <1>4, <1>7, <1>8, <1>9 DEF IInv

-----------------------------------------------------------------------------
(* The invariant of the specification *)

LEMMA InitIInv == Init => IInv
  BY DEF Init, IInv, TypeOK, RowOwned, ReadCurrent, ReferenceFree, NoLocals, Locals,
         Steps, InTransaction

LEMMA StepIInv == IInv /\ [Next]_vars => IInv'
<1>. SUFFICES ASSUME IInv, [Next]_vars PROVE IInv'
  OBVIOUS
<1>1. ASSUME NEW p \in Processes, NEW c \in Calls, Call(p, c) PROVE IInv'
  BY <1>1, CallStep
<1>2. ASSUME NEW p \in Processes, Continue(p) PROVE IInv'
  BY <1>2, SelectForUpdateStep, InsertWalletStep, UpdateWalletStep, InsertEntryStep,
     CommitStep DEF Continue
<1>3. ASSUME NEW p \in Processes, Rollback(p) PROVE IInv'
  BY <1>3, EndTransactionStep DEF Rollback
<1>4. CASE UNCHANGED vars
  BY <1>4
     DEF vars, IInv, TypeOK, RowOwned, ReadCurrent, ReferenceFree, User, InTransaction,
         Balance, Atomic!TransactionExists
<1>. QED
  BY <1>1, <1>2, <1>3, <1>4 DEF Next

LEMMA Invariance == Spec => []IInv
  BY InitIInv, StepIInv, PTL DEF Spec

\* Every variable keeps its type.
THEOREM TypeCorrect == Spec => []TypeOK
<1>1. IInv => TypeOK
  BY DEF IInv
<1>. QED
  BY <1>1, Invariance, PTL

-----------------------------------------------------------------------------
(* The refinement *)

\* The wallets as module Ledger sees them.
balanceBar == [u \in Users |-> IF wallets[u] = None THEN 0 ELSE wallets[u]]

\* A commit is the atomic step of module Ledger, with the committing call.
LEMMA CommitApplies ==
  ASSUME IInv, NEW p \in Processes, Commit(p)
  PROVE  Atomic!Apply(req[p].call)
<1>. DEFINE c == req[p].call
<1>1. /\ pc[p] = "commit"
      /\ wallets' = [wallets EXCEPT ![c.user] = req[p].balance]
      /\ entries' = entries \cup {c}
  BY DEF Commit, User
<1>2. c \in Calls /\ c.user \in Users /\ c.amount \in Nat
  BY <1>1, CallFields DEF IInv, RowOwned
<1>3. ~Overdraws(c, Balance(c.user)) /\ ~Atomic!TransactionExists(c.reference)
  BY <1>1 DEF IInv, ReadCurrent, ReferenceFree, InTransaction, User
<1>4. Balance(c.user) \in Int
  BY <1>2, BalanceInt DEF IInv
<1>5. balanceBar[c.user] = Balance(c.user)
  BY <1>2 DEF balanceBar, Balance
<1>6. Atomic!Covered(c)
  BY <1>2, <1>3, <1>4 DEF Atomic!Covered, Overdraws, Balance
<1>7. balanceBar' = [balanceBar EXCEPT ![c.user] = @ + Atomic!Change(c)]
  <2>1. req[p].balance = Balance(c.user) + Atomic!Change(c) /\ req[p].balance # None
    BY <1>1, NoneAssumption DEF IInv, ReadCurrent, User, TypeOK, Locals
  <2>2. balanceBar'[c.user] = req[p].balance
    BY <1>1, <1>2, <2>1 DEF balanceBar, IInv, TypeOK
  <2>3. \A u \in Users \ {c.user} : balanceBar'[u] = balanceBar[u]
    BY <1>1 DEF balanceBar, IInv, TypeOK
  <2>4. balanceBar' = [u \in Users |-> balanceBar'[u]]
    BY DEF balanceBar
  <2>5. [balanceBar EXCEPT ![c.user] = @ + Atomic!Change(c)] =
          [u \in Users |-> IF u = c.user THEN balanceBar[u] + Atomic!Change(c)
                                        ELSE balanceBar[u]]
    BY <1>2 DEF balanceBar
  <2>. QED
    BY <1>5, <2>1, <2>2, <2>3, <2>4, <2>5
<1>. QED
  BY <1>1, <1>3, <1>6, <1>7 DEF Atomic!Apply, balanceBar

LEMMA InitRefines == Init => Atomic!Init
  BY DEF Init, Atomic!Init

\* Every other statement leaves what module Ledger sees alone.
LEMMA StepRefines == IInv /\ [Next]_vars => [Atomic!Next]_<<balanceBar, entries>>
<1>. SUFFICES ASSUME IInv, [Next]_vars
              PROVE  Atomic!Next \/ UNCHANGED <<wallets, entries>>
  BY DEF balanceBar
<1>1. ASSUME NEW p \in Processes, Commit(p) PROVE Atomic!Next
  <2>1. req[p].call \in Atomic!Entry
    BY <1>1, CallsAssumption DEF Commit, IInv, RowOwned
  <2>2. Atomic!Apply(req[p].call)
    BY <1>1, CommitApplies
  <2>3. \E e \in Atomic!Entry : Atomic!Apply(e)
    BY <2>1, <2>2 DEF Atomic!Apply
  <2>. QED
    BY <2>3 DEF Atomic!Next
<1>2. ASSUME NEW p \in Processes,
             \/ \E c \in Calls : Call(p, c)
             \/ SelectForUpdate(p) \/ InsertWallet(p) \/ UpdateWallet(p)
             \/ InsertEntry(p) \/ Rollback(p)
      PROVE  UNCHANGED <<wallets, entries>>
  BY <1>2
     DEF Call, SelectForUpdate, InsertWallet, UpdateWallet, InsertEntry, Rollback
<1>3. CASE UNCHANGED vars
  BY <1>3 DEF vars
<1>. QED
  BY <1>1, <1>2, <1>3 DEF Next, Continue

\* "atomically upserts the wallet and writes a ledger entry" (store.go:98): the
\* locks and the rollback of applyLedger make every interleaving of its
\* statements look like steps that change one balance and add its entry.
THEOREM TransactionIsAtomic == Spec => ImplementsLedger
<1>1. Atomic!Init /\ [][Atomic!Next]_<<balanceBar, entries>> => Atomic!Spec
  BY DEF Atomic!Spec, Atomic!ledger, balanceBar
<1>. QED
  BY <1>1, InitRefines, StepRefines, Invariance, PTL DEF Spec, ImplementsLedger

\* No wallet is overdrawn, whatever debits run at the same time.
THEOREM WalletsNeverOverdrawn == Spec => []NeverOverdrawn
<1>1. Init => NeverOverdrawn
  BY DEF Init, NeverOverdrawn, Atomic!NeverOverdrawn
<1>2. ASSUME IInv, NeverOverdrawn, [Atomic!Next]_<<balanceBar, entries>>
      PROVE  NeverOverdrawn'
  <2>1. \A u \in Users : balanceBar[u] >= 0 /\ balanceBar[u] \in Int
    BY <1>2, BalanceInt DEF NeverOverdrawn, Atomic!NeverOverdrawn, balanceBar, IInv, Balance
  <2>2. ASSUME NEW e \in Atomic!Entry, Atomic!Apply(e)
        PROVE  \A u \in Users : balanceBar'[u] >= 0
    <3>1. /\ e.user \in Users /\ e.type \in {"CREDIT", "DEBIT"} /\ e.amount \in Nat
          /\ Atomic!Change(e) = IF e.type = "CREDIT" THEN e.amount ELSE -e.amount
      BY AmountsAssumption DEF Atomic!Entry, Atomic!Change
    <3>2. e.type = "DEBIT" => balanceBar[e.user] >= e.amount
      BY <2>2 DEF Atomic!Apply, Atomic!Covered, balanceBar
    <3>3. balanceBar' = [balanceBar EXCEPT ![e.user] = @ + Atomic!Change(e)]
      BY <2>2 DEF Atomic!Apply, balanceBar
    <3>4. balanceBar[e.user] + Atomic!Change(e) >= 0
      BY <2>1, <3>1, <3>2
    <3>5. \A u \in Users : balanceBar'[u] = IF u = e.user
                                           THEN balanceBar[u] + Atomic!Change(e)
                                           ELSE balanceBar[u]
      BY <3>3 DEF balanceBar
    <3>. QED
      BY <2>1, <3>4, <3>5
  <2>3. CASE UNCHANGED <<balanceBar, entries>>
    BY <2>1, <2>3 DEF NeverOverdrawn, Atomic!NeverOverdrawn, balanceBar
  <2>. QED
    BY <1>2, <2>2, <2>3 DEF Atomic!Next, NeverOverdrawn, Atomic!NeverOverdrawn, balanceBar
<1>. QED
  BY <1>1, <1>2, StepRefines, Invariance, PTL DEF Spec

\* A reference is booked once, however many transactions carry it.
THEOREM ReferencesBookedOnce == Spec => []OneEntryPerReference
<1>1. Init => OneEntryPerReference
  BY DEF Init, OneEntryPerReference, Atomic!OneEntryPerReference
<1>2. OneEntryPerReference /\ [Atomic!Next]_<<balanceBar, entries>>
        => OneEntryPerReference'
  BY DEF OneEntryPerReference, Atomic!OneEntryPerReference, Atomic!Next, Atomic!Apply,
         Atomic!TransactionExists
<1>. QED
  BY <1>1, <1>2, StepRefines, Invariance, PTL DEF Spec
-----------------------------------------------------------------------------
(* Totals *)

\* Nothing adds up to 0.
LEMMA TotalEmpty == \A F : Total(F, {}) = 0 /\ IsFiniteSet(Units(F, {}))
<1>1. \A F : Units(F, {}) = {}
  BY DEF Units
<1>. QED
  BY <1>1, FS_EmptySet DEF Total

LEMMA TotalType == \A F, S : IsFiniteSet(Units(F, S)) => Total(F, S) \in Nat
  BY FS_CardinalityType DEF Total

\* With one element more, a total is greater by the amount of that element.
LEMMA TotalWithout ==
  ASSUME NEW F, NEW S, NEW x \in S, F[x] \in Nat,
         IsFiniteSet(Units(F, S)) \/ IsFiniteSet(Units(F, S \ {x}))
  PROVE  /\ IsFiniteSet(Units(F, S)) /\ IsFiniteSet(Units(F, S \ {x}))
         /\ Total(F, S \ {x}) \in Nat
         /\ Total(F, S) = Total(F, S \ {x}) + F[x]
<1>. DEFINE A == {x}
            B == 1 .. F[x]
            U == A \X B
            V == Units(F, S \ {x})
            W == Units(F, S)
<1>1. W = V \cup U /\ V \cap U = {}
  BY DEF Units
<1>2. IsFiniteSet(U) /\ Cardinality(U) = F[x]
  <2>1. IsFiniteSet(A) /\ Cardinality(A) = 1
    BY FS_Singleton
  <2>2. IsFiniteSet(B) /\ Cardinality(B) = F[x]
    <3>1. 1 \in Int /\ F[x] \in Int /\ (IF 1 > F[x] THEN 0 ELSE F[x] - 1 + 1) = F[x]
      OBVIOUS
    <3>. QED
      BY <3>1, FS_Interval
  <2>3. 1 * F[x] = F[x]
    OBVIOUS
  <2>. HIDE DEF A, B
  <2>4. IsFiniteSet(A \X B) /\ Cardinality(A \X B) = Cardinality(A) * Cardinality(B)
    BY <2>1, <2>2, FS_Product
  <2>. QED
    BY <2>1, <2>2, <2>3, <2>4
<1>. HIDE DEF U, V, W
<1>3. IsFiniteSet(V)
  BY <1>1, FS_Subset DEF V, W
<1>4. Cardinality(V) \in Nat /\ IsFiniteSet(W) /\ Cardinality(W) = Cardinality(V) + F[x]
  <2>1. Cardinality(V) \in Nat /\ Cardinality(V \cap U) = 0
    BY <1>1, <1>3, FS_CardinalityType, FS_EmptySet
  <2>2. /\ IsFiniteSet(V \cup U)
        /\ Cardinality(V \cup U) = Cardinality(V) + Cardinality(U) - Cardinality(V \cap U)
    BY <1>2, <1>3, FS_Union
  <2>. QED
    BY <1>1, <1>2, <2>1, <2>2
<1>. QED
  BY <1>3, <1>4 DEF Total, V, W

-----------------------------------------------------------------------------
(* What the entries add up to *)

Booked(u, type) == {e \in entries : e.user = u /\ e.type = type}

\* Every user's credits and every user's debits have a total, and the balance is
\* their difference.
SumsKept ==
  \A u \in Users :
    /\ \A type \in {"CREDIT", "DEBIT"} : IsFiniteSet(Units(Atomic!Amount, Booked(u, type)))
    /\ balanceBar[u] = Total(Atomic!Amount, Booked(u, "CREDIT"))
                        - Total(Atomic!Amount, Booked(u, "DEBIT"))

\* Totals are the same where module Ledger takes them.
LEMMA AtomicTotal == \A F, S : Atomic!Total(F, S) = Total(F, S)
<1>1. \A F, S : Atomic!Units(F, S) = Units(F, S)
  BY DEF Units, Atomic!Units
<1>. QED
  BY <1>1 DEF Total, Atomic!Total, Cardinality, Atomic!Cardinality

LEMMA SumsKeptMeaning == SumsKept => BalanceIsSum
<1>1. ASSUME NEW u, NEW type
      PROVE  Atomic!Total(Atomic!Amount, {e \in Atomic!ListTransactions(u) : e.type = type})
               = Total(Atomic!Amount, Booked(u, type))
  <2>1. {e \in Atomic!ListTransactions(u) : e.type = type} = Booked(u, type)
    BY DEF Atomic!ListTransactions, Booked
  <2>. QED
    BY <2>1, AtomicTotal
<1>. QED
  BY <1>1 DEF SumsKept, BalanceIsSum, Atomic!BalanceIsSum, balanceBar

LEMMA InitSumsKept == Init => SumsKept
<1>. SUFFICES ASSUME Init PROVE SumsKept
  OBVIOUS
<1>1. \A u, type : Booked(u, type) = {}
  BY DEF Init, Booked
<1>2. \A u \in Users : balanceBar[u] = 0
  BY DEF Init, balanceBar
<1>. QED
  BY <1>1, <1>2, TotalEmpty DEF SumsKept

\* An atomic step adds its entry to one of the two totals of one user, and the
\* same amount to, or from, that user's balance.
LEMMA ApplySumsKept ==
  ASSUME IInv, SumsKept, NEW e \in Atomic!Entry, Atomic!Apply(e)
  PROVE  SumsKept'
<1>. DEFINE F == Atomic!Amount
<1>1. /\ e.user \in Users /\ e.type \in {"CREDIT", "DEBIT"} /\ e.amount \in Nat
      /\ F[e] = e.amount
      /\ Atomic!Change(e) = IF e.type = "CREDIT" THEN e.amount ELSE -e.amount
  BY AmountsAssumption DEF Atomic!Entry, Atomic!Change, Atomic!Amount
<1>2. e \notin entries /\ entries' = entries \cup {e}
  BY DEF Atomic!Apply, Atomic!TransactionExists
<1>3. \A u \in Users : balanceBar'[u] = IF u = e.user THEN balanceBar[u] + Atomic!Change(e)
                                                      ELSE balanceBar[u]
  BY DEF Atomic!Apply, balanceBar
<1>4. \A u \in Users : balanceBar[u] \in Int
  BY BalanceInt DEF IInv, Balance, balanceBar
<1>5. e \in Booked(e.user, e.type)' /\ Booked(e.user, e.type)' \ {e} = Booked(e.user, e.type)
  BY <1>2 DEF Booked
<1>6. \A u, type : u # e.user \/ type # e.type => Booked(u, type)' = Booked(u, type)
  BY <1>2 DEF Booked
<1>. DEFINE Now == Booked(e.user, e.type)'
<1>7. /\ IsFiniteSet(Units(F, Now)) /\ Total(F, Booked(e.user, e.type)) \in Nat
      /\ Total(F, Now) = Total(F, Booked(e.user, e.type)) + e.amount
  <2>1. IsFiniteSet(Units(F, Now \ {e})) /\ e \in Now /\ F[e] \in Nat
    BY <1>1, <1>5 DEF SumsKept
  <2>. HIDE DEF Now, F
  <2>2. /\ IsFiniteSet(Units(F, Now)) /\ Total(F, Now \ {e}) \in Nat
        /\ Total(F, Now) = Total(F, Now \ {e}) + F[e]
    BY <2>1, TotalWithout
  <2>. QED
    BY <2>2, <1>1, <1>5 DEF Now
<1>. HIDE DEF F
<1>8. \A type \in {"CREDIT", "DEBIT"} : Total(F, Booked(e.user, type)) \in Nat
  BY <1>1, TotalType DEF SumsKept, F
<1>9. ASSUME NEW u \in Users, u # e.user
      PROVE  /\ \A type \in {"CREDIT", "DEBIT"} : IsFiniteSet(Units(F, Booked(u, type)'))
             /\ balanceBar'[u] = Total(F, Booked(u, "CREDIT")') - Total(F, Booked(u, "DEBIT")')
  BY <1>9, <1>3, <1>6 DEF SumsKept, F
<1>10. /\ \A type \in {"CREDIT", "DEBIT"} : IsFiniteSet(Units(F, Booked(e.user, type)'))
      /\ balanceBar'[e.user] =
           Total(F, Booked(e.user, "CREDIT")') - Total(F, Booked(e.user, "DEBIT")')
  <2>1. CASE e.type = "CREDIT"
    BY <2>1, <1>1, <1>3, <1>4, <1>6, <1>7, <1>8 DEF SumsKept, F
  <2>2. CASE e.type = "DEBIT"
    BY <2>2, <1>1, <1>3, <1>4, <1>6, <1>7, <1>8 DEF SumsKept, F
  <2>. QED
    BY <1>1, <2>1, <2>2
<1>. QED
  BY <1>9, <1>10 DEF SumsKept, F

\* Wallets hold what their entries add up to, whatever interleaves.
THEOREM BalancesAreSums == Spec => []BalanceIsSum
<1>1. IInv /\ SumsKept /\ [Next]_vars => SumsKept'
  <2>. SUFFICES ASSUME IInv, SumsKept, [Next]_vars PROVE SumsKept'
    OBVIOUS
  <2>1. CASE Atomic!Next
    BY <2>1, ApplySumsKept DEF Atomic!Next
  <2>2. CASE UNCHANGED <<balanceBar, entries>>
    BY <2>2 DEF SumsKept, Booked
  <2>. QED
    BY <2>1, <2>2, StepRefines
<1>. QED
  BY <1>1, InitSumsKept, SumsKeptMeaning, Invariance, PTL DEF Spec
=============================================================================
