--------------------------- MODULE PaymentsProofs ---------------------------
(* What confirmations guarantee for any number of intents, gateways, handlers, *)
(* interruptions and webhooks.                                                 *)
EXTENDS Payments, FiniteSetTheorems, TLAPS

-----------------------------------------------------------------------------
(* The inductive invariant *)

Confirming == {"received", "credit", "charged", "debit", "succeed"}

\* A handler under way is about an intent.
WorkingNamed == \A h \in Handlers : pc[h] # "idle" => working[h] \in Intents

\* No checkout is open before its intent is stored, so that storing an intent
\* never touches one that was paid.
CheckoutStored == \A i \in Intents : intent[i] = "NONE" => checkout[i] = "none"

\* The gateway has the money, or SeerBit gave a "00" for it.
Reported(i) == checkout[i] = "paid" \/ i \in oneCode

\* Nobody confirms a live payment that the gateway did not report.
ConfirmsReported ==
  \A h \in Handlers :
    LET i == working[h] IN
    /\ pc[h] \in Confirming /\ GatewayOf[i] \in Live => Reported(i)
    /\ pc[h] = "lookup" => /\ GatewayOf[i] \in Live
                           /\ GatewayOf[i] = "paystack" => Reported(i)

\* Each statement of confirmPayment finds the earlier ones done.
ConfirmsInOrder ==
  \A h \in Handlers :
    LET i == working[h] IN
    /\ pc[h] \in {"charged", "debit"} => Received(i)
    /\ pc[h] = "succeed" /\ GatewayOf[i] \in Live => Received(i) /\ Charged(i)

IInv == /\ TypeOK /\ WorkingNamed /\ CheckoutStored /\ ConfirmsReported
        /\ ConfirmsInOrder /\ ReceivedIsReported /\ SucceededIsCharged

-----------------------------------------------------------------------------
(* Steps of a handler *)

\* What every handler step has in common: one handler moves, to a statement and
\* an intent that satisfy the invariant.
HandlerMoves(h) ==
  /\ pc' \in [Handlers -> Steps] /\ working' \in [Handlers -> Intents \cup {None}]
  /\ \A g \in Handlers \ {h} : pc'[g] = pc[g] /\ working'[g] = working[g]

LEMMA FinishMoves ==
  ASSUME TypeOK, NEW h \in Handlers, Finish(h)
  PROVE  HandlerMoves(h) /\ pc'[h] = "idle"
  BY DEF TypeOK, Finish, Goto, HandlerMoves, Steps

LEMMA GotoMoves ==
  ASSUME TypeOK, NEW h \in Handlers, NEW step \in Steps, Goto(h, step),
         UNCHANGED working
  PROVE  HandlerMoves(h) /\ pc'[h] = step /\ working'[h] = working[h]
  BY DEF TypeOK, Goto, HandlerMoves

LEMMA BeginMoves ==
  ASSUME TypeOK, NEW h \in Handlers, NEW step \in Steps, NEW i \in Intents,
         Begin(h, i, step)
  PROVE  HandlerMoves(h) /\ pc'[h] = step /\ working'[h] = i
  BY DEF TypeOK, Begin, Goto, HandlerMoves

\* The ledger only grows, and gateways and amounts never change.
LedgerGrows == entries \subseteq entries'

LEMMA BookedStays ==
  ASSUME LedgerGrows, NEW i
  PROVE  (Received(i) => Received(i)') /\ (Charged(i) => Charged(i)')
  BY DEF LedgerGrows, Received, Charged, Wallets!TransactionExists, Receipt, Charge

\* What was heard of a payment stays known.
HeardGrows ==
  /\ oneCode \subseteq oneCode' /\ worded \subseteq worded'
  /\ (oneCode \subseteq Intents)' /\ (worded \subseteq Intents)'

LEMMA NothingHeard ==
  ASSUME TypeOK, UNCHANGED heard
  PROVE  HeardGrows
  BY DEF TypeOK, heard, HeardGrows

\* A step that only moves a handler keeps the invariant if the handler's new
\* place satisfies it.
LEMMA MovesOnly ==
  ASSUME IInv, NEW h \in Handlers, HandlerMoves(h),
         UNCHANGED <<intent, checkout, ledger>>, HeardGrows,
         recorded' \subseteq Intents \X EventIds,
         pc'[h] # "idle" => working'[h] \in Intents,
         pc'[h] \in Confirming /\ GatewayOf[working'[h]] \in Live => Reported(working[h])',
         pc'[h] = "lookup" => /\ GatewayOf[working'[h]] \in Live
                              /\ GatewayOf[working'[h]] = "paystack" => Reported(working[h])',
         pc'[h] \in {"charged", "debit"} => Received(working'[h]),
         pc'[h] = "succeed" /\ GatewayOf[working'[h]] \in Live
           => Received(working'[h]) /\ Charged(working'[h])
  PROVE  IInv'
<1>0. \A i \in Intents : Reported(i) => Reported(i)'
  BY DEF Reported, HeardGrows
<1>1. TypeOK'
  BY DEF IInv, TypeOK, HandlerMoves, HeardGrows, ledger, Wallets!Entry, Amounts, References
<1>2. \A i : Received(i)' = Received(i) /\ Charged(i)' = Charged(i)
  BY DEF Received, Charged, Wallets!TransactionExists, Receipt, Charge, ledger
<1>3. WorkingNamed'
  BY DEF IInv, WorkingNamed, HandlerMoves
<1>4. ConfirmsReported'
  <2>1. ASSUME NEW g \in Handlers \ {h}, pc[g] # "idle"
        PROVE  Reported(working[g]) => Reported(working[g])'
    BY <1>0, <2>1 DEF IInv, WorkingNamed, HandlerMoves
  <2>. QED
    BY <2>1 DEF IInv, ConfirmsReported, HandlerMoves, Confirming
<1>5. ConfirmsInOrder'
  BY <1>2 DEF IInv, ConfirmsInOrder, HandlerMoves
<1>6. CheckoutStored' /\ ReceivedIsReported' /\ SucceededIsCharged'
  BY <1>0, <1>2
     DEF IInv, CheckoutStored, ReceivedIsReported, SucceededIsCharged, Reported, ledger
<1>. QED
  BY <1>1, <1>3, <1>4, <1>5, <1>6 DEF IInv

LEMMA FinishStep ==
  ASSUME IInv, NEW h \in Handlers, Finish(h),
         UNCHANGED <<intent, checkout, recorded, ledger, heard>>
  PROVE  IInv'
  BY FinishMoves, NothingHeard, MovesOnly DEF IInv, TypeOK, Confirming

LEMMA CreateIntentStep ==
  ASSUME IInv, NEW h \in Handlers, NEW i \in Intents, CreateIntent(h, i)
  PROVE  IInv'
<1>1. CASE \E step \in {"initialize", "store"} : Begin(h, i, step)
  BY <1>1, BeginMoves, NothingHeard, MovesOnly
     DEF CreateIntent, IInv, TypeOK, Confirming, Steps
<1>2. CASE GatewayOf[i] = "mock" /\ Begin(h, i, "received")
  BY <1>2, BeginMoves, NothingHeard, MovesOnly
     DEF CreateIntent, IInv, TypeOK, Live, Steps
<1>. QED
  BY <1>1, <1>2 DEF CreateIntent

LEMMA PollIntentStep ==
  ASSUME IInv, NEW h \in Handlers, NEW i \in Intents, PollIntent(h, i)
  PROVE  IInv'
<1>1. CASE Begin(h, i, "verify")
  BY <1>1, BeginMoves, NothingHeard, MovesOnly DEF PollIntent, IInv, TypeOK, Confirming, Steps
<1>2. CASE GatewayOf[i] = "seerbit_test" /\ Begin(h, i, "succeed")
  BY <1>2, BeginMoves, NothingHeard, MovesOnly DEF PollIntent, IInv, TypeOK, Live, Steps
<1>. QED
  BY <1>1, <1>2 DEF PollIntent

LEMMA WebhookStep ==
  ASSUME IInv, NEW h \in Handlers, NEW i \in Intents, NEW e \in EventIds,
         Webhook(h, i, e)
  PROVE  IInv'
<1>1. /\ GatewayOf[i] \in Live
      /\ GatewayOf[i] = "paystack" => checkout[i] = "paid"
      /\ Begin(h, i, "lookup")
      /\ UNCHANGED <<intent, checkout, ledger, heard>>
      /\ recorded' \subseteq Intents \X EventIds
  BY DEF Webhook, VerifyWebhookSignature, RecordEvent, Live, IInv, TypeOK
<1>. QED
  BY <1>1, BeginMoves, NothingHeard, MovesOnly
     DEF Reported, Webhook, heard, IInv, Confirming, Steps

LEMMA LookUpStep ==
  ASSUME IInv, NEW h \in Handlers, LookUp(h)
  PROVE  IInv'
<1>. DEFINE i == working[h]
<1>1. /\ i \in Intents /\ GatewayOf[i] \in Live
      /\ GatewayOf[i] = "paystack" => Reported(i)
      /\ UNCHANGED <<intent, checkout, recorded, ledger, heard>>
  BY DEF LookUp, IInv, WorkingNamed, ConfirmsReported, Reported
<1>2. CASE Finish(h)
  BY <1>1, <1>2, FinishStep
<1>3. CASE Goto(h, "verify") /\ UNCHANGED working
  BY <1>1, <1>3, GotoMoves, NothingHeard, MovesOnly DEF IInv, TypeOK, Confirming, Steps
<1>4. CASE GatewayOf[i] # "seerbit" /\ Goto(h, "received") /\ UNCHANGED working
  BY <1>1, <1>4, GotoMoves, NothingHeard, MovesOnly DEF Reported, heard, IInv, TypeOK, Live, Steps
<1>. QED
  BY <1>2, <1>3, <1>4 DEF LookUp

\* A handler asks SeerBit about its intent, and hears something.
Asks(h) == \E a \in Answers : Verify(h, a)

\* What was said of the payment is what the handler acts on.
LEMMA VerifySays ==
  ASSUME IInv, NEW h \in Handlers, NEW a \in Answers, Verify(h, a)
  PROVE  /\ HeardGrows
         /\ VerifyStatus(a) = "succeeded" => Reported(working[h])'
         /\ VerifyStatus(a) = "failed" => working[h] \in worded'
<1>1. working[h] \in Intents /\ checkout' = checkout
  BY DEF Verify, IInv, WorkingNamed
<1>2. /\ oneCode' = IF {a.code, a.gatewayCode} = {"00", ""} THEN oneCode \cup {working[h]}
                                                          ELSE oneCode
      /\ worded' = IF a.words THEN worded \cup {working[h]} ELSE worded
      /\ a.code = "00" /\ a.gatewayCode = "00" => checkout[working[h]] = "paid"
  BY DEF Verify, MayAnswer
<1>3. HeardGrows
  BY <1>1, <1>2 DEF IInv, TypeOK, HeardGrows
<1>4. ASSUME VerifyStatus(a) = "succeeded"
      PROVE  (a.code = "00" /\ a.gatewayCode = "00") \/ {a.code, a.gatewayCode} = {"00", ""}
  BY <1>4 DEF VerifyStatus
<1>5. VerifyStatus(a) = "failed" => a.words
  BY DEF VerifyStatus
<1>6. ASSUME (a.code = "00" /\ a.gatewayCode = "00") \/ {a.code, a.gatewayCode} = {"00", ""}
      PROVE  checkout'[working[h]] = "paid" \/ working[h] \in oneCode'
  BY <1>1, <1>2, <1>6
<1>7. UNCHANGED working \/ VerifyStatus(a) # "succeeded"
  BY DEF Verify
<1>. QED
  BY <1>2, <1>3, <1>4, <1>5, <1>6, <1>7 DEF Reported

LEMMA VerifyStep ==
  ASSUME IInv, NEW h \in Handlers, Asks(h)
  PROVE  IInv'
<1>0. PICK a \in Answers : Verify(h, a)
  BY DEF Asks
<1>1. /\ working[h] \in Intents /\ HeardGrows
      /\ UNCHANGED <<intent, checkout, recorded, ledger>>
  BY <1>0, VerifySays DEF Verify, IInv, WorkingNamed
<1>2. CASE VerifyStatus(a) = "succeeded"
  BY <1>0, <1>1, <1>2, GotoMoves, VerifySays, MovesOnly DEF Verify, IInv, TypeOK, Steps
<1>3. CASE VerifyStatus(a) = "failed"
  BY <1>0, <1>1, <1>3, GotoMoves, MovesOnly DEF Verify, IInv, TypeOK, Steps, Confirming
<1>4. CASE VerifyStatus(a) \notin {"succeeded", "failed"}
  BY <1>0, <1>1, <1>4, FinishMoves, MovesOnly DEF Verify, IInv, TypeOK, Confirming
<1>. QED
  BY <1>2, <1>3, <1>4

LEMMA CheckStep ==
  ASSUME IInv, NEW h \in Handlers, CheckReceipt(h) \/ CheckCharge(h)
  PROVE  IInv'
<1>1. /\ working[h] \in Intents
      /\ GatewayOf[working[h]] \in Live => Reported(working[h])
      /\ UNCHANGED <<intent, checkout, recorded, ledger, working, heard>>
  BY DEF CheckReceipt, CheckCharge, IInv, WorkingNamed, ConfirmsReported, Confirming
<1>2. CASE CheckReceipt(h)
  BY <1>1, <1>2, GotoMoves, NothingHeard, MovesOnly
     DEF Reported, heard, CheckReceipt, IInv, TypeOK, Steps
<1>3. CASE CheckCharge(h)
  <2>1. Received(working[h])
    BY <1>3 DEF CheckCharge, IInv, ConfirmsInOrder
  <2>. QED
    BY <1>1, <1>3, <2>1, GotoMoves, NothingHeard, MovesOnly
       DEF Reported, heard, CheckCharge, IInv, TypeOK, Steps
<1>. QED
  BY <1>2, <1>3

-----------------------------------------------------------------------------
(* Steps that write the ledger *)

LEMMA ApplyLedger ==
  ASSUME IInv, NEW e \in Wallets!Entry, Wallets!Apply(e)
  PROVE  /\ balance' \in [Users -> Int] /\ (entries \subseteq Wallets!Entry)'
         /\ LedgerGrows
         /\ entries' = entries \cup {e}
<1>1. /\ balance' = [balance EXCEPT ![e.user] = @ + Wallets!Change(e)]
      /\ entries' = entries \cup {e}
  BY DEF Wallets!Apply
<1>2. AmountOf \in [Intents -> Nat \ {0}]
  BY IntentsAssumption
<1>3. e.user \in Users /\ e.amount \in Int
  BY <1>2 DEF Wallets!Entry, Amounts
<1>4. Wallets!Change(e) \in Int
  BY <1>3 DEF Wallets!Change
<1>5. balance' \in [Users -> Int]
  BY <1>1, <1>3, <1>4 DEF IInv, TypeOK
<1>6. (entries \subseteq Wallets!Entry)'
  BY <1>1 DEF IInv, TypeOK, Wallets!Entry
<1>. QED
  BY <1>1, <1>5, <1>6 DEF LedgerGrows

\* The two references of an intent are no others'.
LEMMA EntryTypes ==
  ASSUME NEW i \in Intents
  PROVE  /\ Receipt(i) \in Wallets!Entry
         /\ Charge(i) \in Wallets!Entry
  BY IntentsAssumption
     DEF Receipt, Charge, Wallets!Entry, Amounts, References

LEMMA CreditReceiptStep ==
  ASSUME IInv, NEW h \in Handlers, CreditReceipt(h)
  PROVE  IInv'
<1>. DEFINE i == working[h]
<1>1. /\ i \in Intents /\ pc[h] = "credit"
      /\ GatewayOf[i] \in Live => Reported(i)
      /\ UNCHANGED <<intent, checkout, recorded, heard>>
  BY DEF CreditReceipt, IInv, WorkingNamed, ConfirmsReported, Confirming
<1>2. CASE Finish(h) /\ UNCHANGED ledger
  BY <1>1, <1>2, FinishStep
<1>3. CASE Wallets!Apply(Receipt(i)) /\ Goto(h, "charged") /\ UNCHANGED working
  <2>1. /\ balance' \in [Users -> Int] /\ (entries \subseteq Wallets!Entry)'
        /\ LedgerGrows /\ entries' = entries \cup {Receipt(i)}
    BY <1>1, <1>3, EntryTypes, ApplyLedger
  <2>2. HandlerMoves(h) /\ pc'[h] = "charged" /\ working'[h] = i
    BY <1>3, GotoMoves DEF IInv, Steps
  <2>3. TypeOK'
    BY <1>1, <2>1, <2>2 DEF heard, IInv, TypeOK, HandlerMoves
  <2>4. \A j \in Intents : Received(j)' => Received(j) \/ j = i
    BY <2>1 DEF Received, Receipt, Wallets!TransactionExists
  <2>5. Received(i)'
    BY <2>1, <2>2 DEF Received, Receipt, Wallets!TransactionExists
  <2>6. WorkingNamed' /\ CheckoutStored' /\ ConfirmsReported'
    BY <1>1, <2>2
       DEF Reported, heard, IInv, WorkingNamed, CheckoutStored, ConfirmsReported, HandlerMoves,
           Confirming
  <2>7. ConfirmsInOrder'
    <3>1. \A j : (Received(j) => Received(j)') /\ (Charged(j) => Charged(j)')
      BY <2>1, BookedStays
    <3>. QED
      BY <2>2, <2>5, <3>1 DEF IInv, ConfirmsInOrder, HandlerMoves
  <2>8. ReceivedIsReported'
    BY <1>1, <2>4 DEF Reported, heard, IInv, ReceivedIsReported
  <2>9. SucceededIsCharged'
    <3>1. \A j : (Received(j) => Received(j)') /\ (Charged(j) => Charged(j)')
      BY <2>1, BookedStays
    <3>. QED
      BY <1>1, <3>1 DEF IInv, SucceededIsCharged
  <2>. QED
    BY <2>3, <2>6, <2>7, <2>8, <2>9 DEF IInv
<1>. QED
  BY <1>2, <1>3 DEF CreditReceipt

LEMMA DebitChargeStep ==
  ASSUME IInv, NEW h \in Handlers, DebitCharge(h)
  PROVE  IInv'
<1>. DEFINE i == working[h]
<1>1. /\ i \in Intents /\ pc[h] = "debit" /\ Received(i)
      /\ GatewayOf[i] \in Live => Reported(i)
      /\ UNCHANGED <<intent, checkout, recorded, heard>>
  BY DEF DebitCharge, IInv, WorkingNamed, ConfirmsReported, ConfirmsInOrder, Confirming
<1>2. CASE Finish(h) /\ UNCHANGED ledger
  BY <1>1, <1>2, FinishStep
<1>3. CASE Goto(h, "fail") /\ UNCHANGED <<ledger, working>>
  BY <1>1, <1>3, GotoMoves, NothingHeard, MovesOnly DEF IInv, TypeOK, Steps, Confirming
<1>4. CASE Wallets!Apply(Charge(i)) /\ Goto(h, "succeed") /\ UNCHANGED working
  <2>1. /\ balance' \in [Users -> Int] /\ (entries \subseteq Wallets!Entry)'
        /\ LedgerGrows /\ entries' = entries \cup {Charge(i)}
    BY <1>1, <1>4, EntryTypes, ApplyLedger
  <2>2. HandlerMoves(h) /\ pc'[h] = "succeed" /\ working'[h] = i
    BY <1>4, GotoMoves DEF IInv, Steps
  <2>3. TypeOK'
    BY <1>1, <2>1, <2>2 DEF heard, IInv, TypeOK, HandlerMoves
  <2>4. \A j \in Intents : Received(j)' = Received(j)
    BY <2>1 DEF Received, Receipt, Charge, Wallets!TransactionExists
  <2>5. Charged(i)'
    BY <2>1, <2>2 DEF Charged, Charge, Wallets!TransactionExists
  <2>6. WorkingNamed' /\ CheckoutStored' /\ ConfirmsReported'
    BY <1>1, <2>2
       DEF Reported, heard, IInv, WorkingNamed, CheckoutStored, ConfirmsReported, HandlerMoves,
           Confirming
  <2>7. \A j : (Received(j) => Received(j)') /\ (Charged(j) => Charged(j)')
    BY <2>1, BookedStays
  <2>8. ConfirmsInOrder'
    BY <1>1, <2>2, <2>5, <2>7 DEF IInv, ConfirmsInOrder, HandlerMoves
  <2>9. ReceivedIsReported' /\ SucceededIsCharged'
    BY <1>1, <2>4, <2>7 DEF heard, IInv, ReceivedIsReported, SucceededIsCharged
  <2>. QED
    BY <2>3, <2>6, <2>8, <2>9 DEF IInv
<1>. QED
  BY <1>2, <1>3, <1>4 DEF DebitCharge

-----------------------------------------------------------------------------
(* Steps that write an intent or a checkout *)

LEMMA MarkStep ==
  ASSUME IInv, NEW h \in Handlers, MarkIntentSucceeded(h) \/ MarkIntentFailed(h)
  PROVE  IInv'
<1>. DEFINE i == working[h]
<1>1. /\ i \in Intents
      /\ Finish(h) /\ UNCHANGED <<checkout, recorded, ledger, heard>>
  BY DEF MarkIntentSucceeded, MarkIntentFailed, IInv, WorkingNamed
<1>2. PICK status \in {"SUCCEEDED", "FAILED"} :
        /\ intent' = [intent EXCEPT ![i] = status]
        /\ status = "SUCCEEDED" /\ GatewayOf[i] \in Live => Received(i) /\ Charged(i)
  BY DEF MarkIntentSucceeded, MarkIntentFailed, IInv, ConfirmsInOrder
<1>3. HandlerMoves(h) /\ pc'[h] = "idle"
  BY <1>1, FinishMoves DEF IInv
<1>4. \A j : Received(j)' = Received(j) /\ Charged(j)' = Charged(j)
  BY <1>1 DEF Received, Charged, Wallets!TransactionExists, Receipt, Charge, ledger
<1>5. TypeOK'
  <2>1. intent' \in [Intents -> Statuses \cup {"NONE"}]
    BY <1>1, <1>2 DEF IInv, TypeOK, Statuses
  <2>. QED
    BY <1>1, <1>3, <2>1
       DEF heard, IInv, TypeOK, HandlerMoves, ledger, Wallets!Entry, Amounts, References
<1>6. WorkingNamed' /\ ConfirmsReported'
  BY <1>1, <1>3
     DEF Reported, heard, IInv, WorkingNamed, ConfirmsReported, HandlerMoves, Confirming
<1>7. CheckoutStored'
  BY <1>1, <1>2 DEF IInv, CheckoutStored, TypeOK
<1>8. ConfirmsInOrder'
  BY <1>3, <1>4 DEF IInv, ConfirmsInOrder, HandlerMoves
<1>9. ReceivedIsReported' /\ SucceededIsCharged'
  BY <1>1, <1>2, <1>4 DEF heard, IInv, ReceivedIsReported, SucceededIsCharged, TypeOK
<1>. QED
  BY <1>5, <1>6, <1>7, <1>8, <1>9 DEF IInv

LEMMA InitializeStep ==
  ASSUME IInv, NEW h \in Handlers, InitializeSeerbit(h) \/ InitializePaystack(h)
  PROVE  IInv'
<1>1. /\ working[h] \in Intents /\ Goto(h, "store")
      /\ UNCHANGED <<intent, checkout, recorded, ledger, working, heard>>
  BY DEF InitializeSeerbit, InitializePaystack, IInv, WorkingNamed
<1>. QED
  BY <1>1, GotoMoves, NothingHeard, MovesOnly DEF IInv, TypeOK, Steps, Confirming

LEMMA StoreIntentStep ==
  ASSUME IInv, NEW h \in Handlers, StoreIntent(h)
  PROVE  IInv'
<1>. DEFINE i == working[h]
<1>1. i \in Intents /\ UNCHANGED <<recorded, ledger, heard>>
  BY DEF StoreIntent, IInv, WorkingNamed
<1>2. CASE intent[i] # "NONE"
  BY <1>1, <1>2, FinishStep DEF StoreIntent
<1>3. CASE intent[i] = "NONE"
  <2>1. intent' = [intent EXCEPT ![i] = "PENDING"] /\ checkout[i] = "none"
    BY <1>1, <1>3 DEF StoreIntent, IInv, CheckoutStored
  <2>2. /\ HandlerMoves(h)
        /\ \/ GatewayOf[i] \in Live /\ pc'[h] = "idle"
              /\ checkout' = [checkout EXCEPT ![i] = "open"]
           \/ /\ GatewayOf[i] \notin Live /\ pc'[h] = "succeed" /\ working'[h] = i
              /\ checkout' = checkout
    BY <1>3, FinishMoves, GotoMoves DEF StoreIntent, IInv, Steps
  <2>3. /\ checkout' \in [Intents -> {"none", "open", "paid"}]
        /\ \A j \in Intents : checkout[j] = "paid" => checkout'[j] = "paid"
        /\ \A j \in Intents \ {i} : checkout'[j] = checkout[j]
    BY <1>1, <2>1, <2>2 DEF IInv, TypeOK
  <2>4. \A j : Received(j)' = Received(j) /\ Charged(j)' = Charged(j)
    BY <1>1 DEF Received, Charged, Wallets!TransactionExists, Receipt, Charge, ledger
  <2>5. TypeOK'
    <3>1. intent' \in [Intents -> Statuses \cup {"NONE"}]
      BY <1>1, <2>1 DEF IInv, TypeOK, Statuses
    <3>. QED
      BY <1>1, <2>2, <2>3, <3>1
         DEF heard, IInv, TypeOK, HandlerMoves, ledger, Wallets!Entry, Amounts, References
  <2>6. WorkingNamed'
    BY <1>1, <2>2 DEF IInv, WorkingNamed, HandlerMoves
  <2>7. CheckoutStored'
    BY <2>1, <2>3 DEF IInv, CheckoutStored, TypeOK
  <2>8. ConfirmsReported'
    BY <1>1, <2>2, <2>3, <2>6
       DEF Reported, heard, IInv, ConfirmsReported, WorkingNamed, HandlerMoves, Confirming
  <2>9. ConfirmsInOrder'
    BY <2>2, <2>4 DEF IInv, ConfirmsInOrder, HandlerMoves
  <2>10. ReceivedIsReported' /\ SucceededIsCharged'
    BY <1>1, <2>1, <2>3, <2>4 DEF heard, IInv, ReceivedIsReported, SucceededIsCharged, TypeOK
  <2>. QED
    BY <2>5, <2>6, <2>7, <2>8, <2>9, <2>10 DEF IInv
<1>. QED
  BY <1>2, <1>3

LEMMA CompleteCheckoutStep ==
  ASSUME IInv, NEW i \in Intents, CompleteCheckout(i)
  PROVE  IInv'
<1>1. /\ checkout[i] = "open" /\ checkout' = [checkout EXCEPT ![i] = "paid"]
      /\ UNCHANGED <<intent, recorded, ledger, pc, working, heard>>
  BY DEF CompleteCheckout
<1>2. /\ checkout' \in [Intents -> {"none", "open", "paid"}]
      /\ \A j \in Intents : checkout[j] = "paid" => checkout'[j] = "paid"
      /\ \A j \in Intents \ {i} : checkout'[j] = checkout[j]
  BY <1>1 DEF IInv, TypeOK
<1>3. \A j : Received(j)' = Received(j) /\ Charged(j)' = Charged(j)
  BY <1>1 DEF Received, Charged, Wallets!TransactionExists, Receipt, Charge, ledger
<1>4. TypeOK'
  BY <1>1, <1>2 DEF heard, IInv, TypeOK, ledger, Wallets!Entry, Amounts, References
<1>5. WorkingNamed' /\ CheckoutStored'
  BY <1>1, <1>2 DEF IInv, WorkingNamed, CheckoutStored
<1>6. ConfirmsReported'
  BY <1>1, <1>2 DEF Reported, heard, IInv, ConfirmsReported, WorkingNamed, Confirming
<1>7. ConfirmsInOrder' /\ ReceivedIsReported' /\ SucceededIsCharged'
  BY <1>1, <1>2, <1>3
     DEF heard, IInv, ConfirmsInOrder, ReceivedIsReported, SucceededIsCharged
<1>. QED
  BY <1>4, <1>5, <1>6, <1>7 DEF IInv

-----------------------------------------------------------------------------
(* The invariant of the specification *)

LEMMA InitIInv == Init => IInv
<1>. SUFFICES ASSUME Init PROVE IInv
  OBVIOUS
<1>1. TypeOK
  BY DEF Init, TypeOK, Wallets!Init, Statuses, Steps
<1>2. entries = {} /\ \A i : ~Received(i) /\ ~Charged(i)
  BY DEF Init, Wallets!Init, Received, Charged, Wallets!TransactionExists
<1>3. WorkingNamed /\ CheckoutStored /\ ConfirmsReported /\ ConfirmsInOrder
  BY DEF Init, WorkingNamed, CheckoutStored, ConfirmsReported, ConfirmsInOrder, Confirming
<1>4. ReceivedIsReported /\ SucceededIsCharged
  BY <1>2 DEF Init, ReceivedIsReported, SucceededIsCharged
<1>. QED
  BY <1>1, <1>3, <1>4 DEF IInv

LEMMA StepIInv == IInv /\ [Next]_vars => IInv'
<1>. SUFFICES ASSUME IInv, [Next]_vars PROVE IInv'
  OBVIOUS
<1>1. ASSUME NEW h \in Handlers, NEW i \in Intents, CreateIntent(h, i) \/ PollIntent(h, i)
      PROVE  IInv'
  BY <1>1, CreateIntentStep, PollIntentStep
<1>2. ASSUME NEW h \in Handlers, NEW i \in Intents, NEW e \in EventIds, Webhook(h, i, e)
      PROVE  IInv'
  BY <1>2, WebhookStep
<1>3. ASSUME NEW h \in Handlers, Continue(h) PROVE IInv'
  BY <1>3, InitializeStep, StoreIntentStep, LookUpStep, VerifyStep, CheckStep, CreditReceiptStep,
     DebitChargeStep, MarkStep
     DEF Continue, Asks
<1>4. ASSUME NEW h \in Handlers, Abandon(h) PROVE IInv'
  BY <1>4, FinishStep DEF Abandon
<1>5. ASSUME NEW i \in Intents, CompleteCheckout(i)
      PROVE  IInv'
  BY <1>5, CompleteCheckoutStep
<1>6. CASE UNCHANGED vars
  <2>1. \A i : Received(i)' = Received(i) /\ Charged(i)' = Charged(i)
    BY <1>6
       DEF vars, ledger, Received, Charged, Wallets!TransactionExists, Receipt, Charge
  <2>. QED
    BY <1>6, <2>1
       DEF vars, heard, Reported, ledger, IInv, TypeOK, WorkingNamed, CheckoutStored,
           ConfirmsReported,
           ConfirmsInOrder, ReceivedIsReported, SucceededIsCharged, Wallets!Entry,
           Amounts, References
<1>. QED
  BY <1>1, <1>2, <1>3, <1>4, <1>5, <1>6 DEF Next

LEMMA Invariance == Spec => []IInv
  BY InitIInv, StepIInv, PTL DEF Spec

\* Every variable keeps its type.
THEOREM TypeCorrect == Spec => []TypeOK
<1>1. IInv => TypeOK
  BY DEF IInv
<1>. QED
  BY <1>1, Invariance, PTL

\* No receipt is booked for a live payment that the gateway does not have, unless
\* SeerBit answered "00" about it in one of its codes, for any answers to the
\* questions and any interleaving of polls with webhooks.
THEOREM CreditsAreReported == Spec => []ReceivedIsReported
<1>1. IInv => ReceivedIsReported
  BY DEF IInv
<1>. QED
  BY <1>1, Invariance, PTL

\* A live intent says SUCCEEDED only with both its entries in the ledger.
THEOREM SuccessIsBooked == Spec => []SucceededIsCharged
<1>1. IInv => SucceededIsCharged
  BY DEF IInv
<1>. QED
  BY <1>1, Invariance, PTL

-----------------------------------------------------------------------------
(* Totals *)

\* Nothing adds up to 0.
LEMMA TotalEmpty == \A F : Total(F, {}) = 0 /\ IsFiniteSet(Units(F, {}))
<1>1. \A F : Units(F, {}) = {}
  BY DEF Units
<1>. QED
  BY <1>1, FS_EmptySet DEF Total

LEMMA TotalType == \A F, S : IsFiniteSet(Units(F, S)) => Total(F, S) \in Nat
  BY FS_CardinalityType DEF Total

\* With one element more, a total is greater by the amount of that element.
LEMMA TotalWithout ==
  ASSUME NEW F, NEW S, NEW x \in S, F[x] \in Nat,
         IsFiniteSet(Units(F, S)) \/ IsFiniteSet(Units(F, S \ {x}))
  PROVE  /\ IsFiniteSet(Units(F, S)) /\ IsFiniteSet(Units(F, S \ {x}))
         /\ Total(F, S \ {x}) \in Nat
         /\ Total(F, S) = Total(F, S \ {x}) + F[x]
<1>. DEFINE A == {x}
            B == 1 .. F[x]
            U == A \X B
            V == Units(F, S \ {x})
            W == Units(F, S)
<1>1. W = V \cup U /\ V \cap U = {}
  BY DEF Units
<1>2. IsFiniteSet(U) /\ Cardinality(U) = F[x]
  <2>1. IsFiniteSet(A) /\ Cardinality(A) = 1
    BY FS_Singleton
  <2>2. IsFiniteSet(B) /\ Cardinality(B) = F[x]
    <3>1. 1 \in Int /\ F[x] \in Int /\ (IF 1 > F[x] THEN 0 ELSE F[x] - 1 + 1) = F[x]
      OBVIOUS
    <3>. QED
      BY <3>1, FS_Interval
  <2>3. 1 * F[x] = F[x]
    OBVIOUS
  <2>. HIDE DEF A, B
  <2>4. IsFiniteSet(A \X B) /\ Cardinality(A \X B) = Cardinality(A) * Cardinality(B)
    BY <2>1, <2>2, FS_Product
  <2>. QED
    BY <2>1, <2>2, <2>3, <2>4
<1>. HIDE DEF U, V, W
<1>3. IsFiniteSet(V)
  BY <1>1, FS_Subset DEF V, W
<1>4. Cardinality(V) \in Nat /\ IsFiniteSet(W) /\ Cardinality(W) = Cardinality(V) + F[x]
  <2>1. Cardinality(V) \in Nat /\ Cardinality(V \cap U) = 0
    BY <1>1, <1>3, FS_CardinalityType, FS_EmptySet
  <2>2. /\ IsFiniteSet(V \cup U)
        /\ Cardinality(V \cup U) = Cardinality(V) + Cardinality(U) - Cardinality(V \cap U)
    BY <1>2, <1>3, FS_Union
  <2>. QED
    BY <1>1, <1>2, <2>1, <2>2
<1>. QED
  BY <1>3, <1>4 DEF Total, V, W

-----------------------------------------------------------------------------
(* What the wallets hold *)

\* Nobody is charged who did not pay, every customer's uncharged receipts have a
\* total, and the wallet is that total.
WalletSums ==
  /\ \A i \in Intents : Charged(i) => Received(i)
  /\ \A c \in Users : IsFiniteSet(Units(AmountOf, Uncharged(c)))
  /\ WalletHoldsUncharged

LEMMA InitWalletSums == Init => WalletSums
<1>. SUFFICES ASSUME Init PROVE WalletSums
  OBVIOUS
<1>1. \A i : ~Received(i) /\ ~Charged(i)
  BY DEF Init, Wallets!Init, Received, Charged, Wallets!TransactionExists
<1>2. \A c : Uncharged(c) = {}
  BY <1>1 DEF Uncharged
<1>3. \A c \in Users : balance[c] = 0
  BY DEF Init, Wallets!Init
<1>. QED
  BY <1>1, <1>2, <1>3, TotalEmpty DEF WalletSums, WalletHoldsUncharged

\* The ledger is written by confirmations alone.
LEMMA LedgerStep ==
  ASSUME IInv, [Next]_vars
  PROVE  \/ UNCHANGED ledger
         \/ \E i \in Intents : Wallets!Apply(Receipt(i))
         \/ \E i \in Intents : Received(i) /\ Wallets!Apply(Charge(i))
<1>1. ASSUME NEW h \in Handlers, CreditReceipt(h)
      PROVE  UNCHANGED ledger \/ \E i \in Intents : Wallets!Apply(Receipt(i))
  BY <1>1 DEF CreditReceipt, IInv, WorkingNamed
<1>2. ASSUME NEW h \in Handlers, DebitCharge(h)
      PROVE  UNCHANGED ledger \/ \E i \in Intents : Received(i) /\ Wallets!Apply(Charge(i))
  BY <1>2 DEF DebitCharge, IInv, WorkingNamed, ConfirmsInOrder
<1>3. ASSUME NEW h \in Handlers,
             \/ \E i \in Intents : CreateIntent(h, i) \/ PollIntent(h, i)
             \/ \E i \in Intents, e \in EventIds : Webhook(h, i, e)
             \/ InitializeSeerbit(h) \/ InitializePaystack(h) \/ StoreIntent(h) \/ LookUp(h)
             \/ Asks(h) \/ CheckReceipt(h) \/ CheckCharge(h)
             \/ MarkIntentSucceeded(h) \/ MarkIntentFailed(h) \/ Abandon(h)
      PROVE  UNCHANGED ledger
  BY <1>3
     DEF CreateIntent, PollIntent, Webhook, InitializeSeerbit, InitializePaystack, StoreIntent,
         LookUp, Asks, Verify, CheckReceipt, CheckCharge, MarkIntentSucceeded, MarkIntentFailed, Abandon
<1>4. ASSUME NEW i \in Intents, CompleteCheckout(i)
      PROVE  UNCHANGED ledger
  BY <1>4 DEF CompleteCheckout
<1>5. CASE UNCHANGED vars
  BY <1>5 DEF vars
<1>. QED
  BY <1>1, <1>2, <1>3, <1>4, <1>5 DEF Next, Continue, Asks

\* A receipt, or a charge, is added to one customer's wallet and to the ledger.
LEMMA Applied ==
  ASSUME IInv, NEW i \in Intents, NEW e \in {Receipt(i), Charge(i)}, Wallets!Apply(e)
  PROVE  /\ AmountOf[i] \in Nat /\ CustomerOf[i] \in Users
         /\ entries' = entries \cup {e}
         /\ \A c \in Users \ {CustomerOf[i]} : balance'[c] = balance[c]
         /\ balance[CustomerOf[i]] \in Int
         /\ balance'[CustomerOf[i]] = IF e = Receipt(i) THEN balance[CustomerOf[i]] + AmountOf[i]
                                                       ELSE balance[CustomerOf[i]] - AmountOf[i]
<1>1. AmountOf[i] \in Nat /\ CustomerOf[i] \in Users
  BY IntentsAssumption
<1>2. e.user = CustomerOf[i] /\ entries' = entries \cup {e}
  BY DEF Receipt, Charge, Wallets!Apply
<1>3. Wallets!Change(e) = IF e = Receipt(i) THEN AmountOf[i] ELSE -AmountOf[i]
  BY DEF Wallets!Change, Receipt, Charge
<1>4. balance \in [Users -> Int] /\ balance' = [balance EXCEPT ![e.user] = @ + Wallets!Change(e)]
  BY DEF IInv, TypeOK, Wallets!Apply
<1>. QED
  BY <1>1, <1>2, <1>3, <1>4

LEMMA ReceiptWalletSums ==
  ASSUME IInv, WalletSums, NEW i \in Intents, Wallets!Apply(Receipt(i))
  PROVE  WalletSums'
<1>. DEFINE c == CustomerOf[i]
            Now == Uncharged(c)'
<1>1. /\ AmountOf[i] \in Nat /\ c \in Users /\ entries' = entries \cup {Receipt(i)}
      /\ \A d \in Users \ {c} : balance'[d] = balance[d]
      /\ balance[c] \in Int /\ balance'[c] = balance[c] + AmountOf[i]
  BY Applied
<1>2. ~Received(i) /\ ~Charged(i)
  BY DEF WalletSums, Wallets!Apply, Received
<1>3. /\ \A j \in Intents : Received(j)' <=> Received(j) \/ j = i
      /\ \A j \in Intents : Charged(j)' <=> Charged(j)
  BY <1>1 DEF Received, Charged, Receipt, Charge, Wallets!TransactionExists
<1>4. i \in Now /\ Now \ {i} = Uncharged(c)
  BY <1>2, <1>3 DEF Uncharged
<1>5. \A d \in Users \ {c} : Uncharged(d)' = Uncharged(d)
  BY <1>3 DEF Uncharged
<1>6. IsFiniteSet(Units(AmountOf, Now \ {i})) /\ balance[c] = Total(AmountOf, Now \ {i})
  BY <1>1, <1>4 DEF WalletSums, WalletHoldsUncharged
<1>. HIDE DEF Now
<1>7. /\ IsFiniteSet(Units(AmountOf, Now)) /\ Total(AmountOf, Now \ {i}) \in Nat
      /\ Total(AmountOf, Now) = Total(AmountOf, Now \ {i}) + AmountOf[i]
  BY <1>1, <1>4, <1>6, TotalWithout
<1>8. balance'[c] = Total(AmountOf, Now)
  BY <1>1, <1>6, <1>7
<1>. QED
  BY <1>1, <1>3, <1>5, <1>7, <1>8 DEF WalletSums, WalletHoldsUncharged, Now

LEMMA ChargeWalletSums ==
  ASSUME IInv, WalletSums, NEW i \in Intents, Received(i), Wallets!Apply(Charge(i))
  PROVE  WalletSums'
<1>. DEFINE c == CustomerOf[i]
            Was == Uncharged(c)
<1>1. /\ AmountOf[i] \in Nat /\ c \in Users /\ entries' = entries \cup {Charge(i)}
      /\ \A d \in Users \ {c} : balance'[d] = balance[d]
      /\ balance[c] \in Int /\ balance'[c] = balance[c] - AmountOf[i]
  BY Applied DEF Receipt, Charge
<1>2. ~Charged(i)
  BY DEF Wallets!Apply, Charged
<1>3. /\ \A j \in Intents : Received(j)' <=> Received(j)
      /\ \A j \in Intents : Charged(j)' <=> Charged(j) \/ j = i
  BY <1>1 DEF Received, Charged, Receipt, Charge, Wallets!TransactionExists
<1>4. i \in Was /\ Uncharged(c)' = Was \ {i}
  BY <1>2, <1>3 DEF Uncharged
<1>5. \A d \in Users \ {c} : Uncharged(d)' = Uncharged(d)
  BY <1>3 DEF Uncharged
<1>6. IsFiniteSet(Units(AmountOf, Was)) /\ balance[c] = Total(AmountOf, Was)
  BY <1>1 DEF WalletSums, WalletHoldsUncharged
<1>. HIDE DEF Was
<1>7. /\ IsFiniteSet(Units(AmountOf, Was \ {i})) /\ Total(AmountOf, Was \ {i}) \in Nat
      /\ Total(AmountOf, Was) = Total(AmountOf, Was \ {i}) + AmountOf[i]
  BY <1>1, <1>4, <1>6, TotalWithout
<1>8. balance'[c] = Total(AmountOf, Was \ {i})
  BY <1>1, <1>6, <1>7
<1>. QED
  BY <1>1, <1>3, <1>4, <1>5, <1>7, <1>8 DEF WalletSums, WalletHoldsUncharged

LEMMA StepWalletSums == IInv /\ WalletSums /\ [Next]_vars => WalletSums'
<1>. SUFFICES ASSUME IInv, WalletSums, [Next]_vars PROVE WalletSums'
  OBVIOUS
<1>1. CASE UNCHANGED ledger
  <2>1. \A i : Received(i)' = Received(i) /\ Charged(i)' = Charged(i)
    BY <1>1 DEF Received, Charged, Wallets!TransactionExists, Receipt, Charge, ledger
  <2>2. \A c : Uncharged(c)' = Uncharged(c)
    BY <2>1 DEF Uncharged
  <2>. QED
    BY <1>1, <2>1, <2>2 DEF WalletSums, WalletHoldsUncharged, ledger
<1>. QED
  BY <1>1, LedgerStep, ReceiptWalletSums, ChargeWalletSums

\* A wallet holds the receipts that were not charged yet, for any customers and
\* intents and whatever is interrupted or repeated.
THEOREM WalletsHoldUncharged == Spec => []WalletHoldsUncharged
<1>1. WalletSums => WalletHoldsUncharged
  BY DEF WalletSums
<1>. QED
  BY <1>1, InitWalletSums, StepWalletSums, Invariance, PTL DEF Spec

-----------------------------------------------------------------------------
(* Failures *)

\* Whoever is about to fail an intent got a message with a word of failure, or
\* was refused the debit because another handler had taken the money.
FailJustified ==
  \A h \in Handlers :
    pc[h] = "fail" => working[h] \in worded \/ Charged(working[h])

\* A wallet that holds a receipt covers its charge.
LEMMA ChargeRefused ==
  ASSUME IInv, WalletSums, NEW i \in Intents, Received(i), ~Wallets!Covered(Charge(i))
  PROVE  Charged(i)
<1>. SUFFICES ASSUME ~Charged(i) PROVE FALSE
  OBVIOUS
<1>. DEFINE c == CustomerOf[i]
            U == Uncharged(c)
<1>1. AmountOf[i] \in Nat /\ c \in Users
  BY IntentsAssumption
<1>2. i \in U /\ IsFiniteSet(Units(AmountOf, U)) /\ balance[c] = Total(AmountOf, U)
  BY <1>1 DEF Uncharged, WalletSums, WalletHoldsUncharged
<1>. HIDE DEF U
<1>3. /\ Total(AmountOf, U \ {i}) \in Nat
      /\ Total(AmountOf, U) = Total(AmountOf, U \ {i}) + AmountOf[i]
  BY <1>1, <1>2, TotalWithout
<1>4. balance[c] >= AmountOf[i]
  BY <1>1, <1>2, <1>3
<1>. QED
  BY <1>4 DEF Wallets!Covered, Charge

\* What was heard of a payment stays known, whatever step is taken.
LEMMA HeardStays ==
  ASSUME IInv, [Next]_vars
  PROVE  HeardGrows
<1>1. ASSUME NEW h \in Handlers, Asks(h) PROVE HeardGrows
  BY <1>1, VerifySays DEF Asks
<1>2. ASSUME NEW h \in Handlers,
             \/ \E j \in Intents : CreateIntent(h, j) \/ PollIntent(h, j)
             \/ \E j \in Intents, e \in EventIds : Webhook(h, j, e)
             \/ InitializeSeerbit(h) \/ InitializePaystack(h) \/ StoreIntent(h) \/ LookUp(h)
             \/ CheckReceipt(h) \/ CreditReceipt(h) \/ CheckCharge(h) \/ DebitCharge(h)
             \/ MarkIntentSucceeded(h) \/ MarkIntentFailed(h) \/ Abandon(h)
      PROVE  UNCHANGED heard
  BY <1>2
     DEF CreateIntent, PollIntent, Webhook, InitializeSeerbit, InitializePaystack, StoreIntent,
         LookUp, CheckReceipt, CreditReceipt, CheckCharge, DebitCharge, MarkIntentSucceeded,
         MarkIntentFailed, Abandon
<1>3. CASE UNCHANGED vars \/ \E i \in Intents : CompleteCheckout(i)
  BY <1>3, NothingHeard DEF IInv, vars, heard, CompleteCheckout
<1>. QED
  BY <1>1, <1>2, <1>3, NothingHeard DEF Next, Continue, Asks, IInv

LEMMA LedgerGrowing == ASSUME IInv, [Next]_vars PROVE LedgerGrows
<1>1. \A e : Wallets!Apply(e) => LedgerGrows
  BY DEF Wallets!Apply, LedgerGrows
<1>2. UNCHANGED ledger => LedgerGrows
  BY DEF ledger, LedgerGrows
<1>. QED
  BY <1>1, <1>2, LedgerStep

\* How a handler comes to the statement that fails its intent.
LEMMA FailReached ==
  ASSUME IInv, [Next]_vars, NEW g \in Handlers, pc'[g] = "fail"
  PROVE  /\ working'[g] = working[g] /\ working[g] \in Intents
         /\ \/ pc[g] = "fail"
            \/ working[g] \in worded'
            \/ Received(working[g]) /\ ~Wallets!Covered(Charge(working[g]))
<1>. DEFINE Goal == /\ working'[g] = working[g] /\ working[g] \in Intents
                    /\ \/ pc[g] = "fail"
                       \/ working[g] \in worded'
                       \/ Received(working[g]) /\ ~Wallets!Covered(Charge(working[g]))
<1>1. pc[g] = "fail" /\ working'[g] = working[g] => Goal
  BY DEF IInv, WorkingNamed
<1>2. ASSUME NEW h \in Handlers, HandlerMoves(h), pc'[h] # "fail" PROVE Goal
  BY <1>1, <1>2 DEF HandlerMoves
<1>3. ASSUME NEW h \in Handlers, NEW i \in Intents, CreateIntent(h, i) \/ PollIntent(h, i)
      PROVE  Goal
  <2>1. \E step \in {"initialize", "store", "received", "verify", "succeed"} : Begin(h, i, step)
    BY <1>3 DEF CreateIntent, PollIntent
  <2>. QED
    BY <2>1, <1>2, BeginMoves DEF IInv, Steps
<1>4. ASSUME NEW h \in Handlers, NEW i \in Intents, NEW e \in EventIds, Webhook(h, i, e)
      PROVE  Goal
  BY <1>4, <1>2, BeginMoves DEF Webhook, IInv, Steps
<1>5. ASSUME NEW h \in Handlers,
             \/ InitializeSeerbit(h) \/ InitializePaystack(h) \/ StoreIntent(h) \/ LookUp(h)
             \/ CheckReceipt(h) \/ CreditReceipt(h) \/ CheckCharge(h)
             \/ MarkIntentSucceeded(h) \/ MarkIntentFailed(h) \/ Abandon(h)
      PROVE  Goal
  <2>1. \/ Finish(h)
        \/ \E step \in {"store", "succeed", "verify", "received", "charged", "credit", "debit"} :
             Goto(h, step) /\ UNCHANGED working
    BY <1>5
       DEF InitializeSeerbit, InitializePaystack, StoreIntent, LookUp, CheckReceipt,
           CreditReceipt,
           CheckCharge, MarkIntentSucceeded, MarkIntentFailed, Abandon
  <2>. QED
    BY <2>1, <1>2, FinishMoves, GotoMoves DEF IInv, Steps
<1>6. ASSUME NEW h \in Handlers, NEW a \in Answers, Verify(h, a) PROVE Goal
  <2>1. CASE VerifyStatus(a) = "failed"
    <3>1. HandlerMoves(h) /\ working'[h] = working[h] /\ working[h] \in Intents
      BY <1>6, <2>1, GotoMoves DEF Verify, IInv, Steps, WorkingNamed
    <3>2. working[h] \in worded'
      BY <1>6, <2>1, VerifySays
    <3>. QED
      BY <3>1, <3>2, <1>1 DEF HandlerMoves
  <2>2. CASE VerifyStatus(a) # "failed"
    <3>1. Finish(h) \/ (Goto(h, "received") /\ UNCHANGED working)
      BY <1>6, <2>2 DEF Verify
    <3>. QED
      BY <3>1, <1>2, FinishMoves, GotoMoves DEF IInv, Steps
  <2>. QED
    BY <2>1, <2>2
<1>7. ASSUME NEW h \in Handlers, DebitCharge(h) PROVE Goal
  <2>1. CASE ~Wallets!Covered(Charge(working[h])) /\ Goto(h, "fail") /\ UNCHANGED working
    <3>1. HandlerMoves(h) /\ working'[h] = working[h]
      BY <2>1, GotoMoves DEF IInv, Steps
    <3>2. working[h] \in Intents /\ Received(working[h])
      BY <1>7 DEF DebitCharge, IInv, WorkingNamed, ConfirmsInOrder
    <3>. QED
      BY <3>1, <3>2, <2>1, <1>1 DEF HandlerMoves
  <2>2. CASE Finish(h) \/ (Goto(h, "succeed") /\ UNCHANGED working)
    BY <2>2, <1>2, FinishMoves, GotoMoves DEF IInv, Steps
  <2>. QED
    BY <1>7, <2>1, <2>2 DEF DebitCharge
<1>8. ASSUME NEW i \in Intents, CompleteCheckout(i)
      PROVE  Goal
  BY <1>8, <1>1 DEF CompleteCheckout
<1>9. CASE UNCHANGED vars
  BY <1>9, <1>1 DEF vars
<1>. QED
  BY <1>3, <1>4, <1>5, <1>6, <1>7, <1>8, <1>9 DEF Next, Continue

\* An intent is failed by a handler at that statement and by nothing else.
LEMMA FailedByHandler ==
  ASSUME IInv, [Next]_vars, NEW i \in Intents, intent'[i] = "FAILED"
  PROVE  intent[i] = "FAILED" \/ \E h \in Handlers : pc[h] = "fail" /\ working[h] = i
<1>1. ASSUME NEW h \in Handlers, StoreIntent(h) \/ MarkIntentSucceeded(h) \/ MarkIntentFailed(h)
      PROVE  intent[i] = "FAILED" \/ \E g \in Handlers : pc[g] = "fail" /\ working[g] = i
  BY <1>1 DEF StoreIntent, MarkIntentSucceeded, MarkIntentFailed, IInv, TypeOK, WorkingNamed
<1>2. ASSUME NEW h \in Handlers,
             \/ \E j \in Intents : CreateIntent(h, j) \/ PollIntent(h, j)
             \/ \E j \in Intents, e \in EventIds : Webhook(h, j, e)
             \/ InitializeSeerbit(h) \/ InitializePaystack(h) \/ LookUp(h) \/ Asks(h)
             \/ CheckReceipt(h) \/ CreditReceipt(h) \/ CheckCharge(h) \/ DebitCharge(h)
             \/ Abandon(h)
      PROVE  UNCHANGED intent
  BY <1>2
     DEF CreateIntent, PollIntent, Webhook, InitializeSeerbit, InitializePaystack, LookUp, Asks,
         Verify,
         CheckReceipt, CreditReceipt, CheckCharge, DebitCharge, Abandon
<1>3. ASSUME NEW j \in Intents, CompleteCheckout(j)
      PROVE  UNCHANGED intent
  BY <1>3 DEF CompleteCheckout
<1>4. CASE UNCHANGED vars
  BY <1>4 DEF vars
<1>. QED
  BY <1>1, <1>2, <1>3, <1>4 DEF Next, Continue, Asks

LEMMA FailuresJustified == Spec => [](FailJustified /\ FailedIsWordedOrCharged)
<1>1. Init => FailJustified /\ FailedIsWordedOrCharged
  BY DEF Init, FailJustified, FailedIsWordedOrCharged
<1>2. IInv /\ WalletSums /\ FailJustified /\ FailedIsWordedOrCharged /\ [Next]_vars
        => FailJustified' /\ FailedIsWordedOrCharged'
  <2>. SUFFICES ASSUME IInv, WalletSums, FailJustified, FailedIsWordedOrCharged, [Next]_vars
                PROVE  FailJustified' /\ FailedIsWordedOrCharged'
    OBVIOUS
  <2>1. \A i \in Intents : i \in worded \/ Charged(i)
                             => i \in worded' \/ Charged(i)'
    BY HeardStays, LedgerGrowing, BookedStays DEF HeardGrows
  <2>2. ASSUME NEW g \in Handlers, pc'[g] = "fail"
        PROVE  (working[g] \in worded \/ Charged(working[g]))'
    <3>1. /\ working'[g] = working[g] /\ working[g] \in Intents
          /\ working[g] \in worded \/ working[g] \in worded' \/ Charged(working[g])
      BY <2>2, FailReached, ChargeRefused DEF FailJustified
    <3>2. PICK i \in Intents : i = working[g] /\ i = working'[g]
      BY <3>1
    <3>3. i \in worded' \/ Charged(i)'
      BY <2>1, <3>1, <3>2
    <3>. QED
      BY <3>2, <3>3 DEF Charged, Charge
  <2>3. FailJustified'
    BY <2>2 DEF FailJustified
  <2>4. FailedIsWordedOrCharged'
    BY <2>1, FailedByHandler DEF FailedIsWordedOrCharged, FailJustified
  <2>. QED
    BY <2>3, <2>4
<1>. QED
  BY <1>1, <1>2, InitWalletSums, StepWalletSums, Invariance, PTL DEF Spec

\* A customer who paid and was not charged is never told that the payment failed,
\* unless SeerBit's message had one of the words that mean so.
THEOREM FailuresAreWorded == Spec => []FailedIsWordedOrCharged
  BY FailuresJustified, PTL

-----------------------------------------------------------------------------
(* The refinement of Purchase *)

receivedBar == {i \in Intents : Received(i)}
chargedBar == {i \in Intents : Charged(i)}
paidBar == {i \in Intents : checkout[i] = "paid"} \cup oneCode
promised == <<intent, paidBar, worded, receivedBar, chargedBar, balance>>

\* A handler deals with an intent that is stored, but for the one that stores it.
Early == {"idle", "initialize", "store"}
StoredFirst == \A h \in Handlers : pc[h] \notin Early => intent[working[h]] # "NONE"

\* Steps that neither mark an intent nor touch the ledger or the checkout.
Quiet(h) ==
  \/ \E i \in Intents : CreateIntent(h, i) \/ PollIntent(h, i)
  \/ \E i \in Intents, e \in EventIds : Webhook(h, i, e)
  \/ InitializeSeerbit(h) \/ InitializePaystack(h) \/ LookUp(h) \/ Asks(h)
  \/ CheckReceipt(h) \/ CheckCharge(h) \/ Abandon(h)

LEMMA QuietChangesNothing ==
  ASSUME NEW h, Quiet(h)
  PROVE  UNCHANGED <<intent, checkout, ledger>> /\ (UNCHANGED heard \/ Asks(h))
  BY DEF Quiet, CreateIntent, PollIntent, Webhook, InitializeSeerbit, InitializePaystack, LookUp,
         Asks, Verify, CheckReceipt, CheckCharge, Abandon

LEMMA NextCases ==
  ASSUME [Next]_vars
  PROVE  \/ \E h \in Handlers :
              \/ Quiet(h) \/ StoreIntent(h) \/ CreditReceipt(h) \/ DebitCharge(h)
              \/ MarkIntentSucceeded(h) \/ MarkIntentFailed(h)
         \/ \E i \in Intents : CompleteCheckout(i)
         \/ UNCHANGED vars
  BY DEF Next, Continue, Asks, Quiet

\* Where a quiet step leads.
LEMMA QuietMoves ==
  ASSUME IInv, StoredFirst, NEW h \in Handlers, Quiet(h)
  PROVE  /\ HandlerMoves(h)
         /\ pc'[h] \notin Early => intent[working'[h]] # "NONE"
<1>1. ASSUME NEW step \in Steps \ {"idle"}, NEW i \in Intents, Begin(h, i, step),
             step \notin Early => intent[i] # "NONE"
      PROVE  /\ HandlerMoves(h)
             /\ pc'[h] \notin Early => intent[working'[h]] # "NONE"
  BY <1>1, BeginMoves DEF IInv
<1>2. CASE Finish(h)
  BY <1>2, FinishMoves DEF IInv, Early
<1>3. ASSUME NEW step \in Steps, Goto(h, step), UNCHANGED working,
             step \in Early \/ pc[h] \notin Early
      PROVE  /\ HandlerMoves(h)
             /\ pc'[h] \notin Early => intent[working'[h]] # "NONE"
  BY <1>3, GotoMoves DEF IInv, StoredFirst
<1>4. ASSUME NEW i \in Intents, CreateIntent(h, i) \/ PollIntent(h, i)
      PROVE  /\ HandlerMoves(h)
             /\ pc'[h] \notin Early => intent[working'[h]] # "NONE"
  <2>1. \/ \E step \in {"initialize", "store"} : Begin(h, i, step)
        \/ intent[i] # "NONE" /\ \E step \in {"received", "verify", "succeed"} : Begin(h, i, step)
    BY <1>4 DEF CreateIntent, PollIntent
  <2>. QED
    BY <2>1, <1>1 DEF Steps, Early
<1>5. ASSUME NEW i \in Intents, NEW e \in EventIds, Webhook(h, i, e)
      PROVE  /\ HandlerMoves(h)
             /\ pc'[h] \notin Early => intent[working'[h]] # "NONE"
  BY <1>5, <1>1 DEF Webhook, Steps
<1>6. CASE \/ InitializeSeerbit(h) \/ InitializePaystack(h) \/ LookUp(h) \/ Asks(h)
           \/ CheckReceipt(h) \/ CheckCharge(h) \/ Abandon(h)
  <2>1. \/ Finish(h)
        \/ Goto(h, "store") /\ UNCHANGED working
        \/ /\ pc[h] \in {"lookup", "verify", "received", "charged"} /\ UNCHANGED working
           /\ \E step \in {"verify", "received", "fail", "charged", "credit", "succeed", "debit"} :
                Goto(h, step)
    BY <1>6
       DEF InitializeSeerbit, InitializePaystack, LookUp, Asks, Verify, CheckReceipt,
           CheckCharge, Abandon
  <2>. QED
    BY <2>1, <1>2, <1>3 DEF Steps, Early
<1>. QED
  BY <1>4, <1>5, <1>6 DEF Quiet

LEMMA StepStored == IInv /\ StoredFirst /\ [Next]_vars => StoredFirst'
<1>. SUFFICES ASSUME IInv, StoredFirst, [Next]_vars PROVE StoredFirst'
  OBVIOUS
<1>1. ASSUME NEW h \in Handlers, HandlerMoves(h),
             \A i \in Intents : intent[i] # "NONE" => intent'[i] # "NONE",
             pc'[h] \notin Early => intent'[working'[h]] # "NONE"
      PROVE  StoredFirst'
  BY <1>1 DEF StoredFirst, HandlerMoves, IInv, WorkingNamed, Early
<1>2. ASSUME NEW h \in Handlers, Quiet(h) PROVE StoredFirst'
  BY <1>2, <1>1, QuietMoves, QuietChangesNothing
<1>3. ASSUME NEW h \in Handlers, StoreIntent(h) PROVE StoredFirst'
  <2>1. /\ working[h] \in Intents
        /\ intent' = [intent EXCEPT ![working[h]] = "PENDING"] \/ intent' = intent
        /\ Finish(h) \/ /\ Goto(h, "succeed") /\ UNCHANGED working
                        /\ intent' = [intent EXCEPT ![working[h]] = "PENDING"]
    BY <1>3 DEF StoreIntent, IInv, WorkingNamed
  <2>2. \A i \in Intents : intent[i] # "NONE" => intent'[i] # "NONE"
    BY <2>1 DEF IInv, TypeOK
  <2>3. HandlerMoves(h) /\ (pc'[h] \notin Early => intent'[working'[h]] # "NONE")
    <3>1. CASE Finish(h)
      BY <3>1, FinishMoves DEF IInv, Early
    <3>2. CASE ~Finish(h)
      BY <2>1, <3>2, GotoMoves DEF IInv, TypeOK, Steps
    <3>. QED
      BY <3>1, <3>2
  <2>. QED
    BY <1>1, <2>2, <2>3
<1>4. ASSUME NEW h \in Handlers, CreditReceipt(h) \/ DebitCharge(h) PROVE StoredFirst'
  <2>1. /\ intent' = intent /\ pc[h] \in {"credit", "debit"}
        /\ Finish(h) \/ (UNCHANGED working /\ \E step \in {"charged", "succeed", "fail"} : Goto(h, step))
    BY <1>4 DEF CreditReceipt, DebitCharge
  <2>2. HandlerMoves(h) /\ (pc'[h] \notin Early => intent'[working'[h]] # "NONE")
    <3>1. CASE Finish(h)
      BY <3>1, FinishMoves DEF IInv, Early
    <3>2. CASE ~Finish(h)
      BY <2>1, <3>2, GotoMoves DEF IInv, Steps, StoredFirst, Early
    <3>. QED
      BY <3>1, <3>2
  <2>. QED
    BY <1>1, <2>1, <2>2
<1>5. ASSUME NEW h \in Handlers, MarkIntentSucceeded(h) \/ MarkIntentFailed(h) PROVE StoredFirst'
  <2>1. /\ Finish(h) /\ working[h] \in Intents
        /\ \E s \in {"SUCCEEDED", "FAILED"} : intent' = [intent EXCEPT ![working[h]] = s]
    BY <1>5 DEF MarkIntentSucceeded, MarkIntentFailed, IInv, WorkingNamed
  <2>2. \A i \in Intents : intent[i] # "NONE" => intent'[i] # "NONE"
    BY <2>1 DEF IInv, TypeOK
  <2>. QED
    BY <1>1, <2>1, <2>2, FinishMoves DEF IInv, Early
<1>6. ASSUME NEW i \in Intents, CompleteCheckout(i)
      PROVE  StoredFirst'
  BY <1>6 DEF CompleteCheckout, StoredFirst
<1>7. CASE UNCHANGED vars
  BY <1>7 DEF vars, StoredFirst
<1>. QED
  BY <1>2, <1>3, <1>4, <1>5, <1>6, <1>7, NextCases

LEMMA SameLedgerSameBooks ==
  ASSUME UNCHANGED ledger
  PROVE  UNCHANGED <<receivedBar, chargedBar, balance>>
<1>1. \A i : Received(i)' = Received(i) /\ Charged(i)' = Charged(i)
  BY DEF ledger, Received, Charged, Receipt, Charge, Wallets!TransactionExists
<1>. QED
  BY <1>1 DEF ledger, receivedBar, chargedBar

\* What one entry of the ledger does to the marks that the refinement reads.
LEMMA ReceiptMarks ==
  ASSUME NEW i \in Intents, entries' = entries \cup {Receipt(i)}
  PROVE  receivedBar' = receivedBar \cup {i} /\ chargedBar' = chargedBar
<1>1. ASSUME NEW j \in Intents
      PROVE  (Received(j)' <=> Received(j) \/ j = i) /\ (Charged(j)' <=> Charged(j))
  <2>1. \A ref : (\E x \in entries' : x.reference = ref)
                  <=> (\E x \in entries : x.reference = ref) \/ ref = Receipt(i).reference
    OBVIOUS
  <2>2. Received(j)' <=> Received(j) \/ j = i
    BY <2>1 DEF Received, Receipt, Charge, Wallets!TransactionExists
  <2>3. Charged(j)' <=> Charged(j)
    BY <2>1 DEF Charged, Receipt, Charge, Wallets!TransactionExists
  <2>. QED
    BY <2>2, <2>3
<1>. QED
  BY <1>1 DEF receivedBar, chargedBar

LEMMA ChargeMarks ==
  ASSUME NEW i \in Intents, entries' = entries \cup {Charge(i)}
  PROVE  receivedBar' = receivedBar /\ chargedBar' = chargedBar \cup {i}
<1>1. ASSUME NEW j \in Intents
      PROVE  (Received(j)' <=> Received(j)) /\ (Charged(j)' <=> Charged(j) \/ j = i)
  <2>1. \A ref : (\E x \in entries' : x.reference = ref)
                  <=> (\E x \in entries : x.reference = ref) \/ ref = Charge(i).reference
    OBVIOUS
  <2>2. Received(j)' <=> Received(j)
    BY <2>1 DEF Received, Receipt, Charge, Wallets!TransactionExists
  <2>3. Charged(j)' <=> Charged(j) \/ j = i
    BY <2>1 DEF Charged, Receipt, Charge, Wallets!TransactionExists
  <2>. QED
    BY <2>2, <2>3
<1>. QED
  BY <1>1 DEF receivedBar, chargedBar

LEMMA ReceiptIsReceived ==
  ASSUME IInv, StoredFirst, NEW h \in Handlers, CreditReceipt(h)
  PROVE  [Promise!Next]_promised
<1>. DEFINE i == working[h]
<1>1. /\ i \in Intents /\ intent[i] # "NONE" /\ UNCHANGED <<intent, checkout, heard>>
      /\ GatewayOf[i] \in Live => Reported(i)
  BY DEF CreditReceipt, IInv, WorkingNamed, StoredFirst, Early, ConfirmsReported, Confirming
<1>2. CASE UNCHANGED ledger
  BY <1>1, <1>2, SameLedgerSameBooks DEF promised, paidBar, heard
<1>3. CASE Wallets!Apply(Receipt(i))
  <2>1. ~Received(i) /\ entries' = entries \cup {Receipt(i)}
    BY <1>3 DEF Wallets!Apply, Received
  <2>2. i \notin receivedBar
    BY <2>1 DEF receivedBar
  <2>3. receivedBar' = receivedBar \cup {i} /\ chargedBar' = chargedBar
    BY <1>1, <2>1, ReceiptMarks
  <2>4. balance' = [balance EXCEPT ![CustomerOf[i]] = @ + AmountOf[i]]
    BY <1>3 DEF Wallets!Apply, Wallets!Change, Receipt
  <2>. HIDE DEF i
  <2>5. Promise!Receive(i)
    BY <1>1, <2>2, <2>3, <2>4
       DEF Reported, Promise!Receive, Promise!reports, paidBar, heard, Promise!Book, receivedBar,
           chargedBar
  <2>. QED
    BY <1>1, <2>5 DEF Promise!Next
<1>. QED
  BY <1>2, <1>3 DEF CreditReceipt

LEMMA ChargeIsCharged ==
  ASSUME IInv, NEW h \in Handlers, DebitCharge(h)
  PROVE  [Promise!Next]_promised
<1>. DEFINE i == working[h]
<1>1. i \in Intents /\ Received(i) /\ UNCHANGED <<intent, checkout, heard>>
  BY DEF DebitCharge, IInv, WorkingNamed, ConfirmsInOrder
<1>2. CASE UNCHANGED ledger
  BY <1>1, <1>2, SameLedgerSameBooks DEF promised, paidBar, heard
<1>3. CASE Wallets!Apply(Charge(i))
  <2>1. ~Charged(i) /\ entries' = entries \cup {Charge(i)}
    BY <1>3 DEF Wallets!Apply, Charged
  <2>2. i \in receivedBar \ chargedBar
    BY <1>1, <2>1 DEF receivedBar, chargedBar
  <2>3. receivedBar' = receivedBar /\ chargedBar' = chargedBar \cup {i}
    BY <1>1, <2>1, ChargeMarks
  <2>4. balance' = [balance EXCEPT ![CustomerOf[i]] = @ + (-AmountOf[i])]
    BY <1>3 DEF Wallets!Apply, Wallets!Change, Charge
  <2>. HIDE DEF i
  <2>5. Promise!Charge(i)
    BY <1>1, <2>2, <2>3, <2>4
       DEF Promise!Charge, Promise!reports, paidBar, heard, Promise!Book, receivedBar, chargedBar
  <2>. QED
    BY <1>1, <2>5 DEF Promise!Next
<1>. QED
  BY <1>2, <1>3 DEF DebitCharge

LEMMA MarksAreResults ==
  ASSUME IInv, StoredFirst, FailJustified, NEW h \in Handlers,
         MarkIntentSucceeded(h) \/ MarkIntentFailed(h)
  PROVE  [Promise!Next]_promised
<1>. DEFINE i == working[h]
<1>1. i \in Intents /\ intent[i] # "NONE" /\ UNCHANGED <<checkout, heard, receivedBar, chargedBar, balance>>
  BY SameLedgerSameBooks
     DEF MarkIntentSucceeded, MarkIntentFailed, IInv, WorkingNamed, StoredFirst, Early, ledger
<1>2. CASE MarkIntentSucceeded(h)
  <2>1. intent' = [intent EXCEPT ![i] = "SUCCEEDED"] /\ (GatewayOf[i] \in Live => i \in chargedBar)
    BY <1>1, <1>2 DEF MarkIntentSucceeded, IInv, ConfirmsInOrder, chargedBar
  <2>. HIDE DEF i
  <2>2. Promise!Succeed(i)
    BY <1>1, <2>1
       DEF Promise!Succeed, Promise!reports, paidBar, heard, Promise!account, receivedBar,
           chargedBar
  <2>. QED
    BY <1>1, <2>2 DEF Promise!Next
<1>3. CASE MarkIntentFailed(h)
  <2>1. intent' = [intent EXCEPT ![i] = "FAILED"] /\ (i \in worded \/ i \in chargedBar)
    BY <1>1, <1>3 DEF MarkIntentFailed, FailJustified, chargedBar
  <2>. HIDE DEF i
  <2>2. Promise!Fail(i)
    BY <1>1, <2>1
       DEF Promise!Fail, Promise!reports, paidBar, heard, Promise!account, receivedBar, chargedBar
  <2>. QED
    BY <1>1, <2>2 DEF Promise!Next
<1>. QED
  BY <1>2, <1>3

LEMMA StoreIsOpen ==
  ASSUME IInv, NEW h \in Handlers, StoreIntent(h)
  PROVE  [Promise!Next]_promised
<1>. DEFINE i == working[h]
<1>1. i \in Intents /\ UNCHANGED <<worded, oneCode, receivedBar, chargedBar, balance>>
  BY SameLedgerSameBooks DEF StoreIntent, IInv, WorkingNamed, ledger, heard
<1>2. CASE intent[i] = "NONE"
  <2>1. /\ intent' = [intent EXCEPT ![i] = "PENDING"]
        /\ checkout' \in {checkout, [checkout EXCEPT ![i] = "open"]}
        /\ checkout[i] = "none"
    BY <1>1, <1>2 DEF StoreIntent, IInv, CheckoutStored
  <2>2. \A j \in Intents : checkout'[j] = "paid" <=> checkout[j] = "paid"
    BY <1>1, <2>1 DEF IInv, TypeOK
  <2>3. paidBar' = paidBar
    BY <1>1, <2>2 DEF paidBar
  <2>. HIDE DEF i
  <2>4. Promise!Open(i)
    BY <1>1, <1>2, <2>1, <2>3
       DEF Promise!Open, Promise!reports, Promise!account, receivedBar, chargedBar, paidBar
  <2>. QED
    BY <1>1, <2>4 DEF Promise!Next
<1>3. CASE intent[i] # "NONE"
  BY <1>1, <1>3 DEF StoreIntent, promised, paidBar
<1>. QED
  BY <1>2, <1>3

\* What SeerBit answers, and a checkout that is completed, is a report.
LEMMA AnswersAreReports ==
  ASSUME IInv, StoredFirst, NEW h \in Handlers, Asks(h)
  PROVE  [Promise!Next]_promised
<1>1. PICK a \in Answers : Verify(h, a)
  BY DEF Asks
<1>2. PICK i \in Intents : i = working[h]
  BY <1>1 DEF Verify, IInv, WorkingNamed
<1>3. /\ intent[i] # "NONE"
      /\ UNCHANGED <<intent, checkout, receivedBar, chargedBar, balance>>
  BY <1>2, <1>1, SameLedgerSameBooks DEF Verify, IInv, WorkingNamed, StoredFirst, Early, ledger
<1>4. /\ oneCode' \in {oneCode, oneCode \cup {i}}
      /\ worded' \in {worded, worded \cup {i}}
  BY <1>2, <1>1 DEF Verify
<1>5. paidBar' \in {paidBar, paidBar \cup {i}}
  BY <1>3, <1>4 DEF paidBar
<1>6. Promise!Report(i)
  BY <1>3, <1>4, <1>5
     DEF Promise!Report, Promise!account, receivedBar, chargedBar, paidBar
<1>. QED
  BY <1>6 DEF Promise!Next

LEMMA CheckoutIsReport ==
  ASSUME IInv, NEW i \in Intents, CompleteCheckout(i)
  PROVE  [Promise!Next]_promised
<1>1. /\ intent[i] # "NONE" /\ checkout' = [checkout EXCEPT ![i] = "paid"]
      /\ UNCHANGED <<intent, worded, oneCode, receivedBar, chargedBar, balance>>
  BY SameLedgerSameBooks DEF CompleteCheckout, IInv, CheckoutStored, ledger, heard
<1>2. paidBar' = paidBar \cup {i}
  BY <1>1 DEF paidBar, IInv, TypeOK
<1>3. Promise!Report(i)
  BY <1>1, <1>2 DEF Promise!Report, Promise!account, receivedBar, chargedBar, paidBar
<1>. QED
  BY <1>3 DEF Promise!Next

LEMMA StepPurchase ==
  IInv /\ StoredFirst /\ FailJustified /\ [Next]_vars => [Promise!Next]_promised
<1>. SUFFICES ASSUME IInv, StoredFirst, FailJustified, [Next]_vars
              PROVE  [Promise!Next]_promised
  OBVIOUS
<1>1. ASSUME NEW h \in Handlers, Quiet(h), UNCHANGED heard PROVE [Promise!Next]_promised
  BY <1>1, QuietChangesNothing, SameLedgerSameBooks DEF promised, paidBar, heard
<1>2. CASE UNCHANGED vars
  BY <1>2, SameLedgerSameBooks DEF vars, promised, paidBar, heard
<1>. QED
  BY <1>1, <1>2, NextCases, QuietChangesNothing, StoreIsOpen, ReceiptIsReceived, ChargeIsCharged,
     MarksAreResults, AnswersAreReports, CheckoutIsReport

\* Confirmations by polls, webhooks and retries, interleaved and interrupted at
\* will, do no more to an intent, its ledger entries and the wallet than one
\* payment does: opened, received once it is reported paid, charged, reported on
\* (payments/service.go:197-233), for any number of customers and gateways.
THEOREM PaymentsArePurchases == Spec => ImplementsPurchase
<1>1. Init => Promise!Init
  <2>. SUFFICES ASSUME Init PROVE Promise!Init
    OBVIOUS
  <2>1. \A i : ~Received(i) /\ ~Charged(i)
    BY DEF Init, Wallets!Init, Received, Charged, Wallets!TransactionExists
  <2>. QED
    BY <2>1 DEF Init, Wallets!Init, Promise!Init
<1>2. Init => StoredFirst
  BY DEF Init, StoredFirst, Early
<1>3. Promise!Init /\ [][Promise!Next]_promised => Promise!Spec
  BY DEF Promise!Spec, Promise!purchases, Promise!reports, Promise!account, promised, paidBar,
         receivedBar, chargedBar
<1>. QED
  BY <1>1, <1>2, <1>3, StepStored, StepPurchase, Invariance, FailuresJustified, PTL
     DEF Spec, ImplementsPurchase
=============================================================================
