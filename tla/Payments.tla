------------------------------ MODULE Payments ------------------------------
(***************************************************************************)
(* Payment intents: internal/payments (service.go, store.go, handler.go),  *)
(* with the gateway's side of a payment as its environment.                *)
(*                                                                         *)
(* A handler is a sequence of statements, each atomic; Credit and Debit    *)
(* are single steps by LedgerTx.  Handlers interleave, stop anywhere, and  *)
(* are started by customers who create and poll an intent and by webhooks  *)
(* that come late, twice or never.  There is one intent per booking and    *)
(* amount type (uq_payment_intent_booking_type), so that pair is its name  *)
(* here; what it costs, and its gateway, never change once it exists.      *)
(* A wallet here is one of a customer who earns nothing.                   *)
(***************************************************************************)
EXTENDS Integers, Sums

CONSTANTS
  Users,       \* customers, who own the wallets
  Intents,     \* pairs of a booking and an amount type
  CustomerOf,  \* payment_intents.customer_id
  AmountOf,    \* payment_intents.amount
  GatewayOf,   \* payment_intents.gateway
  Handlers,    \* requests served at the same time
  EventIds,    \* event ids a gateway may put on its webhooks for one intent
  None

Live == {"seerbit", "paystack"}

ASSUME IntentsAssumption ==
  /\ CustomerOf \in [Intents -> Users]
  /\ AmountOf \in [Intents -> Nat \ {0}]
  /\ GatewayOf \in [Intents -> Live \cup {"mock", "seerbit_test"}]
ASSUME NoneAssumption == None \notin Intents

VARIABLES
  intent,      \* payment_intents.status, "NONE" while there is no row
  checkout,    \* external: the gateway's state of the payment
  recorded,    \* payment_events: the pairs of intent and event id
  balance,     \* wallets.balance
  entries,     \* wallet_transactions
  pc,          \* the next statement of each handler
  working,     \* the intent each handler is about
  \* History variables: no guard reads them.
  oneCode,     \* intents SeerBit answered "00" about, in one code only
  worded       \* intents SeerBit gave a message about with a word of failure

ledger == <<balance, entries>>
heard == <<oneCode, worded>>
vars == <<intent, checkout, recorded, ledger, pc, working, heard>>

Amounts == {AmountOf[i] : i \in Intents}
References == {"receipt", "ledger"} \X Intents

Wallets == INSTANCE Ledger

Statuses == {"PENDING", "SUCCEEDED", "FAILED"}
Steps == {"idle", "initialize", "store", "lookup", "verify", "received", "credit", "charged",
          "debit", "succeed", "fail"}

-----------------------------------------------------------------------------
\* Variants of the definitions below that a slip in the code would give; the
\* runs show that the properties tell them from the code.
ChargesRest(i) == [user |-> CustomerOf[i], type |-> "DEBIT",
                   amount |-> AmountOf[i] - balance[CustomerOf[i]],
                   reference |-> <<"ledger", i>>]
CodeAlone(a) == IF a.code = "00" THEN "succeeded" ELSE IF a.words THEN "failed" ELSE "pending"
PendingFails(a) == IF {a.code, a.gatewayCode} \subseteq {"00"} THEN "succeeded" ELSE "failed"

-----------------------------------------------------------------------------
\* What confirmPayment books: the money that came in, and the payment made
\* with it.
Receipt(i) == [user |-> CustomerOf[i], type |-> "CREDIT", amount |-> AmountOf[i],
               reference |-> <<"receipt", i>>]
Charge(i) == [user |-> CustomerOf[i], type |-> "DEBIT", amount |-> AmountOf[i],
              reference |-> <<"ledger", i>>]

Received(i) == Wallets!TransactionExists(Receipt(i).reference)
Charged(i) == Wallets!TransactionExists(Charge(i).reference)

Goto(h, step) == pc' = [pc EXCEPT ![h] = step]
Finish(h) == Goto(h, "idle") /\ working' = [working EXCEPT ![h] = None]
Begin(h, i, step) == Goto(h, step) /\ working' = [working EXCEPT ![h] = i]

-----------------------------------------------------------------------------
\* What verifyStatus reads of SeerBit's answer: the response code, the code of
\* extractGatewayStatus, and whether the message has one of six words: declined,
\* failed, cancelled, expired, insufficient, error.
Answers == [code : {"", "00", "other"}, gatewayCode : {"", "00", "other"}, words : BOOLEAN]

\* External: SeerBit may say anything of a payment, but it says "00" in both
\* codes only when it has the money.
MayAnswer(i, a) == a.code = "00" /\ a.gatewayCode = "00" => checkout[i] = "paid"

\* verifyStatus: the gateway code stands in for a missing response code, and a
\* missing gateway code does not stop a "00".
VerifyStatus(a) ==
  LET code == IF a.code = "" THEN a.gatewayCode ELSE a.code IN
  IF code = "00" /\ a.gatewayCode \in {"", "00"} THEN "succeeded"
  ELSE IF a.words THEN "failed" ELSE "pending"

Init ==
  /\ intent = [i \in Intents |-> "NONE"]
  /\ checkout = [i \in Intents |-> "none"]
  /\ recorded = {}
  /\ Wallets!Init
  /\ pc = [h \in Handlers |-> "idle"]
  /\ working = [h \in Handlers |-> None]
  /\ oneCode = {}
  /\ worded = {}

-----------------------------------------------------------------------------
(* Where a handler starts. *)

\* CreateIntent up to its last read: there is no intent yet, or one of the mock
\* gateway that was left unpaid.  Any other intent is returned as it is, a
\* FAILED one too, which is no step.
CreateIntent(h, i) ==
  /\ pc[h] = "idle"
  /\ \/ /\ intent[i] = "NONE"
        /\ Begin(h, i, IF GatewayOf[i] \in Live THEN "initialize" ELSE "store")
     \/ /\ intent[i] \in {"PENDING", "FAILED"}
        /\ GatewayOf[i] = "mock"
        /\ Begin(h, i, "received")
  /\ UNCHANGED <<intent, checkout, recorded, ledger, heard>>

\* GetIntent: the customer's app polls a pending intent.
PollIntent(h, i) ==
  /\ pc[h] = "idle"
  /\ intent[i] = "PENDING"
  /\ \/ GatewayOf[i] = "seerbit" /\ Begin(h, i, "verify")
     \/ GatewayOf[i] = "seerbit_test" /\ Begin(h, i, "succeed")
  /\ UNCHANGED <<intent, checkout, recorded, ledger, heard>>

\* The signature of a webhook that says "success": Paystack signs what happened,
\* SeerBit signs nothing, so its webhook may come at any time.
VerifyWebhookSignature(i) ==
  GatewayOf[i] = "seerbit" \/ (GatewayOf[i] = "paystack" /\ checkout[i] = "paid")

\* INSERT IGNORE: an event is new once.
RecordEvent(i, e) ==
  /\ <<i, e>> \notin recorded
  /\ recorded' = recorded \cup {<<i, e>>}

\* A webhook that says "success" arrives and its event is new; a duplicate is
\* answered and changes nothing.
Webhook(h, i, e) ==
  /\ pc[h] = "idle"
  /\ intent[i] # "NONE"
  /\ VerifyWebhookSignature(i)
  /\ RecordEvent(i, e)
  /\ Begin(h, i, "lookup")
  /\ UNCHANGED <<intent, checkout, ledger, heard>>

-----------------------------------------------------------------------------
(* The statements of the handlers. *)

\* The checkout is opened at the gateway, under a reference of its own; what
\* fails here leaves no row.
InitializeSeerbit(h) ==
  /\ pc[h] = "initialize" /\ GatewayOf[working[h]] = "seerbit"
  /\ Goto(h, "store")
  /\ UNCHANGED <<intent, checkout, recorded, ledger, working, heard>>

InitializePaystack(h) ==
  /\ pc[h] = "initialize" /\ GatewayOf[working[h]] = "paystack"
  /\ Goto(h, "store")
  /\ UNCHANGED <<intent, checkout, recorded, ledger, working, heard>>

\* store.CreateIntent, after the checkout was opened at the gateway.  A second
\* INSERT for the pair fails; the checkout it opened is shown to nobody.
StoreIntent(h) ==
  LET i == working[h] IN
  /\ pc[h] = "store"
  /\ IF intent[i] = "NONE"
     THEN /\ intent' = [intent EXCEPT ![i] = "PENDING"]
          /\ IF GatewayOf[i] \in Live
             THEN checkout' = [checkout EXCEPT ![i] = "open"] /\ Finish(h)
             ELSE Goto(h, "succeed") /\ UNCHANGED <<checkout, working>>
     ELSE Finish(h) /\ UNCHANGED <<intent, checkout>>
  /\ UNCHANGED <<recorded, ledger, heard>>

\* ConfirmByReference: only a PENDING intent is confirmed.
LookUp(h) ==
  LET i == working[h] IN
  /\ pc[h] = "lookup"
  /\ IF intent[i] # "PENDING"
     THEN Finish(h)
     ELSE /\ Goto(h, IF GatewayOf[i] = "seerbit" THEN "verify" ELSE "received")
          /\ UNCHANGED working
  /\ UNCHANGED <<intent, checkout, recorded, ledger, heard>>

\* refreshSeerbitIntent: a success confirms, a failure fails, anything else
\* leaves the intent pending.
Verify(h, a) ==
  LET i == working[h]
      said == VerifyStatus(a)
  IN
  /\ pc[h] = "verify"
  /\ MayAnswer(i, a)
  /\ CASE said = "succeeded" -> Goto(h, "received") /\ UNCHANGED working
       [] said = "failed" -> Goto(h, "fail") /\ UNCHANGED working
       [] OTHER -> Finish(h)
  /\ oneCode' = IF {a.code, a.gatewayCode} = {"00", ""} THEN oneCode \cup {i} ELSE oneCode
  /\ worded' = IF a.words THEN worded \cup {i} ELSE worded
  /\ UNCHANGED <<intent, checkout, recorded, ledger>>

\* Variant of CheckReceipt: an interrupted confirmation is taken for a finished one.
ReceiptMeansDone(h) ==
  /\ pc[h] = "received"
  /\ Goto(h, IF Received(working[h]) THEN "succeed" ELSE "credit")
  /\ UNCHANGED <<intent, checkout, recorded, ledger, working, heard>>

\* Variant of CheckReceipt: whoever finds the receipt leaves the rest to its author.
ReceiptEndsIt(h) ==
  /\ pc[h] = "received"
  /\ IF Received(working[h]) THEN Finish(h) ELSE Goto(h, "credit") /\ UNCHANGED working
  /\ UNCHANGED <<intent, checkout, recorded, ledger, heard>>

\* confirmPayment: was the receipt booked before?
CheckReceipt(h) ==
  /\ pc[h] = "received"
  /\ Goto(h, IF Received(working[h]) THEN "charged" ELSE "credit")
  /\ UNCHANGED <<intent, checkout, recorded, ledger, working, heard>>

\* Credit the receipt; if another handler booked it meanwhile, the reference is
\* refused and confirmPayment gives up.
CreditReceipt(h) ==
  LET e == Receipt(working[h]) IN
  /\ pc[h] = "credit"
  /\ \/ Wallets!Apply(e) /\ Goto(h, "charged") /\ UNCHANGED working
     \/ Wallets!TransactionExists(e.reference) /\ Finish(h) /\ UNCHANGED ledger
  /\ UNCHANGED <<intent, checkout, recorded, heard>>

\* confirmPayment: was the charge booked before?
CheckCharge(h) ==
  /\ pc[h] = "charged"
  /\ Goto(h, IF Charged(working[h]) THEN "succeed" ELSE "debit")
  /\ UNCHANGED <<intent, checkout, recorded, ledger, working, heard>>

\* Debit the payment.  The balance is looked at before the reference is.
DebitCharge(h) ==
  LET e == Charge(working[h]) IN
  /\ pc[h] = "debit"
  /\ \/ Wallets!Apply(e) /\ Goto(h, "succeed") /\ UNCHANGED working
     \/ ~Wallets!Covered(e) /\ Goto(h, "fail") /\ UNCHANGED <<ledger, working>>
     \/ /\ Wallets!Covered(e) /\ Wallets!TransactionExists(e.reference)
        /\ Finish(h)
        /\ UNCHANGED ledger
  /\ UNCHANGED <<intent, checkout, recorded, heard>>

\* MarkIntentSucceeded
MarkIntentSucceeded(h) ==
  /\ pc[h] = "succeed"
  /\ intent' = [intent EXCEPT ![working[h]] = "SUCCEEDED"]
  /\ Finish(h)
  /\ UNCHANGED <<checkout, recorded, ledger, heard>>

\* MarkIntentFailed, whatever the status is by now.
MarkIntentFailed(h) ==
  /\ pc[h] = "fail"
  /\ intent' = [intent EXCEPT ![working[h]] = "FAILED"]
  /\ Finish(h)
  /\ UNCHANGED <<checkout, recorded, ledger, heard>>

\* A statement or a call to the gateway fails, the client goes away or the
\* process dies.
Abandon(h) ==
  /\ pc[h] # "idle"
  /\ Finish(h)
  /\ UNCHANGED <<intent, checkout, recorded, ledger, heard>>

\* External: the customer completes the hosted checkout.
CompleteCheckout(i) ==
  /\ checkout[i] = "open"
  /\ checkout' = [checkout EXCEPT ![i] = "paid"]
  /\ UNCHANGED <<intent, recorded, ledger, pc, working, heard>>

Continue(h) ==
  \/ InitializeSeerbit(h) \/ InitializePaystack(h) \/ StoreIntent(h) \/ LookUp(h)
  \/ \E a \in Answers : Verify(h, a)
  \/ CheckReceipt(h) \/ CreditReceipt(h) \/ CheckCharge(h) \/ DebitCharge(h)
  \/ MarkIntentSucceeded(h) \/ MarkIntentFailed(h)

Next ==
  \/ \E h \in Handlers :
       \/ \E i \in Intents : CreateIntent(h, i) \/ PollIntent(h, i)
       \/ \E i \in Intents, e \in EventIds : Webhook(h, i, e)
       \/ Continue(h)
       \/ Abandon(h)
  \/ \E i \in Intents : CompleteCheckout(i)

Spec == Init /\ [][Next]_vars

\* SeerBit says of a payment it has that it has it.
VerifyPaid(h) ==
  \E a \in Answers : a.code = "00" /\ a.gatewayCode = "00" /\ Verify(h, a)

\* A handler goes on or ends; the app goes on polling a pending intent
\* (service.go:244-248), no statement about an intent fails every time it is
\* tried, and SeerBit, asked again and again about a payment it has, says so in
\* the end.  No webhook need arrive.
Fairness ==
  /\ \A h \in Handlers : WF_vars(Continue(h))
  /\ \A i \in Intents :
       LET Some(Act(_)) == \E h \in Handlers : working[h] = i /\ Act(h) IN
       /\ SF_vars(\E h \in Handlers : PollIntent(h, i))
       /\ SF_vars(Some(VerifyPaid))
       /\ SF_vars(Some(CheckReceipt))
       /\ SF_vars(Some(CreditReceipt))
       /\ SF_vars(Some(CheckCharge))
       /\ SF_vars(Some(DebitCharge))
       /\ SF_vars(Some(MarkIntentSucceeded))

FairSpec == Spec /\ Fairness

-----------------------------------------------------------------------------
(* Properties *)

\* Every variable keeps its type.
TypeOK ==
  /\ intent \in [Intents -> Statuses \cup {"NONE"}]
  /\ checkout \in [Intents -> {"none", "open", "paid"}]
  /\ recorded \subseteq Intents \X EventIds
  /\ balance \in [Users -> Int]
  /\ entries \subseteq Wallets!Entry
  /\ pc \in [Handlers -> Steps]
  /\ working \in [Handlers -> Intents \cup {None}]
  /\ oneCode \subseteq Intents
  /\ worded \subseteq Intents

\* "SeerBit webhooks are not signed, so trust is established by verifying the
\* transaction status against the gateway before crediting anything"
\* (service.go:380-381): what was credited the gateway has, or SeerBit answered
\* "00" about it, if only in one of its two codes; an unsigned webhook that comes
\* before the payment credits nothing.
ReceivedIsReported ==
  \A i \in Intents :
    GatewayOf[i] \in Live /\ Received(i) => checkout[i] = "paid" \/ i \in oneCode

\* A live intent that says SUCCEEDED has its receipt and its charge in the
\* ledger, whichever of two confirmations, or the retry of a broken one, set it.
SucceededIsCharged ==
  \A i \in Intents :
    GatewayOf[i] \in Live /\ intent[i] = "SUCCEEDED" => Received(i) /\ Charged(i)

\* What a customer has paid in and not yet been charged for.
Uncharged(c) == {i \in Intents : CustomerOf[i] = c /\ Received(i) /\ ~Charged(i)}

\* A customer's wallet holds exactly the receipts that were not charged yet: no
\* confirmation pays with the money of another intent, none books twice.
WalletHoldsUncharged == \A c \in Users : balance[c] = Total(AmountOf, Uncharged(c))

\* An intent fails only when SeerBit's message had a word of failure, or when it
\* was charged already by another confirmation: the debit of money that came in
\* is never refused, whatever else the wallet pays for.
FailedIsWordedOrCharged ==
  \A i \in Intents : intent[i] = "FAILED" => i \in worded \/ Charged(i)

Promise == INSTANCE Purchase WITH
  Hosted <- {i \in Intents : GatewayOf[i] \in Live},
  status <- intent, wallet <- balance,
  paid <- {i \in Intents : checkout[i] = "paid"} \cup oneCode, refused <- worded,
  received <- {i \in Intents : Received(i)}, charged <- {i \in Intents : Charged(i)}

\* However confirmations interleave, break off and come again, together they
\* receive each payment once, charge it once and then say so; of the wallet they
\* change what these two steps change and nothing else.
ImplementsPurchase == Promise!Spec

\* A SeerBit intent that was paid is charged and closed in the end "even if the
\* webhook is late or lost" (service.go:247-248), though two confirmations get in
\* each other's way and both break off, unless SeerBit's message had a word of
\* failure: the polls retry what was interrupted.
PaidIsSettled ==
  \A i \in Intents :
    GatewayOf[i] = "seerbit" /\ checkout[i] = "paid"
      ~> intent[i] \in {"SUCCEEDED", "FAILED"} /\ (Charged(i) \/ i \in worded)

=============================================================================
