------------------------------ MODULE Purchase ------------------------------
(***************************************************************************)
(* What a payment promises: the gateway's receipt is recorded once and not *)
(* before the gateway reported the money, "so the wallet has the funds to  *)
(* be debited" (payments/service.go:198); what was received is charged     *)
(* once; and a payment at a gateway ends well only after both.  Payments   *)
(* is the program that keeps this promise.                                 *)
(***************************************************************************)
EXTENDS Integers

CONSTANTS
  Users, Intents, CustomerOf, AmountOf,
  Hosted       \* the intents that are paid at a gateway

VARIABLES
  status,      \* of an intent, "NONE" before it is made
  paid,        \* intents whose gateway reported the money, in one code at least
  refused,     \* intents whose gateway gave a message with a word of failure
  received,    \* intents whose money was credited to the wallet
  charged,     \* intents that were paid from the wallet
  wallet

reports == <<paid, refused>>
account == <<received, charged, wallet>>
purchases == <<status, reports, account>>

Init ==
  /\ status = [i \in Intents |-> "NONE"]
  /\ paid = {} /\ refused = {}
  /\ received = {} /\ charged = {}
  /\ wallet = [u \in Users |-> 0]

Open(i) ==
  /\ status[i] = "NONE"
  /\ status' = [status EXCEPT ![i] = "PENDING"]
  /\ UNCHANGED <<reports, account>>

\* What the gateway says of an intent it was told about.
Report(i) ==
  /\ status[i] # "NONE"
  /\ paid' \in {paid, paid \cup {i}}
  /\ refused' \in {refused, refused \cup {i}}
  /\ UNCHANGED <<status, account>>

Book(i, amount) == wallet' = [wallet EXCEPT ![CustomerOf[i]] = @ + amount]

Receive(i) ==
  /\ status[i] # "NONE" /\ i \notin received
  /\ i \in Hosted => i \in paid
  /\ received' = received \cup {i}
  /\ Book(i, AmountOf[i])
  /\ UNCHANGED <<status, reports, charged>>

Charge(i) ==
  /\ i \in received \ charged
  /\ charged' = charged \cup {i}
  /\ Book(i, -AmountOf[i])
  /\ UNCHANGED <<status, reports, received>>

Succeed(i) ==
  /\ status[i] # "NONE"
  /\ i \in Hosted => i \in charged
  /\ status' = [status EXCEPT ![i] = "SUCCEEDED"]
  /\ UNCHANGED <<reports, account>>

\* A payment fails on a word of failure.  Beside a confirmation that did its
\* work, a slower one may take its intent for failed.
Fail(i) ==
  /\ status[i] # "NONE"
  /\ i \in refused \/ i \in charged
  /\ status' = [status EXCEPT ![i] = "FAILED"]
  /\ UNCHANGED <<reports, account>>

Next ==
  \E i \in Intents :
    Open(i) \/ Report(i) \/ Receive(i) \/ Charge(i) \/ Succeed(i) \/ Fail(i)

Spec == Init /\ [][Next]_purchases
=============================================================================
