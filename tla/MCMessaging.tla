----------------------------- MODULE MCMessaging -----------------------------
(***************************************************************************)
(* Instances of Messaging for TLC: a customer with two devices; the        *)
(* professional, who has none connected, sends one of the messages.        *)
(***************************************************************************)
EXTENDS Messaging

CONSTANTS customer, pro, phone, tablet, m1, m2

Owner == [c \in Connections |-> customer]
Sender == [m \in Messages |-> IF m = m1 THEN customer ELSE pro]
Recipient == [m \in Messages |-> IF m = m1 THEN pro ELSE customer]
=============================================================================
