----------------------------- MODULE OrderStates -----------------------------
(***************************************************************************)
(* The two transition tables of app/core/state_machine.py and the status   *)
(* enumerations of app/models/order.py and app/models/payment.py.          *)
(* Constant-level: every other module of the project reads them.           *)
(***************************************************************************)

\* ORDER_TRANSITIONS, state by state.
OrderTransitions ==
    [ pending    |-> {"in_process", "cancelled", "refunded"},
      in_process |-> {"ready", "cancelled", "refunded"},
      ready      |-> {"delivered", "picked_up", "completed", "cancelled", "refunded"},
      delivered  |-> {"completed"},
      picked_up  |-> {"completed"},
      completed  |-> {},
      cancelled  |-> {"refunded"},
      refunded   |-> {},
      cancelled_settlement_expired |-> {} ]

OrderStatuses == DOMAIN OrderTransitions

\* ORDER_TERMINAL_STATES; note that "cancelled" is not one of them.
OrderTerminal ==
    {"delivered", "picked_up", "completed", "refunded", "cancelled_settlement_expired"}

\* is_valid_order_transition: a transition to the same status is refused.
OrderTransition(old, new) == old # new /\ new \in OrderTransitions[old]

\* PAYMENT_TRANSITIONS.
PaymentTransitions ==
    [ Pending  |-> {"Success", "Failed"},
      Success  |-> {"Refunded"},
      Failed   |-> {},
      Refunded |-> {} ]

PaymentStatuses == DOMAIN PaymentTransitions

\* PAYMENT_TERMINAL_STATES, is_payment_terminal.
PaymentTerminal == {"Success", "Failed", "Refunded"}

\* is_valid_payment_transition.
PaymentTransition(old, new) == old # new /\ new \in PaymentTransitions[old]

InvoiceStatuses == {"unpaid", "partial", "paid", "refunded"}

\* Statuses in which an order accepts no further payment (the tuple tested by
\* create_midtrans_charge and process_manual_payment).
ClosedToPayment == {"cancelled", "refunded", "cancelled_settlement_expired"}

\* counted_sale_statuses of update_order_status.
CountedSale == {"delivered", "picked_up", "completed"}
==============================================================================
