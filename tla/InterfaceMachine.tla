-------------------------- MODULE InterfaceMachine --------------------------
(***************************************************************************)
(* Synchronizing/ATM/interface_machine.h: the display and the money chute. *)
(* Every message it handles is printed; only the money matters here.       *)
(***************************************************************************)
EXTENDS Messaging

VARIABLES incoming,
          issued,    \* the money handed out
          open       \* run() has not ended

InterfaceInit == /\ incoming = <<>>
                 /\ issued = 0
                 /\ open = TRUE

IssueMoney ==
    /\ open
    /\ Handle(incoming, "issue_money")
    /\ issued' = issued + Head(incoming).contents
    /\ UNCHANGED open

Display ==
    /\ open
    /\ \E type \in {"display_insufficient_funds", "display_enter_pin",
                    "display_enter_card", "display_balance",
                    "display_withdrawal_options",
                    "display_withdrawal_cancelled",
                    "display_pin_incorrect_message", "eject_card"} :
           Handle(incoming, type)
    /\ UNCHANGED <<issued, open>>

InterfaceClose ==
    /\ open
    /\ Handle(incoming, "close_queue")
    /\ open' = FALSE
    /\ UNCHANGED issued

InterfaceStep == IssueMoney \/ Display \/ InterfaceClose
=============================================================================
