----------------------------- MODULE AtmMachine -----------------------------
(***************************************************************************)
(* Synchronizing/ATM/atm_machine.h: the cash machine.  Its state is a      *)
(* member function; run() calls it again and again.  Two of the functions  *)
(* send a prompt before they wait, and done_processing does not wait.      *)
(***************************************************************************)
EXTENDS Messaging

CONSTANT pin_length

VARIABLES incoming, bank, interface_hardware,  \* the three queues
          state,              \* the member function run() calls
          prompted,           \* it has sent its prompt and waits
          pin,
          withdrawal_amount,
          abandoned           \* how many requests a cancel left unanswered

cardVars == <<pin, withdrawal_amount>>

\* The states in which an answer of the bank is expected.
Asking == {"verifying_pin", "process_withdrawal", "process_balance"}

\* What the handlers of each state are for.
Handled ==
    [wait_for_card      |-> {"card_inserted"},
     getting_pin        |-> {"digit_pressed", "clear_last_pressed", "cancel_pressed"},
     verifying_pin      |-> {"pin_verified", "pin_incorrect", "cancel_pressed"},
     wait_for_action    |-> {"withdraw_pressed", "balance_pressed", "cancel_pressed"},
     process_withdrawal |-> {"withdraw_ok", "clear_last_pressed", "cancel_pressed"},
     process_balance    |-> {"balance", "cancel_pressed"}]

AtmInit == /\ incoming = <<>>
           /\ state = "wait_for_card"
           /\ prompted = FALSE
           /\ pin = <<>>
           /\ withdrawal_amount = 0
           /\ abandoned = 0

Become(s) == state' = s /\ prompted' = FALSE
Stay      == UNCHANGED <<state, prompted>>

Waiting(s) == /\ state = s
              /\ s \in {"wait_for_card", "wait_for_action"} => prompted

\* wait_for_card and wait_for_action begin with a prompt.
Prompt ==
    /\ ~prompted
    /\ \/ /\ state = "wait_for_card"
          /\ Send(interface_hardware, Signal("display_enter_card"))
       \/ /\ state = "wait_for_action"
          /\ Send(interface_hardware, Signal("display_withdrawal_options"))
    /\ prompted' = TRUE
    /\ UNCHANGED <<incoming, bank, state, cardVars, abandoned>>

CardInserted ==
    /\ Waiting("wait_for_card")
    /\ Handle(incoming, "card_inserted")
    /\ pin' = <<>>
    /\ Send(interface_hardware, Signal("display_enter_pin"))
    /\ Become("getting_pin")
    /\ UNCHANGED <<bank, withdrawal_amount, abandoned>>

\* Mutant of DigitPressed: the length is looked at before the digit is added.
DigitPressed_LateCheck ==
    /\ Waiting("getting_pin")
    /\ Handle(incoming, "digit_pressed")
    /\ pin' = Append(pin, Head(incoming).contents)
    /\ IF Len(pin) = pin_length
       THEN /\ Send(bank, Message("verify_pin", pin'))
            /\ Become("verifying_pin")
       ELSE UNCHANGED bank /\ Stay
    /\ UNCHANGED <<interface_hardware, withdrawal_amount, abandoned>>

DigitPressed ==
    /\ Waiting("getting_pin")
    /\ Handle(incoming, "digit_pressed")
    /\ pin' = Append(pin, Head(incoming).contents)
    /\ IF Len(pin') = pin_length
       THEN /\ Send(bank, Message("verify_pin", pin'))
            /\ Become("verifying_pin")
       ELSE UNCHANGED bank /\ Stay
    /\ UNCHANGED <<interface_hardware, withdrawal_amount, abandoned>>

ClearLastPressed ==
    /\ Waiting("getting_pin") \/ Waiting("process_withdrawal")
    /\ Handle(incoming, "clear_last_pressed")
    /\ pin' = IF pin = <<>> THEN pin ELSE SubSeq(pin, 1, Len(pin) - 1)
    /\ Stay
    /\ UNCHANGED <<bank, interface_hardware, withdrawal_amount, abandoned>>

PinVerified ==
    /\ Waiting("verifying_pin")
    /\ Handle(incoming, "pin_verified")
    /\ Become("wait_for_action")
    /\ UNCHANGED <<bank, interface_hardware, cardVars, abandoned>>

PinIncorrect ==
    /\ Waiting("verifying_pin")
    /\ Handle(incoming, "pin_incorrect")
    /\ Send(interface_hardware, Signal("display_pin_incorrect_message"))
    /\ Become("done_processing")
    /\ UNCHANGED <<bank, cardVars, abandoned>>

\* Mutant of WithdrawPressed: the request is sent, but the state is left.
WithdrawPressed_StateKept ==
    /\ Waiting("wait_for_action")
    /\ Handle(incoming, "withdraw_pressed")
    /\ withdrawal_amount' = Head(incoming).contents
    /\ Send(bank, Message("withdraw", withdrawal_amount'))
    /\ Become("wait_for_action")
    /\ UNCHANGED <<interface_hardware, pin, abandoned>>

WithdrawPressed ==
    /\ Waiting("wait_for_action")
    /\ Handle(incoming, "withdraw_pressed")
    /\ withdrawal_amount' = Head(incoming).contents
    /\ Send(bank, Message("withdraw", withdrawal_amount'))
    /\ Become("process_withdrawal")
    /\ UNCHANGED <<interface_hardware, pin, abandoned>>

BalancePressed ==
    /\ Waiting("wait_for_action")
    /\ Handle(incoming, "balance_pressed")
    /\ Send(bank, Signal("get_balance"))
    /\ Become("process_balance")
    /\ UNCHANGED <<interface_hardware, cardVars, abandoned>>

WithdrawOk ==
    /\ Waiting("process_withdrawal")
    /\ Handle(incoming, "withdraw_ok")
    /\ Send(interface_hardware, Message("issue_money", withdrawal_amount))
    /\ Send(bank, Message("withdrawal_processed", withdrawal_amount))
    /\ Become("done_processing")
    /\ UNCHANGED <<cardVars, abandoned>>

Balance ==
    /\ Waiting("process_balance")
    /\ Handle(incoming, "balance")
    /\ Send(interface_hardware, Message("display_balance", Head(incoming).contents))
    /\ Become("wait_for_action")
    /\ UNCHANGED <<bank, cardVars, abandoned>>

CancelPressed ==
    /\ \E s \in DOMAIN Handled \ {"wait_for_card"} : Waiting(s)
    /\ Handle(incoming, "cancel_pressed")
    /\ Become("done_processing")
    /\ abandoned' = IF state \in Asking THEN abandoned + 1 ELSE abandoned
    /\ UNCHANGED <<bank, interface_hardware, cardVars>>

DoneProcessing ==
    /\ state = "done_processing"
    /\ Send(interface_hardware, Signal("eject_card"))
    /\ Become("wait_for_card")
    /\ UNCHANGED <<incoming, bank, cardVars, abandoned>>

AtmDrop ==
    \E s \in DOMAIN Handled :
        /\ Waiting(s)
        /\ Drop(incoming, Handled[s])
        /\ UNCHANGED <<bank, interface_hardware, state, prompted, cardVars, abandoned>>

\* Mutant of AtmClose: only the wait for a card can be closed.
AtmClose_OnlyWithoutCard ==
    /\ Waiting("wait_for_card")
    /\ Handle(incoming, "close_queue")
    /\ Become("closed")
    /\ UNCHANGED <<bank, interface_hardware, cardVars, abandoned>>

\* close_queue is thrown out of the dispatcher and ends run().
AtmClose ==
    /\ \E s \in DOMAIN Handled : Waiting(s)
    /\ Handle(incoming, "close_queue")
    /\ Become("closed")
    /\ UNCHANGED <<bank, interface_hardware, cardVars, abandoned>>

AtmStep == \/ Prompt \/ CardInserted \/ DigitPressed \/ ClearLastPressed
           \/ PinVerified \/ PinIncorrect \/ WithdrawPressed \/ BalancePressed
           \/ WithdrawOk \/ Balance \/ CancelPressed \/ DoneProcessing
           \/ AtmDrop \/ AtmClose
=============================================================================
