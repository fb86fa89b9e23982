----------------------------- MODULE AtmSystem -----------------------------
(***************************************************************************)
(* Synchronizing/ATM/atm_test.cpp: the cash machine, the bank and the      *)
(* interface, each in a thread of its own, and the main thread, which      *)
(* turns keys into messages to the cash machine and, when q is pressed,    *)
(* closes the three queues and joins the three threads.                    *)
(***************************************************************************)
EXTENDS Messaging

CONSTANTS Digit,            \* the digit keys
          amount,           \* what the key w withdraws: 50 in the program
          pin_length,       \* 4 in the program
          bank_pin, opening_balance,
          Keys,             \* the other keys, as the message each one sends
          MaxKeys,          \* bound on the keys pressed before q
          MaxAhead          \* bound on the messages a key is typed ahead of

ASSUME AtmAssumption ==
    /\ pin_length \in Nat \ {0}
    /\ bank_pin \in [1..pin_length -> Digit]
    /\ opening_balance \in Nat
    /\ amount \in Nat
    /\ Keys \subseteq {"card_inserted", "balance_pressed", "cancel_pressed",
                       "clear_last_pressed"}
    /\ MaxKeys \in Nat
    /\ MaxAhead \in Nat

VARIABLES atm_queue, bank_queue, interface_queue,
          state, prompted, pin, withdrawal_amount, abandoned,  \* AtmMachine
          balance, bank_open,                                  \* BankMachine
          issued, interface_open,                              \* InterfaceMachine
          main,                                                \* main's next step
          keys                                                 \* keys pressed

atmVars  == <<state, prompted, pin, withdrawal_amount, abandoned>>
bankVars == <<balance, bank_open>>
interfaceVars == <<issued, interface_open>>
vars == <<atm_queue, bank_queue, interface_queue, atmVars, bankVars,
          interfaceVars, main, keys>>

Atm == INSTANCE AtmMachine
           WITH incoming <- atm_queue, bank <- bank_queue,
                interface_hardware <- interface_queue
Bank == INSTANCE BankMachine
            WITH incoming <- bank_queue, pin <- bank_pin, open <- bank_open
Interface == INSTANCE InterfaceMachine
                 WITH incoming <- interface_queue, open <- interface_open

Init == /\ Atm!AtmInit
        /\ Bank!BankInit
        /\ Interface!InterfaceInit
        /\ main = "reading"
        /\ keys = 0

KeyMessages == {Message("digit_pressed", d) : d \in Digit}
                   \cup {Message("withdraw_pressed", amount)}
                   \cup {Signal(k) : k \in Keys}

PressKey ==
    /\ main = "reading"
    /\ keys < MaxKeys
    /\ Len(atm_queue) <= MaxAhead
    /\ \E msg \in KeyMessages : Send(atm_queue, msg)
    /\ keys' = keys + 1
    /\ UNCHANGED <<bank_queue, interface_queue, atmVars, bankVars,
                   interfaceVars, main>>

PressQuit ==
    /\ main = "reading"
    /\ main' = "bank.done"
    /\ UNCHANGED <<atm_queue, bank_queue, interface_queue, atmVars, bankVars,
                   interfaceVars, keys>>

\* bank.done(), machine.done() and interface_hardware.done(), in this order.
CloseQueue(from, to, queue) ==
    /\ main = from
    /\ main' = to
    /\ Send(queue, Signal("close_queue"))

Quit ==
    /\ \/ /\ CloseQueue("bank.done", "machine.done", bank_queue)
          /\ UNCHANGED <<atm_queue, interface_queue>>
       \/ /\ CloseQueue("machine.done", "interface.done", atm_queue)
          /\ UNCHANGED <<bank_queue, interface_queue>>
       \/ /\ CloseQueue("interface.done", "join", interface_queue)
          /\ UNCHANGED <<atm_queue, bank_queue>>
    /\ UNCHANGED <<atmVars, bankVars, interfaceVars, keys>>

\* The three calls of join return.
Join ==
    /\ main = "join"
    /\ state = "closed" /\ ~bank_open /\ ~interface_open
    /\ main' = "returned"
    /\ UNCHANGED <<atm_queue, bank_queue, interface_queue, atmVars, bankVars,
                   interfaceVars, keys>>

AtmThread == Atm!AtmStep /\ UNCHANGED <<bankVars, interfaceVars, main, keys>>

BankThread == Bank!BankStep
                  /\ UNCHANGED <<interface_queue, atmVars, interfaceVars, main, keys>>

InterfaceThread == Interface!InterfaceStep
                       /\ UNCHANGED <<atm_queue, bank_queue, atmVars, bankVars, main, keys>>

\* The process is over: nothing can happen and nothing has to.
Returned == main = "returned" /\ UNCHANGED vars

Next == \/ PressKey \/ PressQuit \/ Quit \/ Join
        \/ AtmThread \/ BankThread \/ InterfaceThread
        \/ Returned

Spec == Init /\ [][Next]_vars

\* Threads that can run do run; keys are pressed or not as the user likes.
FairSpec == /\ Spec
            /\ WF_vars(AtmThread) /\ WF_vars(BankThread)
            /\ WF_vars(InterfaceThread) /\ WF_vars(Quit \/ Join)
-----------------------------------------------------------------------------
ToBank == {"verify_pin", "withdraw", "get_balance"}
FromBank == {"pin_verified", "pin_incorrect", "withdraw_ok", "withdraw_denied",
             "balance"}

\* What each queue is for.
AtmMessage == KeyMessages
                  \cup [type : (FromBank \ {"balance"}) \cup {"close_queue"}, contents : {0}]
                  \cup [type : {"balance"}, contents : 0..opening_balance]
BankMessage == [type : {"verify_pin"}, contents : Seq(Digit)]
                   \cup [type : {"withdraw", "withdrawal_processed"}, contents : {amount}]
                   \cup [type : {"get_balance", "close_queue"}, contents : {0}]
InterfaceMessage == [type : {"issue_money"}, contents : {amount}]
                        \cup [type : {"display_balance"}, contents : 0..opening_balance]
                        \cup [type : {"display_enter_card", "display_enter_pin",
                                       "display_withdrawal_options",
                                       "display_pin_incorrect_message", "eject_card",
                                       "close_queue"}, contents : {0}]

\* Each queue holds messages it is meant for, and each member a value of its
\* type: the balance has not wrapped around, what is handed out is what was asked
\* for, and the machine does not wait for a digit that would make the PIN too
\* long to be sent at all.
TypeOK ==
    /\ atm_queue \in Seq(AtmMessage)
    /\ bank_queue \in Seq(BankMessage)
    /\ interface_queue \in Seq(InterfaceMessage)
    /\ state \in DOMAIN Atm!Handled \cup {"done_processing", "closed"}
    /\ pin \in Seq(Digit) /\ (state = "getting_pin" => Len(pin) < pin_length)
    /\ state = "process_withdrawal" => withdrawal_amount = amount
    /\ abandoned \in Nat
    /\ balance \in 0..opening_balance
    /\ issued \in Nat
    /\ main \in {"reading", "bank.done", "machine.done", "interface.done",
                 "join", "returned"}

(***************************************************************************)
(* The cash machine matches answers with questions by nothing but its      *)
(* state.  It works because at most one question is open: at most one is   *)
(* on its way or answered, and only in a state that waits for the answer,  *)
(* except for those that a cancel has left behind.                         *)
(***************************************************************************)
Outstanding == Count(bank_queue, ToBank) + Count(atm_queue, FromBank)

AnswersMatch ==
    Outstanding <= abandoned + (IF state \in Atm!Asking \cup {"closed"} THEN 1 ELSE 0)

\* The menu is open only to a PIN the bank has confirmed, unless an answer to an
\* earlier question that was given up is still about.
ConfirmedPin ==
    state \in {"wait_for_action", "process_balance"} /\ abandoned = 0
        => pin = bank_pin

(***************************************************************************)
(* Money: what the bank has booked off the account is what has been handed *)
(* out, will be handed out, or has been granted and not yet acted upon; a  *)
(* grant is lost only if a cancel came before it.                          *)
(***************************************************************************)
MoneyConserved ==
    LET booked   == opening_balance - balance
        promised == Count(interface_queue, {"issue_money"})
                        + Count(atm_queue, {"withdraw_ok"})
        granted  == issued + amount * promised
    IN  granted <= booked /\ booked <= granted + amount * abandoned

\* Once q is pressed the program ends.
ShutsDown == main = "bank.done" ~> main = "returned"

\* A question to the bank that has an answer in the machine gets it.
QuestionsAnswered ==
    /\ state = "verifying_pin" ~> state # "verifying_pin"
    /\ state = "process_balance" ~> state # "process_balance"

\* A withdrawal comes to an end, granted or not.
WithdrawalEnds == state = "process_withdrawal" ~> state # "process_withdrawal"
=============================================================================
