---------------------------- MODULE BankMachine ----------------------------
(***************************************************************************)
(* Synchronizing/ATM/bank_machine.h: the bank.  It answers every request   *)
(* as soon as it handles it and keeps nothing but one balance.             *)
(***************************************************************************)
EXTENDS Messaging

CONSTANTS pin,              \* the PIN of the one account
          opening_balance

VARIABLES incoming, atm_queue,  \* the bank's queue and the cash machine's
          balance,
          open                  \* run() has not ended

BankInit == /\ incoming = <<>>
            /\ balance = opening_balance
            /\ open = TRUE

\* Mutant of VerifyPin: only the length of the PIN is compared.
VerifyPin_LengthOnly ==
    /\ open
    /\ Handle(incoming, "verify_pin")
    /\ IF Len(Head(incoming).contents) = Len(pin)
       THEN Send(atm_queue, Signal("pin_verified"))
       ELSE Send(atm_queue, Signal("pin_incorrect"))
    /\ UNCHANGED <<balance, open>>

\* Mutant of VerifyPin: a wrong PIN gets no answer.
VerifyPin_SilentIfWrong ==
    /\ open
    /\ Handle(incoming, "verify_pin")
    /\ IF Head(incoming).contents = pin
       THEN Send(atm_queue, Signal("pin_verified"))
       ELSE UNCHANGED atm_queue
    /\ UNCHANGED <<balance, open>>

VerifyPin ==
    /\ open
    /\ Handle(incoming, "verify_pin")
    /\ IF Head(incoming).contents = pin
       THEN Send(atm_queue, Signal("pin_verified"))
       ELSE Send(atm_queue, Signal("pin_incorrect"))
    /\ UNCHANGED <<balance, open>>

\* Mutant of Withdraw: the balance is not compared with the amount.
Withdraw_Unchecked ==
    /\ open
    /\ Handle(incoming, "withdraw")
    /\ Send(atm_queue, Signal("withdraw_ok"))
    /\ balance' = balance - Head(incoming).contents
    /\ UNCHANGED open

\* Mutant of Withdraw: the amount is not taken off the balance.
Withdraw_NotBooked ==
    /\ open
    /\ Handle(incoming, "withdraw")
    /\ IF balance >= Head(incoming).contents
       THEN Send(atm_queue, Signal("withdraw_ok"))
       ELSE Send(atm_queue, Signal("withdraw_denied"))
    /\ UNCHANGED <<balance, open>>

Withdraw ==
    /\ open
    /\ Handle(incoming, "withdraw")
    /\ IF balance >= Head(incoming).contents
       THEN /\ Send(atm_queue, Signal("withdraw_ok"))
            /\ balance' = balance - Head(incoming).contents
       ELSE /\ Send(atm_queue, Signal("withdraw_denied"))
            /\ UNCHANGED balance
    /\ UNCHANGED open

GetBalance ==
    /\ open
    /\ Handle(incoming, "get_balance")
    /\ Send(atm_queue, Message("balance", balance))
    /\ UNCHANGED <<balance, open>>

WithdrawalProcessed ==
    /\ open
    /\ Handle(incoming, "withdrawal_processed")
    /\ UNCHANGED <<atm_queue, balance, open>>

BankClose ==
    /\ open
    /\ Handle(incoming, "close_queue")
    /\ open' = FALSE
    /\ UNCHANGED <<atm_queue, balance>>

BankStep == \/ VerifyPin \/ Withdraw \/ GetBalance \/ WithdrawalProcessed
            \/ BankClose
=============================================================================
