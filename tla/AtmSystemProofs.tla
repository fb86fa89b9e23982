-------------------------- MODULE AtmSystemProofs --------------------------
(***************************************************************************)
(* The cash machine, the bank and the interface keep their types, match    *)
(* answers with questions, open the menu only to the right PIN and lose or *)
(* make no money, for any keys, PIN, balance and amount.                   *)
(***************************************************************************)
EXTENDS AtmSystem, FiniteSetTheorems, FunctionTheorems, SequenceTheorems, TLAPS

(***************************************************************************)
(* Queues: their messages, and how many there are of some types.           *)
(***************************************************************************)
Messages(queue) == {queue[i] : i \in 1..Len(queue)}
Places(queue, types) == {i \in 1..Len(queue) : queue[i].type \in types}

LEMMA CountFacts ==
    ASSUME NEW S, NEW queue \in Seq(S), NEW types
    PROVE  /\ IsFiniteSet(Places(queue, types))
           /\ Count(queue, types) \in Nat
           /\ Count(queue, types) = 0 => \A msg \in Messages(queue) : msg.type \notin types
<1>1. Len(queue) \in Nat
  BY LenProperties
<1>2. IsFiniteSet(1..Len(queue))
  BY <1>1, FS_Interval
<1>3. IsFiniteSet(Places(queue, types))
  BY <1>2, FS_Subset DEF Places
<1>4. Count(queue, types) = Cardinality(Places(queue, types))
  BY DEF Count, Places
<1>5. Count(queue, types) \in Nat
  BY <1>3, <1>4, FS_CardinalityType
<1>6. Count(queue, types) = 0 => Places(queue, types) = {}
  BY <1>3, <1>4, FS_EmptySet
<1>7. QED
  BY <1>3, <1>5, <1>6 DEF Places, Messages

\* Send
LEMMA SendFacts ==
    ASSUME NEW S, NEW queue \in Seq(S), NEW msg \in S, NEW types
    PROVE  /\ Append(queue, msg) \in Seq(S)
           /\ Messages(Append(queue, msg)) = Messages(queue) \cup {msg}
           /\ Count(queue, types) \in Nat
           /\ msg.type \in types => Count(Append(queue, msg), types) = Count(queue, types) + 1
           /\ msg.type \notin types => Count(Append(queue, msg), types) = Count(queue, types)
<1> DEFINE longer == Append(queue, msg)
           n == Len(queue)
<1>1. /\ longer \in Seq(S) /\ Len(longer) = n + 1 /\ n \in Nat
      /\ \A i \in 1..n : longer[i] = queue[i]
      /\ longer[n + 1] = msg
  BY AppendProperties, LenProperties
<1> HIDE DEF longer, n
<1>2. 1..n + 1 = 1..n \cup {n + 1} /\ n + 1 \notin 1..n
  BY <1>1
<1>3. Messages(longer) = Messages(queue) \cup {msg}
  BY <1>1, <1>2 DEF Messages, n
<1>4. IsFiniteSet(Places(queue, types)) /\ Count(queue, types) \in Nat
  BY CountFacts
<1>5. CASE msg.type \in types
  <2>1. Places(longer, types) = Places(queue, types) \cup {n + 1}
    BY <1>1, <1>2, <1>5 DEF Places, n
  <2>2. n + 1 \notin Places(queue, types)
    BY <1>2 DEF Places, n
  <2>3. Cardinality(Places(longer, types)) = Cardinality(Places(queue, types)) + 1
    BY <1>4, <2>1, <2>2, FS_AddElement
  <2>4. QED
    BY <1>1, <1>3, <1>4, <1>5, <2>3 DEF longer, Count, Places
<1>6. CASE msg.type \notin types
  <2>1. Places(longer, types) = Places(queue, types)
    BY <1>1, <1>2, <1>6 DEF Places, n
  <2>2. QED
    BY <1>1, <1>3, <1>4, <1>6, <2>1 DEF longer, Count, Places
<1>7. QED
  BY <1>5, <1>6

\* Handle and Drop
LEMMA TakeFacts ==
    ASSUME NEW S, NEW queue \in Seq(S), queue # <<>>, NEW types
    PROVE  /\ Tail(queue) \in Seq(S)
           /\ Head(queue) \in S /\ Head(queue) \in Messages(queue)
           /\ Messages(Tail(queue)) \subseteq Messages(queue)
           /\ Count(queue, types) \in Nat /\ Count(Tail(queue), types) \in Nat
           /\ Head(queue).type \in types =>
                  Count(queue, types) = Count(Tail(queue), types) + 1
           /\ Head(queue).type \notin types =>
                  Count(queue, types) = Count(Tail(queue), types)
<1> DEFINE rest == Tail(queue)
           n == Len(queue)
           later == Places(queue, types) \ {1}
<1>1. /\ rest \in Seq(S) /\ n \in Nat \ {0} /\ Len(rest) = n - 1
      /\ Head(queue) \in S /\ Head(queue) = queue[1]
      /\ \A i \in 1..n - 1 : rest[i] = queue[i + 1]
  BY HeadTailProperties, LenProperties, EmptySeq
<1> HIDE DEF rest
<1>2. Messages(rest) \subseteq Messages(queue) /\ Head(queue) \in Messages(queue)
  BY <1>1 DEF Messages
<1>3. IsFiniteSet(Places(rest, types)) /\ Count(rest, types) \in Nat
      /\ IsFiniteSet(Places(queue, types)) /\ Count(queue, types) \in Nat
  BY <1>1, CountFacts
<1>4. Cardinality(later) = Cardinality(Places(rest, types))
  <2> DEFINE f == [i \in Places(rest, types) |-> i + 1]
  <2>1. \A i \in Places(rest, types) : f[i] \in later
    BY <1>1 DEF Places
  <2>2. \A i, j \in Places(rest, types) : f[i] = f[j] => i = j
    BY <1>1 DEF Places
  <2>3. ASSUME NEW i \in later PROVE \E j \in Places(rest, types) : f[j] = i
    <3>1. i \in 2..n /\ queue[i].type \in types
      BY <1>1, <2>3 DEF Places
    <3>2. i - 1 \in 1..n - 1 /\ (i - 1) + 1 = i
      BY <1>1, <3>1
    <3>3. i - 1 \in Places(rest, types)
      BY <1>1, <3>1, <3>2 DEF Places
    <3>4. QED
      BY <3>2, <3>3
  <2>4. f \in Bijection(Places(rest, types), later)
    <3> HIDE DEF later
    <3>1. f \in [Places(rest, types) -> later]
      BY <2>1
    <3> HIDE DEF f
    <3>2. f \in Injection(Places(rest, types), later)
      BY <2>2, <3>1 DEF Injection, IsInjective
    <3>3. f \in Surjection(Places(rest, types), later)
      BY <2>3, <3>1 DEF Surjection
    <3>4. QED
      BY <3>2, <3>3 DEF Bijection
  <2> HIDE DEF f
  <2>5. ExistsBijection(Places(rest, types), later)
    BY <2>4 DEF ExistsBijection
  <2>6. QED
    BY <1>3, <2>5, FS_Bijection
<1>5. 1 \in Places(queue, types) <=> Head(queue).type \in types
  BY <1>1 DEF Places
<1>6. /\ Count(queue, types) = Cardinality(Places(queue, types))
      /\ Count(rest, types) = Cardinality(Places(rest, types))
  BY DEF Count, Places
<1> HIDE DEF later
<1>7. ASSUME Head(queue).type \in types
      PROVE  Count(queue, types) = Count(rest, types) + 1
  <2>1. Cardinality(later) = Cardinality(Places(queue, types)) - 1
    BY <1>3, <1>5, <1>7, FS_RemoveElement DEF later
  <2>2. Count(rest, types) = Count(queue, types) - 1
    BY <1>4, <1>6, <2>1
  <2>3. QED
    BY <1>3, <2>2
<1>8. Head(queue).type \notin types => Count(queue, types) = Count(rest, types)
  BY <1>4, <1>5, <1>6 DEF later
<1>9. QED
  BY <1>1, <1>2, <1>3, <1>7, <1>8 DEF rest
-----------------------------------------------------------------------------
(***************************************************************************)
(* The inductive invariant.                                                *)
(***************************************************************************)
Asked     == Count(bank_queue, ToBank)
Answered  == Count(atm_queue, FromBank)
Requested == Count(bank_queue, {"withdraw"})
Granted   == Count(atm_queue, {"withdraw_ok"})
Promised  == Count(interface_queue, {"issue_money"})

\* If nothing was given up, the PIN that is on its way to the bank, or confirmed, is
\* the machine's, which waits for the answer.
PinInv ==
    abandoned = 0 =>
        /\ state \in {"wait_for_action", "process_balance"} => pin = bank_pin
        /\ \A msg \in Messages(atm_queue) :
               msg.type = "pin_verified" => /\ state \in {"verifying_pin", "closed"}
                                            /\ pin = bank_pin
        /\ \A msg \in Messages(bank_queue) :
               msg.type = "verify_pin" => /\ state \in {"verifying_pin", "closed"}
                                          /\ msg.contents = pin

\* After b withdrawals have been booked and i paid out.  What is neither paid out nor
\* promised nor granted was lost to a cancel, and a request that is still to come
\* leaves room for its loss.
Ledger(b, i) == balance = opening_balance - amount * b /\ issued = amount * i
Losses(b, i) ==
    /\ i + Promised + Granted <= b
    /\ b <= i + Promised + Granted + abandoned
    /\ b + Requested <= i + Promised + abandoned + 1
    /\ state \notin {"process_withdrawal", "closed"} =>
           b + Requested <= i + Promised + abandoned
MoneyInv == \E b, i \in Nat : Ledger(b, i) /\ Losses(b, i)

IInv == TypeOK /\ AnswersMatch /\ PinInv /\ MoneyInv
-----------------------------------------------------------------------------
(***************************************************************************)
(* What reading and writing the three queues does to them.                 *)
(***************************************************************************)
LEMMA Numbers ==
    ASSUME TypeOK
    PROVE  /\ Asked \in Nat /\ Answered \in Nat
           /\ Requested \in Nat /\ Granted \in Nat /\ Promised \in Nat
           /\ abandoned \in Nat
  BY CountFacts DEF TypeOK, Asked, Answered, Requested, Granted, Promised

LEMMA NumbersLater ==
    ASSUME TypeOK'
    PROVE  /\ Asked' \in Nat /\ Answered' \in Nat
           /\ Requested' \in Nat /\ Granted' \in Nat /\ Promised' \in Nat
           /\ abandoned' \in Nat
  BY CountFacts DEF TypeOK, Asked, Answered, Requested, Granted, Promised

LEMMA AtmTakes ==
    ASSUME TypeOK, atm_queue # <<>>, atm_queue' = Tail(atm_queue)
    PROVE  /\ atm_queue' \in Seq(AtmMessage)
           /\ Head(atm_queue) \in AtmMessage
           /\ Head(atm_queue) \in Messages(atm_queue)
           /\ Messages(atm_queue') \subseteq Messages(atm_queue)
           /\ Answered' \in Nat /\ Granted' \in Nat
           /\ Head(atm_queue).type \in FromBank => Answered = Answered' + 1
           /\ Head(atm_queue).type \notin FromBank => Answered = Answered'
           /\ Head(atm_queue).type = "withdraw_ok" => Granted = Granted' + 1
           /\ Head(atm_queue).type # "withdraw_ok" => Granted = Granted'
<1>1. atm_queue \in Seq(AtmMessage)
  BY DEF TypeOK
<1>2. QED
  BY <1>1, TakeFacts DEF Answered, Granted

LEMMA BankTakes ==
    ASSUME TypeOK, bank_queue # <<>>, bank_queue' = Tail(bank_queue)
    PROVE  /\ bank_queue' \in Seq(BankMessage)
           /\ Head(bank_queue) \in BankMessage
           /\ Head(bank_queue) \in Messages(bank_queue)
           /\ Messages(bank_queue') \subseteq Messages(bank_queue)
           /\ Asked' \in Nat /\ Requested' \in Nat
           /\ Head(bank_queue).type \in ToBank => Asked = Asked' + 1
           /\ Head(bank_queue).type \notin ToBank => Asked = Asked'
           /\ Head(bank_queue).type = "withdraw" => Requested = Requested' + 1
           /\ Head(bank_queue).type # "withdraw" => Requested = Requested'
<1>1. bank_queue \in Seq(BankMessage)
  BY DEF TypeOK
<1>2. QED
  BY <1>1, TakeFacts DEF Asked, Requested

LEMMA InterfaceTakes ==
    ASSUME TypeOK, interface_queue # <<>>, interface_queue' = Tail(interface_queue)
    PROVE  /\ interface_queue' \in Seq(InterfaceMessage)
           /\ Head(interface_queue) \in InterfaceMessage
           /\ Promised' \in Nat
           /\ Head(interface_queue).type = "issue_money" => Promised = Promised' + 1
           /\ Head(interface_queue).type # "issue_money" => Promised = Promised'
<1>1. interface_queue \in Seq(InterfaceMessage)
  BY DEF TypeOK
<1>2. QED
  BY <1>1, TakeFacts DEF Promised

LEMMA AtmGets ==
    ASSUME TypeOK, NEW msg \in AtmMessage, atm_queue' = Append(atm_queue, msg)
    PROVE  /\ atm_queue' \in Seq(AtmMessage)
           /\ Messages(atm_queue') = Messages(atm_queue) \cup {msg}
           /\ msg.type \in FromBank => Answered' = Answered + 1
           /\ msg.type \notin FromBank => Answered' = Answered
           /\ msg.type = "withdraw_ok" => Granted' = Granted + 1
           /\ msg.type # "withdraw_ok" => Granted' = Granted
<1>1. atm_queue \in Seq(AtmMessage)
  BY DEF TypeOK
<1>2. QED
  BY <1>1, SendFacts DEF Answered, Granted

LEMMA BankGets ==
    ASSUME TypeOK, NEW msg \in BankMessage, bank_queue' = Append(bank_queue, msg)
    PROVE  /\ bank_queue' \in Seq(BankMessage)
           /\ Messages(bank_queue') = Messages(bank_queue) \cup {msg}
           /\ msg.type \in ToBank => Asked' = Asked + 1
           /\ msg.type \notin ToBank => Asked' = Asked
           /\ msg.type = "withdraw" => Requested' = Requested + 1
           /\ msg.type # "withdraw" => Requested' = Requested
<1>1. bank_queue \in Seq(BankMessage)
  BY DEF TypeOK
<1>2. QED
  BY <1>1, SendFacts DEF Asked, Requested

LEMMA InterfaceGets ==
    ASSUME TypeOK, NEW msg \in InterfaceMessage,
           interface_queue' = Append(interface_queue, msg)
    PROVE  /\ interface_queue' \in Seq(InterfaceMessage)
           /\ msg.type = "issue_money" => Promised' = Promised + 1
           /\ msg.type # "issue_money" => Promised' = Promised
<1>1. interface_queue \in Seq(InterfaceMessage)
  BY DEF TypeOK
<1>2. QED
  BY <1>1, SendFacts DEF Promised

\* What is in the queues.
LEMMA Sorts ==
    /\ \A type \in {"pin_verified", "pin_incorrect", "withdraw_ok", "withdraw_denied",
                    "close_queue"} : [type |-> type, contents |-> 0] \in AtmMessage
    /\ balance \in 0..opening_balance =>
           [type |-> "balance", contents |-> balance] \in AtmMessage
    /\ KeyMessages \subseteq AtmMessage
    /\ \A msg \in KeyMessages : msg.type \notin FromBank
    /\ \A msg \in AtmMessage :
           /\ msg.type = "digit_pressed" => msg.contents \in Digit
           /\ msg.type = "withdraw_pressed" => msg.contents = amount
           /\ msg.type = "balance" => msg.contents \in 0..opening_balance
    /\ \A p \in Seq(Digit) : [type |-> "verify_pin", contents |-> p] \in BankMessage
    /\ \A type \in {"withdraw", "withdrawal_processed"} :
           [type |-> type, contents |-> amount] \in BankMessage
    /\ \A type \in {"get_balance", "close_queue"} :
           [type |-> type, contents |-> 0] \in BankMessage
    /\ \A msg \in BankMessage : msg.type = "withdraw" => msg.contents = amount
    /\ [type |-> "issue_money", contents |-> amount] \in InterfaceMessage
    /\ \A b \in 0..opening_balance :
           [type |-> "display_balance", contents |-> b] \in InterfaceMessage
    /\ \A type \in {"display_enter_card", "display_enter_pin", "display_withdrawal_options",
                    "display_pin_incorrect_message", "eject_card", "close_queue"} :
           [type |-> type, contents |-> 0] \in InterfaceMessage
    /\ \A msg \in InterfaceMessage : msg.type = "issue_money" => msg.contents = amount
<1> USE AtmAssumption
<1>1. /\ \A type \in {"pin_verified", "pin_incorrect", "withdraw_ok", "withdraw_denied",
                      "close_queue"} : [type |-> type, contents |-> 0] \in AtmMessage
      /\ balance \in 0..opening_balance =>
             [type |-> "balance", contents |-> balance] \in AtmMessage
      /\ KeyMessages \subseteq AtmMessage
  BY DEF AtmMessage, FromBank
<1>2. \A msg \in KeyMessages :
          /\ msg.type \notin FromBank
          /\ msg.type = "digit_pressed" => msg.contents \in Digit
          /\ msg.type = "withdraw_pressed" => msg.contents = amount
          /\ msg.type # "balance"
  BY DEF KeyMessages, Message, Signal, FromBank
<1>3. \A msg \in AtmMessage :
          /\ msg.type = "digit_pressed" => msg.contents \in Digit
          /\ msg.type = "withdraw_pressed" => msg.contents = amount
          /\ msg.type = "balance" => msg.contents \in 0..opening_balance
  BY <1>2 DEF AtmMessage, FromBank
<1>4. /\ \A p \in Seq(Digit) : [type |-> "verify_pin", contents |-> p] \in BankMessage
      /\ \A type \in {"withdraw", "withdrawal_processed"} :
             [type |-> type, contents |-> amount] \in BankMessage
      /\ \A type \in {"get_balance", "close_queue"} :
             [type |-> type, contents |-> 0] \in BankMessage
      /\ \A msg \in BankMessage : msg.type = "withdraw" => msg.contents = amount
  BY DEF BankMessage
<1>5. /\ [type |-> "issue_money", contents |-> amount] \in InterfaceMessage
      /\ \A b \in 0..opening_balance :
             [type |-> "display_balance", contents |-> b] \in InterfaceMessage
      /\ \A type \in {"display_enter_card", "display_enter_pin",
                      "display_withdrawal_options", "display_pin_incorrect_message",
                      "eject_card", "close_queue"} :
             [type |-> type, contents |-> 0] \in InterfaceMessage
      /\ \A msg \in InterfaceMessage : msg.type = "issue_money" => msg.contents = amount
  BY DEF InterfaceMessage
<1>6. QED
  BY <1>1, <1>2, <1>3, <1>4, <1>5
-----------------------------------------------------------------------------
(***************************************************************************)
(* Steps that ask and answer nothing.                                      *)
(***************************************************************************)
LEMMA States ==
    /\ DOMAIN Atm!Handled = {"wait_for_card", "getting_pin", "verifying_pin",
                             "wait_for_action", "process_withdrawal", "process_balance"}
    /\ Atm!Asking = {"verifying_pin", "process_withdrawal", "process_balance"}
  BY DEF Atm!Handled, Atm!Asking

\* AnswersMatch, the two kinds of states apart.
LEMMA MatchByState ==
    /\ AnswersMatch /\ state \in {"verifying_pin", "process_withdrawal", "process_balance",
                                  "closed"} => Asked + Answered <= abandoned + 1
    /\ AnswersMatch /\ state \notin {"verifying_pin", "process_withdrawal",
                                     "process_balance", "closed"} =>
           Asked + Answered <= abandoned + 0
  BY States DEF AnswersMatch, Outstanding, Asked, Answered

SameCounts == UNCHANGED <<Asked, Answered, Requested, Granted, Promised>>
Moves == \/ UNCHANGED <<state, pin>>
         \/ state' = state /\ state \in {"getting_pin", "process_withdrawal"}
         \/ /\ state \in {"wait_for_card", "done_processing"}
            /\ state' \in {"getting_pin", "wait_for_card"}
NoPinSent ==
    /\ \A msg \in Messages(atm_queue') :
           msg \in Messages(atm_queue) \/ msg.type # "pin_verified"
    /\ \A msg \in Messages(bank_queue') :
           msg \in Messages(bank_queue) \/ msg.type # "verify_pin"

LEMMA Quiet ==
    ASSUME IInv, SameCounts, Moves, NoPinSent, UNCHANGED <<abandoned, balance, issued>>
    PROVE  AnswersMatch' /\ PinInv' /\ MoneyInv'
<1>1. AnswersMatch'
  <2>1. Outstanding' = Outstanding
    BY DEF SameCounts, Outstanding, Asked, Answered
  <2>2. state \in Atm!Asking \cup {"closed"} <=> state' \in Atm!Asking \cup {"closed"}
    BY States DEF Moves
  <2>3. QED
    BY <2>1, <2>2 DEF IInv, AnswersMatch, Atm!Asking
<1>2. PinInv'
  BY DEF IInv, PinInv, Moves, NoPinSent
<1>3. MoneyInv'
  <2>1. PICK b \in Nat, i \in Nat : Ledger(b, i) /\ Losses(b, i)
    BY DEF IInv, MoneyInv
  <2>2. Ledger(b, i)'
    BY <2>1 DEF Ledger
  <2>3. state' \notin {"process_withdrawal", "closed"} =>
            state \notin {"process_withdrawal", "closed"}
    BY DEF Moves
  <2>4. Losses(b, i)'
    BY <2>1, <2>3 DEF Losses, SameCounts
  <2>5. QED
    BY <2>2, <2>4 DEF MoneyInv
<1>4. QED
  BY <1>1, <1>2, <1>3
-----------------------------------------------------------------------------
(***************************************************************************)
(* A step keeps the types.                                                 *)
(***************************************************************************)
\* The cash machine reads its queue and writes the others, if at all.
LEMMA AtmTypes ==
    ASSUME TypeOK, Atm!AtmStep, UNCHANGED <<bankVars, interfaceVars, main, keys>>
    PROVE  TypeOK'
<1> USE AtmAssumption
<1> USE DEF Atm!Waiting, Atm!Handle, Atm!Send, Atm!Become, Atm!Stay, Atm!cardVars,
            Atm!Message, Atm!Signal, bankVars, interfaceVars
<1>1. CASE Atm!Prompt
  <2>1. UNCHANGED <<atm_queue, bank_queue, state, pin, withdrawal_amount, abandoned>>
    BY <1>1 DEF Atm!Prompt
  <2>2. \E msg \in InterfaceMessage : interface_queue' = Append(interface_queue, msg)
    BY <1>1, Sorts DEF Atm!Prompt
  <2>3. interface_queue' \in Seq(InterfaceMessage)
    BY <2>2, InterfaceGets
  <2>4. QED
    BY <2>1, <2>3 DEF TypeOK
<1>2. CASE Atm!CardInserted
  <2>1. /\ UNCHANGED <<bank_queue, withdrawal_amount, abandoned>>
        /\ state' = "getting_pin" /\ pin' = <<>>
        /\ atm_queue # <<>> /\ atm_queue' = Tail(atm_queue)
        /\ interface_queue' =
               Append(interface_queue, [type |-> "display_enter_pin", contents |-> 0])
    BY <1>2 DEF Atm!CardInserted
  <2>2. atm_queue' \in Seq(AtmMessage) /\ interface_queue' \in Seq(InterfaceMessage)
    BY <2>1, AtmTakes, InterfaceGets, Sorts
  <2>3. <<>> \in Seq(Digit) /\ Len(<<>>) < pin_length
    BY EmptySeq
  <2>4. QED
    BY <2>1, <2>2, <2>3, States DEF TypeOK
<1>3. CASE Atm!DigitPressed
  <2>1. /\ UNCHANGED <<interface_queue, withdrawal_amount, abandoned>>
        /\ state = "getting_pin"
        /\ pin' = Append(pin, Head(atm_queue).contents)
        /\ atm_queue # <<>> /\ atm_queue' = Tail(atm_queue)
        /\ Head(atm_queue).type = "digit_pressed"
        /\ \/ /\ Len(pin') = pin_length /\ state' = "verifying_pin"
              /\ bank_queue' = Append(bank_queue, [type |-> "verify_pin", contents |-> pin'])
           \/ /\ Len(pin') # pin_length /\ state' = "getting_pin"
              /\ bank_queue' = bank_queue
    BY <1>3 DEF Atm!DigitPressed
  <2>2. atm_queue' \in Seq(AtmMessage) /\ Head(atm_queue).contents \in Digit
    BY <2>1, AtmTakes, Sorts
  <2>3. pin' \in Seq(Digit) /\ Len(pin') = Len(pin) + 1 /\ Len(pin) \in Nat
    BY <2>1, <2>2, AppendProperties, LenProperties DEF TypeOK
  <2>4. bank_queue' \in Seq(BankMessage)
    BY <2>1, <2>3, BankGets, Sorts DEF TypeOK
  <2>5. state' = "getting_pin" => Len(pin') < pin_length
    BY <2>1, <2>3 DEF TypeOK
  <2>6. QED
    BY <2>1, <2>2, <2>3, <2>4, <2>5, States DEF TypeOK
<1>4. CASE Atm!ClearLastPressed
  <2>1. /\ UNCHANGED <<bank_queue, interface_queue, withdrawal_amount, abandoned, state>>
        /\ atm_queue # <<>> /\ atm_queue' = Tail(atm_queue)
        /\ pin' = IF pin = <<>> THEN pin ELSE SubSeq(pin, 1, Len(pin) - 1)
    BY <1>4 DEF Atm!ClearLastPressed
  <2>2. atm_queue' \in Seq(AtmMessage)
    BY <2>1, AtmTakes
  <2>3. pin' \in Seq(Digit) /\ Len(pin') <= Len(pin)
    <3>1. pin \in Seq(Digit) /\ Len(pin) \in Nat /\ (pin # <<>> => Len(pin) > 0)
      BY LenProperties, EmptySeq DEF TypeOK
    <3>2. ASSUME pin # <<>>
          PROVE  /\ SubSeq(pin, 1, Len(pin) - 1) \in Seq(Digit)
                 /\ Len(SubSeq(pin, 1, Len(pin) - 1)) = Len(pin) - 1
      <4> DEFINE n == Len(pin) - 1
      <4>1. n \in Nat /\ n + 1 = Len(pin) /\ \A i \in 1..n : pin[i] \in Digit
        BY <3>1, <3>2, ElementOfSeq
      <4> HIDE DEF n
      <4>2. SubSeq(pin, 1, n) \in Seq(Digit) /\ Len(SubSeq(pin, 1, n)) = n
        BY <3>1, <4>1, SubSeqProperties
      <4>3. QED
        BY <4>2 DEF n
    <3>3. QED
      BY <2>1, <3>1, <3>2
  <2>4. state' = "getting_pin" => Len(pin') < pin_length
    BY <2>1, <2>3, LenProperties DEF TypeOK
  <2>5. QED
    BY <2>1, <2>2, <2>3, <2>4 DEF TypeOK
<1>5. CASE Atm!PinVerified \/ Atm!CancelPressed \/ Atm!AtmClose
  <2>1. /\ UNCHANGED <<bank_queue, interface_queue, pin, withdrawal_amount>>
        /\ state' \in {"wait_for_action", "done_processing", "closed"}
        /\ abandoned' \in {abandoned, abandoned + 1}
        /\ atm_queue # <<>> /\ atm_queue' = Tail(atm_queue)
    BY <1>5 DEF Atm!PinVerified, Atm!CancelPressed, Atm!AtmClose
  <2>2. atm_queue' \in Seq(AtmMessage)
    BY <2>1, AtmTakes
  <2>3. QED
    BY <2>1, <2>2, States DEF TypeOK
<1>6. CASE Atm!PinIncorrect
  <2>1. /\ UNCHANGED <<bank_queue, pin, withdrawal_amount, abandoned>>
        /\ state' = "done_processing"
        /\ atm_queue # <<>> /\ atm_queue' = Tail(atm_queue)
        /\ interface_queue' =
             Append(interface_queue, [type |-> "display_pin_incorrect_message", contents |-> 0])
    BY <1>6 DEF Atm!PinIncorrect
  <2>2. atm_queue' \in Seq(AtmMessage) /\ interface_queue' \in Seq(InterfaceMessage)
    BY <2>1, AtmTakes, InterfaceGets, Sorts
  <2>3. QED
    BY <2>1, <2>2, States DEF TypeOK
<1>7. CASE Atm!WithdrawPressed
  <2>1. /\ UNCHANGED <<interface_queue, pin, abandoned>>
        /\ state' = "process_withdrawal"
        /\ withdrawal_amount' = Head(atm_queue).contents
        /\ Head(atm_queue).type = "withdraw_pressed"
        /\ atm_queue # <<>> /\ atm_queue' = Tail(atm_queue)
        /\ bank_queue' =
             Append(bank_queue, [type |-> "withdraw", contents |-> withdrawal_amount'])
    BY <1>7 DEF Atm!WithdrawPressed
  <2>2. atm_queue' \in Seq(AtmMessage) /\ withdrawal_amount' = amount
    BY <2>1, AtmTakes, Sorts
  <2>3. bank_queue' \in Seq(BankMessage)
    BY <2>1, <2>2, BankGets, Sorts
  <2>4. QED
    BY <2>1, <2>2, <2>3, States DEF TypeOK
<1>8. CASE Atm!BalancePressed
  <2>1. /\ UNCHANGED <<interface_queue, pin, withdrawal_amount, abandoned>>
        /\ state' = "process_balance"
        /\ atm_queue # <<>> /\ atm_queue' = Tail(atm_queue)
        /\ bank_queue' = Append(bank_queue, [type |-> "get_balance", contents |-> 0])
    BY <1>8 DEF Atm!BalancePressed
  <2>2. atm_queue' \in Seq(AtmMessage) /\ bank_queue' \in Seq(BankMessage)
    BY <2>1, AtmTakes, BankGets, Sorts
  <2>3. QED
    BY <2>1, <2>2, States DEF TypeOK
<1>9. CASE Atm!WithdrawOk
  <2>1. /\ UNCHANGED <<pin, withdrawal_amount, abandoned>>
        /\ state = "process_withdrawal" /\ state' = "done_processing"
        /\ atm_queue # <<>> /\ atm_queue' = Tail(atm_queue)
        /\ interface_queue' =
             Append(interface_queue, [type |-> "issue_money", contents |-> withdrawal_amount])
        /\ bank_queue' = Append(bank_queue, [type |-> "withdrawal_processed",
                                             contents |-> withdrawal_amount])
    BY <1>9 DEF Atm!WithdrawOk
  <2>2. withdrawal_amount = amount
    BY <2>1 DEF TypeOK
  <2>3. /\ atm_queue' \in Seq(AtmMessage) /\ bank_queue' \in Seq(BankMessage)
        /\ interface_queue' \in Seq(InterfaceMessage)
    BY <2>1, <2>2, AtmTakes, BankGets, InterfaceGets, Sorts
  <2>4. QED
    BY <2>1, <2>3, States DEF TypeOK
<1>10. CASE Atm!Balance
  <2>1. /\ UNCHANGED <<bank_queue, pin, withdrawal_amount, abandoned>>
        /\ state' = "wait_for_action"
        /\ atm_queue # <<>> /\ atm_queue' = Tail(atm_queue)
        /\ Head(atm_queue).type = "balance"
        /\ interface_queue' =
             Append(interface_queue, [type |-> "display_balance",
                                      contents |-> Head(atm_queue).contents])
    BY <1>10 DEF Atm!Balance
  <2>2. atm_queue' \in Seq(AtmMessage) /\ Head(atm_queue).contents \in 0..opening_balance
    BY <2>1, AtmTakes, Sorts
  <2>3. interface_queue' \in Seq(InterfaceMessage)
    BY <2>1, <2>2, InterfaceGets, Sorts
  <2>4. QED
    BY <2>1, <2>2, <2>3, States DEF TypeOK
<1>11. CASE Atm!DoneProcessing
  <2>1. /\ UNCHANGED <<atm_queue, bank_queue, pin, withdrawal_amount, abandoned>>
        /\ state' = "wait_for_card"
        /\ interface_queue' = Append(interface_queue, [type |-> "eject_card", contents |-> 0])
    BY <1>11 DEF Atm!DoneProcessing
  <2>2. interface_queue' \in Seq(InterfaceMessage)
    BY <2>1, InterfaceGets, Sorts
  <2>3. QED
    BY <2>1, <2>2, States DEF TypeOK
<1>12. CASE Atm!AtmDrop
  <2>1. /\ UNCHANGED <<bank_queue, interface_queue, state, pin, withdrawal_amount, abandoned>>
        /\ atm_queue # <<>> /\ atm_queue' = Tail(atm_queue)
    BY <1>12 DEF Atm!AtmDrop, Atm!Drop
  <2>2. atm_queue' \in Seq(AtmMessage)
    BY <2>1, AtmTakes
  <2>3. QED
    BY <2>1, <2>2 DEF TypeOK
<1>13. QED
  BY <1>1, <1>2, <1>3, <1>4, <1>5, <1>6, <1>7, <1>8, <1>9, <1>10, <1>11, <1>12
     DEF Atm!AtmStep

\* The bank, the interface and the main thread.
LEMMA OtherTypes ==
    ASSUME TypeOK,
           \/ BankThread \/ InterfaceThread
           \/ PressKey \/ PressQuit \/ Quit \/ Join \/ UNCHANGED vars
    PROVE  TypeOK'
<1> USE AtmAssumption
<1>1. CASE BankThread
  <2> USE DEF Bank!Handle, Bank!Send, Bank!Message, Bank!Signal
  <2>1. /\ UNCHANGED <<interface_queue, state, pin, withdrawal_amount, abandoned, issued, main>>
        /\ bank_queue # <<>> /\ bank_queue' = Tail(bank_queue)
    BY <1>1 DEF BankThread, Bank!BankStep, Bank!VerifyPin, Bank!Withdraw, Bank!GetBalance,
                Bank!WithdrawalProcessed, Bank!BankClose, atmVars, interfaceVars
  <2>2. bank_queue' \in Seq(BankMessage) /\ Head(bank_queue) \in BankMessage
    BY <2>1, BankTakes
  <2>3. atm_queue' = atm_queue \/ \E msg \in AtmMessage : atm_queue' = Append(atm_queue, msg)
    BY <1>1, Sorts DEF BankThread, Bank!BankStep, Bank!VerifyPin, Bank!Withdraw,
                Bank!GetBalance, Bank!WithdrawalProcessed, Bank!BankClose, TypeOK
  <2>4. atm_queue' \in Seq(AtmMessage)
    BY <2>3, AtmGets DEF TypeOK
  <2>5. balance' \in 0..opening_balance
    <3>1. CASE Bank!Withdraw
      <4>1. Head(bank_queue).contents = amount
        BY <2>2, <3>1, Sorts DEF Bank!Withdraw
      <4>2. balance' = balance \/ (balance >= amount /\ balance' = balance - amount)
        BY <3>1, <4>1 DEF Bank!Withdraw
      <4>3. QED
        BY <4>2 DEF TypeOK
    <3>2. CASE balance' = balance
      BY <3>2 DEF TypeOK
    <3>3. QED
      BY <1>1, <3>1, <3>2 DEF BankThread, Bank!BankStep, Bank!VerifyPin, Bank!GetBalance,
                              Bank!WithdrawalProcessed, Bank!BankClose
  <2>6. QED
    BY <2>1, <2>2, <2>4, <2>5 DEF TypeOK
<1>2. CASE InterfaceThread
  <2>1. /\ UNCHANGED <<atm_queue, bank_queue, state, pin, withdrawal_amount, abandoned,
                       balance, main>>
        /\ interface_queue # <<>> /\ interface_queue' = Tail(interface_queue)
        /\ \/ issued' = issued
           \/ /\ Head(interface_queue).type = "issue_money"
              /\ issued' = issued + Head(interface_queue).contents
    BY <1>2 DEF InterfaceThread, Interface!InterfaceStep, Interface!IssueMoney,
                Interface!Display, Interface!InterfaceClose, Interface!Handle,
                atmVars, bankVars
  <2>2. interface_queue' \in Seq(InterfaceMessage) /\ Head(interface_queue) \in InterfaceMessage
    BY <2>1, InterfaceTakes
  <2>3. issued' \in Nat
    BY <2>1, <2>2, Sorts DEF TypeOK
  <2>4. QED
    BY <2>1, <2>2, <2>3 DEF TypeOK
<1>3. CASE PressKey
  <2>1. /\ UNCHANGED <<bank_queue, interface_queue, atmVars, bankVars, interfaceVars, main>>
        /\ \E msg \in AtmMessage : atm_queue' = Append(atm_queue, msg)
    BY <1>3, Sorts DEF PressKey, Send
  <2>2. atm_queue' \in Seq(AtmMessage)
    BY <2>1, AtmGets
  <2>3. QED
    BY <2>1, <2>2 DEF TypeOK, atmVars, bankVars, interfaceVars
<1>4. CASE Quit
  <2> DEFINE last == [type |-> "close_queue", contents |-> 0]
  <2>1. /\ UNCHANGED <<atmVars, bankVars, interfaceVars>>
        /\ main' \in {"machine.done", "interface.done", "join"}
        /\ \/ /\ bank_queue' = Append(bank_queue, last)
              /\ UNCHANGED <<atm_queue, interface_queue>>
           \/ /\ atm_queue' = Append(atm_queue, last)
              /\ UNCHANGED <<bank_queue, interface_queue>>
           \/ /\ interface_queue' = Append(interface_queue, last)
              /\ UNCHANGED <<atm_queue, bank_queue>>
    BY <1>4 DEF Quit, CloseQueue, Send, Signal, Message
  <2>2. last \in AtmMessage /\ last \in BankMessage /\ last \in InterfaceMessage
    BY Sorts
  <2> HIDE DEF last
  <2>3. /\ atm_queue' \in Seq(AtmMessage) /\ bank_queue' \in Seq(BankMessage)
        /\ interface_queue' \in Seq(InterfaceMessage)
    BY <2>1, <2>2, AtmGets, BankGets, InterfaceGets DEF TypeOK
  <2>4. QED
    BY <2>1, <2>3 DEF TypeOK, atmVars, bankVars, interfaceVars
<1>5. CASE PressQuit \/ Join \/ UNCHANGED vars
  BY <1>5 DEF PressQuit, Join, vars, TypeOK, atmVars, bankVars, interfaceVars
<1>6. QED
  BY <1>1, <1>2, <1>3, <1>4, <1>5
-----------------------------------------------------------------------------
(***************************************************************************)
(* A step keeps questions and answers, PIN and money in order.             *)
(***************************************************************************)
LEMMA Bounds ==
    ASSUME NEW x \in Nat, NEW y \in Nat, NEW n \in Nat
    PROVE  /\ x + y <= n + 0 => x + y <= n + 1
           /\ x + y <= n + 0 /\ n = 0 => x = 0 /\ y = 0
           /\ x + (y + 1) <= n + 1 => x + y <= n + 0
           /\ x + y <= n + 0 => (x + 1) + y <= n + 1
           /\ x + y <= n + 1 => x + y <= (n + 1) + 0
           /\ x + (y + 1) <= n + 0 => x + y <= n + 0
           /\ x + (y + 1) <= n + 1 => x + y <= n + 1
  OBVIOUS

LEMMA MatchLater ==
    ASSUME abandoned' \in Nat, Asked' \in Nat, Answered' \in Nat,
           \/ Asked' + Answered' <= abandoned' + 0
           \/ /\ state' \in {"verifying_pin", "process_withdrawal", "process_balance", "closed"}
              /\ Asked' + Answered' <= abandoned' + 1
    PROVE  AnswersMatch'
<1>1. Outstanding' = Asked' + Answered'
  BY DEF Outstanding, Asked, Answered
<1>2. CASE state' \in Atm!Asking \cup {"closed"}
  <2>1. Asked' + Answered' <= abandoned' + 1
    BY Bounds
  <2>2. QED
    BY <1>1, <1>2, <2>1 DEF AnswersMatch, Atm!Asking
<1>3. CASE state' \notin Atm!Asking \cup {"closed"}
  <2>1. Asked' + Answered' <= abandoned' + 0
    BY <1>3, States
  <2>2. QED
    BY <1>1, <1>3, <2>1 DEF AnswersMatch, Atm!Asking
<1>4. QED
  BY <1>2, <1>3

\* With nothing given up, nothing is under way once the machine has stopped waiting.
LEMMA NoneUnderWay ==
    ASSUME TypeOK', abandoned' = 0, Asked' + Answered' <= abandoned' + 0
    PROVE  /\ \A msg \in Messages(atm_queue') : msg.type # "pin_verified"
           /\ \A msg \in Messages(bank_queue') : msg.type # "verify_pin"
<1>1. atm_queue' \in Seq(AtmMessage) /\ bank_queue' \in Seq(BankMessage)
  BY DEF TypeOK
<1>2. Asked' \in Nat /\ Answered' \in Nat
  BY <1>1, CountFacts DEF Asked, Answered
<1>3. Asked' = 0 /\ Answered' = 0
  BY <1>2, Bounds
<1>4. Count(bank_queue', ToBank) = 0 /\ Count(atm_queue', FromBank) = 0
  BY <1>3 DEF Asked, Answered
<1>5. /\ \A msg \in Messages(atm_queue') : msg.type \notin FromBank
      /\ \A msg \in Messages(bank_queue') : msg.type \notin ToBank
  BY <1>1, <1>4, CountFacts
<1>6. QED
  BY <1>5 DEF FromBank, ToBank

\* b booked, i paid, p promised, g granted, r requested, a abandoned.
LEMMA Sums ==
    ASSUME NEW b \in Nat, NEW i \in Nat, NEW p \in Nat, NEW g \in Nat, NEW r \in Nat,
           NEW a \in Nat
    PROVE  /\ b + r <= i + p + a => b + r <= i + p + a + 1
           \* a grant becomes a promise
           /\ i + p + (g + 1) <= b => i + (p + 1) + g <= b
           /\ b <= i + p + (g + 1) + a => b <= i + (p + 1) + g + a
           /\ b + r <= i + p + a + 1 => /\ b + r <= i + (p + 1) + a
                                        /\ b + r <= i + (p + 1) + a + 1
           \* one more is abandoned
           /\ b <= i + p + g + a => b <= i + p + g + (a + 1)
           /\ b + r <= i + p + a + 1 => /\ b + r <= i + p + (a + 1)
                                        /\ b + r <= i + p + (a + 1) + 1
           \* a withdrawal is denied
           /\ b + (r + 1) <= i + p + a => b + r <= i + p + a
           /\ b + (r + 1) <= i + p + a + 1 => b + r <= i + p + a + 1
           \* a withdrawal is granted
           /\ i + p + g <= b => i + p + (g + 1) <= b + 1
           /\ b <= i + p + g + a => b + 1 <= i + p + (g + 1) + a
           /\ b + (r + 1) <= i + p + a => (b + 1) + r <= i + p + a
           /\ b + (r + 1) <= i + p + a + 1 => (b + 1) + r <= i + p + a + 1
           \* a grant is lost
           /\ i + p + (g + 1) <= b => i + p + g <= b
           /\ b + r <= i + p + a => b <= i + p + g + a
  OBVIOUS

LEMMA MoneyLater ==
    ASSUME IInv, UNCHANGED <<balance, issued>>,
           \A b, i \in Nat : Losses(b, i) => Losses(b, i)'
    PROVE  MoneyInv'
<1>1. PICK b \in Nat, i \in Nat : Ledger(b, i) /\ Losses(b, i)
  BY DEF IInv, MoneyInv
<1>2. Ledger(b, i)' /\ Losses(b, i)'
  BY <1>1 DEF Ledger
<1>3. QED
  BY <1>2 DEF MoneyInv

LEMMA AtmKeeps ==
    ASSUME IInv, TypeOK', Atm!AtmStep, UNCHANGED <<bankVars, interfaceVars, main, keys>>
    PROVE  AnswersMatch' /\ PinInv' /\ MoneyInv'
<1> USE DEF Atm!Waiting, Atm!Handle, Atm!Send, Atm!Become, Atm!Stay, Atm!cardVars,
            Atm!Message, Atm!Signal, bankVars, interfaceVars
<1>0. /\ TypeOK /\ AnswersMatch /\ UNCHANGED <<balance, issued>>
      /\ Asked \in Nat /\ Answered \in Nat
      /\ Requested \in Nat /\ Granted \in Nat /\ Promised \in Nat
      /\ abandoned \in Nat
      /\ Asked' \in Nat /\ Answered' \in Nat
      /\ Requested' \in Nat /\ Granted' \in Nat /\ Promised' \in Nat
      /\ abandoned' \in Nat
  BY Numbers, NumbersLater DEF IInv
<1>1. CASE Atm!Prompt \/ Atm!DoneProcessing
  <2>1. /\ UNCHANGED <<atm_queue, bank_queue, abandoned, pin>> /\ Moves
        /\ \E type \in {"display_enter_card", "display_withdrawal_options", "eject_card"} :
               interface_queue' =
                   Append(interface_queue, [type |-> type, contents |-> 0])
    BY <1>1 DEF Atm!Prompt, Atm!DoneProcessing, Moves
  <2>2. Promised' = Promised
    BY <1>0, <2>1, InterfaceGets, Sorts
  <2>3. SameCounts /\ NoPinSent
    BY <2>1, <2>2 DEF SameCounts, NoPinSent, Asked, Answered, Requested, Granted
  <2>4. QED
    BY <1>0, <2>1, <2>3, Quiet
<1>2. CASE Atm!CardInserted
  <2>1. /\ UNCHANGED <<bank_queue, abandoned>> /\ Moves
        /\ atm_queue # <<>> /\ atm_queue' = Tail(atm_queue)
        /\ Head(atm_queue).type = "card_inserted"
        /\ interface_queue' =
               Append(interface_queue, [type |-> "display_enter_pin", contents |-> 0])
    BY <1>2 DEF Atm!CardInserted, Moves
  <2>2. Promised' = Promised
    BY <1>0, <2>1, InterfaceGets, Sorts
  <2>3. /\ Answered' = Answered /\ Granted' = Granted
        /\ Messages(atm_queue') \subseteq Messages(atm_queue)
    BY <1>0, <2>1, AtmTakes DEF FromBank
  <2>4. SameCounts /\ NoPinSent
    BY <2>1, <2>2, <2>3 DEF SameCounts, NoPinSent, Asked, Requested
  <2>5. QED
    BY <1>0, <2>1, <2>4, Quiet
<1>3. CASE Atm!DigitPressed
  <2>1. /\ UNCHANGED <<interface_queue, abandoned>>
        /\ state = "getting_pin"
        /\ atm_queue # <<>> /\ atm_queue' = Tail(atm_queue)
        /\ Head(atm_queue).type = "digit_pressed"
        /\ \/ /\ state' = "verifying_pin"
              /\ bank_queue' = Append(bank_queue, [type |-> "verify_pin", contents |-> pin'])
           \/ state' = "getting_pin" /\ bank_queue' = bank_queue
    BY <1>3 DEF Atm!DigitPressed
  <2>2. /\ Answered' = Answered /\ Granted' = Granted
        /\ Messages(atm_queue') \subseteq Messages(atm_queue)
    BY <1>0, <2>1, AtmTakes DEF FromBank
  <2>3. CASE state' = "getting_pin"
    <3>1. SameCounts /\ NoPinSent /\ Moves
      BY <2>1, <2>2, <2>3 DEF SameCounts, NoPinSent, Moves, Asked, Requested, Promised
    <3>2. QED
      BY <1>0, <2>1, <3>1, Quiet
  <2>4. CASE state' = "verifying_pin"
    <3> DEFINE msg == [type |-> "verify_pin", contents |-> pin']
    <3>1. msg \in BankMessage /\ bank_queue' = Append(bank_queue, msg)
      BY <2>1, <2>4, Sorts DEF TypeOK
    <3>2. msg.type = "verify_pin" /\ msg.contents = pin'
      OBVIOUS
    <3> HIDE DEF msg
    <3>3. /\ Asked' = Asked + 1 /\ Requested' = Requested
          /\ Messages(bank_queue') = Messages(bank_queue) \cup {msg}
      BY <1>0, <3>1, <3>2, BankGets DEF ToBank
    <3>4. Promised' = Promised
      BY <2>1 DEF Promised
    <3>5. Asked + Answered <= abandoned + 0
      BY <1>0, <2>1, MatchByState
    <3>6. AnswersMatch'
      BY <1>0, <2>1, <2>2, <2>4, <3>3, <3>5, MatchLater
    <3>7. PinInv'
      BY <2>1, <2>2, <2>4, <3>2, <3>3 DEF IInv, PinInv
    <3>8. ASSUME NEW b \in Nat, NEW i \in Nat, Losses(b, i) PROVE Losses(b, i)'
      BY <1>0, <2>1, <2>2, <2>4, <3>3, <3>4, <3>8 DEF Losses
    <3>9. QED
      BY <1>0, <3>6, <3>7, <3>8, MoneyLater
  <2>5. QED
    BY <2>1, <2>3, <2>4
<1>4. CASE Atm!ClearLastPressed
  <2>1. /\ UNCHANGED <<bank_queue, interface_queue, abandoned>> /\ Moves
        /\ atm_queue # <<>> /\ atm_queue' = Tail(atm_queue)
        /\ Head(atm_queue).type = "clear_last_pressed"
    BY <1>4 DEF Atm!ClearLastPressed, Moves
  <2>2. /\ Answered' = Answered /\ Granted' = Granted
        /\ Messages(atm_queue') \subseteq Messages(atm_queue)
    BY <1>0, <2>1, AtmTakes DEF FromBank
  <2>3. SameCounts /\ NoPinSent
    BY <2>1, <2>2 DEF SameCounts, NoPinSent, Asked, Requested, Promised
  <2>4. QED
    BY <1>0, <2>1, <2>3, Quiet
<1>5. CASE Atm!PinVerified \/ Atm!PinIncorrect
  <2>1. /\ UNCHANGED <<bank_queue, abandoned, pin>>
        /\ state = "verifying_pin" /\ state' \in {"wait_for_action", "done_processing"}
        /\ state' = "wait_for_action" => Head(atm_queue).type = "pin_verified"
        /\ atm_queue # <<>> /\ atm_queue' = Tail(atm_queue)
        /\ Head(atm_queue).type \in {"pin_verified", "pin_incorrect"}
        /\ \/ interface_queue' = interface_queue
           \/ interface_queue' =
                  Append(interface_queue, [type |-> "display_pin_incorrect_message",
                                           contents |-> 0])
    BY <1>5 DEF Atm!PinVerified, Atm!PinIncorrect
  <2>2. Promised' = Promised
    <3>1. CASE interface_queue' = interface_queue
      BY <3>1 DEF Promised
    <3>2. CASE interface_queue' # interface_queue
      BY <1>0, <2>1, <3>2, InterfaceGets, Sorts
    <3>3. QED
      BY <3>1, <3>2
  <2>3. /\ Answered = Answered' + 1 /\ Answered' \in Nat /\ Granted' = Granted
        /\ Head(atm_queue) \in Messages(atm_queue)
    BY <1>0, <2>1, AtmTakes DEF FromBank
  <2>4. Asked' = Asked /\ Requested' = Requested
    BY <2>1 DEF Asked, Requested
  <2>5. Asked' + Answered' <= abandoned' + 0
    <3>1. Asked + Answered <= abandoned + 1
      BY <1>0, <2>1, MatchByState
    <3>2. abandoned' = abandoned
      BY <2>1
    <3>3. Asked' + (Answered' + 1) <= abandoned' + 1
      BY <2>3, <2>4, <3>1, <3>2
    <3>4. QED
      BY <1>0, <3>3, Bounds
  <2>6. AnswersMatch'
    BY <1>0, <2>1, <2>3, <2>4, <2>5, MatchLater
  <2>7. PinInv'
    <3>1. abandoned' = 0 => /\ \A msg \in Messages(atm_queue') : msg.type # "pin_verified"
                            /\ \A msg \in Messages(bank_queue') : msg.type # "verify_pin"
      BY <2>5, NoneUnderWay
    <3>2. abandoned' = 0 /\ state' = "wait_for_action" => pin' = bank_pin
      BY <2>1, <2>3 DEF IInv, PinInv
    <3>3. QED
      BY <2>1, <3>1, <3>2 DEF PinInv
  <2>8. ASSUME NEW b \in Nat, NEW i \in Nat, Losses(b, i) PROVE Losses(b, i)'
    BY <1>0, <2>1, <2>2, <2>3, <2>4, <2>8 DEF Losses
  <2>9. QED
    BY <1>0, <2>6, <2>7, <2>8, MoneyLater
<1>6. CASE Atm!WithdrawPressed \/ Atm!BalancePressed
  <2>1. /\ UNCHANGED <<interface_queue, abandoned, pin>>
        /\ state = "wait_for_action"
        /\ atm_queue # <<>> /\ atm_queue' = Tail(atm_queue)
        /\ Head(atm_queue).type \in {"withdraw_pressed", "balance_pressed"}
        /\ \/ /\ state' = "process_withdrawal" /\ withdrawal_amount' = amount
              /\ bank_queue' = Append(bank_queue, [type |-> "withdraw",
                                                   contents |-> withdrawal_amount'])
           \/ /\ state' = "process_balance"
              /\ bank_queue' = Append(bank_queue, [type |-> "get_balance", contents |-> 0])
    <3>1. state' = "process_withdrawal" => withdrawal_amount' = amount
      BY DEF TypeOK
    <3>2. QED
      BY <1>6, <3>1 DEF Atm!WithdrawPressed, Atm!BalancePressed
  <2>2. PICK msg \in BankMessage :
            /\ bank_queue' = Append(bank_queue, msg)
            /\ msg.type \in {"withdraw", "get_balance"}
            /\ msg.type = "withdraw" => state' = "process_withdrawal"
    BY <2>1, Sorts
  <2>3. /\ Answered = Answered' /\ Granted' = Granted
        /\ Messages(atm_queue') \subseteq Messages(atm_queue)
    BY <1>0, <2>1, AtmTakes DEF FromBank
  <2>4. /\ Asked' = Asked + 1
        /\ Requested' = Requested \/ (Requested' = Requested + 1 /\ msg.type = "withdraw")
        /\ Messages(bank_queue') = Messages(bank_queue) \cup {msg}
        /\ Promised' = Promised
    BY <1>0, <2>1, <2>2, BankGets DEF ToBank, Promised
  <2>5. AnswersMatch'
    <3>1. Asked + Answered <= abandoned + 0
      BY <1>0, <2>1, MatchByState
    <3>2. (Asked + 1) + Answered <= abandoned + 1
      BY <1>0, <3>1, Bounds
    <3>3. Asked' + Answered' <= abandoned' + 1
      BY <2>1, <2>3, <2>4, <3>2
    <3>4. QED
      BY <1>0, <2>1, <3>3, MatchLater
  <2>6. PinInv'
    BY <2>1, <2>2, <2>3, <2>4 DEF IInv, PinInv
  <2>7. ASSUME NEW b \in Nat, NEW i \in Nat, Losses(b, i) PROVE Losses(b, i)'
    <3>1. b + Requested <= i + Promised + abandoned
      BY <2>1, <2>7 DEF Losses
    <3>2. CASE Requested' = Requested + 1
      <4>1. state' = "process_withdrawal" /\ abandoned' = abandoned
        BY <2>1, <2>2, <2>4, <3>2, <1>0
      <4>2. b + (Requested + 1) <= i + Promised + abandoned + 1
        BY <1>0, <3>1
      <4>3. b + Requested' <= i + Promised' + abandoned' + 1
        BY <2>4, <3>2, <4>1, <4>2
      <4>4. QED
        BY <2>3, <2>4, <2>7, <4>1, <4>3 DEF Losses
    <3>3. CASE Requested' = Requested
      BY <1>0, <2>1, <2>3, <2>4, <2>7, <3>1, <3>3 DEF Losses
    <3>4. QED
      BY <2>4, <3>2, <3>3
  <2>8. QED
    BY <1>0, <2>5, <2>6, <2>7, MoneyLater
<1>7. CASE Atm!WithdrawOk
  <2>1. /\ UNCHANGED <<abandoned, pin>>
        /\ state = "process_withdrawal" /\ state' = "done_processing"
        /\ atm_queue # <<>> /\ atm_queue' = Tail(atm_queue)
        /\ Head(atm_queue).type = "withdraw_ok"
        /\ interface_queue' =
             Append(interface_queue, [type |-> "issue_money", contents |-> withdrawal_amount])
        /\ bank_queue' = Append(bank_queue, [type |-> "withdrawal_processed",
                                             contents |-> withdrawal_amount])
    BY <1>7 DEF Atm!WithdrawOk
  <2>2. withdrawal_amount = amount
    BY <1>0, <2>1 DEF TypeOK
  <2>3. PICK msg \in BankMessage : /\ msg.type = "withdrawal_processed"
                                  /\ bank_queue' = Append(bank_queue, msg)
    BY <2>1, <2>2, Sorts
  <2>4. /\ Asked' = Asked /\ Requested' = Requested
        /\ Messages(bank_queue') = Messages(bank_queue) \cup {msg}
    BY <1>0, <2>3, BankGets DEF ToBank
  <2>5. Promised' = Promised + 1
    BY <1>0, <2>1, <2>2, InterfaceGets, Sorts
  <2>6. /\ Answered = Answered' + 1 /\ Granted = Granted' + 1
        /\ Messages(atm_queue') \subseteq Messages(atm_queue)
    BY <1>0, <2>1, AtmTakes DEF FromBank
  <2>7. AnswersMatch'
    <3>1. Asked + Answered <= abandoned + 1
      BY <1>0, <2>1, MatchByState
    <3>2. Asked' + (Answered' + 1) <= abandoned' + 1
      BY <2>1, <2>4, <2>6, <3>1
    <3>3. QED
      BY <1>0, <3>2, Bounds, MatchLater
  <2>8. PinInv'
    BY <2>1, <2>3, <2>4, <2>6 DEF IInv, PinInv
  <2>9. ASSUME NEW b \in Nat, NEW i \in Nat, Losses(b, i) PROVE Losses(b, i)'
    <3>1. /\ i + (Promised + 1) + Granted' <= b
          /\ b <= i + (Promised + 1) + Granted' + abandoned
          /\ b + Requested <= i + (Promised + 1) + abandoned
          /\ b + Requested <= i + (Promised + 1) + abandoned + 1
      BY <1>0, <2>6, <2>9, Sums DEF Losses
    <3>2. QED
      BY <2>1, <2>4, <2>5, <3>1 DEF Losses
  <2>10. QED
    BY <1>0, <2>7, <2>8, <2>9, MoneyLater
<1>8. CASE Atm!Balance
  <2>1. /\ UNCHANGED <<bank_queue, abandoned, pin>>
        /\ state = "process_balance" /\ state' = "wait_for_action"
        /\ atm_queue # <<>> /\ atm_queue' = Tail(atm_queue)
        /\ Head(atm_queue).type = "balance"
        /\ interface_queue' =
             Append(interface_queue, [type |-> "display_balance",
                                      contents |-> Head(atm_queue).contents])
    BY <1>8 DEF Atm!Balance
  <2>2. /\ Answered = Answered' + 1 /\ Granted = Granted'
        /\ Messages(atm_queue') \subseteq Messages(atm_queue)
        /\ Head(atm_queue) \in AtmMessage
    BY <1>0, <2>1, AtmTakes DEF FromBank
  <2>3. Promised' = Promised
    BY <1>0, <2>1, <2>2, InterfaceGets, Sorts
  <2>4. Asked' = Asked /\ Requested' = Requested
    BY <2>1 DEF Asked, Requested
  <2>5. AnswersMatch'
    <3>1. Asked + Answered <= abandoned + 1
      BY <1>0, <2>1, MatchByState
    <3>2. Asked' + (Answered' + 1) <= abandoned' + 1
      BY <2>1, <2>2, <2>4, <3>1
    <3>3. QED
      BY <1>0, <3>2, Bounds, MatchLater
  <2>6. PinInv'
    BY <2>1, <2>2 DEF IInv, PinInv
  <2>7. ASSUME NEW b \in Nat, NEW i \in Nat, Losses(b, i) PROVE Losses(b, i)'
    BY <1>0, <2>1, <2>2, <2>3, <2>4, <2>7 DEF Losses
  <2>8. QED
    BY <1>0, <2>5, <2>6, <2>7, MoneyLater
<1>9. CASE Atm!CancelPressed
  <2>1. /\ UNCHANGED <<bank_queue, interface_queue, pin>>
        /\ state # "closed" /\ state' = "done_processing"
        /\ abandoned' = IF state \in Atm!Asking THEN abandoned + 1 ELSE abandoned
        /\ atm_queue # <<>> /\ atm_queue' = Tail(atm_queue)
        /\ Head(atm_queue).type = "cancel_pressed"
    BY <1>9, States DEF Atm!CancelPressed
  <2>2. /\ Answered = Answered' /\ Granted = Granted'
        /\ Messages(atm_queue') \subseteq Messages(atm_queue)
    BY <1>0, <2>1, AtmTakes DEF FromBank
  <2>3. Asked' = Asked /\ Requested' = Requested /\ Promised' = Promised
    BY <2>1 DEF Asked, Requested, Promised
  <2>4. CASE state \in {"verifying_pin", "process_withdrawal", "process_balance"}
    <3>1. abandoned' = abandoned + 1
      BY <2>1, <2>4, States
    <3>2. AnswersMatch'
      <4>1. Asked + Answered <= abandoned + 1
        BY <1>0, <2>4, MatchByState
      <4>2. Asked' + Answered' <= abandoned' + 0
        BY <1>0, <2>2, <2>3, <3>1, <4>1, Bounds
      <4>3. QED
        BY <1>0, <4>2, MatchLater
    <3>3. PinInv'
      BY <1>0, <3>1 DEF PinInv
    <3>4. ASSUME NEW b \in Nat, NEW i \in Nat, Losses(b, i) PROVE Losses(b, i)'
      <4>1. /\ i + Promised + Granted <= b
            /\ b <= i + Promised + Granted + (abandoned + 1)
            /\ b + Requested <= i + Promised + (abandoned + 1)
            /\ b + Requested <= i + Promised + (abandoned + 1) + 1
        BY <1>0, <3>4, Sums DEF Losses
      <4>2. QED
        BY <2>2, <2>3, <3>1, <4>1 DEF Losses
    <3>5. QED
      BY <1>0, <3>2, <3>3, <3>4, MoneyLater
  <2>5. CASE state \notin {"verifying_pin", "process_withdrawal", "process_balance"}
    <3>1. abandoned' = abandoned
      BY <2>1, <2>5, States
    <3>2. AnswersMatch'
      <4>1. Asked + Answered <= abandoned + 0
        BY <1>0, <2>1, <2>5, MatchByState
      <4>2. Asked' + Answered' <= abandoned' + 0
        BY <2>2, <2>3, <3>1, <4>1
      <4>3. QED
        BY <1>0, <4>2, MatchLater
    <3>3. PinInv'
      BY <2>1, <2>2, <2>5, <3>1 DEF IInv, PinInv
    <3>4. ASSUME NEW b \in Nat, NEW i \in Nat, Losses(b, i) PROVE Losses(b, i)'
      BY <1>0, <2>1, <2>2, <2>3, <2>5, <3>1, <3>4 DEF Losses
    <3>5. QED
      BY <1>0, <3>2, <3>3, <3>4, MoneyLater
  <2>6. QED
    BY <2>4, <2>5
<1>10. CASE Atm!AtmDrop
  <2>1. /\ UNCHANGED <<bank_queue, interface_queue, pin, state, abandoned>>
        /\ state # "closed"
        /\ atm_queue # <<>> /\ atm_queue' = Tail(atm_queue)
        /\ state = "process_withdrawal" => Head(atm_queue).type # "withdraw_ok"
    <3>1. Atm!Handled["process_withdrawal"] =
              {"withdraw_ok", "clear_last_pressed", "cancel_pressed"}
      BY DEF Atm!Handled
    <3>2. QED
      BY <1>10, <3>1, States DEF Atm!AtmDrop, Atm!Drop
  <2>2. /\ Answered = Answered' \/ Answered = Answered' + 1
        /\ Granted = Granted' \/ (Granted = Granted' + 1 /\ state # "process_withdrawal")
        /\ Messages(atm_queue') \subseteq Messages(atm_queue)
    BY <1>0, <2>1, AtmTakes
  <2>3. Asked' = Asked /\ Requested' = Requested /\ Promised' = Promised
    BY <2>1 DEF Asked, Requested, Promised
  <2>4. AnswersMatch'
    <3>1. CASE state \in {"verifying_pin", "process_withdrawal", "process_balance"}
      <4>1. Asked + Answered <= abandoned + 1
        BY <1>0, <3>1, MatchByState
      <4>2. Asked' + Answered' <= abandoned' + 1
        BY <1>0, <2>1, <2>2, <2>3, <4>1, Bounds
      <4>3. QED
        BY <1>0, <2>1, <3>1, <4>2, MatchLater
    <3>2. CASE state \notin {"verifying_pin", "process_withdrawal", "process_balance"}
      <4>1. Asked + Answered <= abandoned + 0
        BY <1>0, <2>1, <3>2, MatchByState
      <4>2. Asked' + Answered' <= abandoned' + 0
        BY <1>0, <2>1, <2>2, <2>3, <4>1, Bounds
      <4>3. QED
        BY <1>0, <4>2, MatchLater
    <3>3. QED
      BY <3>1, <3>2
  <2>5. PinInv'
    BY <2>1, <2>2 DEF IInv, PinInv
  <2>6. ASSUME NEW b \in Nat, NEW i \in Nat, Losses(b, i) PROVE Losses(b, i)'
    <3>1. CASE Granted = Granted'
      BY <2>1, <2>3, <2>6, <3>1 DEF Losses
    <3>2. CASE Granted = Granted' + 1 /\ state # "process_withdrawal"
      <4>1. b + Requested <= i + Promised + abandoned
        BY <2>1, <2>6, <3>2 DEF Losses
      <4>2. b + Requested <= i + Promised + abandoned + 1
        BY <1>0, <4>1, Sums
      <4>3. b <= i + Promised + Granted' + abandoned /\ i + Promised + Granted' <= b
        <5>1. i + Promised + (Granted' + 1) <= b
          BY <2>6, <3>2 DEF Losses
        <5>2. QED
          BY <1>0, <4>1, <5>1, Sums
      <4>4. QED
        BY <2>1, <2>3, <4>1, <4>2, <4>3 DEF Losses
    <3>3. QED
      BY <2>2, <3>1, <3>2
  <2>7. QED
    BY <1>0, <2>4, <2>5, <2>6, MoneyLater
<1>11. CASE Atm!AtmClose
  <2>1. /\ UNCHANGED <<bank_queue, interface_queue, pin, abandoned>>
        /\ state' = "closed"
        /\ atm_queue # <<>> /\ atm_queue' = Tail(atm_queue)
        /\ Head(atm_queue).type = "close_queue"
    BY <1>11 DEF Atm!AtmClose
  <2>2. /\ Answered = Answered' /\ Granted = Granted'
        /\ Messages(atm_queue') \subseteq Messages(atm_queue)
    BY <1>0, <2>1, AtmTakes DEF FromBank
  <2>3. Asked' = Asked /\ Requested' = Requested /\ Promised' = Promised
    BY <2>1 DEF Asked, Requested, Promised
  <2>4. AnswersMatch'
    <3>1. Asked + Answered <= abandoned + 1
      BY <1>0, MatchByState, Bounds
    <3>2. Asked' + Answered' <= abandoned' + 1
      BY <2>1, <2>2, <2>3, <3>1
    <3>3. QED
      BY <1>0, <2>1, <3>2, MatchLater
  <2>5. PinInv'
    BY <2>1, <2>2 DEF IInv, PinInv
  <2>6. ASSUME NEW b \in Nat, NEW i \in Nat, Losses(b, i) PROVE Losses(b, i)'
    BY <1>0, <2>1, <2>2, <2>3, <2>6 DEF Losses
  <2>7. QED
    BY <1>0, <2>4, <2>5, <2>6, MoneyLater
<1>12. QED
  BY <1>1, <1>2, <1>3, <1>4, <1>5, <1>6, <1>7, <1>8, <1>9, <1>10, <1>11 DEF Atm!AtmStep

\* The bank moves one question to an answer, and books a withdrawal it grants.
LEMMA BankKeeps ==
    ASSUME IInv, TypeOK', BankThread
    PROVE  AnswersMatch' /\ PinInv' /\ MoneyInv'
<1> USE DEF Bank!Handle, Bank!Send, Bank!Message, Bank!Signal
<1>0. /\ TypeOK /\ AnswersMatch
      /\ UNCHANGED <<interface_queue, state, pin, abandoned, issued>>
      /\ Asked \in Nat /\ Answered \in Nat
      /\ Requested \in Nat /\ Granted \in Nat /\ Promised \in Nat
      /\ abandoned \in Nat
      /\ Asked' \in Nat /\ Answered' \in Nat
      /\ Requested' \in Nat /\ Granted' \in Nat /\ Promised' \in Nat
  BY Numbers, NumbersLater DEF IInv, BankThread, atmVars, interfaceVars
<1>1. bank_queue # <<>> /\ bank_queue' = Tail(bank_queue)
  BY DEF BankThread, Bank!BankStep, Bank!VerifyPin, Bank!Withdraw, Bank!GetBalance,
         Bank!WithdrawalProcessed, Bank!BankClose
<1>2. /\ Head(bank_queue) \in BankMessage /\ Head(bank_queue) \in Messages(bank_queue)
      /\ Messages(bank_queue') \subseteq Messages(bank_queue)
      /\ Promised' = Promised
  BY <1>0, <1>1, BankTakes DEF Promised
<1>3. ASSUME Asked = Asked' + 1, Answered' = Answered + 1
      PROVE  AnswersMatch'
  <2>1. Outstanding' = Outstanding
    <3>1. Outstanding = Asked + Answered /\ Outstanding' = Asked' + Answered'
      BY DEF Outstanding, Asked, Answered
    <3>2. QED
      BY <1>0, <1>3, <3>1
  <2>2. QED
    BY <1>0, <2>1 DEF AnswersMatch, Atm!Asking
<1>4. CASE Bank!VerifyPin
  <2>1. Head(bank_queue).type = "verify_pin" /\ balance' = balance
    BY <1>4 DEF Bank!VerifyPin
  <2>2. PICK msg \in AtmMessage :
            /\ atm_queue' = Append(atm_queue, msg)
            /\ msg.type \in {"pin_verified", "pin_incorrect"}
            /\ msg.type = "pin_verified" => Head(bank_queue).contents = bank_pin
    BY <1>4, Sorts DEF Bank!VerifyPin
  <2>3. Asked = Asked' + 1 /\ Requested' = Requested
    BY <1>0, <1>1, <2>1, BankTakes DEF ToBank
  <2>4. /\ Answered' = Answered + 1 /\ Granted' = Granted
        /\ Messages(atm_queue') = Messages(atm_queue) \cup {msg}
    BY <1>0, <2>2, AtmGets DEF FromBank
  <2>5. PinInv'
    <3> SUFFICES ASSUME abandoned' = 0 PROVE PinInv'
      BY DEF PinInv
    <3>1. /\ abandoned = 0 /\ state \in {"verifying_pin", "closed"}
          /\ Head(bank_queue).contents = pin
      BY <1>0, <1>2, <2>1 DEF IInv, PinInv
    <3>2. msg.type = "pin_verified" => pin' = bank_pin
      BY <1>0, <2>2, <3>1
    <3>3. QED
      BY <1>0, <1>2, <2>4, <3>1, <3>2 DEF IInv, PinInv
  <2>6. ASSUME NEW b \in Nat, NEW i \in Nat, Losses(b, i) PROVE Losses(b, i)'
    BY <1>0, <1>2, <2>3, <2>4, <2>6 DEF Losses
  <2>7. QED
    BY <1>0, <1>3, <2>1, <2>3, <2>4, <2>5, <2>6, MoneyLater
<1>5. CASE Bank!Withdraw
  <2>1. Head(bank_queue).type = "withdraw"
    BY <1>5 DEF Bank!Withdraw
  <2>2. Head(bank_queue).contents = amount
    BY <1>2, <2>1, Sorts
  <2>3. PICK msg \in AtmMessage :
            /\ atm_queue' = Append(atm_queue, msg)
            /\ \/ msg.type = "withdraw_ok" /\ balance' = balance - amount
               \/ msg.type = "withdraw_denied" /\ balance' = balance
    BY <1>5, <2>2, Sorts DEF Bank!Withdraw
  <2>4. Asked = Asked' + 1 /\ Requested = Requested' + 1
    BY <1>0, <1>1, <2>1, BankTakes DEF ToBank
  <2>5. /\ Answered' = Answered + 1
        /\ msg.type = "withdraw_ok" => Granted' = Granted + 1
        /\ msg.type = "withdraw_denied" => Granted' = Granted
        /\ Messages(atm_queue') = Messages(atm_queue) \cup {msg}
    BY <1>0, <2>3, AtmGets DEF FromBank
  <2>6. PinInv'
    BY <1>0, <1>2, <2>3, <2>5 DEF IInv, PinInv
  <2>7. MoneyInv'
    <3>1. PICK b \in Nat, i \in Nat : Ledger(b, i) /\ Losses(b, i)
      BY DEF IInv, MoneyInv
    <3>2. /\ i + Promised + Granted <= b
          /\ b <= i + Promised + Granted + abandoned
          /\ b + (Requested' + 1) <= i + Promised + abandoned + 1
          /\ state \notin {"process_withdrawal", "closed"} =>
                 b + (Requested' + 1) <= i + Promised + abandoned
      BY <2>4, <3>1 DEF Losses
    <3>3. CASE msg.type = "withdraw_denied"
      <4>1. Ledger(b, i)'
        BY <1>0, <2>3, <3>1, <3>3 DEF Ledger
      <4>2. /\ b + Requested' <= i + Promised + abandoned + 1
            /\ state \notin {"process_withdrawal", "closed"} =>
                   b + Requested' <= i + Promised + abandoned
        BY <1>0, <3>2, Sums
      <4>3. Losses(b, i)'
        BY <1>0, <1>2, <2>5, <3>2, <3>3, <4>2 DEF Losses
      <4>4. QED
        BY <4>1, <4>3 DEF MoneyInv
    <3>4. CASE msg.type = "withdraw_ok"
      <4>1. Ledger(b + 1, i)'
        <5>1. opening_balance - amount * b - amount = opening_balance - amount * (b + 1)
          BY AtmAssumption
        <5>2. QED
          BY <1>0, <2>3, <3>1, <3>4, <5>1 DEF Ledger
      <4>2. /\ i + Promised + (Granted + 1) <= b + 1
            /\ b + 1 <= i + Promised + (Granted + 1) + abandoned
            /\ (b + 1) + Requested' <= i + Promised + abandoned + 1
            /\ state \notin {"process_withdrawal", "closed"} =>
                   (b + 1) + Requested' <= i + Promised + abandoned
        BY <1>0, <3>2, Sums
      <4>3. Losses(b + 1, i)'
        BY <1>0, <1>2, <2>5, <3>4, <4>2 DEF Losses
      <4>4. b + 1 \in Nat
        OBVIOUS
      <4>5. QED
        BY <4>1, <4>3, <4>4 DEF MoneyInv
    <3>5. QED
      BY <2>3, <3>3, <3>4
  <2>8. QED
    BY <1>3, <2>4, <2>5, <2>6, <2>7
<1>6. CASE Bank!GetBalance
  <2>1. Head(bank_queue).type = "get_balance" /\ balance' = balance
    BY <1>6 DEF Bank!GetBalance
  <2>2. PICK msg \in AtmMessage :
            msg.type = "balance" /\ atm_queue' = Append(atm_queue, msg)
    BY <1>0, <1>6, Sorts DEF Bank!GetBalance, TypeOK
  <2>3. Asked = Asked' + 1 /\ Requested' = Requested
    BY <1>0, <1>1, <2>1, BankTakes DEF ToBank
  <2>4. /\ Answered' = Answered + 1 /\ Granted' = Granted
        /\ Messages(atm_queue') = Messages(atm_queue) \cup {msg}
    BY <1>0, <2>2, AtmGets DEF FromBank
  <2>5. PinInv'
    BY <1>0, <1>2, <2>2, <2>4 DEF IInv, PinInv
  <2>6. ASSUME NEW b \in Nat, NEW i \in Nat, Losses(b, i) PROVE Losses(b, i)'
    BY <1>0, <1>2, <2>3, <2>4, <2>6 DEF Losses
  <2>7. QED
    BY <1>0, <1>3, <2>1, <2>3, <2>4, <2>5, <2>6, MoneyLater
<1>7. CASE Bank!WithdrawalProcessed \/ Bank!BankClose
  <2>1. /\ Head(bank_queue).type \in {"withdrawal_processed", "close_queue"}
        /\ UNCHANGED <<atm_queue, balance>>
    BY <1>7 DEF Bank!WithdrawalProcessed, Bank!BankClose
  <2>2. Asked' = Asked /\ Requested' = Requested
    BY <1>0, <1>1, <2>1, BankTakes DEF ToBank
  <2>3. SameCounts /\ NoPinSent /\ Moves
    BY <1>0, <1>2, <2>1, <2>2 DEF SameCounts, NoPinSent, Moves, Answered, Granted
  <2>4. QED
    BY <1>0, <2>1, <2>3, Quiet
<1>8. QED
  BY <1>4, <1>5, <1>6, <1>7 DEF BankThread, Bank!BankStep

\* The interface pays out what was promised.
LEMMA InterfaceKeeps ==
    ASSUME IInv, TypeOK', InterfaceThread
    PROVE  AnswersMatch' /\ PinInv' /\ MoneyInv'
<1> USE DEF Interface!Handle
<1>0. /\ TypeOK /\ UNCHANGED <<atm_queue, bank_queue, state, pin, abandoned, balance>>
      /\ Requested \in Nat /\ Granted \in Nat /\ Promised \in Nat
      /\ Promised' \in Nat /\ abandoned \in Nat
  BY Numbers, NumbersLater DEF IInv, InterfaceThread, atmVars, bankVars
<1>1. interface_queue # <<>> /\ interface_queue' = Tail(interface_queue)
  BY DEF InterfaceThread, Interface!InterfaceStep, Interface!IssueMoney, Interface!Display,
         Interface!InterfaceClose
<1>2. /\ Asked' = Asked /\ Requested' = Requested
      /\ Answered' = Answered /\ Granted' = Granted
  BY <1>0 DEF Asked, Requested, Answered, Granted
<1>3. CASE Interface!IssueMoney
  <2>1. Head(interface_queue).type = "issue_money"
        /\ issued' = issued + Head(interface_queue).contents
    BY <1>3 DEF Interface!IssueMoney
  <2>2. Promised = Promised' + 1 /\ issued' = issued + amount
    BY <1>0, <1>1, <2>1, InterfaceTakes, Sorts
  <2>3. AnswersMatch'
    <3>1. Outstanding' = Outstanding
      BY <1>0 DEF Outstanding
    <3>2. QED
      BY <1>0, <3>1 DEF IInv, AnswersMatch, Atm!Asking
  <2>4. PinInv'
    BY <1>0 DEF IInv, PinInv
  <2>5. PICK b \in Nat, i \in Nat : Ledger(b, i) /\ Losses(b, i)
    BY DEF IInv, MoneyInv
  <2>6. Ledger(b, i + 1)'
    <3>1. amount * i + amount = amount * (i + 1)
      BY AtmAssumption
    <3>2. QED
      BY <1>0, <2>2, <2>5, <3>1 DEF Ledger
  <2>7. Losses(b, i + 1)'
    <3>1. (i + 1) + Promised' = i + Promised
      BY <1>0, <2>2
    <3>2. QED
      BY <1>0, <1>2, <2>5, <3>1 DEF Losses
  <2>8. i + 1 \in Nat
    OBVIOUS
  <2>9. QED
    BY <2>3, <2>4, <2>6, <2>7, <2>8 DEF MoneyInv
<1>4. CASE Interface!Display \/ Interface!InterfaceClose
  <2>1. Head(interface_queue).type # "issue_money" /\ issued' = issued
    BY <1>4 DEF Interface!Display, Interface!InterfaceClose
  <2>2. Promised' = Promised
    BY <1>0, <1>1, <2>1, InterfaceTakes
  <2>3. SameCounts /\ NoPinSent /\ Moves
    BY <1>0, <1>2, <2>2 DEF SameCounts, NoPinSent, Moves
  <2>4. QED
    BY <1>0, <2>1, <2>3, Quiet
<1>5. QED
  BY <1>3, <1>4 DEF InterfaceThread, Interface!InterfaceStep

\* The main thread sends keys and the ends of the queues.
LEMMA MainKeeps ==
    ASSUME IInv, TypeOK', PressKey \/ PressQuit \/ Quit \/ Join \/ UNCHANGED vars
    PROVE  AnswersMatch' /\ PinInv' /\ MoneyInv'
<1>0. TypeOK /\ UNCHANGED <<state, pin, abandoned, balance, issued>>
  BY DEF IInv, PressKey, PressQuit, Quit, Join, vars, atmVars, bankVars, interfaceVars
<1>1. SameCounts /\ NoPinSent
  <2>1. CASE PressKey
    <3>1. UNCHANGED <<bank_queue, interface_queue>>
      BY <2>1 DEF PressKey
    <3>2. PICK msg \in AtmMessage : /\ atm_queue' = Append(atm_queue, msg)
                                   /\ msg.type \notin FromBank
      BY <2>1, Sorts DEF PressKey, Send
    <3>3. /\ Answered' = Answered /\ Granted' = Granted /\ msg.type # "pin_verified"
          /\ Messages(atm_queue') = Messages(atm_queue) \cup {msg}
      BY <1>0, <3>2, AtmGets DEF FromBank
    <3>4. QED
      BY <3>1, <3>3 DEF SameCounts, NoPinSent, Asked, Requested, Promised
  <2>2. CASE Quit
    <3> DEFINE last == [type |-> "close_queue", contents |-> 0]
    <3>1. /\ last \in AtmMessage /\ last \in BankMessage /\ last \in InterfaceMessage
          /\ last.type = "close_queue"
      BY Sorts
    <3>2. \/ /\ bank_queue' = Append(bank_queue, last)
             /\ UNCHANGED <<atm_queue, interface_queue>>
          \/ /\ atm_queue' = Append(atm_queue, last)
             /\ UNCHANGED <<bank_queue, interface_queue>>
          \/ /\ interface_queue' = Append(interface_queue, last)
             /\ UNCHANGED <<atm_queue, bank_queue>>
      BY <2>2 DEF Quit, CloseQueue, Send, Signal, Message
    <3> HIDE DEF last
    <3>3. CASE bank_queue' = Append(bank_queue, last) /\ UNCHANGED <<atm_queue, interface_queue>>
      <4>1. /\ Asked' = Asked /\ Requested' = Requested
            /\ Messages(bank_queue') = Messages(bank_queue) \cup {last}
        BY <1>0, <3>1, <3>3, BankGets DEF ToBank
      <4>2. QED
        BY <3>1, <3>3, <4>1 DEF SameCounts, NoPinSent, Answered, Granted, Promised
    <3>4. CASE atm_queue' = Append(atm_queue, last) /\ UNCHANGED <<bank_queue, interface_queue>>
      <4>1. /\ Answered' = Answered /\ Granted' = Granted
            /\ Messages(atm_queue') = Messages(atm_queue) \cup {last}
        BY <1>0, <3>1, <3>4, AtmGets DEF FromBank
      <4>2. QED
        BY <3>1, <3>4, <4>1 DEF SameCounts, NoPinSent, Asked, Requested, Promised
    <3>5. CASE /\ interface_queue' = Append(interface_queue, last)
               /\ UNCHANGED <<atm_queue, bank_queue>>
      <4>1. Promised' = Promised
        BY <1>0, <3>1, <3>5, InterfaceGets
      <4>2. QED
        BY <3>5, <4>1 DEF SameCounts, NoPinSent, Answered, Granted, Asked, Requested
    <3>6. QED
      BY <3>2, <3>3, <3>4, <3>5
  <2>3. CASE PressQuit \/ Join \/ UNCHANGED vars
    BY <2>3 DEF PressQuit, Join, vars, SameCounts, NoPinSent,
                Answered, Granted, Asked, Requested, Promised
  <2>4. QED
    BY <2>1, <2>2, <2>3
<1>2. Moves
  BY <1>0 DEF Moves
<1>3. QED
  BY <1>0, <1>1, <1>2, Quiet
-----------------------------------------------------------------------------
LEMMA Inductive == Spec => []IInv
<1>1. Init => IInv
  <2> SUFFICES ASSUME Init PROVE IInv
    OBVIOUS
  <2> USE AtmAssumption DEF Init, Atm!AtmInit, Bank!BankInit, Interface!InterfaceInit
  <2>1. /\ <<>> \in Seq(AtmMessage) /\ <<>> \in Seq(BankMessage)
        /\ <<>> \in Seq(InterfaceMessage) /\ <<>> \in Seq(Digit) /\ Len(<<>>) = 0
    BY EmptySeq
  <2>2. TypeOK
    BY <2>1, States DEF TypeOK
  <2>3. Messages(<<>>) = {} /\ \A types : Count(<<>>, types) = 0
    <3>1. \A types : {i \in 1..Len(<<>>) : <<>>[i].type \in types} = {}
      BY <2>1
    <3>2. QED
      BY <2>1, <3>1, FS_EmptySet DEF Messages, Count
  <2>4. AnswersMatch
    BY <2>3, States DEF AnswersMatch, Outstanding
  <2>5. PinInv
    BY <2>3 DEF PinInv
  <2>6. MoneyInv
    <3>1. Requested = 0 /\ Granted = 0 /\ Promised = 0
      BY <2>3 DEF Requested, Granted, Promised
    <3>2. Ledger(0, 0)
      BY DEF Ledger
    <3>3. Losses(0, 0)
      BY <3>1 DEF Losses
    <3>4. QED
      BY <3>2, <3>3 DEF MoneyInv
  <2>7. QED
    BY <2>2, <2>4, <2>5, <2>6 DEF IInv
<1>2. IInv /\ [Next]_vars => IInv'
  <2> SUFFICES ASSUME IInv, [Next]_vars PROVE IInv'
    OBVIOUS
  <2>1. CASE AtmThread
    BY <2>1, AtmTypes, AtmKeeps DEF AtmThread, IInv
  <2>2. CASE BankThread
    BY <2>2, OtherTypes, BankKeeps DEF IInv
  <2>3. CASE InterfaceThread
    BY <2>3, OtherTypes, InterfaceKeeps DEF IInv
  <2>4. CASE PressKey \/ PressQuit \/ Quit \/ Join \/ UNCHANGED vars
    BY <2>4, OtherTypes, MainKeeps DEF IInv
  <2>5. QED
    BY <2>1, <2>2, <2>3, <2>4 DEF Next, Returned
<1>3. QED
  BY <1>1, <1>2, PTL DEF Spec

\* Synchronizing/ATM: the queues hold messages of their types, the PIN is sent when it
\* is complete, and the balance does not wrap around.
THEOREM TypeCorrect == Spec => []TypeOK
<1>1. IInv => TypeOK
  BY DEF IInv
<1>2. QED
  BY <1>1, Inductive, PTL

\* atm_machine.h: an answer the cash machine acts upon is the answer to its question,
\* unless a cancel has left an earlier one unanswered.
THEOREM OneQuestion == Spec => []AnswersMatch
<1>1. IInv => AnswersMatch
  BY DEF IInv
<1>2. QED
  BY <1>1, Inductive, PTL

\* atm_machine.h: as long as nothing was given up, the menu opens to the bank's PIN
\* only, though the answer says nothing of the PIN it is about.
THEOREM MenuNeedsPin == Spec => []ConfirmedPin
<1>1. IInv => ConfirmedPin
  BY DEF IInv, PinInv, ConfirmedPin
<1>2. QED
  BY <1>1, Inductive, PTL

\* bank_machine.h, interface_machine.h: no money is made, and none is lost but what a
\* cancel has left behind.
THEOREM NoMoneyLost == Spec => []MoneyConserved
<1>1. IInv => MoneyConserved
  <2> SUFFICES ASSUME IInv PROVE MoneyConserved
    OBVIOUS
  <2>1. PICK b \in Nat, i \in Nat : Ledger(b, i) /\ Losses(b, i)
    BY DEF IInv, MoneyInv
  <2>2. Granted \in Nat /\ Promised \in Nat /\ abandoned \in Nat
    BY Numbers DEF IInv
  <2> DEFINE promised == Promised + Granted
  <2>3. /\ promised \in Nat
        /\ i + promised <= b /\ b <= i + promised + abandoned
    BY <2>1, <2>2 DEF Losses
  <2> HIDE DEF promised
  <2>4. ASSUME NEW x \in Nat, NEW y \in Nat, x <= y PROVE amount * x <= amount * y
    <3>1. PICK d \in Nat : y = x + d
      <4>1. y - x \in Nat /\ y = x + (y - x)
        BY <2>4
      <4>2. QED
        BY <4>1
    <3>2. amount * y = amount * x + amount * d /\ amount * d \in Nat /\ amount * x \in Nat
      BY <3>1, AtmAssumption
    <3>3. QED
      BY <3>2
  <2>5. /\ amount * (i + promised) <= amount * b
        /\ amount * b <= amount * (i + promised + abandoned)
    BY <2>2, <2>3, <2>4
  <2>6. /\ amount * (i + promised) = amount * i + amount * promised
        /\ amount * (i + promised + abandoned) =
               amount * i + amount * promised + amount * abandoned
    BY <2>2, <2>3, AtmAssumption
  <2>7. opening_balance - balance = amount * b /\ issued = amount * i
    <3>1. amount * b \in Nat
      BY AtmAssumption
    <3>2. QED
      BY <2>1, <3>1, AtmAssumption DEF Ledger
  <2>8. /\ issued + amount * promised <= opening_balance - balance
        /\ opening_balance - balance <= issued + amount * promised + amount * abandoned
    BY <2>5, <2>6, <2>7
  <2>9. QED
    BY <2>8 DEF MoneyConserved, promised, Promised, Granted
<1>2. QED
  BY <1>1, Inductive, PTL
=============================================================================
