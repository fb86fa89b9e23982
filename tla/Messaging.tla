----------------------------- MODULE Messaging -----------------------------
(***************************************************************************)
(* Synchronizing/ATM: message_queue.h, sender.h, receiver.h, dispatcher.h, *)
(* template_dispatcher.h and messages.h.                                   *)
(*                                                                         *)
(* Every machine has one queue and is the only one to read it.  push and   *)
(* wait_and_pop hold the queue's mutex from beginning to end, so each is   *)
(* one step on a sequence.  A machine that waits takes the messages one by *)
(* one; the handlers chained behind wait() are tried in turn, the          *)
(* close_queue message throws out of the machine's loop, and any other     *)
(* message that no handler matches is dropped while the wait goes on.      *)
(***************************************************************************)
EXTENDS Naturals, Sequences, FiniteSets

\* A message is its type and the one member that matters to the program: a
\* digit, a PIN or an amount.  Members the program never looks at (the account,
\* the sender to answer to, which is always the cash machine's) are left out.
Message(type, contents) == [type |-> type, contents |-> contents]
Signal(type) == Message(type, 0)

Send(queue, msg) == queue' = Append(queue, msg)

\* The next message of the queue has this type and is taken.
Handle(queue, type) == /\ queue # <<>>
                       /\ Head(queue).type = type
                       /\ queue' = Tail(queue)

\* Nothing in the chain of handlers matches the next message.
Drop(queue, handled) == /\ queue # <<>>
                        /\ Head(queue).type \notin handled \cup {"close_queue"}
                        /\ queue' = Tail(queue)

Count(queue, types) == Cardinality({i \in 1..Len(queue) : queue[i].type \in types})
=============================================================================
