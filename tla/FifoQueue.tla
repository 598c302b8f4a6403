------------------------------ MODULE FifoQueue ------------------------------
(***************************************************************************)
(* A queue as its users see it: a message is put in at one end and taken   *)
(* out once, by one consumer, at the other.                                *)
(***************************************************************************)
EXTENDS Sequences

CONSTANTS Consumers, Messages, NoMessage

VARIABLES queue, value   \* value[c]: what consumer c took last

fifoVars == <<queue, value>>

Init == queue = <<>> /\ value = [c \in Consumers |-> NoMessage]

Put(m) == queue' = Append(queue, m) /\ UNCHANGED value

Take(c) == /\ queue # <<>>
           /\ value' = [value EXCEPT ![c] = Head(queue)]
           /\ queue' = Tail(queue)

Next == (\E m \in Messages : Put(m)) \/ (\E c \in Consumers : Take(c))

Spec == Init /\ [][Next]_fifoVars
=============================================================================
