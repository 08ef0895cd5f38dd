--------------------------- MODULE IdempotentKeys ---------------------------
(***************************************************************************)
(* What an idempotency key promises to a caller that may repeat a call: a  *)
(* key is bound once, to one item and to the content it was asked for, and *)
(* every answered call with the key asked for that content and is given    *)
(* that item.                                                              *)
(***************************************************************************)
CONSTANTS Key, Client, Content, Item, Unbound, NoReply

VARIABLES
  bound,  \* the item and the content of each key
  reply   \* the answer each client was given last, until it calls again

keyVars == <<bound, reply>>

Binding == [item : Item, content : Content]
Answer == [key : Key, item : Item, content : Content]

KeysInit ==
  /\ bound = [k \in Key |-> Unbound]
  /\ reply = [c \in Client |-> NoReply]

Bind(k) ==
  /\ bound[k] = Unbound
  /\ \E b \in Binding :
       /\ \A other \in Key : bound[other] # Unbound => bound[other].item # b.item
       /\ bound' = [bound EXCEPT ![k] = b]
  /\ UNCHANGED reply

Reply(c) ==
  /\ \E k \in Key :
       /\ bound[k] # Unbound
       /\ reply' = [reply EXCEPT ![c] =
                      [key |-> k, item |-> bound[k].item, content |-> bound[k].content]]
  /\ UNCHANGED bound

CallAgain(c) ==
  /\ reply' = [reply EXCEPT ![c] = NoReply]
  /\ UNCHANGED bound

KeysNext ==
  \/ \E k \in Key : Bind(k)
  \/ \E c \in Client : Reply(c) \/ CallAgain(c)

KeysSpec == KeysInit /\ [][KeysNext]_keyVars
=============================================================================
