------------------------------ MODULE LeaseBook ------------------------------
(***************************************************************************)
(* What the DHCP thread and its table promise, whatever the table forgets  *)
(* and whatever is lost: every address given out is the counter's current  *)
(* one or one that was promised earlier to the same slot, and each grant   *)
(* uses one number up.  Sockets, the lazily initialised array and the      *)
(* order of its overwrites are all absent.                                 *)
(***************************************************************************)
EXTENDS Words

CONSTANTS Client,     \* transaction ids
          First,      \* first number of the counter
          Net         \* network part of the addresses

VARIABLES counter,    \* the next number
          promises,   \* <<slot, number>>: the slot was served at that number
          grants      \* [client, addr, at]: acknowledged addresses

book_vars == << counter, promises, grants >>

Address(n) == AddWords(Net, htonl(Memory(n)))

Init ==
  /\ counter = First
  /\ promises = {}
  /\ grants = {}

Promise(c) == promises' = promises \union {<< get_key_for_trs_id(c), counter >>}

Offer(c) ==
  /\ Promise(c)
  /\ UNCHANGED << counter, grants >>

Grant(c) ==
  /\ \E p \in promises' :
       /\ p[1] = get_key_for_trs_id(c)
       /\ grants' = grants \union {[client |-> c, addr |-> Address(p[2]), at |-> counter]}
  /\ Promise(c)
  /\ counter' = counter + 1

Next == \E c \in Client : Offer(c) \/ Grant(c)

Spec == Init /\ [][Next]_book_vars
==============================================================================
