-------------------------------- MODULE IpPool -------------------------------
(***************************************************************************)
(* ippool.c: the table that remembers which address a transaction was      *)
(* given.  The array has MAX_IP entries and is only ever indexed by        *)
(* get_key_for_trs_id, so the model keeps the entries that the transaction *)
(* ids in play can reach.                                                  *)
(***************************************************************************)
EXTENDS Words

CONSTANT Xids     \* the transaction ids in play, host order

MAX_IP == 1024

ASSUME XidsAssumption == Xids \subseteq Word

VARIABLES ippool,    \* slot -> address, ZeroWord when the slot is empty
          is_valid   \* has lazy_init run?

pool_vars == << ippool, is_valid >>

Slots == { get_key_for_trs_id(x) : x \in Xids }

(* The static array before the program touches it, and after lazy_init.    *)
EmptyPool == [s \in Slots |-> ZeroWord]

PoolInit == ippool = EmptyPool /\ is_valid = FALSE

(* The array that get_ip and set_ip work on, once lazy_init has run.       *)
Initialised == IF is_valid THEN ippool ELSE EmptyPool

get_ip_for_trs_id(trs_id) == Initialised[get_key_for_trs_id(trs_id)]

set_ip_for_trs_id(ip, trs_id) ==
  /\ ippool' = [Initialised EXCEPT ![get_key_for_trs_id(trs_id)] = ip]
  /\ is_valid' = TRUE

PoolTypeOK ==
  /\ ippool \in [Slots -> Word]
  /\ is_valid \in BOOLEAN
==============================================================================
