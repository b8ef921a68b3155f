------------------------------ MODULE UrlMailbox -----------------------------
(***************************************************************************)
(* What the sniffer's hand-over of URLs promises the file urls.htm: a      *)
(* mailbox that conflates.  Items are numbered in the order they are seen. *)
(* Announcing an item makes the recorder owe one line; items announced     *)
(* before that line is taken share it.  A line's parts may come from       *)
(* different items, but from none older than the one it was taken for.     *)
(***************************************************************************)
EXTENDS Integers, Sequences

CONSTANT Parts        \* positions of the parts of a line

VARIABLES seen,       \* the newest item seen
          posted,     \* the newest item announced
          taken,      \* the item the latest line was taken for
          lines       \* [parts, woken]: the lines recorded

mail_vars == << seen, posted, taken, lines >>

Recorded == lines # << >> /\ lines[Len(lines)].woken = taken

Init ==
  /\ seen = 0
  /\ posted = 0
  /\ taken = 0
  /\ lines = << >>

See ==
  /\ seen' \in Nat
  /\ seen' > seen
  /\ UNCHANGED << posted, taken, lines >>

Post ==
  /\ posted < seen
  /\ posted' = seen
  /\ UNCHANGED << seen, taken, lines >>

(* Nothing is owed twice: a line is taken only for a newer announcement,   *)
(* and only when the line before it was recorded.                          *)
Take ==
  /\ taken < posted
  /\ taken = 0 \/ Recorded
  /\ taken' = posted
  /\ UNCHANGED << seen, posted, lines >>

Record ==
  /\ taken > 0
  /\ ~Recorded
  /\ \E p \in [Parts -> taken .. seen] :
       lines' = Append(lines, [parts |-> p, woken |-> taken])
  /\ UNCHANGED << seen, posted, taken >>

Next == See \/ Post \/ Take \/ Record

Spec == Init /\ [][Next]_mail_vars
==============================================================================
