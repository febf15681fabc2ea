-------------------------------- MODULE Table --------------------------------
(***************************************************************************)
(* aulos-store as its callers see it: a table that takes each write whole  *)
(* or not at all, one after the other in the order they were sent, and     *)
(* that remembers what it took.  A power loss may take it back, to what it *)
(* was after some earlier group of writes and never to the middle of one.  *)
(***************************************************************************)
EXTENDS Integers, Sequences

CONSTANTS
  Call,        \* the writes that may be asked for, at most once each
  OpsOf,       \* OpsOf[c]: the operations of the write, in order
  Row          \* the rows they are about

VARIABLES
  states,      \* the contents of the table after each group of writes, the last one now
  pending,     \* writes that were sent and are not decided, oldest first
  outcome,     \* outcome[c]: "none", "asked", or how it was answered
  refusals     \* how often a write was refused for no fault of its own

tableVars == <<states, pending, outcome, refusals>>

Absent == "absent"

(* One operation on the rows: no row at all if it cannot be done.        **)
Error == <<>>
Applied(rows, op, by) ==
  CASE rows = Error -> Error
    [] op.kind = "insert" /\ rows[op.row] = Absent -> [rows EXCEPT ![op.row] = by]
    [] op.kind = "change" /\ rows[op.row] # Absent -> [rows EXCEPT ![op.row] = by]
    [] op.kind = "delete" -> [rows EXCEPT ![op.row] = Absent]
    [] OTHER -> Error

(* All operations of a write, or no row at all.                            *)
Written(rows, c) ==
  LET After[n \in 0..Len(OpsOf[c])] == IF n = 0 THEN rows ELSE Applied(After[n - 1], OpsOf[c][n], c)
  IN  After[Len(OpsOf[c])]

(* The rows after the writes of a sequence, those that cannot be done and  *)
(* the refused ones left out.                                              *)
Takes(rows, c, refused) == c \notin refused /\ Written(rows, c) # Error
After(rows, calls, refused) ==
  LET Rows[n \in 0..Len(calls)] ==
        IF n = 0 THEN rows
        ELSE IF Takes(Rows[n - 1], calls[n], refused) THEN Written(Rows[n - 1], calls[n]) ELSE Rows[n - 1]
  IN  Rows

Now == states[Len(states)]

TableInit ==
  /\ states = <<[r \in Row |-> Absent]>> /\ pending = <<>>
  /\ outcome = [c \in Call |-> "none"] /\ refusals = 0

Ask(c) == outcome[c] = "none" /\ outcome' = [outcome EXCEPT ![c] = "asked"] /\ UNCHANGED <<states, pending, refusals>>

Send(c) ==
  /\ outcome[c] = "asked" /\ \A j \in DOMAIN pending : pending[j] # c
  /\ pending' = Append(pending, c) /\ UNCHANGED <<states, outcome, refusals>>

(* The n oldest writes are decided and answered; one may be refused.       *)
Decide(n, refused) ==
  LET calls == SubSeq(pending, 1, n)
      rows == After(Now, calls, refused)
  IN
  /\ n \in 1..Len(pending) /\ refused \in {{}} \cup {{pending[j]} : j \in 1..n}
  /\ pending' = SubSeq(pending, n + 1, Len(pending))
  /\ outcome' = [c \in Call |->
       IF \E j \in 1..n : calls[j] = c
         THEN IF \E j \in 1..n : calls[j] = c /\ Takes(rows[j - 1], c, refused) THEN "ok" ELSE "error"
         ELSE outcome[c]]
  /\ states' = IF \E j \in 1..n : outcome'[calls[j]] = "ok" THEN Append(states, rows[n]) ELSE states
  /\ refusals' = refusals + IF refused = {} THEN 0 ELSE 1

(* The table is closed: writes that are not decided are told so, all those *)
(* that were sent at once.                                                 *)
TurnAway(gone) ==
  /\ gone # {} /\ \A c \in gone : outcome[c] = "asked"
  /\ outcome' = [c \in Call |-> IF c \in gone THEN "closed" ELSE outcome[c]]
  /\ \/ (\A j \in DOMAIN pending : pending[j] \in gone) /\ pending' = <<>>
     \/ (\A j \in DOMAIN pending : pending[j] \notin gone) /\ UNCHANGED pending
  /\ UNCHANGED <<states, refusals>>

(* The process ends, with or without the machine.                          *)
Lose(n) ==
  /\ n \in DOMAIN states /\ states' = SubSeq(states, 1, n)
  /\ outcome' = [c \in Call |-> IF outcome[c] = "asked" THEN "lost" ELSE outcome[c]]
  /\ pending' = <<>> /\ UNCHANGED refusals

TableNext ==
  \/ \E c \in Call : Ask(c) \/ Send(c)
  \/ \E n \in DOMAIN pending : \E refused \in {{}} \cup {{c} : c \in Call} : Decide(n, refused)
  \/ \E gone \in SUBSET Call : TurnAway(gone)
  \/ \E n \in DOMAIN states : Lose(n)

TableSpec == TableInit /\ [][TableNext]_tableVars
=============================================================================
