------------------------------- MODULE HiLo -------------------------------
(***************************************************************************)
(* The two durable counters of aulos-store: `ord`, the sort key of a row   *)
(* (UNIQUE in items), and `seq`, the number of a frame on the wire.  Both  *)
(* hand out values from a block that is reserved in `meta` first, so that  *)
(* a crash skips values and re-issues none.  A reservation may fail, and   *)
(* the counter goes on in memory then.                                     *)
(***************************************************************************)
EXTENDS Integers, FiniteSets

CONSTANTS
  Block,      \* Block[c]: ORD_BLOCK and SEQ_BLOCK
  MaxValue,   \* bound: no value beyond it is handed out
  MaxBoots,   \* bound: how often the process goes down
  Failing     \* whether a reservation may fail

Counters == {"ord", "seq"}
ASSUME BlockAssumption == Block \in [Counters -> Nat \ {0}]
ASSUME HiLoBounds == MaxValue \in Nat /\ MaxBoots \in Nat /\ Failing \in BOOLEAN

VARIABLES
  hwm,      \* hwm[c]: the value of meta.ord_hwm and meta.seq_hwm, 0 when absent
  witness,  \* meta.seq_hwm_witness, -1 when absent
  stored,   \* the `ord` of the rows of items
  pending,  \* the `ord` of rows handed to the writer and not yet committed
  cursor,   \* cursor[c]: the in-memory block, of the process that ran last
  up, boots,
  issued,   \* history: issued[c], every value ever handed out
  failed    \* history: whether a reservation ever failed
disk == <<hwm, witness, stored>>
vars == <<disk, pending, cursor, up, boots, issued, failed>>

Cursor == [next : Nat, limit : Nat, last : Nat \cup {-1}]
SeededBug(seed) == [next |-> seed, limit |-> seed - 1, last |-> seed - 1]  \* limit inclusive
Seeded(seed) == [next |-> seed, limit |-> seed, last |-> seed - 1]
Larger(a, b) == IF a > b THEN a ELSE b

Init ==
  /\ hwm = [c \in Counters |-> 0] /\ witness = -1 /\ stored = {} /\ pending = {}
  /\ cursor = [c \in Counters |-> Seeded(0)] /\ up = TRUE /\ boots = 0
  /\ issued = [c \in Counters |-> {}] /\ failed = FALSE

----------------------------------------------------------------------------
(* HiLo::next: the value, and what is left of the block.                   *)

HandOut(c, v, limit) ==
  /\ v <= MaxValue
  /\ cursor' = [cursor EXCEPT ![c] = [next |-> v + 1, limit |-> limit, last |-> v]]
  /\ issued' = [issued EXCEPT ![c] = @ \cup {v}]
  /\ pending' = IF c = "ord" THEN pending \cup {v} ELSE pending
  /\ UNCHANGED <<witness, stored, up, boots>>

InBlock(c) ==
  /\ up /\ cursor[c].next < cursor[c].limit
  /\ HandOut(c, cursor[c].next, cursor[c].limit)
  /\ UNCHANGED <<hwm, failed>>

Exhausted(c) == up /\ cursor[c].next >= cursor[c].limit

(* The UPDATE takes the larger of the column and the cursor; the block is  *)
(* what lies below the new mark.                                           *)
ReservedEnd(c) == Larger(hwm[c], cursor[c].next) + Block[c]
ReserveBug(c) ==                  \* the mark stops short of the last value
  /\ Exhausted(c)
  /\ hwm' = [hwm EXCEPT ![c] = ReservedEnd(c) - 1]
  /\ HandOut(c, ReservedEnd(c) - Block[c], ReservedEnd(c))
  /\ UNCHANGED failed
Reserve(c) ==
  /\ Exhausted(c)
  /\ hwm' = [hwm EXCEPT ![c] = ReservedEnd(c)]
  /\ HandOut(c, ReservedEnd(c) - Block[c], ReservedEnd(c))
  /\ UNCHANGED failed

ReserveFailed(c) ==
  /\ Failing /\ Exhausted(c)
  /\ HandOut(c, cursor[c].next, cursor[c].next + Block[c])
  /\ failed' = TRUE /\ UNCHANGED hwm

----------------------------------------------------------------------------
(* Rows.  An insert whose `ord` is in the table already dies on the UNIQUE *)
(* index; any other may be lost with its batch.                            *)

Inserted(v) ==
  /\ up /\ v \in pending
  /\ pending' = pending \ {v}
  /\ stored' = stored \cup {v}
  /\ UNCHANGED <<hwm, witness, cursor, up, boots, issued, failed>>
Dropped(v) ==
  /\ up /\ v \in pending
  /\ pending' = pending \ {v} /\ UNCHANGED <<disk, cursor, up, boots, issued, failed>>
Deleted(v) ==
  /\ up /\ v \in stored
  /\ stored' = stored \ {v}
  /\ UNCHANGED <<hwm, witness, pending, cursor, up, boots, issued, failed>>

----------------------------------------------------------------------------
(* Going down and coming back.                                             *)

Down == up /\ boots < MaxBoots /\ up' = FALSE /\ boots' = boots + 1 /\ pending' = {}
Shutdown ==
  /\ Down /\ witness' = cursor["seq"].last
  /\ UNCHANGED <<hwm, stored, cursor, issued, failed>>
Crash == Down /\ UNCHANGED <<disk, cursor, issued, failed>>

(* Power is lost between the COMMIT of a reservation and its first value.  *)
CrashInReserve(c) ==
  /\ Exhausted(c) /\ Down /\ ReservedEnd(c) <= MaxValue
  /\ hwm' = [hwm EXCEPT ![c] = ReservedEnd(c)]
  /\ UNCHANGED <<witness, stored, cursor, issued, failed>>

Needed == IF stored = {} THEN 0
          ELSE 1 + CHOOSE v \in stored : \A w \in stored : w <= v
SeedBug(c) == Larger(hwm[c], witness)             \* the table is not looked at
SeedSkipBug(c) ==                                 \* a block for good measure
  Larger(hwm[c], IF c = "ord" THEN Needed ELSE witness) + Block[c]
Seed(c) == Larger(hwm[c], IF c = "ord" THEN Needed ELSE witness)
Open ==
  /\ ~up /\ up' = TRUE
  /\ hwm' = [c \in Counters |-> Seed(c)]
  /\ cursor' = [c \in Counters |-> Seeded(Seed(c))]
  /\ UNCHANGED <<witness, stored, pending, boots, issued, failed>>

Next ==
  \/ \E c \in Counters : InBlock(c) \/ Reserve(c) \/ ReserveFailed(c) \/ CrashInReserve(c)
  \/ \E v \in pending : Inserted(v) \/ Dropped(v)
  \/ \E v \in stored : Deleted(v)
  \/ Shutdown \/ Crash \/ Open

Spec == Init /\ [][Next]_vars

----------------------------------------------------------------------------
(* Marks, cursors and tables of the two counters have their types.         *)
TypeOK ==
  /\ hwm \in [Counters -> Nat] /\ witness \in Nat \cup {-1}
  /\ stored \subseteq Nat /\ pending \subseteq Nat
  /\ cursor \in [Counters -> Cursor] /\ issued \in [Counters -> SUBSET Nat]
  /\ up \in BOOLEAN /\ boots \in 0..MaxBoots /\ failed \in BOOLEAN

(* The insert of a row never dies on the UNIQUE index of items.ord,        *)
(* whatever crashed or failed before: neither the next value nor one that  *)
(* waits for the writer is in the table.                                   *)
InsertsSucceed ==
  up => /\ pending \cap stored = {}
        /\ \A v \in stored \cup pending : v < cursor["ord"].next

(* While every reservation succeeded, no value is handed out twice, in     *)
(* this process or in any before it.                                       *)
NeverReissued ==
  up /\ ~failed => \A c \in Counters : \A v \in issued[c] : v < cursor[c].next

(* A boot numbers its frames above the one the last graceful shutdown      *)
(* recorded, whatever happened to the mark.                                *)
AboveWitness ==
  [][~up /\ up' => cursor'["seq"].next > witness]_vars

(* A boot skips what was left of a block, or one that nobody had a value   *)
(* of, and never more.                                                     *)
BootSkipsOneBlock ==
  [][~up /\ up' /\ ~failed =>
       \A c \in Counters : cursor'[c].next - cursor[c].next \in 0..Block[c]]_vars
===========================================================================
