----------------------------- MODULE WorkQueue ------------------------------
(***************************************************************************)
(* The column work_items.queue_position and the two procedures that move   *)
(* it, one UPDATE per row: make_queue_space before a proposal's item is    *)
(* inserted, compact_queue after an item became terminal                   *)
(* (adapters/sqlite/lifecycle.py).  The column is UNIQUE, SQLite checks it *)
(* at every statement, and each UPDATE names the position it expects, so   *)
(* the order of the statements decides whether a change can be written at  *)
(* all.  The write lock admits one transaction at a time; other            *)
(* connections read `committed`.                                           *)
(***************************************************************************)
EXTENDS Integers, FiniteSets

CONSTANTS
  Items,          \* identities of items
  NoItem          \* the transaction slot is empty

ASSUME QueueAssumption == NoItem \notin Items /\ IsFiniteSet(Items)

Null == 0         \* a position that is NULL

VARIABLES
  committed,      \* queue_position of every item, as every connection reads it
  used,           \* items that have a row
  table,          \* queue_position inside the open transaction
  subject,        \* the item the open transaction adds or ends; NoItem: none is open
  adding,         \* it adds it
  at,             \* position it adds it at, or removed it from
  rest,           \* rows its loop has yet to shift
  phase           \* "shift" or "insert" or "readback", or "idle"

vars == <<committed, used, table, subject, adding, at, rest, phase>>

TypeOK ==
  /\ committed \in [Items -> Nat] /\ table \in [Items -> Nat]
  /\ used \subseteq Items /\ rest \subseteq Items
  /\ subject \in Items \union {NoItem}
  /\ adding \in BOOLEAN
  /\ at \in Nat
  /\ phase \in {"idle", "shift", "insert", "readback"}

InQueue(position) == {i \in Items : position[i] # Null}

Init ==
  /\ committed = [i \in Items |-> Null]
  /\ used = {}
  /\ table = committed
  /\ subject = NoItem /\ adding = FALSE /\ at = Null /\ rest = {} /\ phase = "idle"

(***************************************************************************)
(* The decision on a proposal accepts a position up to one past the queue. *)
(* The rows to shift are read from the snapshot of the same transaction,   *)
(* which is `committed`.                                                   *)
(***************************************************************************)
BeginProposal(i, p) ==
  /\ phase = "idle"
  /\ i \notin used
  /\ p \in 1..Cardinality(InQueue(committed)) + 1
  /\ subject' = i /\ adding' = TRUE /\ at' = p
  /\ rest' = {j \in InQueue(committed) : committed[j] >= p}
  /\ phase' = "shift"
  /\ UNCHANGED <<committed, used, table>>

\* Fault: the gap is left open.
BeginEndingWithGap(i) ==
  /\ phase = "idle"
  /\ i \in InQueue(committed)
  /\ subject' = i /\ adding' = FALSE /\ at' = committed[i]
  /\ table' = [table EXCEPT ![i] = Null]
  /\ rest' = {}
  /\ phase' = "shift"
  /\ UNCHANGED <<committed, used>>

\* Fault: the last row is moved into the gap.
BeginEndingBySwap(i) ==
  /\ phase = "idle"
  /\ i \in InQueue(committed)
  /\ subject' = i /\ adding' = FALSE /\ at' = committed[i]
  /\ table' = [j \in Items |-> IF j = i THEN Null
                               ELSE IF committed[j] = Cardinality(InQueue(committed))
                                    THEN committed[i] ELSE committed[j]]
  /\ rest' = {}
  /\ phase' = "shift"
  /\ UNCHANGED <<committed, used>>

(***************************************************************************)
(* set_item_state with a terminal state: its own UPDATE sets the position  *)
(* to NULL, then the rows behind it are to be shifted.                     *)
(***************************************************************************)
BeginEnding(i) ==
  /\ phase = "idle"
  /\ i \in InQueue(committed)
  /\ subject' = i /\ adding' = FALSE /\ at' = committed[i]
  /\ table' = [table EXCEPT ![i] = Null]
  /\ rest' = {j \in InQueue(committed) : committed[j] > committed[i]}
  /\ phase' = "shift"
  /\ UNCHANGED <<committed, used>>

\* UPDATE ... SET queue_position = p WHERE queue_position = q, on the row of j: it finds
\* the row where it expects it, and no other row has the new position.
Applies(j, p, q) == table[j] = q /\ p >= 1 /\ \A k \in Items \ {j} : table[k] # p

NewPosition(j) == IF adding THEN committed[j] + 1 ELSE committed[j] - 1

\* Fault: both loops go the other way.
ComesFirstReversed(j) ==
  \A k \in rest : IF adding THEN committed[j] <= committed[k] ELSE committed[k] <= committed[j]

\* make_queue_space goes from the back, compact_queue from the front.
ComesFirst(j) ==
  \A k \in rest : IF adding THEN committed[k] <= committed[j] ELSE committed[j] <= committed[k]

Shift(j) ==
  /\ phase = "shift"
  /\ j \in rest /\ ComesFirst(j)
  /\ Applies(j, NewPosition(j), committed[j])
  /\ table' = [table EXCEPT ![j] = NewPosition(j)]
  /\ rest' = rest \ {j}
  /\ UNCHANGED <<committed, used, subject, adding, at, phase>>

EndShift ==
  /\ phase = "shift" /\ rest = {}
  /\ phase' = IF adding THEN "insert" ELSE "readback"
  /\ UNCHANGED <<committed, used, table, subject, adding, at, rest>>

\* INSERT INTO work_items of the proposal's item
Insert ==
  /\ phase = "insert"
  /\ Applies(subject, at, Null)
  /\ table' = [table EXCEPT ![subject] = at]
  /\ phase' = "readback"
  /\ UNCHANGED <<committed, used, subject, adding, at, rest>>

\* Live work-item queue positions must be contiguous and one-based.
Contiguous(position) ==
  /\ {position[i] : i \in InQueue(position)} = 1..Cardinality(InQueue(position))
  /\ \A i, j \in InQueue(position) : position[i] = position[j] => i = j

Close == subject' = NoItem /\ adding' = FALSE /\ at' = Null /\ rest' = {} /\ phase' = "idle"

Commit ==
  /\ phase = "readback"
  /\ Contiguous(table)
  /\ committed' = table
  /\ used' = used \union {subject}
  /\ Close
  /\ UNCHANGED table

\* A statement that fails, a readback that rejects the state, or a crash: at any point.
Rollback ==
  /\ phase # "idle"
  /\ table' = committed
  /\ Close
  /\ UNCHANGED <<committed, used>>

Next ==
  \/ \E i \in Items, p \in 1..Cardinality(Items) + 1 : BeginProposal(i, p)
  \/ \E i \in Items : BeginEnding(i)
  \/ \E j \in Items : Shift(j)
  \/ EndShift
  \/ Insert
  \/ Commit
  \/ Rollback

Spec == Init /\ [][Next]_vars

(***************************************************************************)
(* Properties                                                              *)
(***************************************************************************)

(***************************************************************************)
(* No statement of either loop, and not the insertion after it, ever meets *)
(* a row that still holds the position it wants, or a row that is not      *)
(* where its snapshot had it: the changes are written in an order the      *)
(* UNIQUE column admits.                                                   *)
(***************************************************************************)
EveryStatementApplies ==
  /\ phase = "shift" =>
       \A j \in rest : ComesFirst(j) => Applies(j, NewPosition(j), committed[j])
  /\ phase = "insert" => Applies(subject, at, Null)

\* What both procedures leave behind is what the readback demands, so that a change that
\* was written statement by statement is never rejected at the end.
FinishedChangeReadsBack == phase = "readback" => Contiguous(table)

(***************************************************************************)
(* Seen by every other connection, a transaction puts one item somewhere   *)
(* or takes one out, and all others keep their order.                      *)
(***************************************************************************)
QueueOf(position) ==
  [k \in 1..Cardinality(InQueue(position)) |-> CHOOSE i \in Items : position[i] = k]

Line == INSTANCE OrderedQueue WITH queue <- QueueOf(committed)
Order == Line!Spec
OrderIsKept == Order
=============================================================================
