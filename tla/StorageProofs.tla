---------------------------- MODULE StorageProofs ----------------------------
(***************************************************************************)
(* Proofs about the parts below the ledger, for every value of their       *)
(* constants: the queue's positions are rewritten one statement at a time  *)
(* in an order the UNIQUE column admits, no refresh of the generated views *)
(* is lost silently, what an initialization publishes is complete and is   *)
(* never taken back from those who rely on it, and an initialization that  *)
(* is not disturbed goes forward only.                                     *)
(***************************************************************************)
EXTENDS MCStorage, SequenceTheorems, FiniteSetTheorems, TLAPS

-----------------------------------------------------------------------------
(* The queue, statement by statement.                                      *)

\* A proposal's item is being added: the rows from its position on move back,
\* the last of them first.
Adding ==
  /\ subject \in Items \ used
  /\ at \in 1..Cardinality(InQueue(committed)) + 1
  /\ \A j \in rest : committed[j] >= at
  /\ \A j \in Items \ rest, k \in rest : committed[j] >= at => committed[k] < committed[j]
  /\ \A j \in Items \ {subject} :
        table[j] = IF committed[j] >= at /\ j \notin rest
                   THEN committed[j] + 1 ELSE committed[j]
  /\ table[subject] = IF phase = "readback" THEN at ELSE Null
  /\ phase \in {"insert", "readback"} => rest = {}

\* An item is being taken out: the rows behind it move up, the first of them
\* first.
Ending ==
  /\ phase # "insert"
  /\ subject \in InQueue(committed) /\ at = committed[subject]
  /\ \A j \in rest : committed[j] > at
  /\ \A j \in Items \ rest, k \in rest : committed[j] > at => committed[j] < committed[k]
  /\ \A j \in Items \ {subject} :
        table[j] = IF committed[j] > at /\ j \notin rest
                   THEN committed[j] - 1 ELSE committed[j]
  /\ table[subject] = Null
  /\ phase = "readback" => rest = {}

QueueInv ==
  /\ TypeOK
  /\ Contiguous(committed)
  /\ InQueue(committed) \subseteq used
  /\ phase = "idle" => table = committed
  /\ phase # "idle" => IF adding THEN Adding ELSE Ending

\* Positions of a queue without gaps.
LEMMA QueuePositions ==
    ASSUME NEW position \in [Items -> Nat], Contiguous(position)
    PROVE  /\ IsFiniteSet(InQueue(position)) /\ Cardinality(InQueue(position)) \in Nat
           /\ \A i \in Items : position[i] <= Cardinality(InQueue(position))
           /\ \A i, j \in Items : position[i] = position[j] /\ position[i] # Null => i = j
           /\ \A n \in 1..Cardinality(InQueue(position)) :
                 \E i \in Items : position[i] = n
<1> DEFINE Q == InQueue(position)
           n == Cardinality(Q)
<1>1. IsFiniteSet(Q) /\ n \in Nat
  BY QueueAssumption, FS_Subset, FS_CardinalityType DEF InQueue
<1>2. /\ {position[i] : i \in Q} = 1..n
      /\ \A i, j \in Q : position[i] = position[j] => i = j
  BY DEF Contiguous
<1>3. \A i \in Items : i \in Q <=> position[i] # Null
  BY DEF InQueue
<1>4. Q \subseteq Items
  BY DEF InQueue
<1> HIDE DEF Q, n
<1>5. \A i \in Items : position[i] <= n
  <2> SUFFICES ASSUME NEW i \in Items PROVE position[i] <= n
    OBVIOUS
  <2>1. CASE i \in Q
    <3>1. position[i] \in 1..n
      BY <1>2, <2>1
    <3> QED
      BY <1>1, <3>1
  <2>2. CASE i \notin Q
    BY <1>1, <1>3, <2>2 DEF Null
  <2> QED
    BY <2>1, <2>2
<1>6. \A m \in 1..n : \E i \in Items : position[i] = m
  BY <1>2, <1>4
<1> QED
  BY <1>1, <1>2, <1>3, <1>5, <1>6 DEF Q, n

\* With one item put in at a position, and those from it on one further.
LEMMA PuttingIn ==
    ASSUME NEW before \in [Items -> Nat], NEW after \in [Items -> Nat],
           Contiguous(before), NEW i \in Items, before[i] = Null,
           NEW p \in 1..Cardinality(InQueue(before)) + 1, after[i] = p,
           \A j \in Items \ {i} :
              after[j] = IF before[j] >= p THEN before[j] + 1 ELSE before[j]
    PROVE  /\ Contiguous(after)
           /\ InQueue(after) = InQueue(before) \cup {i}
           /\ Cardinality(InQueue(after)) = Cardinality(InQueue(before)) + 1
<1> DEFINE n == Cardinality(InQueue(before))
<1>1. /\ IsFiniteSet(InQueue(before)) /\ n \in Nat
      /\ \A j \in Items : before[j] <= n
      /\ \A j, k \in Items : before[j] = before[k] /\ before[j] # Null => j = k
      /\ \A m \in 1..n : \E j \in Items : before[j] = m
  BY QueuePositions
<1> HIDE DEF n
<1>0. p \in Nat /\ p >= 1 /\ p <= n + 1
  BY <1>1 DEF n
<1>2. InQueue(after) = InQueue(before) \cup {i}
  BY <1>0 DEF InQueue, Null
<1>3. Cardinality(InQueue(after)) = n + 1
  <2>1. i \notin InQueue(before)
    BY DEF InQueue
  <2> QED
    BY <1>1, <1>2, <2>1, FS_AddElement DEF n
<1>4. \A j \in InQueue(after) : after[j] \in 1..n + 1
  <2> SUFFICES ASSUME NEW j \in Items, after[j] # Null PROVE after[j] \in 1..n + 1
    BY DEF InQueue
  <2>1. CASE j = i
    BY <1>0, <1>1, <2>1
  <2>2. CASE j # i
    <3>1. before[j] \in Nat /\ before[j] <= n
      BY <1>1
    <3> QED
      BY <1>0, <1>1, <2>2, <3>1 DEF Null
  <2> QED
    BY <2>1, <2>2
<1>5. ASSUME NEW m \in 1..n + 1 PROVE \E j \in InQueue(after) : after[j] = m
  <2>0. m \in Nat /\ m >= 1 /\ m <= n + 1
    BY <1>1
  <2>1. CASE m = p
    BY <2>0, <2>1 DEF InQueue, Null
  <2>2. CASE m < p
    <3>1. m \in 1..n
      BY <1>0, <1>1, <2>0, <2>2
    <3>2. PICK j \in Items : before[j] = m
      BY <1>1, <3>1
    <3> QED
      BY <1>0, <2>0, <2>2, <3>2 DEF InQueue, Null
  <2>3. CASE m > p
    <3>1. m - 1 \in 1..n
      BY <1>0, <1>1, <2>0, <2>3
    <3>2. PICK j \in Items : before[j] = m - 1
      BY <1>1, <3>1
    <3> QED
      BY <1>0, <2>0, <2>3, <3>2 DEF InQueue, Null
  <2> QED
    BY <1>0, <2>0, <2>1, <2>2, <2>3
<1>6. ASSUME NEW j \in InQueue(after), NEW k \in InQueue(after), after[j] = after[k]
      PROVE  j = k
  <2>0. /\ j \in Items /\ k \in Items /\ before[j] \in Nat /\ before[k] \in Nat
        /\ after[j] # Null /\ after[k] # Null
    BY DEF InQueue
  <2>1. CASE j = i /\ k # i
    BY <1>0, <1>6, <2>0, <2>1
  <2>2. CASE k = i /\ j # i
    BY <1>0, <1>6, <2>0, <2>2
  <2>3. CASE j # i /\ k # i
    <3>1. before[j] = before[k] /\ before[j] # Null
      BY <1>0, <1>6, <2>0, <2>3 DEF Null
    <3> QED
      BY <1>1, <2>0, <3>1
  <2> QED
    BY <2>1, <2>2, <2>3
<1>7. {after[j] : j \in InQueue(after)} = 1..n + 1
  BY <1>4, <1>5
<1> QED
  BY <1>2, <1>3, <1>6, <1>7 DEF Contiguous, n

\* With one item taken out, and those behind it moved up.
LEMMA TakingOut ==
    ASSUME NEW before \in [Items -> Nat], NEW after \in [Items -> Nat],
           Contiguous(before), NEW i \in InQueue(before), after[i] = Null,
           \A j \in Items \ {i} :
              after[j] = IF before[j] > before[i] THEN before[j] - 1 ELSE before[j]
    PROVE  /\ Contiguous(after)
           /\ InQueue(after) = InQueue(before) \ {i}
           /\ Cardinality(InQueue(after)) = Cardinality(InQueue(before)) - 1
           /\ Cardinality(InQueue(before)) \in Nat \ {0}
           /\ before[i] \in 1..Cardinality(InQueue(before))
<1> DEFINE n == Cardinality(InQueue(before))
           p == before[i]
<1>1. /\ IsFiniteSet(InQueue(before)) /\ n \in Nat
      /\ \A j \in Items : before[j] <= n
      /\ \A j, k \in Items : before[j] = before[k] /\ before[j] # Null => j = k
      /\ \A m \in 1..n : \E j \in Items : before[j] = m
  BY QueuePositions
<1>2. i \in Items /\ p # Null
  BY DEF InQueue
<1> HIDE DEF n
<1>0. p \in Nat /\ p >= 1 /\ p <= n
  BY <1>1, <1>2 DEF Null
<1>3. \A j \in Items \ {i} : after[j] # Null <=> before[j] # Null
  BY <1>0 DEF Null
<1>4. InQueue(after) = InQueue(before) \ {i}
  BY <1>2, <1>3 DEF InQueue
<1>5. Cardinality(InQueue(after)) = n - 1
  BY <1>1, <1>4, FS_RemoveElement DEF n
<1>6. \A j \in InQueue(after) : after[j] \in 1..n - 1
  <2> SUFFICES ASSUME NEW j \in Items, after[j] # Null PROVE after[j] \in 1..n - 1
    BY DEF InQueue
  <2>1. j # i /\ before[j] \in Nat /\ before[j] <= n /\ before[j] # Null
    BY <1>1, <1>3
  <2>2. before[j] # p
    BY <1>1, <1>2, <2>1
  <2> QED
    BY <1>0, <1>1, <2>1, <2>2 DEF Null
<1>7. ASSUME NEW m \in 1..n - 1 PROVE \E j \in InQueue(after) : after[j] = m
  <2>0. m \in Nat /\ m >= 1 /\ m <= n - 1
    BY <1>1
  <2>1. CASE m < p
    <3>1. m \in 1..n
      BY <1>1, <2>0
    <3>2. PICK j \in Items : before[j] = m
      BY <1>1, <3>1
    <3>3. j # i /\ after[j] = m
      BY <1>0, <2>0, <2>1, <3>2
    <3> QED
      BY <2>0, <3>3 DEF InQueue, Null
  <2>2. CASE m >= p
    <3>1. m + 1 \in 1..n
      BY <1>1, <2>0
    <3>2. PICK j \in Items : before[j] = m + 1
      BY <1>1, <3>1
    <3>3. j # i /\ after[j] = m
      BY <1>0, <2>0, <2>2, <3>2
    <3> QED
      BY <2>0, <3>3 DEF InQueue, Null
  <2> QED
    BY <1>0, <2>0, <2>1, <2>2
<1>8. ASSUME NEW j \in InQueue(after), NEW k \in InQueue(after), after[j] = after[k]
      PROVE  j = k
  <2>0. /\ j \in Items \ {i} /\ k \in Items \ {i} /\ before[j] \in Nat /\ before[k] \in Nat
        /\ before[j] # Null /\ before[k] # Null
    BY <1>4 DEF InQueue
  <2>1. before[j] # p /\ before[k] # p
    BY <1>1, <1>2, <2>0
  <2>2. before[j] = before[k]
    BY <1>0, <1>8, <2>0, <2>1
  <2> QED
    BY <1>1, <2>0, <2>2
<1>9. {after[j] : j \in InQueue(after)} = 1..n - 1
  BY <1>6, <1>7
<1> QED
  BY <1>0, <1>1, <1>4, <1>5, <1>8, <1>9 DEF Contiguous, n

-----------------------------------------------------------------------------
(* Each statement of a transaction.                                        *)

\* The rows move in an order in which no two ever share a position.
LEMMA ShiftOrder ==
    ASSUME QueueInv, phase = "shift", NEW j \in rest, ComesFirst(j)
    PROVE  Applies(j, NewPosition(j), committed[j])
<1>0. /\ committed \in [Items -> Nat] /\ table \in [Items -> Nat] /\ rest \subseteq Items
      /\ j \in Items /\ at \in Nat
      /\ Contiguous(committed)
  BY DEF QueueInv, TypeOK
<1>1. \A k, l \in Items : committed[k] = committed[l] /\ committed[k] # Null => k = l
  BY <1>0, QueuePositions
<1>2. CASE adding
  <2>1. Adding
    BY <1>2 DEF QueueInv
  <2>2. subject \in Items /\ committed[subject] = Null /\ at >= 1 /\ table[subject] = Null
    <3>1. Cardinality(InQueue(committed)) \in Nat
      BY <1>0, QueuePositions
    <3>2. subject \in Items /\ subject \notin InQueue(committed)
      BY <2>1 DEF Adding, QueueInv
    <3> QED
      BY <2>1, <3>1, <3>2 DEF Adding, InQueue
  <2>3. committed[j] >= at /\ j # subject /\ table[j] = committed[j]
    BY <1>0, <2>1, <2>2 DEF Adding, Null
  <2>4. ASSUME NEW k \in Items \ {j} PROVE table[k] # committed[j] + 1
    <3>1. CASE k = subject
      BY <1>0, <2>2, <3>1 DEF Null
    <3>2. CASE k # subject /\ k \notin rest
      <4>1. committed[k] >= at => committed[j] < committed[k]
        BY <2>1, <3>2 DEF Adding
      <4>2. table[k] = IF committed[k] >= at THEN committed[k] + 1 ELSE committed[k]
        BY <2>1, <3>2 DEF Adding
      <4> QED
        BY <1>0, <2>3, <4>1, <4>2
    <3>3. CASE k # subject /\ k \in rest
      <4>1. committed[k] <= committed[j] /\ table[k] = committed[k]
        BY <1>2, <2>1, <3>3 DEF ComesFirst, Adding
      <4> QED
        BY <1>0, <4>1
    <3> QED
      BY <3>1, <3>2, <3>3
  <2> QED
    BY <1>0, <1>2, <2>2, <2>3, <2>4 DEF Applies, NewPosition
<1>3. CASE ~adding
  <2>1. Ending
    BY <1>3 DEF QueueInv
  <2>2. /\ subject \in Items /\ at = committed[subject] /\ at >= 1 /\ table[subject] = Null
        /\ committed[j] > at /\ j # subject /\ table[j] = committed[j]
    BY <1>0, <2>1 DEF Ending, InQueue, Null
  <2>4. ASSUME NEW k \in Items \ {j} PROVE table[k] # committed[j] - 1
    <3>1. CASE k = subject
      BY <1>0, <2>2, <3>1 DEF Null
    <3>2. CASE k # subject /\ k \notin rest
      <4>1. committed[k] > at => committed[k] < committed[j]
        BY <2>1, <3>2 DEF Ending
      <4>2. table[k] = IF committed[k] > at THEN committed[k] - 1 ELSE committed[k]
        BY <2>1, <3>2 DEF Ending
      <4>3. committed[k] # at
        BY <1>0, <1>1, <2>2, <3>2 DEF Null
      <4> QED
        BY <1>0, <2>2, <4>1, <4>2, <4>3
    <3>3. CASE k # subject /\ k \in rest
      <4>1. committed[j] <= committed[k] /\ table[k] = committed[k]
        BY <1>3, <2>1, <3>3 DEF ComesFirst, Ending
      <4> QED
        BY <1>0, <4>1
    <3> QED
      BY <3>1, <3>2, <3>3
  <2> QED
    BY <1>0, <1>3, <2>2, <2>4 DEF Applies, NewPosition
<1> QED
  BY <1>2, <1>3

\* What both loops leave behind: one item put in, or one taken out.
LEMMA WhatIsLeft ==
    ASSUME QueueInv, phase = "readback"
    PROVE  /\ Contiguous(table)
           /\ adding =>
                 /\ subject \in Items \ used
                 /\ at \in 1..Cardinality(InQueue(committed)) + 1
                 /\ InQueue(table) = InQueue(committed) \cup {subject}
                 /\ Cardinality(InQueue(table)) = Cardinality(InQueue(committed)) + 1
           /\ ~adding =>
                 /\ subject \in InQueue(committed)
                 /\ at \in 1..Cardinality(InQueue(committed))
                 /\ InQueue(table) = InQueue(committed) \ {subject}
                 /\ Cardinality(InQueue(committed)) \in Nat \ {0}
                 /\ Cardinality(InQueue(table)) = Cardinality(InQueue(committed)) - 1
<1>0. /\ committed \in [Items -> Nat] /\ table \in [Items -> Nat]
      /\ Contiguous(committed) /\ InQueue(committed) \subseteq used
  BY DEF QueueInv, TypeOK
<1>1. CASE adding
  <2>1. Adding
    BY <1>1 DEF QueueInv
  <2>2. /\ subject \in Items \ used /\ committed[subject] = Null /\ table[subject] = at
        /\ at \in 1..Cardinality(InQueue(committed)) + 1
        /\ \A j \in Items \ {subject} :
              table[j] = IF committed[j] >= at THEN committed[j] + 1 ELSE committed[j]
    BY <1>0, <2>1 DEF Adding, InQueue
  <2> QED
    BY <1>0, <1>1, <2>2, PuttingIn
<1>2. CASE ~adding
  <2>1. Ending
    BY <1>2 DEF QueueInv
  <2>2. /\ subject \in InQueue(committed) /\ table[subject] = Null
        /\ at = committed[subject]
        /\ \A j \in Items \ {subject} :
              table[j] = IF committed[j] > committed[subject]
                         THEN committed[j] - 1 ELSE committed[j]
    BY <2>1 DEF Ending
  <2> QED
    BY <1>0, <1>2, <2>2, TakingOut
<1> QED
  BY <1>1, <1>2

\* A change that begins finds a queue at rest.
LEMMA BeginsKeep ==
    ASSUME QueueInv,
           \/ \E i \in Items, p \in 1..Cardinality(Items) + 1 : BeginProposal(i, p)
           \/ \E i \in Items : BeginEnding(i)
    PROVE  QueueInv'
<1>0. /\ TypeOK /\ Contiguous(committed) /\ InQueue(committed) \subseteq used
      /\ phase = "idle" /\ table = committed
  BY DEF QueueInv, BeginProposal, BeginEnding
<1>00. Cardinality(InQueue(committed)) \in Nat
  BY <1>0, QueuePositions DEF TypeOK
<1>1. ASSUME NEW i \in Items, NEW p \in 1..Cardinality(Items) + 1, BeginProposal(i, p)
      PROVE  QueueInv'
  <2>1. p \in Nat /\ p >= 1 /\ p \in 1..Cardinality(InQueue(committed)) + 1
    BY <1>00, <1>1 DEF BeginProposal
  <2>2. TypeOK'
    BY <1>0, <1>1, <2>1 DEF TypeOK, BeginProposal, InQueue
  <2>3. committed[i] = Null
    BY <1>0, <1>1 DEF BeginProposal, InQueue
  <2>4. Adding'
    <3>1. \A j \in Items : j \in rest' <=> committed[j] >= p
      BY <1>0, <1>1, <2>1 DEF BeginProposal, InQueue, TypeOK, Null
    <3> QED
      BY <1>0, <1>1, <2>1, <2>3, <3>1 DEF Adding, BeginProposal, InQueue
  <2> QED
    BY <1>0, <1>1, <2>2, <2>4 DEF QueueInv, BeginProposal, Contiguous, InQueue
<1>2. ASSUME NEW i \in Items, BeginEnding(i) PROVE QueueInv'
  <2>1. TypeOK'
    BY <1>0, <1>2 DEF TypeOK, BeginEnding, InQueue, Null
  <2>2. Ending'
    <3>1. \A j \in Items : j \in rest' <=> committed[j] > committed[i]
      BY <1>0, <1>2 DEF BeginEnding, InQueue, TypeOK, Null
    <3>2. table' = [committed EXCEPT ![i] = Null] /\ i \in InQueue(committed)
      BY <1>0, <1>2 DEF BeginEnding
    <3> QED
      BY <1>0, <1>2, <3>1, <3>2 DEF Ending, BeginEnding, InQueue, TypeOK
  <2>3. (Contiguous(committed) /\ InQueue(committed) \subseteq used)'
    BY <1>0, <1>2 DEF BeginEnding, Contiguous, InQueue
  <2> QED
    BY <1>2, <2>1, <2>2, <2>3 DEF QueueInv, BeginEnding
<1> QED
  BY <1>1, <1>2

\* One UPDATE moves one row into the hole and leaves the hole where the row was.
LEMMA ShiftKeeps ==
    ASSUME QueueInv, NEW j \in Items, Shift(j)
    PROVE  QueueInv'
<1>0. /\ TypeOK /\ Contiguous(committed) /\ InQueue(committed) \subseteq used
      /\ phase = "shift" /\ j \in rest /\ ComesFirst(j) /\ rest \subseteq Items
      /\ committed \in [Items -> Nat] /\ table \in [Items -> Nat]
      /\ table' = [table EXCEPT ![j] = NewPosition(j)] /\ rest' = rest \ {j}
      /\ UNCHANGED <<committed, used, subject, adding, at, phase>>
  BY DEF QueueInv, Shift, TypeOK
<1>1. \A k, l \in Items : committed[k] = committed[l] /\ committed[k] # Null => k = l
  BY <1>0, QueuePositions
<1>2. table' \in [Items -> Nat]
  <2>1. NewPosition(j) \in Nat
    <3>1. adding \/ Ending
      BY <1>0 DEF QueueInv
    <3>2. ~adding => committed[j] > at /\ at \in Nat
      BY <1>0, <3>1 DEF Ending, TypeOK, QueueInv
    <3> QED
      BY <1>0, <3>2 DEF NewPosition
  <2> QED
    BY <1>0, <2>1
<1>3. TypeOK'
  BY <1>0, <1>2 DEF TypeOK
<1>4. CASE adding
  <2>1. Adding
    BY <1>0, <1>4 DEF QueueInv
  <2>2. j # subject
    BY <1>0, <2>1 DEF Adding, InQueue, Null, TypeOK
  <2>3. \A k \in rest' : committed[k] < committed[j]
    BY <1>0, <1>1, <1>4, <2>1 DEF ComesFirst, Adding, Null
  <2>4. Adding'
    BY <1>0, <1>4, <2>1, <2>2, <2>3 DEF Adding, NewPosition, InQueue
  <2> QED
    BY <1>0, <1>3, <1>4, <2>4 DEF QueueInv, Contiguous, InQueue
<1>5. CASE ~adding
  <2>1. Ending
    BY <1>0, <1>5 DEF QueueInv
  <2>2. j # subject /\ committed[j] > at
    BY <1>0, <2>1 DEF Ending, InQueue
  <2>3. \A k \in rest' : committed[j] < committed[k]
    BY <1>0, <1>1, <1>5, <2>1 DEF ComesFirst, Ending, Null, InQueue
  <2>4. Ending'
    BY <1>0, <1>5, <2>1, <2>2, <2>3 DEF Ending, NewPosition, InQueue
  <2> QED
    BY <1>0, <1>3, <1>5, <2>4 DEF QueueInv, Contiguous, InQueue
<1> QED
  BY <1>4, <1>5

\* The last statements of a change, its commit and its rollback keep the invariant.
LEMMA EndsKeep ==
    ASSUME QueueInv, EndShift \/ Insert \/ Commit \/ Rollback
    PROVE  QueueInv'
<1>0. /\ TypeOK /\ Contiguous(committed) /\ InQueue(committed) \subseteq used
  BY DEF QueueInv
<1>1. CASE EndShift
  <2>1. TypeOK'
    BY <1>0, <1>1 DEF TypeOK, EndShift
  <2>2. CASE adding
    BY <1>1, <2>1, <2>2 DEF QueueInv, EndShift, Adding, Contiguous, InQueue
  <2>3. CASE ~adding
    BY <1>1, <2>1, <2>3 DEF QueueInv, EndShift, Ending, Contiguous, InQueue
  <2> QED
    BY <2>2, <2>3
<1>2. CASE Insert
  <2>1. adding /\ Adding
    BY <1>2 DEF QueueInv, Insert, Ending
  <2>2. TypeOK'
    BY <1>0, <1>2 DEF TypeOK, Insert
  <2>3. Adding'
    BY <1>0, <1>2, <2>1 DEF Adding, Insert, TypeOK, InQueue
  <2> QED
    BY <1>0, <1>2, <2>1, <2>2, <2>3 DEF QueueInv, Insert, Contiguous, InQueue
<1>3. CASE Commit
  <2>1. /\ subject \in Items
        /\ InQueue(table) \subseteq InQueue(committed) \cup {subject}
    <3>1. CASE adding
      BY <1>3, <3>1, WhatIsLeft DEF Commit
    <3>2. CASE ~adding
      BY <1>3, <3>2, WhatIsLeft DEF Commit, InQueue
    <3> QED
      BY <3>1, <3>2
  <2>2. TypeOK'
    BY <1>0, <1>3, <2>1 DEF TypeOK, Commit, Close, Null
  <2> QED
    BY <1>0, <1>3, <2>1, <2>2 DEF QueueInv, Commit, Close, Contiguous, InQueue
<1>4. CASE Rollback
  <2>1. TypeOK'
    BY <1>0, <1>4 DEF TypeOK, Rollback, Close, Null
  <2> QED
    BY <1>0, <1>4, <2>1 DEF QueueInv, Rollback, Close, Contiguous, InQueue
<1> QED
  BY <1>1, <1>2, <1>3, <1>4

\* The positions of every transaction, whatever was committed before it.
THEOREM QueueCorrect == Spec => []QueueInv
<1>1. Init => QueueInv
  <2> SUFFICES ASSUME Init PROVE QueueInv
    OBVIOUS
  <2>1. InQueue(committed) = {} /\ TypeOK /\ Cardinality({}) = 0
    BY FS_EmptySet DEF Init, InQueue, TypeOK, Null
  <2>2. Contiguous(committed)
    BY <2>1 DEF Contiguous
  <2> QED
    BY <2>1, <2>2 DEF Init, QueueInv
<1>2. QueueInv /\ [Next]_vars => QueueInv'
  <2>1. QueueInv /\ UNCHANGED vars => QueueInv'
    BY DEF QueueInv, vars, TypeOK, Contiguous, InQueue, Adding, Ending
  <2> QED
    BY <2>1, BeginsKeep, ShiftKeeps, EndsKeep DEF Next
<1> QED
  BY <1>1, <1>2, PTL DEF Spec

\* No UPDATE of make_queue_space or compact_queue, and no INSERT after it,
\* meets a row that holds the position it wants.
THEOREM StatementsCorrect == Spec => []EveryStatementApplies
<1>1. QueueInv => EveryStatementApplies
  <2> SUFFICES ASSUME QueueInv PROVE EveryStatementApplies
    OBVIOUS
  <2>1. ASSUME phase = "insert" PROVE Applies(subject, at, Null)
    <3>1. Adding /\ Cardinality(InQueue(committed)) \in Nat
      BY <2>1, QueuePositions DEF QueueInv, Ending, TypeOK
    <3>2. /\ rest = {} /\ table[subject] = Null /\ at \in Nat /\ at >= 1
          /\ committed \in [Items -> Nat]
      BY <2>1, <3>1 DEF Adding, QueueInv, TypeOK
    <3>3. ASSUME NEW k \in Items \ {subject} PROVE table[k] # at
      BY <3>1, <3>2 DEF Adding
    <3> QED
      BY <3>2, <3>3 DEF Applies
  <2> QED
    BY <2>1, ShiftOrder DEF EveryStatementApplies
<1> QED
  BY <1>1, QueueCorrect, PTL

\* A change written statement by statement is never rejected by the readback.
THEOREM ReadsBackCorrect == Spec => []FinishedChangeReadsBack
<1>1. QueueInv => FinishedChangeReadsBack
  BY WhatIsLeft DEF FinishedChangeReadsBack
<1> QED
  BY <1>1, QueueCorrect, PTL

-----------------------------------------------------------------------------
(* The order of the queue.                                                 *)

\* A queue without gaps, as a line.
LEMMA LineOfPositions ==
    ASSUME NEW position \in [Items -> Nat], Contiguous(position)
    PROVE  /\ QueueOf(position) \in Seq(Items)
           /\ Len(QueueOf(position)) = Cardinality(InQueue(position))
           /\ \A k \in 1..Cardinality(InQueue(position)) :
                 /\ QueueOf(position)[k] \in Items
                 /\ position[QueueOf(position)[k]] = k
           /\ \A i \in Items :
                 position[i] \in 1..Cardinality(InQueue(position)) =>
                    QueueOf(position)[position[i]] = i
<1> DEFINE n == Cardinality(InQueue(position))
<1>1. /\ n \in Nat
      /\ \A i, j \in Items : position[i] = position[j] /\ position[i] # Null => i = j
      /\ \A k \in 1..n : \E i \in Items : position[i] = k
  BY QueuePositions
<1>2. QueueOf(position) = [k \in 1..n |-> CHOOSE i \in Items : position[i] = k]
  BY DEF QueueOf
<1> HIDE DEF n
<1>3. \A k \in 1..n : /\ QueueOf(position)[k] \in Items
                      /\ position[QueueOf(position)[k]] = k
  BY <1>1, <1>2
<1>4. QueueOf(position) \in Seq(Items) /\ Len(QueueOf(position)) = n
  BY <1>1, <1>2, <1>3
<1>5. ASSUME NEW i \in Items, position[i] \in 1..n
      PROVE  QueueOf(position)[position[i]] = i
  <2>1. position[i] # Null
    BY <1>1, <1>5 DEF Null
  <2>2. /\ QueueOf(position)[position[i]] \in Items
        /\ position[QueueOf(position)[position[i]]] = position[i]
    BY <1>3, <1>5
  <2> QED
    BY <1>1, <2>1, <2>2
<1> QED
  BY <1>3, <1>4, <1>5 DEF n

\* What InsertAt puts at each position.
LEMMA LineWithOneMore ==
    ASSUME NEW S, NEW s \in Seq(S), NEW e \in S, NEW p \in 1..Len(s) + 1
    PROVE  /\ Line!InsertAt(s, p, e) \in Seq(S)
           /\ Len(Line!InsertAt(s, p, e)) = Len(s) + 1
           /\ \A k \in 1..Len(s) + 1 :
                 Line!InsertAt(s, p, e)[k] =
                    IF k < p THEN s[k] ELSE IF k = p THEN e ELSE s[k - 1]
<1> DEFINE front == SubSeq(s, 1, p - 1)
           back == SubSeq(s, p, Len(s))
           until == front \o <<e>>
<1>0. Len(s) \in Nat /\ p \in Nat /\ p >= 1 /\ p <= Len(s) + 1
  BY LenProperties
<1>1. /\ front \in Seq(S) /\ Len(front) = p - 1
      /\ \A k \in 1..p - 1 : front[k] = s[k]
  <2>1. \A k \in 1..p - 1 : s[k] \in S
    BY <1>0, ElementOfSeq
  <2>2. /\ front \in Seq(S) /\ Len(front) = IF 1 <= p - 1 THEN (p - 1) - 1 + 1 ELSE 0
        /\ \A k \in 1..(p - 1) - 1 + 1 : front[k] = s[1 + k - 1]
    BY <1>0, <2>1, SubSeqProperties
  <2> QED
    BY <1>0, <2>2
<1>2. /\ back \in Seq(S) /\ Len(back) = Len(s) - p + 1
      /\ \A k \in 1..Len(s) - p + 1 : back[k] = s[p + k - 1]
  <2>1. \A k \in p..Len(s) : s[k] \in S
    BY <1>0, ElementOfSeq
  <2>2. /\ back \in Seq(S) /\ Len(back) = IF p <= Len(s) THEN Len(s) - p + 1 ELSE 0
        /\ \A k \in 1..Len(s) - p + 1 : back[k] = s[p + k - 1]
    BY <1>0, <2>1, SubSeqProperties
  <2> QED
    BY <1>0, <2>2
<1> HIDE DEF front, back
<1>3. <<e>> \in Seq(S) /\ Len(<<e>>) = 1 /\ <<e>>[1] = e
  OBVIOUS
<1>4. /\ until \in Seq(S) /\ Len(until) = p
      /\ \A k \in 1..p : until[k] = IF k < p THEN s[k] ELSE e
  <2>1. /\ until \in Seq(S) /\ Len(until) = Len(front) + 1
        /\ \A k \in 1..Len(front) + 1 :
              until[k] = IF k <= Len(front) THEN front[k] ELSE <<e>>[k - Len(front)]
    BY <1>1, <1>3, ConcatProperties
  <2> QED
    BY <1>0, <1>1, <1>3, <2>1
<1> HIDE DEF until
<1>5. /\ until \o back \in Seq(S) /\ Len(until \o back) = Len(s) + 1
      /\ \A k \in 1..Len(s) + 1 :
            (until \o back)[k] = IF k <= p THEN until[k] ELSE back[k - p]
  <2>1. /\ until \o back \in Seq(S) /\ Len(until \o back) = Len(until) + Len(back)
        /\ \A k \in 1..Len(until) + Len(back) :
              (until \o back)[k] = IF k <= Len(until) THEN until[k] ELSE back[k - Len(until)]
    BY <1>2, <1>4, ConcatProperties
  <2> QED
    BY <1>0, <1>2, <1>4, <2>1
<1>6. Line!InsertAt(s, p, e) = until \o back
  BY DEF Line!InsertAt, until, front, back
<1> QED
  BY <1>0, <1>2, <1>4, <1>5, <1>6

\* What RemoveAt leaves at each position.
LEMMA LineWithOneLess ==
    ASSUME NEW S, NEW s \in Seq(S), NEW p \in 1..Len(s)
    PROVE  /\ Line!RemoveAt(s, p) \in Seq(S)
           /\ Len(Line!RemoveAt(s, p)) = Len(s) - 1
           /\ \A k \in 1..Len(s) - 1 :
                 Line!RemoveAt(s, p)[k] = IF k < p THEN s[k] ELSE s[k + 1]
<1> DEFINE front == SubSeq(s, 1, p - 1)
           back == SubSeq(s, p + 1, Len(s))
<1>0. Len(s) \in Nat /\ p \in Nat /\ p >= 1 /\ p <= Len(s)
  BY LenProperties
<1>1. /\ front \in Seq(S) /\ Len(front) = p - 1
      /\ \A k \in 1..p - 1 : front[k] = s[k]
  <2>1. \A k \in 1..p - 1 : s[k] \in S
    BY <1>0, ElementOfSeq
  <2>2. /\ front \in Seq(S) /\ Len(front) = IF 1 <= p - 1 THEN (p - 1) - 1 + 1 ELSE 0
        /\ \A k \in 1..(p - 1) - 1 + 1 : front[k] = s[1 + k - 1]
    BY <1>0, <2>1, SubSeqProperties
  <2> QED
    BY <1>0, <2>2
<1>2. /\ back \in Seq(S) /\ Len(back) = Len(s) - p
      /\ \A k \in 1..Len(s) - p : back[k] = s[p + k]
  <2>1. \A k \in p + 1..Len(s) : s[k] \in S
    BY <1>0, ElementOfSeq
  <2>2. /\ back \in Seq(S)
        /\ Len(back) = IF p + 1 <= Len(s) THEN Len(s) - (p + 1) + 1 ELSE 0
        /\ \A k \in 1..Len(s) - (p + 1) + 1 : back[k] = s[(p + 1) + k - 1]
    BY <1>0, <2>1, SubSeqProperties
  <2> QED
    BY <1>0, <2>2
<1> HIDE DEF front, back
<1>3. /\ front \o back \in Seq(S) /\ Len(front \o back) = Len(s) - 1
      /\ \A k \in 1..Len(s) - 1 :
            (front \o back)[k] = IF k < p THEN front[k] ELSE back[k - (p - 1)]
  <2>1. /\ front \o back \in Seq(S) /\ Len(front \o back) = Len(front) + Len(back)
        /\ \A k \in 1..Len(front) + Len(back) :
              (front \o back)[k] = IF k <= Len(front) THEN front[k] ELSE back[k - Len(front)]
    BY <1>1, <1>2, ConcatProperties
  <2> QED
    BY <1>0, <1>1, <1>2, <2>1
<1>4. Line!RemoveAt(s, p) = front \o back
  BY DEF Line!RemoveAt, front, back
<1> QED
  BY <1>0, <1>1, <1>2, <1>3, <1>4

\* What a transaction commits is a step of the line.
LEMMA CommitIsInOrder ==
    ASSUME QueueInv, Commit
    PROVE  Line!Next
<1> DEFINE before == QueueOf(committed)
           after == QueueOf(table)
           n == Cardinality(InQueue(committed))
<1>0. /\ committed \in [Items -> Nat] /\ table \in [Items -> Nat] /\ Contiguous(committed)
      /\ phase = "readback" /\ committed' = table /\ used' = used \cup {subject}
      /\ InQueue(committed) \subseteq used
  BY DEF QueueInv, TypeOK, Commit
<1>1. /\ before \in Seq(Items) /\ Len(before) = n /\ n \in Nat
      /\ \A k \in 1..n : before[k] \in Items /\ committed[before[k]] = k
      /\ \A i \in Items : committed[i] \in 1..n => before[committed[i]] = i
  BY <1>0, LineOfPositions, QueuePositions
<1>2. /\ after \in Seq(Items) /\ Len(after) = Cardinality(InQueue(table))
      /\ \A i \in Items : table[i] \in 1..Cardinality(InQueue(table)) => after[table[i]] = i
  BY <1>0, LineOfPositions, WhatIsLeft
<1>3. QueueOf(committed)' = after
  BY <1>0 DEF QueueOf, InQueue
<1> HIDE DEF before, after, n
<1>4. CASE adding
  <2>1. /\ subject \in Items \ used /\ at \in 1..n + 1 /\ Adding
        /\ Cardinality(InQueue(table)) = n + 1
    BY <1>0, <1>4, WhatIsLeft DEF n, QueueInv
  <2>2. /\ table[subject] = at /\ committed[subject] = Null /\ at \in Nat
        /\ \A j \in Items \ {subject} :
              table[j] = IF committed[j] >= at THEN committed[j] + 1 ELSE committed[j]
    BY <1>0, <1>1, <2>1 DEF Adding, InQueue
  <2> DEFINE line == Line!InsertAt(before, at, subject)
  <2>3. /\ line \in Seq(Items) /\ Len(line) = n + 1
        /\ \A k \in 1..n + 1 :
              line[k] = IF k < at THEN before[k]
                        ELSE IF k = at THEN subject ELSE before[k - 1]
    <3>1. before \in Seq(Items) /\ subject \in Items /\ at \in 1..Len(before) + 1
      BY <1>1, <2>1
    <3>2. Line!InsertAt(before, at, subject) \in Seq(Items)
      BY <3>1, LineWithOneMore
    <3>3. Len(Line!InsertAt(before, at, subject)) = Len(before) + 1
      BY <3>1, LineWithOneMore
    <3>4. \A k \in 1..Len(before) + 1 :
             Line!InsertAt(before, at, subject)[k] =
                IF k < at THEN before[k] ELSE IF k = at THEN subject ELSE before[k - 1]
      BY <3>1, LineWithOneMore
    <3> QED
      BY <1>1, <3>2, <3>3, <3>4
  <2> HIDE DEF line
  <2>4. ASSUME NEW k \in 1..n + 1 PROVE after[k] = line[k]
    <3>0. k \in Nat /\ k >= 1 /\ k <= n + 1
      BY <1>1
    <3>1. CASE k = at
      BY <1>2, <2>1, <2>2, <2>3, <3>1
    <3>2. CASE k < at
      <4>1. k \in 1..n
        BY <1>1, <2>1, <3>0, <3>2
      <4>2. before[k] \in Items \ {subject} /\ committed[before[k]] = k
        BY <1>1, <2>2, <3>0, <4>1 DEF Null
      <4>3. table[before[k]] = k
        BY <2>2, <3>0, <3>2, <4>2
      <4> QED
        BY <1>2, <2>1, <2>3, <3>2, <4>2, <4>3
    <3>3. CASE k > at
      <4>1. k - 1 \in 1..n
        BY <1>1, <2>1, <2>2, <3>0, <3>3
      <4>2. before[k - 1] \in Items \ {subject} /\ committed[before[k - 1]] = k - 1
        BY <1>1, <2>2, <3>0, <4>1 DEF Null
      <4>3. table[before[k - 1]] = k
        BY <2>2, <3>0, <3>3, <4>2
      <4> QED
        BY <1>2, <2>1, <2>2, <2>3, <3>0, <3>3, <4>2, <4>3
    <3> QED
      BY <2>2, <3>0, <3>1, <3>2, <3>3
  <2>5. after = line
    BY <1>2, <2>1, <2>3, <2>4, SeqEqual
  <2>6. Line!Enter(subject, at)
    BY <1>0, <1>3, <2>1, <2>5 DEF Line!Enter, before, line
  <2> QED
    BY <1>1, <2>1, <2>6 DEF Line!Next, before
<1>5. CASE ~adding
  <2>1. /\ subject \in InQueue(committed) /\ at \in 1..n /\ Ending
        /\ Cardinality(InQueue(table)) = n - 1
    BY <1>0, <1>5, WhatIsLeft DEF n, QueueInv
  <2>2. /\ subject \in Items /\ committed[subject] = at /\ at \in Nat
        /\ \A j \in Items \ {subject} :
              table[j] = IF committed[j] > at THEN committed[j] - 1 ELSE committed[j]
    BY <1>0, <1>1, <2>1 DEF Ending, InQueue
  <2> DEFINE line == Line!RemoveAt(before, at)
  <2>3. /\ line \in Seq(Items) /\ Len(line) = n - 1
        /\ \A k \in 1..n - 1 : line[k] = IF k < at THEN before[k] ELSE before[k + 1]
    BY <1>1, <2>1, LineWithOneLess
  <2> HIDE DEF line
  <2>4. ASSUME NEW k \in 1..n - 1 PROVE after[k] = line[k]
    <3>0. k \in Nat /\ k >= 1 /\ k <= n - 1
      BY <1>1
    <3>1. CASE k < at
      <4>1. k \in 1..n
        BY <1>1, <3>0
      <4>2. before[k] \in Items \ {subject} /\ committed[before[k]] = k
        BY <1>1, <2>2, <3>0, <3>1, <4>1
      <4>3. table[before[k]] = k
        BY <2>2, <3>0, <3>1, <4>2
      <4> QED
        BY <1>2, <2>1, <2>3, <3>1, <4>2, <4>3
    <3>2. CASE k >= at
      <4>1. k + 1 \in 1..n
        BY <1>1, <3>0
      <4>2. before[k + 1] \in Items \ {subject} /\ committed[before[k + 1]] = k + 1
        BY <1>1, <2>2, <3>0, <3>2, <4>1
      <4>3. table[before[k + 1]] = k
        BY <2>2, <3>0, <3>2, <4>2
      <4> QED
        BY <1>2, <2>1, <2>2, <2>3, <3>0, <3>2, <4>2, <4>3
    <3> QED
      BY <2>2, <3>0, <3>1, <3>2
  <2>5. after = line
    BY <1>2, <2>1, <2>3, <2>4, SeqEqual
  <2>6. Line!Leave(at)
    BY <1>0, <1>3, <2>1, <2>5 DEF Line!Leave, before, line
  <2> QED
    BY <1>1, <2>1, <2>6 DEF Line!Next, before
<1> QED
  BY <1>4, <1>5

\* For every other connection the queue is a line in which one item is put at
\* one place or taken out, and all others keep their order.
THEOREM OrderCorrect == Spec => OrderIsKept
<1>1. Init => Line!Init
  <2> SUFFICES ASSUME Init PROVE Line!Init
    OBVIOUS
  <2>1. Cardinality(InQueue(committed)) = 0
    <3>1. InQueue(committed) = {}
      BY DEF Init, InQueue, Null
    <3> QED
      BY <3>1, FS_EmptySet
  <2>2. QueueOf(committed) = <<>>
    BY <2>1 DEF QueueOf
  <2> QED
    BY <2>2 DEF Init, Line!Init
<1>2. QueueInv /\ [Next]_vars => [Line!Next]_(Line!vars)
  <2> SUFFICES ASSUME QueueInv, [Next]_vars PROVE Line!Next \/ UNCHANGED Line!vars
    OBVIOUS
  <2>1. CASE UNCHANGED <<committed, used>>
    BY <2>1 DEF Line!vars, QueueOf, InQueue
  <2>2. Commit \/ UNCHANGED <<committed, used>>
    BY DEF Next, vars, BeginProposal, BeginEnding, Shift, EndShift, Insert, Rollback
  <2> QED
    BY <2>1, <2>2, CommitIsInOrder
<1> QED
  BY <1>1, <1>2, QueueCorrect, PTL DEF Spec, OrderIsKept, Order, Line!Spec

-----------------------------------------------------------------------------
(* The generated views.                                                    *)

Elements(s) == {s[n] : n \in DOMAIN s}

\* What a process may be doing.
Doing(c) ==
    \/ command[c] = Projections!Idle
    \/ command[c] \in [step : {"deciding", "committed"}, kind : Projections!Kinds]
    \/ /\ command[c] \in [step : {"writing"}, snapshot : Nat, todo : Seq(Projections!Views)]
       /\ command[c].todo # <<>>

\* It will bring the view up to what was announced of it.
WillShow(c, v) ==
    \/ /\ command[c].step = "committed"
       /\ v \in Projections!ToWrite(command[c].kind)
    \/ /\ command[c].step = "writing"
       /\ v \in Elements(command[c].todo)
       /\ command[c].snapshot >= due[v]

ViewsInv ==
    /\ revision \in Nat
    /\ view \in [Projections!Views -> Nat]
    /\ due \in [Projections!Views -> Nat]
    /\ \A v \in Projections!Views : due[v] <= revision
    /\ command = [c \in Projections!Processes |-> command[c]]
    /\ \A c \in Projections!Processes : Doing(c)
    /\ \A v \in Projections!Views \ excused :
          view[v] >= due[v] \/ \E c \in Projections!Processes : WillShow(c, v)

\* What a refresh writes is the order in which it writes it, without omissions.
LEMMA OrderShape ==
    ASSUME NEW kind \in Projections!Kinds
    PROVE  /\ Projections!Order(kind) \in Seq(Projections!Views)
           /\ Projections!Order(kind) # <<>>
           /\ Projections!ToWrite(kind) = Elements(Projections!Order(kind))
<1>1. /\ <<"queue", "current", "item", "attempt">> \in Seq(Projections!Views)
      /\ <<"queue", "current", "item">> \in Seq(Projections!Views)
      /\ <<"queue", "current">> \in Seq(Projections!Views)
      /\ <<"queue", "item">> \in Seq(Projections!Views)
  BY DEF Projections!Views
<1>2. /\ <<"queue", "current", "item", "attempt">> # <<>>
      /\ <<"queue", "current", "item">> # <<>>
      /\ <<"queue", "current">> # <<>>
      /\ <<"queue", "item">> # <<>>
  OBVIOUS
<1>3. \/ Projections!Order(kind) = <<"queue", "current", "item", "attempt">>
      \/ Projections!Order(kind) = <<"queue", "current", "item">>
      \/ Projections!Order(kind) = <<"queue", "current">>
      \/ Projections!Order(kind) = <<"queue", "item">>
  BY DEF Projections!Order, Projections!Kinds
<1>4. Projections!Order(kind) \in Seq(Projections!Views)
  BY <1>1, <1>3
<1>5. Projections!Order(kind) # <<>>
  BY <1>2, <1>3
<1> QED
  BY <1>4, <1>5 DEF Projections!ToWrite, Elements

\* What is left to write once the first view is written.
LEMMA Remaining ==
    ASSUME NEW S, NEW s \in Seq(S), s # <<>>
    PROVE  /\ Head(s) \in S /\ Tail(s) \in Seq(S)
           /\ Elements(s) \subseteq Elements(Tail(s)) \cup {Head(s)}
<1>1. /\ Len(s) \in Nat /\ Len(s) > 0 /\ DOMAIN s = 1..Len(s) /\ Head(s) = s[1]
      /\ Tail(s) \in Seq(S) /\ Len(Tail(s)) = Len(s) - 1
      /\ \A n \in 1..Len(s) - 1 : Tail(s)[n] = s[n + 1]
  OBVIOUS
<1>2. DOMAIN Tail(s) = 1..Len(s) - 1
  BY <1>1
<1>3. ASSUME NEW n \in 1..Len(s), n # 1 PROVE s[n] \in Elements(Tail(s))
  <2>1. n - 1 \in 1..Len(s) - 1 /\ Tail(s)[n - 1] = s[n]
    BY <1>1, <1>3
  <2> QED
    BY <1>2, <2>1 DEF Elements
<1>4. Head(s) \in S
  BY <1>1
<1> QED
  BY <1>1, <1>3, <1>4 DEF Elements

\* A process moves on without touching a view; `due` may advance for the
\* views it will write.
LEMMA MovingOn ==
    ASSUME ViewsInv, NEW c \in Projections!Processes, NEW after,
           Projections!Set(c, after), view' = view, excused' = excused,
           revision' \in Nat, revision' >= revision,
           due' \in [Projections!Views -> Nat],
           \A v \in Projections!Views :
              due'[v] = due[v] \/ (due'[v] = revision' /\ WillShow(c, v)'),
           \A v \in Projections!Views : WillShow(c, v) => WillShow(c, v)',
           Doing(c)'
    PROVE  ViewsInv'
<1>0. /\ command' = [command EXCEPT ![c] = after]
      /\ command = [d \in Projections!Processes |-> command[d]]
      /\ revision \in Nat /\ due \in [Projections!Views -> Nat]
      /\ \A v \in Projections!Views : due[v] <= revision
      /\ \A d \in Projections!Processes : Doing(d)
  BY DEF Projections!Set, ViewsInv
<1>1. /\ command' = [d \in Projections!Processes |-> command'[d]]
      /\ \A d \in Projections!Processes \ {c} : command'[d] = command[d]
  BY <1>0
<1>2. \A d \in Projections!Processes : Doing(d)'
  BY <1>0, <1>1 DEF Doing
<1>3. \A v \in Projections!Views : due'[v] <= revision'
  BY <1>0
<1>4. ASSUME NEW v \in Projections!Views \ excused'
      PROVE  view'[v] >= due'[v] \/ \E d \in Projections!Processes : WillShow(d, v)'
  <2>1. CASE due'[v] # due[v]
    BY <2>1
  <2>2. CASE due'[v] = due[v]
    <3>1. CASE view[v] >= due[v]
      BY <2>2, <3>1
    <3>2. CASE \E d \in Projections!Processes : WillShow(d, v)
      <4>1. PICK d \in Projections!Processes : WillShow(d, v)
        BY <3>2
      <4>2. CASE d = c
        BY <4>1, <4>2
      <4>3. CASE d # c
        BY <1>1, <2>2, <4>1, <4>3 DEF WillShow
      <4> QED
        BY <4>2, <4>3
    <3> QED
      BY <1>4, <3>1, <3>2 DEF ViewsInv
  <2> QED
    BY <2>1, <2>2
<1> QED
  BY <1>1, <1>2, <1>3, <1>4 DEF ViewsInv

\* The record of a refresh after one of its views.
LEMMA OneViewLess ==
    ASSUME NEW S, NEW r \in [step : {"writing"}, snapshot : Nat, todo : S],
           NEW left
    PROVE  [r EXCEPT !.todo = left] =
               [step |-> "writing", snapshot |-> r.snapshot, todo |-> left]
<1>1. r = [step |-> "writing", snapshot |-> r.snapshot, todo |-> r.todo]
  OBVIOUS
<1> QED
  BY <1>1

\* Replacing one view file keeps the invariant of the views.
LEMMA WriteViewKeeps ==
    ASSUME ViewsInv, NEW c \in Projections!Processes, Projections!WriteView(c)
    PROVE  ViewsInv'
<1> DEFINE now == command[c]
           v == Head(now.todo)
           left == Tail(now.todo)
<1>0. /\ command = [d \in Projections!Processes |-> command[d]]
      /\ revision \in Nat /\ due \in [Projections!Views -> Nat]
      /\ view \in [Projections!Views -> Nat]
      /\ \A d \in Projections!Processes : Doing(d)
      /\ \A u \in Projections!Views : due[u] <= revision
  BY DEF ViewsInv
<1>1. /\ now.step = "writing"
      /\ now \in [step : {"writing"}, snapshot : Nat, todo : Seq(Projections!Views)]
      /\ now.todo # <<>>
  BY <1>0 DEF Projections!WriteView, Doing, Projections!Idle
<1>2. /\ v \in Projections!Views /\ left \in Seq(Projections!Views)
      /\ Elements(now.todo) \subseteq Elements(left) \cup {v}
  BY <1>1, Remaining
<1>3. /\ view' = [view EXCEPT ![v] = now.snapshot]
      /\ excused' = IF now.snapshot >= due[v] THEN excused \ {v}
                    ELSE IF now.snapshot < view[v] THEN excused \cup {v} ELSE excused
      /\ command' = [command EXCEPT ![c] =
             IF left = <<>> THEN Projections!Idle ELSE [now EXCEPT !.todo = left]]
      /\ UNCHANGED <<revision, due>>
  BY DEF Projections!WriteView, Projections!Set
<1>4. view' \in [Projections!Views -> Nat]
  BY <1>0, <1>1, <1>2, <1>3
<1>5. /\ command' = [d \in Projections!Processes |-> command'[d]]
      /\ \A d \in Projections!Processes \ {c} : command'[d] = command[d]
      /\ command'[c] = IF left = <<>> THEN Projections!Idle
                       ELSE [step |-> "writing", snapshot |-> now.snapshot, todo |-> left]
  <2>1. [now EXCEPT !.todo = left] =
            [step |-> "writing", snapshot |-> now.snapshot, todo |-> left]
    BY <1>1, OneViewLess
  <2> QED
    BY <1>0, <1>3, <2>1
<1> HIDE DEF now, v, left
<1>6. \A d \in Projections!Processes : Doing(d)'
  <2>1. Doing(c)'
    <3>1. now.snapshot \in Nat
      BY <1>1
    <3> QED
      BY <1>2, <1>5, <3>1 DEF Doing
  <2> QED
    BY <1>0, <1>5, <2>1 DEF Doing
<1>7. ASSUME NEW u \in Projections!Views, u # v, NEW d \in Projections!Processes,
             WillShow(d, u)
      PROVE  WillShow(d, u)'
  <2>1. CASE d # c
    BY <1>3, <1>5, <1>7, <2>1 DEF WillShow
  <2>2. CASE d = c
    <3>1. u \in Elements(now.todo) /\ now.snapshot >= due[u]
      BY <1>1, <1>7, <2>2 DEF WillShow, now
    <3>2. u \in Elements(left)
      BY <1>2, <1>7, <3>1
    <3>3. left # <<>>
      BY <3>2 DEF Elements
    <3> QED
      BY <1>3, <1>5, <2>2, <3>1, <3>2, <3>3 DEF WillShow
  <2> QED
    BY <2>1, <2>2
<1>8. ASSUME NEW u \in Projections!Views \ excused'
      PROVE  view'[u] >= due'[u] \/ \E d \in Projections!Processes : WillShow(d, u)'
  <2>1. CASE u # v
    <3>1. u \notin excused /\ view'[u] = view[u]
      BY <1>0, <1>3, <1>8, <2>1
    <3>2. view[u] >= due[u] \/ \E d \in Projections!Processes : WillShow(d, u)
      BY <3>1 DEF ViewsInv
    <3> QED
      BY <1>3, <1>7, <2>1, <3>1, <3>2
  <2>2. CASE u = v /\ now.snapshot >= due[v]
    BY <1>0, <1>2, <1>3, <2>2
  <2>3. CASE u = v /\ ~(now.snapshot >= due[v])
    <3>1. v \notin excused /\ ~(now.snapshot < view[v])
      BY <1>3, <1>8, <2>3
    <3>2. ~(view[v] >= due[v])
      BY <1>0, <1>1, <1>2, <2>3, <3>1
    <3>3. PICK d \in Projections!Processes : WillShow(d, v)
      BY <1>2, <3>1, <3>2 DEF ViewsInv
    <3>4. d # c
      BY <1>1, <2>3, <3>3 DEF WillShow, now
    <3> QED
      BY <1>3, <1>5, <2>3, <3>3, <3>4 DEF WillShow
  <2> QED
    BY <2>1, <2>2, <2>3
<1> QED
  BY <1>0, <1>3, <1>4, <1>5, <1>6, <1>8 DEF ViewsInv

\* A refresh that fails or dies accounts for the views it did not write.
LEMMA FailOrDieKeeps ==
    ASSUME ViewsInv, NEW c \in Projections!Processes, Projections!FailOrDie(c)
    PROVE  ViewsInv'
<1>0. /\ command = [d \in Projections!Processes |-> command[d]]
      /\ \A d \in Projections!Processes : Doing(d)
  BY DEF ViewsInv
<1>1. /\ UNCHANGED <<revision, view, due>>
      /\ excused' = excused \cup Projections!Left(c)
      /\ command' = [command EXCEPT ![c] = Projections!Idle]
  BY DEF Projections!FailOrDie, Projections!Set
<1>2. /\ command' = [d \in Projections!Processes |-> command'[d]]
      /\ \A d \in Projections!Processes \ {c} : command'[d] = command[d]
      /\ command'[c] = Projections!Idle
  BY <1>0, <1>1
<1>3. \A d \in Projections!Processes : Doing(d)'
  BY <1>0, <1>2 DEF Doing
<1>4. ASSUME NEW v \in Projections!Views, WillShow(c, v) PROVE v \in Projections!Left(c)
  BY <1>4 DEF WillShow, Projections!Left, Elements
<1>5. ASSUME NEW v \in Projections!Views \ excused'
      PROVE  view'[v] >= due'[v] \/ \E d \in Projections!Processes : WillShow(d, v)'
  <2>1. v \notin excused /\ ~WillShow(c, v)
    BY <1>1, <1>4, <1>5
  <2>2. view[v] >= due[v] \/ \E d \in Projections!Processes \ {c} : WillShow(d, v)
    BY <2>1 DEF ViewsInv
  <2> QED
    BY <1>1, <1>2, <2>2 DEF WillShow
<1> QED
  BY <1>1, <1>2, <1>3, <1>5 DEF ViewsInv

\* Whatever is stale when nothing runs was warned of, was left by a process
\* that died, or was written over by a slower refresh (work_views.refresh
\* derives the views from a snapshot of its own).
THEOREM StaleCorrect == Projections!Spec => []StaleHasACause
<1>1. Projections!Init => ViewsInv
  BY DEF Projections!Init, ViewsInv, Doing
<1>2. ASSUME ViewsInv, [Projections!Next]_(Projections!vars) PROVE ViewsInv'
  <2>0. /\ command = [d \in Projections!Processes |-> command[d]]
        /\ revision \in Nat /\ due \in [Projections!Views -> Nat]
        /\ \A v \in Projections!Views : due[v] <= revision
        /\ \A d \in Projections!Processes : Doing(d)
    BY <1>2 DEF ViewsInv
  <2>1. CASE UNCHANGED Projections!vars
    BY <1>2, <2>1 DEF Projections!vars, ViewsInv, Doing, WillShow
  <2>2. ASSUME NEW c \in Projections!Processes, NEW kind \in Projections!Kinds,
               \/ Projections!BeginWrite(c, kind)
               \/ kind = "rebuild" /\ Projections!StartRebuild(c)
        PROVE  ViewsInv'
    <3> DEFINE after == [step |-> IF Projections!BeginWrite(c, kind)
                                  THEN "deciding" ELSE "committed", kind |-> kind]
    <3>1. /\ command[c] = Projections!Idle
          /\ UNCHANGED <<revision, view, due, excused>>
          /\ Projections!Set(c, after)
      BY <2>2 DEF Projections!BeginWrite, Projections!StartRebuild
    <3>2. command'[c] = after
      BY <2>0, <3>1 DEF Projections!Set
    <3>3. Doing(c)'
      BY <3>2 DEF Doing
    <3>4. \A v \in Projections!Views : ~WillShow(c, v)
      BY <3>1 DEF WillShow, Projections!Idle
    <3> HIDE DEF after
    <3> QED
      BY <1>2, <2>0, <3>1, <3>3, <3>4, MovingOn
  <2>3. ASSUME NEW c \in Projections!Processes, Projections!CommitWrite(c)
        PROVE  ViewsInv'
    <3> DEFINE after == [step |-> "committed", kind |-> command[c].kind]
    <3>1. /\ command[c].step = "deciding" /\ command[c].kind \in Projections!Kinds
      BY <2>0, <2>3 DEF Projections!CommitWrite, Doing, Projections!Idle
    <3>2. /\ revision' = revision + 1 /\ Projections!Set(c, after)
          /\ UNCHANGED <<view, excused>>
          /\ due' = [v \in Projections!Views |->
                       IF v \in Projections!ToWrite(command[c].kind)
                       THEN revision' ELSE due[v]]
      BY <2>3 DEF Projections!CommitWrite
    <3>3. command'[c] = after
      BY <2>0, <3>2 DEF Projections!Set
    <3>4. Doing(c)'
      BY <3>1, <3>3 DEF Doing
    <3>5. \A v \in Projections!Views : ~WillShow(c, v)
      BY <3>1 DEF WillShow
    <3>6. \A v \in Projections!ToWrite(command[c].kind) : WillShow(c, v)'
      BY <3>3 DEF WillShow
    <3>7. due' \in [Projections!Views -> Nat] /\ revision' \in Nat /\ revision' >= revision
      BY <2>0, <3>2
    <3>8. \A v \in Projections!Views :
              due'[v] = due[v] \/ (due'[v] = revision' /\ WillShow(c, v)')
      BY <3>2, <3>6
    <3> HIDE DEF after
    <3> QED
      BY <1>2, <3>2, <3>4, <3>5, <3>7, <3>8, MovingOn
  <2>4. ASSUME NEW c \in Projections!Processes, Projections!Refuse(c)
        PROVE  ViewsInv'
    <3>1. /\ command[c].step = "deciding"
          /\ UNCHANGED <<revision, view, due, excused>>
          /\ Projections!Set(c, Projections!Idle)
      BY <2>4 DEF Projections!Refuse
    <3>2. Doing(c)' /\ \A v \in Projections!Views : ~WillShow(c, v)
      BY <2>0, <3>1 DEF Doing, Projections!Set, WillShow
    <3> QED
      BY <1>2, <2>0, <3>1, <3>2, MovingOn
  <2>5. ASSUME NEW c \in Projections!Processes, Projections!TakeSnapshot(c)
        PROVE  ViewsInv'
    <3> DEFINE after == [step |-> "writing", snapshot |-> revision,
                         todo |-> Projections!Order(command[c].kind)]
    <3>1. /\ command[c].step = "committed" /\ command[c].kind \in Projections!Kinds
      BY <2>0, <2>5 DEF Projections!TakeSnapshot, Doing, Projections!Idle
    <3>2. UNCHANGED <<revision, view, due, excused>> /\ Projections!Set(c, after)
      BY <2>5 DEF Projections!TakeSnapshot
    <3>3. command'[c] = after
      BY <2>0, <3>2 DEF Projections!Set
    <3>4. Doing(c)'
      BY <2>0, <3>1, <3>3, OrderShape DEF Doing
    <3>5. ASSUME NEW v \in Projections!Views, WillShow(c, v) PROVE WillShow(c, v)'
      <4>1. v \in Elements(Projections!Order(command[c].kind))
        BY <3>1, <3>5, OrderShape DEF WillShow
      <4> QED
        BY <2>0, <3>2, <3>3, <4>1 DEF WillShow
    <3> HIDE DEF after
    <3> QED
      BY <1>2, <2>0, <3>2, <3>4, <3>5, MovingOn
  <2> QED
    BY <1>2, <2>1, <2>2, <2>3, <2>4, <2>5, WriteViewKeeps, FailOrDieKeeps
    DEF Projections!Next, Projections!Step, Projections!Kinds, Projections!Processes
<1>3. ViewsInv => StaleHasACause
  <2> SUFFICES ASSUME ViewsInv,
                      \A c \in Projections!Processes : command[c] = Projections!Idle,
                      NEW v \in Projections!Views \ excused
               PROVE  view[v] >= due[v]
    BY DEF StaleHasACause, Projections!StaleHasACause
  <2>1. \A c \in Projections!Processes : ~WillShow(c, v)
    BY DEF WillShow, Projections!Idle
  <2> QED
    BY <2>1 DEF ViewsInv
<1> QED
  BY <1>1, <1>2, <1>3, PTL DEF Projections!Spec

-----------------------------------------------------------------------------
(* The publication of the database, by one initializer at a time (two at   *)
(* once publish an incomplete ledger, as a run shows), with any number of  *)
(* crashes, power losses and failing calls.  A process is at a place of    *)
(* one of three plans: a new ledger's, an existing ledger's, or the        *)
(* clean-up after a failure.                                               *)

\* What is left of a plan from its k-th call on.
From(s, k) == [n \in 1..(Len(s) - k + 1) |-> s[n + k - 1]]
NewPlan == Publication!CleanUp("stage") \o Publication!Publish
OldPlan ==
    Publication!CleanUp("stage") \o Publication!EnsureDirectories \o Publication!Present
BackPlan == Publication!CleanUp("dest") \o Publication!CleanUp("stage")

\* What is left of a plan from its k-th call on.
LEMMA FromShape ==
    ASSUME NEW S, NEW s \in Seq(S), NEW k \in 1..Len(s)
    PROVE  /\ From(s, k) \in Seq(S) /\ From(s, k) # <<>>
           /\ Head(From(s, k)) = s[k]
           /\ Len(From(s, k)) = Len(s) - k + 1
<1>1. From(s, k) \in [1..(Len(s) - k + 1) -> S]
  BY DEF From
<1>2. Len(s) - k + 1 \in Nat \ {0}
  OBVIOUS
<1>3. From(s, k) \in Seq(S) /\ Len(From(s, k)) = Len(s) - k + 1
  BY <1>1, <1>2
<1>4. Head(From(s, k)) = From(s, k)[1] /\ From(s, k)[1] = s[k]
  BY <1>2, <1>3 DEF From
<1>5. From(s, k) # <<>>
  BY <1>2, <1>3
<1> QED
  BY <1>3, <1>4, <1>5

\* What is left after one more call.
LEMMA FromRest ==
    ASSUME NEW S, NEW s \in Seq(S), NEW k \in 1..Len(s)
    PROVE  Tail(From(s, k)) = IF k = Len(s) THEN <<>> ELSE From(s, k + 1)
<1>1. /\ From(s, k) \in Seq(S) /\ From(s, k) # <<>>
      /\ Len(From(s, k)) = Len(s) - k + 1
  BY FromShape
<1>2. CASE k = Len(s)
  <2>1. Len(From(s, k)) = 1
    BY <1>1, <1>2
  <2>2. Tail(From(s, k)) \in Seq(S) /\ Len(Tail(From(s, k))) = 0
    BY <1>1, <2>1
  <2> QED
    BY <1>2, <2>2, EmptySeq
<1>3. CASE k # Len(s)
  <2>1. k + 1 \in 1..Len(s)
    BY <1>3
  <2>2. /\ From(s, k + 1) \in Seq(S) /\ Len(From(s, k + 1)) = Len(s) - k
    BY <2>1, FromShape
  <2>3. /\ Tail(From(s, k)) \in Seq(S) /\ Len(Tail(From(s, k))) = Len(s) - k
        /\ \A n \in 1..(Len(s) - k) : Tail(From(s, k))[n] = From(s, k)[n + 1]
    BY <1>1
  <2>4. \A n \in 1..(Len(s) - k) : From(s, k)[n + 1] = From(s, k + 1)[n]
    BY <2>1 DEF From
  <2> QED
    BY <1>3, <2>2, <2>3, <2>4, SeqEqual
<1> QED
  BY <1>2, <1>3

CallNames ==
    {"unlink", "sync", "connect", "schema", "metadata", "syncFile", "link", "open",
     "rebuild"}
Call == CallNames \X {"dest", "stage"}

\* The calls of two plans in a row.
LEMMA Joined ==
    ASSUME NEW S, NEW s \in Seq(S), NEW r \in Seq(S)
    PROVE  /\ s \o r \in Seq(S)
           /\ Len(s \o r) = Len(s) + Len(r)
           /\ \A n \in 1..Len(s) + Len(r) :
                 (s \o r)[n] = IF n <= Len(s) THEN s[n] ELSE r[n - Len(s)]
  OBVIOUS

\* The same for plans of an initialization.
LEMMA JoinedPlans ==
    \A s, r \in Seq(Call) :
       /\ s \o r \in Seq(Call)
       /\ Len(s \o r) = Len(s) + Len(r)
       /\ \A n \in 1..Len(s) + Len(r) :
             (s \o r)[n] = IF n <= Len(s) THEN s[n] ELSE r[n - Len(s)]
  BY Joined

\* Removing a name is two calls.
LEMMA CleanUpIs ==
    ASSUME NEW n \in {"dest", "stage"}
    PROVE  /\ Publication!CleanUp(n) \in Seq(Call) /\ Len(Publication!CleanUp(n)) = 2
           /\ Publication!CleanUp(n)[1] = <<"unlink", n>>
           /\ Publication!CleanUp(n)[2] = <<"sync", n>>
  BY DEF Publication!CleanUp, Call, CallNames

\* The calls of going back after a failure.
LEMMA BackAt ==
    /\ BackPlan \in Seq(Call) /\ Len(BackPlan) = 4
    /\ BackPlan[1] = <<"unlink", "dest">>
    /\ BackPlan[2] = <<"sync", "dest">>
    /\ BackPlan[3] = <<"unlink", "stage">>
    /\ BackPlan[4] = <<"sync", "stage">>
<1> DEFINE a == Publication!CleanUp("dest")
           b == Publication!CleanUp("stage")
<1>1. /\ a \in Seq(Call) /\ Len(a) = 2 /\ a[1] = <<"unlink", "dest">> /\ a[2] = <<"sync", "dest">>
      /\ b \in Seq(Call) /\ Len(b) = 2 /\ b[1] = <<"unlink", "stage">> /\ b[2] = <<"sync", "stage">>
  BY CleanUpIs
<1>2. BackPlan = a \o b
  BY DEF BackPlan
<1> HIDE DEF a, b
<1>3. a \o b \in Seq(Call) /\ Len(a \o b) = Len(a) + Len(b)
  BY <1>1, JoinedPlans
<1>4. \A n \in 1..Len(a) + Len(b) :
         (a \o b)[n] = IF n <= Len(a) THEN a[n] ELSE b[n - Len(a)]
  BY <1>1, JoinedPlans
<1> QED
  BY <1>1, <1>2, <1>3, <1>4

\* The end of a plan is what was appended.
LEMMA FromJoined ==
    ASSUME NEW s \in Seq(Call), NEW r \in Seq(Call), r # <<>>
    PROVE  From(s \o r, Len(s) + 1) = r
<1> DEFINE t == s \o r
           k == Len(s) + 1
<1>1. /\ t \in Seq(Call)
      /\ Len(t) = Len(s) + Len(r)
      /\ \A n \in 1..Len(s) + Len(r) :
            t[n] = IF n <= Len(s) THEN s[n] ELSE r[n - Len(s)]
  BY JoinedPlans
<1>2. Len(s) \in Nat /\ Len(r) \in Nat /\ Len(r) > 0
  OBVIOUS
<1> HIDE DEF t
<1>3. k \in 1..Len(t) /\ Len(t) - k + 1 = Len(r)
  BY <1>1, <1>2
<1>4. ASSUME NEW n \in 1..Len(r) PROVE From(t, k)[n] = r[n]
  <2>1. n + k - 1 \in 1..Len(s) + Len(r)
    BY <1>2
  <2>2. From(t, k)[n] = t[n + k - 1]
    BY <1>3 DEF From
  <2>3. ~(n + k - 1 <= Len(s)) /\ n + k - 1 - Len(s) = n
    BY <1>2
  <2> QED
    BY <1>1, <2>1, <2>2, <2>3
<1> HIDE DEF k
<1>5. From(t, k) \in Seq(Call) /\ Len(From(t, k)) = Len(t) - k + 1
  BY <1>1, <1>3, FromShape
<1>6. From(t, k) = r
  BY <1>3, <1>4, <1>5, SeqEqual
<1> QED
  BY <1>6 DEF t, k

\* A plan from its first call on is the plan.
LEMMA FromStart ==
    ASSUME NEW s \in Seq(Call), s # <<>>
    PROVE  From(s, 1) = s
<1>1. /\ 1 \in 1..Len(s) /\ Len(s) \in Nat
  OBVIOUS
<1>2. From(s, 1) \in Seq(Call) /\ Len(From(s, 1)) = Len(s)
  BY <1>1, FromShape
<1>3. \A n \in 1..Len(s) : From(s, 1)[n] = s[n]
  BY <1>1 DEF From
<1> QED
  BY <1>2, <1>3, SeqEqual

\* The calls when a published ledger was found.
LEMMA OldAt ==
    /\ OldPlan \in Seq(Call) /\ Len(OldPlan) = 5
    /\ OldPlan[1] = <<"unlink", "stage">>
    /\ OldPlan[2] = <<"sync", "stage">>
    /\ OldPlan[3] = <<"sync", "dest">>
    /\ OldPlan[4] = <<"open", "dest">>
    /\ OldPlan[5] = <<"rebuild", "dest">>
    /\ Publication!EnsureDirectories \o Publication!Present = From(OldPlan, 3)
<1> DEFINE a == Publication!CleanUp("stage")
           b == Publication!EnsureDirectories
           c == Publication!Present
           d == b \o c
<1>1. /\ a \in Seq(Call) /\ Len(a) = 2
      /\ a[1] = <<"unlink", "stage">> /\ a[2] = <<"sync", "stage">>
  BY CleanUpIs
<1>2. b \in Seq(Call) /\ Len(b) = 1 /\ b[1] = <<"sync", "dest">>
  BY DEF Publication!EnsureDirectories, Call, CallNames
<1>3. /\ c \in Seq(Call) /\ Len(c) = 2
      /\ c[1] = <<"open", "dest">> /\ c[2] = <<"rebuild", "dest">>
  BY DEF Publication!Present, Call, CallNames
<1>4. OldPlan = a \o d
  BY DEF OldPlan
<1> HIDE DEF a, b, c
<1>5. /\ d \in Seq(Call) /\ Len(d) = Len(b) + Len(c)
      /\ \A n \in 1..Len(b) + Len(c) :
            d[n] = IF n <= Len(b) THEN b[n] ELSE c[n - Len(b)]
  BY <1>2, <1>3, JoinedPlans
<1>6. /\ Len(d) = 3 /\ d[1] = <<"sync", "dest">> /\ d[2] = <<"open", "dest">>
      /\ d[3] = <<"rebuild", "dest">>
  BY <1>2, <1>3, <1>5
<1> HIDE DEF d
<1>7. /\ a \o d \in Seq(Call) /\ Len(a \o d) = Len(a) + Len(d)
      /\ \A n \in 1..Len(a) + Len(d) :
            (a \o d)[n] = IF n <= Len(a) THEN a[n] ELSE d[n - Len(a)]
  BY <1>1, <1>5, JoinedPlans
<1>8. /\ Len(a \o d) = 5
      /\ (a \o d)[1] = a[1] /\ (a \o d)[2] = a[2]
      /\ (a \o d)[3] = d[1] /\ (a \o d)[4] = d[2] /\ (a \o d)[5] = d[3]
  BY <1>1, <1>6, <1>7
<1>9. From(a \o d, 3) = d
  <2>1. d # <<>>
    BY <1>5, <1>6, EmptySeq
  <2>2. From(a \o d, Len(a) + 1) = d
    BY <1>1, <1>5, <2>1, FromJoined
  <2>3. Len(a) + 1 = 3
    BY <1>1
  <2> QED
    BY <2>2, <2>3
<1> QED
  BY <1>1, <1>4, <1>6, <1>7, <1>8, <1>9 DEF d, b, c

\* Two calls put before twelve minus two.
LEMMA Shifted ==
    ASSUME NEW g, NEW a, NEW f,
           \A n \in 1..12 : g[n] = IF n <= 2 THEN a[n] ELSE f[n - 2]
    PROVE  /\ g[1] = a[1] /\ g[2] = a[2] /\ g[3] = f[1] /\ g[4] = f[2] /\ g[5] = f[3]
           /\ g[6] = f[4] /\ g[7] = f[5] /\ g[8] = f[6] /\ g[9] = f[7] /\ g[10] = f[8]
           /\ g[11] = f[9] /\ g[12] = f[10]
<1>1. g[1] = a[1] /\ g[2] = a[2] /\ g[3] = f[1]
  OBVIOUS
<1>2. g[4] = f[2] /\ g[5] = f[3] /\ g[6] = f[4]
  OBVIOUS
<1>3. g[7] = f[5] /\ g[8] = f[6] /\ g[9] = f[7]
  OBVIOUS
<1>4. g[10] = f[8] /\ g[11] = f[9] /\ g[12] = f[10]
  OBVIOUS
<1> QED
  BY <1>1, <1>2, <1>3, <1>4

\* The calls that publish a new ledger.
LEMMA NewAt ==
    /\ NewPlan \in Seq(Call) /\ Len(NewPlan) = 12
    /\ NewPlan[1] = <<"unlink", "stage">> /\ NewPlan[2] = <<"sync", "stage">>
    /\ NewPlan[3] = <<"connect", "stage">> /\ NewPlan[4] = <<"schema", "stage">>
    /\ NewPlan[5] = <<"metadata", "stage">> /\ NewPlan[6] = <<"syncFile", "stage">>
    /\ NewPlan[7] = <<"link", "dest">> /\ NewPlan[8] = <<"syncFile", "dest">>
    /\ NewPlan[9] = <<"unlink", "stage">> /\ NewPlan[10] = <<"sync", "stage">>
    /\ NewPlan[11] = <<"open", "dest">> /\ NewPlan[12] = <<"rebuild", "dest">>
<1> DEFINE a == Publication!CleanUp("stage")
           b == Publication!Build
           l == << <<"link", "dest">>, <<"syncFile", "dest">> >>
           c == Publication!Present
           d == b \o l
           e == a \o c
           f == d \o e
           g == a \o f
<1>1. /\ a \in Seq(Call) /\ Len(a) = 2
      /\ a[1] = <<"unlink", "stage">> /\ a[2] = <<"sync", "stage">>
  BY CleanUpIs
<1>2. /\ b \in Seq(Call) /\ Len(b) = 4
      /\ b[1] = <<"connect", "stage">> /\ b[2] = <<"schema", "stage">>
      /\ b[3] = <<"metadata", "stage">> /\ b[4] = <<"syncFile", "stage">>
  BY DEF Publication!Build, Call, CallNames
<1>3. /\ c \in Seq(Call) /\ Len(c) = 2
      /\ c[1] = <<"open", "dest">> /\ c[2] = <<"rebuild", "dest">>
  BY DEF Publication!Present, Call, CallNames
<1>4. /\ l \in Seq(Call) /\ Len(l) = 2
      /\ l[1] = <<"link", "dest">> /\ l[2] = <<"syncFile", "dest">>
  BY DEF Call, CallNames
<1>5. NewPlan = g
  BY DEF NewPlan, Publication!Publish
<1> HIDE DEF a, b, c, l
<1>6. /\ d \in Seq(Call) /\ Len(d) = Len(b) + Len(l)
      /\ \A n \in 1..Len(b) + Len(l) :
            d[n] = IF n <= Len(b) THEN b[n] ELSE l[n - Len(b)]
  BY <1>2, <1>4, JoinedPlans
<1>7. /\ e \in Seq(Call) /\ Len(e) = Len(a) + Len(c)
      /\ \A n \in 1..Len(a) + Len(c) :
            e[n] = IF n <= Len(a) THEN a[n] ELSE c[n - Len(a)]
  BY <1>1, <1>3, JoinedPlans
<1>8. /\ Len(d) = 6
      /\ d[1] = b[1] /\ d[2] = b[2] /\ d[3] = b[3] /\ d[4] = b[4]
      /\ d[5] = l[1] /\ d[6] = l[2]
  BY <1>2, <1>4, <1>6
<1>9. /\ Len(e) = 4
      /\ e[1] = a[1] /\ e[2] = a[2] /\ e[3] = c[1] /\ e[4] = c[2]
  BY <1>1, <1>3, <1>7
<1> HIDE DEF d, e
<1>10. /\ f \in Seq(Call) /\ Len(f) = Len(d) + Len(e)
       /\ \A n \in 1..Len(d) + Len(e) :
             f[n] = IF n <= Len(d) THEN d[n] ELSE e[n - Len(d)]
  BY <1>6, <1>7, JoinedPlans
<1>11. /\ Len(f) = 10
       /\ f[1] = d[1] /\ f[2] = d[2] /\ f[3] = d[3] /\ f[4] = d[4] /\ f[5] = d[5]
       /\ f[6] = d[6] /\ f[7] = e[1] /\ f[8] = e[2] /\ f[9] = e[3] /\ f[10] = e[4]
  BY <1>8, <1>9, <1>10
<1>12. /\ g \in Seq(Call) /\ Len(g) = Len(a) + Len(f)
       /\ \A n \in 1..Len(a) + Len(f) :
             g[n] = IF n <= Len(a) THEN a[n] ELSE f[n - Len(a)]
  BY <1>1, <1>10, JoinedPlans
<1> HIDE DEF f, g
<1>13. Len(a) = 2 /\ Len(f) = 10 /\ Len(g) = 12
  BY <1>1, <1>11, <1>12
<1>14. \A n \in 1..12 : g[n] = IF n <= 2 THEN a[n] ELSE f[n - 2]
  BY <1>12, <1>13
<1>15. /\ g[1] = a[1] /\ g[2] = a[2] /\ g[3] = f[1] /\ g[4] = f[2] /\ g[5] = f[3]
       /\ g[6] = f[4] /\ g[7] = f[5] /\ g[8] = f[6] /\ g[9] = f[7] /\ g[10] = f[8]
       /\ g[11] = f[9] /\ g[12] = f[10]
  BY <1>14, Shifted
<1> QED
  BY <1>1, <1>2, <1>3, <1>4, <1>5, <1>8, <1>9, <1>11, <1>12, <1>13, <1>15

\* One step along each plan.
LEMMA PlanSteps ==
    /\ \A k \in 1..12 :
          /\ From(NewPlan, k) # <<>> /\ Head(From(NewPlan, k)) = NewPlan[k]
          /\ Tail(From(NewPlan, k)) = IF k = 12 THEN <<>> ELSE From(NewPlan, k + 1)
    /\ \A k \in 1..5 :
          /\ From(OldPlan, k) # <<>> /\ Head(From(OldPlan, k)) = OldPlan[k]
          /\ Tail(From(OldPlan, k)) = IF k = 5 THEN <<>> ELSE From(OldPlan, k + 1)
    /\ \A k \in 1..4 :
          /\ From(BackPlan, k) # <<>> /\ Head(From(BackPlan, k)) = BackPlan[k]
          /\ Tail(From(BackPlan, k)) = IF k = 4 THEN <<>> ELSE From(BackPlan, k + 1)
<1>1. \A s \in Seq(Call) : \A k \in 1..Len(s) :
          /\ From(s, k) # <<>> /\ Head(From(s, k)) = s[k]
          /\ Tail(From(s, k)) = IF k = Len(s) THEN <<>> ELSE From(s, k + 1)
  BY FromShape, FromRest
<1>2. /\ NewPlan \in Seq(Call) /\ Len(NewPlan) = 12
      /\ OldPlan \in Seq(Call) /\ Len(OldPlan) = 5
      /\ BackPlan \in Seq(Call) /\ Len(BackPlan) = 4
  BY NewAt, OldAt, BackAt
<1>3. ASSUME NEW k \in 1..12
      PROVE  /\ From(NewPlan, k) # <<>> /\ Head(From(NewPlan, k)) = NewPlan[k]
             /\ Tail(From(NewPlan, k)) = IF k = 12 THEN <<>> ELSE From(NewPlan, k + 1)
  <2>1. NewPlan \in Seq(Call) /\ Len(NewPlan) = 12
    BY <1>2
  <2> QED
    BY <1>1, <2>1
<1>4. ASSUME NEW k \in 1..5
      PROVE  /\ From(OldPlan, k) # <<>> /\ Head(From(OldPlan, k)) = OldPlan[k]
             /\ Tail(From(OldPlan, k)) = IF k = 5 THEN <<>> ELSE From(OldPlan, k + 1)
  <2>1. OldPlan \in Seq(Call) /\ Len(OldPlan) = 5
    BY <1>2
  <2> QED
    BY <1>1, <2>1
<1>5. ASSUME NEW k \in 1..4
      PROVE  /\ From(BackPlan, k) # <<>> /\ Head(From(BackPlan, k)) = BackPlan[k]
             /\ Tail(From(BackPlan, k)) = IF k = 4 THEN <<>> ELSE From(BackPlan, k + 1)
  <2>1. BackPlan \in Seq(Call) /\ Len(BackPlan) = 4
    BY <1>2
  <2> QED
    BY <1>1, <2>1
<1> QED
  BY <1>3, <1>4, <1>5

\* The same, place by place.
LEMMA NextPlace ==
    /\ Tail(From(NewPlan, 1)) = From(NewPlan, 2)
    /\ Tail(From(NewPlan, 2)) = From(NewPlan, 3)
    /\ Tail(From(NewPlan, 3)) = From(NewPlan, 4)
    /\ Tail(From(NewPlan, 4)) = From(NewPlan, 5)
    /\ Tail(From(NewPlan, 5)) = From(NewPlan, 6)
    /\ Tail(From(NewPlan, 6)) = From(NewPlan, 7)
    /\ Tail(From(NewPlan, 7)) = From(NewPlan, 8)
    /\ Tail(From(NewPlan, 8)) = From(NewPlan, 9)
    /\ Tail(From(NewPlan, 9)) = From(NewPlan, 10)
    /\ Tail(From(NewPlan, 10)) = From(NewPlan, 11)
    /\ Tail(From(NewPlan, 11)) = From(NewPlan, 12)
    /\ Tail(From(NewPlan, 12)) = <<>>
    /\ Tail(From(OldPlan, 1)) = From(OldPlan, 2)
    /\ Tail(From(OldPlan, 2)) = From(OldPlan, 3)
    /\ Tail(From(OldPlan, 3)) = From(OldPlan, 4)
    /\ Tail(From(OldPlan, 4)) = From(OldPlan, 5)
    /\ Tail(From(OldPlan, 5)) = <<>>
    /\ Tail(From(BackPlan, 1)) = From(BackPlan, 2)
    /\ Tail(From(BackPlan, 2)) = From(BackPlan, 3)
    /\ Tail(From(BackPlan, 3)) = From(BackPlan, 4)
    /\ Tail(From(BackPlan, 4)) = <<>>
<1>1. Tail(From(NewPlan, 1)) = From(NewPlan, 2)
  BY PlanSteps
<1>2. Tail(From(NewPlan, 2)) = From(NewPlan, 3)
  BY PlanSteps
<1>3. Tail(From(NewPlan, 3)) = From(NewPlan, 4)
  BY PlanSteps
<1>4. Tail(From(NewPlan, 4)) = From(NewPlan, 5)
  BY PlanSteps
<1>5. Tail(From(NewPlan, 5)) = From(NewPlan, 6)
  BY PlanSteps
<1>6. Tail(From(NewPlan, 6)) = From(NewPlan, 7)
  BY PlanSteps
<1>7. Tail(From(NewPlan, 7)) = From(NewPlan, 8)
  BY PlanSteps
<1>8. Tail(From(NewPlan, 8)) = From(NewPlan, 9)
  BY PlanSteps
<1>9. Tail(From(NewPlan, 9)) = From(NewPlan, 10)
  BY PlanSteps
<1>10. Tail(From(NewPlan, 10)) = From(NewPlan, 11)
  BY PlanSteps
<1>11. Tail(From(NewPlan, 11)) = From(NewPlan, 12)
  BY PlanSteps
<1>12. Tail(From(NewPlan, 12)) = <<>>
  <2>1. Len(NewPlan) = 12 /\ NewPlan \in Seq(Call)
    BY NewAt
  <2>2. ASSUME NEW s \in Seq(Call), Len(s) = 12 PROVE Tail(From(s, 12)) = <<>>
    <3>1. 12 \in 1..Len(s)
      BY <2>2
    <3>2. Tail(From(s, 12)) = IF 12 = Len(s) THEN <<>> ELSE From(s, 12 + 1)
      BY <3>1, FromRest
    <3> QED
      BY <2>2, <3>2
  <2> QED
    BY <2>1, <2>2
<1>13. Tail(From(OldPlan, 1)) = From(OldPlan, 2)
  BY PlanSteps
<1>14. Tail(From(OldPlan, 2)) = From(OldPlan, 3)
  BY PlanSteps
<1>15. Tail(From(OldPlan, 3)) = From(OldPlan, 4)
  BY PlanSteps
<1>16. Tail(From(OldPlan, 4)) = From(OldPlan, 5)
  BY PlanSteps
<1>17. Tail(From(OldPlan, 5)) = <<>>
  <2>1. Len(OldPlan) = 5 /\ OldPlan \in Seq(Call)
    BY OldAt
  <2>2. ASSUME NEW s \in Seq(Call), Len(s) = 5 PROVE Tail(From(s, 5)) = <<>>
    <3>1. 5 \in 1..Len(s)
      BY <2>2
    <3>2. Tail(From(s, 5)) = IF 5 = Len(s) THEN <<>> ELSE From(s, 5 + 1)
      BY <3>1, FromRest
    <3> QED
      BY <2>2, <3>2
  <2> QED
    BY <2>1, <2>2
<1>18. Tail(From(BackPlan, 1)) = From(BackPlan, 2)
  BY PlanSteps
<1>19. Tail(From(BackPlan, 2)) = From(BackPlan, 3)
  BY PlanSteps
<1>20. Tail(From(BackPlan, 3)) = From(BackPlan, 4)
  BY PlanSteps
<1>21. Tail(From(BackPlan, 4)) = <<>>
  <2>1. Len(BackPlan) = 4 /\ BackPlan \in Seq(Call)
    BY BackAt
  <2>2. ASSUME NEW s \in Seq(Call), Len(s) = 4 PROVE Tail(From(s, 4)) = <<>>
    <3>1. 4 \in 1..Len(s)
      BY <2>2
    <3>2. Tail(From(s, 4)) = IF 4 = Len(s) THEN <<>> ELSE From(s, 4 + 1)
      BY <3>1, FromRest
    <3> QED
      BY <2>2, <3>2
  <2> QED
    BY <2>1, <2>2
<1> QED
  BY <1>1, <1>2, <1>3, <1>4, <1>5, <1>6, <1>7, <1>8, <1>9, <1>10, <1>11,
     <1>12, <1>13, <1>14, <1>15, <1>16, <1>17, <1>18, <1>19, <1>20, <1>21

\* The plans a decision or a failure gives a process.
LEMMA PlanStarts ==
    /\ entry["dest"] = NoFile => Publication!Prepare = From(NewPlan, 1)
    /\ entry["stage"] = NoFile => Publication!Reconcile = From(OldPlan, 3)
    /\ entry["stage"] # NoFile /\ entry["stage"] = entry["dest"] =>
          Publication!Reconcile = From(OldPlan, 1)
    /\ Publication!AfterFailure("building") = From(BackPlan, 3)
    /\ Publication!AfterFailure("published") = From(BackPlan, 1)
<1>1. From(NewPlan, 1) = NewPlan /\ From(OldPlan, 1) = OldPlan /\ From(BackPlan, 1) = BackPlan
  <2>1. NewPlan # <<>> /\ OldPlan # <<>> /\ BackPlan # <<>>
    BY NewAt, OldAt, BackAt, EmptySeq
  <2> QED
    BY <2>1, NewAt, OldAt, BackAt, FromStart
<1>2. Publication!CleanUp("stage") = From(BackPlan, 3)
  <2> DEFINE a == Publication!CleanUp("dest")
             b == Publication!CleanUp("stage")
  <2>1. a \in Seq(Call) /\ Len(a) = 2
    BY CleanUpIs
  <2>2. b \in Seq(Call) /\ Len(b) = 2
    BY CleanUpIs
  <2>3. BackPlan = a \o b
    BY DEF BackPlan
  <2> HIDE DEF a, b
  <2>4. b # <<>>
    BY <2>2, EmptySeq
  <2>5. From(a \o b, Len(a) + 1) = b
    BY <2>1, <2>2, <2>4, FromJoined
  <2>6. From(BackPlan, 3) = b
    BY <2>1, <2>3, <2>5
  <2> QED
    BY <2>6 DEF b
<1>3. entry["dest"] = NoFile => Publication!Prepare = NewPlan
  BY DEF Publication!Prepare, NewPlan
<1>4. /\ entry["stage"] = NoFile =>
            Publication!Reconcile = Publication!EnsureDirectories \o Publication!Present
      /\ entry["stage"] # NoFile /\ entry["stage"] = entry["dest"] =>
            Publication!Reconcile = OldPlan
  BY DEF Publication!Reconcile, Publication!Same, OldPlan
<1>5. /\ Publication!AfterFailure("building") = Publication!CleanUp("stage")
      /\ Publication!AfterFailure("published") = BackPlan
  BY DEF Publication!AfterFailure, BackPlan
<1> QED
  BY <1>1, <1>2, <1>3, <1>4, <1>5, OldAt

-----------------------------------------------------------------------------

\* What a process is asking itself, and where it stands on a plan.
Asks(p, call, n) ==
    process[p].phase = "preparing" /\ process[p].plan = << <<call, n>> >>

NewPhase(k) ==
    IF k <= 3 THEN "preparing" ELSE IF k <= 7 THEN "building"
    ELSE IF k <= 11 THEN "published" ELSE "presenting"
OldPhase(k) == IF k <= 4 THEN "preparing" ELSE "presenting"

\* What the entries e, the contents c and the ledger relied upon are at a place
\* of a plan: no call of it meets a state it fails in.
NewMeets(e, c, r, k, file) ==
    /\ k <= 7 => e["dest"] = NoFile
    /\ k >= 8 => e["dest"] # NoFile
    /\ k \in {2, 3, 10, 11, 12} => e["stage"] = NoFile
    /\ k \in 4..7 => file = e["stage"] /\ file \in Files /\ file # NoFile
    /\ k = 4 => c[file] = "empty"
    /\ k = 5 => c[file] = "schema"
    /\ k \in 6..7 => c[file] = "verified"
    /\ k \in 8..11 => r = NoFile

OldMeets(e, k) == e["dest"] # NoFile /\ (k >= 2 => e["stage"] = NoFile)

OnNew(p, k) ==
    /\ process[p].plan = From(NewPlan, k)
    /\ process[p].phase = NewPhase(k)
    /\ NewMeets(entry, content, relied, k, process[p].file)

OnOld(p, k) ==
    /\ process[p].plan = From(OldPlan, k)
    /\ process[p].phase = OldPhase(k)
    /\ OldMeets(entry, k)

OnBack(p, k) ==
    /\ process[p].plan = From(BackPlan, k)
    /\ process[p].phase = "cleaning"
    /\ k = 1 => relied = NoFile

Stands(p) ==
    \/ process[p] = Publication!Idle
    \/ Asks(p, "prepare", "dest") /\ entry["dest"] = NoFile
    \/ Asks(p, "verify", "dest") /\ entry["dest"] # NoFile
    \/ Asks(p, "reconcile", "stage") /\ entry["dest"] # NoFile
    \/ \E k \in 1..12 : OnNew(p, k)
    \/ \E k \in 1..5 : OnOld(p, k)
    \/ \E k \in 1..4 : OnBack(p, k)

DirectoryInv ==
    /\ entry \in durable
    /\ durable \subseteq [Publication!Names -> Files \cup {NoFile}]
    /\ content \in [Files -> Publication!Contents]
    /\ \A d \in durable : d["dest"] # NoFile => content[d["dest"]] = "verified"
    /\ relied # NoFile => \A d \in durable : d["dest"] = relied
    /\ \A d \in durable : d["dest"] # NoFile => d["stage"] \in {NoFile, d["dest"]}

PublicationInv ==
    /\ DirectoryInv
    /\ process = [p \in Initializers |-> process[p]]
    /\ \A p \in Initializers : Stands(p)

OneInitializer == \A p, q \in Initializers : p = q

\* The plans are the same in every state.
LEMMA PlansConstant ==
    NewPlan' = NewPlan /\ OldPlan' = OldPlan /\ BackPlan' = BackPlan
  BY DEF NewPlan, OldPlan, BackPlan, Publication!CleanUp, Publication!Publish,
         Publication!Build, Publication!Present, Publication!EnsureDirectories

\* A process moves, and nobody else is there.
LEMMA Moves ==
    ASSUME PublicationInv, OneInitializer, NEW p \in Initializers, NEW after,
           process' = [process EXCEPT ![p] = after],
           process'[p] = after => DirectoryInv' /\ Stands(p)'
    PROVE  PublicationInv'
<1>1. /\ process' = [q \in Initializers |-> process'[q]]
      /\ process'[p] = after
  BY DEF PublicationInv
<1>2. \A q \in Initializers : q = p
  BY DEF OneInitializer
<1> QED
  BY <1>1, <1>2 DEF PublicationInv

\* Where the next call of a process is.
LEMMA NextCall ==
    ASSUME NEW p, NEW call, NEW n, Stands(p), Publication!Calls(p, call, n)
    PROVE  \/ Asks(p, call, n) /\ <<call, n>> = <<"prepare", "dest">> /\ entry["dest"] = NoFile
           \/ /\ Asks(p, call, n) /\ entry["dest"] # NoFile
              /\ <<call, n>> \in {<<"verify", "dest">>, <<"reconcile", "stage">>}
           \/ \E k \in 1..12 : OnNew(p, k) /\ <<call, n>> = NewPlan[k]
           \/ \E k \in 1..5 : OnOld(p, k) /\ <<call, n>> = OldPlan[k]
           \/ \E k \in 1..4 : OnBack(p, k) /\ <<call, n>> = BackPlan[k]
<1>1. process[p].plan # <<>> /\ Head(process[p].plan) = <<call, n>>
  BY DEF Publication!Calls
<1>2. CASE process[p] = Publication!Idle
  BY <1>1, <1>2 DEF Publication!Idle
<1>3. ASSUME NEW c, NEW m, Asks(p, c, m) PROVE c = call /\ m = n
  <2>1. Head(<< <<c, m>> >>) = <<c, m>>
    OBVIOUS
  <2> QED
    BY <1>1, <1>3, <2>1 DEF Asks
<1>4. /\ \A k \in 1..12 : OnNew(p, k) => <<call, n>> = NewPlan[k]
      /\ \A k \in 1..5 : OnOld(p, k) => <<call, n>> = OldPlan[k]
      /\ \A k \in 1..4 : OnBack(p, k) => <<call, n>> = BackPlan[k]
  BY <1>1, PlanSteps DEF OnNew, OnOld, OnBack
<1> QED
  BY <1>2, <1>3, <1>4 DEF Stands

\* Which places of the plans make a call of that name.
LEMMA CallsOfNew ==
    ASSUME NEW k \in 1..12, NEW call, NEW n, <<call, n>> = NewPlan[k]
    PROVE  /\ call = "unlink" => n = "stage" /\ k \in {1, 9}
           /\ call = "sync" => k \in {2, 10}
           /\ call = "connect" => k = 3
           /\ call = "schema" => k = 4
           /\ call = "metadata" => k = 5
           /\ call = "syncFile" => (n = "stage" /\ k = 6) \/ (n = "dest" /\ k = 8)
           /\ call = "link" => k = 7
           /\ call = "open" => k = 11
           /\ call = "rebuild" => k = 12
           /\ call # "prepare" /\ call # "verify" /\ call # "reconcile"
<1>1. \/ k = 1 \/ k = 2 \/ k = 3 \/ k = 4 \/ k = 5 \/ k = 6
      \/ k = 7 \/ k = 8 \/ k = 9 \/ k = 10 \/ k = 11 \/ k = 12
  OBVIOUS
<1>2. CASE k \in 1..6
  BY <1>1, <1>2, NewAt
<1>3. CASE k \in 7..12
  BY <1>1, <1>3, NewAt
<1> QED
  BY <1>2, <1>3

\* Where each call stands in the plan for a published ledger.
LEMMA CallsOfOld ==
    ASSUME NEW k \in 1..5, NEW call, NEW n, <<call, n>> = OldPlan[k]
    PROVE  /\ call = "unlink" => n = "stage" /\ k = 1
           /\ call = "sync" => k \in {2, 3}
           /\ call = "open" => k = 4
           /\ call = "rebuild" => k = 5
           /\ call \in {"unlink", "sync", "open", "rebuild"}
  BY OldAt

\* Where each call stands in the plan for going back.
LEMMA CallsOfBack ==
    ASSUME NEW k \in 1..4, NEW call, NEW n, <<call, n>> = BackPlan[k]
    PROVE  /\ call = "unlink" => (n = "dest" /\ k = 1) \/ (n = "stage" /\ k = 3)
           /\ call = "sync" => k \in {2, 4}
           /\ call \in {"unlink", "sync"}
  BY BackAt

\* A failing call.
LEMMA Fails ==
    ASSUME PublicationInv, OneInitializer, NEW p \in Initializers, Publication!Fail(p),
           UNCHANGED <<entry, durable, content, relied>>
    PROVE  PublicationInv'
<1> DEFINE plan == Publication!AfterFailure(process[p].phase)
           after == IF plan = <<>> THEN Publication!Idle
                    ELSE [phase |-> "cleaning", plan |-> plan, file |-> NoFile]
<1>1. process' = [process EXCEPT ![p] = after]
  BY DEF Publication!Fail, Publication!Continue
<1>2. DirectoryInv'
  BY DEF PublicationInv, DirectoryInv
<1>3. \/ plan = <<>>
      \/ plan = From(BackPlan, 3)
      \/ plan = From(BackPlan, 1) /\ process[p].phase = "published"
  BY PlanStarts DEF Publication!AfterFailure
<1>4. process[p].phase = "published" => relied = NoFile
  BY DEF PublicationInv, Stands, Asks, OnNew, OnOld, OnBack, NewPhase, NewMeets,
         OldPhase, Publication!Idle
<1>5. ASSUME process'[p] = after PROVE Stands(p)'
  <2>1. CASE plan = <<>>
    BY <1>5, <2>1 DEF Stands
  <2>2. CASE plan # <<>> /\ plan = From(BackPlan, 3)
    <3>1. OnBack(p, 3)'
      BY <1>5, <2>2, PlansConstant DEF OnBack, From
    <3> QED
      BY <3>1 DEF Stands
  <2>3. CASE plan # <<>> /\ plan = From(BackPlan, 1) /\ process[p].phase = "published"
    <3>1. OnBack(p, 1)'
      BY <1>4, <1>5, <2>3, PlansConstant DEF OnBack, From
    <3> QED
      BY <3>1 DEF Stands
  <2> QED
    BY <1>3, <2>1, <2>2, <2>3
<1> QED
  BY <1>1, <1>2, <1>5, Moves

\* Where a call that succeeds leads to.
LEMMA GoesOn ==
    ASSUME PublicationInv, OneInitializer, NEW p \in Initializers, DirectoryInv',
           NEW ph, NEW plan, NEW f, Publication!Continue(p, ph, plan, f),
           \/ plan = <<>>
           \/ \E k \in 1..12 :
                 /\ plan = From(NewPlan, k) /\ ph = NewPhase(k)
                 /\ NewMeets(entry', content', relied', k, f)
           \/ \E k \in 1..5 :
                 plan = From(OldPlan, k) /\ ph = OldPhase(k) /\ OldMeets(entry', k)
           \/ \E k \in 1..4 :
                 /\ plan = From(BackPlan, k) /\ ph = "cleaning"
                 /\ k = 1 => relied' = NoFile
    PROVE  PublicationInv'
<1> DEFINE after == IF plan = <<>> THEN Publication!Idle
                    ELSE [phase |-> ph, plan |-> plan, file |-> f]
<1>1. process' = [process EXCEPT ![p] = after]
  BY DEF Publication!Continue
<1>2. ASSUME process'[p] = after PROVE Stands(p)'
  <2>1. CASE plan = <<>>
    BY <1>2, <2>1 DEF Stands
  <2>2. ASSUME plan # <<>>, NEW k \in 1..12, plan = From(NewPlan, k), ph = NewPhase(k),
               NewMeets(entry', content', relied', k, f)
        PROVE  Stands(p)'
    <3>1. process'[p] = [phase |-> ph, plan |-> plan, file |-> f]
      BY <1>2, <2>2
    <3>2. OnNew(p, k)'
      BY <2>2, <3>1, PlansConstant DEF OnNew, From, NewPhase, NewMeets
    <3> QED
      BY <3>2 DEF Stands
  <2>3. ASSUME plan # <<>>, NEW k \in 1..5, plan = From(OldPlan, k), ph = OldPhase(k),
               OldMeets(entry', k)
        PROVE  Stands(p)'
    <3>1. process'[p] = [phase |-> ph, plan |-> plan, file |-> f]
      BY <1>2, <2>3
    <3>2. OnOld(p, k)'
      BY <2>3, <3>1, PlansConstant DEF OnOld, From, OldPhase, OldMeets
    <3> QED
      BY <3>2 DEF Stands
  <2>4. ASSUME plan # <<>>, NEW k \in 1..4, plan = From(BackPlan, k), ph = "cleaning",
               k = 1 => relied' = NoFile
        PROVE  Stands(p)'
    <3>1. process'[p] = [phase |-> ph, plan |-> plan, file |-> f]
      BY <1>2, <2>4
    <3>2. OnBack(p, k)'
      BY <2>4, <3>1, PlansConstant DEF OnBack, From
    <3> QED
      BY <3>2 DEF Stands
  <2> QED
    BY <2>1, <2>2, <2>3, <2>4
<1> QED
  BY <1>1, <1>2, Moves

\* The same for a place of the plan for a new ledger.
LEMMA GoesOnNew ==
    ASSUME PublicationInv, OneInitializer, NEW p \in Initializers, DirectoryInv',
           NEW ph, NEW plan, NEW f, Publication!Continue(p, ph, plan, f),
           NEW k \in 1..12, plan = From(NewPlan, k), ph = NewPhase(k),
           NewMeets(entry', content', relied', k, f)
    PROVE  PublicationInv'
  BY GoesOn

\* And for a place of the plan for a published ledger.
LEMMA GoesOnOld ==
    ASSUME PublicationInv, OneInitializer, NEW p \in Initializers, DirectoryInv',
           NEW ph, NEW plan, NEW f, Publication!Continue(p, ph, plan, f),
           NEW k \in 1..5, plan = From(OldPlan, k), ph = OldPhase(k),
           OldMeets(entry', k)
    PROVE  PublicationInv'
  BY GoesOn

\* The decisions, and the check of an existing ledger.
LEMMA DecisionsKeep ==
    ASSUME PublicationInv, OneInitializer, NEW p \in Initializers,
           \/ Publication!DecidePreparation(p) \/ Publication!VerifyExisting(p)
           \/ Publication!DecideReconciliation(p)
    PROVE  PublicationInv'
<1>1. DirectoryInv' /\ Stands(p)
  BY DEF PublicationInv, DirectoryInv, Publication!DecidePreparation, Publication!VerifyExisting,
         Publication!DecideReconciliation, Publication!directory
<1>2. CASE Publication!DecidePreparation(p)
  <2>1. /\ Publication!Calls(p, "prepare", "dest")
        /\ Publication!Continue(p, "preparing", Publication!Prepare, NoFile)
    BY <1>2 DEF Publication!DecidePreparation
  <2>2. entry["dest"] = NoFile
    BY <1>1, <2>1, NextCall, CallsOfNew, CallsOfOld, CallsOfBack
  <2>3. /\ Publication!Prepare = From(NewPlan, 1) /\ NewPhase(1) = "preparing"
        /\ NewMeets(entry', content', relied', 1, NoFile)
    BY <1>2, <2>2, PlanStarts
    DEF NewPhase, NewMeets, Publication!DecidePreparation, Publication!directory
  <2> QED
    BY <1>1, <2>1, <2>3, GoesOn
<1>3. CASE Publication!VerifyExisting(p)
  <2>1. CASE Publication!Fail(p)
    BY <1>3, <2>1, Fails DEF Publication!VerifyExisting, Publication!directory
  <2>2. CASE Publication!Continue(p, "preparing", << <<"reconcile", "stage">> >>, NoFile)
    <3> DEFINE after == [phase |-> "preparing", plan |-> << <<"reconcile", "stage">> >>,
                         file |-> NoFile]
    <3>1. process' = [process EXCEPT ![p] = after]
      BY <2>2 DEF Publication!Continue
    <3>2. entry["dest"] # NoFile /\ entry' = entry
      BY <1>1, <1>3, NextCall, CallsOfNew, CallsOfOld, CallsOfBack
      DEF Publication!VerifyExisting, Publication!directory
    <3>3. process'[p] = after => Stands(p)'
      BY <3>2 DEF Stands, Asks
    <3> QED
      BY <1>1, <3>1, <3>3, Moves
  <2> QED
    BY <1>3, <2>1, <2>2 DEF Publication!VerifyExisting
<1>4. CASE Publication!DecideReconciliation(p)
  <2>1. /\ Publication!Calls(p, "reconcile", "stage")
        /\ Publication!Continue(p, "preparing", Publication!Reconcile, NoFile)
        /\ entry' = entry
    BY <1>4 DEF Publication!DecideReconciliation, Publication!directory
  <2>2. entry["dest"] # NoFile /\ entry["stage"] \in {NoFile, entry["dest"]}
    BY <1>1, <2>1, NextCall, CallsOfNew, CallsOfOld, CallsOfBack DEF PublicationInv, DirectoryInv
  <2>3. \E k \in {1, 3} :
           /\ Publication!Reconcile = From(OldPlan, k)
           /\ "preparing" = OldPhase(k) /\ OldMeets(entry', k)
    BY <2>1, <2>2, PlanStarts DEF OldPhase, OldMeets
  <2> QED
    BY <1>1, <2>1, <2>3, GoesOn
<1> QED
  BY <1>2, <1>3, <1>4

\* A name is removed: the final one only while nobody relies on it.
LEMMA UnlinkKeeps ==
    ASSUME PublicationInv, OneInitializer, NEW p \in Initializers,
           NEW n \in Publication!Names, Publication!Unlink(p, n)
    PROVE  PublicationInv'
<1> DEFINE left == Tail(process[p].plan)
           plan == IF entry[n] = NoFile THEN Tail(left) ELSE left
<1>1. /\ DirectoryInv /\ Stands(p)
      /\ Publication!Calls(p, "unlink", n)
      /\ entry' = [entry EXCEPT ![n] = NoFile]
      /\ durable' = durable \cup {entry'}
      /\ content' = content /\ relied' = relied
      /\ Publication!Continue(p, process[p].phase, plan, process[p].file)
  BY DEF PublicationInv, Publication!Unlink, Publication!Enter, Publication!Rest
<1>2. n = "dest" => relied = NoFile
  BY <1>1, NextCall, CallsOfNew, CallsOfOld, CallsOfBack DEF OnBack
<1>3. DirectoryInv'
  BY <1>1, <1>2 DEF DirectoryInv, Publication!Names
<1>4. \/ \E k \in {1, 9} : OnNew(p, k)
      \/ OnOld(p, 1)
      \/ \E k \in {1, 3} : OnBack(p, k)
  BY <1>1, NextCall, CallsOfNew, CallsOfOld, CallsOfBack
<1>40. /\ entry' \in [Publication!Names -> Files \cup {NoFile}] /\ entry'[n] = NoFile
       /\ n = "stage" => entry'["dest"] = entry["dest"]
  BY <1>1 DEF DirectoryInv, Publication!Names
<1>45. Publication!Continue(p, process[p].phase, plan, process[p].file)
  BY <1>1
<1>41. \A k \in 1..12 : OnNew(p, k) => Head(process[p].plan) = NewPlan[k]
  BY PlanSteps DEF OnNew
<1>42. \A k \in 1..5 : OnOld(p, k) => Head(process[p].plan) = OldPlan[k]
  BY PlanSteps DEF OnOld
<1>43. Head(process[p].plan) = <<"unlink", n>>
  BY <1>1 DEF Publication!Calls
<1>44. OnNew(p, 1) \/ OnNew(p, 9) \/ OnOld(p, 1) => n = "stage"
  <2>1. NewPlan[1] = <<"unlink", "stage">> /\ NewPlan[9] = <<"unlink", "stage">>
    BY NewAt
  <2>2. OldPlan[1] = <<"unlink", "stage">>
    BY OldAt
  <2>3. <<"unlink", n>> = <<"unlink", "stage">> => n = "stage"
    OBVIOUS
  <2> QED
    BY <1>41, <1>42, <1>43, <2>1, <2>2, <2>3
<1>5. CASE OnNew(p, 1)
  <2>1. plan = From(NewPlan, 2) \/ plan = From(NewPlan, 3)
    <3>1. process[p].plan = From(NewPlan, 1)
      BY <1>5 DEF OnNew
    <3>2. Tail(From(NewPlan, 1)) = From(NewPlan, 2) /\ Tail(From(NewPlan, 2)) = From(NewPlan, 3)
      BY NextPlace
    <3> QED
      BY <3>1, <3>2
  <2>2. \A k \in {2, 3} :
           /\ process[p].phase = NewPhase(k)
           /\ NewMeets(entry', content', relied', k, process[p].file)
    BY <1>1, <1>5, <1>40, <1>44 DEF OnNew, NewPhase, NewMeets
  <2> HIDE DEF plan
  <2> QED
    BY <1>45, <1>3, <2>1, <2>2, GoesOnNew
<1>6. CASE OnNew(p, 9)
  <2>1. plan = From(NewPlan, 10) \/ plan = From(NewPlan, 11)
    <3>1. process[p].plan = From(NewPlan, 9)
      BY <1>6 DEF OnNew
    <3>2. Tail(From(NewPlan, 9)) = From(NewPlan, 10) /\ Tail(From(NewPlan, 10)) = From(NewPlan, 11)
      BY NextPlace
    <3> QED
      BY <3>1, <3>2
  <2>2. \A k \in {10, 11} :
           /\ process[p].phase = NewPhase(k)
           /\ NewMeets(entry', content', relied', k, process[p].file)
    BY <1>1, <1>6, <1>40, <1>44 DEF OnNew, NewPhase, NewMeets
  <2> HIDE DEF plan
  <2> QED
    BY <1>45, <1>3, <2>1, <2>2, GoesOnNew
<1>7. CASE OnOld(p, 1)
  <2>1. plan = From(OldPlan, 2) \/ plan = From(OldPlan, 3)
    <3>1. process[p].plan = From(OldPlan, 1)
      BY <1>7 DEF OnOld
    <3>2. Tail(From(OldPlan, 1)) = From(OldPlan, 2) /\ Tail(From(OldPlan, 2)) = From(OldPlan, 3)
      BY NextPlace
    <3> QED
      BY <3>1, <3>2
  <2>2. \A k \in {2, 3} : process[p].phase = OldPhase(k) /\ OldMeets(entry', k)
    BY <1>7, <1>40, <1>44 DEF OnOld, OldPhase, OldMeets
  <2> HIDE DEF plan
  <2> QED
    BY <1>45, <1>3, <2>1, <2>2, GoesOnOld
<1>8. CASE \E k \in {1, 3} : OnBack(p, k)
  <2>1. \/ plan = <<>>
        \/ \E k \in 2..4 : plan = From(BackPlan, k)
    <3>1. process[p].plan = From(BackPlan, 1) \/ process[p].plan = From(BackPlan, 3)
      BY <1>8 DEF OnBack
    <3>2. /\ Tail(From(BackPlan, 1)) = From(BackPlan, 2)
          /\ Tail(From(BackPlan, 2)) = From(BackPlan, 3)
          /\ Tail(From(BackPlan, 3)) = From(BackPlan, 4)
          /\ Tail(From(BackPlan, 4)) = <<>>
      BY NextPlace
    <3>3. \/ plan = <<>> \/ plan = From(BackPlan, 2)
          \/ plan = From(BackPlan, 3) \/ plan = From(BackPlan, 4)
      BY <3>1, <3>2
    <3> HIDE DEF plan
    <3> QED
      BY <3>3
  <2>2. process[p].phase = "cleaning"
    BY <1>8 DEF OnBack
  <2> HIDE DEF plan
  <2> QED
    BY <1>1, <1>3, <2>1, <2>2, GoesOn
<1> QED
  BY <1>4, <1>5, <1>6, <1>7, <1>8

\* Synchronizing a directory keeps the invariant of the publication.
LEMMA SynchronizeKeeps ==
    ASSUME PublicationInv, OneInitializer, NEW p \in Initializers,
           NEW n \in Publication!Names, Publication!Synchronize(p, n)
    PROVE  PublicationInv'
<1> DEFINE plan == Tail(process[p].plan)
<1>1. /\ DirectoryInv /\ Stands(p)
      /\ Publication!Calls(p, "sync", n)
      /\ entry' = entry /\ durable' = {entry}
      /\ content' = content /\ relied' = relied
      /\ Publication!Continue(p, process[p].phase, plan, process[p].file)
  BY DEF PublicationInv, Publication!Synchronize, Publication!SyncDirectory,
         Publication!Proceed, Publication!Rest
<1>2. DirectoryInv'
  BY <1>1 DEF DirectoryInv
<1>3. \/ \E k \in {2, 10} : OnNew(p, k)
      \/ \E k \in {2, 3} : OnOld(p, k)
      \/ \E k \in {2, 4} : OnBack(p, k)
  BY <1>1, NextCall, CallsOfNew, CallsOfOld, CallsOfBack
<1>4. CASE OnNew(p, 2)
  <2>1. /\ plan = From(NewPlan, 3) /\ process[p].phase = NewPhase(3)
        /\ NewMeets(entry', content', relied', 3, process[p].file)
    BY <1>1, <1>4, NextPlace DEF OnNew, NewPhase, NewMeets
  <2> HIDE DEF plan
  <2> QED
    BY <1>1, <1>2, <2>1, GoesOnNew
<1>5. CASE OnNew(p, 10)
  <2>1. /\ plan = From(NewPlan, 11) /\ process[p].phase = NewPhase(11)
        /\ NewMeets(entry', content', relied', 11, process[p].file)
    BY <1>1, <1>5, NextPlace DEF OnNew, NewPhase, NewMeets
  <2> HIDE DEF plan
  <2> QED
    BY <1>1, <1>2, <2>1, GoesOnNew
<1>6. CASE \E k \in {2, 3} : OnOld(p, k)
  <2>1. plan = From(OldPlan, 3) \/ plan = From(OldPlan, 4)
    <3>1. process[p].plan = From(OldPlan, 2) \/ process[p].plan = From(OldPlan, 3)
      BY <1>6 DEF OnOld
    <3>2. /\ Tail(From(OldPlan, 2)) = From(OldPlan, 3)
          /\ Tail(From(OldPlan, 3)) = From(OldPlan, 4)
      BY NextPlace
    <3> QED
      BY <3>1, <3>2
  <2>2. \A k \in {3, 4} : process[p].phase = OldPhase(k) /\ OldMeets(entry', k)
    BY <1>1, <1>6 DEF OnOld, OldPhase, OldMeets
  <2> HIDE DEF plan
  <2> QED
    BY <1>1, <1>2, <2>1, <2>2, GoesOnOld
<1>7. CASE \E k \in {2, 4} : OnBack(p, k)
  <2>1. /\ plan = From(BackPlan, 3) \/ plan = <<>>
        /\ process[p].phase = "cleaning"
    <3>1. /\ process[p].plan = From(BackPlan, 2) \/ process[p].plan = From(BackPlan, 4)
          /\ process[p].phase = "cleaning"
      BY <1>7 DEF OnBack
    <3>2. Tail(From(BackPlan, 2)) = From(BackPlan, 3) /\ Tail(From(BackPlan, 4)) = <<>>
      BY NextPlace
    <3> QED
      BY <3>1, <3>2
  <2> HIDE DEF plan
  <2> QED
    BY <1>1, <1>2, <2>1, GoesOn
<1> QED
  BY <1>3, <1>4, <1>5, <1>6, <1>7

\* Synchronizing a file keeps the invariant of the publication.
LEMMA SyncFileKeeps ==
    ASSUME PublicationInv, OneInitializer, NEW p \in Initializers,
           NEW n \in Publication!Names, Publication!SyncFile(p, n)
    PROVE  PublicationInv'
<1> DEFINE plan == Tail(process[p].plan)
<1>1. CASE entry[n] = NoFile
  BY <1>1, Fails DEF Publication!SyncFile, Publication!directory
<1>2. CASE entry[n] # NoFile
  <2>1. /\ DirectoryInv /\ Stands(p)
        /\ Publication!Calls(p, "syncFile", n)
        /\ entry' = entry /\ durable' = {entry}
        /\ content' = content /\ relied' = relied
        /\ Publication!Continue(p, process[p].phase, plan, process[p].file)
    BY <1>2 DEF PublicationInv, Publication!SyncFile, Publication!SyncDirectory,
                Publication!Proceed, Publication!Rest
  <2>2. DirectoryInv'
    BY <2>1 DEF DirectoryInv
  <2>3. OnNew(p, 6) \/ OnNew(p, 8)
    BY <2>1, NextCall, CallsOfNew, CallsOfOld, CallsOfBack
  <2>4. CASE OnNew(p, 6)
    <3>1. /\ plan = From(NewPlan, 7) /\ process[p].phase = NewPhase(7)
          /\ NewMeets(entry', content', relied', 7, process[p].file)
      BY <2>1, <2>4, NextPlace DEF OnNew, NewPhase, NewMeets
    <3> HIDE DEF plan
    <3> QED
      BY <2>1, <2>2, <3>1, GoesOnNew
  <2>5. CASE OnNew(p, 8)
    <3>1. /\ plan = From(NewPlan, 9) /\ process[p].phase = NewPhase(9)
          /\ NewMeets(entry', content', relied', 9, process[p].file)
      BY <2>1, <2>5, NextPlace DEF OnNew, NewPhase, NewMeets
    <3> HIDE DEF plan
    <3> QED
      BY <2>1, <2>2, <3>1, GoesOnNew
  <2> QED
    BY <2>3, <2>4, <2>5
<1> QED
  BY <1>1, <1>2

\* The staging file is opened or created; what is created has been nobody's.
LEMMA ConnectKeeps ==
    ASSUME PublicationInv, OneInitializer, NEW p \in Initializers, Publication!Connect(p)
    PROVE  PublicationInv'
<1> DEFINE plan == Tail(process[p].plan)
<1>1. DirectoryInv /\ Stands(p) /\ Publication!Calls(p, "connect", "stage")
  BY DEF PublicationInv, Publication!Connect
<1>2. PICK f \in Files :
         /\ IF entry["stage"] = NoFile
            THEN Publication!Unused(f) /\ content' = [content EXCEPT ![f] = "empty"]
            ELSE f = entry["stage"] /\ content' = content
         /\ entry' = [entry EXCEPT !["stage"] = f]
         /\ durable' = durable \cup {entry'}
         /\ Publication!Continue(p, "building", plan, f)
         /\ relied' = relied
  BY DEF Publication!Connect, Publication!Enter, Publication!Rest
<1>3. \A d \in durable : d["dest"] # NoFile => content'[d["dest"]] = "verified"
  <2> SUFFICES ASSUME NEW d \in durable, d["dest"] # NoFile
               PROVE  content'[d["dest"]] = "verified"
    OBVIOUS
  <2>1. d["dest"] \in Files /\ content[d["dest"]] = "verified"
    BY <1>1 DEF DirectoryInv, Publication!Names
  <2>2. CASE entry["stage"] = NoFile
    <3>1. d["dest"] # f
      BY <1>2, <2>2 DEF Publication!Unused, Publication!Names
    <3> QED
      BY <1>1, <1>2, <2>1, <2>2, <3>1 DEF DirectoryInv
  <2>3. CASE entry["stage"] # NoFile
    BY <1>2, <2>1, <2>3
  <2> QED
    BY <2>2, <2>3
<1>4. /\ content' \in [Files -> Publication!Contents]
      /\ entry' \in [Publication!Names -> Files \cup {NoFile}]
      /\ entry'["dest"] = entry["dest"] /\ entry'["stage"] = f
  BY <1>1, <1>2 DEF DirectoryInv, Publication!Names, Publication!Contents
<1>50. OnNew(p, 3)
  BY <1>1, NextCall, CallsOfNew, CallsOfOld, CallsOfBack
<1>51. entry["dest"] = NoFile /\ entry["stage"] = NoFile
  BY <1>50 DEF OnNew, NewMeets
<1>5. DirectoryInv'
  BY <1>1, <1>2, <1>3, <1>4, <1>51 DEF DirectoryInv
<1>53. Publication!Continue(p, "building", plan, f)
  BY <1>2
<1>52. content'[f] = "empty"
  BY <1>1, <1>2, <1>51 DEF DirectoryInv
<1>54. f # NoFile
  BY <1>1, <1>2, <1>51 DEF Publication!Unused, Publication!Names, DirectoryInv
<1>6. /\ plan = From(NewPlan, 4) /\ "building" = NewPhase(4)
      /\ NewMeets(entry', content', relied', 4, f)
  BY <1>4, <1>50, <1>51, <1>52, <1>54, NextPlace DEF OnNew, NewPhase, NewMeets
<1> HIDE DEF plan
<1> QED
  BY <1>53, <1>5, <1>6, GoesOnNew

\* The schema and the metadata go into the staging file, which bears no other
\* name while it is incomplete.
LEMMA AdvanceKeeps ==
    ASSUME PublicationInv, OneInitializer, NEW p \in Initializers,
           Publication!ExecuteSchema(p) \/ Publication!InsertMetadata(p)
    PROVE  PublicationInv'
<1> DEFINE plan == Tail(process[p].plan)
           file == process[p].file
<1>1. CASE \/ Publication!ExecuteSchema(p) /\ content[file] # "empty"
           \/ Publication!InsertMetadata(p) /\ content[file] # "schema"
  <2>1. Publication!Fail(p) /\ UNCHANGED <<entry, durable, content, relied>>
    BY <1>1 DEF Publication!ExecuteSchema, Publication!InsertMetadata,
                Publication!Advance, Publication!directory
  <2> QED
    BY <2>1, Fails
<1>2. ASSUME NEW call \in {"schema", "metadata"}, NEW before, NEW after,
             before # "verified", after = IF call = "schema" THEN "schema" ELSE "verified",
             Publication!Calls(p, call, "stage"),
             content[file] = before, content' = [content EXCEPT ![file] = after],
             Publication!Continue(p, process[p].phase, plan, file),
             UNCHANGED <<entry, durable, relied>>
      PROVE  PublicationInv'
  <2>1. DirectoryInv /\ Stands(p)
    BY DEF PublicationInv
  <2>2. \/ call = "schema" /\ OnNew(p, 4)
        \/ call = "metadata" /\ OnNew(p, 5)
    BY <1>2, <2>1, NextCall, CallsOfNew, CallsOfOld, CallsOfBack
  <2>3. /\ process[p].phase = "building" /\ file = entry["stage"] /\ file \in Files
        /\ entry["dest"] = NoFile /\ file # NoFile
    BY <2>2 DEF OnNew, NewPhase, NewMeets
  <2>4. content' \in [Files -> Publication!Contents] /\ content'[file] = after
    BY <1>2, <2>1, <2>3 DEF DirectoryInv, Publication!Contents
  <2>5. \A d \in durable : d["dest"] # NoFile => content'[d["dest"]] = "verified"
    <3> SUFFICES ASSUME NEW d \in durable, d["dest"] # NoFile
                 PROVE  content'[d["dest"]] = "verified"
      OBVIOUS
    <3>1. d["dest"] \in Files /\ content[d["dest"]] = "verified"
      BY <2>1 DEF DirectoryInv, Publication!Names
    <3>2. d["dest"] # file
      BY <1>2, <3>1
    <3> QED
      BY <1>2, <2>1, <2>3, <3>1, <3>2 DEF DirectoryInv
  <2>6. DirectoryInv'
    BY <1>2, <2>1, <2>4, <2>5 DEF DirectoryInv
  <2>7. \E k \in {5, 6} :
           /\ plan = From(NewPlan, k) /\ process[p].phase = NewPhase(k)
           /\ NewMeets(entry', content', relied', k, file)
    <3>1. CASE call = "schema" /\ OnNew(p, 4)
      <4>1. plan = From(NewPlan, 5)
        BY <3>1, NextPlace DEF OnNew
      <4>2. process[p].phase = NewPhase(5) /\ NewMeets(entry', content', relied', 5, file)
        BY <1>2, <2>3, <2>4, <3>1 DEF NewPhase, NewMeets
      <4> QED
        BY <4>1, <4>2
    <3>2. CASE call = "metadata" /\ OnNew(p, 5)
      <4>1. plan = From(NewPlan, 6)
        BY <3>2, NextPlace DEF OnNew
      <4>2. process[p].phase = NewPhase(6) /\ NewMeets(entry', content', relied', 6, file)
        BY <1>2, <2>3, <2>4, <3>2 DEF NewPhase, NewMeets
      <4> QED
        BY <4>1, <4>2
    <3> QED
      BY <2>2, <3>1, <3>2
  <2>8. Publication!Continue(p, process[p].phase, plan, file)
    BY <1>2
  <2> HIDE DEF plan, file
  <2> QED
    BY <2>8, <2>6, <2>7, GoesOnNew
<1>3. CASE Publication!ExecuteSchema(p) /\ content[file] = "empty"
  <2>1. /\ Publication!Calls(p, "schema", "stage")
        /\ content[file] = "empty" /\ content' = [content EXCEPT ![file] = "schema"]
        /\ Publication!Continue(p, process[p].phase, plan, file)
        /\ UNCHANGED <<entry, durable, relied>>
    BY <1>3 DEF Publication!ExecuteSchema, Publication!Advance, Publication!Proceed,
                Publication!Rest, Publication!directory
  <2> QED
    BY <1>2, <2>1
<1>4. CASE Publication!InsertMetadata(p) /\ content[file] = "schema"
  <2>1. /\ Publication!Calls(p, "metadata", "stage")
        /\ content[file] = "schema" /\ content' = [content EXCEPT ![file] = "verified"]
        /\ Publication!Continue(p, process[p].phase, plan, file)
        /\ UNCHANGED <<entry, durable, relied>>
    BY <1>4 DEF Publication!InsertMetadata, Publication!Advance, Publication!Proceed,
                Publication!Rest, Publication!directory
  <2> QED
    BY <1>2, <2>1
<1> QED
  BY <1>1, <1>3, <1>4

\* The ledger gets its final name, which nothing bore.
LEMMA LinkKeeps ==
    ASSUME PublicationInv, OneInitializer, NEW p \in Initializers, Publication!Link(p)
    PROVE  PublicationInv'
<1> DEFINE plan == Tail(process[p].plan)
<1>1. CASE entry["dest"] # NoFile \/ entry["stage"] = NoFile
  BY <1>1, Fails DEF Publication!Link, Publication!directory
<1>2. CASE ~(entry["dest"] # NoFile \/ entry["stage"] = NoFile)
  <2>1. /\ DirectoryInv /\ Stands(p)
        /\ Publication!Calls(p, "link", "dest")
        /\ entry' = [entry EXCEPT !["dest"] = entry["stage"]]
        /\ durable' = durable \cup {entry'}
        /\ content' = content /\ relied' = relied
        /\ Publication!Continue(p, "published", plan, NoFile)
    BY <1>2 DEF PublicationInv, Publication!Link, Publication!Enter, Publication!Rest
  <2>2. OnNew(p, 7)
    BY <2>1, NextCall, CallsOfNew, CallsOfOld, CallsOfBack
  <2>3. entry["stage"] \in Files /\ content[entry["stage"]] = "verified"
    BY <2>2 DEF OnNew, NewMeets
  <2>4. relied = NoFile
    BY <1>2, <2>1 DEF DirectoryInv
  <2>5. /\ entry' \in [Publication!Names -> Files \cup {NoFile}]
        /\ entry'["dest"] = entry["stage"] /\ entry'["stage"] = entry["stage"]
    BY <2>1, <2>3 DEF DirectoryInv, Publication!Names
  <2>6. DirectoryInv'
    BY <2>1, <2>3, <2>4, <2>5 DEF DirectoryInv
  <2>8. Publication!Continue(p, "published", plan, NoFile)
    BY <2>1
  <2>7. /\ plan = From(NewPlan, 8) /\ "published" = NewPhase(8)
        /\ NewMeets(entry', content', relied', 8, NoFile)
    BY <1>2, <2>1, <2>2, <2>4, <2>5, NextPlace DEF OnNew, NewPhase, NewMeets
  <2> HIDE DEF plan
  <2> QED
    BY <2>8, <2>6, <2>7, GoesOnNew
<1> QED
  BY <1>1, <1>2

\* The ledger is opened, its views are rebuilt, and the receipt is printed.
LEMMA PresentKeeps ==
    ASSUME PublicationInv, OneInitializer, NEW p \in Initializers,
           Publication!OpenLedger(p) \/ Publication!RebuildAndPrint(p)
    PROVE  PublicationInv'
<1>1. DirectoryInv /\ Stands(p)
  BY DEF PublicationInv
<1>2. CASE Publication!OpenLedger(p)
  <2> DEFINE plan == IF Publication!Readable THEN Tail(process[p].plan) ELSE <<>>
  <2>1. /\ Publication!Calls(p, "open", "dest")
        /\ UNCHANGED <<entry, durable, content, relied>>
        /\ Publication!Continue(p, "presenting", plan, NoFile)
    BY <1>2 DEF Publication!OpenLedger, Publication!Rest, Publication!directory
  <2>2. DirectoryInv'
    BY <1>1, <2>1 DEF DirectoryInv
  <2>3. OnNew(p, 11) \/ OnOld(p, 4)
    BY <1>1, <2>1, NextCall, CallsOfNew, CallsOfOld, CallsOfBack
  <2>4. CASE OnNew(p, 11) /\ plan # <<>>
    <3>1. plan = From(NewPlan, 12)
      BY <2>4, NextPlace DEF OnNew
    <3>2. "presenting" = NewPhase(12) /\ NewMeets(entry', content', relied', 12, NoFile)
      BY <2>1, <2>4 DEF OnNew, NewPhase, NewMeets
    <3> HIDE DEF plan
    <3> QED
      BY <2>1, <2>2, <3>1, <3>2, GoesOnNew
  <2>5. CASE OnOld(p, 4) /\ plan # <<>>
    <3>1. plan = From(OldPlan, 5)
      BY <2>5, NextPlace DEF OnOld
    <3>2. "presenting" = OldPhase(5) /\ OldMeets(entry', 5)
      BY <2>1, <2>5 DEF OnOld, OldPhase, OldMeets
    <3> HIDE DEF plan
    <3> QED
      BY <2>1, <2>2, <3>1, <3>2, GoesOnOld
  <2>6. CASE plan = <<>>
    <3> HIDE DEF plan
    <3> QED
      BY <2>1, <2>2, <2>6, GoesOn
  <2> QED
    BY <2>3, <2>4, <2>5, <2>6
<1>3. CASE Publication!RebuildAndPrint(p)
  <2> DEFINE plan == Tail(process[p].plan)
  <2>1. /\ Publication!Calls(p, "rebuild", "dest")
        /\ entry' = entry /\ durable' = {entry} /\ content' = content
        /\ relied' = entry["dest"]
        /\ Publication!Continue(p, process[p].phase, plan, process[p].file)
    BY <1>3 DEF Publication!RebuildAndPrint, Publication!SyncDirectory,
                Publication!Proceed, Publication!Rest
  <2>2. DirectoryInv'
    BY <1>1, <2>1 DEF DirectoryInv
  <2>3. OnNew(p, 12) \/ OnOld(p, 5)
    BY <1>1, <2>1, NextCall, CallsOfNew, CallsOfOld, CallsOfBack
  <2>4. plan = <<>>
    BY <2>3, NextPlace DEF OnNew, OnOld
  <2> HIDE DEF plan
  <2> QED
    BY <2>1, <2>2, <2>4, GoesOn
<1> QED
  BY <1>2, <1>3

\* Work is committed to a ledger that can be opened; a user comes to rely on
\* it only when no publication can take it back any more.
LEMMA CommitKeeps ==
    ASSUME PublicationInv, Publication!CommitWork
    PROVE  PublicationInv'
<1>1. /\ entry' = entry /\ durable' = {entry} /\ content' = content /\ process' = process
      /\ \/ relied' = relied
         \/ /\ relied' = entry["dest"]
            /\ \A p \in Initializers : process[p].phase \notin {"published", "cleaning"}
  BY DEF Publication!CommitWork, Publication!SyncDirectory
<1>2. DirectoryInv'
  BY <1>1 DEF PublicationInv, DirectoryInv
<1>3. ASSUME NEW p \in Initializers PROVE Stands(p)'
  <2>1. Stands(p)
    BY DEF PublicationInv
  <2>2. ASSUME NEW k \in 1..12, OnNew(p, k) PROVE OnNew(p, k)'
    <3>1. k \in 8..11 => process[p].phase = "published"
      BY <2>2 DEF OnNew, NewPhase
    <3>2. k \in 8..11 => relied' = NoFile
      BY <1>1, <2>2, <3>1 DEF OnNew, NewMeets
    <3> QED
      BY <1>1, <2>2, <3>2, PlansConstant DEF OnNew, From, NewPhase, NewMeets
  <2>3. ASSUME NEW k \in 1..5, OnOld(p, k) PROVE OnOld(p, k)'
    BY <1>1, <2>3, PlansConstant DEF OnOld, From, OldPhase, OldMeets
  <2>4. ASSUME NEW k \in 1..4, OnBack(p, k) PROVE OnBack(p, k)'
    BY <1>1, <2>4, PlansConstant DEF OnBack, From
  <2> QED
    BY <1>1, <2>1, <2>2, <2>3, <2>4 DEF Stands, Asks
<1> QED
  BY <1>1, <1>2, <1>3 DEF PublicationInv

\* A process starts, dies, or the machine loses power.
LEMMA FaultsKeep ==
    ASSUME PublicationInv, OneInitializer,
           \/ \E p \in Initializers :
                 Publication!Start(p) \/ Publication!Crash(p) \/ Publication!CallFails(p)
           \/ Publication!PowerLoss
    PROVE  PublicationInv'
<1>1. ASSUME NEW p \in Initializers, Publication!Start(p) PROVE PublicationInv'
  <2> DEFINE after == [phase |-> "preparing", file |-> NoFile,
                       plan |-> << <<IF entry["dest"] = NoFile THEN "prepare" ELSE "verify",
                                     "dest">> >>]
  <2>1. process' = [process EXCEPT ![p] = after] /\ UNCHANGED <<entry, durable, content, relied>>
    BY <1>1 DEF Publication!Start, Publication!directory
  <2>2. DirectoryInv'
    BY <2>1 DEF PublicationInv, DirectoryInv
  <2>3. process'[p] = after => Stands(p)'
    BY <2>1 DEF Stands, Asks
  <2> HIDE DEF after
  <2> QED
    BY <2>1, <2>2, <2>3, Moves
<1>2. ASSUME NEW p \in Initializers, Publication!Crash(p) PROVE PublicationInv'
  <2>1. /\ process' = [process EXCEPT ![p] = Publication!Idle]
        /\ UNCHANGED <<entry, durable, content, relied>>
    BY <1>2 DEF Publication!Crash, Publication!directory
  <2>2. DirectoryInv'
    BY <2>1 DEF PublicationInv, DirectoryInv
  <2>3. process'[p] = Publication!Idle => Stands(p)'
    BY DEF Stands
  <2> QED
    BY <2>1, <2>2, <2>3, Moves
<1>3. ASSUME NEW p \in Initializers, Publication!CallFails(p) PROVE PublicationInv'
  BY <1>3, Fails DEF Publication!CallFails, Publication!directory
<1>4. CASE Publication!PowerLoss
  <2>1. /\ entry' \in durable /\ durable' = {entry'}
        /\ process' = [p \in Initializers |-> Publication!Idle]
        /\ content' = content /\ relied' = relied
    BY <1>4 DEF Publication!PowerLoss
  <2>2. DirectoryInv'
    BY <2>1 DEF PublicationInv, DirectoryInv
  <2>3. \A p \in Initializers : Stands(p)'
    BY <2>1 DEF Stands
  <2> QED
    BY <2>1, <2>2, <2>3 DEF PublicationInv
<1> QED
  BY <1>1, <1>2, <1>3, <1>4

\* The inductive invariant of publishing a ledger, with one initializer at a time:
\* what each name bears, what is durable, and where the initialization stands.
THEOREM PublicationCorrect ==
    ASSUME OneInitializer
    PROVE  Publication!Spec => []PublicationInv
<1>1. Publication!Init => PublicationInv
  <2> SUFFICES ASSUME Publication!Init PROVE PublicationInv
    OBVIOUS
  <2>1. DirectoryInv
    BY DEF Publication!Init, DirectoryInv, Publication!Contents, Publication!Names
  <2>2. \A p \in Initializers : Stands(p)
    BY DEF Publication!Init, Stands
  <2> QED
    BY <2>1, <2>2 DEF Publication!Init, PublicationInv
<1>2. PublicationInv /\ [Publication!Next]_(Publication!vars) => PublicationInv'
  <2> SUFFICES ASSUME PublicationInv, [Publication!Next]_(Publication!vars)
               PROVE  PublicationInv'
    OBVIOUS
  <2>1. CASE UNCHANGED Publication!vars
    <3>1. UNCHANGED <<entry, durable, content, process, relied>>
      BY <2>1 DEF Publication!vars, Publication!directory
    <3>2. DirectoryInv'
      BY <3>1 DEF PublicationInv, DirectoryInv
    <3>3. ASSUME NEW p \in Initializers PROVE Stands(p)'
      <4>1. \A k \in 1..12 : OnNew(p, k)' <=> OnNew(p, k)
        BY <3>1, PlansConstant DEF OnNew, From, NewPhase, NewMeets
      <4>2. \A k \in 1..5 : OnOld(p, k)' <=> OnOld(p, k)
        BY <3>1, PlansConstant DEF OnOld, From, OldPhase, OldMeets
      <4>3. \A k \in 1..4 : OnBack(p, k)' <=> OnBack(p, k)
        BY <3>1, PlansConstant DEF OnBack, From
      <4> QED
        BY <3>1, <4>1, <4>2, <4>3 DEF PublicationInv, Stands, Asks
    <3> QED
      BY <3>1, <3>2, <3>3 DEF PublicationInv
  <2>2. ASSUME NEW p \in Initializers, Publication!Step(p) PROVE PublicationInv'
    BY <2>2, DecisionsKeep, UnlinkKeeps, SynchronizeKeeps, SyncFileKeeps, ConnectKeeps,
       AdvanceKeeps, LinkKeeps, PresentKeeps DEF Publication!Step
  <2> QED
    BY <2>1, <2>2, FaultsKeep, CommitKeeps DEF Publication!Next
<1> QED
  BY <1>1, <1>2, PTL DEF Publication!Spec

\* What bears the final name is a complete ledger, whatever crashed or failed.
THEOREM PublishedCorrect ==
    ASSUME OneInitializer
    PROVE  Publication!Spec => []PublishedIsVerified
<1>1. PublicationInv => PublishedIsVerified
  BY DEF PublicationInv, DirectoryInv, PublishedIsVerified, Publication!PublishedIsVerified
<1> QED
  BY <1>1, PublicationCorrect, PTL

\* A ledger somebody relies on keeps its name through every later
\* initialization, crash and power loss.
THEOREM ReliedCorrect ==
    ASSUME OneInitializer
    PROVE  Publication!Spec => []ReliedIsDurable
<1>1. PublicationInv => ReliedIsDurable
  BY DEF PublicationInv, DirectoryInv, ReliedIsDurable, Publication!ReliedIsDurable
<1> QED
  BY <1>1, PublicationCorrect, PTL

-----------------------------------------------------------------------------
(* An initialization that meets no fault of its own goes forward.          *)

\* What is left of a plan, as CallsLeft counts it.
Left(plan) ==
    IF plan = <<>> THEN 0
    ELSE IF Head(plan)[1] = "verify" THEN 16
    ELSE IF Head(plan)[1] \in {"prepare", "reconcile"} THEN 15
    ELSE Len(plan)

\* A process went nearer to its end, or reached it with its ledger published.
Nearer(p) ==
    IF process'[p] # Publication!Idle
    THEN /\ Left(process'[p].plan) < Left(process[p].plan)
         /\ process'[p].phase = "cleaning" <=> process[p].phase = "cleaning"
    ELSE process[p].phase # "cleaning" =>
             /\ entry'["dest"] # NoFile /\ entry'["stage"] = NoFile
             /\ relied' = entry'["dest"]

\* A plan of calls counts its calls.
LEMMA LeftOfCalls ==
    ASSUME NEW s \in Seq(Call)
    PROVE  Left(s) = Len(s)
<1>1. CASE s = <<>>
  BY <1>1 DEF Left
<1>2. CASE s # <<>>
  <2>1. Head(s) \in Call
    BY <1>2
  <2>2. Head(s)[1] \in CallNames
    BY <2>1 DEF Call
  <2>3. Head(s)[1] \notin {"verify", "prepare", "reconcile"}
    BY <2>2 DEF CallNames
  <2> QED
    BY <1>2, <2>3 DEF Left
<1> QED
  BY <1>1, <1>2

\* A call made, or two, leaves fewer of them.
LEMMA CallsShrink ==
    ASSUME NEW s \in Seq(Call), s # <<>>
    PROVE  /\ Left(Tail(s)) < Left(s)
           /\ Tail(s) # <<>> => Left(Tail(Tail(s))) < Left(s)
<1>1. Tail(s) \in Seq(Call) /\ Len(Tail(s)) = Len(s) - 1 /\ Len(s) \in Nat \ {0}
  OBVIOUS
<1>2. Left(s) = Len(s) /\ Left(Tail(s)) = Len(s) - 1
  BY <1>1, LeftOfCalls
<1>3. ASSUME Tail(s) # <<>> PROVE Left(Tail(Tail(s))) < Left(s)
  <2>1. Tail(Tail(s)) \in Seq(Call) /\ Len(Tail(Tail(s))) = Len(Tail(s)) - 1
    BY <1>1, <1>3
  <2>2. Left(Tail(Tail(s))) = Len(Tail(Tail(s)))
    BY <2>1, LeftOfCalls
  <2> QED
    BY <1>1, <1>2, <2>1, <2>2
<1> QED
  BY <1>1, <1>2, <1>3

\* The plans a process may be on are plans of calls, and none is as long as
\* a decision counts.
LEMMA PlansOfCalls ==
    /\ \A k \in 1..12 : From(NewPlan, k) \in Seq(Call) /\ From(NewPlan, k) # <<>>
    /\ \A k \in 1..5 : From(OldPlan, k) \in Seq(Call) /\ From(OldPlan, k) # <<>>
    /\ \A k \in 1..4 : From(BackPlan, k) \in Seq(Call) /\ From(BackPlan, k) # <<>>
    /\ Left(From(NewPlan, 1)) = 12
    /\ Left(From(OldPlan, 1)) = 5 /\ Left(From(OldPlan, 3)) = 3
<1>1. \A s \in Seq(Call) : \A k \in 1..Len(s) :
          /\ From(s, k) \in Seq(Call) /\ From(s, k) # <<>>
          /\ Left(From(s, k)) = Len(s) - k + 1
  BY FromShape, LeftOfCalls
<1>2. /\ NewPlan \in Seq(Call) /\ Len(NewPlan) = 12
      /\ OldPlan \in Seq(Call) /\ Len(OldPlan) = 5
      /\ BackPlan \in Seq(Call) /\ Len(BackPlan) = 4
  BY NewAt, OldAt, BackAt
<1>3. \A k \in 1..12 : /\ From(NewPlan, k) \in Seq(Call) /\ From(NewPlan, k) # <<>>
                       /\ Left(From(NewPlan, k)) = 12 - k + 1
  BY <1>1, <1>2
<1>4. \A k \in 1..5 : /\ From(OldPlan, k) \in Seq(Call) /\ From(OldPlan, k) # <<>>
                      /\ Left(From(OldPlan, k)) = 5 - k + 1
  BY <1>1, <1>2
<1>5. \A k \in 1..4 : From(BackPlan, k) \in Seq(Call) /\ From(BackPlan, k) # <<>>
  BY <1>1, <1>2
<1> QED
  BY <1>3, <1>4, <1>5

\* A process given a shorter plan is nearer to its end.
LEMMA ShorterIsNearer ==
    ASSUME PublicationInv, NEW p \in Initializers, NEW ph, NEW plan, NEW f,
           Publication!Continue(p, ph, plan, f), plan # <<>>,
           Left(plan) < Left(process[p].plan),
           ph = "cleaning" <=> process[p].phase = "cleaning"
    PROVE  Nearer(p)
<1>1. process'[p] = [phase |-> ph, plan |-> plan, file |-> f]
  BY DEF PublicationInv, Publication!Continue
<1>2. process'[p].phase = ph /\ process'[p].plan = plan
  BY <1>1
<1>3. process'[p] # Publication!Idle
  BY <1>2 DEF Publication!Idle
<1> QED
  BY <1>2, <1>3 DEF Nearer

\* A process with an empty plan has ended.
LEMMA EmptyIsTheEnd ==
    ASSUME PublicationInv, NEW p \in Initializers, NEW ph, NEW f,
           Publication!Continue(p, ph, <<>>, f),
           \/ process[p].phase = "cleaning"
           \/ /\ entry'["dest"] # NoFile /\ entry'["stage"] = NoFile
              /\ relied' = entry'["dest"]
    PROVE  Nearer(p)
<1>1. process'[p] = Publication!Idle
  BY DEF PublicationInv, Publication!Continue
<1> QED
  BY <1>1 DEF Nearer

\* Which plan a process is on when it makes a call that is no decision.
LEMMA OnAPlan ==
    ASSUME PublicationInv, NEW p \in Initializers, NEW n, NEW call \in CallNames,
           Publication!Calls(p, call, n)
    PROVE  process[p].plan \in Seq(Call) /\ process[p].plan # <<>>
<1>1. Stands(p)
  BY DEF PublicationInv
<1>2. call \notin {"prepare", "verify", "reconcile"}
  BY DEF CallNames
<1>3. \/ \E k \in 1..12 : OnNew(p, k)
      \/ \E k \in 1..5 : OnOld(p, k)
      \/ \E k \in 1..4 : OnBack(p, k)
  BY <1>1, <1>2, NextCall
<1> QED
  BY <1>3, PlansOfCalls DEF OnNew, OnOld, OnBack

\* No decision refuses, and the plan it gives is shorter than it counts for.
LEMMA DecisionsAdvance ==
    ASSUME PublicationInv, NEW p \in Initializers,
           \/ Publication!DecidePreparation(p) \/ Publication!VerifyExisting(p)
           \/ Publication!DecideReconciliation(p)
    PROVE  Nearer(p)
<1>1. DirectoryInv /\ Stands(p)
  BY DEF PublicationInv
<1>2. \A c, m : Left(<< <<c, m>> >>) =
         IF c = "verify" THEN 16 ELSE IF c \in {"prepare", "reconcile"} THEN 15 ELSE 1
  BY DEF Left
<1>3. CASE Publication!DecidePreparation(p)
  <2>1. /\ Publication!Calls(p, "prepare", "dest")
        /\ Publication!Continue(p, "preparing", Publication!Prepare, NoFile)
    BY <1>3 DEF Publication!DecidePreparation
  <2>2. Asks(p, "prepare", "dest") /\ entry["dest"] = NoFile
    BY <1>1, <2>1, NextCall, CallsOfNew, CallsOfOld, CallsOfBack
  <2>3. /\ Publication!Prepare # <<>> /\ Left(Publication!Prepare) = 12
        /\ Left(process[p].plan) = 15 /\ process[p].phase = "preparing"
    BY <1>2, <2>2, PlanStarts, PlansOfCalls DEF Asks
  <2> QED
    BY <2>1, <2>3, ShorterIsNearer
<1>4. CASE Publication!VerifyExisting(p)
  <2>1. Publication!Calls(p, "verify", "dest")
    BY <1>4 DEF Publication!VerifyExisting
  <2>2. Asks(p, "verify", "dest") /\ entry["dest"] # NoFile
    BY <1>1, <2>1, NextCall, CallsOfNew, CallsOfOld, CallsOfBack
  <2>3. Publication!Readable
    BY <1>1, <2>2 DEF Publication!Readable, DirectoryInv
  <2>4. Publication!Continue(p, "preparing", << <<"reconcile", "stage">> >>, NoFile)
    BY <1>4, <2>3 DEF Publication!VerifyExisting
  <2>5. /\ Left(process[p].plan) = 16 /\ process[p].phase = "preparing"
        /\ Left(<< <<"reconcile", "stage">> >>) = 15
    BY <1>2, <2>2 DEF Asks
  <2> QED
    BY <2>4, <2>5, ShorterIsNearer
<1>5. CASE Publication!DecideReconciliation(p)
  <2>1. /\ Publication!Calls(p, "reconcile", "stage")
        /\ Publication!Continue(p, "preparing", Publication!Reconcile, NoFile)
    BY <1>5 DEF Publication!DecideReconciliation
  <2>2. Asks(p, "reconcile", "stage") /\ entry["dest"] # NoFile
    BY <1>1, <2>1, NextCall, CallsOfNew, CallsOfOld, CallsOfBack
  <2>3. entry["stage"] \in {NoFile, entry["dest"]}
    BY <1>1, <2>2 DEF DirectoryInv
  <2>4. \/ Publication!Reconcile = From(OldPlan, 1)
        \/ Publication!Reconcile = From(OldPlan, 3)
    BY <2>3, PlanStarts
  <2>5. /\ Publication!Reconcile # <<>>
        /\ Left(Publication!Reconcile) \in {3, 5}
    <3>1. /\ From(OldPlan, 1) # <<>> /\ From(OldPlan, 3) # <<>>
          /\ Left(From(OldPlan, 1)) = 5 /\ Left(From(OldPlan, 3)) = 3
      BY PlansOfCalls
    <3> QED
      BY <2>4, <3>1
  <2>6. Left(process[p].plan) = 15 /\ process[p].phase = "preparing"
    BY <1>2, <2>2 DEF Asks
  <2> QED
    BY <2>1, <2>5, <2>6, ShorterIsNearer
<1> QED
  BY <1>3, <1>4, <1>5

\* A name removed, or synchronized, is a call less; the last such call is one
\* of going back.
LEMMA CleaningAdvances ==
    ASSUME PublicationInv, NEW p \in Initializers, NEW n \in Publication!Names,
           Publication!Unlink(p, n) \/ Publication!Synchronize(p, n)
    PROVE  Nearer(p)
<1> DEFINE left == Tail(process[p].plan)
<1>0. Stands(p)
  BY DEF PublicationInv
<1>1. CASE Publication!Unlink(p, n)
  <2> DEFINE plan == IF entry[n] = NoFile THEN Tail(left) ELSE left
  <2>1. /\ Publication!Calls(p, "unlink", n)
        /\ Publication!Continue(p, process[p].phase, plan, process[p].file)
    BY <1>1 DEF Publication!Unlink, Publication!Rest
  <2>2. process[p].plan \in Seq(Call) /\ process[p].plan # <<>>
    BY <2>1, OnAPlan DEF CallNames
  <2>3. \/ OnNew(p, 1) \/ OnNew(p, 9) \/ OnOld(p, 1)
        \/ OnBack(p, 1) \/ OnBack(p, 3)
    BY <1>0, <2>1, NextCall, CallsOfNew, CallsOfOld, CallsOfBack
  <2>4. left # <<>>
    <3>1. OnNew(p, 1) \/ OnNew(p, 9) => left = From(NewPlan, 2) \/ left = From(NewPlan, 10)
      BY NextPlace DEF OnNew
    <3>2. OnOld(p, 1) => left = From(OldPlan, 2)
      BY NextPlace DEF OnOld
    <3>3. OnBack(p, 1) \/ OnBack(p, 3) => left = From(BackPlan, 2) \/ left = From(BackPlan, 4)
      BY NextPlace DEF OnBack
    <3> HIDE DEF left
    <3> QED
      BY <2>3, <3>1, <3>2, <3>3, PlansOfCalls
  <2>5. Left(plan) < Left(process[p].plan)
    BY <2>2, <2>4, CallsShrink
  <2>6. plan = <<>> => process[p].phase = "cleaning"
    <3>1. OnNew(p, 1) => plan = From(NewPlan, 2) \/ plan = From(NewPlan, 3)
      BY NextPlace DEF OnNew
    <3>2. OnNew(p, 9) => plan = From(NewPlan, 10) \/ plan = From(NewPlan, 11)
      BY NextPlace DEF OnNew
    <3>3. OnOld(p, 1) => plan = From(OldPlan, 2) \/ plan = From(OldPlan, 3)
      BY NextPlace DEF OnOld
    <3>4. OnBack(p, 1) \/ OnBack(p, 3) => process[p].phase = "cleaning"
      BY DEF OnBack
    <3> HIDE DEF plan
    <3> QED
      BY <2>3, <3>1, <3>2, <3>3, <3>4, PlansOfCalls
  <2> HIDE DEF plan
  <2>7. CASE plan # <<>>
    BY <2>1, <2>5, <2>7, ShorterIsNearer
  <2>8. CASE plan = <<>>
    BY <2>1, <2>6, <2>8, EmptyIsTheEnd
  <2> QED
    BY <2>7, <2>8
<1>2. CASE Publication!Synchronize(p, n)
  <2>1. /\ Publication!Calls(p, "sync", n)
        /\ Publication!Continue(p, process[p].phase, left, process[p].file)
    BY <1>2 DEF Publication!Synchronize, Publication!Proceed, Publication!Rest
  <2>2. process[p].plan \in Seq(Call) /\ process[p].plan # <<>>
    BY <2>1, OnAPlan DEF CallNames
  <2>3. \/ OnNew(p, 2) \/ OnNew(p, 10) \/ OnOld(p, 2) \/ OnOld(p, 3)
        \/ OnBack(p, 2) \/ OnBack(p, 4)
    BY <1>0, <2>1, NextCall, CallsOfNew, CallsOfOld, CallsOfBack
  <2>4. Left(left) < Left(process[p].plan)
    BY <2>2, CallsShrink
  <2>5. left = <<>> => process[p].phase = "cleaning"
    <3>1. OnNew(p, 2) => left = From(NewPlan, 3)
      BY NextPlace DEF OnNew
    <3>2. OnNew(p, 10) => left = From(NewPlan, 11)
      BY NextPlace DEF OnNew
    <3>3. OnOld(p, 2) => left = From(OldPlan, 3)
      BY NextPlace DEF OnOld
    <3>4. OnOld(p, 3) => left = From(OldPlan, 4)
      BY NextPlace DEF OnOld
    <3>5. OnBack(p, 2) \/ OnBack(p, 4) => process[p].phase = "cleaning"
      BY DEF OnBack
    <3> HIDE DEF left
    <3> QED
      BY <2>3, <3>1, <3>2, <3>3, <3>4, <3>5, PlansOfCalls
  <2> HIDE DEF left
  <2>6. CASE left # <<>>
    BY <2>1, <2>4, <2>6, ShorterIsNearer
  <2>7. CASE left = <<>>
    BY <2>1, <2>5, <2>7, EmptyIsTheEnd
  <2> QED
    BY <2>6, <2>7
<1> QED
  BY <1>1, <1>2

\* No call of building and publishing fails: it meets what its place promises.
LEMMA BuildingAdvances ==
    ASSUME PublicationInv, NEW p \in Initializers,
           \/ Publication!Connect(p) \/ Publication!ExecuteSchema(p)
           \/ Publication!InsertMetadata(p) \/ Publication!Link(p)
           \/ \E n \in Publication!Names : Publication!SyncFile(p, n)
    PROVE  Nearer(p)
<1> DEFINE left == Tail(process[p].plan)
<1>0. Stands(p)
  BY DEF PublicationInv
<1>1. ASSUME NEW k \in 3..8, OnNew(p, k), NEW ph, ph # "cleaning", NEW f,
             Publication!Continue(p, ph, left, f)
      PROVE  Nearer(p)
  <2>0. k \in 1..12 /\ k # 12 /\ k + 1 \in 1..12
    OBVIOUS
  <2>1. process[p].plan = From(NewPlan, k) /\ process[p].phase # "cleaning"
    BY <1>1 DEF OnNew, NewPhase
  <2>2. process[p].plan \in Seq(Call) /\ process[p].plan # <<>>
    BY <2>0, <2>1, PlansOfCalls
  <2>3. left = From(NewPlan, k + 1)
    BY <2>0, <2>1, PlanSteps
  <2>4. left # <<>>
    BY <2>0, <2>3, PlansOfCalls
  <2>5. Left(left) < Left(process[p].plan)
    BY <2>2, CallsShrink
  <2> HIDE DEF left
  <2> QED
    BY <1>1, <2>1, <2>4, <2>5, ShorterIsNearer
<1>2. CASE Publication!Connect(p)
  <2>1. OnNew(p, 3)
    BY <1>0, <1>2, NextCall, CallsOfNew, CallsOfOld, CallsOfBack DEF Publication!Connect
  <2>2. PICK f : Publication!Continue(p, "building", left, f)
    BY <1>2 DEF Publication!Connect, Publication!Rest
  <2> QED
    BY <1>1, <2>1, <2>2
<1>3. CASE Publication!ExecuteSchema(p)
  <2>1. OnNew(p, 4)
    BY <1>0, <1>3, NextCall, CallsOfNew, CallsOfOld, CallsOfBack
    DEF Publication!ExecuteSchema, Publication!Advance
  <2>2. content[process[p].file] = "empty" /\ process[p].phase = "building"
    BY <2>1 DEF OnNew, NewPhase, NewMeets
  <2>3. Publication!Continue(p, process[p].phase, left, process[p].file)
    BY <1>3, <2>2 DEF Publication!ExecuteSchema, Publication!Advance, Publication!Proceed,
                      Publication!Rest
  <2> QED
    BY <1>1, <2>1, <2>2, <2>3
<1>4. CASE Publication!InsertMetadata(p)
  <2>1. OnNew(p, 5)
    BY <1>0, <1>4, NextCall, CallsOfNew, CallsOfOld, CallsOfBack
    DEF Publication!InsertMetadata, Publication!Advance
  <2>2. content[process[p].file] = "schema" /\ process[p].phase = "building"
    BY <2>1 DEF OnNew, NewPhase, NewMeets
  <2>3. Publication!Continue(p, process[p].phase, left, process[p].file)
    BY <1>4, <2>2 DEF Publication!InsertMetadata, Publication!Advance, Publication!Proceed,
                      Publication!Rest
  <2> QED
    BY <1>1, <2>1, <2>2, <2>3
<1>5. CASE Publication!Link(p)
  <2>1. OnNew(p, 7)
    BY <1>0, <1>5, NextCall, CallsOfNew, CallsOfOld, CallsOfBack DEF Publication!Link
  <2>2. entry["dest"] = NoFile
    BY <2>1 DEF OnNew, NewMeets
  <2>3. entry["stage"] # NoFile
    BY <2>1 DEF OnNew, NewMeets
  <2>4. Publication!Continue(p, "published", left, NoFile)
    BY <1>5, <2>2, <2>3 DEF Publication!Link, Publication!Rest
  <2> QED
    BY <1>1, <2>1, <2>4
<1>6. ASSUME NEW n \in Publication!Names, Publication!SyncFile(p, n) PROVE Nearer(p)
  <2>1. \/ n = "stage" /\ OnNew(p, 6)
        \/ n = "dest" /\ OnNew(p, 8)
    BY <1>0, <1>6, NextCall, CallsOfNew, CallsOfOld, CallsOfBack DEF Publication!SyncFile
  <2>2. entry[n] # NoFile
    BY <2>1 DEF OnNew, NewMeets
  <2>3. Publication!Continue(p, process[p].phase, left, process[p].file)
    BY <1>6, <2>2 DEF Publication!SyncFile, Publication!Proceed, Publication!Rest
  <2>4. process[p].phase # "cleaning"
    BY <2>1 DEF OnNew, NewPhase
  <2> QED
    BY <1>1, <2>1, <2>3, <2>4
<1> QED
  BY <1>2, <1>3, <1>4, <1>5, <1>6

\* The ledger can be opened, and the receipt is printed over a published
\* ledger without residue.
LEMMA PresentingAdvances ==
    ASSUME PublicationInv, NEW p \in Initializers,
           Publication!OpenLedger(p) \/ Publication!RebuildAndPrint(p)
    PROVE  Nearer(p)
<1> DEFINE left == Tail(process[p].plan)
<1>0. DirectoryInv /\ Stands(p)
  BY DEF PublicationInv
<1>1. CASE Publication!OpenLedger(p)
  <2>1. Publication!Calls(p, "open", "dest")
    BY <1>1 DEF Publication!OpenLedger
  <2>2. OnNew(p, 11) \/ OnOld(p, 4)
    BY <1>0, <2>1, NextCall, CallsOfNew, CallsOfOld, CallsOfBack
  <2>3. entry["dest"] # NoFile /\ process[p].phase # "cleaning"
    BY <2>2 DEF OnNew, OnOld, NewPhase, OldPhase, NewMeets, OldMeets
  <2>4. Publication!Readable
    BY <1>0, <2>3 DEF Publication!Readable, DirectoryInv
  <2>5. Publication!Continue(p, "presenting", left, NoFile)
    BY <1>1, <2>4 DEF Publication!OpenLedger, Publication!Rest
  <2>6. process[p].plan \in Seq(Call) /\ process[p].plan # <<>>
    BY <2>1, OnAPlan DEF CallNames
  <2>7. left # <<>>
    <3>1. OnNew(p, 11) => left = From(NewPlan, 12)
      BY NextPlace DEF OnNew
    <3>2. OnOld(p, 4) => left = From(OldPlan, 5)
      BY NextPlace DEF OnOld
    <3> HIDE DEF left
    <3> QED
      BY <2>2, <3>1, <3>2, PlansOfCalls
  <2>8. Left(left) < Left(process[p].plan)
    BY <2>6, CallsShrink
  <2> HIDE DEF left
  <2> QED
    BY <2>3, <2>5, <2>7, <2>8, ShorterIsNearer
<1>2. CASE Publication!RebuildAndPrint(p)
  <2>1. /\ Publication!Calls(p, "rebuild", "dest")
        /\ entry' = entry /\ relied' = entry["dest"]
        /\ Publication!Continue(p, process[p].phase, left, process[p].file)
    BY <1>2 DEF Publication!RebuildAndPrint, Publication!SyncDirectory,
                Publication!Proceed, Publication!Rest
  <2>2. OnNew(p, 12) \/ OnOld(p, 5)
    BY <1>0, <2>1, NextCall, CallsOfNew, CallsOfOld, CallsOfBack
  <2>3. entry["dest"] # NoFile /\ entry["stage"] = NoFile
    BY <2>2 DEF OnNew, OnOld, NewMeets, OldMeets
  <2>4. left = <<>>
    BY <2>2, NextPlace DEF OnNew, OnOld
  <2> QED
    BY <2>1, <2>3, <2>4, EmptyIsTheEnd
<1> QED
  BY <1>1, <1>2

\* An initialization that meets no fault of its own is never refused, never
\* goes back, and ends with its ledger published and relied upon; going back
\* after a fault ends too.
THEOREM AdvancesCorrect ==
    ASSUME OneInitializer
    PROVE  Publication!Spec => InitializationAdvances
<1>1. ASSUME PublicationInv, NEW p \in Initializers, Publication!Step(p)
      PROVE  Nearer(p)
  BY <1>1, DecisionsAdvance, CleaningAdvances, BuildingAdvances, PresentingAdvances
  DEF Publication!Step
<1>2. PublicationInv =>
         \A p \in Initializers : Publication!Step(p) =>
            IF process'[p] # Publication!Idle
            THEN /\ Publication!CallsLeft(p)' < Publication!CallsLeft(p)
                 /\ process'[p].phase = "cleaning" <=> process[p].phase = "cleaning"
            ELSE process[p].phase # "cleaning" =>
                     /\ entry'["dest"] # NoFile /\ entry'["stage"] = NoFile
                     /\ relied' = entry'["dest"]
  BY <1>1 DEF Nearer, Left, Publication!CallsLeft
<1> QED
  BY <1>2, PublicationCorrect, PTL
  DEF InitializationAdvances, Publication!InitializationAdvances

=============================================================================
