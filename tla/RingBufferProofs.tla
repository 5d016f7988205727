----------------------------- MODULE RingBufferProofs -----------------------------
(***************************************************************************)
(* Proofs about RingBuffer, for any items, any capacity and any number of  *)
(* pushes.  Everything rests on one observation: the positions are the     *)
(* numbers of pushes and pops modulo the capacity, and these numbers never *)
(* differ by as much as the capacity.                                      *)
(***************************************************************************)
EXTENDS RingBuffer, TLAPS, SequenceTheorems

(* Remainders ************************************************************)

\* A number is written as quotient and remainder in one way only.
LEMMA DivisionUnique ==
  ASSUME NEW C \in Nat \ {0}, NEW p \in Int, NEW q \in Int,
         NEW r \in 0..(C - 1), NEW s \in 0..(C - 1),
         (C * p) + r = (C * q) + s
  PROVE  p = q /\ r = s
<1>1. ~(p < q)
  <2>1. SUFFICES ASSUME p < q PROVE FALSE OBVIOUS
  <2>2. C * (p + 1) <= C * q BY <2>1, SMT
  <2>3. C * (p + 1) = C * p + C BY SMT
  <2> QED BY <2>2, <2>3, SMT
<1>2. ~(q < p)
  <2>1. SUFFICES ASSUME q < p PROVE FALSE OBVIOUS
  <2>2. C * (q + 1) <= C * p BY <2>1, SMT
  <2>3. C * (q + 1) = C * q + C BY SMT
  <2> QED BY <2>2, <2>3, SMT
<1> QED BY <1>1, <1>2, SMT

\* What % and \div return.
LEMMA Division ==
  ASSUME NEW C \in Nat \ {0}, NEW n \in Nat
  PROVE  \E q \in Int : n = (C * q) + (n % C) /\ n % C \in 0..(C - 1)
<1>1. n \div C \in Int BY SMT
<1>2. n % C \in 0..(C - 1) BY SMT
<1>3. n = (C * (n \div C)) + (n % C) BY SMT
<1> QED BY <1>1, <1>2, <1>3

\* A remainder is known by any division that leaves it.
LEMMA Remainder ==
  ASSUME NEW C \in Nat \ {0}, NEW n \in Nat, NEW q \in Int, NEW r \in 0..(C - 1),
         n = (C * q) + r
  PROVE  n % C = r
<1>1. PICK p \in Int : n = (C * p) + (n % C) /\ n % C \in 0..(C - 1) BY Division
<1> DEFINE m == n % C
<1>2. m \in 0..(C - 1) /\ (C * p) + m = (C * q) + r BY <1>1
<1> HIDE DEF m
<1>3. m = r BY <1>2, DivisionUnique
<1> QED BY <1>3 DEF m

\* One step further, the remainder goes one slot further.
LEMMA RemainderNext ==
  ASSUME NEW C \in Nat \ {0}, NEW n \in Nat
  PROVE  ((n % C) + 1) % C = (n + 1) % C
<1>1. PICK q \in Int : n = (C * q) + (n % C) /\ n % C \in 0..(C - 1) BY Division
<1> DEFINE m == n % C
<1>2. m \in 0..(C - 1) /\ n + 1 = (C * q) + (m + 1) BY <1>1
<1> HIDE DEF m
<1>3. CASE m + 1 = C
  <2>1. n + 1 = (C * (q + 1)) + 0
    <3>1. C * (q + 1) = C * q + C BY SMT
    <3> QED BY <1>2, <1>3, <3>1, SMT
  <2>0. n + 1 \in Nat /\ q + 1 \in Int /\ 0 \in 0..(C - 1) OBVIOUS
  <2>2. (n + 1) % C = 0 BY <2>0, <2>1, Remainder
  <2>3. m + 1 = (C * 1) + 0 BY <1>3
  <2>4. (m + 1) % C = 0 BY <1>2, <2>3, Remainder
  <2> QED BY <2>2, <2>4 DEF m
<1>4. CASE m + 1 # C
  <2>1. m + 1 \in 0..(C - 1) BY <1>2, <1>4
  <2>0. n + 1 \in Nat OBVIOUS
  <2>2. (n + 1) % C = m + 1 BY <1>2, <2>0, <2>1, Remainder
  <2>3. m + 1 = (C * 0) + (m + 1) BY <1>2
  <2>4. (m + 1) % C = m + 1 BY <2>1, <2>3, Remainder
  <2> QED BY <2>2, <2>4 DEF m
<1> QED BY <1>3, <1>4

\* A whole turn leads back to the same slot, and nothing less does.
LEMMA RemainderTurn ==
  ASSUME NEW C \in Nat \ {0}, NEW a \in Nat
  PROVE  (a + C) % C = a % C
<1>1. PICK q \in Int : a = (C * q) + (a % C) /\ a % C \in 0..(C - 1) BY Division
<1> DEFINE m == a % C
<1>2. m \in 0..(C - 1) /\ a = (C * q) + m BY <1>1
<1> HIDE DEF m
<1>3. C * (q + 1) = C * q + C BY SMT
<1>4. a + C = (C * (q + 1)) + m BY <1>2, <1>3
<1>5. (a + C) % C = m BY <1>2, <1>4, Remainder
<1> QED BY <1>5 DEF m

LEMMA RemainderDistinct ==
  ASSUME NEW C \in Nat \ {0}, NEW a \in Nat, NEW b \in Nat, a < b, b < a + C
  PROVE  a % C # b % C
<1> SUFFICES ASSUME a % C = b % C PROVE FALSE OBVIOUS
<1>1. PICK p \in Int : a = (C * p) + (a % C) /\ a % C \in 0..(C - 1) BY Division
<1>2. PICK q \in Int : b = (C * q) + (b % C) /\ b % C \in 0..(C - 1) BY Division
<1> DEFINE m == a % C
<1>3. m \in 0..(C - 1) /\ a = (C * p) + m /\ b = (C * q) + m BY <1>1, <1>2
<1> HIDE DEF m
<1>4. C * (p + 1) = C * p + C BY SMT
<1>5. C * p < C * q /\ C * q < C * (p + 1) BY <1>3, <1>4, SMT
<1>6. p < q BY <1>5, SMT
<1>7. C * (p + 1) <= C * q BY <1>6, SMT
<1> QED BY <1>5, <1>7, SMT

(* The invariant *********************************************************)

Pushed == Len(pushed)
Popped == Len(popped)

Types ==
    /\ buffer \in [Slots -> Items \cup {NoItem}]
    /\ ppc \in {"idle", "write", "publish"} /\ item \in Items \cup {NoItem}
    /\ cpc \in {"idle", "read", "release"} /\ copy \in Items \cup {NoItem}
    /\ pushed \in Seq(Items) /\ popped \in Seq(Items)
    /\ seen_read \in Nat /\ seen_write \in Nat

\* Each position is a number of steps modulo the capacity, and what a thread
\* sees of the other lies between what that other has done and what it has
\* concluded from it.
Positions ==
    /\ write_pos = Pushed % Capacity /\ read_pos = Popped % Capacity
    /\ seen_read <= Popped /\ Popped <= seen_write /\ seen_write <= Pushed
    /\ Pushed <= seen_read + Capacity - 1

\* A producer past its test has room, a consumer past its test has an item.
Room == ppc # "idle" => item \in Items /\ Pushed < seen_read + Capacity - 1
Waiting == cpc # "idle" => Popped < seen_write

\* The items between the two positions are in their slots.
Contents ==
    /\ \A i \in (Popped + 1)..Pushed : buffer[(i - 1) % Capacity] = pushed[i]
    /\ ppc = "publish" => buffer[write_pos] = item
    /\ cpc = "release" => copy = pushed[Popped + 1]

RInv == Types /\ Positions /\ Room /\ Waiting /\ Contents

(* What the invariant says of the slots **********************************)

LEMMA Counts ==
  ASSUME RInv
  PROVE  /\ Pushed \in Nat /\ Popped \in Nat
         /\ write_pos \in Slots /\ read_pos \in Slots
         /\ Popped <= Pushed /\ Pushed < Popped + Capacity
<1>1. Pushed \in Nat /\ Popped \in Nat BY DEF RInv, Types, Pushed, Popped
<1>2. \A n \in Nat : n % Capacity \in Slots BY CapacityAssumption, Division DEF Slots
<1>3. Popped <= Pushed /\ Pushed < Popped + Capacity
  BY <1>1, CapacityAssumption DEF RInv, Types, Positions
<1> QED BY <1>1, <1>2, <1>3 DEF RInv, Positions

\* The slot that is written next holds none of the items that wait.
LEMMA NextSlotIsFree ==
  ASSUME RInv, NEW i \in (Popped + 1)..Pushed
  PROVE  (i - 1) % Capacity # write_pos /\ (i - 1) % Capacity \in Slots
<1>1. /\ i - 1 \in Nat /\ Pushed \in Nat
      /\ i - 1 < Pushed /\ Pushed < (i - 1) + Capacity
  <2>1. Pushed \in Nat /\ Popped \in Nat /\ Pushed < Popped + Capacity BY Counts
  <2>2. i \in Nat /\ Popped + 1 <= i /\ i <= Pushed BY <2>1
  <2> QED BY <2>1, <2>2, CapacityAssumption
<1>2. (i - 1) % Capacity # Pushed % Capacity BY <1>1, CapacityAssumption, RemainderDistinct
<1>3. (i - 1) % Capacity \in Slots BY <1>1, CapacityAssumption, Division DEF Slots
<1> QED BY <1>2, <1>3 DEF RInv, Positions

\* The oldest item that waits is in the slot that is read next.
LEMMA OldestItem ==
  ASSUME RInv, Popped < seen_write
  PROVE  buffer[read_pos] = pushed[Popped + 1] /\ pushed[Popped + 1] \in Items
<1>1. Popped \in Nat /\ Pushed \in Nat /\ seen_write <= Pushed /\ seen_write \in Nat
  BY Counts DEF RInv, Positions, Types
<1>2. Popped + 1 \in (Popped + 1)..Pushed /\ (Popped + 1) - 1 = Popped BY <1>1
<1>3. buffer[((Popped + 1) - 1) % Capacity] = pushed[Popped + 1] BY <1>2 DEF RInv, Contents
<1>4. pushed[Popped + 1] \in Items
  <2>1. pushed \in Seq(Items) /\ Popped + 1 \in 1..Len(pushed) BY <1>1, <1>2 DEF RInv, Types, Pushed
  <2> QED BY <2>1, ElementOfSeq
<1> QED BY <1>2, <1>3, <1>4 DEF RInv, Positions

(* The steps *************************************************************)

LEMMA InitInvariant == Init => RInv
<1> SUFFICES ASSUME Init PROVE RInv OBVIOUS
<1>1. Pushed = 0 /\ Popped = 0 BY DEF Init, Pushed, Popped
<1>2. 0 % Capacity = 0
  <2>1. 0 = (Capacity * 0) + 0 /\ 0 \in 0..(Capacity - 1) BY CapacityAssumption
  <2> QED BY <2>1, CapacityAssumption, Remainder
<1>3. Types BY DEF Init, Types
<1>4. Positions BY <1>1, <1>2, CapacityAssumption DEF Init, Positions
<1>5. Room /\ Waiting BY DEF Init, Room, Waiting
<1>6. Contents BY <1>1 DEF Init, Contents
<1> QED BY <1>3, <1>4, <1>5, <1>6 DEF RInv

\* The test for a full ring is right although it compares slots, and although
\* the read position it uses may be old.
LEMMA TryPushInvariant == ASSUME RInv, NEW x \in Items, TryPush(x) PROVE RInv'
<1>1. Pushed \in Nat /\ seen_read \in Nat BY Counts DEF RInv, Types
<1>2. Pushed + 1 # seen_read + Capacity
  <2> SUFFICES ASSUME Pushed + 1 = seen_read + Capacity PROVE FALSE OBVIOUS
  <2>1. (Pushed + 1) % Capacity = seen_read % Capacity
    BY <1>1, CapacityAssumption, RemainderTurn
  <2>2. After(write_pos) = (Pushed + 1) % Capacity
    BY <1>1, CapacityAssumption, RemainderNext DEF After, RInv, Positions
  <2> QED BY <2>1, <2>2 DEF TryPush, Full
<1>3. Pushed < seen_read + Capacity - 1
  BY <1>1, <1>2, CapacityAssumption DEF RInv, Positions
<1>4. Types' BY DEF TryPush, RInv, Types, producer, consumer
<1>5. Pushed' = Pushed /\ Popped' = Popped BY DEF TryPush, Pushed, Popped, consumer
<1>6. Positions' BY <1>5 DEF TryPush, RInv, Positions, consumer
<1>7. Room' /\ Waiting' BY <1>3, <1>5 DEF TryPush, RInv, Room, Waiting, consumer
<1>8. Contents' BY <1>5 DEF TryPush, RInv, Contents, consumer
<1> QED BY <1>4, <1>6, <1>7, <1>8 DEF RInv

LEMMA WriteSlotInvariant == ASSUME RInv, WriteSlot PROVE RInv'
<1>1. Pushed' = Pushed /\ Popped' = Popped BY DEF WriteSlot, Pushed, Popped, consumer
<1>2. item \in Items BY DEF WriteSlot, RInv, Room
<1>3. Types' BY <1>2 DEF WriteSlot, RInv, Types, consumer
<1>4. Positions' BY <1>1 DEF WriteSlot, RInv, Positions, consumer
<1>5. Room' /\ Waiting' BY <1>1 DEF WriteSlot, RInv, Room, Waiting, consumer
<1>6. Contents'
  <2>1. ASSUME NEW i \in (Popped + 1)..Pushed
        PROVE  buffer'[(i - 1) % Capacity] = pushed[i]
    <3>1. (i - 1) % Capacity # write_pos /\ (i - 1) % Capacity \in Slots BY NextSlotIsFree
    <3>2. buffer[(i - 1) % Capacity] = pushed[i] BY DEF RInv, Contents
    <3> QED BY <3>1, <3>2 DEF WriteSlot, RInv, Types
  <2>2. buffer'[write_pos] = item BY Counts DEF WriteSlot, RInv, Types
  <2> QED BY <1>1, <2>1, <2>2 DEF WriteSlot, RInv, Contents, consumer
<1> QED BY <1>3, <1>4, <1>5, <1>6 DEF RInv

LEMMA PublishInvariant == ASSUME RInv, Publish PROVE RInv'
<1>1. Pushed \in Nat /\ Popped \in Nat /\ item \in Items /\ Pushed < seen_read + Capacity - 1
  BY Counts DEF Publish, RInv, Room
<1>2. /\ pushed' = Append(pushed, item) /\ pushed \in Seq(Items)
      /\ pushed' \in Seq(Items) /\ Len(pushed') = Len(pushed) + 1
      /\ pushed'[Pushed + 1] = item
      /\ \A i \in 1..Pushed : pushed'[i] = pushed[i]
  BY <1>1, AppendProperties DEF Publish, RInv, Types, Pushed
<1>3. Pushed' = Pushed + 1 /\ Popped' = Popped BY <1>2 DEF Publish, Pushed, Popped, consumer
<1>4. Types' BY <1>2 DEF Publish, RInv, Types, consumer
<1>5. Positions'
  <2>1. write_pos' = (Pushed + 1) % Capacity
    BY <1>1, CapacityAssumption, RemainderNext DEF Publish, After, RInv, Positions
  <2> QED BY <1>1, <1>3, <2>1, CapacityAssumption DEF Publish, RInv, Types, Positions, consumer
<1>6. Room' /\ Waiting' BY <1>3 DEF Publish, RInv, Room, Waiting, consumer
<1>7. Contents'
  <2>1. ASSUME NEW i \in (Popped + 1)..(Pushed + 1)
        PROVE  buffer[(i - 1) % Capacity] = pushed'[i]
    <3>1. CASE i \in (Popped + 1)..Pushed
      <4>1. i \in 1..Pushed BY <1>1, <3>1
      <4>2. pushed'[i] = pushed[i] BY <1>2, <4>1
      <4> QED BY <3>1, <4>2 DEF RInv, Contents
    <3>2. CASE i = Pushed + 1
      <4>1. i - 1 = Pushed BY <1>1, <3>2
      <4> QED BY <1>2, <3>2, <4>1 DEF Publish, RInv, Contents, Positions
    <3> QED BY <1>1, <3>1, <3>2
  <2>2. cpc = "release" => copy = pushed'[Popped + 1]
    <3>1. cpc = "release" => Popped + 1 \in 1..Pushed
      BY <1>1 DEF RInv, Waiting, Positions, Types
    <3> QED BY <1>2, <3>1 DEF RInv, Contents
  <2> QED BY <1>3, <2>1, <2>2 DEF Publish, Contents, consumer
<1> QED BY <1>4, <1>5, <1>6, <1>7 DEF RInv

LEMMA TryPopInvariant == ASSUME RInv, TryPop PROVE RInv'
<1>1. Pushed' = Pushed /\ Popped' = Popped BY DEF TryPop, Pushed, Popped, producer
<1>2. Popped < seen_write BY Counts DEF TryPop, Empty, RInv, Types, Positions
<1>3. Types' BY DEF TryPop, RInv, Types, producer
<1>4. Positions' BY <1>1 DEF TryPop, RInv, Positions, producer
<1>5. Room' /\ Waiting' BY <1>1, <1>2 DEF TryPop, RInv, Room, Waiting, producer
<1>6. Contents' BY <1>1 DEF TryPop, RInv, Contents, producer
<1> QED BY <1>3, <1>4, <1>5, <1>6 DEF RInv

LEMMA ReadSlotInvariant == ASSUME RInv, ReadSlot PROVE RInv'
<1>1. Pushed' = Pushed /\ Popped' = Popped BY DEF ReadSlot, Pushed, Popped, producer
<1>2. copy' = pushed[Popped + 1] /\ copy' \in Items
  BY OldestItem DEF ReadSlot, RInv, Waiting
<1>3. Types' BY <1>2 DEF ReadSlot, RInv, Types, producer
<1>4. Positions' BY <1>1 DEF ReadSlot, RInv, Positions, producer
<1>5. Room' /\ Waiting' BY <1>1 DEF ReadSlot, RInv, Room, Waiting, producer
<1>6. Contents' BY <1>1, <1>2 DEF ReadSlot, RInv, Contents, producer
<1> QED BY <1>3, <1>4, <1>5, <1>6 DEF RInv

LEMMA ReleaseInvariant == ASSUME RInv, Release PROVE RInv'
<1>1. /\ Pushed \in Nat /\ Popped \in Nat /\ seen_write \in Nat /\ seen_read \in Nat
      /\ Popped < seen_write
  BY Counts DEF Release, RInv, Waiting, Types
<1>2. copy \in Items BY <1>1, OldestItem DEF Release, RInv, Contents
<1>3. popped' \in Seq(Items) /\ Len(popped') = Len(popped) + 1
  BY <1>2, AppendProperties DEF Release, RInv, Types
<1>4. Pushed' = Pushed /\ Popped' = Popped + 1
  BY <1>3 DEF Release, Pushed, Popped, producer
<1>5. Types' BY <1>3 DEF Release, RInv, Types, producer
<1>6. Positions'
  <2>1. read_pos' = (Popped + 1) % Capacity
    BY <1>1, CapacityAssumption, RemainderNext DEF Release, After, RInv, Positions
  <2> QED BY <1>1, <1>4, <2>1 DEF Release, RInv, Positions, producer
<1>7. Room' /\ Waiting' BY <1>4 DEF Release, RInv, Room, Waiting, producer
<1>8. Contents' BY <1>1, <1>4 DEF Release, RInv, Contents, producer
<1> QED BY <1>5, <1>6, <1>7, <1>8 DEF RInv

LEMMA SeeInvariant == ASSUME RInv, SeeRead \/ SeeWrite PROVE RInv'
<1>1. Pushed' = Pushed /\ Popped' = Popped
  BY DEF SeeRead, SeeWrite, Pushed, Popped, producer, consumer
<1>2. /\ Pushed \in Nat /\ Popped \in Nat
      /\ seen_read \in Nat /\ seen_read' \in Nat /\ seen_read <= seen_read' /\ seen_read' <= Popped
      /\ seen_write \in Nat /\ seen_write' \in Nat /\ seen_write <= seen_write' /\ seen_write' <= Pushed
  BY Counts DEF SeeRead, SeeWrite, RInv, Types, Positions, Pushed, Popped
<1>3. Types' BY <1>2 DEF SeeRead, SeeWrite, RInv, Types, producer, consumer
<1>4. /\ write_pos' = write_pos /\ read_pos' = read_pos
      /\ ppc' = ppc /\ item' = item /\ cpc' = cpc
  BY DEF SeeRead, SeeWrite, producer, consumer
<1>5. Positions' /\ Room' /\ Waiting'
  <2>0. \A n, r, t, c \in Nat : r <= t =>
          /\ n <= r + c - 1 => n <= t + c - 1
          /\ n < r + c - 1 => n < t + c - 1
    OBVIOUS
  <2>1. Pushed <= seen_read' + Capacity - 1
    <3>1. Pushed <= seen_read + Capacity - 1 BY DEF RInv, Positions
    <3> QED BY <1>2, <2>0, <3>1, CapacityAssumption
  <2>2. Positions' BY <1>1, <1>2, <1>4, <2>1 DEF RInv, Positions
  <2>3. Pushed < seen_read + Capacity - 1 => Pushed < seen_read' + Capacity - 1
    BY <1>2, <2>0, CapacityAssumption
  <2>4. Room' BY <1>1, <1>4, <2>3 DEF RInv, Room
  <2>5. Popped < seen_write => Popped < seen_write' BY <1>2
  <2>6. Waiting' BY <1>1, <1>4, <2>5 DEF RInv, Waiting
  <2> QED BY <2>2, <2>4, <2>6
<1>6. Contents' BY <1>1 DEF SeeRead, SeeWrite, RInv, Contents, producer, consumer
<1> QED BY <1>3, <1>4, <1>5, <1>6 DEF RInv

LEMMA StepInvariant == RInv /\ [Next]_vars => RInv'
<1> SUFFICES ASSUME RInv, [Next]_vars PROVE RInv' OBVIOUS
<1>1. CASE UNCHANGED vars
  BY <1>1 DEF vars, producer, consumer, RInv, Types, Positions, Room, Waiting, Contents, Pushed, Popped
<1> QED BY <1>1, TryPushInvariant, WriteSlotInvariant, PublishInvariant, TryPopInvariant,
           ReadSlotInvariant, ReleaseInvariant, SeeInvariant DEF Next

LEMMA Invariance == Spec => []RInv
BY InitInvariant, StepInvariant, PTL DEF Spec

(* The queue that the ring is ********************************************)

Queue == SubSeq(pushed, Popped + 1, Pushed)

\* What is left of a sequence behind its first m elements.
LEMMA Remains ==
  ASSUME NEW S, NEW s \in Seq(S), NEW n \in Nat, n = Len(s), NEW m \in 0..n
  PROVE  /\ SubSeq(s, m + 1, n) \in Seq(S) /\ Len(SubSeq(s, m + 1, n)) = n - m
         /\ \A i \in 1..(n - m) : SubSeq(s, m + 1, n)[i] = s[m + i]
<1>1. \A i \in (m + 1)..n : s[i] \in S
  <2> SUFFICES ASSUME NEW i \in (m + 1)..n PROVE s[i] \in S OBVIOUS
  <2>1. i \in 1..Len(s) OBVIOUS
  <2> QED BY <2>1, ElementOfSeq
<1>2. /\ SubSeq(s, m + 1, n) \in Seq(S)
      /\ Len(SubSeq(s, m + 1, n)) = IF m + 1 <= n THEN n - (m + 1) + 1 ELSE 0
      /\ \A i \in 1..(n - (m + 1) + 1) : SubSeq(s, m + 1, n)[i] = s[(m + 1) + i - 1]
  <2>1. m + 1 \in Int /\ n \in Int OBVIOUS
  <2> QED BY <1>1, <2>1, SubSeqProperties
<1>3. /\ (IF m + 1 <= n THEN n - (m + 1) + 1 ELSE 0) = n - m
      /\ n - (m + 1) + 1 = n - m
      /\ \A i \in 1..(n - m) : (m + 1) + i - 1 = m + i
  OBVIOUS
<1> QED BY <1>2, <1>3

LEMMA QueueProperties ==
  ASSUME RInv
  PROVE  /\ Queue \in Seq(Items) /\ Len(Queue) = Pushed - Popped
         /\ \A i \in 1..(Pushed - Popped) : Queue[i] = pushed[Popped + i]
<1>1. pushed \in Seq(Items) /\ Pushed \in Nat /\ Pushed = Len(pushed) /\ Popped \in 0..Pushed
  BY Counts DEF RInv, Types, Pushed
<1> QED BY <1>1, Remains DEF Queue

\* The store to write_pos_ is where an item comes into the queue.
LEMMA PublishPushes == ASSUME RInv, Publish PROVE Fifo!Push(item)
<1>1. /\ Pushed \in Nat /\ Popped \in Nat /\ Popped <= Pushed
      /\ item \in Items /\ Pushed < seen_read + Capacity - 1 /\ seen_read <= Popped
      /\ seen_read \in Nat
  BY Counts DEF Publish, RInv, Room, Positions, Types
<1>2. pushed' \in Seq(Items) BY PublishInvariant DEF RInv, Types
<1>3. /\ Len(pushed') = Len(pushed) + 1
      /\ pushed'[Pushed + 1] = item
      /\ \A i \in 1..Pushed : pushed'[i] = pushed[i]
  BY <1>1, AppendProperties DEF Publish, RInv, Types, Pushed
<1>4. Pushed' = Pushed + 1 /\ Popped' = Popped BY <1>3 DEF Publish, Pushed, Popped, consumer
<1>5. /\ Queue' \in Seq(Items) /\ Len(Queue') = (Pushed + 1) - Popped
      /\ \A i \in 1..((Pushed + 1) - Popped) : Queue'[i] = pushed'[Popped + i]
  <2>1. Pushed + 1 \in Nat /\ Pushed + 1 = Len(pushed') /\ Popped \in 0..(Pushed + 1)
    BY <1>1, <1>3 DEF Pushed
  <2>2. Queue' = SubSeq(pushed', Popped + 1, Pushed + 1) BY <1>4 DEF Queue
  <2> QED BY <1>2, <2>1, <2>2, Remains
<1>6. /\ Append(Queue, item) \in Seq(Items) /\ Len(Append(Queue, item)) = Pushed - Popped + 1
      /\ \A i \in 1..(Pushed - Popped) : Append(Queue, item)[i] = pushed[Popped + i]
      /\ Append(Queue, item)[Pushed - Popped + 1] = item
  BY <1>1, QueueProperties, AppendProperties
<1>7. Queue' = Append(Queue, item)
  <2>1. Len(Queue') = Len(Append(Queue, item)) BY <1>1, <1>5, <1>6
  <2>2. ASSUME NEW i \in 1..Len(Queue') PROVE Queue'[i] = Append(Queue, item)[i]
    <3>1. i \in 1..((Pushed + 1) - Popped) BY <1>5
    <3>2. CASE i \in 1..(Pushed - Popped)
      <4>1. Popped + i \in 1..Pushed BY <1>1, <3>2
      <4> QED BY <1>3, <1>5, <1>6, <3>1, <3>2, <4>1
    <3>3. CASE i = Pushed - Popped + 1
      <4>1. Popped + i = Pushed + 1 BY <1>1, <3>3
      <4>2. Queue'[i] = item BY <1>3, <1>5, <3>1, <4>1
      <4> QED BY <1>6, <3>3, <4>2
    <3>4. i \in 1..(Pushed - Popped) \/ i = Pushed - Popped + 1 BY <1>1, <3>1
    <3> QED BY <3>2, <3>3, <3>4
  <2> HIDE DEF Queue
  <2> QED BY <1>5, <1>6, <2>1, <2>2, SeqEqual
<1>8. Len(Queue) < Capacity - 1
  <2>1. Len(Queue) = Pushed - Popped BY QueueProperties
  <2> QED BY <1>1, <2>1, CapacityAssumption
<1> QED BY <1>7, <1>8 DEF Fifo!Push, Queue, Publish, consumer, Pushed, Popped

\* The store to read_pos_ is where its oldest item leaves it.
LEMMA ReleasePops == ASSUME RInv, Release PROVE Fifo!Pop
<1>1. /\ Pushed \in Nat /\ Popped \in Nat /\ seen_write \in Nat
      /\ Popped < seen_write /\ seen_write <= Pushed /\ pushed \in Seq(Items)
  BY Counts DEF Release, RInv, Waiting, Types, Positions
<1>2. copy = pushed[Popped + 1] /\ copy \in Items
  BY <1>1, OldestItem DEF Release, RInv, Contents
<1>3. Len(popped') = Len(popped) + 1 BY <1>2, AppendProperties DEF Release, RInv, Types
<1>4. Pushed' = Pushed /\ Popped' = Popped + 1 /\ pushed' = pushed
  BY <1>3 DEF Release, Pushed, Popped, producer
<1>5. Popped + 1 \in 1..Len(pushed) /\ Pushed \in (Popped + 1)..Len(pushed)
  BY <1>1 DEF Pushed
<1>6. Head(Queue) = pushed[Popped + 1] /\ Tail(Queue) = SubSeq(pushed, (Popped + 1) + 1, Pushed)
  BY <1>1, <1>5, HeadTailOfSubSeq DEF Queue
<1>7. Queue' = Tail(Queue) BY <1>4, <1>6 DEF Queue
<1>8. Queue # << >>
  <2>1. Len(Queue) = Pushed - Popped BY QueueProperties
  <2> QED BY <1>1, <2>1
<1>9. popped' = Append(popped, Head(Queue)) BY <1>2, <1>6 DEF Release
<1> QED BY <1>7, <1>8, <1>9 DEF Fifo!Pop, Queue, Pushed, Popped

\* Every other step leaves the queue alone.
LEMMA StepImplementsFifo ==
  RInv /\ [Next]_vars => [Fifo!Next]_<<SubSeq(pushed, Len(popped) + 1, Len(pushed)), popped>>
<1> SUFFICES ASSUME RInv, [Next]_vars
             PROVE  Fifo!Next \/ UNCHANGED <<pushed, popped>>
  OBVIOUS
<1>1. CASE Publish
  <2>1. item \in Items BY <1>1 DEF Publish, RInv, Room
  <2> QED BY <1>1, <2>1, PublishPushes DEF Fifo!Next
<1>2. CASE Release BY <1>2, ReleasePops DEF Fifo!Next
<1>3. CASE UNCHANGED vars BY <1>3 DEF vars, producer, consumer
<1>4. CASE \E x \in Items : TryPush(x) BY <1>4 DEF TryPush, consumer
<1>5. CASE WriteSlot BY <1>5 DEF WriteSlot, consumer
<1>6. CASE TryPop BY <1>6 DEF TryPop, producer
<1>7. CASE ReadSlot BY <1>7 DEF ReadSlot, producer
<1>8. CASE SeeRead \/ SeeWrite BY <1>8 DEF SeeRead, SeeWrite, producer, consumer
<1> QED BY <1>1, <1>2, <1>3, <1>4, <1>5, <1>6, <1>7, <1>8 DEF Next

(* The theorems **********************************************************)

\* Every variable keeps its type, and neither side is ever ahead of what it
\* has seen of the other by more than the code allows.
THEOREM RingTypeCorrect == Spec => []TypeOK
<1>1. RInv => TypeOK
  BY Counts, CapacityAssumption DEF RInv, Types, Positions, TypeOK, Pushed, Popped
<1> QED BY <1>1, Invariance, PTL

\* The two threads are never at the same slot, however old the positions are
\* that they compare.
THEOREM NeverAtOneSlot == Spec => []NoSlotRace
<1>1. RInv => NoSlotRace
  <2> SUFFICES ASSUME RInv, ppc = "write", cpc = "read" PROVE write_pos # read_pos
    BY DEF NoSlotRace
  <2>1. /\ Popped \in Nat /\ Pushed \in Nat /\ Popped < Pushed /\ Pushed < Popped + Capacity
    BY Counts DEF RInv, Waiting, Positions, Types
  <2>2. Popped % Capacity # Pushed % Capacity BY <2>1, CapacityAssumption, RemainderDistinct
  <2> QED BY <2>2 DEF RInv, Positions
<1> QED BY <1>1, Invariance, PTL

\* The ring is a FIFO queue of one item less than its capacity: no item is
\* lost, repeated, torn or overtaken, whatever the threads see of each other.
THEOREM RingIsFifo == Spec => IsFifo
<1>1. Init => Fifo!Init
  <2> SUFFICES ASSUME Init PROVE Fifo!Init OBVIOUS
  <2>1. SubSeq(pushed, Len(popped) + 1, Len(pushed)) = << >> BY SubSeqEmpty DEF Init
  <2> QED BY <2>1 DEF Init, Fifo!Init
<1> QED BY <1>1, StepImplementsFifo, Invariance, PTL DEF Spec, IsFifo, Fifo!Spec
==================================================================================
