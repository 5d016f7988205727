------------------------------- MODULE RingBuffer --------------------------------
(***************************************************************************)
(* The single-producer single-consumer ring of src/utils/ring_buffer.hpp.  *)
(* Each access to shared memory is a step.  Copying an item into or out of *)
(* a slot is not atomic: the thread is at the slot while its counter is    *)
(* "write" or "read".                                                      *)
(*                                                                         *)
(* The two positions are atomics, stored with release and read by the      *)
(* other side with acquire.  Such a load may return an old value, but no   *)
(* older than one the thread has seen: seen_read is how many of the        *)
(* consumer's stores to read_pos_ the producer's next load sees, and       *)
(* seen_write is the same for write_pos_.  The code compares positions     *)
(* modulo the capacity; these counts are not, which is what makes it       *)
(* possible to say that the comparison is right.                           *)
(*                                                                         *)
(* X_yyy is a wrong variant of X, as in BookOps.                           *)
(***************************************************************************)
EXTENDS Integers, Sequences

CONSTANTS Items,       \* what is passed through the ring
          Capacity,    \* slots; the code asserts a power of two
          MaxPushes,   \* bound on the items pushed in a behaviour
          NoItem       \* a slot that was never written

ASSUME CapacityAssumption == Capacity \in Nat \ {0}
ASSUME MaxPushesAssumption == MaxPushes \in Nat
ASSUME NoItemAssumption == NoItem \notin Items

VARIABLES
    write_pos, read_pos,     \* the atomics: index of the next slot to write, to read
    buffer,                  \* the slots
    ppc, item,               \* producer: where in try_push it is, the item it pushes
    cpc, copy,               \* consumer: where in try_pop it is, the item it has copied
    seen_read, seen_write,   \* how much of the other side's progress is visible
    pushed, popped           \* history: the items whose push, whose pop, has completed

producer == <<write_pos, ppc, item, pushed>>
consumer == <<read_pos, cpc, copy, popped>>
vars == <<producer, consumer, buffer, seen_read, seen_write>>

Slots == 0..(Capacity - 1)

After_unmasked(pos) == pos + 1

\* (pos + 1) & mask_
After(pos) == (pos + 1) % Capacity

Init ==
    /\ write_pos = 0 /\ read_pos = 0
    /\ buffer = [i \in Slots |-> NoItem]
    /\ ppc = "idle" /\ item = NoItem
    /\ cpc = "idle" /\ copy = NoItem
    /\ seen_read = 0 /\ seen_write = 0
    /\ pushed = << >> /\ popped = << >>

Full_unmasked == write_pos + 1 = seen_read % Capacity

\* What the producer concludes from the read position it loads.
Full == After(write_pos) = seen_read % Capacity

Empty_keepsLast == After(read_pos) = seen_write % Capacity \/ read_pos = seen_write % Capacity

\* What the consumer concludes from the write position it loads.
Empty == read_pos = seen_write % Capacity

----------------------------------------------------------------------------------
\* try_push loads both positions and goes on if there is room; when the ring
\* looks full it returns false and nothing has happened.
TryPush(x) ==
    /\ ppc = "idle" /\ Len(pushed) < MaxPushes
    /\ ~Full
    /\ item' = x
    /\ ppc' = "write"
    /\ UNCHANGED <<write_pos, pushed, consumer, buffer, seen_read, seen_write>>

WriteSlot_nextSlot ==
    /\ ppc = "write"
    /\ buffer' = [buffer EXCEPT ![After(write_pos)] = item]
    /\ ppc' = "publish"
    /\ UNCHANGED <<write_pos, item, pushed, consumer, seen_read, seen_write>>

WriteSlot ==
    /\ ppc = "write"
    /\ buffer' = [buffer EXCEPT ![write_pos] = item]
    /\ ppc' = "publish"
    /\ UNCHANGED <<write_pos, item, pushed, consumer, seen_read, seen_write>>

Publish ==
    /\ ppc = "publish"
    /\ write_pos' = After(write_pos)
    /\ pushed' = Append(pushed, item)
    /\ ppc' = "idle"
    /\ item' = NoItem
    /\ UNCHANGED <<consumer, buffer, seen_read, seen_write>>

\* try_pop loads both positions and goes on if there is something to read.
TryPop ==
    /\ cpc = "idle"
    /\ ~Empty
    /\ cpc' = "read"
    /\ UNCHANGED <<read_pos, copy, popped, producer, buffer, seen_read, seen_write>>

ReadSlot ==
    /\ cpc = "read"
    /\ copy' = buffer[read_pos]
    /\ cpc' = "release"
    /\ UNCHANGED <<read_pos, popped, producer, buffer, seen_read, seen_write>>

Release ==
    /\ cpc = "release"
    /\ read_pos' = After(read_pos)
    /\ popped' = Append(popped, copy)
    /\ cpc' = "idle"
    /\ copy' = NoItem
    /\ UNCHANGED <<producer, buffer, seen_read, seen_write>>

\* Stores become visible to the other side, in order, some time later.
SeeRead ==
    /\ seen_read < Len(popped)
    /\ seen_read' \in (seen_read + 1)..Len(popped)
    /\ UNCHANGED <<producer, consumer, buffer, seen_write>>

SeeWrite ==
    /\ seen_write < Len(pushed)
    /\ seen_write' \in (seen_write + 1)..Len(pushed)
    /\ UNCHANGED <<producer, consumer, buffer, seen_read>>

Next ==
    \/ \E x \in Items : TryPush(x)
    \/ WriteSlot \/ Publish
    \/ TryPop \/ ReadSlot \/ Release
    \/ SeeRead \/ SeeWrite

Spec == Init /\ [][Next]_vars

\* Each thread runs on, the consumer keeps polling, and a store is visible in
\* finite time ([intro.progress] of the C++ standard).  Nobody has to push.
Fairness ==
    /\ WF_vars(WriteSlot) /\ WF_vars(Publish)
    /\ WF_vars(TryPop) /\ WF_vars(ReadSlot) /\ WF_vars(Release)
    /\ WF_vars(SeeRead) /\ WF_vars(SeeWrite)

FairSpec == Spec /\ Fairness

----------------------------------------------------------------------------------
\* Positions are slots; what each side sees of the other is something the
\* other has done, and enough for what it has itself done.
TypeOK ==
    /\ write_pos \in Slots /\ read_pos \in Slots
    /\ buffer \in [Slots -> Items \cup {NoItem}]
    /\ ppc \in {"idle", "write", "publish"} /\ item \in Items \cup {NoItem}
    /\ cpc \in {"idle", "read", "release"} /\ copy \in Items \cup {NoItem}
    /\ pushed \in Seq(Items) /\ popped \in Seq(Items)
    /\ seen_read \in 0..Len(popped) /\ Len(pushed) <= seen_read + Capacity - 1
    /\ seen_write \in Len(popped)..Len(pushed)

\* The two threads are never at the same slot, so no item is torn, however
\* old the positions are that they compare.
NoSlotRace == ~(ppc = "write" /\ cpc = "read" /\ write_pos = read_pos)

\* The ring behaves as a FIFO queue of Capacity - 1 items.
Fifo == INSTANCE BoundedFifo
          WITH Limit     <- Capacity - 1,
               queue     <- SubSeq(pushed, Len(popped) + 1, Len(pushed)),
               delivered <- popped

IsFifo == Fifo!Spec

\* An item that was pushed is popped sooner or later.
EverythingPopped ==
    \A k \in 1..MaxPushes : (Len(pushed) >= k) ~> (Len(popped) >= k)
==================================================================================
