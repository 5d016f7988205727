-------------------------------- MODULE WALProofs --------------------------------
(***************************************************************************)
(* Proofs about WAL, for any sequence numbers and any bounds.  The heart   *)
(* of them is one equation: the entries that append has accepted are those *)
(* of the file and of the buffer behind it.                                *)
(***************************************************************************)
EXTENDS WAL, SequenceTheorems, TLAPS

\* Induction, which the proofs about the book need too.
Lemmas == INSTANCE BookOpsProofs WITH OrderIds <- {}, Prices <- {}, PriceBound <- 0

(* The entries among some chunks *****************************************)

\* What upTo in EntriesOf(chunks) is at i, when it is g below i.
UpToStep(chunks, g, i) ==
    IF i = 0 THEN << >>
    ELSE IF chunks[i].kind = "entry" THEN Append(g[i - 1], chunks[i])
    ELSE g[i - 1]

UpTo(chunks) == CHOOSE g : g = [i \in 0..Len(chunks) |-> UpToStep(chunks, g, i)]

LEMMA EntriesOfIsUpTo ==
  ASSUME NEW chunks
  PROVE  EntriesOf(chunks) = UpTo(chunks)[Len(chunks)]
BY DEF EntriesOf, UpTo, UpToStep

\* The recursive function exists: it is built one argument at a time.
LEMMA UpToExists ==
  ASSUME NEW chunks, NEW n \in Nat
  PROVE  \E g : g = [i \in 0..n |-> UpToStep(chunks, g, i)]
<1> DEFINE T == {k \in Nat : \E g : g = [i \in 0..k |-> UpToStep(chunks, g, i)]}
<1>1. 0 \in T
  <2> DEFINE g == [i \in 0..0 |-> << >>]
  <2>1. g = [i \in 0..0 |-> UpToStep(chunks, g, i)]
    <3>1. \A i \in 0..0 : UpToStep(chunks, g, i) = << >> BY DEF UpToStep
    <3> QED BY <3>1
  <2> HIDE DEF g
  <2> QED BY <2>1
<1>2. ASSUME NEW k \in Nat, k \in T PROVE k + 1 \in T
  <2>1. PICK g : g = [i \in 0..k |-> UpToStep(chunks, g, i)] BY <1>2
  <2> DEFINE h == [i \in 0..(k + 1) |->
                     IF i <= k THEN g[i] ELSE UpToStep(chunks, g, k + 1)]
  <2>2. ASSUME NEW i \in 0..(k + 1) PROVE h[i] = UpToStep(chunks, h, i)
    <3>1. i = 0 \/ h[i - 1] = g[i - 1] OBVIOUS
    <3>2. UpToStep(chunks, h, i) = UpToStep(chunks, g, i) BY <3>1 DEF UpToStep
    <3>3. i <= k => g[i] = UpToStep(chunks, g, i) BY <2>1
    <3>4. i <= k \/ i = k + 1 OBVIOUS
    <3> QED BY <3>2, <3>3, <3>4
  <2>3. h = [i \in 0..(k + 1) |-> UpToStep(chunks, h, i)]
    <3>1. h = [i \in 0..(k + 1) |-> h[i]] OBVIOUS
    <3> HIDE DEF h
    <3> QED BY <2>2, <3>1
  <2> HIDE DEF h
  <2> QED BY <2>3
<1> HIDE DEF T
<1>3. \A i \in Nat : i \in T BY <1>1, <1>2, Lemmas!SetInduction
<1> QED BY <1>3 DEF T

LEMMA UpToUnfold ==
  ASSUME NEW S, NEW chunks \in Seq(S), NEW i \in 0..Len(chunks)
  PROVE  UpTo(chunks)[i] = UpToStep(chunks, UpTo(chunks), i)
<1>1. Len(chunks) \in Nat BY LenProperties
<1>2. \E g : g = [j \in 0..Len(chunks) |-> UpToStep(chunks, g, j)] BY <1>1, UpToExists
<1>3. UpTo(chunks) = [j \in 0..Len(chunks) |-> UpToStep(chunks, UpTo(chunks), j)]
  BY <1>2, Zenon DEF UpTo
<1> QED BY <1>3

LEMMA UpToType ==
  ASSUME NEW S, NEW chunks \in Seq(S), NEW n \in 0..Len(chunks)
  PROVE  UpTo(chunks)[n] \in Seq(S)
<1> DEFINE u == UpTo(chunks)
           T == {i \in 0..Len(chunks) : u[i] \in Seq(S)}
<1>0. Len(chunks) \in Nat BY LenProperties
<1>1. \A i \in 0..Len(chunks) : u[i] = UpToStep(chunks, u, i) BY UpToUnfold
<1> HIDE DEF u
<1>2. 0 \in T
  <2>1. 0 \in 0..Len(chunks) BY <1>0
  <2>2. u[0] = << >> BY <1>1, <2>1 DEF UpToStep
  <2>3. << >> \in Seq(S) OBVIOUS
  <2>4. u[0] \in Seq(S) BY <2>2, <2>3, Zenon
  <2> QED BY <2>1, <2>4, Zenon
<1>3. ASSUME NEW i \in 0..(Len(chunks) - 1), i \in T PROVE i + 1 \in T
  <2>1. /\ i + 1 \in 1..Len(chunks) /\ (i + 1) - 1 = i /\ i + 1 # 0
        /\ i + 1 \in 0..Len(chunks)
    BY <1>0
  <2>2. chunks[i + 1] \in S BY <2>1, ElementOfSeq
  <2>3. u[i] \in Seq(S) BY <1>3, Zenon
  <2>4. Append(u[i], chunks[i + 1]) \in Seq(S) BY <2>2, <2>3, AppendProperties
  <2>5. u[i + 1] = u[i] \/ u[i + 1] = Append(u[i], chunks[i + 1])
    BY <1>1, <2>1, Zenon DEF UpToStep
  <2>6. u[i + 1] \in Seq(S) BY <2>3, <2>4, <2>5, Zenon
  <2> QED BY <2>1, <2>6, Zenon
<1> HIDE DEF T
<1>4. \A i \in 0..Len(chunks) : i \in T BY <1>0, <1>2, <1>3, Lemmas!UpToInduction
<1> QED BY <1>4 DEF T, u

\* A chunk at the end changes nothing about those before it.
LEMMA UpToAppend ==
  ASSUME NEW S, NEW chunks \in Seq(S), NEW c \in S, NEW n \in 0..Len(chunks)
  PROVE  UpTo(Append(chunks, c))[n] = UpTo(chunks)[n]
<1> DEFINE u == UpTo(chunks)
           more == Append(chunks, c)
           v == UpTo(more)
           T == {i \in 0..Len(chunks) : u[i] = v[i]}
<1>0. /\ Len(chunks) \in Nat /\ more \in Seq(S) /\ Len(more) = Len(chunks) + 1
      /\ \A i \in 1..Len(chunks) : more[i] = chunks[i]
  BY LenProperties, AppendProperties
<1> HIDE DEF more
<1>1. \A i \in 0..Len(chunks) : u[i] = UpToStep(chunks, u, i) BY UpToUnfold
<1>2. \A i \in 0..Len(more) : v[i] = UpToStep(more, v, i) BY <1>0, UpToUnfold
<1> HIDE DEF u, v
<1>3. 0 \in T
  <2>1. 0 \in 0..Len(chunks) /\ 0 \in 0..Len(more) BY <1>0
  <2>2. u[0] = << >> /\ v[0] = << >> BY <1>1, <1>2, <2>1 DEF UpToStep
  <2> QED BY <2>1, <2>2
<1>4. ASSUME NEW i \in 0..(Len(chunks) - 1), i \in T PROVE i + 1 \in T
  <2>1. /\ i + 1 \in 1..Len(chunks) /\ (i + 1) - 1 = i /\ i + 1 # 0
        /\ i + 1 \in 0..Len(chunks) /\ i + 1 \in 0..Len(more)
    BY <1>0
  <2>2. more[i + 1] = chunks[i + 1] BY <1>0, <2>1
  <2>3. UpToStep(more, v, i + 1) = UpToStep(chunks, u, i + 1)
    BY <1>4, <2>1, <2>2 DEF UpToStep
  <2> QED BY <1>1, <1>2, <2>1, <2>3
<1> HIDE DEF T
<1>5. \A i \in 0..Len(chunks) : i \in T BY <1>0, <1>3, <1>4, Lemmas!UpToInduction
<1> QED BY <1>5 DEF T, u, v, more

\* The unfolding equations of EntriesOf, on sequences.
LEMMA EntriesOfEmpty == EntriesOf(<< >>) = << >>
<1>1. << >> \in Seq({}) /\ Len(<< >>) = 0 /\ 0 \in 0..0 OBVIOUS
<1>2. UpTo(<< >>)[0] = UpToStep(<< >>, UpTo(<< >>), 0) BY <1>1, UpToUnfold
<1> QED BY <1>1, <1>2, EntriesOfIsUpTo DEF UpToStep

LEMMA EntriesOfType ==
  ASSUME NEW S, NEW chunks \in Seq(S)
  PROVE  EntriesOf(chunks) \in Seq(S)
<1>1. Len(chunks) \in 0..Len(chunks) BY LenProperties
<1> QED BY <1>1, EntriesOfIsUpTo, UpToType

LEMMA EntriesOfAppend ==
  ASSUME NEW S, NEW chunks \in Seq(S), NEW c \in S
  PROVE  EntriesOf(Append(chunks, c)) =
           IF c.kind = "entry" THEN Append(EntriesOf(chunks), c) ELSE EntriesOf(chunks)
<1> DEFINE more == Append(chunks, c)
<1>0. /\ Len(chunks) \in Nat /\ more \in Seq(S) /\ Len(more) = Len(chunks) + 1
      /\ more[Len(chunks) + 1] = c
  BY LenProperties, AppendProperties
<1>1. UpTo(more)[Len(chunks)] = UpTo(chunks)[Len(chunks)]
  BY <1>0, UpToAppend
<1> HIDE DEF more
<1>2. /\ Len(more) \in 0..Len(more) /\ Len(more) # 0 /\ Len(more) - 1 = Len(chunks)
      /\ more[Len(more)] = c
  BY <1>0
<1>3. UpTo(more)[Len(more)] = UpToStep(more, UpTo(more), Len(more))
  BY <1>0, <1>2, UpToUnfold
<1>4. UpTo(more)[Len(more)] =
        IF c.kind = "entry" THEN Append(UpTo(chunks)[Len(chunks)], c)
        ELSE UpTo(chunks)[Len(chunks)]
  BY <1>1, <1>2, <1>3 DEF UpToStep
<1> QED BY <1>4, EntriesOfIsUpTo DEF more

(* The invariant *********************************************************)

\* Where a session of the log stands: what is in its buffer, and when its
\* stream may have failed.
SessionInv ==
    /\ Len(buffer) <= 1
    /\ phase = "closed" => buffer = << >> /\ failed = FALSE
    /\ phase = "creating" => buffer = <<Header(0)>> /\ file = << >> /\ failed = FALSE
    /\ phase = "open" /\ failed = FALSE => file # << >>
    /\ failed = TRUE => buffer = << >>
    /\ phase = "open" => \A i \in 1..Len(buffer) : buffer[i].kind = "entry"
    /\ exists = TRUE \/ (phase = "closed" /\ file = << >>)

\* No accepted entry is anywhere but in the file or behind it in the buffer.
EntriesInv ==
    /\ accepted = EntriesOf(file \o buffer)
    /\ synced <= Len(EntriesOf(file))

WInv == TypeOK /\ SessionInv /\ EntriesInv

(* What the invariant says of a flush ************************************)

LEMMA ChunkKinds ==
  /\ \A c \in Chunks : c.kind = "header" \/ c.kind = "entry"
  /\ \A c \in Chunks : c.kind = "header" => c.count \in 0..MaxCount
  /\ \A n \in 0..MaxCount : Header(n) \in Chunks /\ Header(n).kind = "header"
  /\ \A s \in SequenceNums : Entry(s) \in Chunks /\ Entry(s).kind = "entry"
<1>1. \A n : Header(n).kind = "header" /\ Header(n).count = n BY DEF Header
<1>2. \A s : Entry(s).kind = "entry" BY DEF Entry
<1>3. \A c \in Chunks : (\E n \in 0..MaxCount : c = Header(n)) \/ (\E s \in SequenceNums : c = Entry(s))
  BY DEF Chunks
<1>4. \A n \in 0..MaxCount : Header(n) \in Chunks BY DEF Chunks
<1>5. \A s \in SequenceNums : Entry(s) \in Chunks BY DEF Chunks
<1>6. "header" # "entry" OBVIOUS
<1> QED BY <1>1, <1>2, <1>3, <1>4, <1>5, <1>6, Zenon

\* With what is in the buffer the file is still a file, it has every accepted
\* entry, and no fewer than without it.
LEMMA Flushed ==
  ASSUME WInv
  PROVE  /\ file \o buffer \in Seq(Chunks)
         /\ file \o buffer # << >> => Head(file \o buffer).kind = "header"
         /\ file # << >> => file \o buffer # << >>
         /\ EntriesOf(file) \in Seq(Chunks) /\ accepted \in Seq(Chunks)
         /\ Len(EntriesOf(file)) <= Len(accepted)
         /\ accepted = EntriesOf(file)
              \/ \E b \in Chunks : accepted = Append(EntriesOf(file), b)
<1>0. /\ file \in Seq(Chunks) /\ buffer \in Seq(Chunks) /\ accepted \in Seq(Chunks)
      /\ EntriesOf(file) \in Seq(Chunks)
      /\ file # << >> => Head(file).kind = "header"
      /\ accepted = EntriesOf(file \o buffer)
  BY EntriesOfType DEF WInv, TypeOK, EntriesInv
<1>1. CASE buffer = << >>
  <2>1. file \o buffer = file BY <1>0, <1>1, ConcatEmptySeq
  <2> QED BY <1>0, <2>1
<1>2. CASE buffer # << >>
  <2>1. PICK b \in Chunks : buffer = <<b>> /\ file \o buffer = Append(file, b)
    <3>1. Len(buffer) = 1 /\ buffer[1] \in Chunks
      <4>1. Len(buffer) \in Nat \ {0} BY <1>0, <1>2, EmptySeq
      <4>2. Len(buffer) <= 1 BY Zenon DEF WInv, SessionInv
      <4>0. \A n \in Nat \ {0} : n <= 1 => n = 1 OBVIOUS
      <4>3. Len(buffer) = 1 BY <4>0, <4>1, <4>2, Zenon
      <4>4. 1 \in 1..Len(buffer) BY <4>3
      <4>5. buffer[1] \in Chunks BY <1>0, <4>4, ElementOfSeq
      <4> QED BY <4>3, <4>5
    <3>2. buffer = <<buffer[1]>> BY <1>0, <3>1
    <3>3. Append(file, buffer[1]) = file \o <<buffer[1]>> BY <1>0, <3>1, AppendIsConcat
    <3> QED BY <3>1, <3>2, <3>3
  <2>2. Append(file, b) \in Seq(Chunks) /\ Append(file, b) # << >>
    BY <1>0, AppendProperties
  <2>3. Head(Append(file, b)) = IF file = << >> THEN b ELSE Head(file)
    BY <1>0, HeadTailAppend
  <2>4. file = << >> => b.kind = "header"
    <3>1. SUFFICES ASSUME file = << >> PROVE b.kind = "header" OBVIOUS
    <3>2. phase = "creating"
      BY <1>2, <3>1, Zenon DEF WInv, TypeOK, SessionInv
    <3>3. b = Header(0) BY <2>1, <3>2 DEF WInv, SessionInv
    <3> QED BY <3>3 DEF Header
  <2>5. accepted = IF b.kind = "entry" THEN Append(EntriesOf(file), b) ELSE EntriesOf(file)
    BY <1>0, <2>1, EntriesOfAppend
  <2>6. Len(Append(EntriesOf(file), b)) = Len(EntriesOf(file)) + 1 BY <1>0, AppendProperties
  <2>7. Len(EntriesOf(file)) \in Nat BY <1>0, LenProperties
  <2>8. Len(EntriesOf(file)) <= Len(accepted) BY <2>5, <2>6, <2>7
  <2> QED BY <1>0, <2>1, <2>2, <2>3, <2>4, <2>5, <2>8
<1> QED BY <1>1, <1>2

\* A header behind the flushed buffer adds no entry.
LEMMA HeaderBehind ==
  ASSUME WInv, NEW n \in 0..MaxCount
  PROVE  /\ file \o buffer \o <<Header(n)>> \in Seq(Chunks)
         /\ file # << >> => Head(file \o buffer \o <<Header(n)>>).kind = "header"
         /\ file \o buffer \o <<Header(n)>> # << >>
         /\ EntriesOf(file \o buffer \o <<Header(n)>>) = accepted
<1> DEFINE f == file \o buffer
<1>1. /\ f \in Seq(Chunks) /\ (f # << >> => Head(f).kind = "header")
      /\ (file # << >> => f # << >>) /\ accepted = EntriesOf(f)
  BY Flushed DEF WInv, EntriesInv
<1> HIDE DEF f
<1>2. Header(n) \in Chunks /\ Header(n).kind = "header" BY ChunkKinds
<1>3. /\ Append(f, Header(n)) = f \o <<Header(n)>>
      /\ Append(f, Header(n)) \in Seq(Chunks) /\ Append(f, Header(n)) # << >>
      /\ Head(Append(f, Header(n))) = IF f = << >> THEN Header(n) ELSE Head(f)
  BY <1>1, <1>2, AppendIsConcat, AppendProperties, HeadTailAppend
<1>4. EntriesOf(Append(f, Header(n))) = accepted
  BY <1>1, <1>2, EntriesOfAppend
<1> QED BY <1>1, <1>2, <1>3, <1>4 DEF f

(* Type correctness ******************************************************)

LEMMA InitInv == Init => WInv
<1>1. SUFFICES ASSUME Init PROVE WInv OBVIOUS
<1>2. << >> \in Seq(Chunks) /\ << >> \in Seq(Chunks \cup {Bogus}) /\ Len(<< >>) = 0
  OBVIOUS
<1>3. 0 \in 0..MaxCount /\ 0 \in Nat /\ MaxCount \in Nat BY BoundsAssumption
<1>4. << >> \o << >> = << >> BY <1>2, ConcatEmptySeq
<1>5. TypeOK BY <1>1, <1>2, <1>3 DEF Init, TypeOK
<1>6. SessionInv BY <1>1, <1>2 DEF Init, SessionInv
<1>7. EntriesInv BY <1>1, <1>2, <1>4, EntriesOfEmpty DEF Init, EntriesInv
<1> QED BY <1>5, <1>6, <1>7 DEF WInv

LEMMA CreateInv == WInv /\ Create => WInv'
<1>1. SUFFICES ASSUME WInv, Create PROVE WInv' OBVIOUS
<1>2. Header(0) \in Chunks /\ Header(0).kind = "header"
  BY ChunkKinds, BoundsAssumption
<1>3. file = << >> /\ buffer = << >> /\ failed = FALSE
  BY <1>1 DEF Create, WInv, SessionInv
<1>4. <<Header(0)>> \in Seq(Chunks) /\ Len(<<Header(0)>>) = 1
      /\ Append(<< >>, Header(0)) = <<Header(0)>>
      /\ << >> \o <<Header(0)>> = <<Header(0)>> /\ << >> \in Seq(Chunks)
  BY <1>2
<1>5. TypeOK'
  <2>1. 0 \in 0..MaxCount BY BoundsAssumption
  <2> QED BY <1>1, <1>4, <2>1 DEF WInv, TypeOK, Create
<1>6. SessionInv'
  <2>1. 1 <= 1 OBVIOUS
  <2> QED BY <1>1, <1>3, <1>4, <2>1, Zenon DEF Create, SessionInv
<1>7. EntriesOf(<<Header(0)>>) = << >>
  BY <1>2, <1>4, EntriesOfAppend, EntriesOfEmpty
<1>8. EntriesInv'
  <2>1. file' \o buffer' = <<Header(0)>> BY <1>1, <1>3, <1>4 DEF Create
  <2>2. accepted = << >>
    <3>1. << >> \o << >> = << >> OBVIOUS
    <3> QED BY <1>1, <1>3, <3>1, EntriesOfEmpty DEF WInv, EntriesInv
  <2> QED BY <1>1, <1>7, <2>1, <2>2 DEF WInv, EntriesInv, Create
<1> QED BY <1>5, <1>6, <1>8 DEF WInv

LEMMA FlushHeaderInv == WInv /\ FlushHeader => WInv'
<1>1. SUFFICES ASSUME WInv, FlushHeader PROVE WInv' OBVIOUS
<1> DEFINE f == file \o buffer
<1>2. /\ f \in Seq(Chunks) /\ (f # << >> => Head(f).kind = "header")
      /\ Len(EntriesOf(file)) <= Len(accepted) /\ accepted = EntriesOf(f)
      /\ accepted \in Seq(Chunks) /\ EntriesOf(file) \in Seq(Chunks)
      /\ synced <= Len(EntriesOf(file)) /\ synced \in Nat
  BY <1>1, Flushed DEF WInv, EntriesInv, TypeOK
<1>3. f # << >>
  <2>1. file = << >> /\ buffer = <<Header(0)>>
    BY <1>1 DEF FlushHeader, WInv, SessionInv
  <2> QED BY <2>1
<1>4. file' = f BY <1>1 DEF FlushHeader
<1> HIDE DEF f
<1>5. << >> \in Seq(Chunks) /\ Len(<< >>) = 0 OBVIOUS
<1>6. TypeOK' BY <1>1, <1>2, <1>4, <1>5 DEF WInv, TypeOK, FlushHeader
<1>7. SessionInv'
  <2>1. exists = TRUE /\ failed = FALSE
    BY <1>1 DEF FlushHeader, WInv, SessionInv
  <2>2. phase' = "open" /\ buffer' = << >> /\ failed' = FALSE /\ exists' = TRUE
    BY <1>1, <2>1 DEF FlushHeader
  <2>3. 0 <= 1 /\ \A i \in 1..0 : FALSE OBVIOUS
  <2> QED BY <1>3, <1>4, <1>5, <2>2, <2>3 DEF SessionInv
<1>8. EntriesInv'
  <2>1. file' \o buffer' = f
    BY <1>1, <1>2, <1>4, ConcatEmptySeq DEF FlushHeader
  <2>2. synced <= Len(accepted) BY <1>2, LenProperties
  <2> QED BY <1>1, <1>2, <1>4, <2>1, <2>2 DEF EntriesInv, FlushHeader
<1> QED BY <1>6, <1>7, <1>8 DEF WInv

LEMMA OpenInv == WInv /\ Open => WInv'
<1>1. SUFFICES ASSUME WInv, Open PROVE WInv' OBVIOUS
<1>2. buffer = << >> /\ exists = TRUE BY <1>1 DEF Open, WInv, SessionInv
<1>3. entry_count' \in 0..MaxCount
  <2>1. CASE file = << >> BY <1>1, <2>1, BoundsAssumption DEF Open
  <2>2. CASE file # << >>
    <3>1. Head(file) \in Chunks /\ Head(file).kind = "header"
      BY <1>1, <2>2, HeadTailProperties DEF WInv, TypeOK
    <3>2. Head(file).count \in 0..MaxCount BY <3>1, ChunkKinds
    <3> QED BY <1>1, <2>2, <3>2 DEF Open
  <2> QED BY <2>1, <2>2
<1>4. failed' \in BOOLEAN BY <1>1 DEF Open
<1>5. TypeOK' BY <1>1, <1>3, <1>4 DEF WInv, TypeOK, Open
<1>6. SessionInv'
  <2>1. /\ phase' = "open" /\ buffer' = << >> /\ exists' = TRUE /\ file' = file
        /\ failed' = (file = << >>)
    BY <1>1, <1>2 DEF Open
  <2>2. Len(<< >>) = 0 /\ 0 <= 1 /\ \A i \in 1..0 : FALSE OBVIOUS
  <2> QED BY <2>1, <2>2 DEF SessionInv
<1>7. EntriesInv' BY <1>1 DEF WInv, EntriesInv, Open
<1> QED BY <1>5, <1>6, <1>7 DEF WInv

LEMMA AppendEntryInv ==
  ASSUME WInv, NEW seq \in SequenceNums, AppendEntry(seq)
  PROVE  WInv'
<1>1. entry_count' \in 0..MaxCount
  BY BoundsAssumption DEF AppendEntry, WInv, TypeOK
<1>2. CASE failed = TRUE
  <2>1. /\ UNCHANGED <<exists, file, buffer, phase, failed, accepted, synced, read>>
    BY <1>2 DEF AppendEntry
  <2>2. TypeOK' BY <1>1, <2>1 DEF WInv, TypeOK
  <2>3. SessionInv' BY <2>1 DEF WInv, SessionInv
  <2>4. EntriesInv' BY <2>1 DEF WInv, EntriesInv
  <2> QED BY <2>2, <2>3, <2>4 DEF WInv
<1>3. CASE failed # TRUE
  <2> DEFINE f == file \o buffer
  <2>0. /\ file' = f /\ buffer' = <<Entry(seq)>> /\ accepted' = Append(accepted, Entry(seq))
        /\ UNCHANGED <<exists, phase, failed, synced, read>>
        /\ phase = "open" /\ failed = FALSE
    BY <1>3 DEF AppendEntry, WInv, TypeOK
  <2>1. /\ f \in Seq(Chunks) /\ (f # << >> => Head(f).kind = "header")
        /\ (file # << >> => f # << >>)
        /\ Len(EntriesOf(file)) <= Len(accepted) /\ accepted = EntriesOf(f)
        /\ accepted \in Seq(Chunks) /\ EntriesOf(file) \in Seq(Chunks)
        /\ synced <= Len(EntriesOf(file)) /\ synced \in Nat
    BY Flushed DEF WInv, EntriesInv, TypeOK
  <2> HIDE DEF f
  <2>2. Entry(seq) \in Chunks /\ Entry(seq).kind = "entry" BY ChunkKinds
  <2>3. /\ <<Entry(seq)>> \in Seq(Chunks) /\ Len(<<Entry(seq)>>) = 1
        /\ \A i \in 1..1 : <<Entry(seq)>>[i] = Entry(seq)
        /\ Append(accepted, Entry(seq)) \in Seq(Chunks)
        /\ f \o <<Entry(seq)>> = Append(f, Entry(seq))
    BY <2>1, <2>2, AppendIsConcat, AppendProperties
  <2>4. TypeOK' BY <1>1, <2>0, <2>1, <2>3 DEF WInv, TypeOK
  <2>5. SessionInv'
    <3>1. file # << >> /\ exists = TRUE BY <2>0 DEF WInv, SessionInv
    <3>2. \A i \in 1..Len(<<Entry(seq)>>) : <<Entry(seq)>>[i].kind = "entry"
      BY <2>2, <2>3
    <3>3. "open" # "closed" /\ "open" # "creating" /\ 1 <= 1 /\ FALSE # TRUE OBVIOUS
    <3> QED BY <2>0, <2>1, <2>3, <3>1, <3>2, <3>3, Zenon DEF SessionInv
  <2>6. EntriesInv'
    <3>1. EntriesOf(file' \o buffer') = accepted'
      BY <2>0, <2>1, <2>2, <2>3, EntriesOfAppend
    <3>2. synced <= Len(accepted) BY <2>1, LenProperties
    <3> QED BY <2>0, <2>1, <3>1, <3>2 DEF EntriesInv
  <2> QED BY <2>4, <2>5, <2>6 DEF WInv
<1> QED BY <1>2, <1>3

\* A header written out, as sync does, and whatever becomes of the session.
LEMMA HeaderWritten ==
  ASSUME WInv, phase = "open", failed = FALSE,
         file' = file \o buffer \o <<Header(entry_count)>>, buffer' = << >>,
         synced' = Len(accepted), phase' \in {"open", "closed"}, failed' = FALSE,
         UNCHANGED <<exists, entry_count, accepted, read>>
  PROVE  WInv'
<1>1. entry_count \in 0..MaxCount BY DEF WInv, TypeOK
<1> DEFINE f == file \o buffer \o <<Header(entry_count)>>
<1>2. /\ f \in Seq(Chunks) /\ f # << >> /\ EntriesOf(f) = accepted
      /\ accepted \in Seq(Chunks)
  BY <1>1, HeaderBehind, Flushed
<1>3. Head(f).kind = "header"
  <2>1. file # << >> BY DEF WInv, SessionInv
  <2> QED BY <1>1, <2>1, HeaderBehind
<1>4. file' = f OBVIOUS
<1> HIDE DEF f
<1>5. << >> \in Seq(Chunks) /\ Len(<< >>) = 0 /\ 0 <= 1 /\ \A i \in 1..0 : FALSE OBVIOUS
<1>6. Len(accepted) \in Nat BY <1>2, LenProperties
<1>7. TypeOK'
  <2>1. phase' \in {"closed", "creating", "open"} OBVIOUS
  <2> QED BY <1>2, <1>3, <1>4, <1>5, <1>6, <2>1 DEF WInv, TypeOK
<1>8. SessionInv'
  <2>1. exists = TRUE BY DEF WInv, SessionInv
  <2>2. phase' # "creating" OBVIOUS
  <2> QED BY <1>2, <1>4, <1>5, <2>1, <2>2 DEF SessionInv
<1>9. EntriesInv'
  <2>1. f \o << >> = f BY <1>2, ConcatEmptySeq
  <2>2. Len(accepted) <= Len(accepted) BY <1>6
  <2> QED BY <1>2, <1>4, <2>1, <2>2 DEF EntriesInv
<1> QED BY <1>7, <1>8, <1>9 DEF WInv

LEMMA SyncInv == WInv /\ Sync => WInv'
BY HeaderWritten DEF Sync, WInv, TypeOK

LEMMA CloseInv == WInv /\ Close => WInv'
<1>1. SUFFICES ASSUME WInv, Close PROVE WInv' OBVIOUS
<1>2. CASE failed = TRUE
  <2>1. /\ UNCHANGED <<exists, file, buffer, entry_count, accepted, synced, read>>
        /\ phase' = "closed" /\ failed' = FALSE
    BY <1>1, <1>2 DEF Close
  <2>2. buffer = << >> BY <1>1, <1>2 DEF WInv, SessionInv
  <2>3. TypeOK' BY <1>1, <2>1 DEF WInv, TypeOK
  <2>4. SessionInv' BY <1>1, <2>1, <2>2 DEF WInv, SessionInv
  <2>5. EntriesInv' BY <1>1, <2>1 DEF WInv, EntriesInv
  <2> QED BY <2>3, <2>4, <2>5 DEF WInv
<1>3. CASE failed # TRUE
  <2>1. failed = FALSE BY <1>1, <1>3 DEF WInv, TypeOK
  <2> QED BY <1>1, <2>1, HeaderWritten DEF Close
<1> QED BY <1>2, <1>3

(* Reading back **********************************************************)

\* Where InnerHeader stands: behind the first chunk, at a header or behind
\* the last chunk, and behind no other header than the first.
LEMMA InnerHeaderProperties ==
  ASSUME NEW S, NEW f \in Seq(S), f # << >>
  PROVE  /\ InnerHeader(f) \in 2..(Len(f) + 1)
         /\ \A i \in 2..(InnerHeader(f) - 1) : f[i].kind # "header"
<1> DEFINE Inner == {i \in 2..Len(f) : f[i].kind = "header"} \cup {Len(f) + 1}
<1>1. Len(f) \in Nat \ {0} BY EmptySeq
<1>2. Inner \subseteq Nat /\ Inner # {} /\ Inner \subseteq 2..(Len(f) + 1) BY <1>1
<1>3. \A i \in 2..Len(f) : f[i].kind = "header" => i \in Inner OBVIOUS
<1>4. InnerHeader(f) = Min(Inner) BY DEF InnerHeader
<1> HIDE DEF Inner
<1>5. \E k \in Inner : \A j \in Inner : k <= j BY <1>2, Lemmas!SmallestElement
<1>6. Min(Inner) \in Inner /\ \A j \in Inner : Min(Inner) <= j BY <1>5, Zenon DEF Min
<1> DEFINE k == InnerHeader(f)
<1>7. k \in 2..(Len(f) + 1) /\ \A j \in Inner : k <= j BY <1>2, <1>4, <1>6
<1> HIDE DEF k
<1>8. ASSUME NEW i \in 2..(k - 1) PROVE f[i].kind # "header"
  <2>1. i \in 2..Len(f) /\ ~ (k <= i) BY <1>1, <1>7
  <2> QED BY <1>3, <1>7, <2>1
<1> QED BY <1>7, <1>8 DEF k

LEMMA ParsesType ==
  ASSUME NEW f \in Seq(Chunks), f # << >>, NEW r \in Parses(f)
  PROVE  r \in Seq(Chunks \cup {Bogus})
<1> DEFINE k == InnerHeader(f)
           entries == SubSeq(f, 2, k - 1)
<1>1. k \in 2..(Len(f) + 1) BY InnerHeaderProperties
<1>2. Len(f) \in Nat BY LenProperties
<1>3. r = entries \/ r = Append(entries, Bogus) BY DEF Parses
<1> HIDE DEF k
<1>4. entries \in Seq(Chunks \cup {Bogus})
  <2>1. \A i \in 2..(k - 1) : i \in 1..Len(f) BY <1>1, <1>2
  <2>2. \A i \in 2..(k - 1) : f[i] \in Chunks BY <2>1, ElementOfSeq
  <2>3. 2 \in Int /\ k - 1 \in Int BY <1>1
  <2>4. entries \in Seq(Chunks) BY <2>2, <2>3, SubSeqProperties
  <2> HIDE DEF entries
  <2> QED BY <2>4, SeqMonotonic
<1> HIDE DEF entries
<1>5. Append(entries, Bogus) \in Seq(Chunks \cup {Bogus}) BY <1>4, AppendProperties
<1> QED BY <1>3, <1>4, <1>5

LEMMA ReadAllInv == WInv /\ ReadAll => WInv'
<1>1. SUFFICES ASSUME WInv, ReadAll PROVE WInv' OBVIOUS
<1>0. << >> \in Seq(Chunks \cup {Bogus}) /\ << >> \in Seq(Chunks)
      /\ Len(<< >>) = 0 /\ 0 <= 1 /\ \A i \in 1..0 : FALSE
  OBVIOUS
<1>2. CASE failed = TRUE
  <2>1. /\ read' = << >> /\ failed' = TRUE
        /\ UNCHANGED <<exists, file, buffer, phase, entry_count, accepted, synced>>
    BY <1>1, <1>2 DEF ReadAll
  <2>2. TypeOK' BY <1>0, <1>1, <2>1 DEF WInv, TypeOK
  <2>3. SessionInv' BY <1>1, <1>2, <2>1 DEF WInv, SessionInv
  <2>4. EntriesInv' BY <1>1, <2>1 DEF WInv, EntriesInv
  <2> QED BY <2>2, <2>3, <2>4 DEF WInv
<1>3. CASE failed # TRUE
  <2> DEFINE f == file \o buffer
  <2>0. /\ file' = f /\ buffer' = << >> /\ read' \in Parses(file') /\ failed' = TRUE
        /\ UNCHANGED <<exists, phase, entry_count, accepted, synced>>
        /\ phase = "open" /\ failed = FALSE
    BY <1>1, <1>3 DEF ReadAll, WInv, TypeOK
  <2>1. /\ f \in Seq(Chunks) /\ (f # << >> => Head(f).kind = "header")
        /\ (file # << >> => f # << >>)
        /\ Len(EntriesOf(file)) <= Len(accepted) /\ accepted = EntriesOf(f)
        /\ accepted \in Seq(Chunks) /\ EntriesOf(file) \in Seq(Chunks)
        /\ synced <= Len(EntriesOf(file)) /\ synced \in Nat
    BY <1>1, Flushed DEF WInv, EntriesInv, TypeOK
  <2> HIDE DEF f
  <2>2. file # << >> /\ exists = TRUE BY <1>1, <2>0 DEF WInv, SessionInv
  <2>3. read' \in Seq(Chunks \cup {Bogus}) BY <2>0, <2>1, <2>2, ParsesType
  <2>4. TypeOK' BY <1>0, <1>1, <2>0, <2>1, <2>3 DEF WInv, TypeOK
  <2>5. SessionInv' BY <1>0, <2>0, <2>2 DEF SessionInv
  <2>6. EntriesInv'
    <3>1. file' \o buffer' = f BY <2>0, <2>1, ConcatEmptySeq
    <3>2. synced <= Len(accepted) BY <2>1, LenProperties
    <3> QED BY <2>0, <2>1, <3>1, <3>2 DEF EntriesInv
  <2> QED BY <2>4, <2>5, <2>6 DEF WInv
<1> QED BY <1>2, <1>3

LEMMA CrashInv == WInv /\ Crash => WInv'
<1>1. SUFFICES ASSUME WInv, Crash PROVE WInv' OBVIOUS
<1>2. /\ phase' = "closed" /\ buffer' = << >> /\ failed' = FALSE
      /\ accepted' = EntriesOf(file)
      /\ UNCHANGED <<exists, file, entry_count, synced, read>>
  BY <1>1 DEF Crash
<1>3. EntriesOf(file) \in Seq(Chunks) /\ file \in Seq(Chunks)
  BY <1>1, Flushed DEF WInv, TypeOK
<1>4. << >> \in Seq(Chunks) /\ Len(<< >>) = 0 /\ 0 <= 1 OBVIOUS
<1>5. TypeOK' BY <1>1, <1>2, <1>3, <1>4 DEF WInv, TypeOK
<1>6. SessionInv'
  <2>1. exists = TRUE \/ file = << >> BY <1>1 DEF WInv, SessionInv
  <2> QED BY <1>2, <1>4, <2>1 DEF SessionInv
<1>7. EntriesInv'
  <2>1. file \o << >> = file BY <1>3, ConcatEmptySeq
  <2> QED BY <1>1, <1>2, <2>1 DEF WInv, EntriesInv
<1> QED BY <1>5, <1>6, <1>7 DEF WInv

LEMMA NextInv == WInv /\ [Next]_vars => WInv'
<1>1. SUFFICES ASSUME WInv, [Next]_vars PROVE WInv' OBVIOUS
<1>2. CASE Create BY <1>1, <1>2, CreateInv
<1>3. CASE FlushHeader BY <1>1, <1>3, FlushHeaderInv
<1>4. CASE Open BY <1>1, <1>4, OpenInv
<1>5. CASE \E seq \in SequenceNums : AppendEntry(seq) BY <1>1, <1>5, AppendEntryInv
<1>6. CASE Sync BY <1>1, <1>6, SyncInv
<1>7. CASE Close BY <1>1, <1>7, CloseInv
<1>8. CASE ReadAll BY <1>1, <1>8, ReadAllInv
<1>9. CASE Crash BY <1>1, <1>9, CrashInv
<1>10. CASE UNCHANGED vars
  <2>1. TypeOK' BY <1>1, <1>10 DEF WInv, TypeOK, vars
  <2>2. SessionInv' BY <1>1, <1>10 DEF WInv, SessionInv, vars
  <2>3. EntriesInv' BY <1>1, <1>10 DEF WInv, EntriesInv, vars
  <2> QED BY <2>1, <2>2, <2>3 DEF WInv
<1> QED BY <1>1, <1>2, <1>3, <1>4, <1>5, <1>6, <1>7, <1>8, <1>9, <1>10 DEF Next

LEMMA SpecInv == Spec => []WInv
BY InitInv, NextInv, PTL DEF Spec

(* What the invariant gives **********************************************)

\* Every variable of the log keeps its type, and a file that is not empty
\* starts with a header, whatever calls and crashes it goes through.
THEOREM LogTypes == Spec => []TypeOK
<1>1. WInv => TypeOK BY DEF WInv
<1> QED BY <1>1, SpecInv, PTL

LEMMA InvAccepted == WInv => AcceptedInFile
<1>1. SUFFICES ASSUME WInv PROVE AcceptedInFile OBVIOUS
<1> DEFINE e == EntriesOf(file)
<1>2. e \in Seq(Chunks) /\ accepted \in Seq(Chunks) BY <1>1, Flushed
<1>3. accepted = e \/ \E b \in Chunks : accepted = Append(e, b) BY <1>1, Flushed
<1> HIDE DEF e
<1>4. Len(e) \in Nat /\ SubSeq(e, 1, Len(e)) = e BY <1>2, LenProperties, SubSeqFull
<1>5. CASE accepted = e
  <2>1. Len(e) <= Len(e) /\ Len(e) <= Len(e) + 1 BY <1>4
  <2> QED BY <1>4, <1>5, <2>1 DEF AcceptedInFile, IsPrefix, e
<1>6. CASE \E b \in Chunks : accepted = Append(e, b)
  <2>1. PICK b \in Chunks : accepted = Append(e, b) BY <1>6
  <2>2. Len(accepted) = Len(e) + 1 /\ \A i \in 1..Len(e) : accepted[i] = e[i]
    BY <1>2, <2>1, AppendProperties
  <2>3. SubSeq(accepted, 1, Len(e)) = e
    <3> DEFINE sub == SubSeq(accepted, 1, Len(e))
    <3>1. \A i \in 1..Len(e) : accepted[i] \in Chunks
      BY <1>2, <2>2, ElementOfSeq
    <3>2. 1 \in Int /\ Len(e) \in Int BY <1>4
    <3>3. /\ sub \in Seq(Chunks)
          /\ Len(sub) = IF 1 <= Len(e) THEN Len(e) - 1 + 1 ELSE 0
          /\ \A i \in 1..(Len(e) - 1 + 1) : sub[i] = accepted[1 + i - 1]
      BY <3>1, <3>2, SubSeqProperties
    <3> HIDE DEF sub
    <3>4. Len(sub) = Len(e) BY <1>4, <3>3
    <3>5. \A i \in 1..Len(sub) : sub[i] = e[i]
      <4> TAKE i \in 1..Len(sub)
      <4>1. i \in 1..Len(e) /\ i \in 1..(Len(e) - 1 + 1) /\ 1 + i - 1 = i BY <1>4, <3>4
      <4>2. sub[i] = accepted[i] BY <3>3, <4>1
      <4> QED BY <2>2, <4>1, <4>2
    <3>6. sub = e BY <1>2, <3>3, <3>4, <3>5, SeqEqual
    <3> QED BY <3>6 DEF sub
  <2>4. Len(e) <= Len(e) + 1 /\ Len(e) + 1 <= Len(e) + 1 BY <1>4
  <2> QED BY <1>4, <2>2, <2>3, <2>4 DEF AcceptedInFile, IsPrefix, e
<1> QED BY <1>3, <1>5, <1>6

\* The file holds every accepted entry, in order, or all but the last: an
\* append writes out the one before it (the seek in WriteAheadLog::append).
THEOREM AcceptedEntriesAreInFile == Spec => []AcceptedInFile
BY InvAccepted, SpecInv, PTL

\* A crash takes none of the entries that were accepted before a sync that
\* returned true.
THEOREM SyncedEntriesSurvive == Spec => []SyncedSurvives
<1>1. WInv => SyncedSurvives BY DEF WInv, EntriesInv, SyncedSurvives
<1> QED BY <1>1, SpecInv, PTL

\* Up to the first inner header, the entries are all that is behind the first.
LEMMA EntriesInFront ==
  ASSUME NEW f \in Seq(Chunks), f # << >>, Head(f).kind = "header",
         NEW n \in 1..(InnerHeader(f) - 1)
  PROVE  UpTo(f)[n] = SubSeq(f, 2, n)
<1> DEFINE k == InnerHeader(f)
           u == UpTo(f)
           T == {i \in 0..(k - 2) : u[i + 1] = SubSeq(f, 2, i + 1)}
<1>1. k \in 2..(Len(f) + 1) /\ \A i \in 2..(k - 1) : f[i].kind # "header"
  BY InnerHeaderProperties
<1>2. \A i \in 0..Len(f) : u[i] = UpToStep(f, u, i) BY UpToUnfold
<1>3. Len(f) \in Nat \ {0} BY EmptySeq
<1>4. f[1].kind = "header" BY HeadTailProperties
<1>5. n \in 1..(k - 1) OBVIOUS
<1> HIDE DEF k, u
<1>6. 0 \in T
  <2>1. 0 \in 0..Len(f) /\ 1 \in 0..Len(f) /\ 1 - 1 = 0 /\ 0 + 1 = 1 /\ 0 \in 0..(k - 2)
    BY <1>1, <1>3
  <2>2. u[0] = << >> BY <1>2, <2>1 DEF UpToStep
  <2>3. "header" # "entry" /\ 1 # 0 OBVIOUS
  <2>4. u[1] = u[0] BY <1>2, <1>4, <2>1, <2>3, Zenon DEF UpToStep
  <2>5. SubSeq(f, 2, 1) = << >> BY SubSeqEmpty
  <2> QED BY <2>1, <2>2, <2>4, <2>5
<1>7. ASSUME NEW i \in 0..(k - 2 - 1), i \in T PROVE i + 1 \in T
  <2>1. /\ i + 2 \in 2..(k - 1) /\ i + 2 \in 2..Len(f) /\ i + 2 \in 1..Len(f)
        /\ (i + 2) - 1 = i + 1 /\ (i + 1) + 1 = i + 2
        /\ i + 2 # 0 /\ i + 2 \in 0..Len(f) /\ 2 \in 1..Len(f) /\ i + 1 \in 0..(k - 2)
        /\ i + 1 \in 0..Len(f)
    BY <1>1, <1>3
  <2>2. f[i + 2] \in Chunks BY <2>1, ElementOfSeq
  <2>3. f[i + 2].kind = "entry" BY <1>1, <2>1, <2>2, ChunkKinds
  <2>4. u[i + 2] = Append(u[i + 1], f[i + 2])
    BY <1>2, <2>1, <2>3, Zenon DEF UpToStep
  <2>5. u[i + 1] = SubSeq(f, 2, i + 1) BY <1>7, Zenon
  <2>6. SubSeq(f, 2, i + 2) = SubSeq(f, 2, i + 1) \o <<f[i + 2]>>
    BY <2>1, SubSeqRecursiveSecond
  <2>7. u[i + 1] \in Seq(Chunks) BY <2>1, UpToType DEF u
  <2>8. Append(u[i + 1], f[i + 2]) = u[i + 1] \o <<f[i + 2]>>
    BY <2>2, <2>7, AppendIsConcat
  <2>9. u[i + 2] = SubSeq(f, 2, i + 2) BY <2>4, <2>5, <2>6, <2>8
  <2> QED BY <2>1, <2>9, Zenon
<1> HIDE DEF T
<1>8. k - 2 \in Nat BY <1>1
<1>9. \A i \in 0..(k - 2) : i \in T BY <1>6, <1>7, <1>8, Lemmas!UpToInduction
<1>10. n - 1 \in 0..(k - 2) /\ (n - 1) + 1 = n BY <1>1, <1>5
<1>11. n - 1 \in T BY <1>9, <1>10
<1> QED BY <1>10, <1>11 DEF T, u

\* Entries are only ever added, and if none is, there is none.
LEMMA NoEntryBehind ==
  ASSUME NEW S, NEW f \in Seq(S), NEW j \in 0..Len(f)
  PROVE  /\ Len(UpTo(f)[j]) <= Len(EntriesOf(f))
         /\ Len(UpTo(f)[j]) = Len(EntriesOf(f)) =>
              /\ EntriesOf(f) = UpTo(f)[j]
              /\ \A m \in (j + 1)..Len(f) : f[m].kind # "entry"
<1> DEFINE u == UpTo(f)
           More(n) == /\ Len(u[j]) <= Len(u[n])
                      /\ Len(u[j]) = Len(u[n]) =>
                           /\ u[n] = u[j]
                           /\ \A m \in (j + 1)..n : f[m].kind # "entry"
           T == {i \in 0..(Len(f) - j) : More(j + i)}
<1>1. \A i \in 0..Len(f) : u[i] = UpToStep(f, u, i) BY UpToUnfold
<1>2. \A i \in 0..Len(f) : u[i] \in Seq(S) BY UpToType
<1>3. \A i \in 0..Len(f) : Len(u[i]) \in Nat BY <1>2, LenProperties
<1>4. Len(f) \in Nat /\ Len(f) - j \in Nat BY LenProperties
<1> HIDE DEF u
<1>5. 0 \in T
  <2>1. j + 0 = j /\ 0 \in 0..(Len(f) - j) BY <1>4
  <2>2. Len(u[j]) <= Len(u[j]) BY <1>3
  <2>3. \A m \in (j + 1)..j : FALSE BY <1>4
  <2>4. More(j) BY <2>2, <2>3
  <2> HIDE DEF More
  <2> QED BY <2>1, <2>4
<1>6. ASSUME NEW i \in 0..(Len(f) - j - 1), i \in T PROVE i + 1 \in T
  <2> DEFINE n == j + i
  <2>1. /\ n \in 0..Len(f) /\ n + 1 \in 0..Len(f) /\ (n + 1) - 1 = n /\ n + 1 # 0
        /\ n + 1 \in 1..Len(f) /\ i + 1 \in 0..(Len(f) - j) /\ j + (i + 1) = n + 1
        /\ \A m \in (j + 1)..(n + 1) : m \in (j + 1)..n \/ m = n + 1
    BY <1>4
  <2>2. More(n) BY <1>6
  <2>3. Len(u[n]) \in Nat /\ Len(u[j]) \in Nat /\ u[n] \in Seq(S) BY <1>2, <1>3, <2>1
  <2>4. f[n + 1] \in S BY <2>1, ElementOfSeq
  <2> HIDE DEF n
  <2>5. CASE f[n + 1].kind = "entry"
    <3>1. u[n + 1] = Append(u[n], f[n + 1]) BY <1>1, <2>1, <2>5 DEF UpToStep
    <3>2. Len(u[n + 1]) = Len(u[n]) + 1 BY <2>3, <2>4, <3>1, AppendProperties
    <3>3. Len(u[j]) <= Len(u[n + 1]) /\ Len(u[j]) # Len(u[n + 1])
      BY <2>2, <2>3, <3>2
    <3>4. More(n + 1) BY <3>3
    <3> HIDE DEF More
    <3> QED BY <2>1, <3>4
  <2>6. CASE f[n + 1].kind # "entry"
    <3>1. u[n + 1] = u[n] BY <1>1, <2>1, <2>6 DEF UpToStep
    <3>2. More(n + 1) BY <2>1, <2>2, <2>6, <3>1
    <3> HIDE DEF More
    <3> QED BY <2>1, <3>2
  <2> QED BY <2>5, <2>6
<1> HIDE DEF T
<1>7. \A i \in 0..(Len(f) - j) : i \in T BY <1>4, <1>5, <1>6, Lemmas!UpToInduction
<1>8. Len(f) - j \in 0..(Len(f) - j) /\ j + (Len(f) - j) = Len(f) BY <1>4
<1>9. Len(f) - j \in T BY <1>7, <1>8
<1>10. More(Len(f)) BY <1>8, <1>9 DEF T
<1> QED BY <1>10, EntriesOfIsUpTo DEF u

\* A file in which as many entries as it has stand in front of the first inner
\* header is read as those entries, in the only way there is.
LEMMA CleanFileParses ==
  ASSUME NEW f \in Seq(Chunks), f # << >>, Head(f).kind = "header",
         InnerHeader(f) > Len(EntriesOf(f)) + 1
  PROVE  Parses(f) = {EntriesOf(f)}
<1> DEFINE k == InnerHeader(f)
           e == EntriesOf(f)
           front == SubSeq(f, 2, k - 1)
<1>1. k \in 2..(Len(f) + 1) BY InnerHeaderProperties
<1>2. Len(f) \in Nat \ {0} /\ Len(e) \in Nat BY EmptySeq, EntriesOfType, LenProperties
<1>3. k - 1 \in 1..(k - 1) /\ k - 1 \in 0..Len(f) /\ (k - 1) + 1 = k /\ 2 \in Int /\ k - 1 \in Int
  BY <1>1, <1>2
<1>4. UpTo(f)[k - 1] = front BY <1>3, EntriesInFront
<1>5. Len(front) = k - 2
  <2>1. \A i \in 2..(k - 1) : i \in 1..Len(f) BY <1>1, <1>2
  <2>2. \A i \in 2..(k - 1) : f[i] \in Chunks BY <2>1, ElementOfSeq
  <2>3. Len(front) = IF 2 <= k - 1 THEN k - 1 - 2 + 1 ELSE 0
    BY <1>3, <2>2, SubSeqProperties
  <2> HIDE DEF k, front
  <2> QED BY <1>1, <1>2, <2>3
<1>6. /\ Len(front) <= Len(e)
      /\ Len(front) = Len(e) => e = front /\ \A m \in k..Len(f) : f[m].kind # "entry"
  BY <1>3, <1>4, NoEntryBehind
<1>7. k > Len(e) + 1 OBVIOUS
<1> HIDE DEF k, e, front
<1>8. Len(front) = Len(e) BY <1>1, <1>2, <1>5, <1>6, <1>7
<1>9. ~ (k < Len(f) /\ f[k + 1].kind = "entry")
  <2>1. k < Len(f) => k + 1 \in k..Len(f) BY <1>1, <1>2
  <2> QED BY <1>6, <1>8, <2>1
<1>10. Parses(f) = {front} BY <1>9 DEF Parses, k, front
<1> QED BY <1>6, <1>8, <1>10 DEF e

\* A log to which nothing was appended after a sync or a close reads back as
\* all the entries that append accepted, after any sessions and crashes: the
\* headers that sync and close leave at its end do no harm to read_all.
THEOREM CleanLogIsReadBack == Spec => CleanLogReadsBack
<1>1. ASSUME WInv, ReadAll, failed = FALSE,
             InnerHeader(file') > Len(EntriesOf(file')) + 1
      PROVE  read' = accepted
  <2>1. read' \in Parses(file') /\ file' = file \o buffer /\ phase = "open"
    BY <1>1 DEF ReadAll
  <2>2. file # << >> BY <1>1, <2>1 DEF WInv, SessionInv
  <2>3. /\ file' \in Seq(Chunks) /\ file' # << >> /\ Head(file').kind = "header"
        /\ accepted = EntriesOf(file')
    BY <1>1, <2>1, <2>2, Flushed DEF WInv, EntriesInv
  <2>4. Parses(file') = {EntriesOf(file')} BY <1>1, <2>3, CleanFileParses
  <2> QED BY <2>1, <2>3, <2>4
<1>2. WInv => failed \in BOOLEAN BY DEF WInv, TypeOK
<1>3. WInv /\ [Next]_vars
        => [ReadAll /\ ~failed /\ InnerHeader(file') > Len(EntriesOf(file')) + 1
              => read' = accepted]_vars
  BY <1>1, <1>2
<1> QED BY <1>3, SpecInv, PTL DEF Spec, CleanLogReadsBack
==================================================================================
