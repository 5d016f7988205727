----------------------------------- MODULE WAL -----------------------------------
(***************************************************************************)
(* The write-ahead log of src/persistence/wal.cpp: one file behind a       *)
(* std::fstream that is opened with ios::app, so that every write goes to  *)
(* the end of the file, wherever seekp() put the position.                 *)
(*                                                                         *)
(* A file is a sequence of chunks: a header (16 bytes: magic, version,     *)
(* entry_count) or an entry (a 21-byte entry header and its payload).      *)
(* What is written stays in the buffer of the stream until a seek or a     *)
(* flush; entries are taken to be smaller than that buffer.  A crash is    *)
(* one of the process: what was flushed survives it.                       *)
(*                                                                         *)
(* X_yyy is a wrong variant of X, as in BookOps.                           *)
(***************************************************************************)
EXTENDS Integers, SequencesExt, FiniteSetsExt

CONSTANTS SequenceNums,   \* numbers that callers give to their entries
          MaxChunks,      \* bound: chunks written to the file
          MaxCount        \* bound: entry_count of one WAL object

ASSUME BoundsAssumption == MaxChunks \in Nat /\ MaxCount \in Nat

VARIABLES
    exists, file,     \* the file, as the operating system has it
    buffer,           \* chunks in the buffer of the stream
    phase,            \* of the WAL object: "closed", "creating" or "open"
    failed,           \* failbit: the stream refuses reads, writes and seeks
    entry_count,      \* header_.entry_count
    accepted,         \* history: entries whose append returned true, but for those a crash took
    synced,           \* history: how many of them there were when sync last returned true
    read              \* history: what the last read_all returned

vars == <<exists, file, buffer, phase, failed, entry_count, accepted, synced, read>>

Header(count) == [kind |-> "header", count |-> count]
Entry(seq)    == [kind |-> "entry", seq |-> seq]
Bogus         == [kind |-> "bogus"]

\* The entries among some chunks: upTo[i] are those among the first i.
EntriesOf(chunks) ==
    LET upTo[i \in 0..Len(chunks)] ==
            IF i = 0 THEN << >>
            ELSE IF chunks[i].kind = "entry" THEN Append(upTo[i - 1], chunks[i])
            ELSE upTo[i - 1]
    IN  upTo[Len(chunks)]
Written == Len(file) + Len(buffer)

Init ==
    /\ exists = FALSE /\ file = << >> /\ buffer = << >>
    /\ phase = "closed" /\ failed = FALSE /\ entry_count = 0
    /\ accepted = << >> /\ synced = 0
    /\ read = << >>

Create_noHeader ==
    /\ phase = "closed" /\ ~exists
    /\ exists' = TRUE
    /\ buffer' = << >>
    /\ entry_count' = 0
    /\ phase' = "creating"
    /\ UNCHANGED <<file, failed, accepted, synced, read>>

\* The stream creates the file, and the header is in its buffer.
Create ==
    /\ phase = "closed" /\ ~exists
    /\ exists' = TRUE
    /\ buffer' = <<Header(0)>>
    /\ entry_count' = 0
    /\ phase' = "creating"
    /\ UNCHANGED <<file, failed, accepted, synced, read>>

FlushHeader_later ==
    /\ phase = "creating"
    /\ phase' = "open"
    /\ UNCHANGED <<exists, file, buffer, failed, entry_count, accepted, synced, read>>

\* open() of a new file ends with a flush.
FlushHeader ==
    /\ phase = "creating"
    /\ file' = file \o buffer
    /\ buffer' = << >>
    /\ phase' = "open"
    /\ UNCHANGED <<exists, failed, entry_count, accepted, synced, read>>

\* A file that is there is opened by reading its header.  An empty one fails
\* that read, but header_ then still has the magic of its initializer, so
\* that open() goes on and returns true with a stream that has failed.
Open ==
    /\ phase = "closed" /\ exists
    /\ phase' = "open"
    /\ failed' = (file = << >>)
    /\ entry_count' = IF file = << >> THEN 0 ELSE Head(file).count
    /\ UNCHANGED <<exists, file, buffer, accepted, synced, read>>

AppendEntry_noSeek(seq) ==
    /\ phase = "open" /\ Written < MaxChunks /\ entry_count < MaxCount
    /\ IF failed
       THEN UNCHANGED <<file, buffer, accepted>>
       ELSE /\ buffer' = Append(buffer, Entry(seq))
            /\ accepted' = Append(accepted, Entry(seq))
            /\ UNCHANGED file
    /\ entry_count' = entry_count + 1
    /\ UNCHANGED <<exists, phase, failed, synced, read>>

\* The seek to the end writes out what is in the buffer; the entry itself
\* stays there.  The count goes up even when the stream refuses the entry.
AppendEntry(seq) ==
    /\ phase = "open" /\ Written < MaxChunks /\ entry_count < MaxCount
    /\ IF failed
       THEN UNCHANGED <<file, buffer, accepted>>
       ELSE /\ file' = file \o buffer
            /\ buffer' = <<Entry(seq)>>
            /\ accepted' = Append(accepted, Entry(seq))
    /\ entry_count' = entry_count + 1
    /\ UNCHANGED <<exists, phase, failed, synced, read>>

Sync_noSeek ==
    /\ phase = "open" /\ Written < MaxChunks
    /\ ~failed
    /\ buffer' = Append(buffer, Header(entry_count))
    /\ synced' = Len(accepted)
    /\ UNCHANGED <<exists, file, phase, failed, entry_count, accepted, read>>

\* sync seeks to the start to write the header there, but appends another
\* one.  On a failed stream nothing happens, and it returns false.
Sync ==
    /\ phase = "open" /\ Written < MaxChunks
    /\ ~failed
    /\ file' = file \o buffer \o <<Header(entry_count)>>
    /\ buffer' = << >>
    /\ synced' = Len(accepted)
    /\ UNCHANGED <<exists, phase, failed, entry_count, accepted, read>>

\* close, which the destructor calls too, syncs first.
Close ==
    /\ phase = "open"
    /\ IF failed
       THEN UNCHANGED <<file, buffer, synced>>
       ELSE /\ Written < MaxChunks
            /\ file' = file \o buffer \o <<Header(entry_count)>>
            /\ buffer' = << >>
            /\ synced' = Len(accepted)
    /\ phase' = "closed"
    /\ failed' = FALSE
    /\ UNCHANGED <<exists, entry_count, accepted, read>>

\* The first header that is not the one at the start, if any.
InnerHeader(chunks) ==
    Min({i \in 2..Len(chunks) : chunks[i].kind = "header"} \cup {Len(chunks) + 1})

Parses_dropsLast(chunks) == {SubSeq(chunks, 2, InnerHeader(chunks) - 2)}

\* What read_all may make of a file.  It expects entries behind the first
\* header.  At another header it takes that and the first 5 bytes behind it
\* for the header of an entry.  There may be none, and it stops; it reads an
\* absurd payload size from a second header, and stops; from an entry it
\* reads the sequence number as the size, and whether that many bytes are
\* left depends on the number: if so, an entry is returned that nobody wrote.
Parses(chunks) ==
    LET i == InnerHeader(chunks)
        entries == SubSeq(chunks, 2, i - 1)
    IN  IF i < Len(chunks) /\ chunks[i + 1].kind = "entry"
        THEN {entries, Append(entries, Bogus)}
        ELSE {entries}

\* Reading ends at a read that comes up short, which fails the stream.  On a
\* failed stream the seek is refused and nothing is returned.
ReadAll ==
    /\ phase = "open"
    /\ IF failed
       THEN read' = << >> /\ UNCHANGED <<file, buffer>>
       ELSE /\ file' = file \o buffer
            /\ buffer' = << >>
            /\ read' \in Parses(file')
    /\ failed' = TRUE
    /\ UNCHANGED <<exists, phase, entry_count, accepted, synced>>

\* The process dies; the next one starts with what the file holds.
Crash ==
    /\ phase # "closed"
    /\ phase' = "closed"
    /\ buffer' = << >>
    /\ failed' = FALSE
    /\ accepted' = EntriesOf(file)
    /\ UNCHANGED <<exists, file, entry_count, synced, read>>

Next ==
    \/ Create \/ FlushHeader \/ Open
    \/ \E seq \in SequenceNums : AppendEntry(seq)
    \/ Sync \/ Close \/ ReadAll \/ Crash

Spec == Init /\ [][Next]_vars

----------------------------------------------------------------------------------
Chunks == {Header(c) : c \in 0..MaxCount} \cup {Entry(s) : s \in SequenceNums}

\* Every variable has its type; a file that is not empty starts with a header.
TypeOK ==
    /\ exists \in BOOLEAN /\ failed \in BOOLEAN
    /\ file \in Seq(Chunks) /\ (file # << >> => Head(file).kind = "header")
    /\ buffer \in Seq(Chunks)
    /\ phase \in {"closed", "creating", "open"}
    /\ entry_count \in 0..MaxCount
    /\ accepted \in Seq(Chunks) /\ synced \in Nat
    /\ read \in Seq(Chunks \cup {Bogus})

\* An entry that append has accepted may be lost by a crash only until the
\* next call: the file holds all of them, in order, or all but the last.
AcceptedInFile ==
    /\ IsPrefix(EntriesOf(file), accepted)
    /\ Len(accepted) <= Len(EntriesOf(file)) + 1

\* No crash loses an entry that was accepted before a sync that returned true.
SyncedSurvives == synced <= Len(EntriesOf(file))

\* A log to which nothing was appended after a sync or a close reads back as
\* all the entries that were accepted, whatever sessions and crashes it went
\* through; the headers at its end do no harm.
CleanLogReadsBack ==
    [][ReadAll /\ ~failed /\ InnerHeader(file') > Len(EntriesOf(file')) + 1
         => read' = accepted]_vars

\* "Audit: Complete event history" (docs/persistence.md:11): a stream in good
\* order reads back every entry that was synced.
SyncedReadsBack ==
    [][ReadAll /\ ~failed => IsPrefix(SubSeq(accepted, 1, synced), read')]_vars
==================================================================================
