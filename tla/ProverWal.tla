----------------------------- MODULE ProverWal -----------------------------
(***************************************************************************)
(* FileProverWal: the prover's append-only JSONL file under crashes.       *)
(* Entries are numbered in the order they are appended; a physical line    *)
(* holds the entry it parses to, or Garbage.  A crash may leave the last   *)
(* line without its newline, cut short or whole.                           *)
(***************************************************************************)
EXTENDS Integers, Sequences, FiniteSets

CONSTANTS MaxEntries,  \* bound: entries appended
          MaxTears     \* bound: crashes that tear a line

ASSUME WalAssumption == MaxEntries \in Nat \ {0} /\ MaxTears \in Nat

VARIABLES
    file,    \* the file as the operating system shows it
    disk,    \* the file as of the last fsync
    cache,   \* entries in memory
    state,   \* "down", "open", or "writing": written and not yet synced
    next,    \* number of the next entry
    acked,   \* history: entries whose append returned
    tears    \* history: crashes that tore a line

walVars == <<file, disk, cache, state, next, acked, tears>>

Garbage == 0
Entries == 1..MaxEntries

Empty == [lines |-> <<>>, torn |-> FALSE]

WalInit ==
    /\ file = Empty /\ disk = Empty
    /\ cache = <<>> /\ state = "down"
    /\ next = 1 /\ acked = {} /\ tears = 0

\* The lines that parse, oldest first.
Parsed(image) == SelectSeq(image.lines, LAMBDA l : l # Garbage)

\* Bytes added to an image: they start a new line, or run into a torn one and
\* spoil it.
Extended(image, line, torn) ==
    [lines |-> IF image.torn THEN [image.lines EXCEPT ![Len(image.lines)] = Garbage]
                             ELSE Append(image.lines, line),
     torn  |-> torn]

\* Mutant of Open: the file is opened for writing, not for appending.
OpenTruncating ==
    /\ state = "down"
    /\ state' = "open"
    /\ cache' = Parsed(file)
    /\ file' = Empty /\ disk' = Empty
    /\ UNCHANGED <<next, acked, tears>>

\* open: parse what is there, skip what does not parse, then append.
Open ==
    /\ state = "down"
    /\ state' = "open"
    /\ cache' = Parsed(file)
    /\ UNCHANGED <<file, disk, next, acked, tears>>

\* append, up to handle.write.
Write ==
    /\ state = "open" /\ next <= MaxEntries
    /\ state' = "writing"
    /\ file' = Extended(file, next, FALSE)
    /\ UNCHANGED <<disk, cache, next, acked, tears>>

\* handle.sync returns and the entry joins the cache.
Sync ==
    /\ state = "writing"
    /\ state' = "open"
    /\ disk' = file
    /\ cache' = Append(cache, next)
    /\ acked' = acked \cup {next}
    /\ next' = next + 1
    /\ UNCHANGED <<file, tears>>

\* The process or the machine stops; unsynced bytes survive whole or not at all.
Stop(image) ==
    /\ state # "down" /\ image \in {file, disk}
    /\ state' = "down"
    /\ file' = image /\ disk' = image
    /\ cache' = <<>>
    /\ next' = IF state = "writing" THEN next + 1 ELSE next
    /\ UNCHANGED <<acked, tears>>

\* It stops inside a write: part of the line, or all of it but its newline.
Tear(line) ==
    /\ state = "open" /\ next <= MaxEntries /\ line \in {next, Garbage}
    /\ tears < MaxTears
    /\ tears' = tears + 1
    /\ state' = "down"
    /\ file' = Extended(disk, line, TRUE) /\ disk' = file'
    /\ cache' = <<>>
    /\ next' = next + 1
    /\ UNCHANGED acked

WalNext == \/ Open \/ Write \/ Sync \/ Stop(file) \/ Stop(disk)
           \/ Tear(next) \/ Tear(Garbage)

WalSpec == WalInit /\ [][WalNext]_walVars

-----------------------------------------------------------------------------
\* The entries a restart would read back.
Readable(image) == {image.lines[i] : i \in 1..Len(image.lines)} \ {Garbage}

\* Acknowledged entries that a restart would not read back.
Forgotten == acked \ Readable(file)

\* fsync after each write loses at most one acknowledged entry per torn line,
\* and never changes the order of the others.
LossIsBounded ==
    /\ Cardinality(Forgotten) <= tears
    /\ \A i, j \in 1..Len(file.lines) :
          /\ i < j
          /\ file.lines[i] # Garbage /\ file.lines[j] # Garbage
          => file.lines[i] < file.lines[j]

=============================================================================
