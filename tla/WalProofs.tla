----------------------------- MODULE WalProofs -----------------------------
(***************************************************************************)
(* FileProverWal loses at most one acknowledged entry per torn line, for   *)
(* any number of entries and of crashes.  The invariant is about the       *)
(* synced image: what a write in flight shows is one extension of it, and  *)
(* a torn last line is a loss that has been paid for and not yet taken.    *)
(***************************************************************************)
EXTENDS ProverWal, FiniteSetTheorems, TLAPS

Images == [lines : Seq(Nat), torn : BOOLEAN]

WalType ==
    /\ file \in Images /\ disk \in Images
    /\ state \in {"down", "open", "writing"}
    /\ next \in Nat \ {0} /\ tears \in Nat
    /\ acked \subseteq 1..(next - 1)

\* Between a write and its sync the file is one line ahead of the disk.
WriteAhead ==
    file = IF state = "writing" THEN Extended(disk, next, FALSE) ELSE disk

\* Lines are older than next, and the entries among them ascend.
Ascending(image, n) ==
    /\ \A i \in 1..Len(image.lines) : image.lines[i] < n
    /\ \A i, j \in 1..Len(image.lines) :
          /\ i < j
          /\ image.lines[i] # Garbage /\ image.lines[j] # Garbage
          => image.lines[i] < image.lines[j]

\* A torn line is the last one and holds no acknowledged entry.
TornIsUnacked(image) ==
    image.torn => /\ Len(image.lines) > 0
                  /\ image.lines[Len(image.lines)] \notin acked

\* Every loss, taken or still owed by a torn line, has a tear of its own.
LossIsPaid ==
    Cardinality(acked \ Readable(disk)) + (IF disk.torn THEN 1 ELSE 0) <= tears

WalInv ==
    /\ WalType /\ WriteAhead
    /\ Ascending(disk, next) /\ TornIsUnacked(disk) /\ LossIsPaid

-----------------------------------------------------------------------------
\* The image e is one line longer, or its last line, torn, is spoiled.
ExtendsTo(image, line, e) ==
    /\ e \in Images /\ Len(e.lines) > 0
    /\ image.torn => /\ Len(e.lines) = Len(image.lines)
                     /\ \A i \in 1..Len(image.lines) :
                           e.lines[i] = IF i = Len(image.lines) THEN Garbage ELSE image.lines[i]
    /\ ~image.torn => /\ Len(e.lines) = Len(image.lines) + 1
                      /\ \A i \in 1..(Len(image.lines) + 1) :
                            e.lines[i] = IF i = Len(image.lines) + 1 THEN line ELSE image.lines[i]

\* Bytes added to an image extend it, as long as a torn line exists.
LEMMA ExtendedIsImage ==
    ASSUME NEW image \in Images, NEW line \in Nat, NEW torn \in BOOLEAN,
           image.torn => Len(image.lines) > 0
    PROVE  /\ ExtendsTo(image, line, Extended(image, line, torn))
           /\ Extended(image, line, torn).torn = torn
<1> DEFINE L == image.lines
           T == [L EXCEPT ![Len(L)] = Garbage]
<1>1. L \in Seq(Nat) /\ image.torn \in BOOLEAN /\ Len(L) \in Nat
  BY DEF Images
<1>2. CASE image.torn
  <2>1. T \in Seq(Nat) /\ Len(T) = Len(L)
    BY <1>1, <1>2 DEF Garbage
  <2>2. \A i \in 1..Len(L) : T[i] = IF i = Len(L) THEN Garbage ELSE L[i]
    BY <1>1 DEF Garbage
  <2>3. Extended(image, line, torn) = [lines |-> T, torn |-> torn]
    BY <1>2 DEF Extended
  <2> QED
    BY <1>1, <1>2, <2>1, <2>2, <2>3 DEF Images, ExtendsTo
<1>3. CASE ~image.torn
  <2>1. Append(L, line) \in Seq(Nat) /\ Len(Append(L, line)) = Len(L) + 1
    BY <1>1
  <2>2. \A i \in 1..(Len(L) + 1) :
           Append(L, line)[i] = IF i = Len(L) + 1 THEN line ELSE L[i]
    BY <1>1
  <2>3. Extended(image, line, torn) = [lines |-> Append(L, line), torn |-> torn]
    BY <1>3 DEF Extended
  <2> QED
    BY <1>1, <1>3, <2>1, <2>2, <2>3 DEF Images, ExtendsTo
<1> QED
  BY <1>1, <1>2, <1>3

\* Adding a line that is not older than any other keeps the order.
LEMMA ExtendedAscends ==
    ASSUME NEW image \in Images, NEW n \in Nat \ {0}, NEW line \in Nat,
           line = n \/ line = Garbage, NEW torn \in BOOLEAN, image.torn => Len(image.lines) > 0,
           Ascending(image, n)
    PROVE  Ascending(Extended(image, line, torn), n + 1)
<1> DEFINE E == Extended(image, line, torn)
<1>0. Len(image.lines) \in Nat /\ image.torn \in BOOLEAN
  BY DEF Images
<1>1. ExtendsTo(image, line, E)
  BY ExtendedIsImage
<1> SUFFICES Ascending(E, n + 1)
  OBVIOUS
<1> HIDE DEF E
<1>2. \A i \in 1..Len(image.lines) : image.lines[i] \in Nat
  BY DEF Images
<1>3. CASE image.torn
  BY <1>0, <1>1, <1>2, <1>3 DEF Ascending, Garbage, ExtendsTo
<1>4. CASE ~image.torn
  <2> DEFINE m == Len(image.lines) + 1
  <2>1. Len(E.lines) = m /\ m \in Nat
    BY <1>0, <1>1, <1>4 DEF ExtendsTo
  <2>2. E.lines[m] = line
    BY <1>0, <1>1, <1>4 DEF ExtendsTo
  <2>3. \A i \in 1..m : i # m => i \in 1..Len(image.lines) /\ E.lines[i] = image.lines[i]
    BY <1>0, <1>1, <1>4 DEF ExtendsTo
  <2>4. \A i \in 1..m : E.lines[i] < n + 1
    BY <1>2, <2>2, <2>3 DEF Ascending, Garbage
  <2>5. ASSUME NEW i \in 1..m, NEW j \in 1..m, i < j,
               E.lines[i] # Garbage, E.lines[j] # Garbage
        PROVE  E.lines[i] < E.lines[j]
    <3>1. i # m
      BY <2>1, <2>5
    <3>2. i \in 1..Len(image.lines) /\ E.lines[i] = image.lines[i] /\ image.lines[i] < n
      BY <2>3, <3>1 DEF Ascending
    <3>3. CASE j = m
      BY <2>2, <2>5, <3>2, <3>3
    <3>4. CASE j # m
      BY <2>3, <2>5, <3>2, <3>4 DEF Ascending
    <3> QED
      BY <3>3, <3>4
  <2> HIDE DEF m
  <2> QED
    BY <2>1, <2>4, <2>5 DEF Ascending
<1> QED
  BY <1>0, <1>3, <1>4

\* What an added line can spoil: the torn line, and no other.
LEMMA ExtendedKeepsReadable ==
    ASSUME NEW image \in Images, NEW line \in Nat, NEW torn \in BOOLEAN,
           image.torn => Len(image.lines) > 0
    PROVE  /\ image.torn => Readable(image) \ {image.lines[Len(image.lines)]}
                              \subseteq Readable(Extended(image, line, torn))
           /\ ~image.torn => Readable(image) \cup ({line} \ {Garbage})
                              \subseteq Readable(Extended(image, line, torn))
<1> DEFINE E == Extended(image, line, torn)
<1>0. Len(image.lines) \in Nat /\ image.torn \in BOOLEAN
  BY DEF Images
<1>1. ExtendsTo(image, line, E)
  BY ExtendedIsImage
<1> HIDE DEF E
<1>2. CASE image.torn
  <2>1. SUFFICES ASSUME NEW e \in Readable(image), e # image.lines[Len(image.lines)]
                 PROVE  e \in Readable(E)
    BY <1>2 DEF E
  <2>2. PICK i \in 1..Len(image.lines) : e = image.lines[i] /\ e # Garbage
    BY DEF Readable
  <2>3. i # Len(image.lines) /\ i \in 1..Len(E.lines) /\ E.lines[i] = e
    BY <1>1, <1>2, <2>1, <2>2 DEF ExtendsTo
  <2> QED
    BY <2>2, <2>3 DEF Readable
<1>3. CASE ~image.torn
  <2>1. SUFFICES ASSUME NEW e \in Readable(image) \cup ({line} \ {Garbage})
                 PROVE  e \in Readable(E)
    BY <1>3 DEF E
  <2>2. CASE e \in Readable(image)
    <3>1. PICK i \in 1..Len(image.lines) : e = image.lines[i] /\ e # Garbage
      BY <2>2 DEF Readable
    <3>2. i \in 1..Len(E.lines) /\ E.lines[i] = e
      BY <1>0, <1>1, <1>3, <3>1 DEF ExtendsTo
    <3> QED
      BY <3>1, <3>2 DEF Readable
  <2>3. CASE e = line /\ e # Garbage
    <3>1. Len(E.lines) \in 1..Len(E.lines) /\ E.lines[Len(E.lines)] = e
      BY <1>0, <1>1, <1>3, <2>3 DEF ExtendsTo
    <3> QED
      BY <2>3, <3>1 DEF Readable
  <2> QED
    BY <2>1, <2>2, <2>3
<1> QED
  BY <1>0, <1>2, <1>3 DEF E

\* The acknowledged entries are finitely many, so losses can be counted.
LEMMA AckedIsFinite ==
    WalType => /\ IsFiniteSet(acked)
               /\ \A S, T : S \subseteq T /\ T \subseteq acked
                     => /\ Cardinality(S) \in Nat /\ Cardinality(T) \in Nat
                        /\ Cardinality(S) <= Cardinality(T)
<1>1. SUFFICES ASSUME WalType PROVE IsFiniteSet(acked)
  BY FS_Subset, FS_CardinalityType
<1>2. IsFiniteSet(1..(next - 1))
  BY <1>1, FS_Interval DEF WalType
<1> QED
  BY <1>1, <1>2, FS_Subset DEF WalType

\* A line added to the synced image takes back nothing that was acknowledged.
LEMMA ExtendedForgetsNothing ==
    ASSUME WalType, TornIsUnacked(disk), NEW line \in Nat, NEW torn \in BOOLEAN
    PROVE  acked \ Readable(Extended(disk, line, torn)) \subseteq acked \ Readable(disk)
<1>1. disk \in Images /\ (disk.torn => Len(disk.lines) > 0) /\ disk.torn \in BOOLEAN
  BY DEF WalType, TornIsUnacked, Images
<1>2. CASE disk.torn
  BY <1>1, <1>2, ExtendedKeepsReadable DEF TornIsUnacked
<1>3. CASE ~disk.torn
  BY <1>1, <1>3, ExtendedKeepsReadable
<1> QED
  BY <1>1, <1>2, <1>3


\* The invariant implies the property: the file is the synced image or one
\* extension of it.
LEMMA WalInvBoundsLoss == WalInv => LossIsBounded
<1> SUFFICES ASSUME WalInv PROVE LossIsBounded
  OBVIOUS
<1>1. /\ file \in Images /\ disk \in Images /\ next \in Nat \ {0} /\ tears \in Nat
      /\ disk.torn \in BOOLEAN /\ (disk.torn => Len(disk.lines) > 0)
  BY DEF WalInv, WalType, Images, TornIsUnacked
<1>2. Ascending(file, next) \/ Ascending(file, next + 1)
  <2>1. CASE state = "writing"
    <3>1. file = Extended(disk, next, FALSE)
      BY <2>1 DEF WalInv, WriteAhead
    <3> QED
      BY <1>1, <3>1, ExtendedAscends DEF WalInv
  <2>2. CASE state # "writing"
    BY <2>2 DEF WalInv, WriteAhead
  <2> QED
    BY <2>1, <2>2
<1>3. acked \ Readable(file) \subseteq acked \ Readable(disk)
  <2>1. CASE state = "writing"
    <3>1. file = Extended(disk, next, FALSE)
      BY <2>1 DEF WalInv, WriteAhead
    <3> QED
      BY <1>1, <3>1, ExtendedForgetsNothing DEF WalInv
  <2>2. CASE state # "writing"
    BY <2>2 DEF WalInv, WriteAhead
  <2> QED
    BY <2>1, <2>2
<1>4. Cardinality(Forgotten) <= tears
  <2> DEFINE F == acked \ Readable(file)
             D == acked \ Readable(disk)
  <2>1. /\ Cardinality(F) \in Nat /\ Cardinality(D) \in Nat
        /\ Cardinality(F) <= Cardinality(D)
    BY <1>3, AckedIsFinite DEF WalInv
  <2>2. Cardinality(D) + (IF disk.torn THEN 1 ELSE 0) <= tears
    BY DEF WalInv, LossIsPaid
  <2>3. Forgotten = F
    BY DEF Forgotten
  <2> HIDE DEF F, D
  <2> QED
    BY <1>1, <2>1, <2>2, <2>3
<1> QED
  BY <1>2, <1>4 DEF LossIsBounded, Ascending

\* The empty file has lost nothing.
LEMMA WalInitInv == WalInit => WalInv
<1> SUFFICES ASSUME WalInit PROVE WalInv
  OBVIOUS
<1>1. WalType /\ WriteAhead /\ Ascending(disk, next) /\ TornIsUnacked(disk)
  BY DEF WalInit, Empty, WalType, Images, WriteAhead, Ascending, TornIsUnacked
<1>2. acked \ Readable(disk) = {}
  BY DEF WalInit
<1>3. LossIsPaid
  BY <1>2, FS_EmptySet DEF LossIsPaid, WalInit, Empty
<1> QED
  BY <1>1, <1>3 DEF WalInv

\* handle.sync makes the written line durable and acknowledges it: when the
\* line ran into a torn one, the tear pays for it.
LEMMA SyncKeepsInv == WalInv /\ Sync => WalInv'
<1> SUFFICES ASSUME WalInv, Sync PROVE WalInv'
  OBVIOUS
<1> DEFINE E == Extended(disk, next, FALSE)
<1>1. /\ file' = file /\ disk' = file /\ file = E /\ state' = "open"
      /\ acked' = acked \cup {next} /\ next' = next + 1 /\ tears' = tears
  BY DEF WalInv, WriteAhead, Sync
<1>2. /\ disk \in Images /\ next \in Nat \ {0} /\ tears \in Nat
      /\ disk.torn \in BOOLEAN /\ (disk.torn => Len(disk.lines) > 0)
      /\ acked \subseteq 1..(next - 1)
  BY DEF WalInv, WalType, Images, TornIsUnacked
<1>3. E \in Images /\ E.torn = FALSE
  BY <1>2, ExtendedIsImage DEF ExtendsTo
<1>4. Ascending(E, next + 1)
  BY <1>2, ExtendedAscends DEF WalInv
<1>5. LossIsPaid'
  <2> DEFINE F == acked' \ Readable(E)
             D == acked \ Readable(disk)
  <2>1. acked \ Readable(E) \subseteq D
    BY <1>2, ExtendedForgetsNothing DEF WalInv
  <2>2. IsFiniteSet(D) /\ Cardinality(D) \in Nat
    <3>1. IsFiniteSet(acked)
      BY AckedIsFinite DEF WalInv
    <3>2. IsFiniteSet(D)
      BY <3>1, FS_Subset
    <3> QED
      BY <3>2, FS_CardinalityType
  <2>3. Cardinality(D) + (IF disk.torn THEN 1 ELSE 0) <= tears
    BY DEF WalInv, LossIsPaid
  <2>4. Cardinality(F) \in Nat /\ Cardinality(F) <= tears
    <3>1. CASE disk.torn
      <4>1. F \subseteq D \cup {next}
        BY <1>1, <2>1
      <4>2. /\ IsFiniteSet(D \cup {next})
            /\ Cardinality(D \cup {next}) = IF next \in D THEN Cardinality(D) ELSE Cardinality(D) + 1
        BY <2>2, FS_AddElement
      <4>3. IsFiniteSet(F) /\ Cardinality(F) <= Cardinality(D \cup {next})
        <5> HIDE DEF F, D
        <5> QED
          BY <4>1, <4>2, FS_Subset
      <4>4. Cardinality(F) \in Nat
        BY <4>3, FS_CardinalityType
      <4> HIDE DEF F, D
      <4> QED
        BY <1>2, <2>2, <2>3, <3>1, <4>2, <4>3, <4>4
    <3>2. CASE ~disk.torn
      <4>1. next \in Readable(E)
        BY <1>2, <3>2, ExtendedKeepsReadable DEF Garbage
      <4>2. F \subseteq D
        BY <1>1, <2>1, <4>1
      <4>3. IsFiniteSet(F) /\ Cardinality(F) <= Cardinality(D)
        BY <2>2, <4>2, FS_Subset
      <4>4. Cardinality(F) \in Nat
        BY <4>3, FS_CardinalityType
      <4> HIDE DEF F, D
      <4> QED
        BY <1>2, <2>2, <2>3, <3>2, <4>3, <4>4
    <3> QED
      BY <1>2, <3>1, <3>2
  <2>5. disk' = E
    BY <1>1
  <2>6. Cardinality((acked \ Readable(disk))') = Cardinality(F)
    BY <2>5 DEF Readable
  <2>7. disk'.torn = FALSE
    BY <1>3, <2>5
  <2> HIDE DEF F, E
  <2> QED
    BY <1>1, <1>2, <2>4, <2>6, <2>7 DEF LossIsPaid
<1>6. WalType'
  <2> HIDE DEF E
  <2>1. acked' \subseteq 1..(next' - 1)
    BY <1>1, <1>2
  <2> QED
    BY <1>1, <1>2, <1>3, <2>1 DEF WalType
<1>7. WriteAhead' /\ TornIsUnacked(disk)'
  BY <1>1, <1>3 DEF WriteAhead, TornIsUnacked
<1>8. Ascending(disk, next)'
  BY <1>1, <1>4 DEF Ascending
<1> QED
  BY <1>5, <1>6, <1>7, <1>8 DEF WalInv

\* A stop leaves either the synced image or the written one, and no new
\* acknowledgement.
LEMMA StopKeepsInv ==
    ASSUME WalInv, NEW image \in {file, disk}, Stop(image) PROVE WalInv'
<1>1. /\ file' = image /\ disk' = image /\ state' = "down"
      /\ acked' = acked /\ tears' = tears
      /\ next' = IF state = "writing" THEN next + 1 ELSE next
  BY DEF Stop
<1>2. /\ disk \in Images /\ file \in Images /\ next \in Nat \ {0} /\ tears \in Nat
      /\ disk.torn \in BOOLEAN /\ (disk.torn => Len(disk.lines) > 0)
      /\ acked \subseteq 1..(next - 1)
  BY DEF WalInv, WalType, Images, TornIsUnacked
<1>3. /\ Ascending(image, next')
      /\ TornIsUnacked(image)
      /\ acked \ Readable(image) \subseteq acked \ Readable(disk)
      /\ image.torn => disk.torn
  <2>1. CASE image = disk
    <3>1. \A i \in 1..Len(disk.lines) : disk.lines[i] \in Nat
      BY <1>2 DEF Images
    <3> QED
      BY <1>1, <1>2, <2>1, <3>1 DEF WalInv, Ascending
  <2>2. CASE image = file /\ image # disk
    <3>1. state = "writing" /\ image = Extended(disk, next, FALSE) /\ next' = next + 1
      BY <1>1, <2>2 DEF WalInv, WriteAhead
    <3>2. Ascending(image, next')
      BY <1>2, <3>1, ExtendedAscends DEF WalInv
    <3>3. image.torn = FALSE
      BY <1>2, <3>1, ExtendedIsImage
    <3>4. acked \ Readable(image) \subseteq acked \ Readable(disk)
      BY <1>2, <3>1, ExtendedForgetsNothing DEF WalInv
    <3> QED
      BY <3>2, <3>3, <3>4 DEF TornIsUnacked
  <2> QED
    BY <2>1, <2>2
<1>4. LossIsPaid'
  <2> DEFINE F == acked \ Readable(image)
             D == acked \ Readable(disk)
  <2>1. /\ Cardinality(F) \in Nat /\ Cardinality(D) \in Nat
        /\ Cardinality(F) <= Cardinality(D)
    BY <1>3, AckedIsFinite DEF WalInv
  <2>2. Cardinality(D) + (IF disk.torn THEN 1 ELSE 0) <= tears
    BY DEF WalInv, LossIsPaid
  <2>3. Cardinality((acked \ Readable(disk))') = Cardinality(F)
    BY <1>1 DEF Readable
  <2>4. disk' = image /\ tears' = tears
    BY <1>1
  <2> HIDE DEF F, D
  <2> QED
    BY <1>2, <1>3, <2>1, <2>2, <2>3, <2>4 DEF LossIsPaid
<1>5. WalType' /\ WriteAhead'
  BY <1>1, <1>2 DEF WalType, WriteAhead
<1>6. Ascending(disk, next)' /\ TornIsUnacked(disk)'
  BY <1>1, <1>3 DEF Ascending, TornIsUnacked
<1> QED
  BY <1>4, <1>5, <1>6 DEF WalInv

\* A torn write adds an unacknowledged line and pays for the entry that will
\* run into it.
LEMMA TearKeepsInv ==
    ASSUME WalInv, NEW line \in {next, Garbage}, Tear(line) PROVE WalInv'
<1> DEFINE E == Extended(disk, line, TRUE)
<1>1. /\ file' = E /\ disk' = E /\ state' = "down"
      /\ acked' = acked /\ tears' = tears + 1 /\ next' = next + 1
  BY DEF Tear
<1>2. /\ disk \in Images /\ next \in Nat \ {0} /\ tears \in Nat
      /\ disk.torn \in BOOLEAN /\ (disk.torn => Len(disk.lines) > 0)
      /\ acked \subseteq 1..(next - 1) /\ line \in Nat
  BY DEF WalInv, WalType, Images, TornIsUnacked, Garbage
<1>3. E \in Images /\ E.torn = TRUE /\ Len(E.lines) > 0
  BY <1>2, ExtendedIsImage DEF ExtendsTo
<1>4. Ascending(E, next + 1)
  BY <1>2, ExtendedAscends DEF WalInv
<1>5. E.lines[Len(E.lines)] \in {line, Garbage}
  <2>1. ExtendsTo(disk, line, E)
    BY <1>2, ExtendedIsImage
  <2>2. Len(disk.lines) \in Nat
    BY <1>2 DEF Images
  <2> HIDE DEF E
  <2> QED
    BY <1>2, <2>1, <2>2 DEF ExtendsTo
<1>6. E.lines[Len(E.lines)] \notin acked
  <2>1. next \notin acked /\ Garbage \notin acked
    BY <1>2 DEF Garbage
  <2> HIDE DEF E
  <2> QED
    BY <1>5, <2>1
<1>7. LossIsPaid'
  <2> DEFINE F == acked \ Readable(E)
             D == acked \ Readable(disk)
  <2>1. F \subseteq D
    BY <1>2, ExtendedForgetsNothing DEF WalInv
  <2>2. /\ Cardinality(F) \in Nat /\ Cardinality(D) \in Nat
        /\ Cardinality(F) <= Cardinality(D)
    BY <2>1, AckedIsFinite DEF WalInv
  <2>3. Cardinality(D) + (IF disk.torn THEN 1 ELSE 0) <= tears
    BY DEF WalInv, LossIsPaid
  <2>4. Cardinality((acked \ Readable(disk))') = Cardinality(F)
    BY <1>1 DEF Readable
  <2>5. disk'.torn = TRUE /\ tears' = tears + 1
    BY <1>1, <1>3
  <2> HIDE DEF F, D, E
  <2> QED
    BY <1>2, <2>2, <2>3, <2>4, <2>5 DEF LossIsPaid
<1>8. WalType' /\ WriteAhead' /\ TornIsUnacked(disk)'
  <2> HIDE DEF E
  <2> QED
    BY <1>1, <1>2, <1>3, <1>6 DEF WalType, WriteAhead, TornIsUnacked
<1>9. Ascending(disk, next)'
  BY <1>1, <1>4 DEF Ascending
<1> QED
  BY <1>7, <1>8, <1>9 DEF WalInv

\* open, append up to the write, sync, stops and torn writes keep the
\* invariant.
LEMMA WalStepKeepsInv == WalInv /\ [WalNext]_walVars => WalInv'
<1> SUFFICES ASSUME WalInv, [WalNext]_walVars PROVE WalInv'
  OBVIOUS
<1>1. CASE Open
  BY <1>1 DEF Open, WalInv, WalType, WriteAhead, Ascending, TornIsUnacked, LossIsPaid, Readable
<1>2. CASE Write
  <2>1. /\ file' = Extended(disk, next, FALSE) /\ state' = "writing"
        /\ UNCHANGED <<disk, next, acked, tears>>
    BY <1>2 DEF Write, WalInv, WriteAhead
  <2>2. WriteAhead'
    BY <2>1 DEF WriteAhead, Extended
  <2>3. file' \in Images
    BY <2>1, ExtendedIsImage DEF WalInv, WalType, TornIsUnacked, ExtendsTo
  <2>4. WalType'
    BY <2>1, <2>3 DEF WalInv, WalType
  <2> QED
    BY <2>1, <2>2, <2>4 DEF WalInv, Ascending, TornIsUnacked, LossIsPaid, Readable
<1>3. CASE Sync
  BY <1>3, SyncKeepsInv
<1>4. CASE Stop(file) \/ Stop(disk)
  BY <1>4, StopKeepsInv
<1>5. CASE Tear(next) \/ Tear(Garbage)
  BY <1>5, TearKeepsInv
<1>6. CASE UNCHANGED walVars
  BY <1>6 DEF walVars, WalInv, WalType, WriteAhead, Ascending, TornIsUnacked, LossIsPaid,
              Readable, Extended
<1> QED
  BY <1>1, <1>2, <1>3, <1>4, <1>5, <1>6 DEF WalNext

\* FileProverWal.append returns after its fsync, so power loss and torn writes
\* cost at most one acknowledged entry each, and what open reads back is in the
\* order it was appended.
THEOREM LossBounded == WalSpec => []LossIsBounded
<1>1. WalSpec => []WalInv
  BY WalInitInv, WalStepKeepsInv, PTL DEF WalSpec
<1> QED
  BY <1>1, WalInvBoundsLoss, PTL

=============================================================================
