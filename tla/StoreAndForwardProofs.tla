----------------------- MODULE StoreAndForwardProofs ------------------------
(***************************************************************************)
(* Proofs about the telemetry loop, for every quota of its directory and   *)
(* every number of samples and restarts.                                   *)
(***************************************************************************)
EXTENDS StoreAndForward, SimpleFsProofs, FiniteSetTheorems

-----------------------------------------------------------------------------
(* The inductive invariant, on a disk that keeps its blocks and answers    *)
(* every read: FifoInv for the file system under the application, and ...  *)

(* A read request is answered.                                             *)
ReadsAnswered == ReadOutcomes = {0}

(* ... how far the process is, as far as the file system tells;            *)
ProcessState ==
    /\ pc \in {"init", "mount", "format", "remount", "directory", "run",
               "store", "delete", "exit"}
    /\ pc # "init" => init
    /\ pc = "directory" => mount
    /\ pc \in {"run", "store", "delete"} => mount /\ Len(Dirs) = 1
    /\ (op # Idle) = (pc = "store")
    /\ pc = "format" => Stored = <<>>

(* ... a directory is never lost to a mount that fails;                    *)
RootSigned ==
    mount \/ disk[0].dirs # <<>> =>
        disk[0].sig /\ disk[0].storageNumBlocks # 0

(* ... all files have the size of a sample;                                *)
SamplesOnly ==
    /\ \A b \in Blocks \ {0} :
          disk[b].kind = "header" => disk[b].size = SampleSize
    /\ op # Idle => op.size = SampleSize

(* ... the variables of the application, and what is deleted was sent;     *)
SentBeforeDeleted ==
    /\ cloud \in Seq(0 .. fileCount)
    /\ crashes \in Nat
    /\ interrupted \in BOOLEAN
    /\ pc = "delete" =>
          /\ Stored # <<>>
          /\ cloud # <<>>
          /\ Stored[1] \in {Torn, cloud[Len(cloud)]}

(* ... the places of the store whose samples no write is replacing;        *)
GivenUp == pc = "store" /\ Len(Stored) = MaxFiles

Kept == (IF GivenUp THEN 2 ELSE 1) .. Len(Stored)

(* ... the store is in order, what was sent is not newer than what is      *)
(* stored, and the sample being written is newer than both;                *)
StoreInOrder ==
    \A i \in Kept :
        /\ Stored[i] # Torn
        /\ pc = "store" => Stored[i] < fileCount
        /\ \A j \in Kept : i < j => Stored[i] < Stored[j]

SentInOrder ==
    \A k \in DOMAIN cloud :
        /\ cloud[k] # Garbage
        /\ pc = "store" => cloud[k] < fileCount
        /\ k > 1 => cloud[k - 1] <= cloud[k]
        /\ \A i \in Kept : cloud[k] <= Stored[i] /\ (i > 1 => cloud[k] < Stored[i])

(* ... and the oldest sample may be sent once more than it was.            *)
SentAgain ==
    /\ pc # "delete"
    /\ 1 \in Kept
    /\ cloud # <<>>
    /\ Stored[1] = cloud[Len(cloud)]

RepeatsBounded ==
    Cardinality(Repeats) + (IF SentAgain THEN 1 ELSE 0) <= crashes

InOrder == ~interrupted => StoreInOrder /\ SentInOrder /\ RepeatsBounded

AppInv ==
    /\ FifoInv
    /\ ProcessState
    /\ RootSigned
    /\ SamplesOnly
    /\ SentBeforeDeleted
    /\ InOrder

-----------------------------------------------------------------------------
(* What the steps of the application do to the samples.                    *)

Calls ==
    /\ UNCHANGED <<Stored, fileCount, cloud, crashes, interrupted>>
    /\ \/ pc' = pc
       \/ pc \notin {"store", "delete"} /\ pc' \notin {"store", "delete"}

Restarted ==
    /\ UNCHANGED <<Stored, fileCount, cloud>>
    /\ pc' = "init"
    /\ crashes' = crashes + 1
    /\ interrupted' = (interrupted \/ GivenUp)

SentAtOnce ==
    /\ pc = "run" /\ pc' = "run"
    /\ Stored = <<>> /\ Stored' = <<>>
    /\ fileCount' = fileCount + 1
    /\ cloud' = Append(cloud, fileCount') \/ cloud' = cloud
    /\ UNCHANGED <<crashes, interrupted>>

StoreBegun ==
    /\ pc = "run" /\ pc' = "store"
    /\ fileCount' = fileCount + 1
    /\ UNCHANGED <<Stored, cloud, crashes, interrupted>>

PlaceGivenUp ==
    /\ pc = "store" /\ pc' = "store"
    /\ Len(Stored) = MaxFiles
    /\ \E file \in {Torn, fileCount} : Stored' = [Stored EXCEPT ![1] = file]
    /\ UNCHANGED <<fileCount, cloud, crashes, interrupted>>

SampleStored ==
    /\ pc = "store" /\ pc' \notin {"store", "delete"}
    /\ \/ /\ Len(Stored) < MaxFiles
          /\ Stored' = Append(Stored, fileCount)
       \/ /\ Len(Stored) = MaxFiles
          /\ Stored' = Append(Tail(Stored), fileCount)
    /\ UNCHANGED <<fileCount, cloud, crashes, interrupted>>

OldestSent ==
    /\ pc = "run" /\ pc' = "delete"
    /\ Stored # <<>>
    /\ \E sample \in 0 .. fileCount :
          /\ Stored[1] \in {Torn, sample}
          /\ cloud' = Append(cloud, sample)
    /\ UNCHANGED <<Stored, fileCount, crashes, interrupted>>

OldestDropped ==
    /\ pc = "delete" /\ pc' = "run"
    /\ Stored # <<>>
    /\ Stored' = Tail(Stored)
    /\ UNCHANGED <<fileCount, cloud, crashes, interrupted>>

SampleStep ==
    \/ Calls \/ Restarted \/ SentAtOnce \/ StoreBegun \/ PlaceGivenUp
    \/ SampleStored \/ OldestSent \/ OldestDropped

-----------------------------------------------------------------------------
(* The sequences.                                                          *)

(* The facts about Stored and cloud that the steps below need.             *)
LEMMA Samples ==
    ASSUME FifoInv, SentBeforeDeleted
    PROVE  /\ fileCount \in Nat
           /\ MaxFiles \in Nat \ {0}
           /\ TheEntry = DataEntry
           /\ OneDirectoryAsked
           /\ Stored \in Seq(0 .. fileCount)
           /\ Len(Stored) \in Nat
           /\ DOMAIN Stored = 1 .. Len(Stored)
           /\ \A i \in 1 .. Len(Stored) : Stored[i] \in 0 .. fileCount
           /\ Len(cloud) \in Nat
           /\ DOMAIN cloud = 1 .. Len(cloud)
           /\ \A k \in 1 .. Len(cloud) : cloud[k] \in 0 .. fileCount
  <1>1. fileCount \in Nat
    BY DEF FifoInv, IInv
  <1>2. TheEntry = DataEntry /\ OneDirectoryAsked
    BY ApplicationAssumption DEF TheEntry, OneDirectoryAsked
  <1>3. MaxFiles \in Nat \ {0}
    BY ApplicationAssumption, ClientAssumption DEF DirEntry, DataEntry
  <1>4. Stored \in Seq(0 .. fileCount)
    BY StoredType
  <1>5. cloud \in Seq(0 .. fileCount)
    BY DEF SentBeforeDeleted
  <1> QED
    BY <1>1, <1>2, <1>3, <1>4, <1>5

(* The places of a sequence after one more,                                *)
LEMMA Appended ==
    ASSUME NEW S, NEW s \in Seq(S), NEW x \in S
    PROVE  /\ Len(Append(s, x)) = Len(s) + 1
           /\ \A i \in 1 .. Len(s) : Append(s, x)[i] = s[i]
           /\ Append(s, x)[Len(s) + 1] = x
           /\ Append(s, x) \in Seq(S)
           /\ Append(s, x) # <<>>
  OBVIOUS

(* ... after one less.                                                     *)
LEMMA Rest ==
    ASSUME NEW S, NEW s \in Seq(S), s # <<>>
    PROVE  /\ Len(Tail(s)) = Len(s) - 1
           /\ \A i \in 1 .. Len(s) - 1 : Tail(s)[i] = s[i + 1]
           /\ Tail(s) \in Seq(S)
           /\ Len(s) >= 1
  OBVIOUS

(* A sequence of samples stays one when more samples are counted.          *)
LEMMA LargerType ==
    ASSUME NEW S, NEW T, S \subseteq T, NEW s \in Seq(S)
    PROVE  s \in Seq(T)
  <1>1. PICK n \in Nat : n = Len(s) /\ s \in [1 .. n -> S]
    OBVIOUS
  <1>2. s \in [1 .. n -> T]
    BY <1>1
  <1> QED
    BY <1>1, <1>2, FunctionIsSequence

(* The repetitions are finitely many.                                      *)
LEMMA RepeatsFinite ==
    ASSUME NEW s \in Seq(Nat)
    PROVE  /\ IsFiniteSet({i \in 2 .. Len(s) : s[i - 1] = s[i]})
           /\ Cardinality({i \in 2 .. Len(s) : s[i - 1] = s[i]}) \in Nat
  <1>1. IsFiniteSet(2 .. Len(s))
    BY FS_Interval
  <1>2. IsFiniteSet({i \in 2 .. Len(s) : s[i - 1] = s[i]})
    BY <1>1, FS_Subset
  <1> QED
    BY <1>2, FS_CardinalityType

(* The numbers that RepeatsBounded compares.                               *)
LEMMA RepeatsCounted ==
    ASSUME FifoInv, SentBeforeDeleted
    PROVE  /\ cloud \in Seq(Nat)
           /\ Cardinality(Repeats) \in Nat
           /\ crashes \in Nat
  <1>1. cloud \in Seq(Nat) /\ crashes \in Nat
    BY DEF SentBeforeDeleted, FifoInv, IInv
  <1> QED
    BY <1>1, RepeatsFinite DEF Repeats

(* Sending a sample adds a repetition exactly when it is the one sent      *)
(* last.                                                                   *)
LEMMA RepeatsAfterSend ==
    ASSUME cloud \in Seq(Nat), NEW sample \in Nat,
           cloud' = Append(cloud, sample)
    PROVE  Cardinality(Repeats')
              = Cardinality(Repeats)
                   + (IF cloud # <<>> /\ cloud[Len(cloud)] = sample THEN 1 ELSE 0)
  <1> DEFINE n == Len(cloud)
  <1>1. /\ n \in Nat
        /\ Len(cloud') = n + 1
        /\ \A i \in 1 .. n : cloud'[i] = cloud[i]
        /\ cloud'[n + 1] = sample
        /\ cloud = <<>> <=> n = 0
    OBVIOUS
  <1>2. IsFiniteSet(Repeats) /\ n + 1 \notin Repeats /\ Cardinality(Repeats) \in Nat
    BY <1>1, RepeatsFinite DEF Repeats
  <1> HIDE DEF n
  <1>3. CASE n # 0 /\ cloud[n] = sample
    <2>1. Repeats' = Repeats \union {n + 1}
      BY <1>1, <1>3 DEF Repeats, n
    <2>2. Cardinality(Repeats \union {n + 1}) = Cardinality(Repeats) + 1
      BY <1>2, FS_AddElement
    <2> QED
      BY <1>1, <1>3, <2>1, <2>2 DEF n
  <1>4. CASE ~(n # 0 /\ cloud[n] = sample)
    <2>1. Repeats' = Repeats
      BY <1>1, <1>4 DEF Repeats, n
    <2> QED
      BY <1>1, <1>2, <1>4, <2>1 DEF n
  <1> QED
    BY <1>3, <1>4

-----------------------------------------------------------------------------
(* The order is kept, kind by kind of step. The invariant of the file      *)
(* system after the step gives the types of the new sequences.             *)

SamplesInv == FifoInv /\ ProcessState /\ SentBeforeDeleted /\ InOrder

(* The number of the sample being written is not the mark of a torn place. *)
LEMMA FileCounted ==
    ASSUME FifoInv, op # Idle PROVE fileCount # Torn
  BY DEF FifoInv, WriteInProgress, Torn

(* A call that moves no sample keeps the order.                            *)
LEMMA CallsInOrder ==
    ASSUME SamplesInv, Calls PROVE InOrder'
  <1> SUFFICES ASSUME ~interrupted' PROVE (StoreInOrder /\ SentInOrder /\ RepeatsBounded)'
    BY DEF InOrder
  <1>1. ~interrupted /\ StoreInOrder /\ SentInOrder /\ RepeatsBounded
    BY DEF Calls, SamplesInv, InOrder
  <1>2. GivenUp' = GivenUp /\ Kept' = Kept /\ (pc = "store") = (pc' = "store")
    BY DEF Calls, GivenUp, Kept
  <1>3. StoreInOrder'
    BY <1>1, <1>2 DEF Calls, StoreInOrder
  <1>4. SentInOrder'
    BY <1>1, <1>2 DEF Calls, SentInOrder
  <1>5. SentAgain' = SentAgain /\ Repeats' = Repeats
    BY <1>2 DEF Calls, SentAgain, Repeats
  <1> QED
    BY <1>1, <1>3, <1>4, <1>5 DEF RepeatsBounded, Calls

(* A restart between two samples keeps the order; the oldest sample may    *)
(* now be sent once more, and that is the restart that pays for it. A      *)
(* restart in the middle of a write into a full directory is the one that  *)
(* "interrupted" excepts.                                                  *)
LEMMA RestartedInOrder ==
    ASSUME SamplesInv, Restarted PROVE InOrder'
  <1> SUFFICES ASSUME ~interrupted' PROVE (StoreInOrder /\ SentInOrder /\ RepeatsBounded)'
    BY DEF InOrder
  <1>1. /\ ~interrupted /\ ~GivenUp
        /\ StoreInOrder /\ SentInOrder /\ RepeatsBounded
    BY DEF Restarted, SamplesInv, InOrder, SentBeforeDeleted
  <1>2. ~GivenUp' /\ Kept' = Kept /\ pc' # "store"
    BY <1>1 DEF Restarted, GivenUp, Kept
  <1>3. StoreInOrder'
    BY <1>1, <1>2 DEF Restarted, StoreInOrder
  <1>4. SentInOrder'
    BY <1>1, <1>2 DEF Restarted, SentInOrder
  <1>5. Repeats' = Repeats /\ Cardinality(Repeats) \in Nat
    BY RepeatsCounted DEF SamplesInv, Restarted, Repeats
  <1>6. crashes \in Nat /\ crashes' = crashes + 1
    BY DEF Restarted, SamplesInv, SentBeforeDeleted
  <1> QED
    BY <1>1, <1>3, <1>4, <1>5, <1>6 DEF RepeatsBounded

(* A sample sent at once is the newest, and nothing is stored.             *)
LEMMA SentAtOnceInOrder ==
    ASSUME SamplesInv, SentAtOnce PROVE InOrder'
  <1> SUFFICES ASSUME ~interrupted' PROVE (StoreInOrder /\ SentInOrder /\ RepeatsBounded)'
    BY DEF InOrder
  <1>1. ~interrupted /\ StoreInOrder /\ SentInOrder /\ RepeatsBounded
    BY DEF SentAtOnce, SamplesInv, InOrder
  <1>2. Kept' = {} /\ ~SentAgain /\ ~SentAgain'
    <2>1. MaxFiles \in Nat \ {0}
      BY Samples DEF SamplesInv
    <2>2. ~GivenUp' /\ ~GivenUp
      BY DEF SentAtOnce, GivenUp
    <2> QED
      BY <2>2 DEF SentAtOnce, Kept, SentAgain
  <1>3. StoreInOrder'
    BY <1>2 DEF StoreInOrder
  <1>4. /\ fileCount \in Nat /\ fileCount' = fileCount + 1
        /\ \A k \in 1 .. Len(cloud) : cloud[k] \in 0 .. fileCount
        /\ cloud \in Seq(Nat) /\ cloud \in Seq(0 .. fileCount)
        /\ Len(cloud) \in Nat /\ DOMAIN cloud = 1 .. Len(cloud)
    BY Samples DEF SamplesInv, SentAtOnce, SentBeforeDeleted
  <1>5. crashes' = crashes /\ pc' # "store"
    BY DEF SentAtOnce
  <1>6. CASE cloud' = Append(cloud, fileCount')
    <2>1. /\ Len(cloud') = Len(cloud) + 1
          /\ DOMAIN cloud' = 1 .. Len(cloud) + 1
          /\ \A k \in 1 .. Len(cloud) : cloud'[k] = cloud[k]
          /\ cloud'[Len(cloud) + 1] = fileCount + 1
      BY <1>4, <1>6
    <2>2. SentInOrder'
      <3> SUFFICES ASSUME NEW k \in 1 .. Len(cloud) + 1
                   PROVE  cloud'[k] # Garbage /\ (k > 1 => cloud'[k - 1] <= cloud'[k])
        BY <1>2, <1>5, <2>1 DEF SentInOrder
      <3>1. CASE k = Len(cloud) + 1
        <4>1. k > 1 => k - 1 \in 1 .. Len(cloud)
          BY <1>4, <3>1
        <4> QED
          BY <1>4, <2>1, <3>1, <4>1 DEF Garbage
      <3>2. CASE k \in 1 .. Len(cloud)
        <4>1. k > 1 => k - 1 \in 1 .. Len(cloud)
          BY <1>4, <3>2
        <4> QED
          BY <1>1, <1>4, <2>1, <3>2, <4>1 DEF SentInOrder
      <3> QED
        BY <1>4, <3>1, <3>2
    <2>3. Cardinality(Repeats') = Cardinality(Repeats)
      <3>1. Cardinality(Repeats) \in Nat
        BY <1>4, RepeatsFinite DEF Repeats
      <3>2. cloud # <<>> => cloud[Len(cloud)] # fileCount'
        BY <1>4
      <3> QED
        BY <1>4, <1>6, <3>1, <3>2, RepeatsAfterSend
    <2> QED
      BY <1>1, <1>2, <1>3, <1>5, <2>2, <2>3 DEF RepeatsBounded
  <1>7. CASE cloud' = cloud
    <2>1. SentInOrder'
      BY <1>1, <1>2, <1>5, <1>7 DEF SentInOrder
    <2>2. Repeats' = Repeats
      BY <1>7 DEF Repeats
    <2> QED
      BY <1>1, <1>2, <1>3, <1>5, <2>1, <2>2 DEF RepeatsBounded
  <1> QED
    BY <1>6, <1>7 DEF SentAtOnce

(* The sample about to be stored is newer than all others.                 *)
LEMMA StoreBegunInOrder ==
    ASSUME SamplesInv, StoreBegun PROVE InOrder'
  <1> SUFFICES ASSUME ~interrupted' PROVE (StoreInOrder /\ SentInOrder /\ RepeatsBounded)'
    BY DEF InOrder
  <1>1. ~interrupted /\ StoreInOrder /\ SentInOrder /\ RepeatsBounded
    BY DEF StoreBegun, SamplesInv, InOrder
  <1>2. /\ fileCount \in Nat /\ fileCount' = fileCount + 1
        /\ Stored' = Stored /\ cloud' = cloud
        /\ Len(Stored) \in Nat
        /\ DOMAIN cloud = 1 .. Len(cloud)
        /\ \A i \in 1 .. Len(Stored) : Stored[i] \in 0 .. fileCount
        /\ \A k \in 1 .. Len(cloud) : cloud[k] \in 0 .. fileCount
        /\ crashes' = crashes /\ pc # "delete"
    BY Samples DEF SamplesInv, StoreBegun
  <1>3. Kept' \subseteq Kept /\ Kept = 1 .. Len(Stored)
    BY <1>2 DEF StoreBegun, Kept, GivenUp
  <1>4. StoreInOrder'
    BY <1>1, <1>2, <1>3 DEF StoreInOrder
  <1>5. SentInOrder'
    BY <1>1, <1>2, <1>3 DEF SentInOrder
  <1>6. Repeats' = Repeats /\ (SentAgain' => SentAgain)
    BY <1>2, <1>3 DEF Repeats, SentAgain
  <1>7. Cardinality(Repeats) \in Nat /\ crashes \in Nat
    BY RepeatsCounted DEF SamplesInv
  <1> QED
    BY <1>1, <1>2, <1>4, <1>5, <1>6, <1>7 DEF RepeatsBounded

(* Overwriting the oldest place of a full directory changes no place that  *)
(* is kept.                                                                *)
LEMMA PlaceGivenUpInOrder ==
    ASSUME SamplesInv, PlaceGivenUp PROVE InOrder'
  <1> SUFFICES ASSUME ~interrupted' PROVE (StoreInOrder /\ SentInOrder /\ RepeatsBounded)'
    BY DEF InOrder
  <1>1. ~interrupted /\ StoreInOrder /\ SentInOrder /\ RepeatsBounded
    BY DEF PlaceGivenUp, SamplesInv, InOrder
  <1>2. /\ Len(Stored) \in Nat /\ DOMAIN Stored = 1 .. Len(Stored)
        /\ Stored \in Seq(0 .. fileCount)
        /\ fileCount' = fileCount /\ cloud' = cloud /\ crashes' = crashes
        /\ pc = "store" /\ pc' = "store"
    BY Samples DEF SamplesInv, PlaceGivenUp
  <1>3. /\ Len(Stored') = Len(Stored)
        /\ \A i \in 2 .. Len(Stored) : Stored'[i] = Stored[i]
    BY <1>2 DEF PlaceGivenUp
  <1>4. Kept = 2 .. Len(Stored) /\ Kept' = 2 .. Len(Stored)
    BY <1>2, <1>3 DEF Kept, GivenUp, PlaceGivenUp
  <1>5. StoreInOrder'
    BY <1>1, <1>2, <1>3, <1>4 DEF StoreInOrder
  <1>6. SentInOrder'
    BY <1>1, <1>2, <1>3, <1>4 DEF SentInOrder
  <1>7. Repeats' = Repeats /\ ~SentAgain' /\ ~SentAgain
    BY <1>2, <1>4 DEF Repeats, SentAgain
  <1> QED
    BY <1>1, <1>2, <1>5, <1>6, <1>7 DEF RepeatsBounded

(* The sample stored is the last and the newest; if the directory was      *)
(* full, every other moves up by one place.                                *)
LEMMA SampleStoredInOrder ==
    ASSUME SamplesInv, SampleStored PROVE InOrder'
  <1> SUFFICES ASSUME ~interrupted' PROVE (StoreInOrder /\ SentInOrder /\ RepeatsBounded)'
    BY DEF InOrder
  <1>1. ~interrupted /\ StoreInOrder /\ SentInOrder /\ RepeatsBounded
    BY DEF SampleStored, SamplesInv, InOrder
  <1>2. /\ fileCount \in Nat /\ MaxFiles \in Nat \ {0}
        /\ Stored \in Seq(0 .. fileCount) /\ Len(Stored) \in Nat
        /\ \A i \in 1 .. Len(Stored) : Stored[i] \in 0 .. fileCount
        /\ DOMAIN cloud = 1 .. Len(cloud) /\ Len(cloud) \in Nat
        /\ \A k \in 1 .. Len(cloud) : cloud[k] \in 0 .. fileCount
        /\ fileCount' = fileCount /\ cloud' = cloud /\ crashes' = crashes
        /\ pc = "store" /\ pc' # "store" /\ pc # "delete"
    BY Samples DEF SamplesInv, SampleStored
  (* Place i of the new store was place i + shift, but for the last one.   *)
  <1>3. PICK shift \in {0, 1} :
           /\ shift = 1 <=> GivenUp
           /\ Len(Stored') = Len(Stored) - shift + 1
           /\ \A i \in 1 .. Len(Stored) - shift : Stored'[i] = Stored[i + shift]
           /\ Stored'[Len(Stored) - shift + 1] = fileCount
           /\ shift <= Len(Stored)
    <2>0. fileCount \in 0 .. fileCount
      BY <1>2
    <2>1. CASE Len(Stored) < MaxFiles /\ Stored' = Append(Stored, fileCount)
      <3>1. /\ Len(Stored') = Len(Stored) + 1
            /\ \A i \in 1 .. Len(Stored) : Stored'[i] = Stored[i]
            /\ Stored'[Len(Stored) + 1] = fileCount
        BY <1>2, <2>0, <2>1, Appended
      <3>2. ~GivenUp
        BY <1>2, <2>1 DEF GivenUp
      <3> WITNESS 0 \in {0, 1}
      <3> QED
        BY <1>2, <3>1, <3>2
    <2>2. CASE Len(Stored) = MaxFiles /\ Stored' = Append(Tail(Stored), fileCount)
      <3>1. /\ Len(Tail(Stored)) = Len(Stored) - 1
            /\ \A i \in 1 .. Len(Stored) - 1 : Tail(Stored)[i] = Stored[i + 1]
            /\ Tail(Stored) \in Seq(0 .. fileCount)
        BY <1>2, <2>2, Rest
      <3>2. /\ Len(Stored') = Len(Stored)
            /\ \A i \in 1 .. Len(Stored) - 1 : Stored'[i] = Stored[i + 1]
            /\ Stored'[Len(Stored)] = fileCount
        <4>1. PICK t \in Seq(0 .. fileCount) : t = Tail(Stored)
          BY <3>1
        <4>2. /\ Len(Append(t, fileCount)) = Len(t) + 1
              /\ \A i \in 1 .. Len(t) : Append(t, fileCount)[i] = t[i]
              /\ Append(t, fileCount)[Len(t) + 1] = fileCount
          BY <2>0, Appended
        <4> QED
          BY <1>2, <2>2, <3>1, <4>1, <4>2
      <3>3. GivenUp
        BY <1>2, <2>2 DEF GivenUp
      <3> WITNESS 1 \in {0, 1}
      <3> QED
        BY <1>2, <2>2, <3>2, <3>3
    <2> QED
      BY <2>1, <2>2 DEF SampleStored
  <1>4. Kept = 1 + shift .. Len(Stored) /\ Kept' = 1 .. Len(Stored) - shift + 1
    BY <1>2, <1>3 DEF Kept, GivenUp
  <1>5. \A i \in Kept' :
           \/ i = Len(Stored) - shift + 1 /\ Stored'[i] = fileCount
           \/ /\ i \in 1 .. Len(Stored) - shift
              /\ i + shift \in Kept
              /\ Stored'[i] = Stored[i + shift]
              /\ Stored'[i] < fileCount
              /\ Stored'[i] \in Nat \ {Torn}
    <2> SUFFICES ASSUME NEW i \in 1 .. Len(Stored) - shift
                 PROVE  /\ i + shift \in Kept
                        /\ Stored'[i] = Stored[i + shift]
                        /\ Stored'[i] < fileCount
                        /\ Stored'[i] \in Nat \ {Torn}
      BY <1>2, <1>3, <1>4
    <2>1. i + shift \in Kept /\ Stored'[i] = Stored[i + shift]
      BY <1>2, <1>3, <1>4
    <2> QED
      BY <1>1, <1>2, <1>4, <2>1 DEF StoreInOrder
  <1>6. fileCount # Torn
    BY FileCounted DEF SamplesInv, SampleStored, ProcessState
  <1>7. StoreInOrder'
    <2> SUFFICES ASSUME NEW i \in Kept'
                 PROVE  /\ Stored'[i] # Torn
                        /\ \A j \in Kept' : i < j => Stored'[i] < Stored'[j]
      BY <1>2 DEF StoreInOrder
    <2>1. Stored'[i] # Torn
      BY <1>5, <1>6
    <2>2. ASSUME NEW j \in Kept', i < j PROVE Stored'[i] < Stored'[j]
      <3>1. i \in 1 .. Len(Stored) - shift
        BY <1>2, <1>4, <2>2
      <3>2. CASE j = Len(Stored) - shift + 1
        BY <1>2, <1>3, <1>5, <3>1, <3>2
      <3>3. CASE j \in 1 .. Len(Stored) - shift
        <4>1. /\ i + shift \in Kept /\ j + shift \in Kept
              /\ i + shift < j + shift
              /\ Stored'[i] = Stored[i + shift] /\ Stored'[j] = Stored[j + shift]
          BY <1>2, <1>3, <1>4, <2>2, <3>1, <3>3
        <4> QED
          BY <1>1, <4>1 DEF StoreInOrder
      <3> QED
        BY <1>2, <1>4, <3>2, <3>3
    <2> QED
      BY <2>1, <2>2
  <1>8. ASSUME NEW k \in 1 .. Len(cloud), NEW i \in Kept'
        PROVE  cloud[k] <= Stored'[i] /\ (i > 1 \/ shift = 1 => cloud[k] < Stored'[i])
    <2>1. cloud[k] < fileCount /\ cloud[k] \in Nat
      BY <1>1, <1>2 DEF SentInOrder
    <2>2. CASE i + shift \in Kept /\ Stored'[i] = Stored[i + shift] /\ Stored'[i] \in Nat
      <3>1. /\ cloud[k] <= Stored[i + shift]
            /\ i + shift > 1 => cloud[k] < Stored[i + shift]
        BY <1>1, <1>2, <2>2 DEF SentInOrder
      <3> QED
        BY <1>4, <2>2, <3>1
    <2> QED
      BY <1>2, <1>5, <2>1, <2>2
  <1>9. SentInOrder'
    BY <1>1, <1>2, <1>8 DEF SentInOrder
  <1>10. SentAgain' => SentAgain
    <2> SUFFICES ASSUME SentAgain' PROVE SentAgain
      OBVIOUS
    <2>1. /\ cloud # <<>> /\ 1 \in Kept'
          /\ Stored'[1] = cloud[Len(cloud)]
          /\ Len(cloud) \in 1 .. Len(cloud)
          /\ cloud[Len(cloud)] \in Nat
      BY <1>2 DEF SentAgain, SamplesInv, SentBeforeDeleted
    <2>2. shift = 0
      BY <1>3, <1>8, <2>1
    <2>3. Stored'[1] # fileCount
      BY <1>1, <1>2, <2>1 DEF SentInOrder
    <2>4. 1 \in Kept /\ Stored'[1] = Stored[1]
      BY <1>5, <2>1, <2>2, <2>3
    <2> QED
      BY <1>2, <2>1, <2>4 DEF SentAgain
  <1>11. Repeats' = Repeats /\ Cardinality(Repeats) \in Nat /\ crashes \in Nat
    BY <1>2, RepeatsCounted DEF SamplesInv, Repeats
  <1> QED
    BY <1>1, <1>2, <1>7, <1>9, <1>10, <1>11 DEF RepeatsBounded

(* The oldest stored sample is not older than any sent before. It is a     *)
(* repetition only if a restart prevented its deletion.                    *)
LEMMA OldestSentInOrder ==
    ASSUME SamplesInv, OldestSent PROVE InOrder'
  <1> SUFFICES ASSUME ~interrupted' PROVE (StoreInOrder /\ SentInOrder /\ RepeatsBounded)'
    BY DEF InOrder
  <1>1. ~interrupted /\ StoreInOrder /\ SentInOrder /\ RepeatsBounded
    BY DEF OldestSent, SamplesInv, InOrder
  <1>2. /\ fileCount \in Nat /\ Len(Stored) \in Nat
        /\ \A i \in 1 .. Len(Stored) : Stored[i] \in 0 .. fileCount
        /\ DOMAIN cloud = 1 .. Len(cloud) /\ Len(cloud) \in Nat
        /\ \A k \in 1 .. Len(cloud) : cloud[k] \in 0 .. fileCount
        /\ fileCount' = fileCount /\ Stored' = Stored /\ crashes' = crashes
        /\ pc = "run" /\ pc' = "delete"
        /\ cloud \in Seq(0 .. fileCount) /\ cloud \in Seq(Nat)
        /\ Cardinality(Repeats) \in Nat /\ crashes \in Nat
    BY Samples, RepeatsCounted DEF SamplesInv, OldestSent, SentBeforeDeleted
  <1>3. Kept = 1 .. Len(Stored) /\ Kept' = 1 .. Len(Stored)
    BY <1>2 DEF Kept, GivenUp
  <1>4. 1 \in Kept /\ Len(Stored) >= 1
    BY <1>2, <1>3, StoredType DEF OldestSent, SamplesInv
  <1>5. /\ Stored[1] \in 0 .. fileCount /\ Stored[1] # Torn
        /\ cloud' = Append(cloud, Stored[1])
    BY <1>1, <1>2, <1>4 DEF StoreInOrder, OldestSent
  <1>6. /\ Len(cloud') = Len(cloud) + 1
        /\ DOMAIN cloud' = 1 .. Len(cloud) + 1
        /\ \A k \in 1 .. Len(cloud) : cloud'[k] = cloud[k]
        /\ cloud'[Len(cloud) + 1] = Stored[1]
    BY <1>2, <1>5
  <1>7. StoreInOrder'
    BY <1>1, <1>2, <1>3 DEF StoreInOrder
  <1>8. SentInOrder'
    <2> SUFFICES ASSUME NEW k \in 1 .. Len(cloud) + 1
                 PROVE  /\ cloud'[k] # Garbage
                        /\ k > 1 => cloud'[k - 1] <= cloud'[k]
                        /\ \A i \in Kept : cloud'[k] <= Stored[i]
                                           /\ (i > 1 => cloud'[k] < Stored[i])
      <3>1. /\ DOMAIN cloud' = 1 .. Len(cloud) + 1 /\ Kept' = Kept
            /\ pc' # "store" /\ Stored' = Stored
        BY <1>2, <1>3, <1>6
      <3> QED
        BY <3>1, Zenon DEF SentInOrder
    <2>1. CASE k \in 1 .. Len(cloud)
      <3>1. k > 1 => k - 1 \in 1 .. Len(cloud)
        BY <1>2, <2>1
      <3> QED
        BY <1>1, <1>2, <1>6, <2>1, <3>1 DEF SentInOrder
    <2>2. CASE k = Len(cloud) + 1
      <3>1. cloud'[k] = Stored[1] /\ Stored[1] # Garbage
        BY <1>5, <1>6, <2>2 DEF Garbage, Torn
      <3>2. k > 1 => cloud[k - 1] <= Stored[1] /\ cloud'[k - 1] = cloud[k - 1]
        <4>1. k > 1 => k - 1 \in 1 .. Len(cloud)
          BY <1>2, <2>2
        <4> QED
          BY <1>1, <1>2, <1>4, <1>6, <4>1 DEF SentInOrder
      <3>3. \A i \in Kept : Stored[1] <= Stored[i] /\ (i > 1 => Stored[1] < Stored[i])
        <4> TAKE i \in Kept
        <4>1. i = 1 \/ 1 < i
          BY <1>2, <1>3
        <4>2. Stored[i] \in Nat /\ Stored[1] \in Nat
          BY <1>2, <1>3, <1>4
        <4>3. 1 < i => Stored[1] < Stored[i]
          BY <1>1, <1>4 DEF StoreInOrder
        <4> QED
          BY <4>1, <4>2, <4>3
      <3> QED
        BY <3>1, <3>2, <3>3
    <2> QED
      BY <1>2, <2>1, <2>2
  <1>9. RepeatsBounded'
    <2>1. ~SentAgain'
      BY <1>2 DEF SentAgain
    <2>2. Cardinality(Repeats') = Cardinality(Repeats) + (IF SentAgain THEN 1 ELSE 0)
      <3>1. SentAgain <=> cloud # <<>> /\ cloud[Len(cloud)] = Stored[1]
        BY <1>2, <1>4 DEF SentAgain
      <3>2. Stored[1] \in Nat
        BY <1>5
      <3> QED
        BY <1>2, <1>5, <3>1, <3>2, RepeatsAfterSend
    <2> QED
      BY <1>1, <1>2, <2>1, <2>2 DEF RepeatsBounded
  <1> QED
    BY <1>7, <1>8, <1>9

(* What is left after the deletion is newer than what was sent.            *)
LEMMA OldestDroppedInOrder ==
    ASSUME SamplesInv, OldestDropped PROVE InOrder'
  <1> SUFFICES ASSUME ~interrupted' PROVE (StoreInOrder /\ SentInOrder /\ RepeatsBounded)'
    BY DEF InOrder
  <1>1. ~interrupted /\ StoreInOrder /\ SentInOrder /\ RepeatsBounded
    BY DEF OldestDropped, SamplesInv, InOrder
  <1>2. /\ fileCount \in Nat /\ Len(Stored) \in Nat
        /\ Stored \in Seq(0 .. fileCount)
        /\ \A i \in 1 .. Len(Stored) : Stored[i] \in 0 .. fileCount
        /\ DOMAIN cloud = 1 .. Len(cloud) /\ Len(cloud) \in Nat
        /\ \A k \in 1 .. Len(cloud) : cloud[k] \in 0 .. fileCount
        /\ fileCount' = fileCount /\ cloud' = cloud /\ crashes' = crashes
        /\ pc = "delete" /\ pc' = "run"
        /\ Cardinality(Repeats) \in Nat /\ crashes \in Nat
    BY Samples, RepeatsCounted DEF SamplesInv, OldestDropped
  <1>3. /\ Len(Stored') = Len(Stored) - 1
        /\ \A i \in 1 .. Len(Stored) - 1 : Stored'[i] = Stored[i + 1]
    BY <1>2, Rest DEF OldestDropped
  <1>4. Kept = 1 .. Len(Stored) /\ Kept' = 1 .. Len(Stored) - 1
    BY <1>2, <1>3 DEF Kept, GivenUp
  <1>5. \A i \in Kept' : i + 1 \in Kept /\ i + 1 > 1 /\ Stored'[i] = Stored[i + 1]
    BY <1>2, <1>3, <1>4
  <1>6. StoreInOrder'
    <2> SUFFICES ASSUME NEW i \in Kept'
                 PROVE  /\ Stored'[i] # Torn
                        /\ \A j \in Kept' : i < j => Stored'[i] < Stored'[j]
      BY <1>2 DEF StoreInOrder
    <2>1. \A j \in Kept' : i < j => i + 1 < j + 1
      BY <1>2, <1>4
    <2> QED
      BY <1>1, <1>5, <2>1 DEF StoreInOrder
  <1>7. \A k \in 1 .. Len(cloud), i \in Kept' : cloud[k] < Stored'[i]
    BY <1>1, <1>2, <1>5 DEF SentInOrder
  <1>8. \A i \in Kept' : Stored'[i] \in Nat
    BY <1>2, <1>4, <1>5
  <1>9. SentInOrder'
    BY <1>1, <1>2, <1>7, <1>8 DEF SentInOrder
  <1>10. ~SentAgain' /\ ~SentAgain
    <2>1. cloud # <<>> => Len(cloud) \in 1 .. Len(cloud)
      BY <1>2 DEF SamplesInv, SentBeforeDeleted
    <2> QED
      BY <1>2, <1>7, <1>8, <2>1 DEF SentAgain
  <1> QED
    BY <1>1, <1>2, <1>6, <1>9, <1>10 DEF RepeatsBounded, Repeats

(* Every step on the samples keeps the order.                              *)
LEMMA InOrderNext ==
    ASSUME SamplesInv, SampleStep PROVE InOrder'
  BY CallsInOrder, RestartedInOrder, SentAtOnceInOrder, StoreBegunInOrder,
     PlaceGivenUpInOrder, SampleStoredInOrder, OldestSentInOrder,
     OldestDroppedInOrder DEF SampleStep

-----------------------------------------------------------------------------
(* What a step of the application is to the file system: one of its steps, *)
(* or the number of a sample that is sent without being stored.            *)
LEMMA FileSystemStep ==
    ASSUME [AppNext]_allVars
    PROVE  [Next]_vars \/ TakeAndSend
  <1>1. /\ "data" \in Names /\ DataEntry \in DirEntries
        /\ SampleSize \in Sizes
    BY ApplicationAssumption
  <1>2. CASE Boot
    BY <1>1, <1>2 DEF Boot, InitFileSystem, Mount, Format, Remount,
                      OpenDirectory, Next
  <1>3. CASE Callback
    BY <1>1, <1>3 DEF Callback, TakeAndStore, StoreBlock, StoreDirectory,
                      SendOldest, DeleteOldest, Next
  <1>4. CASE Environment
    BY <1>4 DEF Environment, ConnectionChanged, SetUploadEnabled, Restart,
                LoseDisk, Next
  <1>5. CASE UNCHANGED allVars
    BY <1>5 DEF allVars
  <1> QED
    BY <1>2, <1>3, <1>4, <1>5 DEF AppNext

(* The files are those that are on the disk.                               *)
LEMMA StoredUnchanged == disk' = disk => Stored' = Stored
  BY StoredIsIn

(* The invariant of the file system holds under the application. Sending a *)
(* sample at once takes a number without writing a file.                   *)
LEMMA FifoInvAppNext ==
    ASSUME DiskKeepsBlocks, AppInv, [AppNext]_allVars
    PROVE  FifoInv'
  <1>1. FifoInv /\ OneDirectoryAsked
    BY Samples DEF AppInv
  <1>2. CASE [Next]_vars
    BY <1>1, <1>2, FifoInvNext
  <1>3. CASE TakeAndSend
    <2>1. /\ fileCount \in Nat /\ fileCount' = fileCount + 1
          /\ UNCHANGED <<disk, rootBlock, init, mount, op, result>>
      BY <1>1, <1>3 DEF TakeAndSend, FifoInv, IInv
    <2>2. op = Idle
      BY <1>3 DEF TakeAndSend, AppInv, ProcessState
    <2>3. FileBlocksOK'
      <3> SUFFICES ASSUME NEW b \in Blocks \ {0}
                   PROVE  FileBlockOK(disk[b])'
        BY <2>1 DEF FileBlocksOK
      <3>1. FileBlockOK(disk[b])
        BY <1>1 DEF FifoInv, FileBlocksOK
      <3> QED
        BY <2>1, <3>1 DEF FileBlockOK
    <2>4. IInv'
      BY <1>1, <2>1 DEF FifoInv, IInv, OpOK, Dirs
    <2>5. CacheMatchesMedia' /\ OneDirectoryOnDisk'
      BY <1>1, <2>1 DEF FifoInv, CacheMatchesMedia, OneDirectoryOnDisk
    <2>6. WriteInProgress'
      BY <2>1, <2>2 DEF WriteInProgress
    <2> QED
      BY <2>3, <2>4, <2>5, <2>6 DEF FifoInv
  <1> QED
    BY <1>2, <1>3, FileSystemStep

(* A root block that is written back is signed: it was read so, or FS_Format*)
(* signed it.                                                              *)
Signed(root) == root.sig /\ root.storageNumBlocks # 0

(* Every root block that is written back is signed.                        *)
LEMMA RootSignedNext ==
    ASSUME DiskKeepsBlocks, OneDirectoryAsked, FifoInv, RootSigned, [Next]_vars
    PROVE  RootSigned'
  <1>1. 0 \in Blocks
    BY TotalBlocksAssumption DEF Blocks
  <1>2. mount' => mount \/ (disk' = disk /\ Signed(disk[0]))
    BY DEF Next, FS_Init, FS_Mount, FS_Format, FS_AddDirectory, Return,
           FS_DeleteOldestFileInDirectory, FS_WriteFile, WriteData,
           WriteHeader, WriteFileBlock, WriteDirectory, Crash,
           RestartDiskHost, vars, Signed
  <1>3. CASE disk'[0] = disk[0]
    BY <1>2, <1>3 DEF RootSigned, Signed
  <1>4. ASSUME NEW root, WriteRootBlock(root), Signed(root) PROVE RootSigned'
    BY <1>4, KeptRootWrite DEF FifoInv, RootSigned, Signed
  <1>5. CASE RootCall(Formatted)
    BY <1>4, <1>5, TotalBlocksAssumption DEF RootCall, Formatted, Signed
  <1>6. ASSUME NEW dirs, mount, WriteRootBlock([rootBlock EXCEPT !.dirs = dirs])
        PROVE  RootSigned'
    <2>1. Signed(rootBlock) /\ rootBlock \in RootBlock
      BY <1>6 DEF RootSigned, Signed, FifoInv, CacheMatchesMedia, IInv, RootOK
    <2>2. Signed([rootBlock EXCEPT !.dirs = dirs])
      BY <2>1 DEF Signed, RootBlock
    <2> QED
      BY <1>4, <1>6, <2>2
  <1>7. CASE DirectoryAdded
    BY <1>6, <1>7 DEF DirectoryAdded, RootCall
  <1>8. ASSUME NEW dir, NEW x, mount,
               WriteRootBlock([rootBlock EXCEPT !.dirs[x] = dir])
        PROVE  RootSigned'
    <2>1. [rootBlock EXCEPT !.dirs[x] = dir]
             = [rootBlock EXCEPT !.dirs = [rootBlock.dirs EXCEPT ![x] = dir]]
      OBVIOUS
    <2> QED
      BY <1>6, <1>8, <2>1
  <1>9. CASE OldestDeleted
    BY <1>8, <1>9 DEF OldestDeleted, RootCall
  <1>10. CASE WriteDirectory
    <2>1. op # Idle
      BY <1>10 DEF WriteDirectory, Idle
    <2> QED
      BY <1>8, <1>10, <2>1, OpOnDisk DEF WriteDirectory
  <1>11. CASE WriteData
    BY <1>1, <1>3, <1>11, DataWritten DEF FifoInv
  <1>12. CASE WriteHeader
    BY <1>1, <1>3, <1>12, HeaderWritten DEF FifoInv
  <1>13. CASE Quiet \/ WriteBegun
    BY <1>3, <1>13 DEF Quiet, WriteBegun
  <1> QED
    BY <1>5, <1>7, <1>9, <1>10, <1>11, <1>12, <1>13, StepKinds DEF FifoInv

(* Only files of the size of a sample are written.                         *)
LEMMA SamplesOnlyNext ==
    ASSUME DiskKeepsBlocks, OneDirectoryAsked, FifoInv, SamplesOnly, [Next]_vars
    PROVE  SamplesOnly'
  <1>1. ASSUME NEW root, WriteRootBlock(root), op' = op \/ op' = Idle
        PROVE  SamplesOnly'
    BY <1>1, KeptRootWrite DEF FifoInv, SamplesOnly
  <1>2. CASE RootCall(Formatted) \/ DirectoryAdded \/ OldestDeleted
    BY <1>1, <1>2 DEF RootCall, DirectoryAdded, OldestDeleted
  <1>3. CASE WriteDirectory
    BY <1>1, <1>3 DEF WriteDirectory
  <1>4. CASE Quiet
    BY <1>4 DEF Quiet, SamplesOnly
  <1>5. CASE WriteBegun
    <2>1. disk' = disk /\ op'.size = SampleSize
      BY <1>5, ApplicationAssumption DEF WriteBegun
    <2> QED
      BY <2>1 DEF SamplesOnly
  <1>6. CASE WriteData
    <2>1. /\ op # Idle /\ op'.size = op.size
          /\ disk'[OpHeaderBlock + op.next].kind = "data"
          /\ \A b \in Blocks \ {OpHeaderBlock + op.next} : disk'[b] = disk[b]
      BY <1>6, DataWritten DEF FifoInv
    <2> QED
      BY <2>1 DEF SamplesOnly
  <1>7. CASE WriteHeader
    <2>1. /\ op # Idle /\ op'.size = op.size
          /\ disk'[OpHeaderBlock].size = op.size
          /\ \A b \in Blocks \ {OpHeaderBlock} : disk'[b] = disk[b]
      BY <1>7, HeaderWritten DEF FifoInv
    <2> QED
      BY <2>1 DEF SamplesOnly
  <1> QED
    BY <1>2, <1>3, <1>4, <1>5, <1>6, <1>7, StepKinds DEF FifoInv

-----------------------------------------------------------------------------
(* What each action of the application does to the samples.                *)

Settled == DiskKeepsBlocks /\ ReadsAnswered /\ AppInv

(* InitializeFileSystem loses no sample: a disk that is formatted held     *)
(* none.                                                                   *)
LEMMA BootKinds ==
    ASSUME Settled, Boot PROVE Calls /\ ProcessState'
  <1>0. /\ FifoInv /\ OneDirectoryAsked /\ DiskKeepsBlocks /\ ReadOutcomes = {0}
        /\ CacheMatchesMedia /\ OneDirectoryOnDisk /\ IInv
        /\ -1 # 0 /\ DataEntry \in DirEntries
    BY Samples, ApplicationAssumption DEF Settled, AppInv, ReadsAnswered, FifoInv
  <1>1. op = Idle /\ (pc # "init" => init) /\ UNCHANGED <<cloud, crashes, interrupted>>
    BY DEF Boot, InitFileSystem, Mount, Format, Remount, OpenDirectory,
           Branch, Goto, Settled, AppInv, ProcessState
  <1>2. CASE InitFileSystem
    <2>1. /\ UNCHANGED <<disk, rootBlock, mount, op, fileCount>>
          /\ init' = TRUE /\ pc' = "mount" /\ pc = "init"
      BY <1>2 DEF InitFileSystem, FS_Init, Branch, Goto
    <2> QED
      BY <1>1, <2>1, StoredUnchanged DEF Calls, ProcessState
  <1>3. ASSUME FS_Mount, pc \in {"mount", "remount"},
               pc' = IF result' = 0 THEN "directory"
                     ELSE IF pc = "mount" THEN "format" ELSE "exit"
        PROVE  Calls /\ ProcessState'
    <2>1. /\ rootBlock' = disk[0]
          /\ UNCHANGED <<disk, init, op, fileCount>>
          /\ mount' = (mount \/ Signed(disk[0]))
          /\ result' = IF Signed(disk[0]) THEN 0 ELSE -1
      BY <1>0, <1>1, <1>3 DEF FS_Mount, Signed
    <2>2. Stored' = Stored
      BY <2>1, StoredUnchanged
    <2>3. CASE Signed(disk[0])
      BY <1>1, <1>3, <2>1, <2>2, <2>3 DEF Calls, ProcessState
    <2>4. CASE ~Signed(disk[0])
      <3>1. Stored' = <<>> /\ pc' \in {"format", "exit"}
        BY <1>0, <1>3, <2>1, <2>2, <2>4, StoredIsIn DEF Settled, AppInv, RootSigned, Signed
      <3> QED
        BY <1>1, <1>3, <2>1, <2>2, <3>1 DEF Calls, ProcessState
    <2> QED
      BY <2>3, <2>4
  <1>4. CASE Mount \/ Remount
    BY <1>3, <1>4 DEF Mount, Remount, Branch, Goto
  <1>5. CASE Format
    <2>1. /\ RootCall(Formatted) /\ UNCHANGED init
          /\ pc = "format" /\ pc' \in {"remount", "exit"}
      BY <1>1, <1>5 DEF Format, FS_Format, RootCall, Formatted, Branch, Goto
    <2>2. Stored' = <<>> /\ Stored = <<>>
      BY <1>0, <2>1, StoredAfterFormat DEF Settled, AppInv, ProcessState
    <2> QED
      BY <1>1, <2>1, <2>2 DEF Calls, ProcessState, RootCall
  <1>6. CASE OpenDirectory
    <2>0. pc = "directory" /\ mount /\ init
      BY <1>1, <1>6 DEF OpenDirectory, Settled, AppInv, ProcessState
    <2>1. CASE FS_GetDirectoryByName("data")
      <3>1. UNCHANGED vars /\ pc' = "run"
        BY <1>6, <2>1 DEF OpenDirectory, Goto
      <3>2. Len(Dirs) = 1
        BY <1>0, <2>0, <2>1, TheDirectory DEF FS_GetDirectoryByName, CacheMatchesMedia
      <3> QED
        BY <1>1, <2>0, <3>1, <3>2, StoredUnchanged DEF Calls, ProcessState, Dirs, vars
    <2>2. CASE ~FS_GetDirectoryByName("data")
      <3>1. /\ FS_AddDirectory(DataEntry)
            /\ pc' = IF result' = 0 THEN "run" ELSE "exit"
        BY <1>6, <2>2 DEF OpenDirectory, Branch, Goto
      <3>2. CASE Return(-1)
        BY <1>0, <1>1, <2>0, <3>1, <3>2, StoredUnchanged DEF Return, Calls, ProcessState, Dirs
      <3>3. CASE DirectoryAdded
        <4>1. Stored = <<>> /\ Stored' = <<>>
          BY <1>0, <3>3, StoredAfterAdd
        <4>2. /\ rootBlock' = [rootBlock EXCEPT !.dirs = <<NewRing(TheEntry)>>]
              /\ UNCHANGED <<mount, op, fileCount, init>>
          BY <1>0, <3>1, <3>3, KeptRootWrite
             DEF DirectoryAdded, RootCall, FS_AddDirectory, Return
        <4>3. Len(Dirs') = 1
          BY <1>0, <4>2 DEF Dirs, IInv, RootOK, RootBlock
        <4> QED
          BY <1>1, <2>0, <3>1, <4>1, <4>2, <4>3 DEF Calls, ProcessState, Dirs
      <3> QED
        BY <1>0, <3>1, <3>2, <3>3, AddDirectoryKind
    <2> QED
      BY <2>1, <2>2
  <1> QED
    BY <1>2, <1>4, <1>5, <1>6 DEF Boot

(* The queue that the loop sees is the one on the disk.                    *)
LEMMA NumFilesIsLength ==
    ASSUME AppInv, pc \in {"run", "store", "delete"}
    PROVE  /\ init /\ mount /\ Len(Dirs) = 1
           /\ NumFiles = Len(Stored)
           /\ NumberOfFiles(Dirs[1]) = Len(Stored)
           /\ Len(Stored) \in Nat
           /\ Stored = <<>> <=> Len(Stored) = 0
  <1>1. init /\ mount /\ Len(Dirs) = 1
    BY DEF AppInv, ProcessState
  <1>2. Len(Stored) = NumberOfFiles(Dirs[1]) /\ Stored \in Seq(0 .. fileCount)
    BY <1>1, MountedStored DEF AppInv
  <1>3. Dirs # <<>>
    BY <1>1
  <1> QED
    BY <1>1, <1>2, <1>3 DEF NumFiles, FS_IsFileSystemReady

(* The branch of TelemetryTimerCallbackHandler that sends at once.         *)
LEMMA TakeAndSendKind ==
    ASSUME Settled, TakeAndSend PROVE SentAtOnce /\ ProcessState'
  <1>1. /\ pc = "run" /\ pc' = "run" /\ NumFiles = 0
        /\ UNCHANGED <<disk, rootBlock, init, mount, op, crashes, interrupted>>
        /\ fileCount' = fileCount + 1
        /\ cloud' = Append(cloud, fileCount') \/ cloud' = cloud
    BY DEF TakeAndSend, SendsAtOnce, Accept, Reject
  <1>2. Stored = <<>> /\ Stored' = <<>>
    BY <1>1, NumFilesIsLength, StoredUnchanged DEF Settled
  <1> QED
    BY <1>1, <1>2 DEF SentAtOnce, ProcessState, Settled, AppInv, Dirs

(* Its branch that stores: FS_WriteFile refuses or begins.                 *)
LEMMA TakeAndStoreKind ==
    ASSUME Settled, TakeAndStore PROVE (Calls \/ StoreBegun) /\ ProcessState'
  <1>1. /\ pc = "run" /\ FS_WriteFile("data", SampleSize)
        /\ pc' = (IF op' = Idle THEN "exit" ELSE "store")
        /\ UNCHANGED <<cloud, crashes, interrupted>>
    BY DEF TakeAndStore, Goto
  <1>2. /\ IInv /\ CacheMatchesMedia /\ OneDirectoryOnDisk /\ op = Idle
        /\ "data" \in Names /\ SampleSize \in Sizes
        /\ init /\ mount /\ Len(Dirs) = 1
    BY <1>1, ApplicationAssumption DEF Settled, AppInv, FifoInv, ProcessState
  <1>3. CASE Return(-1)
    BY <1>1, <1>2, <1>3, StoredUnchanged DEF Return, Calls, ProcessState, Dirs
  <1>4. CASE WriteBegun
    <2>1. /\ op' # Idle /\ fileCount' = fileCount + 1
          /\ UNCHANGED <<disk, rootBlock, init, mount>>
      BY <1>4 DEF WriteBegun, Idle
    <2> QED
      BY <1>1, <1>2, <2>1, StoredUnchanged DEF StoreBegun, ProcessState, Dirs
  <1> QED
    BY <1>1, <1>2, <1>3, <1>4, WriteFileKind

(* A block written for a sample leaves the store as it was, or gives up    *)
(* the oldest place of a full one.                                         *)
LEMMA StoreBlockKind ==
    ASSUME Settled, StoreBlock PROVE (Calls \/ PlaceGivenUp) /\ ProcessState'
  <1>1. /\ pc = "store" /\ pc' = "store" /\ (WriteData \/ WriteHeader)
        /\ UNCHANGED <<cloud, crashes, interrupted>>
    BY DEF StoreBlock, appVars
  <1>2. FifoInv /\ DiskKeepsBlocks /\ TheEntry = DataEntry /\ IInv
    BY Samples DEF Settled, AppInv, FifoInv
  <1>3. Fifo!GiveUpOldest \/ UNCHANGED <<Stored, fileCount>>
    BY <1>1, <1>2, WriteDataRefines, WriteHeaderRefines
  <1>4. op' # Idle /\ UNCHANGED <<rootBlock, init, mount, fileCount>>
    BY <1>1, <1>2, DataWritten, HeaderWritten DEF WriteOp, Idle
  <1>5. ProcessState'
    BY <1>1, <1>4 DEF Settled, AppInv, ProcessState, Dirs
  <1>6. CASE Fifo!GiveUpOldest
    <2>1. /\ Len(Stored) = TheEntry.maxFiles
          /\ \E file \in {Torn, fileCount} : Stored' = [Stored EXCEPT ![1] = file]
      BY <1>6 DEF Fifo!GiveUpOldest
    <2> QED
      BY <1>1, <1>2, <1>4, <1>5, <2>1 DEF PlaceGivenUp, DataEntry
  <1>7. CASE UNCHANGED <<Stored, fileCount>>
    BY <1>1, <1>5, <1>7 DEF Calls
  <1> QED
    BY <1>3, <1>6, <1>7

(* The return of FS_WriteFile.                                             *)
LEMMA StoreDirectoryKind ==
    ASSUME Settled, StoreDirectory PROVE SampleStored /\ ProcessState'
  <1>1. /\ pc = "store" /\ pc' \in {"run", "exit"} /\ WriteDirectory
        /\ UNCHANGED <<cloud, crashes, interrupted>>
    BY DEF StoreDirectory, Branch, Goto
  <1>2. FifoInv /\ DiskKeepsBlocks /\ TheEntry = DataEntry /\ IInv
    BY Samples DEF Settled, AppInv, FifoInv
  <1>3. \/ /\ Len(Stored) < MaxFiles
           /\ Stored' = Append(Stored, fileCount)
        \/ /\ Len(Stored) = MaxFiles
           /\ Stored' = Append(Tail(Stored), fileCount)
    BY <1>1, <1>2, StoredAfterWrite DEF DataEntry
  <1>4. /\ init /\ mount /\ Len(Dirs) = 1 /\ op # Idle
    BY <1>1 DEF Settled, AppInv, ProcessState
  <1>5. /\ op' = Idle /\ UNCHANGED <<init, mount, fileCount>>
        /\ rootBlock' = [rootBlock EXCEPT !.dirs[op.dir] = AfterWrite(Dirs[op.dir])]
    BY <1>1, <1>2, KeptRootWrite DEF WriteDirectory, Dirs
  <1>6. Len(Dirs') = 1
    BY <1>2, <1>4, <1>5, OpOnDisk DEF Dirs, IInv, RootOK, RootBlock
  <1>7. ProcessState'
    BY <1>1, <1>4, <1>5, <1>6 DEF ProcessState, Dirs
  <1> QED
    BY <1>1, <1>3, <1>5, <1>7 DEF SampleStored

(* What is sent is what is stored, unless its place was given up.          *)
LEMMA OldestIsFirst ==
    ASSUME Settled, pc = "run", Stored # <<>>
    PROVE  /\ OldestSample \in 0 .. fileCount
           /\ Stored[1] \in {Torn, OldestSample}
  <1> DEFINE dir == Dirs[1]
             at == HeaderBlock(dir, dir.tail)
  <1>1. /\ FifoInv /\ SamplesOnly /\ mount /\ Len(Dirs) = 1
        /\ Len(Stored) \in Nat /\ Len(Stored) # 0
        /\ NumberOfFiles(dir) = Len(Stored) /\ TheEntry = DataEntry
    BY NumFilesIsLength, Samples DEF Settled, AppInv
  <1>2. /\ dir \in Directory /\ DirectoryWellFormed(dir)
        /\ dir.maxFiles \in Nat \ {0}
        /\ Stored[1] = FileIn(disk, dir, SlotOf(dir, 1))
    BY <1>1, MountedStored
  <1>3. dir.tail \in 0 .. dir.maxFiles - 1
    BY <1>2 DEF DirectoryWellFormed
  <1>4. SlotOf(dir, 1) = dir.tail
    BY <1>2, <1>3, RingSlots
  <1>5. NumBlocks(SampleSize) = 1 /\ SlotBlocks(dir) = 2
    <2>1. 1 \in DOMAIN Dirs
      BY <1>1 DEF FifoInv, IInv, RootOK, RootBlock, Dirs
    <2>2. dir.maxFileSize = 256
      BY <1>1, <2>1, TheDirectory DEF FifoInv, CacheMatchesMedia, DataEntry
    <2> QED
      BY <2>2 DEF NumBlocks, BLOCK_SIZE, SampleSize, SlotBlocks
  <1>6. at \in Blocks \ {0} /\ at + 1 \in Blocks \ {0}
    BY <1>2, <1>3, <1>5, SlotOnDevice
  <1>7. FileBlockOK(disk[at]) /\ FileBlockOK(disk[at + 1]) /\ fileCount \in Nat
    BY <1>1, <1>6 DEF FifoInv, FileBlocksOK, IInv
  <1>8. OldestSample = IF disk[at].kind = "header" /\ disk[at + 1].kind = "data"
                       THEN disk[at + 1].file ELSE Garbage
    BY DEF OldestSample
  <1>9. OldestSample \in 0 .. fileCount
    BY <1>7, <1>8 DEF FileBlockOK, Garbage
  <1>10. Stored[1] = Torn \/ Stored[1] = OldestSample
    <2>1. SUFFICES ASSUME Stored[1] # Torn PROVE Stored[1] = OldestSample
      OBVIOUS
    <2>2. /\ disk[at].kind = "header"
          /\ Stored[1] = disk[at].file
          /\ \A i \in 1 .. NumBlocks(disk[at].size) :
                disk[at + i] = [kind |-> "data", file |-> disk[at].file, index |-> i]
      BY <1>2, <1>4, <2>1 DEF FileIn
    <2>3. NumBlocks(disk[at].size) = 1
      BY <1>1, <1>5, <1>6, <2>2 DEF SamplesOnly
    <2>4. disk[at + 1] = [kind |-> "data", file |-> disk[at].file, index |-> 1]
      BY <2>2, <2>3
    <2> QED
      BY <1>8, <2>2, <2>4
  <1> QED
    BY <1>9, <1>10

(* The upload of the oldest sample, or the end of the process over it.     *)
LEMMA SendOldestKind ==
    ASSUME Settled, SendOldest PROVE (Calls \/ OldestSent) /\ ProcessState'
  <1>1. /\ pc = "run" /\ NumFiles # 0
        /\ UNCHANGED <<disk, rootBlock, init, mount, op, fileCount, crashes, interrupted>>
        /\ \/ cloud' = cloud /\ pc' = "exit"
           \/ /\ pc' = "delete"
              /\ \E r \in ReadOutcomes :
                    cloud' = Append(cloud,
                        IF r = 0 /\ NumFiles > 0 THEN OldestSample ELSE Garbage)
    BY DEF SendOldest, Forwards, Accept, Reject, vars
  <1>2. Stored # <<>> /\ Stored' = Stored /\ NumFiles > 0
    BY <1>1, NumFilesIsLength, StoredUnchanged DEF Settled
  <1>3. ProcessState'
    BY <1>1 DEF Settled, AppInv, ProcessState, Dirs
  <1>4. CASE cloud' = cloud /\ pc' = "exit"
    BY <1>1, <1>2, <1>3, <1>4 DEF Calls
  <1>5. CASE pc' = "delete"
    <2>1. cloud' = Append(cloud, OldestSample)
      BY <1>1, <1>2, <1>5 DEF Settled, ReadsAnswered
    <2>2. /\ OldestSample \in 0 .. fileCount
          /\ Stored[1] \in {Torn, OldestSample}
      BY <1>1, <1>2, OldestIsFirst
    <2> QED
      BY <1>1, <1>2, <1>3, <1>5, <2>1, <2>2 DEF OldestSent
  <1> QED
    BY <1>1, <1>4, <1>5

(* Its deletion: there is a sample to delete.                              *)
LEMMA DeleteOldestIsDrop ==
    ASSUME Settled, DeleteOldest PROVE OldestDropped /\ ProcessState'
  <1>1. /\ pc = "delete" /\ pc' = "run"
        /\ FS_DeleteOldestFileInDirectory("data")
        /\ UNCHANGED <<cloud, crashes, interrupted>>
    BY DEF DeleteOldest, Goto
  <1>2. /\ FifoInv /\ IInv /\ CacheMatchesMedia /\ OneDirectoryOnDisk
        /\ DiskKeepsBlocks /\ "data" \in Names /\ op = Idle
    BY <1>1, ApplicationAssumption DEF Settled, AppInv, FifoInv, ProcessState
  <1>3. Stored # <<>> /\ init /\ mount /\ Len(Dirs) = 1
        /\ NumberOfFiles(Dirs[1]) # 0
    BY <1>1, NumFilesIsLength DEF Settled, AppInv, SentBeforeDeleted
  <1>4. OldestDeleted
    BY <1>1, <1>2, <1>3, DeleteOldestKind
  <1>5. Stored' = Tail(Stored)
    BY <1>2, <1>4, StoredAfterDelete
  <1>6. /\ rootBlock' = [rootBlock EXCEPT !.dirs[1] = AfterDelete(Dirs[1])]
        /\ UNCHANGED <<mount, op, fileCount>>
    BY <1>2, <1>4, KeptRootWrite DEF OldestDeleted, RootCall, Dirs
  <1>7. init' = init
    BY <1>1 DEF FS_DeleteOldestFileInDirectory, Return
  <1>8. Len(Dirs') = 1
    BY <1>2, <1>3, <1>6 DEF Dirs, IInv, RootOK, RootBlock
  <1> QED
    BY <1>1, <1>2, <1>3, <1>5, <1>6, <1>7, <1>8 DEF OldestDropped, ProcessState, Dirs

(* A restart, which is an interruption exactly when dirFull is set and a   *)
(* write is in progress.                                                   *)
LEMMA RestartKind ==
    ASSUME Settled, Restart PROVE Restarted /\ ProcessState'
  <1>1. /\ UNCHANGED <<disk, fileCount, cloud>> /\ op' = Idle
        /\ pc' = "init" /\ crashes' = crashes + 1
        /\ interrupted' = (interrupted \/ (op # Idle /\ Dirs[op.dir].dirFull = 1))
    BY DEF Restart, Crash
  <1>2. (op # Idle /\ Dirs[op.dir].dirFull = 1) <=> GivenUp
    <2>1. op # Idle <=> pc = "store"
      BY DEF Settled, AppInv, ProcessState
    <2>2. ASSUME op # Idle
          PROVE  Dirs[op.dir].dirFull = 1 <=> Len(Stored) = MaxFiles
      <3>1. op.dir = 1 /\ mount /\ Len(Dirs) = 1 /\ TheEntry = DataEntry
        BY <2>2, OpOnDisk, Samples DEF Settled, AppInv
      <3>2. /\ Dirs[1] \in Directory /\ DirectoryWellFormed(Dirs[1])
            /\ Dirs[1].maxFiles = MaxFiles
            /\ Len(Stored) = NumberOfFiles(Dirs[1])
        BY <3>1, MountedStored DEF Settled, AppInv, DataEntry
      <3> QED
        BY <3>1, <3>2, RingSlots
    <2> QED
      BY <2>1, <2>2 DEF GivenUp
  <1>3. interrupted' = (interrupted \/ GivenUp)
    BY <1>1, <1>2, Zenon
  <1>4. ProcessState'
    BY <1>1 DEF ProcessState
  <1> QED
    BY <1>1, <1>3, <1>4, StoredUnchanged DEF Restarted

(* Every step of the application is one of these steps on the samples.     *)
LEMMA AppStep ==
    ASSUME Settled, [AppNext]_allVars PROVE SampleStep /\ ProcessState'
  <1> USE DEF SampleStep
  <1>1. ASSUME UNCHANGED <<vars, cloud, crashes, interrupted, pc>>
        PROVE  SampleStep /\ ProcessState'
    BY <1>1, StoredUnchanged DEF Calls, ProcessState, vars, Dirs, Settled, AppInv
  <1>2. CASE Boot
    BY <1>2, BootKinds
  <1>3. CASE Callback
    BY <1>3, TakeAndSendKind, TakeAndStoreKind, StoreBlockKind,
       StoreDirectoryKind, SendOldestKind, DeleteOldestIsDrop DEF Callback
  <1>4. CASE Environment
    BY <1>1, <1>4, RestartKind DEF Environment, ConnectionChanged,
       SetUploadEnabled, LoseDisk, RestartDiskHost, Settled, DiskKeepsBlocks
  <1>5. CASE UNCHANGED allVars
    BY <1>1, <1>5 DEF allVars, appVars
  <1> QED
    BY <1>2, <1>3, <1>4, <1>5 DEF AppNext

(* What a step does to the variables of the application.                   *)
LEMMA SentBeforeDeletedNext ==
    ASSUME SamplesInv, SampleStep PROVE SentBeforeDeleted'
  <1>1. /\ fileCount \in Nat /\ crashes \in Nat /\ interrupted \in BOOLEAN
        /\ cloud \in Seq(0 .. fileCount)
    BY Samples DEF SamplesInv, SentBeforeDeleted
  <1>2. fileCount' = fileCount \/ fileCount' = fileCount + 1
    BY DEF SampleStep, Calls, Restarted, SentAtOnce, StoreBegun, PlaceGivenUp,
           SampleStored, OldestSent, OldestDropped
  <1>3. crashes' \in Nat /\ interrupted' \in BOOLEAN
    <2>1. crashes' = crashes \/ crashes' = crashes + 1
      BY DEF SampleStep, Calls, Restarted, SentAtOnce, StoreBegun, PlaceGivenUp,
             SampleStored, OldestSent, OldestDropped
    <2>2. interrupted' \in BOOLEAN
      BY <1>1 DEF SampleStep, Calls, Restarted, SentAtOnce, StoreBegun, PlaceGivenUp,
             SampleStored, OldestSent, OldestDropped
    <2> QED
      BY <1>1, <2>1, <2>2
  <1>4. cloud' \in Seq(0 .. fileCount')
    <2>1. 0 .. fileCount \subseteq 0 .. fileCount'
      BY <1>1, <1>2
    <2>2. cloud \in Seq(0 .. fileCount')
      BY <1>1, <2>1, LargerType
    <2>3. CASE cloud' = cloud
      BY <2>2, <2>3
    <2>4. ASSUME NEW sample \in 0 .. fileCount', cloud' = Append(cloud, sample)
          PROVE  cloud' \in Seq(0 .. fileCount')
      BY <2>2, <2>4, Appended
    <2>5. SentAtOnce => fileCount' \in 0 .. fileCount'
      BY <1>1 DEF SentAtOnce
    <2> QED
      BY <2>1, <2>3, <2>4, <2>5 DEF SampleStep, Calls, Restarted, SentAtOnce,
         StoreBegun, PlaceGivenUp, SampleStored, OldestSent, OldestDropped
  <1>5. ASSUME pc' = "delete"
        PROVE  Stored' # <<>> /\ cloud' # <<>> /\ Stored'[1] \in {Torn, cloud'[Len(cloud')]}
    <2>1. CASE Calls
      BY <1>5, <2>1 DEF Calls, SamplesInv, SentBeforeDeleted
    <2>2. CASE OldestSent
      <3>1. PICK sample \in 0 .. fileCount :
               Stored[1] \in {Torn, sample} /\ cloud' = Append(cloud, sample)
        BY <2>2 DEF OldestSent
      <3>2. cloud' # <<>> /\ cloud'[Len(cloud')] = sample
        BY <1>1, <3>1
      <3> QED
        BY <2>2, <3>1, <3>2 DEF OldestSent
    <2> QED
      BY <1>5, <2>1, <2>2 DEF SampleStep, Restarted, SentAtOnce,
         StoreBegun, PlaceGivenUp, SampleStored, OldestDropped
  <1> QED
    BY <1>3, <1>4, <1>5 DEF SentBeforeDeleted

-----------------------------------------------------------------------------
(* The theorems.                                                           *)

(* The invariant holds at first,                                           *)
LEMMA AppInvInit == AppInit => AppInv
  <1> SUFFICES ASSUME AppInit PROVE AppInv
    OBVIOUS
  <1>1. FifoInv
    BY FifoInvInit DEF AppInit
  <1>2. /\ pc = "init" /\ cloud = <<>> /\ crashes = 0 /\ interrupted = FALSE
        /\ mount = FALSE /\ op = Idle /\ fileCount = 0 /\ disk = BlankDisk
    BY DEF AppInit, Init
  <1>3. disk[0] = Blank /\ \A b \in Blocks \ {0} : disk[b] = [kind |-> "zero"]
    BY <1>2, TotalBlocksAssumption DEF BlankDisk, Blocks
  <1>4. Stored = <<>>
    BY <1>3, StoredIsIn DEF Blank
  <1>5. ProcessState /\ RootSigned /\ SamplesOnly
    BY <1>2, <1>3 DEF ProcessState, RootSigned, SamplesOnly, Blank
  <1>6. SentBeforeDeleted
    <2>1. <<>> \in Seq(0 .. fileCount)
      OBVIOUS
    <2> QED
      BY <1>2, <2>1 DEF SentBeforeDeleted
  <1>7. InOrder
    <2>1. Kept = {} /\ ~SentAgain
      BY <1>2, <1>4 DEF Kept, GivenUp, SentAgain
    <2>2. Repeats = {}
      BY <1>2 DEF Repeats
    <2> QED
      BY <1>2, <2>1, <2>2, FS_EmptySet
         DEF InOrder, StoreInOrder, SentInOrder, RepeatsBounded
  <1> QED
    BY <1>1, <1>5, <1>6, <1>7 DEF AppInv

(* every step keeps it,                                                    *)
LEMMA AppInvNext ==
    ASSUME DiskKeepsBlocks, ReadsAnswered, AppInv, [AppNext]_allVars
    PROVE  AppInv'
  <1>1. Settled /\ SamplesInv /\ FifoInv /\ OneDirectoryAsked
    BY Samples DEF Settled, SamplesInv, AppInv
  <1>2. SampleStep /\ ProcessState'
    BY <1>1, AppStep
  <1>3. FifoInv'
    BY FifoInvAppNext
  <1>4. RootSigned' /\ SamplesOnly'
    <2>1. CASE [Next]_vars
      BY <1>1, <2>1, RootSignedNext, SamplesOnlyNext DEF AppInv
    <2>2. CASE TakeAndSend
      BY <2>2 DEF TakeAndSend, AppInv, RootSigned, SamplesOnly
    <2> QED
      BY <2>1, <2>2, FileSystemStep
  <1>5. SentBeforeDeleted' /\ InOrder'
    BY <1>1, <1>2, SentBeforeDeletedNext, InOrderNext
  <1> QED
    BY <1>2, <1>3, <1>4, <1>5 DEF AppInv

(* and so it holds always.                                                 *)
LEMMA AppInvCorrect ==
    ASSUME DiskKeepsBlocks, ReadsAnswered
    PROVE  AppSpec => []AppInv
  BY AppInvInit, AppInvNext, PTL DEF AppSpec

(* The samples reach the cloud in the order they were taken, over any      *)
(* number of restarts that do not interrupt a write into a full directory. *)
THEOREM SamplesInOrder ==
    ASSUME DiskKeepsBlocks, ReadsAnswered
    PROVE  AppSpec => []OrderPreserved
  <1>1. AppInv => OrderPreserved
    <2> SUFFICES ASSUME AppInv, ~interrupted, NEW i \in 2 .. Len(cloud)
                 PROVE  cloud[i - 1] <= cloud[i]
      BY DEF OrderPreserved
    <2>1. i \in DOMAIN cloud /\ i > 1
      BY Samples DEF AppInv
    <2> QED
      BY <2>1 DEF AppInv, InOrder, SentInOrder
  <1> QED
    BY <1>1, AppInvCorrect, PTL

(* At most one sample is sent twice for every restart.                     *)
THEOREM SentTwiceByRestartsOnly ==
    ASSUME DiskKeepsBlocks, ReadsAnswered
    PROVE  AppSpec => []RepeatsAreRestarts
  <1>1. AppInv => RepeatsAreRestarts
    BY RepeatsCounted DEF AppInv, InOrder, RepeatsBounded, RepeatsAreRestarts
  <1> QED
    BY <1>1, AppInvCorrect, PTL

(* No sample leaves the store before it was sent, but the oldest of a full *)
(* directory for a new one. This holds also after a restart interrupted a  *)
(* write.                                                                  *)
LEMMA KeptStep ==
    ASSUME SamplesInv, SampleStep, NEW i \in DOMAIN Stored
    PROVE  \/ Stored[i] = Torn
           \/ Stored[i] \in Elements(Stored')
           \/ Stored[i] \in Elements(cloud)
           \/ i = 1 /\ Len(Stored) = MaxFiles /\ pc = "store"
  <1>1. /\ Stored \in Seq(0 .. fileCount) /\ Len(Stored) \in Nat
        /\ i \in 1 .. Len(Stored) /\ DOMAIN cloud = 1 .. Len(cloud)
        /\ Len(cloud) \in Nat /\ fileCount \in Nat
        /\ \A j \in 1 .. Len(Stored) : Stored[j] \in 0 .. fileCount
    BY Samples DEF SamplesInv
  <1>2. CASE Stored' = Stored
    BY <1>2 DEF Elements
  <1>3. CASE PlaceGivenUp
    <2>1. i = 1 \/ (i \in DOMAIN Stored' /\ Stored'[i] = Stored[i])
      BY <1>1, <1>3 DEF PlaceGivenUp
    <2> QED
      BY <1>3, <2>1 DEF PlaceGivenUp, Elements
  <1>4. CASE SampleStored
    <2>0. fileCount \in 0 .. fileCount
      BY <1>1
    <2>1. CASE Stored' = Append(Stored, fileCount)
      <3>1. i \in DOMAIN Stored' /\ Stored'[i] = Stored[i]
        BY <1>1, <2>0, <2>1
      <3> QED
        BY <3>1 DEF Elements
    <2>2. CASE Len(Stored) = MaxFiles /\ Stored' = Append(Tail(Stored), fileCount)
      <3>0. Stored # <<>> /\ Tail(Stored) \in Seq(0 .. fileCount)
        BY <1>1, Rest
      <3>1. PICK t \in Seq(0 .. fileCount) : t = Tail(Stored)
        BY <3>0
      <3>2. Len(t) = Len(Stored) - 1 /\ \A j \in 1 .. Len(t) : t[j] = Stored[j + 1]
        BY <1>1, <3>0, <3>1, Rest
      <3>3. i # 1 => i - 1 \in 1 .. Len(t) /\ t[i - 1] = Stored[i]
        BY <1>1, <3>2
      <3>4. i # 1 => i - 1 \in DOMAIN Stored' /\ Stored'[i - 1] = Stored[i]
        BY <2>0, <2>2, <3>1, <3>3
      <3> QED
        BY <1>4, <2>2, <3>4 DEF Elements, SampleStored
    <2> QED
      BY <1>4, <2>1, <2>2 DEF SampleStored
  <1>5. CASE OldestDropped
    <2>1. CASE i = 1
      <3>1. cloud # <<>> /\ Stored[1] \in {Torn, cloud[Len(cloud)]}
        BY <1>5 DEF OldestDropped, SamplesInv, SentBeforeDeleted
      <3>2. Len(cloud) \in DOMAIN cloud
        BY <1>1, <3>1 DEF SamplesInv, SentBeforeDeleted
      <3> QED
        BY <2>1, <3>1, <3>2 DEF Elements
    <2>2. CASE i # 1
      <3>1. i - 1 \in DOMAIN Stored' /\ Stored'[i - 1] = Stored[i]
        BY <1>1, <1>5, <2>2, Rest DEF OldestDropped
      <3> QED
        BY <3>1 DEF Elements
    <2> QED
      BY <2>1, <2>2
  <1> QED
    BY <1>2, <1>3, <1>4, <1>5 DEF SampleStep, Calls, Restarted, SentAtOnce,
       StoreBegun, OldestSent

(* KeptUntilAccepted, for every step of the application.                   *)
THEOREM SamplesKeptUntilAccepted ==
    ASSUME DiskKeepsBlocks, ReadsAnswered
    PROVE  AppSpec => KeptUntilAccepted
  <1>1. AppInv /\ [AppNext]_allVars =>
           [\A i \in DOMAIN Stored :
               \/ Stored[i] = Torn
               \/ Stored[i] \in Elements(Stored')
               \/ Stored[i] \in Elements(cloud)
               \/ i = 1 /\ Len(Stored) = MaxFiles /\ pc = "store"]_allVars
    <2> SUFFICES ASSUME AppInv, [AppNext]_allVars, NEW i \in DOMAIN Stored
                 PROVE  \/ Stored[i] = Torn
                        \/ Stored[i] \in Elements(Stored')
                        \/ Stored[i] \in Elements(cloud)
                        \/ i = 1 /\ Len(Stored) = MaxFiles /\ pc = "store"
      OBVIOUS
    <2>1. SamplesInv /\ Settled
      BY DEF AppInv, SamplesInv, Settled
    <2>2. SampleStep
      BY <2>1, AppStep
    <2> QED
      BY <2>1, <2>2, KeptStep
  <1> QED
    BY <1>1, AppInvInit, AppInvNext, PTL DEF AppSpec, KeptUntilAccepted

(* Under the application the directory is still the bounded FIFO that the  *)
(* file system promises: a sample that is sent at once takes a number, as  *)
(* one that is about to be stored does.                                    *)
THEOREM SamplesAreFifo ==
    ASSUME DiskKeepsBlocks, ReadsAnswered
    PROVE  AppSpec => FifoSpec
  <1>1. AppInit => Fifo!Init
    <2>1. AppInit => Stored = <<>>
      BY TotalBlocksAssumption DEF AppInit, Init, BlankDisk, Blank, Blocks, Stored
    <2> QED
      BY <2>1 DEF AppInit, Init, Fifo!Init
  <1>2. AppInv /\ [AppNext]_allVars => [Fifo!Next]_(Fifo!vars)
    <2> SUFFICES ASSUME AppInv, [AppNext]_allVars
                 PROVE  [Fifo!Next]_(Fifo!vars)
      OBVIOUS
    <2>1. FifoInv /\ OneDirectoryAsked
      BY Samples DEF AppInv
    <2>2. CASE [Next]_vars
      BY <2>1, <2>2, FifoStep
    <2>3. CASE TakeAndSend
      <3>1. fileCount' = fileCount + 1 /\ Stored' = Stored
        BY <2>3, StoredUnchanged DEF TakeAndSend
      <3> QED
        BY <3>1 DEF Fifo!Next, Fifo!Begin
    <2> QED
      BY <2>2, <2>3, FileSystemStep
  <1> QED
    BY <1>1, <1>2, AppInvCorrect, PTL DEF AppSpec, FifoSpec, Fifo!Spec

-----------------------------------------------------------------------------
(* The types, whatever becomes of the blocks. The sample that is sent was  *)
(* read from the disk, so its range depends on what the disk can hold:     *)
(* only blocks of files that were written, and directories whose slots     *)
(* have a data block.                                                      *)

Sized(root) == \A x \in DOMAIN root.dirs :
                  root.dirs[x].maxFileSize = DataEntry.maxFileSize

DiskSized == Sized(rootBlock) /\ Sized(disk[0])

FilesCounted ==
    /\ \A b \in Blocks \ {0} :
          disk[b].kind = "data" => disk[b].file \in 0 .. fileCount
    /\ op # Idle => op.file \in 0 .. fileCount

DiskInv == IInv /\ DiskSized /\ FilesCounted

(* Writing the root block leaves the others,                               *)
LEMMA RootWriteInv ==
    ASSUME DiskInv, NEW root, RootOK(root), Sized(root), WriteRootBlock(root),
           op' \in {op, Idle}, UNCHANGED fileCount
    PROVE  (DiskSized /\ FilesCounted)'
  <1>1. PICK w \in WriteOutcomes :
           disk' = IF w.done THEN [disk EXCEPT ![0] = root] ELSE disk
    BY DEF WriteRootBlock
  <1>2. rootBlock' = root
    BY DEF WriteRootBlock
  <1>3. \A b \in Blocks \ {0} : disk'[b] = disk[b]
    BY <1>1 DEF DiskInv, IInv
  <1>4. disk'[0] \in {root, disk[0]}
    <2>1. 0 \in Blocks
      BY TotalBlocksAssumption DEF Blocks
    <2> QED
      BY <1>1, <2>1 DEF DiskInv, IInv
  <1> QED
    BY <1>2, <1>3, <1>4 DEF DiskInv, DiskSized, FilesCounted

(* ... and writing a block of a file leaves the root block.                *)
LEMMA FileWriteInv ==
    ASSUME DiskInv, op # Idle, NEW block \in Nat \ {0}, NEW content,
           content.kind = "data" => content.file = op.file,
           NEW nextOp \in WriteOp, nextOp.file = op.file,
           WriteFileBlock(block, content, nextOp)
    PROVE  (DiskSized /\ FilesCounted)'
  <1>1. PICK w \in WriteOutcomes :
           /\ disk' = IF w.done THEN [disk EXCEPT ![block] = content] ELSE disk
           /\ op' = [nextOp EXCEPT !.failed = @ \/ w.result = -1]
           /\ UNCHANGED <<rootBlock, fileCount>>
    BY DEF WriteFileBlock
  <1>2. disk'[0] = disk[0]
    BY <1>1, TotalBlocksAssumption DEF DiskInv, IInv, Blocks
  <1>3. \A b \in Blocks : disk'[b] = disk[b] \/ disk'[b] = content
    BY <1>1 DEF DiskInv, IInv
  <1>4. op'.file = op.file
    BY <1>1 DEF WriteOp
  <1> QED
    BY <1>1, <1>2, <1>3, <1>4 DEF DiskInv, DiskSized, FilesCounted

(* Every step of the file system keeps what the disk can hold.             *)
LEMMA DiskInvNext ==
    ASSUME DiskInv, [Next]_vars PROVE DiskInv'
  <1>0. IInv' /\ IInv /\ fileCount \in Nat /\ DirEntries = {DataEntry}
    BY InvNext, ApplicationAssumption DEF DiskInv, IInv
  <1> SUFFICES DiskSized' /\ FilesCounted'
    BY <1>0 DEF DiskInv
  <1>1. ASSUME UNCHANGED <<disk, fileCount>>, op' \in {op, Idle},
               rootBlock' \in {rootBlock, disk[0], Blank}
        PROVE  DiskSized' /\ FilesCounted'
    BY <1>1 DEF DiskInv, DiskSized, FilesCounted, Sized, Blank
  <1>2. CASE FS_Init \/ FS_Mount \/ Crash \/ UNCHANGED vars \/ Return(-1)
    BY <1>1, <1>2 DEF FS_Init, FS_Mount, Crash, vars, Return
  <1>3. CASE FS_Format
    <2> DEFINE root == [sig |-> TRUE, storageNumBlocks |-> TotalBlocks, dirs |-> <<>>]
    <2>1. Sized(root) /\ RootOK(root)
      BY BlankRoots DEF Sized
    <2> HIDE DEF root
    <2>2. Return(-1) \/ (WriteRootBlock(root) /\ UNCHANGED <<op, fileCount>>)
      BY <1>3 DEF FS_Format, root
    <2> QED
      BY <1>2, <2>1, <2>2, RootWriteInv
  <1>4. ASSUME NEW entry \in DirEntries, FS_AddDirectory(entry), ~Return(-1)
        PROVE  DiskSized' /\ FilesCounted'
    <2> DEFINE dir == [dirName |-> entry.dirName,
                       maxFiles |-> entry.maxFiles,
                       maxFileSize |-> entry.maxFileSize,
                       firstBlock |-> NextBlock(entry),
                       head |-> 0, tail |-> 0, dirFull |-> 0]
               root == [rootBlock EXCEPT !.dirs = Append(@, dir)]
    <2>1. /\ ~RefusesDirectory(entry) /\ WriteRootBlock(root)
          /\ UNCHANGED <<op, fileCount>>
      BY <1>4 DEF FS_AddDirectory
    <2>2. dir \in Directory /\ DirectoryWellFormed(dir)
      BY <1>0, <2>1, NewDirectory
    <2>3. dir.maxFileSize = DataEntry.maxFileSize
      BY <1>0
    <2> HIDE DEF dir
    <2>4. RootOK(root)
      BY <1>0, <2>2, AppendDirectory DEF IInv
    <2>5. Sized(root)
      <3>1. root.dirs = Append(rootBlock.dirs, dir) /\ rootBlock.dirs \in Seq(Directory)
        BY <1>0 DEF IInv, RootOK, RootBlock
      <3>2. \A x \in DOMAIN root.dirs :
               root.dirs[x] = dir \/ (x \in DOMAIN rootBlock.dirs
                                      /\ root.dirs[x] = rootBlock.dirs[x])
        BY <2>2, <3>1
      <3> QED
        BY <2>3, <3>2 DEF Sized, DiskInv, DiskSized
    <2> QED
      BY <2>1, <2>4, <2>5, RootWriteInv
  <1>5. ASSUME NEW x \in DOMAIN Dirs,
               NEW new \in {AfterWrite(Dirs[x]), AfterDelete(Dirs[x])},
               WriteRootBlock([rootBlock EXCEPT !.dirs[x] = new]),
               op' \in {op, Idle}, UNCHANGED fileCount
        PROVE  DiskSized' /\ FilesCounted'
    <2> DEFINE root == [rootBlock EXCEPT !.dirs[x] = new]
    <2>1. Dirs[x] \in Directory /\ DirectoryWellFormed(Dirs[x])
      BY <1>0 DEF IInv, RootOK, RootBlock, Dirs
    <2>2. new \in Directory /\ DirectoryWellFormed(new)
      BY <2>1, DirectoryUpdates
    <2>3. new.maxFileSize = Dirs[x].maxFileSize
      BY <2>1, SamePlace
    <2>4. RootOK(root)
      BY <1>0, <2>2, ReplaceDirectory DEF IInv, Dirs
    <2>5. Sized(root)
      <3>1. root.dirs = [rootBlock.dirs EXCEPT ![x] = new]
        BY <1>0 DEF IInv, RootOK, RootBlock
      <3>2. \A y \in DOMAIN root.dirs :
               /\ y \in DOMAIN rootBlock.dirs
               /\ root.dirs[y] = IF y = x THEN new ELSE rootBlock.dirs[y]
        BY <3>1 DEF Dirs
      <3> QED
        BY <2>3, <3>2 DEF Sized, DiskInv, DiskSized, Dirs
    <2> QED
      BY <1>5, <2>4, <2>5, RootWriteInv
  <1>6. ASSUME NEW name \in Names, FS_DeleteOldestFileInDirectory(name), ~Return(-1)
        PROVE  DiskSized' /\ FilesCounted'
    BY <1>5, <1>6 DEF FS_DeleteOldestFileInDirectory, Dirs
  <1>7. ASSUME NEW name \in Names, NEW size \in Sizes, FS_WriteFile(name, size),
               ~Return(-1)
        PROVE  DiskSized' /\ FilesCounted'
    <2>1. /\ fileCount' = fileCount + 1 /\ op'.file = fileCount + 1
          /\ UNCHANGED <<disk, rootBlock>>
      BY <1>7 DEF FS_WriteFile
    <2>2. fileCount + 1 \in 0 .. fileCount' /\ 0 .. fileCount \subseteq 0 .. fileCount'
      BY <1>0, <2>1
    <2> QED
      BY <2>1, <2>2 DEF DiskInv, DiskSized, FilesCounted
  <1>8. CASE WriteData
    <2> DEFINE content == [kind |-> "data", file |-> op.file, index |-> op.next]
               nextOp == IF op.next = NumBlocks(op.size)
                         THEN [op EXCEPT !.step = "header"]
                         ELSE [op EXCEPT !.next = @ + 1]
    <2>1. op # Idle
      BY <1>8 DEF WriteData, Idle
    <2>2. op \in WriteOp /\ OpHeaderBlock + op.next \in Nat \ {0}
      BY <1>0, <2>1, OpDirectory DEF WriteOp
    <2>3. nextOp \in WriteOp /\ nextOp.file = op.file
      BY <2>2 DEF WriteOp
    <2>4. content.file = op.file
      OBVIOUS
    <2>5. WriteFileBlock(OpHeaderBlock + op.next, content, nextOp)
      BY <1>8 DEF WriteData
    <2> HIDE DEF content, nextOp
    <2> QED
      BY <2>1, <2>2, <2>3, <2>4, <2>5, FileWriteInv
  <1>9. CASE WriteHeader
    <2> DEFINE content == [kind |-> "header", file |-> op.file, size |-> op.size]
               nextOp == [op EXCEPT !.step = "root"]
    <2>1. op # Idle
      BY <1>9 DEF WriteHeader, Idle
    <2>2. op \in WriteOp /\ OpHeaderBlock \in Nat \ {0}
      BY <1>0, <2>1, OpDirectory
    <2>3. nextOp \in WriteOp /\ nextOp.file = op.file
      BY <2>2 DEF WriteOp
    <2>4. content.file = op.file
      OBVIOUS
    <2>5. WriteFileBlock(OpHeaderBlock, content, nextOp)
      BY <1>9 DEF WriteHeader
    <2> HIDE DEF content, nextOp
    <2> QED
      BY <2>1, <2>2, <2>3, <2>4, <2>5, FileWriteInv
  <1>10. CASE WriteDirectory
    <2>1. op # Idle
      BY <1>10 DEF WriteDirectory, Idle
    <2> QED
      BY <1>0, <1>5, <1>10, <2>1, OpDirectory DEF WriteDirectory, Dirs
  <1>11. CASE RestartDiskHost
    <2>1. disk'[0] = Blank /\ \A b \in Blocks \ {0} : disk'[b] = [kind |-> "zero"]
      BY <1>11, TotalBlocksAssumption DEF RestartDiskHost, BlankDisk, Blocks
    <2> QED
      BY <1>11, <2>1 DEF RestartDiskHost, DiskInv, DiskSized, FilesCounted, Sized, Blank
  <1> QED
    BY <1>2, <1>3, <1>4, <1>6, <1>7, <1>8, <1>9, <1>10, <1>11 DEF Next

AppTypes ==
    /\ pc \in {"init", "mount", "format", "remount", "directory", "run",
               "store", "delete", "exit"}
    /\ (op # Idle) = (pc = "store")
    /\ isConnected \in BOOLEAN
    /\ telemetryUploadEnabled \in BOOLEAN
    /\ cloud \in Seq(Garbage .. fileCount)
    /\ crashes \in 0 .. MaxCrashes
    /\ interrupted \in BOOLEAN

TypeInv == DiskInv /\ AppTypes

(* A file is half written only while its callback is at it.                *)
LEMMA StoreLabel ==
    ASSUME TypeInv, [AppNext]_allVars
    PROVE  /\ pc' \in {"init", "mount", "format", "remount", "directory", "run",
                       "store", "delete", "exit"}
           /\ (op' # Idle) = (pc' = "store")
  <1>1. (op # Idle) <=> (pc = "store")
    BY DEF TypeInv, AppTypes
  <1>2. CASE Boot
    <2>1. op' = Idle
      BY <1>1, <1>2 DEF Boot, InitFileSystem, Mount, Format, Remount,
         OpenDirectory, FS_Init, FS_Mount, FS_Format, FS_AddDirectory, Return, vars
    <2>2. pc' \in {"mount", "directory", "format", "remount", "run", "exit"}
      BY <1>2 DEF Boot, InitFileSystem, Mount, Format, Remount,
                  OpenDirectory, Branch, Goto
    <2> QED
      BY <2>1, <2>2
  <1>3. CASE TakeAndSend \/ SendOldest \/ DeleteOldest
    BY <1>1, <1>3 DEF TakeAndSend, SendOldest, DeleteOldest, vars, Goto,
       FS_DeleteOldestFileInDirectory, Return
  <1>4. CASE TakeAndStore
    BY <1>4 DEF TakeAndStore, Goto
  <1>5. CASE StoreBlock
    <2>1. op # Idle /\ op \in WriteOp
      BY <1>1, <1>5 DEF StoreBlock, TypeInv, DiskInv, IInv, OpOK
    <2>2. CASE WriteData
      <3>1. op'.step \in {"data", "header"}
        BY <2>1, <2>2 DEF WriteData, WriteFileBlock, WriteOp
      <3> QED
        BY <1>5, <3>1 DEF StoreBlock, appVars, Idle
    <2>3. CASE WriteHeader
      <3>1. op'.step = "root"
        BY <2>1, <2>3 DEF WriteHeader, WriteFileBlock, WriteOp
      <3> QED
        BY <1>5, <3>1 DEF StoreBlock, appVars, Idle
    <2> QED
      BY <1>5, <2>2, <2>3 DEF StoreBlock
  <1>6. CASE StoreDirectory
    BY <1>6 DEF StoreDirectory, WriteDirectory, Branch, Goto
  <1>7. CASE Environment
    BY <1>1, <1>7 DEF Environment, ConnectionChanged, SetUploadEnabled, Restart,
       Crash, LoseDisk, RestartDiskHost, vars, appVars, TypeInv, AppTypes
  <1>8. CASE UNCHANGED allVars
    BY <1>1, <1>8 DEF allVars, vars, appVars, TypeInv, AppTypes
  <1> QED
    BY <1>2, <1>3, <1>4, <1>5, <1>6, <1>7, <1>8 DEF AppNext, Callback

(* What is sent is a sample that was taken, or garbage.                    *)
LEMMA OldestSampleType ==
    ASSUME DiskInv, NumFiles > 0
    PROVE  OldestSample \in Garbage .. fileCount
  <1> DEFINE dir == Dirs[1]
             at == HeaderBlock(dir, dir.tail)
  <1>1. Dirs # <<>>
    BY DEF NumFiles
  <1>2. 1 \in DOMAIN Dirs /\ fileCount \in Nat
    BY <1>1 DEF DiskInv, IInv, RootOK, RootBlock, Dirs
  <1>3. dir \in Directory /\ DirectoryWellFormed(dir)
    BY <1>2 DEF DiskInv, IInv, RootOK, RootBlock, Dirs
  <1>4. dir.tail \in 0 .. dir.maxFiles - 1
    BY <1>3 DEF DirectoryWellFormed
  <1>5. SlotBlocks(dir) = 2
    <2>1. dir.maxFileSize = 256
      BY <1>2 DEF DiskInv, DiskSized, Sized, DataEntry, Dirs
    <2> QED
      BY <2>1 DEF NumBlocks, BLOCK_SIZE, SlotBlocks
  <1>6. at + 1 \in Blocks \ {0}
    BY <1>3, <1>4, <1>5, SlotOnDevice
  <1>7. OldestSample = IF disk[at].kind = "header" /\ disk[at + 1].kind = "data"
                       THEN disk[at + 1].file ELSE Garbage
    BY DEF OldestSample
  <1> QED
    BY <1>2, <1>6, <1>7 DEF DiskInv, FilesCounted, Garbage

(* The samples the cloud got were taken, or are garbage.                   *)
LEMMA CloudType ==
    ASSUME TypeInv, [AppNext]_allVars
    PROVE  cloud' \in Seq(Garbage .. fileCount')
  <1>1. cloud \in Seq(Garbage .. fileCount) /\ fileCount \in Nat /\ Garbage = 0
    BY DEF TypeInv, AppTypes, DiskInv, IInv, Garbage
  <1>2. CASE cloud' = cloud /\ fileCount' \in {fileCount, fileCount + 1}
    <2>1. Garbage .. fileCount \subseteq Garbage .. fileCount'
      BY <1>1, <1>2
    <2> QED
      BY <1>1, <1>2, <2>1, LargerType
  <1>3. CASE TakeAndSend
    <2>1. /\ fileCount' = fileCount + 1
          /\ cloud' = cloud \/ cloud' = Append(cloud, fileCount')
      BY <1>3 DEF TakeAndSend, Accept, Reject
    <2>2. /\ Garbage .. fileCount \subseteq Garbage .. fileCount'
          /\ fileCount' \in Garbage .. fileCount'
      BY <1>1, <2>1
    <2>3. cloud \in Seq(Garbage .. fileCount')
      BY <1>1, <2>2, LargerType
    <2>4. Append(cloud, fileCount') \in Seq(Garbage .. fileCount')
      BY <2>2, <2>3, Appended
    <2> QED
      BY <2>1, <2>3, <2>4
  <1>4. CASE SendOldest
    <2>1. PICK r \in ReadOutcomes :
             \/ cloud' = Append(cloud,
                    IF r = 0 /\ NumFiles > 0 THEN OldestSample ELSE Garbage)
             \/ cloud' = cloud
      BY <1>4 DEF SendOldest, Accept, Reject
    <2>2. fileCount' = fileCount
      BY <1>4 DEF SendOldest, vars
    <2>3. (IF r = 0 /\ NumFiles > 0 THEN OldestSample ELSE Garbage)
             \in Garbage .. fileCount
      BY <1>1, OldestSampleType DEF TypeInv
    <2> QED
      BY <1>1, <2>1, <2>2, <2>3, Appended
  <1>5. ASSUME UNCHANGED cloud, [Next]_vars
        PROVE  cloud' \in Seq(Garbage .. fileCount')
    <2>1. fileCount' \in {fileCount, fileCount + 1}
      BY <1>5 DEF Next, FS_Init, FS_Mount, FS_Format, FS_AddDirectory, Return,
         FS_DeleteOldestFileInDirectory, FS_WriteFile, WriteData, WriteHeader,
         WriteFileBlock, WriteDirectory, Crash, RestartDiskHost, vars
    <2> QED
      BY <1>2, <1>5, <2>1
  <1>6. UNCHANGED cloud \/ TakeAndSend \/ SendOldest
    BY DEF AppNext, Boot, Callback, Environment, InitFileSystem, Mount, Format,
       Remount, OpenDirectory, Branch, Goto, TakeAndStore, StoreBlock,
       StoreDirectory, DeleteOldest, ConnectionChanged, SetUploadEnabled,
       Restart, LoseDisk, allVars, appVars
  <1> QED
    BY <1>3, <1>4, <1>5, <1>6, FileSystemStep

(* Every step of the application keeps the types.                          *)
LEMMA TypeInvNext ==
    ASSUME TypeInv, [AppNext]_allVars PROVE TypeInv'
  <1>1. DiskInv'
    <2>1. CASE [Next]_vars
      BY <2>1, DiskInvNext DEF TypeInv
    <2>2. CASE TakeAndSend
      <3>1. /\ UNCHANGED <<disk, rootBlock, init, mount, op, result>>
            /\ fileCount' = fileCount + 1 /\ fileCount \in Nat
        BY <2>2 DEF TakeAndSend, TypeInv, DiskInv, IInv
      <3>2. IInv'
        BY <3>1 DEF TypeInv, DiskInv, IInv, OpOK, Dirs
      <3>3. 0 .. fileCount \subseteq 0 .. fileCount'
        BY <3>1
      <3> QED
        BY <3>1, <3>2, <3>3 DEF TypeInv, DiskInv, DiskSized, FilesCounted
    <2> QED
      BY <2>1, <2>2, FileSystemStep
  <1>2. isConnected' \in BOOLEAN /\ telemetryUploadEnabled' \in BOOLEAN
    BY DEF TypeInv, AppTypes, AppNext, Boot, Callback, Environment,
       InitFileSystem, Mount, Format, Remount, OpenDirectory, Branch, Goto,
       TakeAndSend, TakeAndStore, StoreBlock, StoreDirectory, SendOldest,
       DeleteOldest, ConnectionChanged, SetUploadEnabled, Restart, LoseDisk,
       allVars, appVars
  <1>3. crashes' \in 0 .. MaxCrashes /\ interrupted' \in BOOLEAN
    <2>1. CASE Restart
      <3>1. /\ crashes < MaxCrashes /\ crashes' = crashes + 1
            /\ interrupted' \in BOOLEAN
        BY <2>1 DEF Restart, TypeInv, AppTypes
      <3> QED
        BY <3>1, ApplicationAssumption DEF TypeInv, AppTypes
    <2>2. CASE ~Restart
      <3>1. UNCHANGED <<crashes, interrupted>>
        BY <2>2 DEF AppNext, Boot, Callback, Environment,
           InitFileSystem, Mount, Format, Remount, OpenDirectory, Branch, Goto,
           TakeAndSend, TakeAndStore, StoreBlock, StoreDirectory, SendOldest,
           DeleteOldest, ConnectionChanged, SetUploadEnabled, LoseDisk,
           allVars, appVars
      <3> QED
        BY <3>1 DEF TypeInv, AppTypes
    <2> QED
      BY <2>1, <2>2
  <1> QED
    BY <1>1, <1>2, <1>3, StoreLabel, CloudType DEF TypeInv, AppTypes

(* AppTypeOK, whatever blocks are lost, however often the process or the   *)
(* disk host restarts.                                                     *)
THEOREM AppTypeCorrect == AppSpec => []AppTypeOK
  <1>1. AppInit => TypeInv
    <2> SUFFICES ASSUME AppInit PROVE TypeInv
      OBVIOUS
    <2>1. IInv
      BY InvInit DEF AppInit
    <2>2. /\ disk[0] = Blank /\ rootBlock = Blank /\ op = Idle
          /\ \A b \in Blocks \ {0} : disk[b] = [kind |-> "zero"]
      BY TotalBlocksAssumption DEF AppInit, Init, BlankDisk, Blocks
    <2>3. DiskInv
      BY <2>1, <2>2 DEF DiskInv, DiskSized, Sized, FilesCounted, Blank
    <2>4. cloud = <<>> /\ <<>> \in Seq(Garbage .. fileCount)
      BY DEF AppInit
    <2>5. 0 \in 0 .. MaxCrashes
      BY ApplicationAssumption
    <2>6. AppTypes
      BY <2>2, <2>4, <2>5 DEF AppInit, AppTypes
    <2> QED
      BY <2>3, <2>6 DEF TypeInv
  <1>2. TypeInv => AppTypeOK
    BY DEF TypeInv, DiskInv, IInv, RootOK, OpOK, AppTypes, AppTypeOK, TypeOK
  <1> QED
    BY <1>1, <1>2, TypeInvNext, PTL DEF AppSpec

=============================================================================
