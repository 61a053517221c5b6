--------------------------- MODULE IntercoreRing ----------------------------
(***************************************************************************)
(* One direction of the socket between the A7 core and a real-time core    *)
(* (Socket.c): a ring buffer in shared memory with one writer and one      *)
(* reader, each on a core of its own and each publishing one index.        *)
(* Socket_Write is the writer of ringLocal and Socket_Read the reader of   *)
(* ringRemote; the A7 core runs the other half of each ring.               *)
(*                                                                         *)
(* The ring is divided into units of RB_ALIGNMENT bytes. A message is a    *)
(* block of whole units: the size field, the message header and the        *)
(* payload. Indices count units here, where the code counts bytes that are *)
(* multiples of 16; sizes are in bytes. The copies into and out of the     *)
(* ring take one step per unit, so the cores interleave at every unit; an  *)
(* index is published by one atomic store, with release order in the code. *)
(* The contents of a message are abstracted to the number of units written *)
(* before it, which tells it from every other message.                     *)
(***************************************************************************)
EXTENDS Integers, Sequences

CONSTANTS
    Capacity,      \* the bytes of the ring, less its 64-byte header
    PayloadSizes,  \* the sizes that writers pass
    BufferSizes,   \* the sizes of the buffers that readers offer
    MaxMessages    \* bound on the messages written

RB_ALIGNMENT == 16
RB_MAX_PAYLOAD_LEN == 1040
SizeOfSizeField == 4
SizeOfMsgHeader == 20

(* Socket_Ringbuffer__Parse_Desc: a power of two, from 32 up, less 64.     *)
ASSUME CapacityAssumption ==
    Capacity \in Nat /\ Capacity > 0 /\ Capacity % RB_ALIGNMENT = 0

ASSUME SizesAssumption ==
    /\ PayloadSizes \subseteq Nat
    /\ BufferSizes \subseteq Nat
    /\ MaxMessages \in Nat

Units == Capacity \div RB_ALIGNMENT

(* The units of a block, by RoundUp of reqBlockSize.                       *)
BlockUnits(size) ==
    (SizeOfSizeField + SizeOfMsgHeader + size + RB_ALIGNMENT - 1)
        \div RB_ALIGNMENT

(* Mutant of the next: the position just past the ring counts as in it.    *)
WrapLate(position) == IF position > Units THEN position - Units ELSE position

(* Back to the start of the ring at its end.                               *)
Wrap(position) == IF position >= Units THEN position - Units ELSE position

RingMessage == [start : Nat, size : Nat]

(* The part-th unit of a message; the first one holds the size field.      *)
Cell == [start : Nat, size : Nat, part : Nat]

VARIABLES
    data,         \* the units of the ring
    writeIndex,   \* in shared memory, stored by the writer
    readIndex,    \* in shared memory, stored by the reader
    writer,       \* the Socket_Write in progress
    reader,       \* the Socket_Read in progress
    writeResult,  \* what the last Socket_Write returned
    readResult,   \* what the last Socket_Read returned
    unsignalled,  \* the writer has published and not yet signalled
    signalled,    \* an interrupt waits for the handler of the reader
    sent,         \* the messages published so far
    received      \* the messages read so far

ringVars == <<data, writeIndex, readIndex, writer, reader, writeResult,
              readResult, unsignalled, signalled, sent, received>>

RingResults ==
    {"ERROR_NONE", "ERROR_PARAMETER", "ERROR_SOCKET_INSUFFICIENT_SPACE"}

Idle == [step |-> "idle"]

Writing == [step : {"copy"}, message : RingMessage, next : Nat]

Reading == [step : {"copy"}, size : Nat, got : Seq(Cell)]

-----------------------------------------------------------------------------
RingInit ==
    /\ data = [u \in 0 .. Units - 1 |-> [start |-> 0, size |-> 0, part |-> 0]]
    /\ writeIndex = 0
    /\ readIndex = 0
    /\ writer = Idle
    /\ reader = Idle
    /\ writeResult = "ERROR_NONE"
    /\ readResult = "ERROR_NONE"
    /\ unsignalled = FALSE
    /\ signalled = FALSE
    /\ sent = <<>>
    /\ received = <<>>

(* The number of units written so far.                                     *)
UnitsWritten ==
    IF sent = <<>> THEN 0
    ELSE LET last == sent[Len(sent)]
         IN  last.start + BlockUnits(last.size)

(* availSpace: equal indices mean an empty ring.                           *)
AvailSpace ==
    readIndex - writeIndex + (IF readIndex <= writeIndex THEN Units ELSE 0)

(* availData. *)
AvailData ==
    writeIndex - readIndex + (IF writeIndex >= readIndex THEN 0 ELSE Units)

-----------------------------------------------------------------------------
(* Socket_Write. One unit stays free, lest a full ring look empty. The     *)
(* read index is loaded once; the reader may move it on during the copy.   *)

(* Mutants of the next: a write may fill the ring; unread units count as   *)
(* space.                                                                  *)
WriteErrorUnspared(size) ==
    IF size = 0 THEN "ERROR_PARAMETER"
    ELSE IF size > RB_MAX_PAYLOAD_LEN \/ AvailSpace < BlockUnits(size)
    THEN "ERROR_SOCKET_INSUFFICIENT_SPACE"
    ELSE "ERROR_NONE"

WriteErrorUnguarded(size) ==
    IF size = 0 THEN "ERROR_PARAMETER"
    ELSE IF size > RB_MAX_PAYLOAD_LEN THEN "ERROR_SOCKET_INSUFFICIENT_SPACE"
    ELSE "ERROR_NONE"

WriteError(size) ==
    IF size = 0 THEN "ERROR_PARAMETER"
    ELSE IF size > RB_MAX_PAYLOAD_LEN \/ AvailSpace < BlockUnits(size) + 1
    THEN "ERROR_SOCKET_INSUFFICIENT_SPACE"
    ELSE "ERROR_NONE"

Socket_Write(size) ==
    /\ writer = Idle
    /\ ~unsignalled
    /\ Len(sent) < MaxMessages
    /\ \/ /\ WriteError(size) # "ERROR_NONE"
          /\ writeResult' = WriteError(size)
          /\ UNCHANGED writer
       \/ /\ WriteError(size) = "ERROR_NONE"
          /\ writer' = [step |-> "copy", next |-> 0,
                        message |-> [start |-> UnitsWritten, size |-> size]]
          /\ UNCHANGED writeResult
    /\ UNCHANGED <<data, writeIndex, readIndex, reader, readResult,
                   unsignalled, signalled, sent, received>>

Socket__Write_RB ==
    /\ writer # Idle
    /\ writer.next < BlockUnits(writer.message.size)
    /\ data' = [data EXCEPT ![Wrap(writeIndex + writer.next)] =
                    [start |-> writer.message.start,
                     size |-> writer.message.size, part |-> writer.next]]
    /\ writer' = [writer EXCEPT !.next = @ + 1]
    /\ UNCHANGED <<writeIndex, readIndex, reader, writeResult, readResult,
                   unsignalled, signalled, sent, received>>

(* Mutant of the next: the index is stored before the copy is complete.    *)
PublishWriteEarly ==
    /\ writer # Idle
    /\ writer.next = 1
    /\ writeIndex' = Wrap(writeIndex + BlockUnits(writer.message.size))
    /\ sent' = Append(sent, writer.message)
    /\ writer' = Idle
    /\ writeResult' = "ERROR_NONE"
    /\ unsignalled' = TRUE
    /\ UNCHANGED <<data, readIndex, reader, readResult, signalled, received>>

PublishWrite ==
    /\ writer # Idle
    /\ writer.next = BlockUnits(writer.message.size)
    /\ writeIndex' = Wrap(writeIndex + BlockUnits(writer.message.size))
    /\ sent' = Append(sent, writer.message)
    /\ writer' = Idle
    /\ writeResult' = "ERROR_NONE"
    /\ unsignalled' = TRUE
    /\ UNCHANGED <<data, readIndex, reader, readResult, signalled, received>>

(* The interrupt, by which the writer's call ends.                         *)
Socket__Signal ==
    /\ unsignalled
    /\ unsignalled' = FALSE
    /\ signalled' = TRUE
    /\ UNCHANGED <<data, writeIndex, readIndex, writer, reader, writeResult,
                   readResult, sent, received>>

-----------------------------------------------------------------------------
(* Socket_Read. A message that is longer than the caller's buffer stays.   *)

(* Mutant of the next: a message that just fits the buffer is refused.     *)
RefusesExactFit(bufferSize) ==
    \/ AvailData = 0
    \/ BlockUnits(data[readIndex].size) > AvailData
    \/ data[readIndex].size >= bufferSize

Refuses(bufferSize) ==
    \/ AvailData = 0
    \/ BlockUnits(data[readIndex].size) > AvailData
    \/ data[readIndex].size > bufferSize

ReadBegins(bufferSize) ==
    /\ reader = Idle
    /\ \/ /\ Refuses(bufferSize)
          /\ readResult' = "ERROR_SOCKET_INSUFFICIENT_SPACE"
          /\ UNCHANGED reader
       \/ /\ ~Refuses(bufferSize)
          /\ reader' = [step |-> "copy", size |-> data[readIndex].size,
                        got |-> <<>>]
          /\ UNCHANGED readResult
    /\ UNCHANGED <<data, writeIndex, readIndex, writer, writeResult,
                   unsignalled, sent, received>>

Socket_Read(bufferSize) ==
    /\ ReadBegins(bufferSize)
    /\ UNCHANGED signalled

(* handleRecvMsg: one read for the interrupts since the one before.        *)
HandleSignal(bufferSize) ==
    /\ signalled
    /\ signalled' = FALSE
    /\ ReadBegins(bufferSize)

Socket__Read_RB ==
    /\ reader # Idle
    /\ Len(reader.got) < BlockUnits(reader.size)
    /\ reader' = [reader EXCEPT
                     !.got = Append(@, data[Wrap(readIndex + Len(@))])]
    /\ UNCHANGED <<data, writeIndex, readIndex, writer, writeResult,
                   readResult, unsignalled, signalled, sent, received>>

(* The units copied are those of one message, whole and in order ...       *)
Intact(got, size) ==
    \A i \in 1 .. Len(got) :
        got[i] = [start |-> got[1].start, size |-> size, part |-> i - 1]

(* ... or else the caller gets a mixture, which is no message.             *)
Mixture == [start |-> -1, size |-> -1]

PublishRead ==
    /\ reader # Idle
    /\ Len(reader.got) = BlockUnits(reader.size)
    /\ readIndex' = Wrap(readIndex + BlockUnits(reader.size))
    /\ received' = Append(received,
                          IF Intact(reader.got, reader.size)
                          THEN [start |-> reader.got[1].start,
                                size |-> reader.size]
                          ELSE Mixture)
    /\ reader' = Idle
    /\ readResult' = "ERROR_NONE"
    /\ UNCHANGED <<data, writeIndex, writer, writeResult, unsignalled,
                   signalled, sent>>

-----------------------------------------------------------------------------
RingNext ==
    \/ \E size \in PayloadSizes : Socket_Write(size)
    \/ Socket__Write_RB
    \/ PublishWrite
    \/ Socket__Signal
    \/ \E bufferSize \in BufferSizes :
           Socket_Read(bufferSize) \/ HandleSignal(bufferSize)
    \/ Socket__Read_RB
    \/ PublishRead

RingSpec == RingInit /\ [][RingNext]_ringVars

-----------------------------------------------------------------------------
(* The types of the variables: the indices stay in range and no caller     *)
(* ever gets a mixture of two messages.                                    *)
RingTypeOK ==
    /\ data \in [0 .. Units - 1 -> Cell]
    /\ writeIndex \in 0 .. Units - 1
    /\ readIndex \in 0 .. Units - 1
    /\ writer \in {Idle} \union Writing
    /\ reader \in {Idle} \union Reading
    /\ writeResult \in RingResults
    /\ readResult \in RingResults
    /\ unsignalled \in BOOLEAN /\ signalled \in BOOLEAN
    /\ sent \in Seq(RingMessage)
    /\ received \in Seq(RingMessage)

(* Equal indices mean that everything sent was read: a ring that is as     *)
(* full as Socket_Write allows never looks empty to Socket_Read.           *)
EmptyMeansAllRead == (readIndex = writeIndex) <=> (received = sent)

(* While the reader copies a message out, the writer, which may be copying *)
(* the next one in, stores to none of its units.                           *)
ReadUndisturbed ==
    [][reader # Idle =>
          \A i \in 0 .. BlockUnits(reader.size) - 1 :
              data'[Wrap(readIndex + i)] = data[Wrap(readIndex + i)]]_ringVars

(* Every message arrives once, whole, and in the order of the writes.      *)
Channel == INSTANCE MessageChannel WITH Message <- RingMessage

ChannelSpec == Channel!Spec

=============================================================================
