------------------------- MODULE IntercoreRingProofs ------------------------
(***************************************************************************)
(* Proofs about IntercoreRing, for every capacity and all message sizes:   *)
(* the ring delivers every message whole and in order, a full ring never   *)
(* looks empty, and the writer never stores into what the reader copies.   *)
(*                                                                         *)
(* The invariant places every message that is not yet read: it stands at   *)
(* the read index plus the number of units sent before it that are still   *)
(* unread. The unread units and those of a write in progress are together  *)
(* less than the ring, so no two of them share a place.                    *)
(***************************************************************************)
EXTENDS IntercoreRing, TLAPS

(* The number of units read so far.                                        *)
Consumed ==
    IF Len(received) < Len(sent) THEN sent[Len(received) + 1].start
                                 ELSE UnitsWritten

Used == UnitsWritten - Consumed

UnitOf(message, part) ==
    [start |-> message.start, size |-> message.size, part |-> part]

(* Messages follow one another without gap or overlap.                     *)
Ordered ==
    /\ \A j, k \in 1 .. Len(sent) :
           j < k => sent[j].start + BlockUnits(sent[j].size) <= sent[k].start
    /\ \A j \in 1 .. Len(sent) - 1 :
           sent[j + 1].start = sent[j].start + BlockUnits(sent[j].size)

Delivered ==
    /\ Len(received) <= Len(sent)
    /\ \A k \in 1 .. Len(received) : received[k] = sent[k]

Occupied ==
    /\ Used \in 0 .. Units - 1
    /\ writeIndex = Wrap(readIndex + Used)

Contents ==
    \A k \in Len(received) + 1 .. Len(sent) :
        \A part \in 0 .. BlockUnits(sent[k].size) - 1 :
            data[Wrap(readIndex + (sent[k].start - Consumed + part))]
                = UnitOf(sent[k], part)

WriterOK ==
    writer # Idle =>
        /\ writer.message.start = UnitsWritten
        /\ writer.next <= BlockUnits(writer.message.size)
        /\ Used + BlockUnits(writer.message.size) <= Units - 1
        /\ \A part \in 0 .. writer.next - 1 :
               data[Wrap(writeIndex + part)] = UnitOf(writer.message, part)

ReaderOK ==
    reader # Idle =>
        /\ Len(received) < Len(sent)
        /\ reader.size = sent[Len(received) + 1].size
        /\ Len(reader.got) <= BlockUnits(reader.size)
        /\ \A i \in 1 .. Len(reader.got) :
               reader.got[i] = UnitOf(sent[Len(received) + 1], i - 1)

IInv ==
    /\ RingTypeOK
    /\ Ordered
    /\ Delivered
    /\ Occupied
    /\ Contents
    /\ WriterOK
    /\ ReaderOK

-----------------------------------------------------------------------------
(* Arithmetic of the ring.                                                 *)

(* The ring has at least one unit.                                         *)
LEMMA UnitsType == Units \in Nat /\ Units >= 1
  BY CapacityAssumption, SMT DEF Units, RB_ALIGNMENT

(* A block takes at least one unit (RoundUp of the size with its           *)
(* headers).                                                               *)
LEMMA BlockUnitsType ==
  \A size \in Nat : BlockUnits(size) \in Nat /\ BlockUnits(size) >= 1
  BY SMT DEF BlockUnits, SizeOfSizeField, SizeOfMsgHeader, RB_ALIGNMENT

(* A position advanced by at most one turn wraps into the ring.            *)
LEMMA WrapType ==
  ASSUME NEW p \in 0 .. 2 * Units - 1
  PROVE  Wrap(p) \in 0 .. Units - 1
  BY UnitsType, SMT DEF Wrap

(* Wrapping after each of two advances is wrapping once after both.        *)
LEMMA WrapSum ==
  ASSUME NEW r \in 0 .. Units - 1, NEW a \in 0 .. Units - 1,
         NEW b \in Nat, a + b <= Units
  PROVE  Wrap(Wrap(r + a) + b) = Wrap(r + (a + b))
  BY UnitsType, SMT DEF Wrap

(* Different offsets from one position are different places of the ring.   *)
LEMMA WrapApart ==
  ASSUME NEW r \in 0 .. Units - 1, NEW a \in 0 .. Units - 1,
         NEW b \in 0 .. Units - 1, a # b
  PROVE  Wrap(r + a) # Wrap(r + b)
  BY UnitsType, SMT DEF Wrap

(* The messages sent and received have their types, and so have their      *)
(* sizes.                                                                  *)
LEMMA SentType ==
  ASSUME RingTypeOK
  PROVE  /\ sent \in Seq(RingMessage) /\ received \in Seq(RingMessage)
         /\ Len(sent) \in Nat /\ Len(received) \in Nat
         /\ \A j \in 1 .. Len(sent) :
               /\ sent[j] \in RingMessage
               /\ sent[j].start \in Nat
               /\ sent[j].size \in Nat
               /\ BlockUnits(sent[j].size) \in Nat
               /\ BlockUnits(sent[j].size) >= 1
<1>1. sent \in Seq(RingMessage) /\ received \in Seq(RingMessage)
  BY DEF RingTypeOK
<1>2. Len(sent) \in Nat /\ Len(received) \in Nat
  BY <1>1, SMT
<1>3. ASSUME NEW j \in 1 .. Len(sent)
      PROVE  /\ sent[j] \in RingMessage
             /\ sent[j].start \in Nat
             /\ sent[j].size \in Nat
             /\ BlockUnits(sent[j].size) \in Nat
             /\ BlockUnits(sent[j].size) >= 1
  <2>1. sent[j] \in RingMessage
    BY <1>1, <1>3, SMT
  <2>2. sent[j].start \in Nat /\ sent[j].size \in Nat
    BY <2>1 DEF RingMessage
  <2>. QED
    BY <2>1, <2>2, BlockUnitsType
<1>. QED
  BY <1>1, <1>2, <1>3

(* The number of units written is a natural number.                        *)
LEMMA WrittenType ==
  ASSUME RingTypeOK
  PROVE  UnitsWritten \in Nat
<1>1. CASE sent = <<>>
  BY <1>1 DEF UnitsWritten
<1>2. CASE sent # <<>>
  <2>1. Len(sent) \in 1 .. Len(sent)
    BY <1>2, SentType, SMT
  <2>2. /\ sent[Len(sent)].start \in Nat
        /\ BlockUnits(sent[Len(sent)].size) \in Nat
    BY <2>1, SentType
  <2>3. UnitsWritten = sent[Len(sent)].start + BlockUnits(sent[Len(sent)].size)
    BY <1>2 DEF UnitsWritten
  <2>. QED
    BY <2>2, <2>3, SMT
<1>. QED
  BY <1>1, <1>2

(* An unread message lies between what was read and what was written.      *)
LEMMA UnreadWithin ==
  ASSUME RingTypeOK, Ordered, Delivered,
         NEW k \in Len(received) + 1 .. Len(sent)
  PROVE  /\ k \in 1 .. Len(sent)
         /\ Len(received) + 1 \in 1 .. Len(sent)
         /\ Consumed \in Nat
         /\ Consumed <= sent[k].start
         /\ sent[k].start + BlockUnits(sent[k].size) <= UnitsWritten
         /\ Consumed = sent[Len(received) + 1].start
<1> DEFINE first == Len(received) + 1
           last == Len(sent)
<1>1. k \in 1 .. last /\ first \in 1 .. last /\ last \in 1 .. last
      /\ k >= first /\ k <= last
  BY SentType, SMT
<1>2. Consumed = sent[first].start
  BY <1>1, SentType, SMT DEF Consumed
<1>3. UnitsWritten = sent[last].start + BlockUnits(sent[last].size)
  BY <1>1, SentType, SMT DEF UnitsWritten
<1>4. /\ sent[k].start \in Nat /\ BlockUnits(sent[k].size) \in Nat
      /\ sent[first].start \in Nat /\ BlockUnits(sent[first].size) \in Nat
      /\ sent[last].start \in Nat /\ BlockUnits(sent[last].size) \in Nat
  BY <1>1, SentType
<1>5. first < k => sent[first].start + BlockUnits(sent[first].size)
                      <= sent[k].start
  BY <1>1 DEF Ordered
<1>6. k < last => sent[k].start + BlockUnits(sent[k].size)
                      <= sent[last].start
  BY <1>1 DEF Ordered
<1>7. Consumed <= sent[k].start
  <2>1. CASE first = k
    BY <2>1, <1>2, <1>4, SMT
  <2>2. CASE first < k
    BY <2>2, <1>2, <1>4, <1>5, SMT
  <2>. QED
    BY <2>1, <2>2, <1>1, SentType, SMT
<1>8. sent[k].start + BlockUnits(sent[k].size) <= UnitsWritten
  <2>1. CASE k = last
    BY <2>1, <1>3, <1>4, SMT
  <2>2. CASE k < last
    BY <2>2, <1>3, <1>4, <1>6, SMTT(40)
  <2>. QED
    BY <2>1, <2>2, <1>1, SentType, SMT
<1>. QED
  BY <1>1, <1>2, <1>4, <1>7, <1>8

(* The number of units read is a natural number, and at most what was      *)
(* written.                                                                *)
LEMMA ConsumedType ==
  ASSUME RingTypeOK, Ordered, Delivered
  PROVE  Consumed \in Nat /\ Consumed <= UnitsWritten
<1>1. CASE Len(received) < Len(sent)
  <2>1. Len(received) + 1 \in Len(received) + 1 .. Len(sent)
    BY <1>1, SentType, SMT
  <2>2. /\ Len(received) + 1 \in 1 .. Len(sent)
        /\ Consumed = sent[Len(received) + 1].start
        /\ sent[Len(received) + 1].start
              + BlockUnits(sent[Len(received) + 1].size) <= UnitsWritten
    BY <2>1, UnreadWithin
  <2>3. /\ sent[Len(received) + 1].start \in Nat
        /\ BlockUnits(sent[Len(received) + 1].size) \in Nat
    BY <2>2, SentType
  <2>. QED
    BY <2>2, <2>3, WrittenType, SMT
<1>2. CASE ~(Len(received) < Len(sent))
  BY <1>2, WrittenType, SMT DEF Consumed
<1>. QED
  BY <1>1, <1>2

(* The space and the data that the two cores compute from the indices.     *)
LEMMA Available ==
  ASSUME RingTypeOK, Occupied
  PROVE  AvailSpace = Units - Used /\ AvailData = Used
  BY UnitsType, SMT DEF RingTypeOK, Occupied, Wrap, AvailSpace, AvailData

(* Nothing in the invariant but the calls in progress changes as long as   *)
(* the ring and the histories do not.                                      *)
LEMMA RingUnchanged ==
  ASSUME IInv, UNCHANGED <<data, writeIndex, readIndex, sent, received>>
  PROVE  /\ UnitsWritten' = UnitsWritten /\ Consumed' = Consumed /\ Used' = Used
         /\ Ordered' /\ Delivered' /\ Occupied' /\ Contents'
<1>1. UnitsWritten' = UnitsWritten
  BY DEF UnitsWritten
<1>2. Consumed' = Consumed
  BY <1>1 DEF Consumed
<1>3. Used' = Used
  BY <1>1, <1>2 DEF Used
<1>4. Ordered' /\ Delivered'
  BY DEF IInv, Ordered, Delivered
<1>5. Occupied'
  BY <1>3 DEF IInv, Occupied
<1>6. Contents'
  BY <1>2 DEF IInv, Contents
<1>. QED
  BY <1>1, <1>2, <1>3, <1>4, <1>5, <1>6

(* A step that leaves the ring, the writer and the indices keeps what is   *)
(* known of the write in progress.                                         *)
LEMMA WriterUnchanged ==
  ASSUME IInv, UNCHANGED <<data, writeIndex, readIndex, sent, received, writer>>
  PROVE  WriterOK'
  BY RingUnchanged DEF IInv, WriterOK

(* A step that leaves the reader and the messages keeps what is known of   *)
(* the read in progress.                                                   *)
LEMMA ReaderUnchanged ==
  ASSUME IInv, UNCHANGED <<sent, received, reader>>
  PROVE  ReaderOK'
  BY DEF IInv, ReaderOK

(* Every message ends where the last one does, or before.                  *)
LEMMA EndsWithin ==
  ASSUME RingTypeOK, Ordered, NEW j \in 1 .. Len(sent)
  PROVE  sent[j].start + BlockUnits(sent[j].size) <= UnitsWritten
<1> DEFINE last == Len(sent)
<1>1. last \in 1 .. last /\ j <= last
  BY SentType, SMT
<1>2. UnitsWritten = sent[last].start + BlockUnits(sent[last].size)
  BY <1>1, SentType, SMT DEF UnitsWritten
<1>3. /\ sent[j].start \in Nat /\ BlockUnits(sent[j].size) \in Nat
      /\ sent[last].start \in Nat /\ BlockUnits(sent[last].size) \in Nat
  BY <1>1, SentType
<1>4. CASE j = last
  BY <1>4, <1>2, <1>3, SMT
<1>5. CASE j < last
  <2>1. sent[j].start + BlockUnits(sent[j].size) <= sent[last].start
    BY <1>1, <1>5 DEF Ordered
  <2>. QED
    BY <2>1, <1>2, <1>3, SMT
<1>. QED
  BY <1>1, <1>4, <1>5, SentType, SMT

(* What the reader finds at a place of the oldest unread message.          *)
LEMMA FirstUnread ==
  ASSUME IInv, Len(received) < Len(sent),
         NEW part \in 0 .. BlockUnits(sent[Len(received) + 1].size) - 1
  PROVE  /\ data[Wrap(readIndex + part)]
               = UnitOf(sent[Len(received) + 1], part)
         /\ part \in 0 .. Used - 1
<1> DEFINE first == Len(received) + 1
<1>1. first \in first .. Len(sent)
  BY SentType, SMT DEF IInv
<1>2. /\ first \in 1 .. Len(sent)
      /\ Consumed = sent[first].start
      /\ sent[first].start + BlockUnits(sent[first].size) <= UnitsWritten
  BY <1>1, UnreadWithin DEF IInv
<1>3. sent[first].start \in Nat /\ BlockUnits(sent[first].size) \in Nat
  BY <1>2, SentType DEF IInv
<1>4. sent[first].start - Consumed + part = part
  BY <1>2, <1>3, SMT
<1>5. data[Wrap(readIndex + (sent[first].start - Consumed + part))]
          = UnitOf(sent[first], part)
  BY <1>1 DEF IInv, Contents
<1>6. part \in 0 .. Used - 1
  BY <1>2, <1>3, WrittenType, SMT DEF Used, IInv
<1>. QED
  BY <1>4, <1>5, <1>6

(* The unread units are a natural number.                                  *)
LEMMA UsedType ==
  ASSUME IInv
  PROVE  /\ Used \in 0 .. Units - 1
         /\ UnitsWritten \in Nat /\ Consumed \in Nat
         /\ writeIndex = Wrap(readIndex + Used)
         /\ readIndex \in 0 .. Units - 1
         /\ writeIndex \in 0 .. Units - 1
  BY WrittenType, ConsumedType DEF IInv, Occupied, RingTypeOK

(* The unread units take up the first Used places from the read index.     *)
LEMMA UnreadOffset ==
  ASSUME IInv, NEW k \in Len(received) + 1 .. Len(sent),
         NEW part \in 0 .. BlockUnits(sent[k].size) - 1
  PROVE  sent[k].start - Consumed + part \in 0 .. Used - 1
<1>1. /\ k \in 1 .. Len(sent) /\ Consumed <= sent[k].start
      /\ sent[k].start + BlockUnits(sent[k].size) <= UnitsWritten
  BY UnreadWithin DEF IInv
<1>2. sent[k].start \in Nat /\ BlockUnits(sent[k].size) \in Nat
  BY <1>1, SentType DEF IInv
<1>3. UnitsWritten \in Nat /\ Consumed \in Nat /\ Used = UnitsWritten - Consumed
  BY UsedType DEF Used
<1>. QED
  BY <1>1, <1>2, <1>3, SMTT(40)

-----------------------------------------------------------------------------
(* The invariant holds of a ring just negotiated.                          *)
LEMMA InvInit == RingInit => IInv
<1> SUFFICES ASSUME RingInit PROVE IInv
  OBVIOUS
<1> USE DEF RingInit
<1>1. RingTypeOK
  <2>1. data \in [0 .. Units - 1 -> Cell]
    BY DEF Cell
  <2>2. writeIndex \in 0 .. Units - 1 /\ readIndex \in 0 .. Units - 1
    BY UnitsType, SMT
  <2>3. unsignalled \in BOOLEAN /\ signalled \in BOOLEAN
    OBVIOUS
  <2>. QED
    BY <2>1, <2>2, <2>3 DEF RingTypeOK, RingResults
<1>2. Len(sent) = 0 /\ Len(received) = 0 /\ UnitsWritten = 0 /\ Consumed = 0
  BY SMT DEF UnitsWritten, Consumed
<1>3. Ordered /\ Delivered
  BY <1>2, SMT DEF Ordered, Delivered
<1>4. Occupied
  BY <1>2, UnitsType, SMT DEF Occupied, Used, Wrap
<1>5. Contents
  BY <1>2, SMT DEF Contents
<1>6. WriterOK /\ ReaderOK
  BY DEF WriterOK, ReaderOK
<1>. QED
  BY <1>1, <1>3, <1>4, <1>5, <1>6 DEF IInv

(* Socket_Write checks the space the invariant asks for before it begins   *)
(* to copy.                                                                *)
LEMMA SocketWriteInv ==
  ASSUME IInv, NEW size \in PayloadSizes, Socket_Write(size)
  PROVE  IInv'
<1>0. size \in Nat
  BY SizesAssumption
<1>1. WriteError(size) \in RingResults
  BY DEF WriteError, RingResults
<1>2. CASE UNCHANGED writer /\ writeResult' = WriteError(size)
  <2>1. RingTypeOK'
    BY <1>1, <1>2 DEF IInv, RingTypeOK, Socket_Write
  <2>2. WriterOK' /\ ReaderOK'
    BY <1>2, WriterUnchanged, ReaderUnchanged DEF Socket_Write
  <2>. QED
    BY <2>1, <2>2, RingUnchanged DEF Socket_Write, IInv
<1>3. CASE /\ WriteError(size) = "ERROR_NONE"
           /\ writer' = [step |-> "copy", next |-> 0,
                         message |-> [start |-> UnitsWritten, size |-> size]]
           /\ UNCHANGED writeResult
  <2>1. writer' \in Writing
    BY <1>0, <1>3, WrittenType DEF Writing, RingMessage, IInv
  <2>2. RingTypeOK'
    BY <2>1, <1>3 DEF IInv, RingTypeOK, Socket_Write
  <2>3. AvailSpace >= BlockUnits(size) + 1
    BY <1>0, <1>3, BlockUnitsType, UsedType, UnitsType, Available, SMT
    DEF WriteError, IInv
  <2>4. Used + BlockUnits(size) <= Units - 1
    BY <2>3, <1>0, BlockUnitsType, UsedType, UnitsType, Available, SMT
    DEF IInv
  <2>5. /\ writer'.message.start = UnitsWritten /\ writer'.message.size = size
        /\ writer'.next = 0
    BY <1>3
  <2>6. UnitsWritten' = UnitsWritten /\ Used' = Used
    BY RingUnchanged DEF Socket_Write
  <2>7. WriterOK'
    <3>1. writer'.message.start = UnitsWritten'
      BY <2>5, <2>6
    <3>2. writer'.next <= BlockUnits(writer'.message.size)
      BY <2>5, <1>0, BlockUnitsType, SMT
    <3>3. Used' + BlockUnits(writer'.message.size) <= Units - 1
      BY <2>4, <2>5, <2>6
    <3>4. 0 .. writer'.next - 1 = {}
      BY <2>5, SMT
    <3>. QED
      BY <3>1, <3>2, <3>3, <3>4 DEF WriterOK
  <2>8. ReaderOK'
    BY ReaderUnchanged DEF Socket_Write
  <2>. QED
    BY <2>2, <2>7, <2>8, RingUnchanged DEF Socket_Write, IInv
<1>. QED
  BY <1>2, <1>3 DEF Socket_Write

(* Copying a unit into the ring changes no unread unit.                    *)
LEMMA WriteRBInv ==
  ASSUME IInv, Socket__Write_RB
  PROVE  IInv'
<1> DEFINE m == writer.message
           n == writer.next
           place == Wrap(readIndex + (Used + n))
<1>0. writer \in Writing
  BY DEF IInv, RingTypeOK, Socket__Write_RB
<1>1. m \in RingMessage /\ m.start \in Nat /\ m.size \in Nat /\ n \in Nat
  BY <1>0 DEF Writing, RingMessage
<1>2. BlockUnits(m.size) \in Nat
  BY <1>1, BlockUnitsType
<1>3. n < BlockUnits(m.size) /\ Used + BlockUnits(m.size) <= Units - 1
  BY DEF IInv, WriterOK, Socket__Write_RB
<1>4. Used + n \in 0 .. Units - 1 /\ readIndex \in 0 .. Units - 1
  BY <1>1, <1>2, <1>3, UsedType, UnitsType, SMT
<1>5. ASSUME NEW i \in 0 .. n
      PROVE  /\ Wrap(writeIndex + i) = Wrap(readIndex + (Used + i))
             /\ Used + i \in 0 .. Units - 1
  <2>1. i \in Nat /\ Used + i <= Units /\ Used + i \in 0 .. Units - 1
    BY <1>1, <1>2, <1>3, UsedType, UnitsType, SMT
  <2>. QED
    BY <2>1, UsedType, WrapSum
<1>6. /\ data' = [data EXCEPT ![place] = UnitOf(m, n)]
      /\ writer' = [writer EXCEPT !.next = n + 1]
  <2>1. n \in 0 .. n
    BY <1>1, SMT
  <2>2. Wrap(writeIndex + n) = place
    BY <2>1, <1>5
  <2>. QED
    BY <2>2 DEF Socket__Write_RB, UnitOf
<1>7. UNCHANGED <<writeIndex, readIndex, reader, writeResult, readResult,
                  unsignalled, signalled,
                  sent, received>>
  BY DEF Socket__Write_RB
<1>8. place \in 0 .. Units - 1 /\ data \in [0 .. Units - 1 -> Cell]
  <2>1. readIndex + (Used + n) \in 0 .. 2 * Units - 1
    BY <1>4, UnitsType, SMT
  <2>. QED
    BY <2>1, WrapType DEF IInv, RingTypeOK
<1>9. RingTypeOK'
  <2>1. UnitOf(m, n) \in Cell
    BY <1>1 DEF UnitOf, Cell
  <2>2. data' \in [0 .. Units - 1 -> Cell]
    BY <2>1, <1>6, <1>8
  <2>3. n + 1 \in Nat
    BY <1>1, SMT
  <2>4. writer' \in Writing
    BY <2>3, <1>0, <1>6 DEF Writing
  <2>. QED
    BY <2>2, <2>4, <1>7 DEF IInv, RingTypeOK
<1>10. UnitsWritten' = UnitsWritten /\ Consumed' = Consumed /\ Used' = Used
  BY <1>7 DEF UnitsWritten, Consumed, Used
<1>11. Ordered' /\ Delivered' /\ Occupied' /\ ReaderOK'
  BY <1>7, <1>10 DEF IInv, Ordered, Delivered, Occupied, ReaderOK
<1>12. ASSUME NEW offset \in 0 .. Units - 1, offset # Used + n
       PROVE  data'[Wrap(readIndex + offset)] = data[Wrap(readIndex + offset)]
  <2>1. Wrap(readIndex + offset) # place
    BY <1>4, <1>12, WrapApart
  <2>2. readIndex + offset \in 0 .. 2 * Units - 1
    BY <1>4, UnitsType, SMT
  <2>3. Wrap(readIndex + offset) \in 0 .. Units - 1
    BY <2>2, WrapType
  <2>. QED
    BY <2>1, <2>3, <1>6, <1>8
<1>13. Contents'
  <2>1. SUFFICES ASSUME NEW k \in Len(received) + 1 .. Len(sent),
                        NEW part \in 0 .. BlockUnits(sent[k].size) - 1
                 PROVE  data'[Wrap(readIndex
                                   + (sent[k].start - Consumed + part))]
                            = UnitOf(sent[k], part)
    BY <1>7, <1>10 DEF Contents, UnitOf
  <2> DEFINE offset == sent[k].start - Consumed + part
  <2>2. offset \in 0 .. Used - 1
    BY UnreadOffset
  <2>3. Used \in 0 .. Units - 1 /\ Units \in Nat
    BY UsedType, UnitsType
  <2>5. offset \in 0 .. Units - 1 /\ offset # Used + n
    BY <2>2, <2>3, <1>1, SMTT(40)
  <2>6. data[Wrap(readIndex + (sent[k].start - Consumed + part))]
            = UnitOf(sent[k], part)
    BY DEF IInv, Contents
  <2>. QED
    BY <2>5, <2>6, <1>12
<1>14. WriterOK'
  <2>1. writer'.message = m /\ writer'.next = n + 1
    BY <1>0, <1>6 DEF Writing
  <2>2. ASSUME NEW part \in 0 .. n
        PROVE  data'[Wrap(writeIndex + part)] = UnitOf(m, part)
    <3>1. /\ Wrap(writeIndex + part) = Wrap(readIndex + (Used + part))
          /\ Used + part \in 0 .. Units - 1
      BY <1>5
    <3>2. CASE part = n
      BY <3>1, <3>2, <1>6, <1>8
    <3>3. CASE part # n
      <4>1. part \in 0 .. n - 1 /\ Used + part # Used + n
        BY <3>3, <1>1, UsedType, SMT
      <4>2. data[Wrap(writeIndex + part)] = UnitOf(m, part)
        BY <4>1 DEF IInv, WriterOK, Socket__Write_RB
      <4>. QED
        BY <4>1, <4>2, <3>1, <1>12
    <3>. QED
      BY <3>2, <3>3
  <2>3. 0 .. writer'.next - 1 = 0 .. n /\ n + 1 <= BlockUnits(m.size)
    BY <2>1, <1>1, <1>2, <1>3, SMT
  <2>4. m.start = UnitsWritten
    BY DEF IInv, WriterOK, Socket__Write_RB
  <2>. QED
    BY <2>1, <2>2, <2>3, <2>4, <1>3, <1>7, <1>10 DEF WriterOK
<1>. QED
  BY <1>9, <1>11, <1>13, <1>14 DEF IInv

(* Storing the write index makes the message written the last unread       *)
(* one.                                                                    *)
LEMMA PublishWriteInv ==
  ASSUME IInv, PublishWrite
  PROVE  IInv'
<1> DEFINE m == writer.message
           b == BlockUnits(m.size)
           last == Len(sent) + 1
<1>0. writer \in Writing
  BY DEF IInv, RingTypeOK, PublishWrite
<1>1. m \in RingMessage /\ m.start \in Nat /\ m.size \in Nat
  BY <1>0 DEF Writing, RingMessage
<1>2. b \in Nat /\ b >= 1
  BY <1>1, BlockUnitsType
<1>3. m.start = UnitsWritten /\ Used + b <= Units - 1 /\ writer.next = b
  BY DEF IInv, WriterOK, PublishWrite
<1>4. /\ \A part \in 0 .. b - 1 :
             data[Wrap(writeIndex + part)] = UnitOf(m, part)
      /\ writeIndex' = Wrap(writeIndex + b)
      /\ sent' = Append(sent, m)
      /\ writer' = Idle
      /\ UNCHANGED <<data, readIndex, reader, readResult, received>>
  BY DEF IInv, WriterOK, PublishWrite
<1>5. /\ Len(sent') = last /\ last \in Nat /\ last >= 1
      /\ \A k \in 1 .. Len(sent) : sent'[k] = sent[k]
      /\ sent'[last] = m
      /\ sent' # <<>>
      /\ sent' \in Seq(RingMessage)
  <2>1. sent \in Seq(RingMessage) /\ m \in RingMessage
    BY <1>1, SentType DEF IInv
  <2>. QED
    BY <1>4, <2>1, SMT
<1>6. Len(received) <= Len(sent) /\ Len(received) \in Nat /\ Len(sent) \in Nat
  BY SentType DEF IInv, Delivered
<1>7. UnitsWritten' = UnitsWritten + b
  BY <1>3, <1>5 DEF UnitsWritten
<1>8. Consumed' = Consumed
  <2>1. Len(received) < Len(sent')
    BY <1>5, <1>6, SMT
  <2>2. Consumed' = sent'[Len(received) + 1].start
    BY <2>1, <1>4 DEF Consumed
  <2>3. CASE Len(received) < Len(sent)
    <3>1. Len(received) + 1 \in 1 .. Len(sent)
      BY <2>3, <1>6, SMT
    <3>. QED
      BY <2>2, <2>3, <3>1, <1>5 DEF Consumed
  <2>4. CASE Len(received) = Len(sent)
    <3>1. ~(Len(received) < Len(sent))
      BY <2>4, <1>6, SMT
    <3>. QED
      BY <2>2, <2>4, <3>1, <1>3, <1>5 DEF Consumed
  <2>. QED
    BY <2>3, <2>4, <1>6, SMT
<1>9. Used' = Used + b
  <2>1. UnitsWritten \in Nat /\ Consumed \in Nat
    BY UsedType
  <2>. QED
    BY <2>1, <1>2, <1>7, <1>8, SMT DEF Used
<1>10. RingTypeOK'
  <2>1. Used + b \in 0 .. Units - 1 /\ writeIndex + b \in 0 .. 2 * Units - 1
    BY <1>2, <1>3, UsedType, UnitsType, SMT
  <2>2. writeIndex' \in 0 .. Units - 1
    BY <2>1, <1>4, WrapType
  <2>. QED
    BY <2>2, <1>4, <1>5 DEF IInv, RingTypeOK, PublishWrite, RingResults
<1>11. Ordered'
  <2>1. ASSUME NEW j \in 1 .. last, NEW k \in 1 .. last, j < k
        PROVE  sent'[j].start + BlockUnits(sent'[j].size) <= sent'[k].start
    <3>1. j \in 1 .. Len(sent)
      BY <2>1, <1>6, SMT
    <3>2. CASE k = last
      BY <3>1, <3>2, <1>3, <1>5, EndsWithin DEF IInv
    <3>3. CASE k # last
      <4>1. k \in 1 .. Len(sent)
        BY <3>3, <1>6, SMT
      <4>. QED
        BY <2>1, <3>1, <4>1, <1>5 DEF IInv, Ordered
    <3>. QED
      BY <3>2, <3>3
  <2>2. ASSUME NEW j \in 1 .. last - 1
        PROVE  sent'[j + 1].start = sent'[j].start + BlockUnits(sent'[j].size)
    <3>1. j \in 1 .. Len(sent) /\ j + 1 \in 1 .. last
      BY <1>6, SMT
    <3>2. CASE j = Len(sent)
      <4>1. sent # <<>>
        BY <3>1, <3>2, SMT
      <4>2. UnitsWritten = sent[Len(sent)].start + BlockUnits(sent[Len(sent)].size)
        BY <4>1 DEF UnitsWritten
      <4>. QED
        BY <3>1, <3>2, <4>2, <1>3, <1>5
    <3>3. CASE j # Len(sent)
      <4>1. j \in 1 .. Len(sent) - 1 /\ j + 1 \in 1 .. Len(sent)
        BY <3>1, <3>3, <1>6, SMT
      <4>. QED
        BY <3>1, <4>1, <1>5 DEF IInv, Ordered
    <3>. QED
      BY <3>2, <3>3
  <2>. QED
    BY <2>1, <2>2, <1>5 DEF Ordered
<1>12. Delivered'
  <2>1. Len(received) <= last /\ \A k \in 1 .. Len(received) : k \in 1 .. Len(sent)
    BY <1>6, SMT
  <2>. QED
    BY <2>1, <1>4, <1>5 DEF IInv, Delivered
<1>13. Occupied'
  <2>1. b \in Nat /\ Used + b <= Units /\ Used + b \in 0 .. Units - 1
    BY <1>2, <1>3, UsedType, UnitsType, SMT
  <2>2. Wrap(Wrap(readIndex + Used) + b) = Wrap(readIndex + (Used + b))
    BY <2>1, UsedType, WrapSum
  <2>. QED
    BY <2>1, <2>2, <1>4, <1>9, UsedType DEF Occupied
<1>14. Contents'
  <2>1. SUFFICES ASSUME NEW k \in Len(received) + 1 .. last,
                        NEW part \in 0 .. BlockUnits(sent'[k].size) - 1
                 PROVE  data[Wrap(readIndex
                                  + (sent'[k].start - Consumed + part))]
                            = UnitOf(sent'[k], part)
    BY <1>4, <1>5, <1>8, SMTT(40) DEF Contents, UnitOf
  <2>2. CASE k = last
    <3>1. sent'[k] = m /\ part \in 0 .. b - 1
      BY <2>2, <1>5
    <3>2. /\ part \in Nat /\ Used + part <= Units
          /\ sent'[k].start - Consumed + part = Used + part
      <4>1. sent'[k].start = UnitsWritten
        BY <3>1, <1>1, <1>3
      <4>2. UnitsWritten - Consumed + part = Used + part
        BY DEF Used
      <4>3. part \in Nat /\ part < b /\ Used \in Nat /\ Units \in Nat
        BY <3>1, <1>2, <1>3, UsedType, UnitsType, SMTT(40)
      <4>4. Used + b <= Units
        BY <1>2, <1>3, UsedType, UnitsType, SMTT(40)
      <4>. QED
        BY <4>1, <4>2, <4>3, <4>4, <1>2, <1>3, SMTT(40)
    <3>3. Wrap(readIndex + (Used + part)) = Wrap(writeIndex + part)
      BY <3>2, UsedType, WrapSum
    <3>. QED
      BY <3>1, <3>2, <3>3, <1>4
  <2>3. CASE k # last
    <3>1. k \in Len(received) + 1 .. Len(sent) /\ k \in 1 .. Len(sent)
      BY <2>3, <1>6, SMT
    <3>. QED
      BY <3>1, <1>5 DEF IInv, Contents
  <2>. QED
    BY <2>2, <2>3
<1>15. WriterOK'
  BY <1>4 DEF WriterOK
<1>16. ReaderOK'
  <2>1. SUFFICES ASSUME reader # Idle PROVE ReaderOK'
    BY <1>4 DEF ReaderOK
  <2>2. Len(received) < Len(sent) /\ Len(received) + 1 \in 1 .. Len(sent)
        /\ Len(received) < last
    BY <2>1, <1>6, SMT DEF IInv, ReaderOK
  <2>. QED
    BY <2>2, <1>4, <1>5 DEF IInv, ReaderOK, UnitOf
<1>. QED
  BY <1>10, <1>11, <1>12, <1>13, <1>14, <1>15, <1>16 DEF IInv

(* Socket_Read begins to copy the first unread message.                    *)
LEMMA ReadBeginsInv ==
  ASSUME IInv, NEW bufferSize \in BufferSizes, ReadBegins(bufferSize),
         signalled' \in BOOLEAN
  PROVE  IInv'
<1> DEFINE first == Len(received) + 1
<1>1. WriterOK'
  BY WriterUnchanged DEF ReadBegins
<1>2. CASE UNCHANGED reader
           /\ readResult' = "ERROR_SOCKET_INSUFFICIENT_SPACE"
  <2>1. RingTypeOK'
    BY <1>2 DEF IInv, RingTypeOK, ReadBegins, RingResults
  <2>2. ReaderOK'
    BY <1>2, ReaderUnchanged DEF ReadBegins
  <2>. QED
    BY <1>1, <2>1, <2>2, RingUnchanged DEF ReadBegins, IInv
<1>3. CASE /\ ~Refuses(bufferSize)
           /\ reader' = [step |-> "copy", size |-> data[readIndex].size,
                         got |-> <<>>]
           /\ UNCHANGED readResult
  <2>1. Used # 0
    BY <1>3, Available DEF Refuses, IInv
  <2>2. Len(received) < Len(sent)
    <3>1. CASE ~(Len(received) < Len(sent))
      <4>1. Consumed = UnitsWritten
        BY <3>1 DEF Consumed
      <4>2. Used = 0
        BY <4>1, UsedType, SMT DEF Used
      <4>. QED
        BY <2>1, <4>2
    <3>. QED
      BY <3>1
  <2>3. first \in 1 .. Len(sent)
    BY <2>2, SentType, SMT DEF IInv
  <2>4. /\ sent[first].size \in Nat /\ BlockUnits(sent[first].size) \in Nat
        /\ BlockUnits(sent[first].size) >= 1
    BY <2>3, SentType DEF IInv
  <2>5. 0 \in 0 .. BlockUnits(sent[first].size) - 1
    BY <2>4, SMT
  <2>6. Wrap(readIndex + 0) = readIndex
    BY UsedType, UnitsType, SMT DEF Wrap
  <2>7. data[readIndex].size = sent[first].size
    <3>1. data[Wrap(readIndex + 0)] = UnitOf(sent[first], 0)
      BY <2>2, <2>5, FirstUnread
    <3>2. UnitOf(sent[first], 0).size = sent[first].size
      BY DEF UnitOf
    <3>. QED
      BY <2>6, <3>1, <3>2
  <2>8. /\ reader' \in Reading /\ reader'.size = sent[first].size
        /\ reader'.got = <<>> /\ Len(reader'.got) = 0
    BY <1>3, <2>4, <2>7, SMT DEF Reading
  <2>9. RingTypeOK'
    BY <2>8, <1>3 DEF IInv, RingTypeOK, ReadBegins
  <2>10. ReaderOK'
    <3>1. Len(reader'.got) <= BlockUnits(reader'.size)
      BY <2>4, <2>8, SMT
    <3>2. 1 .. Len(reader'.got) = {}
      BY <2>8, SMT
    <3>3. received' = received /\ sent' = sent
      BY DEF ReadBegins
    <3>. QED
      BY <2>2, <2>8, <3>1, <3>2, <3>3 DEF ReaderOK
  <2>. QED
    BY <1>1, <2>9, <2>10, RingUnchanged DEF ReadBegins, IInv
<1>. QED
  BY <1>2, <1>3 DEF ReadBegins

(* The signal leaves the ring as it is.                                    *)
LEMMA SignalInv ==
  ASSUME IInv, Socket__Signal
  PROVE  IInv'
<1>1. RingTypeOK'
  BY DEF IInv, RingTypeOK, Socket__Signal
<1>2. WriterOK' /\ ReaderOK'
  BY WriterUnchanged, ReaderUnchanged DEF Socket__Signal
<1>. QED
  BY <1>1, <1>2, RingUnchanged DEF IInv, Socket__Signal

(* A unit copied out of the ring is the next one of the first unread       *)
(* message.                                                                *)
LEMMA ReadRBInv ==
  ASSUME IInv, Socket__Read_RB
  PROVE  IInv'
<1> DEFINE first == Len(received) + 1
           got == reader.got
           cell == data[Wrap(readIndex + Len(got))]
<1>1. /\ reader # Idle /\ Len(got) < BlockUnits(reader.size)
      /\ reader' = [reader EXCEPT !.got = Append(got, cell)]
      /\ UNCHANGED <<data, writeIndex, readIndex, writer, writeResult,
                     unsignalled, signalled,
                     readResult, sent, received>>
  BY DEF Socket__Read_RB
<1>2. reader \in Reading /\ got \in Seq(Cell) /\ reader.size \in Nat
  BY <1>1 DEF IInv, RingTypeOK, Reading
<1>3. Len(received) < Len(sent) /\ reader.size = sent[first].size
  BY <1>1 DEF IInv, ReaderOK
<1>4. Len(got) \in 0 .. BlockUnits(sent[first].size) - 1
  <2>1. BlockUnits(reader.size) \in Nat
    BY <1>2, BlockUnitsType
  <2>. QED
    BY <1>1, <1>2, <1>3, <2>1, SMT
<1>5. cell = UnitOf(sent[first], Len(got)) /\ Len(got) \in 0 .. Used - 1
  BY <1>3, <1>4, FirstUnread
<1>6. cell \in Cell
  <2>1. first \in 1 .. Len(sent) /\ Len(got) \in Nat
    BY <1>2, <1>3, SentType, SMT DEF IInv
  <2>2. sent[first].start \in Nat /\ sent[first].size \in Nat
    BY <2>1, SentType DEF IInv
  <2>. QED
    BY <1>5, <2>1, <2>2 DEF UnitOf, Cell
<1>7. /\ Append(got, cell) \in Seq(Cell)
      /\ Len(Append(got, cell)) = Len(got) + 1
      /\ Len(got) \in Nat
      /\ \A i \in 1 .. Len(got) : Append(got, cell)[i] = got[i]
      /\ Append(got, cell)[Len(got) + 1] = cell
  BY <1>2, <1>6, SMT
<1>8. /\ reader'.got = Append(got, cell) /\ reader'.size = reader.size
      /\ reader' \in Reading
  BY <1>1, <1>2, <1>7 DEF Reading
<1>9. RingTypeOK'
  BY <1>1, <1>8 DEF IInv, RingTypeOK
<1>10. ReaderOK'
  <2>1. Len(reader'.got) <= BlockUnits(reader'.size)
    <3>1. BlockUnits(reader.size) \in Nat
      BY <1>2, BlockUnitsType
    <3>. QED
      BY <3>1, <1>1, <1>7, <1>8, SMT
  <2>2. ASSUME NEW i \in 1 .. Len(got) + 1
        PROVE  Append(got, cell)[i] = UnitOf(sent[first], i - 1)
    <3>1. CASE i = Len(got) + 1
      <4>1. i - 1 = Len(got)
        BY <3>1, <1>7, SMT
      <4>. QED
        BY <3>1, <4>1, <1>5, <1>7
    <3>2. CASE i # Len(got) + 1
      <4>1. i \in 1 .. Len(got)
        BY <3>2, <1>7, SMT
      <4>. QED
        BY <4>1, <1>1, <1>7 DEF IInv, ReaderOK
    <3>. QED
      BY <3>1, <3>2
  <2>. QED
    BY <2>1, <2>2, <1>1, <1>3, <1>7, <1>8 DEF ReaderOK, UnitOf
<1>. QED
  BY <1>1, <1>9, <1>10, RingUnchanged, WriterUnchanged DEF IInv

(* Storing the read index makes the message read the last one received.    *)
LEMMA PublishReadInv ==
  ASSUME IInv, PublishRead
  PROVE  /\ IInv'
         /\ received' = Append(received, sent[Len(received) + 1])
         /\ Len(received) < Len(sent)
<1> DEFINE first == Len(received) + 1
           got == reader.got
           b == BlockUnits(reader.size)
           m == sent[first]
<1>1. /\ reader # Idle /\ Len(got) = b
      /\ readIndex' = Wrap(readIndex + b)
      /\ received' = Append(received, IF Intact(got, reader.size)
                                      THEN [start |-> got[1].start,
                                            size |-> reader.size]
                                      ELSE Mixture)
      /\ reader' = Idle /\ readResult' = "ERROR_NONE"
      /\ UNCHANGED <<data, writeIndex, writer, writeResult, unsignalled,
                     signalled, sent>>
  BY DEF PublishRead
<1>2. reader.size \in Nat
  BY <1>1 DEF IInv, RingTypeOK, Reading
<1>3. /\ Len(received) < Len(sent) /\ reader.size = m.size
      /\ \A i \in 1 .. Len(got) : got[i] = UnitOf(m, i - 1)
  BY <1>1 DEF IInv, ReaderOK
<1>4. b \in Nat /\ b >= 1 /\ b = BlockUnits(m.size)
  BY <1>2, <1>3, BlockUnitsType
<1>5. /\ first \in 1 .. Len(sent) /\ first \in first .. Len(sent)
      /\ Len(received) \in Nat /\ Len(sent) \in Nat
  BY <1>3, SentType, SMT DEF IInv
<1>6. m \in RingMessage /\ m.start \in Nat /\ m.size \in Nat
  BY <1>5, SentType DEF IInv
<1>7. received' = Append(received, m)
  <2>1. 1 \in 1 .. Len(got)
    BY <1>1, <1>4, SMT
  <2>2. got[1] = UnitOf(m, 1 - 1)
    BY <2>1, <1>3
  <2>3. got[1].start = m.start
    BY <2>2 DEF UnitOf
  <2>4. Intact(got, reader.size)
    BY <2>3, <1>3 DEF Intact, UnitOf
  <2>5. m = [start |-> m.start, size |-> m.size]
    BY <1>6 DEF RingMessage
  <2>. QED
    BY <1>1, <1>3, <2>3, <2>4, <2>5
<1>8. /\ received' \in Seq(RingMessage) /\ Len(received') = first
      /\ \A k \in 1 .. Len(received) : received'[k] = received[k]
      /\ received'[first] = m
  <2>1. received \in Seq(RingMessage)
    BY SentType DEF IInv
  <2>. QED
    BY <2>1, <1>6, <1>7, SMT
<1>9. Consumed = m.start /\ m.start + b <= UnitsWritten
  BY <1>4, <1>5, UnreadWithin DEF IInv
<1>10. UnitsWritten' = UnitsWritten
  BY <1>1 DEF UnitsWritten
<1>11. Consumed' = Consumed + b
  <2>1. CASE first < Len(sent)
    <3>1. first \in 1 .. Len(sent) - 1
      BY <2>1, <1>5, SMT
    <3>2. sent[first + 1].start = m.start + b
      BY <3>1, <1>4 DEF IInv, Ordered
    <3>. QED
      BY <2>1, <3>2, <1>1, <1>8, <1>9 DEF Consumed
  <2>2. CASE first = Len(sent)
    <3>1. ~(first < Len(sent)) /\ sent # <<>>
      BY <2>2, <1>5, SMT
    <3>2. UnitsWritten = m.start + b
      BY <2>2, <3>1, <1>4 DEF UnitsWritten
    <3>. QED
      BY <3>1, <3>2, <1>1, <1>8, <1>9, <1>10 DEF Consumed
  <2>. QED
    BY <2>1, <2>2, <1>5, SMT
<1>12. Used' = Used - b /\ b <= Used
  BY <1>4, <1>6, <1>9, <1>10, <1>11, UsedType, SMTT(40) DEF Used
<1>13. b \in 0 .. Units - 1 /\ Used - b \in 0 .. Units - 1
       /\ readIndex + b \in 0 .. 2 * Units - 1
  BY <1>4, <1>12, UsedType, UnitsType, SMT
<1>14. RingTypeOK'
  <2>1. readIndex' \in 0 .. Units - 1
    BY <1>1, <1>13, WrapType
  <2>. QED
    BY <2>1, <1>1, <1>8 DEF IInv, RingTypeOK, RingResults
<1>15. ASSUME NEW offset \in Int, b <= offset, offset <= Units - 1
       PROVE  Wrap(readIndex' + (offset - b)) = Wrap(readIndex + offset)
  <2>1. /\ offset - b \in Nat /\ b + (offset - b) <= Units
        /\ b + (offset - b) = offset
    BY <1>13, <1>15, UnitsType, SMT
  <2>2. Wrap(Wrap(readIndex + b) + (offset - b))
            = Wrap(readIndex + (b + (offset - b)))
    BY <2>1, <1>13, UsedType, WrapSum
  <2>. QED
    BY <2>1, <2>2, <1>1
<1>16. Ordered' /\ Delivered'
  <2>1. \A k \in 1 .. first : k = first \/ k \in 1 .. Len(received)
    BY <1>5, SMT
  <2>2. first <= Len(sent)
    BY <1>5, SMT
  <2>3. Delivered'
    BY <2>1, <2>2, <1>1, <1>8 DEF IInv, Delivered
  <2>. QED
    BY <2>3, <1>1 DEF IInv, Ordered
<1>17. Occupied'
  <2>1. Used \in Int /\ b <= Used /\ Used <= Units - 1
    BY <1>12, UsedType, SMT
  <2>2. Wrap(readIndex' + (Used - b)) = Wrap(readIndex + Used)
    BY <2>1, <1>15
  <2>. QED
    BY <2>2, <1>1, <1>12, <1>13, UsedType DEF Occupied
<1>18. Contents'
  <2>1. SUFFICES ASSUME NEW k \in first + 1 .. Len(sent),
                        NEW part \in 0 .. BlockUnits(sent[k].size) - 1
                 PROVE  data[Wrap(readIndex'
                                  + (sent[k].start - Consumed' + part))]
                            = UnitOf(sent[k], part)
    BY <1>1, <1>8 DEF Contents, UnitOf
  <2> DEFINE offset == sent[k].start - Consumed + part
  <2>2. k \in first .. Len(sent) /\ k \in 1 .. Len(sent) /\ first < k
    BY <1>5, SMT
  <2>3. offset \in 0 .. Used - 1
    BY <2>2, UnreadOffset
  <2>4. m.start + b <= sent[k].start
    BY <2>2, <1>4, <1>5 DEF IInv, Ordered
  <2>5. sent[k].start \in Nat /\ BlockUnits(sent[k].size) \in Nat
    BY <2>2, SentType DEF IInv
  <2>6. /\ offset \in Int /\ b <= offset /\ offset <= Units - 1
        /\ sent[k].start - Consumed' + part = offset - b
    <3>1. part \in Nat /\ offset \in Int
      BY <2>5, <1>6, <1>9, SMT
    <3>2. Used \in 0 .. Units - 1 /\ Units \in Nat
      BY UsedType, UnitsType
    <3>3. offset \in Int /\ b <= offset
      BY <3>1, <2>4, <2>5, <1>4, <1>6, <1>9, SMTT(40)
    <3>4. offset <= Units - 1
      BY <2>3, <3>2, SMT
    <3>5. sent[k].start - Consumed' + part = offset - b
      <4>1. sent[k].start - (Consumed + b) + part = offset - b
        BY <3>1, <2>5, <1>4, <1>6, <1>9, SMTT(40)
      <4>. QED
        BY <4>1, <1>11
    <3>. QED
      BY <3>3, <3>4, <3>5
  <2>7. Wrap(readIndex' + (offset - b)) = Wrap(readIndex + offset)
    BY <2>6, <1>15
  <2>8. data[Wrap(readIndex + offset)] = UnitOf(sent[k], part)
    BY <2>2 DEF IInv, Contents
  <2>. QED
    BY <2>6, <2>7, <2>8
<1>19. WriterOK'
  <2>1. SUFFICES ASSUME writer # Idle PROVE WriterOK'
    BY <1>1 DEF WriterOK
  <2>2. writer.message.size \in Nat
    BY <2>1 DEF IInv, RingTypeOK, Writing, RingMessage
  <2>3. BlockUnits(writer.message.size) \in Nat
    BY <2>2, BlockUnitsType
  <2>4. Used + BlockUnits(writer.message.size) <= Units - 1
    BY <2>1 DEF IInv, WriterOK
  <2>5. Used' + BlockUnits(writer.message.size) <= Units - 1
    BY <2>3, <2>4, <1>4, <1>12, UsedType, UnitsType, SMT
  <2>. QED
    BY <2>1, <2>5, <1>1, <1>10 DEF IInv, WriterOK, UnitOf
<1>20. ReaderOK'
  BY <1>1 DEF ReaderOK
<1>. QED
  BY <1>3, <1>7, <1>14, <1>16, <1>17, <1>18, <1>19, <1>20 DEF IInv

(* Every step of either core keeps the invariant.                          *)
LEMMA InvNext == IInv /\ [RingNext]_ringVars => IInv'
<1> SUFFICES ASSUME IInv, [RingNext]_ringVars PROVE IInv'
  OBVIOUS
<1>1. CASE \E size \in PayloadSizes : Socket_Write(size)
  BY <1>1, SocketWriteInv
<1>2. CASE Socket__Write_RB
  BY <1>2, WriteRBInv
<1>3. CASE PublishWrite
  BY <1>3, PublishWriteInv
<1>4. CASE \E bufferSize \in BufferSizes :
               Socket_Read(bufferSize) \/ HandleSignal(bufferSize)
  <2>1. PICK bufferSize \in BufferSizes :
            Socket_Read(bufferSize) \/ HandleSignal(bufferSize)
    BY <1>4
  <2>2. ReadBegins(bufferSize) /\ signalled' \in BOOLEAN
    BY <2>1 DEF Socket_Read, HandleSignal, IInv, RingTypeOK
  <2>. QED
    BY <2>2, ReadBeginsInv
<1>5. CASE Socket__Read_RB
  BY <1>5, ReadRBInv
<1>6. CASE PublishRead
  BY <1>6, PublishReadInv
<1>7. CASE Socket__Signal
  BY <1>7, SignalInv
<1>8. CASE UNCHANGED ringVars
  <2>1. RingTypeOK'
    BY <1>8 DEF IInv, RingTypeOK, ringVars
  <2>. QED
    BY <2>1, <1>8, RingUnchanged, WriterUnchanged, ReaderUnchanged
    DEF IInv, ringVars
<1>. QED
  BY <1>1, <1>2, <1>3, <1>4, <1>5, <1>6, <1>7, <1>8 DEF RingNext

-----------------------------------------------------------------------------
(* The types are kept; above all, no mixture of two messages is ever read. *)
THEOREM RingTypeCorrect == RingSpec => []RingTypeOK
<1>1. IInv => RingTypeOK
  BY DEF IInv
<1>. QED
  BY <1>1, InvInit, InvNext, PTL DEF RingSpec

(* The indices of Socket.c are equal only when everything sent was read.   *)
THEOREM FullNeverLooksEmpty == RingSpec => []EmptyMeansAllRead
<1>1. IInv => EmptyMeansAllRead
  <2> SUFFICES ASSUME IInv PROVE EmptyMeansAllRead
    OBVIOUS
  <2>1. ASSUME received = sent PROVE readIndex = writeIndex
    <3>1. ~(Len(received) < Len(sent))
      BY <2>1, SentType, SMT DEF IInv
    <3>2. Consumed = UnitsWritten
      BY <3>1 DEF Consumed
    <3>3. Used = 0
      BY <3>2, UsedType, SMT DEF Used
    <3>. QED
      BY <3>3, UsedType, UnitsType, SMT DEF Wrap
  <2>2. ASSUME readIndex = writeIndex PROVE received = sent
    <3>1. Used = 0
      BY <2>2, UsedType, UnitsType, SMT DEF Wrap
    <3>2. ~(Len(received) < Len(sent))
      <4>1. SUFFICES ASSUME Len(received) < Len(sent) PROVE FALSE
        OBVIOUS
      <4>2. Len(received) + 1 \in 1 .. Len(sent)
        BY <4>1, SentType, SMT DEF IInv
      <4>3. /\ BlockUnits(sent[Len(received) + 1].size) \in Nat
            /\ BlockUnits(sent[Len(received) + 1].size) >= 1
        BY <4>2, SentType DEF IInv
      <4>4. 0 \in 0 .. BlockUnits(sent[Len(received) + 1].size) - 1
        BY <4>3, SMT
      <4>5. 0 \in 0 .. Used - 1
        BY <4>1, <4>4, FirstUnread
      <4>. QED
        BY <3>1, <4>5, SMT
    <3>3. Len(received) = Len(sent)
      BY <3>2, SentType, SMT DEF IInv, Delivered
    <3>4. /\ received \in Seq(RingMessage) /\ sent \in Seq(RingMessage)
          /\ \A k \in 1 .. Len(received) : received[k] = sent[k]
      BY SentType DEF IInv, Delivered
    <3>. QED
      BY <3>3, <3>4, SMT
  <2>. QED
    BY <2>1, <2>2 DEF EmptyMeansAllRead
<1>. QED
  BY <1>1, InvInit, InvNext, PTL DEF RingSpec

(* A store of the writer never lands in a unit of the message that the     *)
(* reader is copying.                                                      *)
LEMMA UndisturbedStep ==
  ASSUME IInv, [RingNext]_ringVars, reader # Idle,
         NEW i \in 0 .. BlockUnits(reader.size) - 1
  PROVE  data'[Wrap(readIndex + i)] = data[Wrap(readIndex + i)]
<1>1. CASE Socket__Write_RB
  <2> DEFINE n == writer.next
             place == Wrap(readIndex + (Used + n))
  <2>1. i \in 0 .. Used - 1
    BY FirstUnread DEF IInv, ReaderOK
  <2>2. /\ writer \in Writing /\ n < BlockUnits(writer.message.size)
        /\ Used + BlockUnits(writer.message.size) <= Units - 1
    BY <1>1 DEF IInv, RingTypeOK, WriterOK, Socket__Write_RB
  <2>3. n \in Nat /\ BlockUnits(writer.message.size) \in Nat
    BY <2>2, BlockUnitsType DEF Writing, RingMessage
  <2>4. /\ Used + n \in 0 .. Units - 1 /\ Used + n <= Units
        /\ i \in 0 .. Units - 1 /\ i # Used + n
    BY <2>1, <2>2, <2>3, UsedType, UnitsType, SMT
  <2>5. Wrap(writeIndex + n) = place
    BY <2>3, <2>4, UsedType, WrapSum
  <2>6. Wrap(readIndex + i) # place
    BY <2>4, UsedType, WrapApart
  <2>7. readIndex + i \in 0 .. 2 * Units - 1
    BY <2>4, UsedType, UnitsType, SMT
  <2>8. Wrap(readIndex + i) \in 0 .. Units - 1
    BY <2>7, WrapType
  <2>. QED
    BY <1>1, <2>5, <2>6, <2>8 DEF Socket__Write_RB, IInv, RingTypeOK
<1>2. CASE UNCHANGED data
  BY <1>2
<1>. QED
  BY <1>1, <1>2
  DEF RingNext, ringVars, Socket_Write, PublishWrite, Socket__Signal, Socket_Read,
      HandleSignal, ReadBegins, Socket__Read_RB, PublishRead

(* While the reader copies a message the writer stores to none of its      *)
(* units.                                                                  *)
THEOREM ReadsAreUndisturbed == RingSpec => ReadUndisturbed
<1>1. IInv /\ [RingNext]_ringVars =>
          [reader # Idle =>
               \A i \in 0 .. BlockUnits(reader.size) - 1 :
                   data'[Wrap(readIndex + i)] = data[Wrap(readIndex + i)]]_ringVars
  BY UndisturbedStep
<1>. QED
  BY <1>1, InvInit, InvNext, PTL DEF RingSpec, ReadUndisturbed

(* Every step of the ring is a Send, a Receive or no step of the channel.  *)
LEMMA ChannelInit == RingInit => Channel!Init
  BY DEF RingInit, Channel!Init

(* Every step of the ring is a step of the channel or leaves it alone.     *)
LEMMA ChannelStep ==
  ASSUME IInv, [RingNext]_ringVars
  PROVE  [Channel!Next]_(Channel!vars)
<1>1. CASE PublishWrite
  <2> DEFINE m == writer.message
  <2>1. m \in RingMessage
    BY <1>1 DEF IInv, RingTypeOK, PublishWrite, Writing
  <2>2. sent' = Append(sent, m) /\ received' = received
    BY <1>1 DEF PublishWrite
  <2>3. /\ sent' \in Seq(RingMessage) /\ Len(sent') = Len(sent) + 1
        /\ \A i \in 1 .. Len(sent) : sent'[i] = sent[i]
    BY <2>1, <2>2, SentType, SMT DEF IInv
  <2>. QED
    BY <2>2, <2>3 DEF Channel!Send, Channel!Next
<1>2. CASE PublishRead
  <2>1. /\ received' = Append(received, sent[Len(received) + 1])
        /\ Len(received) < Len(sent)
    BY <1>2, PublishReadInv
  <2>2. sent' = sent
    BY <1>2 DEF PublishRead
  <2>. QED
    BY <2>1, <2>2 DEF Channel!Receive, Channel!Next
<1>3. CASE UNCHANGED <<sent, received>>
  BY <1>3 DEF Channel!vars
<1>. QED
  BY <1>1, <1>2, <1>3
  DEF RingNext, ringVars, Socket_Write, Socket__Write_RB, Socket__Signal,
      Socket_Read, HandleSignal, ReadBegins, Socket__Read_RB

(* The ring implements the channel.                                        *)
THEOREM RingIsChannel == RingSpec => ChannelSpec
<1>1. IInv /\ [RingNext]_ringVars => [Channel!Next]_(Channel!vars)
  BY ChannelStep
<1>. QED
  BY <1>1, ChannelInit, InvInit, InvNext, PTL DEF RingSpec, ChannelSpec, Channel!Spec

=============================================================================
