--------------------------- MODULE AdapterProofs ----------------------------
(***************************************************************************)
(* Proofs about Adapter, for every set of devices, intervals, documents    *)
(* and bounds: no pointer to a freed device, a schedule that never dies,   *)
(* no second chain, no lost wakeup, no query through a driver that was not *)
(* opened.                                                                 *)
(*                                                                         *)
(* Each of these leans on the others.  The chain goes on after a result    *)
(* because the device that the result is about is still listed, and then   *)
(* so is the next one; a query that is over leaves a device in ready only  *)
(* because a worker that holds the mutex has a pending device.  So they    *)
(* are proved together, with the facts below.                              *)
(***************************************************************************)
EXTENDS Adapter, WellFoundedInduction, FiniteSetTheorems, TLAPS

(* No schedule falls behind by more than MaxLate.                          *)
DueBounded == \A d \in Devices : due[d] >= -MaxLate

(* A worker that queries has a device to query.                            *)
QueryingOne == worker = "querying" => pending # NoDevice

(* A device has been queried only through an open driver.                  *)
QueriedOpen == (\E d \in Devices : err[d] # "INVALID") => driver = "open"

Scheduled == DueBounded /\ NoDangling /\ ChainAlive

Working == NoLostWakeup /\ QueryingOne

Driving == OpenedBeforeUse /\ QueriedOpen

Inv == TypeOK /\ Scheduled /\ Working /\ Driving

-----------------------------------------------------------------------------
(* Order and lists.                                                        *)

NatLess == {pair \in Nat \X Nat : pair[1] < pair[2]}

(* NatLess is the relation of the library's theorem.                       *)
LEMMA NatLessWellFounded == IsWellFoundedOn(NatLess, Nat)
  BY NatLessThanWellFounded, Zenon DEF OpToRel, NatLess

(* A set of natural numbers that is not empty has a least one.             *)
LEMMA NatMin ==
  ASSUME NEW S \in SUBSET Nat, S # {}
  PROVE  \E m \in S : \A k \in S : m <= k
  <1>1. \E m \in S : \A k \in S : <<k, m>> \notin NatLess
    BY WFMin, NatLessWellFounded
  <1>2. \A k, m \in Nat : <<k, m>> \notin NatLess => m <= k
    BY DEF NatLess
  <1> QED BY <1>1, <1>2

(* The members of a list are of its type (scan_device_array).              *)
LEMMA ToSetType ==
  ASSUME NEW S, NEW list \in Seq(S)
  PROVE  ToSet(list) \subseteq S
  BY DEF ToSet

(* A member stands at some place (get_next_device_to_run).                 *)
LEMMA ToSetIndex ==
  ASSUME NEW S, NEW list \in Seq(S)
  PROVE  /\ \A i \in 1 .. Len(list) : list[i] \in ToSet(list)
         /\ \A e \in ToSet(list) : \E i \in 1 .. Len(list) : list[i] = e
  BY DEF ToSet

(* Reading an empty array leaves an empty list (scan_device_array).        *)
LEMMA ReverseEmpty ==
  ASSUME NEW S, NEW list \in Seq(S), list = <<>>
  PROVE  Reverse(list) = <<>>
  <1>1. Len(list) = 0
    OBVIOUS
  <1>2. Reverse(list) = [i \in 1 .. 0 |-> list[(Len(list) - i) + 1]]
    BY <1>1 DEF Reverse
  <1>3. 1 .. 0 = {}
    OBVIOUS
  <1>4. Reverse(list) = [i \in {} |-> list[(Len(list) - i) + 1]]
    BY <1>2, <1>3
  <1>5. Reverse(list) \in [{} -> S]
    BY <1>4
  <1>6. \A f \in [1 .. 0 -> S] : f \in Seq(S) /\ Len(f) = 0
    OBVIOUS
  <1> QED BY <1>3, <1>5, <1>6

(* A list that is turned round has the type it had, and a head.            *)
LEMMA ReverseType ==
  ASSUME NEW S, NEW list \in Seq(S), list # <<>>
  PROVE  /\ Reverse(list) \in Seq(S)
         /\ Reverse(list)[1] \in ToSet(Reverse(list))
         /\ Reverse(list)[1] \in S
  <1> DEFINE rev == Reverse(list)
  <1>1. Len(list) \in Nat /\ Len(list) > 0
    OBVIOUS
  <1>2. rev = [i \in 1 .. Len(list) |-> list[(Len(list) - i) + 1]]
    BY DEF Reverse
  <1>3. \A i \in 1 .. Len(list) : list[(Len(list) - i) + 1] \in S
    BY <1>1
  <1>4. rev \in Seq(S) /\ DOMAIN rev = 1 .. Len(list)
    BY <1>1, <1>2, <1>3
  <1>5. 1 \in DOMAIN rev /\ rev[1] \in S
    BY <1>1, <1>2, <1>3, <1>4
  <1>6. rev[1] \in ToSet(rev)
    BY <1>5 DEF ToSet
  <1> QED BY <1>4, <1>5, <1>6

(* A result that is posted can be read (post_epoch_to_result_pipe).        *)
LEMMA ToSetAppend ==
  ASSUME NEW S, NEW list \in Seq(S), NEW e \in S
  PROVE  e \in ToSet(Append(list, e))
  <1>1. /\ Len(list) + 1 \in DOMAIN Append(list, e)
        /\ Append(list, e)[Len(list) + 1] = e
    OBVIOUS
  <1> QED BY <1>1 DEF ToSet

(* Reading one result leaves the others (consume_epoch_from_result_pipe).  *)
LEMMA ToSetTail ==
  ASSUME NEW S, NEW list \in Seq(S), list # <<>>,
         NEW e \in ToSet(list), e # Head(list)
  PROVE  e \in ToSet(Tail(list))
  <1>1. PICK i \in 1 .. Len(list) : list[i] = e
    BY DEF ToSet
  <1>2. i # 1
    BY <1>1
  <1>3. i - 1 \in DOMAIN Tail(list) /\ Tail(list)[i - 1] = e
    BY <1>1, <1>2
  <1> QED BY <1>3 DEF ToSet

(* The epochs read from a document (adapter_provision).                    *)
LEMMA EpochsType ==
  ASSUME NEW doc \in Docs
  PROVE  0 \in Epochs /\ EpochsRead(doc) \subseteq Epochs
  BY DEF Epochs, EpochsRead, NoEpoch

(* What the documents list (scan_device_array).                            *)
LEMMA DocType ==
  ASSUME NEW doc \in Docs
  PROVE  doc.devices \in Seq(Devices)
  BY DocsAssumption DEF Doc

-----------------------------------------------------------------------------
(* The chains of notifications and results (OneChain).                     *)

(* The places of a list that have this epoch.                              *)
Places(list, e) == {i \in DOMAIN list : list[i] = e}

(* They are finitely many.                                                 *)
LEMMA PlacesFinite ==
  ASSUME NEW S, NEW list \in Seq(S), NEW e
  PROVE  /\ IsFiniteSet(Places(list, e))
         /\ Cardinality(Places(list, e)) \in Nat
  <1>1. Len(list) \in Nat /\ DOMAIN list = 1 .. Len(list)
    OBVIOUS
  <1>2. IsFiniteSet(1 .. Len(list))
    BY <1>1, FS_Interval
  <1>3. Places(list, e) \in SUBSET (1 .. Len(list))
    BY <1>1 DEF Places
  <1>4. IsFiniteSet(Places(list, e))
    BY <1>2, <1>3, FS_Subset
  <1> QED BY <1>4, FS_CardinalityType

(* A result that is posted is one more (post_epoch_to_result_pipe).        *)
LEMMA PlacesAppend ==
  ASSUME NEW S, NEW list \in Seq(S), NEW e \in S
  PROVE  Cardinality(Places(Append(list, e), e))
             = Cardinality(Places(list, e)) + 1
  <1> DEFINE n == Len(list) + 1
             longer == Append(list, e)
  <1>1. Len(list) \in Nat /\ DOMAIN list = 1 .. Len(list)
    OBVIOUS
  <1>2. /\ DOMAIN longer = 1 .. n /\ longer[n] = e
        /\ \A i \in 1 .. Len(list) : longer[i] = list[i]
    OBVIOUS
  <1> HIDE DEF longer
  <1>3. Places(longer, e) = Places(list, e) \cup {n}
    <2>1. \A i : i \in 1 .. n <=> (i \in 1 .. Len(list) \/ i = n)
      BY <1>1
    <2> QED BY <1>1, <1>2, <2>1 DEF Places
  <1>4. n \notin Places(list, e)
    BY <1>1 DEF Places
  <1> QED BY <1>3, <1>4, PlacesFinite, FS_AddElement DEF longer

(* Reading a result leaves the others, one place nearer to the head        *)
(* (consume_epoch_from_result_pipe).                                       *)
LEMMA PlacesTail ==
  ASSUME NEW S, NEW list \in Seq(S), list # <<>>, NEW e
  PROVE  Cardinality(Places(list, e))
             = Cardinality(Places(Tail(list), e))
               + (IF Head(list) = e THEN 1 ELSE 0)
  <1> DEFINE rest == Places(Tail(list), e)
             others == Places(list, e) \ {1}
             next == [i \in rest |-> i + 1]
  <1>1. PICK n \in Nat : /\ n > 0 /\ DOMAIN list = 1 .. n
                         /\ DOMAIN Tail(list) = 1 .. n - 1
                         /\ \A i \in 1 .. n - 1 : Tail(list)[i] = list[i + 1]
                         /\ Head(list) = list[1]
                         /\ Tail(list) \in Seq(S)
    <2>1. Len(list) \in Nat /\ Len(list) > 0
      OBVIOUS
    <2> QED BY <2>1
  <1>2. ExistsBijection(rest, others)
    <2>1. \A i \in rest : i \in 1 .. n - 1 /\ i + 1 \in others
      BY <1>1 DEF Places
    <2>2. \A k \in others : k - 1 \in rest /\ (k - 1) + 1 = k
      <3>1. ASSUME NEW k \in others
            PROVE  k - 1 \in rest /\ (k - 1) + 1 = k
        <4>1. k \in 1 .. n /\ k # 1 /\ list[k] = e
          BY <1>1, <3>1 DEF Places
        <4>2. k - 1 \in 1 .. n - 1 /\ (k - 1) + 1 = k
          BY <4>1
        <4>3. Tail(list)[k - 1] = e
          BY <1>1, <4>1, <4>2
        <4> QED BY <1>1, <4>2, <4>3 DEF Places
      <3> QED BY <3>1
    <2>3. \A i, k \in rest : i + 1 = k + 1 => i = k
      BY <2>1
    <2> HIDE DEF rest, others
    <2>4. next \in [rest -> others]
      BY <2>1
    <2>5. next \in Injection(rest, others)
      BY <2>3, <2>4 DEF Injection, IsInjective
    <2>6. next \in Surjection(rest, others)
      BY <2>2, <2>4 DEF Surjection
    <2> QED BY <2>5, <2>6 DEF ExistsBijection, Bijection
  <1>3. IsFiniteSet(rest) /\ Cardinality(rest) \in Nat
    BY <1>1, PlacesFinite
  <1>4. Cardinality(others) = Cardinality(rest)
    BY <1>2, <1>3, FS_Bijection
  <1>5. /\ IsFiniteSet(Places(list, e))
        /\ Cardinality(Places(list, e)) \in Nat
    BY PlacesFinite
  <1>6. Cardinality(others)
            = IF 1 \in Places(list, e) THEN Cardinality(Places(list, e)) - 1
              ELSE Cardinality(Places(list, e))
    BY <1>5, FS_RemoveElement
  <1>7. 1 \in Places(list, e) <=> Head(list) = e
    BY <1>1 DEF Places
  <1> HIDE DEF rest, others
  <1> QED BY <1>3, <1>4, <1>5, <1>6, <1>7 DEF rest

(* An epoch that no unread result has, has no place.                       *)
LEMMA PlacesNone ==
  ASSUME NEW list, NEW e, e \notin ToSet(list)
  PROVE  Cardinality(Places(list, e)) = 0
  <1>1. Places(list, e) = {}
    BY DEF Places, ToSet
  <1> QED BY <1>1, FS_EmptySet

-----------------------------------------------------------------------------
(* The next device (get_next_device_to_run): there is a first of the       *)
(* earliest, and it is in the list.                                        *)
LEMMA NextToRunListed ==
  ASSUME devices \in Seq(Devices), devices # <<>>,
         due \in [Devices -> Int], DueBounded,
         NEW current \in Listed \cup {NoDevice}
  PROVE  NextToRun(current) \in Listed
  <1> DEFINE n == Len(devices)
             at == CHOOSE i \in 1 .. n : devices[i] = current
             line == [k \in 1 .. n |-> devices[((at + k - 1) % n) + 1]]
             late(i) == due[line[i]] + MaxLate
             First(i) == \A j \in 1 .. n :
                             /\ due[line[i]] <= due[line[j]]
                             /\ j < i => due[line[i]] < due[line[j]]
  <1>1. n \in Nat /\ n > 0 /\ devices[1] \in Listed
    BY ToSetIndex DEF Listed
  <1>2. CASE current = NoDevice \/ Len(devices) = 1
    BY <1>1, <1>2 DEF NextToRun
  <1>3. CASE ~(current = NoDevice \/ Len(devices) = 1)
    <2>1. at \in 1 .. n
      BY <1>3, ToSetIndex DEF Listed
    <2>2. \A k \in 1 .. n : ((at + k - 1) % n) + 1 \in 1 .. n
      BY <1>1, <2>1
    <2>3. \A k \in 1 .. n : line[k] \in Listed /\ line[k] \in Devices
      BY <2>2, ToSetIndex, ToSetType DEF Listed
    <2> HIDE DEF at, line
    <2>4. \A k \in 1 .. n : due[line[k]] \in Int /\ late(k) \in Nat
      BY <2>3, BoundsAssumption DEF DueBounded
    <2> DEFINE lates == {late(k) : k \in 1 .. n}
               earliest(m) == {k \in 1 .. n : late(k) = m}
    <2>5. PICK m \in lates : \A k \in 1 .. n : m <= late(k)
      <3>1. lates \in SUBSET Nat
        BY <2>4
      <3>2. late(1) \in lates
        BY <1>1
      <3> HIDE DEF lates
      <3>3. PICK m \in lates : \A l \in lates : m <= l
        BY <3>1, <3>2, NatMin
      <3> USE DEF lates
      <3> QED BY <3>3
    <2>6. PICK i \in earliest(m) : \A k \in earliest(m) : i <= k
      <3>1. earliest(m) \in SUBSET Nat /\ earliest(m) # {}
        BY <1>1, <2>5
      <3> QED BY <3>1, NatMin
    <2>7. i \in 1 .. n /\ First(i)
      <3>1. i \in 1 .. n /\ late(i) = m
        BY <2>6
      <3>2. ASSUME NEW j \in 1 .. n
            PROVE  late(i) <= late(j) /\ (j < i => late(i) # late(j))
        BY <1>1, <2>5, <2>6, <3>1
      <3>3. ASSUME NEW j \in 1 .. n
            PROVE  /\ late(i) <= late(j) => due[line[i]] <= due[line[j]]
                   /\ /\ late(i) <= late(j)
                      /\ late(i) # late(j)
                      => due[line[i]] < due[line[j]]
        <4>1. /\ due[line[i]] \in Int /\ due[line[j]] \in Int
              /\ late(i) = due[line[i]] + MaxLate
              /\ late(j) = due[line[j]] + MaxLate
          BY <2>4, <3>1, <3>3
        <4>2. \A a, b \in Int, c \in Nat :
                  /\ a + c <= b + c => a <= b
                  /\ a + c <= b + c /\ a + c # b + c => a < b
          OBVIOUS
        <4> QED BY <4>1, <4>2, BoundsAssumption
      <3> QED BY <3>1, <3>2, <3>3
    <2>8. (CHOOSE k \in 1 .. n : First(k)) \in 1 .. n
      BY <2>7
    <2>9. NextToRun(current) = line[CHOOSE k \in 1 .. n : First(k)]
      BY <1>3 DEF NextToRun, line, at
    <2> QED BY <2>3, <2>8, <2>9
  <1> QED BY <1>2, <1>3

-----------------------------------------------------------------------------
(* Parts that several actions are built from.                              *)

(* A device that is notified is pending, and the worker is awake           *)
(* (notify_worker_locked).                                                 *)
LEMMA NotifyWorks ==
  ASSUME TypeOK, NEW device \in Devices, NotifyWorker(device)
  PROVE  /\ pending' = device /\ pending' # NoDevice
         /\ worker' \in {"head", "enter", "woken", "querying", "done"}
         /\ worker # "querying" => worker' # "querying"
  BY DevicesAssumption DEF TypeOK, NotifyWorker

(* A new list is polled from its head (adapter_provision).                 *)
LEMMA ApplyInv ==
  ASSUME Inv, ~Locked, NEW doc \in Docs, NEW newEpoch \in Epochs,
         Apply(doc, newEpoch),
         mainPc' \in {"init", "loop", "joining", "gone"},
         running' \in BOOLEAN, pipe' \in Seq(Epochs), saved' \subseteq Docs
  PROVE  Inv'
  <1> DEFINE list == Reverse(doc.devices)
  <1> USE DEF Inv
  <1>1. doc.devices \in Seq(Devices)
    BY DocType
  <1>2. list \in Seq(Devices)
    BY <1>1, ReverseType, ReverseEmpty
  <1>3. devices' = list /\ Listed' = ToSet(list)
    BY DEF Apply, Listed
  <1>4. due' \in [Devices -> Int] /\ DueBounded'
    <2>1. ASSUME NEW d \in ToSet(list)
          PROVE  (CHOOSE i \in 1 .. Len(list) : list[i] = d) \in Nat \ {0}
      BY <1>2, ToSetIndex
    <2>2. Spread(list) \in [Devices -> Nat]
      BY <2>1 DEF Spread
    <2> QED BY <2>2, BoundsAssumption DEF Apply, DueBounded
  <1>5. /\ err' = NeverQueried /\ driverState' = "INIT"
        /\ ready' = NoDevice /\ timer' = Unarmed /\ epoch' = newEpoch
        /\ driver' \in {"none", "closed"}
    BY DEF Apply, Reset
  <1>6. CASE doc.devices = <<>>
    <2>1. list = <<>>
      BY <1>1, <1>6, ReverseEmpty
    <2>2. pending' = NoDevice /\ worker' = worker
      BY <1>6 DEF Apply
    <2>3. TypeOK'
      BY <1>2, <1>3, <1>4, <1>5, <2>2
      DEF TypeOK, NeverQueried, Unarmed, Listed
    <2>4. Scheduled' /\ Working' /\ Driving'
      BY <1>3, <1>4, <1>5, <2>1, <2>2
      DEF Scheduled, NoDangling, ChainAlive, Working, NoLostWakeup,
          QueryingOne, Locked, Driving, OpenedBeforeUse, QueriedOpen,
          NeverQueried, Unarmed
    <2> QED BY <2>3, <2>4
  <1>7. CASE doc.devices # <<>>
    <2>1. list[1] \in ToSet(list) /\ list[1] \in Devices
      BY <1>1, <1>7, ReverseType
    <2>2. NotifyWorker(list[1])
      BY <1>7 DEF Apply
    <2>3. /\ pending' = list[1] /\ pending' # NoDevice
          /\ worker' \in {"head", "enter", "woken", "done"}
      BY <2>1, <2>2, NotifyWorks DEF Locked
    <2>4. TypeOK'
      BY <1>2, <1>3, <1>4, <1>5, <2>1, <2>3
      DEF TypeOK, NeverQueried, Unarmed, Listed
    <2>5. Scheduled' /\ Working' /\ Driving'
      BY <1>3, <1>4, <1>5, <2>1, <2>3
      DEF Scheduled, NoDangling, ChainAlive, Working, NoLostWakeup,
          QueryingOne, Driving, OpenedBeforeUse, QueriedOpen,
          NeverQueried, Unarmed
    <2> QED BY <2>4, <2>5
  <1> QED BY <1>6, <1>7

(* An adapter without devices has nothing to be wrong about (reset_adapter *)
(* on a document that is refused, the end of the process).                 *)
LEMMA EmptyInv ==
  ASSUME epoch' = 0, devices' = <<>>, due' = ZeroDue, err' = NeverQueried,
         driver' = "none", driverState' = "INIT", pending' = NoDevice,
         ready' = NoDevice, timer' = Unarmed,
         mainPc' \in {"init", "loop", "joining", "gone"},
         running' \in BOOLEAN, pipe' \in Seq(Epochs), saved' \subseteq Docs,
         worker' \in {"head", "enter", "waiting", "woken", "done"}
  PROVE  Inv'
  <1>1. 0 \in Epochs
    BY DEF Epochs, NoEpoch
  <1>2. TypeOK'
    BY <1>1 DEF TypeOK, ZeroDue, NeverQueried, Unarmed
  <1>3. DueBounded'
    BY BoundsAssumption DEF DueBounded, ZeroDue
  <1> QED
    BY <1>2, <1>3
    DEF Inv, Scheduled, NoDangling, ChainAlive, Working, NoLostWakeup,
        QueryingOne, Driving, OpenedBeforeUse, QueriedOpen, NeverQueried,
        Unarmed

(* Inv asks nothing of mainPc, running and saved but their types.          *)
LEMMA ThreadInv ==
  ASSUME Inv, UNCHANGED <<provision, due, err, driver, driverState, schedule>>,
         mainPc' \in {"init", "loop", "joining", "gone"},
         running' \in BOOLEAN, saved' \subseteq Docs,
         \/ worker' \in {"head", "enter", "woken", "done"}
         \/ worker' = worker
         \/ worker' = "waiting" /\ pending = NoDevice
  PROVE  Inv'
  <1> USE DEF Inv, provision, schedule
  <1>1. TypeOK'
    BY DEF TypeOK
  <1>2. Scheduled'
    BY DEF Scheduled, DueBounded, NoDangling, ChainAlive, Listed
  <1>3. Working' /\ Driving'
    BY DEF Working, NoLostWakeup, QueryingOne, Driving, OpenedBeforeUse,
           QueriedOpen
  <1> QED BY <1>1, <1>2, <1>3

-----------------------------------------------------------------------------
(* The actions that change the list, the schedule or the driver.           *)

(* The list is empty at first (adapter_init).                              *)
LEMMA InitInv == Init => Inv
  <1> SUFFICES ASSUME Init PROVE Inv
    OBVIOUS
  <1>1. 0 \in Epochs
    BY DEF Epochs, NoEpoch
  <1>2. TypeOK
    BY <1>1 DEF Init, TypeOK, ZeroDue, NeverQueried, Unarmed
  <1>3. DueBounded
    BY BoundsAssumption DEF Init, DueBounded, ZeroDue
  <1> QED
    BY <1>2, <1>3
    DEF Init, Inv, Scheduled, NoDangling, ChainAlive, Working, NoLostWakeup,
        QueryingOne, Driving, OpenedBeforeUse, QueriedOpen, NeverQueried,
        Unarmed

(* A document of the hub (adapter_provision).                              *)
LEMMA ReceiveInv ==
  ASSUME Inv, NEW doc \in Docs, ReceiveProvision(doc)
  PROVE  Inv'
  <1>1. PICK newEpoch \in EpochsRead(doc) :
          \/ /\ UNCHANGED <<worker, epoch, devices, due, err, driver,
                            driverState, pending, ready, timer, saved>>
          \/ saved' \in SaveOutcomes(doc) /\ Apply(doc, newEpoch)
          \/ Withdraw /\ UNCHANGED saved
    BY DEF ReceiveProvision
  <1>2. /\ mainPc' \in {"init", "loop", "joining", "gone"}
        /\ running' \in BOOLEAN /\ pipe' = pipe /\ pipe \in Seq(Epochs)
        /\ saved \subseteq Docs /\ ~Locked
    BY DEF ReceiveProvision, InLoop, Inv, TypeOK
  <1>3. CASE UNCHANGED <<worker, epoch, devices, due, err, driver,
                         driverState, pending, ready, timer, saved>>
    BY <1>2, <1>3, ThreadInv DEF provision, schedule
  <1>4. CASE saved' \in SaveOutcomes(doc) /\ Apply(doc, newEpoch)
    <2>1. saved' \subseteq Docs
      BY <1>2, <1>4 DEF SaveOutcomes
    <2>2. newEpoch \in Epochs
      BY EpochsType
    <2> QED BY <1>2, <1>4, <2>1, <2>2, ApplyInv
  <1>5. CASE Withdraw /\ UNCHANGED saved
    <2>1. worker' \in {"head", "enter", "waiting", "woken", "done"}
      BY <1>2, <1>5 DEF Withdraw, Inv, TypeOK, Locked
    <2> QED BY <1>2, <1>5, <2>1, EmptyInv DEF Withdraw, Reset
  <1> QED BY <1>1, <1>3, <1>4, <1>5

(* The document in mutable storage (apply_local_provision).                *)
LEMMA ApplyLocalInv ==
  ASSUME Inv, ApplyLocalProvision
  PROVE  Inv'
  <1>1. /\ mainPc' \in {"init", "loop", "joining", "gone"}
        /\ running' \in BOOLEAN /\ pipe' = pipe /\ pipe \in Seq(Epochs)
        /\ saved' = saved /\ saved \subseteq Docs /\ ~Locked
    BY DEF ApplyLocalProvision, Inv, TypeOK
  <1>2. CASE UNCHANGED <<worker, epoch, devices, due, err, driver,
                         driverState, pending, ready, timer>>
    BY <1>1, <1>2, ThreadInv DEF provision, schedule
  <1>3. ASSUME NEW doc \in saved, NEW newEpoch \in EpochsRead(doc),
               Apply(doc, newEpoch)
        PROVE  Inv'
    <2>1. doc \in Docs /\ newEpoch \in Epochs
      BY <1>1, EpochsType
    <2> QED BY <1>1, <1>3, <2>1, ApplyInv
  <1> QED BY <1>2, <1>3 DEF ApplyLocalProvision

(* A result of an earlier provisioning: the chain never hung on it         *)
(* (handle_device_result).                                                 *)
LEMMA IgnoreInv ==
  ASSUME Inv, IgnoreResult
  PROVE  Inv'
  <1> USE DEF Inv, IgnoreResult, threads, provision
  <1>1. TypeOK'
    BY DEF TypeOK
  <1>2. epoch \in ToSet(pipe) => epoch \in ToSet(pipe')
    BY ToSetTail DEF TypeOK, Stale
  <1>3. Scheduled'
    BY <1>2 DEF Scheduled, DueBounded, NoDangling, ChainAlive, Listed
  <1>4. Working' /\ Driving'
    BY DEF Working, NoLostWakeup, QueryingOne, Driving, OpenedBeforeUse,
           QueriedOpen
  <1> QED BY <1>1, <1>3, <1>4

(* A result of this provisioning schedules the next device                 *)
(* (handle_device_result, schedule_next_device).                           *)
LEMMA HandleInv ==
  ASSUME Inv, HandleResult
  PROVE  Inv'
  <1> DEFINE next == NextToRun(ready)
  <1>1. /\ TypeOK /\ Scheduled /\ Working /\ Driving /\ ~Locked
        /\ UNCHANGED <<mainPc, running, epoch, devices, err, driver, saved>>
        /\ ready' = NoDevice /\ pipe' = Tail(pipe) /\ pipe # <<>>
        /\ Listed' = Listed /\ Listed \subseteq Devices
    BY ToSetType
    DEF Inv, HandleResult, InLoop, provision, Listed, TypeOK
  <1>2. driverState' # "INIT" => driver = "open"
    BY <1>1 DEF HandleResult, DriverStateOf, Driving, OpenedBeforeUse,
                QueriedOpen
  <1>3. driverState' \in {"INIT", "OPENED", "PARTIAL", "NORMAL"}
    BY <1>1 DEF HandleResult, DriverStateOf, TypeOK
  <1>4. Driving'
    BY <1>1, <1>2 DEF Driving, OpenedBeforeUse, QueriedOpen
  <1>5. ScheduleNext(ready)
    BY DEF HandleResult
  <1>6. devices # <<>> => next \in Listed /\ next \in Devices
    BY <1>1, NextToRunListed DEF TypeOK, Scheduled, NoDangling
  <1>7. CASE next = NoDevice
    <2>1. devices = <<>>
      BY <1>1, <1>6, <1>7, DevicesAssumption
    <2>2. UNCHANGED <<due, pending, worker, timer>>
      BY <1>5, <1>7 DEF ScheduleNext
    <2>3. TypeOK'
      BY <1>1, <1>3, <2>2 DEF TypeOK
    <2> QED
      BY <1>1, <1>4, <2>1, <2>2, <2>3
      DEF Inv, Scheduled, DueBounded, NoDangling, ChainAlive, Working,
          NoLostWakeup, QueryingOne
  <1>8. CASE next # NoDevice
    <2> HIDE DEF next
    <2>1. next \in Listed /\ next \in Devices
      BY <1>6, <1>8 DEF NextToRun, next
    <2>2. CASE due[next] > 0
      <3>1. /\ timer' = [device |-> next, left |-> due[next]]
            /\ UNCHANGED <<due, pending, worker>>
        BY <1>1, <1>5, <1>8, <2>1, <2>2 DEF ScheduleNext, next, TypeOK
      <3>2. TypeOK'
        BY <1>1, <1>3, <2>1, <2>2, <3>1 DEF TypeOK
      <3> QED
        BY <1>1, <1>4, <1>8, <2>1, <3>1, <3>2
        DEF Inv, Scheduled, DueBounded, NoDangling, ChainAlive, Working,
            NoLostWakeup, QueryingOne
    <2>3. CASE due[next] <= 0
      <3>1. /\ due' = [due EXCEPT ![next] = 0] /\ timer' = timer
            /\ NotifyWorker(next)
        BY <1>1, <1>5, <1>8, <2>1, <2>3 DEF ScheduleNext, next, TypeOK
      <3>2. /\ pending' = next /\ pending' # NoDevice
            /\ worker' \in {"head", "enter", "woken", "done"}
        BY <1>1, <2>1, <3>1, NotifyWorks DEF Locked
      <3>3. TypeOK'
        BY <1>1, <1>3, <2>1, <3>1, <3>2 DEF TypeOK
      <3>4. DueBounded'
        BY <1>1, <3>1, BoundsAssumption DEF Scheduled, DueBounded, TypeOK
      <3> QED
        BY <1>1, <1>4, <2>1, <3>1, <3>2, <3>3, <3>4
        DEF Inv, Scheduled, NoDangling, ChainAlive, Working, NoLostWakeup,
            QueryingOne
    <2>4. due[next] \in Int
      BY <1>1, <2>1 DEF TypeOK
    <2> QED BY <2>2, <2>3, <2>4
  <1> QED BY <1>7, <1>8

(* The timer notifies the device it was armed for (notify_worker_callback).*)
LEMMA TimerInv ==
  ASSUME Inv, NotifyTimer
  PROVE  Inv'
  <1>1. /\ TypeOK /\ Scheduled /\ Working /\ Driving /\ ~Locked
        /\ UNCHANGED <<mainPc, running, epoch, devices, due, err, driver,
                      driverState, ready, pipe, saved>>
        /\ timer' = Unarmed
    BY DEF Inv, NotifyTimer, InLoop, provision
  <1>2. timer.device \in Devices /\ timer.device \in Listed
    BY <1>1 DEF NotifyTimer, TypeOK, Scheduled, NoDangling
  <1>3. /\ pending' = timer.device /\ pending' # NoDevice
        /\ worker' \in {"head", "enter", "woken", "done"}
    BY <1>1, <1>2, NotifyWorks DEF NotifyTimer, Locked
  <1>4. TypeOK'
    BY <1>1, <1>2, <1>3 DEF TypeOK, Unarmed
  <1> QED
    BY <1>1, <1>2, <1>3, <1>4
    DEF Inv, Scheduled, DueBounded, NoDangling, ChainAlive, Listed, Unarmed,
        Working, NoLostWakeup, QueryingOne, Driving, OpenedBeforeUse,
        QueriedOpen

(* The worker takes the mutex and looks for a device                       *)
(* (device_worker_thread).                                                 *)
LEMMA WorkerLockInv ==
  ASSUME Inv, WorkerLock
  PROVE  Inv'
  <1>1. CASE pending = NoDevice
    <2>1. worker' \in {"waiting", "head"} /\ due' = due
      BY <1>1 DEF WorkerLock
    <2> QED
      BY <1>1, <2>1, ThreadInv
      DEF WorkerLock, provision, schedule, Inv, TypeOK
  <1>2. CASE pending # NoDevice
    <2>1. /\ TypeOK /\ Scheduled /\ Working /\ Driving
          /\ UNCHANGED <<mainPc, running, epoch, devices, err, driver,
                        driverState, pending, ready, timer, pipe, saved>>
          /\ worker' = "querying"
          /\ due' = [due EXCEPT ![pending] = @ + Interval[pending]]
      BY <1>2 DEF WorkerLock, Inv, provision, schedule
    <2>2. due' \in [Devices -> Int] /\ DueBounded'
      <3>1. Interval[pending] \in Nat /\ due \in [Devices -> Int]
        BY <1>2, <2>1, IntervalAssumption DEF TypeOK
      <3>2. /\ due' \in [Devices -> Int]
            /\ \A d \in Devices : due'[d] >= due[d]
        <4> DEFINE later(d) == IF d = pending THEN due[d] + Interval[pending]
                                              ELSE due[d]
        <4>1. due' = [d \in Devices |-> later(d)]
          BY <2>1, <3>1
        <4>2. \A d \in Devices : later(d) \in Int /\ later(d) >= due[d]
          BY <3>1
        <4> HIDE DEF later
        <4> QED BY <4>1, <4>2
      <3> QED
        BY <2>1, <3>1, <3>2, BoundsAssumption DEF Scheduled, DueBounded
    <2>3. TypeOK'
      BY <2>1, <2>2 DEF TypeOK
    <2> QED
      BY <1>2, <2>1, <2>2, <2>3
      DEF Inv, Scheduled, NoDangling, ChainAlive, Listed, Working,
          NoLostWakeup, QueryingOne, Driving, OpenedBeforeUse, QueriedOpen
  <1> QED BY <1>1, <1>2

(* What a query leaves, whatever it returned: the device is ready and its  *)
(* result unread (device_worker_thread, post_epoch_to_result_pipe).        *)
LEMMA PostResultInv ==
  ASSUME Inv, PostResult, err' \in [Devices -> ErrCodes \cup {"INVALID"}],
         driver' \in {"none", "closed", "open"}, Driving'
  PROVE  Inv'
  <1>1. /\ TypeOK /\ Scheduled /\ Working
        /\ UNCHANGED <<mainPc, running, epoch, devices, due, driverState,
                      timer, saved>>
        /\ worker' = "head" /\ ready' = pending /\ pending' = NoDevice
        /\ pipe' = Append(pipe, epoch)
    BY DEF PostResult, Inv, provision
  <1>2. TypeOK'
    BY <1>1 DEF TypeOK
  <1>3. epoch' \in ToSet(pipe')
    BY <1>1, ToSetAppend DEF TypeOK
  <1> QED
    BY <1>1, <1>2, <1>3
    DEF Inv, Scheduled, DueBounded, NoDangling, ChainAlive, Listed, Working,
        NoLostWakeup, QueryingOne

(* A driver that cannot be opened is tried again with the next device      *)
(* (query_device).                                                         *)
LEMMA OpenFailsInv ==
  ASSUME Inv, OpenFails
  PROVE  Inv'
  <1>1. PostResult /\ UNCHANGED <<err, driver, driverState>>
    BY DEF OpenFails, PostResult
  <1>2. Driving'
    BY <1>1 DEF Inv, Driving, OpenedBeforeUse, QueriedOpen
  <1> QED BY <1>1, <1>2, PostResultInv DEF Inv, TypeOK

(* A device is queried through an open driver (query_device).              *)
LEMMA GetPointListInv ==
  ASSUME Inv, NEW code \in ErrCodes, GetPointList(code)
  PROVE  Inv'
  <1>1. /\ PostResult /\ driverState' = driverState
        /\ err' = [err EXCEPT ![pending] = code]
        /\ driver' = IF OpensDriver THEN "open" ELSE driver
    BY DEF GetPointList, PostResult
  <1>2. driver' = "open"
    BY <1>1 DEF OpensDriver, Inv, Driving, OpenedBeforeUse
  <1>3. Driving'
    BY <1>2 DEF Driving, OpenedBeforeUse, QueriedOpen
  <1> QED BY <1>1, <1>2, <1>3, PostResultInv DEF Inv, TypeOK

(* Time moves schedules and the timer only.                                *)
LEMMA TickInv ==
  ASSUME Inv, Tick
  PROVE  Inv'
  <1>1. /\ TypeOK /\ Scheduled /\ Working /\ Driving
        /\ UNCHANGED <<mainPc, running, worker, epoch, devices, err, driver,
                      driverState, pending, ready, pipe, saved>>
        /\ due' = [d \in Devices |-> IF d \in Listed /\ due[d] > -MaxLate
                                     THEN due[d] - 1 ELSE due[d]]
        /\ timer' = [timer EXCEPT !.left = IF @ = 0 THEN 0 ELSE @ - 1]
    BY DEF Tick, Inv, threads, provision
  <1>2. due' \in [Devices -> Int] /\ DueBounded'
    BY <1>1, BoundsAssumption DEF TypeOK, Scheduled, DueBounded
  <1>3. /\ timer' \in [device : Devices \cup {NoDevice}, left : Nat]
        /\ timer'.device = timer.device
    <2>1. timer \in [device : Devices \cup {NoDevice}, left : Nat]
      BY <1>1 DEF TypeOK
    <2>2. \A left \in Nat : (IF left = 0 THEN 0 ELSE left - 1) \in Nat
      OBVIOUS
    <2> QED BY <1>1, <2>1, <2>2
  <1>4. TypeOK'
    BY <1>1, <1>2, <1>3 DEF TypeOK
  <1> QED
    BY <1>1, <1>2, <1>3, <1>4
    DEF Inv, Scheduled, NoDangling, ChainAlive, Listed, Working,
        NoLostWakeup, QueryingOne, Driving, OpenedBeforeUse, QueriedOpen

(* The end of the process, whatever ends it (app_main, watchdog_handler).  *)
LEMMA VanishInv ==
  ASSUME Inv, Vanish
  PROVE  Inv'
  <1>1. /\ mainPc' = "gone" /\ running' = FALSE /\ worker' = "done"
        /\ pipe' = <<>> /\ saved' \subseteq Docs
    BY DEF Vanish, Inv, TypeOK
  <1>2. pipe' \in Seq(Epochs)
    BY <1>1
  <1> QED BY <1>1, <1>2, EmptyInv DEF Vanish

-----------------------------------------------------------------------------
(* Every step keeps the invariant.                                         *)

(* The steps of the main thread (event loop, adapter_deinit).              *)
LEMMA MainStepInv ==
  ASSUME Inv, MainStep
  PROVE  Inv'
  <1>1. CASE Deinit
    BY <1>1, ThreadInv
    DEF Deinit, provision, schedule, Inv, TypeOK
  <1>2. CASE Exit
    BY <1>2, VanishInv DEF Exit
  <1> QED
    BY <1>1, <1>2, ApplyLocalInv, IgnoreInv, HandleInv, TimerInv
    DEF MainStep

(* The steps of the worker (device_worker_thread, query_device).           *)
LEMMA WorkerStepInv ==
  ASSUME Inv, WorkerStep
  PROVE  Inv'
  <1>1. CASE WorkerLoop
    BY <1>1, ThreadInv
    DEF WorkerLoop, provision, schedule, Inv, TypeOK
  <1> QED
    BY <1>1, WorkerLockInv, OpenFailsInv, GetPointListInv DEF WorkerStep

(* What happens to the process (the hub, signals, crashes, time).          *)
LEMMA EnvironmentInv ==
  ASSUME Inv, Environment
  PROVE  Inv'
  <1>1. CASE Stop
    BY <1>1, ThreadInv DEF Stop, provision, schedule, Inv, TypeOK
  <1>2. CASE Restart
    BY <1>2, ThreadInv DEF Restart, provision, schedule, Inv, TypeOK
  <1>3. CASE SpuriousWakeup
    BY <1>3, ThreadInv DEF SpuriousWakeup, provision, schedule, Inv, TypeOK
  <1>4. CASE WatchdogExit \/ Crash
    BY <1>4, VanishInv DEF WatchdogExit, Crash
  <1> QED
    BY <1>1, <1>2, <1>3, <1>4, ReceiveInv, TickInv DEF Environment

(* Every step of the adapter (Next).                                       *)
LEMMA StepInv == Inv /\ [Next]_vars => Inv'
  <1> SUFFICES ASSUME Inv, [Next]_vars PROVE Inv'
    OBVIOUS
  <1>1. CASE UNCHANGED vars
    BY <1>1, ThreadInv DEF vars, provision, schedule, Inv, TypeOK
  <1> QED BY <1>1, MainStepInv, WorkerStepInv, EnvironmentInv DEF Next

(* The invariant holds in every reachable state.                           *)
THEOREM SpecInv == Spec => []Inv
  BY InitInv, StepInv, PTL DEF Spec

(* The state has its types.                                                *)
THEOREM TypeCorrect == Spec => []TypeOK
  <1>1. Inv => TypeOK
    BY DEF Inv
  <1> QED BY <1>1, SpecInv, PTL

(* The worker, the result handler and the timer hold only devices of the   *)
(* present list, or none: reset_adapter leaves no pointer to one it freed. *)
THEOREM DanglesNever == Spec => []NoDangling
  <1>1. Inv => NoDangling
    BY DEF Inv, Scheduled
  <1> QED BY <1>1, SpecInv, PTL

(* While devices are listed, one is pending, the timer is armed or a       *)
(* result of this provisioning is unread: ignoring a stale result never    *)
(* ends the chain (handle_device_result).                                  *)
THEOREM ChainNeverEnds == Spec => []ChainAlive
  <1>1. Inv => ChainAlive
    BY DEF Inv, Scheduled
  <1> QED BY <1>1, SpecInv, PTL

(* The worker never sleeps while a device is pending for it                *)
(* (device_worker_thread, notify_worker_locked).                           *)
THEOREM WakeupNeverLost == Spec => []NoLostWakeup
  <1>1. Inv => NoLostWakeup
    BY DEF Inv, Working
  <1> QED BY <1>1, SpecInv, PTL

(* A driver state past DRIVER_STATE_INIT, in which query_device opens no   *)
(* driver, means that the driver is open.                                  *)
THEOREM OpenedFirst == Spec => []OpenedBeforeUse
  <1>1. Inv => OpenedBeforeUse
    BY DEF Inv, Driving
  <1> QED BY <1>1, SpecInv, PTL

-----------------------------------------------------------------------------
(* A second chain begins only with an epoch that an unread result has.     *)

NoSecondChain ==
    Tokens' > Tokens => \/ Tokens = 0 /\ Tokens' = 1
                        \/ epoch' # epoch /\ epoch' \in ToSet(pipe)

Held(device) == IF device # NoDevice THEN 1 ELSE 0

(* What begets the next query, in numbers.                                 *)
LEMMA TokensAre ==
  ASSUME Inv, Inv'
  PROVE  /\ Tokens = Held(pending) + Held(timer.device)
                     + Cardinality(Places(pipe, epoch))
         /\ Tokens' = Held(pending') + Held(timer'.device)
                      + Cardinality(Places(pipe', epoch'))
         /\ Cardinality(Places(pipe, epoch)) \in Nat
         /\ Cardinality(Places(pipe', epoch')) \in Nat
         /\ pipe \in Seq(Epochs) /\ epoch \in Epochs
  <1>1. pipe \in Seq(Epochs) /\ pipe' \in Seq(Epochs) /\ epoch \in Epochs
    BY DEF Inv, TypeOK
  <1> QED BY <1>1, PlacesFinite DEF Tokens, Unread, Places, Held

(* Whatever else happens to the pipe, the timer and the pending device     *)
(* with the adapter left alone, the chains are those there were.           *)
LEMMA QuietChain ==
  ASSUME Inv, Inv', UNCHANGED <<epoch, pending, pipe>>,
         timer'.device = timer.device
  PROVE  NoSecondChain
  BY TokensAre DEF NoSecondChain, Held

(* A provisioning cancels the timer and leaves at most one device pending  *)
(* (adapter_provision, reset_adapter).                                     *)
LEMMA ProvisionChain ==
  ASSUME Inv, Inv', timer' = Unarmed, pipe' = pipe,
         epoch' # epoch \/ pending' = NoDevice
  PROVE  NoSecondChain
  <1>1. Held(timer'.device) = 0 /\ Held(pending') \in {0, 1}
        /\ Held(pending) \in {0, 1} /\ Held(timer.device) \in {0, 1}
    BY DEF Unarmed, Held
  <1>2. CASE epoch' # epoch /\ epoch' \in ToSet(pipe)
    BY <1>2 DEF NoSecondChain
  <1>3. CASE epoch' \notin ToSet(pipe)
    <2>1. Cardinality(Places(pipe', epoch')) = 0
      BY <1>3, PlacesNone
    <2> QED BY <1>1, <2>1, TokensAre DEF NoSecondChain
  <1>4. CASE epoch' = epoch
    <2>1. Held(pending') = 0
      BY <1>4 DEF Held
    <2> QED BY <1>1, <1>4, <2>1, TokensAre DEF NoSecondChain
  <1> QED BY <1>2, <1>3, <1>4

(* The document in force changes nothing; another one replaces the adapter *)
(* (adapter_provision).                                                    *)
LEMMA ReceiveChain ==
  ASSUME Inv, Inv', NEW doc \in Docs, ReceiveProvision(doc)
  PROVE  NoSecondChain
  <1>1. PICK newEpoch \in EpochsRead(doc) :
            \/ UNCHANGED <<epoch, pending, timer>>
            \/ newEpoch # epoch /\ Apply(doc, newEpoch)
            \/ Withdraw
    BY DEF ReceiveProvision
  <1>2. pipe' = pipe
    BY DEF ReceiveProvision
  <1>3. CASE UNCHANGED <<epoch, pending, timer>>
    BY <1>2, <1>3, QuietChain
  <1>4. CASE newEpoch # epoch /\ Apply(doc, newEpoch)
    BY <1>2, <1>4, ProvisionChain DEF Apply, Reset
  <1>5. CASE Withdraw
    BY <1>2, <1>5, ProvisionChain DEF Withdraw, Reset
  <1> QED BY <1>1, <1>3, <1>4, <1>5

(* The document in mutable storage (apply_local_provision).                *)
LEMMA ApplyLocalChain ==
  ASSUME Inv, Inv', ApplyLocalProvision
  PROVE  NoSecondChain
  <1>1. pipe' = pipe
    BY DEF ApplyLocalProvision
  <1>2. CASE UNCHANGED <<epoch, pending, timer>>
    BY <1>1, <1>2, QuietChain
  <1>3. ASSUME NEW doc \in saved, NEW newEpoch \in EpochsRead(doc),
               newEpoch # epoch, Apply(doc, newEpoch)
        PROVE  NoSecondChain
    BY <1>1, <1>3, ProvisionChain DEF Apply, Reset
  <1> QED BY <1>2, <1>3 DEF ApplyLocalProvision

(* A result of an earlier provisioning counts for nothing                  *)
(* (handle_device_result).                                                 *)
LEMMA IgnoreChain ==
  ASSUME Inv, Inv', IgnoreResult
  PROVE  NoSecondChain
  <1>1. /\ UNCHANGED <<epoch, pending, timer>>
        /\ pipe # <<>> /\ pipe' = Tail(pipe) /\ Head(pipe) # epoch
    BY DEF IgnoreResult, provision, Stale
  <1>2. Cardinality(Places(pipe', epoch')) = Cardinality(Places(pipe, epoch))
    BY <1>1, TokensAre, PlacesTail
  <1> QED BY <1>1, <1>2, TokensAre DEF NoSecondChain, Held

(* A result of this provisioning gives way to the device it schedules      *)
(* (schedule_next_device).                                                 *)
LEMMA HandleChain ==
  ASSUME Inv, Inv', HandleResult
  PROVE  NoSecondChain
  <1>1. /\ epoch' = epoch
        /\ pipe # <<>> /\ pipe' = Tail(pipe) /\ Head(pipe) = epoch
        /\ timer' = timer \/ pending' = pending
    BY DEF HandleResult, provision, Stale, ScheduleNext
  <1>2. Cardinality(Places(pipe, epoch))
            = Cardinality(Places(pipe', epoch')) + 1
    BY <1>1, TokensAre, PlacesTail
  <1>3. /\ Held(pending) \in {0, 1} /\ Held(pending') \in {0, 1}
        /\ Held(timer.device) \in {0, 1} /\ Held(timer'.device) \in {0, 1}
        /\ Held(pending') = Held(pending)
           \/ Held(timer'.device) = Held(timer.device)
    BY <1>1 DEF Held
  <1>4. Tokens' <= Tokens
    BY <1>2, <1>3, TokensAre
  <1> QED BY <1>2, <1>3, <1>4, TokensAre DEF NoSecondChain

(* The timer gives way to the device it was armed for                      *)
(* (notify_worker_callback).                                               *)
LEMMA TimerChain ==
  ASSUME Inv, Inv', NotifyTimer
  PROVE  NoSecondChain
  <1>1. /\ UNCHANGED <<epoch, pipe>>
        /\ timer.device # NoDevice /\ timer' = Unarmed
    BY DEF NotifyTimer, provision
  <1>2. /\ Held(pending) \in {0, 1} /\ Held(pending') \in {0, 1}
        /\ Held(timer.device) = 1 /\ Held(timer'.device) = 0
    BY <1>1 DEF Held, Unarmed
  <1> QED BY <1>1, <1>2, TokensAre DEF NoSecondChain

(* The device that was queried gives way to its result                     *)
(* (post_epoch_to_result_pipe).                                            *)
LEMMA PostChain ==
  ASSUME Inv, Inv', PostResult
  PROVE  NoSecondChain
  <1>1. /\ UNCHANGED <<epoch, timer>> /\ pipe' = Append(pipe, epoch)
        /\ pending # NoDevice /\ pending' = NoDevice
    BY DEF PostResult, provision, Inv, Working, QueryingOne
  <1>2. Cardinality(Places(pipe', epoch'))
            = Cardinality(Places(pipe, epoch)) + 1
    BY <1>1, TokensAre, PlacesAppend
  <1>3. /\ Held(pending) = 1 /\ Held(pending') = 0
        /\ Held(timer'.device) = Held(timer.device)
        /\ Held(timer.device) \in {0, 1}
    BY <1>1 DEF Held
  <1> QED BY <1>2, <1>3, TokensAre DEF NoSecondChain

(* The end of the process ends the chains with it.                         *)
LEMMA VanishChain ==
  ASSUME Inv, Inv', Vanish
  PROVE  NoSecondChain
  <1>1. /\ pending' = NoDevice /\ timer' = Unarmed
        /\ epoch' \notin ToSet(pipe')
    BY DEF Vanish, ToSet
  <1>2. /\ Held(pending') = 0 /\ Held(timer'.device) = 0
        /\ Held(pending) \in {0, 1} /\ Held(timer.device) \in {0, 1}
        /\ Cardinality(Places(pipe', epoch')) = 0
    BY <1>1, PlacesNone DEF Held, Unarmed
  <1> QED BY <1>2, TokensAre DEF NoSecondChain

(* Every step of the adapter (Next).                                       *)
LEMMA StepChain == Inv /\ Inv' /\ [Next]_vars => NoSecondChain
  <1> SUFFICES ASSUME Inv, Inv', [Next]_vars PROVE NoSecondChain
    OBVIOUS
  <1>1. CASE UNCHANGED vars \/ Deinit \/ WorkerLoop \/ WorkerLock \/ Stop
             \/ Restart \/ SpuriousWakeup
    BY <1>1, QuietChain
    DEF vars, Deinit, WorkerLoop, WorkerLock, Stop, Restart, SpuriousWakeup,
        provision, schedule
  <1>2. CASE Tick
    <2>1. timer'.device = timer.device
      BY <1>2 DEF Tick, Inv, TypeOK
    <2> QED BY <1>2, <2>1, QuietChain DEF Tick, provision
  <1>3. CASE Exit \/ WatchdogExit \/ Crash
    BY <1>3, VanishChain DEF Exit, WatchdogExit, Crash
  <1>4. CASE OpenFails \/ \E code \in ErrCodes : GetPointList(code)
    BY <1>4, PostChain DEF OpenFails, GetPointList
  <1>5. CASE MainStep
    BY <1>1, <1>3, <1>5, ApplyLocalChain, IgnoreChain, HandleChain,
       TimerChain
    DEF MainStep
  <1>6. CASE WorkerStep
    BY <1>1, <1>4, <1>6 DEF WorkerStep
  <1>7. CASE Environment
    BY <1>1, <1>2, <1>3, <1>7, ReceiveChain DEF Environment
  <1> QED BY <1>1, <1>5, <1>6, <1>7 DEF Next

(* A second chain, which would poll devices out of turn, begins only when  *)
(* a provisioning takes the epoch of a result that is still unread         *)
(* (handle_device_result, schedule_next_device, adapter_provision).        *)
THEOREM NoChainBegins == Spec => OneChain
  <1>1. Inv /\ Inv' /\ [Next]_vars => [NoSecondChain]_vars
    BY StepChain
  <1>2. Spec => [][NoSecondChain]_vars
    BY <1>1, SpecInv, PTL DEF Spec
  <1> QED BY <1>2 DEF OneChain, NoSecondChain
=============================================================================
