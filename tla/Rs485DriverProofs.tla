------------------------- MODULE Rs485DriverProofs --------------------------
(***************************************************************************)
(* Proofs about Rs485Driver, for all sizes of buffers and messages that    *)
(* SizesAssumption admits, and any number of bytes, messages and restarts: *)
(* the types, the order of the bytes from the bus, the single sending of   *)
(* messages to the bus, and that none is left behind.                      *)
(***************************************************************************)
EXTENDS Rs485Driver, TLAPS

-----------------------------------------------------------------------------
(* The list of callbacks.                                                  *)

(* A node is put on the list unless it is there (EnqueueCallback).         *)
LEMMA EnqueueNode ==
  ASSUME callbacks \in Seq(Nodes), IsInjective(callbacks), NEW node \in Nodes,
         EnqueueCallback(node)
  PROVE  /\ callbacks' \in Seq(Nodes) /\ IsInjective(callbacks')
         /\ ToSet(callbacks') = ToSet(callbacks) \cup {node}
  <1>1. CASE node \in ToSet(callbacks)
    BY <1>1 DEF EnqueueCallback
  <1>2. CASE node \notin ToSet(callbacks)
    <2>1. callbacks' = <<node>> \o callbacks
      BY <1>2 DEF EnqueueCallback
    <2>2. /\ callbacks' \in Seq(Nodes) /\ Len(callbacks) \in Nat
          /\ DOMAIN callbacks' = 1 .. Len(callbacks) + 1
          /\ DOMAIN callbacks = 1 .. Len(callbacks)
          /\ callbacks'[1] = node
          /\ \A i \in 2 .. Len(callbacks) + 1 :
                 callbacks'[i] = callbacks[i - 1]
      BY <2>1
    <2>3. \A i \in 2 .. Len(callbacks) + 1 : callbacks[i - 1] # node
      BY <1>2, <2>2 DEF ToSet
    <2>4. IsInjective(callbacks')
      <3> SUFFICES ASSUME NEW i \in DOMAIN callbacks', NEW j \in DOMAIN callbacks',
                          callbacks'[i] = callbacks'[j]
                   PROVE  i = j
        BY DEF IsInjective
      <3>1. CASE i = 1 \/ j = 1
        BY <2>2, <2>3, <3>1
      <3>2. CASE i # 1 /\ j # 1
        <4>1. callbacks[i - 1] = callbacks[j - 1]
          BY <2>2, <3>2
        <4>2. i - 1 \in DOMAIN callbacks /\ j - 1 \in DOMAIN callbacks
          BY <2>2, <3>2
        <4>3. i - 1 = j - 1
          BY <4>1, <4>2 DEF IsInjective
        <4> QED BY <2>2, <4>3
      <3> QED BY <3>1, <3>2
    <2>5. ToSet(callbacks') \subseteq ToSet(callbacks) \cup {node}
      BY <2>2 DEF ToSet
    <2>6. ToSet(callbacks) \cup {node} \subseteq ToSet(callbacks')
      <3>1. \A i \in DOMAIN callbacks : /\ i + 1 \in DOMAIN callbacks'
                                        /\ callbacks'[i + 1] = callbacks[i]
        BY <2>2
      <3>2. 1 \in DOMAIN callbacks'
        BY <2>2
      <3> QED BY <2>2, <3>1, <3>2 DEF ToSet
    <2> QED BY <2>2, <2>4, <2>5, <2>6
  <1> QED BY <1>1, <1>2

(* The node that is taken off is no longer there (InvokeCallbacks).        *)
LEMMA TakeNode ==
  ASSUME callbacks \in Seq(Nodes), IsInjective(callbacks), InvokeCallbacks
  PROVE  /\ callbacks' \in Seq(Nodes) /\ IsInjective(callbacks')
         /\ running' \in Nodes /\ running' \notin ToSet(callbacks')
         /\ ToSet(callbacks) = ToSet(callbacks') \cup {running'}
  <1>1. /\ callbacks # <<>> /\ running' = callbacks[1]
        /\ callbacks' = Tail(callbacks)
    BY DEF InvokeCallbacks
  <1>2. /\ callbacks' \in Seq(Nodes) /\ Len(callbacks) \in Nat \ {0}
        /\ DOMAIN callbacks' = 1 .. Len(callbacks) - 1
        /\ DOMAIN callbacks = 1 .. Len(callbacks)
        /\ \A i \in 1 .. Len(callbacks) - 1 : callbacks'[i] = callbacks[i + 1]
    BY <1>1
  <1>3. IsInjective(callbacks')
    <2> SUFFICES ASSUME NEW i \in DOMAIN callbacks', NEW j \in DOMAIN callbacks',
                        callbacks'[i] = callbacks'[j]
                 PROVE  i = j
      BY DEF IsInjective
    <2>1. i + 1 \in DOMAIN callbacks /\ j + 1 \in DOMAIN callbacks
      BY <1>2
    <2>2. i + 1 = j + 1
      BY <1>2, <2>1 DEF IsInjective
    <2> QED BY <1>2, <2>2
  <1>4. running' \in Nodes
    BY <1>1, <1>2
  <1>5. running' \notin ToSet(callbacks')
    <2> SUFFICES ASSUME NEW i \in DOMAIN callbacks', callbacks'[i] = callbacks[1]
                 PROVE  FALSE
      BY <1>1 DEF ToSet
    <2>1. i + 1 \in DOMAIN callbacks /\ 1 \in DOMAIN callbacks
      BY <1>2
    <2>2. i + 1 = 1
      BY <1>2, <2>1 DEF IsInjective
    <2> QED BY <1>2, <2>2
  <1>6. ToSet(callbacks') \cup {running'} \subseteq ToSet(callbacks)
    <2>1. \A i \in DOMAIN callbacks' : i + 1 \in DOMAIN callbacks
      BY <1>2
    <2>2. 1 \in DOMAIN callbacks
      BY <1>2
    <2> QED BY <1>1, <1>2, <2>1, <2>2 DEF ToSet
  <1>7. ToSet(callbacks) \subseteq ToSet(callbacks') \cup {running'}
    <2> SUFFICES ASSUME NEW i \in DOMAIN callbacks, i # 1
                 PROVE  callbacks[i] \in ToSet(callbacks')
      BY <1>1 DEF ToSet
    <2>1. i - 1 \in DOMAIN callbacks' /\ callbacks'[i - 1] = callbacks[i]
      BY <1>2
    <2> QED BY <2>1 DEF ToSet
  <1> QED BY <1>2, <1>3, <1>4, <1>5, <1>6, <1>7

(* The end and the rest of a queue.                                        *)
LEMMA AppendLength ==
  ASSUME NEW S, NEW s \in Seq(S), NEW x \in S
  PROVE  /\ Append(s, x) \in Seq(S)
         /\ Len(s) \in Nat /\ Len(Append(s, x)) = Len(s) + 1
  OBVIOUS

(* What Socket_Read and HostReceive leave in a queue.                      *)
LEMMA TailLength ==
  ASSUME NEW S, NEW s \in Seq(S), s # <<>>
  PROVE  /\ Head(s) \in S /\ Tail(s) \in Seq(S)
         /\ Len(s) \in Nat \ {0} /\ Len(Tail(s)) = Len(s) - 1
  OBVIOUS

(* The answer fits into an empty ring.                                     *)
LEMMA ReplyType ==
  /\ Reply \in Seq(Nat) /\ Len(Reply) = ReplySize
  /\ DOMAIN Reply = 1 .. ReplySize
  /\ \A i \in DOMAIN Reply : Reply[i] = 0
  <1>1. ReplySize \in Nat
    BY SizesAssumption
  <1> QED BY <1>1 DEF Reply

(* The ring takes all of the bytes or none (ring_buffer_push_bytes).       *)
LEMMA PushedType ==
  ASSUME NEW ring \in Seq(Nat), Len(ring) < DRIVER_MAX_RX_BUFFER_SIZE,
         NEW bytes \in Seq(Nat)
  PROVE  /\ Pushed(ring, bytes) \in Seq(Nat)
         /\ Len(Pushed(ring, bytes)) < DRIVER_MAX_RX_BUFFER_SIZE
         /\ Pushed(ring, bytes) \in {ring, ring \o bytes}
  BY DEF Pushed

-----------------------------------------------------------------------------
(* The types.                                                              *)

(* The driver starts with empty buffers (RTCoreMain).                      *)
LEMMA InitTypes == Init => TypeOK
  <1> SUFFICES ASSUME Init PROVE TypeOK
    OBVIOUS
  <1>1. {pending, linked} \subseteq BOOLEAN
    BY Zenon DEF Init
  <1>2. msg \in Message /\ running \in Nodes \cup {"none"}
    BY DEF Init, Message, Kinds
  <1>3. callbacks \in Seq(Nodes) /\ IsInjective(callbacks)
    BY DEF Init, IsInjective
  <1>4. /\ uart \in Seq(Nat) /\ rxRing \in Seq(Nat) /\ toHost \in Seq(Seq(Nat))
        /\ toDriver \in Seq(Message) /\ received \in Seq(Nat) /\ bus \in Seq(Nat)
        /\ {byteCount, messageCount, restarts} \subseteq Nat
    BY DEF Init
  <1>5. /\ Len(uart) <= RX_BUFFER_SIZE /\ Len(rxRing) < DRIVER_MAX_RX_BUFFER_SIZE
        /\ Len(toHost) <= HostQueue /\ Len(toDriver) <= MaxUnread
    BY SizesAssumption DEF Init
  <1> QED BY <1>1, <1>2, <1>3, <1>4, <1>5 DEF TypeOK

(* What handleRecvMsg works on is a message: the one it read, or what the  *)
(* buffer holds.                                                           *)
LEMMA RecvMsgEffect ==
  ASSUME TypeOK, handleRecvMsg
  PROVE  /\ running = "recv" /\ running' = "none" /\ ~pending'
         /\ linked' \in BOOLEAN /\ (linked => linked')
         /\ UNCHANGED <<toHost, callbacks, byteCount, messageCount, restarts,
                        received>>
         /\ \E m \in Message :
               /\ IF linked' /\ toDriver # <<>>
                  THEN m = Head(toDriver) /\ toDriver' = Tail(toDriver)
                  ELSE m = msg /\ toDriver' = toDriver
               /\ \/ m.kind = "bytes" /\ WriteToBus(m)
                  \/ m.kind = "baud" /\ SetBaudRate(m)
                  \/ m.kind = "badBaud" /\ RefuseBaudRate(m)
  <1> DEFINE read == linked' /\ toDriver # <<>>
             m == IF read THEN Head(toDriver) ELSE msg
  <1>1. linked' = (linked \/ pending) /\ pending' = FALSE
    BY DEF handleRecvMsg
  <1>2. linked' \in BOOLEAN /\ (linked => linked') /\ ~pending'
    BY <1>1, Zenon
  <1>3. /\ running = "recv" /\ running' = "none"
        /\ UNCHANGED <<toHost, callbacks, byteCount, messageCount, restarts,
                       received>>
    BY DEF handleRecvMsg
  <1>4. /\ toDriver' = IF read THEN Tail(toDriver) ELSE toDriver
        /\ \/ m.kind = "bytes" /\ WriteToBus(m)
           \/ m.kind = "baud" /\ SetBaudRate(m)
           \/ m.kind = "badBaud" /\ RefuseBaudRate(m)
    BY DEF handleRecvMsg
  <1>5. toDriver # <<>> => Head(toDriver) \in Message
    BY DEF TypeOK
  <1>6. m \in Message
    BY <1>5 DEF TypeOK
  <1>7. IF read THEN m = Head(toDriver) /\ toDriver' = Tail(toDriver)
        ELSE m = msg /\ toDriver' = toDriver
    BY <1>4
  <1> HIDE DEF m
  <1> QED BY <1>2, <1>3, <1>4, <1>6, <1>7

(* Every step keeps the types, each callback those of what it writes.      *)
LEMMA StepTypes == TypeOK /\ [Next]_vars => TypeOK'
  <1> SUFFICES ASSUME TypeOK, [Next]_vars PROVE TypeOK'
    OBVIOUS
  <1>1. CASE HandleUartRxIrq
    <2>1. /\ byteCount' = byteCount + 1 /\ EnqueueCallback("uart")
          /\ uart' = IF Len(uart) < RX_BUFFER_SIZE THEN Append(uart, byteCount')
                     ELSE uart
          /\ UNCHANGED <<rxRing, toHost, toDriver, msg, running, pending, linked,
                         messageCount, restarts, received, bus>>
      BY <1>1 DEF HandleUartRxIrq
    <2>2. callbacks' \in Seq(Nodes) /\ IsInjective(callbacks')
      BY <2>1, EnqueueNode DEF TypeOK, Nodes
    <2>3. byteCount' \in Nat
      BY <2>1 DEF TypeOK
    <2>4. uart' \in Seq(Nat) /\ Len(uart') <= RX_BUFFER_SIZE
      <3>1. uart \in Seq(Nat) /\ Len(uart) <= RX_BUFFER_SIZE
        BY DEF TypeOK
      <3> QED BY <2>1, <2>3, <3>1, AppendLength, SizesAssumption
    <2> QED BY <2>1, <2>2, <2>3, <2>4 DEF TypeOK
  <1>2. ASSUME NEW kind \in Kinds, HostSend(kind) PROVE TypeOK'
    <2>1. /\ messageCount' = messageCount + 1 /\ EnqueueCallback("recv")
          /\ toDriver' = Append(toDriver,
                                [number |-> messageCount', kind |-> kind])
          /\ Len(toDriver) < MaxUnread
          /\ UNCHANGED <<uart, rxRing, toHost, msg, running, pending, linked,
                         byteCount, restarts, received, bus>>
      BY <1>2 DEF HostSend
    <2>2. callbacks' \in Seq(Nodes) /\ IsInjective(callbacks')
      BY <2>1, EnqueueNode DEF TypeOK, Nodes
    <2>3. messageCount' \in Nat
      BY <2>1 DEF TypeOK
    <2>4. [number |-> messageCount', kind |-> kind] \in Message
      BY <2>3 DEF Message
    <2>5. toDriver' \in Seq(Message) /\ Len(toDriver') <= MaxUnread
      <3>1. toDriver \in Seq(Message) /\ MaxUnread \in Nat
        BY SizesAssumption DEF TypeOK
      <3> QED BY <2>1, <2>4, <3>1, AppendLength
    <2> QED BY <2>1, <2>2, <2>3, <2>5 DEF TypeOK
  <1>3. CASE HostReceive
    <2>1. /\ toHost # <<>> /\ toHost' = Tail(toHost)
          /\ received' = received \o Head(toHost)
          /\ UNCHANGED <<uart, rxRing, toDriver, msg, callbacks, running,
                         pending, linked, byteCount, messageCount, restarts, bus>>
      BY <1>3 DEF HostReceive
    <2>2. /\ Head(toHost) \in Seq(Nat) /\ toHost' \in Seq(Seq(Nat))
          /\ Len(toHost') = Len(toHost) - 1 /\ Len(toHost) \in Nat
      BY <2>1 DEF TypeOK
    <2>3. Len(toHost') <= HostQueue /\ received' \in Seq(Nat)
      BY <2>1, <2>2, SizesAssumption DEF TypeOK
    <2> QED BY <2>1, <2>2, <2>3 DEF TypeOK
  <1>4. CASE HostRestart
    <2>1. /\ restarts' = restarts + 1 /\ toHost' = <<>> /\ toDriver' = <<>>
          /\ UNCHANGED <<uart, rxRing, msg, callbacks, running, byteCount,
                         messageCount, received, bus>>
      BY <1>4 DEF HostRestart
    <2>2. pending' = TRUE /\ linked' \in {linked, FALSE}
      BY <1>4 DEF HostRestart
    <2>3. {pending', linked'} \subseteq BOOLEAN
      BY <2>2, Zenon DEF TypeOK
    <2>4. Len(toHost') <= HostQueue /\ Len(toDriver') <= MaxUnread
      BY <2>1, SizesAssumption
    <2>5. toHost' \in Seq(Seq(Nat)) /\ toDriver' \in Seq(Message)
      BY <2>1
    <2>6. {byteCount', messageCount', restarts'} \subseteq Nat
      BY <2>1 DEF TypeOK
    <2> QED BY <2>1, <2>3, <2>4, <2>5, <2>6 DEF TypeOK
  <1>5. CASE SendTimer
    <2>1. /\ EnqueueCallback("send")
          /\ UNCHANGED <<uart, rxRing, toHost, toDriver, msg, running, pending,
                         linked, byteCount, messageCount, restarts, received, bus>>
      BY <1>5 DEF SendTimer
    <2>2. callbacks' \in Seq(Nodes) /\ IsInjective(callbacks')
      BY <2>1, EnqueueNode DEF TypeOK, Nodes
    <2> QED BY <2>1, <2>2 DEF TypeOK
  <1>6. CASE InvokeCallbacks
    <2>1. UNCHANGED <<uart, rxRing, toHost, toDriver, msg, pending, linked,
                      byteCount, messageCount, restarts, received, bus>>
      BY <1>6 DEF InvokeCallbacks
    <2>2. /\ callbacks' \in Seq(Nodes) /\ IsInjective(callbacks')
          /\ running' \in Nodes \cup {"none"}
      BY <1>6, TakeNode DEF TypeOK
    <2> QED BY <2>1, <2>2 DEF TypeOK
  <1>7. CASE handleRecvMsg
    <2>1. /\ ~pending' /\ linked' \in BOOLEAN /\ running' = "none"
          /\ UNCHANGED <<toHost, callbacks, byteCount, messageCount, restarts,
                         received>>
      BY <1>7, RecvMsgEffect
    <2>2. PICK m \in Message :
              /\ IF linked' /\ toDriver # <<>>
                 THEN m = Head(toDriver) /\ toDriver' = Tail(toDriver)
                 ELSE m = msg /\ toDriver' = toDriver
              /\ \/ m.kind = "bytes" /\ WriteToBus(m)
                 \/ m.kind = "baud" /\ SetBaudRate(m)
                 \/ m.kind = "badBaud" /\ RefuseBaudRate(m)
      BY <1>7, RecvMsgEffect
    <2>3. {pending', linked'} \subseteq BOOLEAN
      <3>1. pending' = FALSE
        BY <1>7 DEF handleRecvMsg
      <3> QED BY <2>1, <3>1, Zenon
    <2>4. toDriver' \in Seq(Message) /\ Len(toDriver') <= MaxUnread
      <3>1. CASE toDriver' = toDriver
        BY <3>1 DEF TypeOK
      <3>2. CASE toDriver # <<>> /\ toDriver' = Tail(toDriver)
        <4>1. toDriver \in Seq(Message) /\ Len(toDriver) <= MaxUnread
          BY DEF TypeOK
        <4> QED BY <3>2, <4>1, TailLength, SizesAssumption
      <3> QED BY <2>2, <3>1, <3>2
    <2>5. <<>> \in Seq(Nat) /\ Len(<<>>) = 0
      OBVIOUS
    <2>6. /\ msg' \in Message /\ bus' \in Seq(Nat)
          /\ uart' \in Seq(Nat) /\ Len(uart') <= RX_BUFFER_SIZE
          /\ rxRing' \in Seq(Nat) /\ Len(rxRing') < DRIVER_MAX_RX_BUFFER_SIZE
      <3>1. CASE m.kind = "bytes" /\ WriteToBus(m)
        <4>1. /\ bus \in Seq(Nat) /\ m.number \in Nat
              /\ msg' = m /\ uart' = uart /\ rxRing' = rxRing
              /\ bus' = bus \/ bus' = Append(bus, m.number)
          BY <3>1 DEF WriteToBus, TypeOK, Message
        <4>2. bus' \in Seq(Nat)
          BY <4>1
        <4> QED BY <4>1, <4>2 DEF TypeOK
      <3>2. CASE m.kind = "baud" /\ SetBaudRate(m)
        <4>1. msg' \in Message
          BY <3>2 DEF SetBaudRate, Message, Kinds
        <4>2. /\ rxRing' \in Seq(Nat)
              /\ Len(rxRing') < DRIVER_MAX_RX_BUFFER_SIZE
          <5>1. Len(<<>>) < DRIVER_MAX_RX_BUFFER_SIZE
            BY <2>5, SizesAssumption
          <5>2. \/ rxRing' = Pushed(<<>>, Reply)
                \/ rxRing' = Pushed(rxRing, Reply)
            BY <3>2 DEF SetBaudRate
          <5> QED BY <2>5, <5>1, <5>2, PushedType, ReplyType DEF TypeOK
        <4>3. uart' = <<>> /\ bus' = bus
          BY <3>2 DEF SetBaudRate
        <4> QED BY <2>5, <4>1, <4>2, <4>3, SizesAssumption DEF TypeOK
      <3>3. CASE m.kind = "badBaud" /\ RefuseBaudRate(m)
        <4>1. msg' \in Message
          BY <3>3 DEF RefuseBaudRate, Message, Kinds
        <4>2. /\ rxRing' \in Seq(Nat)
              /\ Len(rxRing') < DRIVER_MAX_RX_BUFFER_SIZE
          BY <3>3, PushedType, ReplyType DEF RefuseBaudRate, TypeOK
        <4> QED BY <3>3, <4>1, <4>2 DEF RefuseBaudRate, TypeOK
      <3> QED BY <2>2, <3>1, <3>2, <3>3
    <2> QED BY <2>1, <2>3, <2>4, <2>6 DEF TypeOK
  <1>8. CASE handleSendMsgTimer
    <2>1. /\ rxRing' = <<>> /\ running' = "none"
          /\ toHost' = toHost \/ (/\ SocketAccepts(rxRing)
                                  /\ toHost' = Append(toHost, rxRing))
          /\ UNCHANGED <<uart, toDriver, msg, callbacks, linked, byteCount,
                         messageCount, restarts, received, bus>>
      BY <1>8 DEF handleSendMsgTimer
    <2>2. {pending', linked'} \subseteq BOOLEAN
      <3>1. pending' = FALSE /\ linked' = linked
        BY <1>8 DEF handleSendMsgTimer
      <3> QED BY <3>1, Zenon DEF TypeOK
    <2>3. toHost' \in Seq(Seq(Nat)) /\ Len(toHost') <= HostQueue
      <3>1. toHost \in Seq(Seq(Nat)) /\ Len(toHost) <= HostQueue
            /\ rxRing \in Seq(Nat)
        BY DEF TypeOK
      <3>2. CASE toHost' = toHost
        BY <3>1, <3>2
      <3>3. CASE SocketAccepts(rxRing) /\ toHost' = Append(toHost, rxRing)
        BY <3>1, <3>3, AppendLength, SizesAssumption DEF SocketAccepts
      <3> QED BY <2>1, <3>2, <3>3
    <2>4. rxRing' \in Seq(Nat) /\ Len(rxRing') < DRIVER_MAX_RX_BUFFER_SIZE
      BY <2>1, SizesAssumption
    <2> QED BY <2>1, <2>2, <2>3, <2>4 DEF TypeOK
  <1>9. CASE HandleUartRxIrqDeferred
    <2>1. /\ uart' = <<>> /\ rxRing' = Pushed(rxRing, uart) /\ running' = "none"
          /\ EnqueueCallback("send") \/ UNCHANGED callbacks
          /\ UNCHANGED <<toHost, toDriver, msg, pending, linked, byteCount,
                         messageCount, restarts, received, bus>>
      BY <1>9 DEF HandleUartRxIrqDeferred
    <2>2. callbacks' \in Seq(Nodes) /\ IsInjective(callbacks')
      BY <2>1, EnqueueNode DEF TypeOK, Nodes
    <2>3. rxRing' \in Seq(Nat) /\ Len(rxRing') < DRIVER_MAX_RX_BUFFER_SIZE
      BY <2>1, PushedType DEF TypeOK
    <2>4. uart' \in Seq(Nat) /\ Len(uart') <= RX_BUFFER_SIZE
      BY <2>1, SizesAssumption
    <2> QED BY <2>1, <2>2, <2>3, <2>4 DEF TypeOK
  <1>10. CASE UNCHANGED vars
    BY <1>10 DEF vars, TypeOK
  <1> QED BY <1>1, <1>2, <1>3, <1>4, <1>5, <1>6, <1>7, <1>8, <1>9, <1>10 DEF Next

(* The types of the variables, for every size: the ring of the driver      *)
(* always has a byte to spare, and no node is on the list twice            *)
(* (ring_buffer_push_bytes, EnqueueCallback).                              *)
THEOREM TypeCorrect == Spec => []TypeOK
  BY InitTypes, StepTypes, PTL DEF Spec

-----------------------------------------------------------------------------
(* Messages of the application.                                            *)

Listed(node) == node \in ToSet(callbacks)

(* As long as the application is not restarted there are as many unread    *)
(* messages as calls of handleRecvMsg to come: one for the node on the     *)
(* list and one for the node taken.                                        *)
Awaited ==
    restarts = 0 =>
        /\ linked
        /\ running = "recv" \/ Listed("recv") => toDriver # <<>>
        /\ running = "recv" /\ Listed("recv") => Len(toDriver) > 1

Increasing(numbers) ==
    \A i, j \in DOMAIN numbers : i < j => numbers[i] < numbers[j]

(* The messages are numbered in order, first those that went out.          *)
Numbered ==
    restarts = 0 =>
        /\ Increasing(bus)
        /\ \A i \in DOMAIN bus : bus[i] \in 1 .. messageCount
        /\ \A i \in DOMAIN toDriver :
              /\ toDriver[i].number \in 1 .. messageCount
              /\ \A j \in DOMAIN toDriver :
                    i < j => toDriver[i].number < toDriver[j].number
              /\ \A j \in DOMAIN bus : bus[j] < toDriver[i].number

(* A message that has not been read will be, if the socket has the rings.  *)
Announced ==
    linked /\ toDriver # <<>> => running = "recv" \/ Listed("recv")

(* Which steps change what handleRecvMsg is to find.                       *)
LEMMA OtherSteps ==
  ASSUME TypeOK, [Next]_vars
  PROVE  \/ \E kind \in Kinds : HostSend(kind)
         \/ HostRestart
         \/ InvokeCallbacks
         \/ handleRecvMsg
         \/ /\ UNCHANGED <<toDriver, linked, restarts, messageCount, bus>>
            /\ running' = "recv" <=> running = "recv"
            /\ Listed("recv")' <=> Listed("recv")
  <1>1. CASE HandleUartRxIrq
    <2>1. /\ EnqueueCallback("uart")
          /\ UNCHANGED <<running, toDriver, linked, restarts, messageCount, bus>>
      BY <1>1 DEF HandleUartRxIrq
    <2>2. ToSet(callbacks') = ToSet(callbacks) \cup {"uart"}
      BY <2>1, EnqueueNode DEF TypeOK, Nodes
    <2> QED BY <2>1, <2>2 DEF Listed
  <1>2. CASE HostReceive
    BY <1>2 DEF HostReceive, Listed
  <1>3. CASE SendTimer
    <2>1. /\ EnqueueCallback("send")
          /\ UNCHANGED <<running, toDriver, linked, restarts, messageCount, bus>>
      BY <1>3 DEF SendTimer
    <2>2. ToSet(callbacks') = ToSet(callbacks) \cup {"send"}
      BY <2>1, EnqueueNode DEF TypeOK, Nodes
    <2> QED BY <2>1, <2>2 DEF Listed
  <1>4. CASE handleSendMsgTimer
    BY <1>4 DEF handleSendMsgTimer, Listed
  <1>5. CASE HandleUartRxIrqDeferred
    <2>1. /\ EnqueueCallback("send") \/ UNCHANGED callbacks
          /\ running = "uart" /\ running' = "none"
          /\ UNCHANGED <<toDriver, linked, restarts, messageCount, bus>>
      BY <1>5 DEF HandleUartRxIrqDeferred
    <2>2. EnqueueCallback("send")
          => ToSet(callbacks') = ToSet(callbacks) \cup {"send"}
      BY EnqueueNode DEF TypeOK, Nodes
    <2> QED BY <2>1, <2>2 DEF Listed
  <1>6. CASE UNCHANGED vars
    BY <1>6 DEF vars, Listed
  <1> QED BY <1>1, <1>2, <1>3, <1>4, <1>5, <1>6 DEF Next

(* What the steps that matter do to the list and the messages.             *)
LEMMA SendAnnounces ==
  ASSUME TypeOK, NEW kind \in Kinds, HostSend(kind)
  PROVE  /\ Listed("recv")'
         /\ toDriver \in Seq(Message) /\ messageCount \in Nat
         /\ messageCount' = messageCount + 1
         /\ toDriver' = Append(toDriver,
                               [number |-> messageCount + 1, kind |-> kind])
         /\ UNCHANGED <<running, linked, restarts, bus>>
  <1>1. /\ EnqueueCallback("recv")
        /\ messageCount' = messageCount + 1
        /\ toDriver' = Append(toDriver,
                              [number |-> messageCount + 1, kind |-> kind])
        /\ UNCHANGED <<running, linked, restarts, bus>>
    BY DEF HostSend
  <1>2. ToSet(callbacks') = ToSet(callbacks) \cup {"recv"}
    BY <1>1, EnqueueNode DEF TypeOK, Nodes
  <1> QED BY <1>1, <1>2 DEF Listed, TypeOK

(* A node that is taken off is no longer on the list (InvokeCallbacks).    *)
LEMMA InvokeTakes ==
  ASSUME TypeOK, InvokeCallbacks
  PROVE  /\ running = "none"
         /\ Listed("recv") <=> (running' = "recv" \/ Listed("recv")')
         /\ ~(running' = "recv" /\ Listed("recv")')
         /\ UNCHANGED <<toDriver, linked, restarts, messageCount, bus>>
  <1>1. /\ running = "none"
        /\ UNCHANGED <<toDriver, linked, restarts, messageCount, bus>>
    BY DEF InvokeCallbacks
  <1>2. /\ running' \notin ToSet(callbacks')
        /\ ToSet(callbacks) = ToSet(callbacks') \cup {running'}
    BY TakeNode DEF TypeOK
  <1> QED BY <1>1, <1>2 DEF Listed

(* Every interrupt of the socket adds a message, every call takes one.     *)
LEMMA StepAwaited == TypeOK /\ Awaited /\ [Next]_vars => Awaited'
  <1> SUFFICES ASSUME TypeOK, Awaited, [Next]_vars PROVE Awaited'
    OBVIOUS
  <1>1. ASSUME NEW kind \in Kinds, HostSend(kind) PROVE Awaited'
    <2>1. /\ Len(toDriver) \in Nat /\ Len(toDriver') = Len(toDriver) + 1
          /\ toDriver # <<>> => Len(toDriver) > 0
          /\ toDriver' # <<>>
      <3>1. /\ toDriver \in Seq(Message) /\ messageCount + 1 \in Nat
            /\ toDriver' = Append(toDriver, [number |-> messageCount + 1,
                                             kind |-> kind])
        BY <1>1, SendAnnounces
      <3>2. [number |-> messageCount + 1, kind |-> kind] \in Message
        BY <3>1 DEF Message
      <3>3. /\ Len(toDriver) \in Nat /\ Len(toDriver') = Len(toDriver) + 1
            /\ toDriver # <<>> => Len(toDriver) > 0
        BY <3>1, <3>2, AppendLength, TailLength
      <3>4. Len(<<>>) = 0
        OBVIOUS
      <3> QED BY <3>3, <3>4
    <2>2. Listed("recv")' /\ UNCHANGED <<running, linked, restarts>>
      BY <1>1, SendAnnounces
    <2>3. Len(toDriver) > 0 => Len(toDriver) + 1 > 1
      BY <2>1
    <2> QED BY <2>1, <2>2, <2>3 DEF Awaited
  <1>2. CASE HostRestart
    <2>1. restarts' # 0
      BY <1>2 DEF HostRestart, TypeOK
    <2> QED BY <2>1 DEF Awaited
  <1>3. CASE InvokeCallbacks
    BY <1>3, InvokeTakes DEF Awaited
  <1>4. CASE handleRecvMsg
    <2>1. /\ running = "recv" /\ running' = "none" /\ (linked => linked')
          /\ UNCHANGED <<callbacks, restarts>>
          /\ linked' /\ toDriver # <<>> => toDriver' = Tail(toDriver)
      BY <1>4, RecvMsgEffect
    <2>2. toDriver \in Seq(Message)
      BY DEF TypeOK
    <2>3. Listed("recv")' <=> Listed("recv")
      BY <2>1 DEF Listed
    <2>4. Len(toDriver) > 1 => Tail(toDriver) # <<>>
      <3> SUFFICES ASSUME Len(toDriver) > 1, Tail(toDriver) = <<>>
                   PROVE  FALSE
        OBVIOUS
      <3>1. Len(<<>>) = 0
        OBVIOUS
      <3>2. toDriver # <<>>
        BY <3>1
      <3>3. /\ Len(toDriver) \in Nat
            /\ Len(Tail(toDriver)) = Len(toDriver) - 1
        BY <2>2, <3>2, TailLength
      <3>4. Len(Tail(toDriver)) = 0
        BY <3>1, Zenon
      <3>5. Len(toDriver) = 1
        BY <3>3, <3>4
      <3> QED BY <3>5
    <2> QED BY <2>1, <2>3, <2>4 DEF Awaited
  <1>5. CASE /\ UNCHANGED <<toDriver, linked, restarts, messageCount, bus>>
             /\ running' = "recv" <=> running = "recv"
             /\ Listed("recv")' <=> Listed("recv")
    BY <1>5 DEF Awaited
  <1> QED BY <1>1, <1>2, <1>3, <1>4, <1>5, OtherSteps

(* The message that goes out is the oldest unread one (handleRecvMsg).     *)
LEMMA StepNumbered == TypeOK /\ Awaited /\ Numbered /\ [Next]_vars => Numbered'
  <1> SUFFICES ASSUME TypeOK, Awaited, Numbered, [Next]_vars, restarts' = 0
               PROVE  Numbered'
    BY DEF Numbered
  <1>1. ASSUME NEW kind \in Kinds, HostSend(kind) PROVE Numbered'
    <2>1. /\ toDriver \in Seq(Message) /\ messageCount \in Nat
          /\ messageCount' = messageCount + 1
          /\ toDriver' = Append(toDriver,
                                [number |-> messageCount + 1, kind |-> kind])
          /\ UNCHANGED <<restarts, bus>>
      BY <1>1, SendAnnounces
    <2>2. /\ Len(toDriver) \in Nat
          /\ DOMAIN toDriver = 1 .. Len(toDriver)
          /\ DOMAIN toDriver' = 1 .. Len(toDriver) + 1
          /\ \A i \in 1 .. Len(toDriver) :
                toDriver'[i].number = toDriver[i].number
          /\ toDriver'[Len(toDriver) + 1].number = messageCount + 1
      BY <2>1
    <2>3. bus \in Seq(Nat) /\ DOMAIN bus = 1 .. Len(bus)
      BY DEF TypeOK
    <2>4. \A n \in 1 .. messageCount :
              n \in 1 .. messageCount + 1 /\ n < messageCount + 1
      BY <2>1
    <2>5. messageCount + 1 \in 1 .. messageCount'
      BY <2>1
    <2> QED BY <2>1, <2>2, <2>3, <2>4, <2>5 DEF Numbered, Increasing
  <1>2. CASE HostRestart
    BY <1>2 DEF HostRestart, TypeOK
  <1>3. CASE InvokeCallbacks
    BY <1>3, InvokeTakes DEF Numbered
  <1>4. CASE handleRecvMsg
    <2>1. /\ running = "recv" /\ (linked => linked')
          /\ UNCHANGED <<messageCount, restarts>>
      BY <1>4, RecvMsgEffect
    <2>2. linked' /\ toDriver # <<>>
      BY <2>1 DEF Awaited
    <2>3. PICK m \in Message :
              /\ m = Head(toDriver) /\ toDriver' = Tail(toDriver)
              /\ \/ WriteToBus(m)
                 \/ SetBaudRate(m)
                 \/ RefuseBaudRate(m)
      BY <1>4, <2>2, RecvMsgEffect
    <2>4. /\ toDriver \in Seq(Message) /\ bus \in Seq(Nat)
          /\ messageCount \in Nat
      BY DEF TypeOK
    <2>5. /\ DOMAIN toDriver = 1 .. Len(toDriver) /\ 1 \in DOMAIN toDriver
          /\ m = toDriver[1] /\ Len(toDriver) \in Nat
          /\ DOMAIN toDriver' = 1 .. Len(toDriver) - 1
          /\ \A i \in 1 .. Len(toDriver) - 1 : toDriver'[i] = toDriver[i + 1]
      BY <2>2, <2>3, <2>4
    <2>6. \A i \in DOMAIN toDriver' :
              i + 1 \in DOMAIN toDriver /\ 1 < i + 1
      BY <2>5
    <2>7. /\ m.number \in 1 .. messageCount
          /\ \A i \in DOMAIN toDriver' :
                /\ toDriver'[i].number \in 1 .. messageCount
                /\ m.number < toDriver'[i].number
                /\ \A j \in DOMAIN toDriver' :
                      i < j => toDriver'[i].number < toDriver'[j].number
                /\ \A j \in DOMAIN bus : bus[j] < toDriver'[i].number
          /\ \A j \in DOMAIN bus : bus[j] < m.number
      <3>1. \A i, j \in DOMAIN toDriver' : i < j => i + 1 < j + 1
        BY <2>5
      <3> QED BY <2>1, <2>5, <2>6, <3>1 DEF Numbered
    <2>8. CASE bus' = bus
      BY <2>1, <2>7, <2>8 DEF Numbered
    <2>9. CASE bus' = Append(bus, m.number)
      <3>1. /\ Len(bus) \in Nat /\ DOMAIN bus = 1 .. Len(bus)
            /\ DOMAIN bus' = 1 .. Len(bus) + 1
            /\ \A i \in 1 .. Len(bus) : bus'[i] = bus[i]
            /\ bus'[Len(bus) + 1] = m.number
        BY <2>4, <2>9
      <3>2. \A i \in DOMAIN bus' : i \in DOMAIN bus \/ i = Len(bus) + 1
        BY <3>1
      <3>3. \A i, j \in DOMAIN bus' : i < j => i \in DOMAIN bus
        BY <3>1
      <3>4. Increasing(bus')
        BY <2>1, <2>7, <3>1, <3>2, <3>3 DEF Numbered, Increasing
      <3>5. \A i \in DOMAIN bus' : bus'[i] \in 1 .. messageCount
        BY <2>1, <2>7, <3>1, <3>2 DEF Numbered
      <3>6. \A i \in DOMAIN toDriver' :
                \A j \in DOMAIN bus' : bus'[j] < toDriver'[i].number
        BY <2>7, <3>1, <3>2
      <3> QED BY <2>1, <2>7, <3>4, <3>5, <3>6 DEF Numbered
    <2> QED BY <2>3, <2>8, <2>9 DEF WriteToBus, SetBaudRate, RefuseBaudRate
  <1>5. CASE UNCHANGED <<toDriver, linked, restarts, messageCount, bus>>
    BY <1>5 DEF Numbered
  <1> QED BY <1>1, <1>2, <1>3, <1>4, <1>5, OtherSteps

(* With one message under way a call of handleRecvMsg leaves none.         *)
LEMMA StepAnnounced ==
  TypeOK /\ Len(toDriver) <= 1 /\ Announced /\ [Next]_vars => Announced'
  <1> SUFFICES ASSUME TypeOK, Len(toDriver) <= 1, Announced, [Next]_vars
               PROVE  Announced'
    OBVIOUS
  <1>1. ASSUME NEW kind \in Kinds, HostSend(kind) PROVE Announced'
    BY <1>1, SendAnnounces DEF Announced
  <1>2. CASE HostRestart
    BY <1>2 DEF HostRestart, Announced
  <1>3. CASE InvokeCallbacks
    BY <1>3, InvokeTakes DEF Announced
  <1>4. CASE handleRecvMsg
    <2>1. linked' /\ toDriver # <<>> => toDriver' = Tail(toDriver)
      BY <1>4, RecvMsgEffect
    <2>2. linked' /\ toDriver = <<>> => toDriver' = toDriver
      BY <1>4, RecvMsgEffect
    <2>3. toDriver # <<>> => Tail(toDriver) = <<>>
      BY DEF TypeOK
    <2> QED BY <2>1, <2>2, <2>3 DEF Announced
  <1>5. CASE /\ UNCHANGED <<toDriver, linked, restarts, messageCount, bus>>
             /\ running' = "recv" <=> running = "recv"
             /\ Listed("recv")' <=> Listed("recv")
    BY <1>5 DEF Announced
  <1> QED BY <1>1, <1>2, <1>3, <1>4, <1>5, OtherSteps

(* As long as the application is not restarted a message goes out on the   *)
(* bus at most once, and in order: handleRecvMsg never finds the socket    *)
(* empty and sends what its buffer still holds.                            *)
THEOREM MessagesGoOutOnce == Spec => []SentOnceInOrder
  <1>1. Init => Awaited /\ Numbered
    BY DEF Init, Awaited, Numbered, Increasing, Listed, ToSet
  <1>2. TypeOK /\ Numbered => SentOnceInOrder
    <2> SUFFICES ASSUME TypeOK, Numbered, restarts = 0
                 PROVE  /\ \A i \in 2 .. Len(bus) : bus[i - 1] < bus[i]
                        /\ bus # <<>> => Head(bus) # 0
      BY DEF SentOnceInOrder
    <2>1. bus \in Seq(Nat) /\ messageCount \in Nat
      BY DEF TypeOK
    <2>2. \A i \in 2 .. Len(bus) :
              i - 1 \in DOMAIN bus /\ i \in DOMAIN bus /\ i - 1 < i
      BY <2>1
    <2>3. bus # <<>> => 1 \in DOMAIN bus /\ Head(bus) = bus[1]
      BY <2>1
    <2> QED BY <2>1, <2>2, <2>3 DEF Numbered, Increasing
  <1> QED BY <1>1, <1>2, TypeCorrect, StepAwaited, StepNumbered, PTL DEF Spec

(* If the application never has two messages under way, none is left when  *)
(* the driver goes to sleep, unless the socket has lost its rings.         *)
THEOREM NoMessageIsLeft == Spec => NoneLeftBehind
  <1>1. Init => Announced
    BY DEF Init, Announced
  <1>2. Announced => (Asleep /\ linked => toDriver = <<>>)
    BY DEF Announced, Asleep, Listed, ToSet
  <1> QED BY <1>1, <1>2, TypeCorrect, StepAnnounced, PTL DEF Spec, NoneLeftBehind

-----------------------------------------------------------------------------
(* Bytes from the bus.                                                     *)

(* The bytes of the bus in s come before those in t; none in s is after n. *)
Before(s, t) ==
    \A i \in DOMAIN s, j \in DOMAIN t :
        s[i] # 0 /\ t[j] # 0 => s[i] < t[j]

Upto(s, n) == \A i \in DOMAIN s : s[i] <= n

(* The way of a byte: the UART, the ring, the messages, the application.   *)
UartOrdered == Sorted(uart) /\ Upto(uart, byteCount)

RingOrdered ==
    Sorted(rxRing) /\ Upto(rxRing, byteCount) /\ Before(rxRing, uart)

HostOrdered ==
    \A k \in DOMAIN toHost :
        /\ Sorted(toHost[k]) /\ Upto(toHost[k], byteCount)
        /\ Before(toHost[k], rxRing) /\ Before(toHost[k], uart)
        /\ \A l \in DOMAIN toHost : k < l => Before(toHost[k], toHost[l])

ReceivedOrdered ==
    /\ Sorted(received) /\ Upto(received, byteCount)
    /\ Before(received, rxRing) /\ Before(received, uart)
    /\ \A k \in DOMAIN toHost : Before(received, toHost[k])

Ordered == UartOrdered /\ RingOrdered /\ HostOrdered /\ ReceivedOrdered

(* Sequences of bytes in order, one behind the other, are in order.        *)
LEMMA ConcatOrder ==
  ASSUME NEW s \in Seq(Nat), NEW t \in Seq(Nat)
  PROVE  /\ Sorted(s) /\ Sorted(t) /\ Before(s, t) => Sorted(s \o t)
         /\ \A n \in Nat : Upto(s, n) /\ Upto(t, n) => Upto(s \o t, n)
         /\ \A u \in Seq(Nat) :
               /\ Before(s, u) /\ Before(t, u) => Before(s \o t, u)
               /\ Before(u, s) /\ Before(u, t) => Before(u, s \o t)
  <1>1. /\ Len(s) \in Nat /\ Len(t) \in Nat
        /\ DOMAIN s = 1 .. Len(s) /\ DOMAIN t = 1 .. Len(t)
        /\ DOMAIN (s \o t) = 1 .. Len(s) + Len(t)
        /\ \A i \in 1 .. Len(s) + Len(t) :
              (s \o t)[i] = IF i <= Len(s) THEN s[i] ELSE t[i - Len(s)]
    OBVIOUS
  <1> DEFINE st == s \o t
  <1>2. \A i \in DOMAIN st :
            \/ i \in DOMAIN s /\ st[i] = s[i]
            \/ i - Len(s) \in DOMAIN t /\ st[i] = t[i - Len(s)]
               /\ i \notin DOMAIN s
    BY <1>1
  <1>3. \A i, j \in DOMAIN st :
            i < j => \/ j \notin DOMAIN s
                     \/ i \in DOMAIN s
    BY <1>1
  <1>4. \A i, j \in DOMAIN st : i < j => i - Len(s) < j - Len(s)
    BY <1>1
  <1> HIDE DEF st
  <1>5. Sorted(s) /\ Sorted(t) /\ Before(s, t) => Sorted(st)
    BY <1>2, <1>3, <1>4 DEF Sorted, Before
  <1>6. \A n \in Nat : Upto(s, n) /\ Upto(t, n) => Upto(st, n)
    BY <1>2 DEF Upto
  <1>7. \A u \in Seq(Nat) :
            /\ Before(s, u) /\ Before(t, u) => Before(st, u)
            /\ Before(u, s) /\ Before(u, t) => Before(u, st)
    BY <1>2 DEF Before
  <1> QED BY <1>5, <1>6, <1>7 DEF st

(* No byte, or none but those of an answer.                                *)
LEMMA NoBytesOrder ==
  ASSUME NEW s \in {<<>>, Reply}
  PROVE  /\ Sorted(s) /\ \A n \in Nat : Upto(s, n)
         /\ \A u \in Seq(Nat) : Before(s, u) /\ Before(u, s)
  <1>1. \A i \in DOMAIN s : s[i] = 0
    BY ReplyType
  <1> QED BY <1>1 DEF Sorted, Upto, Before

(* The next byte comes after all others.                                   *)
LEMMA AppendOrder ==
  ASSUME NEW s \in Seq(Nat), NEW n \in Nat, Sorted(s), Upto(s, n)
  PROVE  /\ Sorted(Append(s, n + 1)) /\ Upto(Append(s, n + 1), n + 1)
         /\ \A u \in Seq(Nat) :
               Upto(u, n) /\ Before(u, s) => Before(u, Append(s, n + 1))
  <1> DEFINE sn == Append(s, n + 1)
  <1>1. /\ Len(s) \in Nat /\ DOMAIN s = 1 .. Len(s)
        /\ DOMAIN sn = 1 .. Len(s) + 1 /\ sn[Len(s) + 1] = n + 1
        /\ \A i \in 1 .. Len(s) : sn[i] = s[i] /\ s[i] \in Nat
    OBVIOUS
  <1> HIDE DEF sn
  <1>2. \A i \in DOMAIN sn :
            \/ i \in DOMAIN s /\ sn[i] = s[i]
            \/ i = Len(s) + 1 /\ sn[i] = n + 1
    BY <1>1
  <1>3. \A i, j \in DOMAIN sn : i < j => i \in DOMAIN s
    BY <1>1
  <1>4. \A i \in DOMAIN s : s[i] \in Nat /\ s[i] <= n /\ s[i] < n + 1
    BY <1>1 DEF Upto
  <1>5. \A u \in Seq(Nat) : Upto(u, n) => \A i \in DOMAIN u : u[i] < n + 1
    <2> TAKE u \in Seq(Nat)
    <2>1. \A i \in DOMAIN u : u[i] \in Nat
      OBVIOUS
    <2> QED BY <2>1 DEF Upto
  <1>6. Sorted(sn)
    BY <1>2, <1>3, <1>4 DEF Sorted
  <1>7. Upto(sn, n + 1)
    BY <1>2, <1>4 DEF Upto
  <1>8. \A u \in Seq(Nat) : Upto(u, n) /\ Before(u, s) => Before(u, sn)
    BY <1>2, <1>5 DEF Before
  <1> QED BY <1>6, <1>7, <1>8 DEF sn

(* The order remains when the ring gives its bytes away or gets an answer  *)
(* (handleRecvMsg), or takes those of the UART (HandleUartRxIrqDeferred).  *)
LEMMA RingKeepsOrder ==
  ASSUME TypeOK, Ordered, UNCHANGED <<toHost, received, byteCount>>,
         NEW more \in {<<>>, Reply, uart},
         rxRing' \in {<<>>, more, rxRing, rxRing \o more},
         uart' \in {<<>>, uart}, uart' = <<>> \/ more \in {<<>>, Reply}
  PROVE  Ordered'
  <1>1. /\ uart \in Seq(Nat) /\ rxRing \in Seq(Nat) /\ received \in Seq(Nat)
        /\ toHost \in Seq(Seq(Nat)) /\ byteCount \in Nat
        /\ \A k \in DOMAIN toHost : toHost[k] \in Seq(Nat)
    BY DEF TypeOK
  <1>2. <<>> \in Seq(Nat) /\ Reply \in Seq(Nat)
    BY ReplyType
  <1>3. UartOrdered'
    BY <1>1, <1>2, NoBytesOrder DEF Ordered, UartOrdered
  <1>4. /\ more \in Seq(Nat) /\ Sorted(more) /\ Upto(more, byteCount)
        /\ Before(rxRing, more) /\ Before(received, more)
        /\ \A k \in DOMAIN toHost : Before(toHost[k], more)
        /\ Before(more, uart')
    <2>1. CASE more \in {<<>>, Reply}
      BY <1>1, <1>2, <2>1, NoBytesOrder
    <2>2. CASE more = uart /\ uart' = <<>>
      BY <1>1, <2>2, NoBytesOrder DEF Ordered, UartOrdered, RingOrdered,
         HostOrdered, ReceivedOrdered
    <2> QED BY <2>1, <2>2
  <1>5. \A s \in Seq(Nat) : Before(s, uart) => Before(s, uart')
    BY <1>1, NoBytesOrder
  <1>6. RingOrdered'
    <2>1. Sorted(rxRing) /\ Upto(rxRing, byteCount) /\ Before(rxRing, uart')
      BY <1>1, <1>5 DEF Ordered, RingOrdered
    <2>2. CASE rxRing' \in {<<>>, more, rxRing}
      BY <1>1, <1>2, <1>4, <2>1, <2>2, NoBytesOrder DEF RingOrdered
    <2>3. CASE rxRing' = rxRing \o more
      <3>1. uart' \in Seq(Nat)
        BY <1>1, <1>2
      <3> QED BY <1>1, <1>4, <2>1, <2>3, <3>1, ConcatOrder DEF RingOrdered
    <2> QED BY <2>2, <2>3
  <1>7. \A s \in Seq(Nat) :
            Before(s, rxRing) /\ Before(s, more) => Before(s, rxRing')
    <2> SUFFICES ASSUME NEW s \in Seq(Nat), Before(s, rxRing), Before(s, more)
                 PROVE  Before(s, rxRing')
      OBVIOUS
    <2>1. Before(s, <<>>)
      BY NoBytesOrder
    <2>2. Before(s, rxRing \o more)
      BY <1>1, <1>4, ConcatOrder
    <2> QED BY <2>1, <2>2
  <1>8. HostOrdered'
    BY <1>1, <1>4, <1>5, <1>7 DEF Ordered, HostOrdered
  <1>9. ReceivedOrdered'
    BY <1>1, <1>4, <1>5, <1>7 DEF Ordered, ReceivedOrdered
  <1> QED BY <1>3, <1>6, <1>8, <1>9 DEF Ordered

(* Every step keeps the order along the way.                               *)
LEMMA StepOrdered == TypeOK /\ Ordered /\ [Next]_vars => Ordered'
  <1> SUFFICES ASSUME TypeOK, Ordered, [Next]_vars PROVE Ordered'
    OBVIOUS
  <1>0. /\ uart \in Seq(Nat) /\ rxRing \in Seq(Nat) /\ received \in Seq(Nat)
        /\ toHost \in Seq(Seq(Nat)) /\ byteCount \in Nat
        /\ \A k \in DOMAIN toHost : toHost[k] \in Seq(Nat)
    BY DEF TypeOK
  <1> DEFINE Rest == UNCHANGED <<uart, rxRing, toHost, received, byteCount>>
  <1>1. CASE Rest
    BY <1>1 DEF Ordered, UartOrdered, RingOrdered, HostOrdered, ReceivedOrdered
  <1>2. CASE HandleUartRxIrq
    <2>1. /\ byteCount' = byteCount + 1
          /\ uart' \in {uart, Append(uart, byteCount + 1)}
          /\ UNCHANGED <<rxRing, toHost, received>>
      BY <1>2 DEF HandleUartRxIrq
    <2>2. \A s \in Seq(Nat) : Upto(s, byteCount) => Upto(s, byteCount')
      <3>1. \A s \in Seq(Nat) : \A i \in DOMAIN s :
                s[i] \in Nat /\ (s[i] <= byteCount => s[i] <= byteCount + 1)
        BY <1>0
      <3> QED BY <2>1, <3>1 DEF Upto
    <2>3. UartOrdered'
      BY <1>0, <2>1, <2>2, AppendOrder DEF Ordered, UartOrdered
    <2>4. \A s \in Seq(Nat) :
              Upto(s, byteCount) /\ Before(s, uart) => Before(s, uart')
      BY <1>0, <2>1, AppendOrder DEF Ordered, UartOrdered
    <2>5. RingOrdered' /\ HostOrdered' /\ ReceivedOrdered'
      BY <1>0, <2>1, <2>2, <2>4
      DEF Ordered, RingOrdered, HostOrdered, ReceivedOrdered
    <2> QED BY <2>3, <2>5 DEF Ordered
  <1>3. ASSUME NEW kind \in Kinds, HostSend(kind) PROVE Rest
    BY <1>3 DEF HostSend
  <1>4. CASE HostReceive
    <2>1. /\ toHost # <<>> /\ received' = received \o toHost[1]
          /\ toHost' = Tail(toHost) /\ UNCHANGED <<uart, rxRing, byteCount>>
      <3>1. toHost # <<>> => Head(toHost) = toHost[1]
        BY <1>0
      <3> QED BY <1>4, <3>1 DEF HostReceive
    <2>2. /\ 1 \in DOMAIN toHost
          /\ \A k \in DOMAIN toHost' : /\ k + 1 \in DOMAIN toHost
                                       /\ 1 < k + 1
                                       /\ toHost'[k] = toHost[k + 1]
          /\ \A k, l \in DOMAIN toHost' : k < l => k + 1 < l + 1
      BY <1>0, <2>1
    <2>3. HostOrdered'
      BY <2>1, <2>2 DEF Ordered, HostOrdered
    <2>4. ReceivedOrdered'
      <3>1. /\ Sorted(received) /\ Upto(received, byteCount)
            /\ Before(received, rxRing) /\ Before(received, uart)
            /\ Before(received, toHost[1])
            /\ Sorted(toHost[1]) /\ Upto(toHost[1], byteCount)
            /\ Before(toHost[1], rxRing) /\ Before(toHost[1], uart)
        BY <2>2 DEF Ordered, ReceivedOrdered, HostOrdered
      <3>2. \A k \in DOMAIN toHost' :
                /\ toHost'[k] \in Seq(Nat)
                /\ Before(received, toHost'[k]) /\ Before(toHost[1], toHost'[k])
        BY <1>0, <2>2 DEF Ordered, ReceivedOrdered, HostOrdered
      <3>3. toHost[1] \in Seq(Nat)
        BY <1>0, <2>2
      <3> QED BY <1>0, <2>1, <3>1, <3>2, <3>3, ConcatOrder DEF ReceivedOrdered
    <2> QED BY <2>1, <2>3, <2>4 DEF Ordered, UartOrdered, RingOrdered
  <1>5. CASE HostRestart
    <2>1. toHost' = <<>> /\ UNCHANGED <<uart, rxRing, received, byteCount>>
      BY <1>5 DEF HostRestart
    <2> QED BY <2>1 DEF Ordered, UartOrdered, RingOrdered, HostOrdered,
                        ReceivedOrdered
  <1>6. SendTimer \/ InvokeCallbacks => Rest
    BY DEF SendTimer, InvokeCallbacks
  <1>7. CASE handleRecvMsg
    <2>1. UNCHANGED <<toHost, received, byteCount>>
      BY <1>7, RecvMsgEffect
    <2>2. PICK m \in Message :
              WriteToBus(m) \/ SetBaudRate(m) \/ RefuseBaudRate(m)
      BY <1>7, RecvMsgEffect
    <2>3. CASE WriteToBus(m)
      BY <1>1, <2>1, <2>3 DEF WriteToBus
    <2>4. CASE ~WriteToBus(m)
      <3>1. rxRing' \in {<<>>, Reply, rxRing, rxRing \o Reply}
        <4>1. CASE SetBaudRate(m)
          <5>1. <<>> \o Reply = Reply
            BY ReplyType
          <5> QED BY <4>1, <5>1 DEF SetBaudRate, Pushed
        <4>2. CASE RefuseBaudRate(m)
          BY <4>2 DEF RefuseBaudRate, Pushed
        <4> QED BY <2>2, <2>4, <4>1, <4>2
      <3>2. uart' \in {<<>>, uart}
        BY <2>2, <2>4 DEF SetBaudRate, RefuseBaudRate
      <3> QED BY <2>1, <3>1, <3>2, RingKeepsOrder
    <2> QED BY <2>3, <2>4
  <1>8. CASE handleSendMsgTimer
    <2>1. /\ rxRing' = <<>> /\ UNCHANGED <<uart, received, byteCount>>
          /\ toHost' \in {toHost, Append(toHost, rxRing)}
      BY <1>8 DEF handleSendMsgTimer
    <2>2. RingOrdered'
      BY <1>0, <2>1, NoBytesOrder DEF RingOrdered
    <2>3. \A s \in Seq(Nat) : Before(s, rxRing')
      BY <2>1, NoBytesOrder
    <2>4. CASE toHost' = toHost
      BY <1>0, <2>1, <2>2, <2>3, <2>4
      DEF Ordered, UartOrdered, HostOrdered, ReceivedOrdered
    <2>5. CASE toHost' = Append(toHost, rxRing)
      <3>1. /\ Len(toHost) \in Nat /\ DOMAIN toHost = 1 .. Len(toHost)
            /\ DOMAIN toHost' = 1 .. Len(toHost) + 1
            /\ \A k \in 1 .. Len(toHost) : toHost'[k] = toHost[k]
            /\ toHost'[Len(toHost) + 1] = rxRing
        BY <1>0, <2>5
      <3>2. \A k \in DOMAIN toHost' :
                \/ k \in DOMAIN toHost /\ toHost'[k] = toHost[k]
                \/ k = Len(toHost) + 1 /\ toHost'[k] = rxRing
        BY <3>1
      <3>3. \A k, l \in DOMAIN toHost' : k < l => k \in DOMAIN toHost
        BY <3>1
      <3>4. HostOrdered'
        <4>1. \A k \in DOMAIN toHost' :
                  /\ toHost'[k] \in Seq(Nat)
                  /\ Sorted(toHost'[k]) /\ Upto(toHost'[k], byteCount)
                  /\ Before(toHost'[k], uart)
          BY <1>0, <3>2 DEF Ordered, RingOrdered, HostOrdered
        <4>2. \A k, l \in DOMAIN toHost' :
                  k < l => Before(toHost'[k], toHost'[l])
          <5> SUFFICES ASSUME NEW k \in DOMAIN toHost',
                              NEW l \in DOMAIN toHost', k < l
                       PROVE  Before(toHost'[k], toHost'[l])
            OBVIOUS
          <5>1. k \in DOMAIN toHost /\ toHost'[k] = toHost[k]
            BY <3>1, <3>3
          <5> QED BY <3>2, <5>1 DEF Ordered, HostOrdered
        <4> QED BY <2>1, <2>3, <4>1, <4>2 DEF HostOrdered
      <3>5. ReceivedOrdered'
        BY <1>0, <2>1, <2>3, <3>2 DEF Ordered, ReceivedOrdered
      <3> QED BY <2>1, <2>2, <3>4, <3>5 DEF Ordered, UartOrdered
    <2> QED BY <2>1, <2>4, <2>5
  <1>9. CASE HandleUartRxIrqDeferred
    <2>1. /\ uart' = <<>> /\ rxRing' \in {rxRing, rxRing \o uart}
          /\ UNCHANGED <<toHost, received, byteCount>>
      BY <1>9 DEF HandleUartRxIrqDeferred, Pushed
    <2> QED BY <2>1, RingKeepsOrder
  <1>10. UNCHANGED vars => Rest
    BY DEF vars
  <1> HIDE DEF Rest
  <1> QED BY <1>1, <1>2, <1>3, <1>4, <1>5, <1>6, <1>7, <1>8, <1>9, <1>10 DEF Next

(* The application gets the bytes of the bus in order, each at most once,  *)
(* whatever was lost on the way (HandleUartRxIrqDeferred,                  *)
(* handleSendMsgTimer).                                                    *)
THEOREM BytesArriveInOrder == Spec => []BytesInOrder
  <1>1. Init => Ordered
    BY DEF Init, Ordered, UartOrdered, RingOrdered, HostOrdered,
           ReceivedOrdered, Sorted, Upto, Before
  <1>2. Ordered => BytesInOrder
    BY DEF Ordered, ReceivedOrdered, BytesInOrder
  <1> QED BY <1>1, <1>2, TypeCorrect, StepOrdered, PTL DEF Spec
=============================================================================
