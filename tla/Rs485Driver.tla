---------------------------- MODULE Rs485Driver -----------------------------
(***************************************************************************)
(* The RS-485 driver on the real-time core (RS485Driver/RTApp): bytes from *)
(* the field bus go to the high-level application in batches, messages of  *)
(* the application go to the bus.                                          *)
(*                                                                         *)
(* Interrupts only put a callback node on a list; the main loop takes the  *)
(* nodes off, last in first out, and calls them. A node is on the list at  *)
(* most once, so interrupts that come before it is called are merged, and  *)
(* it may be put on again while its callback runs. Callbacks do not        *)
(* interleave with each other, interrupts with everything: a step of the   *)
(* main loop either takes a node off or runs the callback taken.           *)
(*                                                                         *)
(* The two rings of the socket are queues of messages here: IntercoreRing  *)
(* shows that this is what they are. The n-th byte from the bus is byte n; *)
(* the n-th message of the application is message n.                       *)
(***************************************************************************)
EXTENDS Integers, Sequences, SequencesExt

CONSTANTS
    DRIVER_MAX_RX_BUFFER_SIZE,       \* the size of rs485_rxRingBuffer
    DRIVER_MAX_RX_BUFFER_FILL_SIZE,  \* more than this is sent at once
    RB_MAX_PAYLOAD_LEN,              \* the longest message of a socket
    RX_BUFFER_SIZE,                  \* the receive buffer of the UART
    ReplySize,                       \* the length of the answer to a command
    HostQueue,                       \* how many messages to the host fit
    MaxUnread,                       \* how many messages of the host fit
    MaxBytes, MaxMessages, MaxRestarts   \* bounds

ASSUME SizesAssumption ==
    /\ DRIVER_MAX_RX_BUFFER_SIZE \in Nat \ {0}
    /\ {DRIVER_MAX_RX_BUFFER_FILL_SIZE, RB_MAX_PAYLOAD_LEN, RX_BUFFER_SIZE,
        ReplySize, HostQueue, MaxUnread, MaxBytes, MaxMessages, MaxRestarts}
           \subseteq Nat
    /\ ReplySize < DRIVER_MAX_RX_BUFFER_SIZE

VARIABLES
    uart,       \* bytes received that the driver has not read
    rxRing,     \* rs485_rxRingBuffer, oldest byte first
    toHost,     \* messages on their way to the application
    toDriver,   \* messages on their way to the driver
    msg,        \* the static buffer of handleRecvMsg
    callbacks,  \* the nodes on the list, the next one first
    running,    \* the node taken off, whose callback is to run
    pending,    \* is a negotiation of the application in the mailbox?
    linked,     \* does the socket point to the application's rings?
    byteCount, messageCount, restarts,   \* of the environment
    received,   \* the bytes that the application got
    bus         \* the messages that went out on the bus

vars == <<uart, rxRing, toHost, toDriver, msg, callbacks, running,
          pending, linked, byteCount, messageCount, restarts, received, bus>>

Nodes == {"recv", "send", "uart"}

(* A message to the bus, or the command to change the baud rate, to one or *)
(* to 0, which is refused.                                                 *)
Kinds == {"bytes", "baud", "badBaud"}
Message == [number : Nat, kind : Kinds]

(* The bytes of an answer to a command count as byte 0.                    *)
Reply == [i \in 1 .. ReplySize |-> 0]

Init ==
    /\ uart = <<>>
    /\ rxRing = <<>>
    /\ toHost = <<>>
    /\ toDriver = <<>>
    /\ msg = [number |-> 0, kind |-> "bytes"]
    /\ callbacks = <<>>
    /\ running = "none"
    /\ pending = FALSE
    /\ linked = TRUE
    /\ byteCount = 0
    /\ messageCount = 0
    /\ restarts = 0
    /\ received = <<>>
    /\ bus = <<>>

EnqueueCallback(node) ==
    callbacks' = IF node \in ToSet(callbacks) THEN callbacks
                                              ELSE <<node>> \o callbacks

-----------------------------------------------------------------------------
(* Interrupts, and the other core.                                         *)

(* A byte from the bus; it is lost when the UART has no room for it.       *)
HandleUartRxIrq ==
    /\ byteCount < MaxBytes
    /\ byteCount' = byteCount + 1
    /\ uart' = IF Len(uart) < RX_BUFFER_SIZE THEN Append(uart, byteCount')
                                             ELSE uart
    /\ EnqueueCallback("uart")
    /\ UNCHANGED <<rxRing, toHost, toDriver, msg, running, pending, linked,
                   messageCount, restarts, received, bus>>

(* The application sends a message, which raises the socket's interrupt.   *)
HostSend(kind) ==
    /\ messageCount < MaxMessages
    /\ Len(toDriver) < MaxUnread
    /\ messageCount' = messageCount + 1
    /\ toDriver' = Append(toDriver, [number |-> messageCount', kind |-> kind])
    /\ EnqueueCallback("recv")
    /\ UNCHANGED <<uart, rxRing, toHost, msg, running, pending, linked,
                   byteCount, restarts, received, bus>>

HostReceive ==
    /\ toHost # <<>>
    /\ received' = received \o Head(toHost)
    /\ toHost' = Tail(toHost)
    /\ UNCHANGED <<uart, rxRing, toDriver, msg, callbacks, running,
                   pending, linked, byteCount, messageCount, restarts, bus>>

(* The application is restarted: it has new rings, in the same memory as   *)
(* the old ones or elsewhere, and puts a negotiation into the mailbox,     *)
(* which interrupts nobody.                                                *)
HostRestart ==
    /\ restarts < MaxRestarts
    /\ restarts' = restarts + 1
    /\ toHost' = <<>>
    /\ toDriver' = <<>>
    /\ pending' = TRUE
    /\ linked' \in {linked, FALSE}
    /\ UNCHANGED <<uart, rxRing, msg, callbacks, running, byteCount,
                   messageCount, received, bus>>

(* The timer of RTDRV_SEND_DELAY_MSEC.                                     *)
SendTimer ==
    /\ EnqueueCallback("send")
    /\ UNCHANGED <<uart, rxRing, toHost, toDriver, msg, running, pending,
                   linked, byteCount, messageCount, restarts, received, bus>>

-----------------------------------------------------------------------------
(* The main loop.                                                          *)

(* Mutant of the next: the node stays on the list.                         *)
InvokeCallbacksAgain ==
    /\ running = "none"
    /\ callbacks # <<>>
    /\ running' = Head(callbacks)
    /\ UNCHANGED <<uart, rxRing, toHost, toDriver, msg, callbacks, pending,
                   linked, byteCount, messageCount, restarts, received, bus>>

InvokeCallbacks ==
    /\ running = "none"
    /\ callbacks # <<>>
    /\ running' = Head(callbacks)
    /\ callbacks' = Tail(callbacks)
    /\ UNCHANGED <<uart, rxRing, toHost, toDriver, msg, pending, linked,
                   byteCount, messageCount, restarts, received, bus>>

(* Mutant of the next: the ring may fill.                                  *)
PushedToTheBrim(ring, bytes) ==
    IF Len(ring) + Len(bytes) <= DRIVER_MAX_RX_BUFFER_SIZE THEN ring \o bytes
                                                          ELSE ring

(* ring_buffer_push_bytes: all of the bytes or none, and never a full ring.*)
Pushed(ring, bytes) ==
    IF Len(ring) + Len(bytes) < DRIVER_MAX_RX_BUFFER_SIZE THEN ring \o bytes
                                                         ELSE ring

(* Rs485_Write; a message that the UART does not take is lost.             *)
WriteToBus(m) ==
    /\ bus' = Append(bus, m.number) \/ UNCHANGED bus
    /\ msg' = m
    /\ UNCHANGED <<uart, rxRing>>

(* Rs485_Init opens the UART anew and empties the ring; the answer is      *)
(* written into the buffer the command came in, as a command for rate 0.   *)
(* If it does not open, the ring stays as it is, the answer is the other   *)
(* one, and what goes to the bus or comes from it is lost from then on,    *)
(* which it may be anyway.                                                 *)
SetBaudRate(m) ==
    /\ uart' = <<>>
    /\ \/ /\ rxRing' = Pushed(<<>>, Reply)
          /\ msg' = [m EXCEPT !.kind = "badBaud"]
       \/ /\ rxRing' = Pushed(rxRing, Reply)
          /\ msg' = [m EXCEPT !.kind = "baud"]
    /\ UNCHANGED bus

(* Nothing changes; the answer reads as a command for rate 65535.          *)
RefuseBaudRate(m) ==
    /\ rxRing' = Pushed(rxRing, Reply)
    /\ msg' = [m EXCEPT !.kind = "baud"]
    /\ UNCHANGED <<uart, bus>>

(* Mutant of the next: after a negotiation no message is read.             *)
handleRecvMsgOrNegotiation ==
    /\ running = "recv"
    /\ pending' = FALSE
    /\ linked' = (linked \/ pending)
    /\ LET read == ~pending /\ linked /\ toDriver # <<>>
           m    == IF read THEN Head(toDriver) ELSE msg
       IN  /\ toDriver' = IF read THEN Tail(toDriver) ELSE toDriver
           /\ \/ m.kind = "bytes" /\ WriteToBus(m)
              \/ m.kind = "baud" /\ SetBaudRate(m)
              \/ m.kind = "badBaud" /\ RefuseBaudRate(m)
    /\ running' = "none"
    /\ UNCHANGED <<toHost, callbacks, byteCount, messageCount, restarts,
                   received>>

(* A negotiation in the mailbox is done first. Then one message is read;   *)
(* when there is none, handleRecvMsg goes on with what the buffer holds.   *)
handleRecvMsg ==
    /\ running = "recv"
    /\ pending' = FALSE
    /\ linked' = (linked \/ pending)
    /\ LET read == linked' /\ toDriver # <<>>
           m    == IF read THEN Head(toDriver) ELSE msg
       IN  /\ toDriver' = IF read THEN Tail(toDriver) ELSE toDriver
           /\ \/ m.kind = "bytes" /\ WriteToBus(m)
              \/ m.kind = "baud" /\ SetBaudRate(m)
              \/ m.kind = "badBaud" /\ RefuseBaudRate(m)
    /\ running' = "none"
    /\ UNCHANGED <<toHost, callbacks, byteCount, messageCount, restarts,
                   received>>

(* All the bytes are taken out of the ring, whether Socket_Write then      *)
(* accepts them or not. Socket_Reset empties the mailbox.                  *)
SocketAccepts(bytes) ==
    Len(bytes) \in 1 .. RB_MAX_PAYLOAD_LEN /\ Len(toHost) < HostQueue

(* Mutant of the next: the bytes sent stay in the ring.                    *)
handleSendMsgTimerKeeps ==
    /\ running = "send"
    /\ toHost' = IF linked /\ SocketAccepts(rxRing)
                 THEN Append(toHost, rxRing) ELSE toHost
    /\ pending' = FALSE
    /\ running' = "none"
    /\ UNCHANGED <<uart, rxRing, toDriver, msg, callbacks, linked, byteCount,
                   messageCount, restarts, received, bus>>

handleSendMsgTimer ==
    /\ running = "send"
    /\ rxRing' = <<>>
    /\ toHost' = IF linked /\ SocketAccepts(rxRing)
                 THEN Append(toHost, rxRing) ELSE toHost
    /\ pending' = FALSE
    /\ running' = "none"
    /\ UNCHANGED <<uart, toDriver, msg, callbacks, linked, byteCount,
                   messageCount, restarts, received, bus>>

HandleUartRxIrqDeferred ==
    /\ running = "uart"
    /\ uart' = <<>>
    /\ IF uart # <<>> /\ Len(rxRing) > DRIVER_MAX_RX_BUFFER_FILL_SIZE
       THEN EnqueueCallback("send")
       ELSE UNCHANGED callbacks
    /\ rxRing' = Pushed(rxRing, uart)
    /\ running' = "none"
    /\ UNCHANGED <<toHost, toDriver, msg, pending, linked, byteCount,
                   messageCount, restarts, received, bus>>

-----------------------------------------------------------------------------
Next ==
    \/ HandleUartRxIrq
    \/ \E kind \in Kinds : HostSend(kind)
    \/ HostReceive
    \/ HostRestart
    \/ SendTimer
    \/ InvokeCallbacks
    \/ handleRecvMsg
    \/ handleSendMsgTimer
    \/ HandleUartRxIrqDeferred

Spec == Init /\ [][Next]_vars

-----------------------------------------------------------------------------
(* The types of the variables. No node is on the list twice, and the ring  *)
(* always has a byte to spare.                                             *)
TypeOK ==
    /\ uart \in Seq(Nat) /\ Len(uart) <= RX_BUFFER_SIZE
    /\ rxRing \in Seq(Nat) /\ Len(rxRing) < DRIVER_MAX_RX_BUFFER_SIZE
    /\ toHost \in Seq(Seq(Nat)) /\ Len(toHost) <= HostQueue
    /\ toDriver \in Seq(Message) /\ Len(toDriver) <= MaxUnread
    /\ msg \in Message
    /\ callbacks \in Seq(Nodes) /\ IsInjective(callbacks)
    /\ running \in Nodes \union {"none"}
    /\ {pending, linked} \subseteq BOOLEAN
    /\ {byteCount, messageCount, restarts} \subseteq Nat
    /\ received \in Seq(Nat)
    /\ bus \in Seq(Nat)

(* The application gets the bytes of the bus in order, each at most once,  *)
(* whatever was lost before, between and after them, and whatever answers  *)
(* come between.                                                           *)
Sorted(bytes) ==
    \A i, j \in DOMAIN bytes :
        i < j /\ bytes[i] # 0 /\ bytes[j] # 0 => bytes[i] < bytes[j]

BytesInOrder == Sorted(received)

(* As long as the application is not restarted a message goes out on the   *)
(* bus at most once, and in order, although callbacks are merged and each  *)
(* reads one message: no callback ever finds the socket empty and sends    *)
(* what the buffer still holds.                                            *)
SentOnceInOrder ==
    restarts = 0 => /\ \A i \in 2 .. Len(bus) : bus[i - 1] < bus[i]
                    /\ bus # <<>> => Head(bus) # 0

Asleep == running = "none" /\ callbacks = <<>>

(* If the application never has two messages under way, none is left when  *)
(* the driver goes to sleep, unless the socket has lost the application's  *)
(* rings.                                                                  *)
NoneLeftBehind ==
    [](Len(toDriver) <= 1) => [](Asleep /\ linked => toDriver = <<>>)

(* The bytes that overflow the fill size of the ring are sent.             *)
OverflowIsSent ==
    [][running = "send" /\ running' = "none" /\ toHost = <<>>
         /\ linked /\ Len(rxRing) > DRIVER_MAX_RX_BUFFER_FILL_SIZE =>
           toHost' # <<>>]_vars

=============================================================================
