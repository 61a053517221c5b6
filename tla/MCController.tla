---------------------------- MODULE MCController ----------------------------
(***************************************************************************)
(* The industrial device controller for TLC: the adapter, its driver for   *)
(* Modbus TCP, and the intercore ring to the real-time core, which the     *)
(* drivers of the serial line use.                                         *)
(*                                                                         *)
(* The adapter and a driver meet in a query only: the adapter takes any    *)
(* error code from the driver and relies on every query to end; the driver *)
(* takes openings, queries and re-creations in any order, one at a time,   *)
(* and the ring takes messages of any size.  So each of the three is       *)
(* checked under what it assumes of the others: a behaviour has the steps  *)
(* of the one that it chooses at the start.                                *)
(***************************************************************************)
EXTENDS Adapter, ModbusTcp, IntercoreRing

VARIABLE part

all == <<part, vars, tcpVars, ringVars>>

(* One tick each; see MaxLate for how far devices can fall behind.         *)
MCInterval == [d \in Devices |-> 1]

(* Two documents with devices of their own, and one that is refused and    *)
(* has no epoch.                                                           *)
MCDocs == {[epoch |-> 1, valid |-> TRUE, devices |-> <<"a", "b">>],
           [epoch |-> 2, valid |-> TRUE, devices |-> <<"c">>],
           [epoch |-> NoEpoch, valid |-> FALSE, devices |-> <<>>]}

ControllerInit ==
    /\ part \in {"adapter", "driver", "ring"}
    /\ Init
    /\ TcpInit
    /\ RingInit

AdapterStep(action) ==
    /\ part = "adapter"
    /\ action
    /\ UNCHANGED <<part, tcpVars, ringVars>>

DriverStep(action) ==
    /\ part = "driver"
    /\ action
    /\ UNCHANGED <<part, vars, ringVars>>

RingStep(action) ==
    /\ part = "ring"
    /\ action
    /\ UNCHANGED <<part, vars, tcpVars>>

ControllerNext ==
    AdapterStep(Next) \/ DriverStep(TcpNext) \/ RingStep(RingNext)

(* The threads run, time passes, the watchdog is a timer of the system     *)
(* that nothing stops, the application is started again, and the timeout   *)
(* of a query is read from a clock.  Both cores go on with a call that they *)
(* began, and the main loop of the reader runs the handler of an interrupt. *)
(* The hub, the faults and the server owe nothing.                         *)
ControllerSpec ==
    /\ ControllerInit
    /\ [][ControllerNext]_all
    /\ WF_all(AdapterStep(MainStep))
    /\ WF_all(AdapterStep(WorkerStep))
    /\ WF_all(AdapterStep(Tick))
    /\ WF_all(AdapterStep(WatchdogExit))
    /\ WF_all(AdapterStep(Restart))
    /\ WF_all(DriverStep(Query))
    /\ WF_all(RingStep(Socket__Write_RB \/ PublishWrite \/ Socket__Signal))
    /\ WF_all(RingStep(Socket__Read_RB \/ PublishRead))
    /\ WF_all(RingStep(\E size \in BufferSizes : HandleSignal(size)))

-----------------------------------------------------------------------------
(* Every device that stays listed is queried again and again: the schedule *)
(* starves no device, and no result, timer or notification that a          *)
(* provisioning or a shutdown overtakes leaves the worker asleep.          *)
EveryDevicePolled ==
    \A d \in Devices :
        []<>(d \notin Listed \/ (worker = "querying" /\ pending = d))

(* A shutdown ends, even when the worker goes to sleep after the signal    *)
(* that adapter_deinit sends without the mutex: the watchdog ends it then. *)
ShutdownEnds == part = "adapter" /\ ~running ~> mainPc = "gone"

(* Every query ends, which the adapter relies on.                          *)
QueryEnds == step # "idle" ~> step = "idle"

(* A writer that waits for each message to be read before it sends the     *)
(* next one, and sends none that is longer than the reader's buffer, has   *)
(* every message read, wherever the ring wraps: the handler reads one      *)
(* message for all the interrupts since its last run, so it takes both.    *)
OneByOne ==
    /\ Len(sent) <= Len(received) + 1
    /\ \A i \in DOMAIN sent, bufferSize \in BufferSizes :
           sent[i].size <= bufferSize

SentOneByOneIsRead == []OneByOne => []<>(received = sent)
=============================================================================
