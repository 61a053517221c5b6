------------------------------ MODULE Adapter -------------------------------
(***************************************************************************)
(* The adapter of the industrial device controller (init/adapter.c): a     *)
(* provisioning document lists devices, a worker thread queries one device *)
(* at a time through the driver, and the event loop of the main thread     *)
(* reports each result and schedules the next device.                      *)
(*                                                                         *)
(* The two threads share the adapter under one mutex, which the worker     *)
(* holds for the whole of a query: it is held exactly when worker is       *)
(* "querying", and every other critical section is one step.  What the     *)
(* driver does within a query is left to the modules that compose it; here *)
(* it returns any error code.  Time is in ticks of the 200 ms by which     *)
(* first queries are spread, and schedules are relative to the present.    *)
(***************************************************************************)
EXTENDS Integers, Sequences, FiniteSets, SequencesExt

CONSTANTS
    Devices,      \* the names of devices
    Interval,     \* the polling interval of each device, in ticks
    Docs,         \* the provisioning documents the hub may send
    ErrCodes,     \* what a query can return
    MaxLate,      \* by how many ticks a schedule can be seen to be missed
    MaxBacklog    \* results the event loop may leave unread

NoDevice == "NULL"
NoEpoch == -1

(* A document: its epoch, whether the adapter has the name, location and   *)
(* source id it must have, and the devices it lists.                       *)
Doc == [epoch : (Nat \ {0}) \cup {NoEpoch}, valid : BOOLEAN,
        devices : Seq(Devices)]

(* adapter_provision leaves its epoch uninitialised when the document has  *)
(* none: it is then whatever the stack holds.                              *)
Epochs == ({0} \cup {doc.epoch : doc \in Docs}) \ {NoEpoch}

EpochsRead(doc) == IF doc.epoch = NoEpoch THEN Epochs ELSE {doc.epoch}

ASSUME DevicesAssumption == NoDevice \notin Devices
ASSUME IntervalAssumption == Interval \in [Devices -> Nat \ {0}]
ASSUME DocsAssumption ==
    /\ Docs \subseteq Doc
    /\ \A doc \in Docs : IsInjective(doc.devices)
ASSUME ErrCodesAssumption ==
    {"OK", "TIMEOUT"} \subseteq ErrCodes
ASSUME BoundsAssumption == MaxLate \in Nat /\ MaxBacklog \in Nat \ {0}

VARIABLES
    mainPc,       \* the main thread: starting, in its loop, joining, gone
    running,      \* g_app_running
    worker,       \* where the worker thread is
    epoch,        \* provision_epoch
    devices,      \* the list of devices, its head first
    due,          \* ts_schedule of each device, less the present
    err,          \* what the last query of each device returned
    driver,       \* none, created and closed, or open
    driverState,  \* driver_state
    pending,      \* pending_device
    ready,        \* ready_device
    timer,        \* the device the notify timer is armed for, and the delay
    pipe,         \* epochs of the results the main thread has not read
    saved         \* the document a load of mutable storage returns, if any

threads == <<mainPc, running, worker>>
provision == <<epoch, devices>>
schedule == <<pending, ready, timer, pipe>>
vars == <<mainPc, running, worker, epoch, devices, due, err, driver,
          driverState, pending, ready, timer, pipe, saved>>

Listed == ToSet(devices)

Unarmed == [device |-> NoDevice, left |-> 0]

Locked == worker = "querying"

(* A step of the event loop that takes the mutex.                          *)
InLoop == mainPc = "loop" /\ ~Locked

-----------------------------------------------------------------------------
ZeroDue == [d \in Devices |-> 0]
NeverQueried == [d \in Devices |-> "INVALID"]

Init ==
    /\ mainPc = "init"
    /\ running = TRUE
    /\ worker = "head"
    /\ epoch = 0
    /\ devices = <<>>
    /\ due = ZeroDue
    /\ err = NeverQueried
    /\ driver = "none"
    /\ driverState = "INIT"
    /\ pending = NoDevice
    /\ ready = NoDevice
    /\ timer = Unarmed
    /\ pipe = <<>>
    /\ saved = {}

-----------------------------------------------------------------------------
(* notify_worker_locked: the condition is signalled under the mutex.       *)

(* Mutant of the next: the worker is not signalled.                        *)
NotifyWorkerSilent(device) ==
    /\ pending' = device
    /\ UNCHANGED worker

NotifyWorker(device) ==
    /\ pending' = device
    /\ worker' = IF worker = "waiting" THEN "woken" ELSE worker

(* get_next_device_to_run: the earliest schedule, ties going to the first  *)
(* of the devices that follow the current one in the circular list.        *)

(* Mutant of the next: the comparison of schedules is turned round.        *)
NextToRunLatest(current) ==
    IF devices = <<>> THEN NoDevice
    ELSE IF current = NoDevice \/ Len(devices) = 1 THEN devices[1]
    ELSE CHOOSE d \in Listed : \A other \in Listed : due[other] <= due[d]

NextToRun(current) ==
    IF devices = <<>> THEN NoDevice
    ELSE IF current = NoDevice \/ Len(devices) = 1 THEN devices[1]
    ELSE LET n == Len(devices)
             at == CHOOSE i \in 1 .. n : devices[i] = current
             line == [k \in 1 .. n |-> devices[((at + k - 1) % n) + 1]]
             first == CHOOSE i \in 1 .. n : \A j \in 1 .. n :
                          /\ due[line[i]] <= due[line[j]]
                          /\ j < i => due[line[i]] < due[line[j]]
         IN  line[first]

(* schedule_next_device: arm the timer, or notify at once a device whose   *)
(* schedule has come, and count its next interval from the present.        *)

(* Mutants of the next: the timer is armed with a delay that has passed;   *)
(* a schedule that has come is left for the timer that is armed.           *)
ScheduleNextLate(current) ==
    LET next == NextToRun(current)
    IN  /\ timer' = IF next = NoDevice THEN timer
                    ELSE [device |-> next, left |-> due[next]]
        /\ UNCHANGED <<due, pending, worker>>

ScheduleNextArmsOnly(current) ==
    LET next == NextToRun(current)
    IN  /\ timer' = IF next = NoDevice \/ due[next] <= 0 THEN timer
                    ELSE [device |-> next, left |-> due[next]]
        /\ UNCHANGED <<due, pending, worker>>

ScheduleNext(current) ==
    LET next == NextToRun(current)
    IN  \/ /\ next = NoDevice
           /\ UNCHANGED <<due, pending, worker, timer>>
        \/ /\ next # NoDevice
           /\ due[next] > 0
           /\ timer' = [device |-> next, left |-> due[next]]
           /\ UNCHANGED <<due, pending, worker>>
        \/ /\ next # NoDevice
           /\ due[next] <= 0
           /\ due' = [due EXCEPT ![next] = 0]
           /\ NotifyWorker(next)
           /\ UNCHANGED timer

(* infer_driver_state, over the devices that are listed.                   *)
DriverStateOf(errors) ==
    LET All(code) == \A d \in Listed : errors[d] = code
    IN  IF All("INVALID") THEN "INIT"
        ELSE IF All("OK") THEN "NORMAL"
        ELSE IF All("TIMEOUT") \/ \E d \in Listed : errors[d] = "BROKEN"
        THEN "OPENED"
        ELSE "PARTIAL"

-----------------------------------------------------------------------------
(* adapter_provision.  A document that carries the epoch in force is       *)
(* ignored; any other replaces the adapter: reset_adapter frees its        *)
(* devices and destroys its driver, and the notify timer is cancelled.     *)

(* Mutant of the next: the device of an unread result is kept.             *)
ResetKeepsReady ==
    /\ err' = NeverQueried
    /\ driverState' = "INIT"
    /\ timer' = Unarmed
    /\ UNCHANGED ready

Reset ==
    /\ err' = NeverQueried
    /\ driverState' = "INIT"
    /\ ready' = NoDevice
    /\ timer' = Unarmed

(* distribute_device_query_time: one tick apart.                           *)
Spread(list) ==
    [d \in Devices |->
        IF d \in ToSet(list)
        THEN (CHOOSE i \in 1 .. Len(list) : list[i] = d) - 1 ELSE 0]

(* scan_device_array puts each device it reads at the head of the list;    *)
(* the first device it reads creates the driver.                           *)
Apply(doc, newEpoch) ==
    /\ Reset
    /\ epoch' = newEpoch
    /\ devices' = Reverse(doc.devices)
    /\ due' = Spread(Reverse(doc.devices))
    /\ driver' = IF doc.devices = <<>> THEN "none" ELSE "closed"
    /\ \/ /\ doc.devices = <<>>
          /\ pending' = NoDevice
          /\ UNCHANGED worker
       \/ /\ doc.devices # <<>>
          /\ NotifyWorker(Reverse(doc.devices)[1])

Withdraw ==
    /\ Reset
    /\ epoch' = 0
    /\ devices' = <<>>
    /\ due' = ZeroDue
    /\ driver' = "none"
    /\ pending' = NoDevice
    /\ UNCHANGED worker

(* save_local_provision, whose result is ignored: it may fail before it    *)
(* writes (the old document stays), or after the header, which then does   *)
(* not match the contents (nothing loads).                                 *)
SaveOutcomes(doc) == {{doc}, {}, saved}

(* A provisioning message of the hub.                                      *)
ReceiveProvision(doc) ==
    /\ InLoop
    /\ Len(pipe) < MaxBacklog
    /\ \E newEpoch \in EpochsRead(doc) :
        \/ /\ newEpoch = epoch
           /\ UNCHANGED <<worker, epoch, devices, due, err, driver,
                          driverState, pending, ready, timer, saved>>
        \/ /\ newEpoch # epoch
           /\ doc.valid
           /\ saved' \in SaveOutcomes(doc)
           /\ Apply(doc, newEpoch)
        \/ /\ newEpoch # epoch
           /\ ~doc.valid
           /\ Withdraw
           /\ UNCHANGED saved
    /\ UNCHANGED <<mainPc, running, pipe>>

(* adapter_init starts the worker, then provisions the adapter from        *)
(* mutable storage (apply_local_provision), if there is a document in it   *)
(* and it can be read.                                                     *)
ApplyLocalProvision ==
    /\ mainPc = "init" /\ ~Locked
    /\ mainPc' = "loop"
    /\ \/ UNCHANGED <<worker, epoch, devices, due, err, driver, driverState,
                      pending, ready, timer>>
       \/ \E doc \in saved : \E newEpoch \in EpochsRead(doc) :
           \/ /\ newEpoch = epoch
              /\ UNCHANGED <<worker, epoch, devices, due, err, driver,
                             driverState, pending, ready, timer>>
           \/ /\ newEpoch # epoch
              /\ Apply(doc, newEpoch)
    /\ UNCHANGED <<running, pipe, saved>>

-----------------------------------------------------------------------------
(* The event loop.                                                         *)

(* handle_device_result.  Only the main thread writes provision_epoch, so  *)
(* that the comparison before the lock is one step with what follows it.   *)

(* Mutant of the next: every result is taken for one of this provisioning. *)
StaleNever == FALSE

Stale == Head(pipe) # epoch

IgnoreResult ==
    /\ mainPc = "loop"
    /\ pipe # <<>>
    /\ Stale
    /\ pipe' = Tail(pipe)
    /\ UNCHANGED <<threads, provision, due, err, driver, driverState,
                   pending, ready, timer, saved>>

HandleResult ==
    /\ InLoop
    /\ pipe # <<>>
    /\ ~Stale
    /\ driverState' = IF ready = NoDevice THEN driverState
                      ELSE DriverStateOf(err)
    /\ ScheduleNext(ready)
    /\ ready' = NoDevice
    /\ pipe' = Tail(pipe)
    /\ UNCHANGED <<mainPc, running, provision, err, driver, saved>>

(* notify_worker_callback: the timer has expired.                          *)
NotifyTimer ==
    /\ InLoop
    /\ timer.device # NoDevice
    /\ timer.left = 0
    /\ NotifyWorker(timer.device)
    /\ timer' = Unarmed
    /\ UNCHANGED <<mainPc, running, provision, due, err, driver,
                   driverState, ready, pipe, saved>>

(* SIGTERM, or a reset that the hub asks for.                              *)
Stop ==
    /\ running
    /\ mainPc # "gone"
    /\ running' = FALSE
    /\ UNCHANGED <<mainPc, worker, provision, due, err, driver,
                   driverState, schedule, saved>>

(* The loop ends; adapter_deinit signals the condition, without the mutex, *)
(* and joins the worker.                                                   *)
Deinit ==
    /\ mainPc = "loop"
    /\ ~running
    /\ mainPc' = "joining"
    /\ worker' = IF worker = "waiting" THEN "woken" ELSE worker
    /\ UNCHANGED <<running, provision, due, err, driver, driverState,
                   schedule, saved>>

(* The process is gone, and the memory with it.                            *)
Vanish ==
    /\ mainPc' = "gone"
    /\ running' = FALSE
    /\ worker' = "done"
    /\ epoch' = 0
    /\ devices' = <<>>
    /\ due' = ZeroDue
    /\ err' = NeverQueried
    /\ driver' = "none"
    /\ driverState' = "INIT"
    /\ pending' = NoDevice
    /\ ready' = NoDevice
    /\ timer' = Unarmed
    /\ pipe' = <<>>
    /\ UNCHANGED saved

Exit == mainPc = "joining" /\ worker = "done" /\ Vanish

(* watchdog_handler ends a process whose event loop no longer kicks it.    *)

(* Mutant of the next: there is no watchdog.                               *)
WatchdogExitNever == FALSE /\ Vanish

WatchdogExit == mainPc = "joining" /\ worker # "done" /\ Vanish

(* A crash or a reboot.                                                    *)
Crash == mainPc # "gone" /\ Vanish

Restart ==
    /\ mainPc = "gone"
    /\ mainPc' = "init"
    /\ running' = TRUE
    /\ worker' = "head"
    /\ UNCHANGED <<provision, due, err, driver, driverState, schedule, saved>>

-----------------------------------------------------------------------------
(* device_worker_thread.                                                   *)
WorkerLoop ==
    /\ worker = "head"
    /\ worker' = IF running THEN "enter" ELSE "done"
    /\ UNCHANGED <<mainPc, running, provision, due, err, driver,
                   driverState, schedule, saved>>

(* The worker has the mutex: query the pending device, or wait; after a    *)
(* wait that gave none, go round the loop.                                 *)
WorkerLock ==
    /\ worker \in {"enter", "woken"}
    /\ \/ /\ pending = NoDevice
          /\ worker' = IF worker = "enter" THEN "waiting" ELSE "head"
          /\ UNCHANGED due
       \/ /\ pending # NoDevice
          /\ worker' = "querying"
          /\ due' = [due EXCEPT ![pending] = @ + Interval[pending]]
    /\ UNCHANGED <<mainPc, running, provision, err, driver, driverState,
                   schedule, saved>>

(* A condition variable may wake its waiter for no reason.                 *)
SpuriousWakeup ==
    /\ worker = "waiting"
    /\ worker' = "woken"
    /\ UNCHANGED <<mainPc, running, provision, due, err, driver,
                   driverState, schedule, saved>>

(* The query is over: the result is posted and the mutex released.         *)
PostResult ==
    /\ worker = "querying"
    /\ worker' = "head"
    /\ ready' = pending
    /\ pending' = NoDevice
    /\ pipe' = Append(pipe, epoch)
    /\ UNCHANGED <<mainPc, running, provision, due, driverState, timer, saved>>

(* query_device: the driver is opened while its state is DRIVER_STATE_INIT.*)
OpensDriver == driverState = "INIT"


(* Mutant of the next: the failure is recorded in the device.              *)
OpenFailsRecorded ==
    /\ OpensDriver
    /\ driver = "closed"
    /\ PostResult
    /\ err' = [err EXCEPT ![pending] = "TIMEOUT"]
    /\ UNCHANGED driver

OpenFails ==
    /\ OpensDriver
    /\ driver = "closed"
    /\ PostResult
    /\ UNCHANGED <<err, driver>>

GetPointList(code) ==
    /\ driver' = IF OpensDriver THEN "open" ELSE driver
    /\ driver' # "closed"
    /\ PostResult
    /\ err' = [err EXCEPT ![pending] = code]

-----------------------------------------------------------------------------
(* Time passes.  A schedule that has been missed by MaxLate is not told    *)
(* apart from one missed by more.                                          *)
Tick ==
    /\ mainPc = "loop"
    /\ devices # <<>>
    /\ due' = [d \in Devices |-> IF d \in Listed /\ due[d] > -MaxLate
                                 THEN due[d] - 1 ELSE due[d]]
    /\ timer' = [timer EXCEPT !.left = IF @ = 0 THEN 0 ELSE @ - 1]
    /\ UNCHANGED <<threads, provision, err, driver, driverState, pending,
                   ready, pipe, saved>>

MainStep ==
    \/ ApplyLocalProvision \/ IgnoreResult \/ HandleResult \/ NotifyTimer
    \/ Deinit \/ Exit

Environment ==
    \/ \E doc \in Docs : ReceiveProvision(doc)
    \/ Stop \/ WatchdogExit \/ Crash \/ Restart \/ Tick \/ SpuriousWakeup

WorkerStep ==
    \/ WorkerLoop \/ WorkerLock
    \/ OpenFails \/ \E code \in ErrCodes : GetPointList(code)

Next == MainStep \/ WorkerStep \/ Environment

Spec == Init /\ [][Next]_vars

-----------------------------------------------------------------------------
(* The types of the state.                                                 *)
TypeOK ==
    /\ mainPc \in {"init", "loop", "joining", "gone"}
    /\ running \in BOOLEAN
    /\ worker \in {"head", "enter", "waiting", "woken", "querying", "done"}
    /\ epoch \in Epochs
    /\ devices \in Seq(Devices)
    /\ due \in [Devices -> Int]
    /\ err \in [Devices -> ErrCodes \cup {"INVALID"}]
    /\ driver \in {"none", "closed", "open"}
    /\ driverState \in {"INIT", "OPENED", "PARTIAL", "NORMAL"}
    /\ pending \in Devices \cup {NoDevice}
    /\ ready \in Devices \cup {NoDevice}
    /\ timer \in [device : Devices \cup {NoDevice}, left : Nat]
    /\ pipe \in Seq(Epochs)
    /\ saved \subseteq Docs

(* A device that the worker, the result handler or the timer still holds   *)
(* is one of the present list: whatever order provisionings, results and   *)
(* timer events come in, reset_adapter leaves no pointer to what it freed. *)
NoDangling == {pending, ready, timer.device} \subseteq Listed \cup {NoDevice}

(* The schedule is a chain of notifications and results, each of which     *)
(* begets the next: while devices are listed, one is pending, the timer is *)
(* armed, or a result of this provisioning is still unread.                *)
ChainAlive ==
    devices # <<>> => \/ pending # NoDevice
                      \/ timer.device # NoDevice
                      \/ epoch \in ToSet(pipe)

(* The worker does not sleep on the condition while a device is pending    *)
(* for it, although it tests with if and not in a loop.                    *)
NoLostWakeup == worker = "waiting" => pending = NoDevice

(* Once the driver state says that the driver was opened, so it is: a      *)
(* query never skips the opening of a driver that was not.                 *)
OpenedBeforeUse == driverState # "INIT" => driver = "open"

(* What begets the next query: a pending device, an armed timer, or a      *)
(* result of this provisioning that is unread.                             *)
Unread == {i \in DOMAIN pipe : pipe[i] = epoch}

Tokens ==
    (IF pending # NoDevice THEN 1 ELSE 0)
    + (IF timer.device # NoDevice THEN 1 ELSE 0)
    + Cardinality(Unread)

(* A second chain, which would poll devices out of turn, begins only when  *)
(* a provisioning takes the epoch of a result that is still unread.        *)
OneChain ==
    [][Tokens' > Tokens =>
          \/ Tokens = 0 /\ Tokens' = 1
          \/ epoch' # epoch /\ epoch' \in ToSet(pipe)]_vars
=============================================================================
