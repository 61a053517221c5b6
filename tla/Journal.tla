------------------------------ MODULE Journal -------------------------------
(***************************************************************************)
(* The journal of the industrial device controller (iot/diag.c): events    *)
(* are logged in memory, reported to the IoT hub, removed when the hub has *)
(* them, and saved to a file over a restart.                               *)
(*                                                                         *)
(* An event of the journal stands for its occurrences, which are numbered  *)
(* in the order of the clock: the number of the last one is its time       *)
(* stamp, their number its count of repetitions.  Before the clock is set  *)
(* from the network, its times are before all others.  The telemetry, the  *)
(* device twin and the log share the client with the journal; what they    *)
(* leave of the quota may refuse a report, which the model may do anyway.  *)
(*                                                                         *)
(* The watchdog's signal handler logs too, and takes the lock that only    *)
(* the logging takes: it may come inside a report and inside the removal   *)
(* of what was reported.  These two functions have an action each for a    *)
(* handler inside, beside the one where they are left alone.               *)
(***************************************************************************)
EXTENDS IotClient

CONSTANTS
    Codes,           \* the codes of the events of the network and the adapter
    MaxEvents,       \* MAX_EVENT_IN_MEMORY
    FileCapacity,    \* the events that a file of EVENT_FILE_SIZE may have
    MaxLogs          \* occurrences in a behaviour

ASSUME JournalAssumption ==
    MaxEvents \in Nat /\ FileCapacity \in Nat /\ MaxLogs \in Nat

SaveCodes == {"RECOVER_REBOOT", "OTA", "SIGTERM", "WATCHDOG"}

AllCodes == Codes \cup SaveCodes \cup
    {"CONNECTED", "DISCONNECTED", "SETUP_FAILED", "RESTART", "SYSTEM_REBOOT",
     "WATCHDOG_WARNING"}

VARIABLES
    phase,       \* the process: off, up, or leaving after SIGTERM
    events,      \* events, num_events
    file,        \* hdr.size, in events, and the events after the header
    synced,      \* the clock has been set
    logged,      \* how many occurrences there have been
    told,        \* the events the hub has, by their occurrences
    persisted,   \* the occurrences saved since the start
    marred       \* those that a write which failed, or the handler inside
                 \* a report or a removal, may lose or repeat

histories == <<told, persisted, marred>>

journalVars == <<phase, events, file, synced, logged, histories, clientVars>>

Event == [code : AllCodes, flipped : BOOLEAN, synced : BOOLEAN,
          occurrences : SUBSET (1 .. MaxLogs)]

Occurrences(list) == UNION {list[i].occurrences : i \in DOMAIN list}

(* The events that the file has: the header may count more than follow.    *)
Saved == IF file.count <= Len(file.contents)
         THEN SubSeq(file.contents, 1, file.count) ELSE <<>>

(* The time stamp of an event.                                             *)
At(event) ==
    LET last == CHOOSE n \in event.occurrences :
                    \A other \in event.occurrences : other <= n
    IN  IF event.synced THEN MaxLogs + last ELSE last

JournalInit ==
    /\ phase = "off"
    /\ events = <<>>
    /\ file = [count |-> 0, contents |-> <<>>]
    /\ synced = FALSE
    /\ logged = 0
    /\ told = {}
    /\ persisted = {}
    /\ marred = {}
    /\ NoClient

-----------------------------------------------------------------------------
(* log_event_internal: a repetition of the last event is counted in it,    *)
(* unless it has been reported; an event beyond the capacity is ignored.   *)

(* Mutant of the next: whether the event was reported does not matter.     *)
RepeatsReported(list, code) == list # <<>> /\ Last(list).code = code

Repeats(list, code) ==
    list # <<>> /\ Last(list).code = code /\ ~Last(list).flipped

Repeated(event, n) ==
    [event EXCEPT !.occurrences = @ \cup {n}, !.synced = synced']

(* Mutant of the next: one event more than there is room for.              *)
LoggedBeyond(list, code, n) ==
    IF Repeats(list, code)
    THEN [list EXCEPT ![Len(list)] = Repeated(@, n)]
    ELSE IF Len(list) <= MaxEvents
    THEN Append(list, [code |-> code, flipped |-> FALSE, synced |-> synced',
                       occurrences |-> {n}])
    ELSE list

Logged(list, code, n) ==
    IF Repeats(list, code)
    THEN [list EXCEPT ![Len(list)] = Repeated(@, n)]
    ELSE IF Len(list) < MaxEvents
    THEN Append(list, [code |-> code, flipped |-> FALSE, synced |-> synced',
                       occurrences |-> {n}])
    ELSE list

Log(code) ==
    /\ logged < MaxLogs
    /\ logged' = logged + 1
    /\ UNCHANGED synced
    /\ events' = Logged(events, code, logged')

(* diag_log_event: of the network and the adapter, and of watchdog_handler, *)
(* which warns before it gives up.                                         *)
LogEvent ==
    /\ phase # "off"
    /\ \E code \in Codes \cup {"WATCHDOG_WARNING"} : Log(code)
    /\ UNCHANGED <<phase, file, histories, clientVars>>

(* save_events_to_file: the first n events are written over what is there. *)
Written(list, n) ==
    SubSeq(list, 1, n) \o SubSeq(file.contents, n + 1, Len(file.contents))

Saves(list) ==
    /\ file' = [count |-> Len(list), contents |-> Written(list, Len(list))]
    /\ persisted' = persisted \cup Occurrences(list)

(* The results of the two writes are dropped.  A header that is not        *)
(* written leaves the old one, or has the events written in its place,     *)
(* where nothing is found; the events that are not written leave those of  *)
(* before behind the new header.  Where the process or the power ends      *)
(* between the writes, either may have reached the file.                   *)
SavesInPart(list, ends) ==
    /\ \/ \E n \in 0 .. Len(list) - 1 :
              file' = [count |-> Len(list), contents |-> Written(list, n)]
       \/ \E n \in 0 .. IF ends THEN Len(list) ELSE 0 :
              file' = [file EXCEPT !.contents = Written(list, n)]
       \/ file' = [count |-> 0, contents |-> <<>>]
    /\ marred' = marred \cup Occurrences(list) \cup Occurrences(file.contents)
    /\ UNCHANGED persisted

(* diag_log_event_to_file: the memory is emptied, however the writes went, *)
(* unless the file cannot be opened.  A process that ends here takes its   *)
(* memory with it.                                                         *)
LogToFile(code, list, ends) ==
    /\ logged < MaxLogs
    /\ logged' = logged + 1
    /\ UNCHANGED synced
    /\ LET all == Logged(list, code, logged')
       IN  \/ /\ (Saves(all) /\ UNCHANGED marred) \/ SavesInPart(all, ends)
              /\ events' = <<>>
           \/ /\ events' = IF ends THEN <<>> ELSE all
              /\ UNCHANGED <<file, persisted, marred>>

ClockSync ==
    /\ phase = "up"
    /\ ~synced
    /\ synced' = TRUE
    /\ UNCHANGED <<phase, events, file, logged, histories, clientVars>>

-----------------------------------------------------------------------------
(* diag_report_events.  Events from before the clock was set are skipped   *)
(* in the message; the time stamp copied beside it says up to where the    *)
(* events are removed when it is delivered.                                *)

Report(last) ==
    [entries |-> {events[i].occurrences : i \in
                     {k \in DOMAIN events : events[k].synced}},
     upto |-> At(last)]

LastFlipped(list) == [list EXCEPT ![Len(list)].flipped = TRUE]

ReportEvents ==
    /\ phase = "up"
    /\ events # <<>>
    /\ Send(Message("events", Len(events), Report(Last(events))))
    /\ events' = LastFlipped(events)
    /\ UNCHANGED <<phase, file, synced, logged, histories>>

(* The handler warns after the message was built: before the time stamp of *)
(* the last event is copied, which is then that of the warning, or before  *)
(* the last event is flipped.  A warning that is stamped and not in the    *)
(* message is removed with it; one that is counted in an event of the      *)
(* message makes it another event.                                         *)
ReportInterrupted ==
    /\ phase = "up"
    /\ events # <<>>
    /\ logged < MaxLogs
    /\ logged' = logged + 1
    /\ UNCHANGED synced
    /\ LET list == Logged(events, "WATCHDOG_WARNING", logged')
       IN  /\ list # events
           /\ \/ /\ Send(Message("events", Len(events), Report(Last(list))))
                 /\ marred' = marred \cup Last(list).occurrences
              \/ /\ Send(Message("events", Len(events), Report(Last(events))))
                 /\ marred' = IF Len(list) > Len(events) THEN marred
                              ELSE marred \cup Last(list).occurrences
           /\ events' = LastFlipped(list)
    /\ UNCHANGED <<phase, file, told, persisted>>

HubReceives ==
    \E i \in DOMAIN inflight :
        /\ Receive(i)
        /\ told' = told \cup inflight[i].body.entries
        /\ UNCHANGED <<phase, events, file, synced, logged, persisted, marred>>

(* remove_events_upto: the first events that are not later.                *)

(* Mutant of the next: the time stamp is read when the answer comes.       *)
RemoveReported(upto) == <<>>

RemoveUpto(upto) ==
    LET later == {i \in DOMAIN events : At(events[i]) > upto}
        n == CHOOSE k \in 0 .. Len(events) :
                 /\ \A i \in 1 .. k : i \notin later
                 /\ k < Len(events) => k + 1 \in later
    IN  SubSeq(events, n + 1, Len(events))

(* event_message_delivered.                                                *)
Delivered ==
    /\ phase = "up"
    /\ \E i \in DOMAIN inflight :
        /\ inflight[i].received
        /\ Confirm(i)
        /\ events' = RemoveUpto(inflight[i].body.upto)
    /\ UNCHANGED <<phase, file, synced, logged, histories>>

(* The handler warns while memmove runs: the warning is lost, and if it    *)
(* took a place of its own the event that stays behind the moved ones      *)
(* stands for it.                                                          *)
RemovalInterrupted ==
    /\ phase = "up"
    /\ logged < MaxLogs
    /\ logged' = logged + 1
    /\ \E i \in DOMAIN inflight :
        LET kept == RemoveUpto(inflight[i].body.upto)
            behind == events[Len(kept) + 1]
        IN  /\ inflight[i].received
            /\ Confirm(i)
            /\ Len(kept) < Len(events)
            /\ \/ /\ events' = kept
                  /\ marred' = marred \cup {logged'}
               \/ /\ Len(events) < MaxEvents
                  /\ ~Repeats(events, "WATCHDOG_WARNING")
                  /\ events' = Append(kept, behind)
                  /\ marred' = marred \cup {logged'} \cup behind.occurrences
    /\ UNCHANGED <<phase, file, synced, told, persisted>>

NotDelivered ==
    /\ phase = "up"
    /\ \E i \in DOMAIN inflight : Confirm(i)
    /\ UNCHANGED <<phase, events, file, synced, logged, histories>>

-----------------------------------------------------------------------------
(* connection_status_changed, and iot_setup_task with its failure; the     *)
(* reasons of a disconnection and of a failure are one code each.          *)
Connect ==
    /\ phase = "up"
    /\ Authenticated
    /\ Log("CONNECTED")
    /\ UNCHANGED <<phase, file, histories>>

Disconnect ==
    /\ phase = "up"
    /\ Disconnected
    /\ Log("DISCONNECTED")
    /\ UNCHANGED <<phase, file, histories>>

Setup ==
    /\ phase = "up"
    /\ \/ SetupClient /\ UNCHANGED <<events, synced, logged>>
       \/ SetupFails /\ Log("SETUP_FAILED")
    /\ UNCHANGED <<phase, file, histories>>

-----------------------------------------------------------------------------
(* diag_init: load_event_from_file, which may fail to read the file, and   *)
(* clear_event_file, the result of whose write is dropped: the events stay *)
(* behind the new header, or behind the old one.  Since the last start the *)
(* clock may have been set, or lost by a boot.                             *)
Loadable == IF file.count <= FileCapacity THEN Saved ELSE <<>>

Cleared ==
    \/ file' = [file EXCEPT !.count = 0] /\ UNCHANGED marred
    \/ UNCHANGED file /\ marred' = marred \cup Occurrences(Loadable)

Start ==
    /\ phase = "off"
    /\ phase' = "up"
    /\ \E booted \in BOOLEAN, loaded \in {Loadable, <<>>} :
        LET n == IF booted THEN 2 ELSE 1
            first == IF booted THEN Logged(loaded, "SYSTEM_REBOOT", logged + 1)
                     ELSE loaded
        IN  /\ logged + n <= MaxLogs
            /\ logged' = logged + n
            /\ synced' \in BOOLEAN
            /\ events' = Logged(first, "RESTART", logged + n)
            /\ IF loaded = <<>> THEN UNCHANGED <<file, marred>> ELSE Cleared
    /\ persisted' = {}
    /\ UNCHANGED <<told, clientVars>>

(* detect_offline_recover_reboot, ota_system_reboot: the system is told to *)
(* reboot, and the process runs until it does.                             *)
Reboot ==
    /\ phase = "up"
    /\ \E code \in {"RECOVER_REBOOT", "OTA"} : LogToFile(code, events, FALSE)
    /\ UNCHANGED <<phase, told, clientVars>>

(* SIGTERM ends the loop.                                                  *)
Terminate ==
    /\ phase = "up"
    /\ phase' = "leaving"
    /\ LogToFile("SIGTERM", events, FALSE)
    /\ UNCHANGED <<told, clientVars>>

(* watchdog_handler gives up: the loop, or the end of the process, hangs.  *)
(* What the process has in memory goes with it.                            *)
Watchdog ==
    /\ phase # "off"
    /\ phase' = "off"
    /\ LogToFile("WATCHDOG", events, TRUE)
    /\ DropClient
    /\ UNCHANGED told

(* It gives up inside a removal, with some events moved and the others     *)
(* where they were.                                                        *)
WatchdogInRemoval ==
    /\ phase = "up"
    /\ phase' = "off"
    /\ logged < MaxLogs
    /\ logged' = logged + 1
    /\ UNCHANGED synced
    /\ \E i \in DOMAIN inflight :
        LET n == Len(events) - Len(RemoveUpto(inflight[i].body.upto))
        IN  /\ inflight[i].received
            /\ i \in NextToConfirm
            /\ n > 0
            /\ \E moved \in 1 .. Len(events) - n :
                  LET half == [j \in DOMAIN events |->
                                  events[IF j <= moved THEN j + n ELSE j]]
                      all == Logged(half, "WATCHDOG", logged')
                  IN  \/ Saves(all) /\ marred' = marred \cup Occurrences(half)
                      \/ SavesInPart(all, TRUE)
    /\ events' = <<>>
    /\ DropClient
    /\ UNCHANGED told

(* The power fails inside the write of a file, or anywhere else; or the    *)
(* process ends, or the hub resets it.                                     *)
PowerFailsInSave ==
    /\ phase # "off"
    /\ phase' = "off"
    /\ logged < MaxLogs
    /\ logged' = logged + 1
    /\ UNCHANGED synced
    /\ \E code \in SaveCodes : SavesInPart(Logged(events, code, logged'), TRUE)
    /\ events' = <<>>
    /\ DropClient
    /\ UNCHANGED told

End ==
    /\ phase # "off"
    /\ phase' = "off"
    /\ events' = <<>>
    /\ DropClient
    /\ UNCHANGED <<file, synced, logged, histories>>

-----------------------------------------------------------------------------
JournalNext ==
    \/ LogEvent \/ ClockSync \/ ReportEvents \/ ReportInterrupted \/ HubReceives
    \/ Delivered \/ RemovalInterrupted \/ NotDelivered
    \/ Connect \/ Disconnect \/ Setup
    \/ Start \/ Reboot \/ Terminate \/ Watchdog \/ WatchdogInRemoval
    \/ PowerFailsInSave \/ End

JournalSpec == JournalInit /\ [][JournalNext]_journalVars

-----------------------------------------------------------------------------
(* The types of the state.                                                 *)
JournalTypeOK ==
    /\ phase \in {"off", "up", "leaving"}
    /\ events \in Seq(Event)
    /\ Len(events) <= MaxEvents
    /\ file.count \in Nat
    /\ file.contents \in Seq(Event)
    /\ synced \in BOOLEAN
    /\ logged \in 0 .. MaxLogs
    /\ told \subseteq SUBSET (1 .. MaxLogs)
    /\ persisted \subseteq 1 .. MaxLogs
    /\ marred \subseteq 1 .. MaxLogs
    /\ ClientTypeOK

(* An occurrence leaves the journal of a running process only for the hub  *)
(* or the file: neither an answer that comes after newer events were       *)
(* logged, nor two reports in flight, nor an answer to the client before,  *)
(* makes it forget one.  It forgets those of events from before the clock  *)
(* was set, once a later report is delivered, and those that are marred:   *)
(* in memory when a write of the file failed, whose result is dropped, or  *)
(* of a warning that came inside a report or a removal.                    *)
LeavesDeliveredOrSaved ==
    [][phase # "off" /\ phase' # "off" =>
          \A i \in DOMAIN events : events[i].synced =>
              events[i].occurrences \subseteq
                  Occurrences(events') \cup Occurrences(Saved')
                      \cup (UNION told') \cup marred'
      ]_journalVars

(* The hub never counts an occurrence in two events: what has been         *)
(* reported is reported again as it was, over failures, later repetitions  *)
(* and restarts.  Only a marred one may be counted twice: it comes back    *)
(* from behind a header whose events were not written, or from a file that *)
(* was not cleared, or it grew between its message and its flip.           *)
ReportsAgree ==
    \A one, other \in told : one = other \/ one \cap other \subseteq marred

(* diag_log_event_to_file saves the events in memory "to avoid lost of     *)
(* event", and "the event persisted will be loaded into memory next time   *)
(* app start": until it is loaded it stays in the file.                    *)
PersistedIsLoaded ==
    phase = "off" \/ phase = "leaving" =>
        persisted \subseteq Occurrences(Saved) \cup (UNION told) \cup marred
=============================================================================
