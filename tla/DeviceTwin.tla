----------------------------- MODULE DeviceTwin -----------------------------
(***************************************************************************)
(* The device twin of the industrial device controller (diag_report_twins  *)
(* of iot/diag.c, adapter_provision of init/adapter.c): it is reported     *)
(* when it differs from what was last reported with success, and a         *)
(* provisioning removes its section of the hub's twin.                     *)
(*                                                                         *)
(* A twin carries the times of the last provisioning and connection, to    *)
(* the second; the names of the devices provisioned; and the rest, of      *)
(* which it matters only that it changes and may change back.  The two     *)
(* times are one count of the seconds in which there was either.  The      *)
(* journal and the telemetry share the client with the twin; the model may *)
(* refuse a report for them anyway.                                        *)
(***************************************************************************)
EXTENDS IotClient

CONSTANTS
    TwinNames,       \* the names of devices
    TwinSize,        \* the size of a report; that of a null is 1
    MaxStamps        \* seconds with a provisioning or a connection

ASSUME TwinAssumption == TwinSize \in Nat \ {0} /\ MaxStamps \in Nat

VARIABLES
    alive,       \* the process runs
    stamp,       \* last_provisioned, ts_last_online
    shared,      \* the stamp is that of an earlier one of the process, too
    status,      \* what else the twin says
    listed,      \* the names of the devices of the adapter
    reported,    \* reported_device_twin
    hub,         \* the twin that the hub has
    orphans      \* the names listed before a null that never got to the hub

twinVars == <<alive, stamp, shared, status, listed, reported, hub, orphans,
              clientVars>>

Twin(s, t, l) == [stamp |-> s, status |-> t, listed |-> l]

NoTwin == Twin(0, FALSE, {})
Current == Twin(stamp, status, listed)

(* The null of a provisioning, with the names that it is there to remove.  *)
NullStamp == -1
NullTwin == Twin(NullStamp, FALSE, listed)

IsNull(message) == message.body.stamp = NullStamp

(* What the hub does not remove when the unread messages get lost.         *)
Unremoved(places) ==
    UNION {inflight[i].body.listed :
              i \in {k \in places : IsNull(inflight[k]) /\ ~inflight[k].received}}

TwinInit ==
    /\ alive = TRUE
    /\ stamp = 0
    /\ shared = FALSE
    /\ status = FALSE
    /\ listed = {}
    /\ reported = NoTwin
    /\ hub = NoTwin
    /\ orphans = {}
    /\ NoClient

-----------------------------------------------------------------------------
(* diag_report_twins, once the adapter has a source id.                    *)
ReportTwin ==
    /\ alive
    /\ stamp > 0
    /\ Current # reported
    /\ Send(Message("twin", TwinSize, Current))
    /\ UNCHANGED <<alive, stamp, shared, status, listed, reported, hub, orphans>>

(* Results of devices and the interfaces come and go.                      *)
StatusChanges ==
    /\ alive
    /\ status' = ~status
    /\ UNCHANGED <<alive, stamp, shared, listed, reported, hub, orphans,
                   clientVars>>

(* The hub merges a report into the twin: names that it does not list stay *)
(* in the section; a null removes the section.                             *)
Merged(body) ==
    IF body.stamp = NullStamp THEN [hub EXCEPT !.listed = {}]
    ELSE [body EXCEPT !.listed = @ \cup hub.listed]

TwinHubReceives ==
    \E i \in DOMAIN inflight :
        /\ Receive(i)
        /\ hub' = Merged(inflight[i].body)
        /\ UNCHANGED <<alive, stamp, shared, status, listed, reported, orphans>>

(* device_twin_reported; the null has no callback.                         *)

(* Mutant of the next: the null is taken as reported, too.                 *)
TwinDeliveredNull ==
    /\ alive
    /\ \E i \in DOMAIN inflight :
        /\ inflight[i].received
        /\ Confirm(i)
        /\ reported' = inflight[i].body
    /\ UNCHANGED <<alive, stamp, shared, status, listed, hub, orphans>>

(* Mutant of the next: a report that failed is taken as reported, too.     *)
TwinDeliveredOrNot ==
    /\ alive
    /\ \E i \in DOMAIN inflight :
        /\ Confirm(i)
        /\ reported' = IF IsNull(inflight[i]) THEN reported
                       ELSE inflight[i].body
        /\ orphans' = orphans \cup Unremoved({i})
    /\ UNCHANGED <<alive, stamp, shared, status, listed, hub>>

TwinDelivered ==
    /\ alive
    /\ \E i \in DOMAIN inflight :
        /\ inflight[i].received
        /\ Confirm(i)
        /\ reported' = IF IsNull(inflight[i]) THEN reported
                       ELSE inflight[i].body
    /\ UNCHANGED <<alive, stamp, shared, status, listed, hub, orphans>>

(* Over a connection, the hub refuses only what it does not merge.         *)
TwinNotDelivered ==
    /\ alive
    /\ \E i \in DOMAIN inflight :
        /\ ~(IsConnected /\ inflight[i].received)
        /\ Confirm(i)
        /\ orphans' = orphans \cup Unremoved({i})
    /\ UNCHANGED <<alive, stamp, shared, status, listed, reported, hub>>

-----------------------------------------------------------------------------
(* The time is set to that of the clock, whether or not the document is    *)
(* the one in force; the twin has it in seconds (timespec2epoch).          *)
NewStamp ==
    /\ stamp < MaxStamps
    /\ stamp' \in {stamp, stamp + 1} \ {0}
    /\ shared' = (stamp' = stamp)

(* adapter_provision: the null is sent, if the client takes it; what it    *)
(* returns is dropped.                                                     *)
Provision ==
    /\ alive
    /\ NewStamp
    /\ listed' \in SUBSET TwinNames
    /\ \/ Send(Message("twin", 1, NullTwin)) /\ UNCHANGED orphans
       \/ UNCHANGED clientVars /\ orphans' = orphans \cup listed
    /\ UNCHANGED <<alive, status, reported, hub>>

(* connection_status_changed sets the time of the connection.              *)
TwinConnect ==
    /\ alive
    /\ Authenticated
    /\ NewStamp
    /\ UNCHANGED <<alive, status, listed, reported, hub, orphans>>

TwinDisconnect ==
    /\ alive
    /\ Disconnected
    /\ UNCHANGED <<alive, stamp, shared, status, listed, reported, hub, orphans>>

TwinSetup ==
    /\ alive
    /\ SetupClient \/ SetupFails
    /\ orphans' = orphans \cup Unremoved(DOMAIN inflight)
    /\ UNCHANGED <<alive, stamp, shared, status, listed, reported, hub>>

-----------------------------------------------------------------------------
(* The process ends, and what it reported is not known to the next one,    *)
(* which provisions itself from the document that was saved, if any,       *)
(* without a client that would take the null.                              *)
TwinEnd ==
    /\ alive
    /\ alive' = FALSE
    /\ reported' = NoTwin
    /\ orphans' = orphans \cup Unremoved(DOMAIN inflight)
    /\ DropClient
    /\ UNCHANGED <<stamp, shared, status, listed, hub>>

TwinStart ==
    /\ ~alive
    /\ alive' = TRUE
    /\ shared' = FALSE
    /\ listed' \in SUBSET TwinNames
    /\ orphans' = orphans \cup listed
    /\ UNCHANGED <<stamp, status, reported, hub, clientVars>>

TwinNext ==
    \/ ReportTwin \/ TwinHubReceives \/ TwinDelivered \/ TwinNotDelivered
    \/ StatusChanges \/ Provision \/ TwinConnect \/ TwinDisconnect
    \/ TwinSetup \/ TwinEnd \/ TwinStart

TwinSpec == TwinInit /\ [][TwinNext]_twinVars

-----------------------------------------------------------------------------
(* The types of the state.                                                 *)
TwinTypeOK ==
    /\ alive \in BOOLEAN
    /\ stamp \in 0 .. MaxStamps
    /\ shared \in BOOLEAN
    /\ status \in BOOLEAN
    /\ listed \subseteq TwinNames
    /\ {reported, hub} \subseteq [stamp : 0 .. MaxStamps, status : BOOLEAN,
                                  listed : SUBSET TwinNames]
    /\ orphans \subseteq TwinNames
    /\ ClientTypeOK

(* When the twin was last reported with success as it is, nothing of it is *)
(* in flight and the client is connected, the hub has this twin with every *)
(* device, and no other device but those of a former provisioning whose    *)
(* null was refused or lost: no lost answer, reconnection, restart or      *)
(* later null leaves the hub with another twin, which nothing would then   *)
(* correct.  A twin in which a second of the clock stands for two          *)
(* provisionings or connections is excepted: it may be the same before and *)
(* after the null.                                                         *)
TwinFaithful ==
    IsConnected /\ inflight = <<>> /\ stamp > 0 /\ reported = Current /\ ~shared
    => /\ hub.stamp = stamp /\ hub.status = status
       /\ listed \subseteq hub.listed
       /\ hub.listed \subseteq listed \cup orphans
=============================================================================
