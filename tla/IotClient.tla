----------------------------- MODULE IotClient ------------------------------
(***************************************************************************)
(* The client of the IoT hub in the industrial device controller           *)
(* (iot/azure_iot_utilities.c, iot/iot.c): one client at a time, set up    *)
(* again while it is not connected, and a quota on the size of what it has *)
(* in flight.                                                              *)
(*                                                                         *)
(* The library (external) sends messages in order and calls back, in the   *)
(* order of each kind, with or without success; a message that failed may  *)
(* have reached the hub.  Destroying a client calls back the telemetry it  *)
(* still has with a failure, and is not sure to call back its twin         *)
(* reports.  Whether the network is up is left out: what it forbids, and   *)
(* what the library refuses, a step of the model may always omit.          *)
(***************************************************************************)
EXTENDS Integers, Sequences, SequencesExt

CONSTANTS Quota     \* inflight_message_quota, 0 for none

ASSUME QuotaAssumption == Quota \in Nat

VARIABLES
    client,      \* iothub_client_handle and iothub_authenticated
    inflight,    \* the messages whose callback has not come, oldest first
    used         \* inflight_message_size

clientVars == <<client, inflight, used>>

(* A message: its kind, its size, what it says, and whether the hub has it.*)
Message(kind, size, body) ==
    [kind |-> kind, size |-> size, body |-> body, received |-> FALSE]

Kinds == {"events", "twin"}

(* The size of the messages of these kinds.                                *)
Counted(message, kinds) == IF message.kind \in kinds THEN message.size ELSE 0

SizeOf(messages, kinds) ==
    LET total[n \in 0 .. Len(messages)] ==
            IF n = 0 THEN 0 ELSE total[n - 1] + Counted(messages[n], kinds)
    IN  total[Len(messages)]

(* A process starts without a client.                                      *)
NoClient == client = "none" /\ inflight = <<>> /\ used = 0

DropClient == client' = "none" /\ inflight' = <<>> /\ used' = 0

IsConnected == client = "up"

-----------------------------------------------------------------------------
(* azure_iot_send_message_async, azure_iot_twin_report_async.              *)
WithinQuota(size) == Quota = 0 \/ used + size <= Quota

CanSend(size) == IsConnected /\ WithinQuota(size)

Send(message) ==
    /\ CanSend(message.size)
    /\ inflight' = Append(inflight, message)
    /\ used' = used + message.size
    /\ UNCHANGED client

(* The hub has the next message; client and hub meet only over a           *)
(* connection.                                                             *)
NextToReceive == {i \in DOMAIN inflight :
    /\ ~inflight[i].received
    /\ \A j \in 1 .. i - 1 : inflight[j].received}

Receive(i) ==
    /\ IsConnected
    /\ i \in NextToReceive
    /\ inflight' = [inflight EXCEPT ![i].received = TRUE]
    /\ UNCHANGED <<client, used>>

(* send_message_callback, send_reported_state_callback.                    *)
NextToConfirm == {i \in DOMAIN inflight :
    \A j \in 1 .. i - 1 : inflight[j].kind # inflight[i].kind}

Confirm(i) ==
    /\ i \in NextToConfirm
    /\ inflight' = RemoveAt(inflight, i)
    /\ used' = used - inflight[i].size
    /\ UNCHANGED client

-----------------------------------------------------------------------------
(* iot_setup_task, azure_iot_setup_client: the old client is destroyed;    *)
(* the new one is created with nothing in flight, or it is not.            *)

(* Mutant of the next: the count of the old client is kept.                *)
SetupClientUncounted ==
    /\ ~IsConnected
    /\ client' = "connecting"
    /\ inflight' = <<>>
    /\ used' = SizeOf(inflight, {"twin"})

SetupClient ==
    /\ ~IsConnected
    /\ client' = "connecting"
    /\ inflight' = <<>>
    /\ used' = 0

(* The uncalled twin reports stay in the count until a client is created.  *)
SetupFails ==
    /\ ~IsConnected
    /\ client' = "none"
    /\ inflight' = <<>>
    /\ \E called \in {Kinds, Kinds \ {"twin"}} :
           used' = used - SizeOf(inflight, called)

(* connection_status_callback.                                             *)
Authenticated ==
    /\ client \in {"connecting", "down"}
    /\ client' = "up"
    /\ UNCHANGED <<inflight, used>>

Disconnected ==
    /\ client = "up"
    /\ client' = "down"
    /\ UNCHANGED <<inflight, used>>

-----------------------------------------------------------------------------
(* The types of the state.                                                 *)
ClientTypeOK ==
    /\ client \in {"none", "connecting", "up", "down"}
    /\ \A i \in DOMAIN inflight : inflight[i].size \in Nat \ {0}
    /\ used \in Nat

(* The quota is neither exceeded nor lost: while there is a client, what   *)
(* counts is what it has in flight, whatever failed and was set up again   *)
(* before.  The count is unsigned, so that one subtraction too many would  *)
(* refuse every message from then on.                                      *)
QuotaKept ==
    client # "none" => /\ used = SizeOf(inflight, Kinds)
                       /\ Quota = 0 \/ used <= Quota
=============================================================================
