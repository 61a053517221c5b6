-------------------------- MODULE DeviceTwinProofs --------------------------
(***************************************************************************)
(* Proofs about DeviceTwin, for any quota, sizes and number of             *)
(* provisionings and connections: a twin that was reported with success as *)
(* it is, is the twin that the hub has; and the quota is kept.             *)
(*                                                                         *)
(* Whatever was sent before the present stamp carries an older one, unless *)
(* the two share it, and so does what was reported.  From the first report *)
(* with the present stamp on, all that is in flight has it, and the hub    *)
(* shows the last of those it received: one still in flight, or the one    *)
(* that was last confirmed.  Every other name that the hub has, or is      *)
(* about to merge, is one that an unread null removes or an orphan.        *)
(* What the proofs need of the client is proved in JournalProofs.          *)
(***************************************************************************)
EXTENDS DeviceTwin, JournalProofs

Bodies == [stamp : Int, status : BOOLEAN, listed : SUBSET TwinNames]

Messages ==
    [kind : {"twin"}, size : {1, TwinSize}, body : Bodies, received : BOOLEAN]

InFlight == 1 .. Len(inflight)

(* The hub received this report last.                                      *)
Shows(body) ==
    /\ hub.stamp = body.stamp /\ hub.status = body.status
    /\ body.listed \subseteq hub.listed

TwinTyped ==
    /\ stamp \in Nat
    /\ status \in BOOLEAN
    /\ listed \subseteq TwinNames
    /\ reported \in Bodies
    /\ inflight \in Seq(Messages)

Stopped == ~alive => inflight = <<>> /\ ~IsConnected

(* The hub receives in order, and no stamp is ahead of the present one.    *)
InOrder ==
    /\ \A i, j \in InFlight :
           i < j /\ inflight[j].received => inflight[i].received
    /\ \A i \in InFlight : inflight[i].body.stamp <= stamp
    /\ reported.stamp <= stamp
    /\ ~shared => \A i, j \in InFlight :
           i < j /\ inflight[i].body.stamp = stamp
           => inflight[j].body.stamp = stamp

AsReported ==
    IsConnected /\ ~shared /\ stamp > 0 /\ reported.stamp = stamp =>
        /\ \A i \in InFlight : inflight[i].body.stamp = stamp
        /\ (\A i \in InFlight : ~inflight[i].received) => Shows(reported)

AsReceived ==
    IsConnected /\ ~shared =>
        \A i \in InFlight :
            /\ inflight[i].received
            /\ inflight[i].body.stamp = stamp
            /\ \A j \in InFlight : i < j => ~inflight[j].received
            => Shows(inflight[i].body)

TwinInv == TwinTyped /\ Stopped /\ InOrder /\ AsReported /\ AsReceived

-----------------------------------------------------------------------------
(* The messages in flight.                                                 *)

(* A message that is sent joins the others as the last                     *)
(* (azure_iot_twin_report_async).                                          *)
LEMMA SendLast ==
  ASSUME TwinTyped, NEW size \in {1, TwinSize}, NEW body \in Bodies,
         Send(Message("twin", size, body))
  PROVE  /\ inflight' \in Seq(Messages) /\ client' = client
         /\ Len(inflight') = Len(inflight) + 1 /\ Len(inflight) \in Nat
         /\ \A i \in InFlight : inflight'[i] = inflight[i]
         /\ inflight'[Len(inflight) + 1].body = body
         /\ ~inflight'[Len(inflight) + 1].received
  <1> DEFINE message == Message("twin", size, body)
  <1>1. message \in Messages /\ message.body = body /\ ~message.received
    BY DEF Message, Messages
  <1>2. inflight \in Seq(Messages) /\ inflight' = Append(inflight, message)
        /\ client' = client
    BY DEF TwinTyped, Send
  <1> HIDE DEF message
  <1> QED BY <1>1, <1>2 DEF InFlight

(* Messages of one kind are confirmed in order: the first one goes         *)
(* (send_reported_state_callback).                                         *)
LEMMA ConfirmFirst ==
  ASSUME TwinTyped, NEW i \in DOMAIN inflight, Confirm(i)
  PROVE  /\ i = 1 /\ 1 \in InFlight /\ inflight' \in Seq(Messages)
         /\ client' = client /\ Len(inflight) \in Nat
         /\ Len(inflight') = Len(inflight) - 1
         /\ \A j \in 1 .. Len(inflight) - 1 : inflight'[j] = inflight[j + 1]
  <1>1. inflight \in Seq(Messages) /\ DOMAIN inflight = InFlight
        /\ Len(inflight) \in Nat
    BY DEF TwinTyped, InFlight
  <1>2. \A j \in InFlight : inflight[j].kind = "twin"
    <2>1. \A j \in InFlight : inflight[j] \in Messages
      BY <1>1 DEF InFlight
    <2> QED BY <2>1 DEF Messages
  <1>3. i = 1
    BY <1>1, <1>2 DEF Confirm, NextToConfirm, InFlight
  <1>4. inflight' = SubSeq(inflight, 1, 0) \o SubSeq(inflight, 2, Len(inflight))
        /\ client' = client
    BY <1>3 DEF Confirm, RemoveAt
  <1>5. SubSeq(inflight, 1, 0) = <<>>
    BY <1>1
  <1>6. inflight' = SubSeq(inflight, 2, Len(inflight))
    BY <1>1, <1>4, <1>5
  <1> QED BY <1>1, <1>3, <1>4, <1>6 DEF InFlight

(* The hub receives the first message that it does not have (external).    *)
LEMMA ReceiveNext ==
  ASSUME TwinTyped, NEW i \in DOMAIN inflight, Receive(i)
  PROVE  /\ i \in InFlight /\ inflight' \in Seq(Messages)
         /\ client' = client /\ Len(inflight') = Len(inflight)
         /\ ~inflight[i].received /\ inflight'[i].received
         /\ \A j \in InFlight : j < i => inflight[j].received
         /\ \A j \in InFlight : inflight'[j].body = inflight[j].body
         /\ \A j \in InFlight :
                j # i => inflight'[j].received = inflight[j].received
  <1>1. inflight \in Seq(Messages) /\ DOMAIN inflight = InFlight
        /\ Len(inflight) \in Nat
    BY DEF TwinTyped, InFlight
  <1>2. /\ client' = client /\ ~inflight[i].received
        /\ \A j \in 1 .. i - 1 : inflight[j].received
        /\ inflight' = [inflight EXCEPT ![i].received = TRUE]
    BY DEF Receive, NextToReceive
  <1>3. \A m \in Messages : [m EXCEPT !.received = TRUE] \in Messages
    BY DEF Messages
  <1>4. inflight' \in Seq(Messages) /\ Len(inflight') = Len(inflight)
    <2>1. inflight[i] \in Messages
      BY <1>1 DEF InFlight
    <2>2. [inflight[i] EXCEPT !.received = TRUE] \in Messages
      BY <1>3, <2>1
    <2> QED BY <1>1, <1>2, <2>2
  <1>5. \A j \in InFlight :
            inflight'[j] = IF j = i THEN [inflight[j] EXCEPT !.received = TRUE]
                           ELSE inflight[j]
    BY <1>1, <1>2 DEF InFlight
  <1>6. \A j \in InFlight : inflight[j] \in Messages
    BY <1>1 DEF InFlight
  <1> QED BY <1>1, <1>2, <1>4, <1>5, <1>6 DEF InFlight, Messages

-----------------------------------------------------------------------------
(* The steps.                                                              *)

(* A step that begins a new stamp, with no message but the null added      *)
(* (adapter_provision, connection_status_changed).                         *)
LEMMA NewerStamp ==
  ASSUME TwinInv, NewStamp, UNCHANGED <<status, reported>>, alive',
         listed' \subseteq TwinNames, inflight' \in Seq(Messages),
         \A i, j \in InFlight' :
             i < j /\ inflight'[j].received => inflight'[i].received,
         \A i \in InFlight' : inflight'[i].body.stamp <= stamp
  PROVE  TwinInv'
  <1>1. \/ stamp' = stamp /\ shared'
        \/ stamp' = stamp + 1 /\ ~shared'
    BY DEF NewStamp, TwinInv, TwinTyped
  <1>2. TwinTyped' /\ Stopped'
    BY <1>1 DEF TwinInv, TwinTyped, Stopped
  <1>3. \A i \in InFlight' : inflight'[i].body.stamp \in Int
    <2>1. \A i \in InFlight' : inflight'[i] \in Messages
      BY DEF InFlight
    <2> QED BY <2>1 DEF Messages, Bodies
  <1>4. \A i \in InFlight' :
            /\ inflight'[i].body.stamp <= stamp'
            /\ ~shared' => inflight'[i].body.stamp # stamp'
    BY <1>1, <1>3 DEF TwinInv, TwinTyped
  <1>5. /\ reported'.stamp <= stamp'
        /\ ~shared' => reported'.stamp # stamp'
    BY <1>1 DEF TwinInv, TwinTyped, InOrder, Bodies
  <1>6. InOrder'
    BY <1>4, <1>5 DEF InOrder
  <1>7. AsReported' /\ AsReceived'
    BY <1>4, <1>5 DEF AsReported, AsReceived
  <1> QED BY <1>2, <1>6, <1>7 DEF TwinInv

(* Nothing in flight, and no connection.                                   *)
LEMMA NothingInFlight ==
  ASSUME TwinInv, UNCHANGED <<stamp, status>>, reported' \in Bodies,
         listed' \subseteq TwinNames, reported'.stamp <= stamp,
         inflight' = <<>>, ~IsConnected'
  PROVE  TwinInv'
  <1>1. InFlight' = {}
    BY DEF InFlight
  <1>2. TwinTyped' /\ InOrder' /\ Stopped'
    BY <1>1 DEF TwinInv, TwinTyped, InOrder, Stopped
  <1> QED BY <1>2 DEF TwinInv, AsReported, AsReceived

(* A report of the present twin (diag_report_twins).                       *)
LEMMA StepReportTwin == TwinInv /\ ReportTwin => TwinInv'
  <1> SUFFICES ASSUME TwinInv, ReportTwin PROVE TwinInv'
    OBVIOUS
  <1>1. TwinTyped /\ InOrder /\ AsReported /\ AsReceived
    BY DEF TwinInv
  <1>2. Current \in Bodies /\ Current.stamp = stamp
    BY <1>1 DEF Current, Twin, Bodies, TwinTyped
  <1>3. /\ inflight' \in Seq(Messages) /\ client' = client
        /\ Len(inflight') = Len(inflight) + 1 /\ Len(inflight) \in Nat
        /\ \A i \in InFlight : inflight'[i] = inflight[i]
        /\ inflight'[Len(inflight) + 1].body = Current
        /\ ~inflight'[Len(inflight) + 1].received
    <2>1. Send(Message("twin", TwinSize, Current))
      BY DEF ReportTwin
    <2> QED BY <1>1, <1>2, <2>1, SendLast
  <1>4. alive' /\ UNCHANGED <<stamp, shared, status, listed, reported, hub>>
    BY DEF ReportTwin
  <1>5. TwinTyped' /\ Stopped'
    BY <1>1, <1>3, <1>4 DEF TwinTyped, Stopped
  <1>6. InOrder'
    BY <1>1, <1>2, <1>3, <1>4 DEF InOrder, TwinTyped, InFlight
  <1>7. AsReported'
    BY <1>1, <1>2, <1>3, <1>4 DEF AsReported, IsConnected, InFlight, Shows
  <1>8. AsReceived'
    BY <1>1, <1>2, <1>3, <1>4 DEF AsReceived, IsConnected, InFlight, Shows
  <1> QED BY <1>5, <1>6, <1>7, <1>8 DEF TwinInv

(* The hub merges the next report.                                         *)
LEMMA StepTwinHubReceives == TwinInv /\ TwinHubReceives => TwinInv'
  <1> SUFFICES ASSUME TwinInv, NEW i \in DOMAIN inflight, Receive(i),
                      hub' = Merged(inflight[i].body),
                      UNCHANGED <<alive, stamp, shared, status, listed,
                                  reported>>
               PROVE  TwinInv'
    BY DEF TwinHubReceives
  <1>1. TwinTyped /\ Stopped /\ InOrder /\ AsReported /\ AsReceived
    BY DEF TwinInv
  <1>2. /\ i \in InFlight /\ inflight' \in Seq(Messages)
        /\ client' = client /\ Len(inflight') = Len(inflight)
        /\ ~inflight[i].received /\ inflight'[i].received
        /\ \A j \in InFlight : j < i => inflight[j].received
        /\ \A j \in InFlight : inflight'[j].body = inflight[j].body
        /\ \A j \in InFlight :
               j # i => inflight'[j].received = inflight[j].received
    BY <1>1, ReceiveNext
  <1>3. InFlight' = InFlight /\ InFlight \subseteq Int
    BY <1>2 DEF InFlight
  <1>4. TwinTyped' /\ Stopped'
    BY <1>1, <1>2 DEF TwinTyped, Stopped, InFlight
  <1>5. \A j \in InFlight : i < j => ~inflight'[j].received
    BY <1>1, <1>2, <1>3 DEF InOrder
  <1>6. InOrder'
    <2>1. ASSUME NEW j \in InFlight, NEW k \in InFlight, j < k,
                 inflight'[k].received
          PROVE  inflight'[j].received
      BY <1>1, <1>2, <1>3, <1>5, <2>1 DEF InOrder
    <2> QED BY <1>1, <1>2, <1>3, <2>1 DEF InOrder
  <1>7. AsReported'
    BY <1>1, <1>2, <1>3 DEF AsReported, IsConnected
  <1>8. AsReceived'
    <2>1. ASSUME inflight[i].body.stamp = stamp
          PROVE  /\ hub'.stamp = inflight[i].body.stamp
                 /\ hub'.status = inflight[i].body.status
                 /\ inflight[i].body.listed \subseteq hub'.listed
      <3>1. inflight[i].body.stamp # NullStamp
        BY <1>1, <2>1 DEF NullStamp, TwinTyped
      <3>2. inflight[i].body \in Bodies
        <4>1. inflight[i] \in Messages
          BY <1>1, <1>2 DEF TwinTyped, InFlight
        <4> QED BY <4>1 DEF Messages
      <3>3. hub' = [inflight[i].body EXCEPT !.listed = @ \cup hub.listed]
        BY <3>1 DEF Merged
      <3> QED BY <3>2, <3>3 DEF Bodies
    <2>2. ASSUME NEW j \in InFlight, inflight'[j].received,
                 \A k \in InFlight : j < k => ~inflight'[k].received
          PROVE  j = i
      BY <1>2, <1>3, <1>5, <2>2
    <2> QED BY <1>2, <1>3, <2>1, <2>2 DEF AsReceived, Shows
  <1> QED BY <1>4, <1>6, <1>7, <1>8 DEF TwinInv

(* The first message has left, whatever its callback said.                 *)
LEMMA ConfirmKeepsOrder ==
  ASSUME TwinTyped, InOrder, NEW i \in DOMAIN inflight, Confirm(i),
         UNCHANGED <<stamp, shared, status, listed>>, alive',
         reported' \in Bodies, reported'.stamp <= stamp
  PROVE  TwinTyped' /\ Stopped' /\ InOrder'
  <1>1. /\ inflight' \in Seq(Messages) /\ Len(inflight) \in Nat
        /\ Len(inflight') = Len(inflight) - 1
        /\ \A j \in 1 .. Len(inflight) - 1 : inflight'[j] = inflight[j + 1]
    BY ConfirmFirst
  <1>2. TwinTyped' /\ Stopped'
    BY <1>1 DEF TwinTyped, Stopped
  <1>3. \A j \in InFlight' : j + 1 \in InFlight /\ inflight'[j] = inflight[j + 1]
    BY <1>1 DEF InFlight
  <1>4. \A j, k \in InFlight' : j < k => j + 1 < k + 1
    BY <1>1 DEF InFlight
  <1> QED BY <1>2, <1>3, <1>4 DEF InOrder

(* device_twin_reported.                                                   *)
LEMMA StepTwinDelivered == TwinInv /\ TwinDelivered => TwinInv'
  <1> SUFFICES ASSUME TwinInv, NEW i \in DOMAIN inflight, inflight[i].received,
                      Confirm(i), alive,
                      reported' = IF IsNull(inflight[i]) THEN reported
                                  ELSE inflight[i].body,
                      UNCHANGED <<alive, stamp, shared, status, listed, hub>>
               PROVE  TwinInv'
    BY DEF TwinDelivered
  <1>1. TwinTyped /\ InOrder /\ AsReported /\ AsReceived
    BY DEF TwinInv
  <1>2. /\ i = 1 /\ 1 \in InFlight /\ inflight' \in Seq(Messages)
        /\ client' = client /\ Len(inflight) \in Nat
        /\ Len(inflight') = Len(inflight) - 1
        /\ \A j \in 1 .. Len(inflight) - 1 : inflight'[j] = inflight[j + 1]
    BY <1>1, ConfirmFirst
  <1>3. \A j \in InFlight' : j + 1 \in InFlight /\ inflight'[j] = inflight[j + 1]
    BY <1>2 DEF InFlight
  <1>4. \A j \in InFlight : 1 < j => j - 1 \in InFlight'
                                    /\ inflight'[j - 1] = inflight[j]
    BY <1>2 DEF InFlight
  <1>5. inflight[1].body \in Bodies
    <2>1. inflight[1] \in Messages
      BY <1>1, <1>2 DEF TwinTyped, InFlight
    <2> QED BY <2>1 DEF Messages
  <1>6. reported' \in Bodies /\ reported'.stamp <= stamp
    BY <1>1, <1>2, <1>5 DEF TwinTyped, InOrder
  <1>7. TwinTyped' /\ Stopped' /\ InOrder'
    BY <1>1, <1>6, ConfirmKeepsOrder
  <1>8. AsReported'
    <2>1. SUFFICES ASSUME IsConnected, ~shared, stamp > 0,
                          reported'.stamp = stamp
                   PROVE  /\ \A j \in InFlight' :
                                 inflight'[j].body.stamp = stamp
                          /\ (\A j \in InFlight' : ~inflight'[j].received)
                             => Shows(reported')
      BY <1>2 DEF AsReported, IsConnected, Shows
    <2>2. CASE IsNull(inflight[i])
      BY <1>1, <1>2, <2>1, <2>2 DEF AsReported, IsNull, NullStamp, TwinTyped
    <2>3. CASE ~IsNull(inflight[i])
      <3>1. reported' = inflight[1].body /\ inflight[1].body.stamp = stamp
        BY <1>2, <2>1, <2>3
      <3>2. \A j \in InFlight' : inflight'[j].body.stamp = stamp
        <4>1. \A j \in InFlight' : 1 < j + 1
          BY <1>2 DEF InFlight
        <4> QED BY <1>1, <1>2, <1>3, <2>1, <3>1, <4>1 DEF InOrder
      <3>3. ASSUME \A j \in InFlight' : ~inflight'[j].received
            PROVE  Shows(reported')
        <4>1. \A j \in InFlight : 1 < j => ~inflight[j].received
          BY <1>4, <3>3
        <4> QED BY <1>1, <1>2, <2>1, <3>1, <4>1 DEF AsReceived
      <3> QED BY <3>2, <3>3
    <2> QED BY <2>2, <2>3
  <1>9. AsReceived'
    <2>1. SUFFICES ASSUME IsConnected, ~shared, NEW j \in InFlight',
                          inflight'[j].received,
                          inflight'[j].body.stamp = stamp,
                          \A k \in InFlight' : j < k => ~inflight'[k].received
                   PROVE  Shows(inflight'[j].body)
      BY <1>2 DEF AsReceived, IsConnected, Shows
    <2>2. \A k \in InFlight : j + 1 < k => ~inflight[k].received
      <3>1. ASSUME NEW k \in InFlight, j + 1 < k PROVE 1 < k /\ j < k - 1
        BY <1>2, <3>1 DEF InFlight
      <3> QED BY <1>4, <2>1, <3>1
    <2> QED BY <1>1, <1>3, <2>1, <2>2 DEF AsReceived
  <1> QED BY <1>7, <1>8, <1>9 DEF TwinInv

(* A refusal or a failure; over a connection, of what was not merged, and  *)
(* then nothing behind it was.                                             *)
LEMMA StepTwinNotDelivered == TwinInv /\ TwinNotDelivered => TwinInv'
  <1> SUFFICES ASSUME TwinInv, NEW i \in DOMAIN inflight,
                      ~(IsConnected /\ inflight[i].received), Confirm(i),
                      alive, UNCHANGED <<alive, stamp, shared, status, listed,
                                         reported, hub>>
               PROVE  TwinInv'
    BY DEF TwinNotDelivered
  <1>1. TwinTyped /\ InOrder /\ AsReported /\ AsReceived
    BY DEF TwinInv
  <1>2. /\ i = 1 /\ 1 \in InFlight /\ client' = client
        /\ Len(inflight) \in Nat /\ Len(inflight') = Len(inflight) - 1
        /\ \A j \in 1 .. Len(inflight) - 1 : inflight'[j] = inflight[j + 1]
    BY <1>1, ConfirmFirst
  <1>3. TwinTyped' /\ Stopped' /\ InOrder'
    BY <1>1, ConfirmKeepsOrder DEF TwinTyped, InOrder
  <1>4. CASE ~IsConnected
    BY <1>2, <1>3, <1>4 DEF TwinInv, AsReported, AsReceived, IsConnected
  <1>5. CASE IsConnected
    <2>1. \A j \in InFlight : 1 < j \/ j = 1
      BY <1>2 DEF InFlight
    <2>2. \A j \in InFlight : ~inflight[j].received
      BY <1>1, <1>2, <1>5, <2>1 DEF InOrder
    <2>3. \A j \in InFlight' :
              j + 1 \in InFlight /\ inflight'[j] = inflight[j + 1]
      BY <1>2 DEF InFlight
    <2>4. AsReported'
      BY <1>1, <1>2, <1>5, <2>2, <2>3 DEF AsReported, IsConnected, Shows
    <2>5. AsReceived'
      BY <2>2, <2>3 DEF AsReceived
    <2> QED BY <1>3, <2>4, <2>5 DEF TwinInv
  <1> QED BY <1>4, <1>5

(* adapter_provision.                                                      *)
LEMMA StepProvision == TwinInv /\ Provision => TwinInv'
  <1> SUFFICES ASSUME TwinInv, Provision PROVE TwinInv'
    OBVIOUS
  <1>1. TwinTyped /\ InOrder
    BY DEF TwinInv
  <1>2. /\ NewStamp /\ UNCHANGED <<status, reported>> /\ alive'
        /\ listed' \subseteq TwinNames
    BY DEF Provision
  <1>3. CASE UNCHANGED clientVars
    <2>1. inflight' = inflight
      BY <1>3 DEF clientVars
    <2> QED BY <1>1, <1>2, <2>1, NewerStamp DEF InOrder, TwinTyped, InFlight
  <1>4. CASE Send(Message("twin", 1, NullTwin))
    <2>1. NullTwin \in Bodies /\ NullTwin.stamp <= stamp
      BY <1>1 DEF NullTwin, NullStamp, Twin, Bodies, TwinTyped
    <2>2. /\ inflight' \in Seq(Messages) /\ Len(inflight) \in Nat
          /\ Len(inflight') = Len(inflight) + 1
          /\ \A i \in InFlight : inflight'[i] = inflight[i]
          /\ inflight'[Len(inflight) + 1].body = NullTwin
          /\ ~inflight'[Len(inflight) + 1].received
      BY <1>1, <1>4, <2>1, SendLast
    <2>3. \A i \in InFlight' : i \in InFlight \/ i = Len(inflight) + 1
      BY <2>2 DEF InFlight
    <2>4. \A i, j \in InFlight' : i < j => i \in InFlight
      BY <2>2 DEF InFlight
    <2>5. \A i \in InFlight' : inflight'[i].body.stamp <= stamp
      BY <1>1, <2>1, <2>2, <2>3 DEF InOrder
    <2>6. \A i, j \in InFlight' :
              i < j /\ inflight'[j].received => inflight'[i].received
      BY <1>1, <2>2, <2>3, <2>4 DEF InOrder
    <2> QED BY <1>2, <2>2, <2>5, <2>6, NewerStamp
  <1> QED BY <1>3, <1>4 DEF Provision

(* connection_status_changed.                                              *)
LEMMA StepTwinConnect == TwinInv /\ TwinConnect => TwinInv'
  <1> SUFFICES ASSUME TwinInv, TwinConnect PROVE TwinInv'
    OBVIOUS
  <1>1. /\ NewStamp /\ UNCHANGED <<status, listed, reported>> /\ alive'
        /\ inflight' = inflight
    BY DEF TwinConnect, Authenticated
  <1>2. TwinTyped /\ InOrder
    BY DEF TwinInv
  <1> QED BY <1>1, <1>2, NewerStamp DEF TwinTyped, InOrder, InFlight

(* Every step keeps the invariant.                                         *)
LEMMA TwinInvKept == TwinInv /\ [TwinNext]_twinVars => TwinInv'
  <1> SUFFICES ASSUME TwinInv, [TwinNext]_twinVars PROVE TwinInv'
    OBVIOUS
  <1>1. TwinTyped /\ InOrder
    BY DEF TwinInv
  <1> USE DEF TwinInv, TwinTyped, Stopped, InOrder, AsReported, AsReceived,
              IsConnected, InFlight, Shows
  <1>2. CASE StatusChanges
    BY <1>2 DEF StatusChanges, clientVars
  <1>3. CASE TwinDisconnect
    BY <1>3 DEF TwinDisconnect, Disconnected
  <1>4. CASE TwinSetup
    <2>1. /\ UNCHANGED <<stamp, status, listed, reported>>
          /\ inflight' = <<>> /\ ~IsConnected'
      BY <1>4 DEF TwinSetup, SetupClient, SetupFails
    <2> QED BY <1>1, <2>1, NothingInFlight
  <1>5. CASE TwinEnd
    <2>1. /\ UNCHANGED <<stamp, status, listed>> /\ reported' = NoTwin
          /\ inflight' = <<>> /\ ~IsConnected'
      BY <1>5 DEF TwinEnd, DropClient
    <2>2. NoTwin \in Bodies /\ NoTwin.stamp <= stamp
      BY <1>1 DEF NoTwin, Twin, Bodies
    <2> QED BY <1>1, <2>1, <2>2, NothingInFlight
  <1>6. CASE TwinStart
    <2>1. /\ UNCHANGED <<stamp, status, reported>>
          /\ listed' \subseteq TwinNames
          /\ inflight' = <<>> /\ ~IsConnected'
      BY <1>6 DEF TwinStart, clientVars
    <2> QED BY <1>1, <2>1, NothingInFlight
  <1>7. CASE UNCHANGED twinVars
    BY <1>7 DEF twinVars, clientVars
  <1> QED BY <1>2, <1>3, <1>4, <1>5, <1>6, <1>7, StepReportTwin,
             StepTwinHubReceives, StepTwinDelivered, StepTwinNotDelivered, StepProvision,
             StepTwinConnect DEF TwinNext

(* The first state: nothing reported, and no client.                       *)
LEMMA TwinFirst == TwinInit => TwinInv
  <1> SUFFICES ASSUME TwinInit PROVE TwinInv
    OBVIOUS
  <1>1. /\ stamp = 0 /\ status = FALSE /\ listed = {} /\ reported = NoTwin
        /\ inflight = <<>> /\ client = "none"
    BY DEF TwinInit, NoClient
  <1>2. InFlight = {}
    BY <1>1 DEF InFlight
  <1>3. NoTwin \in Bodies /\ NoTwin.stamp = 0
    BY DEF NoTwin, Twin, Bodies
  <1>4. TwinTyped
    <2>1. inflight \in Seq(Messages)
      BY <1>1
    <2>2. status \in BOOLEAN
      BY <1>1, Zenon
    <2>3. stamp \in Nat
      BY <1>1
    <2> QED BY <1>1, <1>3, <2>1, <2>2, <2>3 DEF TwinTyped
  <1>5. InOrder
    BY <1>1, <1>2, <1>3 DEF InOrder
  <1> QED BY <1>1, <1>4, <1>5
          DEF TwinInv, Stopped, AsReported, AsReceived, IsConnected

-----------------------------------------------------------------------------
(* The names that the hub has and the adapter has not.                     *)

(* An unread null in flight is to remove the name.                         *)
Removes(k, name) ==
    /\ IsNull(inflight[k]) /\ ~inflight[k].received
    /\ name \in inflight[k].body.listed

Accounted(i, name) ==
    \/ name \in listed \cup orphans
    \/ \E k \in InFlight : i < k /\ Removes(k, name)

NamesInv ==
    /\ hub \in Bodies
    /\ \A name \in hub.listed : Accounted(0, name)
    /\ \A i \in InFlight :
           ~inflight[i].received /\ ~IsNull(inflight[i])
           => \A name \in inflight[i].body.listed : Accounted(i, name)

(* What was in flight is gone, and so are its nulls.                       *)
LEMMA NamesLeft ==
  ASSUME TwinInv, NamesInv, hub' = hub, inflight' = <<>>,
         listed \cup orphans \cup Unremoved(InFlight) \subseteq listed' \cup orphans'
  PROVE  NamesInv'
  <1>1. InFlight' = {}
    BY DEF InFlight
  <1>2. ASSUME NEW name \in hub.listed PROVE name \in listed' \cup orphans'
    <2>1. CASE name \in listed \cup orphans
      BY <2>1
    <2>2. CASE \E k \in InFlight : Removes(k, name)
      BY <2>2 DEF Removes, Unremoved
    <2> QED BY <2>1, <2>2 DEF NamesInv, Accounted
  <1> QED BY <1>1, <1>2 DEF NamesInv, Accounted

(* The first message has left; a null that the hub did not read leaves the *)
(* names it would have removed (send_reported_state_callback).             *)
LEMMA NamesConfirmed ==
  ASSUME TwinInv, NamesInv, NEW i \in DOMAIN inflight, Confirm(i),
         UNCHANGED <<hub, listed>>, orphans \subseteq orphans',
         \A name : Removes(i, name) => name \in orphans'
  PROVE  NamesInv'
  <1>1. /\ i = 1 /\ 1 \in InFlight /\ Len(inflight) \in Nat
        /\ Len(inflight') = Len(inflight) - 1
        /\ \A j \in 1 .. Len(inflight) - 1 : inflight'[j] = inflight[j + 1]
    BY ConfirmFirst DEF TwinInv
  <1>2. \A j \in InFlight' :
            j + 1 \in InFlight /\ inflight'[j] = inflight[j + 1] /\ j \in Nat
    BY <1>1 DEF InFlight
  <1>3. \A k \in InFlight : k # 1 =>
            k - 1 \in InFlight' /\ inflight'[k - 1] = inflight[k] /\ k \in Nat
    BY <1>1 DEF InFlight
  <1>4. ASSUME NEW j \in Nat, NEW l \in Nat, l = j + 1 \/ (l = 0 /\ j = 0),
               NEW name, Accounted(l, name)
        PROVE  Accounted(j, name)'
    <2>1. CASE name \in listed \cup orphans
      BY <2>1 DEF Accounted
    <2>2. CASE \E k \in InFlight : l < k /\ Removes(k, name)
      <3>1. PICK k \in InFlight : l < k /\ Removes(k, name)
        BY <2>2
      <3>2. CASE k = 1
        BY <1>1, <3>1, <3>2 DEF Accounted
      <3>3. CASE k # 1
        <4>1. k - 1 \in InFlight' /\ inflight'[k - 1] = inflight[k] /\ j < k - 1
          BY <1>3, <1>4, <3>1, <3>3
        <4>2. Removes(k - 1, name)'
          BY <3>1, <4>1 DEF Removes, IsNull
        <4> QED BY <4>1, <4>2 DEF Accounted
      <3> QED BY <3>2, <3>3
    <2> QED BY <1>4, <2>1, <2>2 DEF Accounted
  <1>5. \A name \in hub'.listed : Accounted(0, name)'
    BY <1>4 DEF NamesInv
  <1>6. ASSUME NEW j \in InFlight', ~inflight'[j].received,
               ~IsNull(inflight'[j]), NEW name \in inflight'[j].body.listed
        PROVE  Accounted(j, name)'
    <2>1. j + 1 \in InFlight /\ inflight'[j] = inflight[j + 1] /\ j \in Nat
      BY <1>2
    <2>2. Accounted(j + 1, name)
      BY <1>6, <2>1 DEF NamesInv
    <2> QED BY <1>4, <2>1, <2>2
  <1> QED BY <1>5, <1>6 DEF NamesInv, IsNull

(* The hub merges a message: the names of a report, or none that is left.  *)
LEMMA NamesReceived == TwinInv /\ NamesInv /\ TwinHubReceives => NamesInv'
  <1> SUFFICES ASSUME TwinInv, NamesInv, NEW i \in DOMAIN inflight, Receive(i),
                      hub' = Merged(inflight[i].body),
                      UNCHANGED <<listed, orphans>>
               PROVE  NamesInv'
    BY DEF TwinHubReceives
  <1>1. /\ i \in InFlight /\ Len(inflight') = Len(inflight)
        /\ ~inflight[i].received /\ inflight'[i].received
        /\ \A j \in InFlight : j < i => inflight[j].received
        /\ \A j \in InFlight : inflight'[j].body = inflight[j].body
        /\ \A j \in InFlight :
               j # i => inflight'[j].received = inflight[j].received
    BY ReceiveNext DEF TwinInv
  <1>2. /\ InFlight' = InFlight /\ InFlight \subseteq Int
        /\ \A j \in InFlight : 0 < j
    BY <1>1 DEF InFlight
  <1>3. ASSUME NEW j \in InFlight, ~inflight'[j].received
        PROVE  ~inflight[j].received /\ i < j
    BY <1>1, <1>2, <1>3
  <1>4. ASSUME NEW j \in Int, NEW name, Accounted(j, name), i <= j
        PROVE  Accounted(j, name)'
    <2>1. CASE name \in listed \cup orphans
      BY <2>1 DEF Accounted
    <2>2. CASE \E k \in InFlight : j < k /\ Removes(k, name)
      <3>1. PICK k \in InFlight : j < k /\ Removes(k, name)
        BY <2>2
      <3>2. k # i
        BY <1>2, <1>4, <3>1
      <3>3. Removes(k, name)'
        BY <1>1, <3>1, <3>2 DEF Removes, IsNull
      <3> QED BY <1>2, <3>1, <3>3 DEF Accounted
    <2> QED BY <1>4, <2>1, <2>2 DEF Accounted
  <1>5. ASSUME NEW j \in InFlight, ~inflight'[j].received,
               ~IsNull(inflight'[j]), NEW name \in inflight'[j].body.listed
        PROVE  Accounted(j, name)'
    <2>1. /\ ~inflight[j].received /\ ~IsNull(inflight[j]) /\ i <= j
          /\ name \in inflight[j].body.listed /\ j \in Int
      BY <1>1, <1>2, <1>3, <1>5 DEF IsNull
    <2> QED BY <1>4, <2>1 DEF NamesInv
  <1>6. ASSUME NEW name \in hub'.listed PROVE Accounted(0, name)'
    <2>1. inflight[i].body \in Bodies
      <3>1. inflight[i] \in Messages
        BY <1>1 DEF TwinInv, TwinTyped, InFlight
      <3> QED BY <3>1 DEF Messages
    <2>2. CASE IsNull(inflight[i])
      <3>1. hub' = [hub EXCEPT !.listed = {}]
        BY <2>2 DEF Merged, IsNull
      <3> QED BY <1>6, <3>1 DEF NamesInv, Bodies
    <2>3. CASE ~IsNull(inflight[i])
      <3>1. hub' = [inflight[i].body EXCEPT !.listed = @ \cup hub.listed]
        BY <2>3 DEF Merged, IsNull
      <3>2. hub'.listed = inflight[i].body.listed \cup hub.listed
        BY <2>1, <3>1 DEF Bodies
      <3>3. CASE name \in inflight[i].body.listed
        <4>1. Accounted(i, name)
          BY <1>1, <2>3, <3>3 DEF NamesInv
        <4>2. Accounted(i, name)'
          BY <1>1, <1>2, <1>4, <4>1
        <4> QED BY <1>1, <1>2, <4>2 DEF Accounted
      <3>4. CASE name \in hub.listed
        <4>1. CASE name \in listed \cup orphans
          BY <4>1 DEF Accounted
        <4>2. CASE \E k \in InFlight : Removes(k, name)
          <5>1. PICK k \in InFlight : Removes(k, name)
            BY <4>2
          <5>2. k # i
            BY <2>3, <5>1 DEF Removes
          <5>3. Removes(k, name)'
            BY <1>1, <5>1, <5>2 DEF Removes, IsNull
          <5> QED BY <1>2, <5>3 DEF Accounted
        <4> QED BY <3>4, <4>1, <4>2 DEF NamesInv, Accounted
      <3> QED BY <1>6, <3>2, <3>3, <3>4
    <2> QED BY <2>2, <2>3
  <1>7. hub' \in Bodies
    <2>1. inflight[i] \in Messages /\ hub \in Bodies
      BY <1>1 DEF TwinInv, TwinTyped, InFlight, NamesInv
    <2> QED BY <2>1 DEF Messages, Bodies, Merged
  <1> QED BY <1>2, <1>5, <1>6, <1>7 DEF NamesInv, IsNull

(* A report of the names listed, or a null to remove those that were, is   *)
(* the last in flight (diag_report_twins, adapter_provision).              *)
LEMMA NamesSent ==
  ASSUME TwinInv, NamesInv, NEW size \in {1, TwinSize}, NEW body \in Bodies,
         Send(Message("twin", size, body)), body.listed = listed,
         UNCHANGED <<hub, orphans>>,
         body.stamp # NullStamp => listed' = listed
  PROVE  NamesInv'
  <1>0. PICK n : n = Len(inflight) + 1
    OBVIOUS
  <1>1. /\ Len(inflight') = n /\ Len(inflight) \in Nat /\ n = Len(inflight) + 1
        /\ \A i \in InFlight : inflight'[i] = inflight[i]
        /\ inflight'[n].body = body /\ ~inflight'[n].received
    BY <1>0, SendLast DEF TwinInv
  <1>2. /\ \A i \in InFlight' : i \in InFlight \/ i = n
        /\ \A i \in InFlight : i \in InFlight' /\ i < n /\ i \in Nat
        /\ n \in InFlight' /\ 0 < n
    BY <1>1 DEF InFlight
  <1>3. ASSUME NEW i \in Nat, i < n, NEW name, Accounted(i, name)
        PROVE  Accounted(i, name)'
    <2>1. CASE name \in orphans
      BY <2>1 DEF Accounted
    <2>2. CASE name \in listed
      <3>1. CASE body.stamp # NullStamp
        BY <2>2, <3>1 DEF Accounted
      <3>2. CASE body.stamp = NullStamp
        <4>1. Removes(n, name)'
          BY <1>1, <2>2, <3>2 DEF Removes, IsNull
        <4> QED BY <1>2, <1>3, <4>1 DEF Accounted
      <3> QED BY <3>1, <3>2
    <2>3. CASE \E k \in InFlight : i < k /\ Removes(k, name)
      <3>1. PICK k \in InFlight : i < k /\ Removes(k, name)
        BY <2>3
      <3>2. Removes(k, name)'
        BY <1>1, <3>1 DEF Removes, IsNull
      <3> QED BY <1>2, <3>1, <3>2 DEF Accounted
    <2> QED BY <1>3, <2>1, <2>2, <2>3 DEF Accounted
  <1>4. ASSUME NEW i \in InFlight', ~inflight'[i].received,
               ~IsNull(inflight'[i]), NEW name \in inflight'[i].body.listed
        PROVE  Accounted(i, name)'
    <2>1. CASE i = n
      BY <1>1, <1>4, <2>1 DEF Accounted, IsNull
    <2>2. CASE i \in InFlight
      BY <1>1, <1>2, <1>3, <1>4, <2>2 DEF NamesInv, IsNull
    <2> QED BY <1>2, <2>1, <2>2
  <1>5. \A name \in hub'.listed : Accounted(0, name)'
    BY <1>2, <1>3 DEF NamesInv
  <1> QED BY <1>4, <1>5 DEF NamesInv, IsNull

(* Every step keeps the names accounted for.                               *)
LEMMA NamesKept == TwinInv /\ NamesInv /\ [TwinNext]_twinVars => NamesInv'
  <1> SUFFICES ASSUME TwinInv, NamesInv, [TwinNext]_twinVars PROVE NamesInv'
    OBVIOUS
  <1>1. TwinTyped
    BY DEF TwinInv
  <1>2. CASE ReportTwin
    <2>1. Current \in Bodies /\ Current.listed = listed
      BY <1>1 DEF Current, Twin, Bodies, TwinTyped
    <2> QED BY <1>2, <2>1, NamesSent DEF ReportTwin
  <1>3. CASE TwinDelivered
    BY <1>3, NamesConfirmed DEF TwinDelivered, Removes
  <1>4. CASE TwinNotDelivered
    <2>1. PICK i \in DOMAIN inflight :
              Confirm(i) /\ orphans' = orphans \cup Unremoved({i})
      BY <1>4 DEF TwinNotDelivered
    <2>2. \A name : Removes(i, name) => name \in Unremoved({i})
      BY DEF Removes, Unremoved
    <2> QED BY <1>4, <2>1, <2>2, NamesConfirmed DEF TwinNotDelivered
  <1>5. CASE Provision
    <2>1. CASE Send(Message("twin", 1, NullTwin)) /\ UNCHANGED orphans
      <3>1. /\ NullTwin \in Bodies /\ NullTwin.listed = listed
            /\ NullTwin.stamp = NullStamp
        BY <1>1 DEF NullTwin, NullStamp, Twin, Bodies, TwinTyped
      <3> QED BY <1>5, <2>1, <3>1, NamesSent DEF Provision
    <2>2. CASE UNCHANGED clientVars /\ orphans' = orphans \cup listed
      <3>1. inflight' = inflight /\ hub' = hub
        BY <1>5, <2>2 DEF Provision, clientVars
      <3>2. \A i, name : Accounted(i, name) => Accounted(i, name)'
        BY <2>2, <3>1 DEF Accounted, Removes, InFlight, IsNull
      <3> QED BY <3>1, <3>2 DEF NamesInv, InFlight, IsNull
    <2> QED BY <1>5, <2>1, <2>2 DEF Provision
  <1>6. CASE \/ StatusChanges \/ TwinConnect \/ TwinDisconnect
             \/ UNCHANGED twinVars
    <2>1. UNCHANGED <<inflight, hub, listed, orphans>>
      BY <1>6 DEF StatusChanges, TwinConnect, TwinDisconnect, Authenticated,
                  Disconnected, twinVars, clientVars
    <2> QED BY <2>1 DEF NamesInv, Accounted, Removes, InFlight, IsNull
  <1>7. CASE TwinSetup \/ TwinEnd
    <2>1. DOMAIN inflight = InFlight
      BY <1>1 DEF TwinTyped, InFlight
    <2> QED BY <1>7, <2>1, NamesLeft
            DEF TwinSetup, TwinEnd, SetupClient, SetupFails, DropClient
  <1>8. CASE TwinStart
    <2>1. inflight = <<>> /\ inflight' = <<>>
      BY <1>8 DEF TwinStart, clientVars, TwinInv, Stopped
    <2>2. Unremoved(InFlight) = {}
      BY <2>1 DEF Unremoved, InFlight
    <2> QED BY <1>8, <2>1, <2>2, NamesLeft DEF TwinStart
  <1> QED BY <1>2, <1>3, <1>4, <1>5, <1>6, <1>7, <1>8, NamesReceived DEF TwinNext

-----------------------------------------------------------------------------
(* When the twin was last reported with success as it is, under a stamp of *)
(* its own, nothing of it is in flight and the client is connected, the    *)
(* hub has this twin with every device, and no other but those of a former *)
(* provisioning whose null was refused or lost (diag_report_twins,         *)
(* device_twin_reported, adapter_provision).                               *)
THEOREM ReportedIsInTheHub == TwinSpec => []TwinFaithful
  <1>1. TwinInv /\ NamesInv => TwinFaithful
    <2> SUFFICES ASSUME TwinInv, NamesInv, IsConnected, inflight = <<>>,
                        stamp > 0, reported = Current, ~shared
                 PROVE  /\ hub.stamp = stamp /\ hub.status = status
                        /\ listed \subseteq hub.listed
                        /\ hub.listed \subseteq listed \cup orphans
      BY DEF TwinFaithful
    <2>1. InFlight = {}
      BY DEF InFlight
    <2>2. Shows(reported)
      BY <2>1 DEF TwinInv, AsReported, Current, Twin
    <2> QED BY <2>1, <2>2 DEF Shows, Current, Twin, NamesInv, Accounted
  <1>2. TwinInit => NamesInv
    BY DEF TwinInit, NoClient, NoTwin, Twin, Bodies, NamesInv, InFlight
  <1> QED BY <1>1, <1>2, TwinFirst, TwinInvKept, NamesKept, PTL DEF TwinSpec

-----------------------------------------------------------------------------
(* The types, and the quota.                                               *)

Twins == [stamp : 0 .. MaxStamps, status : BOOLEAN, listed : SUBSET TwinNames]
Nulls == [stamp : {NullStamp}, status : {FALSE}, listed : SUBSET TwinNames]

Reports == \A i \in DOMAIN inflight : inflight[i].body \in Twins \cup Nulls

TwinTypes ==
    /\ alive \in BOOLEAN
    /\ stamp \in 0 .. MaxStamps
    /\ shared \in BOOLEAN
    /\ status \in BOOLEAN
    /\ listed \subseteq TwinNames
    /\ orphans \subseteq TwinNames
    /\ reported \in Twins
    /\ hub \in Twins
    /\ Reports

TwinTypeInv == TwinTypes /\ ClientInv

(* What the twin does with its client.                                     *)
LEMMA TwinUsesClient == [TwinNext]_twinVars => ClientStep
  <1> SUFFICES ASSUME [TwinNext]_twinVars PROVE ClientStep
    OBVIOUS
  <1>1. ASSUME NEW size \in Nat \ {0}, NEW body,
               Send(Message("twin", size, body))
        PROVE  ClientStep
    <2> DEFINE message == Message("twin", size, body)
    <2>1. message.kind \in Kinds /\ message.size \in Nat \ {0}
      BY DEF Message, Kinds
    <2>2. Send(message)
      BY <1>1
    <2> HIDE DEF message
    <2> QED BY <2>1, <2>2 DEF ClientStep
  <1>2. CASE ReportTwin
    BY <1>1, <1>2, TwinAssumption DEF ReportTwin
  <1>3. CASE Provision
    <2>1. CASE UNCHANGED clientVars
      BY <2>1 DEF ClientStep
    <2>2. CASE Send(Message("twin", 1, NullTwin))
      BY <1>1, <2>2
    <2> QED BY <1>3, <2>1, <2>2 DEF Provision
  <1>4. CASE TwinHubReceives \/ TwinDelivered \/ TwinNotDelivered
    BY <1>4 DEF TwinHubReceives, TwinDelivered, TwinNotDelivered, ClientStep
  <1>5. CASE TwinConnect \/ TwinDisconnect \/ TwinSetup \/ TwinEnd
    BY <1>5 DEF TwinConnect, TwinDisconnect, TwinSetup, TwinEnd, ClientStep
  <1>6. CASE StatusChanges \/ TwinStart \/ UNCHANGED twinVars
    BY <1>6 DEF StatusChanges, TwinStart, twinVars, ClientStep
  <1> QED BY <1>2, <1>3, <1>4, <1>5, <1>6 DEF TwinNext

(* What is sent is a twin or the null (azure_iot_twin_report_async).       *)
LEMMA SendReports ==
  ASSUME TwinTypeInv, NEW size, NEW body \in Twins \cup Nulls,
         Send(Message("twin", size, body))
  PROVE  Reports'
  <1> DEFINE message == Message("twin", size, body)
  <1>1. PICK M : inflight \in Seq(M)
    BY DEF TwinTypeInv, ClientInv, Seqs
  <1>2. inflight' = Append(inflight, message) /\ message.body = body
    BY DEF Send, Message
  <1> HIDE DEF message
  <1>3. inflight \in Seq(M \cup {message})
    BY <1>1
  <1>4. \A i \in DOMAIN inflight' :
            \/ i \in DOMAIN inflight /\ inflight'[i] = inflight[i]
            \/ inflight'[i] = message
    BY <1>2, <1>3
  <1> QED BY <1>2, <1>4 DEF TwinTypeInv, TwinTypes, Reports

(* What the hub has or was confirmed was sent before.                      *)
LEMMA ReportsStay ==
  ASSUME TwinTypeInv,
         \/ \E i \in DOMAIN inflight : Confirm(i) \/ Receive(i)
         \/ inflight' \in {inflight, <<>>}
  PROVE  Reports'
  <1>1. Seqs(inflight)
    BY DEF TwinTypeInv, ClientInv
  <1>2. ASSUME NEW i \in DOMAIN inflight, Confirm(i) PROVE Reports'
    <2>1. \A k \in DOMAIN inflight' :
              \E l \in DOMAIN inflight : inflight'[k] = inflight[l]
      BY <1>1, <1>2, ConfirmTakes
    <2> QED BY <2>1 DEF TwinTypeInv, TwinTypes, Reports
  <1>3. ASSUME NEW i \in DOMAIN inflight, Receive(i) PROVE Reports'
    <2>1. /\ DOMAIN inflight' = DOMAIN inflight
          /\ \A k \in DOMAIN inflight : inflight'[k].body = inflight[k].body
      BY <1>1, <1>3, ReceiveKeeps
    <2> QED BY <2>1 DEF TwinTypeInv, TwinTypes, Reports
  <1>4. CASE inflight' \in {inflight, <<>>}
    BY <1>4 DEF TwinTypeInv, TwinTypes, Reports
  <1> QED BY <1>2, <1>3, <1>4

(* Every step keeps the types.                                             *)
LEMMA TwinTypeStep ==
  TwinTypeInv /\ [TwinNext]_twinVars => TwinTypeInv'
  <1> SUFFICES ASSUME TwinTypeInv, [TwinNext]_twinVars PROVE TwinTypeInv'
    OBVIOUS
  <1>1. ClientInv'
    BY TwinUsesClient, ClientStepKeeps DEF TwinTypeInv
  <1>2. /\ alive \in BOOLEAN /\ stamp \in 0 .. MaxStamps /\ shared \in BOOLEAN
        /\ status \in BOOLEAN /\ listed \subseteq TwinNames
        /\ orphans \subseteq TwinNames /\ reported \in Twins /\ hub \in Twins
        /\ \A i \in DOMAIN inflight : inflight[i].body \in Twins \cup Nulls
    BY DEF TwinTypeInv, TwinTypes, Reports
  <1>3. \A places \in SUBSET DOMAIN inflight : Unremoved(places) \subseteq TwinNames
    <2>1. \A i \in DOMAIN inflight : inflight[i].body.listed \subseteq TwinNames
      BY <1>2 DEF Twins, Nulls
    <2>2. ASSUME NEW places \in SUBSET DOMAIN inflight,
                 NEW name \in Unremoved(places)
          PROVE  name \in TwinNames
      <3>1. PICK i \in places : name \in inflight[i].body.listed
        BY <2>2 DEF Unremoved
      <3> QED BY <2>1, <3>1
    <2> QED BY <2>2
  <1>4. NewStamp => stamp' \in 0 .. MaxStamps /\ shared' \in BOOLEAN
    BY <1>2, TwinAssumption DEF NewStamp
  <1> USE TwinAssumption
  <1>5. CASE ReportTwin
    <2>1. /\ Send(Message("twin", TwinSize, Current))
          /\ UNCHANGED <<alive, stamp, shared, status, listed, reported, hub,
                         orphans>>
      BY <1>5 DEF ReportTwin
    <2>2. Current \in Twins
      BY <1>2 DEF Current, Twin, Twins
    <2> QED BY <1>1, <1>2, <2>1, <2>2, SendReports DEF TwinTypeInv, TwinTypes
  <1>6. CASE StatusChanges
    <2>1. /\ inflight' = inflight /\ status' = ~status
          /\ UNCHANGED <<alive, stamp, shared, listed, reported, hub, orphans>>
      BY <1>6 DEF StatusChanges, clientVars
    <2>2. status' \in BOOLEAN
      BY <2>1
    <2> QED BY <1>1, <1>2, <2>1, <2>2, ReportsStay DEF TwinTypeInv, TwinTypes
  <1>7. CASE TwinHubReceives
    <2>1. PICK i \in DOMAIN inflight :
              Receive(i) /\ hub' = Merged(inflight[i].body)
      BY <1>7 DEF TwinHubReceives
    <2>2. UNCHANGED <<alive, stamp, shared, status, listed, reported, orphans>>
      BY <1>7 DEF TwinHubReceives
    <2>3. hub' \in Twins
      <3>1. CASE inflight[i].body.stamp = NullStamp
        BY <1>2, <2>1, <3>1 DEF Merged, Twins
      <3>2. CASE inflight[i].body.stamp # NullStamp
        <4>1. inflight[i].body \in Twins
          BY <1>2, <3>2 DEF Nulls
        <4> QED BY <1>2, <2>1, <3>2, <4>1 DEF Merged, Twins
      <3> QED BY <3>1, <3>2
    <2> QED BY <1>1, <1>2, <2>1, <2>2, <2>3, ReportsStay
            DEF TwinTypeInv, TwinTypes
  <1>8. CASE TwinDelivered
    <2>1. PICK i \in DOMAIN inflight :
              /\ Confirm(i)
              /\ reported' = IF IsNull(inflight[i]) THEN reported
                             ELSE inflight[i].body
      BY <1>8 DEF TwinDelivered
    <2>2. UNCHANGED <<alive, stamp, shared, status, listed, hub, orphans>>
      BY <1>8 DEF TwinDelivered
    <2>3. reported' \in Twins
      BY <1>2, <2>1 DEF IsNull, Nulls
    <2> QED BY <1>1, <1>2, <2>1, <2>2, <2>3, ReportsStay
            DEF TwinTypeInv, TwinTypes
  <1>9. CASE TwinNotDelivered
    <2>1. PICK i \in DOMAIN inflight :
              Confirm(i) /\ orphans' = orphans \cup Unremoved({i})
      BY <1>9 DEF TwinNotDelivered
    <2>2. UNCHANGED <<alive, stamp, shared, status, listed, reported, hub>>
      BY <1>9 DEF TwinNotDelivered
    <2>3. orphans' \subseteq TwinNames
      BY <1>2, <1>3, <2>1
    <2> QED BY <1>1, <1>2, <2>1, <2>2, <2>3, ReportsStay
            DEF TwinTypeInv, TwinTypes
  <1>10. CASE Provision
    <2>1. /\ NewStamp /\ listed' \subseteq TwinNames
          /\ orphans' \in {orphans, orphans \cup listed}
          /\ UNCHANGED <<alive, status, reported, hub>>
      BY <1>10 DEF Provision
    <2>2. orphans' \subseteq TwinNames
      BY <1>2, <2>1
    <2>3. CASE UNCHANGED clientVars
      <3>1. inflight' = inflight
        BY <2>3 DEF clientVars
      <3> QED BY <1>1, <1>2, <1>4, <2>1, <2>2, <3>1, ReportsStay
              DEF TwinTypeInv, TwinTypes
    <2>4. CASE Send(Message("twin", 1, NullTwin))
      <3>1. NullTwin \in Nulls
        BY <1>2 DEF NullTwin, Twin, Nulls
      <3> QED BY <1>1, <1>2, <1>4, <2>1, <2>2, <2>4, <3>1, SendReports
              DEF TwinTypeInv, TwinTypes
    <2> QED BY <1>10, <2>3, <2>4 DEF Provision
  <1>11. CASE TwinConnect
    <2>1. /\ NewStamp /\ inflight' = inflight
          /\ UNCHANGED <<alive, status, listed, reported, hub, orphans>>
      BY <1>11 DEF TwinConnect, Authenticated
    <2> QED BY <1>1, <1>2, <1>4, <2>1, ReportsStay DEF TwinTypeInv, TwinTypes
  <1>12. CASE TwinDisconnect \/ TwinSetup \/ UNCHANGED twinVars
    <2>1. /\ inflight' \in {inflight, <<>>}
          /\ UNCHANGED <<alive, stamp, shared, status, listed, reported, hub>>
      BY <1>12 DEF TwinDisconnect, TwinSetup, Disconnected, SetupClient,
                   SetupFails, twinVars, clientVars
    <2>2. orphans' \in {orphans, orphans \cup Unremoved(DOMAIN inflight)}
      BY <1>12 DEF TwinDisconnect, TwinSetup, twinVars
    <2>3. orphans' \subseteq TwinNames
      BY <1>2, <1>3, <2>2
    <2> QED BY <1>1, <1>2, <2>1, <2>3, ReportsStay DEF TwinTypeInv, TwinTypes
  <1>13. CASE TwinEnd
    <2>1. /\ inflight' = <<>> /\ alive' = FALSE /\ reported' = NoTwin
          /\ orphans' = orphans \cup Unremoved(DOMAIN inflight)
          /\ UNCHANGED <<stamp, shared, status, listed, hub>>
      BY <1>13 DEF TwinEnd, DropClient
    <2>2. NoTwin \in Twins /\ orphans' \subseteq TwinNames
      BY <1>2, <1>3, <2>1 DEF NoTwin, Twin, Twins
    <2>3. Reports'
      BY <2>1, ReportsStay
    <2> QED BY <1>1, <1>2, <2>1, <2>2, <2>3 DEF TwinTypeInv, TwinTypes
  <1>14. CASE TwinStart
    <2>1. /\ inflight' = inflight /\ alive' = TRUE /\ shared' = FALSE
          /\ listed' \subseteq TwinNames /\ orphans' = orphans \cup listed
          /\ UNCHANGED <<stamp, status, reported, hub>>
      BY <1>14 DEF TwinStart, clientVars
    <2>2. Reports'
      BY <2>1, ReportsStay
    <2>3. orphans' \subseteq TwinNames
      BY <1>2, <2>1
    <2> QED BY <1>1, <1>2, <2>1, <2>2, <2>3 DEF TwinTypeInv, TwinTypes
  <1> QED BY <1>5, <1>6, <1>7, <1>8, <1>9, <1>10, <1>11, <1>12, <1>13, <1>14
          DEF TwinNext

(* The first state has the types.                                          *)
LEMMA TwinFirstTypes == TwinInit => TwinTypeInv
  <1> SUFFICES ASSUME TwinInit PROVE TwinTypeInv
    OBVIOUS
  <1>1. /\ alive = TRUE /\ stamp = 0 /\ shared = FALSE /\ status = FALSE
        /\ listed = {} /\ reported = NoTwin /\ hub = NoTwin /\ orphans = {}
        /\ client = "none" /\ inflight = <<>> /\ used = 0
    BY DEF TwinInit, NoClient
  <1>2. ClientInv
    <2>1. <<>> \in Seq({})
      OBVIOUS
    <2>2. Seqs(inflight) /\ Sized(inflight)
      BY <1>1, <2>1, EmptySize DEF Seqs
    <2> QED BY <1>1, <2>2 DEF ClientInv, QuotaKept
  <1>3. NoTwin \in Twins /\ hub \in Twins /\ stamp \in 0 .. MaxStamps
    BY <1>1, TwinAssumption DEF NoTwin, Twin, Twins
  <1>4. alive \in BOOLEAN /\ shared \in BOOLEAN /\ status \in BOOLEAN
    BY <1>1, Zenon
  <1>5. Reports
    BY <1>1 DEF Reports
  <1> QED BY <1>1, <1>2, <1>3, <1>4, <1>5 DEF TwinTypeInv, TwinTypes

(* The twin keeps its types (diag_report_twins).                           *)
THEOREM TwinTypeCorrect == TwinSpec => []TwinTypeOK
  <1>1. TwinTypeInv => TwinTypeOK
    BY DEF TwinTypeInv, TwinTypes, ClientInv, Sized, Twins, ClientTypeOK, TwinTypeOK
  <1> QED BY <1>1, TwinFirstTypes, TwinTypeStep, PTL DEF TwinSpec

(* The reports that a destroyed client never called back are counted out   *)
(* when the next client is created (azure_iot_setup_client).               *)
THEOREM TwinQuotaKept == TwinSpec => []QuotaKept
  <1>1. TwinTypeInv => QuotaKept
    BY DEF TwinTypeInv, ClientInv
  <1> QED BY <1>1, TwinFirstTypes, TwinTypeStep, PTL DEF TwinSpec
=============================================================================
