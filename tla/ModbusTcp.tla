----------------------------- MODULE ModbusTcp ------------------------------
(***************************************************************************)
(* The Modbus driver of the industrial device controller over TCP          *)
(* (drivers/modbus/modbus.c, modbus_transport_tcp.c), the socket and the   *)
(* Modbus server at its other end.  A query opens the connection if it     *)
(* must, then sends one request after the other and waits for the answer   *)
(* of each, which it knows by its transaction id.                          *)
(*                                                                         *)
(* The adapter runs one query at a time.  The timeout of a query may       *)
(* expire before any step; an answer that comes later stays in the socket  *)
(* for the queries that follow.  An answer arrives as a whole, but is read *)
(* in two parts, its header and its body.                                  *)
(***************************************************************************)
EXTENDS Integers, Sequences, SequencesExt

CONSTANTS
    TxIds,           \* how many transaction ids there are: 65536, and more
                     \* than MaxOutstanding + 1
    Requests,        \* how many requests a query makes, one at least
    MaxOutstanding   \* answers that may be unread or yet to come; a request
                     \* beyond them is lost

VARIABLES
    opened,    \* modbus_device_t.opened
    sock,      \* the connection: none, up, or closed by the server
    txid,      \* transcation_id
    step,      \* where the query in progress is
    left,      \* the requests it has yet to make
    asked,     \* the requests the server has yet to answer, oldest first
    inbox,     \* the answers in the socket, oldest first
    skewed,    \* the header of the first of them has been read already
    result,    \* what the last call of the driver returned
    taken      \* the answers the query has accepted

tcpVars ==
    <<opened, sock, txid, step, left, asked, inbox, skewed, result, taken>>

(* A request and its answer: own while the request is the one the driver   *)
(* waits for, refused when the server answers with an exception.           *)
Answer == [tx : 0 .. TxIds - 1, own : BOOLEAN, refused : BOOLEAN]

Results == {"OK", "IO", "BROKEN", "PROTOCOL", "TIMEOUT"}

Disowned(answers) ==
    [i \in DOMAIN answers |-> [answers[i] EXCEPT !.own = FALSE]]

-----------------------------------------------------------------------------
TcpInit ==
    /\ opened = FALSE
    /\ sock = "none"
    /\ txid = 0
    /\ step = "idle"
    /\ left = 0
    /\ asked = <<>>
    /\ inbox = <<>>
    /\ skewed = FALSE
    /\ result = "OK"
    /\ taken = {}

(* The query returns; what is in the socket or yet to come is no longer    *)
(* waited for.                                                             *)
Return(code) ==
    /\ result' = code
    /\ step' = "idle"
    /\ left' = 0

-----------------------------------------------------------------------------
(* modbus_destroy_driver, then modbus_create_driver: the adapter was       *)
(* provisioned anew.                                                       *)
Recreate ==
    /\ step = "idle"
    /\ opened' = FALSE
    /\ sock' = "none"
    /\ txid' = 0
    /\ asked' = <<>>
    /\ inbox' = <<>>
    /\ skewed' = FALSE
    /\ taken' = {}
    /\ UNCHANGED <<step, left, result>>

(* modbus_open and tcp_open: the connection fails, or it takes so long     *)
(* that the driver is not opened although the socket is, or it succeeds.   *)
(* A socket of an earlier attempt is left behind, not used again.          *)
Open ==
    /\ step = "idle"
    /\ ~opened
    /\ \/ /\ result' = "IO"
          /\ UNCHANGED <<opened, sock, asked, inbox, skewed>>
       \/ /\ result' \in {"OK", "TIMEOUT"}
          /\ opened' = (result' = "OK")
          /\ sock' = "up"
          /\ asked' = <<>>
          /\ inbox' = <<>>
          /\ skewed' = FALSE
    /\ taken' = {}
    /\ UNCHANGED <<txid, step, left>>

(* modbus_get_point_list.                                                  *)
ModbusGetPointList ==
    /\ step = "idle"
    /\ opened
    /\ step' = "send"
    /\ left' = Requests
    /\ taken' = {}
    /\ UNCHANGED <<opened, sock, txid, asked, inbox, skewed, result>>

-----------------------------------------------------------------------------
(* tcp_send_request: the id of the request is the next one.                *)

(* Mutant of the next: the id is wider than the 16 bits it has on the wire.*)
NextTxIdWide == txid + 1

NextTxId == (txid + 1) % TxIds

(* A request or an answer that is as old as there are ids is never met.    *)
Ageless ==
    \A answer \in ToSet(asked) \cup ToSet(inbox) : answer.tx # NextTxId

SendRequest ==
    /\ step = "send"
    /\ Ageless
    /\ txid' = NextTxId
    /\ left' = left - 1
    /\ \/ /\ step' = "header"
          /\ asked' = IF sock = "up" /\ Len(asked) + Len(inbox) < MaxOutstanding
                      THEN Append(Disowned(asked), [tx |-> txid', own |-> TRUE,
                                                    refused |-> FALSE])
                      ELSE Disowned(asked)
          /\ UNCHANGED result
       \/ /\ result' \in {"TIMEOUT", "IO"}
                     \cup (IF sock = "closed" THEN {"BROKEN"} ELSE {})
          /\ step' = "idle"
          /\ asked' = Disowned(asked)
    /\ inbox' = Disowned(inbox)
    /\ UNCHANGED <<opened, sock, skewed, taken>>

-----------------------------------------------------------------------------
(* tcp_recv_response.  Answers to earlier requests, which came too late    *)
(* for them, are read and dropped.                                         *)

(* Mutant of the next: an answer is dropped only if the driver asked for   *)
(* it just before.                                                         *)
DropsPrevious(tx) == tx + 1 = txid

Drops(tx) == tx < txid

(* Mutants of the next: the first answer will do; it is compared only with *)
(* the ids to come.                                                        *)
MismatchesNever(tx) == FALSE

Mismatches(tx) == tx # txid

ReadHeader ==
    /\ step = "header"
    /\ inbox # <<>>
    /\ ~skewed
    /\ step' = "body"
    /\ UNCHANGED <<opened, sock, txid, left, asked, inbox, skewed, result, taken>>

(* The answer is complete: drop it, or end the wait, and the query with it *)
(* unless it was accepted and another request is to follow.                *)
ReadBody ==
    /\ step = "body"
    /\ inbox' = Tail(inbox)
    /\ LET answer == Head(inbox)
       IN  \/ /\ Drops(answer.tx)
              /\ step' = "header"
              /\ UNCHANGED <<left, result, taken>>
           \/ /\ ~Drops(answer.tx)
              /\ Mismatches(answer.tx) \/ answer.refused
              /\ Return("PROTOCOL")
              /\ UNCHANGED taken
           \/ /\ ~Drops(answer.tx)
              /\ ~Mismatches(answer.tx)
              /\ ~answer.refused
              /\ taken' = taken \cup {answer.own}
              /\ \/ /\ left > 0
                    /\ step' = "send"
                    /\ UNCHANGED <<left, result>>
                 \/ left = 0 /\ Return("OK")
    /\ UNCHANGED <<opened, sock, txid, asked, skewed>>

(* The timeout expires, before a request, before a header or between       *)
(* header and body; what is left of the answer then begins the next read.  *)

(* Mutant of the next: the wait for an answer has no timeout.              *)
TimeoutAtSend ==
    /\ step = "send"
    /\ Return("TIMEOUT")
    /\ UNCHANGED <<opened, sock, txid, asked, inbox, skewed, taken>>

Timeout ==
    /\ step \in {"send", "header", "body", "drain"}
    /\ Return("TIMEOUT")
    /\ skewed' = IF step = "body" THEN TRUE ELSE skewed
    /\ UNCHANGED <<opened, sock, txid, asked, inbox, taken>>

(* A read of a socket that the server has closed.                          *)
ReadBroken ==
    /\ step \in {"header", "body"}
    /\ sock = "closed"
    /\ Return("BROKEN")
    /\ UNCHANGED <<opened, sock, txid, asked, inbox, skewed, taken>>

(* Bytes within an answer are read as a header.  The length they stand for *)
(* may be impossible: the driver reads on until nothing comes any more.    *)
(* Else some answers are lost in the body, and what passes for their id is *)
(* below the one waited for, another one, or by chance the same.           *)
ReadSkewed ==
    /\ step = "header"
    /\ inbox # <<>>
    /\ skewed
    /\ \/ /\ step' = "drain"
          /\ UNCHANGED <<left, inbox, skewed, result, taken>>
       \/ \E lost \in 1 .. Len(inbox) :
           /\ inbox' = SubSeq(inbox, lost + 1, Len(inbox))
           /\ skewed' \in IF inbox' = <<>> THEN {FALSE} ELSE BOOLEAN
           /\ \/ step' = "header" /\ UNCHANGED <<left, result, taken>>
              \/ Return("PROTOCOL") /\ UNCHANGED taken
              \/ /\ taken' = taken \cup {TRUE}
                 /\ \/ /\ left > 0
                       /\ step' = "send"
                       /\ UNCHANGED <<left, result>>
                    \/ left = 0 /\ Return("OK")
    /\ UNCHANGED <<opened, sock, txid, asked>>

Drain ==
    /\ step = "drain"
    /\ \/ /\ inbox # <<>>
          /\ inbox' = Tail(inbox)
          /\ skewed' = FALSE
          /\ UNCHANGED <<step, left, result>>
       \/ /\ inbox = <<>>
          /\ Return("PROTOCOL")
          /\ UNCHANGED <<inbox, skewed>>
    /\ UNCHANGED <<opened, sock, txid, asked, taken>>

-----------------------------------------------------------------------------
(* The server answers in turn, or not at all, and may close the connection.*)
ServerAnswers ==
    /\ sock = "up"
    /\ asked # <<>>
    /\ \E refused \in BOOLEAN :
        inbox' = Append(inbox, [Head(asked) EXCEPT !.refused = refused])
    /\ asked' = Tail(asked)
    /\ UNCHANGED <<opened, sock, txid, step, left, skewed, result, taken>>

ServerIgnores ==
    /\ asked # <<>>
    /\ asked' = Tail(asked)
    /\ UNCHANGED <<opened, sock, txid, step, left, inbox, skewed, result, taken>>

ServerCloses ==
    /\ sock = "up"
    /\ sock' = "closed"
    /\ asked' = <<>>
    /\ UNCHANGED <<opened, txid, step, left, inbox, skewed, result, taken>>

-----------------------------------------------------------------------------
Query ==
    SendRequest \/ ReadHeader \/ ReadBody \/ ReadSkewed \/ ReadBroken
    \/ Timeout \/ Drain

TcpNext ==
    \/ Recreate \/ Open \/ ModbusGetPointList \/ Query
    \/ ServerAnswers \/ ServerIgnores \/ ServerCloses

TcpSpec == TcpInit /\ [][TcpNext]_tcpVars

-----------------------------------------------------------------------------
(* The types of the state.                                                 *)
TcpTypeOK ==
    /\ opened \in BOOLEAN
    /\ sock \in {"none", "up", "closed"}
    /\ txid \in 0 .. TxIds - 1
    /\ step \in {"idle", "send", "header", "body", "drain"}
    /\ left \in 0 .. Requests
    /\ asked \in Seq(Answer)
    /\ inbox \in Seq(Answer)
    /\ skewed \in BOOLEAN
    /\ result \in Results
    /\ taken \subseteq BOOLEAN

(* The values of a query come from the answers to its own requests: an     *)
(* answer that came too late for an earlier query is never taken for one   *)
(* of this query, as long as it is read from its beginning.                *)
AnswersAreOwn == FALSE \notin taken

(* A late answer costs no later query: a query ends in a protocol error    *)
(* only if the server refused a request of its own, the socket was read    *)
(* out of step, or the ids have wrapped since the late answer was asked.   *)
LateAnswersAreHarmless ==
    [][step # "idle" /\ step' = "idle" /\ result' = "PROTOCOL" =>
          \/ skewed \/ step = "drain"
          \/ Head(inbox).own /\ Head(inbox).refused
          \/ Head(inbox).tx > txid]_tcpVars
=============================================================================
