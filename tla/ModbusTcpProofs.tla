-------------------------- MODULE ModbusTcpProofs ---------------------------
(***************************************************************************)
(* Proofs about ModbusTcp, for any number of transaction ids, of requests  *)
(* in a query and of answers under way: an answer that came too late for   *)
(* its query is never taken for one of another.                            *)
(*                                                                         *)
(* A request that is not the present one has another id: when a request is *)
(* sent, what was asked before has an id unlike the next (Ageless), and    *)
(* the id stays until the next request.                                    *)
(***************************************************************************)
EXTENDS ModbusTcp, TLAPS

(* Those of the answers that are not to the present request have another   *)
(* id than it has.                                                         *)
Told(answers, id) ==
    \A i \in 1 .. Len(answers) : answers[i].own \/ answers[i].tx # id

Counting ==
    /\ step = "send" => left > 0
    /\ step = "body" => inbox # <<>>

ToldApart == Told(asked, txid) /\ Told(inbox, txid)

Inv == TcpTypeOK /\ Counting /\ ToldApart /\ AnswersAreOwn

-----------------------------------------------------------------------------
(* Lists of answers.                                                       *)

(* What was waited for until now keeps its id (tcp_send_request).          *)
LEMMA DisownedType ==
  ASSUME NEW list \in Seq(Answer)
  PROVE  /\ Disowned(list) \in Seq(Answer)
         /\ Len(Disowned(list)) = Len(list)
         /\ \A i \in 1 .. Len(list) : Disowned(list)[i].tx = list[i].tx
  <1>1. DOMAIN list = 1 .. Len(list) /\ Len(list) \in Nat
    OBVIOUS
  <1>2. ASSUME NEW i \in 1 .. Len(list)
        PROVE  /\ [list[i] EXCEPT !.own = FALSE] \in Answer
               /\ [list[i] EXCEPT !.own = FALSE].tx = list[i].tx
    <2>1. list[i] \in Answer
      OBVIOUS
    <2> QED BY <2>1 DEF Answer
  <1>3. Disowned(list) = [i \in 1 .. Len(list) |->
                             [list[i] EXCEPT !.own = FALSE]]
    BY <1>1 DEF Disowned
  <1>4. Disowned(list) \in [1 .. Len(list) -> Answer]
    BY <1>2, <1>3
  <1>5. \A i \in 1 .. Len(list) : Disowned(list)[i].tx = list[i].tx
    BY <1>2, <1>3
  <1>6. Disowned(list) \in Seq(Answer) /\ Len(Disowned(list)) = Len(list)
    BY <1>1, <1>4
  <1> QED BY <1>5, <1>6

(* No list of answers has the id of the next request (tcp_send_request).   *)
LEMMA AgelessTold ==
  ASSUME TcpTypeOK, Ageless
  PROVE  Told(Disowned(asked), NextTxId) /\ Told(Disowned(inbox), NextTxId)
  <1>1. asked \in Seq(Answer) /\ inbox \in Seq(Answer)
    BY DEF TcpTypeOK
  <1>2. /\ \A i \in 1 .. Len(asked) : asked[i].tx # NextTxId
        /\ \A i \in 1 .. Len(inbox) : inbox[i].tx # NextTxId
    BY <1>1 DEF Ageless, ToSet
  <1> QED BY <1>1, <1>2, DisownedType DEF Told

(* Reading an answer, or some, leaves the others (tcp_recv_response).      *)
LEMMA TailTold ==
  ASSUME NEW list \in Seq(Answer), list # <<>>, NEW id, Told(list, id)
  PROVE  Tail(list) \in Seq(Answer) /\ Told(Tail(list), id)
  BY DEF Told

(* A part of what was told was told.                                       *)
LEMMA SubSeqTold ==
  ASSUME NEW list \in Seq(Answer), NEW lost \in 1 .. Len(list), NEW id,
         Told(list, id)
  PROVE  /\ SubSeq(list, lost + 1, Len(list)) \in Seq(Answer)
         /\ Told(SubSeq(list, lost + 1, Len(list)), id)
  BY DEF Told

(* A request that is sent, or an answer that comes, joins the others.      *)
LEMMA AppendTold ==
  ASSUME NEW list \in Seq(Answer), NEW answer \in Answer, NEW id,
         Told(list, id), answer.own \/ answer.tx # id
  PROVE  /\ Append(list, answer) \in Seq(Answer)
         /\ Told(Append(list, answer), id)
  <1>1. /\ Append(list, answer) \in Seq(Answer)
        /\ Len(Append(list, answer)) = Len(list) + 1
        /\ \A i \in 1 .. Len(list) : Append(list, answer)[i] = list[i]
        /\ Append(list, answer)[Len(list) + 1] = answer
    OBVIOUS
  <1> QED BY <1>1 DEF Told

(* No answers at all (tcp_open).                                           *)
LEMMA EmptyTold ==
  ASSUME NEW id
  PROVE  <<>> \in Seq(Answer) /\ Told(<<>>, id)
  BY DEF Told

-----------------------------------------------------------------------------
(* The request gets an id of its own (tcp_send_request).                   *)
LEMMA SendRequestInv ==
  ASSUME TxIds \in Nat \ {0}, Requests \in Nat \ {0}, Inv, SendRequest
  PROVE  Inv'
  <1> DEFINE request == [tx |-> txid', own |-> TRUE, refused |-> FALSE]
  <1>1. /\ TcpTypeOK /\ Counting /\ AnswersAreOwn /\ step = "send" /\ Ageless
        /\ txid' = NextTxId /\ left' = left - 1 /\ inbox' = Disowned(inbox)
        /\ UNCHANGED <<opened, sock, skewed, taken>>
        /\ step' \in {"header", "idle"} /\ result' \in Results
        /\ asked' \in {Disowned(asked), Append(Disowned(asked), request)}
    BY DEF Inv, SendRequest, TcpTypeOK, Results
  <1>2. txid' \in 0 .. TxIds - 1
    BY <1>1 DEF NextTxId, TcpTypeOK
  <1>3. left' \in 0 .. Requests
    BY <1>1 DEF TcpTypeOK, Counting
  <1>4. request \in Answer
    BY <1>2 DEF Answer
  <1>5. /\ Disowned(asked) \in Seq(Answer) /\ Told(Disowned(asked), txid')
        /\ Disowned(inbox) \in Seq(Answer) /\ Told(Disowned(inbox), txid')
    BY <1>1, DisownedType, AgelessTold DEF TcpTypeOK
  <1>6. asked' \in Seq(Answer) /\ Told(asked', txid')
    BY <1>1, <1>4, <1>5, AppendTold
  <1> QED
    BY <1>1, <1>2, <1>3, <1>5, <1>6
    DEF Inv, TcpTypeOK, Counting, ToldApart, Told, AnswersAreOwn

(* An answer is complete (tcp_recv_response): one that is taken has the id *)
(* of the request, and so answers it.                                      *)
LEMMA ReadBodyInv ==
  ASSUME Requests \in Nat \ {0}, Inv, ReadBody
  PROVE  Inv'
  <1> DEFINE answer == Head(inbox)
  <1>1. /\ TcpTypeOK /\ Counting /\ ToldApart /\ AnswersAreOwn
        /\ inbox \in Seq(Answer) /\ inbox # <<>> /\ inbox' = Tail(inbox)
        /\ UNCHANGED <<opened, sock, txid, asked, skewed>>
    BY DEF Inv, Counting, ReadBody, TcpTypeOK
  <1>2. inbox' \in Seq(Answer) /\ Told(inbox', txid)
    BY <1>1, TailTold DEF ToldApart
  <1>3. answer \in Answer /\ (answer.own \/ answer.tx # txid)
    BY <1>1 DEF ToldApart, Told
  <1>4. taken' \subseteq BOOLEAN /\ FALSE \notin taken'
    <2>1. \/ taken' = taken
          \/ ~Mismatches(answer.tx) /\ taken' = taken \cup {answer.own}
      BY DEF ReadBody
    <2>2. ~Mismatches(answer.tx) => answer.own
      BY <1>3 DEF Mismatches
    <2>3. answer.own \in BOOLEAN
      BY <1>3 DEF Answer
    <2> QED BY <1>1, <2>1, <2>2, <2>3 DEF TcpTypeOK, AnswersAreOwn
  <1>5. /\ step' \in {"header", "idle", "send"} /\ left' \in 0 .. Requests
        /\ result' \in Results /\ (step' = "send" => left' > 0)
    <2>1. \/ step' = "header" /\ UNCHANGED <<left, result>>
          \/ Return("PROTOCOL") \/ Return("OK")
          \/ step' = "send" /\ left > 0 /\ UNCHANGED <<left, result>>
      BY DEF ReadBody
    <2> QED BY <1>1, <2>1 DEF Return, TcpTypeOK, Results
  <1> QED
    BY <1>1, <1>2, <1>4, <1>5
    DEF Inv, TcpTypeOK, Counting, ToldApart, Told, AnswersAreOwn

(* Bytes within an answer are read as a header (tcp_recv_response).        *)
LEMMA ReadSkewedInv ==
  ASSUME Requests \in Nat \ {0}, Inv, ReadSkewed
  PROVE  Inv'
  <1>1. /\ TcpTypeOK /\ Counting /\ ToldApart /\ AnswersAreOwn
        /\ inbox \in Seq(Answer)
        /\ UNCHANGED <<opened, sock, txid, asked>>
    BY DEF Inv, ReadSkewed, TcpTypeOK
  <1>2. inbox' \in Seq(Answer) /\ Told(inbox', txid)
    BY <1>1, SubSeqTold DEF ReadSkewed, ToldApart
  <1>3. taken' \subseteq BOOLEAN /\ FALSE \notin taken'
    <2>1. taken' = taken \/ taken' = taken \cup {TRUE}
      BY DEF ReadSkewed
    <2> QED BY <1>1, <2>1 DEF TcpTypeOK, AnswersAreOwn
  <1>4. /\ step' \in {"drain", "header", "idle", "send"}
        /\ left' \in 0 .. Requests /\ result' \in Results
        /\ (step' = "send" => left' > 0) /\ skewed' \in BOOLEAN
    <2>1. \/ step' \in {"drain", "header"} /\ UNCHANGED <<left, result>>
          \/ Return("PROTOCOL") \/ Return("OK")
          \/ step' = "send" /\ left > 0 /\ UNCHANGED <<left, result>>
      BY DEF ReadSkewed
    <2>2. /\ step' \in {"drain", "header", "idle", "send"}
          /\ left' \in 0 .. Requests /\ result' \in Results
          /\ (step' = "send" => left' > 0)
      BY <1>1, <2>1 DEF Return, TcpTypeOK, Results
    <2>3. skewed' \in BOOLEAN
      <3>1. CASE skewed' = skewed
        BY <1>1, <3>1, Zenon DEF TcpTypeOK
      <3>2. CASE skewed' # skewed
        <4>1. skewed' \in {FALSE} \/ skewed' \in BOOLEAN
          BY <3>2 DEF ReadSkewed
        <4> QED BY <4>1, Zenon
      <3> QED BY <3>1, <3>2
    <2> QED BY <2>2, <2>3
  <1> QED
    BY <1>1, <1>2, <1>3, <1>4
    DEF Inv, TcpTypeOK, Counting, ToldApart, Told, AnswersAreOwn

(* What comes before the next answer is thrown away (tcp_recv_response).   *)
LEMMA DrainInv ==
  ASSUME Requests \in Nat \ {0}, Inv, Drain
  PROVE  Inv'
  <1>1. /\ TcpTypeOK /\ ToldApart /\ AnswersAreOwn /\ inbox \in Seq(Answer)
        /\ UNCHANGED <<opened, sock, txid, asked, taken>>
        /\ step' \in {"drain", "idle"} /\ left' \in 0 .. Requests
        /\ result' \in Results /\ skewed' \in BOOLEAN
    <2>1. TcpTypeOK /\ ToldApart /\ AnswersAreOwn
      BY DEF Inv
    <2>2. \/ step' = step /\ step = "drain" /\ UNCHANGED <<left, result>>
          \/ Return("PROTOCOL")
      BY DEF Drain
    <2>3. /\ step' \in {"drain", "idle"} /\ left' \in 0 .. Requests
          /\ result' \in Results
      BY <2>1, <2>2 DEF Return, TcpTypeOK, Results
    <2>4. skewed' \in BOOLEAN
      BY <2>1, Zenon DEF Drain, TcpTypeOK
    <2> QED BY <2>1, <2>3, <2>4 DEF Drain, TcpTypeOK
  <1>2. inbox' \in Seq(Answer) /\ Told(inbox', txid)
    BY <1>1, TailTold DEF Drain, ToldApart
  <1> QED
    BY <1>1, <1>2
    DEF Inv, TcpTypeOK, Counting, ToldApart, Told, AnswersAreOwn

(* The server answers requests in turn, or does not (external).            *)
LEMMA ServerInv ==
  ASSUME Inv, ServerAnswers \/ ServerIgnores
  PROVE  Inv'
  <1>1. /\ TcpTypeOK /\ Counting /\ ToldApart /\ AnswersAreOwn
        /\ asked \in Seq(Answer) /\ asked # <<>> /\ asked' = Tail(asked)
        /\ UNCHANGED <<opened, sock, txid, step, left, skewed, result, taken>>
    BY DEF Inv, TcpTypeOK, ServerAnswers, ServerIgnores
  <1>2. asked' \in Seq(Answer) /\ Told(asked', txid)
    BY <1>1, TailTold DEF ToldApart
  <1>3. inbox' \in Seq(Answer) /\ Told(inbox', txid) /\ (inbox # <<>> => inbox' # <<>>)
    <2>1. ASSUME NEW refused \in BOOLEAN,
                 inbox' = Append(inbox, [Head(asked) EXCEPT !.refused = refused])
          PROVE  /\ inbox' \in Seq(Answer) /\ Told(inbox', txid)
                 /\ inbox' # <<>>
      <3> DEFINE answer == [Head(asked) EXCEPT !.refused = refused]
      <3>1. Head(asked) \in Answer
            /\ (Head(asked).own \/ Head(asked).tx # txid)
        BY <1>1 DEF ToldApart, Told
      <3>2. answer \in Answer /\ (answer.own \/ answer.tx # txid)
        BY <3>1 DEF Answer
      <3>3. inbox \in Seq(Answer) /\ Told(inbox, txid)
        BY <1>1 DEF TcpTypeOK, ToldApart
      <3> HIDE DEF answer
      <3>4. inbox' = Append(inbox, answer)
        BY <2>1 DEF answer
      <3> QED BY <3>2, <3>3, <3>4, AppendTold
    <2>2. CASE ServerAnswers
      BY <2>1, <2>2 DEF ServerAnswers
    <2>3. CASE ServerIgnores
      BY <1>1, <2>3 DEF ServerIgnores, TcpTypeOK, ToldApart
    <2> QED BY <2>2, <2>3
  <1> QED
    BY <1>1, <1>2, <1>3
    DEF Inv, TcpTypeOK, Counting, ToldApart, Told, AnswersAreOwn

(* A connection that is made anew, or lost, carries no answers             *)
(* (modbus_create_driver, tcp_open).                                       *)
LEMMA ConnectionInv ==
  ASSUME TxIds \in Nat \ {0}, Requests \in Nat \ {0}, Inv,
         Recreate \/ Open \/ ServerCloses
  PROVE  Inv'
  <1>1. TcpTypeOK /\ Counting /\ ToldApart /\ AnswersAreOwn
    BY DEF Inv
  <1>2. CASE Recreate
    <2>1. TcpTypeOK'
      <3>1. 0 \in 0 .. TxIds - 1
        OBVIOUS
      <3> QED BY <1>1, <1>2, <3>1, EmptyTold DEF Recreate, TcpTypeOK
    <2>2. Counting' /\ ToldApart' /\ AnswersAreOwn'
      BY <1>1, <1>2, EmptyTold
      DEF Recreate, Counting, ToldApart, AnswersAreOwn
    <2> QED BY <2>1, <2>2 DEF Inv
  <1>3. CASE Open
    <2>1. /\ step = "idle" /\ step' = step /\ UNCHANGED <<txid, left>>
          /\ \/ asked' = asked /\ inbox' = inbox
             \/ asked' = <<>> /\ inbox' = <<>>
          /\ opened' \in BOOLEAN /\ sock' \in {"none", "up", "closed"}
          /\ skewed' \in BOOLEAN /\ result' \in Results /\ taken' = {}
      BY <1>1, <1>3 DEF Open, TcpTypeOK, Results
    <2>2. TcpTypeOK'
      BY <1>1, <2>1, EmptyTold DEF TcpTypeOK
    <2>3. Counting' /\ ToldApart' /\ AnswersAreOwn'
      BY <1>1, <2>1, EmptyTold DEF Counting, ToldApart, AnswersAreOwn
    <2> QED BY <2>2, <2>3 DEF Inv
  <1>4. CASE ServerCloses
    <2>1. TcpTypeOK'
      BY <1>1, <1>4, EmptyTold DEF ServerCloses, TcpTypeOK
    <2>2. Counting' /\ ToldApart' /\ AnswersAreOwn'
      BY <1>1, <1>4, EmptyTold
      DEF ServerCloses, Counting, ToldApart, AnswersAreOwn
    <2> QED BY <2>1, <2>2 DEF Inv
  <1> QED BY <1>2, <1>3, <1>4

(* The other steps change no list of answers.                              *)
LEMMA QuietInv ==
  ASSUME Requests \in Nat \ {0}, Inv,
         \/ ModbusGetPointList \/ ReadHeader \/ Timeout \/ ReadBroken
         \/ UNCHANGED tcpVars
  PROVE  Inv'
  <1>1. /\ UNCHANGED <<opened, sock, txid, asked, inbox>>
        /\ step' \in {"idle", "send", "header", "body", "drain"}
        /\ left' \in 0 .. Requests /\ result' \in Results
        /\ skewed' \in BOOLEAN /\ taken' \in {taken, {}}
        /\ Counting'
    <2>1. TcpTypeOK /\ Counting
      BY DEF Inv
    <2>2. CASE ModbusGetPointList
      BY <2>1, <2>2 DEF TcpTypeOK, Counting, ModbusGetPointList
    <2>3. CASE ReadHeader
      BY <2>1, <2>3 DEF TcpTypeOK, Counting, ReadHeader
    <2>4. CASE Timeout
      <3>1. skewed' \in BOOLEAN
        BY <2>1, <2>4, Zenon DEF TcpTypeOK, Timeout
      <3>2. /\ UNCHANGED <<opened, sock, txid, asked, inbox, taken>>
            /\ step' = "idle" /\ left' = 0 /\ result' \in Results
        BY <2>4 DEF Timeout, Return, Results
      <3> QED BY <3>1, <3>2 DEF Counting
    <2>5. CASE ReadBroken
      BY <2>1, <2>5 DEF TcpTypeOK, Counting, ReadBroken, Return, Results
    <2>6. CASE UNCHANGED tcpVars
      BY <2>1, <2>6 DEF TcpTypeOK, Counting, tcpVars
    <2> QED BY <2>2, <2>3, <2>4, <2>5, <2>6
  <1> QED BY <1>1 DEF Inv, TcpTypeOK, ToldApart, Told, AnswersAreOwn

-----------------------------------------------------------------------------
(* The invariant holds in every reachable state.                           *)
LEMMA SpecInv ==
  ASSUME TxIds \in Nat \ {0}, Requests \in Nat \ {0}
  PROVE  TcpSpec => []Inv
  <1>1. TcpInit => Inv
    <2>1. 0 \in 0 .. TxIds - 1 /\ 0 \in 0 .. Requests
      OBVIOUS
    <2>2. TcpInit => TcpTypeOK
      BY <2>1, EmptyTold DEF TcpInit, TcpTypeOK, Results
    <2>3. TcpInit => Counting /\ ToldApart /\ AnswersAreOwn
      BY EmptyTold DEF TcpInit, Counting, ToldApart, AnswersAreOwn
    <2> QED BY <2>2, <2>3 DEF Inv
  <1>2. Inv /\ [TcpNext]_tcpVars => Inv'
    BY SendRequestInv, ReadBodyInv, ReadSkewedInv, DrainInv, ServerInv,
       ConnectionInv, QuietInv DEF TcpNext, Query
  <1> QED BY <1>1, <1>2, PTL DEF TcpSpec

(* The state has its types; ids stay below TxIds (tcp_send_request).       *)
THEOREM TypeCorrect ==
  ASSUME TxIds \in Nat \ {0}, Requests \in Nat \ {0}
  PROVE  TcpSpec => []TcpTypeOK
  <1>1. Inv => TcpTypeOK
    BY DEF Inv
  <1> QED BY <1>1, SpecInv, PTL

(* The values of a query come from the answers to its own requests         *)
(* (tcp_recv_response).                                                    *)
THEOREM OwnAnswersOnly ==
  ASSUME TxIds \in Nat \ {0}, Requests \in Nat \ {0}
  PROVE  TcpSpec => []AnswersAreOwn
  <1>1. Inv => AnswersAreOwn
    BY DEF Inv
  <1> QED BY <1>1, SpecInv, PTL

(* A late answer costs no later query (tcp_recv_response): of the answers  *)
(* with the id of the request, or above it, only the one that is its own   *)
(* has its id.                                                             *)
THEOREM LateAnswersCostNothing ==
  ASSUME TxIds \in Nat \ {0}, Requests \in Nat \ {0}
  PROVE  TcpSpec => LateAnswersAreHarmless
  <1> DEFINE Ends == /\ step # "idle"
                     /\ step' = "idle"
                     /\ result' = "PROTOCOL"
             Excused == \/ skewed \/ step = "drain"
                        \/ Head(inbox).own /\ Head(inbox).refused
                        \/ Head(inbox).tx > txid
  <1>1. ASSUME Inv, TcpNext, Ends PROVE Excused
    <2>1. CASE ReadBody
      <3>1. TcpTypeOK /\ step = "body" /\ inbox # <<>> /\ inbox \in Seq(Answer)
        BY <1>1, <2>1 DEF Inv, Counting, TcpTypeOK, ReadBody
      <3>2. /\ Head(inbox) \in Answer
            /\ Head(inbox).own \/ Head(inbox).tx # txid
        BY <1>1, <3>1 DEF Inv, ToldApart, Told
      <3>3. Head(inbox).tx \in Int /\ txid \in Int
        BY <3>1, <3>2 DEF Answer, TcpTypeOK
      <3>4. /\ ~Drops(Head(inbox).tx)
            /\ Mismatches(Head(inbox).tx) \/ Head(inbox).refused
        BY <1>1, <2>1 DEF ReadBody, Return
      <3> QED BY <3>2, <3>3, <3>4 DEF Drops, Mismatches
    <2>2. CASE Drain \/ ReadSkewed
      BY <2>2 DEF Drain, ReadSkewed
    <2>3. CASE Recreate \/ Open \/ ModbusGetPointList \/ ServerAnswers
               \/ ServerIgnores \/ ServerCloses
      BY <1>1, <2>3
      DEF Recreate, Open, ModbusGetPointList, ServerAnswers, ServerIgnores,
          ServerCloses
    <2>4. CASE SendRequest \/ ReadHeader \/ ReadBroken \/ Timeout
      BY <1>1, <2>4 DEF SendRequest, ReadHeader, ReadBroken, Timeout, Return
    <2> QED BY <1>1, <2>1, <2>2, <2>3, <2>4 DEF TcpNext, Query
  <1>2. Inv /\ [TcpNext]_tcpVars => [Ends => Excused]_tcpVars
    BY <1>1
  <1> QED BY <1>2, SpecInv, PTL DEF TcpSpec, LateAnswersAreHarmless
=============================================================================
