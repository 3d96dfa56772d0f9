---------------------------- MODULE ExchangeProofs ----------------------------
(***************************************************************************)
(* Proofs about Exchange, for sizes of request, response and buffers of    *)
(* any kind: the inductive invariant ExchangeInv, and what follows from    *)
(* it.                                                                     *)
(***************************************************************************)
EXTENDS Exchange, TLAPS

(* What a request asks for stays the same, and so do the sizes that depend on it. *)
LEMMA SizesStay ==
    ASSUME Next
    PROVE  /\ kind' = kind
           /\ Answer' = Answer /\ Answer \in Nat /\ Answer <= Down
           /\ Request' = Request
<1>1. kind' = kind
  BY DEF Next, HandleRequest, SendRequest, RequestFails, EndRequest, ShowResponse,
     ResponseComplete, ResponseEnds, ResponseFails, EndCopies, CloseStream, CopyUp, UpEnds,
     CopyDown, DownEnds, HandleStream, Dial, DialFails, EndForward, CloseHandler,
     CopyToLocal, ToLocalEnds, CopyToServer, ToServerEnds, StreamCloseTimeout,
     ServiceReads, ServiceWrites, ServiceCloses, VisitorLeaves, LinkLost, worldVars
<1>2. Answer \in Nat /\ Answer <= Down
  BY ExchangeAssumption DEF Answer
<1> QED
  BY <1>1, <1>2 DEF Answer, Request

(* No buffer takes more than it has room for, and no unit passes a point before the
   one in front of it. *)
LEMMA TypeKept ==
    ASSUME TypeOK, Next
    PROVE  TypeOK'
<1> USE SizesStay, ExchangeAssumption
    DEF proxyVars, clientVars, worldVars, upVars, downVars
<1>1. CASE SendRequest
  BY <1>1 DEF TypeOK, SendRequest, Request, Writable, Full
<1>2. CASE RequestFails
  BY <1>2 DEF TypeOK, RequestFails, Finish
<1>3. CASE EndRequest
  BY <1>3 DEF TypeOK, EndRequest
<1>4. CASE ShowResponse
  BY <1>4 DEF TypeOK, ShowResponse
<1>5. CASE ResponseComplete
  BY <1>5 DEF TypeOK, ResponseComplete, Finish, Whole
<1>6. CASE ResponseEnds
  BY <1>6 DEF TypeOK, ResponseEnds, Finish, AtEnd, Whole
<1>7. CASE ResponseFails
  BY <1>7 DEF TypeOK, ResponseFails, Finish
<1>8. CASE EndCopies
  BY <1>8 DEF TypeOK, EndCopies, Finish
<1>9. CASE CloseStream
  BY <1>9 DEF TypeOK, CloseStream
<1>10. CASE CopyUp
  BY <1>10 DEF TypeOK, CopyUp, Writable, Full
<1>11. CASE UpEnds
  BY <1>11 DEF TypeOK, UpEnds
<1>12. CASE CopyDown
  BY <1>12 DEF TypeOK, CopyDown
<1>13. CASE DownEnds
  BY <1>13 DEF TypeOK, DownEnds
<1>14. CASE Dial
  BY <1>14 DEF TypeOK, Dial
<1>15. CASE DialFails
  BY <1>15 DEF TypeOK, DialFails
<1>16. CASE EndForward
  BY <1>16 DEF TypeOK, EndForward
<1>17. CASE CloseHandler
  BY <1>17 DEF TypeOK, CloseHandler
<1>18. CASE CopyToLocal
  BY <1>18 DEF TypeOK, CopyToLocal
<1>19. CASE ToLocalEnds
  BY <1>19 DEF TypeOK, ToLocalEnds
<1>20. CASE CopyToServer
  BY <1>20 DEF TypeOK, CopyToServer, Writable
<1>21. CASE ToServerEnds
  BY <1>21 DEF TypeOK, ToServerEnds, Writable
<1>22. CASE StreamCloseTimeout
  BY <1>22 DEF TypeOK, StreamCloseTimeout, Writable
<1>23. CASE ServiceReads
  BY <1>23 DEF TypeOK, ServiceReads
<1>24. CASE ServiceWrites
  BY <1>24 DEF TypeOK, ServiceWrites
<1>25. CASE ServiceCloses
  BY <1>25 DEF TypeOK, ServiceCloses
<1>26. CASE VisitorLeaves
  BY <1>26 DEF TypeOK, VisitorLeaves
<1>27. CASE LinkLost
  BY <1>27 DEF TypeOK, LinkLost
<1> QED
  BY <1>1, <1>2, <1>3, <1>4, <1>5, <1>6, <1>7, <1>8, <1>9, <1>10, <1>11, <1>12,
     <1>13, <1>14, <1>15, <1>16, <1>17, <1>18, <1>19, <1>20, <1>21, <1>22, <1>23,
     <1>24, <1>25, <1>26, <1>27 DEF Next, HandleRequest, HandleStream

(* The copy to the server has ended only if nothing more can come through it, and that
   stays so. *)
LEMMA PipeKept ==
    ASSUME TypeOK, PipeInv, Next
    PROVE  PipeInv'
<1> USE ExchangeAssumption DEF proxyVars, clientVars, worldVars, upVars, downVars
<1>1. CASE SendRequest
  BY <1>1 DEF TypeOK, PipeInv, SendRequest, Request, Writable, Full
<1>2. CASE RequestFails
  BY <1>2 DEF TypeOK, PipeInv, RequestFails, Finish, Writable
<1>3. CASE EndRequest
  BY <1>3 DEF TypeOK, PipeInv, EndRequest, Writable
<1>4. CASE ShowResponse
  BY <1>4 DEF TypeOK, PipeInv, ShowResponse, Writable
<1>5. CASE ResponseComplete
  BY <1>5 DEF TypeOK, PipeInv, ResponseComplete, Finish, Whole, Writable
<1>6. CASE ResponseEnds
  BY <1>6 DEF TypeOK, PipeInv, ResponseEnds, Finish, AtEnd, Whole, Writable
<1>7. CASE ResponseFails
  BY <1>7 DEF TypeOK, PipeInv, ResponseFails, Finish, Writable
<1>8. CASE EndCopies
  BY <1>8 DEF TypeOK, PipeInv, EndCopies, Finish, Writable
<1>9. CASE CloseStream
  BY <1>9 DEF TypeOK, PipeInv, CloseStream, Writable
<1>10. CASE CopyUp
  BY <1>10 DEF TypeOK, PipeInv, CopyUp, Writable, Full
<1>11. CASE UpEnds
  BY <1>11 DEF TypeOK, PipeInv, UpEnds, Writable
<1>12. CASE CopyDown
  BY <1>12 DEF TypeOK, PipeInv, CopyDown, Writable
<1>13. CASE DownEnds
  BY <1>13 DEF TypeOK, PipeInv, DownEnds, Writable
<1>14. CASE Dial
  BY <1>14 DEF TypeOK, PipeInv, Dial, Writable
<1>15. CASE DialFails
  BY <1>15 DEF TypeOK, PipeInv, DialFails, Writable
<1>16. CASE EndForward
  BY <1>16 DEF TypeOK, PipeInv, EndForward, Writable
<1>17. CASE CloseHandler
  BY <1>17 DEF TypeOK, PipeInv, CloseHandler, Writable
<1>18. CASE CopyToLocal
  BY <1>18 DEF TypeOK, PipeInv, CopyToLocal, Writable
<1>19. CASE ToLocalEnds
  BY <1>19 DEF TypeOK, PipeInv, ToLocalEnds, Writable
<1>20. CASE CopyToServer
  BY <1>20 DEF TypeOK, PipeInv, CopyToServer, Writable
<1>21. CASE ToServerEnds
  BY <1>21 DEF TypeOK, PipeInv, ToServerEnds, Writable
<1>22. CASE StreamCloseTimeout
  BY <1>22 DEF TypeOK, PipeInv, StreamCloseTimeout, Writable
<1>23. CASE ServiceReads
  BY <1>23 DEF TypeOK, PipeInv, ServiceReads, Writable
<1>24. CASE ServiceWrites
  BY <1>24 DEF TypeOK, PipeInv, ServiceWrites, Writable
<1>25. CASE ServiceCloses
  BY <1>25 DEF TypeOK, PipeInv, ServiceCloses, Writable
<1>26. CASE VisitorLeaves
  BY <1>26 DEF TypeOK, PipeInv, VisitorLeaves, Writable
<1>27. CASE LinkLost
  BY <1>27 DEF TypeOK, PipeInv, LinkLost, Writable
<1> QED
  BY <1>1, <1>2, <1>3, <1>4, <1>5, <1>6, <1>7, <1>8, <1>9, <1>10, <1>11, <1>12,
     <1>13, <1>14, <1>15, <1>16, <1>17, <1>18, <1>19, <1>20, <1>21, <1>22, <1>23,
     <1>24, <1>25, <1>26, <1>27 DEF Next, HandleRequest, HandleStream

(* The response is judged once.  The end of the stream, if the session is alive, is that
   of the client's handler, and by then the service has closed. *)
LEMMA OutcomeKept ==
    ASSUME TypeOK, PipeInv, OutcomeInv, WaitInv, Next
    PROVE  OutcomeInv'
<1> USE SizesStay, ExchangeAssumption DEF ShortIsCut, Cut, proxyVars, clientVars,
          worldVars, upVars, downVars
<1>1. CASE SendRequest
  BY <1>1 DEF TypeOK, OutcomeInv, SendRequest, Request, Writable, Full
<1>2. CASE RequestFails
  BY <1>2 DEF TypeOK, OutcomeInv, RequestFails, Finish
<1>3. CASE EndRequest
  BY <1>3 DEF TypeOK, OutcomeInv, EndRequest
<1>4. CASE ShowResponse
  BY <1>4 DEF TypeOK, OutcomeInv, ShowResponse
<1>5. CASE ResponseComplete
  BY <1>5 DEF TypeOK, OutcomeInv, ResponseComplete, Finish, Whole
<1>6. CASE ResponseEnds
  BY <1>6 DEF TypeOK, OutcomeInv, ResponseEnds, Finish, AtEnd, Whole, PipeInv, WaitInv, Writable
<1>7. CASE ResponseFails
  <2>1. /\ proxy' = "close" /\ outcome' \in {"served", "failed"}
        /\ proxy = "response" /\ copying = {}
        /\ UNCHANGED <<copying, proxyEnd, clientVars, worldVars, upVars, downVars>>
    BY <1>7 DEF ResponseFails, Finish, OutcomeInv, TypeOK
  <2>2. CASE reset /\ Finish("failed")
    <3>1. clientEnd /\ forward = "done" /\ "toServer" \notin piping /\ ~proxyEnd
      BY <2>1, <2>2 DEF PipeInv, WaitInv, TypeOK
    <3>2. ShortIsCut'
      BY <2>1, <2>2, <3>1 DEF PipeInv, TypeOK
    <3> QED
      BY <2>1, <2>2, <3>2 DEF OutcomeInv, Finish
  <2>3. CASE ~visitor /\ 0 < shown /\ shown < relayed
    <3>1. kind # "head"
      BY <2>3 DEF TypeOK, Answer
    <3> QED
      BY <2>1, <2>3, <3>1 DEF OutcomeInv
  <2> QED
    BY <1>7, <2>2, <2>3 DEF ResponseFails
<1>8. CASE EndCopies
  BY <1>8 DEF TypeOK, OutcomeInv, EndCopies, Finish
<1>9. CASE CloseStream
  BY <1>9 DEF TypeOK, OutcomeInv, CloseStream
<1>10. CASE CopyUp
  BY <1>10 DEF TypeOK, OutcomeInv, CopyUp, Writable, Full
<1>11. CASE UpEnds
  BY <1>11 DEF TypeOK, OutcomeInv, UpEnds
<1>12. CASE CopyDown
  BY <1>12 DEF TypeOK, OutcomeInv, CopyDown
<1>13. CASE DownEnds
  BY <1>13 DEF TypeOK, OutcomeInv, DownEnds
<1>14. CASE Dial
  BY <1>14 DEF TypeOK, OutcomeInv, Dial
<1>15. CASE DialFails
  BY <1>15 DEF TypeOK, OutcomeInv, DialFails
<1>16. CASE EndForward
  BY <1>16 DEF TypeOK, OutcomeInv, EndForward
<1>17. CASE CloseHandler
  BY <1>17 DEF TypeOK, OutcomeInv, CloseHandler
<1>18. CASE CopyToLocal
  BY <1>18 DEF TypeOK, OutcomeInv, CopyToLocal
<1>19. CASE ToLocalEnds
  BY <1>19 DEF TypeOK, OutcomeInv, ToLocalEnds
<1>20. CASE CopyToServer
  BY <1>20 DEF TypeOK, OutcomeInv, CopyToServer, Writable
<1>21. CASE ToServerEnds
  BY <1>21 DEF TypeOK, OutcomeInv, ToServerEnds, Writable
<1>22. CASE StreamCloseTimeout
  BY <1>22 DEF TypeOK, OutcomeInv, StreamCloseTimeout, Writable
<1>23. CASE ServiceReads
  BY <1>23 DEF TypeOK, OutcomeInv, ServiceReads
<1>24. CASE ServiceWrites
  BY <1>24 DEF TypeOK, OutcomeInv, ServiceWrites
<1>25. CASE ServiceCloses
  BY <1>25 DEF TypeOK, OutcomeInv, ServiceCloses
<1>26. CASE VisitorLeaves
  BY <1>26 DEF TypeOK, OutcomeInv, VisitorLeaves
<1>27. CASE LinkLost
  BY <1>27 DEF TypeOK, OutcomeInv, LinkLost
<1> QED
  BY <1>1, <1>2, <1>3, <1>4, <1>5, <1>6, <1>7, <1>8, <1>9, <1>10, <1>11, <1>12,
     <1>13, <1>14, <1>15, <1>16, <1>17, <1>18, <1>19, <1>20, <1>21, <1>22, <1>23,
     <1>24, <1>25, <1>26, <1>27 DEF Next, HandleRequest, HandleStream

(* Ends are told, and a copy that has ended has had a reason that lasts. *)
LEMMA WaitKept ==
    ASSUME TypeOK, PipeInv, OutcomeInv, WaitInv, Next
    PROVE  WaitInv'
<1> USE SizesStay, ExchangeAssumption
    DEF proxyVars, clientVars, worldVars, upVars, downVars
<1>1. CASE SendRequest
  BY <1>1 DEF TypeOK, PipeInv, OutcomeInv, WaitInv, SendRequest, Writable, Full
<1>2. CASE RequestFails
  BY <1>2 DEF TypeOK, PipeInv, OutcomeInv, WaitInv, RequestFails, Finish, Writable
<1>3. CASE EndRequest
  BY <1>3 DEF TypeOK, PipeInv, OutcomeInv, WaitInv, EndRequest, Writable
<1>4. CASE ShowResponse
  BY <1>4 DEF TypeOK, PipeInv, OutcomeInv, WaitInv, ShowResponse, Writable
<1>5. CASE ResponseComplete
  BY <1>5 DEF TypeOK, PipeInv, OutcomeInv, WaitInv, ResponseComplete, Finish, Whole, Writable
<1>6. CASE ResponseEnds
  BY <1>6 DEF TypeOK, PipeInv, OutcomeInv, WaitInv, ResponseEnds, Finish, AtEnd, Whole, Writable
<1>7. CASE ResponseFails
  BY <1>7 DEF TypeOK, PipeInv, OutcomeInv, WaitInv, ResponseFails, Finish, Writable
<1>8. CASE EndCopies
  BY <1>8 DEF TypeOK, PipeInv, OutcomeInv, WaitInv, EndCopies, Finish, Writable
<1>9. CASE CloseStream
  BY <1>9 DEF TypeOK, PipeInv, OutcomeInv, WaitInv, CloseStream, Writable
<1>10. CASE CopyUp
  BY <1>10 DEF TypeOK, PipeInv, OutcomeInv, WaitInv, CopyUp, Writable, Full
<1>11. CASE UpEnds
  BY <1>11 DEF TypeOK, PipeInv, OutcomeInv, WaitInv, UpEnds, Writable
<1>12. CASE CopyDown
  BY <1>12 DEF TypeOK, PipeInv, OutcomeInv, WaitInv, CopyDown, Writable
<1>13. CASE DownEnds
  BY <1>13 DEF TypeOK, PipeInv, OutcomeInv, WaitInv, DownEnds, Writable
<1>14. CASE Dial
  BY <1>14 DEF TypeOK, PipeInv, OutcomeInv, WaitInv, Dial, Writable
<1>15. CASE DialFails
  BY <1>15 DEF TypeOK, PipeInv, OutcomeInv, WaitInv, DialFails, Writable
<1>16. CASE EndForward
  BY <1>16 DEF TypeOK, PipeInv, OutcomeInv, WaitInv, EndForward, Writable
<1>17. CASE CloseHandler
  BY <1>17 DEF TypeOK, PipeInv, OutcomeInv, WaitInv, CloseHandler, Writable
<1>18. CASE CopyToLocal
  BY <1>18 DEF TypeOK, PipeInv, OutcomeInv, WaitInv, CopyToLocal, Writable
<1>19. CASE ToLocalEnds
  BY <1>19 DEF TypeOK, PipeInv, OutcomeInv, WaitInv, ToLocalEnds, Writable
<1>20. CASE CopyToServer
  BY <1>20 DEF TypeOK, PipeInv, OutcomeInv, WaitInv, CopyToServer, Writable
<1>21. CASE ToServerEnds
  BY <1>21 DEF TypeOK, PipeInv, OutcomeInv, WaitInv, ToServerEnds, Writable
<1>22. CASE StreamCloseTimeout
  BY <1>22 DEF TypeOK, PipeInv, OutcomeInv, WaitInv, StreamCloseTimeout, Writable
<1>23. CASE ServiceReads
  BY <1>23 DEF TypeOK, PipeInv, OutcomeInv, WaitInv, ServiceReads, Writable
<1>24. CASE ServiceWrites
  BY <1>24 DEF TypeOK, PipeInv, OutcomeInv, WaitInv, ServiceWrites, Writable
<1>25. CASE ServiceCloses
  BY <1>25 DEF TypeOK, PipeInv, OutcomeInv, WaitInv, ServiceCloses, Writable
<1>26. CASE VisitorLeaves
  BY <1>26 DEF TypeOK, PipeInv, OutcomeInv, WaitInv, VisitorLeaves, Writable
<1>27. CASE LinkLost
  BY <1>27 DEF TypeOK, PipeInv, OutcomeInv, WaitInv, LinkLost, Writable
<1> QED
  BY <1>1, <1>2, <1>3, <1>4, <1>5, <1>6, <1>7, <1>8, <1>9, <1>10, <1>11, <1>12,
     <1>13, <1>14, <1>15, <1>16, <1>17, <1>18, <1>19, <1>20, <1>21, <1>22, <1>23,
     <1>24, <1>25, <1>26, <1>27 DEF Next, HandleRequest, HandleStream

LEMMA InvariantInductive == Spec => []ExchangeInv
<1>1. Init => ExchangeInv
  <2> SUFFICES ASSUME Init PROVE ExchangeInv
    OBVIOUS
  <2>1. TypeOK
    <3>1. {visitor, link, reset, service, proxyEnd, clientEnd, halfClosed} \subseteq BOOLEAN
      BY DEF Init
    <3>2. /\ sent \in 0 .. Up /\ copied \in 0 .. sent /\ got \in 0 .. copied
          /\ written \in 0 .. Answer /\ relayed \in 0 .. written /\ shown \in 0 .. relayed
          /\ sent - copied <= Window /\ relayed - shown <= Window
          /\ copied - got <= Buffer /\ written - relayed <= Buffer
      BY ExchangeAssumption DEF Init, Answer
    <3> QED BY <3>1, <3>2 DEF Init, TypeOK
  <2>2. PipeInv
    BY DEF Init, PipeInv
  <2>3. OutcomeInv
    BY DEF Init, OutcomeInv, ShortIsCut
  <2>4. WaitInv
    BY DEF Init, WaitInv
  <2> QED BY <2>1, <2>2, <2>3, <2>4 DEF ExchangeInv
<1>2. ExchangeInv /\ [Next]_vars => ExchangeInv'
  <2> SUFFICES ASSUME ExchangeInv, [Next]_vars PROVE ExchangeInv'
    OBVIOUS
  <2>1. CASE Next
    BY <2>1, TypeKept, PipeKept, OutcomeKept, WaitKept DEF ExchangeInv
  <2>2. CASE UNCHANGED vars
    BY <2>2 DEF ExchangeInv, TypeOK, PipeInv, OutcomeInv, WaitInv, Writable, vars,
                Request, Answer, ShortIsCut, Cut, proxyVars, clientVars, worldVars, upVars, downVars
  <2> QED BY <2>1, <2>2
<1> QED BY <1>1, <1>2, PTL DEF Spec

(* Every variable has its type, and every buffer its limit, whoever is slow. *)
THEOREM ExchangeTypeCorrect == Spec => []TypeOK
<1>1. ExchangeInv => TypeOK
  BY DEF ExchangeInv
<1> QED BY <1>1, InvariantInductive, PTL

(* What is completed, or shown when the proxy ends, is the whole response, or was cut for
   a reason that can be named: the invariant says that whatever ended the stream had
   nothing more to deliver. *)
THEOREM ServedAlwaysWhole == Spec => []ServedIsWhole
<1>1. ExchangeInv => CompletedIsWhole
  <2> SUFFICES ASSUME ExchangeInv, outcome = "served", kind # "websocket", visitor
               PROVE  IF kind = "unframed"
                      THEN shown = written \/ ~link \/ (~service /\ got < copied)
                      ELSE shown = Answer
    BY DEF CompletedIsWhole
  <2>1. CASE kind = "framed"
    BY <2>1 DEF ExchangeInv, OutcomeInv, Answer
  <2>2. CASE kind = "unframed"
    BY <2>2 DEF ExchangeInv, OutcomeInv
  <2>3. kind # "head"
    BY DEF ExchangeInv, OutcomeInv
  <2> QED BY <2>1, <2>2, <2>3 DEF ExchangeInv, TypeOK, Kinds
<1>2. ExchangeInv => ShortIsCut
  BY DEF ExchangeInv, OutcomeInv
<1> QED BY <1>1, <1>2, InvariantInductive, PTL DEF ServedIsWhole

-------------------------------------------------------------------------------

(* While the local service is there and the stream alive, the copies of the client run;
   if all wait, all that was sent has been read, all that was written has been passed
   on, and only an upgraded connection has nothing more to do, and a proxy that waits for
   more than the answer to HEAD. *)
LEMMA ServiceAlive ==
    ASSUME ExchangeInv, AllWait, forward = "pipe", service
    PROVE  /\ link
           /\ \/ proxy = "copy"
              \/ proxy = "response" /\ kind = "head" /\ shown = Answer
<1> USE ExchangeAssumption
<1>1. got = copied /\ ~ServiceMayClose
  BY DEF AllWait, ServiceWaits
<1>2. ~halfClosed
  BY <1>1 DEF ServiceMayClose
<1>3. "toLocal" \in piping
  BY <1>2 DEF ExchangeInv, WaitInv
<1>4. Writable /\ copied = sent /\ ~proxyEnd
  BY <1>1, <1>3 DEF AllWait, ClientWaits, ExchangeInv, TypeOK
<1>5. "toServer" \in piping
  BY <1>4 DEF ExchangeInv, WaitInv
<1>6. RelayBlocked \/ relayed = written
  BY <1>5 DEF AllWait, ClientWaits
<1>7. proxy # "done" /\ ~RequestBlocked
  BY <1>4 DEF ExchangeInv, WaitInv, TypeOK, RequestBlocked, Full
<1>8. ASSUME proxy = "response" PROVE kind = "head" /\ shown = Answer
  <2>1. ~Whole /\ shown = relayed
    BY <1>7, <1>8 DEF AllWait, ProxyWaits, NothingToShow
  <2>2. relayed = written
    BY <1>6, <2>1 DEF RelayBlocked, ExchangeInv, TypeOK
  <2>3. got > 0 /\ kind # "websocket"
    BY <1>1, <1>4, <1>8 DEF ExchangeInv, WaitInv, Request
  <2>4. written = Answer
    BY <2>2, <2>3 DEF AllWait, ServiceWaits, ExchangeInv, TypeOK
  <2>5. kind # "head" => written = Down
    BY <2>4 DEF Answer
  <2> QED
    BY <1>1, <2>1, <2>2, <2>3, <2>4, <2>5
    DEF Whole, ServiceMayClose, ExchangeInv, TypeOK, Kinds
<1> QED
  BY <1>4, <1>7, <1>8 DEF AllWait, ProxyWaits, Writable

(* With the service gone, the copy to it waits for the end of the stream only, and the
   copy to the server for room in it only. *)
LEMMA ServiceGone ==
    ASSUME ExchangeInv, AllWait, forward = "pipe", ~service
    PROVE  /\ link
           /\ \/ proxy = "copy"
              \/ proxy = "response" /\ "toServer" \notin piping
              \/ proxy = "request" /\ RequestBlocked /\ RelayBlocked
<1> USE ExchangeAssumption
<1>1. CASE "toServer" \in piping
  <2>1. RelayBlocked
    BY <1>1 DEF AllWait, ClientWaits
  <2>2. Writable /\ shown < relayed
    BY <2>1 DEF RelayBlocked, ExchangeInv, TypeOK
  <2>3. ~clientEnd
    BY DEF ExchangeInv, PipeInv
  <2>4. proxy # "done"
    BY <2>2, <2>3 DEF AllWait, ExchangeInv, WaitInv, TypeOK
  <2> QED
    BY <2>1, <2>2, <2>4
    DEF AllWait, ProxyWaits, NothingToShow, Writable, ExchangeInv, TypeOK, RequestBlocked
<1>2. CASE "toServer" \notin piping
  <2>1. "toLocal" \in piping
    BY <1>2 DEF AllWait, ClientWaits, ExchangeInv, TypeOK
  <2>2. Writable /\ copied = sent /\ ~proxyEnd
    BY <2>1 DEF AllWait, ClientWaits, ExchangeInv, TypeOK
  <2>3. proxy # "done" /\ ~RequestBlocked
    BY <2>2 DEF ExchangeInv, WaitInv, TypeOK, RequestBlocked, Full
  <2> QED
    BY <1>2, <2>2, <2>3 DEF AllWait, ProxyWaits, Writable
<1> QED
  BY <1>1, <1>2

(* With the handler of the client gone, its end of the stream is closed, and the timer
   or the end of the session has taken the stream from a proxy that has not seen it. *)
LEMMA HandlerGone ==
    ASSUME ExchangeInv, AllWait, forward = "done"
    PROVE  proxy = "done" \/ (proxy = "copy" /\ visitor)
<1>1. clientEnd /\ (Writable => proxyEnd)
  <2>1. clientEnd = TRUE /\ proxyEnd \in BOOLEAN
    BY DEF ExchangeInv, PipeInv, TypeOK
  <2>2. Writable => proxyEnd = TRUE
    BY <2>1 DEF AllWait
  <2> QED
    BY <2>1, <2>2
<1>2. SUFFICES ASSUME proxy # "done"
               PROVE  proxy = "copy" /\ visitor
  OBVIOUS
<1>3. ~Writable
  BY <1>1, <1>2 DEF ExchangeInv, WaitInv
<1>4. ~NothingToShow
  BY <1>3 DEF NothingToShow, Writable, AtEnd
<1>5. ~RequestBlocked /\ ~UpBlocked
  BY <1>3 DEF RequestBlocked, UpBlocked
<1> QED
  BY <1>2, <1>4, <1>5 DEF AllWait, ProxyWaits, ExchangeInv, TypeOK

(* Whatever the sizes, the parties wait for each other in no way but those that
   NoCircularWait names. *)
THEOREM WaitsAreKnown == Spec => []NoCircularWait
<1>1. ExchangeInv => NoCircularWait
  <2> SUFFICES ASSUME ExchangeInv, AllWait PROVE NoCircularWait
    BY DEF NoCircularWait
  <2>1. forward = "pipe" \/ forward = "done"
    BY DEF AllWait, ClientWaits
  <2>2. CASE forward = "pipe" /\ service
    BY <2>2, ServiceAlive DEF NoCircularWait
  <2>3. CASE forward = "pipe" /\ ~service
    BY <2>3, ServiceGone DEF NoCircularWait
  <2>4. CASE forward = "done"
    BY <2>4, HandlerGone DEF NoCircularWait
  <2> QED
    BY <2>1, <2>2, <2>3, <2>4 DEF ExchangeInv, TypeOK
<1> QED BY <1>1, InvariantInductive, PTL

(* Every step adds to the work that is done, and types bound it. *)
LEMMA StepsAdvance ==
    ASSUME TypeOK, WaitInv, Next
    PROVE  Work < Work' /\ Work' <= 3 * Up + 3 * Down + 18
<1>0. TypeOK'
  BY TypeKept
<1>b. Work' <= 3 * Up + 3 * Down + 18
  <2>1. (sent <= Up /\ copied <= Up /\ got <= Up)'
    BY <1>0, ExchangeAssumption DEF TypeOK
  <2>2. (written <= Down /\ relayed <= Down /\ shown <= Down)'
    BY <1>0, SizesStay, ExchangeAssumption DEF TypeOK
  <2>3. ({sent, copied, got, written, relayed, shown} \subseteq Nat)'
    BY <1>0, SizesStay, ExchangeAssumption DEF TypeOK
  <2>4. \A step : Rank(step) \in 0 .. 5
    BY DEF Rank
  <2>5. \A there : Gone(there) \in 0 .. 1
    BY DEF Gone
  <2>6. Work' = sent' + copied' + got' + written' + relayed' + shown'
                + Rank(proxy)' + Rank(forward)'
                + Gone("up" \in copying)' + Gone("down" \in copying)'
                + Gone("toLocal" \in piping)' + Gone("toServer" \in piping)'
                + Gone(visitor)' + Gone(link)' + Gone(service)' + Gone(~reset)'
    BY DEF Work
  <2>7. /\ Rank(proxy)' \in 0 .. 5 /\ Rank(forward)' \in 0 .. 5
        /\ Gone("up" \in copying)' \in 0 .. 1 /\ Gone("down" \in copying)' \in 0 .. 1
        /\ Gone("toLocal" \in piping)' \in 0 .. 1
        /\ Gone("toServer" \in piping)' \in 0 .. 1
        /\ Gone(visitor)' \in 0 .. 1 /\ Gone(link)' \in 0 .. 1
        /\ Gone(service)' \in 0 .. 1 /\ Gone(~reset)' \in 0 .. 1
    BY <2>4, <2>5
  <2> QED
    BY <2>1, <2>2, <2>3, <2>6, <2>7, ExchangeAssumption
<1>n. {sent, copied, got, written, relayed, shown} \subseteq Nat
  BY SizesStay, ExchangeAssumption DEF TypeOK
<1> USE <1>n DEF proxyVars, clientVars, worldVars, upVars, downVars, TypeOK, Work, Rank, Gone
<1>1. ASSUME SendRequest PROVE Work < Work'
  BY <1>1 DEF SendRequest, Request, Writable, Full
<1>2. ASSUME RequestFails PROVE Work < Work'
  BY <1>2 DEF RequestFails, Finish
<1>3. ASSUME EndRequest PROVE Work < Work'
  BY <1>3 DEF EndRequest
<1>4. ASSUME ShowResponse PROVE Work < Work'
  BY <1>4 DEF ShowResponse
<1>5. ASSUME ResponseComplete PROVE Work < Work'
  BY <1>5 DEF ResponseComplete, Finish, Whole
<1>6. ASSUME ResponseEnds PROVE Work < Work'
  BY <1>6 DEF ResponseEnds, Finish, AtEnd, Whole
<1>7. ASSUME ResponseFails PROVE Work < Work'
  BY <1>7 DEF ResponseFails, Finish
<1>8. ASSUME EndCopies PROVE Work < Work'
  BY <1>8 DEF EndCopies, Finish
<1>9. ASSUME CloseStream PROVE Work < Work'
  BY <1>9 DEF CloseStream
<1>10. ASSUME CopyUp PROVE Work < Work'
  BY <1>10 DEF CopyUp, Writable, Full
<1>11. ASSUME UpEnds PROVE Work < Work'
  BY <1>11 DEF UpEnds
<1>12. ASSUME CopyDown PROVE Work < Work'
  BY <1>12 DEF CopyDown
<1>13. ASSUME DownEnds PROVE Work < Work'
  BY <1>13 DEF DownEnds
<1>14. ASSUME Dial PROVE Work < Work'
  BY <1>14 DEF Dial
<1>15. ASSUME DialFails PROVE Work < Work'
  BY <1>15 DEF DialFails
<1>16. ASSUME EndForward PROVE Work < Work'
  BY <1>16 DEF EndForward
<1>17. ASSUME CloseHandler PROVE Work < Work'
  BY <1>17 DEF CloseHandler
<1>18. ASSUME CopyToLocal PROVE Work < Work'
  BY <1>18 DEF CopyToLocal
<1>19. ASSUME ToLocalEnds PROVE Work < Work'
  BY <1>19 DEF ToLocalEnds
<1>20. ASSUME CopyToServer PROVE Work < Work'
  BY <1>20 DEF CopyToServer, Writable
<1>21. ASSUME ToServerEnds PROVE Work < Work'
  BY <1>21 DEF ToServerEnds, Writable
<1>22. ASSUME StreamCloseTimeout PROVE Work < Work'
  BY <1>22 DEF StreamCloseTimeout, Writable
<1>23. ASSUME ServiceReads PROVE Work < Work'
  BY <1>23 DEF ServiceReads
<1>24. ASSUME ServiceWrites PROVE Work < Work'
  BY <1>24 DEF ServiceWrites
<1>25. ASSUME ServiceCloses PROVE Work < Work'
  BY <1>25 DEF ServiceCloses
<1>26. ASSUME VisitorLeaves PROVE Work < Work'
  BY <1>26 DEF VisitorLeaves
<1>27. ASSUME LinkLost PROVE Work < Work'
  BY <1>27 DEF LinkLost
<1> QED
  BY <1>b, <1>1, <1>2, <1>3, <1>4, <1>5, <1>6, <1>7, <1>8, <1>9, <1>10, <1>11, <1>12,
     <1>13, <1>14, <1>15, <1>16, <1>17, <1>18, <1>19, <1>20, <1>21, <1>22, <1>23,
     <1>24, <1>25, <1>26, <1>27 DEF Next, HandleRequest, HandleStream

(* No step is taken for nothing: an exchange has at most as many as its sizes allow. *)
THEOREM StepsAlwaysBounded == Spec => StepsAreBounded
<1>1. ExchangeInv /\ [Next]_vars =>
          [Work < Work' /\ Work' <= 3 * Up + 3 * Down + 18]_vars
  BY StepsAdvance DEF ExchangeInv
<1> QED BY <1>1, InvariantInductive, PTL DEF Spec, StepsAreBounded

===============================================================================
