--------------------------- MODULE UrbPathProofs ---------------------------
(***************************************************************************)
(* Proofs about UrbPath, for every value of its constants.  The invariants *)
(* are established one on top of the other:                                *)
(*   Typed     TypeOK, and what the place of the TCP task says of its      *)
(*             connection                                                  *)
(*   Ordered   SubmitOrder, and no request is known before it is sent      *)
(*   TransfersAllocated, which needs that a request still waiting has no   *)
(*             transfer yet (from Ordered)                                 *)
(*   Fresh     a request that waits or is in flight is not yet answered    *)
(*   Bounded   the in-flight bound, strengthened to count a flag that is   *)
(*             clear, or about to be set, against the cleanups so far      *)
(* and their conjunction is what the refinement of UrbService rests on.    *)
(* Beside them Routed, for OwnerServed: whose the descriptors are that     *)
(* wait in the queue and that the callbacks may find; and InTurn, for the  *)
(* refinement of ConnectionService: that the imports which wait are those  *)
(* of different connections, the oldest first.                             *)
(***************************************************************************)
EXTENDS UrbPath, TLAPS, FiniteSetTheorems, SequenceTheorems

(* There is a connection whenever the TCP task is past accept(), a request  *)
(* being posted exactly when it is at the post, and a request's transfer in *)
(* every callback.                                                          *)
Located ==
  /\ tcp # "accept" => sock \in Fds /\ conn > 0
  /\ peer # "none" => tcp # "accept"
  /\ (tcp = "post") <=> (recv_submit # 0)
  /\ cb.pc # "idle" => cb.seq \in Reqs

Typed == TypeOK /\ Located

LEMMA InitTyped == Init => Typed
<1> SUFFICES ASSUME Init PROVE Typed
  OBVIOUS
<1> USE ConstantsAssumption DEF Init
<1>1. /\ reqs \in Seq(Request) /\ stream \in Seq(Reqs) /\ queue \in Seq(Event)
      /\ importing \in Seq(Import)
  OBVIOUS
<1>2. Len(reqs) <= MaxReq /\ Len(queue) <= QueueSize
  OBVIOUS
<1>3. replies \in [Reqs -> Seq(Conns)] /\ owner \in [Fds -> 0..MaxConn]
  OBVIOUS
<1>4. cb \in Callback
  BY DEF Callback, NoCb
<1>5. pending \in [Tracked -> BOOLEAN]
  OBVIOUS
<1>6. /\ conn \in 0..MaxConn /\ recv_submit \in 0..MaxReq /\ marking \in 0..MaxReq
      /\ sock \in Fds \cup {-1} /\ skt \in Fds \cup {0}
      /\ inflight \subseteq Reqs /\ heap \subseteq Reqs
  OBVIOUS
<1>7. Located
  BY DEF Located, NoCb
<1>8. unlinks \in Seq(Unlinked)
  OBVIOUS
<1> QED BY <1>1, <1>2, <1>3, <1>4, <1>5, <1>6, <1>7, <1>8 DEF Typed, TypeOK

(* What a reply does to the history of replies.                             *)
LEMMA SendOnType ==
  ASSUME Typed, NEW fd, NEW s \in Reqs, SendOn(fd, s)
  PROVE  replies' \in [Reqs -> Seq(Conns)]
<1>1. CASE Writable(fd)
  <2>1. owner[fd] \in Conns
    BY <1>1, ConstantsAssumption DEF Writable, Typed, TypeOK, Conns
  <2>2. Append(replies[s], owner[fd]) \in Seq(Conns)
    BY <2>1 DEF Typed, TypeOK
  <2> QED BY <1>1, <2>2 DEF Typed, TypeOK, SendOn
<1>2. CASE ~Writable(fd)
  BY <1>2 DEF SendOn, Typed, TypeOK
<1> QED BY <1>1, <1>2

(* And what the answer to an unlink does to theirs.                         *)
LEMMA AnswerUnlinkType ==
  ASSUME Typed, NEW s \in Reqs, AnswerUnlink(s)
  PROVE  unlinks' \in Seq(Unlinked)
<1>1. [unlink |-> s, seqnum |-> UnlinkSeqnum] \in Unlinked
  BY DEF Unlinked, UnlinkSeqnum
<1>2. unlinks \in Seq(Unlinked)
  BY DEF Typed, TypeOK
<1> QED BY <1>1, <1>2 DEF AnswerUnlink

(* Reading the first request leaves a stream of requests.                   *)
LEMMA StreamTail ==
  ASSUME Typed, stream # <<>>
  PROVE  Head(stream) \in Reqs /\ Tail(stream) \in Seq(Reqs)
BY DEF Typed, TypeOK

(* A request that is cut was the last one there.                            *)
LEMMA CutStream ==
  ASSUME Typed, RecvCut
  PROVE  stream # <<>> /\ stream' = Tail(stream)
<1>1. stream \in Seq(Reqs) /\ Len(stream) = 1 /\ stream' = <<>>
  BY DEF Typed, TypeOK, RecvCut
<1>2. Tail(stream) \in Seq(Reqs) /\ Len(Tail(stream)) = 0
  BY <1>1
<1>3. Tail(stream) = <<>>
  BY <1>2, EmptySeq
<1> QED BY <1>1, <1>3

LEMMA StepTypedTCP ==
  ASSUME Typed, Client \/ Accept \/ PostImport \/ Imports \/ Receive \/ Lost
  PROVE  Typed'
<1> USE DEF Typed, TypeOK, Located, clientVars, tcpVars, usbVars
<1>1. CASE ClientSend
  <2>1. PICK c \in {"SUBMIT", "UNLINK"}, e \in Endpoints :
               reqs' = Append(reqs, [cmd |-> c, ep |-> e, conn |-> conn])
    BY <1>1 DEF ClientSend
  <2>2. conn \in Conns
    BY <1>1, ConstantsAssumption DEF ClientSend, Conns
  <2>3. [cmd |-> c, ep |-> e, conn |-> conn] \in Request
    BY <2>2 DEF Request
  <2>4. reqs' \in Seq(Request) /\ Len(reqs') <= MaxReq
    BY <1>1, <2>1, <2>3, ConstantsAssumption DEF ClientSend
  <2>5. Len(reqs) + 1 \in Reqs
    BY <1>1, ConstantsAssumption DEF ClientSend, Reqs
  <2>6. stream' \in Seq(Reqs)
    BY <1>1, <2>5 DEF ClientSend
  <2> QED BY <1>1, <2>4, <2>6 DEF ClientSend
<1>2. CASE ClientClose
  BY <1>2 DEF ClientClose
<1>3. CASE ClientReset
  <2>1. stream' = stream \/ stream' = <<>>
    BY <1>3 DEF ClientReset
  <2>2. <<>> \in Seq(Reqs)
    OBVIOUS
  <2>3. stream' \in Seq(Reqs)
    BY <2>1, <2>2
  <2> QED BY <1>3, <2>3 DEF ClientReset
<1>4. CASE Accept
  <2>1. PICK fd \in Fds : sock' = fd /\ owner' = [owner EXCEPT ![fd] = conn + 1]
    BY <1>4 DEF Accept
  <2>2. conn' \in 0..MaxConn /\ conn' > 0 /\ conn' = conn + 1
    BY <1>4, ConstantsAssumption DEF Accept
  <2>3. owner' \in [Fds -> 0..MaxConn]
    BY <2>1, <2>2
  <2> QED BY <1>4, <2>1, <2>2, <2>3 DEF Accept
<1>5. CASE PostImport
  <2>1. [conn |-> conn, sock |-> sock] \in Import
    BY <1>5, ConstantsAssumption DEF PostImport, Import, Conns
  <2>2. importing' \in Seq(Import)
    BY <1>5, <2>1 DEF PostImport
  <2> QED BY <1>5, <2>2 DEF PostImport
<1>51. CASE ImportDone \/ ImportFails
  <2>1. importing # <<>> /\ importing' = Tail(importing)
    BY <1>51 DEF ImportDone, ImportFails
  <2>2. importing' \in Seq(Import)
    BY <2>1
  <2>3. attached' \in {"no", "asked", "yes"}
    <3>1. attached' \in {"asked", "yes"} \/ attached' = attached
      BY <1>51 DEF ImportDone, ImportFails
    <3> QED BY <3>1
  <2>4. peer' = peer \/ (peer = "fin" /\ peer' = "shut")
    BY <1>51 DEF ImportDone, ImportFails
  <2> QED BY <1>51, <2>2, <2>3, <2>4 DEF ImportDone, ImportFails
<1>6. CASE EnterUrbLoop \/ EnterRecv \/ RecvTimeout
  BY <1>6 DEF EnterUrbLoop, EnterRecv, RecvTimeout
<1>7. CASE ReadAsCommand
  BY <1>7, StreamTail DEF ReadAsCommand
<1>8. CASE LoopEnds
  BY <1>8 DEF LoopEnds, LoopExit
<1>9. CASE RecvSubmit
  <2>1. Head(stream) \in Reqs /\ stream' \in Seq(Reqs)
    BY <1>9, StreamTail DEF RecvSubmit
  <2>2. recv_submit' \in 0..MaxReq /\ recv_submit' # 0
    <3>1. recv_submit' = Head(stream)
      BY <1>9 DEF RecvSubmit
    <3>2. \A s \in Reqs : s \in 0..MaxReq /\ s # 0
      BY ConstantsAssumption DEF Reqs
    <3> QED BY <3>1, <3>2, <2>1
  <2> QED BY <1>9, <2>1, <2>2 DEF RecvSubmit
<1>10. CASE RecvUnlink
  <2>1. Head(stream) \in Reqs /\ stream' \in Seq(Reqs)
    BY <1>10, StreamTail DEF RecvUnlink
  <2>2. unlinks' \in Seq(Unlinked)
    BY <1>10, <2>1, AnswerUnlinkType DEF RecvUnlink
  <2> QED BY <1>10, <2>1, <2>2 DEF RecvUnlink
<1>101. CASE RecvCut
  <2>1. Head(stream) \in Reqs /\ stream' \in Seq(Reqs)
    BY <1>101, StreamTail, CutStream
  <2>2. unlinks' \in Seq(Unlinked)
    BY <1>101, <2>1, AnswerUnlinkType DEF RecvCut
  <2> QED BY <1>101, <2>1, <2>2 DEF RecvCut
<1>11. CASE Post
  <2>1. [seq |-> recv_submit, sock |-> sock] \in Event
    BY <1>11, ConstantsAssumption DEF Post, Event, Reqs
  <2>2. queue' \in Seq(Event) /\ Len(queue') <= QueueSize
    BY <1>11, <2>1, ConstantsAssumption DEF Post, Room, Enqueued
  <2>3. recv_submit' \in 0..MaxReq /\ recv_submit' = 0
    BY <1>11, ConstantsAssumption DEF Post
  <2> QED BY <1>11, <2>2, <2>3 DEF Post
<1>12. CASE RecvEof
  BY <1>12 DEF RecvEof, BusyAfterEof
<1>13. CASE RecvError
  BY <1>13 DEF RecvError
<1>14. CASE Cleanup
  <2>1. pending' \in [Tracked -> BOOLEAN]
    BY <1>14 DEF Cleanup
  <2> QED BY <1>14, <2>1 DEF Cleanup
<1>15. CASE Close
  <2>1. owner' \in [Fds -> 0..MaxConn]
    BY <1>15, ConstantsAssumption DEF Close
  <2> QED BY <1>15, <2>1 DEF Close
<1>16. CASE RecvDropped
  BY <1>16, StreamTail DEF RecvDropped
<1>17. CASE PostFails
  <2>1. recv_submit' \in 0..MaxReq /\ recv_submit' = 0
    BY <1>17, ConstantsAssumption DEF PostFails
  <2> QED BY <1>17, <2>1 DEF PostFails
<1> QED
  BY <1>1, <1>2, <1>3, <1>4, <1>5, <1>6, <1>7, <1>8, <1>9, <1>10, <1>11,
     <1>12, <1>13, <1>14, <1>15, <1>16, <1>17, <1>51, <1>101
  DEF Client, Receive, Lost, Imports

(* Taking an event leaves a shorter queue of events.                        *)
LEMMA HandlingType ==
  ASSUME Typed, NEW s \in Reqs, Handling(s)
  PROVE  /\ queue' \in Seq(Event) /\ Len(queue') <= QueueSize
         /\ Head(queue) \in Event /\ Head(queue).sock \in Fds
<1>1. queue' \in Seq(Event) /\ Len(queue') <= QueueSize /\ Head(queue) \in Event
  BY ConstantsAssumption DEF Handling, Dequeued, Typed, TypeOK
<1> QED BY <1>1 DEF Event

LEMMA StepTypedUSB ==
  ASSUME Typed, Handler \/ Class
  PROVE  Typed'
<1> USE DEF Typed, TypeOK, Located, clientVars, tcpVars, usbVars
<1>1. ASSUME NEW s \in Reqs, SubmitNoMemory(s) PROVE Typed'
  BY <1>1, HandlingType DEF SubmitNoMemory, LastSkt
<1>2. ASSUME NEW s \in Reqs, SubmitSkipped(s) PROVE Typed'
  BY <1>2, HandlingType DEF SubmitSkipped, LastSkt
<1>3. ASSUME NEW s \in Reqs, SubmitRejected(s) PROVE Typed'
  BY <1>3, HandlingType DEF SubmitRejected, LastSkt
<1>4. ASSUME NEW s \in Reqs, SubmitAccepted(s) PROVE Typed'
  <2>1. marking' \in 0..MaxReq
    BY <1>4, ConstantsAssumption DEF SubmitAccepted, Reqs
  <2> QED BY <1>4, <2>1, HandlingType DEF SubmitAccepted, LastSkt
<1>5. CASE MarkPending
  <2>1. pending' \in [Tracked -> BOOLEAN]
    BY <1>5 DEF MarkPending
  <2>2. marking' \in 0..MaxReq
    BY <1>5, ConstantsAssumption DEF MarkPending
  <2> QED BY <1>5, <2>1, <2>2 DEF MarkPending
<1>6. ASSUME NEW s \in Reqs, Complete(s) PROVE Typed'
  <2>1. pending' \in [Tracked -> BOOLEAN]
    BY <1>6 DEF Complete
  <2>2. cb' \in Callback
    BY <1>6, ConstantsAssumption DEF Complete, Callback, Reqs
  <2>3. inflight' \subseteq Reqs
    BY <1>6 DEF Complete, Completed
  <2> QED BY <1>6, <2>1, <2>2, <2>3 DEF Complete
<1>7. CASE CbCheck
  <2>1. cb' \in Callback
    BY <1>7 DEF CbCheck, Callback
  <2> QED BY <1>7, <2>1 DEF CbCheck
<1>8. CASE CbSend
  <2>1. cb.seq \in Reqs
    BY <1>8 DEF CbSend
  <2>2. cb' \in Callback
    BY <1>8, ConstantsAssumption DEF CbSend, Callback, NoCb
  <2>3. heap' \subseteq Reqs
    BY <1>8 DEF CbSend
  <2>4. replies' \in [Reqs -> Seq(Conns)]
    BY <1>8, <2>1, SendOnType DEF CbSend
  <2>5. cb'.pc = "idle"
    BY <1>8 DEF CbSend, NoCb
  <2> QED BY <1>8, <2>2, <2>3, <2>4, <2>5 DEF CbSend
<1>9. CASE DeviceGone
  BY <1>9 DEF DeviceGone
<1>10. CASE DeviceExit
  BY <1>10 DEF DeviceExit
<1> QED
  BY <1>1, <1>2, <1>3, <1>4, <1>5, <1>6, <1>7, <1>8, <1>9, <1>10
  DEF Handler, Class

LEMMA StepTyped == Typed /\ [Next]_vars => Typed'
<1>1. ASSUME Typed, UNCHANGED vars PROVE Typed'
  BY <1>1 DEF vars, clientVars, tcpVars, usbVars, Typed, TypeOK, Located
<1> QED BY <1>1, StepTypedTCP, StepTypedUSB DEF Next

(* Every variable keeps its type: in particular the queue never exceeds its *)
(* size and no reply is recorded on something that is not a connection.     *)
THEOREM TypeCorrect == Spec => []TypeOK
<1>1. Typed => TypeOK
  BY DEF Typed
<1> QED BY InitTyped, StepTyped, <1>1, PTL DEF Spec

-----------------------------------------------------------------------------
(* From the client's close to the next accept: every step of do_recv and of *)
(* the handler is work done, and nobody else's step adds to it.             *)

Counted == Work \in Nat
Sum(a, b, p, q, m) == 3 * (4 * a + 3 * b + p) + 2 * q + m

LEMMA SumNat ==
  ASSUME NEW a \in Nat, NEW b \in Nat, NEW p \in Nat, NEW q \in Nat, NEW m \in Nat
  PROVE  Sum(a, b, p, q, m) \in Nat
BY DEF Sum

LEMMA Parts ==
  ASSUME Typed
  PROVE  /\ Len(stream) \in Nat /\ Len(queue) \in Nat /\ Len(importing) \in Nat
         /\ BusyToCome \in Nat /\ Place \in 0..6 /\ Unmarked \in 0..1
         /\ Place \in Nat /\ Unmarked \in Nat
         /\ Work = Sum(Len(stream), BusyToCome, Place, Len(queue), Unmarked)
         /\ Work \in Nat
<1>1. Len(stream) \in Nat /\ Len(queue) \in Nat /\ Len(importing) \in Nat
  BY DEF Typed, TypeOK
<1>2. BusyToCome \in Nat
  BY <1>1 DEF BusyToCome
<1>3. Place \in 0..6
  BY DEF Place
<1>4. Unmarked \in 0..1
  BY DEF Unmarked
<1>5. Work = Sum(Len(stream), BusyToCome, Place, Len(queue), Unmarked)
  BY DEF Work, Sum
<1>6. Place \in Nat /\ Unmarked \in Nat
  BY <1>3, <1>4
<1> QED BY <1>1, <1>2, <1>3, <1>4, <1>5, <1>6, SumNat

LEMMA WorkNat == Typed => Counted
BY Parts DEF Counted

(* What may be exchanged for what.                                          *)
LEMMA Less ==
  ASSUME Typed,
         NEW c \in Nat, NEW d \in Nat, NEW r \in Nat, NEW u \in Nat, NEW n \in Nat,
         Work' = Sum(c, d, r, u, n)
  PROVE  LET a == Len(stream)  b == BusyToCome  p == Place  q == Len(queue)
             m == Unmarked
         IN  /\ \/ c = a /\ d = b /\ r < p /\ u = q /\ n = m
                \/ c + 1 = a /\ d = b /\ r <= p + 3 /\ u = q /\ n = m
                \/ c = a /\ d = b /\ r + 1 = p /\ u = q + 1 /\ n = m
                \/ c = a /\ d = b /\ r = p /\ u + 1 = q /\ n <= 1
                \/ c = a /\ d = b /\ r = p /\ u = q /\ n < m
                => Work' < Work
             /\ \/ c <= a /\ d = b /\ r <= p /\ u = q /\ n = m
                \/ c = a /\ d + 1 = b /\ r <= p + 3 /\ u = q /\ n = m
                \/ c + 1 = a /\ d = b /\ r <= p + 3 /\ u = q /\ n = m
                => Work' <= Work
<1> DEFINE a == Len(stream)  b == BusyToCome  p == Place  q == Len(queue)
           m == Unmarked
<1>1. /\ a \in Nat /\ b \in Nat /\ p \in Nat /\ q \in Nat /\ m \in Nat
      /\ Work = Sum(a, b, p, q, m)
  BY Parts
<1> HIDE DEF a, b, p, q, m
<1>2. \/ c = a /\ d = b /\ r < p /\ u = q /\ n = m
      \/ c + 1 = a /\ d = b /\ r <= p + 3 /\ u = q /\ n = m
      \/ c = a /\ d = b /\ r + 1 = p /\ u = q + 1 /\ n = m
      \/ c = a /\ d = b /\ r = p /\ u + 1 = q /\ n <= 1
      \/ c = a /\ d = b /\ r = p /\ u = q /\ n < m
      => Work' < Work
  BY <1>1 DEF Sum
<1>3. \/ c <= a /\ d = b /\ r <= p /\ u = q /\ n = m
      \/ c = a /\ d + 1 = b /\ r <= p + 3 /\ u = q /\ n = m
      \/ c + 1 = a /\ d = b /\ r <= p + 3 /\ u = q /\ n = m
      => Work' <= Work
  BY <1>1 DEF Sum
<1> QED BY <1>2, <1>3 DEF a, b, p, q, m

(* When only the TCP task moves, its place tells.                           *)
LEMMA Moved ==
  ASSUME Typed, UNCHANGED <<stream, importing, attached, queue, marking>>,
         Place' \in Nat
  PROVE  /\ Place' < Place => Work' < Work
         /\ Place' <= Place => Work' <= Work
<1>1. Work' = Sum(Len(stream), BusyToCome, Place', Len(queue), Unmarked)
  BY DEF Work, Sum, BusyToCome, Unmarked
<1>2. Place' < Place => Work' < Work
  BY <1>1, Parts, Less
<1>4. Len(stream) <= Len(stream)
  BY Parts
<1>3. Place' <= Place => Work' <= Work
  BY <1>1, <1>4, Parts, Less
<1> QED BY <1>2, <1>3

(* A request off the stream pays for the way back to the top of the loop.   *)
LEMMA Read ==
  ASSUME Typed, stream # <<>>, stream' = Tail(stream),
         UNCHANGED <<importing, attached, queue, marking>>,
         Place' \in Nat, Place' <= Place + 3
  PROVE  Work' < Work /\ Work' <= Work
<1>1. Len(stream) > 0 /\ Len(stream') = Len(stream) - 1
  BY DEF Typed, TypeOK
<1>2. Work' = Sum(Len(stream'), BusyToCome, Place', Len(queue), Unmarked)
  BY DEF Work, Sum, BusyToCome, Unmarked
<1>3. Len(stream') \in Nat /\ Len(stream') + 1 = Len(stream)
  BY <1>1, Parts
<1> QED BY <1>2, <1>3, Parts, Less

LEMMA ReceiveWorks ==
  ASSUME Typed, Ending, Ending', Receive
  PROVE  Work' < Work
<1> USE DEF clientVars, tcpVars, usbVars
<1>1. CASE \/ EnterUrbLoop \/ EnterRecv \/ LoopEnds \/ RecvEof \/ RecvError
           \/ Cleanup
  <2>1. Place' \in Nat /\ Place' < Place
    BY <1>1 DEF EnterUrbLoop, EnterRecv, LoopEnds, LoopExit, RecvEof, RecvError,
                Cleanup, Place, BusyAfterEof, Ending, Failing
  <2>2. UNCHANGED <<stream, importing, attached, queue, marking>>
    BY <1>1 DEF EnterUrbLoop, EnterRecv, LoopEnds, RecvEof, RecvError, Cleanup
  <2> QED BY <2>1, <2>2, Moved
<1>2. CASE ReadAsCommand \/ RecvSubmit \/ RecvUnlink
  <2>1. Place' \in Nat /\ Place' <= Place + 3
    BY <1>2 DEF ReadAsCommand, RecvSubmit, RecvUnlink, Place
  <2>2. /\ stream # <<>> /\ stream' = Tail(stream)
        /\ UNCHANGED <<importing, attached, queue, marking>>
    BY <1>2 DEF ReadAsCommand, RecvSubmit, RecvUnlink
  <2> QED BY <2>1, <2>2, Read
<1>3. CASE Post
  <2>1. Place = 6 /\ Place' = 5 /\ Place' + 1 = Place /\ Place' \in Nat
    BY <1>3 DEF Post, Place
  <2>2. Len(queue') = Len(queue) + 1 /\ Len(queue') \in Nat
    BY <1>3, Parts DEF Post, Enqueued, Typed, TypeOK
  <2>3. Work' = Sum(Len(stream), BusyToCome, Place', Len(queue'), Unmarked)
    BY <1>3 DEF Post, Work, Sum, BusyToCome, Unmarked
  <2> QED BY <2>1, <2>2, <2>3, Parts, Less
<1>4. CASE RecvTimeout \/ Close
  BY <1>4 DEF RecvTimeout, Close, Ending, Failing
<1> QED BY <1>1, <1>2, <1>3, <1>4 DEF Receive

LEMMA HandlerWorks ==
  ASSUME Typed, Handler
  PROVE  Work' < Work
<1> USE DEF clientVars, tcpVars, usbVars
<1>1. /\ UNCHANGED <<stream, importing, attached, tcp, device_busy>>
      /\ \/ marking # 0 /\ marking' = 0 /\ queue' = queue
         \/ marking = 0 /\ queue # <<>> /\ queue' = Tail(queue)
  BY DEF Handler, SubmitNoMemory, SubmitSkipped, SubmitRejected, SubmitAccepted,
         MarkPending, Handling, Dequeued
<1>2. Work' = Sum(Len(stream), BusyToCome, Place, Len(queue'), Unmarked')
  BY <1>1 DEF Work, Sum, BusyToCome, Place
<1>3. Unmarked' \in Nat /\ Unmarked' <= 1
  BY DEF Unmarked
<1>4. CASE marking # 0 /\ marking' = 0 /\ queue' = queue
  <2>1. Unmarked' < Unmarked
    BY <1>4 DEF Unmarked
  <2> QED BY <1>2, <1>3, <1>4, <2>1, Parts, Less
<1>5. CASE queue # <<>> /\ queue' = Tail(queue)
  <2>1. Len(queue') \in Nat /\ Len(queue') + 1 = Len(queue)
    BY <1>5 DEF Typed, TypeOK
  <2> QED BY <1>2, <1>3, <2>1, Parts, Less
<1> QED BY <1>1, <1>4, <1>5

(* The others: an import that is asked for, or done, was accounted for.     *)
LEMMA OthersWork ==
  ASSUME Typed, Ending, ~Receive, ~Handler, [Next]_vars
  PROVE  IF Ending' THEN Work' <= Work ELSE ClientReset \/ RecvCut \/ Imports
<1> USE DEF clientVars, tcpVars, usbVars
<1>1. CASE Client
  <2>1. /\ ClientReset
        /\ stream' \in {stream, <<>>}
        /\ UNCHANGED <<importing, attached, queue, marking, tcp, device_busy>>
    BY <1>1 DEF Client, ClientSend, ClientClose, ClientReset, Ending, Failing
  <2>2. Len(stream') \in Nat /\ Len(stream') <= Len(stream)
    BY <2>1, Parts
  <2>3. Place' = Place /\ Work' = Sum(Len(stream'), BusyToCome, Place, Len(queue), Unmarked)
    BY <2>1 DEF Place, Work, Sum, BusyToCome, Unmarked
  <2>4. Place <= Place
    BY Parts
  <2>5. Work' <= Work
    BY <2>2, <2>3, <2>4, Parts, Less
  <2> QED BY <2>1, <2>5
<1>2. CASE Accept
  BY <1>2 DEF Accept, Typed, Located, Ending, Failing
<1>3. CASE PostImport
  <2>1. Place = 3 /\ Place' \in Nat /\ Place' <= Place + 3
    BY <1>3 DEF PostImport, Place
  <2>2. Len(importing') = Len(importing) + 1
    BY <1>3 DEF PostImport, Typed, TypeOK
  <2>3. BusyToCome' \in Nat /\ BusyToCome' + 1 = BusyToCome
    BY <1>3, <2>2, Parts DEF PostImport, BusyToCome
  <2>4. Work' = Sum(Len(stream), BusyToCome', Place', Len(queue), Unmarked)
    BY <1>3 DEF PostImport, Work, Sum, Unmarked
  <2>5. Work' <= Work
    BY <2>1, <2>3, <2>4, Parts, Less
  <2> QED BY <1>3, <2>5 DEF PostImport, Ending, Failing
<1>4. CASE Lost
  <2>1. CASE RecvDropped
    <3>1. Place = 5 /\ Place' = 5
      BY <2>1 DEF RecvDropped, Place
    <3>2. Work' <= Work
      BY <2>1, <3>1, Read DEF RecvDropped
    <3> QED BY <2>1, <3>2 DEF RecvDropped, Ending, Failing
  <2>2. CASE PostFails
    <3>1. Work' <= Work
      BY <2>2, Moved, Parts DEF PostFails, Place
    <3> QED BY <2>2, <3>1 DEF PostFails, Ending, Failing
  <2>3. CASE RecvCut
    <3>1. Place = 5 /\ Place' = 5
      BY <2>3 DEF RecvCut, Place
    <3>2. stream # <<>> /\ stream' = Tail(stream)
      BY <2>3, CutStream
    <3>3. Work' <= Work
      BY <2>3, <3>1, <3>2, Read DEF RecvCut
    <3> QED BY <2>3, <3>3
  <2> QED BY <1>4, <2>1, <2>2, <2>3 DEF Lost
<1>5. CASE Imports
  <2>1. /\ UNCHANGED <<stream, queue, marking, tcp>>
        /\ (attached' = "no") <=> (attached = "no")
        /\ importing # <<>> /\ importing' = Tail(importing)
    BY <1>5 DEF Imports, ImportDone, ImportFails
  <2>2. Len(importing) > 0 /\ Len(importing') = Len(importing) - 1
    BY <2>1 DEF Typed, TypeOK
  <2>3. BusyToCome' \in Nat /\ BusyToCome' + 1 = BusyToCome
    BY <2>1, <2>2, Parts DEF BusyToCome
  <2>4. Place' \in Nat /\ Place' <= Place + 3
    BY <1>5, <2>1 DEF Imports, ImportDone, ImportFails, Place
  <2>5. Work' = Sum(Len(stream), BusyToCome', Place', Len(queue), Unmarked)
    BY <2>1 DEF Work, Sum, Unmarked
  <2>6. Work' <= Work
    BY <2>3, <2>4, <2>5, Parts, Less
  <2> QED BY <1>5, <2>6
<1>6. CASE Class \/ UNCHANGED vars
  <2>1. UNCHANGED <<stream, importing, attached, queue, marking, peer, tcp>>
    BY <1>6 DEF Class, Complete, CbCheck, CbSend, DeviceGone, DeviceExit, vars
  <2>2. device_busy' = device_busy \/ device_busy' = FALSE
    BY <1>6 DEF Class, Complete, CbCheck, CbSend, DeviceGone, DeviceExit, vars
  <2>3. Place' \in Nat /\ Place' <= Place
    BY <2>1, <2>2 DEF Place
  <2>4. Ending'
    BY <2>1, <2>2 DEF Ending, Failing
  <2> QED BY <2>1, <2>3, <2>4, Moved
<1> QED BY <1>1, <1>2, <1>3, <1>4, <1>5, <1>6 DEF Next

(* With the connection ended, the server is a bounded number of steps from  *)
(* its next accept, for every queue size and every number of requests,      *)
(* imports and connections, until device_busy keeps it from seeing the end. *)
THEOREM FinProgress == Spec => FinDrains
<1> DEFINE Drained ==
      IF Ending' THEN /\ Work' \in 0..Work
                      /\ Receive \/ Handler => Work' < Work
      ELSE tcp' = "accept" \/ ClientReset \/ RecvCut \/ Imports
<1>1. Typed /\ Counted /\ Counted' /\ [Next]_vars => [Ending => Drained]_vars
  <2> SUFFICES ASSUME Typed, Counted, Counted', [Next]_vars, Ending
               PROVE  Drained
    OBVIOUS
  <2>1. Work \in Nat /\ Work' \in Nat
    BY DEF Counted
  <2>2. CASE Receive
    <3>1. Ending' \/ tcp' = "accept"
      BY <2>2 DEF Receive, EnterUrbLoop, EnterRecv, RecvTimeout, ReadAsCommand,
                  LoopEnds, RecvSubmit, RecvUnlink, Post, RecvEof, RecvError,
                  BusyAfterEof, Cleanup, Close, clientVars, Ending, Failing
    <3>2. Ending' => Work' < Work
      BY <2>2, ReceiveWorks
    <3> QED BY <2>1, <3>1, <3>2
  <2>3. CASE Handler
    <3>1. Ending'
      BY <2>3 DEF Handler, SubmitNoMemory, SubmitSkipped, SubmitRejected,
                  SubmitAccepted, MarkPending, clientVars, Ending, Failing
    <3> QED BY <2>1, <2>3, <3>1, HandlerWorks
  <2>4. CASE ~Receive /\ ~Handler
    BY <2>1, <2>4, OthersWork
  <2> QED BY <2>2, <2>3, <2>4
<1> QED BY InitTyped, StepTyped, WorkNat, <1>1, PTL DEF Spec, FinDrains

-----------------------------------------------------------------------------
(* The order of requests.  SubmitOrder needs no more than that whatever is  *)
(* known to the server has been sent; a new request is then the youngest.   *)

Known == heap \cup inflight \cup Waiting
Ordered == SubmitOrder /\ Known \subseteq 1..Len(reqs)

LEMMA InitOrdered == Init => Ordered
BY DEF Init, Ordered, SubmitOrder, Known, Waiting, Posted, Received, Unread,
       Elements, Before

(* Reading a request off the stream takes the oldest one.                   *)
LEMMA StreamRead ==
  ASSUME Typed, Ordered, stream # <<>>, stream' = Tail(stream)
  PROVE  /\ Head(stream) \in Unread
         /\ Unread' \subseteq Unread
         /\ Unread = Unread' \cup {Head(stream)}
         /\ \A r \in Unread' : Head(stream) < r
         /\ \A i, j \in DOMAIN stream' : i < j => stream'[i] < stream'[j]
<1>1. /\ stream \in Seq(Reqs)
      /\ \A i, j \in DOMAIN stream : i < j => stream[i] < stream[j]
  BY DEF Typed, TypeOK, Ordered, SubmitOrder
<1>2. /\ DOMAIN stream = 1..Len(stream) /\ Len(stream) \in Nat /\ Len(stream) > 0
      /\ DOMAIN stream' = 1..(Len(stream) - 1)
      /\ \A i \in 1..(Len(stream) - 1) : stream'[i] = stream[i + 1]
      /\ Head(stream) = stream[1]
  BY <1>1
<1>3. \A i \in 1..(Len(stream) - 1) : i + 1 \in DOMAIN stream /\ 1 < i + 1
  BY <1>2
<1>4. 1 \in DOMAIN stream
  BY <1>2
<1>5. \A i, j \in DOMAIN stream' : i < j => stream'[i] < stream'[j]
  BY <1>1, <1>2, <1>3
<1>6. \A i \in DOMAIN stream : i = 1 \/ i - 1 \in DOMAIN stream'
  BY <1>2
<1>7. Unread = Unread' \cup {Head(stream)}
  BY <1>2, <1>3, <1>4, <1>6 DEF Unread, Elements
<1> QED BY <1>1, <1>2, <1>3, <1>4, <1>5, <1>7 DEF Unread, Elements

(* And taking an event off the queue takes the oldest one.                  *)
LEMMA QueueTaken ==
  ASSUME Typed, Ordered, NEW s \in Reqs, Handling(s)
  PROVE  /\ s \in Posted
         /\ Posted' \subseteq Posted
         /\ Posted = Posted' \cup {s}
         /\ \A r \in Posted' : s < r
         /\ \A i, j \in DOMAIN queue' : i < j => queue'[i].seq < queue'[j].seq
<1>1. /\ queue \in Seq(Event) /\ queue # <<>> /\ queue' = Tail(queue)
      /\ \A i, j \in DOMAIN queue : i < j => queue[i].seq < queue[j].seq
      /\ s = Head(queue).seq
  BY DEF Typed, TypeOK, Ordered, SubmitOrder, Handling, Dequeued
<1>2. /\ DOMAIN queue = 1..Len(queue) /\ Len(queue) \in Nat /\ Len(queue) > 0
      /\ DOMAIN queue' = 1..(Len(queue) - 1)
      /\ \A i \in 1..(Len(queue) - 1) : queue'[i] = queue[i + 1]
      /\ Head(queue) = queue[1]
  BY <1>1
<1>3. \A i \in 1..(Len(queue) - 1) : i + 1 \in DOMAIN queue /\ 1 < i + 1
  BY <1>2
<1>4. 1 \in DOMAIN queue
  BY <1>2
<1>5. \A i, j \in DOMAIN queue' : i < j => queue'[i].seq < queue'[j].seq
  BY <1>1, <1>2, <1>3
<1>6. s \in Posted /\ Posted' \subseteq Posted
  BY <1>1, <1>2, <1>3, <1>4 DEF Posted
<1>7. ASSUME NEW r \in Posted, r # s PROVE r \in Posted'
  <2>1. PICK i \in DOMAIN queue : r = queue[i].seq
    BY DEF Posted
  <2>2. i # 1
    BY <1>1, <1>2, <1>7, <2>1
  <2>3. i - 1 \in DOMAIN queue' /\ queue'[i - 1] = queue[i]
    BY <1>2, <2>2
  <2> QED BY <2>1, <2>3 DEF Posted
<1>8. \A r \in Posted' : s < r
  BY <1>1, <1>2, <1>3, <1>4 DEF Posted
<1> QED BY <1>5, <1>6, <1>7, <1>8

(* Requests may leave the places where they wait, or their transfer be      *)
(* freed, without harm to the order of the others.                          *)
LEMMA OrderedShrinks ==
  ASSUME Typed, Ordered,
         Posted' \subseteq Posted, Received' \subseteq Received,
         Unread' \subseteq Unread, heap' \subseteq heap,
         inflight' \subseteq inflight, reqs' = reqs,
         \A i, j \in DOMAIN queue' : i < j => queue'[i].seq < queue'[j].seq,
         \A i, j \in DOMAIN stream' : i < j => stream'[i] < stream'[j]
  PROVE  Ordered'
BY DEF Ordered, SubmitOrder, Known, Waiting, Before

LEMMA OrderedUnchanged ==
  ASSUME Ordered,
         UNCHANGED <<reqs, queue, recv_submit, stream, heap, inflight>>
  PROVE  Ordered'
BY DEF Ordered, SubmitOrder, Known, Waiting, Posted, Received, Unread, Elements,
       Before

LEMMA StepOrderedTCP ==
  ASSUME Typed, Ordered, Client \/ Accept \/ PostImport \/ Imports \/ Receive \/ Lost
  PROVE  Ordered'
<1> USE DEF clientVars, tcpVars, usbVars
<1>1. CASE ClientSend
  <2> DEFINE n == Len(reqs)
  <2>1. /\ n \in Nat /\ Len(reqs') = n + 1
        /\ stream \in Seq(Reqs) /\ stream' = Append(stream, n + 1)
        /\ UNCHANGED <<queue, recv_submit, heap, inflight>>
    BY <1>1 DEF ClientSend, Typed, TypeOK
  <2>2. Unread' = Unread \cup {n + 1}
    BY <2>1 DEF Unread, Elements
  <2>3. /\ Posted' = Posted /\ Received' = Received
    BY <2>1 DEF Posted, Received
  <2>4. \A r \in Known : r \in Nat /\ r < n + 1
    BY <2>1 DEF Ordered
  <2>5. \A i, j \in DOMAIN stream' : i < j => stream'[i] < stream'[j]
    <3>1. /\ \A i, j \in DOMAIN stream : i < j => stream[i] < stream[j]
          /\ \A i \in DOMAIN stream : stream[i] \in Known
      BY DEF Ordered, SubmitOrder, Known, Waiting, Unread, Elements
    <3>2. /\ DOMAIN stream = 1..Len(stream) /\ Len(stream) \in Nat
          /\ DOMAIN stream' = 1..(Len(stream) + 1)
          /\ \A i \in DOMAIN stream : stream'[i] = stream[i]
          /\ stream'[Len(stream) + 1] = n + 1
      BY <2>1
    <3> QED BY <3>1, <3>2, <2>4
  <2>6. Known' = Known \cup {n + 1}
    BY <2>1, <2>2, <2>3 DEF Known, Waiting
  <2>7. Known' \subseteq 1..Len(reqs')
    <3>1. Known \subseteq 1..n
      BY DEF Ordered
    <3>2. (1..n) \cup {n + 1} \subseteq 1..(n + 1)
      BY <2>1
    <3> QED BY <2>1, <2>6, <3>1, <3>2
  <2>8. SubmitOrder'
    BY <2>1, <2>2, <2>3, <2>4, <2>5
    DEF Ordered, SubmitOrder, Before, Known, Waiting
  <2> QED BY <2>7, <2>8 DEF Ordered
<1>2. CASE ClientClose
  BY <1>2, OrderedUnchanged DEF ClientClose
<1>3. CASE ClientReset
  <2>1. CASE stream' = stream
    BY <1>3, <2>1, OrderedUnchanged DEF ClientReset
  <2>2. CASE stream' = <<>>
    BY <1>3, <2>2, OrderedShrinks
    DEF ClientReset, Posted, Received, Unread, Elements, Ordered, SubmitOrder
  <2> QED BY <1>3, <2>1, <2>2 DEF ClientReset
<1>4. CASE Accept
  BY <1>4, OrderedUnchanged DEF Accept
<1>5. CASE PostImport \/ ImportDone \/ ImportFails
  BY <1>5, OrderedUnchanged DEF PostImport, ImportDone, ImportFails
<1>6. CASE EnterUrbLoop \/ EnterRecv \/ RecvTimeout
  BY <1>6, OrderedUnchanged DEF EnterUrbLoop, EnterRecv, RecvTimeout
<1>7. CASE LoopEnds
  BY <1>7, OrderedUnchanged DEF LoopEnds
<1>8. CASE ReadAsCommand \/ RecvDropped \/ RecvUnlink \/ RecvCut
  <2>1. /\ stream # <<>> /\ stream' = Tail(stream)
        /\ UNCHANGED <<reqs, queue, recv_submit, heap, inflight>>
    BY <1>8, CutStream DEF ReadAsCommand, RecvDropped, RecvUnlink, RecvCut
  <2>2. Posted' = Posted /\ Received' = Received
    BY <2>1 DEF Posted, Received
  <2> QED BY <2>1, <2>2, StreamRead, OrderedShrinks DEF Ordered, SubmitOrder
<1>9. CASE RecvSubmit
  <2>1. /\ stream # <<>> /\ stream' = Tail(stream)
        /\ recv_submit = 0 /\ recv_submit' = Head(stream)
        /\ UNCHANGED <<reqs, queue, heap, inflight>>
    BY <1>9 DEF RecvSubmit, Typed, Located
  <2>2. /\ Head(stream) \in Unread /\ Unread' \subseteq Unread
        /\ \A r \in Unread' : Head(stream) < r
        /\ \A i, j \in DOMAIN stream' : i < j => stream'[i] < stream'[j]
    BY <2>1, StreamRead
  <2>3. /\ Posted' = Posted /\ Received' \subseteq {Head(stream)}
    BY <2>1 DEF Posted, Received
  <2> QED
    BY <2>1, <2>2, <2>3 DEF Ordered, SubmitOrder, Known, Waiting, Before
<1>10. CASE Post
  <2> DEFINE e == [seq |-> recv_submit, sock |-> sock]
  <2>1. /\ recv_submit # 0 /\ recv_submit' = 0
        /\ queue \in Seq(Event) /\ queue' = Append(queue, e)
        /\ UNCHANGED <<reqs, stream, heap, inflight>>
    BY <1>10 DEF Post, Enqueued, Typed, TypeOK, Located
  <2>2. /\ DOMAIN queue = 1..Len(queue) /\ Len(queue) \in Nat
        /\ DOMAIN queue' = 1..(Len(queue) + 1)
        /\ \A i \in DOMAIN queue : queue'[i] = queue[i]
        /\ queue'[Len(queue) + 1].seq = recv_submit
    BY <2>1
  <2>3. Posted' = Posted \cup {recv_submit} /\ Received = {recv_submit}
    BY <2>1, <2>2 DEF Posted, Received
  <2>4. Unread' = Unread /\ Received' = {}
    BY <2>1 DEF Unread, Received, Elements
  <2>5. \A i, j \in DOMAIN queue' : i < j => queue'[i].seq < queue'[j].seq
    <3>1. \A i \in DOMAIN queue : queue[i].seq < recv_submit
      BY <2>3 DEF Ordered, SubmitOrder, Before, Posted
    <3>2. \A i, j \in DOMAIN queue : i < j => queue[i].seq < queue[j].seq
      BY DEF Ordered, SubmitOrder
    <3> QED BY <2>2, <3>1, <3>2
  <2> QED
    BY <2>1, <2>3, <2>4, <2>5 DEF Ordered, SubmitOrder, Known, Waiting, Before
<1>11. CASE PostFails
  <2>1. Posted' = Posted /\ Received' = {} /\ Unread' = Unread
    BY <1>11 DEF PostFails, Posted, Received, Unread, Elements
  <2> QED BY <1>11, <2>1, OrderedShrinks DEF PostFails, Ordered, SubmitOrder
<1>12. CASE RecvEof
  BY <1>12, OrderedUnchanged DEF RecvEof
<1>13. CASE RecvError
  BY <1>13, OrderedUnchanged DEF RecvError
<1>14. CASE Cleanup
  BY <1>14, OrderedUnchanged DEF Cleanup
<1>15. CASE Close
  BY <1>15, OrderedUnchanged DEF Close
<1> QED
  BY <1>1, <1>2, <1>3, <1>4, <1>5, <1>6, <1>7, <1>8, <1>9, <1>10, <1>11,
     <1>12, <1>13, <1>14, <1>15
  DEF Client, Imports, Receive, Lost

LEMMA StepOrderedUSB ==
  ASSUME Typed, Ordered, Handler \/ Class
  PROVE  Ordered'
<1> USE DEF clientVars, tcpVars, usbVars
<1>1. ASSUME NEW s \in Reqs,
             \/ SubmitNoMemory(s) \/ SubmitSkipped(s)
             \/ SubmitRejected(s) \/ SubmitAccepted(s)
      PROVE  Ordered'
  <2>1. /\ s \in Posted /\ Posted' \subseteq Posted
        /\ \A r \in Posted' : s < r
        /\ \A i, j \in DOMAIN queue' : i < j => queue'[i].seq < queue'[j].seq
    BY <1>1, QueueTaken
    DEF SubmitNoMemory, SubmitSkipped, SubmitRejected, SubmitAccepted
  <2>2. /\ UNCHANGED <<reqs, recv_submit, stream>>
        /\ heap' \subseteq heap \cup {s} /\ inflight' \subseteq inflight \cup {s}
    BY <1>1
    DEF SubmitNoMemory, SubmitSkipped, SubmitRejected, SubmitAccepted
  <2>3. Received' = Received /\ Unread' = Unread
    BY <2>2 DEF Received, Unread, Elements
  <2> QED
    BY <2>1, <2>2, <2>3 DEF Ordered, SubmitOrder, Known, Waiting, Before
<1>2. CASE MarkPending
  BY <1>2, OrderedUnchanged DEF MarkPending
<1>3. CASE (\E s \in Reqs : Complete(s)) \/ CbSend
  <2>1. /\ UNCHANGED <<reqs, queue, recv_submit, stream>>
        /\ heap' \subseteq heap /\ inflight' \subseteq inflight
    BY <1>3 DEF Complete, Completed, CbSend
  <2>2. Posted' = Posted /\ Received' = Received /\ Unread' = Unread
    BY <2>1 DEF Posted, Received, Unread, Elements
  <2> QED BY <2>1, <2>2, OrderedShrinks DEF Ordered, SubmitOrder
<1>4. CASE CbCheck
  BY <1>4, OrderedUnchanged DEF CbCheck
<1>5. CASE DeviceGone
  BY <1>5, OrderedUnchanged DEF DeviceGone
<1>6. CASE DeviceExit
  BY <1>6, OrderedUnchanged DEF DeviceExit
<1> QED
  BY <1>1, <1>2, <1>3, <1>4, <1>5, <1>6 DEF Handler, Class

LEMMA StepOrdered == Typed /\ Ordered /\ [Next]_vars => Ordered'
<1>1. ASSUME Ordered, UNCHANGED vars PROVE Ordered'
  BY <1>1, OrderedUnchanged DEF vars, clientVars, tcpVars, usbVars
<1> QED BY <1>1, StepOrderedTCP, StepOrderedUSB DEF Next

LEMMA AlwaysOrdered == Spec => [](Typed /\ Ordered)
BY InitTyped, StepTyped, InitOrdered, StepOrdered, PTL DEF Spec

(* Requests reach the device in the order the clients sent them, whatever   *)
(* the tasks' interleaving, the queue's size and the changes of connection. *)
THEOREM OrderCorrect == Spec => []SubmitOrder
<1>1. Typed /\ Ordered => SubmitOrder
  BY DEF Ordered
<1> QED BY AlwaysOrdered, <1>1, PTL

-----------------------------------------------------------------------------
(* Memory: a transfer that starts is one of the requests that wait, and so, *)
(* by the order, has no memory yet; only its own callback frees it.         *)

LEMMA InitAllocated == Init => TransfersAllocated
BY DEF Init, TransfersAllocated, InCallback, NoCb

LEMMA StepAllocated ==
  Typed /\ Ordered /\ TransfersAllocated /\ [Next]_vars => TransfersAllocated'
<1> SUFFICES ASSUME Typed, Ordered, TransfersAllocated, [Next]_vars
             PROVE  TransfersAllocated'
  OBVIOUS
<1> USE DEF clientVars, tcpVars, usbVars
<1>1. ASSUME UNCHANGED <<heap, inflight, cb>> PROVE TransfersAllocated'
  BY <1>1 DEF TransfersAllocated, InCallback
<1>2. CASE UNCHANGED vars
  BY <1>1, <1>2 DEF vars
<1>3. CASE Client \/ Accept \/ PostImport \/ Imports \/ Receive \/ Lost
  BY <1>1, <1>3
  DEF Client, ClientSend, ClientClose, ClientReset, Accept, PostImport, Imports,
      ImportDone, ImportFails, Receive, EnterUrbLoop, EnterRecv, RecvTimeout,
      ReadAsCommand, LoopEnds, RecvSubmit, RecvUnlink, Post,
      RecvEof, RecvError, Cleanup, Close, Lost, RecvDropped, RecvCut, PostFails
<1>4. ASSUME NEW s \in Reqs, SubmitNoMemory(s) \/ SubmitSkipped(s)
      PROVE  TransfersAllocated'
  BY <1>1, <1>4 DEF SubmitNoMemory, SubmitSkipped
<1>5. ASSUME NEW s \in Reqs, SubmitRejected(s) \/ SubmitAccepted(s)
      PROVE  TransfersAllocated'
  <2>1. s \in Posted
    BY <1>5, QueueTaken DEF SubmitRejected, SubmitAccepted
  <2>2. s \notin heap
    BY <2>1 DEF Ordered, SubmitOrder, Before, Waiting, Reqs
  <2>3. s \notin InCallback
    BY <2>2 DEF TransfersAllocated
  <2> QED
    BY <1>5, <2>3 DEF SubmitRejected, SubmitAccepted, TransfersAllocated, InCallback
<1>6. CASE MarkPending \/ DeviceGone \/ DeviceExit
  BY <1>1, <1>6 DEF MarkPending, DeviceGone, DeviceExit
<1>7. ASSUME NEW s \in Reqs, Complete(s) PROVE TransfersAllocated'
  <2>1. InCallback' = {s} /\ s \in inflight /\ inflight' = inflight \ {s}
        /\ heap' = heap
    BY <1>7 DEF Complete, Completed, InCallback
  <2> QED BY <2>1 DEF TransfersAllocated
<1>8. CASE CbCheck
  <2>1. InCallback' = InCallback /\ UNCHANGED <<heap, inflight>>
    BY <1>8 DEF CbCheck, InCallback, Typed, TypeOK, Callback
  <2> QED BY <2>1 DEF TransfersAllocated
<1>9. CASE CbSend
  <2>1. /\ InCallback' = {} /\ InCallback = {cb.seq}
        /\ heap' = heap \ {cb.seq} /\ inflight' = inflight
    BY <1>9 DEF CbSend, InCallback, NoCb
  <2> QED BY <2>1 DEF TransfersAllocated
<1> QED
  BY <1>2, <1>3, <1>4, <1>5, <1>6, <1>7, <1>8, <1>9 DEF Next, Handler, Class

LEMMA AlwaysAllocated == Spec => [](Typed /\ Ordered /\ TransfersAllocated)
BY InitTyped, StepTyped, InitOrdered, StepOrdered, InitAllocated, StepAllocated,
   PTL DEF Spec

(* The library and the callbacks touch allocated transfers only, and no     *)
(* transfer is freed twice or while the library still has it.               *)
THEOREM AllocationCorrect == Spec => []TransfersAllocated
BY AlwaysAllocated, PTL

-----------------------------------------------------------------------------
(* The descriptor a callback replies on.  Connections do not overlap, so    *)
(* what is younger than a request of the current connection is the current  *)
(* connection's too: while such a request's transfer is out, every event    *)
(* that is handled carries the current descriptor.                          *)

ByConnection ==
  /\ \A i, j \in DOMAIN reqs : i <= j => reqs[i].conn <= reqs[j].conn
  /\ \A i \in DOMAIN reqs : reqs[i].conn <= conn

PostedOnOwn ==
  sock # -1 => \A i \in DOMAIN queue :
                 reqs[queue[i].seq].conn = conn => queue[i].sock = sock

Routed == ByConnection /\ PostedOnOwn /\ OwnerServed

LEMMA RequestsKnown ==
  ASSUME Typed, Ordered, TransfersAllocated
  PROVE  /\ DOMAIN reqs = 1..Len(reqs) /\ Len(reqs) \in Nat /\ conn \in Nat
         /\ \A i \in DOMAIN reqs : reqs[i].conn \in Nat
         /\ inflight \cup InCallback \subseteq DOMAIN reqs
         /\ \A i \in DOMAIN queue : queue[i].seq \in DOMAIN reqs
<1>1. DOMAIN reqs = 1..Len(reqs) /\ Len(reqs) \in Nat
  BY DEF Typed, TypeOK
<1>2. conn \in Nat /\ \A i \in DOMAIN reqs : reqs[i].conn \in Nat
  <2>1. \A i \in DOMAIN reqs : reqs[i] \in Request
    BY DEF Typed, TypeOK
  <2> QED BY <2>1, ConstantsAssumption DEF Request, Conns, Typed, TypeOK
<1>3. inflight \cup InCallback \subseteq DOMAIN reqs
  BY <1>1 DEF TransfersAllocated, Ordered, Known
<1>4. \A i \in DOMAIN queue : queue[i].seq \in DOMAIN reqs
  BY <1>1 DEF Ordered, Known, Waiting, Posted
<1> QED BY <1>1, <1>2, <1>3, <1>4

LEMMA RoutedKept ==
  ASSUME Routed, UNCHANGED <<reqs, conn, queue, skt, cb, inflight>>,
         sock' = sock \/ sock' = -1
  PROVE  Routed'
BY DEF Routed, ByConnection, PostedOnOwn, OwnerServed, InCallback, ReplyFd

LEMMA InitRouted == Init => Routed
BY DEF Init, Routed, ByConnection, PostedOnOwn, OwnerServed, InCallback, NoCb

LEMMA StepRoutedTCP ==
  ASSUME Typed, Ordered, TransfersAllocated, Routed,
         Client \/ Accept \/ PostImport \/ Receive \/ Lost \/ Imports
  PROVE  Routed'
<1> USE DEF clientVars, tcpVars, usbVars
<1>1. CASE ClientSend
  <2>1. PICK r : r.conn = conn /\ reqs' = Append(reqs, r)
    BY <1>1 DEF ClientSend
  <2>2. /\ DOMAIN reqs' = 1..(Len(reqs) + 1)
        /\ \A i \in DOMAIN reqs : reqs'[i] = reqs[i]
        /\ reqs'[Len(reqs) + 1].conn = conn
    BY <2>1, RequestsKnown DEF Typed, TypeOK
  <2>3. UNCHANGED <<conn, sock, queue, skt, cb, inflight>>
    BY <1>1 DEF ClientSend
  <2>4. ByConnection'
    BY <2>2, <2>3, RequestsKnown DEF Routed, ByConnection
  <2>5. PostedOnOwn'
    BY <2>2, <2>3, RequestsKnown DEF Routed, PostedOnOwn
  <2>6. OwnerServed'
    <3>1. InCallback' = InCallback
      BY <2>3 DEF InCallback
    <3> QED BY <2>2, <2>3, <3>1, RequestsKnown DEF Routed, OwnerServed, ReplyFd
  <2> QED BY <2>4, <2>5, <2>6 DEF Routed
<1>2. CASE Accept
  <2>1. conn' = conn + 1 /\ UNCHANGED <<reqs, queue, inflight, cb>>
    BY <1>2 DEF Accept
  <2>2. \A i \in DOMAIN reqs : reqs[i].conn <= conn' /\ reqs[i].conn # conn'
    BY <2>1, RequestsKnown DEF Routed, ByConnection
  <2>3. InCallback' = InCallback
    BY <2>1 DEF InCallback
  <2> QED BY <2>1, <2>2, <2>3, RequestsKnown
          DEF Routed, ByConnection, PostedOnOwn, OwnerServed
<1>3. CASE Post
  <2>1. /\ queue' = Append(queue, [seq |-> recv_submit, sock |-> sock])
        /\ UNCHANGED <<reqs, conn, sock, skt, cb, inflight>>
    BY <1>3 DEF Post, Enqueued
  <2>2. /\ DOMAIN queue' = 1..(Len(queue) + 1) /\ DOMAIN queue = 1..Len(queue)
        /\ Len(queue) \in Nat
        /\ \A i \in DOMAIN queue : queue'[i] = queue[i]
        /\ queue'[Len(queue) + 1].sock = sock
    BY <2>1 DEF Typed, TypeOK
  <2>3. PostedOnOwn'
    BY <2>1, <2>2 DEF Routed, PostedOnOwn
  <2>4. ByConnection' /\ OwnerServed'
    BY <2>1 DEF Routed, ByConnection, OwnerServed, InCallback, ReplyFd
  <2> QED BY <2>3, <2>4 DEF Routed
<1>4. CASE Close
  BY <1>4, RoutedKept DEF Close
<1>5. CASE ClientClose \/ ClientReset \/ PostImport \/ Lost \/ Imports
  BY <1>5, RoutedKept DEF ClientClose, ClientReset, PostImport, Lost, RecvDropped,
                          RecvCut, PostFails, Imports, ImportDone, ImportFails
<1>6. CASE \/ EnterUrbLoop \/ EnterRecv \/ RecvTimeout \/ ReadAsCommand \/ LoopEnds
           \/ RecvSubmit \/ RecvUnlink \/ RecvEof \/ RecvError \/ Cleanup
  BY <1>6, RoutedKept
     DEF EnterUrbLoop, EnterRecv, RecvTimeout, ReadAsCommand, LoopEnds,
         RecvSubmit, RecvUnlink, RecvEof, RecvError, Cleanup
<1> QED BY <1>1, <1>2, <1>3, <1>4, <1>5, <1>6 DEF Client, Receive

(* An event that is handled while a transfer of the current connection is   *)
(* out, is the current connection's.                                        *)
LEMMA HandledOnOwn ==
  ASSUME Typed, Ordered, TransfersAllocated, Routed, sock # -1,
         NEW s \in Reqs, Handling(s)
  PROVE  /\ reqs[s].conn = conn => LastSkt = sock
         /\ \A t \in inflight \cup InCallback :
              t # s /\ (reqs[t].conn = conn => LastSkt = sock)
<1>1. /\ queue # <<>> /\ s = queue[1].seq /\ LastSkt = queue[1].sock
      /\ 1 \in DOMAIN queue
  BY DEF Handling, LastSkt, Typed, TypeOK
<1>2. reqs[s].conn = conn => LastSkt = sock
  BY <1>1 DEF Routed, PostedOnOwn
<1>3. ASSUME NEW t \in inflight \cup InCallback
      PROVE  t # s /\ (reqs[t].conn = conn => LastSkt = sock)
  <2>1. s \in Posted /\ s \in DOMAIN reqs
    BY <1>1, RequestsKnown DEF Posted
  <2>2. t < s /\ t \in DOMAIN reqs
    BY <2>1, <1>3, RequestsKnown
       DEF TransfersAllocated, Ordered, SubmitOrder, Before, Waiting
  <2>3. /\ reqs[t].conn <= reqs[s].conn /\ reqs[s].conn <= conn
        /\ t # s
    BY <2>1, <2>2, RequestsKnown DEF Routed, ByConnection
  <2> QED BY <1>2, <2>1, <2>2, <2>3, RequestsKnown
<1> QED BY <1>2, <1>3

LEMMA StepRoutedUSB ==
  ASSUME Typed, Ordered, TransfersAllocated, Routed, Handler \/ Class
  PROVE  Routed'
<1> USE DEF clientVars, tcpVars, usbVars
<1>1. ASSUME NEW s \in Reqs, Handling(s), UNCHANGED <<reqs, conn, sock, cb>>,
             skt' \in {skt, LastSkt}, inflight' \subseteq inflight \cup {s},
             s \in inflight' => skt' = LastSkt
      PROVE  Routed'
  <2>1. /\ DOMAIN queue' \subseteq DOMAIN queue
        /\ \A i \in DOMAIN queue' : i + 1 \in DOMAIN queue /\ queue'[i] = queue[i + 1]
    BY <1>1 DEF Handling, Dequeued, Typed, TypeOK
  <2>2. ByConnection' /\ PostedOnOwn'
    BY <1>1, <2>1 DEF Routed, ByConnection, PostedOnOwn
  <2>3. InCallback' = InCallback /\ InCallback \subseteq {cb.seq}
    BY <1>1 DEF InCallback
  <2>4. ASSUME NEW t \in inflight' \cup InCallback,
               reqs[t].conn = conn, sock # -1
        PROVE  ReplyFd(t)' = sock
    <3>1. CASE t \in inflight \cup InCallback
      <4>1. ReplyFd(t) = sock /\ LastSkt = sock
        BY <1>1, <2>4, <3>1, HandledOnOwn DEF Routed, OwnerServed
      <4> QED BY <1>1, <4>1 DEF ReplyFd
    <3>2. CASE t \notin inflight \cup InCallback
      <4>1. t = s /\ t \in inflight' /\ skt' = LastSkt /\ LastSkt = sock
        BY <1>1, <2>4, <3>2, HandledOnOwn
      <4>2. ~(cb.pc = "send" /\ cb.seq = t)
        BY <3>2 DEF InCallback
      <4> QED BY <1>1, <4>1, <4>2 DEF ReplyFd
    <3> QED BY <3>1, <3>2
  <2>5. OwnerServed'
    BY <1>1, <2>3, <2>4 DEF OwnerServed
  <2> QED BY <2>2, <2>5 DEF Routed
<1>2. ASSUME NEW s \in Reqs, \/ SubmitNoMemory(s) \/ SubmitSkipped(s)
                             \/ SubmitRejected(s) \/ SubmitAccepted(s)
      PROVE  Routed'
  <2>1. Handling(s) /\ s \notin inflight
    <3>1. Handling(s)
      BY <1>2 DEF SubmitNoMemory, SubmitSkipped, SubmitRejected, SubmitAccepted
    <3>2. s \in Posted
      BY <3>1, QueueTaken
    <3> QED BY <3>1, <3>2 DEF Ordered, SubmitOrder, Before, Waiting, Reqs
  <2> QED BY <1>1, <1>2, <2>1
          DEF SubmitNoMemory, SubmitSkipped, SubmitRejected, SubmitAccepted
<1>3. CASE MarkPending \/ DeviceGone \/ DeviceExit
  BY <1>3, RoutedKept DEF MarkPending, DeviceGone, DeviceExit
<1>4. ASSUME UNCHANGED <<reqs, conn, sock, queue, skt>>,
             \A t \in (inflight \cup InCallback)' :
               t \in inflight \cup InCallback /\ ReplyFd(t)' = ReplyFd(t)
      PROVE  Routed'
  BY <1>4 DEF Routed, ByConnection, PostedOnOwn, OwnerServed
<1>5. ASSUME NEW s \in Reqs, Complete(s) PROVE Routed'
  <2>1. /\ cb = NoCb /\ s \in inflight /\ inflight' = inflight \ {s}
        /\ InCallback' = {s} /\ cb'.pc = "check"
        /\ UNCHANGED <<reqs, conn, sock, queue, skt>>
    BY <1>5 DEF Complete, Completed, InCallback
  <2>2. \A t : ReplyFd(t)' = skt /\ ReplyFd(t) = skt
    BY <2>1 DEF ReplyFd, NoCb
  <2> QED BY <1>4, <2>1, <2>2
<1>6. CASE CbCheck
  <2>1. /\ cb.pc = "check" /\ cb'.pc = "send" /\ cb'.seq = cb.seq /\ cb'.fd = skt
        /\ UNCHANGED <<reqs, conn, sock, queue, skt, inflight>>
    BY <1>6 DEF CbCheck, Typed, TypeOK, Callback
  <2>2. \A t : ReplyFd(t)' = skt /\ ReplyFd(t) = skt
    BY <2>1 DEF ReplyFd
  <2>3. InCallback' = InCallback
    BY <2>1 DEF InCallback
  <2> QED BY <1>4, <2>1, <2>2, <2>3
<1>7. CASE CbSend
  <2>1. /\ cb.pc = "send" /\ cb'.pc = "idle" /\ InCallback = {cb.seq}
        /\ InCallback' = {} /\ UNCHANGED <<reqs, conn, sock, queue, skt, inflight>>
    BY <1>7 DEF CbSend, NoCb, InCallback
  <2>2. \A t \in inflight : ReplyFd(t)' = skt /\ ReplyFd(t) = skt
    BY <2>1 DEF ReplyFd, TransfersAllocated
  <2> QED BY <1>4, <2>1, <2>2
<1> QED BY <1>2, <1>3, <1>5, <1>6, <1>7 DEF Handler, Class

LEMMA StepRouted ==
  Typed /\ Ordered /\ TransfersAllocated /\ Routed /\ [Next]_vars => Routed'
<1>1. ASSUME Routed, UNCHANGED vars PROVE Routed'
  BY <1>1, RoutedKept DEF vars, clientVars, tcpVars, usbVars
<1> QED BY <1>1, StepRoutedTCP, StepRoutedUSB DEF Next

(* A transfer whose connection is still open is answered on it, whatever is *)
(* handled before its callback runs, and however late.                      *)
THEOREM OwnerCorrect == Spec => []OwnerServed
<1>1. Routed => OwnerServed
  BY DEF Routed
<1> QED BY AlwaysAllocated, InitRouted, StepRouted, <1>1, PTL DEF Spec

-----------------------------------------------------------------------------
(* Replies: a request that still waits, is in flight or is in its callback, *)
(* or was never sent, has not been answered.                                *)

Open == Waiting \cup inflight \cup InCallback
Fresh ==
  /\ \A s \in Reqs : s \in Open \/ s > Len(reqs) => replies[s] = <<>>
  /\ AtMostOneReply

LEMMA InitFresh == Init => Fresh
BY DEF Init, Fresh, AtMostOneReply

LEMMA FreshShrinks ==
  ASSUME Fresh, Open' \subseteq Open, UNCHANGED <<reqs, replies>>
  PROVE  Fresh'
BY DEF Fresh, AtMostOneReply

(* The reply to an open request closes it.                                  *)
LEMMA FreshAnswers ==
  ASSUME Typed, Fresh, NEW s \in Reqs, NEW fd, SendOn(fd, s),
         s \in Open, s \notin Open', s <= Len(reqs),
         Open' \subseteq Open, reqs' = reqs
  PROVE  Fresh'
<1>1. replies \in [Reqs -> Seq(Conns)] /\ owner \in [Fds -> 0..MaxConn]
  BY DEF Typed, TypeOK
<1>2. \A r \in Reqs : r # s => replies'[r] = replies[r]
  BY <1>1 DEF SendOn
<1>3. Len(replies'[s]) <= 1
  <2>1. replies[s] = <<>>
    BY DEF Fresh
  <2>2. CASE Writable(fd)
    <3>1. owner[fd] \in Conns
      BY <1>1, <2>2, ConstantsAssumption DEF Writable, Conns
    <3>2. replies'[s] = Append(replies[s], owner[fd])
      BY <1>1, <2>2 DEF SendOn
    <3>3. replies[s] \in Seq(Conns) /\ Len(replies[s]) = 0
      BY <1>1, <2>1
    <3> QED BY <3>1, <3>2, <3>3
  <2>3. CASE ~Writable(fd)
    BY <2>1, <2>3 DEF SendOn
  <2> QED BY <2>2, <2>3
<1>4. AtMostOneReply'
  BY <1>2, <1>3 DEF Fresh, AtMostOneReply
<1>5. s \in 1..Len(reqs) /\ Len(reqs) \in Nat
  BY DEF Typed, TypeOK, Reqs
<1>6. ASSUME NEW r \in Reqs, r \in Open' \/ r > Len(reqs)
      PROVE  replies'[r] = <<>>
  BY <1>2, <1>5, <1>6 DEF Fresh, Reqs
<1> QED BY <1>4, <1>6 DEF Fresh

(* A post moves the request at hand to the queue, or drops it.              *)
LEMMA PostMoves ==
  ASSUME Typed, Post \/ PostFails
  PROVE  Posted' \subseteq Posted \cup Received /\ Received' = {}
<1>1. CASE Post
  <2>1. /\ queue \in Seq(Event) /\ recv_submit # 0 /\ recv_submit' = 0
        /\ queue' = Append(queue, [seq |-> recv_submit, sock |-> sock])
    BY <1>1 DEF Post, Enqueued, Typed, TypeOK, Located
  <2>2. \A i \in DOMAIN queue' :
          (i \in DOMAIN queue /\ queue'[i] = queue[i]) \/ queue'[i].seq = recv_submit
    BY <2>1
  <2> QED BY <2>1, <2>2 DEF Posted, Received
<1>2. CASE PostFails
  BY <1>2 DEF PostFails, Posted, Received
<1> QED BY <1>1, <1>2

LEMMA StepFresh ==
  Typed /\ Ordered /\ TransfersAllocated /\ Fresh /\ [Next]_vars => Fresh'
<1> SUFFICES ASSUME Typed, Ordered, TransfersAllocated, Fresh, [Next]_vars
             PROVE  Fresh'
  OBVIOUS
<1> USE DEF clientVars, tcpVars, usbVars
<1>1. ASSUME UNCHANGED <<reqs, replies, queue, recv_submit, stream, inflight, cb>>
      PROVE  Fresh'
  <2>1. Open' = Open
    BY <1>1
    DEF Open, Waiting, Posted, Received, Unread, Elements, InCallback
  <2> QED BY <1>1, <2>1, FreshShrinks
<1>2. CASE UNCHANGED vars
  BY <1>1, <1>2 DEF vars
<1>3. CASE ClientSend
  <2>1. /\ Len(reqs) \in Nat /\ Len(reqs') = Len(reqs) + 1 /\ stream \in Seq(Reqs)
        /\ stream' = Append(stream, Len(reqs) + 1)
        /\ UNCHANGED <<replies, queue, recv_submit, inflight, cb>>
    BY <1>3 DEF ClientSend, Typed, TypeOK
  <2>2. Unread' = Unread \cup {Len(reqs) + 1}
    BY <2>1 DEF Unread, Elements
  <2>3. Open' = Open \cup {Len(reqs) + 1}
    BY <2>1, <2>2 DEF Open, Waiting, Posted, Received, InCallback
  <2> QED BY <2>1, <2>3 DEF Fresh, AtMostOneReply, Reqs
<1>4. CASE \/ ClientClose \/ Accept \/ PostImport \/ ImportDone \/ ImportFails
           \/ EnterUrbLoop \/ EnterRecv \/ RecvTimeout \/ LoopEnds
           \/ RecvEof \/ RecvError \/ Cleanup \/ Close
  BY <1>1, <1>4
  DEF ClientClose, Accept, PostImport, ImportDone, ImportFails, EnterUrbLoop,
      EnterRecv, RecvTimeout, LoopEnds, RecvEof, RecvError,
      Cleanup, Close
<1>5. CASE ClientReset \/ ReadAsCommand \/ RecvDropped \/ RecvUnlink \/ RecvCut
  <2>1. /\ stream' = stream \/ stream' = <<>>
              \/ (stream # <<>> /\ stream' = Tail(stream))
        /\ UNCHANGED <<reqs, replies, queue, recv_submit, inflight, cb>>
    BY <1>5 DEF ClientReset, ReadAsCommand, RecvDropped, RecvUnlink, RecvCut
  <2>2. Unread' \subseteq Unread
    <3>1. CASE stream' = stream
      BY <3>1 DEF Unread, Elements
    <3>2. CASE stream' = <<>>
      BY <3>2 DEF Unread, Elements
    <3>3. CASE stream # <<>> /\ stream' = Tail(stream)
      BY <3>3, StreamRead
    <3> QED BY <2>1, <3>1, <3>2, <3>3
  <2>3. Open' \subseteq Open
    BY <2>1, <2>2 DEF Open, Waiting, Posted, Received, InCallback
  <2> QED BY <2>1, <2>3, FreshShrinks
<1>6. CASE RecvSubmit
  <2>1. /\ stream # <<>> /\ stream' = Tail(stream) /\ recv_submit' = Head(stream)
        /\ UNCHANGED <<reqs, replies, queue, inflight, cb>>
    BY <1>6 DEF RecvSubmit
  <2>2. Unread' \subseteq Unread /\ Received' \subseteq Unread
    BY <2>1, StreamRead DEF Received
  <2>3. Open' \subseteq Open
    BY <2>1, <2>2 DEF Open, Waiting, Posted, InCallback
  <2> QED BY <2>1, <2>3, FreshShrinks
<1>8. CASE Post \/ PostFails
  <2>1. UNCHANGED <<reqs, replies, stream, inflight, cb>>
    BY <1>8 DEF Post, PostFails
  <2>2. Posted' \subseteq Posted \cup Received /\ Received' = {}
    BY <1>8, PostMoves
  <2>3. Open' \subseteq Open
    BY <2>1, <2>2 DEF Open, Waiting, Unread, Elements, InCallback
  <2> QED BY <2>1, <2>3, FreshShrinks
<1>9. ASSUME NEW s \in Reqs,
             \/ SubmitNoMemory(s) \/ SubmitSkipped(s)
             \/ SubmitRejected(s) \/ SubmitAccepted(s)
      PROVE  Fresh'
  <2>1. /\ UNCHANGED <<reqs, replies, recv_submit, stream, cb>>
        /\ inflight' \subseteq inflight \cup {s}
    BY <1>9 DEF SubmitNoMemory, SubmitSkipped, SubmitRejected, SubmitAccepted
  <2>2. s \in Posted /\ Posted' \subseteq Posted
    BY <1>9, QueueTaken
    DEF SubmitNoMemory, SubmitSkipped, SubmitRejected, SubmitAccepted
  <2>3. Open' \subseteq Open
    BY <2>1, <2>2 DEF Open, Waiting, Received, Unread, Elements, InCallback
  <2> QED BY <2>1, <2>3, FreshShrinks
<1>10. CASE MarkPending \/ DeviceGone \/ DeviceExit
  BY <1>1, <1>10 DEF MarkPending, DeviceGone, DeviceExit
<1>11. CASE (\E s \in Reqs : Complete(s)) \/ CbCheck
  <2>1. UNCHANGED <<reqs, replies, queue, recv_submit, stream>>
    BY <1>11 DEF Complete, CbCheck
  <2>2. inflight' \cup InCallback' \subseteq inflight \cup InCallback
    <3>1. ASSUME NEW s \in Reqs, Complete(s)
          PROVE  s \in inflight /\ InCallback' = {s} /\ inflight' \subseteq inflight
      BY <3>1 DEF Complete, Completed, InCallback
    <3>2. CASE CbCheck
      BY <3>2 DEF CbCheck, InCallback, Typed, TypeOK, Callback
    <3> QED BY <1>11, <3>1, <3>2
  <2>3. Open' \subseteq Open
    BY <2>1, <2>2 DEF Open, Waiting, Posted, Received, Unread, Elements
  <2> QED BY <2>1, <2>3, FreshShrinks
<1>12. CASE CbSend
  <2> DEFINE s == cb.seq
  <2>1. /\ SendOn(cb.fd, s) /\ InCallback = {s} /\ InCallback' = {}
        /\ UNCHANGED <<reqs, queue, recv_submit, stream, inflight>>
        /\ s \in Reqs
    BY <1>12 DEF CbSend, InCallback, NoCb, Typed, Located
  <2>2. s \in heap /\ s \notin inflight
    BY <2>1 DEF TransfersAllocated
  <2>3. s \notin Waiting
    BY <2>1, <2>2 DEF Ordered, SubmitOrder, Before, Reqs
  <2>4. Waiting' = Waiting
    BY <2>1 DEF Waiting, Posted, Received, Unread, Elements
  <2>5. s \in Open /\ s \notin Open' /\ Open' \subseteq Open
    BY <2>1, <2>2, <2>3, <2>4 DEF Open
  <2>6. s <= Len(reqs)
    BY <2>2 DEF Ordered, Known
  <2> QED BY <2>1, <2>5, <2>6, FreshAnswers
<1> QED
  BY <1>2, <1>3, <1>4, <1>5, <1>6, <1>8, <1>9, <1>10, <1>11, <1>12
  DEF Next, Client, Imports, Receive, Lost, Handler, Class

(* No request is given a second RET_SUBMIT, over all ways from the stream   *)
(* to a callback: control, interrupt or bulk transfer, any interleaving.    *)
THEOREM ReplyCorrect == Spec => []AtMostOneReply
<1>1. Fresh => AtMostOneReply
  BY DEF Fresh
<1> QED
  BY InitTyped, StepTyped, InitOrdered, StepOrdered, InitAllocated, StepAllocated,
     InitFresh, StepFresh, <1>1, PTL DEF Spec

-----------------------------------------------------------------------------
(* The number of transfers in flight.  A flag that is set, or about to be,  *)
(* pays for one transfer on its endpoint; each cleanup, which resets the    *)
(* flags, for one more.                                                     *)

Claim(e) ==
  IF pending[e] \/ (marking # 0 /\ reqs[marking].ep = e) THEN 1 ELSE 0

Bounded ==
  /\ marking # 0 => marking \in 1..Len(reqs) /\ reqs[marking].ep \in Tracked
  /\ \A e \in Tracked : Cardinality(InFlightOn(e)) <= Cleanups + Claim(e)

LEMMA InFlightFinite ==
  ASSUME Typed, NEW e
  PROVE  IsFiniteSet(InFlightOn(e)) /\ Cardinality(InFlightOn(e)) \in Nat
<1>1. IsFiniteSet(Reqs)
  BY FS_Interval, ConstantsAssumption DEF Reqs
<1>2. InFlightOn(e) \in SUBSET Reqs
  BY DEF Typed, TypeOK, InFlightOn
<1>3. IsFiniteSet(InFlightOn(e))
  BY <1>1, <1>2, FS_Subset
<1> QED BY <1>3, FS_CardinalityType

LEMMA CleanupsType == Typed => Cleanups \in Nat
BY ConstantsAssumption DEF Typed, TypeOK, Located, Cleanups

LEMMA InitBounded == Init => Bounded
<1> SUFFICES ASSUME Init PROVE Bounded
  OBVIOUS
<1>1. \A e \in Tracked : InFlightOn(e) = {} /\ Claim(e) = 0
  BY DEF Init, InFlightOn, Claim
<1>2. Cardinality({}) = 0
  BY FS_EmptySet
<1>3. Cleanups = 0 /\ marking = 0
  BY DEF Init, Cleanups
<1> QED BY <1>1, <1>2, <1>3 DEF Bounded

LEMMA StepBounded ==
  Typed /\ Typed' /\ Ordered /\ Bounded /\ [Next]_vars => Bounded'
<1> SUFFICES ASSUME Typed, Typed', Ordered, Bounded, [Next]_vars
             PROVE  Bounded'
  OBVIOUS
<1> USE DEF clientVars, tcpVars, usbVars
<1>n. Cleanups \in Nat /\ \A e : Cardinality(InFlightOn(e)) \in Nat
  BY CleanupsType, InFlightFinite
<1>1. ASSUME Cleanups' = Cleanups, UNCHANGED <<reqs, marking, inflight, pending>>
      PROVE  Bounded'
  <2>1. \A e : InFlightOn(e)' = InFlightOn(e) /\ Claim(e)' = Claim(e)
    BY <1>1 DEF InFlightOn, Claim
  <2> QED BY <1>1, <2>1 DEF Bounded
<1>2. CASE UNCHANGED vars
  BY <1>1, <1>2 DEF vars, Cleanups
<1>3. CASE ClientSend
  <2>1. /\ Len(reqs) \in Nat /\ Len(reqs') = Len(reqs) + 1
        /\ \A s \in 1..Len(reqs) : reqs'[s] = reqs[s]
        /\ UNCHANGED <<tcp, conn, marking, inflight, pending>>
    BY <1>3 DEF ClientSend, Typed, TypeOK
  <2>2. \A s \in inflight : reqs'[s] = reqs[s]
    BY <2>1 DEF Ordered, Known
  <2>3. marking # 0 => marking \in 1..Len(reqs') /\ reqs'[marking] = reqs[marking]
    BY <2>1 DEF Bounded
  <2>4. \A e : InFlightOn(e)' = InFlightOn(e)
    BY <2>1, <2>2 DEF InFlightOn
  <2>5. \A e : Claim(e)' = Claim(e)
    BY <2>1, <2>3 DEF Claim
  <2>6. Cleanups' = Cleanups
    BY <2>1 DEF Cleanups
  <2> QED BY <2>1, <2>3, <2>4, <2>5, <2>6 DEF Bounded
<1>4. CASE \/ ClientClose \/ ClientReset \/ PostImport \/ ImportDone
           \/ ImportFails \/ EnterUrbLoop \/ EnterRecv \/ RecvTimeout
           \/ ReadAsCommand \/ LoopEnds \/ RecvSubmit \/ RecvUnlink \/ Post
           \/ RecvEof \/ RecvError \/ RecvDropped \/ RecvCut \/ PostFails
  <2>1. UNCHANGED <<conn, reqs, marking, inflight, pending>>
    BY <1>4
    DEF ClientClose, ClientReset, PostImport, ImportDone, ImportFails,
        EnterUrbLoop, EnterRecv, RecvTimeout, ReadAsCommand, LoopEnds,
        RecvSubmit, RecvUnlink, Post, RecvEof, RecvError, RecvDropped, RecvCut,
        PostFails
  <2>2. tcp' \in {"accept", "close"} <=> tcp \in {"accept", "close"}
    BY <1>4
    DEF LoopExit, ClientClose, ClientReset, PostImport, ImportDone, ImportFails,
        EnterUrbLoop, EnterRecv, RecvTimeout, ReadAsCommand, LoopEnds,
        RecvSubmit, RecvUnlink, Post, RecvEof, RecvError, RecvDropped, RecvCut,
        PostFails
  <2>3. Cleanups' = Cleanups
    BY <2>1, <2>2 DEF Cleanups
  <2> QED BY <1>1, <2>1, <2>3
<1>5. CASE Accept \/ Close
  <2>1. UNCHANGED <<reqs, marking, inflight, pending>>
    BY <1>5 DEF Accept, Close
  <2>2. conn \in Nat /\ MaxConn \in Nat
    BY ConstantsAssumption DEF Typed, TypeOK
  <2>3. \/ tcp = "accept" /\ tcp' = "loop" /\ conn' = conn + 1
        \/ tcp = "close" /\ tcp' = "accept" /\ conn' = conn
    BY <1>5 DEF Accept, Close
  <2>4. Cleanups' = Cleanups
    BY <2>2, <2>3 DEF Cleanups
  <2> QED BY <1>1, <2>1, <2>4
<1>6. CASE Cleanup
  <2>1. UNCHANGED <<reqs, marking, inflight>>
    BY <1>6 DEF Cleanup
  <2>2. Cleanups' = Cleanups + 1
    BY <1>6 DEF Cleanup, Cleanups, Typed, TypeOK
  <2>3. \A e : InFlightOn(e)' = InFlightOn(e) /\ Claim(e)' \in {0, 1}
               /\ Claim(e) \in {0, 1}
    BY <2>1 DEF InFlightOn, Claim
  <2> QED BY <1>n, <2>1, <2>2, <2>3 DEF Bounded
<1>7. ASSUME NEW s \in Reqs,
             SubmitNoMemory(s) \/ SubmitSkipped(s) \/ SubmitRejected(s)
      PROVE  Bounded'
  <2>1. UNCHANGED <<tcp, conn, reqs, marking, inflight, pending>>
    BY <1>7 DEF SubmitNoMemory, SubmitSkipped, SubmitRejected
  <2> QED BY <1>1, <2>1 DEF Cleanups
<1>8. ASSUME NEW s \in Reqs, SubmitAccepted(s) PROVE Bounded'
  <2>1. /\ UNCHANGED <<tcp, conn, reqs, pending>> /\ marking = 0
        /\ inflight' = inflight \cup {s}
        /\ marking' = IF reqs[s].ep \in Tracked THEN s ELSE 0
        /\ reqs[s].ep \in Tracked => ~pending[reqs[s].ep]
    BY <1>8 DEF SubmitAccepted, Handling, EndpointFree
  <2>2. s \in 1..Len(reqs) /\ s # 0
    BY <1>8, QueueTaken DEF SubmitAccepted, Ordered, Known, Waiting, Reqs
  <2>3. Cleanups' = Cleanups
    BY <2>1 DEF Cleanups
  <2>4. ASSUME NEW e \in Tracked
        PROVE  Cardinality(InFlightOn(e)') <= Cleanups + Claim(e)'
    <3>1. Cardinality(InFlightOn(e)) <= Cleanups + Claim(e) /\ Claim(e) \in {0, 1}
      BY DEF Bounded, Claim
    <3>2. CASE reqs[s].ep = e
      <4>1. InFlightOn(e)' = InFlightOn(e) \cup {s}
        BY <2>1, <3>2 DEF InFlightOn
      <4>2. Cardinality(InFlightOn(e)')
              \in {Cardinality(InFlightOn(e)), Cardinality(InFlightOn(e)) + 1}
        <5>1. IsFiniteSet(InFlightOn(e))
          BY InFlightFinite
        <5> QED BY <4>1, <5>1, FS_AddElement
      <4>3. Claim(e) = 0 /\ Claim(e)' = 1
        BY <2>1, <2>2, <3>2 DEF Claim
      <4> QED BY <1>n, <3>1, <4>2, <4>3
    <3>3. CASE reqs[s].ep # e
      <4>1. InFlightOn(e)' = InFlightOn(e)
        BY <2>1, <3>3 DEF InFlightOn
      <4>2. Claim(e)' = Claim(e)
        BY <2>1, <3>3 DEF Claim
      <4> QED BY <3>1, <4>1, <4>2
    <3> QED BY <3>2, <3>3
  <2> QED BY <2>1, <2>2, <2>3, <2>4 DEF Bounded
<1>9. CASE MarkPending
  <2>1. /\ UNCHANGED <<tcp, conn, reqs, inflight>> /\ marking # 0 /\ marking' = 0
        /\ pending \in [Tracked -> BOOLEAN]
        /\ pending' = [pending EXCEPT ![reqs[marking].ep] = TRUE]
    BY <1>9 DEF MarkPending, Typed, TypeOK
  <2>2. reqs[marking].ep \in Tracked
    BY <2>1 DEF Bounded
  <2>3. \A e : InFlightOn(e)' = InFlightOn(e)
    BY <2>1 DEF InFlightOn
  <2>4. \A e \in Tracked : Claim(e)' = Claim(e)
    BY <2>1, <2>2 DEF Claim
  <2>5. Cleanups' = Cleanups
    BY <2>1 DEF Cleanups
  <2> QED BY <2>1, <2>3, <2>4, <2>5 DEF Bounded
<1>10. ASSUME NEW s \in Reqs, Complete(s) PROVE Bounded'
  <2>1. /\ UNCHANGED <<tcp, conn, reqs, marking>>
        /\ s \in inflight /\ inflight' = inflight \ {s}
        /\ pending \in [Tracked -> BOOLEAN]
        /\ pending' = IF reqs[s].ep \in Tracked
                        THEN [pending EXCEPT ![reqs[s].ep] = FALSE] ELSE pending
    BY <1>10 DEF Complete, Completed, Typed, TypeOK
  <2>2. Cleanups' = Cleanups
    BY <2>1 DEF Cleanups
  <2>3. ASSUME NEW e \in Tracked
        PROVE  Cardinality(InFlightOn(e)') <= Cleanups + Claim(e)'
    <3>1. /\ Cardinality(InFlightOn(e)) <= Cleanups + Claim(e)
          /\ Claim(e) \in {0, 1} /\ Claim(e)' \in {0, 1}
      BY DEF Bounded, Claim
    <3>2. CASE reqs[s].ep = e
      <4>1. InFlightOn(e)' = InFlightOn(e) \ {s} /\ s \in InFlightOn(e)
        BY <2>1, <3>2 DEF InFlightOn
      <4>2. Cardinality(InFlightOn(e)') = Cardinality(InFlightOn(e)) - 1
        BY <4>1, InFlightFinite, FS_RemoveElement
      <4> QED BY <1>n, <3>1, <4>2
    <3>3. CASE reqs[s].ep # e
      <4>1. InFlightOn(e)' = InFlightOn(e)
        BY <2>1, <3>3 DEF InFlightOn
      <4>2. Claim(e)' = Claim(e)
        BY <2>1, <3>3 DEF Claim
      <4> QED BY <3>1, <4>1, <4>2
    <3> QED BY <3>2, <3>3
  <2> QED BY <2>1, <2>2, <2>3 DEF Bounded
<1>11. CASE CbCheck \/ CbSend \/ DeviceGone \/ DeviceExit
  <2>1. UNCHANGED <<tcp, conn, reqs, marking, inflight, pending>>
    BY <1>11 DEF CbCheck, CbSend, DeviceGone, DeviceExit
  <2> QED BY <1>1, <2>1 DEF Cleanups
<1> QED
  BY <1>2, <1>3, <1>4, <1>5, <1>6, <1>7, <1>8, <1>9, <1>10, <1>11
  DEF Next, Client, Imports, Receive, Lost, Handler, Class

(* No interrupt endpoint has more transfers in flight than one per cleanup  *)
(* and one more, although the flag is read, set and cleared by three tasks  *)
(* without a lock, and is set after the transfer may have completed.        *)
THEOREM InFlightCorrect == Spec => []InFlightBounded
<1>1. Typed /\ Bounded => InFlightBounded
  <2> SUFFICES ASSUME Typed, Bounded, NEW e \in Tracked
               PROVE  Cardinality(InFlightOn(e)) <= Cleanups + 1
    BY DEF InFlightBounded
  <2>1. Cardinality(InFlightOn(e)) <= Cleanups + Claim(e) /\ Claim(e) \in {0, 1}
    BY DEF Bounded, Claim
  <2> QED BY <2>1, CleanupsType, InFlightFinite
<1> QED
  BY InitTyped, StepTyped, InitOrdered, StepOrdered, InitBounded, StepBounded,
     <1>1, PTL DEF Spec

-----------------------------------------------------------------------------
(* Refinement.  With the invariants above, the stages of a request exclude  *)
(* each other, so that each is known from one fact about the state.         *)

OnDevice == inflight \cup InCallback
IInv == Typed /\ Ordered /\ TransfersAllocated /\ Fresh

StagesKnown ==
  \A s \in Reqs :
    /\ s > Len(reqs) => Stage(s) = "unsent"
    /\ s \in Waiting => Stage(s) = "waiting" /\ s <= Len(reqs) /\ s \notin OnDevice
                        /\ replies[s] = <<>>
    /\ s \in OnDevice => Stage(s) = "device" /\ s <= Len(reqs) /\ s \notin Waiting
                         /\ replies[s] = <<>>
    /\ s <= Len(reqs) /\ s \notin Waiting /\ s \notin OnDevice =>
         Stage(s) = IF replies[s] # <<>> THEN "answered" ELSE "lost"

LEMMA StagesAreKnown == IInv => StagesKnown
<1> SUFFICES ASSUME IInv, NEW s \in Reqs
    PROVE /\ s > Len(reqs) => Stage(s) = "unsent"
          /\ s \in Waiting => Stage(s) = "waiting" /\ s <= Len(reqs)
                              /\ s \notin OnDevice /\ replies[s] = <<>>
          /\ s \in OnDevice => Stage(s) = "device" /\ s <= Len(reqs)
                              /\ s \notin Waiting /\ replies[s] = <<>>
          /\ s <= Len(reqs) /\ s \notin Waiting /\ s \notin OnDevice =>
               Stage(s) = IF replies[s] # <<>> THEN "answered" ELSE "lost"
  BY DEF StagesKnown
<1>1. Len(reqs) \in Nat /\ s \in Nat
  BY DEF IInv, Typed, TypeOK, Reqs
<1>2. OnDevice \subseteq heap
  BY DEF IInv, TransfersAllocated, OnDevice
<1>3. s \in Waiting \/ s \in OnDevice => s <= Len(reqs)
  BY <1>1, <1>2 DEF IInv, Ordered, Known
<1>4. ~(s \in Waiting /\ s \in OnDevice)
  BY <1>1, <1>2 DEF IInv, Ordered, SubmitOrder, Before
<1>5. s \in Waiting \/ s \in OnDevice => replies[s] = <<>>
  BY DEF IInv, Fresh, Open, OnDevice
<1> QED BY <1>1, <1>3, <1>4, <1>5 DEF Stage, OnDevice

LEMMA InitIInv == Init => IInv
BY InitTyped, InitOrdered, InitAllocated, InitFresh DEF IInv

LEMMA StepIInv == IInv /\ [Next]_vars => IInv'
BY StepTyped, StepOrdered, StepAllocated, StepFresh DEF IInv

(* Requests that stop waiting without going to the device are lost.         *)
LEMMA LoseStep ==
  ASSUME StagesKnown, StagesKnown', Waiting' \subseteq Waiting,
         OnDevice' = OnDevice, UNCHANGED <<reqs, replies>>, Typed
  PROVE  Service!Next
<1> DEFINE S == {s \in Reqs : s \in Waiting /\ s \notin Waiting'}
<1>1. \A s \in S : Stage(s) = "waiting"
  BY DEF StagesKnown
<1>2. ASSUME NEW s \in Reqs
      PROVE  Stage(s)' = IF s \in S THEN "lost" ELSE Stage(s)
  <2>1. Len(reqs) \in Nat /\ s \in Nat /\ Len(reqs') = Len(reqs)
    BY DEF Typed, TypeOK, Reqs
  <2>2. CASE s > Len(reqs)
    BY <2>1, <2>2 DEF StagesKnown
  <2>3. CASE s <= Len(reqs)
    BY <2>1, <2>3 DEF StagesKnown
  <2> QED BY <2>1, <2>2, <2>3
<1>3. Service!Lose(S)
  BY <1>1, <1>2 DEF Service!Lose, Service!Reqs, Reqs
<1>4. S \in SUBSET Service!Reqs
  BY DEF Service!Reqs, Reqs
<1> QED BY <1>3, <1>4 DEF Service!Next

(* A request that is replied to is answered, or lost if the send failed.    *)
LEMMA AnswerStep ==
  ASSUME StagesKnown, StagesKnown', Typed, NEW s \in Reqs, NEW fd, SendOn(fd, s),
         s \in OnDevice, Waiting' = Waiting, OnDevice' = OnDevice \ {s},
         reqs' = reqs
  PROVE  Service!Next
<1>1. replies \in [Reqs -> Seq(Conns)]
  BY DEF Typed, TypeOK
<1>2. \A r \in Reqs : r # s => replies'[r] = replies[r]
  BY <1>1 DEF SendOn
<1>3. Len(reqs) \in Nat /\ Len(reqs') = Len(reqs) /\ \A r \in Reqs : r \in Nat
  BY DEF Typed, TypeOK, Reqs
<1>4. ASSUME NEW r \in Reqs, r # s PROVE Stage(r)' = Stage(r)
  <2>1. CASE r > Len(reqs)
    BY <1>3, <1>4, <2>1 DEF StagesKnown
  <2>2. CASE r <= Len(reqs)
    BY <1>2, <1>3, <1>4, <2>2 DEF StagesKnown
  <2> QED BY <1>3, <2>1, <2>2
<1>5. /\ Stage(s) = "device"
      /\ Stage(s)' \in {"answered", "lost"}
  BY <1>3 DEF StagesKnown
<1>6. CASE Stage(s)' = "answered"
  <2>1. Service!Answer(s)
    BY <1>4, <1>5, <1>6 DEF Service!Answer, Service!Reqs, Reqs
  <2> QED BY <2>1 DEF Service!Next, Service!Reqs, Reqs
<1>7. CASE Stage(s)' = "lost"
  <2>1. Service!Lose({s})
    BY <1>4, <1>5, <1>7 DEF Service!Lose, Service!Reqs, Reqs
  <2> QED BY <2>1 DEF Service!Next, Service!Reqs, Reqs
<1> QED BY <1>5, <1>6, <1>7

LEMMA StepService ==
  ASSUME IInv, IInv', StagesKnown, StagesKnown', [Next]_vars
  PROVE  [Service!Next]_([s \in Reqs |-> Stage(s)])
<1> USE DEF IInv, clientVars, tcpVars, usbVars
<1>1. ASSUME UNCHANGED <<reqs, replies, queue, recv_submit, stream, inflight, cb>>
      PROVE  Service!Next
  <2>1. Waiting' = Waiting /\ OnDevice' = OnDevice
    BY <1>1 DEF Waiting, Posted, Received, Unread, Elements, OnDevice, InCallback
  <2> QED BY <1>1, <2>1, LoseStep
<1>2. CASE UNCHANGED vars
  BY <1>1, <1>2 DEF vars
<1>3. CASE ClientSend
  <2>0. PICK n \in Reqs : n = Len(reqs) + 1
    BY <1>3, ConstantsAssumption DEF ClientSend, Typed, TypeOK, Reqs
  <2>1. /\ Len(reqs) \in Nat /\ Len(reqs) = n - 1 /\ Len(reqs') = n
        /\ stream \in Seq(Reqs) /\ stream' = Append(stream, n)
        /\ n \in Nat /\ UNCHANGED <<replies, queue, recv_submit, inflight, cb>>
    BY <1>3, <2>0 DEF ClientSend, Typed, TypeOK
  <2>2. Unread' = Unread \cup {n}
    BY <2>1 DEF Unread, Elements
  <2>3. Waiting' = Waiting \cup {n} /\ OnDevice' = OnDevice
    BY <2>1, <2>2 DEF Waiting, Posted, Received, OnDevice, InCallback
  <2>4. Stage(n) = "unsent" /\ Stage(n)' = "waiting"
    BY <2>1, <2>3 DEF StagesKnown
  <2>5. ASSUME NEW r \in Reqs, r # n PROVE Stage(r)' = Stage(r)
    <3>1. r \in Nat
      BY DEF Reqs
    <3>2. CASE r > n
      BY <2>1, <3>1, <3>2 DEF StagesKnown
    <3>3. CASE r < n
      BY <2>1, <2>3, <2>5, <3>1, <3>3 DEF StagesKnown
    <3> QED BY <2>1, <2>5, <3>1, <3>2, <3>3
  <2>6. ASSUME NEW r \in 1..(n - 1) PROVE r \in Reqs /\ Stage(r) # "unsent"
    <3>1. r \in Nat /\ 1 <= r /\ r <= n - 1 /\ n <= MaxReq /\ MaxReq \in Nat
      BY <2>0, <2>1, ConstantsAssumption DEF Reqs
    <3>2. r \in Reqs /\ r <= Len(reqs)
      BY <2>1, <3>1 DEF Reqs
    <3> QED BY <3>1, <3>2 DEF StagesKnown
  <2>7. Service!Send(n)
    BY <2>1, <2>4, <2>5, <2>6 DEF Service!Send, Service!Reqs, Reqs
  <2> QED BY <2>1, <2>7 DEF Service!Next, Service!Reqs, Reqs
<1>4. CASE \/ ClientClose \/ Accept \/ PostImport \/ ImportDone \/ ImportFails
           \/ EnterUrbLoop \/ EnterRecv \/ RecvTimeout \/ LoopEnds
           \/ RecvEof \/ RecvError \/ Cleanup \/ Close
           \/ MarkPending \/ DeviceGone \/ DeviceExit
  BY <1>1, <1>4
  DEF ClientClose, Accept, PostImport, ImportDone, ImportFails, EnterUrbLoop,
      EnterRecv, RecvTimeout, LoopEnds, RecvEof, RecvError,
      Cleanup, Close, MarkPending, DeviceGone, DeviceExit
<1>5. CASE ClientReset \/ ReadAsCommand \/ RecvDropped \/ RecvUnlink \/ RecvCut
  <2>1. /\ stream' = stream \/ stream' = <<>>
              \/ (stream # <<>> /\ stream' = Tail(stream))
        /\ UNCHANGED <<reqs, replies, queue, recv_submit, inflight, cb>>
    BY <1>5 DEF ClientReset, ReadAsCommand, RecvDropped, RecvUnlink, RecvCut
  <2>2. Unread' \subseteq Unread
    <3>1. CASE stream' = stream
      BY <3>1 DEF Unread, Elements
    <3>2. CASE stream' = <<>>
      BY <3>2 DEF Unread, Elements
    <3>3. CASE stream # <<>> /\ stream' = Tail(stream)
      BY <3>3, StreamRead
    <3> QED BY <2>1, <3>1, <3>2, <3>3
  <2>3. Waiting' \subseteq Waiting /\ OnDevice' = OnDevice
    BY <2>1, <2>2 DEF Waiting, Posted, Received, OnDevice, InCallback
  <2> QED BY <2>1, <2>3, LoseStep
<1>6. CASE RecvSubmit
  <2>1. /\ stream # <<>> /\ stream' = Tail(stream) /\ recv_submit' = Head(stream)
        /\ UNCHANGED <<reqs, replies, queue, inflight, cb>>
    BY <1>6 DEF RecvSubmit
  <2>2. Unread' \subseteq Unread /\ Received' \subseteq Unread
    BY <2>1, StreamRead DEF Received
  <2>3. Waiting' \subseteq Waiting /\ OnDevice' = OnDevice
    BY <2>1, <2>2 DEF Waiting, Posted, OnDevice, InCallback
  <2> QED BY <2>1, <2>3, LoseStep
<1>8. CASE Post \/ PostFails
  <2>1. UNCHANGED <<reqs, replies, stream, inflight, cb>>
    BY <1>8 DEF Post, PostFails
  <2>2. Posted' \subseteq Posted \cup Received /\ Received' = {}
    BY <1>8, PostMoves
  <2>3. Waiting' \subseteq Waiting /\ OnDevice' = OnDevice
    BY <2>1, <2>2 DEF Waiting, Unread, Elements, OnDevice, InCallback
  <2> QED BY <2>1, <2>3, LoseStep
<1>9. ASSUME NEW s \in Reqs,
             SubmitNoMemory(s) \/ SubmitSkipped(s) \/ SubmitRejected(s)
      PROVE  Service!Next
  <2>1. UNCHANGED <<reqs, replies, recv_submit, stream, inflight, cb>>
    BY <1>9 DEF SubmitNoMemory, SubmitSkipped, SubmitRejected
  <2>2. Posted' \subseteq Posted
    BY <1>9, QueueTaken DEF SubmitNoMemory, SubmitSkipped, SubmitRejected
  <2>3. Waiting' \subseteq Waiting /\ OnDevice' = OnDevice
    BY <2>1, <2>2 DEF Waiting, Received, Unread, Elements, OnDevice, InCallback
  <2> QED BY <2>1, <2>3, LoseStep
<1>10. ASSUME NEW s \in Reqs, SubmitAccepted(s) PROVE Service!Next
  <2>1. /\ UNCHANGED <<reqs, replies, recv_submit, stream, cb>>
        /\ inflight' = inflight \cup {s}
    BY <1>10 DEF SubmitAccepted
  <2>2. /\ s \in Posted /\ Posted = Posted' \cup {s} /\ \A r \in Posted' : s < r
    BY <1>10, QueueTaken DEF SubmitAccepted
  <2>3. /\ \A r \in Waiting : r # s => s < r
        /\ s \notin Posted' /\ s \notin Received /\ s \notin Unread
    BY <2>2 DEF Ordered, SubmitOrder, Before, Waiting, Reqs
  <2>4. Waiting' = Waiting \ {s} /\ OnDevice' = OnDevice \cup {s} /\ s \in Waiting
    <3>1. Received' = Received /\ Unread' = Unread /\ InCallback' = InCallback
      BY <2>1 DEF Received, Unread, Elements, InCallback
    <3>2. s \notin Received' /\ s \notin Unread' /\ s \in Posted
      BY <2>2, <2>3, <3>1
    <3>3. OnDevice' = OnDevice \cup {s}
      BY <2>1, <3>1 DEF OnDevice
    <3> QED BY <2>2, <2>3, <3>1, <3>2, <3>3 DEF Waiting
  <2>5. Stage(s) = "waiting" /\ Stage(s)' = "device"
    <3>1. s \in Waiting /\ s \in OnDevice'
      BY <2>4
    <3> QED BY <3>1 DEF StagesKnown
  <2>6. Len(reqs) \in Nat /\ Len(reqs') = Len(reqs) /\ \A r \in Reqs : r \in Nat
    <3>1. Len(reqs) \in Nat
      BY DEF Typed, TypeOK
    <3>2. \A r \in Reqs : r \in Nat
      BY DEF Reqs
    <3> QED BY <2>1, <3>1, <3>2
  <2>7. ASSUME NEW r \in Reqs, r # s PROVE Stage(r)' = Stage(r)
    <3>1. CASE r > Len(reqs)
      BY <2>6, <3>1 DEF StagesKnown
    <3>2. CASE r <= Len(reqs)
      BY <2>1, <2>4, <2>6, <2>7, <3>2 DEF StagesKnown
    <3> QED BY <2>6, <3>1, <3>2
  <2>8. ASSUME NEW r \in 1..(s - 1) PROVE r \in Reqs /\ Stage(r) # "waiting"
    <3>1. r \in Reqs /\ r < s
      BY ConstantsAssumption DEF Reqs
    <3>2. r \notin Waiting
      BY <2>3, <2>6, <3>1
    <3>3. CASE r > Len(reqs)
      BY <3>1, <3>3 DEF StagesKnown
    <3>4. CASE r <= Len(reqs)
      BY <3>1, <3>2, <3>4 DEF StagesKnown
    <3> QED BY <2>6, <3>1, <3>3, <3>4
  <2>9. Service!Start(s)
    BY <2>5, <2>7, <2>8 DEF Service!Start, Service!Reqs, Reqs
  <2> QED BY <2>9 DEF Service!Next, Service!Reqs, Reqs
<1>11. ASSUME NEW s \in Reqs, Complete(s) PROVE Service!Next
  <2>1. /\ UNCHANGED <<reqs, replies, queue, recv_submit, stream>>
        /\ InCallback = {} /\ InCallback' = {s}
        /\ s \in inflight /\ inflight' = inflight \ {s}
    BY <1>11 DEF Complete, Completed, InCallback, NoCb
  <2>2. Waiting' = Waiting /\ OnDevice' = OnDevice
    BY <2>1 DEF Waiting, Posted, Received, Unread, Elements, OnDevice
  <2> QED BY <2>1, <2>2, LoseStep
<1>12. CASE CbCheck
  <2>1. /\ UNCHANGED <<reqs, replies, queue, recv_submit, stream, inflight>>
        /\ InCallback' = InCallback
    BY <1>12 DEF CbCheck, InCallback, Typed, TypeOK, Callback
  <2>2. Waiting' = Waiting /\ OnDevice' = OnDevice
    BY <2>1 DEF Waiting, Posted, Received, Unread, Elements, OnDevice
  <2> QED BY <2>1, <2>2, LoseStep
<1>13. CASE CbSend
  <2> DEFINE s == cb.seq
  <2>1. /\ SendOn(cb.fd, s) /\ InCallback = {s} /\ InCallback' = {}
        /\ UNCHANGED <<reqs, queue, recv_submit, stream, inflight>>
        /\ s \in Reqs
    BY <1>13 DEF CbSend, InCallback, NoCb, Typed, Located
  <2>2. s \in OnDevice /\ s \notin inflight
    BY <2>1 DEF TransfersAllocated, OnDevice
  <2>3. OnDevice' = OnDevice \ {s}
    BY <2>1, <2>2 DEF OnDevice
  <2>4. Waiting' = Waiting /\ s \notin Waiting
    BY <2>1, <2>2 DEF StagesKnown, Waiting, Posted, Received, Unread, Elements
  <2> QED BY <2>1, <2>2, <2>3, <2>4, AnswerStep
<1> QED
  BY <1>2, <1>3, <1>4, <1>5, <1>6, <1>8, <1>9, <1>10, <1>11, <1>12, <1>13
  DEF Next, Client, Imports, Receive, Lost, Handler, Class

(* The three tasks, the queue, the sockets and the flags implement the life *)
(* cycle of UrbService: once, forwards, and in order.                       *)
THEOREM ServiceImplemented == Spec => ImplementsService
<1>1. Init => Service!Init
  <2> SUFFICES ASSUME Init, NEW s \in Reqs PROVE Stage(s) = "unsent"
    BY DEF Service!Init, Service!Reqs, Reqs
  <2>1. Len(reqs) = 0 /\ s \in Nat /\ s > 0
    BY DEF Init, Reqs
  <2> QED BY <2>1 DEF Stage
<1>2. IInv /\ IInv' /\ StagesKnown /\ StagesKnown' /\ [Next]_vars
        => [Service!Next]_([s \in Reqs |-> Stage(s)])
  BY StepService
<1> QED
  BY InitIInv, StepIInv, StagesAreKnown, <1>1, <1>2, PTL
  DEF Spec, ImplementsService, Service!Spec

(* So while a transfer is out, no older request is still to be handed to    *)
(* the device, not even one of a connection before: UrbService promises it, *)
(* and the tasks keep it.                                                   *)
THEOREM DeviceServedInOrder == Spec => []Service!DeviceInOrder
BY ServiceImplemented, Service!OrderPromised, PTL DEF ImplementsService

-----------------------------------------------------------------------------
(* The connection's life.                                                   *)

(* Imports are posted for one connection after the other, and for none      *)
(* before its client has asked.                                             *)
InTurn ==
  /\ \A i, j \in DOMAIN importing :
       i < j => importing[i].conn < importing[j].conn
  /\ \A i \in DOMAIN importing : importing[i].conn <= conn
  /\ tcp # "accept" /\ attached = "no" =>
       \A i \in DOMAIN importing : importing[i].conn < conn

LEMMA ImportConns ==
  ASSUME Typed
  PROVE  conn \in Nat /\ \A i \in DOMAIN importing : importing[i].conn \in Nat
<1>1. MaxConn \in Nat /\ conn \in 0..MaxConn /\ importing \in Seq(Import)
  BY ConstantsAssumption DEF Typed, TypeOK
<1>2. conn \in Nat
  BY <1>1
<1>3. \A i \in DOMAIN importing : importing[i] \in Import
  BY <1>1
<1>4. \A e \in Import : e.conn \in Nat
  BY <1>1 DEF Import, Conns
<1> QED BY <1>2, <1>3, <1>4

LEMMA InitInTurn == Init => InTurn
BY DEF Init, InTurn

(* What an import at the end, and the first one taken away, do to those     *)
(* that are pending.                                                        *)
LEMMA ImportPosted ==
  ASSUME Typed, PostImport
  PROVE  /\ DOMAIN importing' = DOMAIN importing \cup {Len(importing) + 1}
         /\ Len(importing) \in Nat /\ DOMAIN importing = 1..Len(importing)
         /\ importing'[Len(importing) + 1].conn = conn
         /\ \A i \in DOMAIN importing : importing'[i] = importing[i]
<1> DEFINE n == Len(importing)
           e == [conn |-> conn, sock |-> sock]
<1>1. importing \in Seq(Import) /\ e \in Import
  BY ConstantsAssumption DEF PostImport, Typed, Located, TypeOK, Import, Conns
<1>2. importing' = Append(importing, e)
  BY DEF PostImport
<1>3. n \in Nat /\ DOMAIN importing = 1..n
  BY <1>1
<1>4. DOMAIN importing' = 1..(n + 1) /\ importing'[n + 1] = e
  BY <1>1, <1>2, <1>3
<1>5. \A i \in 1..n : importing'[i] = importing[i]
  BY <1>1, <1>2, <1>3
<1>6. e.conn = conn
  OBVIOUS
<1>7. 1..(n + 1) = 1..n \cup {n + 1}
  BY <1>3
<1> QED BY <1>3, <1>4, <1>5, <1>6, <1>7

LEMMA ImportTaken ==
  ASSUME Typed, ImportDone \/ ImportFails
  PROVE  /\ importing # <<>> /\ importing' = Tail(importing)
         /\ Len(importing) \in Nat \ {0} /\ DOMAIN importing = 1..Len(importing)
         /\ DOMAIN importing' = 1..(Len(importing) - 1)
         /\ \A i \in DOMAIN importing' : importing'[i] = importing[i + 1]
<1>1. importing \in Seq(Import)
  BY DEF Typed, TypeOK
<1>2. importing # <<>> /\ importing' = Tail(importing)
  BY DEF ImportDone, ImportFails
<1> QED BY <1>1, <1>2

LEMMA StepInTurn == Typed /\ Typed' /\ InTurn /\ [Next]_vars => InTurn'
<1> SUFFICES ASSUME Typed, Typed', InTurn, [Next]_vars PROVE InTurn'
  OBVIOUS
<1>1. conn \in Nat /\ \A i \in DOMAIN importing : importing[i].conn \in Nat
  BY ImportConns
<1>2. CASE PostImport
  <2>1. attached = "no" /\ tcp = "recv" /\ attached' # "no" /\ conn' = conn
    BY <1>2 DEF PostImport, tcpVars
  <2>2. \A i \in DOMAIN importing : importing[i].conn < conn
    BY <2>1 DEF InTurn
  <2> QED BY <1>1, <1>2, <2>1, <2>2, ImportPosted DEF InTurn
<1>3. CASE ImportDone \/ ImportFails
  <2>1. conn' = conn /\ tcp' = tcp /\ (attached' = "no" => attached = "no")
    <3>1. attached' \in {"asked", "yes"} \/ attached' = attached
      BY <1>3 DEF ImportDone, ImportFails, clientVars
    <3> QED BY <1>3, <3>1 DEF ImportDone, ImportFails, tcpVars
  <2>2. \A i \in DOMAIN importing' : i \in Nat /\ i + 1 \in DOMAIN importing
    <3> DEFINE n == Len(importing)
    <3>1. /\ n \in Nat \ {0} /\ DOMAIN importing = 1..n
          /\ DOMAIN importing' = 1..(n - 1)
      BY <1>3, ImportTaken
    <3> HIDE DEF n
    <3> QED BY <3>1
  <2>3. ASSUME NEW i \in DOMAIN importing', NEW j \in DOMAIN importing', i < j
        PROVE  importing'[i].conn < importing'[j].conn
    <3>1. i + 1 < j + 1
      BY <2>2, <2>3
    <3>2. importing'[i] = importing[i + 1] /\ importing'[j] = importing[j + 1]
      BY <1>3, ImportTaken
    <3> QED BY <2>2, <3>1, <3>2 DEF InTurn
  <2>4. \A i \in DOMAIN importing' : importing'[i] = importing[i + 1]
    BY <1>3, ImportTaken
  <2> QED BY <2>1, <2>2, <2>3, <2>4 DEF InTurn
<1>4. CASE Accept
  <2>1. importing' = importing /\ conn' = conn + 1
    BY <1>4 DEF Accept
  <2> QED BY <1>1, <2>1 DEF InTurn
<1>5. CASE Close
  <2>1. importing' = importing /\ conn' = conn /\ tcp' = "accept"
    BY <1>5 DEF Close
  <2> QED BY <2>1 DEF InTurn
<1>6. CASE /\ UNCHANGED <<importing, conn, attached>>
           /\ tcp' # "accept" => tcp # "accept"
  BY <1>6 DEF InTurn
<1>7. CASE \/ Client \/ EnterUrbLoop \/ EnterRecv \/ RecvTimeout
           \/ ReadAsCommand \/ LoopEnds \/ RecvSubmit \/ RecvUnlink \/ Post
           \/ RecvEof \/ RecvError \/ Cleanup
  BY <1>6, <1>7 DEF Client, ClientSend, ClientClose, ClientReset, tcpVars,
    clientVars, EnterUrbLoop, EnterRecv, RecvTimeout, ReadAsCommand, LoopEnds,
    RecvSubmit, RecvUnlink, Post, RecvEof, RecvError, Cleanup
<1>8. CASE Lost \/ Handler \/ Class
  BY <1>6, <1>8 DEF Lost, RecvDropped, RecvCut, PostFails, tcpVars, clientVars, Handler,
    SubmitNoMemory, SubmitSkipped, SubmitRejected, SubmitAccepted, MarkPending,
    Class, Complete, CbCheck, CbSend, DeviceGone, DeviceExit
<1>9. CASE UNCHANGED vars
  BY <1>6, <1>9 DEF vars, tcpVars, clientVars
<1> QED
  BY <1>2, <1>3, <1>4, <1>5, <1>7, <1>8, <1>9 DEF Next, Receive, Imports

(* A step that changes nothing of what a connection is.                     *)
LEMMA ConnectionKept ==
  ASSUME Phase' = Phase, UNCHANGED <<conn, peer, importing, device_busy>>
  PROVE  UNCHANGED Connection!vars
BY DEF Connection!vars, Asked

LEMMA StepConnection ==
  ASSUME Typed, Typed', InTurn, InTurn', [Next]_vars
  PROVE  [Connection!Next]_(Connection!vars)
<1>1. /\ tcp \in {"loop", "recv"} => Phase = "commands"
      /\ tcp \in {"urb", "post"} => Phase = "urbs"
      /\ tcp \in {"accept", "cleanup", "close"} => Phase = tcp
  BY DEF Phase
<1>2. /\ tcp' \in {"loop", "recv"} => Phase' = "commands"
      /\ tcp' \in {"urb", "post"} => Phase' = "urbs"
      /\ tcp' \in {"accept", "cleanup", "close"} => Phase' = tcp'
  BY DEF Phase
<1>3. tcp' = tcp => Phase' = Phase
  BY DEF Phase
<1>4. importing' = importing => Asked' = Asked
  BY DEF Asked
<1>5. CASE ClientSend
  BY <1>3, <1>5, ConnectionKept DEF ClientSend, tcpVars
<1>6. CASE ClientClose \/ ClientReset
  <2>1. Connection!Leave
    BY <1>3, <1>4, <1>6 DEF ClientClose, ClientReset, tcpVars, Connection!Leave
  <2> QED BY <2>1 DEF Connection!Next
<1>7. CASE Accept
  <2>1. Connection!Accept
    BY <1>1, <1>2, <1>4, <1>7 DEF Accept, Connection!Accept
  <2> QED BY <2>1 DEF Connection!Next
<1>8. CASE PostImport
  <2>1. /\ tcp = "recv" /\ tcp' = "loop" /\ attached = "no"
        /\ UNCHANGED <<conn, peer, device_busy>>
    BY <1>8 DEF PostImport, tcpVars
  <2>2. conn \notin Asked
    <3>1. conn \in Nat /\ \A i \in DOMAIN importing : importing[i].conn < conn
      BY <2>1, ImportConns DEF InTurn
    <3>2. \A i \in DOMAIN importing : importing[i].conn # conn
      BY <3>1, ImportConns
    <3> QED BY <3>2 DEF Asked
  <2>3. Asked' = Asked \cup {conn}
    <3> DEFINE n == Len(importing)
    <3>1. /\ DOMAIN importing' = DOMAIN importing \cup {n + 1}
          /\ importing'[n + 1].conn = conn
          /\ \A i \in DOMAIN importing : importing'[i] = importing[i]
      BY <1>8, ImportPosted
    <3> HIDE DEF n
    <3> QED BY <3>1 DEF Asked
  <2>4. Connection!Ask
    BY <1>1, <1>2, <2>1, <2>2, <2>3 DEF Connection!Ask
  <2> QED BY <2>4 DEF Connection!Next
<1>9. CASE ImportDone \/ ImportFails
  <2> DEFINE n == Len(importing)
             c == importing[1].conn
  <2>1. /\ n \in Nat \ {0} /\ DOMAIN importing = 1..n
        /\ DOMAIN importing' = 1..(n - 1)
        /\ \A i \in DOMAIN importing' : importing'[i] = importing[i + 1]
    BY <1>9, ImportTaken
  <2>2. /\ UNCHANGED <<tcp, conn>>
        /\ \/ device_busy' = TRUE /\ peer' = peer
           \/ device_busy' = device_busy
              /\ (peer' = peer \/ (peer = "fin" /\ peer' = "shut"))
    BY <1>9 DEF ImportDone, ImportFails, tcpVars
  <2>3. \A i \in DOMAIN importing : i # 1 => c < importing[i].conn
    BY <2>1 DEF InTurn
  <2> HIDE DEF n
  <2>4. c \in Asked /\ \A d \in Asked : c <= d
    <3>1. 1 \in DOMAIN importing
      BY <2>1
    <3>2. \A i \in DOMAIN importing : c <= importing[i].conn
      BY <2>3, <3>1, ImportConns
    <3> QED BY <3>1, <3>2 DEF Asked
  <2>5. Asked' = Asked \ {c}
    <3>1. \A i \in DOMAIN importing' :
            i + 1 \in DOMAIN importing /\ i + 1 # 1
      BY <2>1
    <3>2. \A i \in DOMAIN importing :
            i = 1 \/ (i - 1 \in DOMAIN importing' /\ (i - 1) + 1 = i)
      BY <2>1
    <3>3. ASSUME NEW d \in Asked' PROVE d \in Asked \ {c}
      <4>1. PICK i \in DOMAIN importing' : d = importing'[i].conn
        BY <3>3 DEF Asked
      <4>2. d = importing[i + 1].conn /\ i + 1 \in DOMAIN importing /\ i + 1 # 1
        BY <2>1, <3>1, <4>1
      <4>3. c < d /\ c \in Nat /\ d \in Nat
        BY <2>3, <2>1, <4>2, ImportConns
      <4> QED BY <4>2, <4>3 DEF Asked
    <3>4. ASSUME NEW d \in Asked \ {c} PROVE d \in Asked'
      <4>1. PICK i \in DOMAIN importing : d = importing[i].conn
        BY DEF Asked
      <4>2. i - 1 \in DOMAIN importing' /\ (i - 1) + 1 = i
        BY <3>2, <4>1
      <4>3. d = importing'[i - 1].conn
        BY <2>1, <4>1, <4>2
      <4> QED BY <4>2, <4>3 DEF Asked
    <3> QED BY <3>3, <3>4
  <2>6. Connection!Finish
    BY <1>3, <2>2, <2>4, <2>5
    DEF Connection!Finish, Connection!Oldest, Connection!Read
  <2> QED BY <2>6 DEF Connection!Next
<1>10. CASE EnterUrbLoop
  <2>1. Connection!ReadUrbs
    BY <1>1, <1>2, <1>4, <1>10
    DEF EnterUrbLoop, tcpVars, clientVars, Connection!ReadUrbs
  <2> QED BY <2>1 DEF Connection!Next
<1>11. CASE EnterRecv \/ RecvTimeout \/ ReadAsCommand
  <2>1. Phase' = Phase
    BY <1>1, <1>2, <1>11 DEF EnterRecv, RecvTimeout, ReadAsCommand
  <2>2. UNCHANGED <<conn, peer, importing, device_busy>>
    BY <1>11 DEF EnterRecv, RecvTimeout, ReadAsCommand, tcpVars, clientVars
  <2> QED BY <2>1, <2>2, ConnectionKept
<1>12. CASE LoopEnds
  <2>1. Connection!EndOfCommands
    BY <1>1, <1>2, <1>4, <1>12
    DEF LoopEnds, LoopExit, Failing, tcpVars, clientVars, Connection!EndOfCommands,
      Connection!Ended
  <2> QED BY <2>1 DEF Connection!Next
<1>13. CASE RecvSubmit \/ RecvUnlink \/ Post \/ RecvDropped \/ PostFails
  <2>1. tcp' = tcp \/ (tcp \in {"urb", "post"} /\ tcp' \in {"urb", "post"})
    BY <1>13 DEF RecvSubmit, RecvUnlink, Post, RecvDropped, PostFails
  <2>2. Phase' = Phase
    BY <1>1, <1>2, <1>3, <2>1
  <2>3. UNCHANGED <<conn, peer, importing, device_busy>>
    BY <1>13 DEF RecvSubmit, RecvUnlink, Post, RecvDropped, PostFails,
      tcpVars, clientVars
  <2> QED BY <2>2, <2>3, ConnectionKept
<1>131. CASE RecvCut
  <2>1. Connection!Cut
    BY <1>1, <1>3, <1>4, <1>131 DEF RecvCut, Connection!Cut, Connection!Read
  <2> QED BY <2>1 DEF Connection!Next
<1>14. CASE RecvEof \/ RecvError
  <2>1. Connection!EndOfUrbs
    BY <1>1, <1>2, <1>4, <1>14
    DEF RecvEof, RecvError, BusyAfterEof, Failing, tcpVars, clientVars,
      Connection!EndOfUrbs, Connection!Ended, Connection!Read
  <2> QED BY <2>1 DEF Connection!Next
<1>15. CASE Cleanup
  <2>1. Connection!Cleanup
    BY <1>1, <1>2, <1>4, <1>15
    DEF Cleanup, tcpVars, clientVars, Connection!Cleanup
  <2> QED BY <2>1 DEF Connection!Next
<1>16. CASE Close
  <2>1. Connection!Close
    BY <1>1, <1>2, <1>4, <1>16 DEF Close, Connection!Close
  <2> QED BY <2>1 DEF Connection!Next
<1>17. CASE Handler
  <2>1. UNCHANGED <<tcp, conn, peer, importing, device_busy>>
    BY <1>17 DEF Handler, SubmitNoMemory, SubmitSkipped, SubmitRejected,
      SubmitAccepted, MarkPending, tcpVars, clientVars
  <2> QED BY <1>3, <2>1, ConnectionKept
<1>18. CASE (\E s \in Reqs : Complete(s)) \/ CbCheck \/ CbSend \/ DeviceGone
  <2>1. UNCHANGED <<tcp, conn, peer, importing, device_busy>>
    BY <1>18 DEF Complete, CbCheck, CbSend, DeviceGone, tcpVars, clientVars
  <2> QED BY <1>3, <2>1, ConnectionKept
<1>19. CASE DeviceExit
  <2>1. Connection!Unplug
    BY <1>3, <1>4, <1>19 DEF DeviceExit, tcpVars, clientVars, Connection!Unplug
  <2> QED BY <2>1 DEF Connection!Next
<1>20. CASE UNCHANGED vars
  BY <1>3, <1>20, ConnectionKept DEF vars, tcpVars, clientVars
<1> QED
  BY <1>5, <1>6, <1>7, <1>8, <1>9, <1>10, <1>11, <1>12, <1>13, <1>14, <1>15,
     <1>16, <1>17, <1>18, <1>19, <1>20, <1>131
  DEF Next, Client, Receive, Lost, Imports, Class

(* A connection is read for URBs only behind device_busy, nothing but an    *)
(* import sets that flag, each connection's at most once, however late it   *)
(* is finished, and the way out of the loops is the one do_recv and         *)
(* handler 1 agree on: this module implements the contract that it shares   *)
(* with CommandPhase.                                                       *)
THEOREM ConnectionImplemented == Spec => ImplementsConnection
<1>1. Init => Connection!Init
  BY DEF Init, Connection!Init, Phase, Asked
<1>2. Typed /\ Typed' /\ InTurn /\ InTurn' /\ [Next]_vars
        => [Connection!Next]_(Connection!vars)
  BY StepConnection
<1> QED
  BY InitTyped, StepTyped, InitInTurn, StepInTurn, <1>1, <1>2, PTL
  DEF Spec, ImplementsConnection, Connection!Spec
=============================================================================
