------------------------- MODULE CommandPhaseProofs -------------------------
(***************************************************************************)
(* Proofs about CommandPhase, for every value of its constants: TypeOK,    *)
(* that it implements CommandService and ConnectionService, and how much   *)
(* may still happen after the client has closed, before a command is       *)
(* answered, or before device_busy is seen.                                *)
(* The invariants are                                                      *)
(*   Typed     TypeOK, and what the places of the two readers say of the   *)
(*             connection and of the command at hand                       *)
(*   Ordered   commands are known in the order in which they were sent,    *)
(*             each in one place, and none that waits is answered yet      *)
(*   Kinds     handler 1 is where the kind of its command takes it         *)
(*   Emptied   where do_recv leaves its loop nothing is left to read       *)
(*   Places    what Behind and ToPost are at each place a command may be   *)
(*   Numbered  commands are in the order of their connections, of which an *)
(*             import is the last command                                  *)
(***************************************************************************)
EXTENDS CommandPhase, TLAPS, SequenceTheorems

(* What has been written belongs to a command of the current client, and    *)
(* handler 1, when it is not idle, has one that was sent.                   *)
Located ==
  /\ tcp # "accept" => sock \in Fds /\ conn > 0
  /\ peer # "none" <=> tcp # "accept"
  /\ written > 0 => Mine
  /\ peer = "up" /\ Mine => written > 0
  /\ Last > 0 => reqs[Last].conn <= conn
  /\ tcp = "post" => Mine
  /\ h.pc # "idle" => h.req \in 1..Last /\ h.sock \in Fds
  /\ \A i \in DOMAIN queue : queue[i].req <= Last

Typed == TypeOK /\ Located

LEMMA InitTyped == Init => Typed
<1> SUFFICES ASSUME Init PROVE Typed
  OBVIOUS
<1> USE ConstantsAssumption DEF Init
<1>1. reqs \in Seq(Command) /\ answers \in Seq(Reply) /\ queue \in Seq(Event)
  OBVIOUS
<1>2. Len(reqs) <= MaxReq /\ Len(queue) <= QueueSize
  OBVIOUS
<1>3. /\ written \in 0..(1 + BodyUnits) /\ taken \in 0..written
      /\ owner \in [Fds -> 0..MaxConn] /\ conn \in 0..MaxConn
      /\ sock \in Fds \cup {-1}
  OBVIOUS
<1>4. h \in Handling
  BY DEF Handling, Idle
<1>5. Located
  BY DEF Located, Idle, Mine, Last
<1> QED BY <1>1, <1>2, <1>3, <1>4, <1>5 DEF Typed, TypeOK

(* The last command, when there is one, is a command.                       *)
LEMMA LastType ==
  ASSUME Typed
  PROVE  /\ Last \in Nat /\ Last <= MaxReq /\ MaxReq \in Nat
         /\ Last > 0 => reqs[Last] \in Command /\ Last \in Reqs
         /\ \A r : Size(r) \in {1, 1 + BodyUnits}
BY ConstantsAssumption DEF Typed, TypeOK, Last, Reqs, Size

(* A reply names a command and the connection it is written on.             *)
LEMMA SentType ==
  ASSUME Typed, h.pc \in {"devlist", "reply"}, CanSend, Sent
  PROVE  answers' \in Seq(Reply)
<1>1. h.sock \in Fds /\ h.req \in Reqs /\ h.ok \in BOOLEAN
  BY LastType DEF Typed, TypeOK, Located, Handling, Reqs
<1>2. owner[h.sock] \in Conns
  <2>1. owner[h.sock] \in 0..MaxConn /\ MaxConn \in Nat
    BY <1>1, ConstantsAssumption DEF Typed, TypeOK
  <2>2. owner[h.sock] # 0
    BY DEF CanSend
  <2> QED BY <2>1, <2>2 DEF Conns
<1>3. [req |-> h.req, conn |-> owner[h.sock], ok |-> h.ok] \in Reply
  BY <1>1, <1>2 DEF Reply
<1> QED BY <1>3 DEF Sent, Typed, TypeOK

(* A reader leaves the client's end as it is, or is told of it.             *)
EndTold == peer' = peer \/ (peer = "fin" /\ peer' = "shut")

(* Steps that leave the history and what is written alone.                  *)
LEMMA TypedUnchanged ==
  ASSUME Typed, UNCHANGED <<reqs, written, answers, conn, sock, queue, h>>,
         EndTold,
         tcp' \in {"loop", "recv", "post", "wait", "urb", "cleanup", "close"},
         tcp # "accept", tcp' = "post" => Mine,
         taken' \in 0..written, owner' \in [Fds -> 0..MaxConn],
         described' \in BOOLEAN, device_busy' \in BOOLEAN
  PROVE  Typed'
<1>1. TypeOK'
  BY DEF Typed, TypeOK, EndTold
<1>2. Located'
  BY DEF Typed, TypeOK, Located, Mine, Last, EndTold
<1> QED BY <1>1, <1>2 DEF Typed

LEMMA StepTypedClient == Typed /\ (Client \/ Accept) => Typed'
<1> SUFFICES ASSUME Typed, Client \/ Accept PROVE Typed'
  OBVIOUS
<1> USE LastType, ConstantsAssumption DEF tcpVars
<1>1. CASE ClientSend
  <2>1. PICK c \in {"DEVLIST", "IMPORT"}, g \in BOOLEAN :
          reqs' = Append(reqs, [cmd |-> c, good |-> g, conn |-> conn])
    BY <1>1 DEF ClientSend
  <2>2. conn \in Conns
    BY <1>1 DEF ClientSend, Typed, TypeOK, Located, Conns
  <2>3. [cmd |-> c, good |-> g, conn |-> conn] \in Command
    BY <2>2 DEF Command
  <2>4. /\ reqs' \in Seq(Command) /\ Last' = Last + 1 /\ Len(reqs') = Last + 1
        /\ reqs'[Last + 1].conn = conn
    BY <2>1, <2>3 DEF Typed, TypeOK, Last
  <2>5. TypeOK'
    BY <1>1, <2>4 DEF ClientSend, Typed, TypeOK, Last
  <2>6. Mine' /\ Last' > 0
    <3>1. conn' = conn /\ Last' > 0
      BY <1>1, <2>4 DEF ClientSend
    <3>2. reqs'[Last'].conn = conn'
      BY <2>4, <3>1
    <3> QED BY <3>1, <3>2 DEF Mine
  <2>7. \A i \in DOMAIN queue' : queue'[i].req <= Last'
    <3> SUFFICES ASSUME NEW i \in DOMAIN queue PROVE queue[i].req <= Last + 1
      BY <1>1, <2>4 DEF ClientSend
    <3>1. queue[i] \in Event /\ queue[i].req <= Last
      BY DEF Typed, TypeOK, Located
    <3> QED BY <3>1 DEF Event, Reqs
  <2>8. h'.pc # "idle" => h'.req \in 1..Last' /\ h'.sock \in Fds
    BY <1>1, <2>4 DEF ClientSend, Typed, Located
  <2>9. Last' > 0 => reqs'[Last'].conn <= conn'
    <3>1. conn' = conn /\ conn \in Nat
      BY <1>1, <2>2 DEF ClientSend, Conns
    <3>2. reqs'[Last'].conn = conn
      BY <2>4
    <3> QED BY <3>1, <3>2
  <2>10. UNCHANGED <<peer, tcp, sock, conn>> /\ written' = 1
    BY <1>1 DEF ClientSend
  <2>11. Located'
    BY <2>6, <2>7, <2>8, <2>9, <2>10 DEF Typed, Located
  <2> QED BY <2>5, <2>11 DEF Typed
<1>2. CASE ClientBody
  <2>1. written + 1 \in 0..(1 + BodyUnits) /\ taken \in 0..(written + 1)
    BY <1>2 DEF ClientBody, Typed, TypeOK
  <2>2. TypeOK'
    BY <1>2, <2>1 DEF ClientBody, Typed, TypeOK
  <2>3. Located'
    BY <1>2, <2>1 DEF ClientBody, Typed, TypeOK, Located, Mine, Last
  <2> QED BY <2>2, <2>3 DEF Typed
<1>3. CASE ClientClose
  <2>1. TypeOK'
    BY <1>3 DEF ClientClose, Typed, TypeOK
  <2>2. Located'
    BY <1>3 DEF ClientClose, Typed, Located, Mine, Last
  <2> QED BY <2>1, <2>2 DEF Typed
<1>4. CASE ClientReset
  <2>1. written' \in 0..(1 + BodyUnits) /\ taken \in 0..written'
    BY <1>4 DEF ClientReset, Typed, TypeOK
  <2>2. written' > 0 => written > 0
    BY <1>4 DEF ClientReset, Typed, TypeOK
  <2>3. TypeOK'
    BY <1>4, <2>1 DEF ClientReset, Typed, TypeOK
  <2>4. Located'
    BY <1>4, <2>2 DEF ClientReset, Typed, Located, Mine, Last
  <2> QED BY <2>3, <2>4 DEF Typed
<1>5. CASE Accept
  <2>1. PICK fd \in Fds : sock' = fd /\ owner' = [owner EXCEPT ![fd] = conn + 1]
    BY <1>5 DEF Accept
  <2>2. conn + 1 \in 0..MaxConn /\ conn \in Nat /\ conn' = conn + 1
    BY <1>5 DEF Accept, Typed, TypeOK
  <2>3. owner' \in [Fds -> 0..MaxConn]
    BY <2>1, <2>2 DEF Typed, TypeOK
  <2>4. TypeOK'
    BY <1>5, <2>1, <2>2, <2>3 DEF Accept, Typed, TypeOK
  <2>5. Last' = Last /\ (Last > 0 => reqs'[Last].conn < conn')
    <3>1. Last > 0 => reqs[Last].conn \in Nat
      BY DEF Command, Conns
    <3> QED BY <1>5, <2>2, <3>1 DEF Accept, Typed, Located, Last
  <2>6. ~Mine'
    <3>1. reqs' = reqs /\ (Last > 0 => reqs[Last].conn \in Nat)
      BY <1>5 DEF Accept, Command, Conns
    <3> QED BY <2>2, <2>5, <3>1 DEF Mine
  <2>7. /\ Last > 0 => reqs'[Last].conn <= conn'
        /\ conn' > 0 /\ sock' \in Fds
    <3>1. reqs' = reqs /\ (Last > 0 => reqs[Last].conn \in Nat)
      BY <1>5 DEF Accept, Command, Conns
    <3> QED BY <2>1, <2>2, <2>5, <3>1
  <2>8. Located'
    BY <1>5, <2>5, <2>6, <2>7 DEF Accept, Typed, Located
  <2> QED BY <2>4, <2>8 DEF Typed
<1> QED BY <1>1, <1>2, <1>3, <1>4, <1>5 DEF Client

LEMMA StepTypedReceive == Typed /\ (Receive \/ PostFails) => Typed'
<1> SUFFICES ASSUME Typed, Receive \/ PostFails PROVE Typed'
  OBVIOUS
<1> USE LastType, ConstantsAssumption DEF clientVars, tcpVars, EndTold
<1>0. /\ written \in Nat /\ taken \in 0..written /\ owner \in [Fds -> 0..MaxConn]
      /\ described \in BOOLEAN /\ device_busy \in BOOLEAN
  BY DEF Typed, TypeOK
<1>1. CASE EnterRecv
  BY <1>0, <1>1, TypedUnchanged DEF EnterRecv
<1>2. CASE EnterUrbLoop
  BY <1>0, <1>2, TypedUnchanged DEF EnterUrbLoop
<1>3. CASE RecvCommand
  <2>1. written > 0 /\ Mine
    BY <1>0, <1>3 DEF RecvCommand, Available, Typed, Located
  <2> QED BY <1>0, <1>3, <2>1, TypedUnchanged DEF RecvCommand
<1>4. CASE RecvInvalid
  <2>1. taken' \in 0..written
    BY <1>0, <1>4 DEF RecvInvalid, Available
  <2> QED BY <1>0, <1>4, <2>1, TypedUnchanged DEF RecvInvalid
<1>5. CASE RecvTimeout
  BY <1>0, <1>5, TypedUnchanged DEF RecvTimeout, TimeoutTo
<1>6. CASE RecvEnds
  BY <1>0, <1>6, TypedUnchanged DEF RecvEnds, LoopExit
<1>7. CASE PostCommand
  <2>1. sock \in Fds /\ Last \in Reqs /\ Last \in Nat
    BY <1>7 DEF PostCommand, Typed, Located, Mine
  <2>2. [req |-> Last, sock |-> sock] \in Event
    BY <2>1 DEF Event
  <2>3. queue' = Append(queue, [req |-> Last, sock |-> sock])
    BY <1>7 DEF PostCommand
  <2>4. queue' \in Seq(Event) /\ Len(queue') = Len(queue) + 1
    BY <2>2, <2>3 DEF Typed, TypeOK
  <2>5. TypeOK'
    BY <1>7, <2>4 DEF PostCommand, AfterPost, Room, Typed, TypeOK
  <2>6. \A i \in DOMAIN queue' : queue'[i].req <= Last
    BY <2>1, <2>3 DEF Typed, TypeOK, Located
  <2>7. /\ UNCHANGED <<reqs, written, peer, conn, sock, h>>
        /\ tcp' \in {"wait", "loop"} /\ tcp = "post"
    BY <1>7 DEF PostCommand, AfterPost
  <2>8. Located'
    BY <2>6, <2>7 DEF Typed, Located, Mine, Last
  <2> QED BY <2>5, <2>8 DEF Typed
<1>8. CASE PostFails
  BY <1>0, <1>8, TypedUnchanged DEF PostFails, AfterPost
<1>9. CASE WaitEnds
  BY <1>0, <1>9, TypedUnchanged DEF WaitEnds, AfterWait
<1>10. CASE UrbDrops
  <2>1. taken' \in 0..written
    BY <1>0, <1>10 DEF UrbDrops, Available
  <2> QED BY <1>0, <1>10, <2>1, TypedUnchanged DEF UrbDrops
<1>11. CASE UrbEof
  <2>1. device_busy' \in BOOLEAN
    BY <1>11 DEF UrbEof, BusyAfterEof
  <2> QED BY <1>0, <1>11, <2>1, TypedUnchanged DEF UrbEof
<1>12. CASE UrbError
  BY <1>0, <1>12, TypedUnchanged DEF UrbError
<1>13. CASE Cleanup
  <2>1. device_busy' \in BOOLEAN
    BY <1>13 DEF Cleanup
  <2> QED BY <1>0, <1>13, <2>1, TypedUnchanged DEF Cleanup
<1>14. CASE Close
  <2>1. owner' \in [Fds -> 0..MaxConn]
    <3>1. owner' = [owner EXCEPT ![sock] = 0] /\ 0 \in 0..MaxConn
      BY <1>14 DEF Close
    <3> QED BY <1>0, <3>1
  <2>2. TypeOK'
    BY <1>14, <2>1 DEF Close, Typed, TypeOK
  <2>3. Located'
    BY <1>14 DEF Close, Typed, Located, Mine, Last
  <2> QED BY <2>2, <2>3 DEF Typed
<1> QED
  BY <1>1, <1>2, <1>3, <1>4, <1>5, <1>6, <1>7, <1>8, <1>9, <1>10, <1>11, <1>12,
     <1>13, <1>14 DEF Receive

(* Steps of the handler and the class task.                                 *)
LEMMA TypedHandler ==
  ASSUME Typed, UNCHANGED <<reqs, written, tcp, conn, sock, owner>>, EndTold,
         taken' \in 0..written, answers' \in Seq(Reply), h' \in Handling,
         h'.pc # "idle" => h'.req \in 1..Last /\ h'.sock \in Fds,
         queue' \in Seq(Event), Len(queue') <= QueueSize,
         \A i \in DOMAIN queue' : queue'[i].req <= Last,
         described' \in BOOLEAN, device_busy' \in BOOLEAN
  PROVE  Typed'
<1>1. TypeOK'
  BY DEF Typed, TypeOK, EndTold
<1>2. Located'
  BY DEF Typed, TypeOK, Located, Mine, Last, EndTold
<1> QED BY <1>1, <1>2 DEF Typed

LEMMA StepTypedHandler == Typed /\ (Handler \/ Class) => Typed'
<1> SUFFICES ASSUME Typed, Handler \/ Class PROVE Typed'
  OBVIOUS
<1> USE LastType, ConstantsAssumption DEF clientVars, tcpVars, EndTold
<1>0. /\ written \in Nat /\ taken \in 0..written /\ owner \in [Fds -> 0..MaxConn]
      /\ described \in BOOLEAN /\ device_busy \in BOOLEAN
      /\ answers \in Seq(Reply) /\ queue \in Seq(Event) /\ Len(queue) <= QueueSize
      /\ \A i \in DOMAIN queue : queue[i].req <= Last
      /\ h \in Handling /\ (h.pc # "idle" => h.req \in 1..Last /\ h.sock \in Fds)
      /\ BodyUnits \in Nat
  BY DEF Typed, TypeOK, Located
<1>i. Idle \in Handling /\ Idle.pc = "idle"
  BY DEF Idle, Handling
<1>1. CASE TakeCommand
  <2> DEFINE e == Head(queue)
  <2>1. /\ e \in Event /\ e = queue[1] /\ e.req \in 1..Last /\ e.sock \in Fds
        /\ queue' = Tail(queue)
    <3>1. queue # <<>> /\ queue' = Tail(queue)
      BY <1>1 DEF TakeCommand
    <3>2. e \in Event /\ e = queue[1] /\ 1 \in DOMAIN queue
      BY <1>0, <3>1
    <3>3. e.req \in Reqs /\ e.sock \in Fds /\ e.req <= Last
      BY <1>0, <3>2 DEF Event
    <3> QED BY <3>1, <3>2, <3>3 DEF Reqs
  <2>2. /\ queue' \in Seq(Event) /\ Len(queue') <= QueueSize
        /\ \A i \in DOMAIN queue' : queue'[i] = queue[i + 1] /\ i + 1 \in DOMAIN queue
    BY <1>0, <1>1, <2>1 DEF TakeCommand
  <2>3. /\ h'.req = e.req /\ h'.sock = e.sock /\ h' \in Handling
    <3> DEFINE pc == IF reqs[e.req].cmd = "IMPORT" THEN "import" ELSE "devlist"
    <3>1. /\ pc \in {"import", "devlist"}
          /\ h' = [pc |-> pc, req |-> e.req, sock |-> e.sock,
                   conn |-> owner[e.sock], ok |-> described]
      BY <1>1 DEF TakeCommand
    <3> HIDE DEF pc
    <3>2. owner[e.sock] \in 0..MaxConn
      BY <1>0, <2>1
    <3>3. e.req \in 0..MaxReq
      <4>1. Last \in Nat /\ Last <= MaxReq /\ MaxReq \in Nat
        BY LastType
      <4> QED BY <2>1, <4>1
    <3> QED BY <1>0, <2>1, <3>1, <3>2, <3>3 DEF Handling
  <2> QED BY <1>0, <1>1, <2>1, <2>2, <2>3, TypedHandler DEF TakeCommand
<1>2. CASE SendList
  BY <1>0, <1>i, <1>2, SentType, TypedHandler DEF SendList, AfterList
<1>3. CASE ReadBody
  <2>1. taken' \in 0..written
    BY <1>0, <1>3 DEF ReadBody, Available
  <2>2. Named \in BOOLEAN
    BY DEF Named
  <2>3. h' \in Handling /\ h'.req = h.req /\ h'.sock = h.sock
    BY <1>0, <1>3, <2>2 DEF ReadBody, Handling
  <2> QED BY <1>0, <1>3, <2>1, <2>3, TypedHandler DEF ReadBody
<1>4. CASE ReadShort
  BY <1>0, <1>i, <1>4, TypedHandler DEF ReadShort
<1>5. CASE ReadFails
  BY <1>0, <1>i, <1>5, TypedHandler DEF ReadFails
<1>6. CASE Panic
  <2>1. TypeOK'
    <3>1. owner' \in [Fds -> 0..MaxConn]
      BY <1>6 DEF Panic
    <3>2. queue' \in Seq(Event) /\ Len(queue') <= QueueSize
      BY <1>6 DEF Panic
    <3>3. written' \in 0..(1 + BodyUnits) /\ taken' \in 0..written'
      BY <1>0, <1>6 DEF Panic
    <3>4. device_busy' \in BOOLEAN
      BY <1>6 DEF Panic
    <3> QED BY <1>0, <1>i, <1>6, <3>1, <3>2, <3>3, <3>4 DEF Panic, Typed, TypeOK
  <2>2. Located'
    BY <1>i, <1>6 DEF Panic, Typed, Located, Mine, Last
  <2> QED BY <2>1, <2>2 DEF Typed
<1>7. CASE SendImport
  <2>1. h' \in Handling /\ h'.req = h.req /\ h'.sock = h.sock
    BY <1>0, <1>7 DEF SendImport, Handling
  <2>2. answers' \in Seq(Reply)
    BY <1>7, SentType DEF SendImport
  <2> QED BY <1>0, <1>7, <2>1, <2>2, TypedHandler DEF SendImport
<1>8. CASE SendFails
  BY <1>0, <1>i, <1>8, TypedHandler DEF SendFails, GiveUp
<1>9. CASE Grant
  <2>1. device_busy' \in BOOLEAN
    BY <1>9 DEF Grant
  <2> QED BY <1>0, <1>i, <1>9, <2>1, TypedHandler DEF Grant
<1>10. CASE Describe
  <2>1. described' \in BOOLEAN
    BY <1>10 DEF Describe
  <2> QED BY <1>0, <1>10, <2>1, TypedHandler DEF Describe
<1>11. CASE DeviceExit
  <2>1. device_busy' \in BOOLEAN
    BY <1>11 DEF DeviceExit
  <2> QED BY <1>0, <1>11, <2>1, TypedHandler DEF DeviceExit
<1> QED
  BY <1>1, <1>2, <1>3, <1>4, <1>5, <1>6, <1>7, <1>8, <1>9, <1>10, <1>11
  DEF Handler, Class

LEMMA StepTyped == Typed /\ [Next]_vars => Typed'
<1> SUFFICES ASSUME Typed, [Next]_vars PROVE Typed'
  OBVIOUS
<1>1. CASE UNCHANGED vars
  BY <1>1 DEF vars, clientVars, tcpVars, Typed, TypeOK, Located, Mine, Last
<1> QED
  BY <1>1, StepTypedClient, StepTypedReceive, StepTypedHandler DEF Next

(* Every variable keeps its type; the queue of loop_handle never exceeds    *)
(* its size, and never more is received than was written.                   *)
THEOREM TypeCorrect == Spec => []TypeOK
<1>1. Typed => TypeOK
  BY DEF Typed
<1> QED BY InitTyped, StepTyped, <1>1, PTL DEF Spec

-----------------------------------------------------------------------------
(* The order of commands.  The queue is in order, the handler is ahead of   *)
(* it, and a command that do_recv has still to read or post is behind both. *)

Held == IF h.pc = "idle" THEN {} ELSE {h.req}

Ordered ==
  /\ \A i, j \in DOMAIN queue : i < j => queue[i].req < queue[j].req
  /\ \A r \in Posted : \A s \in Held : s < r
  /\ tcp = "post" => taken > 0
  /\ Unread \cup Received # {} => Last \notin Posted \cup Held
  /\ \A r \in Waiting : ~Answered(r)
  /\ \A i \in DOMAIN answers : answers[i].req <= Last

LEMMA InitOrdered == Init => Ordered
BY DEF Init, Ordered, Posted, Held, Unread, Received, Waiting, InHand, Idle

(* Places are emptied, or keep what they hold.                              *)
LEMMA OrderedShrinks ==
  ASSUME Ordered, UNCHANGED <<reqs, answers, queue>>, Held' \subseteq Held,
         InHand' \subseteq InHand, Unread' \subseteq Unread,
         Received' \subseteq Received, tcp' = "post" => taken' > 0
  PROVE  Ordered'
<1>1. Last' = Last /\ Posted' = Posted
  BY DEF Last, Posted
<1>2. Waiting' \subseteq Waiting
  BY <1>1 DEF Waiting
<1>3. \A r : Answered(r)' = Answered(r)
  BY DEF Answered
<1>4. \A r \in Waiting' : ~Answered(r)'
  BY <1>2, <1>3 DEF Ordered
<1> QED BY <1>1, <1>4 DEF Ordered

LEMMA OrderedUnchanged ==
  ASSUME Ordered, UNCHANGED <<reqs, written, taken, peer, answers, tcp, queue, h>>
  PROVE  Ordered'
<1>1. Held' = Held /\ InHand' = InHand /\ Unread' = Unread /\ Received' = Received
  BY DEF Held, InHand, Unread, Received, Last
<1> QED BY <1>1, OrderedShrinks DEF Ordered

(* No command is sent while do_recv has one to post: it is not answered.    *)
LEMMA SendWaits ==
  ASSUME Typed, Ordered, ClientSend
  PROVE  tcp # "post" /\ Unread = {}
<1>1. Mine => Answered(Last)
  BY DEF ClientSend
<1>2. Last \notin Waiting \/ ~Mine
  BY <1>1 DEF Ordered
<1>3. tcp # "post"
  BY <1>2 DEF Typed, Located, Waiting, Received
<1>4. Unread = {}
  BY <1>2 DEF Typed, Located, Waiting, Unread
<1> QED BY <1>3, <1>4

LEMMA StepOrderedClient == Typed /\ Ordered /\ (Client \/ Accept) => Ordered'
<1> SUFFICES ASSUME Typed, Ordered, Client \/ Accept PROVE Ordered'
  OBVIOUS
<1> USE DEF tcpVars
<1>1. CASE ClientSend
  <2>1. tcp # "post" /\ Unread = {}
    BY <1>1, SendWaits
  <2>2. /\ Last \in Nat /\ Last' = Last + 1 /\ h \in Handling
        /\ UNCHANGED <<answers, tcp, queue, h>>
    BY <1>1, LastType DEF ClientSend, Last, Typed, TypeOK
  <2>3. Posted' = Posted /\ Held' = Held /\ InHand' = InHand
    BY <2>2 DEF Posted, Held, InHand
  <2>4. Received' = {} /\ Unread' \subseteq {Last + 1}
    BY <2>1, <2>2 DEF Received, Unread
  <2>5. \A r \in Posted \cup Held \cup InHand : r # Last + 1
    BY <2>2 DEF Typed, TypeOK, Located, Posted, Held, InHand
  <2>6. \A r : Answered(r)' = Answered(r)
    BY <2>2 DEF Answered
  <2>7. ~Answered(Last + 1)
    BY <2>2 DEF Ordered, Answered
  <2>8. \A r \in Waiting' : ~Answered(r)'
    BY <2>3, <2>4, <2>6, <2>7 DEF Waiting, Ordered
  <2>9. \A i \in DOMAIN answers' : answers'[i].req <= Last'
    <3>1. \A i \in DOMAIN answers : answers[i].req \in Nat
      <4>1. \A i \in DOMAIN answers : answers[i] \in Reply
        BY DEF Typed, TypeOK
      <4> QED BY <4>1 DEF Reply, Reqs
    <3> QED BY <2>2, <3>1 DEF Ordered
  <2> QED BY <2>1, <2>2, <2>3, <2>5, <2>8, <2>9 DEF Ordered
<1>2. CASE ClientBody
  <2>1. written > 0 /\ UNCHANGED <<reqs, peer, taken, answers, tcp, queue, h>>
    BY <1>2 DEF ClientBody, Typed, Located
  <2>2. Held' = Held /\ InHand' = InHand /\ Unread' \subseteq Unread /\ Received' = Received
    BY <1>2, <2>1 DEF ClientBody, Held, InHand, Unread, Received, Last
  <2> QED BY <2>1, <2>2, OrderedShrinks DEF Ordered
<1>3. CASE ClientClose
  <2>1. /\ Held' = Held /\ InHand' = InHand /\ Unread' = Unread
        /\ Received' = Received
    BY <1>3 DEF ClientClose, Held, InHand, Unread, Received, Last
  <2> QED BY <1>3, <2>1, OrderedShrinks DEF ClientClose, Ordered
<1>4. CASE ClientReset
  <2>1. /\ Held' = Held /\ InHand' = InHand /\ Unread' \subseteq Unread
        /\ Received' = Received
    BY <1>4 DEF ClientReset, Held, InHand, Unread, Received, Last, Typed, TypeOK
  <2> QED BY <1>4, <2>1, OrderedShrinks DEF ClientReset, Ordered
<1>5. CASE Accept
  <2>1. /\ Held' = Held /\ InHand' = InHand /\ Unread' = {}
        /\ Received' = {} /\ tcp' = "loop"
    BY <1>5 DEF Accept, Held, InHand, Unread, Received
  <2> QED BY <1>5, <2>1, OrderedShrinks DEF Accept, Ordered
<1> QED BY <1>1, <1>2, <1>3, <1>4, <1>5 DEF Client

LEMMA StepOrderedReceive == Typed /\ Ordered /\ (Receive \/ PostFails) => Ordered'
<1> SUFFICES ASSUME Typed, Ordered, Receive \/ PostFails PROVE Ordered'
  OBVIOUS
<1> USE DEF clientVars, tcpVars, EndTold
<1>0. taken \in Nat /\ written \in Nat /\ taken <= written /\ BodyUnits \in Nat
  BY ConstantsAssumption DEF Typed, TypeOK
<1>1. ASSUME UNCHANGED <<reqs, answers, queue, h>>, Unread' \subseteq Unread,
             tcp' # "post"
      PROVE  Ordered'
  <2>1. Held' = Held /\ InHand' = InHand /\ Received' = {}
    BY <1>1 DEF Held, InHand, Received
  <2> QED BY <1>1, <2>1, OrderedShrinks
<1>2. ASSUME UNCHANGED <<reqs, written, taken, answers, queue, h>>, EndTold,
             tcp' # "post"
      PROVE  Ordered'
  <2>1. Unread' = Unread
    BY <1>2 DEF Unread, Last
  <2> QED BY <1>1, <1>2, <2>1
<1>3. CASE EnterRecv
  BY <1>2, <1>3 DEF EnterRecv
<1>4. CASE EnterUrbLoop
  BY <1>2, <1>4 DEF EnterUrbLoop
<1>5. CASE RecvCommand
  <2>1. /\ UNCHANGED <<reqs, written, peer, answers, queue, h>>
        /\ taken = 0 /\ taken' = 1 /\ written > 0 /\ tcp = "recv" /\ tcp' = "post"
    BY <1>0, <1>5 DEF RecvCommand, Available
  <2>2. Unread = {Last}
    BY <2>1 DEF Unread, Typed, Located
  <2>3. /\ Received' = {Last} /\ Unread' = {} /\ Posted' = Posted
        /\ Held' = Held /\ InHand' = InHand /\ Last' = Last
    BY <2>1 DEF Received, Unread, Posted, Held, InHand, Last
  <2>4. Waiting' \subseteq Waiting
    BY <2>2, <2>3 DEF Waiting
  <2>5. \A r \in Waiting' : ~Answered(r)'
    BY <2>1, <2>4 DEF Answered, Ordered
  <2> QED BY <2>1, <2>2, <2>3, <2>5 DEF Ordered
<1>6. CASE RecvInvalid
  <2>1. Unread' = {}
    BY <1>0, <1>6 DEF RecvInvalid, Unread
  <2> QED BY <1>1, <1>6, <2>1 DEF RecvInvalid
<1>7. CASE RecvTimeout
  BY <1>2, <1>7 DEF RecvTimeout, TimeoutTo
<1>8. CASE RecvEnds
  BY <1>2, <1>8 DEF RecvEnds, LoopExit
<1>9. CASE PostCommand
  <2>1. /\ UNCHANGED <<reqs, written, taken, peer, answers, h>>
        /\ queue' = Append(queue, [req |-> Last, sock |-> sock])
        /\ tcp = "post" /\ tcp' # "post" /\ taken > 0
    BY <1>9 DEF PostCommand, AfterPost, Ordered
  <2>2. /\ Unread = {} /\ Unread' = {} /\ Received = {Last} /\ Received' = {}
        /\ Held' = Held /\ InHand' = InHand /\ Last' = Last
    BY <2>1 DEF Unread, Received, Held, InHand, Last
  <2>3. Posted' = Posted \cup {Last}
    <3>1. /\ queue \in Seq(Event) /\ DOMAIN queue = 1..Len(queue)
          /\ DOMAIN queue' = 1..(Len(queue) + 1) /\ Len(queue) \in Nat
          /\ queue'[Len(queue) + 1].req = Last
          /\ \A i \in 1..Len(queue) : queue'[i] = queue[i]
      BY <2>1 DEF Typed, TypeOK
    <3>2. Posted' \subseteq Posted \cup {Last}
      BY <3>1 DEF Posted
    <3>3. Posted \subseteq Posted' /\ Last \in Posted'
      BY <3>1 DEF Posted
    <3> QED BY <3>2, <3>3
  <2>4. \A r \in Posted \cup Held : r < Last
    <3>1. \A r \in Posted \cup Held : r \in Nat /\ r <= Last
      <4>1. \A i \in DOMAIN queue : queue[i] \in Event /\ queue[i].req <= Last
        BY DEF Typed, TypeOK, Located
      <4>2. h.pc # "idle" => h.req \in Nat /\ h.req <= Last
        BY LastType DEF Typed, Located
      <4> QED BY <4>1, <4>2 DEF Posted, Held, Event, Reqs
    <3>2. Last \notin Posted \cup Held /\ Last \in Nat
      BY <2>2, LastType DEF Ordered
    <3> QED BY <3>1, <3>2
  <2>5. \A i, j \in DOMAIN queue' : i < j => queue'[i].req < queue'[j].req
    <3>1. /\ DOMAIN queue = 1..Len(queue) /\ DOMAIN queue' = 1..(Len(queue) + 1)
          /\ Len(queue) \in Nat /\ queue'[Len(queue) + 1].req = Last
          /\ \A i \in 1..Len(queue) : queue'[i] = queue[i] /\ queue[i].req \in Posted
      BY <2>1 DEF Typed, TypeOK, Posted
    <3> QED BY <2>4, <3>1 DEF Ordered
  <2>6. Waiting' \subseteq Waiting
    BY <2>2, <2>3 DEF Waiting
  <2>7. \A r \in Waiting' : ~Answered(r)'
    BY <2>1, <2>6 DEF Answered, Ordered
  <2>8. \A r \in Posted' : \A s \in Held' : s < r
    BY <2>2, <2>3, <2>4 DEF Ordered
  <2> QED BY <2>1, <2>2, <2>5, <2>7, <2>8 DEF Ordered
<1>10. CASE PostFails
  BY <1>2, <1>10 DEF PostFails, AfterPost
<1>11. CASE WaitEnds
  BY <1>2, <1>11 DEF WaitEnds, AfterWait
<1>12. CASE UrbDrops
  <2>1. Unread' = {}
    BY <1>0, <1>12 DEF UrbDrops, Unread
  <2> QED BY <1>1, <1>12, <2>1 DEF UrbDrops
<1>13. CASE UrbEof
  BY <1>2, <1>13 DEF UrbEof
<1>14. CASE UrbError
  BY <1>2, <1>14 DEF UrbError
<1>15. CASE Cleanup
  BY <1>2, <1>15 DEF Cleanup
<1>16. CASE Close
  <2>1. Unread' = {}
    BY <1>16 DEF Close, Unread
  <2> QED BY <1>1, <1>16, <2>1 DEF Close
<1> QED
  BY <1>3, <1>4, <1>5, <1>6, <1>7, <1>8, <1>9, <1>10, <1>11, <1>12, <1>13,
     <1>14, <1>15, <1>16 DEF Receive

(* Taking a command off the queue takes the oldest one.                     *)
LEMMA QueueTaken ==
  ASSUME Typed, Ordered, TakeCommand
  PROVE  /\ h.pc = "idle" /\ h'.req \in Posted /\ Held' = {h'.req}
         /\ Posted = Posted' \cup {h'.req}
         /\ \A r \in Posted' : h'.req < r
         /\ \A i, j \in DOMAIN queue' : i < j => queue'[i].req < queue'[j].req
<1>1. /\ queue \in Seq(Event) /\ queue # <<>> /\ queue' = Tail(queue)
      /\ \A i, j \in DOMAIN queue : i < j => queue[i].req < queue[j].req
      /\ h'.req = Head(queue).req /\ h.pc = "idle"
      /\ h'.pc \in {"import", "devlist"}
  BY DEF Typed, TypeOK, Ordered, TakeCommand
<1>2. /\ DOMAIN queue = 1..Len(queue) /\ Len(queue) \in Nat /\ Len(queue) > 0
      /\ DOMAIN queue' = 1..(Len(queue) - 1)
      /\ \A i \in 1..(Len(queue) - 1) : queue'[i] = queue[i + 1]
      /\ Head(queue) = queue[1]
  BY <1>1
<1>3. \A i \in 1..(Len(queue) - 1) : i + 1 \in DOMAIN queue /\ 1 < i + 1
  BY <1>2
<1>4. 1 \in DOMAIN queue
  BY <1>2
<1>5. \A i, j \in DOMAIN queue' : i < j => queue'[i].req < queue'[j].req
  BY <1>1, <1>2, <1>3
<1>6. h'.req \in Posted /\ Posted' \subseteq Posted
  BY <1>1, <1>2, <1>3, <1>4 DEF Posted
<1>7. ASSUME NEW r \in Posted, r # h'.req PROVE r \in Posted'
  <2>1. PICK i \in DOMAIN queue : r = queue[i].req
    BY DEF Posted
  <2>2. i # 1
    BY <1>1, <1>2, <1>7, <2>1
  <2>3. i - 1 \in DOMAIN queue' /\ queue'[i - 1] = queue[i]
    BY <1>2, <2>2
  <2> QED BY <2>1, <2>3 DEF Posted
<1>8. \A r \in Posted' : h'.req < r
  BY <1>1, <1>2, <1>3, <1>4 DEF Posted
<1>9. Held' = {h'.req}
  BY <1>1 DEF Held
<1> QED BY <1>1, <1>5, <1>6, <1>7, <1>8, <1>9

(* The command at hand is answered; no other is.                            *)
LEMMA SentAnswers ==
  ASSUME Typed, Sent
  PROVE  \A r : Answered(r)' <=> Answered(r) \/ r = h.req
<1>1. /\ answers \in Seq(Reply) /\ Len(answers) \in Nat
      /\ DOMAIN answers = 1..Len(answers)
      /\ DOMAIN answers' = 1..(Len(answers) + 1)
      /\ answers'[Len(answers) + 1].req = h.req
      /\ \A i \in 1..Len(answers) : answers'[i] = answers[i]
  BY DEF Typed, TypeOK, Sent
<1>2. ASSUME NEW r, Answered(r)' PROVE Answered(r) \/ r = h.req
  <2>1. PICK i \in 1..(Len(answers) + 1) : answers'[i].req = r
    BY <1>1, <1>2 DEF Answered
  <2> QED BY <1>1, <2>1 DEF Answered
<1>3. ASSUME NEW r, Answered(r) PROVE Answered(r)'
  <2>1. PICK i \in 1..Len(answers) : answers[i].req = r
    BY <1>1, <1>3 DEF Answered
  <2> QED BY <1>1, <2>1 DEF Answered
<1>4. ASSUME NEW r, r = h.req PROVE Answered(r)'
  <2>1. Len(answers) + 1 \in DOMAIN answers'
    BY <1>1
  <2> QED BY <1>1, <1>4, <2>1 DEF Answered
<1> QED BY <1>2, <1>3, <1>4

(* What is lost to the order of the others when the handler sends.          *)
LEMMA OrderedSent ==
  ASSUME Typed, Ordered, Sent, InHand = {h.req}, Held = {h.req}, InHand' = {},
         Held' \subseteq Held, h.req <= Last,
         UNCHANGED <<reqs, written, taken, peer, tcp, queue>>
  PROVE  /\ Ordered' /\ Waiting' = Waiting \ {h.req} /\ h.req \in Waiting
         /\ \A r \in Waiting' : h.req < r
<1>1. /\ Last' = Last /\ Posted' = Posted /\ Unread' = Unread
      /\ Received' = Received /\ Last \in Nat
  BY LastType DEF Last, Posted, Unread, Received
<1>2. h.req \in Waiting
  BY DEF Waiting
<1>3. \A r \in Unread \cup Received : r = Last
  BY DEF Unread, Received
<1>4. \A r \in Posted \cup Unread \cup Received : h.req < r
  <2>1. h.req \in Nat
    BY DEF Typed, TypeOK, Handling
  <2> QED BY <1>1, <1>3, <2>1 DEF Ordered
<1>5. Waiting' = Posted \cup Unread \cup Received
  BY <1>1 DEF Waiting
<1>6. \A r \in Waiting' : h.req < r /\ r # h.req
  <2>1. h.req \in Nat /\ ~(h.req < h.req)
    BY DEF Typed, TypeOK, Handling
  <2> QED BY <1>4, <1>5, <2>1
<1>7. Waiting' = Waiting \ {h.req}
  BY <1>5, <1>6 DEF Waiting
<1>8. \A r \in Waiting' : ~Answered(r)'
  BY <1>6, <1>7, SentAnswers DEF Ordered
<1>9. \A i \in DOMAIN answers' : answers'[i].req <= Last
  <2>1. \A i \in DOMAIN answers' :
          (i \in DOMAIN answers /\ answers'[i] = answers[i]) \/ answers'[i].req = h.req
    BY DEF Typed, TypeOK, Sent
  <2> QED BY <2>1 DEF Ordered
<1>10. Ordered'
  BY <1>1, <1>8, <1>9 DEF Ordered
<1> QED BY <1>2, <1>6, <1>7, <1>10

LEMMA StepOrderedHandler == Typed /\ Ordered /\ (Handler \/ Class) => Ordered'
<1> SUFFICES ASSUME Typed, Ordered, Handler \/ Class PROVE Ordered'
  OBVIOUS
<1> USE DEF clientVars, tcpVars, EndTold
<1>0. /\ taken \in Nat /\ written \in Nat /\ taken <= written /\ BodyUnits \in Nat
      /\ BodyUnits > 1 /\ h \in Handling
      /\ (h.pc # "idle" => h.req <= Last) /\ Idle.pc = "idle"
  BY ConstantsAssumption, LastType DEF Typed, TypeOK, Located, Idle
<1>1. ASSUME UNCHANGED <<reqs, written, answers, tcp, queue>>, EndTold,
             Held' \subseteq Held, InHand' \subseteq InHand,
             taken' \in Nat, taken' >= taken
      PROVE  Ordered'
  <2>1. Unread' \subseteq Unread /\ Received' = Received
    BY <1>0, <1>1 DEF Unread, Received, Last
  <2>2. tcp' = "post" => taken' > 0
    BY <1>0, <1>1 DEF Ordered
  <2> QED BY <1>1, <2>1, <2>2, OrderedShrinks
<1>2. CASE TakeCommand
  <2>1. /\ UNCHANGED <<reqs, written, taken, peer, answers, tcp>>
        /\ h.pc = "idle" /\ h'.req \in Posted /\ Held' = {h'.req}
        /\ Posted = Posted' \cup {h'.req}
        /\ \A r \in Posted' : h'.req < r
        /\ \A i, j \in DOMAIN queue' : i < j => queue'[i].req < queue'[j].req
    BY <1>2, QueueTaken DEF TakeCommand
  <2>2. Unread' = Unread /\ Received' = Received /\ Last' = Last
    BY <2>1 DEF Unread, Received, Last
  <2>3. InHand' \subseteq Held'
    BY DEF InHand, Held
  <2>4. Waiting' \subseteq Waiting
    BY <2>1, <2>2, <2>3 DEF Waiting
  <2>5. \A r \in Waiting' : ~Answered(r)'
    BY <2>1, <2>4 DEF Answered, Ordered
  <2>6. Posted' \cup Held' \subseteq Posted
    BY <2>1
  <2> QED BY <2>1, <2>2, <2>5, <2>6 DEF Ordered
<1>3. CASE SendList
  <2>1. /\ Sent /\ InHand = {h.req} /\ Held = {h.req} /\ InHand' = {} /\ Held' = {}
        /\ h.req <= Last /\ UNCHANGED <<reqs, written, taken, peer, tcp, queue>>
    BY <1>0, <1>3 DEF SendList, AfterList, InHand, Held
  <2> QED BY <2>1, OrderedSent
<1>4. CASE ReadBody
  <2>1. h'.pc = "reply" /\ h'.req = h.req /\ h.pc = "import"
    BY <1>0, <1>4 DEF ReadBody, Handling
  <2>2. Held' = Held /\ InHand' = InHand
    BY <2>1 DEF Held, InHand
  <2> QED BY <1>0, <1>1, <1>4, <2>2 DEF ReadBody
<1>5. CASE ReadShort
  <2>1. Held' = {} /\ InHand' = {}
    BY <1>0, <1>5 DEF ReadShort, Held, InHand
  <2> QED BY <1>0, <1>1, <1>5, <2>1 DEF ReadShort
<1>6. CASE ReadFails
  <2>1. Held' = {} /\ InHand' = {}
    BY <1>0, <1>6 DEF ReadFails, Held, InHand
  <2> QED BY <1>0, <1>1, <1>6, <2>1 DEF ReadFails
<1>7. CASE Panic
  <2>1. /\ Held' = {} /\ InHand' = {} /\ Unread' = {} /\ Received' = {}
        /\ Posted' = {} /\ Last' = Last /\ tcp' # "post"
        /\ queue' = <<>> /\ answers' = answers
    BY <1>0, <1>7 DEF Panic, Held, InHand, Unread, Received, Posted, Last
  <2>2. Waiting' = {}
    BY <2>1 DEF Waiting
  <2> QED BY <2>1, <2>2 DEF Ordered
<1>8. CASE SendImport
  <2>1. h'.pc = "grant" /\ h'.req = h.req /\ h.pc = "reply"
    BY <1>0, <1>8 DEF SendImport, Handling
  <2>2. /\ Sent /\ InHand = {h.req} /\ Held = {h.req} /\ InHand' = {}
        /\ Held' = Held /\ h.req <= Last
        /\ UNCHANGED <<reqs, written, taken, peer, tcp, queue>>
    BY <1>0, <1>8, <2>1 DEF SendImport, InHand, Held
  <2> QED BY <2>2, OrderedSent
<1>9. CASE SendFails
  <2>1. Held' = {} /\ InHand' = {}
    BY <1>0, <1>9 DEF SendFails, GiveUp, Held, InHand
  <2> QED BY <1>0, <1>1, <1>9, <2>1 DEF SendFails
<1>10. CASE Grant
  <2>1. Held' = {} /\ InHand' = {}
    BY <1>0, <1>10 DEF Grant, Held, InHand
  <2> QED BY <1>0, <1>1, <1>10, <2>1 DEF Grant
<1>11. CASE Describe
  BY <1>11, OrderedUnchanged DEF Describe
<1>12. CASE DeviceExit
  BY <1>12, OrderedUnchanged DEF DeviceExit
<1> QED
  BY <1>2, <1>3, <1>4, <1>5, <1>6, <1>7, <1>8, <1>9, <1>10, <1>11, <1>12
  DEF Handler, Class

LEMMA StepOrdered == Typed /\ Ordered /\ [Next]_vars => Ordered'
<1> SUFFICES ASSUME Typed, Ordered, [Next]_vars PROVE Ordered'
  OBVIOUS
<1>1. CASE UNCHANGED vars
  BY <1>1, OrderedUnchanged DEF vars, clientVars
<1> QED
  BY <1>1, StepOrderedClient, StepOrderedReceive, StepOrderedHandler DEF Next

-----------------------------------------------------------------------------
(* Handler 1 branches on a command's kind when it takes it; it is still the *)
(* command's kind where the branch decides of device_busy.                  *)

Kinds == h.pc # "idle" => (h.req \in Imports <=> h.pc # "devlist")

LEMMA InitKinds == Init => Kinds
BY DEF Init, Kinds, Idle

LEMMA ImportsKept ==
  ASSUME UNCHANGED reqs
  PROVE  Imports' = Imports
BY DEF Imports, Last

LEMMA ImportsSent ==
  ASSUME Typed, ClientSend
  PROVE  /\ Imports' = Imports \/ Imports' = Imports \cup {Last + 1}
         /\ Imports \subseteq 1..Last
<1>1. PICK c \in {"DEVLIST", "IMPORT"}, g \in BOOLEAN :
        reqs' = Append(reqs, [cmd |-> c, good |-> g, conn |-> conn])
  BY DEF ClientSend
<1>2. /\ Last \in Nat /\ Last' = Last + 1 /\ reqs'[Last + 1].cmd = c
      /\ \A i \in 1..Last : reqs'[i] = reqs[i]
  BY <1>1 DEF Typed, TypeOK, Last
<1>3. CASE c = "IMPORT"
  BY <1>2, <1>3 DEF Imports
<1>4. CASE c = "DEVLIST"
  BY <1>2, <1>4 DEF Imports
<1> QED BY <1>3, <1>4 DEF Imports

LEMMA StepKinds == Typed /\ Kinds /\ [Next]_vars => Kinds'
<1> SUFFICES ASSUME Typed, Kinds, [Next]_vars PROVE Kinds'
  OBVIOUS
<1> USE DEF clientVars, tcpVars
<1>0. h \in Handling /\ (h.pc # "idle" => h.req \in 1..Last) /\ Idle.pc = "idle"
  BY DEF Typed, TypeOK, Located, Idle
<1>1. ASSUME UNCHANGED <<reqs, h>> PROVE Kinds'
  BY <1>1, ImportsKept DEF Kinds
<1>2. ASSUME h'.pc = "idle" PROVE Kinds'
  BY <1>2 DEF Kinds
<1>3. ASSUME UNCHANGED reqs, h'.req = h.req, h.pc \in {"import", "reply"},
             h'.pc \in {"reply", "grant"}
      PROVE  Kinds'
  BY <1>3, ImportsKept DEF Kinds
<1>4. CASE ClientSend
  <2>1. h' = h /\ (h.pc # "idle" => h.req # Last + 1)
    BY <1>0, <1>4, LastType DEF ClientSend
  <2> QED BY <1>4, <2>1, ImportsSent DEF Kinds
<1>5. CASE TakeCommand
  <2>1. /\ queue # <<>> /\ queue \in Seq(Event)
        /\ \A i \in DOMAIN queue : queue[i].req <= Last
    BY <1>5 DEF TakeCommand, Typed, TypeOK, Located
  <2>2. Head(queue) \in Event /\ Head(queue).req <= Last
    BY <2>1
  <2>3. /\ Head(queue).req \in 1..Last /\ h'.req = Head(queue).req
        /\ h'.pc = IF reqs[h'.req].cmd = "IMPORT" THEN "import" ELSE "devlist"
        /\ Imports' = Imports
    BY <1>5, <2>2, ImportsKept, LastType DEF TakeCommand, Event, Reqs
  <2> QED BY <2>3 DEF Kinds, Imports
<1>6. CASE ReadBody
  BY <1>0, <1>3, <1>6 DEF ReadBody, Handling
<1>7. CASE SendImport
  BY <1>0, <1>3, <1>7 DEF SendImport, Handling
<1>8. CASE SendList \/ ReadShort \/ ReadFails \/ Panic \/ SendFails \/ Grant
  BY <1>0, <1>2, <1>8
  DEF SendList, AfterList, ReadShort, ReadFails, Panic, SendFails, GiveUp, Grant
<1>9. CASE ClientBody \/ ClientClose \/ ClientReset \/ Accept \/ PostFails \/ Class
  BY <1>1, <1>9
  DEF ClientBody, ClientClose, ClientReset, Accept, PostFails, Class, Describe,
      DeviceExit
<1>10. CASE Receive
  BY <1>1, <1>10
  DEF Receive, EnterRecv, EnterUrbLoop, RecvCommand, RecvInvalid, RecvTimeout,
      RecvEnds, PostCommand, WaitEnds, UrbDrops, UrbEof, UrbError, Cleanup, Close
<1>11. CASE UNCHANGED vars
  BY <1>1, <1>11 DEF vars
<1> QED
  BY <1>4, <1>5, <1>6, <1>7, <1>8, <1>9, <1>10, <1>11 DEF Next, Client, Handler

-----------------------------------------------------------------------------
(* Refinement.  What a step does to the stages is known from what it does   *)
(* to Waiting and to the histories.                                         *)

LEMMA WaitingSent ==
  ASSUME Typed
  PROVE  \A r \in Waiting : r \in Reqs /\ r \in Nat /\ r <= Last
<1>1. Last \in Nat /\ (Last > 0 => Last \in Reqs) /\ Last <= MaxReq /\ MaxReq \in Nat
  BY LastType
<1>2. \A r \in Unread \cup Received : r = Last /\ Last > 0
  BY DEF Unread, Received, Typed, TypeOK, Located, Mine
<1>3. \A r \in InHand : r \in 1..Last
  BY DEF InHand, Typed, Located
<1>4. \A r \in Posted : r \in Reqs /\ r <= Last
  <2>1. \A i \in DOMAIN queue : queue[i] \in Event /\ queue[i].req <= Last
    BY DEF Typed, TypeOK, Located
  <2> QED BY <2>1 DEF Posted, Event
<1> QED BY <1>1, <1>2, <1>3, <1>4 DEF Waiting, Reqs

(* Commands that stop waiting without an answer are lost; device_busy may   *)
(* be reset only when there are none.                                       *)
LEMMA LoseStages ==
  ASSUME Typed, Ordered, UNCHANGED <<reqs, answers>>, Waiting' \subseteq Waiting
  PROVE  \A r \in Reqs : Stage(r)' = IF r \in Waiting \ Waiting' THEN "lost"
                                                                  ELSE Stage(r)
<1>1. Last' = Last /\ Last \in Nat /\ \A r : Answered(r)' = Answered(r)
  BY LastType DEF Last, Answered
<1>2. \A r \in Waiting : r <= Last /\ ~Answered(r)
  BY WaitingSent DEF Ordered
<1>3. ASSUME NEW r \in Reqs
      PROVE  Stage(r)' = IF r \in Waiting \ Waiting' THEN "lost" ELSE Stage(r)
  <2>1. r \in Nat
    BY DEF Reqs
  <2>2. CASE r > Last
    <3>1. Stage(r) = "unsent" /\ Stage(r)' = "unsent"
      BY <1>1, <2>2 DEF Stage
    <3>2. r \notin Waiting
      BY <1>1, <1>2, <2>1, <2>2
    <3> QED BY <3>1, <3>2
  <2>3. CASE ~(r > Last)
    <3>1. CASE r \in Waiting'
      BY <1>1, <2>3, <3>1 DEF Stage
    <3>2. CASE r \notin Waiting' /\ r \in Waiting
      BY <1>1, <1>2, <2>3, <3>2 DEF Stage
    <3>3. CASE r \notin Waiting' /\ r \notin Waiting
      BY <1>1, <2>3, <3>3 DEF Stage
    <3> QED BY <3>1, <3>2, <3>3
  <2> QED BY <2>2, <2>3
<1> QED BY <1>3

LEMMA LoseStep ==
  ASSUME Typed, Ordered, UNCHANGED <<reqs, answers, device_busy>>,
         Waiting' \subseteq Waiting, h'.pc = "grant" <=> h.pc = "grant"
  PROVE  Service!Next
<1> DEFINE S == Waiting \ Waiting'
<1>1. \A r \in Reqs : Stage(r)' = IF r \in S THEN "lost" ELSE Stage(r)
  BY LoseStages
<1>2. \A r \in S : r \in Reqs /\ Stage(r) = "waiting"
  BY WaitingSent, LastType DEF Stage
<1>3. S \in SUBSET Service!Reqs
  BY <1>2 DEF Service!Reqs, Reqs
<1>4. (h.pc = "grant")' = (h.pc = "grant")
  OBVIOUS
<1> HIDE DEF S
<1>5. Service!Lose(S)
  BY <1>1, <1>2, <1>4, ImportsKept
  DEF Service!Lose, Service!Lost, Service!Reqs, Reqs
<1> QED BY <1>3, <1>5 DEF Service!Next

LEMMA ClearStep ==
  ASSUME Typed, Ordered, UNCHANGED <<reqs, answers>>, Waiting' = Waiting,
         h'.pc = h.pc, device_busy' = FALSE
  PROVE  Service!Next
<1>1. \A r \in Reqs : Stage(r)' = Stage(r)
  BY LoseStages
<1>2. Service!Clear
  BY <1>1, ImportsKept DEF Service!Clear, Reqs
<1> QED BY <1>2 DEF Service!Next

(* The command at hand is answered; those before it do not wait any more.   *)
LEMMA AnswerStep ==
  ASSUME Typed, Ordered, Ordered', Sent, h.req \in Waiting,
         Waiting' = Waiting \ {h.req}, \A r \in Waiting' : h.req < r,
         h.pc # "grant", h'.pc = "grant" <=> h.req \in Imports,
         UNCHANGED <<reqs, device_busy>>
  PROVE  Service!Next
<1> DEFINE s == h.req
<1>1. s \in Reqs /\ s \in Nat /\ s <= Last /\ Last \in Nat /\ Last' = Last
  BY WaitingSent, LastType DEF Last
<1>2. \A r : Answered(r)' <=> Answered(r) \/ r = s
  BY SentAnswers
<1> HIDE DEF s
<1>3. ASSUME NEW r \in Reqs, r # s PROVE Stage(r)' = Stage(r)
  <2>1. r \in Waiting' <=> r \in Waiting
    BY <1>3 DEF s
  <2>2. Answered(r)' <=> Answered(r)
    BY <1>2, <1>3
  <2> QED BY <1>1, <2>1, <2>2 DEF Stage
<1>4. ~(s > Last)
  BY <1>1
<1>5. Stage(s) = "waiting"
  BY <1>4 DEF Stage, s
<1>6. ASSUME NEW r \in Reqs, r = s PROVE Stage(r)' = "answered"
  <2>1. r \notin Waiting' /\ Answered(r)' /\ ~(r > Last')
    BY <1>1, <1>2, <1>4, <1>6 DEF s
  <2> QED BY <2>1 DEF Stage
<1>7. ASSUME NEW r \in 1..(s - 1) PROVE r \in Reqs /\ Stage(r) # "waiting"
  <2>1. r \in Nat /\ 1 <= r /\ r < s /\ r \in Reqs
    <3>1. s <= MaxReq /\ MaxReq \in Nat
      BY <1>1, LastType
    <3> QED BY <1>1, <3>1 DEF Reqs
  <2>2. r \notin Waiting
    BY <1>1, <2>1 DEF s
  <2> QED BY <2>1, <2>2 DEF Stage
<1>8. (h.pc = "grant") = FALSE /\ (h.pc = "grant")' = (s \in Imports)
  BY DEF s
<1>9. [r \in Reqs |-> Stage(r)]' = [[r \in Reqs |-> Stage(r)] EXCEPT ![s] = "answered"]
  BY <1>1, <1>3, <1>6
<1>10. Service!Answer(s)
  BY <1>1, <1>5, <1>7, <1>8, <1>9, ImportsKept DEF Service!Answer
<1> QED BY <1>1, <1>10 DEF Service!Next, Service!Reqs, Reqs

(* A new command is the next one.                                           *)
LEMMA SendStep ==
  ASSUME Typed, Ordered, Typed', ClientSend
  PROVE  Service!Next
<1> USE DEF tcpVars
<1> DEFINE n == Last + 1
<1>1. /\ Last \in Nat /\ Last' = n /\ n \in Reqs /\ n \in Nat
      /\ UNCHANGED <<answers, tcp, queue, h, device_busy>>
      /\ written' = 1 /\ taken' = 0 /\ peer' = "up"
  BY LastType, ConstantsAssumption DEF ClientSend, Last, Typed, TypeOK, Reqs
<1>2. tcp # "post" /\ Unread = {}
  BY SendWaits
<1> HIDE DEF n
<1>3. /\ Posted' = Posted /\ InHand' = InHand /\ Received' = {} /\ Received = {}
      /\ Unread' = {n}
  BY <1>1, <1>2 DEF Posted, InHand, Received, Unread
<1>4. Waiting' = Waiting \cup {n}
  BY <1>2, <1>3 DEF Waiting
<1>5. \A r : Answered(r)' = Answered(r)
  BY <1>1 DEF Answered
<1>6. ASSUME NEW r \in Reqs, r # n PROVE Stage(r)' = Stage(r)
  <2>1. (r > Last') = (r > Last)
    <3>1. r \in Nat
      BY DEF Reqs
    <3> QED BY <1>1, <1>6, <3>1 DEF n
  <2>2. r \in Waiting' <=> r \in Waiting
    BY <1>4, <1>6
  <2> QED BY <1>5, <2>1, <2>2 DEF Stage
<1>7. Stage(n) = "unsent"
  BY <1>1 DEF n, Stage
<1>8. ASSUME NEW r \in Reqs, r = n PROVE Stage(r)' = "waiting"
  <2>1. ~(r > Last') /\ r \in Waiting'
    BY <1>1, <1>4, <1>8
  <2> QED BY <2>1 DEF Stage
<1>9. ASSUME NEW r \in 1..(n - 1) PROVE r \in Reqs /\ Stage(r) # "unsent"
  <2>1. r \in Nat /\ 1 <= r /\ r <= Last /\ Last <= MaxReq /\ MaxReq \in Nat
    BY <1>1, LastType DEF n
  <2>2. r \in Reqs /\ ~(r > Last)
    BY <1>1, <2>1 DEF Reqs
  <2>3. Stage(r) \in {"waiting", "answered", "lost"}
    BY <2>2 DEF Stage
  <2> QED BY <2>2, <2>3
<1>10. [r \in Reqs |-> Stage(r)]' = [[r \in Reqs |-> Stage(r)] EXCEPT ![n] = "waiting"]
  BY <1>1, <1>6, <1>8
<1>11. Imports' \in {Imports, Imports \cup {n}}
  BY ImportsSent DEF n
<1>12. Service!Send(n)
  BY <1>1, <1>7, <1>9, <1>10, <1>11 DEF Service!Send
<1> QED BY <1>1, <1>12 DEF Service!Next, Service!Reqs, Reqs

IInv == Typed /\ Ordered /\ Kinds

LEMMA StepServiceReceive ==
  ASSUME IInv, IInv', Client \/ Accept \/ Receive \/ PostFails
  PROVE  Service!Next
<1> USE DEF IInv, clientVars, tcpVars, EndTold
<1>0. taken \in Nat /\ written \in Nat /\ taken <= written /\ BodyUnits \in Nat
  BY ConstantsAssumption DEF Typed, TypeOK
<1>1. ASSUME UNCHANGED <<reqs, answers, queue, h, device_busy>>,
             Unread' \cup Received' \subseteq Unread \cup Received
      PROVE  Service!Next
  <2>1. Waiting' \subseteq Waiting
    BY <1>1 DEF Waiting, Posted, InHand
  <2> QED BY <1>1, <2>1, LoseStep
<1>2. ASSUME UNCHANGED <<reqs, written, taken, peer, answers, queue, h, device_busy>>,
             tcp' # "post"
      PROVE  Service!Next
  <2>1. Unread' = Unread /\ Received' = {}
    BY <1>2 DEF Unread, Received, Last
  <2> QED BY <1>1, <1>2, <2>1
<1>3. ASSUME UNCHANGED <<reqs, written, taken, answers, queue, h>>, EndTold,
             tcp # "post", tcp' # "post", device_busy' = FALSE
      PROVE  Service!Next
  <2>1. Waiting' = Waiting
    BY <1>3 DEF Waiting, Unread, Received, Posted, InHand, Last
  <2> QED BY <1>3, <2>1, ClearStep
<1>4. CASE ClientSend
  BY <1>4, SendStep
<1>5. CASE ClientBody
  <2>1. written > 0 /\ UNCHANGED <<reqs, peer, taken, tcp>>
    BY <1>5 DEF ClientBody, Typed, Located
  <2>2. Unread' \subseteq Unread /\ Received' = Received
    BY <1>5, <2>1 DEF ClientBody, Unread, Received, Last
  <2> QED BY <1>1, <1>5, <2>2 DEF ClientBody
<1>6. CASE ClientClose
  <2>1. Unread' = Unread /\ Received' = Received
    BY <1>6 DEF ClientClose, Unread, Received, Last
  <2> QED BY <1>1, <1>6, <2>1 DEF ClientClose
<1>7. CASE ClientReset
  <2>1. Unread' \subseteq Unread /\ Received' = Received
    BY <1>7 DEF ClientReset, Unread, Received, Last, Typed, TypeOK
  <2> QED BY <1>1, <1>7, <2>1 DEF ClientReset
<1>8. CASE Accept
  <2>1. Unread' = {} /\ Received' = {}
    BY <1>8 DEF Accept, Unread, Received
  <2> QED BY <1>1, <1>8, <2>1 DEF Accept
<1>9. CASE EnterRecv
  BY <1>2, <1>9 DEF EnterRecv
<1>10. CASE EnterUrbLoop
  BY <1>2, <1>10 DEF EnterUrbLoop
<1>11. CASE RecvCommand
  <2>1. /\ UNCHANGED <<reqs, written, peer, answers, queue, h, device_busy>>
        /\ taken = 0 /\ taken' = 1 /\ written > 0 /\ tcp = "recv" /\ tcp' = "post"
    BY <1>0, <1>11 DEF RecvCommand, Available
  <2>2. Unread = {Last} /\ Received' = {Last} /\ Unread' = {}
    BY <2>1 DEF Unread, Received, Last, Typed, Located
  <2> QED BY <1>1, <2>1, <2>2
<1>12. CASE RecvInvalid
  <2>1. Unread' = {} /\ Received' = {}
    BY <1>0, <1>12 DEF RecvInvalid, Unread, Received
  <2> QED BY <1>1, <1>12, <2>1 DEF RecvInvalid
<1>13. CASE RecvTimeout
  BY <1>2, <1>13 DEF RecvTimeout, TimeoutTo
<1>14. CASE RecvEnds
  BY <1>2, <1>14 DEF RecvEnds, LoopExit
<1>15. CASE PostCommand
  <2>1. /\ UNCHANGED <<reqs, written, taken, peer, answers, h, device_busy>>
        /\ queue' = Append(queue, [req |-> Last, sock |-> sock])
        /\ tcp = "post" /\ tcp' # "post"
    BY <1>15 DEF PostCommand, AfterPost
  <2>2. /\ Unread' = Unread /\ Received = {Last} /\ Received' = {}
        /\ InHand' = InHand
    BY <2>1 DEF Unread, Received, InHand, Last
  <2>3. Posted' \subseteq Posted \cup {Last}
    <3>1. /\ DOMAIN queue = 1..Len(queue) /\ DOMAIN queue' = 1..(Len(queue) + 1)
          /\ Len(queue) \in Nat /\ queue'[Len(queue) + 1].req = Last
          /\ \A i \in 1..Len(queue) : queue'[i] = queue[i]
      BY <2>1 DEF Typed, TypeOK
    <3> QED BY <3>1 DEF Posted
  <2>4. Waiting' \subseteq Waiting
    BY <2>2, <2>3 DEF Waiting
  <2> QED BY <2>1, <2>4, LoseStep
<1>16. CASE PostFails
  BY <1>2, <1>16 DEF PostFails, AfterPost
<1>17. CASE WaitEnds
  BY <1>2, <1>17 DEF WaitEnds, AfterWait
<1>18. CASE UrbDrops
  <2>1. Unread' = {} /\ Received' = {}
    BY <1>0, <1>18 DEF UrbDrops, Unread, Received
  <2> QED BY <1>1, <1>18, <2>1 DEF UrbDrops
<1>19. CASE UrbEof
  BY <1>3, <1>19 DEF UrbEof, BusyAfterEof
<1>20. CASE UrbError
  BY <1>2, <1>20 DEF UrbError
<1>21. CASE Cleanup
  BY <1>3, <1>21 DEF Cleanup
<1>22. CASE Close
  <2>1. Unread' = {} /\ Received' = {}
    BY <1>22 DEF Close, Unread, Received
  <2> QED BY <1>1, <1>22, <2>1 DEF Close
<1> QED
  BY <1>4, <1>5, <1>6, <1>7, <1>8, <1>9, <1>10, <1>11, <1>12, <1>13, <1>14,
     <1>15, <1>16, <1>17, <1>18, <1>19, <1>20, <1>21, <1>22 DEF Client, Receive

LEMMA StepServiceHandler ==
  ASSUME IInv, IInv', Handler \/ Class
  PROVE  Service!Next
<1> USE DEF IInv, clientVars, tcpVars, EndTold
<1>0. /\ taken \in Nat /\ written \in Nat /\ taken <= written /\ BodyUnits \in Nat
      /\ BodyUnits > 1 /\ h \in Handling /\ Idle.pc = "idle"
      /\ (h.pc # "idle" => h.req <= Last)
  BY ConstantsAssumption, LastType DEF Typed, TypeOK, Located, Idle
<1>1. ASSUME UNCHANGED <<reqs, written, answers, tcp, queue, device_busy>>, EndTold,
             InHand' \subseteq InHand, taken' \in Nat, taken' >= taken,
             h.pc # "grant", h'.pc # "grant"
      PROVE  Service!Next
  <2>1. Unread' \subseteq Unread /\ Received' = Received /\ Posted' = Posted
    BY <1>0, <1>1 DEF Unread, Received, Posted, Last
  <2>2. Waiting' \subseteq Waiting
    BY <1>1, <2>1 DEF Waiting
  <2> QED BY <1>1, <2>2, LoseStep
<1>2. CASE TakeCommand
  <2>1. /\ UNCHANGED <<reqs, written, taken, peer, answers, tcp, device_busy>>
        /\ h.pc = "idle" /\ h'.req \in Posted /\ Held' = {h'.req}
        /\ Posted = Posted' \cup {h'.req} /\ h'.pc \in {"import", "devlist"}
    BY <1>2, QueueTaken DEF TakeCommand
  <2>2. Unread' = Unread /\ Received' = Received /\ InHand' \subseteq Held'
    BY <2>1 DEF Unread, Received, InHand, Held, Last
  <2>3. Waiting' \subseteq Waiting
    BY <2>1, <2>2 DEF Waiting
  <2> QED BY <2>1, <2>3, LoseStep
<1>3. CASE SendList
  <2>1. /\ Sent /\ InHand = {h.req} /\ Held = {h.req} /\ InHand' = {} /\ Held' = {}
        /\ h.req <= Last /\ UNCHANGED <<reqs, written, taken, peer, tcp, queue>>
        /\ device_busy' = device_busy /\ h.pc = "devlist" /\ h'.pc = "idle"
    BY <1>0, <1>3 DEF SendList, AfterList, InHand, Held
  <2>2. h.req \notin Imports
    BY <2>1 DEF Kinds
  <2> QED BY <2>1, <2>2, OrderedSent, AnswerStep
<1>4. CASE ReadBody
  <2>1. h'.pc = "reply" /\ h'.req = h.req /\ h.pc = "import"
    BY <1>0, <1>4 DEF ReadBody, Handling
  <2>2. InHand' = InHand
    BY <2>1 DEF InHand
  <2> QED BY <1>0, <1>1, <1>4, <2>1, <2>2 DEF ReadBody
<1>5. CASE ReadShort
  <2>1. InHand' = {} /\ h'.pc = "idle"
    BY <1>0, <1>5 DEF ReadShort, InHand
  <2> QED BY <1>0, <1>1, <1>5, <2>1 DEF ReadShort
<1>6. CASE ReadFails
  <2>1. InHand' = {} /\ h'.pc = "idle" /\ h.pc = "import"
    BY <1>0, <1>6 DEF ReadFails, NoBody, InHand
  <2> QED BY <1>0, <1>1, <1>6, <2>1 DEF ReadFails
<1>7. CASE Panic
  <2>1. /\ InHand' = {} /\ Unread' = {} /\ Received' = {} /\ Posted' = {}
        /\ UNCHANGED <<reqs, answers>> /\ h'.pc = "idle"
    BY <1>0, <1>7 DEF Panic, InHand, Unread, Received, Posted
  <2>2. Waiting' = {}
    BY <2>1 DEF Waiting
  <2>3. \A r \in Reqs : Stage(r)' = IF r \in Waiting THEN "lost" ELSE Stage(r)
    BY <2>1, <2>2, LoseStages
  <2>4. ASSUME NEW r \in Reqs
        PROVE  Stage(r)' = IF Stage(r) = "waiting" THEN "lost" ELSE Stage(r)
    <3>1. Stage(r) = "waiting" <=> r \in Waiting
      <4>1. r \in Waiting => ~(r > Last)
        BY WaitingSent, LastType
      <4> QED BY <4>1 DEF Stage
    <3> QED BY <2>3, <3>1
  <2>5. (h.pc = "grant")' = FALSE
    BY <2>1
  <2>6. device_busy' = FALSE
    BY <1>7 DEF Panic
  <2>7. Service!Reset
    BY <2>1, <2>4, <2>5, <2>6, ImportsKept DEF Service!Reset, Service!Lost, Service!Reqs, Reqs
  <2> QED BY <2>7 DEF Service!Next
<1>8. CASE SendImport
  <2>1. h'.pc = "grant" /\ h'.req = h.req /\ h.pc = "reply"
    BY <1>0, <1>8 DEF SendImport, Handling
  <2>2. /\ Sent /\ InHand = {h.req} /\ Held = {h.req} /\ InHand' = {}
        /\ Held' = Held /\ h.req <= Last /\ device_busy' = device_busy
        /\ UNCHANGED <<reqs, written, taken, peer, tcp, queue>>
    BY <1>0, <1>8, <2>1 DEF SendImport, InHand, Held
  <2>3. h.req \in Imports
    BY <2>1 DEF Kinds
  <2> QED BY <2>1, <2>2, <2>3, OrderedSent, AnswerStep
<1>9. CASE SendFails
  <2>1. InHand' = {} /\ h'.pc = "idle"
    BY <1>0, <1>9 DEF SendFails, GiveUp, InHand
  <2> QED BY <1>0, <1>1, <1>9, <2>1 DEF SendFails
<1>10. CASE Grant
  <2>1. /\ h.pc = "grant" /\ h'.pc = "idle" /\ InHand' = {} /\ InHand = {}
        /\ UNCHANGED <<reqs, written, taken, peer, answers, tcp, queue>>
    BY <1>0, <1>10 DEF Grant, InHand
  <2>2. Waiting' = Waiting
    BY <2>1 DEF Waiting, Unread, Received, Posted, Last
  <2>3. \A r \in Reqs : Stage(r)' = Stage(r)
    BY <2>1, <2>2, LoseStages
  <2>4. (h.pc = "grant") = TRUE /\ (h.pc = "grant")' = FALSE
    BY <2>1
  <2>5. device_busy' = TRUE
    BY <1>10 DEF Grant
  <2>6. Service!Grant
    BY <2>1, <2>3, <2>4, <2>5, ImportsKept DEF Service!Grant, Reqs
  <2> QED BY <2>6 DEF Service!Next
<1>11. CASE Describe
  <2>1. Waiting' = Waiting
    BY <1>11 DEF Describe, Waiting, Unread, Received, Posted, InHand, Last
  <2> QED BY <1>11, <2>1, LoseStep DEF Describe
<1>12. CASE DeviceExit
  <2>1. Waiting' = Waiting
    BY <1>12 DEF DeviceExit, Waiting, Unread, Received, Posted, InHand, Last
  <2> QED BY <1>12, <2>1, ClearStep DEF DeviceExit
<1> QED
  BY <1>2, <1>3, <1>4, <1>5, <1>6, <1>7, <1>8, <1>9, <1>10, <1>11, <1>12
  DEF Handler, Class

(* do_recv, handler 1 and the queue between them implement CommandService:  *)
(* commands are answered once and in order, and device_busy is set by every *)
(* answered import, once and before the next answer, and by nothing else.   *)
THEOREM ServiceImplemented == Spec => ImplementsService
<1>1. Init => Service!Init
  <2> SUFFICES ASSUME Init PROVE Service!Init
    OBVIOUS
  <2>1. ASSUME NEW r \in Reqs PROVE Stage(r) = "unsent"
    <3>1. Last = 0 /\ r \in Nat /\ r > 0
      BY DEF Init, Reqs, Last
    <3> QED BY <3>1 DEF Stage
  <2>2. (h.pc = "grant") = FALSE /\ device_busy = FALSE
    BY DEF Init, Idle
  <2>3. Imports = {}
    BY DEF Init, Imports, Last
  <2> QED BY <2>1, <2>2, <2>3 DEF Service!Init, Service!Reqs, Reqs
<1>2. Init => IInv
  BY InitTyped, InitOrdered, InitKinds DEF IInv
<1>3. IInv /\ [Next]_vars => IInv'
  BY StepTyped, StepOrdered, StepKinds DEF IInv
<1>4. IInv /\ IInv' /\ [Next]_vars => [Service!Next]_(Service!vars)
  <2> SUFFICES ASSUME IInv, IInv', [Next]_vars PROVE Service!Next
    OBVIOUS
  <2>1. CASE UNCHANGED vars
    <3>1. Waiting' = Waiting
      BY <2>1 DEF vars, clientVars, Waiting, Unread, Received, Posted, InHand, Last
    <3> QED BY <2>1, <3>1, LoseStep DEF vars, clientVars, IInv
  <2> QED BY <2>1, StepServiceReceive, StepServiceHandler DEF Next
<1> QED BY <1>1, <1>2, <1>3, <1>4, PTL DEF Spec, ImplementsService, Service!Spec

(* So a client that has an answer knows that everything sent before it, by  *)
(* whatever client, has been answered or is lost: CommandService promises   *)
(* it, and do_recv and handler 1 keep it.                                   *)
THEOREM AnswersInOrder == Spec => []Service!AnsweredInOrder
BY ServiceImplemented, Service!OrderPromised, PTL DEF ImplementsService

-----------------------------------------------------------------------------
(* From the client's close to the next accept: every step of do_recv and of *)
(* handler 1 is work done, and nobody else's step adds to it.               *)

Counted == Work \in Nat
Sum(a, p, q, g) == 12 * a + p + 6 * q + g

LEMMA SumNat ==
  ASSUME NEW a \in Nat, NEW p \in Nat, NEW q \in Nat, NEW g \in Nat
  PROVE  Sum(a, p, q, g) \in Nat
BY DEF Sum

LEMMA Parts ==
  ASSUME Typed
  PROVE  /\ taken \in Nat /\ written \in Nat /\ taken <= written
         /\ BodyUnits \in Nat /\ BodyUnits > 1
         /\ Available \in Nat /\ Len(queue) \in Nat
         /\ Place \in Nat /\ HandlerPlace \in Nat /\ HandlerPlace <= 5
         /\ Work = Sum(Available, Place, Len(queue), HandlerPlace)
         /\ Work \in Nat
<1>1. /\ taken \in Nat /\ written \in Nat /\ taken <= written
      /\ BodyUnits \in Nat /\ BodyUnits > 1 /\ Len(queue) \in Nat
  BY ConstantsAssumption DEF Typed, TypeOK
<1>2. Available \in Nat
  BY <1>1 DEF Available
<1>3. Place \in Nat
  BY DEF Place
<1>4. HandlerPlace \in Nat /\ HandlerPlace <= 5
  BY DEF HandlerPlace
<1>5. Work = Sum(Available, Place, Len(queue), HandlerPlace)
  BY DEF Work, Sum
<1> QED BY <1>1, <1>2, <1>3, <1>4, <1>5, SumNat

LEMMA WorkNat == Typed => Counted
BY Parts DEF Counted

(* What may be exchanged for what.                                          *)
LEMMA Less ==
  ASSUME Typed, NEW c \in Nat, NEW r \in Nat, NEW u \in Nat, NEW n \in Nat,
         Work' = Sum(c, r, u, n)
  PROVE  LET a == Available  p == Place  q == Len(queue)  g == HandlerPlace
         IN  /\ \/ c = a /\ r < p /\ u = q /\ n = g
                \/ c + 1 = a /\ r <= p + 11 /\ u = q /\ n = g
                \/ c = a /\ r + 7 <= p /\ u = q + 1 /\ n = g
                \/ c = a /\ r = p /\ u + 1 = q /\ n <= g + 5
                \/ c <= a /\ r = p /\ u = q /\ n < g
                \/ c = a /\ r <= p + 2 /\ u = q /\ n + 3 <= g
                => Work' < Work
             /\ c <= a /\ r <= p /\ u = q /\ n = g => Work' <= Work
<1> DEFINE a == Available  p == Place  q == Len(queue)  g == HandlerPlace
<1>1. /\ a \in Nat /\ p \in Nat /\ q \in Nat /\ g \in Nat
      /\ Work = Sum(a, p, q, g)
  BY Parts
<1> HIDE DEF a, p, q, g
<1>2. \/ c = a /\ r < p /\ u = q /\ n = g
      \/ c + 1 = a /\ r <= p + 11 /\ u = q /\ n = g
      \/ c = a /\ r + 7 <= p /\ u = q + 1 /\ n = g
      \/ c = a /\ r = p /\ u + 1 = q /\ n <= g + 5
      \/ c <= a /\ r = p /\ u = q /\ n < g
      \/ c = a /\ r <= p + 2 /\ u = q /\ n + 3 <= g
      => Work' < Work
  BY <1>1 DEF Sum
<1>3. c <= a /\ r <= p /\ u = q /\ n = g => Work' <= Work
  BY <1>1 DEF Sum
<1> QED BY <1>2, <1>3 DEF a, p, q, g

(* When only the TCP task moves, its place tells.                           *)
LEMMA Moved ==
  ASSUME Typed, UNCHANGED <<written, taken, queue, h>>, Place' \in Nat
  PROVE  /\ Place' < Place => Work' < Work
         /\ Place' <= Place => Work' <= Work
<1>1. Work' = Sum(Available, Place', Len(queue), HandlerPlace)
  BY DEF Work, Sum, Available, HandlerPlace
<1> QED BY <1>1, Parts, Less

LEMMA ReceiveWorks ==
  ASSUME Typed, Ending, Ending', Receive
  PROVE  Work' < Work
<1> USE DEF clientVars, tcpVars
<1>1. CASE \/ EnterRecv \/ EnterUrbLoop \/ RecvEnds \/ WaitEnds \/ UrbEof
           \/ UrbError \/ Cleanup
  <2>1. Place' \in Nat /\ Place' < Place
    BY <1>1 DEF EnterRecv, EnterUrbLoop, RecvEnds, LoopExit, WaitEnds, AfterWait,
                UrbEof, BusyAfterEof, UrbError, Cleanup, Place, Ending, Failing
  <2>2. UNCHANGED <<written, taken, queue, h>>
    BY <1>1 DEF EnterRecv, EnterUrbLoop, RecvEnds, WaitEnds, UrbEof, UrbError,
                Cleanup
  <2> QED BY <2>1, <2>2, Moved
<1>2. CASE RecvCommand \/ RecvInvalid \/ UrbDrops
  <2>1. /\ taken' = taken + 1 /\ Available > 0
        /\ UNCHANGED <<written, queue, h>>
    BY <1>2, Parts DEF RecvCommand, RecvInvalid, UrbDrops
  <2>2. Available' \in Nat /\ Available' + 1 = Available
    BY <2>1, Parts DEF Available
  <2>3. Place' \in Nat /\ Place' <= Place + 11
    BY <1>2 DEF RecvCommand, RecvInvalid, UrbDrops, Place
  <2>4. Work' = Sum(Available', Place', Len(queue), HandlerPlace)
    BY <2>1 DEF Work, Sum, HandlerPlace
  <2> QED BY <2>2, <2>3, <2>4, Parts, Less
<1>3. CASE PostCommand
  <2>1. Place' \in Nat /\ Place' + 7 <= Place
    BY <1>3 DEF PostCommand, AfterPost, Place
  <2>2. Len(queue') = Len(queue) + 1 /\ Len(queue') \in Nat
    BY <1>3, Parts DEF PostCommand, Typed, TypeOK
  <2>3. Work' = Sum(Available, Place', Len(queue'), HandlerPlace)
    BY <1>3 DEF PostCommand, Work, Sum, HandlerPlace, Available
  <2> QED BY <2>1, <2>2, <2>3, Parts, Less
<1>4. CASE RecvTimeout \/ Close
  BY <1>4 DEF RecvTimeout, Close, Ending, Failing
<1> QED BY <1>1, <1>2, <1>3, <1>4 DEF Receive

(* What a step of handler 1 other than taking a command does.               *)
LEMMA HandlerForward ==
  ASSUME Typed, \/ SendList \/ ReadBody \/ ReadShort \/ ReadFails
                \/ SendImport \/ SendFails \/ Grant
  PROVE  /\ UNCHANGED <<reqs, written, tcp, queue>> /\ EndTold
         /\ taken \in Nat /\ taken' \in Nat /\ taken <= taken'
         /\ HandlerPlace' \in Nat /\ HandlerPlace' < HandlerPlace
         /\ InHand' \subseteq InHand
<1> USE DEF clientVars, tcpVars
<1>1. h \in Handling
  BY DEF Typed, TypeOK
<1>2. /\ h'.req = h.req \/ h'.pc = "idle"
      /\ \/ h.pc \in {"devlist", "import", "reply", "grant"} /\ h'.pc = "idle"
         \/ h.pc = "import" /\ h'.pc = "reply"
         \/ h.pc = "reply" /\ h'.pc = "grant"
  <2>1. CASE ReadBody
    BY <1>1, <2>1 DEF ReadBody, Handling
  <2>2. CASE SendImport
    BY <1>1, <2>2 DEF SendImport, Handling
  <2>3. CASE SendList \/ ReadShort \/ ReadFails \/ SendFails \/ Grant
    BY <2>3 DEF SendList, AfterList, ReadShort, ReadFails, NoBody, SendFails, Grant, GiveUp,
                Idle
  <2> QED BY <2>1, <2>2, <2>3
<1>3. HandlerPlace' \in Nat /\ HandlerPlace' < HandlerPlace
  BY <1>2 DEF HandlerPlace
<1>4. InHand' \subseteq InHand
  BY <1>2 DEF InHand
<1>5. taken \in Nat /\ taken' \in Nat /\ taken <= taken'
  BY Parts DEF SendList, ReadBody, ReadShort, ReadFails, SendImport, SendFails, Grant
<1>6. UNCHANGED <<reqs, written, tcp, queue>> /\ EndTold
  BY DEF SendList, ReadBody, ReadShort, ReadFails, SendImport, SendFails, Grant,
         EndTold
<1> QED BY <1>3, <1>4, <1>5, <1>6

LEMMA HandlerWorks ==
  ASSUME Typed, Handler, ~Panic
  PROVE  Work' < Work
<1> USE DEF clientVars, tcpVars
<1>1. CASE TakeCommand
  <2>1. HandlerPlace = 0 /\ HandlerPlace' \in Nat /\ HandlerPlace' <= 5
    BY <1>1 DEF TakeCommand, HandlerPlace
  <2>2. Len(queue') \in Nat /\ Len(queue') + 1 = Len(queue)
    BY <1>1 DEF TakeCommand, Typed, TypeOK
  <2>3. Work' = Sum(Available, Place, Len(queue'), HandlerPlace')
    BY <1>1 DEF TakeCommand, Work, Sum, Available, Place
  <2>4. HandlerPlace' <= HandlerPlace + 5
    BY <2>1
  <2> QED BY <2>1, <2>2, <2>3, <2>4, Parts, Less
<1>2. CASE \/ SendList \/ ReadBody \/ ReadShort \/ ReadFails \/ SendImport
           \/ SendFails
  <2>1. HandlerPlace' \in Nat /\ HandlerPlace' < HandlerPlace
    BY <1>2, HandlerForward
  <2>2. UNCHANGED <<written, tcp, device_busy, queue>>
    BY <1>2 DEF SendList, ReadBody, ReadShort, ReadFails, SendImport, SendFails
  <2>3. Available' \in Nat /\ Available' <= Available
    BY <1>2, Parts DEF SendList, ReadBody, ReadShort, ReadFails, SendImport,
                       SendFails, Available
  <2>4. Work' = Sum(Available', Place, Len(queue), HandlerPlace')
    BY <2>2 DEF Work, Sum, Place
  <2> QED BY <2>1, <2>3, <2>4, Parts, Less
<1>3. CASE Grant
  <2>1. HandlerPlace = 3 /\ HandlerPlace' = 0 /\ HandlerPlace' + 3 <= HandlerPlace
    BY <1>3 DEF Grant, HandlerPlace, Idle
  <2>2. Place' \in Nat /\ Place' <= Place + 2
    BY <1>3 DEF Grant, Place
  <2>3. Work' = Sum(Available, Place', Len(queue), HandlerPlace')
    BY <1>3 DEF Grant, Work, Sum, Available
  <2> QED BY <2>1, <2>2, <2>3, Parts, Less
<1> QED BY <1>1, <1>2, <1>3 DEF Handler

LEMMA OthersWork ==
  ASSUME Typed, Ending, ~Receive, ~Handler, [Next]_vars
  PROVE  IF Ending' THEN Work' <= Work ELSE ClientReset
<1> USE DEF clientVars, tcpVars
<1>1. CASE ClientReset
  <2>1. UNCHANGED <<taken, tcp, device_busy, queue, h>>
    BY <1>1 DEF ClientReset
  <2>2. Available' \in Nat /\ Available' <= Available
    BY <1>1, <2>1, Parts DEF ClientReset, Available
  <2>3. Work' = Sum(Available', Place, Len(queue), HandlerPlace)
    BY <2>1 DEF Work, Sum, Place, HandlerPlace
  <2>4. Place <= Place
    BY Parts
  <2> QED BY <1>1, <2>2, <2>3, <2>4, Parts, Less
<1>2. CASE ClientSend \/ ClientBody \/ ClientClose \/ Accept
  BY <1>2 DEF ClientSend, ClientBody, ClientClose, Accept, Ending, Failing,
              Typed, Located
<1>3. CASE PostFails \/ Class \/ UNCHANGED vars
  <2>1. Place' \in Nat /\ Place' <= Place
    BY <1>3 DEF PostFails, AfterPost, Class, Describe, DeviceExit, vars, Place
  <2>2. UNCHANGED <<written, taken, queue, h, peer>>
    BY <1>3 DEF PostFails, Class, Describe, DeviceExit, vars
  <2>3. device_busy' => device_busy
    BY <1>3 DEF PostFails, Class, Describe, DeviceExit, vars
  <2>4. Ending'
    BY <2>2, <2>3 DEF Ending, Failing
  <2> QED BY <2>1, <2>2, <2>4, Moved
<1> QED BY <1>1, <1>2, <1>3 DEF Next, Client

(* What do_recv's and handler 1's steps leave of the ending.                *)
LEMMA EndingKept ==
  ASSUME Ending, Receive \/ Handler
  PROVE  Ending' \/ tcp' = "accept" \/ ReadFails \/ Grant
<1> USE DEF clientVars, tcpVars
<1>1. CASE Close \/ Panic
  BY <1>1 DEF Close, Panic
<1>2. CASE UrbEof \/ Cleanup
  BY <1>2 DEF UrbEof, BusyAfterEof, Cleanup, Ending, Failing
<1>3. ASSUME UNCHANGED <<peer, device_busy>> PROVE Ending'
  BY <1>3 DEF Ending, Failing
<1>4. CASE \/ EnterRecv \/ EnterUrbLoop \/ RecvCommand \/ RecvInvalid
           \/ RecvTimeout \/ RecvEnds \/ PostCommand \/ WaitEnds \/ UrbDrops
           \/ UrbError
  BY <1>3, <1>4 DEF EnterRecv, EnterUrbLoop, RecvCommand, RecvInvalid, RecvTimeout,
                    RecvEnds, PostCommand, WaitEnds, UrbDrops, UrbError
<1>5. CASE \/ TakeCommand \/ SendList \/ ReadBody \/ ReadShort \/ SendImport
           \/ SendFails
  BY <1>3, <1>5 DEF TakeCommand, SendList, ReadBody, ReadShort, SendImport,
                    SendFails
<1> QED BY <1>1, <1>2, <1>4, <1>5 DEF Receive, Handler

(* With the client's end to be read, or read and device_busy not set, the   *)
(* server is a bounded number of steps from its next accept, whatever is    *)
(* still queued, read or granted; only a reset, handler 1 reading the end,  *)
(* or a device_busy it sets after that, may stop the count.                 *)
THEOREM CloseProgress == Spec => CloseDrains
<1>1. Typed /\ Counted /\ Counted' /\ [Next]_vars =>
        [Ending => IF Ending' THEN /\ Work' \in 0..Work
                                   /\ Receive \/ Handler => Work' < Work
                   ELSE tcp' = "accept" \/ ClientReset \/ ReadFails \/ Grant]_vars
  <2> SUFFICES ASSUME Typed, Counted, Counted', [Next]_vars, Ending
               PROVE  IF Ending' THEN /\ Work' \in 0..Work
                                      /\ Receive \/ Handler => Work' < Work
                      ELSE tcp' = "accept" \/ ClientReset \/ ReadFails \/ Grant
    OBVIOUS
  <2>1. Work \in Nat /\ Work' \in Nat
    BY DEF Counted
  <2>2. CASE Panic
    <3>1. tcp' = "accept" /\ peer' = "none"
      BY <2>2 DEF Panic
    <3> QED BY <3>1 DEF Ending, Failing
  <2>3. CASE (Receive \/ Handler) /\ ~Panic
    <3>1. Ending' => Work' < Work
      BY <2>3, ReceiveWorks, HandlerWorks
    <3> QED BY <2>1, <2>3, <3>1, EndingKept
  <2>4. CASE ~Receive /\ ~Handler
    BY <2>1, <2>4, OthersWork
  <2> QED BY <2>2, <2>3, <2>4
<1> QED BY InitTyped, StepTyped, WorkNat, <1>1, PTL DEF Spec, CloseDrains

-----------------------------------------------------------------------------
(* How far a waiting command is.  A command that do_recv has still to read  *)
(* or to post is behind the whole queue; when the command loop ends there   *)
(* is none.                                                                 *)

Emptied == tcp = "cleanup" => Available = 0 /\ (peer = "fin" \/ Failing)
ToRead  == Unread \cup Received
Ahead   == Posted \cup InHand

LEMMA InitEmptied == Init => Emptied
BY DEF Init, Emptied

LEMMA StepEmptied == Typed /\ Emptied /\ [Next]_vars => Emptied'
<1> SUFFICES ASSUME Typed, Emptied, [Next]_vars, tcp' = "cleanup"
             PROVE  Available' = 0 /\ (peer' = "fin" \/ Failing')
  BY DEF Emptied
<1> USE DEF clientVars, tcpVars, Failing
<1>0. taken \in Nat /\ written \in Nat /\ taken <= written /\ BodyUnits > 1
  BY Parts
<1>1. CASE Client
  BY <1>0, <1>1 DEF Client, ClientSend, ClientBody, ClientClose, ClientReset,
                    Emptied, Available
<1>2. CASE Handler
  <2>1. tcp = "cleanup" /\ UNCHANGED written /\ EndTold
    BY <1>2 DEF EndTold, Handler, TakeCommand, SendList, ReadBody, ReadShort, ReadFails,
                Panic, SendImport, SendFails, Grant
  <2>2. ~ReadBody /\ ~ReadShort
    BY <2>1, Parts DEF Emptied, ReadBody, ReadShort
  <2>3. taken' = taken
    BY <1>2, <2>1, <2>2
       DEF Handler, TakeCommand, SendList, ReadFails, Panic, SendImport,
           SendFails, Grant
  <2> QED BY <2>1, <2>3 DEF Emptied, Available, EndTold
<1>3. CASE Accept \/ PostFails \/ Class \/ Receive \/ UNCHANGED vars
  BY <1>3 DEF Accept, PostFails, AfterPost, Class, Describe, DeviceExit, vars,
              Receive, EnterRecv, EnterUrbLoop, RecvCommand, RecvInvalid,
              RecvTimeout, TimeoutTo, RecvEnds, LoopExit, PostCommand, WaitEnds,
              AfterWait, UrbDrops, UrbEof, UrbError, Cleanup, Close, Emptied, Available
<1> QED BY <1>1, <1>2, <1>3 DEF Next

Left(a, g, t) == 6 * a + g + t

Places ==
  /\ \A i \in DOMAIN queue : Behind(queue[i].req) = i
  /\ \A r \in InHand : Behind(r) = 0
  /\ \A r \in ToRead : Behind(r) = Len(queue) + 1 /\ r = Last
  /\ ToRead \cap Ahead = {}
  /\ \A r \in Ahead : ToPost(r) = 0
  /\ \A r : ToPost(r) \in Nat
  /\ \A r \in Waiting : Behind(r) \in Nat /\ WaitLeft(r) \in Nat
  /\ Len(queue) \in Nat /\ HandlerPlace \in Nat
  /\ DOMAIN queue = 1..Len(queue)

LEMMA PlacesKnown == Typed /\ Ordered => Places
<1> SUFFICES ASSUME Typed, Ordered PROVE Places
  OBVIOUS
<1>1. DOMAIN queue = 1..Len(queue) /\ Len(queue) \in Nat /\ HandlerPlace \in Nat
  BY Parts DEF Typed, TypeOK
<1>0. \A j \in DOMAIN queue : queue[j].req \in Nat
  <2>1. Event = [req : Reqs, sock : Fds] /\ \A q \in Reqs : q \in Nat
    BY ConstantsAssumption DEF Event, Reqs
  <2>2. \A j \in DOMAIN queue : queue[j] \in Event
    BY DEF Typed, TypeOK
  <2> QED BY <2>1, <2>2
<1>2. \A i \in DOMAIN queue : Behind(queue[i].req) = i
  <2> SUFFICES ASSUME NEW i \in DOMAIN queue PROVE Behind(queue[i].req) = i
    OBVIOUS
  <2>1. queue[i].req \in Posted
    BY DEF Posted
  <2>2. \A j \in DOMAIN queue : queue[j].req = queue[i].req => j = i
    BY <1>1, <1>0 DEF Ordered
  <2> QED BY <2>1, <2>2 DEF Behind
<1>3. InHand \subseteq Held /\ InHand \cap Posted = {}
  <2>1. InHand \subseteq Held
    BY DEF InHand, Held
  <2>2. \A r \in Posted, q \in Held : q # r
    <3>1. \A r \in Posted : r \in Nat
      BY <1>0 DEF Posted
    <3>2. \A q \in Held : q \in Nat
      BY LastType DEF Held, Typed, Located
    <3> QED BY <3>1, <3>2 DEF Ordered
  <2> QED BY <2>1, <2>2
<1>4. \A r \in InHand : Behind(r) = 0
  BY <1>3 DEF Behind
<1>5. \A r \in ToRead : r = Last /\ r \notin Ahead
  BY <1>3 DEF ToRead, Unread, Received, Ahead, Ordered
<1>6. \A r \in ToRead : Behind(r) = Len(queue) + 1
  BY <1>5 DEF Behind, Ahead
<1>7. \A r \in Ahead : ToPost(r) = 0
  BY <1>5 DEF ToRead, ToPost
<1>8. \A r : ToPost(r) \in Nat
  BY DEF ToPost
<1>9. ASSUME NEW r \in Waiting PROVE Behind(r) \in Nat /\ WaitLeft(r) \in Nat
  <2>1. Behind(r) \in Nat
    BY <1>1, <1>2, <1>4, <1>6 DEF Waiting, Posted, ToRead
  <2>2. \A a, g, t \in Nat : Left(a, g, t) \in Nat
    BY DEF Left
  <2>3. WaitLeft(r) = Left(Behind(r), HandlerPlace, ToPost(r))
    BY DEF WaitLeft, Left
  <2> QED BY <1>1, <1>8, <2>1, <2>2, <2>3
<1> QED BY <1>1, <1>2, <1>4, <1>5, <1>6, <1>7, <1>8, <1>9 DEF Places

LEMMA LeftLess ==
  ASSUME Places, NEW r \in Waiting, NEW a \in Nat, NEW g \in Nat, NEW t \in Nat,
         WaitLeft(r)' = Left(a, g, t)
  PROVE  LET b == Behind(r)  k == HandlerPlace  p == ToPost(r)
         IN  /\ \/ a = b /\ g < k /\ t = p
                \/ a = b /\ g = k /\ t < p
                \/ a + 1 = b /\ g <= k + 5 /\ t = p
                => WaitLeft(r)' < WaitLeft(r)
             /\ a = b /\ g = k /\ t = p => WaitLeft(r)' <= WaitLeft(r)
<1> DEFINE b == Behind(r)  k == HandlerPlace  p == ToPost(r)
<1>1. b \in Nat /\ k \in Nat /\ p \in Nat /\ WaitLeft(r) = Left(b, k, p)
  BY DEF Places, WaitLeft, Left
<1> HIDE DEF b, k, p
<1>2. \/ a = b /\ g < k /\ t = p
      \/ a = b /\ g = k /\ t < p
      \/ a + 1 = b /\ g <= k + 5 /\ t = p
      => WaitLeft(r)' < WaitLeft(r)
  BY <1>1 DEF Left
<1>3. a = b /\ g = k /\ t = p => WaitLeft(r)' <= WaitLeft(r)
  BY <1>1 DEF Left
<1> QED BY <1>2, <1>3 DEF b, k, p

LEMMA LeftIs == \A r : WaitLeft(r)' = Left(Behind(r)', HandlerPlace', ToPost(r)')
BY DEF WaitLeft, Left

(* While queue and handler stay as they are, so does how far a command is,  *)
(* but for the way to the post of one that is still to be read or posted.   *)
LEMMA Kept ==
  ASSUME Places, Places', UNCHANGED <<queue, h>>,
         NEW r \in Waiting, r \in Waiting'
  PROVE  /\ Behind(r)' = Behind(r) /\ HandlerPlace' = HandlerPlace
         /\ r \in Ahead => ToPost(r)' = ToPost(r)
         /\ r \notin Ahead => r \in ToRead /\ r \in ToRead'
<1>1. Posted' = Posted /\ InHand' = InHand /\ HandlerPlace' = HandlerPlace
  BY DEF Posted, InHand, HandlerPlace
<1>2. Ahead' = Ahead
  BY <1>1 DEF Ahead
<1>3. r \notin Ahead => r \in ToRead /\ r \in ToRead'
  BY <1>2 DEF Waiting, Ahead, ToRead
<1>4. r \in Ahead => ToPost(r)' = ToPost(r)
  BY <1>2 DEF Places
<1>5. Behind(r)' = Behind(r)
  <2>1. CASE r \in Posted
    <3>1. PICK i \in DOMAIN queue : queue[i].req = r
      BY <2>1 DEF Posted
    <3> QED BY <3>1 DEF Places
  <2>2. CASE r \in InHand
    BY <1>1, <2>2 DEF Places
  <2>3. CASE r \notin Ahead
    BY <1>3, <2>3 DEF Places
  <2> QED BY <2>1, <2>2, <2>3 DEF Ahead
<1> QED BY <1>1, <1>3, <1>4, <1>5

LEMMA KeptLess ==
  ASSUME Places, Places', UNCHANGED <<queue, h>>,
         NEW r \in Waiting, r \in Waiting'
  PROVE  /\ r \in Ahead => WaitLeft(r)' <= WaitLeft(r)
         /\ ToPost(r)' < ToPost(r) => WaitLeft(r)' < WaitLeft(r)
         /\ ToPost(r)' = ToPost(r) => WaitLeft(r)' <= WaitLeft(r)
<1>1. /\ Behind(r) \in Nat /\ HandlerPlace \in Nat /\ ToPost(r)' \in Nat
      /\ WaitLeft(r)' = Left(Behind(r), HandlerPlace, ToPost(r)')
  BY Kept, LeftIs DEF Places
<1> QED BY <1>1, LeftLess, Kept

(* Handler 1's steps.                                                       *)
LEMMA HandlerDrains ==
  ASSUME Typed, Places, Places', Handler, NEW r \in Waiting, r \in Waiting'
  PROVE  WaitLeft(r)' < WaitLeft(r)
<1> USE DEF clientVars, tcpVars
<1>1. ~Panic
  BY DEF Panic, Waiting, Unread, Received, Posted, InHand, Idle
<1>2. CASE TakeCommand
  <2>1. /\ InHand = {} /\ HandlerPlace = 0
        /\ HandlerPlace' \in Nat /\ HandlerPlace' <= 5
    BY <1>2 DEF TakeCommand, HandlerPlace, InHand
  <2>2. /\ UNCHANGED <<reqs, written, taken, peer, tcp>> /\ queue # <<>>
        /\ InHand' = {queue[1].req}
    BY <1>2 DEF TakeCommand, InHand, Typed, TypeOK
  <2>3. /\ Len(queue') + 1 = Len(queue) /\ 1 \in DOMAIN queue
        /\ \A i \in DOMAIN queue : i # 1 =>
             i - 1 \in DOMAIN queue' /\ queue'[i - 1] = queue[i]
    BY <1>2 DEF TakeCommand, Typed, TypeOK
  <2>4. ToRead' = ToRead
    BY <2>2 DEF ToRead, Unread, Received, Last
  <2>5. CASE r \in Posted
    <3>1. PICK i \in DOMAIN queue : queue[i].req = r
      BY <2>5 DEF Posted
    <3>2. Behind(r) = i /\ i \in Nat /\ ToPost(r) = 0
      BY <2>5, <3>1 DEF Places, Ahead
    <3>3. Behind(r)' \in Nat /\ Behind(r)' + 1 = i /\ ToPost(r)' = 0
      <4>1. CASE i = 1
        BY <2>2, <3>1, <4>1 DEF Places, Ahead
      <4>2. CASE i # 1
        <5>1. i - 1 \in DOMAIN queue' /\ queue'[i - 1].req = r
          BY <2>3, <3>1, <4>2
        <5>2. r \in Posted' /\ Behind(r)' = i - 1
          BY <5>1 DEF Posted, Places
        <5> QED BY <3>2, <5>1, <5>2 DEF Places, Ahead
      <4> QED BY <4>1, <4>2
    <3> QED BY <2>1, <3>2, <3>3, LeftIs, LeftLess
  <2>6. CASE r \in ToRead
    <3>1. /\ Behind(r)' + 1 = Behind(r) /\ Behind(r)' \in Nat
      BY <2>3, <2>4, <2>6 DEF Places
    <3>2. ToPost(r)' = ToPost(r) /\ ToPost(r) \in Nat
      BY <2>2 DEF ToPost, Unread, Received, Last
    <3> QED BY <2>1, <3>1, <3>2, LeftIs, LeftLess
  <2> QED BY <2>1, <2>5, <2>6 DEF Waiting, ToRead
<1>3. CASE \/ SendList \/ ReadBody \/ ReadShort \/ ReadFails \/ SendImport
           \/ SendFails \/ Grant
  <2>1. /\ UNCHANGED <<reqs, written, tcp, queue>> /\ EndTold
        /\ taken \in Nat /\ taken' \in Nat /\ taken <= taken'
        /\ HandlerPlace' \in Nat /\ HandlerPlace' < HandlerPlace
        /\ InHand' \subseteq InHand
    BY <1>3, HandlerForward
  <2>2. Posted' = Posted /\ Received' = Received /\ Unread' \subseteq Unread
    BY <2>1 DEF Posted, Received, Unread, Last, EndTold
  <2>3. Behind(r)' = Behind(r) /\ ToPost(r)' = ToPost(r)
    <3>1. CASE r \in Posted
      <4>1. PICK i \in DOMAIN queue : queue[i].req = r
        BY <3>1 DEF Posted
      <4>2. Behind(r) = i /\ Behind(r)' = i
        BY <2>1, <4>1 DEF Places
      <4> QED BY <2>2, <3>1, <4>2 DEF Places, Ahead
    <3>2. CASE r \in InHand'
      BY <2>1, <3>2 DEF Places, Ahead
    <3>3. CASE r \in ToRead'
      <4>1. r \in ToRead /\ (r \in Received \/ (r \in Unread /\ r \in Unread'))
        BY <2>2, <3>3 DEF ToRead
      <4>2. ToPost(r)' = ToPost(r)
        BY <2>1, <2>2, <4>1 DEF ToPost
      <4> QED BY <2>1, <3>3, <4>1, <4>2 DEF Places
    <3> QED BY <2>2, <3>1, <3>2, <3>3 DEF Waiting, ToRead
  <2>4. Behind(r) \in Nat /\ ToPost(r) \in Nat
    BY DEF Places
  <2> QED BY <2>1, <2>3, <2>4, LeftIs, LeftLess
<1> QED BY <1>1, <1>2, <1>3 DEF Handler

(* do_recv's steps, for a command that it has still to read or to post.     *)
LEMMA ReceiveDrains ==
  ASSUME Typed, Ordered, Emptied, Places, Places', Receive,
         NEW r \in ToRead, r \in Waiting'
  PROVE  WaitLeft(r)' < WaitLeft(r)
<1> USE DEF clientVars, tcpVars
<1>0. /\ taken \in Nat /\ written \in Nat /\ taken <= written /\ BodyUnits > 1
      /\ r \in Waiting /\ r \notin Ahead
  BY Parts DEF Waiting, ToRead, Places
<1>1. /\ r \in Unread => peer # "none" /\ Available > 0 /\ taken = 0
      /\ r \in Received => tcp = "post" /\ taken > 0
      /\ r \in Unread \/ r \in Received
  BY <1>0 DEF Unread, Received, Available, Ordered, ToRead
<1>2. CASE \/ RecvTimeout \/ RecvEnds \/ UrbEof \/ UrbError \/ Cleanup
  BY <1>1, <1>2 DEF RecvTimeout, RecvEnds, UrbEof, UrbError, Cleanup, Emptied, Failing
<1>3. CASE RecvInvalid \/ UrbDrops \/ Close
  <2>1. ToRead' = {} /\ Ahead' = Ahead
    BY <1>0, <1>3 DEF RecvInvalid, UrbDrops, Close, ToRead, Unread, Received,
                      Ahead, Posted, InHand
  <2> QED BY <1>0, <2>1 DEF Waiting, ToRead, Ahead
<1>4. CASE PostCommand
  <2>1. /\ tcp = "post" /\ r \in Received /\ r = Last /\ tcp' # "post" /\ h' = h
        /\ UNCHANGED <<reqs, written, taken, peer>>
        /\ queue' = Append(queue, [req |-> Last, sock |-> sock])
    BY <1>1, <1>4 DEF PostCommand, AfterPost, Ordered, Places, Received
  <2>2. Len(queue) + 1 \in DOMAIN queue' /\ queue'[Len(queue) + 1].req = r
    BY <2>1 DEF Typed, TypeOK
  <2>3. Behind(r)' = Len(queue) + 1 /\ r \in Ahead'
    BY <2>2 DEF Places, Ahead, Posted
  <2>4. ToPost(r)' = 0 /\ ToPost(r) = 1 /\ Behind(r) = Len(queue) + 1
    BY <2>1, <2>3 DEF Places, ToPost, Received
  <2>5. HandlerPlace' = HandlerPlace /\ HandlerPlace \in Nat /\ Len(queue) + 1 \in Nat
    BY <2>1 DEF HandlerPlace, Places
  <2> QED BY <1>0, <2>3, <2>4, <2>5, LeftIs, LeftLess
<1>5. CASE RecvCommand
  <2>1. /\ tcp = "recv" /\ tcp' = "post" /\ r \in Unread /\ r = Last
        /\ UNCHANGED <<reqs, queue, h>>
    BY <1>1, <1>5 DEF RecvCommand, Places
  <2>2. ToPost(r) = 2 /\ ToPost(r)' = 1
    BY <2>1 DEF ToPost, Received, Last
  <2> QED BY <1>0, <2>1, <2>2, KeptLess
<1>6. CASE EnterRecv \/ EnterUrbLoop \/ WaitEnds
  <2>1. /\ UNCHANGED <<reqs, written, taken, peer, queue, h>>
        /\ r \in Unread
        /\ \/ tcp = "loop" /\ tcp' \in {"recv", "urb"}
           \/ tcp = "wait" /\ tcp' = "loop"
    BY <1>1, <1>6 DEF EnterRecv, EnterUrbLoop, WaitEnds, AfterWait
  <2>2. r \in Unread' /\ r \notin Received /\ r \notin Received'
    BY <2>1 DEF Unread, Received, Last
  <2>3. ToPost(r)' < ToPost(r)
    BY <2>1, <2>2 DEF ToPost
  <2> QED BY <1>0, <2>1, <2>3, KeptLess
<1> QED BY <1>2, <1>3, <1>4, <1>5, <1>6 DEF Receive

(* Nobody else's step adds anything, nor do_recv's to what is ahead of it.  *)
LEMMA OthersDrain ==
  ASSUME Typed, Ordered, Places, Places', [Next]_vars, ~Handler,
         NEW r \in Waiting, r \in Waiting', Receive => r \notin ToRead
  PROVE  WaitLeft(r)' <= WaitLeft(r)
<1> USE DEF clientVars, tcpVars
<1>0. r \in Ahead \/ r \in ToRead
  BY DEF Waiting, Ahead, ToRead
<1>1. CASE PostCommand
  <2>1. /\ h' = h /\ queue' = Append(queue, [req |-> Last, sock |-> sock])
        /\ r \in Ahead
    BY <1>0, <1>1 DEF PostCommand, Receive
  <2>2. /\ \A i \in DOMAIN queue : i \in DOMAIN queue' /\ queue'[i] = queue[i]
    BY <2>1 DEF Typed, TypeOK
  <2>3. InHand' = InHand /\ HandlerPlace' = HandlerPlace /\ Posted \subseteq Posted'
    BY <2>1, <2>2 DEF InHand, HandlerPlace, Posted
  <2>4. Behind(r)' = Behind(r)
    <3>1. CASE r \in Posted
      <4>1. PICK i \in DOMAIN queue : queue[i].req = r
        BY <3>1 DEF Posted
      <4> QED BY <2>2, <4>1 DEF Places
    <3>2. CASE r \in InHand
      BY <2>3, <3>2 DEF Places
    <3> QED BY <2>1, <3>1, <3>2 DEF Ahead
  <2>5. ToPost(r) = 0 /\ ToPost(r)' = 0
    BY <2>1, <2>3 DEF Places, Ahead
  <2>6. Behind(r) \in Nat /\ HandlerPlace \in Nat
    BY DEF Places
  <2> QED BY <2>3, <2>4, <2>5, <2>6, LeftIs, LeftLess
<1>2. CASE ~PostCommand /\ r \in Ahead
  <2>1. UNCHANGED <<queue, h>>
    BY <1>2 DEF Next, vars, Client, ClientSend, ClientBody, ClientClose,
                ClientReset, Accept, PostFails, Class, Describe, DeviceExit,
                Receive, EnterRecv, EnterUrbLoop, RecvCommand, RecvInvalid,
                RecvTimeout, RecvEnds, WaitEnds, UrbDrops, UrbEof, UrbError,
                Cleanup, Close
  <2> QED BY <1>2, <2>1, KeptLess
<1>3. CASE r \in ToRead
  <2>1. CASE ClientSend
    BY <1>3, <2>1, SendWaits DEF ToRead, Received
  <2>2. CASE Accept
    BY <1>3, <2>2 DEF Accept, ToRead, Unread, Received, Typed, Located
  <2>3. CASE PostFails
    <3>1. ToRead' = {} /\ Ahead' = Ahead
      BY <2>3 DEF PostFails, AfterPost, ToRead, Unread, Received, Ahead, Posted,
                  InHand, Ordered, Typed, TypeOK
    <3> QED BY <1>3, <3>1 DEF Places, Waiting, Ahead, ToRead
  <2>4. CASE ClientBody \/ ClientClose \/ ClientReset \/ Class \/ UNCHANGED vars
    <3>1. /\ UNCHANGED <<reqs, taken, tcp, queue, h>>
          /\ peer # "none" <=> peer' # "none"
      BY <2>4 DEF ClientBody, ClientClose, ClientReset, Class, Describe,
                  DeviceExit, vars
    <3>2. r \in ToRead'
      BY <1>3, <3>1, Kept DEF Places
    <3>3. ToPost(r)' = ToPost(r)
      <4>1. Received' = Received
        BY <3>1 DEF Received, Last
      <4>2. r \in Received \/ (r \in Unread /\ r \in Unread')
        BY <1>3, <3>2, <4>1 DEF ToRead
      <4> QED BY <3>1, <4>1, <4>2 DEF ToPost, Received
    <3> QED BY <3>1, <3>3, KeptLess
  <2> QED BY <1>3, <2>1, <2>2, <2>3, <2>4 DEF Next, Client
<1> QED BY <1>0, <1>1, <1>2, <1>3

(* Every command that waits gets nearer to its answer with every step of    *)
(* handler 1, and until it is posted of do_recv, and no step takes it back. *)
THEOREM WaitingProgress == Spec => WaitingDrains
<1>1. Typed /\ Ordered /\ Emptied /\ Places /\ Places' /\ [Next]_vars =>
        [\A r \in Reqs : r \in Waiting /\ r \in Waiting' =>
          /\ WaitLeft(r)' \in 0..WaitLeft(r)
          /\ Handler => WaitLeft(r)' < WaitLeft(r)
          /\ Receive /\ r \in Unread \cup Received =>
               WaitLeft(r)' < WaitLeft(r)]_vars
  <2> SUFFICES ASSUME Typed, Ordered, Emptied, Places, Places', [Next]_vars,
                      NEW r \in Reqs, r \in Waiting, r \in Waiting'
               PROVE  /\ WaitLeft(r)' \in 0..WaitLeft(r)
                      /\ Handler => WaitLeft(r)' < WaitLeft(r)
                      /\ Receive /\ r \in Unread \cup Received =>
                           WaitLeft(r)' < WaitLeft(r)
    OBVIOUS
  <2>1. WaitLeft(r) \in Nat /\ WaitLeft(r)' \in Nat
    BY DEF Places
  <2>2. Handler => WaitLeft(r)' < WaitLeft(r)
    BY HandlerDrains
  <2>3. Receive /\ r \in ToRead => WaitLeft(r)' < WaitLeft(r)
    BY ReceiveDrains
  <2>4. ~Handler /\ ~(Receive /\ r \in ToRead) => WaitLeft(r)' <= WaitLeft(r)
    BY OthersDrain
  <2> QED BY <2>1, <2>2, <2>3, <2>4 DEF ToRead
<1> QED BY InitTyped, StepTyped, InitOrdered, StepOrdered, InitEmptied, StepEmptied,
           PlacesKnown, <1>1, PTL DEF Spec, WaitingDrains

-----------------------------------------------------------------------------
(* From a late device_busy to the URB loop: do_recv cannot go around its    *)
(* loop once more, since the flag is read at the top of it.                 *)

LEMMA ReceiveToUrbs ==
  ASSUME Receive, device_busy, device_busy', ToUrbs > 0
  PROVE  ToUrbs \in Nat /\ ToUrbs' \in Nat /\ ToUrbs' < ToUrbs
<1>1. CASE EnterUrbLoop \/ RecvCommand \/ RecvInvalid \/ RecvTimeout
  BY <1>1 DEF EnterUrbLoop, RecvCommand, RecvInvalid, RecvTimeout, TimeoutTo,
              ToUrbs
<1>0. CASE EnterRecv
  BY <1>0 DEF EnterRecv
<1>2. CASE RecvEnds \/ WaitEnds \/ Close
  <2>1. \/ tcp = "recv" /\ tcp' = "cleanup"
        \/ tcp = "wait" /\ tcp' = "loop"
        \/ tcp = "close" /\ tcp' = "accept"
    BY <1>2 DEF RecvEnds, LoopExit, WaitEnds, AfterWait, Close
  <2> QED BY <2>1 DEF ToUrbs
<1>3. CASE PostCommand
  <2>1. tcp = "post" /\ tcp' \in {"wait", "loop"}
    BY <1>3 DEF PostCommand, AfterPost
  <2> QED BY <2>1 DEF ToUrbs
<1>4. CASE UrbDrops \/ UrbEof \/ UrbError
  <2>1. tcp = "urb"
    BY <1>4 DEF UrbDrops, UrbEof, UrbError
  <2> QED BY <2>1 DEF ToUrbs
<1>5. CASE Cleanup
  BY <1>5 DEF Cleanup
<1> QED BY <1>0, <1>1, <1>2, <1>3, <1>4, <1>5 DEF Receive

LEMMA OthersToUrbs ==
  ASSUME [Next]_vars, ~Receive, device_busy', ToUrbs > 0
  PROVE  ToUrbs \in Nat /\ ToUrbs' \in Nat /\ ToUrbs' <= ToUrbs
<1>1. ToUrbs \in Nat
  BY DEF ToUrbs
<1>2. CASE tcp' = tcp
  BY <1>1, <1>2 DEF ToUrbs
<1>3. CASE PostFails
  BY <1>3 DEF PostFails, AfterPost, ToUrbs
<1>4. CASE Accept
  BY <1>4 DEF Accept, ToUrbs
<1>5. CASE Panic
  BY <1>5 DEF Panic
<1>6. CASE Client \/ Class \/ UNCHANGED vars
  BY <1>2, <1>6 DEF Client, ClientSend, ClientBody, ClientClose, ClientReset,
    Class, Describe, DeviceExit, vars
<1>7. CASE Handler /\ ~Panic
  BY <1>2, <1>7 DEF Handler, TakeCommand, SendList, ReadBody, ReadShort,
    ReadFails, SendImport, SendFails, Grant
<1> QED BY <1>3, <1>4, <1>5, <1>6, <1>7 DEF Next

(* A device_busy that is set behind do_recv's back takes it to the URB loop *)
(* after the command it may still read, if the connection lasts: it does    *)
(* not wait for another one, and no other task holds it back.               *)
THEOREM BusyProgress == Spec => BusyDrains
<1>1. [Next]_vars =>
        [device_busy /\ device_busy' /\ ToUrbs > 0 =>
           /\ ToUrbs' \in 0..ToUrbs
           /\ Receive => ToUrbs' < ToUrbs]_vars
  <2> SUFFICES ASSUME [Next]_vars, device_busy, device_busy', ToUrbs > 0
               PROVE  ToUrbs' \in 0..ToUrbs /\ (Receive => ToUrbs' < ToUrbs)
    OBVIOUS
  <2>1. CASE Receive
    BY <2>1, ReceiveToUrbs
  <2>2. CASE ~Receive
    BY <2>2, OthersToUrbs
  <2> QED BY <2>1, <2>2
<1> QED BY <1>1, PTL DEF Spec, BusyDrains

-----------------------------------------------------------------------------
(* The connection's life.  Commands are sent on one connection after the    *)
(* other, nothing on the same one after an import, and handler 1 treats as  *)
(* an import what is one: so the imports that are pending are ordered by    *)
(* their connections too.                                                   *)

Numbered ==
  /\ \A i, j \in 1..Last : i < j =>
       /\ reqs[i].conn <= reqs[j].conn
       /\ reqs[i].cmd = "IMPORT" => reqs[i].conn < reqs[j].conn
  /\ h.pc \in {"import", "reply", "grant"} => reqs[h.req].cmd = "IMPORT"

Importing == {q \in Posted \cup Finishing : reqs[q].cmd = "IMPORT"}

LEMMA InitNumbered == Init => Numbered
BY DEF Init, Numbered, Last, Idle

LEMMA ConnsKnown ==
  ASSUME Typed
  PROVE  conn \in Nat /\ \A i \in 1..Last : reqs[i].conn \in Nat
<1>1. MaxConn \in Nat /\ conn \in 0..MaxConn /\ reqs \in Seq(Command)
  BY ConstantsAssumption DEF Typed, TypeOK
<1>2. \A i \in 1..Last : reqs[i] \in Command
  BY <1>1 DEF Last
<1>3. \A e \in Command : e.conn \in Nat
  BY <1>1 DEF Command, Conns
<1>4. conn \in Nat
  BY <1>1
<1> QED BY <1>2, <1>3, <1>4

LEMMA StepNumberedSend == Typed /\ Numbered /\ ClientSend => Numbered'
<1> SUFFICES ASSUME Typed, Numbered, ClientSend PROVE Numbered'
  OBVIOUS
<1> DEFINE n == Last
<1>1. PICK c \in {"DEVLIST", "IMPORT"}, g \in BOOLEAN :
        reqs' = Append(reqs, [cmd |-> c, good |-> g, conn |-> conn])
  BY DEF ClientSend
<1>2. /\ reqs \in Seq(Command) /\ n \in Nat /\ conn \in Nat
      /\ \A i \in 1..n : reqs[i].conn \in Nat
  BY ConnsKnown, LastType DEF Typed, TypeOK
<1>3. /\ Last' = n + 1 /\ reqs'[n + 1].conn = conn
      /\ \A i \in 1..n : reqs'[i] = reqs[i]
  BY <1>1, <1>2 DEF Last
<1>4. n > 0 => reqs[n].conn <= conn
  BY DEF Typed, Located
<1>5. n > 0 /\ reqs[n].cmd = "IMPORT" => reqs[n].conn # conn
  BY DEF ClientSend, Mine
<1> HIDE DEF n
<1>6. ASSUME NEW i \in 1..n
      PROVE  /\ reqs[i].conn <= conn
             /\ reqs[i].cmd = "IMPORT" => reqs[i].conn < conn
  <2>1. n \in 1..n /\ n > 0 /\ i \in Nat
    BY <1>2
  <2>2. CASE i = n
    BY <1>2, <1>4, <1>5, <2>1, <2>2
  <2>3. CASE i # n
    <3>1. i < n
      BY <1>2, <2>3
    <3>2. /\ reqs[i].conn <= reqs[n].conn
          /\ reqs[i].cmd = "IMPORT" => reqs[i].conn < reqs[n].conn
      BY <2>1, <3>1 DEF Numbered, n
    <3> QED BY <1>2, <1>4, <2>1, <3>2
  <2> QED BY <2>2, <2>3
<1>7. ASSUME NEW i \in 1..(n + 1), NEW j \in 1..(n + 1), i < j
      PROVE  /\ reqs'[i].conn <= reqs'[j].conn
             /\ reqs'[i].cmd = "IMPORT" => reqs'[i].conn < reqs'[j].conn
  <2>1. i \in 1..n
    BY <1>2, <1>7
  <2>2. CASE j = n + 1
    BY <1>3, <1>6, <2>1, <2>2
  <2>3. CASE j # n + 1
    <3>1. j \in 1..n
      BY <1>2, <2>3
    <3>2. /\ reqs[i].conn <= reqs[j].conn
          /\ reqs[i].cmd = "IMPORT" => reqs[i].conn < reqs[j].conn
      BY <1>7, <2>1, <3>1 DEF Numbered, n
    <3> QED BY <1>3, <2>1, <3>1, <3>2
  <2> QED BY <2>2, <2>3
<1>8. h.pc \in {"import", "reply", "grant"} => reqs'[h.req].cmd = "IMPORT"
  <2>1. h.pc \in {"import", "reply", "grant"} => h.req \in 1..n
    BY DEF Typed, Located, n
  <2> QED BY <1>3, <2>1 DEF Numbered
<1>9. h' = h
  BY DEF ClientSend
<1> QED BY <1>3, <1>7, <1>8, <1>9 DEF Numbered

LEMMA StepNumbered == Typed /\ Numbered /\ [Next]_vars => Numbered'
<1> SUFFICES ASSUME Typed, Numbered, [Next]_vars PROVE Numbered'
  OBVIOUS
<1> USE DEF clientVars, tcpVars
<1>1. CASE ClientSend
  BY <1>1, StepNumberedSend
<1>2. ASSUME reqs' = reqs,
             \/ h' = h
             \/ h'.pc \notin {"import", "reply", "grant"}
             \/ h'.req = h.req /\ h.pc \in {"import", "reply", "grant"}
             \/ reqs[h'.req].cmd = "IMPORT"
      PROVE  Numbered'
  BY <1>2 DEF Numbered, Last
<1>3. CASE TakeCommand
  BY <1>2, <1>3 DEF TakeCommand
<1>4. CASE ReadBody \/ SendImport
  <2>1. h'.req = h.req /\ h.pc \in {"import", "reply", "grant"}
    BY <1>4 DEF ReadBody, SendImport, Typed, TypeOK, Handling
  <2> QED BY <1>2, <1>4, <2>1 DEF ReadBody, SendImport
<1>5. CASE SendList \/ ReadShort \/ ReadFails \/ Panic \/ SendFails \/ Grant
  <2>1. h' = Idle /\ reqs' = reqs
    BY <1>5 DEF SendList, AfterList, ReadShort, ReadFails, Panic, SendFails, GiveUp,
                Grant
  <2> QED BY <1>2, <2>1 DEF Idle
<1>6. CASE ClientBody \/ ClientClose \/ ClientReset \/ Accept \/ PostFails \/ Class
  BY <1>2, <1>6 DEF ClientBody, ClientClose, ClientReset, Accept, PostFails,
    Class, Describe, DeviceExit
<1>7. CASE Receive
  BY <1>2, <1>7 DEF Receive, EnterRecv, EnterUrbLoop, RecvCommand, RecvInvalid,
    RecvTimeout, RecvEnds, PostCommand, WaitEnds, UrbDrops, UrbEof, UrbError,
    Cleanup, Close
<1>8. CASE UNCHANGED vars
  BY <1>2, <1>8 DEF vars
<1> QED
  BY <1>1, <1>3, <1>4, <1>5, <1>6, <1>7, <1>8 DEF Next, Client, Handler

(* The connections of what is pending, in order.                            *)
LEMMA ImportsKnown ==
  ASSUME Typed, Ordered, Numbered
  PROVE  /\ \A q \in Posted \cup Finishing :
              q \in 1..Last /\ q \in Nat /\ reqs[q].conn \in Nat
         /\ \A p, q \in Importing : p < q => reqs[p].conn < reqs[q].conn
         /\ \A p \in Finishing, q \in Posted : p < q
         /\ \A p \in Finishing : p \in Importing
         /\ Finishing \subseteq Held /\ Last \in Nat
<1>0. Last \in Nat
  BY LastType
<1>1. Finishing \subseteq Held
  BY DEF Finishing, Held
<1>2. \A q \in Posted : q \in 1..Last
  <2>1. \A i \in DOMAIN queue : queue[i].req \in Reqs /\ queue[i].req <= Last
    <3>1. \A i \in DOMAIN queue : queue[i] \in Event /\ queue[i].req <= Last
      BY DEF Typed, TypeOK, Located
    <3> QED BY <3>1 DEF Event
  <2>2. \A r \in Reqs : r <= Last => r \in 1..Last
    BY <1>0 DEF Reqs
  <2> QED BY <2>1, <2>2 DEF Posted
<1>3. \A q \in Held : q \in 1..Last
  BY DEF Held, Typed, Located
<1>4. \A q \in Posted \cup Finishing :
        q \in 1..Last /\ q \in Nat /\ reqs[q].conn \in Nat
  BY <1>0, <1>1, <1>2, <1>3, ConnsKnown
<1>5. \A p, q \in Importing : p < q => reqs[p].conn < reqs[q].conn
  BY <1>4 DEF Importing, Numbered
<1>6. \A p \in Finishing, q \in Posted : p < q
  BY <1>1 DEF Ordered
<1>7. \A p \in Finishing : p \in Importing
  BY DEF Finishing, Importing, Numbered
<1> QED BY <1>0, <1>1, <1>4, <1>5, <1>6, <1>7

(* A step that changes nothing of what a connection is.                     *)
LEMMA ConnectionKept ==
  ASSUME Phase' = Phase, UNCHANGED <<conn, peer, device_busy, reqs>>,
         Importing' = Importing
  PROVE  UNCHANGED Connection!vars
<1>1. Asked = {reqs[r].conn : r \in Importing}
  BY DEF Asked, Importing
<1>2. Asked' = {reqs'[r].conn : r \in Importing'}
  BY DEF Asked, Importing
<1> QED BY <1>1, <1>2 DEF Connection!vars

(* An import is handed in while those before it are of earlier connections, *)
(* and handler 1 is done with the earliest.                                 *)
LEMMA AskStep ==
  ASSUME Typed, Ordered, Numbered, PostCommand
  PROVE  [Connection!Next]_(Connection!vars)
<1>1. /\ tcp = "post" /\ tcp' \in {"loop", "wait"}
      /\ UNCHANGED <<reqs, conn, peer, h, device_busy>>
  BY DEF PostCommand, AfterPost, clientVars, tcpVars
<1>2. Phase = "commands" /\ Phase' = "commands"
  BY <1>1 DEF Phase
<1>3. Posted' = Posted \cup {Last}
  <2>1. /\ DOMAIN queue = 1..Len(queue) /\ DOMAIN queue' = 1..(Len(queue) + 1)
        /\ Len(queue) \in Nat /\ queue'[Len(queue) + 1].req = Last
        /\ \A i \in 1..Len(queue) : queue'[i] = queue[i]
    BY DEF PostCommand, Typed, TypeOK
  <2>2. Posted' \subseteq Posted \cup {Last}
    BY <2>1 DEF Posted
  <2>3. Posted \subseteq Posted' /\ Last \in Posted'
    BY <2>1 DEF Posted
  <2> QED BY <2>2, <2>3
<1>4. Last \notin Posted \cup Finishing /\ Mine /\ Finishing' = Finishing
  <2>1. Last \in Received /\ Mine
    BY <1>1 DEF Received, Typed, Located
  <2>2. Last \notin Posted \cup Held
    BY <2>1 DEF Ordered
  <2> QED BY <1>1, <2>1, <2>2, ImportsKnown DEF Finishing
<1>5. CASE reqs[Last].cmd = "IMPORT"
  <2>1. Importing' = Importing \cup {Last}
    BY <1>1, <1>3, <1>4, <1>5 DEF Importing
  <2>2. ASSUME NEW q \in Importing PROVE reqs[q].conn # conn
    <3>1. q \in 1..Last /\ q # Last /\ Last \in Nat
      BY <1>4, ImportsKnown DEF Importing
    <3>2. q < Last /\ Last \in 1..Last
      <4> DEFINE n == Last
      <4>1. q \in 1..n /\ q # n /\ n \in Nat
        BY <3>1
      <4> HIDE DEF n
      <4>2. q < n /\ n \in 1..n
        BY <4>1
      <4> QED BY <4>2 DEF n
    <3>3. reqs[q].conn < reqs[Last].conn
      BY <3>1, <3>2 DEF Importing, Numbered
    <3>4. reqs[Last].conn = conn /\ conn \in Nat /\ reqs[q].conn \in Nat
      BY <1>4, <3>1, ConnsKnown DEF Mine
    <3> QED BY <3>3, <3>4
  <2>3. conn \notin Asked
    BY <2>2 DEF Asked, Importing
  <2>4. Asked' = Asked \cup {conn}
    <3>1. Asked = {reqs[r].conn : r \in Importing}
      BY DEF Asked, Importing
    <3>2. Asked' = {reqs[r].conn : r \in Importing \cup {Last}}
      BY <1>1, <2>1 DEF Asked, Importing
    <3> QED BY <1>4, <3>1, <3>2 DEF Mine
  <2>5. Connection!Ask
    BY <1>1, <1>2, <2>3, <2>4 DEF Connection!Ask
  <2> QED BY <2>5 DEF Connection!Next
<1>6. CASE reqs[Last].cmd # "IMPORT"
  <2>1. Importing' = Importing
    BY <1>1, <1>3, <1>4, <1>6 DEF Importing
  <2> QED BY <1>1, <1>2, <2>1, ConnectionKept
<1> QED BY <1>5, <1>6

LEMMA FinishStep ==
  ASSUME Typed, Ordered, Numbered, h.pc \in {"import", "reply", "grant"},
         h'.pc = "idle", UNCHANGED <<reqs, tcp, conn, queue>>, EndTold,
         device_busy' = device_busy \/ (peer' = peer /\ device_busy' = TRUE)
  PROVE  Connection!Next
<1> DEFINE r == h.req
           c == reqs[r].conn
<1>1. Finishing = {r} /\ Finishing' = {} /\ Posted' = Posted
  BY DEF Finishing, Posted
<1>2. /\ r \in Importing /\ r \in Nat /\ c \in Nat
      /\ \A q \in Importing : q \in Nat /\ reqs[q].conn \in Nat
      /\ \A q \in Importing : q # r => r < q /\ c < reqs[q].conn
  <2>1. r \in Importing /\ \A q \in Importing : q \in Nat /\ reqs[q].conn \in Nat
    BY <1>1, ImportsKnown DEF Importing
  <2>2. \A q \in Importing : q # r => r < q
    BY <1>1, ImportsKnown DEF Importing
  <2> QED BY <2>1, <2>2, ImportsKnown
<1>3. r \notin Posted
  BY <1>1, <1>2, ImportsKnown
<1>4. Importing' = Importing \ {r}
  BY <1>1, <1>3 DEF Importing
<1> HIDE DEF r
<1>5. Asked = {reqs[q].conn : q \in Importing}
  BY DEF Asked, Importing
<1>6. Asked' = {reqs[q].conn : q \in Importing \ {r}}
  BY <1>4 DEF Asked, Importing
<1>7. c \in Asked /\ \A d \in Asked : c <= d
  BY <1>2, <1>5
<1>8. Asked' = Asked \ {c}
  BY <1>2, <1>5, <1>6
<1>9. Phase' = Phase
  BY DEF Phase
<1>10. Connection!Finish
  BY <1>7, <1>8, <1>9
  DEF Connection!Finish, Connection!Oldest, Connection!Read, EndTold
<1> QED BY <1>10 DEF Connection!Next

LEMMA StepConnectionReceive ==
  ASSUME Typed, Ordered, Numbered, Client \/ Accept \/ Receive \/ PostFails
  PROVE  [Connection!Next]_(Connection!vars)
<1> USE DEF clientVars, tcpVars
<1>1. /\ tcp \in {"loop", "recv", "post", "wait"} => Phase = "commands"
      /\ tcp = "urb" => Phase = "urbs"
      /\ tcp \in {"accept", "cleanup", "close"} => Phase = tcp
  BY DEF Phase
<1>2. /\ tcp' \in {"loop", "recv", "post", "wait"} => Phase' = "commands"
      /\ tcp' = "urb" => Phase' = "urbs"
      /\ tcp' \in {"accept", "cleanup", "close"} => Phase' = tcp'
  BY DEF Phase
<1>3. tcp' = tcp => Phase' = Phase
  BY DEF Phase
<1>4. reqs' = reqs /\ queue' = queue /\ h' = h
        => Importing' = Importing /\ Asked' = Asked
  BY DEF Importing, Asked, Posted, Finishing
<1>5. ASSUME UNCHANGED <<reqs, queue, h, conn, peer, device_busy>>,
             \/ tcp' = tcp
             \/ /\ tcp \in {"loop", "recv", "post", "wait"}
                /\ tcp' \in {"loop", "recv", "post", "wait"}
      PROVE  [Connection!Next]_(Connection!vars)
  <2>1. Phase' = Phase
    BY <1>1, <1>2, <1>3, <1>5
  <2> QED BY <1>4, <1>5, <2>1, ConnectionKept
<1>6. CASE ClientSend
  <2>1. /\ UNCHANGED <<tcp, conn, peer, queue, h, device_busy>>
        /\ \A r \in 1..Last : reqs'[r] = reqs[r]
    <3>1. PICK c \in {"DEVLIST", "IMPORT"}, g \in BOOLEAN :
            reqs' = Append(reqs, [cmd |-> c, good |-> g, conn |-> conn])
      BY <1>6 DEF ClientSend
    <3>2. \A r \in 1..Len(reqs) : reqs'[r] = reqs[r]
      BY <3>1 DEF Typed, TypeOK
    <3> QED BY <1>6, <3>2 DEF ClientSend, Last
  <2>2. Posted' = Posted /\ Finishing' = Finishing
    BY <2>1 DEF Posted, Finishing
  <2>3. \A r \in Posted \cup Finishing : reqs'[r] = reqs[r]
    BY <2>1, ImportsKnown
  <2>4. Importing' = Importing
    BY <2>2, <2>3 DEF Importing
  <2>5. Asked' = Asked
    <3>1. Asked = {reqs[r].conn : r \in Importing}
      BY DEF Asked, Importing
    <3>2. Asked' = {reqs'[r].conn : r \in Importing}
      BY <2>4 DEF Asked, Importing
    <3>3. \A r \in Importing : reqs'[r] = reqs[r]
      BY <2>3 DEF Importing
    <3> QED BY <3>1, <3>2, <3>3
  <2> QED BY <1>3, <2>1, <2>5 DEF Connection!vars
<1>7. CASE ClientBody
  BY <1>5, <1>7 DEF ClientBody
<1>8. CASE ClientClose \/ ClientReset
  <2>1. Connection!Leave
    BY <1>3, <1>4, <1>8 DEF ClientClose, ClientReset, Connection!Leave
  <2> QED BY <2>1 DEF Connection!Next
<1>9. CASE Accept
  <2>1. Connection!Accept
    BY <1>1, <1>2, <1>4, <1>9 DEF Accept, Connection!Accept
  <2> QED BY <2>1 DEF Connection!Next
<1>10. CASE EnterUrbLoop
  <2>1. Connection!ReadUrbs
    BY <1>1, <1>2, <1>4, <1>10 DEF EnterUrbLoop, Connection!ReadUrbs
  <2> QED BY <2>1 DEF Connection!Next
<1>11. CASE \/ EnterRecv \/ RecvCommand \/ RecvInvalid \/ RecvTimeout
            \/ WaitEnds \/ UrbDrops
  BY <1>5, <1>11 DEF EnterRecv, RecvCommand, RecvInvalid, RecvTimeout,
    TimeoutTo, WaitEnds, AfterWait, UrbDrops
<1>12. CASE PostFails
  BY <1>5, <1>12 DEF PostFails, AfterPost
<1>13. CASE PostCommand
  BY <1>13, AskStep
<1>14. CASE RecvEnds
  <2>1. Connection!EndOfCommands
    BY <1>1, <1>2, <1>4, <1>14
    DEF RecvEnds, LoopExit, Failing, Connection!EndOfCommands, Connection!Ended
  <2> QED BY <2>1 DEF Connection!Next
<1>15. CASE UrbEof \/ UrbError
  <2>1. Connection!EndOfUrbs
    BY <1>1, <1>2, <1>4, <1>15
    DEF UrbEof, UrbError, Failing, BusyAfterEof, Connection!EndOfUrbs,
        Connection!Ended, Connection!Read
  <2> QED BY <2>1 DEF Connection!Next
<1>16. CASE Cleanup
  <2>1. Connection!Cleanup
    BY <1>1, <1>2, <1>4, <1>16 DEF Cleanup, Connection!Cleanup
  <2> QED BY <2>1 DEF Connection!Next
<1>17. CASE Close
  <2>1. Connection!Close
    BY <1>1, <1>2, <1>4, <1>17 DEF Close, Connection!Close
  <2> QED BY <2>1 DEF Connection!Next
<1> QED
  BY <1>6, <1>7, <1>8, <1>9, <1>10, <1>11, <1>12, <1>13, <1>14, <1>15, <1>16,
     <1>17 DEF Client, Receive

LEMMA StepConnectionHandler ==
  ASSUME Typed, Ordered, Numbered, Handler \/ Class
  PROVE  [Connection!Next]_(Connection!vars)
<1> USE DEF clientVars, tcpVars
<1>1. tcp' = tcp => Phase' = Phase
  BY DEF Phase
<1>2. ASSUME UNCHANGED <<reqs, tcp, conn, peer, device_busy>>,
             Posted' \cup Finishing' \subseteq Posted \cup Finishing,
             \A q \in (Posted \cup Finishing) \ (Posted' \cup Finishing') :
               reqs[q].cmd # "IMPORT"
      PROVE  [Connection!Next]_(Connection!vars)
  <2>1. Importing' = Importing
    BY <1>2 DEF Importing
  <2> QED BY <1>1, <1>2, <2>1, ConnectionKept
<1>3. CASE TakeCommand
  <2>1. /\ h.pc = "idle" /\ Posted = Posted' \cup {h'.req}
        /\ UNCHANGED <<reqs, tcp, conn, peer, device_busy>>
        /\ h'.pc = IF reqs[h'.req].cmd = "IMPORT" THEN "import" ELSE "devlist"
    BY <1>3, QueueTaken DEF TakeCommand
  <2>2. /\ Finishing = {}
        /\ Finishing' = IF reqs[h'.req].cmd = "IMPORT" THEN {h'.req} ELSE {}
    BY <2>1 DEF Finishing
  <2> QED BY <1>2, <2>1, <2>2
<1>4. CASE SendList
  <2>1. Finishing = {} /\ Finishing' = {} /\ Posted' = Posted
    BY <1>4 DEF SendList, AfterList, Finishing, Idle, Posted
  <2> QED BY <1>2, <1>4, <2>1 DEF SendList
<1>5. CASE ReadBody \/ SendImport
  <2>1. h'.req = h.req /\ h.pc \in {"import", "reply"} /\ h'.pc \in {"reply", "grant"}
    BY <1>5 DEF ReadBody, SendImport, Typed, TypeOK, Handling
  <2>2. Finishing' = Finishing /\ Posted' = Posted
    BY <1>5, <2>1 DEF Finishing, Posted, ReadBody, SendImport
  <2> QED BY <1>2, <1>5, <2>2 DEF ReadBody, SendImport
<1>6. CASE ReadShort \/ ReadFails \/ Grant
  <2>1. h'.pc = "idle" /\ h.pc \in {"import", "grant"}
    BY <1>6 DEF ReadShort, ReadFails, NoBody, Grant, Idle
  <2>2. Connection!Next
    BY <1>6, <2>1, FinishStep DEF ReadShort, ReadFails, Grant, EndTold
  <2> QED BY <2>2
<1>7. CASE SendFails
  <2>1. h'.pc = "idle" /\ UNCHANGED <<reqs, tcp, conn, peer, queue, device_busy>>
    BY <1>7 DEF SendFails, GiveUp, Idle
  <2>2. CASE h.pc = "reply"
    BY <2>1, <2>2, FinishStep DEF EndTold
  <2>3. CASE h.pc = "devlist"
    <3>1. Finishing = {} /\ Finishing' = {} /\ Posted' = Posted
      BY <2>1, <2>3 DEF Finishing, Posted
    <3> QED BY <1>2, <2>1, <3>1
  <2> QED BY <1>7, <2>2, <2>3 DEF SendFails
<1>8. CASE Panic
  <2>1. Phase' = "accept" /\ Asked' = {} /\ peer' = "none" /\ conn' = conn
        /\ device_busy' = FALSE
    BY <1>8 DEF Panic, Phase, Asked, Posted, Finishing, Idle
  <2>2. Connection!Reset
    BY <2>1 DEF Connection!Reset
  <2> QED BY <2>2 DEF Connection!Next
<1>9. CASE Describe
  <2>1. Posted' = Posted /\ Finishing' = Finishing
    BY <1>9 DEF Describe, Posted, Finishing
  <2> QED BY <1>2, <1>9, <2>1 DEF Describe
<1>10. CASE DeviceExit
  <2>1. Asked' = Asked
    BY <1>10 DEF DeviceExit, Asked, Posted, Finishing
  <2>2. Connection!Unplug
    BY <1>1, <1>10, <2>1 DEF DeviceExit, Connection!Unplug
  <2> QED BY <2>2 DEF Connection!Next
<1> QED
  BY <1>3, <1>4, <1>5, <1>6, <1>7, <1>8, <1>9, <1>10 DEF Handler, Class

(* A connection has one import pending at most, imports are finished in the *)
(* order of their connections although do_recv gives up waiting for them,   *)
(* device_busy comes from them alone, and the connection is read for URBs   *)
(* behind it and until its end only: this module implements the contract    *)
(* that it shares with UrbPath.                                             *)
THEOREM ConnectionImplemented == Spec => ImplementsConnection
<1>1. Init => Connection!Init
  BY DEF Init, Connection!Init, Phase, Asked, Posted, Finishing, Idle
<1>2. IInv /\ Numbered /\ [Next]_vars => [Connection!Next]_(Connection!vars)
  <2> SUFFICES ASSUME IInv, Numbered, [Next]_vars
      PROVE [Connection!Next]_(Connection!vars)
    OBVIOUS
  <2>1. CASE UNCHANGED vars
    BY <2>1 DEF vars, clientVars, tcpVars, Connection!vars, Phase, Asked, Posted,
                Finishing
  <2> QED BY <2>1, StepConnectionReceive, StepConnectionHandler DEF Next, IInv
<1>3. Init => IInv
  BY InitTyped, InitOrdered, InitKinds DEF IInv
<1>4. IInv /\ [Next]_vars => IInv'
  BY StepTyped, StepOrdered, StepKinds DEF IInv
<1>5. IInv /\ Numbered /\ [Next]_vars => Numbered'
  BY StepNumbered DEF IInv
<1> QED
  BY InitNumbered, <1>1, <1>2, <1>3, <1>4, <1>5, PTL
  DEF Spec, ImplementsConnection, Connection!Spec
=============================================================================
