---------------------------- MODULE CommandPhase ----------------------------
(***************************************************************************)
(* The command phase of the repeater: OP_REQ_DEVLIST and OP_REQ_IMPORT,    *)
(* from the client's write to the reply, and to device_busy, which takes   *)
(* do_recv into the URB phase.                                             *)
(*                                                                         *)
(* Two tasks read one connection.  do_recv, in the TCP server task, reads  *)
(* the header of a command and posts it; the event-loop task of            *)
(* loop_handle (_usb_ip_event_handler_1) reads the rest of an import,      *)
(* replies, and sets device_busy.  do_recv waits for that for one second   *)
(* and then reads on, whether handler 1 is done or not; so a body may be   *)
(* torn between the two readers, and device_busy may be set late, under a  *)
(* connection that has ended or is the next client's.                      *)
(*                                                                         *)
(* Bytes are counted in units of a header: a command is its header and, if *)
(* it is an import, BodyUnits more.  A header is taken to arrive whole.    *)
(* Commands are known by the order in which the clients sent them.         *)
(***************************************************************************)
EXTENDS Integers, Sequences

CONSTANTS
  MaxReq,     \* bound on the commands sent, over all connections
  MaxConn,    \* bound on the connections accepted
  Fds,        \* lwIP socket descriptors
  BodyUnits,  \* length of the bus id, in headers (4 in the code)
  QueueSize   \* capacity of loop_handle's queue (100 in the code)

ASSUME ConstantsAssumption ==
  /\ MaxReq \in Nat
  /\ MaxConn \in Nat
  /\ Fds \subseteq Nat \ {0}
  /\ BodyUnits \in Nat /\ BodyUnits > 1
  /\ QueueSize \in Nat \ {0}

VARIABLES
  \* The clients and the network.
  reqs,        \* history: every command sent, in order
  written,     \* units the client has written of its last command
  taken,       \* and how many of them either reader has received
  peer,        \* the client's end of the current connection: "shut" when it
               \* is closed and recv() has returned 0, as it does only once
  answers,     \* history: the replies written, in order
  owner,       \* which connection a descriptor stands for; 0 is none
  \* The TCP server task.
  tcp,         \* where the task is
  conn,        \* connections accepted so far; the last one is current
  sock,        \* its descriptor, -1 when closed
  \* Handler 1.
  queue,       \* the event queue of loop_handle
  h,           \* where the handler is, and with which command
  \* Shared.
  described,   \* dev_desc and config_desc have been set
  device_busy

clientVars == <<reqs, written, peer>>
tcpVars    == <<conn, sock, owner>>
vars == <<clientVars, taken, answers, tcp, tcpVars, queue, h, described,
          device_busy>>

Reqs    == 1..MaxReq
Conns   == 1..MaxConn
Command == [cmd : {"DEVLIST", "IMPORT"}, good : BOOLEAN, conn : Conns]
Event   == [req : Reqs, sock : Fds]
Reply   == [req : Reqs, conn : Conns, ok : BOOLEAN]
Handling == [pc : {"idle", "devlist", "import", "reply", "grant"},
             req : 0..MaxReq, sock : Fds \cup {-1}, conn : 0..MaxConn,
             ok : BOOLEAN]
Idle == [pc |-> "idle", req |-> 0, sock |-> -1, conn |-> 0, ok |-> FALSE]

Last == Len(reqs)                         \* the last command sent
Mine == Last > 0 /\ reqs[Last].conn = conn  \* by the current client
Size(r) == IF reqs[r].cmd = "IMPORT" THEN 1 + BodyUnits ELSE 1
Available == written - taken              \* units that recv() may return
Failing == peer \in {"shut", "rst"}        \* recv() fails with nothing left
Answered(r) == \E i \in DOMAIN answers : answers[i].req = r

Init ==
  /\ reqs = <<>> /\ answers = <<>> /\ queue = <<>>
  /\ written = 0 /\ taken = 0 /\ peer = "none"
  /\ owner = [f \in Fds |-> 0]
  /\ tcp = "accept" /\ conn = 0 /\ sock = -1
  /\ h = Idle
  /\ described = FALSE /\ device_busy = FALSE

-----------------------------------------------------------------------------
(* The clients.  A client sends one command at a time, and a further one on *)
(* the same connection only after a device list; what follows an import is  *)
(* the URB phase.  It writes the body of an import after its header, and    *)
(* may close, or lose the connection, at any point of it.                   *)

ClientSend ==
  /\ peer = "up" /\ Last < MaxReq
  /\ Mine => reqs[Last].cmd = "DEVLIST" /\ Answered(Last)
  /\ \E c \in {"DEVLIST", "IMPORT"}, g \in BOOLEAN :
       /\ c = "DEVLIST" => g
       /\ reqs' = Append(reqs, [cmd |-> c, good |-> g, conn |-> conn])
  /\ written' = 1 /\ taken' = 0
  /\ UNCHANGED <<peer, answers, tcp, tcpVars, queue, h, described,
                 device_busy>>

ClientBody ==
  /\ peer = "up" /\ Mine /\ written < Size(Last)
  /\ written' = written + 1
  /\ UNCHANGED <<reqs, peer, taken, answers, tcp, tcpVars, queue, h,
                 described, device_busy>>

ClientClose ==
  /\ peer = "up"
  /\ peer' = "fin"
  /\ UNCHANGED <<reqs, written, taken, answers, tcp, tcpVars, queue, h,
                 described, device_busy>>

(* What has not been received may be lost with the connection.              *)
ClientReset ==
  /\ peer \in {"up", "fin", "shut"}
  /\ peer' = "rst"
  /\ written' \in {written, taken}
  /\ UNCHANGED <<reqs, taken, answers, tcp, tcpVars, queue, h, described,
                 device_busy>>

-----------------------------------------------------------------------------
(* The TCP server task.                                                     *)

Accept ==
  /\ tcp = "accept" /\ conn < MaxConn
  /\ \E fd \in Fds :
       /\ owner[fd] = 0
       /\ sock' = fd
       /\ owner' = [owner EXCEPT ![fd] = conn + 1]
  /\ conn' = conn + 1
  /\ peer' = "up"
  /\ written' = 0 /\ taken' = 0
  /\ tcp' = "loop"
  /\ UNCHANGED <<reqs, answers, queue, h, described, device_busy>>

(* do_recv reads device_busy at the top of its loop; then it waits in       *)
(* recv(), whatever becomes of the flag.                                    *)
EnterRecv ==
  /\ tcp = "loop" /\ ~device_busy
  /\ tcp' = "recv"
  /\ UNCHANGED <<clientVars, taken, answers, tcpVars, queue, h, described,
                 device_busy>>

EnterUrbLoop ==
  /\ tcp = "loop" /\ device_busy
  /\ tcp' = "urb"
  /\ UNCHANGED <<clientVars, taken, answers, tcpVars, queue, h, described,
                 device_busy>>

RecvCommand ==
  /\ tcp = "recv" /\ Available > 0 /\ taken = 0
  /\ taken' = 1
  /\ tcp' = "post"
  /\ UNCHANGED <<clientVars, answers, tcpVars, queue, h, described,
                 device_busy>>

(* Part of an import's body is taken for a header: it has no valid version. *)
RecvInvalid ==
  /\ tcp = "recv" /\ Available > 0 /\ taken > 0
  /\ taken' = taken + 1
  /\ tcp' = "loop"
  /\ UNCHANGED <<clientVars, answers, tcpVars, queue, h, described,
                 device_busy>>

(* SO_RCVTIMEO: 30 seconds with nothing to receive, and back to the top.    *)
TimeoutIgnored == "recv"
TimeoutTo      == "loop"

RecvTimeout ==
  /\ tcp = "recv" /\ Available = 0 /\ peer = "up"
  /\ tcp' = TimeoutTo
  /\ UNCHANGED <<clientVars, taken, answers, tcpVars, queue, h, described,
                 device_busy>>

(* recv() returns 0 or an error in the command loop: it ends, and with it   *)
(* what do_recv reads of the connection.                                    *)
BackToLoop == "loop"
LoopExit   == "cleanup"

RecvEnds ==
  /\ tcp = "recv" /\ Available = 0 /\ (peer = "fin" \/ Failing)
  /\ tcp' = LoopExit
  /\ UNCHANGED <<clientVars, taken, answers, tcpVars, queue, h, described,
                 device_busy>>

(* The post blocks while the queue is full.  After an import do_recv waits  *)
(* for device_busy, also when the post has failed.                          *)
AfterPost == IF reqs[Last].cmd = "IMPORT" THEN "wait" ELSE "loop"
RoomOffByOne == Len(queue) <= QueueSize
Room         == Len(queue) < QueueSize

PostCommand ==
  /\ tcp = "post" /\ Room
  /\ queue' = Append(queue, [req |-> Last, sock |-> sock])
  /\ tcp' = AfterPost
  /\ UNCHANGED <<clientVars, taken, answers, tcpVars, h, described,
                 device_busy>>

PostFails ==
  /\ tcp = "post"
  /\ tcp' = AfterPost
  /\ UNCHANGED <<clientVars, taken, answers, tcpVars, queue, h, described,
                 device_busy>>

(* device_busy is set, or a second has passed.                              *)
PostAgain == "post"
AfterWait == "loop"

WaitEnds ==
  /\ tcp = "wait"
  /\ tcp' = AfterWait
  /\ UNCHANGED <<clientVars, taken, answers, tcpVars, queue, h, described,
                 device_busy>>

(* In the URB loop a command is not known: it is read and dropped.          *)
UrbDrops ==
  /\ tcp = "urb" /\ Available > 0
  /\ taken' = taken + 1
  /\ UNCHANGED <<clientVars, answers, tcp, tcpVars, queue, h, described,
                 device_busy>>

BusyKept     == device_busy
BusyAfterEof == FALSE

UrbEof ==
  /\ tcp = "urb" /\ Available = 0 /\ peer = "fin"
  /\ device_busy' = BusyAfterEof
  /\ peer' = "shut"
  /\ tcp' = "loop"
  /\ UNCHANGED <<reqs, written, taken, answers, tcpVars, queue, h, described>>

(* The error case leaves the inner loop only, with device_busy still set.   *)
UrbError ==
  /\ tcp = "urb" /\ Available = 0 /\ Failing
  /\ tcp' = "loop"
  /\ UNCHANGED <<clientVars, taken, answers, tcpVars, queue, h, described,
                 device_busy>>

Cleanup ==
  /\ tcp = "cleanup"
  /\ device_busy' = FALSE
  /\ tcp' = "close"
  /\ UNCHANGED <<clientVars, taken, answers, tcpVars, queue, h, described>>

Close ==
  /\ tcp = "close"
  /\ owner' = [owner EXCEPT ![sock] = 0]
  /\ sock' = -1
  /\ peer' = "none"
  /\ tcp' = "accept"
  /\ UNCHANGED <<reqs, written, taken, answers, conn, queue, h, described,
                 device_busy>>

-----------------------------------------------------------------------------
(* Handler 1.  Its recv() belongs to the connection that the descriptor     *)
(* stands for when the call begins: lwIP ends it when that one is closed.   *)

TakeCommand ==
  /\ h.pc = "idle" /\ queue # <<>>
  /\ LET e == Head(queue) IN
       h' = [pc   |-> IF reqs[e.req].cmd = "IMPORT" THEN "import" ELSE "devlist",
             req  |-> e.req, sock |-> e.sock, conn |-> owner[e.sock],
             ok   |-> described]
  /\ queue' = Tail(queue)
  /\ UNCHANGED <<clientVars, taken, answers, tcp, tcpVars, described,
                 device_busy>>

CanSend == owner[h.sock] # 0 /\ peer # "rst"
Sent == answers' = Append(answers, [req  |-> h.req, conn |-> owner[h.sock],
                                    ok   |-> h.ok])

(* An empty list, or the list of the one device.                            *)
GrantList == [h EXCEPT !.pc = "grant"]
AfterList == Idle

SendList ==
  /\ h.pc = "devlist" /\ CanSend
  /\ Sent
  /\ h' = AfterList
  /\ UNCHANGED <<clientVars, taken, tcp, tcpVars, queue, described,
                 device_busy>>

(* recv() takes what there is of the body.  The whole of it is compared     *)
(* with the bus id: a header that was not read first spoils it.             *)
Live == h.conn # 0 /\ owner[h.sock] = h.conn
Named == taken = 1 /\ reqs[Last].good

ReadBody ==
  /\ h.pc = "import" /\ Live /\ Available >= BodyUnits
  /\ Named => described
  /\ taken' = taken + BodyUnits
  /\ h' = [h EXCEPT !.pc = "reply", !.ok = Named]
  /\ UNCHANGED <<clientVars, answers, tcp, tcpVars, queue, described,
                 device_busy>>

ReadShort ==
  /\ h.pc = "import" /\ Live /\ Available \in 1..(BodyUnits - 1)
  /\ taken' = written
  /\ h' = Idle
  /\ UNCHANGED <<clientVars, answers, tcp, tcpVars, queue, described,
                 device_busy>>

(* Time out, end of the connection, or an error.  The client's end, which   *)
(* recv() returns once, may be read here.                                   *)
WaitsForBody == h.pc = "import" /\ ~Live
NoBody       == h.pc = "import" /\ (Live => Available = 0)

ReadFails ==
  /\ NoBody
  /\ h' = Idle
  /\ peer' = IF Live /\ peer = "fin" THEN "shut" ELSE peer
  /\ UNCHANGED <<reqs, written, taken, answers, tcp, tcpVars, queue, described,
                 device_busy>>

(* The reply to an import is filled from a descriptor that is a null        *)
(* pointer before a device has been described: the chip panics and resets.  *)
Panic ==
  /\ h.pc = "import" /\ Live /\ Available >= BodyUnits /\ Named /\ ~described
  /\ written' = 0 /\ taken' = 0 /\ peer' = "none"
  /\ owner' = [f \in Fds |-> 0]
  /\ tcp' = "accept" /\ sock' = -1
  /\ queue' = <<>> /\ h' = Idle
  /\ device_busy' = FALSE
  /\ UNCHANGED <<reqs, answers, conn, described>>

(* Sent in full, also when it refuses the import.                           *)
SendImport ==
  /\ h.pc = "reply" /\ CanSend
  /\ Sent
  /\ h' = [h EXCEPT !.pc = "grant"]
  /\ UNCHANGED <<clientVars, taken, tcp, tcpVars, queue, described,
                 device_busy>>

GrantAnyway == IF h.pc = "reply" THEN [h EXCEPT !.pc = "grant"] ELSE Idle
GiveUp      == Idle

SendFails ==
  /\ h.pc \in {"devlist", "reply"}
  /\ h' = GiveUp
  /\ UNCHANGED <<clientVars, taken, answers, tcp, tcpVars, queue, described,
                 device_busy>>

Grant ==
  /\ h.pc = "grant"
  /\ device_busy' = TRUE
  /\ h' = Idle
  /\ UNCHANGED <<clientVars, taken, answers, tcp, tcpVars, queue, described>>

-----------------------------------------------------------------------------
(* The class task: UsbHost's GetDevDesc, GetConfigDesc and Exit.            *)

Describe ==
  /\ ~described
  /\ described' = TRUE
  /\ UNCHANGED <<clientVars, taken, answers, tcp, tcpVars, queue, h,
                 device_busy>>

DeviceExit ==
  /\ device_busy
  /\ device_busy' = FALSE
  /\ UNCHANGED <<clientVars, taken, answers, tcp, tcpVars, queue, h, described>>

-----------------------------------------------------------------------------
Client  == ClientSend \/ ClientBody \/ ClientClose \/ ClientReset
Receive == \/ EnterRecv \/ EnterUrbLoop \/ RecvCommand \/ RecvInvalid
           \/ RecvTimeout \/ RecvEnds \/ PostCommand \/ WaitEnds
           \/ UrbDrops \/ UrbEof \/ UrbError \/ Cleanup \/ Close
Handler == \/ TakeCommand \/ SendList \/ ReadBody \/ ReadShort \/ ReadFails
           \/ Panic \/ SendImport \/ SendFails \/ Grant
Class   == Describe \/ DeviceExit

Next == Client \/ Accept \/ Receive \/ PostFails \/ Handler \/ Class

Spec == Init /\ [][Next]_vars

(* do_recv and the event-loop task are always scheduled again, and no wait  *)
(* of theirs is without end: recv() times out after 30 seconds, the wait    *)
(* for device_busy after one.  Nothing is assumed of clients, of the class  *)
(* task, or of memory running out.                                          *)
FairSpec == Spec /\ WF_vars(Receive) /\ WF_vars(Handler)

-----------------------------------------------------------------------------
(* What is asked of it.                                                     *)

TypeOK ==
  /\ reqs \in Seq(Command) /\ Len(reqs) <= MaxReq
  /\ answers \in Seq(Reply)
  /\ written \in 0..(1 + BodyUnits) /\ taken \in 0..written
  /\ peer \in {"none", "up", "fin", "shut", "rst"}
  /\ owner \in [Fds -> 0..MaxConn]
  /\ tcp \in {"accept", "loop", "recv", "post", "wait", "urb", "cleanup",
              "close"}
  /\ conn \in 0..MaxConn
  /\ sock \in Fds \cup {-1}
  /\ queue \in Seq(Event) /\ Len(queue) <= QueueSize
  /\ h \in Handling
  /\ described \in BOOLEAN
  /\ device_busy \in BOOLEAN

(* Where a command waits: with the network, at the post, in the queue, with *)
(* the handler.                                                             *)
Unread   == IF peer # "none" /\ written > 0 /\ taken = 0 THEN {Last} ELSE {}
Received == IF tcp = "post" THEN {Last} ELSE {}
Posted   == {queue[i].req : i \in DOMAIN queue}
InHand   == IF h.pc \in {"devlist", "import", "reply"} THEN {h.req} ELSE {}
Waiting  == Unread \cup Received \cup Posted \cup InHand

Stage(r) ==
  IF r > Last THEN "unsent"
  ELSE IF r \in Waiting THEN "waiting"
  ELSE IF Answered(r) THEN "answered" ELSE "lost"

(* Commands are answered once and in order, and device_busy is earned by    *)
(* each answered import and by nothing else, although two tasks read the    *)
(* connection, do_recv gives up waiting, and descriptors are used again.    *)
Imports == {r \in 1..Last : reqs[r].cmd = "IMPORT"}
Service == INSTANCE CommandService WITH
             stage <- [r \in Reqs |-> Stage(r)], imports <- Imports,
             owed <- (h.pc = "grant")
ImplementsService == Service!Spec

(* The connection's life is what UrbPath says it is: an import is pending   *)
(* from its post to device_busy, or to where handler 1 gives it up.         *)
Phase == CASE tcp \in {"loop", "recv", "post", "wait"} -> "commands"
           [] tcp = "urb" -> "urbs" [] OTHER -> tcp
Finishing == IF h.pc \in {"import", "reply", "grant"} THEN {h.req} ELSE {}
Asked == {reqs[r].conn : r \in {q \in Posted \cup Finishing :
                                   reqs[q].cmd = "IMPORT"}}
Connection == INSTANCE ConnectionService WITH phase <- Phase, asked <- Asked
ImplementsConnection == Connection!Spec

(* Once the connection's end is there to be read, and after that as long as *)
(* device_busy is not set, do_recv and handler 1 have a bounded number of   *)
(* steps until the server accepts again, whatever the class task does: what *)
(* there is to receive, the commands that may set device_busy once more,    *)
(* the way out of the loops.  What ends this before is a connection that    *)
(* breaks, handler 1 reading the end, or its device_busy after the end.     *)
Place ==
  CASE tcp = "accept" -> 0 [] tcp = "close" -> 1 [] tcp = "cleanup" -> 2
    [] tcp = "recv" -> 3 [] tcp = "loop" /\ ~device_busy -> 4
    [] tcp = "urb" -> 5 [] tcp = "loop" /\ device_busy -> 6
    [] tcp = "wait" -> 7 [] OTHER -> 14
HandlerPlace ==
  CASE h.pc = "idle" -> 0 [] h.pc = "devlist" -> 1 [] h.pc = "grant" -> 3
    [] h.pc = "reply" -> 4 [] OTHER -> 5
Work == 12 * Available + Place + 6 * Len(queue) + HandlerPlace
Ending == peer = "fin" \/ (Failing /\ ~device_busy)
CloseDrains ==
  [][Ending => IF Ending' THEN /\ Work' \in 0..Work
                               /\ Receive \/ Handler => Work' < Work
               ELSE tcp' = "accept" \/ ClientReset \/ ReadFails \/ Grant]_vars

(* A command waits for a bounded number of steps of do_recv, until it is    *)
(* posted, and of handler 1, whoever else sends and whatever is posted      *)
(* behind it; the handler never waits for do_recv, although they read the   *)
(* same connection.                                                         *)
Behind(r) ==
  IF r \in Posted THEN CHOOSE i \in DOMAIN queue : queue[i].req = r
  ELSE IF r \in InHand THEN 0 ELSE Len(queue) + 1
ToPost(r) ==
  CASE r \in Received -> 1
    [] r \in Unread /\ tcp \in {"recv", "urb"} -> 2
    [] r \in Unread /\ tcp = "loop" -> 3
    [] r \in Unread /\ tcp = "wait" -> 4
    [] OTHER -> 0
WaitLeft(r) == 6 * Behind(r) + HandlerPlace + ToPost(r)
WaitingDrains ==
  [][\A r \in Reqs : r \in Waiting /\ r \in Waiting' =>
       /\ WaitLeft(r)' \in 0..WaitLeft(r)
       /\ Handler => WaitLeft(r)' < WaitLeft(r)
       /\ Receive /\ r \in Unread \cup Received => WaitLeft(r)' < WaitLeft(r)]_vars

(* From where a device_busy that comes late finds it, do_recv has at most   *)
(* four steps to the URB loop, or to the end of the connection, while the   *)
(* flag stays: it reads one command more and does not wait for the next,    *)
(* and nobody else takes it back.                                           *)
ToUrbs == CASE tcp = "recv" -> 4 [] tcp = "post" -> 3
            [] tcp \in {"wait", "cleanup"} -> 2
            [] tcp \in {"loop", "close"} -> 1 [] OTHER -> 0
BusyDrains ==
  [][device_busy /\ device_busy' /\ ToUrbs > 0 =>
       /\ ToUrbs' \in 0..ToUrbs
       /\ Receive => ToUrbs' < ToUrbs]_vars

(* A connection that ends, by a close or a reset, gives the server back,    *)
(* also when device_busy is set behind do_recv's back, unless that is after *)
(* the end has been read: then recv() fails, and do_recv does not leave.    *)
Spinning == tcp = "loop" /\ Failing /\ device_busy
CloseFreesServer ==
  (peer = "fin" \/ Failing) ~> (tcp = "accept" \/ Spinning)

(* No command waits for ever, and so neither does the handler: not for a    *)
(* body that does not come, nor do_recv for room in the queue behind it.    *)
NothingWaits == \A r \in Reqs : (r \in Waiting) ~> (r \notin Waiting)

(* device_busy, which do_recv reads before a wait in recv(), takes it to    *)
(* the URB loop however late it is set.                                     *)
BusyIsSeen == device_busy ~> (~device_busy \/ tcp \in {"urb", "accept"})
=============================================================================
