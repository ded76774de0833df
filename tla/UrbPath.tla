------------------------------ MODULE UrbPath ------------------------------
(***************************************************************************)
(* The URB phase of the repeater: what happens to a USBIP_CMD_SUBMIT (or   *)
(* CMD_UNLINK) from the moment a client writes it on its TCP connection to *)
(* the moment the reply is written and the transfer's memory is freed.     *)
(*                                                                         *)
(* Three tasks take part, and share device_busy, the endpoint flags and    *)
(* skt without any lock:                                                   *)
(*   - the TCP server task (tcp_server_start, do_recv): accepts one        *)
(*     connection at a time, reads requests and posts them to an event     *)
(*     loop, and cleans up when the connection ends;                       *)
(*   - the event-loop task of loop_handle2 (_usb_ip_event_handler_2):      *)
(*     allocates a transfer for each posted request and submits it;        *)
(*   - the USB class task: runs transfer_cb / transfer_cb_ctrl for each    *)
(*     transfer the device completes, and closes an unplugged device.      *)
(* A step ends where the code can block or be preempted between two        *)
(* accesses to what the tasks share.                                       *)
(*                                                                         *)
(* Of the command phase before it, which is CommandPhase's subject, this   *)
(* module keeps what reaches into the URB phase: an import is posted to    *)
(* handler 1, and is done or fails at any later time.  A request is known  *)
(* by its number in the order in which the clients sent them: USB/IP       *)
(* clients number their requests upwards, over all their connections.      *)
(***************************************************************************)
EXTENDS Integers, Sequences, FiniteSets

CONSTANTS
  MaxReq,     \* bound on the requests sent, over all connections
  MaxConn,    \* bound on the connections accepted
  Endpoints,  \* endpoint numbers that the requests name
  Fds,        \* lwIP socket descriptors
  QueueSize   \* capacity of loop_handle2's queue (queue_size in the code)

ASSUME ConstantsAssumption ==
  /\ MaxReq \in Nat
  /\ MaxConn \in Nat
  /\ Endpoints \subseteq Nat
  /\ Fds \subseteq Nat \ {0}
  /\ QueueSize \in Nat \ {0}

VARIABLES
  \* The clients and the network.
  reqs,        \* history: every request sent, in order
  stream,      \* requests written by the client and not yet received
  peer,        \* the client's end of the current connection
  attached,    \* whether the client has asked for an import, and has got it
  replies,     \* history: the connections each RET_SUBMIT was written on
  unlinks,     \* history: the RET_UNLINKs written
  \* lwIP.
  owner,       \* which connection a descriptor stands for; 0 is none
  \* The TCP server task.
  tcp,         \* where the task is
  conn,        \* connections accepted so far; the last one is current
  sock,        \* its descriptor, -1 when closed
  recv_submit, \* the request being posted, 0 when none is
  \* Handler 1.
  importing,   \* the imports posted to it and not finished, in order
  \* The handler of loop_handle2.
  queue,       \* its event queue
  skt,         \* the descriptor the callbacks reply on
  marking,     \* a submitted request whose flag is still to be set, or 0
  \* The USB class task and the USB host library.
  dev,         \* the device: open, unplugged, or closed by the class task
  inflight,    \* submitted transfers whose callback has not run
  cb,          \* the callback that is running
  heap,        \* requests whose transfer and ret_submit are allocated
  \* Shared flags.
  device_busy,
  pending      \* ep1_transfer_pending and ep2_transfer_pending

clientVars == <<reqs, peer, attached>>
tcpVars    == <<conn, sock, unlinks>>
usbVars    == <<skt, marking, dev, inflight, cb, heap>>
vars == <<clientVars, stream, replies, owner, tcp, tcpVars, recv_submit,
          importing, queue, usbVars, device_busy, pending>>

Reqs    == 1..MaxReq
Conns   == 1..MaxConn
Tracked == {1, 2}          \* the endpoints that have a pending flag
Request == [cmd : {"SUBMIT", "UNLINK"}, ep : Endpoints, conn : Conns]
Event   == [seq : Reqs, sock : Fds]
Import  == [conn : Conns, sock : Fds]
Unlinked == [unlink : Reqs, seqnum : Nat]  \* what it answers, its seqnum
Callback == [pc : {"idle", "check", "send"}, seq : 0..MaxReq,
             fd : Fds \cup {0, -1}]
NoCb     == [pc |-> "idle", seq |-> 0, fd |-> -1]

Init ==
  /\ reqs = <<>> /\ stream = <<>> /\ queue = <<>>
  /\ importing = <<>>
  /\ peer = "none" /\ attached = "no"
  /\ replies = [s \in Reqs |-> <<>>] /\ unlinks = <<>>
  /\ owner = [f \in Fds |-> 0]
  /\ tcp = "accept" /\ conn = 0 /\ sock = -1 /\ recv_submit = 0
  /\ skt = 0 /\ marking = 0
  /\ dev = "open" /\ inflight = {} /\ cb = NoCb /\ heap = {}
  /\ device_busy = FALSE
  /\ pending = [e \in Tracked |-> FALSE]

-----------------------------------------------------------------------------
(* The clients.  An attached client sends requests; any client may close    *)
(* its connection, or lose it (reset, keep-alive failure): then what the    *)
(* server has not yet received may be lost with it.                         *)

ClientSend ==
  /\ peer = "up" /\ attached = "yes" /\ Len(reqs) < MaxReq
  /\ \E c \in {"SUBMIT", "UNLINK"}, e \in Endpoints :
       /\ c = "UNLINK" => e = 0
       /\ reqs' = Append(reqs, [cmd |-> c, ep |-> e, conn |-> conn])
  /\ stream' = Append(stream, Len(reqs) + 1)
  /\ UNCHANGED <<peer, attached, replies, owner, tcp, tcpVars, recv_submit,
                 importing, queue, usbVars, device_busy, pending>>

ClientClose ==
  /\ peer = "up"
  /\ peer' = "fin"
  /\ UNCHANGED <<reqs, attached, stream, replies, owner, tcp, tcpVars,
                 recv_submit, importing, queue, usbVars, device_busy,
                 pending>>

ClientReset ==
  /\ peer \in {"up", "fin", "shut"}
  /\ peer' = "rst"
  /\ stream' \in {stream, <<>>}
  /\ UNCHANGED <<reqs, attached, replies, owner, tcp, tcpVars, recv_submit,
                 importing, queue, usbVars, device_busy, pending>>

(* recv() returns 0 once when the client has closed its end, to whoever     *)
(* reads next: then the end is "shut", and recv() fails (ENOTCONN) as it    *)
(* does on a connection that was lost.                                      *)
Failing == peer \in {"shut", "rst"}

(* send() on a descriptor: written on the connection it stands for now,     *)
(* refused when it stands for none or the connection is lost.               *)
Writable(fd) == fd \in Fds /\ owner[fd] # 0 /\ peer # "rst"
SendOn(fd, s) ==
  replies' = IF Writable(fd)
               THEN [replies EXCEPT ![s] = Append(@, owner[fd])]
               ELSE replies

-----------------------------------------------------------------------------
(* The TCP server task.                                                     *)

(* accept() hands out any free descriptor, so also one just closed.         *)
Accept ==
  /\ tcp = "accept" /\ conn < MaxConn
  /\ \E fd \in Fds :
       /\ owner[fd] = 0
       /\ sock' = fd
       /\ owner' = [owner EXCEPT ![fd] = conn + 1]
  /\ conn' = conn + 1
  /\ peer' = "up" /\ attached' = "no"
  /\ tcp' = "loop"
  /\ UNCHANGED <<reqs, stream, replies, unlinks, recv_submit, importing,
                 queue, usbVars, device_busy, pending>>

EnterUrbLoop ==
  /\ tcp = "loop" /\ device_busy
  /\ tcp' = "urb"
  /\ UNCHANGED <<clientVars, stream, replies, owner, tcpVars, recv_submit,
                 importing, queue, usbVars, device_busy, pending>>

(* do_recv reads device_busy, and then waits in recv() for a command,       *)
(* whatever becomes of the flag.                                            *)
EnterRecv ==
  /\ tcp = "loop" /\ ~device_busy
  /\ tcp' = "recv"
  /\ UNCHANGED <<clientVars, stream, replies, owner, tcpVars, recv_submit,
                 importing, queue, usbVars, device_busy, pending>>

(* The client's OP_REQ_IMPORT is read and posted.  The wait of at most one  *)
(* second for device_busy is time spent at the top of the loop.             *)
PostImport ==
  /\ tcp = "recv" /\ peer \in {"up", "fin"} /\ attached = "no"
  /\ attached' = "asked"
  /\ importing' = Append(importing, [conn |-> conn, sock |-> sock])
  /\ tcp' = "loop"
  /\ UNCHANGED <<reqs, peer, stream, replies, owner, tcpVars, recv_submit,
                 queue, usbVars, device_busy, pending>>

(* The receive timeout of 30 seconds; also a DEVLIST, which changes nothing *)
(* here.                                                                    *)
RecvTimeout ==
  /\ tcp = "recv" /\ stream = <<>> /\ peer = "up"
  /\ tcp' = "loop"
  /\ UNCHANGED <<clientVars, stream, replies, owner, tcpVars, recv_submit,
                 importing, queue, usbVars, device_busy, pending>>

(* A request that comes while do_recv still waits for a command is read as  *)
(* one, has no valid version and is dropped.                                *)
ReadAsCommand ==
  /\ tcp = "recv" /\ stream # <<>>
  /\ stream' = Tail(stream)
  /\ tcp' = "loop"
  /\ UNCHANGED <<clientVars, replies, owner, tcpVars, recv_submit, importing,
                 queue, usbVars, device_busy, pending>>

(* recv() returns 0 or an error in the command loop: it ends, and with it   *)
(* what do_recv reads of the connection.                                    *)
BackToLoop == "loop"
LoopExit   == "cleanup"

LoopEnds ==
  /\ tcp = "recv" /\ stream = <<>> /\ (peer = "fin" \/ Failing)
  /\ tcp' = LoopExit
  /\ UNCHANGED <<clientVars, stream, replies, owner, tcpVars, recv_submit,
                 importing, queue, usbVars, device_busy, pending>>

RecvSubmit ==
  /\ tcp = "urb" /\ stream # <<>> /\ reqs[Head(stream)].cmd = "SUBMIT"
  /\ recv_submit' = Head(stream)
  /\ stream' = Tail(stream)
  /\ tcp' = "post"
  /\ UNCHANGED <<clientVars, replies, owner, tcpVars, importing, queue,
                 usbVars, device_busy, pending>>

(* A short read or an oversized transfer leaves the switch with nothing     *)
(* posted.  Any later request may go the same way, since the reader is then *)
(* out of step with the stream.                                             *)
RecvDropped ==
  /\ tcp = "urb" /\ stream # <<>>
  /\ stream' = Tail(stream)
  /\ UNCHANGED <<clientVars, replies, owner, tcp, tcpVars, recv_submit,
                 importing, queue, usbVars, device_busy, pending>>

(* An unlink cancels nothing and is answered at once, under a seqnum that   *)
(* is the same for all.                                                     *)
UnlinkSeqnum == 2
AnswerUnlink(s) ==
  unlinks' = IF Writable(sock)
               THEN Append(unlinks, [unlink |-> s, seqnum |-> UnlinkSeqnum])
               ELSE unlinks

RecvUnlink ==
  /\ tcp = "urb" /\ stream # <<>> /\ reqs[Head(stream)].cmd = "UNLINK"
  /\ AnswerUnlink(Head(stream))
  /\ stream' = Tail(stream)
  /\ UNCHANGED <<clientVars, replies, owner, tcp, conn, sock, recv_submit,
                 importing, queue, usbVars, device_busy, pending>>

(* The client's end comes in the middle of its last request: the read of    *)
(* the rest returns 0.  Nothing is posted, but an unlink, where the result  *)
(* is not looked at, is answered.                                           *)
RecvCut ==
  /\ tcp = "urb" /\ Len(stream) = 1 /\ peer = "fin"
  /\ IF reqs[Head(stream)].cmd = "UNLINK" THEN AnswerUnlink(Head(stream))
                                          ELSE UNCHANGED unlinks
  /\ stream' = <<>>
  /\ peer' = "shut"
  /\ UNCHANGED <<reqs, attached, replies, owner, tcp, conn, sock, recv_submit,
                 importing, queue, usbVars, device_busy, pending>>

(* The post copies the request and blocks while the queue is full.          *)
RoomOffByOne == Len(queue) <= QueueSize
Room         == Len(queue) < QueueSize
Pushed(q, e)   == <<e>> \o q
Enqueued(q, e) == Append(q, e)

Post ==
  /\ tcp = "post" /\ Room
  /\ queue' = Enqueued(queue, [seq |-> recv_submit, sock |-> sock])
  /\ recv_submit' = 0
  /\ tcp' = "urb"
  /\ UNCHANGED <<clientVars, stream, replies, owner, tcpVars, importing,
                 usbVars, device_busy, pending>>

(* No memory for the copy: the request is dropped.                          *)
PostFails ==
  /\ tcp = "post"
  /\ recv_submit' = 0
  /\ tcp' = "urb"
  /\ UNCHANGED <<clientVars, stream, replies, owner, tcpVars, importing,
                 queue, usbVars, device_busy, pending>>

BusyKept     == device_busy
BusyAfterEof == FALSE

RecvEof ==
  /\ tcp = "urb" /\ stream = <<>> /\ peer = "fin"
  /\ device_busy' = BusyAfterEof
  /\ peer' = "shut"
  /\ tcp' = "loop"
  /\ UNCHANGED <<reqs, attached, stream, replies, owner, tcpVars, recv_submit,
                 importing, queue, usbVars, pending>>

(* The break of the error case leaves the inner loop only, with device_busy *)
(* still set: the outer loop comes straight back.                           *)
RecvError ==
  /\ tcp = "urb" /\ stream = <<>> /\ Failing
  /\ tcp' = "loop"
  /\ UNCHANGED <<clientVars, stream, replies, owner, tcpVars, recv_submit,
                 importing, queue, usbVars, device_busy, pending>>

Cleanup ==
  /\ tcp = "cleanup"
  /\ device_busy' = FALSE
  /\ pending' = [e \in Tracked |-> FALSE]
  /\ tcp' = "close"
  /\ UNCHANGED <<clientVars, stream, replies, owner, tcpVars, recv_submit,
                 importing, queue, usbVars>>

Close ==
  /\ tcp = "close"
  /\ owner' = [owner EXCEPT ![sock] = 0]
  /\ sock' = -1
  /\ peer' = "none" /\ attached' = "no"
  /\ tcp' = "accept"
  /\ UNCHANGED <<reqs, stream, replies, unlinks, conn, recv_submit, importing,
                 queue, usbVars, device_busy, pending>>

-----------------------------------------------------------------------------
(* Handler 1, as far as imports go.  It outlives the connection: do_recv    *)
(* gives up its wait after a second, and may by then read commands, clean   *)
(* up, or serve the next client.                                            *)

(* The reply is sent in full, to whoever the descriptor stands for, and     *)
(* device_busy is set: for the refusal of a wrong bus id too.               *)
ImportDone ==
  /\ importing # <<>>
  /\ importing' = Tail(importing)
  /\ device_busy' = TRUE
  /\ attached' \in IF attached = "asked" /\ peer = "up"
                       /\ owner[Head(importing).sock] = conn
                     THEN {"asked", "yes"} ELSE {attached}
  /\ UNCHANGED <<reqs, peer, stream, replies, owner, tcp, tcpVars,
                 recv_submit, queue, usbVars, pending>>

(* The rest of the import does not come, or the reply cannot be sent.  The  *)
(* handler's recv() may be the one to which the client's end is told.       *)
ImportFails ==
  /\ importing # <<>>
  /\ importing' = Tail(importing)
  /\ peer' \in IF peer = "fin" /\ stream = <<>>
                    /\ owner[Head(importing).sock] = conn
                 THEN {"fin", "shut"} ELSE {peer}
  /\ UNCHANGED <<reqs, attached, stream, replies, owner, tcp, tcpVars,
                 recv_submit, queue, usbVars, device_busy, pending>>

-----------------------------------------------------------------------------
(* The handler of loop_handle2, one posted request at a time.  A step runs  *)
(* from taking the event to the return of usb_host_transfer_submit: what    *)
(* it reads of the flags is not read again.  Setting the flag is a step of  *)
(* its own, after a log_write that can block.                               *)

Redelivered(q) == q
Dequeued(q)    == Tail(q)

(* The handler takes the first event of its queue.                          *)
Handling(s) ==
  /\ marking = 0
  /\ queue # <<>> /\ s = Head(queue).seq
  /\ queue' = Dequeued(queue)

EndpointAlways(s) == TRUE
EndpointFree(s) == reqs[s].ep \in Tracked => ~pending[reqs[s].ep]

(* Callbacks reply on the descriptor of the last request handled.           *)
FirstSkt == IF skt = 0 THEN Head(queue).sock ELSE skt
LastSkt  == Head(queue).sock

(* malloc fails before skt is assigned, usb_host_transfer_alloc after.      *)
SubmitNoMemory(s) ==
  /\ Handling(s)
  /\ skt' \in {skt, LastSkt}
  /\ UNCHANGED <<clientVars, stream, replies, owner, tcp, tcpVars,
                 recv_submit, importing, marking, dev, inflight, cb, heap,
                 device_busy, pending>>

(* A transfer is pending on the endpoint: the new one is freed, unanswered. *)
SubmitSkipped(s) ==
  /\ Handling(s)
  /\ ~EndpointFree(s)
  /\ skt' = LastSkt
  /\ UNCHANGED <<clientVars, stream, replies, owner, tcp, tcpVars,
                 recv_submit, importing, marking, dev, inflight, cb, heap,
                 device_busy, pending>>

(* The library refuses the transfer: it stays allocated.                    *)
SubmitRejected(s) ==
  /\ Handling(s)
  /\ EndpointFree(s)
  /\ skt' = LastSkt
  /\ heap' = heap \cup {s}
  /\ UNCHANGED <<clientVars, stream, replies, owner, tcp, tcpVars,
                 recv_submit, importing, marking, dev, inflight, cb,
                 device_busy, pending>>

SubmitAccepted(s) ==
  /\ Handling(s)
  /\ EndpointFree(s)
  /\ dev = "open"
  /\ skt' = LastSkt
  /\ heap' = heap \cup {s}
  /\ inflight' = inflight \cup {s}
  /\ marking' = IF reqs[s].ep \in Tracked THEN s ELSE 0
  /\ UNCHANGED <<clientVars, stream, replies, owner, tcp, tcpVars,
                 recv_submit, importing, dev, cb, device_busy, pending>>

MarkPending ==
  /\ marking # 0
  /\ pending' = [pending EXCEPT ![reqs[marking].ep] = TRUE]
  /\ marking' = 0
  /\ UNCHANGED <<clientVars, stream, replies, owner, tcp, tcpVars,
                 recv_submit, importing, queue, skt, dev, inflight, cb, heap,
                 device_busy>>

-----------------------------------------------------------------------------
(* The USB class task, inside usb_host_client_handle_events.                *)

Resubmitted(s) == inflight
Completed(s)   == inflight \ {s}

(* The device completes, fails or abandons a transfer: its callback starts, *)
(* and transfer_cb clears the flag.                                         *)
Complete(s) ==
  /\ cb = NoCb /\ s \in inflight
  /\ inflight' = Completed(s)
  /\ pending' = IF reqs[s].ep \in Tracked
                  THEN [pending EXCEPT ![reqs[s].ep] = FALSE]
                  ELSE pending
  /\ cb' = [pc |-> "check", seq |-> s, fd |-> -1]
  /\ UNCHANGED <<clientVars, stream, replies, owner, tcp, tcpVars,
                 recv_submit, importing, queue, skt, marking, dev, heap,
                 device_busy>>

(* The check that skt is still valid, and its value handed to send().  No   *)
(* assignment makes skt negative, so the check never stops a reply.         *)
CbCheck ==
  /\ cb.pc = "check"
  /\ cb' = [cb EXCEPT !.pc = "send", !.fd = skt]
  /\ UNCHANGED <<clientVars, stream, replies, owner, tcp, tcpVars,
                 recv_submit, importing, queue, skt, marking, dev, inflight,
                 heap, device_busy, pending>>

(* tcp_send_locked, then both frees.                                        *)
CbSend ==
  /\ cb.pc = "send"
  /\ SendOn(cb.fd, cb.seq)
  /\ heap' = heap \ {cb.seq}
  /\ cb' = NoCb
  /\ UNCHANGED <<clientVars, stream, owner, tcp, tcpVars, recv_submit,
                 importing, queue, skt, marking, dev, inflight, device_busy,
                 pending>>

(* The device is unplugged; the library then abandons every transfer, and   *)
(* the class task closes the device and leaves its event loop.              *)
DeviceGone ==
  /\ dev = "open"
  /\ dev' = "gone"
  /\ UNCHANGED <<clientVars, stream, replies, owner, tcp, tcpVars,
                 recv_submit, importing, queue, skt, marking, inflight, cb,
                 heap, device_busy, pending>>

DeviceExit ==
  /\ dev = "gone" /\ inflight = {} /\ cb = NoCb
  /\ dev' = "closed"
  /\ device_busy' = FALSE
  /\ UNCHANGED <<clientVars, stream, replies, owner, tcp, tcpVars,
                 recv_submit, importing, queue, skt, marking, inflight, cb,
                 heap, pending>>

-----------------------------------------------------------------------------
Client  == ClientSend \/ ClientClose \/ ClientReset
Receive == \/ EnterUrbLoop \/ EnterRecv \/ RecvTimeout
           \/ ReadAsCommand \/ LoopEnds
           \/ RecvSubmit \/ RecvUnlink \/ Post
           \/ RecvEof \/ RecvError \/ Cleanup \/ Close
Lost    == RecvDropped \/ RecvCut \/ PostFails
Imports == ImportDone \/ ImportFails
Handler == \/ \E s \in Reqs : \/ SubmitNoMemory(s) \/ SubmitSkipped(s)
                             \/ SubmitRejected(s) \/ SubmitAccepted(s)
           \/ MarkPending
Class   == \/ \E s \in Reqs : Complete(s)
           \/ CbCheck \/ CbSend \/ DeviceGone \/ DeviceExit

Next == \/ Client \/ Accept \/ PostImport \/ Receive \/ Lost \/ Imports
        \/ Handler \/ Class

Spec == Init /\ [][Next]_vars

(* do_recv and the event-loop task are always scheduled again: no task of   *)
(* the program that outranks them runs without blocking, and they wait for  *)
(* input, for room in the queue and for locks that are released, nothing    *)
(* else.  Nothing is assumed of clients, of the device, of memory running   *)
(* out in time, or of the class task, which do_recv outranks and can starve.*)
FairSpec == Spec /\ WF_vars(Receive) /\ WF_vars(Handler)

-----------------------------------------------------------------------------
(* What is asked of it.                                                     *)

TypeOK ==
  /\ reqs \in Seq(Request) /\ Len(reqs) <= MaxReq
  /\ stream \in Seq(Reqs)
  /\ peer \in {"none", "up", "fin", "shut", "rst"}
  /\ attached \in {"no", "asked", "yes"}
  /\ replies \in [Reqs -> Seq(Conns)]
  /\ unlinks \in Seq(Unlinked)
  /\ owner \in [Fds -> 0..MaxConn]
  /\ tcp \in {"accept", "loop", "recv", "urb", "post", "cleanup", "close"}
  /\ conn \in 0..MaxConn
  /\ sock \in Fds \cup {-1}
  /\ recv_submit \in 0..MaxReq
  /\ importing \in Seq(Import)
  /\ queue \in Seq(Event) /\ Len(queue) <= QueueSize
  /\ skt \in Fds \cup {0}
  /\ marking \in 0..MaxReq
  /\ dev \in {"open", "gone", "closed"}
  /\ inflight \subseteq Reqs
  /\ cb \in Callback
  /\ heap \subseteq Reqs
  /\ device_busy \in BOOLEAN
  /\ pending \in [Tracked -> BOOLEAN]

(* A client gets one RET_SUBMIT at most under a seqnum: an event taken      *)
(* twice, a transfer submitted twice or completed twice, by whatever task   *)
(* and over whatever connection, would give it a second.  (A RET_UNLINK is  *)
(* another kind of message: its seqnum says nothing of what it answers.)    *)
AtMostOneReply == \A s \in Reqs : Len(replies[s]) <= 1

(* The transfers the library or a callback may still touch are allocated,   *)
(* and the one in a callback is no longer with the library: neither free of *)
(* transfer_cb and transfer_cb_ctrl is early, missing a reader, or repeated.*)
InCallback == IF cb.pc = "idle" THEN {} ELSE {cb.seq}
TransfersAllocated ==
  /\ inflight \cup InCallback \subseteq heap
  /\ inflight \cap InCallback = {}

(* The endpoint flags bound the transfers in flight on an interrupt         *)
(* endpoint: one, and one more for every connection whose cleanup has reset *)
(* the flags under transfers still in flight.                               *)
InFlightOn(e) == {s \in inflight : reqs[s].ep = e}
Cleanups == IF tcp \in {"accept", "close"} THEN conn ELSE conn - 1
InFlightBounded ==
  \A e \in Tracked : Cardinality(InFlightOn(e)) <= Cleanups + 1

(* Requests go to the device in the order the clients sent them, also over  *)
(* a change of connection with requests still queued: nothing that has been *)
(* submitted, or waits further on, is younger than a request behind it.     *)
Elements(q)  == {q[i] : i \in DOMAIN q}
Posted       == {queue[i].seq : i \in DOMAIN queue}
Received     == {recv_submit} \ {0}
Unread       == Elements(stream)
Waiting      == Posted \cup Received \cup Unread
Before(A, B) == \A a \in A, b \in B : a < b
SubmitOrder ==
  /\ \A i, j \in DOMAIN queue : i < j => queue[i].seq < queue[j].seq
  /\ \A i, j \in DOMAIN stream : i < j => stream[i] < stream[j]
  /\ Before(heap \cup inflight, Waiting)
  /\ Before(Posted, Received \cup Unread)
  /\ Before(Received, Unread)

(* The stages of a request, as a client and the device see them, go through *)
(* the life cycle of UrbService.                                            *)
Stage(s) ==
  IF s > Len(reqs) THEN "unsent"
  ELSE IF s \in Waiting THEN "waiting"
  ELSE IF s \in inflight \cup InCallback THEN "device"
  ELSE IF replies[s] # <<>> THEN "answered" ELSE "lost"

Service == INSTANCE UrbService WITH stage <- [s \in Reqs |-> Stage(s)]
ImplementsService == Service!Spec

(* The connection's life, and what a late import does to it and to those    *)
(* after it, is what CommandPhase says it is.                               *)
Phase == CASE tcp \in {"loop", "recv"} -> "commands"
           [] tcp \in {"urb", "post"} -> "urbs" [] OTHER -> tcp
Asked == {importing[i].conn : i \in DOMAIN importing}
Connection == INSTANCE ConnectionService WITH phase <- Phase, asked <- Asked
ImplementsConnection == Connection!Spec

(* A transfer whose connection is still open is answered on it, although    *)
(* the callback replies on the descriptor of the last request handled, and  *)
(* the requests of closed connections are handled late.                     *)
ReplyFd(s) == IF cb.pc = "send" /\ cb.seq = s THEN cb.fd ELSE skt
OwnerServed ==
  \A s \in inflight \cup InCallback :
    reqs[s].conn = conn /\ sock # -1 => ReplyFd(s) = sock

(* Once the connection's end is there to be read, and after that as long as *)
(* device_busy is not set, do_recv and the handler have a bounded number of *)
(* steps until the server accepts again, to which nothing else adds: the    *)
(* requests to receive, the imports that may set device_busy once more, the *)
(* events to handle.  No step of theirs ends this but the accept(); what    *)
(* does is a connection that breaks, a request that is cut, and an import   *)
(* that reads the end or sets device_busy behind do_recv.                   *)
Place ==
  CASE tcp = "accept" -> 0 [] tcp = "close" -> 1 [] tcp = "cleanup" -> 2
    [] tcp = "recv" -> 3 [] tcp = "loop" /\ ~device_busy -> 4
    [] tcp = "urb" -> 5 [] OTHER -> 6
BusyToCome == Len(importing) + (IF attached = "no" THEN 2 ELSE 0)
Unmarked == IF marking = 0 THEN 0 ELSE 1
Work == 3 * (4 * Len(stream) + 3 * BusyToCome + Place) + 2 * Len(queue) + Unmarked
Ending == peer = "fin" \/ (Failing /\ ~device_busy)
FinDrains ==
  [][Ending => IF Ending' THEN /\ Work' \in 0..Work
                               /\ Receive \/ Handler => Work' < Work
               ELSE tcp' = "accept" \/ ClientReset \/ RecvCut \/ Imports]_vars

(* A connection that ends, by a close or a reset, gives the server back:    *)
(* do_recv works off what was received, through a full queue if need be,    *)
(* and accepts the next, unless device_busy is set when recv() fails.       *)
Spinning == tcp = "loop" /\ Failing /\ device_busy
FinFreesServer ==
  (peer = "fin" \/ Failing) ~> (tcp = "accept" \/ Spinning)

-----------------------------------------------------------------------------
(* What the code's comments say and the code does not do.                   *)

(* "CRITICAL: Free the malloc'd ret_submit structure" (usb_handler.c:325,   *)
(* 384): what is allocated is in flight or in a callback.                   *)
NothingLeaked == heap \subseteq inflight \cup InCallback

(* "Check if socket is still valid before sending" (usb_handler.c:292, 348):*)
(* a reply goes to the connection its request came from.                    *)
ReplyToOwner ==
  \A s \in Reqs : \A i \in DOMAIN replies[s] : replies[s][i] = reqs[s].conn

(* "Check if there's already a pending transfer on this endpoint"           *)
(* (usb_handler.c:465): a flag that is set stands for a transfer.           *)
FlagMeansTransfer ==
  \A e \in Tracked : pending[e] => InFlightOn(e) # {}

(* "The loop should continue until a socket error or connection close"      *)
(* (tcp_connect.c:272): a lost connection ends it too.                      *)
ResetFreesServer == (peer = "rst") ~> (tcp = "accept")
=============================================================================
