------------------------------ MODULE RetSubmit ------------------------------
(***************************************************************************)
(* How long things are on the way of a CMD_SUBMIT to its RET_SUBMIT: the   *)
(* length the client asks for, the transfer that handler 2 makes of it,    *)
(* rounded up to a packet size found when the device was described, what   *)
(* the library takes and the device returns, what the callback copies and  *)
(* sends, and what the client reads.                                       *)
(*                                                                         *)
(* Which task does what, in which interleaving, is UrbPath's subject: here *)
(* the steps of a request are in order, and requests overtake each other   *)
(* only between submission and completion.                                 *)
(***************************************************************************)
EXTENDS Integers, Sequences, FiniteSets

CONSTANTS
  MaxReq,   \* bound on the requests
  Lengths,  \* the transfer_buffer_lengths of requests
  Devices   \* a device: a sequence of interfaces, each a sequence of endpoints

Endpoint == [ep : 1..15, mps : Nat \ {0}]
NoDevice == <<>>

ASSUME ConstantsAssumption ==
  /\ MaxReq \in Nat /\ Lengths \subseteq Nat
  /\ Devices \subseteq Seq(Seq(Endpoint)) /\ NoDevice \notin Devices
  /\ \A d \in Devices : Len(d) <= 10

HeaderSize == 48     \* sizeof(usbip_ret_submit) - 1024, and of usbip_ret_unlink
BufferSize == 1024   \* transfer_buffer, of a request and of a reply
DataSize   == 1000   \* data_buffer of a transfer
SetupSize  == 8      \* sizeof(usb_setup_packet_t)
Slots      == 0..9   \* the indices of mps

VARIABLES
  device,   \* what is plugged in
  mps,      \* the packet sizes found in descriptors, this device's or another's
  reqs,     \* history: what the client has sent, in order
  handled,  \* how many of them have been handled
  flight,   \* the transfers with the library
  stream    \* history: the replies written, in order, with what was copied,
            \* how much was sent, and the size of the transfer

vars == <<device, mps, reqs, handled, flight, stream>>

Unlink   == [cmd |-> "UNLINK", ep |-> 0, dir |-> "OUT", len |-> 0, wLength |-> 0]
Requests == [cmd : {"SUBMIT"}, ep : 0..2, dir : {"IN", "OUT"}, len : Lengths,
             wLength : Lengths]
Statuses == {"completed", "stall", "error"}
Transfer == [req : 1..MaxReq, num_bytes : Nat]
Reply    == [req : 1..MaxReq, status : {0, -32, -71}, actual_length : Nat,
             copied : Nat, size : Nat, room : Nat]

Init ==
  /\ device = NoDevice /\ mps = [i \in Slots |-> 0]
  /\ reqs = <<>> /\ handled = 0 /\ flight = {} /\ stream = <<>>

-----------------------------------------------------------------------------
(* The device.                                                              *)

(* What the loop over the interfaces leaves in mps: an interface that can   *)
(* be claimed and parsed sets its own entry, from its first endpoint.       *)
FirstMps(intf) == IF intf = <<>> THEN 0 ELSE intf[1].mps
Found(d, parsed) ==
  [i \in Slots |-> IF i + 1 \in parsed THEN FirstMps(d[i + 1]) ELSE mps[i]]

Describe(d) ==
  /\ device = NoDevice
  /\ device' = d
  /\ \E parsed \in SUBSET DOMAIN d : mps' = Found(d, parsed)
  /\ UNCHANGED <<reqs, handled, flight, stream>>

(* Its transfers are completed, in error, as any others.                    *)
Unplug ==
  /\ device # NoDevice
  /\ device' = NoDevice
  /\ UNCHANGED <<mps, reqs, handled, flight, stream>>

(* The library knows every endpoint's own packet size.                      *)
Sizes(ep) == {e.mps : e \in {f \in UNION {{device[i][j] : j \in DOMAIN device[i]}
                                            : i \in DOMAIN device} : f.ep = ep}}

-----------------------------------------------------------------------------
(* do_recv.                                                                 *)

(* A kernel sends a control request with its length in the setup packet     *)
(* too; a wLength that differs is possible all the same.                    *)
Ask(q) ==
  /\ Len(reqs) < MaxReq
  /\ q.ep = 0 \/ q.wLength = q.len
  /\ reqs' = Append(reqs, q)
  /\ UNCHANGED <<device, mps, handled, flight, stream>>

Next1 == reqs[handled + 1]

(* Answered by do_recv itself, whatever it names.                           *)
RetUnlink ==
  /\ handled < Len(reqs) /\ Next1.cmd = "UNLINK"
  /\ handled' = handled + 1
  /\ stream' = Append(stream, [req |-> handled + 1, status |-> 0,
                               actual_length |-> 0, copied |-> 0,
                               size |-> HeaderSize, room |-> 0])
  /\ UNCHANGED <<device, mps, reqs, flight>>

(* Read, unless there is more data than fits.                               *)
TooLong(q) == q.dir = "OUT" /\ q.len > BufferSize

-----------------------------------------------------------------------------
(* Handler 2: the transfer, and what the library says of it.                *)

RoundDown(n, m) == IF n = 0 \/ m = 0 THEN 0 ELSE (n \div m) * m
RoundUp(n, m)   == IF n = 0 \/ m = 0 THEN 0 ELSE ((n + m - 1) \div m) * m

NumBytes(q) == CASE q.ep = 0     -> q.len + SetupSize
                 [] q.ep # 0 /\ q.dir = "IN"  -> RoundUp(q.len, mps[q.ep - 1])
                 [] q.ep # 0 /\ q.dir = "OUT" -> q.len

(* usb_host_transfer_submit(_control) checks the data buffer's size, the    *)
(* setup packet, and that the data of an IN endpoint come in whole packets. *)
Takes(q, n) ==
  /\ n <= DataSize
  /\ IF q.ep = 0 THEN device # NoDevice /\ n = SetupSize + q.wLength
       ELSE \E m \in Sizes(q.ep) : q.dir = "IN" => n % m = 0

Submit ==
  /\ handled < Len(reqs) /\ Next1.cmd = "SUBMIT"
  /\ ~TooLong(Next1) /\ Takes(Next1, NumBytes(Next1))
  /\ handled' = handled + 1
  /\ flight' = flight \cup {[req |-> handled + 1, num_bytes |-> NumBytes(Next1)]}
  /\ UNCHANGED <<device, mps, reqs, stream>>

(* Too long, refused, no memory, or its endpoint busy: no reply.            *)
Drop ==
  /\ handled < Len(reqs) /\ Next1.cmd = "SUBMIT"
  /\ handled' = handled + 1
  /\ UNCHANGED <<device, mps, reqs, flight, stream>>

-----------------------------------------------------------------------------
(* The callbacks, given the status of the transfer and its actual_num_bytes *)
(* (n), which include the setup packet.                                     *)

StatusRaw(status) == CASE status = "completed" -> 0
                       [] status = "stall"     -> 4
                       [] OTHER                -> 1
StatusOf(status) == CASE status = "completed" -> 0
                      [] status = "stall"     -> -32
                      [] OTHER                -> -71

(* transfer_cb_ctrl *)
DataLenWithSetup(status, n) == IF status = "completed" THEN n ELSE 0
DataLen(status, n) ==
  IF status = "completed" /\ n >= SetupSize THEN n - SetupSize ELSE 0

RetControl(q, status, n) ==
  LET len == DataLen(status, n)
  IN  [status |-> StatusOf(status), actual_length |-> len, copied |-> len,
       size |-> HeaderSize + (IF q.dir = "IN" THEN len ELSE 0)]

(* transfer_cb: status and actual_length are as handler 2 set them.         *)
WholeReply(q) == HeaderSize + BufferSize
SendSize(q)   == HeaderSize + (IF q.dir = "IN" THEN q.len ELSE 0)

RetOther(q) ==
  [status |-> 0, actual_length |-> q.len,
   copied |-> IF q.dir = "IN" THEN q.len ELSE 0, size |-> SendSize(q)]

Complete(x, status, n) ==
  LET q   == reqs[x.req]
      ret == IF q.ep = 0 THEN RetControl(q, status, n) ELSE RetOther(q)
  IN /\ n <= x.num_bytes
     /\ flight' = flight \ {x}
     /\ stream' = Append(stream,
                    [req |-> x.req, status |-> ret.status,
                     actual_length |-> ret.actual_length,
                     copied |-> ret.copied, size |-> ret.size,
                     room |-> x.num_bytes])
     /\ UNCHANGED <<device, mps, reqs, handled>>

(* A transfer is cut short by nothing, before its data, in them, or not.    *)
Actual(x) == {0, SetupSize, x.num_bytes - 1, x.num_bytes} \cap (0..x.num_bytes)

-----------------------------------------------------------------------------
Next == \/ \E d \in Devices : Describe(d)
        \/ Unplug
        \/ \E q \in Requests \cup {Unlink} : Ask(q)
        \/ RetUnlink \/ Submit \/ Drop
        \/ \E x \in flight, s \in Statuses : \E n \in Actual(x) : Complete(x, s, n)

Spec == Init /\ [][Next]_vars

-----------------------------------------------------------------------------
(* What is asked of it.                                                     *)

TypeOK ==
  /\ device \in Devices \cup {NoDevice}
  /\ mps \in [Slots -> Nat]
  /\ reqs \in Seq(Requests \cup {Unlink}) /\ Len(reqs) <= MaxReq
  /\ handled \in 0..Len(reqs)
  /\ flight \subseteq Transfer
  /\ stream \in Seq(Reply)

(* The client reads a header, and then, if it was its own request that      *)
(* wanted data in, as many as the header says.  It is then at the next      *)
(* header.                                                                  *)
ClientReads(ret) ==
  HeaderSize + (IF reqs[ret.req].dir = "IN" THEN ret.actual_length ELSE 0)
ClientFramed == \A i \in DOMAIN stream : stream[i].size = ClientReads(stream[i])

(* A client is never told of more data than it asked for, whatever the      *)
(* device and the setup packet say.                                         *)
NoMoreThanAsked ==
  \A i \in DOMAIN stream : stream[i].actual_length <= reqs[stream[i].req].len

(* Data that a callback copies were in the part of the transfer's buffer    *)
(* that the transfer used, for every endpoint whose entry of mps was ever   *)
(* found, right or wrong.  Where it was not, the transfer is of no bytes,   *)
(* and the length of the copy is the client's.                              *)
AnswerFits ==
  \A i \in DOMAIN stream :
    stream[i].room > 0 =>
      stream[i].copied <= stream[i].room /\ stream[i].room <= DataSize
=============================================================================
