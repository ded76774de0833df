--------------------------- MODULE RetSubmitProofs ---------------------------
(***************************************************************************)
(* Proofs about RetSubmit, for every length, device and number of          *)
(* requests.  The invariant says of each transfer in flight how its size   *)
(* stands to its request, and of each reply what the properties ask.       *)
(***************************************************************************)
EXTENDS RetSubmit, TLAPS, SequenceTheorems

-----------------------------------------------------------------------------
(* The arithmetic.                                                          *)

LEMMA Quotient ==
  ASSUME NEW a \in Nat, NEW m \in Nat \ {0}
  PROVE  /\ a \div m \in Nat /\ (a \div m) * m \in Nat
         /\ (a \div m) * m <= a /\ a < (a \div m) * m + m
<1>1. a \div m \in Int /\ a % m \in 0..(m - 1) /\ a = m * (a \div m) + (a % m)
  BY SMT
<1>2. a \div m \in Nat
  BY SMT
<1> QED BY <1>1, <1>2, SMT

LEMMA Rounded ==
  ASSUME NEW n \in Nat, NEW m \in Nat
  PROVE  RoundUp(n, m) \in Nat /\ (RoundUp(n, m) > 0 => n <= RoundUp(n, m))
<1>1. CASE n = 0 \/ m = 0
  BY <1>1 DEF RoundUp
<1>2. CASE ~(n = 0 \/ m = 0)
  <2>1. n + m - 1 \in Nat /\ m \in Nat \ {0}
    BY <1>2
  <2> DEFINE k == (n + m - 1) \div m
  <2>2. k * m \in Nat /\ n + m - 1 < k * m + m
    BY <2>1, Quotient
  <2>3. RoundUp(n, m) = k * m
    BY <1>2 DEF RoundUp
  <2> QED BY <2>2, <2>3
<1> QED BY <1>1, <1>2

LEMMA RequestType ==
  ASSUME NEW q \in Requests \cup {Unlink}
  PROVE  /\ q.ep \in 0..2 /\ q.dir \in {"IN", "OUT"} /\ q.len \in Nat
         /\ q.cmd = "SUBMIT" => q \in Requests
<1>1. CASE q = Unlink
  BY <1>1 DEF Unlink
<1>2. CASE q \in Requests
  BY <1>2, ConstantsAssumption DEF Requests
<1> QED BY <1>1, <1>2

(* A transfer of any size holds what its request asks for.                  *)
LEMMA NumBytesType ==
  ASSUME mps \in [Slots -> Nat], NEW q \in Requests
  PROVE  /\ NumBytes(q) \in Nat
         /\ q.ep = 0 => NumBytes(q) = q.len + SetupSize
         /\ q.ep # 0 /\ q.dir = "IN" /\ NumBytes(q) > 0 => q.len <= NumBytes(q)
<1>1. q.ep \in 0..2 /\ q.dir \in {"IN", "OUT"} /\ q.len \in Nat
  BY RequestType
<1>2. CASE q.ep = 0
  BY <1>1, <1>2 DEF NumBytes, SetupSize
<1>3. CASE q.ep # 0 /\ q.dir = "IN"
  <2>1. NumBytes(q) = RoundUp(q.len, mps[q.ep - 1])
    BY <1>3 DEF NumBytes
  <2>2. q.ep - 1 \in Slots
    BY <1>1, <1>3 DEF Slots
  <2> QED BY <1>1, <1>3, <2>1, <2>2, Rounded
<1>4. CASE q.ep # 0 /\ q.dir = "OUT"
  <2>1. NumBytes(q) = q.len
    BY <1>4 DEF NumBytes
  <2> QED BY <1>1, <1>4, <2>1
<1> QED BY <1>1, <1>2, <1>3, <1>4

LEMMA FoundType ==
  ASSUME mps \in [Slots -> Nat], NEW d \in Devices, NEW parsed \in SUBSET DOMAIN d
  PROVE  Found(d, parsed) \in [Slots -> Nat]
<1>1. d \in Seq(Seq(Endpoint))
  BY ConstantsAssumption
<1>2. ASSUME NEW k \in DOMAIN d PROVE FirstMps(d[k]) \in Nat
  <2>1. d[k] \in Seq(Endpoint)
    BY <1>1
  <2>2. CASE d[k] = << >>
    BY <2>2 DEF FirstMps
  <2>3. CASE d[k] # << >>
    <3>1. d[k][1] \in Endpoint
      BY <2>1, <2>3
    <3> QED BY <2>3, <3>1 DEF FirstMps, Endpoint
  <2> QED BY <2>2, <2>3
<1> QED BY <1>2 DEF Found

-----------------------------------------------------------------------------
(* The invariant.                                                           *)

Asked(k) == k \in 1..Len(reqs)

Sized(x) ==
  /\ Asked(x.req) /\ x.num_bytes <= DataSize
  /\ reqs[x.req].ep = 0 => x.num_bytes = reqs[x.req].len + SetupSize
  /\ reqs[x.req].ep # 0 /\ reqs[x.req].dir = "IN" /\ x.num_bytes > 0 =>
       reqs[x.req].len <= x.num_bytes

Answers(ret) ==
  /\ Asked(ret.req)
  /\ ret.size = ClientReads(ret)
  /\ ret.actual_length <= reqs[ret.req].len
  /\ ret.room > 0 => ret.copied <= ret.room /\ ret.room <= DataSize

AllAnswer == \A i \in DOMAIN stream : Answers(stream[i])

Inv == TypeOK /\ AllAnswer /\ \A x \in flight : Sized(x)

LEMMA InitInv == Init => Inv
<1> SUFFICES ASSUME Init PROVE Inv
  OBVIOUS
<1>1. /\ device = NoDevice /\ mps = [i \in Slots |-> 0]
      /\ reqs = << >> /\ handled = 0 /\ flight = {} /\ stream = << >>
  BY DEF Init
<1>2. TypeOK
  BY <1>1, ConstantsAssumption DEF TypeOK
<1> QED BY <1>1, <1>2 DEF Inv, AllAnswer

(* One more reply at the end of the stream.                                 *)
LEMMA OneMore ==
  ASSUME Inv, NEW r \in Reply, Answers(r), stream' = Append(stream, r),
         UNCHANGED reqs
  PROVE  stream' \in Seq(Reply) /\ AllAnswer'
<1>1. stream \in Seq(Reply) /\ DOMAIN stream = 1..Len(stream) /\ Len(stream) \in Nat
  BY DEF Inv, TypeOK
<1>2. stream' \in Seq(Reply) /\ Len(stream') = Len(stream) + 1
  BY <1>1, AppendProperties
<1>3. \A i \in 1..Len(stream) : stream'[i] = stream[i]
  BY <1>1, AppendProperties
<1>4. stream'[Len(stream) + 1] = r
  BY <1>1, AppendProperties
<1>5. ASSUME NEW i \in DOMAIN stream' PROVE Answers(stream'[i])
  <2>1. i \in 1..Len(stream) \/ i = Len(stream) + 1
    BY <1>1, <1>2
  <2> QED BY <1>1, <1>3, <1>4, <2>1 DEF Inv, AllAnswer
<1>6. AllAnswer'
  BY <1>5 DEF AllAnswer, Answers, Asked, ClientReads
<1> QED BY <1>2, <1>6

LEMMA AskInv ==
  ASSUME Inv, NEW q \in Requests \cup {Unlink}, Ask(q)
  PROVE  Inv'
<1>1. /\ reqs' = Append(reqs, q) /\ Len(reqs) < MaxReq
      /\ device' = device /\ mps' = mps /\ handled' = handled /\ flight' = flight
      /\ stream' = stream
  BY DEF Ask
<1>2. reqs \in Seq(Requests \cup {Unlink}) /\ Len(reqs) \in Nat
  BY DEF Inv, TypeOK
<1>3. reqs' \in Seq(Requests \cup {Unlink}) /\ Len(reqs') = Len(reqs) + 1
  BY <1>1, <1>2, AppendProperties
<1>4. \A k \in 1..Len(reqs) : reqs'[k] = reqs[k]
  BY <1>1, <1>2, AppendProperties
<1>5. \A k : Asked(k) => Asked(k)' /\ reqs'[k] = reqs[k]
  BY <1>2, <1>3, <1>4 DEF Asked
<1>6. TypeOK'
  BY <1>1, <1>2, <1>3, ConstantsAssumption DEF Inv, TypeOK
<1>7. \A x : Sized(x) => Sized(x)'
  BY <1>5 DEF Sized
<1>8. AllAnswer'
  BY <1>1, <1>5 DEF Inv, AllAnswer, Answers, ClientReads
<1> QED BY <1>1, <1>6, <1>7, <1>8 DEF Inv

LEMMA NextReq ==
  ASSUME TypeOK, handled < Len(reqs)
  PROVE  /\ Next1 \in Requests \cup {Unlink} /\ Next1 = reqs[handled + 1]
         /\ handled + 1 \in 1..Len(reqs) /\ handled + 1 \in 1..MaxReq
         /\ handled + 1 \in 0..Len(reqs)
BY ConstantsAssumption DEF TypeOK, Next1

LEMMA RetUnlinkInv == ASSUME Inv, RetUnlink PROVE Inv'
<1> DEFINE r == [req |-> handled + 1, status |-> 0, actual_length |-> 0, copied |-> 0,
                 size |-> HeaderSize, room |-> 0]
<1>1. /\ handled < Len(reqs) /\ Next1.cmd = "UNLINK" /\ handled' = handled + 1
      /\ stream' = Append(stream, r)
      /\ device' = device /\ mps' = mps /\ reqs' = reqs /\ flight' = flight
  BY DEF RetUnlink
<1>2. /\ Next1 \in Requests \cup {Unlink} /\ Next1 = reqs[handled + 1]
      /\ handled + 1 \in 1..Len(reqs) /\ handled + 1 \in 1..MaxReq
      /\ handled + 1 \in 0..Len(reqs)
  BY <1>1, NextReq DEF Inv
<1>3. Next1 = Unlink
  BY <1>1, <1>2 DEF Requests
<1>4. r \in Reply
  BY <1>2 DEF Reply, HeaderSize
<1>5. Answers(r)
  <2>1. reqs[handled + 1].len = 0 /\ reqs[handled + 1].dir = "OUT"
    BY <1>2, <1>3 DEF Unlink
  <2> QED BY <1>2, <2>1 DEF Answers, Asked, ClientReads, HeaderSize
<1> HIDE DEF r
<1>6. stream' \in Seq(Reply) /\ AllAnswer'
  BY <1>1, <1>4, <1>5, OneMore
<1>7. TypeOK'
  BY <1>1, <1>2, <1>6 DEF Inv, TypeOK
<1>8. \A x : Sized(x) => Sized(x)'
  BY <1>1 DEF Sized, Asked
<1> QED BY <1>1, <1>6, <1>7, <1>8 DEF Inv

LEMMA SubmitInv == ASSUME Inv, Submit PROVE Inv'
<1> DEFINE x == [req |-> handled + 1, num_bytes |-> NumBytes(Next1)]
<1>1. /\ handled < Len(reqs) /\ Next1.cmd = "SUBMIT" /\ Takes(Next1, NumBytes(Next1))
      /\ handled' = handled + 1 /\ flight' = flight \cup {x}
      /\ device' = device /\ mps' = mps /\ reqs' = reqs /\ stream' = stream
  BY DEF Submit
<1>2. /\ Next1 \in Requests \cup {Unlink} /\ Next1 = reqs[handled + 1]
      /\ handled + 1 \in 1..Len(reqs) /\ handled + 1 \in 1..MaxReq
      /\ handled + 1 \in 0..Len(reqs)
  BY <1>1, NextReq DEF Inv
<1>3. Next1 \in Requests
  BY <1>1, <1>2, RequestType
<1>4. /\ NumBytes(Next1) \in Nat /\ NumBytes(Next1) <= DataSize
      /\ Next1.ep = 0 => NumBytes(Next1) = Next1.len + SetupSize
      /\ Next1.ep # 0 /\ Next1.dir = "IN" /\ NumBytes(Next1) > 0 =>
           Next1.len <= NumBytes(Next1)
  BY <1>1, <1>3, NumBytesType DEF Takes, Inv, TypeOK
<1>5. x \in Transfer
  BY <1>2, <1>4 DEF Transfer
<1>6. x.req = handled + 1 /\ x.num_bytes = NumBytes(Next1)
  OBVIOUS
<1> HIDE DEF x
<1>7. Sized(x)
  BY <1>2, <1>4, <1>6 DEF Sized, Asked
<1>8. TypeOK'
  BY <1>1, <1>2, <1>5 DEF Inv, TypeOK
<1>9. \A y : Sized(y) => Sized(y)'
  BY <1>1 DEF Sized, Asked
<1>10. AllAnswer'
  BY <1>1 DEF Inv, AllAnswer, Answers, Asked, ClientReads
<1> QED BY <1>1, <1>7, <1>8, <1>9, <1>10 DEF Inv

LEMMA OtherInv ==
  ASSUME Inv, Drop \/ Unplug \/ (\E d \in Devices : Describe(d)) \/ UNCHANGED vars
  PROVE  Inv'
<1>1. reqs' = reqs /\ flight' = flight /\ stream' = stream
  BY DEF Drop, Unplug, Describe, vars
<1>2. handled' \in 0..Len(reqs')
  <2>1. CASE Drop
    BY <1>1, <2>1, NextReq DEF Drop, Inv
  <2>2. CASE ~Drop
    BY <1>1, <2>2 DEF Unplug, Describe, vars, Inv, TypeOK
  <2> QED BY <2>1, <2>2
<1>3. mps' \in [Slots -> Nat] /\ device' \in Devices \cup {NoDevice}
  <2>1. CASE \E d \in Devices : Describe(d)
    <3>1. PICK d \in Devices : Describe(d)
      BY <2>1
    <3>2. PICK parsed \in SUBSET DOMAIN d : mps' = Found(d, parsed)
      BY <3>1 DEF Describe
    <3>3. Found(d, parsed) \in [Slots -> Nat]
      BY FoundType DEF Inv, TypeOK
    <3> QED BY <3>1, <3>2, <3>3 DEF Describe
  <2>2. CASE Drop \/ Unplug \/ UNCHANGED vars
    BY <2>2 DEF Drop, Unplug, vars, Inv, TypeOK
  <2> QED BY <2>1, <2>2
<1>4. TypeOK'
  BY <1>1, <1>2, <1>3 DEF Inv, TypeOK
<1>5. \A y : Sized(y) => Sized(y)'
  BY <1>1 DEF Sized, Asked
<1>6. AllAnswer'
  BY <1>1 DEF Inv, AllAnswer, Answers, Asked, ClientReads
<1> QED BY <1>1, <1>4, <1>5, <1>6 DEF Inv

(* What either callback makes of a transfer, whatever the device did.       *)
LEMMA CompleteInv ==
  ASSUME Inv, NEW x \in flight, NEW s \in Statuses, NEW n \in Nat, Complete(x, s, n)
  PROVE  Inv'
<1> DEFINE q   == reqs[x.req]
           ret == IF q.ep = 0 THEN RetControl(q, s, n) ELSE RetOther(q)
           r   == [req |-> x.req, status |-> ret.status,
                   actual_length |-> ret.actual_length, copied |-> ret.copied,
                   size |-> ret.size, room |-> x.num_bytes]
<1>1. /\ n <= x.num_bytes /\ flight' = flight \ {x} /\ stream' = Append(stream, r)
      /\ device' = device /\ mps' = mps /\ reqs' = reqs /\ handled' = handled
  BY DEF Complete
<1>2. x.req \in 1..MaxReq /\ x.num_bytes \in Nat /\ x.req \in 1..Len(reqs)
  BY DEF Inv, TypeOK, Transfer, Sized, Asked
<1>3. q.ep \in 0..2 /\ q.dir \in {"IN", "OUT"} /\ q.len \in Nat
  <2>1. q \in Requests \cup {Unlink}
    BY <1>2 DEF Inv, TypeOK
  <2> HIDE DEF q
  <2> QED BY <2>1, RequestType
<1>4. /\ x.num_bytes <= DataSize
      /\ q.ep = 0 => x.num_bytes = q.len + SetupSize
      /\ q.ep # 0 /\ q.dir = "IN" /\ x.num_bytes > 0 => q.len <= x.num_bytes
  BY DEF Inv, Sized
<1> HIDE DEF q
<1>5. /\ ret.status \in {0, -32, -71}
      /\ ret.actual_length \in Nat /\ ret.copied \in Nat /\ ret.size \in Nat
      /\ ret.actual_length <= q.len
      /\ ret.size = HeaderSize + (IF q.dir = "IN" THEN ret.actual_length ELSE 0)
      /\ x.num_bytes > 0 => ret.copied <= x.num_bytes
  <2>1. CASE q.ep = 0
    <3> DEFINE len == DataLen(s, n)
    <3>1. len \in Nat /\ len <= n /\ len <= q.len
      BY <1>1, <1>2, <1>3, <1>4, <2>1 DEF DataLen, SetupSize
    <3>2. StatusOf(s) \in {0, -32, -71}
      BY DEF StatusOf, Statuses
    <3> HIDE DEF len
    <3>3. ret = [status |-> StatusOf(s), actual_length |-> len, copied |-> len,
                 size |-> HeaderSize + (IF q.dir = "IN" THEN len ELSE 0)]
      BY <2>1 DEF RetControl, len
    <3> QED BY <1>1, <1>2, <3>1, <3>2, <3>3 DEF HeaderSize
  <2>2. CASE q.ep # 0
    <3>1. ret = [status |-> 0, actual_length |-> q.len,
                 copied |-> IF q.dir = "IN" THEN q.len ELSE 0, size |-> SendSize(q)]
      BY <2>2 DEF RetOther
    <3>2. SendSize(q) = HeaderSize + (IF q.dir = "IN" THEN q.len ELSE 0)
      BY DEF SendSize
    <3> QED BY <1>2, <1>3, <1>4, <2>2, <3>1, <3>2 DEF HeaderSize
  <2> QED BY <2>1, <2>2
<1> HIDE DEF ret
<1>6. r \in Reply
  BY <1>2, <1>5 DEF Reply
<1>7. Answers(r)
  BY <1>2, <1>4, <1>5 DEF Answers, Asked, ClientReads, q
<1> HIDE DEF r
<1>8. stream' \in Seq(Reply) /\ AllAnswer'
  BY <1>1, <1>6, <1>7, OneMore
<1>9. TypeOK'
  BY <1>1, <1>8 DEF Inv, TypeOK
<1>10. \A y : Sized(y) => Sized(y)'
  BY <1>1 DEF Sized, Asked
<1> QED BY <1>1, <1>8, <1>9, <1>10 DEF Inv

LEMMA NextInv == Inv /\ [Next]_vars => Inv'
<1> SUFFICES ASSUME Inv, [Next]_vars PROVE Inv'
  OBVIOUS
<1>1. CASE \E x \in flight, s \in Statuses : \E n \in Actual(x) : Complete(x, s, n)
  <2>1. PICK x \in flight, s \in Statuses : \E n \in Actual(x) : Complete(x, s, n)
    BY <1>1
  <2>2. PICK n \in Actual(x) : Complete(x, s, n)
    BY <2>1
  <2>3. x.num_bytes \in Nat
    BY DEF Inv, TypeOK, Transfer
  <2>4. n \in Nat
    BY <2>3 DEF Actual
  <2> QED BY <2>2, <2>4, CompleteInv
<1> QED BY <1>1, AskInv, RetUnlinkInv, SubmitInv, OtherInv DEF Next

LEMMA Invariant == Spec => []Inv
BY InitInv, NextInv, PTL DEF Spec

-----------------------------------------------------------------------------
(* Every variable of RetSubmit keeps its type.                              *)
THEOREM TypeCorrect == Spec => []TypeOK
<1>1. Inv => TypeOK
  BY DEF Inv
<1> QED BY <1>1, Invariant, PTL

(* Both callbacks and do_recv send, with each reply, exactly the data that  *)
(* its header makes the client read.                                        *)
THEOREM StreamFramed == Spec => []ClientFramed
<1>1. Inv => ClientFramed
  BY DEF Inv, AllAnswer, Answers, ClientFramed
<1> QED BY <1>1, Invariant, PTL

(* No reply tells of more data than its request asked for.                  *)
THEOREM LengthCorrect == Spec => []NoMoreThanAsked
<1>1. Inv => NoMoreThanAsked
  BY DEF Inv, AllAnswer, Answers, NoMoreThanAsked
<1> QED BY <1>1, Invariant, PTL

(* No callback copies more than its transfer had, unless the packet size of *)
(* its endpoint was never found.                                            *)
THEOREM CopyCorrect == Spec => []AnswerFits
<1>1. Inv => AnswerFits
  BY DEF Inv, AllAnswer, Answers, AnswerFits
<1> QED BY <1>1, Invariant, PTL
=============================================================================
