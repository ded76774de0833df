----------------------------- MODULE UrbService -----------------------------
(***************************************************************************)
(* What the repeater's URB phase promises about USB/IP requests, with no   *)
(* tasks, queues, sockets or flags: every request goes once, forwards,     *)
(* through                                                                 *)
(*     unsent -> waiting -> device -> answered                             *)
(* and may be lost on the way, in silence; and the device is given the     *)
(* requests in the order in which they were sent.                          *)
(***************************************************************************)
EXTENDS Integers, TLAPS

CONSTANT MaxReq   \* bound on the requests sent

VARIABLE stage

Reqs   == 1..MaxReq
Stages == {"unsent", "waiting", "device", "answered", "lost"}

Init == stage = [s \in Reqs |-> "unsent"]

(* A client sends its next request.                                         *)
Send(s) ==
  /\ stage[s] = "unsent"
  /\ \A r \in 1..(s - 1) : stage[r] # "unsent"
  /\ stage' = [stage EXCEPT ![s] = "waiting"]

(* The oldest request that waits becomes a transfer.                        *)
Start(s) ==
  /\ stage[s] = "waiting"
  /\ \A r \in 1..(s - 1) : stage[r] # "waiting"
  /\ stage' = [stage EXCEPT ![s] = "device"]

(* A reply is written, for a transfer that has been with the device.        *)
Answer(s) ==
  /\ stage[s] = "device"
  /\ stage' = [stage EXCEPT ![s] = "answered"]

(* Requests are dropped without an answer: one by one by a failure, or all  *)
(* that were on their way when a connection was lost.                       *)
Lose(S) ==
  /\ \A s \in S : stage[s] \in {"waiting", "device"}
  /\ stage' = [s \in Reqs |-> IF s \in S THEN "lost" ELSE stage[s]]

Next == \/ \E s \in Reqs : Send(s) \/ Start(s) \/ Answer(s)
        \/ \E S \in SUBSET Reqs : Lose(S)

Spec == Init /\ [][Next]_stage

TypeOK == stage \in [Reqs -> Stages]

-----------------------------------------------------------------------------
(* What the device may conclude from a transfer: no older request is still  *)
(* to come.                                                                 *)
DeviceInOrder ==
  \A q, r \in Reqs :
    q < r /\ stage[r] = "device" => stage[q] \notin {"unsent", "waiting"}

(* The guards of Send and Start speak of older requests only at their step; *)
(* that it stays so needs that requests are sent in order, and that none    *)
(* begins to wait again.                                                    *)
InOrder ==
  \A q, r \in Reqs : q < r =>
    /\ stage[r] # "unsent" => stage[q] # "unsent"
    /\ stage[r] = "device" => stage[q] # "waiting"

LEMMA InitOrder == Init => TypeOK /\ InOrder
BY DEF Init, TypeOK, InOrder, Stages

LEMMA StepOrder == TypeOK /\ InOrder /\ [Next]_stage => TypeOK' /\ InOrder'
<1> SUFFICES ASSUME TypeOK, InOrder, [Next]_stage PROVE TypeOK' /\ InOrder'
  OBVIOUS
<1> USE DEF TypeOK, Stages
<1>1. ASSUME NEW r \in Reqs, Send(r) PROVE TypeOK' /\ InOrder'
  <2>1. \A q \in Reqs : q < r => stage[q] # "unsent"
    BY <1>1 DEF Send, Reqs
  <2>2. /\ \A q \in Reqs : stage'[q] = IF q = r THEN "waiting" ELSE stage[q]
        /\ stage[r] = "unsent" /\ TypeOK'
    BY <1>1 DEF Send
  <2> QED BY <2>1, <2>2 DEF InOrder
<1>2. ASSUME NEW r \in Reqs, Start(r) PROVE TypeOK' /\ InOrder'
  <2>1. \A q \in Reqs : q < r => stage[q] # "waiting"
    BY <1>2 DEF Start, Reqs
  <2>2. /\ \A q \in Reqs : stage'[q] = IF q = r THEN "device" ELSE stage[q]
        /\ stage[r] = "waiting" /\ TypeOK'
    BY <1>2 DEF Start
  <2> QED BY <2>1, <2>2 DEF InOrder
<1>3. ASSUME NEW r \in Reqs, Answer(r) PROVE TypeOK' /\ InOrder'
  <2>1. /\ \A q \in Reqs : stage'[q] = IF q = r THEN "answered" ELSE stage[q]
        /\ stage[r] = "device" /\ TypeOK'
    BY <1>3 DEF Answer
  <2> QED BY <2>1 DEF InOrder
<1>4. ASSUME NEW S \in SUBSET Reqs, Lose(S) PROVE TypeOK' /\ InOrder'
  BY <1>4 DEF Lose, InOrder
<1>5. CASE UNCHANGED stage
  BY <1>5 DEF InOrder
<1> QED BY <1>1, <1>2, <1>3, <1>4, <1>5 DEF Next

(* The device is given the requests in the order in which they were sent.   *)
THEOREM OrderPromised == Spec => []DeviceInOrder
<1>1. TypeOK /\ InOrder => DeviceInOrder
  BY DEF InOrder, DeviceInOrder
<1> QED BY InitOrder, StepOrder, <1>1, PTL DEF Spec
=============================================================================
